--------------------------- MODULE SessionProofs ----------------------------
(***************************************************************************)
(* Proofs about a call flow: Session, which walks a caller through it, and *)
(* FlowEditor, in which it is edited, drawn and checked.                   *)
(*                                                                         *)
(* Session, for every definition and every number of keys, scripts and     *)
(* read-outs: its types; a caller has heard, or is about to hear, the      *)
(* announcement of the menu the next key belongs to; while a call lasts, a *)
(* script that no other overlaps has the caller's keys; and Stop cancels   *)
(* what every script runs on.                                              *)
(*                                                                         *)
(* FlowEditor, for every number of menus, actions, queues, connections and *)
(* clicks: its types, and that what is drawn is what is saved, accepted    *)
(* and run, the edge that an emptied field has left over aside. The        *)
(* invariant says of which kind an action is, whatever its panel has done  *)
(* to it.                                                                  *)
(***************************************************************************)
EXTENDS Session, FlowEditor, SequenceTheorems, FiniteSetTheorems, WellFoundedInduction, TLAPS

-----------------------------------------------------------------------------
(* The session.                                                            *)

-----------------------------------------------------------------------------
(* Types.                                                                  *)

Kind == {"none", "play", "script", "queue", "hangup", "fn", "srv", "genericjson",
         "exit", "clear", "return"}

\* What the loop may be given to do: an action of the definition, or its own.
Doable(a) ==
  /\ a.kind \in Kind
  /\ a.kind \in {"fn", "genericjson"} => a.to \in Fn \cup {None}
  /\ a.kind = "srv" => a.input \in Nat

LEMMA ActionsAreDoable ==
  /\ \A a \in Action : Doable(a)
  /\ \A f \in Fn \cup {None} : Doable(Enters(f))
  /\ Doable(Nothing) /\ Doable([kind |-> "srv", input |-> 0])
  /\ \A k \in {"exit", "clear", "return"} : Doable([kind |-> k])
<1>1. \A a \in [kind : {"none", "play", "script", "queue", "hangup"}] : Doable(a)
  BY DEF Doable, Kind
<1>2. \A a \in [kind : {"fn"}, to : Fn \cup {None}] : Doable(a)
  BY DEF Doable, Kind
<1>3. \A a \in [kind : {"srv"}, input : Nat] : Doable(a)
  BY DEF Doable, Kind
<1>4. \A a \in [kind : {"genericjson"}, to : Fn \cup {None}] : Doable(a)
  BY DEF Doable, Kind
<1>5. \A a \in Action : Doable(a)
  BY <1>1, <1>2, <1>3, <1>4 DEF Action
<1> QED BY <1>5 DEF Doable, Kind, Enters, Nothing

\* The definition, the menus and what the loop has in hand.
LoopTypes ==
  /\ def \in Definition
  /\ pc \in {"select", "act", "await", "queue", "stranded", "ended"} /\ Doable(act)
  /\ hook \in BOOLEAN /\ stack \in Seq(Fn) /\ collector \in (Nat \ {0}) \cup {None}

\* The phone and the channels.
ChannelTypes ==
  /\ hookCh \in Seq(BOOLEAN) /\ keyCh \in Seq(Key \cup {Zero}) /\ moves \in 0..MaxMoves
  /\ prefixes \in 0..PrefixCap /\ advance \in Seq(Fn)
  /\ scriptKeys \in 0..ScriptKeyCap /\ scriptDone \in Seq(Fn \cup {None})

\* The flags and the other goroutines.
GoroutineTypes ==
  /\ activeScript \in BOOLEAN /\ activeDispatcher \in BOOLEAN
  /\ ctx \in {"none", "live", "stray", "over"}
  /\ scripts \in 0..MaxScripts /\ readouts \in [Readout -> Fn \cup {None}]
  /\ queue \in {"off", "runs", "drains", "receives", "cancels", "finishes", "ends"}
  /\ toSend \in Nat /\ actions \in 0..ActionCap /\ player \in {"off", "waits", "plays", "stranded"}
  /\ stop \in {"none", "closed", "silent", "done", "killing", "stuck", "returned"} /\ hungup \in BOOLEAN
  /\ announced \in Fn \cup {None} /\ overlapped \in BOOLEAN

SessionTypes == LoopTypes /\ ChannelTypes /\ GoroutineTypes

LEMMA TypesAreTypeOK == SessionTypes => TypeOK
BY DEF SessionTypes, LoopTypes, ChannelTypes, GoroutineTypes, TypeOK, Doable, Kind

LEMMA InitSessionTypes == Init => SessionTypes
<1> SUFFICES ASSUME Init PROVE SessionTypes
  OBVIOUS
<1>1. LoopTypes
  <2>1. Doable(act)
    BY ActionsAreDoable DEF Init
  <2>2. stack \in Seq(Fn)
    BY DEF Init
  <2> QED BY <2>1, <2>2 DEF Init, LoopTypes
<1>2. MaxMoves \in Nat /\ MaxScripts \in Nat /\ PrefixCap \in Nat /\ ScriptKeyCap \in Nat
      /\ ActionCap \in Nat
  BY SessionAssumption DEF SessionAssumption
<1>3. ChannelTypes
  <2>1. hookCh \in Seq(BOOLEAN)
    BY DEF Init
  <2>2. keyCh \in Seq(Key \cup {Zero}) /\ advance \in Seq(Fn) /\ scriptDone \in Seq(Fn \cup {None})
    BY DEF Init
  <2> QED BY <1>2, <2>1, <2>2 DEF Init, ChannelTypes
<1>4. GoroutineTypes
  <2>1. readouts \in [Readout -> Fn \cup {None}]
    BY DEF Init
  <2>2. hungup \in BOOLEAN /\ activeScript \in BOOLEAN /\ activeDispatcher \in BOOLEAN
        /\ overlapped \in BOOLEAN
    BY DEF Init
  <2> QED BY <1>2, <2>1, <2>2 DEF Init, GoroutineTypes
<1> QED BY <1>1, <1>3, <1>4 DEF SessionTypes

LEMMA CurrentIsMenu == LoopTypes => Current \in Fn
<1> SUFFICES ASSUME LoopTypes PROVE Current \in Fn
  OBVIOUS
<1>1. def.entry \in Fn
  BY SessionAssumption DEF SessionAssumption, LoopTypes
<1>2. stack # <<>> => Last(stack) \in Fn
  BY DEF LoopTypes, Last
<1> QED BY <1>1, <1>2 DEF Current

\* The loop goes on with something it may do.
LEMMA GoesOn ==
  ASSUME NEW a, Doable(a), Goes(a)
  PROVE  Doable(act)' /\ pc' \in {"select", "act"}
BY DEF Goes, Doable

LEMMA NextLoopTypes == SessionTypes /\ [Next]_vars => LoopTypes'
<1> SUFFICES ASSUME SessionTypes, [Next]_vars PROVE LoopTypes'
  OBVIOUS
<1>0. LoopTypes /\ Current \in Fn
  BY CurrentIsMenu DEF SessionTypes
<1>1. ASSUME UNCHANGED <<def, act, menu>>, pc' \in {"select", "act", "await", "queue", "stranded", "ended"}
      PROVE  LoopTypes'
  BY <1>0, <1>1 DEF LoopTypes, menu, Doable
<1>2. ASSUME NEW a, Doable(a), Goes(a), UNCHANGED <<def, menu>> PROVE LoopTypes'
  BY <1>0, <1>2, GoesOn DEF LoopTypes, menu
<1>3. /\ def \in Definition /\ def.entry \in Fn /\ def.keys \in [Fn -> [Key -> Action]]
      /\ def.auto \in [Fn -> Action] /\ def.end \in Action
  BY <1>0, SessionAssumption DEF SessionAssumption, LoopTypes
<1>4. CASE LiftHook
  <2>1. CASE hook
    BY <1>0, <1>1, <1>4, <2>1 DEF LiftHook, LoopTypes
  <2>2. CASE ~hook
    BY <1>0, <1>3, <1>4, <2>2, ActionsAreDoable, GoesOn DEF LiftHook, LoopTypes
  <2> QED BY <2>1, <2>2
<1>5. CASE SlamHook
  <2>1. <<>> \in Seq(Fn)
    OBVIOUS
  <2>2. UNCHANGED <<def, pc, act>> /\ hook' = FALSE /\ stack' = <<>> /\ collector' = None
    BY <1>5 DEF SlamHook
  <2>3. Doable(act)'
    BY <1>0, <2>2 DEF LoopTypes, Doable
  <2> QED BY <1>0, <2>1, <2>2, <2>3 DEF LoopTypes
<1>6. ASSUME NEW k \in Key \cup {Zero}, IgnoreKey(k) \/ KeyToScript(k) PROVE LoopTypes'
  BY <1>0, <1>1, <1>6 DEF IgnoreKey, KeyToScript, LoopTypes
<1>7. ASSUME NEW k \in Key \cup {Zero}, KeyToCollector(k) PROVE LoopTypes'
  <2>1. CASE collector = 1
    BY <1>0, <1>7, <2>1, ActionsAreDoable, GoesOn DEF KeyToCollector, LoopTypes
  <2>2. CASE collector # 1
    <3>1. collector \in Nat \ {0, 1}
      BY <1>0, <1>7, <2>2 DEF KeyToCollector, LoopTypes
    <3>2. collector - 1 \in Nat \ {0}
      BY <3>1
    <3> QED BY <1>0, <1>7, <2>2, <3>2 DEF KeyToCollector, LoopTypes, Doable
  <2> QED BY <2>1, <2>2
<1>8. ASSUME NEW k \in Key \cup {Zero}, KeyToMenu(k) PROVE LoopTypes'
  <2>1. CASE k # Zero
    <3>1. k \in Key /\ def.keys[Current][k] \in Action
      BY <1>0, <1>3, <2>1
    <3>2. Goes(def.keys[Current][k])
      BY <1>8, <2>1 DEF KeyToMenu
    <3> QED BY <1>2, <1>8, <3>1, <3>2, ActionsAreDoable DEF KeyToMenu
  <2>2. CASE k = Zero
    <3>1. Goes([kind |-> "clear"]) \/ Goes([kind |-> "exit"])
      BY <1>8, <2>2 DEF KeyToMenu
    <3> QED BY <1>2, <1>8, <3>1, ActionsAreDoable DEF KeyToMenu
  <2> QED BY <2>1, <2>2
<1>9. CASE Advance
  <2>1. CASE hook
    <3>1. Head(advance) \in Fn
      BY <1>9 DEF Advance, SessionTypes, ChannelTypes
    <3> QED BY <1>2, <1>9, <2>1, <3>1, ActionsAreDoable DEF Advance
  <2>2. CASE ~hook
    BY <1>0, <1>1, <1>9, <2>2 DEF Advance, LoopTypes
  <2> QED BY <2>1, <2>2
<1>10. CASE HandleScriptDone
  <2>1. CASE hook
    <3>1. Head(scriptDone) \in Fn \cup {None}
      BY <1>10 DEF HandleScriptDone, SessionTypes, ChannelTypes
    <3>2. Goes(Enters(Head(scriptDone))) \/ Goes([kind |-> "return"])
      BY <1>10, <2>1 DEF HandleScriptDone
    <3> QED BY <1>2, <1>10, <3>1, <3>2, ActionsAreDoable DEF HandleScriptDone
  <2>2. CASE ~hook
    BY <1>0, <1>1, <1>10, <2>2 DEF HandleScriptDone, LoopTypes
  <2> QED BY <2>1, <2>2
<1>11. CASE HandlePrefix \/ SessionStopped \/ LoopStrands
  BY <1>0, <1>1, <1>11 DEF HandlePrefix, SessionStopped, LoopStrands, LoopTypes
<1>12. CASE EnterFunction
  <2>1. CASE act.to = None
    BY <1>0, <1>12, <2>1, ActionsAreDoable, GoesOn DEF EnterFunction, LoopTypes
  <2>2. CASE act.to # None
    <3>1. act.to \in Fn
      BY <1>0, <1>12, <2>2 DEF EnterFunction, Acts, LoopTypes, Doable
    <3>2. Doable(def.auto[act.to])
      BY <1>3, <3>1, ActionsAreDoable
    <3>3. stack' \in Seq(Fn)
      BY <1>0, <1>12, <2>2, <3>1 DEF EnterFunction, LoopTypes
    <3> QED BY <1>0, <1>12, <2>2, <3>2, <3>3, GoesOn DEF EnterFunction, LoopTypes
  <2> QED BY <2>1, <2>2
<1>13. CASE ExitFunction
  <2>1. CASE Len(stack) > 1
    <3>1. Front(stack) \in Seq(Fn)
      BY <1>0, <2>1 DEF LoopTypes, Front
    <3> QED BY <1>0, <1>13, <2>1, <3>1, ActionsAreDoable, GoesOn DEF ExitFunction, LoopTypes
  <2>2. CASE ~(Len(stack) > 1)
    BY <1>0, <1>13, <2>2, ActionsAreDoable, GoesOn DEF ExitFunction, LoopTypes
  <2> QED BY <2>1, <2>2
<1>14. CASE ClearCallstack
  BY <1>0, <1>3, <1>14, ActionsAreDoable, GoesOn DEF ClearCallstack, LoopTypes
<1>15. CASE ReturnToCurrent \/ Play \/ HandleHangup \/ RequestEnds
  BY <1>2, <1>15, ActionsAreDoable DEF ReturnToCurrent, Play, HandleHangup, RequestEnds
<1>16. CASE Request
  <2>1. CASE act.kind = "srv" /\ act.input > 0
    <3>1. act.input \in Nat \ {0}
      BY <1>0, <2>1 DEF LoopTypes, Doable
    <3> QED BY <1>0, <1>16, <2>1, <3>1, ActionsAreDoable, GoesOn DEF Request, LoopTypes
  <2>2. CASE ~(act.kind = "srv" /\ act.input > 0)
    BY <1>0, <1>16, <2>2 DEF Request, LoopTypes, Doable
  <2> QED BY <2>1, <2>2
<1>17. CASE HandleScript
  BY <1>2, <1>17, ActionsAreDoable DEF HandleScript
<1>18. CASE HandleDispatcher
  BY <1>1, <1>18 DEF HandleDispatcher
<1>19. ASSUME NEW r \in Readout, ResultAdvances(r) PROVE LoopTypes'
  BY <1>2, <1>19, ActionsAreDoable DEF ResultAdvances
<1>20. CASE DispatcherFinished
  <2>1. Goes(def.end) \/ Goes(Nothing)
    BY <1>20 DEF DispatcherFinished
  <2> QED BY <1>2, <1>3, <1>20, <2>1, ActionsAreDoable DEF DispatcherFinished
<1>21. CASE UNCHANGED <<def, pc, act, menu>>
  BY <1>0, <1>1, <1>21 DEF LoopTypes
<1>22. ASSUME NEW k \in Key \cup {Zero}, Press(k) PROVE LoopTypes'
  BY <1>21, <1>22 DEF Press
<1>23. CASE ScriptReadsKey \/ Queue \/ Cleanup \/ UNCHANGED vars
  BY <1>21, <1>23 DEF ScriptReadsKey, Queue, QueueSends, QueuePrompts, QueueEnds, QueueDrains,
    QueueReceives, QueueCancels, PlayerTakes, PlayerPlayed, Cleanup, ClosePhone, CloseStream, StopCloses,
    StopCancels, StopKills, vars
<1>24. ASSUME NEW d \in Fn \cup {None}, ScriptReturns(d) \/ ScriptStrands PROVE LoopTypes'
  BY <1>21, <1>24 DEF ScriptReturns, ScriptStrands
<1>25. ASSUME NEW r \in Readout, ReadoutEnds(r) \/ ReadoutStrands(r) PROVE LoopTypes'
  BY <1>21, <1>25 DEF ReadoutEnds, ReadoutStrands
<1> QED
  BY <1>4, <1>5, <1>6, <1>7, <1>8, <1>9, <1>10, <1>11, <1>12, <1>13, <1>14, <1>15, <1>16, <1>17,
     <1>18, <1>19, <1>20, <1>22, <1>23, <1>24, <1>25 DEF Next, Select, HandleAction, Awaits

LEMMA NextChannelTypes == SessionTypes /\ [Next]_vars => ChannelTypes'
<1> SUFFICES ASSUME LoopTypes, ChannelTypes, GoroutineTypes, [Next]_vars PROVE ChannelTypes'
  BY DEF SessionTypes
<1>0. MaxMoves \in Nat /\ PrefixCap \in Nat /\ ScriptKeyCap \in Nat
  BY SessionAssumption DEF SessionAssumption
<1> USE DEF ChannelTypes, phone, chans
<1>1. CASE UNCHANGED <<phone, chans>>
  BY <1>1
<1>2. ASSUME NEW k \in Key \cup {Zero}, Press(k) PROVE ChannelTypes'
  <2>1. keyCh' \in Seq(Key \cup {Zero}) /\ moves' \in 0..MaxMoves
    BY <1>0, <1>2 DEF Press
  <2> QED BY <1>2, <2>1 DEF Press
<1>3. CASE LiftHook \/ SlamHook
  <2>1. hookCh # <<>> /\ hookCh' = Tail(hookCh) /\ UNCHANGED <<keyCh, moves, chans>>
    BY <1>3 DEF LiftHook, SlamHook
  <2> QED BY <2>1
<1>4. ASSUME NEW k \in Key \cup {Zero},
             IgnoreKey(k) \/ KeyToScript(k) \/ KeyToCollector(k) \/ KeyToMenu(k)
      PROVE  ChannelTypes'
  <2>1. /\ keyCh # <<>> /\ keyCh' = Tail(keyCh)
        /\ UNCHANGED <<hookCh, moves, prefixes, advance, scriptDone>>
        /\ scriptKeys' \in 0..ScriptKeyCap
    BY <1>0, <1>4 DEF IgnoreKey, KeyToScript, KeyToCollector, KeyToMenu, Reads
  <2> QED BY <2>1
<1>5. CASE Advance
  <2>1. advance # <<>> /\ advance' = Tail(advance)
        /\ UNCHANGED <<phone, prefixes, scriptKeys, scriptDone>>
    BY <1>5 DEF Advance
  <2> QED BY <2>1
<1>6. CASE HandleScriptDone
  <2>1. scriptDone # <<>> /\ scriptDone' = Tail(scriptDone)
        /\ UNCHANGED <<phone, prefixes, scriptKeys, advance>>
    BY <1>6 DEF HandleScriptDone
  <2> QED BY <2>1
<1>7. CASE HandlePrefix \/ LoopStrands
  <2>1. prefixes' \in 0..PrefixCap
    BY <1>0, <1>7 DEF HandlePrefix, LoopStrands
  <2> QED BY <1>7, <2>1 DEF HandlePrefix, LoopStrands
<1>8. CASE EnterFunction \/ ExitFunction \/ ClearCallstack \/ ReturnToCurrent
  <2>1. prefixes' = prefixes \/ Signals
    BY <1>8 DEF EnterFunction, ExitFunction, ClearCallstack, ReturnToCurrent
  <2>2. prefixes' \in 0..PrefixCap
    BY <1>0, <2>1 DEF Signals
  <2> QED
    BY <1>8, <2>2 DEF EnterFunction, ExitFunction, ClearCallstack, ReturnToCurrent
<1>9. CASE HandleScript
  BY <1>0, <1>9 DEF HandleScript
<1>10. CASE ScriptReadsKey
  <2>1. scriptKeys' \in 0..ScriptKeyCap
    BY <1>0, <1>10 DEF ScriptReadsKey
  <2> QED BY <1>10, <2>1 DEF ScriptReadsKey
<1>11. ASSUME NEW d \in Fn \cup {None}, ScriptReturns(d) PROVE ChannelTypes'
  <2>1. scriptDone' \in Seq(Fn \cup {None})
    <3>1. <<d>> \in Seq(Fn \cup {None})
      OBVIOUS
    <3>2. scriptDone' = <<d>> \/ scriptDone' = scriptDone
      BY <1>11 DEF ScriptReturns
    <3> QED BY <3>1, <3>2
  <2>2. moves' \in 0..MaxMoves
    BY <1>0, <1>11 DEF ScriptReturns, Moves
  <2> QED BY <1>11, <2>1, <2>2 DEF ScriptReturns, Moves
<1>12. ASSUME NEW r \in Readout, ReadoutEnds(r) PROVE ChannelTypes'
  <2>1. readouts[r] \in Fn
    BY <1>12 DEF ReadoutEnds, GoroutineTypes
  <2>2. advance' \in Seq(Fn)
    <3>1. <<readouts[r]>> \in Seq(Fn)
      BY <2>1
    <3>2. advance' = <<readouts[r]>> \/ advance' = advance
      BY <1>12 DEF ReadoutEnds
    <3> QED BY <3>1, <3>2
  <2> QED BY <1>12, <2>2 DEF ReadoutEnds
<1>13. CASE ClosePhone
  <2>1. hookCh' \in Seq(BOOLEAN)
    BY <1>13 DEF ClosePhone
  <2> QED BY <1>13, <2>1 DEF ClosePhone
<1>14. ASSUME NEW r \in Readout, ResultAdvances(r) PROVE UNCHANGED <<phone, chans>>
  BY <1>14 DEF ResultAdvances
<1>16. ASSUME NEW r \in Readout, ReadoutStrands(r) PROVE ChannelTypes'
  BY <1>1, <1>16 DEF ReadoutStrands
<1>15. CASE Play \/ HandleHangup \/ Request \/ HandleDispatcher \/ SessionStopped \/ RequestEnds
            \/ DispatcherFinished \/ Queue \/ CloseStream \/ StopCloses \/ StopCancels \/ StopKills
            \/ ScriptStrands \/ UNCHANGED vars
  BY <1>1, <1>15 DEF ScriptStrands, Play, HandleHangup, Request, HandleDispatcher, SessionStopped, RequestEnds,
    DispatcherFinished, Queue, QueueSends, QueuePrompts, QueueEnds, QueueDrains, QueueReceives,
    QueueCancels, PlayerTakes, PlayerPlayed, CloseStream, StopCloses, StopCancels, StopKills, vars
<1> QED
  BY <1>1, <1>2, <1>3, <1>4, <1>5, <1>6, <1>7, <1>8, <1>9, <1>10, <1>11, <1>12, <1>13, <1>14, <1>15,
     <1>16
  DEF Next, Select, HandleAction, Awaits, Cleanup

LEMMA NextGoroutineTypes == SessionTypes /\ [Next]_vars => GoroutineTypes'
<1> SUFFICES ASSUME LoopTypes, GoroutineTypes, [Next]_vars PROVE GoroutineTypes'
  BY DEF SessionTypes
<1>0. MaxScripts \in Nat /\ ActionCap \in Nat /\ Current \in Fn
  BY SessionAssumption, CurrentIsMenu DEF SessionAssumption
<1> USE DEF GoroutineTypes, flags, spawned, line, ending, history
<1>1. CASE UNCHANGED <<flags, spawned, line, ending, history>>
  <2>1. /\ activeScript' \in BOOLEAN /\ activeDispatcher' \in BOOLEAN
        /\ hungup' \in BOOLEAN /\ overlapped' \in BOOLEAN
    BY <1>1
  <2>2. /\ ctx' = ctx /\ scripts' = scripts /\ readouts' = readouts /\ queue' = queue
        /\ toSend' = toSend /\ actions' = actions /\ player' = player /\ stop' = stop
        /\ announced' = announced
    BY <1>1
  <2> QED BY <2>1, <2>2
<1>2. CASE LiftHook
  <2>1. ctx' \in {"none", "live", "stray", "over"}
    BY <1>2 DEF LiftHook
  <2> QED BY <1>2, <2>1 DEF LiftHook
<1>3. CASE SlamHook
  <2>1. ctx' \in {"none", "live", "stray", "over"}
    BY <1>3 DEF SlamHook
  <2> QED BY <1>3, <2>1 DEF SlamHook
<1>4. CASE HandleScriptDone
  <2>1. UNCHANGED <<ctx, scripts, readouts, queue, toSend, actions, player, stop, announced>>
    BY <1>4 DEF HandleScriptDone
  <2>2. /\ activeScript' \in BOOLEAN /\ activeDispatcher' \in BOOLEAN
        /\ hungup' \in BOOLEAN /\ overlapped' \in BOOLEAN
    BY <1>4 DEF HandleScriptDone
  <2> QED BY <2>1, <2>2
<1>5. CASE HandlePrefix
  BY <1>0, <1>5 DEF HandlePrefix
<1>6. CASE ReturnToCurrent
  <2>1. hungup' \in BOOLEAN
    BY <1>6 DEF ReturnToCurrent
  <2> QED BY <1>6, <2>1 DEF ReturnToCurrent
<1>7. CASE HandleHangup
  BY <1>7 DEF HandleHangup
<1>8. ASSUME NEW r \in Readout, ResultAdvances(r) PROVE GoroutineTypes'
  <2>1. act.to \in Fn \cup {None}
    BY <1>8 DEF ResultAdvances, LoopTypes, Doable
  <2>2. readouts' \in [Readout -> Fn \cup {None}]
    BY <1>8, <2>1 DEF ResultAdvances
  <2> QED BY <1>8, <2>2 DEF ResultAdvances
<1>9. CASE HandleScript
  <2>1. scripts' \in 0..MaxScripts
    BY <1>0, <1>9 DEF HandleScript
  <2>2. overlapped' \in BOOLEAN
    BY <1>9 DEF HandleScript
  <2> QED BY <1>9, <2>1, <2>2 DEF HandleScript
<1>10. CASE HandleDispatcher
  <2>1. toSend' \in Nat /\ actions' \in 0..ActionCap
    BY <1>0, <1>10 DEF HandleDispatcher
  <2> QED BY <1>10, <2>1 DEF HandleDispatcher
<1>11. CASE DispatcherFinished
  <2>1. stop' \in {"none", "closed", "silent", "done", "killing", "stuck", "returned"}
    BY <1>11 DEF DispatcherFinished
  <2> QED BY <1>11, <2>1 DEF DispatcherFinished
<1>12. ASSUME NEW d \in Fn \cup {None}, ScriptReturns(d) \/ ScriptStrands PROVE GoroutineTypes'
  <2>1. scripts' \in 0..MaxScripts
    BY <1>0, <1>12 DEF ScriptReturns, ScriptStrands
  <2> QED BY <1>12, <2>1 DEF ScriptReturns, ScriptStrands
<1>13. ASSUME NEW r \in Readout, ReadoutEnds(r) \/ ReadoutStrands(r) PROVE GoroutineTypes'
  <2>1. readouts' \in [Readout -> Fn \cup {None}]
    BY <1>13 DEF ReadoutEnds, ReadoutStrands
  <2> QED BY <1>13, <2>1 DEF ReadoutEnds, ReadoutStrands
<1>14. CASE Queue
  <2>1. toSend' \in Nat /\ actions' \in 0..ActionCap
    BY <1>0, <1>14 DEF Queue, QueueSends, QueuePrompts, QueueEnds, QueueDrains, QueueReceives,
      QueueCancels, PlayerTakes, PlayerPlayed
  <2>2. /\ queue' \in {"off", "runs", "drains", "receives", "cancels", "finishes", "ends"}
        /\ player' \in {"off", "waits", "plays", "stranded"}
    BY <1>14 DEF Queue, QueueSends, QueuePrompts, QueueEnds, QueueDrains, QueueReceives,
      QueueCancels, PlayerTakes, PlayerPlayed
  <2>3. UNCHANGED <<flags, spawned, ending, history>>
    BY <1>14 DEF Queue, QueueSends, QueuePrompts, QueueEnds, QueueDrains, QueueReceives,
      QueueCancels, PlayerTakes, PlayerPlayed
  <2> QED BY <2>1, <2>2, <2>3
<1>15. CASE Cleanup
  <2>1. /\ stop' \in {"none", "closed", "silent", "done", "killing", "stuck", "returned"}
        /\ ctx' \in {"none", "live", "stray", "over"}
        /\ queue' \in {"off", "runs", "drains", "receives", "cancels", "finishes", "ends"}
    BY <1>15 DEF Cleanup, ClosePhone, CloseStream, StopCloses, StopCancels, StopKills
  <2>2. UNCHANGED <<activeScript, activeDispatcher, spawned, toSend, actions, player, hungup,
                    history>>
    BY <1>15 DEF Cleanup, ClosePhone, CloseStream, StopCloses, StopCancels, StopKills
  <2> QED BY <2>1, <2>2
<1>16. ASSUME NEW k \in Key \cup {Zero},
              IgnoreKey(k) \/ KeyToScript(k) \/ KeyToCollector(k) \/ KeyToMenu(k) \/ Press(k)
       PROVE  GoroutineTypes'
  BY <1>1, <1>16 DEF IgnoreKey, KeyToScript, KeyToCollector, KeyToMenu, Press
<1>17. CASE Advance \/ SessionStopped \/ RequestEnds \/ ScriptReadsKey \/ UNCHANGED vars
  BY <1>1, <1>17 DEF Advance, SessionStopped, RequestEnds, ScriptReadsKey, vars
<1>18. CASE EnterFunction \/ ExitFunction \/ ClearCallstack \/ Play \/ Request \/ LoopStrands
  BY <1>1, <1>18 DEF LoopStrands, EnterFunction, ExitFunction, ClearCallstack, Play, Request
<1> QED
  BY <1>2, <1>3, <1>4, <1>5, <1>6, <1>7, <1>8, <1>9, <1>10, <1>11, <1>12, <1>13, <1>14, <1>15,
     <1>16, <1>17, <1>18 DEF Next, Select, HandleAction, Awaits

LEMMA SessionTyped == Init /\ [][Next]_vars => []SessionTypes
<1>1. SessionTypes /\ [Next]_vars => SessionTypes'
  BY NextLoopTypes, NextChannelTypes, NextGoroutineTypes DEF SessionTypes
<1> QED BY <1>1, InitSessionTypes, PTL

\* Every variable of Session keeps its type: no channel exceeds its capacity, and the
\* loop is given nothing but actions of the definition and its own.
THEOREM SessionTypeCorrect == Spec => []TypeOK
BY SessionTyped, TypesAreTypeOK, PTL DEF Spec


-----------------------------------------------------------------------------
(* The inductive invariant.                                                *)

Counters == prefixes \in Nat /\ scripts \in Nat

\* Between the select and the end of an action the announcement may also be
\* owed by the "return" that exitFunction and handleScriptDone end with.
Announced ==
  stack # <<>> /\ prefixes = 0 /\ pc # "stranded" =>
    announced = Current \/ hungup \/ (pc = "act" /\ act.kind = "return")

IInv == Counters /\ Announced

LEMMA InitIInv == Init => IInv
  BY DEF Init, IInv, Counters, Announced

LEMMA SignalsRaise == Counters /\ Signals => prefixes' \in Nat /\ prefixes' # 0
  BY SMT DEF Counters, Signals

-----------------------------------------------------------------------------
(* Announcements.                                                          *)

\* Steps that leave alone what Announced is about.
LEMMA Elsewhere ==
  ASSUME Announced, UNCHANGED <<def, stack, prefixes, announced>>, hungup => hungup',
         pc = "act" /\ act.kind = "return" => pc' = "act" /\ act' = act,
         pc = "stranded" => pc' = "stranded"
  PROVE  Announced'
  BY DEF Announced, Current

LEMMA SelectAnnounced == IInv /\ Select => Announced'
<1> SUFFICES ASSUME IInv, Select PROVE Announced'
  OBVIOUS
<1> USE DEF IInv, history
<1>1. CASE LiftHook
  BY <1>1, Elsewhere DEF LiftHook, Idle, menu, chans, ending
<1>2. CASE SlamHook
  BY <1>2 DEF SlamHook, Announced
<1>3. CASE Advance
  BY <1>3, Elsewhere DEF Advance, Idle, menu, ending
<1>4. CASE HandleScriptDone
  BY <1>4, Elsewhere DEF HandleScriptDone, Idle, menu, ending
<1>5. CASE HandlePrefix
  BY <1>5 DEF HandlePrefix, Announced, Current, menu
<1>6. ASSUME NEW k \in Key \cup {Zero}, IgnoreKey(k) PROVE Announced'
  BY <1>6, Elsewhere DEF IgnoreKey, Reads, Idle, menu, chans, ending
<1>7. ASSUME NEW k \in Key \cup {Zero}, KeyToScript(k) PROVE Announced'
  BY <1>7, Elsewhere DEF KeyToScript, Reads, Idle, menu, ending
<1>8. ASSUME NEW k \in Key \cup {Zero}, KeyToCollector(k) PROVE Announced'
  BY <1>8, Elsewhere DEF KeyToCollector, Reads, Idle, chans, ending
<1>9. ASSUME NEW k \in Key \cup {Zero}, KeyToMenu(k) PROVE Announced'
  BY <1>9, Elsewhere DEF KeyToMenu, Reads, Idle, menu, chans, ending
<1> QED
  BY <1>1, <1>2, <1>3, <1>4, <1>5, <1>6, <1>7, <1>8, <1>9 DEF Select

LEMMA ActionAnnounced == IInv /\ HandleAction => Announced'
<1> SUFFICES ASSUME IInv, HandleAction PROVE Announced'
  OBVIOUS
<1> USE DEF IInv, history
<1>1. CASE EnterFunction
  <2>1. CASE act.to = None
    BY <1>1, <2>1, Elsewhere DEF EnterFunction, Acts, ending
  <2>2. CASE act.to # None
    BY <1>1, <2>2, SignalsRaise DEF EnterFunction, Announced
  <2> QED
    BY <2>1, <2>2
<1>2. CASE ExitFunction
  <2>1. CASE Len(stack) > 1
    BY <1>2, <2>1 DEF ExitFunction, Goes, Announced
  <2>2. CASE ~(Len(stack) > 1)
    BY <1>2, <2>2, Elsewhere DEF ExitFunction, Acts, chans, ending
  <2> QED
    BY <2>1, <2>2
<1>3. CASE ClearCallstack
  BY <1>3, SignalsRaise DEF ClearCallstack, Announced
<1>4. CASE ReturnToCurrent
  <2>1. CASE Current \in def.hangs
    BY <1>4, <2>1 DEF ReturnToCurrent, Announced
  <2>2. CASE Current \notin def.hangs
    BY <1>4, <2>2, SignalsRaise DEF ReturnToCurrent, Announced
  <2> QED
    BY <2>1, <2>2
<1>5. CASE Play
  BY <1>5, Elsewhere DEF Play, Acts, menu, chans, ending
<1>6. CASE HandleHangup
  BY <1>6 DEF HandleHangup, Announced
<1>7. CASE Request
  BY <1>7, Elsewhere DEF Request, Acts, chans, ending
<1>8. CASE HandleScript
  BY <1>8, Elsewhere DEF HandleScript, Acts, menu, ending
<1>9. CASE HandleDispatcher
  BY <1>9, Elsewhere DEF HandleDispatcher, Acts, menu, chans, ending
<1> QED
  BY <1>1, <1>2, <1>3, <1>4, <1>5, <1>6, <1>7, <1>8, <1>9 DEF HandleAction

LEMMA QueueAnnounced == IInv /\ Queue => Announced'
<1> SUFFICES ASSUME IInv, Queue PROVE Announced'
  OBVIOUS
<1> UNCHANGED <<def, pc, act, menu, chans, ending, history>>
  BY DEF Queue, QueueSends, QueuePrompts, QueueEnds, QueueDrains, QueueReceives, QueueCancels,
         PlayerTakes, PlayerPlayed
<1> QED
  BY Elsewhere DEF IInv, history, menu, chans, ending

LEMMA CleanupAnnounced == IInv /\ Cleanup => Announced'
<1> SUFFICES ASSUME IInv, Cleanup PROVE Announced'
  OBVIOUS
<1> UNCHANGED <<def, pc, act, menu, chans, hungup, history>>
  BY DEF Cleanup, ClosePhone, CloseStream, StopCloses, StopCancels, StopKills
<1> QED
  BY Elsewhere DEF IInv, history, menu, chans

LEMMA NextAnnounced == IInv /\ [Next]_vars => Announced'
<1> SUFFICES ASSUME IInv, [Next]_vars PROVE Announced'
  OBVIOUS
<1> USE DEF IInv, history
<1>1. ASSUME NEW k \in Key \cup {Zero}, Press(k) PROVE Announced'
  BY <1>1, Elsewhere DEF Press, menu, chans, ending
<1>2. CASE SessionStopped
  BY <1>2, Elsewhere DEF SessionStopped, Idle, menu, chans, ending
<1>3. CASE RequestEnds
  BY <1>3, Elsewhere DEF RequestEnds, menu, chans, ending
<1>4. ASSUME NEW r \in Readout, ResultAdvances(r) PROVE Announced'
  BY <1>4, Elsewhere DEF ResultAdvances, menu, chans, ending
<1>5. CASE DispatcherFinished
  BY <1>5, Elsewhere DEF DispatcherFinished, menu, chans
<1>6. CASE ScriptReadsKey
  BY <1>6, Elsewhere DEF ScriptReadsKey, menu, ending
<1>7. ASSUME NEW d \in Fn \cup {None}, ScriptReturns(d) \/ ScriptStrands PROVE Announced'
  BY <1>7, Elsewhere DEF ScriptReturns, ScriptStrands, chans, menu, ending
<1>8. ASSUME NEW r \in Readout, ReadoutEnds(r) \/ ReadoutStrands(r) PROVE Announced'
  BY <1>8, Elsewhere DEF ReadoutEnds, ReadoutStrands, chans, menu, ending
<1>9. CASE UNCHANGED vars
  BY <1>9, Elsewhere DEF vars, menu, chans, ending
<1>10. CASE LoopStrands
  BY <1>10 DEF LoopStrands, Announced
<1> QED
  BY <1>1, <1>2, <1>3, <1>4, <1>5, <1>6, <1>7, <1>8, <1>9, <1>10, SelectAnnounced, ActionAnnounced,
     QueueAnnounced, CleanupAnnounced DEF Next, Awaits

-----------------------------------------------------------------------------
\* The inductive invariant holds in every state of a call.
THEOREM Invariance == Spec => []IInv
<1>1. SessionTypes => Counters
  BY SessionAssumption DEF SessionAssumption, SessionTypes, ChannelTypes, GoroutineTypes, Counters
<1>2. IInv /\ [Next]_vars /\ Counters' => IInv'
  BY NextAnnounced DEF IInv
<1> QED
  BY <1>1, <1>2, InitIInv, SessionTyped, PTL DEF Spec

\* Whatever a definition says and whatever overtakes what, a caller that the
\* session waits for has heard, or will hear next, the announcement of the menu
\* that the next key belongs to (session.go: every change of the call stack and
\* the prefix signal or hang-up it ends with).
THEOREM AlwaysAnnounced == Spec => []AnnouncedOrPending
<1>1. IInv => AnnouncedOrPending
  BY DEF IInv, Announced, AnnouncedOrPending, Idle
<1> QED
  BY <1>1, Invariance, PTL

-----------------------------------------------------------------------------
(* Scripts and the keys.                                                   *)

\* Before the hook is lifted nothing is started.
Untouched ==
  ~hook /\ ~activeScript /\ scripts = 0 /\ scriptDone = <<>>
  /\ pc \in {"select", "stranded", "ended"}

\* Only the oldest message can lift the hook, and nothing is started before it.
HookOrder ==
  /\ Len(hookCh) # 0 /\ hookCh[1] = TRUE => Untouched
  /\ \A i \in 2..Len(hookCh) : hookCh[i] = FALSE
  /\ stop = "none" => Len(hookCh) = 0 \/ (Len(hookCh) = 1 /\ hookCh[1] = TRUE)

\* A script that is alone runs, or has ended and nobody has taken its signal yet.
Alone ==
  /\ Len(scriptDone) <= 1
  /\ ~overlapped => scripts + Len(scriptDone) <= 1

KeysInv == HookOrder /\ Alone /\ KeysReachTheScript

\* Steps that touch neither the hook nor a script.
LEMMA Oldest ==
  ASSUME NEW S, NEW q \in Seq(S), q # <<>>
  PROVE  /\ Head(q) = q[1] /\ Len(q) \in Nat /\ Len(q) # 0
         /\ Tail(q) \in Seq(S) /\ Len(Tail(q)) = Len(q) - 1
         /\ \A i \in 1..Len(Tail(q)) : Tail(q)[i] = q[i + 1]
OBVIOUS

LEMMA Appended ==
  ASSUME NEW S, NEW q \in Seq(S), NEW x \in S
  PROVE  /\ Len(q) \in Nat /\ Len(Append(q, x)) = Len(q) + 1
         /\ Append(q, x)[Len(q) + 1] = x
         /\ \A i \in 1..Len(q) : Append(q, x)[i] = q[i]
OBVIOUS

LEMMA KeysStay ==
  ASSUME KeysInv, UNCHANGED <<hookCh, hook, activeScript, scripts, scriptDone, overlapped>>,
         stop' = "none" => stop = "none", Muted => Muted',
         pc \in {"select", "stranded", "ended"} /\ ~hook => pc' \in {"select", "stranded", "ended"}
  PROVE  KeysInv'
<1>1. hookCh' = hookCh /\ (hook' <=> hook) /\ (activeScript' <=> activeScript)
      /\ scripts' = scripts /\ scriptDone' = scriptDone /\ (overlapped' <=> overlapped)
  OBVIOUS
<1>2. HookOrder'
  BY <1>1 DEF KeysInv, HookOrder, Untouched
<1>3. Alone'
  BY <1>1 DEF KeysInv, Alone
<1>4. KeysReachTheScript'
  BY <1>1 DEF KeysInv, KeysReachTheScript
<1> QED BY <1>2, <1>3, <1>4 DEF KeysInv

LEMMA NextKeys ==
  ASSUME SessionTypes, KeysInv, [Next]_vars
  PROVE  KeysInv'
<1>0. /\ scripts \in Nat /\ scriptDone \in Seq(Fn \cup {None}) /\ Len(scriptDone) \in Nat
      /\ scriptDone # <<>> => Len(scriptDone) # 0
  BY SessionAssumption DEF SessionAssumption, SessionTypes, ChannelTypes, GoroutineTypes
<1>h. hookCh \in Seq(BOOLEAN)
  BY DEF SessionTypes, ChannelTypes
<1>l. Len(hookCh) \in Nat
  BY <1>h
<1> USE DEF Idle, Acts, menu, flags, chans, spawned, ending, history, phone, Muted
<1>1. CASE LiftHook \/ SlamHook
  <2>1. hookCh # <<>> /\ hookCh' = Tail(hookCh)
    BY <1>1 DEF LiftHook, SlamHook
  <2>2. UNCHANGED <<stop, scripts, scriptDone>> /\ (overlapped' <=> overlapped)
    <3>1. CASE LiftHook
      BY <3>1 DEF LiftHook
    <3>2. CASE SlamHook
      BY <3>2 DEF SlamHook
    <3> QED BY <1>1, <3>1, <3>2
  <2>3. /\ Len(hookCh) # 0 /\ Head(hookCh) = hookCh[1] /\ Len(hookCh') = Len(hookCh) - 1
        /\ \A i \in 1..Len(hookCh') : hookCh'[i] = hookCh[i + 1]
    BY <1>h, <2>1, Oldest
  <2>4. \A i \in 1..Len(hookCh') : hookCh'[i] = FALSE
    BY <1>l, <2>3 DEF KeysInv, HookOrder
  <2>5. ~(Len(hookCh') # 0 /\ hookCh'[1] = TRUE)
    BY <1>l, <2>3, <2>4
  <2>6. HookOrder'
    BY <1>l, <2>2, <2>3, <2>4, <2>5 DEF KeysInv, HookOrder
  <2>7. KeysReachTheScript'
    <3>1. CASE LiftHook
      <4>1. ~activeScript' /\ scripts' = 0 /\ scriptDone' = <<>>
        <5>1. Head(hookCh) = TRUE
          BY <1>h, <3>1, <2>3 DEF LiftHook
        <5>2. Untouched
          BY <2>3, <5>1 DEF KeysInv, HookOrder
        <5> QED BY <3>1, <2>2, <5>2 DEF LiftHook, Untouched
      <4> QED BY <4>1 DEF KeysReachTheScript
    <3>2. CASE SlamHook
      BY <3>2 DEF SlamHook, KeysReachTheScript
    <3> QED BY <1>1, <3>1, <3>2
  <2>8. Alone'
    BY <2>2 DEF KeysInv, Alone
  <2> QED BY <2>6, <2>7, <2>8 DEF KeysInv
<1>2. CASE HandleScriptDone
  <2>1. /\ scriptDone # <<>> /\ scriptDone' = Tail(scriptDone) /\ ~activeScript'
        /\ UNCHANGED <<scripts, hookCh, stop>> /\ (overlapped' <=> overlapped) /\ (hook' <=> hook)
    BY <1>2 DEF HandleScriptDone
  <2>2. Len(scriptDone') = 0 /\ scriptDone' = <<>>
    <3>1. Len(scriptDone) # 0 /\ Len(scriptDone) <= 1
      BY <1>0, <2>1 DEF KeysInv, Alone
    <3>2. Tail(scriptDone) \in Seq(Fn \cup {None}) /\ Len(Tail(scriptDone)) = Len(scriptDone) - 1
      BY <1>0, <2>1, Oldest
    <3>3. Len(Tail(scriptDone)) = 0
      BY <1>0, <3>1, <3>2
    <3> QED BY <2>1, <3>2, <3>3
  <2>3. ~overlapped' => scripts' = 0
    BY <1>0, <2>1 DEF KeysInv, Alone
  <2>4. ~(Len(hookCh) # 0 /\ hookCh[1] = TRUE)
    BY <2>1 DEF KeysInv, HookOrder, Untouched
  <2>5. HookOrder'
    BY <2>1, <2>4 DEF KeysInv, HookOrder
  <2>6. Alone' /\ KeysReachTheScript'
    BY <1>0, <2>1, <2>2, <2>3 DEF Alone, KeysReachTheScript
  <2> QED BY <2>5, <2>6 DEF KeysInv
<1>3. CASE HandleScript
  <2>1. /\ activeScript' /\ scripts' = scripts + 1
        /\ overlapped' <=> (overlapped \/ scripts > 0 \/ scriptDone # <<>>)
        /\ UNCHANGED <<scriptDone, hookCh, stop>> /\ pc = "act"
    BY <1>3 DEF HandleScript
  <2>2. HookOrder'
    BY <2>1 DEF KeysInv, HookOrder, Untouched
  <2>3. KeysReachTheScript'
    BY <1>0, <2>1 DEF KeysReachTheScript
  <2>4. ~overlapped' => scripts' = 1 /\ Len(scriptDone') = 0
    BY <1>0, <2>1
  <2>5. Alone'
    BY <1>0, <2>1, <2>4 DEF KeysInv, Alone
  <2> QED BY <2>2, <2>3, <2>5 DEF KeysInv
<1>4. ASSUME NEW d \in Fn \cup {None}, ScriptReturns(d) PROVE KeysInv'
  <2>1. /\ scripts > 0 /\ scripts' = scripts - 1
        /\ \/ scriptDone = <<>> /\ scriptDone' = <<d>>
           \/ Muted /\ scriptDone' = scriptDone
        /\ UNCHANGED <<hookCh, stop, pc>> /\ (activeScript' <=> activeScript)
        /\ (overlapped' <=> overlapped) /\ (hook' <=> hook)
    BY <1>4 DEF ScriptReturns, Done
  <2>2. Len(<<d>>) = 1 /\ <<d>> # <<>>
    OBVIOUS
  <2>3. HookOrder'
    BY <1>0, <2>1 DEF KeysInv, HookOrder, Untouched
  <2>4. Alone'
    <3>1. CASE scriptDone' = scriptDone
      BY <1>0, <2>1, <3>1 DEF KeysInv, Alone
    <3>2. CASE scriptDone = <<>> /\ scriptDone' = <<d>>
      <4>1. Len(scriptDone') = 1 /\ Len(scriptDone) = 0
        BY <2>2, <3>2
      <4> QED BY <1>0, <2>1, <4>1 DEF KeysInv, Alone
    <3> QED BY <2>1, <3>1, <3>2
  <2>5. KeysReachTheScript'
    <3>1. CASE Muted
      BY <2>1, <3>1 DEF KeysReachTheScript
    <3>2. CASE ~Muted
      <4>1. (scripts > 0 \/ scriptDone # <<>>) /\ (scripts' > 0 \/ scriptDone' # <<>>)
        BY <2>1, <2>2, <3>2
      <4>2. hook /\ ~overlapped => activeScript
        BY <3>2, <4>1 DEF KeysInv, KeysReachTheScript
      <4> QED BY <2>1, <4>1, <4>2 DEF KeysReachTheScript
    <3> QED BY <3>1, <3>2
  <2> QED BY <2>3, <2>4, <2>5 DEF KeysInv
<1>5. CASE ScriptStrands
  <2>1. /\ Muted /\ scripts > 0 /\ scripts' = scripts - 1
        /\ UNCHANGED <<scriptDone, hookCh, stop, pc>> /\ (activeScript' <=> activeScript)
        /\ (overlapped' <=> overlapped) /\ (hook' <=> hook)
    BY <1>5 DEF ScriptStrands
  <2>2. HookOrder'
    BY <1>0, <2>1 DEF KeysInv, HookOrder, Untouched
  <2>3. Alone'
    BY <1>0, <2>1 DEF KeysInv, Alone
  <2>4. KeysReachTheScript'
    BY <2>1 DEF KeysReachTheScript
  <2> QED BY <2>2, <2>3, <2>4 DEF KeysInv
<1>6. CASE ClosePhone
  <2>1. /\ stop = "none" /\ stop' = "closed" /\ hookCh' = Append(hookCh, FALSE)
        /\ UNCHANGED <<scripts, scriptDone, pc>> /\ (activeScript' <=> activeScript)
        /\ (overlapped' <=> overlapped) /\ (hook' <=> hook)
    BY <1>6 DEF ClosePhone
  <2>2. /\ Len(hookCh') = Len(hookCh) + 1 /\ hookCh'[Len(hookCh) + 1] = FALSE
        /\ \A i \in 1..Len(hookCh) : hookCh'[i] = hookCh[i]
    BY <1>h, <2>1, Appended
  <2>3. Len(hookCh) = 0 \/ (Len(hookCh) = 1 /\ hookCh[1] = TRUE)
    BY <2>1 DEF KeysInv, HookOrder
  <2>4. /\ \A i \in 2..Len(hookCh') : hookCh'[i] = FALSE
        /\ Len(hookCh') # 0 /\ hookCh'[1] = TRUE => Len(hookCh) # 0 /\ hookCh[1] = TRUE
    BY <1>l, <2>2, <2>3
  <2>5. HookOrder'
    BY <2>1, <2>4 DEF KeysInv, HookOrder, Untouched
  <2>6. Alone' /\ KeysReachTheScript'
    BY <2>1 DEF KeysInv, Alone, KeysReachTheScript
  <2> QED BY <2>5, <2>6 DEF KeysInv
<1>7. CASE Advance \/ HandlePrefix \/ SessionStopped \/ LoopStrands
  BY <1>7, KeysStay DEF Advance, HandlePrefix, SessionStopped, LoopStrands
<1>8. ASSUME NEW k \in Key \cup {Zero},
             IgnoreKey(k) \/ KeyToScript(k) \/ KeyToCollector(k) \/ KeyToMenu(k) \/ Press(k)
      PROVE  KeysInv'
  BY <1>8, KeysStay DEF IgnoreKey, KeyToScript, KeyToCollector, KeyToMenu, Press, Reads
<1>9. CASE EnterFunction \/ ExitFunction \/ ClearCallstack \/ ReturnToCurrent
  BY <1>9, KeysStay DEF EnterFunction, ExitFunction, ClearCallstack, ReturnToCurrent
<1>10. CASE Play \/ HandleHangup \/ Request \/ HandleDispatcher
  BY <1>10, KeysStay DEF Play, HandleHangup, Request, HandleDispatcher
<1>11. CASE Awaits
  BY <1>11, KeysStay DEF Awaits, RequestEnds, ResultAdvances
<1>12. CASE DispatcherFinished
  BY <1>12, KeysStay DEF DispatcherFinished
<1>13. CASE ScriptReadsKey \/ UNCHANGED vars
  BY <1>13, KeysStay DEF ScriptReadsKey, vars
<1>14. ASSUME NEW r \in Readout, ReadoutEnds(r) \/ ReadoutStrands(r) PROVE KeysInv'
  BY <1>14, KeysStay DEF ReadoutEnds, ReadoutStrands
<1>15. CASE Queue
  BY <1>15, KeysStay DEF Queue, QueueSends, QueuePrompts, QueueEnds, QueueDrains, QueueReceives,
    QueueCancels, PlayerTakes, PlayerPlayed
<1>16. CASE CloseStream \/ StopCloses \/ StopCancels \/ StopKills
  BY <1>16, KeysStay DEF CloseStream, StopCloses, StopCancels, StopKills
<1> QED
  BY <1>1, <1>2, <1>3, <1>4, <1>5, <1>6, <1>7, <1>8, <1>9, <1>10, <1>11, <1>12, <1>13, <1>14,
     <1>15, <1>16 DEF Next, Select, HandleAction, Cleanup

\* For any definition and any number of keys, scripts and read-outs: while a call
\* lasts, a script that no other overlaps has the caller's keys from its start until
\* its end is handled, and no longer (session.go:166-185, 208-218, 745-749;
\* script.go:31-56).
THEOREM KeysGoToTheScript == Spec => []KeysReachTheScript
<1>1. Init => KeysInv
  <2> SUFFICES ASSUME Init PROVE KeysInv
    OBVIOUS
  <2>1. Len(<<>>) = 0 /\ Len(<<TRUE>>) = 1 /\ <<TRUE>>[1] = TRUE
    OBVIOUS
  <2>2. hookCh = <<TRUE>> /\ Untouched
    BY DEF Init, Untouched
  <2>3. HookOrder
    BY <2>1, <2>2 DEF HookOrder
  <2>4. Alone /\ KeysReachTheScript
    BY <2>1, <2>2 DEF Init, Alone, KeysReachTheScript, Untouched
  <2> QED BY <2>3, <2>4 DEF KeysInv
<1>2. KeysInv => KeysReachTheScript
  BY DEF KeysInv
<1> QED BY <1>1, <1>2, NextKeys, SessionTyped, PTL DEF Spec

-----------------------------------------------------------------------------
(* What Stop cancels.                                                      *)

\* Until the hook is lifted nothing is started; from then on there is a context.
ContextFirst ==
  ctx = "none" => ~hook /\ pc \in {"select", "stranded", "ended"} /\ scripts = 0

\* Stop has cancelled the context there was.
CancelledByStop == stop \in {"killing", "stuck", "returned"} => ctx # "live"

LEMMA NextContext ==
  ASSUME SessionTypes, ContextFirst, CancelledByStop, [Next]_vars
  PROVE  ContextFirst' /\ CancelledByStop'
<1>0. scripts \in Nat /\ ctx \in {"none", "live", "stray", "over"}
      /\ stop \in {"none", "closed", "silent", "done", "killing", "stuck", "returned"}
  BY SessionAssumption DEF SessionTypes, GoroutineTypes, SessionAssumption
<1> USE DEF ContextFirst, CancelledByStop, Idle, Acts, menu, flags, spawned, ending
<1>1. CASE LiftHook
  BY <1>0, <1>1 DEF LiftHook, Goes
<1>2. CASE SlamHook
  BY <1>0, <1>2 DEF SlamHook
<1>3. ASSUME NEW k \in Key \cup {Zero}, Press(k) PROVE ContextFirst' /\ CancelledByStop'
  BY <1>3 DEF Press
<1>4. ASSUME NEW k \in Key \cup {Zero}, IgnoreKey(k) \/ KeyToScript(k)
      PROVE  ContextFirst' /\ CancelledByStop'
  BY <1>4 DEF IgnoreKey, KeyToScript, Reads
<1>5. ASSUME NEW k \in Key \cup {Zero}, KeyToCollector(k) \/ KeyToMenu(k)
      PROVE  ContextFirst' /\ CancelledByStop'
  BY <1>5 DEF KeyToCollector, KeyToMenu, Reads
<1>6. CASE Advance \/ HandleScriptDone \/ HandlePrefix \/ SessionStopped \/ LoopStrands
  BY <1>6 DEF LoopStrands, Advance, HandleScriptDone, HandlePrefix, SessionStopped
<1>7. CASE HandleAction
  <2>1. ctx # "none" /\ UNCHANGED <<ctx, stop>>
    BY <1>7 DEF HandleAction, EnterFunction, ExitFunction, ClearCallstack, ReturnToCurrent, Play,
      HandleHangup, Request, HandleScript, HandleDispatcher
  <2> QED BY <2>1
<1>8. CASE Awaits
  <2>1. ctx # "none" /\ UNCHANGED <<ctx, stop>>
    BY <1>8 DEF Awaits, RequestEnds, ResultAdvances
  <2> QED BY <2>1
<1>9. CASE DispatcherFinished
  <2>1. ctx # "none" /\ UNCHANGED ctx
    BY <1>9 DEF DispatcherFinished
  <2>2. stop' \in {"killing", "stuck", "returned"} => stop \in {"killing", "stuck", "returned"}
    BY <1>9 DEF DispatcherFinished
  <2> QED BY <2>1, <2>2
<1>10. CASE ScriptReadsKey
  BY <1>10 DEF ScriptReadsKey
<1>11. ASSUME NEW d \in Fn \cup {None}, ScriptReturns(d) \/ ScriptStrands
       PROVE  ContextFirst' /\ CancelledByStop'
  BY <1>0, <1>11 DEF ScriptReturns, ScriptStrands
<1>12. ASSUME NEW r \in Readout, ReadoutEnds(r) \/ ReadoutStrands(r)
       PROVE  ContextFirst' /\ CancelledByStop'
  BY <1>12 DEF ReadoutEnds, ReadoutStrands
<1>13. CASE Queue
  BY <1>13 DEF Queue, QueueSends, QueuePrompts, QueueEnds, QueueDrains, QueueReceives,
    QueueCancels, PlayerTakes, PlayerPlayed
<1>14. CASE Cleanup
  <2>1. CASE ClosePhone \/ CloseStream \/ StopCloses
    <3>1. UNCHANGED <<hook, pc, scripts, ctx>> /\ stop' \notin {"killing", "stuck", "returned"}
      BY <2>1 DEF ClosePhone, CloseStream, StopCloses
    <3> QED BY <3>1
  <2>2. CASE StopCancels
    BY <1>0, <2>2 DEF StopCancels
  <2>3. CASE StopKills
    BY <2>3 DEF StopKills
  <2> QED BY <1>14, <2>1, <2>2, <2>3 DEF Cleanup
<1>15. CASE UNCHANGED vars
  BY <1>15 DEF vars
<1> QED
  BY <1>1, <1>2, <1>3, <1>4, <1>5, <1>6, <1>7, <1>8, <1>9, <1>10, <1>11, <1>12, <1>13, <1>14, <1>15
  DEF Next, Select

\* Every script that runs on after Stop has cancelled the call runs on a context that
\* is cancelled, or on one made behind Stop's back.
StopReachesScripts ==
  stop \in {"killing", "stuck", "returned"} /\ scripts > 0 => ctx \in {"over", "stray"}

\* The safety half of StopEnds, for scripts: no order of hook, keys and Stop leaves a
\* script with a live context that Stop should have cancelled, or with none
\* (session.go:228-262, 720-756; script.go:106-116).
THEOREM StopCancelsScripts == Spec => []StopReachesScripts
<1>1. Init => ContextFirst /\ CancelledByStop
  BY DEF Init, ContextFirst, CancelledByStop
<1>2. SessionTypes /\ ContextFirst /\ CancelledByStop => StopReachesScripts
  BY DEF SessionTypes, GoroutineTypes, ContextFirst, CancelledByStop, StopReachesScripts
<1> QED BY <1>1, <1>2, NextContext, SessionTyped, PTL DEF Spec

-----------------------------------------------------------------------------
(* The call-flow editor.                                                   *)

(* Sets of numbers and sequences.                                          *)

\* Every non-empty set of numbers has a least one, and below a bound a greatest.
LEMMA LeastNat ==
  ASSUME NEW T, T \subseteq Nat, T # {}
  PROVE  \E x \in T : \A y \in T : x <= y
<1> DEFINE R == OpToRel(<, Nat)
<1>1. IsWellFoundedOn(R, Nat)
  BY NatLessThanWellFounded
<1>2. \A x, y \in Nat : x < y => <<x, y>> \in R
  BY DEF OpToRel
<1> HIDE DEF R
<1>3. PICK x \in T : \A y \in T : ~ (<<y, x>> \in R)
  BY <1>1, WFMin
<1>4. ASSUME NEW y \in T PROVE x <= y
  <2>1. x \in Nat /\ y \in Nat
    OBVIOUS
  <2>2. ~ (y < x)
    BY <1>2, <1>3, <2>1
  <2> QED
    BY <2>1, <2>2
<1> QED
  BY <1>3, <1>4

LEMMA MinOf ==
  ASSUME NEW T, T \subseteq Nat, T # {}
  PROVE  Min(T) \in T /\ \A y \in T : Min(T) <= y
BY LeastNat DEF Min

LEMMA MaxOf ==
  ASSUME NEW m \in Nat, NEW T, T \subseteq 1..m, T # {}
  PROVE  Max(T) \in T /\ \A y \in T : y <= Max(T)
<1> DEFINE D == {m - y : y \in T}
<1>1. D \subseteq Nat /\ D # {}
  <2>1. \A y \in T : y \in Nat /\ y <= m
    OBVIOUS
  <2>2. \A y \in T : m - y \in Nat
    BY <2>1
  <2> QED
    BY <2>2
<1>2. PICK d \in D : \A y \in D : d <= y
  BY <1>1, LeastNat
<1>3. PICK x \in T : d = m - x
  OBVIOUS
<1>4. \A y \in T : x >= y
  <2> SUFFICES ASSUME NEW y \in T PROVE x >= y
    OBVIOUS
  <2>1. m - x <= m - y
    BY <1>2, <1>3
  <2>2. x \in 1..m /\ y \in 1..m
    OBVIOUS
  <2> QED
    BY <2>1, <2>2
<1>5. Max(T) \in T /\ \A y \in T : Max(T) >= y
  BY <1>4 DEF Max
<1> HIDE DEF D
<1>6. Max(T) \in Nat /\ \A y \in T : y \in Nat
  <2>1. \A y \in T : y \in Nat
    OBVIOUS
  <2> QED
    BY <1>5, <2>1
<1> QED
  BY <1>5, <1>6

LEMMA MaxOne ==
  ASSUME NEW x \in Nat
  PROVE  Max({x}) = x
BY DEF Max

Increasing(o) == \A i, j \in DOMAIN o : i < j => o[i] < o[j]

\* A finite set of numbers can be put in order: otherwise take a smallest that
\* cannot, and remove its least number.
LEMMA OrderExists ==
  ASSUME NEW K, K \subseteq Nat, IsFiniteSet(K)
  PROVE  \E o \in [1..Cardinality(K) -> K] : Increasing(o)
<1> DEFINE Ordered(S) == \E o \in [1..Cardinality(S) -> S] : Increasing(o)
           Bad == {n \in Nat : \E S \in SUBSET Nat : IsFiniteSet(S) /\ Cardinality(S) = n /\ ~Ordered(S)}
<1>1. SUFFICES ASSUME ~Ordered(K) PROVE FALSE
  OBVIOUS
<1>2. Bad \subseteq Nat /\ Bad # {}
  <2>1. Cardinality(K) \in Nat
    BY FS_CardinalityType
  <2> QED
    BY <1>1, <2>1
<1>3. PICK n \in Bad : \A y \in Bad : n <= y
  BY <1>2, LeastNat
<1>4. PICK S \in SUBSET Nat : IsFiniteSet(S) /\ Cardinality(S) = n /\ ~Ordered(S)
  BY <1>3
<1>5. S # {}
  <2> SUFFICES ASSUME S = {} PROVE FALSE
    OBVIOUS
  <2>1. Cardinality(S) = 0
    BY FS_EmptySet
  <2>2. <<>> \in [1..Cardinality(S) -> S] /\ Increasing(<<>>)
    BY <2>1 DEF Increasing
  <2> QED
    BY <1>4, <2>2
<1>6. PICK x \in S : \A y \in S : x <= y
  BY <1>5, LeastNat
<1> DEFINE S1 == S \ {x}
<1>7. IsFiniteSet(S1) /\ Cardinality(S1) = n - 1 /\ n - 1 \in Nat /\ S1 \in SUBSET Nat
  <2>1. IsFiniteSet(S1) /\ Cardinality(S1) = Cardinality(S) - 1
    BY <1>4, <1>6, FS_RemoveElement
  <2>2. Cardinality(S1) \in Nat
    BY <2>1, FS_CardinalityType
  <2> QED
    BY <1>4, <2>1, <2>2
<1>8. Ordered(S1)
  <2> SUFFICES ASSUME ~Ordered(S1) PROVE FALSE
    OBVIOUS
  <2>1. n - 1 \in Bad
    BY <1>7
  <2>2. n \in Nat /\ n <= n - 1
    BY <1>3, <2>1
  <2> QED
    BY <2>2
<1>9. PICK o \in [1..n - 1 -> S1] : Increasing(o)
  BY <1>7, <1>8
<1> DEFINE p == [i \in 1..n |-> IF i = 1 THEN x ELSE o[i - 1]]
<1>10. n \in Nat /\ \A i \in 1..n : i # 1 => i - 1 \in 1..n - 1
  OBVIOUS
<1>11. p \in [1..Cardinality(S) -> S]
  BY <1>4, <1>6, <1>9, <1>10
<1>12. Increasing(p)
  <2> SUFFICES ASSUME NEW i \in 1..n, NEW j \in 1..n, i < j PROVE p[i] < p[j]
    BY DEF Increasing
  <2>1. j # 1 /\ j - 1 \in 1..n - 1 /\ p[j] = o[j - 1] /\ o[j - 1] \in S1
    BY <1>10, <1>9
  <2>2. CASE i = 1
    <3>1. x \in Nat /\ o[j - 1] \in Nat /\ x <= o[j - 1] /\ x # o[j - 1]
      BY <1>6, <2>1
    <3> QED
      BY <2>1, <2>2, <3>1
  <2>3. CASE i # 1
    <3>1. i - 1 \in 1..n - 1 /\ i - 1 < j - 1
      BY <2>3, <1>10
    <3> QED
      BY <1>9, <2>1, <2>3, <3>1 DEF Increasing
  <2> QED
    BY <2>2, <2>3
<1> QED
  BY <1>4, <1>11, <1>12

\* What removing an element by its name, or by its index, leaves.
LEMMA WithoutIs ==
  ASSUME NEW S, NEW s \in Seq(S), NEW name
  PROVE  /\ Without(s, name) \in Seq(S)
         /\ Len(Without(s, name)) <= Len(s)
         /\ \A i \in DOMAIN Without(s, name) :
              \E k \in DOMAIN s : Without(s, name)[i] = s[k] /\ s[k].name # name
<1> DEFINE K == {i \in DOMAIN s : s[i].name # name}
           n == Cardinality(K)
<1>1. DOMAIN s = 1..Len(s) /\ Len(s) \in Nat
  OBVIOUS
<1>2. IsFiniteSet(K) /\ n \in Nat /\ n <= Len(s) /\ K \subseteq Nat
  <2>1. IsFiniteSet(1..Len(s)) /\ Cardinality(1..Len(s)) = Len(s)
    BY <1>1, FS_Interval
  <2>2. K \subseteq 1..Len(s)
    BY <1>1
  <2>3. IsFiniteSet(K) /\ n <= Len(s)
    BY <2>1, <2>2, FS_Subset
  <2>4. n \in Nat
    BY <2>3, FS_CardinalityType
  <2>5. K \subseteq Nat
    BY <2>2
  <2> QED
    BY <2>3, <2>4, <2>5
<1>3. \E o \in [1..n -> K] : Increasing(o)
  BY <1>2, OrderExists
<1>4. InOrder(K) \in [1..n -> K]
  BY <1>3 DEF InOrder, Increasing
<1> DEFINE o == InOrder(K)
<1>5. Without(s, name) = [i \in DOMAIN o |-> s[o[i]]]
  BY DEF Without
<1> HIDE DEF n, o
<1>6. DOMAIN o = 1..n /\ \A i \in 1..n : o[i] \in K
  BY <1>4 DEF o
<1>7. \A i \in 1..n : o[i] \in DOMAIN s /\ s[o[i]] \in S /\ s[o[i]].name # name
  BY <1>1, <1>6
<1> HIDE DEF K
<1>8. Without(s, name) = [i \in 1..n |-> s[o[i]]]
  BY <1>5, <1>6
<1>9. Without(s, name) \in Seq(S) /\ Len(Without(s, name)) = n /\ DOMAIN Without(s, name) = 1..n
  BY <1>2, <1>7, <1>8
<1> QED
  BY <1>2, <1>7, <1>8, <1>9

LEMMA Wider ==
  ASSUME NEW S, NEW T, S \subseteq T, NEW s \in Seq(S)
  PROVE  s \in Seq(T)
OBVIOUS

LEMMA RemovedAt ==
  ASSUME NEW S, NEW s \in Seq(S), NEW j \in DOMAIN s
  PROVE  /\ RemoveAt(s, j) \in Seq(S) /\ Len(RemoveAt(s, j)) <= Len(s)
         /\ \A i \in DOMAIN RemoveAt(s, j) : \E k \in DOMAIN s : RemoveAt(s, j)[i] = s[k]
<1> DEFINE a == SubSeq(s, 1, j - 1)
           b == SubSeq(s, j + 1, Len(s))
<1>1. RemoveAt(s, j) = a \o b
  BY DEF RemoveAt
<1>2. j \in 1..Len(s) /\ Len(s) \in Nat
  OBVIOUS
<1>3. a \in Seq(S) /\ Len(a) = j - 1 /\ \A i \in 1..j - 1 : a[i] = s[i]
  BY <1>2
<1>4. b \in Seq(S) /\ Len(b) = Len(s) - j /\ \A i \in 1..Len(s) - j : b[i] = s[j + i]
  BY <1>2
<1> HIDE DEF a, b
<1>5. a \o b \in Seq(S) /\ Len(a \o b) = Len(s) - 1
  BY <1>2, <1>3, <1>4
<1>6. ASSUME NEW i \in 1..Len(s) - 1 PROVE \E k \in DOMAIN s : (a \o b)[i] = s[k]
  <2>1. CASE i <= j - 1
    <3>1. i \in 1..Len(a) /\ (a \o b)[i] = a[i] /\ a[i] = s[i] /\ i \in DOMAIN s
      BY <1>2, <1>3, <1>4, <2>1
    <3> QED
      BY <3>1
  <2>2. CASE ~(i <= j - 1)
    <3> DEFINE d == i - (j - 1)
    <3>1. d \in 1..Len(s) - j /\ i = Len(a) + d /\ j + d \in DOMAIN s
      BY <1>2, <1>3, <2>2
    <3> HIDE DEF d
    <3>2. (a \o b)[i] = b[d]
      BY <1>3, <1>4, <3>1
    <3>3. b[d] = s[j + d]
      BY <1>4, <3>1
    <3> QED
      BY <3>1, <3>2, <3>3
  <2> QED
    BY <2>1, <2>2
<1>7. DOMAIN (a \o b) = 1..Len(s) - 1
  BY <1>5
<1>8. Len(s) - 1 <= Len(s)
  BY <1>2
<1> QED
  BY <1>1, <1>5, <1>6, <1>7, <1>8

-----------------------------------------------------------------------------
(* The document's types, and what an action never is.                      *)

\* An action routes in one way: whatever switchKind and the panels have made of it,
\* at most one of the fields that decide its kind is given.  Its `then` may outlive
\* the request it was given for, also beside a dst.
OneKind ==
  {a \in FlowAction :
     /\ a.reuse.fn # 0 => a.dst = 0 /\ ~a.plays
     /\ a.dst # 0 => ~a.plays
     /\ a.reuse.fn # 0 \/ a.dst # 0 \/ a.plays => a.dispatcher = 0
     /\ a.reuse.fn # 0 \/ a.dst # 0 \/ a.plays \/ a.dispatcher # 0 => a.livefeed = "null"
     /\ a.then # 0 => a.reuse.fn = 0 /\ a.dispatcher = 0 /\ a.livefeed = "null"}

Menu == {m \in [name : Name, actions : Seq(OneKind)] : Len(m.actions) <= MaxActions}
Line == [name : Name, end : OneKind]
Trunk == {c \in [kind : {"endpoint", "trunk"}, entrypoint : Name, route : Seq(Route)] :
            Len(c.route) <= MaxRoutes /\ (c.kind = "trunk" => c.entrypoint = 0)}
Selection == [kind : {"none", "fn", "queue", "action", "end"}, name : Name, at : ActionKey]

FlowInv ==
  /\ fns \in Seq(Menu) /\ Len(fns) <= MaxFns
  /\ queues \in Seq(Line) /\ Len(queues) <= MaxQueues
  /\ sip \in Seq(Trunk) /\ Len(sip) <= MaxConnections
  /\ selection \in Selection
  /\ edits \in 0..MaxEdits

LEMMA FlowFacts ==
  /\ MaxFns \in Nat /\ MaxActions \in Nat /\ MaxQueues \in Nat /\ MaxConnections \in Nat
  /\ MaxEdits \in Nat /\ MaxRoutes \in Nat /\ MaxRoutes >= 1
  /\ Choose \in Name /\ 0 \in Name /\ 0 \in ActionKey
  /\ \A n \in 0..MaxName : n \in Name
  /\ \A n \in 0..MaxFns : n \in Name
  /\ \A n \in 0..MaxQueues : n \in Name
BY FlowEditorAssumption DEF Choose, MaxName, Name, ActionKey

\* OneKind and Menu narrow the sets of the type invariant.
LEMMA FlowTypes == FlowInv => FlowTypeOK
<1> SUFFICES ASSUME FlowInv PROVE FlowTypeOK
  OBVIOUS
<1>1. \A m \in Menu : m \in [name : Name, actions : Seq(FlowAction)] /\ Len(m.actions) <= MaxActions
  <2> SUFFICES ASSUME NEW m \in Menu
               PROVE  m \in [name : Name, actions : Seq(FlowAction)] /\ Len(m.actions) <= MaxActions
    OBVIOUS
  <2>1. m \in [name : Name, actions : Seq(OneKind)] /\ Len(m.actions) <= MaxActions
    BY DEF Menu
  <2>2. OneKind \subseteq FlowAction
    BY DEF OneKind
  <2>3. m.actions \in Seq(OneKind)
    BY <2>1
  <2>4. m.actions \in Seq(FlowAction)
    BY <2>2, <2>3
  <2> QED
    BY <2>1, <2>4
<1> DEFINE M == [name : Name, actions : Seq(FlowAction)]
           L == [name : Name, end : FlowAction]
           C == [kind : {"endpoint", "trunk"}, entrypoint : Name, route : Seq(Route)]
<1>2. Menu \subseteq M /\ Line \subseteq L /\ Trunk \subseteq C /\ \A c \in Trunk : Len(c.route) <= MaxRoutes
  BY <1>1 DEF OneKind, Line, Trunk
<1>3. fns \in Seq(Menu) /\ queues \in Seq(Line) /\ sip \in Seq(Trunk)
  BY DEF FlowInv
<1> HIDE DEF M, L, C
<1>4. fns \in Seq(M) /\ queues \in Seq(L) /\ sip \in Seq(C)
  BY <1>2, <1>3, Wider
<1>5. /\ \A i \in DOMAIN fns : Len(fns[i].actions) <= MaxActions
      /\ \A n \in DOMAIN sip : Len(sip[n].route) <= MaxRoutes
  BY <1>1, <1>2, <1>3
<1> USE DEF M, L, C
<1> QED
  BY <1>4, <1>5 DEF FlowTypeOK, FlowInv, Selection

\* What the page adds is typed.
LEMMA EmptyIsTyped ==
  /\ emptyAction \in OneKind
  /\ \A n \in Name : emptyFn(n) \in Menu /\ emptyQueue(n) \in Line /\ emptySIPConnection(n) \in Trunk
<1>1. emptyAction \in FlowAction
  BY FlowFacts DEF emptyAction, FlowAction, Ref, Feed
<1>2. emptyAction \in OneKind
  BY <1>1 DEF emptyAction, OneKind
<1> HIDE DEF emptyAction
<1>3. ASSUME NEW n \in Name PROVE emptyFn(n) \in Menu
  <2>1. <<>> \in Seq(OneKind) /\ Len(<<>>) = 0
    OBVIOUS
  <2> QED
    BY <2>1, FlowFacts DEF emptyFn, Menu
<1>4. ASSUME NEW n \in Name PROVE emptyQueue(n) \in Line
  BY <1>2 DEF emptyQueue, Line
<1>5. ASSUME NEW n \in Name PROVE emptySIPConnection(n) \in Trunk
  BY FlowFacts DEF emptySIPConnection, Trunk
<1> QED
  BY <1>2, <1>3, <1>4, <1>5

\* Writing an action and reading it back changes one thing.
Stored(a) == IF a.livefeed = "default" THEN [a EXCEPT !.livefeed = "null"] ELSE a

\* An unfilled live feed is what prune drops and normalizeAction does not restore.
LEMMA StoredIs ==
  ASSUME NEW a \in FlowAction
  PROVE  normalizeAction(prune(a)) = Stored(a)
<1>1. DOMAIN a = {"num", "dst", "reuse", "dispatcher", "plays", "livefeed", "then"}
  BY DEF FlowAction
<1>2. DOMAIN emptyAction = {"num", "dst", "reuse", "dispatcher", "plays", "livefeed", "then"}
  BY DEF emptyAction
<1>3. DOMAIN Stored(a) = DOMAIN a /\ Stored(a) = [x \in DOMAIN a |-> Stored(a)[x]]
  BY DEF Stored, FlowAction
<1> QED
  BY <1>1, <1>2, <1>3 DEF normalizeAction, prune, Dropped, Stored, emptyAction, FlowAction

LEMMA StoredTyped == \A a \in OneKind : Stored(a) \in OneKind
BY DEF Stored, OneKind, FlowAction, Feed

\* findIndex finds an index.
LEMMA FirstNamedIn ==
  ASSUME NEW S, NEW s \in Seq(S), NEW name
  PROVE  FirstNamed(s, name) \subseteq {i \in DOMAIN s : s[i].name = name}
<1> DEFINE I == {i \in DOMAIN s : s[i].name = name}
<1>1. I \subseteq Nat
  OBVIOUS
<1>2. I # {} => Min(I) \in I
  BY <1>1, MinOf
<1> QED
  BY <1>2 DEF FirstNamed

LEMMA MenuFacts ==
  ASSUME FlowInv, NEW i \in DOMAIN fns
  PROVE  /\ fns[i] \in Menu /\ fns[i].name \in Name /\ fns[i].actions \in Seq(OneKind)
         /\ Len(fns[i].actions) <= MaxActions
         /\ \A j \in DOMAIN fns[i].actions :
              /\ fns[i].actions[j] \in OneKind /\ j \in 1..MaxActions
              /\ KeyOf(fns[i], j) \in ActionKey
<1>1. fns[i] \in Menu
  BY DEF FlowInv
<1>2. fns[i].name \in Name /\ fns[i].actions \in Seq(OneKind) /\ Len(fns[i].actions) <= MaxActions
  BY <1>1 DEF Menu
<1>3. ASSUME NEW j \in DOMAIN fns[i].actions
      PROVE  fns[i].actions[j] \in OneKind /\ j \in 1..MaxActions /\ KeyOf(fns[i], j) \in ActionKey
  <2>1. fns[i].actions[j] \in OneKind
    BY <1>2
  <2>2. j \in 1..MaxActions
    BY <1>2, FlowFacts
  <2>3. fns[i].actions[j].num \in ActionKey
    BY <2>1 DEF OneKind, FlowAction
  <2> QED
    BY <2>1, <2>2, <2>3 DEF KeyOf, ActionKey
<1> QED
  BY <1>1, <1>2, <1>3

LEMMA FirstNameTyped == FlowInv => FirstName \in Name
<1> SUFFICES ASSUME FlowInv PROVE FirstName \in Name
  OBVIOUS
<1> DEFINE named == {i \in DOMAIN fns : fns[i].name # 0}
<1>1. named \subseteq Nat
  BY DEF FlowInv
<1>2. named # {} => Min(named) \in named
  BY <1>1, MinOf
<1> QED
  BY <1>2, MenuFacts, FlowFacts DEF FirstName

\* switchKind makes an action of one kind, and the panels keep it one.
LEMMA SwitchedTyped ==
  ASSUME FlowInv, NEW a \in OneKind
  PROVE  Switched(a) \subseteq OneKind
<1>1. a.num \in ActionKey
  BY DEF OneKind, FlowAction
<1> DEFINE reset == [emptyAction EXCEPT !.num = a.num]
<1>2. Reusable(selection) \subseteq Ref
  <2>1. ASSUME NEW p \in FnPlaces(fns) PROVE fns[p[1]].name \in Name /\ KeyOf(fns[p[1]], p[2]) \in ActionKey
    <3>1. p[1] \in DOMAIN fns /\ p[2] \in DOMAIN fns[p[1]].actions
      BY DEF FnPlaces
    <3> QED
      BY <3>1, MenuFacts
  <2> QED
    BY <2>1 DEF Reusable, Ref
<1>3. /\ emptyAction \in FlowAction /\ emptyAction.dst = 0 /\ emptyAction.reuse.fn = 0
      /\ emptyAction.dispatcher = 0 /\ ~emptyAction.plays /\ emptyAction.livefeed = "null"
      /\ emptyAction.then = 0
  <2>1. emptyAction \in FlowAction
    BY EmptyIsTyped DEF OneKind
  <2> QED
    BY <2>1 DEF emptyAction
<1>4. /\ reset \in FlowAction /\ reset.dst = 0 /\ reset.reuse.fn = 0
      /\ reset.dispatcher = 0 /\ ~reset.plays /\ reset.livefeed = "null"
      /\ reset.then = 0
  BY <1>1, <1>3 DEF FlowAction
<1> HIDE DEF reset
<1>5. /\ [reset EXCEPT !.dst = Choose] \in OneKind
      /\ [reset EXCEPT !.dispatcher = Choose] \in OneKind
      /\ [reset EXCEPT !.plays = TRUE] \in OneKind
      /\ [reset EXCEPT !.livefeed = "default"] \in OneKind
      /\ \A r \in Ref : [reset EXCEPT !.reuse = r] \in OneKind
  BY <1>4, FlowFacts DEF OneKind, FlowAction, Feed
<1>6. [fn |-> Choose, key |-> 0] \in Ref
  BY FlowFacts DEF Ref
<1> QED
  BY <1>2, <1>5, <1>6 DEF Switched, reset

LEMMA EditedTyped ==
  ASSUME FlowInv, NEW a \in OneKind
  PROVE  Edited(a) \subseteq OneKind
<1>1. Names(fns) \cup {0} \subseteq Name
  <2>1. \A i \in DOMAIN fns : fns[i].name \in Name
    BY MenuFacts
  <2> QED
    BY <2>1, FlowFacts DEF Names
<1>2. ASSUME NEW n \in ActionKey PROVE [a EXCEPT !.num = n] \in OneKind
  BY DEF OneKind, FlowAction
<1>3. ASSUME NEW n \in Name, actionKind(a) \in {"dst", "none"} PROVE [a EXCEPT !.dst = n] \in OneKind
  BY <1>3 DEF OneKind, FlowAction, actionKind
<1>4. ASSUME NEW n \in Name, actionKind(a) = "dispatcher" PROVE [a EXCEPT !.dispatcher = n] \in OneKind
  BY <1>4 DEF OneKind, FlowAction, actionKind
<1>5. ASSUME NEW l \in Feed, actionKind(a) = "livefeed" PROVE [a EXCEPT !.livefeed = l] \in OneKind
  BY <1>5 DEF OneKind, FlowAction, actionKind
<1>6. ASSUME NEW n \in Name, actionKind(a) = "plays" PROVE [a EXCEPT !.then = n] \in OneKind
  BY <1>6 DEF OneKind, FlowAction, actionKind
<1>7. \A n \in 0..MaxName : n \in Name
  BY FlowFacts
<1>8. ASSUME actionKind(a) = "plays" PROVE [a EXCEPT !.plays = FALSE] \in OneKind
  BY <1>8 DEF OneKind, FlowAction, actionKind
<1> QED
  BY <1>1, <1>2, <1>3, <1>4, <1>5, <1>6, <1>7, <1>8, SwitchedTyped DEF Edited

\* One element of a list is changed, or a last one added.
LEMMA Replaced ==
  ASSUME NEW S, NEW s \in Seq(S), NEW i \in DOMAIN s, NEW x \in S
  PROVE  [s EXCEPT ![i] = x] \in Seq(S) /\ Len([s EXCEPT ![i] = x]) = Len(s)
OBVIOUS

LEMMA Added ==
  ASSUME NEW S, NEW s \in Seq(S), NEW x \in S
  PROVE  Append(s, x) \in Seq(S) /\ Len(Append(s, x)) = Len(s) + 1
OBVIOUS

LEMMA InitFlow == FlowInit => FlowInv
<1> SUFFICES ASSUME FlowInit PROVE FlowInv
  OBVIOUS
<1>1. <<>> \in Seq(Menu) /\ <<>> \in Seq(Line) /\ <<>> \in Seq(Trunk) /\ Len(<<>>) = 0
  OBVIOUS
<1> QED
  BY <1>1, FlowFacts DEF FlowInit, FlowInv, NoSelection, Selection

\* A panel replaces one menu, or one queue.
LEMMA UpdatedFn ==
  ASSUME FlowInv, NEW m \in Menu, UpdateFn(m)
  PROVE  fns' \in Seq(Menu) /\ Len(fns') <= MaxFns /\ UNCHANGED <<queues, sip>>
<1>1. fns \in Seq(Menu) /\ Len(fns) <= MaxFns
  BY DEF FlowInv
<1>2. PICK i \in FirstNamed(fns, selection.name) : fns' = [fns EXCEPT ![i] = m]
  BY DEF UpdateFn
<1>3. i \in DOMAIN fns
  BY <1>1, <1>2, FirstNamedIn
<1>4. UNCHANGED <<queues, sip>>
  BY DEF UpdateFn
<1>5. [fns EXCEPT ![i] = m] \in Seq(Menu) /\ Len([fns EXCEPT ![i] = m]) = Len(fns)
  BY <1>1, <1>3, Replaced
<1> QED
  BY <1>1, <1>2, <1>4, <1>5

LEMMA UpdatedQueue ==
  ASSUME FlowInv, NEW l \in Line, UpdateQueue(l)
  PROVE  queues' \in Seq(Line) /\ Len(queues') <= MaxQueues /\ UNCHANGED <<fns, sip>>
<1>1. queues \in Seq(Line) /\ Len(queues) <= MaxQueues
  BY DEF FlowInv
<1>2. PICK k \in FirstNamed(queues, selection.name) : queues' = [queues EXCEPT ![k] = l]
  BY DEF UpdateQueue
<1>3. k \in DOMAIN queues
  BY <1>1, <1>2, FirstNamedIn
<1>4. UNCHANGED <<fns, sip>>
  BY DEF UpdateQueue
<1>5. [queues EXCEPT ![k] = l] \in Seq(Line) /\ Len([queues EXCEPT ![k] = l]) = Len(queues)
  BY <1>1, <1>3, Replaced
<1> QED
  BY <1>1, <1>2, <1>4, <1>5

LEMMA SelectsInv == FlowInv /\ Selects => FlowInv'
<1> SUFFICES ASSUME FlowInv, Selects PROVE FlowInv'
  OBVIOUS
<1>1. \A i \in DOMAIN fns : fns[i].name \in Name /\ \A j \in DOMAIN fns[i].actions : j \in ActionKey
  BY MenuFacts, FlowFacts DEF ActionKey
<1>2. \A k \in DOMAIN queues : queues[k].name \in Name
  <2>1. queues \in Seq(Line)
    BY DEF FlowInv
  <2>2. \A k \in DOMAIN queues : queues[k] \in Line
    BY <2>1
  <2> QED
    BY <2>2 DEF Line
<1>3. Names(fns) \subseteq Name /\ Names(queues) \subseteq Name
  BY <1>1, <1>2 DEF Names
<1>4. \A p \in FnPlaces(fns) : fns[p[1]].name \in Name /\ p[2] \in ActionKey
  BY <1>1 DEF FnPlaces
<1>5. selection' \in Selection
  BY <1>3, <1>4, FlowFacts DEF Selects, Selected, Selection
<1> QED
  BY <1>5 DEF FlowInv, Selects

LEMMA AddFnInv == FlowInv /\ (AddFn \/ AddQueue) => FlowInv'
<1>1. ASSUME FlowInv, AddFn PROVE FlowInv'
  <2>1. fns \in Seq(Menu) /\ Len(fns) < MaxFns /\ edits' \in 0..MaxEdits
    BY <1>1, FlowFacts DEF FlowInv, AddFn, Edits
  <2>2. Len(fns) + 1 \in Name
    BY <2>1, FlowFacts
  <2>3. emptyFn(Len(fns) + 1) \in Menu
    BY <2>2, EmptyIsTyped
  <2>4. fns' \in Seq(Menu) /\ Len(fns') <= MaxFns
    BY <1>1, <2>1, <2>3, Added, FlowFacts DEF AddFn
  <2>5. selection' \in Selection
    BY <1>1, <2>2, FlowFacts DEF AddFn, Selected, Selection
  <2> QED
    BY <1>1, <2>1, <2>4, <2>5 DEF FlowInv, AddFn
<1>2. ASSUME FlowInv, AddQueue PROVE FlowInv'
  <2>1. queues \in Seq(Line) /\ Len(queues) < MaxQueues /\ edits' \in 0..MaxEdits
    BY <1>2, FlowFacts DEF FlowInv, AddQueue, Edits
  <2>2. Len(queues) + 1 \in Name
    BY <2>1, FlowFacts
  <2>3. emptyQueue(Len(queues) + 1) \in Line
    BY <2>2, EmptyIsTyped
  <2>4. queues' \in Seq(Line) /\ Len(queues') <= MaxQueues
    BY <1>2, <2>1, <2>3, Added, FlowFacts DEF AddQueue
  <2>5. selection' \in Selection
    BY <1>2, <2>2, FlowFacts DEF AddQueue, Selected, Selection
  <2> QED
    BY <1>2, <2>1, <2>4, <2>5 DEF FlowInv, AddQueue
<1> QED
  BY <1>1, <1>2

LEMMA RemoveInv == FlowInv /\ RemoveSelected => FlowInv'
<1> SUFFICES ASSUME FlowInv, RemoveSelected PROVE FlowInv'
  OBVIOUS
<1>1. fns \in Seq(Menu) /\ Len(fns) <= MaxFns /\ queues \in Seq(Line) /\ Len(queues) <= MaxQueues
  BY DEF FlowInv
<1>2. edits' \in 0..MaxEdits
  BY FlowFacts DEF FlowInv, RemoveSelected, Edits
<1>3. NoSelection \in Selection
  BY FlowFacts DEF NoSelection, Selection
<1> DEFINE m == Without(fns, selection.name)
           l == Without(queues, selection.name)
<1>4. m \in Seq(Menu) /\ Len(m) <= Len(fns) /\ l \in Seq(Line) /\ Len(l) <= Len(queues)
  BY <1>1, WithoutIs
<1> HIDE DEF m, l
<1>5. Len(m) <= MaxFns /\ Len(l) <= MaxQueues
  BY <1>1, <1>4, FlowFacts
<1>6. (fns' = m /\ UNCHANGED queues) \/ (queues' = l /\ UNCHANGED fns)
  BY DEF RemoveSelected, m, l
<1> QED
  BY <1>2, <1>3, <1>4, <1>5, <1>6 DEF FlowInv, RemoveSelected

LEMMA EditFnInv == FlowInv /\ EditFn => FlowInv'
<1> SUFFICES ASSUME FlowInv, EditFn PROVE FlowInv'
  OBVIOUS
<1>1. selection \in Selection /\ fns \in Seq(Menu)
  BY DEF FlowInv
<1>2. edits' \in 0..MaxEdits
  BY FlowFacts DEF FlowInv, EditFn, Edits
<1>3. PICK i \in FirstNamed(fns, selection.name) :
       \/ \E n \in 0..MaxName : /\ UpdateFn([fns[i] EXCEPT !.name = n])
                                /\ selection' = [selection EXCEPT !.name = n]
       \/ /\ Len(fns[i].actions) < MaxActions
          /\ UpdateFn([fns[i] EXCEPT !.actions = Append(@, emptyAction)])
          /\ selection' = Selected("action", fns[i].name, Len(fns[i].actions) + 1)
       \/ /\ \E j \in DOMAIN fns[i].actions :
               UpdateFn([fns[i] EXCEPT !.actions = RemoveAt(@, j)])
          /\ UNCHANGED selection
  BY DEF EditFn
<1>4. i \in DOMAIN fns
  BY <1>1, FirstNamedIn
<1> DEFINE f == fns[i]
           as == fns[i].actions
<1>5. f \in Menu /\ f.name \in Name /\ as \in Seq(OneKind) /\ Len(as) <= MaxActions
  BY <1>4, MenuFacts
<1>6. CASE \E n \in 0..MaxName : /\ UpdateFn([f EXCEPT !.name = n])
                                 /\ selection' = [selection EXCEPT !.name = n]
  <2>1. PICK n \in 0..MaxName : /\ UpdateFn([f EXCEPT !.name = n])
                                /\ selection' = [selection EXCEPT !.name = n]
    BY <1>6
  <2>2. n \in Name
    BY FlowFacts
  <2>3. [f EXCEPT !.name = n] \in Menu
    BY <1>5, <2>2 DEF Menu
  <2>4. selection' \in Selection
    BY <1>1, <2>1, <2>2 DEF Selection
  <2> QED
    BY <1>2, <2>1, <2>3, <2>4, UpdatedFn DEF FlowInv
<1>7. CASE /\ Len(as) < MaxActions
           /\ UpdateFn([f EXCEPT !.actions = Append(@, emptyAction)])
           /\ selection' = Selected("action", f.name, Len(as) + 1)
  <2>1. Append(as, emptyAction) \in Seq(OneKind) /\ Len(Append(as, emptyAction)) = Len(as) + 1
    BY <1>5, EmptyIsTyped, Added
  <2>2. Len(as) + 1 \in ActionKey /\ Len(as) + 1 <= MaxActions
    BY <1>5, <1>7, FlowFacts DEF ActionKey
  <2>3. [f EXCEPT !.actions = Append(@, emptyAction)] \in Menu
    BY <1>5, <2>1, <2>2 DEF Menu
  <2>4. selection' \in Selection
    BY <1>5, <1>7, <2>2 DEF Selection, Selected
  <2> QED
    BY <1>2, <1>7, <2>3, <2>4, UpdatedFn DEF FlowInv
<1>8. CASE /\ \E j \in DOMAIN as : UpdateFn([f EXCEPT !.actions = RemoveAt(@, j)])
           /\ UNCHANGED selection
  <2>1. PICK j \in DOMAIN as : UpdateFn([f EXCEPT !.actions = RemoveAt(@, j)])
    BY <1>8
  <2>2. RemoveAt(as, j) \in Seq(OneKind) /\ Len(RemoveAt(as, j)) <= Len(as)
    BY <1>5, RemovedAt
  <2>3. Len(RemoveAt(as, j)) <= MaxActions
    BY <1>5, <2>2, FlowFacts
  <2>4. [f EXCEPT !.actions = RemoveAt(@, j)] \in Menu
    BY <1>5, <2>2, <2>3 DEF Menu
  <2> QED
    BY <1>1, <1>2, <1>8, <2>1, <2>4, UpdatedFn DEF FlowInv
<1> QED
  BY <1>3, <1>6, <1>7, <1>8

LEMMA LineFacts ==
  ASSUME FlowInv, NEW k \in DOMAIN queues
  PROVE  queues[k] \in Line /\ queues[k].name \in Name /\ queues[k].end \in OneKind
<1>1. queues \in Seq(Line)
  BY DEF FlowInv
<1>2. queues[k] \in Line
  BY <1>1
<1> QED
  BY <1>2 DEF Line

LEMMA EditQueueInv == FlowInv /\ EditQueue => FlowInv'
<1> SUFFICES ASSUME FlowInv, EditQueue PROVE FlowInv'
  OBVIOUS
<1>1. selection \in Selection /\ queues \in Seq(Line)
  BY DEF FlowInv
<1>2. edits' \in 0..MaxEdits
  BY FlowFacts DEF FlowInv, EditQueue, Edits
<1>3. PICK k \in FirstNamed(queues, selection.name), n \in 0..MaxName :
       UpdateQueue([queues[k] EXCEPT !.name = n]) /\ selection' = [selection EXCEPT !.name = n]
  BY DEF EditQueue
<1>4. k \in DOMAIN queues
  BY <1>1, FirstNamedIn
<1>5. n \in Name
  BY FlowFacts
<1>6. [queues[k] EXCEPT !.name = n] \in Line
  BY <1>4, <1>5, LineFacts DEF Line
<1>7. selection' \in Selection
  BY <1>1, <1>3, <1>5 DEF Selection
<1> QED
  BY <1>2, <1>3, <1>6, <1>7, UpdatedQueue DEF FlowInv

LEMMA EditActionInv == FlowInv /\ EditAction => FlowInv'
<1> SUFFICES ASSUME FlowInv, EditAction PROVE FlowInv'
  OBVIOUS
<1>1. selection \in Selection /\ queues \in Seq(Line) /\ fns \in Seq(Menu)
  BY DEF FlowInv
<1>2. edits' \in 0..MaxEdits
  BY FlowFacts DEF FlowInv, EditAction, Edits
<1>3. CASE \E i \in FirstNamed(fns, selection.name) :
             /\ selection.at \in DOMAIN fns[i].actions
             /\ \/ /\ \E a \in Edited(fns[i].actions[selection.at]) :
                        UpdateFn([fns[i] EXCEPT !.actions[selection.at] = a])
                   /\ UNCHANGED selection
                \/ /\ UpdateFn([fns[i] EXCEPT !.actions = RemoveAt(@, selection.at)])
                   /\ selection' = Selected("fn", selection.name, 0)
  <2>1. PICK i \in FirstNamed(fns, selection.name) :
             /\ selection.at \in DOMAIN fns[i].actions
             /\ \/ /\ \E a \in Edited(fns[i].actions[selection.at]) :
                        UpdateFn([fns[i] EXCEPT !.actions[selection.at] = a])
                   /\ UNCHANGED selection
                \/ /\ UpdateFn([fns[i] EXCEPT !.actions = RemoveAt(@, selection.at)])
                   /\ selection' = Selected("fn", selection.name, 0)
    BY <1>3
  <2>2. i \in DOMAIN fns
    BY <1>1, FirstNamedIn
  <2> DEFINE f == fns[i]
             as == fns[i].actions
             j == selection.at
  <2>3. f \in Menu /\ f.name \in Name /\ as \in Seq(OneKind) /\ Len(as) <= MaxActions
    BY <2>2, MenuFacts
  <2>4. CASE \E a \in Edited(as[j]) : UpdateFn([f EXCEPT !.actions[j] = a]) /\ UNCHANGED selection
    <3>1. PICK a \in Edited(as[j]) : UpdateFn([f EXCEPT !.actions[j] = a]) /\ UNCHANGED selection
      BY <2>4
    <3>2. as[j] \in OneKind
      BY <2>1, <2>3
    <3>3. a \in OneKind
      BY <3>2, EditedTyped
    <3>4. [as EXCEPT ![j] = a] \in Seq(OneKind) /\ Len([as EXCEPT ![j] = a]) = Len(as)
      BY <2>1, <2>3, <3>3, Replaced
    <3>5. [f EXCEPT !.actions[j] = a] \in Menu
      BY <2>3, <3>4 DEF Menu
    <3> QED
      BY <1>1, <1>2, <3>1, <3>5, UpdatedFn DEF FlowInv
  <2>5. CASE /\ UpdateFn([f EXCEPT !.actions = RemoveAt(@, j)])
             /\ selection' = Selected("fn", selection.name, 0)
    <3>1. RemoveAt(as, j) \in Seq(OneKind) /\ Len(RemoveAt(as, j)) <= Len(as)
      BY <2>1, <2>3, RemovedAt
    <3>2. Len(RemoveAt(as, j)) <= MaxActions
      BY <2>3, <3>1, FlowFacts
    <3>3. [f EXCEPT !.actions = RemoveAt(@, j)] \in Menu
      BY <2>3, <3>1, <3>2 DEF Menu
    <3>4. selection' \in Selection
      BY <1>1, <2>5, FlowFacts DEF Selection, Selected
    <3> QED
      BY <1>2, <2>5, <3>3, <3>4, UpdatedFn DEF FlowInv
  <2> QED
    BY <2>1, <2>4, <2>5
<1>4. CASE /\ UNCHANGED selection
           /\ \E k \in FirstNamed(queues, selection.name) :
                \E a \in Edited(queues[k].end) \cup {emptyAction} :
                  UpdateQueue([queues[k] EXCEPT !.end = a])
  <2>1. PICK k \in FirstNamed(queues, selection.name) :
                \E a \in Edited(queues[k].end) \cup {emptyAction} :
                  UpdateQueue([queues[k] EXCEPT !.end = a])
    BY <1>4
  <2>2. k \in DOMAIN queues
    BY <1>1, FirstNamedIn
  <2>3. queues[k] \in Line /\ queues[k].end \in OneKind
    BY <2>2, LineFacts
  <2>4. Edited(queues[k].end) \cup {emptyAction} \subseteq OneKind
    BY <2>3, EditedTyped, EmptyIsTyped
  <2>5. PICK a \in OneKind : UpdateQueue([queues[k] EXCEPT !.end = a])
    BY <2>1, <2>4
  <2>6. [queues[k] EXCEPT !.end = a] \in Line
    BY <2>3 DEF Line
  <2> QED
    BY <1>1, <1>2, <1>4, <2>5, <2>6, UpdatedQueue DEF FlowInv
<1> QED
  BY <1>3, <1>4 DEF EditAction

LEMMA RoutesTyped ==
  ASSUME FlowInv
  PROVE  /\ emptySIPRoute(FirstName) \in Route
         /\ \A r \in Route : EditedRoute(r) \subseteq Route
         /\ Names(fns) \cup {0} \subseteq Name
<1>1. emptySIPRoute(FirstName) \in Route
  BY FirstNameTyped DEF emptySIPRoute, Route, Number
<1>2. Names(fns) \cup {0} \subseteq Name
  <2>1. \A i \in DOMAIN fns : fns[i].name \in Name
    BY MenuFacts
  <2> QED
    BY <2>1, FlowFacts DEF Names
<1>3. ASSUME NEW r \in Route PROVE EditedRoute(r) \subseteq Route
  <2>1. \A x \in Number : [r EXCEPT !.number = x] \in Route
    BY DEF Route
  <2>2. \A n \in Name : [r EXCEPT !.entrypoint = n] \in Route
    BY DEF Route
  <2>3. \A b \in BOOLEAN : [r EXCEPT !.catchAll = b, !.number = IF b THEN "" ELSE @] \in Route
    BY DEF Route, Number
  <2> QED
    BY <1>2, <2>1, <2>2, <2>3 DEF EditedRoute
<1> QED
  BY <1>1, <1>2, <1>3

\* The SIP tab keeps a trunk without an entrypoint of its own.
LEMMA ConnectionEdited ==
  ASSUME FlowInv, NEW c \in Trunk
  PROVE  EditedConnection(c) \subseteq Trunk
<1>1. /\ c.kind \in {"endpoint", "trunk"} /\ c.entrypoint \in Name /\ c.route \in Seq(Route)
      /\ Len(c.route) <= MaxRoutes
      /\ c \in [kind : {"endpoint", "trunk"}, entrypoint : Name, route : Seq(Route)]
      /\ c.kind = "trunk" => c.entrypoint = 0
  BY DEF Trunk
<1>2. \A kind \in {"endpoint", "trunk"} : SwitchedKind(c, kind) \in Trunk
  <2>1. <<emptySIPRoute(FirstName)>> \in Seq(Route) /\ Len(<<emptySIPRoute(FirstName)>>) = 1
    BY RoutesTyped
  <2>2. <<>> \in Seq(Route) /\ Len(<<>>) = 0
    OBVIOUS
  <2>3. SwitchedKind(c, "trunk") \in Trunk
    BY <1>1, <2>1, FlowFacts DEF SwitchedKind, Trunk
  <2>4. SwitchedKind(c, "endpoint") \in Trunk
    BY <1>1, <2>2, FlowFacts, FirstNameTyped DEF SwitchedKind, Trunk
  <2> QED
    BY <2>3, <2>4
<1>3. ASSUME c.kind = "endpoint", NEW n \in Name PROVE [c EXCEPT !.entrypoint = n] \in Trunk
  BY <1>1, <1>3 DEF Trunk
<1>4. ASSUME NEW w \in Seq(Route), Len(w) <= MaxRoutes PROVE [c EXCEPT !.route = w] \in Trunk
  BY <1>1, <1>4 DEF Trunk
<1>5. ASSUME NEW j \in DOMAIN c.route PROVE [c EXCEPT !.route = RemoveAt(@, j)] \in Trunk
  <2>1. RemoveAt(c.route, j) \in Seq(Route) /\ Len(RemoveAt(c.route, j)) <= Len(c.route)
    BY <1>1, RemovedAt
  <2>2. Len(RemoveAt(c.route, j)) <= MaxRoutes
    BY <1>1, <2>1, FlowFacts
  <2> QED
    BY <1>4, <2>1, <2>2
<1>6. ASSUME Len(c.route) < MaxRoutes
      PROVE  [c EXCEPT !.route = Append(@, emptySIPRoute(FirstName))] \in Trunk
  <2>1. Append(c.route, emptySIPRoute(FirstName)) \in Seq(Route)
    BY <1>1, RoutesTyped, Added
  <2>2. Len(Append(c.route, emptySIPRoute(FirstName))) <= MaxRoutes
    BY <1>1, <1>6, RoutesTyped, Added, FlowFacts
  <2> QED
    BY <1>4, <2>1, <2>2
<1>7. ASSUME NEW j \in DOMAIN c.route, NEW r \in EditedRoute(c.route[j])
      PROVE  [c EXCEPT !.route[j] = r] \in Trunk
  <2>1. c.route[j] \in Route
    BY <1>1
  <2>2. r \in Route
    BY <2>1, RoutesTyped
  <2>3. [c.route EXCEPT ![j] = r] \in Seq(Route) /\ Len([c.route EXCEPT ![j] = r]) = Len(c.route)
    BY <1>1, <2>2, Replaced
  <2> QED
    BY <1>1, <1>4, <2>3
<1>8. ASSUME NEW d \in EditedConnection(c) PROVE d \in Trunk
  <2>1. \/ \E kind \in {"endpoint", "trunk"} : d = SwitchedKind(c, kind)
        \/ c.kind = "endpoint" /\ \E n \in Names(fns) \cup {0} : d = [c EXCEPT !.entrypoint = n]
        \/ \E j \in DOMAIN c.route : d = [c EXCEPT !.route = RemoveAt(@, j)]
        \/ /\ Len(c.route) < MaxRoutes
           /\ d = [c EXCEPT !.route = Append(@, emptySIPRoute(FirstName))]
        \/ \E j \in DOMAIN c.route : \E r \in EditedRoute(c.route[j]) : d = [c EXCEPT !.route[j] = r]
    <3> DEFINE A == {SwitchedKind(c, kind) : kind \in {"endpoint", "trunk"}}
               B == {[c EXCEPT !.entrypoint = n] : n \in Names(fns) \cup {0}}
               C == {[c EXCEPT !.route = RemoveAt(@, j)] : j \in DOMAIN c.route}
               D == {[c EXCEPT !.route = Append(@, emptySIPRoute(FirstName))] :
                       x \in IF Len(c.route) < MaxRoutes THEN {0} ELSE {}}
               R(j) == {[c EXCEPT !.route[j] = r] : r \in EditedRoute(c.route[j])}
               E == UNION {R(j) : j \in DOMAIN c.route}
    <3>1. EditedConnection(c) = A \cup (IF c.kind = "endpoint" THEN B ELSE C \cup D \cup E)
      BY DEF EditedConnection
    <3>2. d \in E => \E j \in DOMAIN c.route : d \in R(j)
      <4> HIDE DEF R
      <4> QED
        OBVIOUS
    <3>3. d \in D => Len(c.route) < MaxRoutes /\ d = [c EXCEPT !.route = Append(@, emptySIPRoute(FirstName))]
      OBVIOUS
    <3> HIDE DEF E, D
    <3> QED
      BY <1>8, <3>1, <3>2, <3>3
  <2>2. Names(fns) \cup {0} \subseteq Name
    BY RoutesTyped
  <2> QED
    BY <1>2, <1>3, <1>5, <1>6, <1>7, <2>1, <2>2
<1> QED
  BY <1>8

LEMMA EditSIPInv == FlowInv /\ EditSIP => FlowInv'
<1> SUFFICES ASSUME FlowInv, EditSIP PROVE FlowInv'
  OBVIOUS
<1>1. sip \in Seq(Trunk) /\ Len(sip) <= MaxConnections
  BY DEF FlowInv
<1>2. edits' \in 0..MaxEdits
  BY FlowFacts DEF FlowInv, EditSIP, Edits
<1>3. CASE Len(sip) < MaxConnections /\ sip' = Append(sip, emptySIPConnection(FirstName))
  <2>1. emptySIPConnection(FirstName) \in Trunk
    BY EmptyIsTyped, FirstNameTyped
  <2>2. Append(sip, emptySIPConnection(FirstName)) \in Seq(Trunk)
        /\ Len(Append(sip, emptySIPConnection(FirstName))) = Len(sip) + 1
    BY <1>1, <2>1, Added
  <2>3. sip' \in Seq(Trunk) /\ Len(sip') <= MaxConnections
    BY <1>1, <1>3, <2>2, FlowFacts
  <2> QED
    BY <1>2, <2>3 DEF FlowInv, EditSIP
<1>4. CASE \E n \in DOMAIN sip : \E c \in EditedConnection(sip[n]) : sip' = [sip EXCEPT ![n] = c]
  <2>1. PICK n \in DOMAIN sip : \E c \in EditedConnection(sip[n]) : sip' = [sip EXCEPT ![n] = c]
    BY <1>4
  <2>2. sip[n] \in Trunk
    BY <1>1
  <2>3. PICK c \in Trunk : sip' = [sip EXCEPT ![n] = c]
    BY <2>1, <2>2, ConnectionEdited
  <2>4. sip' \in Seq(Trunk) /\ Len(sip') <= MaxConnections
    BY <1>1, <2>3, Replaced
  <2> QED
    BY <1>2, <2>4 DEF FlowInv, EditSIP
<1>5. CASE \E n \in DOMAIN sip : sip' = RemoveAt(sip, n)
  <2>1. PICK n \in DOMAIN sip : sip' = RemoveAt(sip, n)
    BY <1>5
  <2>2. sip' \in Seq(Trunk) /\ Len(sip') <= Len(sip)
    BY <1>1, <2>1, RemovedAt
  <2>3. Len(sip') <= MaxConnections
    BY <1>1, <2>2, FlowFacts
  <2> QED
    BY <1>2, <2>2, <2>3 DEF FlowInv, EditSIP
<1>6. CASE \E n \in DOMAIN sip : n + 1 \in DOMAIN sip /\ sip' = [sip EXCEPT ![n] = sip[n + 1], ![n + 1] = sip[n]]
  <2>1. PICK n \in DOMAIN sip : n + 1 \in DOMAIN sip /\ sip' = [sip EXCEPT ![n] = sip[n + 1], ![n + 1] = sip[n]]
    BY <1>6
  <2>2. sip[n] \in Trunk /\ sip[n + 1] \in Trunk
    BY <1>1, <2>1
  <2>3. [sip EXCEPT ![n] = sip[n + 1]] \in Seq(Trunk)
        /\ Len([sip EXCEPT ![n] = sip[n + 1]]) = Len(sip)
    BY <1>1, <2>2, Replaced
  <2>4. sip' \in Seq(Trunk) /\ Len(sip') <= MaxConnections
    BY <1>1, <2>1, <2>2, <2>3, Replaced
  <2> QED
    BY <1>2, <2>4 DEF FlowInv, EditSIP
<1> QED
  BY <1>3, <1>4, <1>5, <1>6 DEF EditSIP

-----------------------------------------------------------------------------
(* What a save stores.                                                     *)

StoredFn(f) == [name |-> f.name, actions |-> [j \in DOMAIN f.actions |-> Stored(f.actions[j])]]
StoredQueue(l) == [name |-> l.name, end |-> Stored(l.end)]

\* The document that is read back, element by element.
LEMMA ReadIs ==
  ASSUME FlowInv
  PROVE  /\ ReadFns(fns) = [i \in DOMAIN fns |-> StoredFn(fns[i])]
         /\ ReadQueues(queues) = [k \in DOMAIN queues |-> StoredQueue(queues[k])]
<1>1. \A a \in OneKind : normalizeAction(prune(a)) = Stored(a)
  BY StoredIs DEF OneKind
<1>2. ASSUME NEW i \in DOMAIN fns
      PROVE  [name |-> renderFn(fns[i]).name,
              actions |-> [j \in DOMAIN renderFn(fns[i]).actions |-> normalizeAction(renderFn(fns[i]).actions[j])]]
             = StoredFn(fns[i])
  <2>1. \A j \in DOMAIN fns[i].actions : fns[i].actions[j] \in OneKind
    BY MenuFacts
  <2>2. /\ renderFn(fns[i]).name = fns[i].name
        /\ renderFn(fns[i]).actions = [j \in DOMAIN fns[i].actions |-> prune(fns[i].actions[j])]
    BY DEF renderFn
  <2>3. [j \in DOMAIN renderFn(fns[i]).actions |-> normalizeAction(renderFn(fns[i]).actions[j])]
        = [j \in DOMAIN fns[i].actions |-> Stored(fns[i].actions[j])]
    BY <1>1, <2>1, <2>2
  <2> QED
    BY <2>2, <2>3 DEF StoredFn
<1>3. ReadFns(fns) = [i \in DOMAIN fns |-> StoredFn(fns[i])]
  BY <1>2 DEF ReadFns
<1>4. ASSUME NEW k \in DOMAIN queues
      PROVE  [name |-> renderQueue(queues[k]).name, end |-> normalizeAction(renderQueue(queues[k]).end)]
             = StoredQueue(queues[k])
  <2>1. queues[k].end \in OneKind
    BY LineFacts
  <2>2. renderQueue(queues[k]).name = queues[k].name /\ renderQueue(queues[k]).end = prune(queues[k].end)
    BY DEF renderQueue
  <2> QED
    BY <1>1, <2>1, <2>2 DEF StoredQueue
<1>5. ReadQueues(queues) = [k \in DOMAIN queues |-> StoredQueue(queues[k])]
  BY <1>4 DEF ReadQueues
<1> QED
  BY <1>3, <1>5

LEMMA StoredFnTyped ==
  /\ \A m \in Menu : StoredFn(m) \in Menu
  /\ \A l \in Line : StoredQueue(l) \in Line
<1>1. ASSUME NEW m \in Menu PROVE StoredFn(m) \in Menu
  <2>1. m.name \in Name /\ m.actions \in Seq(OneKind) /\ Len(m.actions) <= MaxActions
    BY DEF Menu
  <2> DEFINE w == [j \in DOMAIN m.actions |-> Stored(m.actions[j])]
  <2>2. \A j \in DOMAIN m.actions : Stored(m.actions[j]) \in OneKind
    BY <2>1, StoredTyped
  <2>3. DOMAIN m.actions = 1..Len(m.actions) /\ Len(m.actions) \in Nat
    BY <2>1
  <2>4. w \in Seq(OneKind) /\ Len(w) = Len(m.actions)
    BY <2>2, <2>3
  <2> HIDE DEF w
  <2>5. [name |-> m.name, actions |-> w] \in Menu
    BY <2>1, <2>4 DEF Menu
  <2> QED
    BY <2>5 DEF StoredFn, w
<1>2. ASSUME NEW l \in Line PROVE StoredQueue(l) \in Line
  BY StoredTyped DEF Line, StoredQueue
<1> QED
  BY <1>1, <1>2

LEMMA Mapped ==
  ASSUME NEW S, NEW s \in Seq(S), NEW t, t = [i \in DOMAIN s |-> t[i]],
         \A i \in DOMAIN s : t[i] \in S
  PROVE  t \in Seq(S) /\ Len(t) = Len(s) /\ DOMAIN t = DOMAIN s
<1>1. DOMAIN s = 1..Len(s) /\ Len(s) \in Nat
  OBVIOUS
<1> QED
  BY <1>1

LEMMA SaveInv == FlowInv /\ SaveAndLoad => FlowInv'
<1> SUFFICES ASSUME FlowInv, SaveAndLoad PROVE FlowInv'
  OBVIOUS
<1>1. fns \in Seq(Menu) /\ Len(fns) <= MaxFns /\ queues \in Seq(Line) /\ Len(queues) <= MaxQueues
  BY DEF FlowInv
<1>2. /\ fns' = [i \in DOMAIN fns |-> StoredFn(fns[i])]
      /\ queues' = [k \in DOMAIN queues |-> StoredQueue(queues[k])]
  BY ReadIs DEF SaveAndLoad
<1>3. /\ \A i \in DOMAIN fns : fns[i] \in Menu /\ fns'[i] \in Menu
      /\ \A k \in DOMAIN queues : queues[k] \in Line /\ queues'[k] \in Line
  BY <1>1, <1>2, StoredFnTyped
<1>4. fns' = [i \in DOMAIN fns |-> fns'[i]] /\ queues' = [k \in DOMAIN queues |-> queues'[k]]
  BY <1>2
<1>5. fns' \in Seq(Menu) /\ Len(fns') = Len(fns) /\ queues' \in Seq(Line) /\ Len(queues') = Len(queues)
  BY <1>1, <1>3, <1>4, Mapped
<1> QED
  BY <1>1, <1>5 DEF FlowInv, SaveAndLoad

\* The invariant, step by step.
LEMMA NextFlow == FlowInv /\ [FlowNext]_flowVars => FlowInv'
<1>1. FlowInv /\ UNCHANGED flowVars => FlowInv'
  BY DEF FlowInv, flowVars
<1> QED
  BY <1>1, SelectsInv, AddFnInv, RemoveInv, EditFnInv, EditQueueInv, EditActionInv, EditSIPInv, SaveInv
  DEF FlowNext

\* Whatever is clicked, in any order and any number, every action is of one kind.
THEOREM FlowInvariant == FlowSpec => []FlowInv
<1> QED
  BY InitFlow, NextFlow, PTL DEF FlowSpec

\* Every variable keeps its type, for any number of menus, actions and routes.
THEOREM FlowTypeCorrect == FlowSpec => []FlowTypeOK
<1> QED
  BY FlowInvariant, FlowTypes, PTL

-----------------------------------------------------------------------------
(* The graph, before and after a save.                                     *)

\* What a save keeps of the places, and of what the graph reads there.
LEMMA SavedPlaces ==
  ASSUME FlowInv
  PROVE  LET f == ReadFns(fns)  q == ReadQueues(queues) IN
         /\ DOMAIN f = DOMAIN fns /\ DOMAIN q = DOMAIN queues
         /\ \A i \in DOMAIN fns :
              /\ f[i].name = fns[i].name
              /\ DOMAIN f[i].actions = DOMAIN fns[i].actions
              /\ \A j \in DOMAIN fns[i].actions : f[i].actions[j] = Stored(fns[i].actions[j])
         /\ \A k \in DOMAIN queues : q[k].name = queues[k].name /\ q[k].end = Stored(queues[k].end)
         /\ FnPlaces(f) = FnPlaces(fns) /\ EndPlaces(q) = EndPlaces(queues)
         /\ Drawn(f, q) = Drawn(fns, queues) /\ Places(f, q) = Places(fns, queues)
         /\ Names(f) = Names(fns) /\ Names(q) = Names(queues)
         /\ \A p \in Places(fns, queues) :
              /\ At(f, q, p) = Stored(At(fns, queues, p))
              /\ At(fns, queues, p) \in OneKind
<1> DEFINE f == ReadFns(fns)
           q == ReadQueues(queues)
<1>1. f = [i \in DOMAIN fns |-> StoredFn(fns[i])] /\ q = [k \in DOMAIN queues |-> StoredQueue(queues[k])]
  BY ReadIs
<1> HIDE DEF f, q
<1>2. DOMAIN f = DOMAIN fns /\ DOMAIN q = DOMAIN queues
  BY <1>1
<1>3. \A i \in DOMAIN fns :
        /\ f[i].name = fns[i].name
        /\ DOMAIN f[i].actions = DOMAIN fns[i].actions
        /\ \A j \in DOMAIN fns[i].actions : f[i].actions[j] = Stored(fns[i].actions[j])
  BY <1>1 DEF StoredFn
<1>4. \A k \in DOMAIN queues : q[k].name = queues[k].name /\ q[k].end = Stored(queues[k].end)
  BY <1>1 DEF StoredQueue
<1>5. FnPlaces(f) = FnPlaces(fns) /\ EndPlaces(q) = EndPlaces(queues)
  BY <1>2, <1>3 DEF FnPlaces, EndPlaces
<1>6. Places(f, q) = Places(fns, queues)
  BY <1>5 DEF Places
<1>7. \A p \in FnPlaces(fns) : p[1] \in DOMAIN fns /\ p[2] \in DOMAIN fns[p[1]].actions /\ p[2] # 0
  BY DEF FnPlaces
<1>8. \A p \in EndPlaces(queues) : p[1] \in DOMAIN queues /\ p[2] = 0
  BY DEF EndPlaces
<1>9. Drawn(f, q) = Drawn(fns, queues)
  BY <1>3, <1>4, <1>5, <1>7, <1>8 DEF Drawn
<1>10. Names(f) = Names(fns) /\ Names(q) = Names(queues)
  BY <1>2, <1>3, <1>4 DEF Names
<1>11. \A p \in Places(fns, queues) :
         At(f, q, p) = Stored(At(fns, queues, p)) /\ At(fns, queues, p) \in OneKind
  BY <1>3, <1>4, <1>7, <1>8, MenuFacts, LineFacts DEF Places, At
<1> QED
  BY <1>2, <1>3, <1>4, <1>5, <1>6, <1>9, <1>10, <1>11 DEF f, q

\* An action keeps the key it is drawn with, which is the runtime's.
LEMMA SavedKeys ==
  ASSUME FlowInv, NEW i \in DOMAIN fns, NEW j \in DOMAIN fns[i].actions
  PROVE  KeyOf(ReadFns(fns)[i], j) = KeyOf(fns[i], j) /\ Num(ReadFns(fns)[i], j) = KeyOf(fns[i], j)
<1>1. fns[i].actions[j] \in FlowAction
  BY MenuFacts DEF OneKind
<1>2. ReadFns(fns)[i].actions[j] = Stored(fns[i].actions[j])
  BY SavedPlaces
<1>3. Stored(fns[i].actions[j]).num = fns[i].actions[j].num
  BY <1>1 DEF Stored, FlowAction
<1> QED
  BY <1>2, <1>3 DEF KeyOf, Num

\* The edges of a place are drawn from what a save keeps.
LEMMA SavedEdges ==
  ASSUME FlowInv, NEW p \in Places(fns, queues)
  PROVE  LET f == ReadFns(fns)  q == ReadQueues(queues) IN
         Edges(f, q, At(f, q, p)) = Edges(fns, queues, At(fns, queues, p))
<1> DEFINE f == ReadFns(fns)
           q == ReadQueues(queues)
           a == At(fns, queues, p)
<1>1. At(f, q, p) = Stored(a) /\ a \in OneKind
  BY SavedPlaces
<1>2. \A ref : ReuseTargets(f, ref) = ReuseTargets(fns, ref)
  <2>1. FnPlaces(f) = FnPlaces(fns)
    BY SavedPlaces
  <2>2. \A o \in FnPlaces(fns) : f[o[1]].name = fns[o[1]].name /\ KeyOf(f[o[1]], o[2]) = KeyOf(fns[o[1]], o[2])
    <3>1. \A o \in FnPlaces(fns) : o[1] \in DOMAIN fns /\ o[2] \in DOMAIN fns[o[1]].actions
      BY DEF FnPlaces
    <3> QED
      BY <3>1, SavedPlaces, SavedKeys
  <2> HIDE DEF f
  <2>3. ASSUME NEW ref
        PROVE  {o \in FnPlaces(f) : f[o[1]].name = ref.fn /\ KeyOf(f[o[1]], o[2]) = ref.key}
             = {o \in FnPlaces(fns) : fns[o[1]].name = ref.fn /\ KeyOf(fns[o[1]], o[2]) = ref.key}
    BY <2>1, <2>2
  <2> QED
    BY <2>3 DEF ReuseTargets
<1>3. Names(f) = Names(fns) /\ Names(q) = Names(queues)
  BY SavedPlaces
<1>4. /\ Stored(a).reuse = a.reuse /\ Stored(a).dst = a.dst /\ Stored(a).dispatcher = a.dispatcher
      /\ Stored(a).then = a.then
  BY <1>1 DEF Stored, OneKind, FlowAction
<1> HIDE DEF f, q, a
<1>5. Edges(f, q, Stored(a)) = Edges(fns, queues, a)
  BY <1>2, <1>3, <1>4 DEF Edges
<1> QED
  BY <1>1, <1>5 DEF f, q, a

LEMMA DrawnPlaces == Drawn(fns, queues) \subseteq Places(fns, queues)
BY DEF Drawn, Places

\* Saving a draft and loading it leaves the graph as it was drawn, whatever it holds
\* (buildNodesAndEdges; toml-render.ts, toml-parse.ts).
THEOREM SavesKeepGraphs == FlowSpec => []GraphSurvivesSave
<1>1. FlowInv => GraphSurvivesSave
  <2> SUFFICES ASSUME FlowInv PROVE GraphSurvivesSave
    OBVIOUS
  <2>1. Drawn(ReadFns(fns), ReadQueues(queues)) = Drawn(fns, queues)
    BY SavedPlaces
  <2>2. \A p \in Drawn(fns, queues) :
          Edges(ReadFns(fns), ReadQueues(queues), At(ReadFns(fns), ReadQueues(queues), p))
          = Edges(fns, queues, At(fns, queues, p))
    BY DrawnPlaces, SavedEdges
  <2> QED
    BY <2>1, <2>2 DEF GraphSurvivesSave, Graph
<1> QED
  BY <1>1, FlowInvariant, PTL

\* The runtime finds the menus that the page names.
LEMMA NamedIffIn ==
  ASSUME FlowInv, NEW n
  PROVE  FnNamed(ReadFns(fns), n) # {} <=> \E i \in DOMAIN fns : fns[i].name = n
<1> DEFINE f == ReadFns(fns)
<1>1. DOMAIN f = DOMAIN fns /\ \A i \in DOMAIN fns : f[i].name = fns[i].name
  BY SavedPlaces
<1> HIDE DEF f
<1>2. FnNamed(f, n) # {} <=> \E i \in DOMAIN fns : fns[i].name = n
  BY <1>1 DEF FnNamed
<1> QED
  BY <1>2 DEF f

\* Any draft the page and the worker let pass is taken by the runtime, as far as its
\* references are valid (sip-validation.ts; Definition.Validate).
THEOREM SavedAccepted == FlowSpec => []SavedIsAccepted
<1>1. FlowInv => SavedIsAccepted
  <2> SUFFICES ASSUME FlowInv, Saveable, ReferencesValid(ReadFns(fns), ReadQueues(queues))
               PROVE  Validate(ReadFns(fns), ReadQueues(queues), sip)
    BY DEF SavedIsAccepted
  <2>1. \A n \in Names(fns) : FnNamed(ReadFns(fns), n) # {}
    BY NamedIffIn DEF Names
  <2> DEFINE f == ReadFns(fns)
  <2>2. \A n \in Names(fns) : FnNamed(f, n) # {}
    BY <2>1
  <2> HIDE DEF f
  <2>3. ASSUME NEW n \in DOMAIN sip PROVE Accepts(f, sip[n])
    <3>1. sip[n] \in Trunk
      <4>1. sip \in Seq(Trunk)
        BY DEF FlowInv
      <4> QED
        BY <4>1
    <3>2. sip[n].kind \in {"endpoint", "trunk"} /\ (sip[n].kind = "trunk" => sip[n].entrypoint = 0)
      BY <3>1 DEF Trunk
    <3>3. CASE sip[n].kind = "endpoint"
      BY <2>2, <3>3 DEF Saveable, Accepts
    <3>4. CASE sip[n].kind = "trunk"
      BY <2>2, <3>2, <3>4 DEF Saveable, Accepts
    <3> QED
      BY <3>2, <3>3, <3>4
  <2> QED
    BY <2>3 DEF Validate, Saveable, f
<1> QED
  BY <1>1, FlowInvariant, PTL

\* After a removal the runtime finds nothing under the name that has gone, however
\* many menus bore it (removeSelected).
THEOREM RemovalsBreak == FlowSpec => RemovalBreaksInbound
<1>1. FlowInv /\ FlowInv' /\ [FlowNext]_flowVars =>
        [RemoveSelected /\ selection.kind = "fn" =>
           LET f == ReadFns(fns')  q == ReadQueues(queues') IN
           /\ FnNamed(f, selection.name) = {}
           /\ \A p \in Places(f, q) : \A l \in Reaches(f, q, At(f, q, p)) :
                l.kind \in {"dst", "then"} /\ l.to = selection.name => l.broken]_flowVars
  <2> SUFFICES ASSUME FlowInv, FlowInv', RemoveSelected, selection.kind = "fn"
               PROVE  LET f == ReadFns(fns')  q == ReadQueues(queues') IN
                      /\ FnNamed(f, selection.name) = {}
                      /\ \A p \in Places(f, q) : \A l \in Reaches(f, q, At(f, q, p)) :
                           l.kind \in {"dst", "then"} /\ l.to = selection.name => l.broken
    OBVIOUS
  <2> DEFINE f == ReadFns(fns')
             q == ReadQueues(queues')
  <2>1. fns' = Without(fns, selection.name)
    BY DEF RemoveSelected
  <2>2. fns \in Seq(Menu)
    BY DEF FlowInv
  <2>3. \A i \in DOMAIN fns' : fns'[i].name # selection.name
    BY <2>1, <2>2, WithoutIs
  <2>4. DOMAIN f = DOMAIN fns' /\ \A i \in DOMAIN fns' : f[i].name = fns'[i].name
    BY DEF ReadFns, renderFn
  <2> HIDE DEF f, q
  <2>5. FnNamed(f, selection.name) = {}
    BY <2>3, <2>4 DEF FnNamed
  <2>6. ASSUME NEW a, NEW l \in Reaches(f, q, a), l.kind \in {"dst", "then"}, l.to = selection.name
        PROVE  l.broken
    <3>1. CASE actionKind(a) = "reuse"
      <4>1. Reaches(f, q, a) = {Link("reuse", p, FALSE) : p \in Resolved(f, a.reuse)}
        BY <3>1 DEF Reaches
      <4> QED
        BY <2>6, <4>1 DEF Link
    <3>2. CASE actionKind(a) = "dst"
      <4>1. Reaches(f, q, a) = {Link("dst", a.dst, FnNamed(f, a.dst) = {})}
        BY <3>2 DEF Reaches
      <4>2. l.to = a.dst
        BY <2>6, <4>1 DEF Link
      <4>3. (FnNamed(f, a.dst) = {}) = TRUE
        BY <2>5, <2>6, <4>2
      <4>4. l = Link("dst", a.dst, TRUE)
        BY <2>6, <4>1, <4>3
      <4>5. Link("dst", a.dst, TRUE).broken = TRUE
        BY DEF Link
      <4> QED
        BY <4>4, <4>5
    <3>3. CASE actionKind(a) = "dispatcher"
      <4>1. Reaches(f, q, a) =
              {Link("dispatcher", a.dispatcher, \A k \in DOMAIN q : q[k].name # a.dispatcher)}
        BY <3>3 DEF Reaches
      <4> QED
        BY <2>6, <4>1 DEF Link
    <3>4. CASE actionKind(a) = "plays" /\ a.then # 0
      <4>1. Reaches(f, q, a) = {Link("then", a.then, FnNamed(f, a.then) = {})}
        BY <3>4 DEF Reaches
      <4>2. l.to = a.then
        BY <2>6, <4>1 DEF Link
      <4>3. (FnNamed(f, a.then) = {}) = TRUE
        BY <2>5, <2>6, <4>2
      <4>4. l = Link("then", a.then, TRUE)
        BY <2>6, <4>1, <4>3
      <4>5. Link("then", a.then, TRUE).broken = TRUE
        BY DEF Link
      <4> QED
        BY <4>4, <4>5
    <3>5. CASE /\ actionKind(a) \notin {"reuse", "dst", "dispatcher"}
               /\ ~(actionKind(a) = "plays" /\ a.then # 0)
      <4>1. Reaches(f, q, a) = {}
        BY <3>5 DEF Reaches
      <4> QED
        BY <2>6, <4>1
    <3> QED
      BY <3>1, <3>2, <3>3, <3>4, <3>5
  <2> QED
    BY <2>5, <2>6 DEF f, q
<1> QED
  BY <1>1, FlowInvariant, PTL DEF FlowSpec, RemovalBreaksInbound

\* Page and runtime find the same action behind a reference.
LEMMA SameTarget ==
  ASSUME FlowInv, NamesDistinct, NEW ref
  PROVE  Resolved(ReadFns(fns), ref) = ReuseTargets(fns, ref)
<1> DEFINE f == ReadFns(fns)
           I == {i \in DOMAIN f : f[i].name = ref.fn}
           P == {p \in FnPlaces(fns) : fns[p[1]].name = ref.fn /\ KeyOf(fns[p[1]], p[2]) = ref.key}
           J(i) == {j \in DOMAIN f[i].actions : Num(f[i], j) = ref.key}
<1>1. DOMAIN f = DOMAIN fns /\ \A i \in DOMAIN fns : f[i].name = fns[i].name
  BY SavedPlaces
<1>2. \A i \in DOMAIN fns : J(i) = {j \in DOMAIN fns[i].actions : KeyOf(fns[i], j) = ref.key}
  BY SavedPlaces, SavedKeys
<1>3. \A p \in P : p[1] \in I /\ p[2] \in J(p[1]) /\ p = <<p[1], p[2]>>
  <2>1. \A p \in FnPlaces(fns) :
          p[1] \in DOMAIN fns /\ p[2] \in DOMAIN fns[p[1]].actions /\ p = <<p[1], p[2]>>
    BY DEF FnPlaces
  <2> HIDE DEF f, J
  <2> QED
    BY <1>1, <1>2, <2>1
<1>4. \A i \in I : \A j \in J(i) : <<i, j>> \in P
  <2> SUFFICES ASSUME NEW i \in I, NEW j \in J(i) PROVE <<i, j>> \in P
    OBVIOUS
  <2>1. i \in DOMAIN fns /\ fns[i].name = ref.fn
    BY <1>1
  <2>2. j \in DOMAIN fns[i].actions /\ KeyOf(fns[i], j) = ref.key
    BY <1>2, <2>1
  <2>3. j \in 1..MaxActions
    BY <2>1, <2>2, MenuFacts
  <2> QED
    BY <2>1, <2>2, <2>3 DEF FnPlaces
<1>5. ReuseTargets(fns, ref) = LastOf(P)
  BY DEF ReuseTargets
<1>6. FnNamed(f, ref.fn) = IF I = {} THEN {} ELSE {Max(I)}
  BY DEF FnNamed
<1>7. Resolved(f, ref) = UNION {IF J(i) = {} THEN {} ELSE {<<i, Max(J(i))>>} : i \in FnNamed(f, ref.fn)}
  BY DEF Resolved
<1> HIDE DEF f, P, J
<1>8. CASE I = {}
  <2>1. P = {} /\ Resolved(f, ref) = {}
    BY <1>3, <1>6, <1>7, <1>8
  <2> QED
    BY <1>5, <2>1 DEF LastOf, f
<1>9. CASE I # {}
  <2>1. PICK i \in I : TRUE
    BY <1>9
  <2>2. I = {i} /\ i \in DOMAIN fns
    BY <1>1, <2>1 DEF NamesDistinct
  <2>3. i \in Nat
    BY <2>2 DEF FlowInv
  <2>4. FnNamed(f, ref.fn) = {i}
    BY <1>6, <2>2, <2>3, MaxOne
  <2>5. Resolved(f, ref) = IF J(i) = {} THEN {} ELSE {<<i, Max(J(i))>>}
    BY <1>7, <2>4
  <2>6. CASE J(i) = {}
    <3>1. P = {}
      BY <1>3, <2>2, <2>6
    <3> QED
      BY <1>5, <2>5, <2>6, <3>1 DEF LastOf, f
  <2>7. CASE J(i) # {}
    <3> DEFINE m == Max(J(i))
    <3>1. J(i) \subseteq 1..MaxActions
      BY <1>2, <2>2, MenuFacts
    <3>2. m \in J(i) /\ \A j \in J(i) : j <= m
      BY <2>7, <3>1, MaxOf, FlowFacts
    <3> HIDE DEF m
    <3>3. <<i, m>> \in P
      BY <1>4, <2>1, <3>2
    <3>4. \A o \in P \ {<<i, m>>} : After(<<i, m>>, o)
      <4> SUFFICES ASSUME NEW o \in P, o # <<i, m>> PROVE After(<<i, m>>, o)
        OBVIOUS
      <4>1. o[1] = i /\ o[2] \in J(i) /\ o = <<i, o[2]>>
        BY <1>3, <2>2
      <4>2. o[2] <= m /\ o[2] # m /\ o[2] \in Nat /\ m \in Nat
        BY <3>1, <3>2, <4>1
      <4> QED
        BY <4>1, <4>2 DEF After
    <3>5. ASSUME NEW p \in P, \A o \in P \ {p} : After(p, o) PROVE p = <<i, m>>
      <4> SUFFICES ASSUME p # <<i, m>> PROVE FALSE
        OBVIOUS
      <4>1. p[1] = i /\ p[2] \in J(i)
        BY <1>3, <2>2
      <4>2. After(p, <<i, m>>)
        BY <3>3, <3>5
      <4>3. p[2] \in Nat /\ m \in Nat /\ p[2] <= m
        BY <3>1, <3>2, <4>1
      <4> QED
        BY <2>3, <4>1, <4>2, <4>3 DEF After
    <3>6. LastOf(P) = {<<i, m>>}
      <4>1. (CHOOSE p \in P : \A o \in P \ {p} : After(p, o)) = <<i, m>>
        BY <3>3, <3>4, <3>5
      <4> QED
        BY <3>3, <4>1 DEF LastOf
    <3> QED
      BY <1>5, <2>5, <2>7, <3>6 DEF m, f
  <2> QED
    BY <2>6, <2>7
<1> QED
  BY <1>8, <1>9

\* ... and draws as broken what the runtime does not find.
LEMMA SameBroken ==
  ASSUME FlowInv, NEW n, n # 0
  PROVE  /\ (n \notin Names(fns)) = (FnNamed(ReadFns(fns), n) = {})
         /\ (n \notin Names(queues)) = (\A k \in DOMAIN ReadQueues(queues) : ReadQueues(queues)[k].name # n)
<1>1. n \in Names(fns) <=> \E i \in DOMAIN fns : fns[i].name = n
  BY DEF Names
<1>2. n \in Names(queues) <=> \E k \in DOMAIN queues : queues[k].name = n
  BY DEF Names
<1> DEFINE q == ReadQueues(queues)
<1>3. DOMAIN q = DOMAIN queues /\ \A k \in DOMAIN queues : q[k].name = queues[k].name
  BY SavedPlaces
<1> HIDE DEF q
<1>4. (n \notin Names(queues)) <=> (\A k \in DOMAIN q : q[k].name # n)
  BY <1>2, <1>3
<1>5. (n \notin Names(fns)) <=> (FnNamed(ReadFns(fns), n) = {})
  BY <1>1, NamedIffIn
<1> QED
  BY <1>4, <1>5 DEF q

\* An action has one kind, so that its edges are where a call goes from it, and its
\* left-over `then`.
LEMMA EdgesReach ==
  ASSUME FlowInv, NamesDistinct, NEW a \in OneKind
  PROVE  Edges(fns, queues, a) = Reaches(ReadFns(fns), ReadQueues(queues), Stored(a))
                                   \cup LeftOver(ReadFns(fns), Stored(a))
<1> DEFINE f == ReadFns(fns)
           q == ReadQueues(queues)
           b == Stored(a)
           R1 == {Link("reuse", p, FALSE) : p \in IF a.reuse.fn # 0 THEN ReuseTargets(fns, a.reuse) ELSE {}}
           R2 == {Link("dst", n, n \notin Names(fns)) : n \in {a.dst} \ {0}}
           R3 == {Link("dispatcher", n, n \notin Names(queues)) :
                    n \in IF a.dst = 0 THEN {a.dispatcher} \ {0} ELSE {}}
           R4 == {Link("then", n, n \notin Names(fns)) : n \in IF a.plays THEN {a.then} \ {0} ELSE {}}
<1>2. /\ a.reuse.fn # 0 => a.dst = 0 /\ ~a.plays
      /\ a.dst # 0 => ~a.plays
      /\ a.reuse.fn # 0 \/ a.dst # 0 \/ a.plays => a.dispatcher = 0
      /\ a.plays \in BOOLEAN
  BY DEF OneKind, FlowAction
<1>3. /\ b.reuse = a.reuse /\ b.dst = a.dst /\ b.dispatcher = a.dispatcher
      /\ b.then = a.then /\ b.plays = a.plays
  BY DEF Stored, OneKind, FlowAction
<1> HIDE DEF f, q, b
<1>1. Edges(fns, queues, a) = R1 \cup R2 \cup R3 \cup R4 \cup LeftOver(f, b)
  <2> DEFINE T == {Link("then", n, n \notin Names(fns)) : n \in {a.then} \ {0}}
  <2>1. Edges(fns, queues, a) = R1 \cup R2 \cup R3 \cup T
    BY DEF Edges
  <2>2. CASE a.plays
    <3>1. T = R4 /\ LeftOver(f, b) = {}
      BY <1>3, <2>2 DEF LeftOver
    <3> HIDE DEF R1, R2, R3, R4, T
    <3> QED
      BY <2>1, <3>1
  <2>3. CASE ~a.plays
    <3>1. R4 = {}
      BY <2>3
    <3>2. LeftOver(f, b) = T
      <4>1. CASE a.then = 0
        BY <1>3, <2>3, <4>1 DEF LeftOver
      <4>2. CASE a.then # 0
        <5>1. (a.then \notin Names(fns)) = (FnNamed(f, a.then) = {})
          BY <4>2, SameBroken DEF f
        <5>2. T = {Link("then", a.then, a.then \notin Names(fns))}
          BY <4>2
        <5>3. LeftOver(f, b) = {Link("then", a.then, FnNamed(f, a.then) = {})}
          BY <1>3, <2>3, <4>2 DEF LeftOver
        <5> HIDE DEF T
        <5> QED
          BY <5>1, <5>2, <5>3
      <4> QED
        BY <4>1, <4>2
    <3> HIDE DEF R1, R2, R3, R4, T
    <3> QED
      BY <2>1, <3>1, <3>2
  <2> QED
    BY <2>2, <2>3
<1>4. CASE a.reuse.fn # 0
  <2>1. R2 = {} /\ R3 = {} /\ R4 = {}
    BY <1>2, <1>4
  <2>2. R1 = {Link("reuse", p, FALSE) : p \in ReuseTargets(fns, a.reuse)}
    BY <1>4
  <2>3. actionKind(b) = "reuse"
    BY <1>3, <1>4 DEF actionKind
  <2>4. Reaches(f, q, b) = {Link("reuse", p, FALSE) : p \in Resolved(f, a.reuse)}
    BY <1>3, <2>3 DEF Reaches
  <2>5. Resolved(f, a.reuse) = ReuseTargets(fns, a.reuse)
    BY SameTarget DEF f
  <2> HIDE DEF R1, R2, R3, R4
  <2> QED
    BY <1>1, <2>1, <2>2, <2>4, <2>5 DEF f, q, b
<1>5. CASE a.reuse.fn = 0 /\ a.dst # 0
  <2>1. R1 = {} /\ R3 = {} /\ R4 = {}
    BY <1>2, <1>5
  <2>2. R2 = {Link("dst", a.dst, a.dst \notin Names(fns))}
    BY <1>5
  <2>3. actionKind(b) = "dst"
    BY <1>3, <1>5 DEF actionKind
  <2>4. Reaches(f, q, b) = {Link("dst", a.dst, FnNamed(f, a.dst) = {})}
    BY <1>3, <2>3 DEF Reaches
  <2>5. (a.dst \notin Names(fns)) = (FnNamed(f, a.dst) = {})
    BY <1>5, SameBroken DEF f
  <2> HIDE DEF R1, R2, R3, R4
  <2> QED
    BY <1>1, <2>1, <2>2, <2>4, <2>5 DEF f, q, b
<1>6. CASE a.reuse.fn = 0 /\ a.dst = 0 /\ a.plays
  <2>1. R1 = {} /\ R2 = {} /\ R3 = {}
    BY <1>2, <1>6
  <2>2. actionKind(b) = "plays"
    BY <1>3, <1>6 DEF actionKind
  <2>3. CASE a.then = 0
    <3>1. R4 = {}
      BY <2>3
    <3>2. Reaches(f, q, b) = {}
      BY <1>3, <2>2, <2>3 DEF Reaches
    <3> HIDE DEF R1, R2, R3, R4
    <3> QED
      BY <1>1, <2>1, <3>1, <3>2 DEF f, q, b
  <2>4. CASE a.then # 0
    <3>1. R4 = {Link("then", a.then, a.then \notin Names(fns))}
      BY <1>6, <2>4
    <3>2. Reaches(f, q, b) = {Link("then", a.then, FnNamed(f, a.then) = {})}
      BY <1>3, <2>2, <2>4 DEF Reaches
    <3>3. (a.then \notin Names(fns)) = (FnNamed(f, a.then) = {})
      BY <2>4, SameBroken DEF f
    <3> HIDE DEF R1, R2, R3, R4
    <3> QED
      BY <1>1, <2>1, <3>1, <3>2, <3>3 DEF f, q, b
  <2> QED
    BY <2>3, <2>4
<1>7. CASE a.reuse.fn = 0 /\ a.dst = 0 /\ ~a.plays /\ a.dispatcher # 0
  <2>1. R1 = {} /\ R2 = {} /\ R4 = {}
    BY <1>2, <1>7
  <2>2. R3 = {Link("dispatcher", a.dispatcher, a.dispatcher \notin Names(queues))}
    BY <1>7
  <2>3. actionKind(b) = "dispatcher"
    BY <1>3, <1>7 DEF actionKind
  <2>4. Reaches(f, q, b) = {Link("dispatcher", a.dispatcher, \A k \in DOMAIN q : q[k].name # a.dispatcher)}
    BY <1>3, <2>3 DEF Reaches
  <2>5. (a.dispatcher \notin Names(queues)) = (\A k \in DOMAIN q : q[k].name # a.dispatcher)
    BY <1>7, SameBroken DEF q
  <2> HIDE DEF R1, R2, R3, R4
  <2> QED
    BY <1>1, <2>1, <2>2, <2>4, <2>5 DEF f, q, b
<1>8. CASE a.reuse.fn = 0 /\ a.dst = 0 /\ ~a.plays /\ a.dispatcher = 0
  <2>1. R1 = {} /\ R2 = {} /\ R3 = {} /\ R4 = {}
    BY <1>2, <1>8
  <2>2. actionKind(b) \in {"livefeed", "none"}
    BY <1>3, <1>8 DEF actionKind
  <2>3. Reaches(f, q, b) = {}
    BY <2>2 DEF Reaches
  <2> HIDE DEF R1, R2, R3, R4
  <2> QED
    BY <1>1, <2>1, <2>3 DEF f, q, b
<1> QED
  BY <1>4, <1>5, <1>6, <1>7, <1>8

\* For any number of menus, actions and queues with distinct names: the edges that
\* are drawn are where a call is taken, broken when it is taken nowhere, and those
\* left over from a request whose url was emptied (fn-graph.ts; ActionEditor.tsx;
\* ResolveActionReference, Action.Type).
THEOREM GraphIsCallFlow == FlowSpec => []GraphShowsRuntime
<1>1. FlowInv => GraphShowsRuntime
  <2> SUFFICES ASSUME FlowInv, NamesDistinct
               PROVE  LET f == ReadFns(fns)  q == ReadQueues(queues) IN
                      Graph(fns, queues) =
                        [p \in Drawn(f, q) |-> Reaches(f, q, At(f, q, p)) \cup LeftOver(f, At(f, q, p))]
    BY DEF GraphShowsRuntime
  <2> DEFINE f == ReadFns(fns)
             q == ReadQueues(queues)
  <2>1. Drawn(f, q) = Drawn(fns, queues)
    BY SavedPlaces
  <2>2. ASSUME NEW p \in Drawn(fns, queues)
        PROVE  Edges(fns, queues, At(fns, queues, p)) =
                 Reaches(f, q, At(f, q, p)) \cup LeftOver(f, At(f, q, p))
    <3>1. p \in Places(fns, queues)
      BY DrawnPlaces
    <3>2. At(f, q, p) = Stored(At(fns, queues, p)) /\ At(fns, queues, p) \in OneKind
      BY <3>1, SavedPlaces
    <3> QED
      BY <3>2, EdgesReach
  <2> HIDE DEF f, q
  <2>3. Graph(fns, queues) =
               [p \in Drawn(f, q) |-> Reaches(f, q, At(f, q, p)) \cup LeftOver(f, At(f, q, p))]
    BY <2>1, <2>2 DEF Graph
  <2> QED
    BY <2>3 DEF f, q
<1> QED
  BY <1>1, FlowInvariant, PTL
=============================================================================
