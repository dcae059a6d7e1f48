------------------------------ MODULE Session ------------------------------
(***************************************************************************)
(* One call in the IVR (core/controller/session.go, script.go,             *)
(* collector.go, core/functions/queue.go): the select loop that owns the   *)
(* call, the goroutines it starts (scripts, read-outs that advance by      *)
(* themselves, a queue with its two goroutines), the phone that feeds it,  *)
(* and the clean-up of the call, which closes the phone and then stops the *)
(* session from another goroutine.                                         *)
(*                                                                         *)
(* A definition keeps what decides where a call goes: what a key does in a *)
(* menu, what a menu does on entry, which menus hang up or clear the stack *)
(* and what a queue ends with.  A reused action stands for its target.     *)
(* Audio is left out, so a step that waits for it may take any time.  What *)
(* is handed over once the output stream is closed may never be answered   *)
(* (Stranded in module OutputStream): who waits for it then waits for ever. *)
(* Goroutines that only wait for audio, Playable.Play without Wait, and    *)
(* what handleQueue does after EndOfLine, are left out.                    *)
(***************************************************************************)
EXTENDS Naturals, SequencesExt

CONSTANTS
  Fn, Key,      \* menus; keys other than "0"
  Definition,   \* the definitions a session may be given
  Readout,      \* bound: read-outs at one time
  MaxScripts,   \* bound: scripts at one time
  None,
  MaxMoves,     \* bound on the keys a caller presses and the gotos of scripts
  PrefixCap,    \* of prefixSignal, 100
  ScriptKeyCap, \* of scriptKeys, 8
  ActionCap     \* of a queue's actionQueue, 200

Zero == "0"

\* "play" stands for everything that only makes a sound or asks the dialog for
\* something; a service with an input collects that many keys first.
Action ==
  [kind : {"none", "play", "script", "queue", "hangup"}]
    \cup [kind : {"fn"}, to : Fn \cup {None}]
    \cup [kind : {"srv"}, input : Nat]
    \cup [kind : {"genericjson"}, to : Fn \cup {None}]

ASSUME SessionAssumption ==
  /\ None \notin Fn /\ Zero \notin Key
  /\ PrefixCap \in Nat \ {0} /\ ScriptKeyCap \in Nat \ {0} /\ ActionCap \in Nat \ {0}
  /\ {MaxMoves, MaxScripts} \subseteq Nat
  /\ \A d \in Definition :
       /\ d.entry \in Fn /\ d.hangs \subseteq Fn /\ d.clears \subseteq Fn
       /\ d.keys \in [Fn -> [Key -> Action]] /\ d.auto \in [Fn -> Action] /\ d.end \in Action

VARIABLES
  def,          \* Definition
  \* the phone
  hookCh, keyCh, moves,
  \* the session; act is what the loop has in hand while pc = "act" or "await"
  pc, act, hook, stack, collector, activeScript, activeDispatcher,
  ctx,          \* callCtx: "none", "live", "over"; "stray": made after Stop had
                \* looked for one to cancel
  prefixes,     \* signals in prefixSignal
  advance, scriptKeys, scriptDone,   \* the other channels
  \* its goroutines
  scripts,      \* how many run
  readouts,     \* the menu each goes to when it ends, or None
  \* the queue
  queue,        \* where its loop is
  toSend,       \* messages the loop is about to put into actionQueue
  actions,      \* messages in it
  player,       \* handleQueue: "off", "waits", "plays"
  \* the clean-up of the call
  stop,         \* "none", "closed" (the phone), "silent" (the output stream too), "done",
                \* "killing", "stuck", "returned"
  hungup,       \* the session has asked the dialog to hang up
  \* history
  announced,    \* the menu whose prefix was played last
  overlapped    \* a script was started before the end of another was handled

phone  == <<hookCh, keyCh, moves>>
menu   == <<hook, stack, collector>>
flags  == <<activeScript, activeDispatcher, ctx>>
chans  == <<prefixes, advance, scriptKeys, scriptDone>>
spawned == <<scripts, readouts>>
line   == <<queue, toSend, actions, player>>
ending == <<stop, hungup>>
history == <<announced, overlapped>>
vars == <<def, phone, pc, act, menu, flags, chans, spawned, line, ending, history>>

Nothing == [kind |-> "none"]
Idle == pc = "select"
Muted == stop \notin {"none", "closed"}          \* the output stream is closed
Done == stop \notin {"none", "closed", "silent"}  \* s.done is closed

TypeOK ==
  /\ def \in Definition
  /\ hookCh \in Seq(BOOLEAN) /\ keyCh \in Seq(Key \cup {Zero}) /\ moves \in 0..MaxMoves
  /\ pc \in {"select", "act", "await", "queue", "stranded", "ended"}
  /\ act.kind \in {"none", "play", "script", "queue", "hangup", "fn", "srv", "genericjson",
                   "exit", "clear", "return"}
  /\ hook \in BOOLEAN /\ stack \in Seq(Fn) /\ collector \in Nat \cup {None}
  /\ activeScript \in BOOLEAN /\ activeDispatcher \in BOOLEAN
  /\ ctx \in {"none", "live", "stray", "over"}
  /\ prefixes \in 0..PrefixCap /\ advance \in Seq(Fn)
  /\ scriptKeys \in 0..ScriptKeyCap /\ scriptDone \in Seq(Fn \cup {None})
  /\ scripts \in 0..MaxScripts /\ readouts \in [Readout -> Fn \cup {None}]
  /\ queue \in {"off", "runs", "drains", "receives", "cancels", "finishes", "ends"}
  /\ toSend \in Nat /\ actions \in 0..ActionCap /\ player \in {"off", "waits", "plays", "stranded"}
  /\ stop \in {"none", "closed", "silent", "done", "killing", "stuck", "returned"}
  /\ hungup \in BOOLEAN /\ announced \in Fn \cup {None} /\ overlapped \in BOOLEAN

Init ==
  /\ def \in Definition
  /\ hookCh = <<TRUE>> /\ keyCh = <<>> /\ moves = 0
  /\ pc = "select" /\ act = Nothing
  /\ hook = FALSE /\ stack = <<>> /\ collector = None
  /\ activeScript = FALSE /\ activeDispatcher = FALSE /\ ctx = "none"
  /\ prefixes = 0 /\ advance = <<>> /\ scriptKeys = 0 /\ scriptDone = <<>>
  /\ scripts = 0 /\ readouts = [r \in Readout |-> None]
  /\ queue = "off" /\ toSend = 0 /\ actions = 0 /\ player = "off"
  /\ stop = "none" /\ hungup = FALSE
  /\ announced = None /\ overlapped = FALSE

\* getCurrent.
Current == IF stack = <<>> THEN def.entry ELSE Last(stack)

\* The loop goes on with action a, or returns to its select.
Goes(a) == act' = a /\ pc' = IF a.kind = "none" THEN "select" ELSE "act"
Enters(f) == [kind |-> "fn", to |-> f]

-----------------------------------------------------------------------------
(* The caller and the phone.                                               *)

\* onDTMF.
Press(k) ==
  /\ stop = "none" /\ moves < MaxMoves
  /\ moves' = moves + 1
  /\ keyCh' = Append(keyCh, k)
  /\ UNCHANGED <<def, hookCh, pc, act, menu, flags, chans, spawned, line, ending, history>>

-----------------------------------------------------------------------------
(* The cases of the select in Start.                                       *)

LiftHook ==
  /\ Idle /\ hookCh # <<>> /\ Head(hookCh)
  /\ hookCh' = Tail(hookCh)
  /\ IF hook
     THEN UNCHANGED <<pc, act, menu, ctx>>
     ELSE hook' = TRUE /\ collector' = None /\ Goes(Enters(def.entry)) /\ UNCHANGED stack
          /\ ctx' = IF stop \in {"none", "closed", "silent", "done"} THEN "live" ELSE "stray"
  /\ UNCHANGED <<def, keyCh, moves, activeScript, activeDispatcher, chans, spawned, line,
                 ending, history>>

SlamHook ==
  /\ Idle /\ hookCh # <<>> /\ ~Head(hookCh)
  /\ hookCh' = Tail(hookCh)
  /\ hook' = FALSE /\ stack' = <<>> /\ collector' = None /\ activeScript' = FALSE
  /\ ctx' = IF ctx # "none" THEN "over" ELSE ctx
  /\ UNCHANGED <<def, keyCh, moves, pc, act, activeDispatcher, chans, spawned, line, ending,
                 history>>

Reads(k) == Idle /\ keyCh # <<>> /\ Head(keyCh) = k /\ keyCh' = Tail(keyCh)

IgnoreKey(k) ==
  /\ Reads(k) /\ ~hook
  /\ UNCHANGED <<def, hookCh, moves, pc, act, menu, flags, chans, spawned, line, ending, history>>

\* A script's key is dropped when its buffer is full.
KeyToScript(k) ==
  /\ Reads(k) /\ hook /\ activeScript
  /\ scriptKeys' = IF scriptKeys < ScriptKeyCap THEN scriptKeys + 1 ELSE scriptKeys
  /\ UNCHANGED <<def, hookCh, moves, pc, act, menu, flags, prefixes, advance, scriptDone, spawned,
                 line, ending, history>>

\* handleCollect.  "#" arrives as "11" (phone.go:77-79) and ends nothing.
KeyToCollector(k) ==
  /\ Reads(k) /\ hook /\ ~activeScript /\ collector # None
  /\ IF collector = 1
     THEN collector' = None /\ Goes([kind |-> "srv", input |-> 0])
     ELSE collector' = collector - 1 /\ UNCHANGED <<pc, act>>
  /\ UNCHANGED <<def, hookCh, moves, hook, stack, flags, chans, spawned, line, ending, history>>

\* handleKey.
KeyToMenu(k) ==
  /\ Reads(k) /\ hook /\ ~activeScript /\ collector = None
  /\ Goes(CASE k # Zero -> def.keys[Current][k]
            [] k = Zero /\ Current \in def.clears -> [kind |-> "clear"]
            [] k = Zero /\ Current \notin def.clears -> [kind |-> "exit"])
  /\ UNCHANGED <<def, hookCh, moves, menu, flags, chans, spawned, line, ending, history>>

Advance ==
  /\ Idle /\ advance # <<>>
  /\ advance' = Tail(advance)
  /\ IF hook THEN Goes(Enters(Head(advance))) ELSE UNCHANGED <<pc, act>>
  /\ UNCHANGED <<def, phone, menu, flags, prefixes, scriptKeys, scriptDone, spawned, line, ending,
                 history>>

\* handleScriptDone.
HandleScriptDone ==
  /\ Idle /\ scriptDone # <<>>
  /\ scriptDone' = Tail(scriptDone)
  /\ activeScript' = FALSE
  /\ IF ~hook THEN UNCHANGED <<pc, act>>
     ELSE Goes(IF Head(scriptDone) # None THEN Enters(Head(scriptDone)) ELSE [kind |-> "return"])
  /\ UNCHANGED <<def, phone, menu, activeDispatcher, ctx, prefixes, advance, scriptKeys, spawned,
                 line, ending, history>>

HandlePrefix ==
  /\ Idle /\ prefixes > 0
  /\ prefixes' = prefixes - 1
  /\ announced' = Current
  /\ UNCHANGED <<def, phone, pc, act, menu, flags, advance, scriptKeys, scriptDone, spawned, line, ending,
                 overlapped>>

SessionStopped ==
  /\ Idle /\ Done
  /\ pc' = "ended"
  /\ UNCHANGED <<def, phone, act, menu, flags, chans, spawned, line, ending, history>>

-----------------------------------------------------------------------------
(* What the loop does with an action (handleAction) or to return.          *)

Acts(kind) == pc = "act" /\ act.kind = kind

\* A send on prefixSignal blocks while it is full.
Signals == prefixes < PrefixCap /\ prefixes' = prefixes + 1

\* enterFunction, with the action the menu runs on entry.
EnterFunction ==
  /\ Acts("fn")
  /\ IF act.to = None
     THEN Goes(Nothing) /\ UNCHANGED <<stack, prefixes>>
     ELSE stack' = Append(stack, act.to) /\ Signals /\ Goes(def.auto[act.to])
  /\ UNCHANGED <<def, phone, hook, collector, flags, advance, scriptKeys, scriptDone, spawned, line,
                 ending, history>>

\* Mutant: the menu that is left to is not announced again.
MutSilentExit ==
  /\ Acts("exit")
  /\ IF Len(stack) > 1
     THEN stack' = Front(stack) /\ collector' = None
     ELSE UNCHANGED <<stack, collector>>
  /\ Goes(Nothing)
  /\ UNCHANGED <<def, phone, hook, flags, chans, spawned, line, ending, history>>

ExitFunction ==
  /\ Acts("exit")
  /\ IF Len(stack) > 1
     THEN stack' = Front(stack) /\ collector' = None /\ Goes([kind |-> "return"])
     ELSE Goes(Nothing) /\ UNCHANGED <<stack, collector>>
  /\ UNCHANGED <<def, phone, hook, flags, chans, spawned, line, ending, history>>

ClearCallstack ==
  /\ Acts("clear")
  /\ stack' = <<def.entry>> /\ collector' = None /\ Signals
  /\ Goes(Nothing)
  /\ UNCHANGED <<def, phone, hook, flags, advance, scriptKeys, scriptDone, spawned, line, ending,
                 history>>

\* returnToCurrentFunction.
ReturnToCurrent ==
  /\ Acts("return")
  /\ IF Current \in def.hangs THEN hungup' = TRUE /\ UNCHANGED prefixes
                              ELSE Signals /\ UNCHANGED hungup
  /\ Goes(Nothing)
  /\ UNCHANGED <<def, phone, menu, flags, advance, scriptKeys, scriptDone, spawned, line, stop,
                 history>>

Play ==
  /\ Acts("play")
  /\ Goes(Nothing)
  /\ UNCHANGED <<def, phone, menu, flags, chans, spawned, line, ending, history>>

HandleHangup ==
  /\ Acts("hangup")
  /\ hungup' = TRUE /\ Goes(Nothing)
  /\ UNCHANGED <<def, phone, menu, flags, chans, spawned, line, stop, history>>

\* A service that needs input installs a collector; any other, and a JSON
\* request, makes the loop wait for its result.
Request ==
  /\ Acts("srv") \/ Acts("genericjson")
  /\ IF act.kind = "srv" /\ act.input > 0
     THEN collector' = act.input /\ Goes(Nothing)
     ELSE pc' = "await" /\ UNCHANGED <<collector, act>>
  /\ UNCHANGED <<def, phone, hook, stack, flags, chans, spawned, line, ending, history>>

\* The result is an error, has no next menu, or the call's context is cancelled.
RequestEnds ==
  /\ pc = "await"
  /\ Goes(Nothing)
  /\ UNCHANGED <<def, phone, menu, flags, chans, spawned, line, ending, history>>

\* The result is read out by a goroutine that then hands over to the next menu.
ResultAdvances(r) ==
  /\ pc = "await" /\ act.kind = "genericjson" /\ act.to # None /\ readouts[r] = None
  /\ readouts' = [readouts EXCEPT ![r] = act.to]
  /\ Goes(Nothing)
  /\ UNCHANGED <<def, phone, menu, flags, chans, scripts, line, ending, history>>

\* handleScript.
HandleScript ==
  /\ Acts("script") /\ scripts < MaxScripts
  /\ scriptKeys' = 0 /\ activeScript' = TRUE
  /\ scripts' = scripts + 1
  /\ overlapped' = (overlapped \/ scripts > 0 \/ scriptDone # <<>>)
  /\ Goes(Nothing)
  /\ UNCHANGED <<def, phone, menu, activeDispatcher, ctx, prefixes, advance, scriptDone, readouts,
                 line, ending, announced>>

\* handleDispatcher: Load, Start, and the wait for the queue's last action.
HandleDispatcher ==
  /\ Acts("queue")
  /\ activeDispatcher' = TRUE /\ pc' = "queue"
  /\ queue' = "runs" /\ toSend' = 2 /\ player' = "waits" /\ actions' = 0
  /\ UNCHANGED <<def, phone, act, menu, activeScript, ctx, chans, spawned, ending, history>>

\* A Stop that has seen the dispatcher is left with one that reads no kill, or
\* with none at all.
DispatcherFinished ==
  /\ pc = "queue" /\ queue \in {"finishes", "ends"}
  /\ activeDispatcher' = FALSE /\ queue' = "off"
  /\ stop' = IF stop = "killing" THEN "stuck" ELSE stop
  /\ Goes(IF queue = "ends" THEN def.end ELSE Nothing)
  /\ UNCHANGED <<def, phone, menu, activeScript, ctx, chans, spawned, toSend, actions, player,
                 hungup, history>>

\* The loop waits for ever for audio it handed to the closed stream: a prefix, or
\* what an action plays before or as it acts.
LoopStrands ==
  /\ Muted
  /\ \/ Idle /\ prefixes > 0 /\ prefixes' = prefixes - 1
     \/ /\ pc = "await" \/ (pc = "act" /\ act.kind \notin {"exit", "clear", "return"})
        /\ UNCHANGED prefixes
  /\ pc' = "stranded"
  /\ UNCHANGED <<def, phone, act, menu, flags, advance, scriptKeys, scriptDone, spawned, line, ending,
                 history>>

-----------------------------------------------------------------------------
(* Scripts and read-outs.                                                  *)

ScriptReadsKey ==
  /\ scripts > 0 /\ scriptKeys > 0
  /\ scriptKeys' = scriptKeys - 1
  /\ UNCHANGED <<def, phone, pc, act, menu, flags, prefixes, advance, scriptDone, spawned, line,
                 ending, history>>

\* A goto counts towards the bound.
Moves(dst) ==
  /\ dst # None => moves < MaxMoves
  /\ moves' = IF dst # None THEN moves + 1 ELSE moves

\* Mutant: a script that fails does not signal scriptDone.
MutFailsSilently(dst) ==
  /\ scripts > 0
  /\ scriptDone = <<>> /\ scriptDone' = IF dst = None THEN <<>> ELSE <<dst>>
  /\ scripts' = scripts - 1 /\ Moves(dst)
  /\ UNCHANGED <<def, hookCh, keyCh, pc, act, menu, flags, prefixes, advance, scriptKeys, readouts, line,
                 ending, history>>

\* runScript returns with the menu of its last goto(), or with none.
ScriptReturns(dst) ==
  /\ scripts > 0
  /\ \/ scriptDone = <<>> /\ scriptDone' = <<dst>>
     \/ Done /\ UNCHANGED scriptDone
  /\ scripts' = scripts - 1 /\ Moves(dst)
  /\ UNCHANGED <<def, hookCh, keyCh, pc, act, menu, flags, prefixes, advance, scriptKeys, readouts, line,
                 ending, history>>

\* The read-out ends, played or cleared.
ReadoutEnds(r) ==
  /\ readouts[r] # None
  /\ \/ advance = <<>> /\ advance' = <<readouts[r]>>
     \/ Done /\ UNCHANGED advance
  /\ readouts' = [readouts EXCEPT ![r] = None]
  /\ UNCHANGED <<def, phone, pc, act, menu, flags, prefixes, scriptKeys, scriptDone, scripts, line,
                 ending, history>>

\* A script or a read-out that waits for ever for its audio no longer counts.
ScriptStrands ==
  /\ Muted /\ scripts > 0
  /\ scripts' = scripts - 1
  /\ UNCHANGED <<def, phone, pc, act, menu, flags, chans, readouts, line, ending, history>>

ReadoutStrands(r) ==
  /\ Muted /\ readouts[r] # None
  /\ readouts' = [readouts EXCEPT ![r] = None]
  /\ UNCHANGED <<def, phone, pc, act, menu, flags, chans, scripts, line, ending, history>>

-----------------------------------------------------------------------------
(* The queue: its loop, and handleQueue, which plays what the loop sends.  *)

QueueSends ==
  /\ queue = "runs" /\ toSend > 0 /\ actions < ActionCap
  /\ toSend' = toSend - 1 /\ actions' = actions + 1
  /\ UNCHANGED <<def, phone, pc, act, menu, flags, chans, spawned, queue, player, ending, history>>

\* prompt: pausebg, the position, perhaps a prompt, startbg.
QueuePrompts ==
  /\ queue = "runs" /\ toSend = 0
  /\ toSend' \in {3, 4}
  /\ UNCHANGED <<def, phone, pc, act, menu, flags, chans, spawned, queue, actions, player, ending,
                 history>>

\* The caller has reached the head of the queue: EndOfLine, in a new goroutine.
QueueEnds ==
  /\ queue = "runs" /\ toSend = 0
  /\ queue' = "ends"
  /\ UNCHANGED <<def, phone, pc, act, menu, flags, chans, spawned, toSend, actions, player, ending,
                 history>>

\* for len(q.actionQueue) > 0 { <-q.actionQueue }, while handleQueue reads too.
QueueDrains ==
  /\ queue = "drains"
  /\ queue' = IF actions > 0 THEN "receives" ELSE "cancels"
  /\ UNCHANGED <<def, phone, pc, act, menu, flags, chans, spawned, toSend, actions, player, ending,
                 history>>

QueueReceives ==
  /\ queue = "receives" /\ actions > 0
  /\ queue' = "drains" /\ actions' = actions - 1
  /\ UNCHANGED <<def, phone, pc, act, menu, flags, chans, spawned, toSend, player, ending, history>>

QueueCancels ==
  /\ queue = "cancels" /\ player = "waits"
  /\ queue' = "finishes" /\ player' = "off"
  /\ UNCHANGED <<def, phone, pc, act, menu, flags, chans, spawned, toSend, actions, ending, history>>

PlayerTakes ==
  /\ player = "waits" /\ actions > 0
  /\ player' = "plays" /\ actions' = actions - 1
  /\ UNCHANGED <<def, phone, pc, act, menu, flags, chans, spawned, queue, toSend, ending, history>>

PlayerPlayed ==
  /\ player = "plays"
  /\ player' = "waits" \/ (Muted /\ player' = "stranded")
  /\ UNCHANGED <<def, phone, pc, act, menu, flags, chans, spawned, queue, toSend, actions, ending,
                 history>>

-----------------------------------------------------------------------------
(* cleanupCall, after a BYE or a hang-up of our own: SIPPhone.Close, then  *)
(* OutputStream.Close, then RemoveSession, which holds the manager's mutex *)
(* until Stop has returned.                                                *)

ClosePhone ==
  /\ stop = "none"
  /\ stop' = "closed" /\ hookCh' = Append(hookCh, FALSE)
  /\ UNCHANGED <<def, keyCh, moves, pc, act, menu, flags, chans, spawned, line, hungup, history>>

CloseStream ==
  /\ stop = "closed"
  /\ stop' = "silent"
  /\ UNCHANGED <<def, phone, pc, act, menu, flags, chans, spawned, line, hungup, history>>

StopCloses ==
  /\ stop = "silent"
  /\ stop' = "done"
  /\ UNCHANGED <<def, phone, pc, act, menu, flags, chans, spawned, line, hungup, history>>

\* Mutant: Stop does not cancel the call's context.
MutNoCancel ==
  /\ stop = "done"
  /\ stop' = IF activeDispatcher THEN "killing" ELSE "returned"
  /\ UNCHANGED <<def, phone, pc, act, menu, flags, chans, spawned, line, hungup, history>>

\* The context is cancelled; then a dispatcher is stopped if there is one.
StopCancels ==
  /\ stop = "done"
  /\ ctx' = IF ctx = "live" THEN "over" ELSE ctx
  /\ stop' = IF activeDispatcher THEN "killing" ELSE "returned"
  /\ UNCHANGED <<def, phone, pc, act, menu, activeScript, activeDispatcher, chans, spawned, line,
                 hungup, history>>

\* Queue.Stop: the send on kill meets the loop's select.
StopKills ==
  /\ stop = "killing" /\ queue = "runs" /\ toSend = 0
  /\ stop' = "returned" /\ queue' = "drains"
  /\ UNCHANGED <<def, phone, pc, act, menu, flags, chans, spawned, toSend, actions, player, hungup,
                 history>>

-----------------------------------------------------------------------------
Select ==
  \/ LiftHook \/ SlamHook \/ Advance \/ HandleScriptDone \/ HandlePrefix
  \/ \E k \in Key \cup {Zero} :
       IgnoreKey(k) \/ KeyToScript(k) \/ KeyToCollector(k) \/ KeyToMenu(k)

HandleAction ==
  \/ EnterFunction \/ ExitFunction \/ ClearCallstack \/ ReturnToCurrent
  \/ Play \/ HandleHangup \/ Request \/ HandleScript \/ HandleDispatcher

Awaits == RequestEnds \/ \E r \in Readout : ResultAdvances(r)

Queue ==
  \/ QueueSends \/ QueuePrompts \/ QueueEnds \/ QueueDrains \/ QueueReceives \/ QueueCancels
  \/ PlayerTakes \/ PlayerPlayed

Cleanup == ClosePhone \/ CloseStream \/ StopCloses \/ StopCancels \/ StopKills

Next ==
  \/ \E k \in Key \cup {Zero} : Press(k)
  \/ Select \/ SessionStopped \/ HandleAction \/ Awaits \/ DispatcherFinished \/ LoopStrands
  \/ ScriptReadsKey \/ ScriptStrands \/ \E d \in Fn \cup {None} : ScriptReturns(d)
  \/ \E r \in Readout : ReadoutEnds(r) \/ ReadoutStrands(r)
  \/ Queue \/ Cleanup

(***************************************************************************)
(* Fairness, of the goroutines once done is closed: they run, requests     *)
(* end, a queue moves on, and audio ends or, handed over too late, strands *)
(* its goroutine; before the stream is closed audio need not end (a live   *)
(* feed does not).  The loop's select takes the closed done in the end     *)
(* (strong fairness: it competes with the other cases).  A script need not *)
(* return by itself; it is interrupted once its context is cancelled.      *)
(* Nobody need call, press or hang up, and RemoveSession need not get the  *)
(* manager's mutex, which another call may hold.                           *)
(***************************************************************************)
Fairness ==
  /\ SF_vars(SessionStopped)
  /\ WF_vars(Done /\ (Select \/ HandleAction \/ Awaits \/ LoopStrands))
  /\ WF_vars(Done /\ DispatcherFinished)
  /\ SF_vars(Done /\ ctx = "over" /\ (ScriptStrands \/ \E d \in Fn \cup {None} : ScriptReturns(d)))
  /\ \A r \in Readout : SF_vars(Done /\ (ReadoutEnds(r) \/ ReadoutStrands(r)))
  /\ WF_vars(QueueSends) /\ SF_vars(QueueEnds)
  /\ WF_vars(QueueDrains \/ QueueReceives) /\ SF_vars(QueueCancels)
  /\ WF_vars(Done /\ (PlayerTakes \/ PlayerPlayed))
  /\ WF_vars(StopCancels) /\ SF_vars(StopKills)

Spec == Init /\ [][Next]_vars /\ Fairness

-----------------------------------------------------------------------------
(* What must hold.                                                         *)

\* A caller who waits has heard the announcement of the menu that the next key
\* belongs to, or hears it next, whichever way the menu was reached: by a key,
\* on entry, by a script's goto, after a read-out, by leaving another.  The
\* exception is a session that has asked for the hang-up (enterFunction,
\* exitFunction, clearCallstack, returnToCurrentFunction and the prefix
\* signals they leave to the loop).
AnnouncedOrPending ==
  Idle /\ stack # <<>> /\ prefixes = 0 => announced = Current \/ hungup

\* While the call lasts and no script has been started beside another, keys go to
\* the script from its start until its end is handled, and at no other time: a
\* script that runs gets the caller's keys, and the menu has them again afterwards.
\* It says nothing of two that overlap, one started by an advance: the first to end
\* takes the keys from the other.  And a key that the select takes between the end
\* of a script and its handling is still put where nobody reads it (handleScript,
\* handleScriptDone, slamHook, and the order of the cases of Start).
KeysReachTheScript ==
  hook /\ ~Muted /\ ~overlapped => (activeScript <=> scripts > 0 \/ scriptDone # <<>>)

\* A Stop that blocks: its queue has ended by itself, and no one reads its kill.
StuckInStop == stop = "stuck" \/ (stop = "killing" /\ queue = "ends")

\* A queue that blocks: handleQueue took the message that the loop drains.
StuckInDrain == queue = "receives" /\ actions = 0

\* A queue whose messages are no longer taken: handleQueue waits for ever for audio.
StuckInPlayer == pc = "queue" /\ player = "stranded"

\* A session that Stop has begun to end does end: Stop returns, the loop leaves its
\* select, and every script and read-out signals or gives up.  Each of them may
\* instead wait for ever for audio that came too late for the stream.  Stop or the
\* loop itself is held up by the two races of the queue and by a player that waits
\* for such audio, and scripts outlive a hook lifted behind Stop (Stop, slamHook and
\* the goroutines that watch done and the call's context).
StopEnds ==
  stop = "done" ~>
    \/ /\ stop = "returned" /\ pc \in {"ended", "stranded"}
       /\ scripts = 0 /\ \A r \in Readout : readouts[r] = None
    \/ StuckInStop \/ StuckInDrain \/ StuckInPlayer \/ ctx = "stray"

\* Stop, which "gracefully terminates the session", returns whatever the session is
\* doing (session.go:231).
StopTerminates == stop = "done" ~> stop = "returned"
=============================================================================
