------------------------ MODULE CallLifecycleProofs ------------------------
(***************************************************************************)
(* Theorems about CallLifecycle, for every finite set of listeners and     *)
(* calls and every limit on concurrent calls.                              *)
(***************************************************************************)
EXTENDS CallLifecycle, FiniteSetTheorems, TLAPS

USE DEF BeingSetUp, manager

\* The handler's steps between the reservation and the entry in activeCalls.
SetsUp(c) == Refuse(c) \/ Answer(c) \/ CreateSession(c) \/ InitPhone(c) \/ InitFailed(c)

Reserved(l) == {c \in CallsOf(l) : pc[c] \in BeingSetUp}

\* A call nobody can clean up yet.
EarlyIsClean ==
  \A c \in Call : pc[c] \in {"idle"} \cup BeingSetUp =>
    /\ c \notin keysClosed /\ c \notin active
    /\ \A who \in Cleaner : clean[c][who] = "none"

\* A call in activeCalls has been claimed by no cleaner.
ActiveIsClean ==
  \A c \in active :
    /\ c \notin keysClosed /\ pc[c] \in {"registered", "waiting"}
    /\ \A who \in Cleaner : clean[c][who] \notin {"closing", "finishing"}

\* The cleaner that deleted the call is the only one, and comes first.
OneCleaner ==
  \A c \in Call : \A who \in Cleaner : clean[c][who] = "closing" =>
    /\ c \notin keysClosed
    /\ \A other \in Cleaner \ {who} : clean[c][other] # "closing"

\* Each goroutine enters cleanupCall at most once for a call.
EntersOnce ==
  \A c \in Call :
    /\ clean[c]["monitor"] # "none" => pc[c] \in {"cleaning", "returned"}
    /\ clean[c]["stop"] # "none" =>
         /\ stop[ListenerOf[c]] \in {"sweeping", "done"}
         /\ sweeping[ListenerOf[c]] = c \/ c \notin sweep[ListenerOf[c]]

SweepsOwnCalls ==
  \A l \in Listener :
    /\ sweep[l] \subseteq CallsOf(l) /\ sweeping[l] \in sweep[l] \cup {None}
    /\ stop[l] \in {"idle", "begun"} => sweep[l] = {}
    /\ \A c \in sweep[l] : pc[c] \notin {"idle"} \cup BeingSetUp

\* Only Stop takes a call from activeCalls behind the back of its monitor.
ActiveUntilStop ==
  \A c \in Call : stop[ListenerOf[c]] = "idle" /\ pc[c] \in {"registered", "waiting"} =>
    c \in active

Quiet(l) == \A c \in CallsOf(l) : c \notin active /\ pc[c] \in {"idle", "cleaning", "returned"}

\* What the drain goroutine may rely on.
DrainOrder ==
  \A l \in Listener :
    /\ stop[l] = "idle" <=> stopper[l] = "none"
    /\ drainer[l] # "idle" => ~accepting[l]
    /\ stopper[l] = "drain" => drainer[l] \in {"stopping", "done"}
    /\ drainer[l] \in {"leaving", "stopping", "done"}
         /\ stopper[l] \in {"none", "drain"} => Quiet(l)

IInv ==
  /\ TypeOK /\ EarlyIsClean /\ ActiveIsClean /\ OneCleaner /\ EntersOnce /\ SweepsOwnCalls
  /\ ActiveUntilStop /\ DrainOrder /\ ReservationsCounted /\ NoSessionLeak /\ NoDoubleClose
-----------------------------------------------------------------------------
(* Types.                                                                  *)

\* A call being set up has a reservation to give back.
LEMMA ReleaseTypes ==
  ASSUME TypeOK, ReservationsCounted, NEW c \in Call, ReleasePending(c),
         pc[c] \in BeingSetUp
  PROVE  pending' \in [Listener -> Nat]
<1>1. ListenerOf[c] \in Listener
  BY CallAssumption DEF CallAssumption
<1>2. c \in Reserved(ListenerOf[c]) /\ pending[ListenerOf[c]] = Cardinality(Reserved(ListenerOf[c]))
  BY <1>1 DEF Reserved, CallsOf, ReservationsCounted
<1>3. IsFiniteSet(Reserved(ListenerOf[c]))
  BY CallAssumption, FS_Subset DEF CallAssumption, Reserved, CallsOf
<1>4. Cardinality(Reserved(ListenerOf[c])) # 0
  BY <1>2, <1>3, FS_EmptySet
<1>5. pending[ListenerOf[c]] - 1 \in Nat
  BY <1>1, <1>2, <1>4 DEF TypeOK, SharedTypes
<1> QED BY <1>1, <1>5 DEF ReleasePending, TypeOK, SharedTypes

\* What entering cleanupCall writes.
LEMMA TakeFacts ==
  ASSUME TypeOK, NEW c \in Call, NEW who \in Cleaner, Take(c, who)
  PROVE  /\ active' = active \ {c}
         /\ clean' \in [Call -> [Cleaner -> {"none", "closing", "finishing", "done"}]]
         /\ clean'[c][who] = IF c \in active THEN "closing" ELSE "done"
         /\ \A other \in Cleaner \ {who} : clean'[c][other] = clean[c][other]
         /\ \A d \in Call \ {c} : clean'[d] = clean[d]
<1>1. clean \in [Call -> [Cleaner -> {"none", "closing", "finishing", "done"}]]
  BY DEF TypeOK, CallTypes
<1>2. PICK label \in {"closing", "done"} :
        /\ label = IF c \in active THEN "closing" ELSE "done"
        /\ clean' = [clean EXCEPT ![c] = [clean[c] EXCEPT ![who] = label]]
  BY <1>1 DEF Take
<1>3. clean[c] \in [Cleaner -> {"none", "closing", "finishing", "done"}]
  BY <1>1
<1>4. [clean[c] EXCEPT ![who] = label] \in [Cleaner -> {"none", "closing", "finishing", "done"}]
  BY <1>3
<1>5. clean' \in [Call -> [Cleaner -> {"none", "closing", "finishing", "done"}]]
  BY <1>1, <1>2, <1>4
<1> QED BY <1>1, <1>2, <1>3, <1>5 DEF Take

LEMMA TypeStep == TypeOK /\ ReservationsCounted /\ [Next]_vars => TypeOK'
<1> SUFFICES ASSUME TypeOK, ReservationsCounted, [Next]_vars PROVE TypeOK'
  OBVIOUS
<1> USE DEF TypeOK, callVars, listenerVars, stopVars, Goto
<1>1. ASSUME NEW c \in Call, Invite(c) PROVE TypeOK'
  <2>1. CallTypes' /\ StopTypes'
    BY <1>1 DEF Invite, CallTypes, StopTypes
  <2>2. ListenerOf[c] \in Listener
    BY CallAssumption DEF CallAssumption
  <2>3. SharedTypes'
    BY <1>1, <2>2 DEF Invite, SharedTypes
  <2> QED BY <2>1, <2>3
<1>2. ASSUME NEW c \in Call, SetsUp(c) \/ Register(c)
      PROVE  TypeOK'
  <2>1. CallTypes'
    BY <1>2 DEF SetsUp, Refuse, Answer, CreateSession, InitPhone, InitFailed, Register, CallTypes
  <2>2. StopTypes'
    BY <1>2 DEF SetsUp, Refuse, Answer, CreateSession, InitPhone, InitFailed, Register, StopTypes
  <2>3. pending' \in [Listener -> Nat]
    BY <1>2, ReleaseTypes DEF SetsUp, Refuse, Answer, CreateSession, InitPhone, InitFailed, Register, SharedTypes
  <2>4. SharedTypes'
    BY <1>2, <2>3 DEF SetsUp, Refuse, Answer, CreateSession, InitPhone, InitFailed, Register, SharedTypes
  <2> QED BY <2>1, <2>2, <2>4
<1>3. ASSUME NEW c \in Call, Monitor(c) \/ MonitorWakes(c) \/ MonitorReturns(c) PROVE TypeOK'
  <2>1. CallTypes'
    BY <1>3, TakeFacts DEF Monitor, MonitorWakes, MonitorReturns, Cleaner, CallTypes
  <2>2. SharedTypes' /\ StopTypes'
    BY <1>3 DEF Monitor, MonitorWakes, MonitorReturns, Take, SharedTypes, StopTypes
  <2> QED BY <2>1, <2>2
<1>4. ASSUME NEW c \in Call, NEW who \in Cleaner, CleanupClose(c, who) \/ CleanupFinish(c, who)
      PROVE  TypeOK'
  <2>1. CallTypes'
    BY <1>4 DEF CleanupClose, CleanupFinish, CallTypes
  <2>2. SharedTypes' /\ StopTypes'
    BY <1>4 DEF CleanupClose, CleanupFinish, SharedTypes, StopTypes
  <2> QED BY <2>1, <2>2
<1>5. ASSUME NEW c \in Call, Reader(c) PROVE TypeOK'
  <2>1. CallTypes'
    BY <1>5 DEF Reader, ReaderChecks, ReaderReads, ReaderEnds, CallTypes
  <2>2. SharedTypes' /\ StopTypes'
    BY <1>5 DEF Reader, ReaderChecks, ReaderReads, ReaderEnds, SharedTypes, StopTypes
  <2> QED BY <2>1, <2>2
<1>6. ASSUME NEW l \in Listener, Drain(l) \/ Draining(l) PROVE TypeOK'
  <2>1. CallTypes' /\ SharedTypes'
    BY <1>6 DEF Drain, Draining, DrainIdle, DrainStops, DrainReturns, CallTypes, SharedTypes
  <2>2. StopTypes'
    BY <1>6 DEF Drain, Draining, DrainIdle, DrainStops, DrainReturns, Begin, StopTypes
  <2> QED BY <2>1, <2>2
<1>7. ASSUME NEW l \in Listener, StopSnapshot(l) \/ StopCloses(l) PROVE TypeOK'
  <2>1. CallTypes' /\ SharedTypes'
    BY <1>7 DEF StopSnapshot, StopCloses, CallTypes, SharedTypes
  <2>2. StopTypes'
    BY <1>7 DEF StopSnapshot, StopCloses, StopTypes, CallsOf
  <2> QED BY <2>1, <2>2
<1>8. ASSUME NEW l \in Listener, NEW c \in Call, StopTakes(l, c) \/ StopAwaits(l, c)
      PROVE  TypeOK'
  <2>1. CallTypes'
    BY <1>8, TakeFacts DEF StopTakes, StopAwaits, Cleaner, CallTypes
  <2>2. SharedTypes'
    BY <1>8 DEF StopTakes, StopAwaits, Take, SharedTypes
  <2>3. StopTypes'
    BY <1>8 DEF StopTakes, StopAwaits, StopTypes
  <2> QED BY <2>1, <2>2, <2>3
<1>9. CASE Main
  <2>1. CallTypes' /\ SharedTypes'
    BY <1>9 DEF Main, SetLimit, MainStop, MainReturns, MainStops, CallTypes, SharedTypes
  <2>2. StopTypes'
    BY <1>9 DEF Main, SetLimit, MainStop, MainReturns, MainStops, Begin, StopTypes
  <2> QED BY <2>1, <2>2
<1>10. CASE UNCHANGED vars
  BY <1>10 DEF vars, CallTypes, SharedTypes, StopTypes
<1> QED
  BY <1>1, <1>2, <1>3, <1>4, <1>5, <1>6, <1>7, <1>8, <1>9, <1>10
  DEF Next, SetsUp, Handler, Cleanup, Stopping
-----------------------------------------------------------------------------
(* The reservations.                                                       *)

LEMMA ReservedFinite ==
  \A l \in Listener : IsFiniteSet(Reserved(l)) /\ Cardinality(Reserved(l)) \in Nat
BY CallAssumption, FS_Subset, FS_CardinalityType DEF CallAssumption, Reserved, CallsOf

\* A step that starts and ends no set-up.
LEMMA KeepReservations ==
  ASSUME ReservationsCounted, UNCHANGED pending,
         \A c \in Call : pc'[c] \in BeingSetUp <=> pc[c] \in BeingSetUp
  PROVE  ReservationsCounted'
<1>1. ASSUME NEW l \in Listener PROVE Reserved(l)' = Reserved(l)
  BY DEF Reserved, CallsOf, BeingSetUp
<1> QED BY <1>1 DEF ReservationsCounted, Reserved

LEMMA ReserveCounts ==
  ASSUME TypeOK, ReservationsCounted, NEW c \in Call, pc[c] \notin BeingSetUp,
         pc' = [pc EXCEPT ![c] = "setup"],
         pending' = [pending EXCEPT ![ListenerOf[c]] = @ + 1]
  PROVE  ReservationsCounted'
<1> SUFFICES ASSUME NEW l \in Listener PROVE pending'[l] = Cardinality(Reserved(l)')
  BY DEF ReservationsCounted, Reserved
<1>1. pending[l] = Cardinality(Reserved(l))
  BY DEF ReservationsCounted, Reserved
<1>2. CASE l = ListenerOf[c]
  <2>1. Reserved(l)' = Reserved(l) \cup {c} /\ c \notin Reserved(l)
    BY <1>2 DEF Reserved, CallsOf, BeingSetUp, TypeOK, CallTypes
  <2>2. Cardinality(Reserved(l)') = Cardinality(Reserved(l)) + 1
    BY <2>1, ReservedFinite, FS_AddElement
  <2> QED BY <1>1, <1>2, <2>2 DEF TypeOK, SharedTypes
<1>3. CASE l # ListenerOf[c]
  <2>1. Reserved(l)' = Reserved(l)
    BY <1>3 DEF Reserved, CallsOf, TypeOK, CallTypes
  <2> QED BY <1>1, <1>3, <2>1 DEF TypeOK, SharedTypes
<1> QED BY <1>2, <1>3

LEMMA ReleaseCounts ==
  ASSUME TypeOK, ReservationsCounted, NEW c \in Call, pc[c] \in BeingSetUp,
         NEW label, label \notin BeingSetUp,
         pc' = [pc EXCEPT ![c] = label], ReleasePending(c)
  PROVE  ReservationsCounted'
<1> SUFFICES ASSUME NEW l \in Listener PROVE pending'[l] = Cardinality(Reserved(l)')
  BY DEF ReservationsCounted, Reserved
<1>1. pending[l] = Cardinality(Reserved(l))
  BY DEF ReservationsCounted, Reserved
<1>2. CASE l = ListenerOf[c]
  <2>1. Reserved(l)' = Reserved(l) \ {c} /\ c \in Reserved(l)
    BY <1>2 DEF Reserved, CallsOf, BeingSetUp, TypeOK, CallTypes
  <2>2. Cardinality(Reserved(l)') = Cardinality(Reserved(l)) - 1
    BY <2>1, ReservedFinite, FS_RemoveElement
  <2> QED BY <1>1, <1>2, <2>2 DEF TypeOK, SharedTypes, ReleasePending
<1>3. CASE l # ListenerOf[c]
  <2>1. Reserved(l)' = Reserved(l)
    BY <1>3 DEF Reserved, CallsOf, TypeOK, CallTypes
  <2> QED BY <1>1, <1>3, <2>1 DEF TypeOK, SharedTypes, ReleasePending
<1> QED BY <1>2, <1>3

\* An idle listener has no call in any stage.
LEMMA IdleIsQuiet ==
  ASSUME IInv, NEW l \in Listener, stop[l] = "idle", ActiveCalls(l) = 0
  PROVE  Quiet(l)
<1>1. IsFiniteSet(active \cap CallsOf(l))
  BY CallAssumption, FS_Subset DEF CallAssumption, CallsOf
<1>2. Cardinality(active \cap CallsOf(l)) = 0 /\ Cardinality(Reserved(l)) = 0
  <2>1. Cardinality(active \cap CallsOf(l)) \in Nat
    BY <1>1, FS_CardinalityType
  <2>2. pending[l] = Cardinality(Reserved(l)) /\ pending[l] \in Nat
    BY DEF IInv, TypeOK, SharedTypes, ReservationsCounted, Reserved
  <2> QED BY <2>1, <2>2 DEF ActiveCalls
<1>3. active \cap CallsOf(l) = {} /\ Reserved(l) = {}
  BY <1>1, <1>2, ReservedFinite, FS_EmptySet
<1> SUFFICES ASSUME NEW c \in CallsOf(l)
             PROVE  c \notin active /\ pc[c] \in {"idle", "cleaning", "returned"}
  BY DEF Quiet
<1>4. c \in Call /\ ListenerOf[c] = l /\ c \notin active /\ c \notin Reserved(l)
  BY <1>3 DEF CallsOf
<1>5. pc[c] \notin {"registered", "waiting"}
  BY <1>4 DEF IInv, ActiveUntilStop
<1>6. pc[c] \notin BeingSetUp
  BY <1>4 DEF Reserved
<1> QED BY <1>4, <1>5, <1>6 DEF IInv, TypeOK, CallTypes
-----------------------------------------------------------------------------
(* The invariant, step by step.                                            *)

CallInv == EarlyIsClean /\ ActiveIsClean /\ OneCleaner /\ NoSessionLeak
StopInv == EntersOnce /\ SweepsOwnCalls /\ ActiveUntilStop /\ DrainOrder

LEMMA CallInvStep == IInv /\ [Next]_vars => CallInv'
<1> SUFFICES ASSUME IInv, [Next]_vars PROVE CallInv'
  OBVIOUS
<1> USE DEF callVars, listenerVars, stopVars, Goto
<1>0. /\ TypeOK /\ EarlyIsClean /\ ActiveIsClean /\ OneCleaner /\ NoSessionLeak /\ EntersOnce
      /\ pc \in [Call -> BeingSetUp \cup {"idle", "registered", "waiting", "cleaning", "returned"}]
      /\ \A c \in Call : ListenerOf[c] \in Listener
  BY CallAssumption DEF CallAssumption, IInv, TypeOK, CallTypes
<1>1. ASSUME NEW c \in Call,
             Invite(c) \/ SetsUp(c) PROVE CallInv'
  <2>1. /\ UNCHANGED <<keysClosed, active, clean>>
        /\ pc[c] \in {"idle", "setup", "creating", "created", "failed"}
        /\ pc'[c] \in BeingSetUp \cup {"returned"}
        /\ \A d \in Call \ {c} : pc'[d] = pc[d]
    BY <1>0, <1>1 DEF Invite, SetsUp, Refuse, Answer, CreateSession, InitPhone, InitFailed
  <2>2. EarlyIsClean' /\ ActiveIsClean' /\ OneCleaner'
    BY <1>0, <2>1 DEF EarlyIsClean, ActiveIsClean, OneCleaner, TypeOK, SharedTypes
  <2>3. c \in sessions' => pc'[c] \in {"created", "failed", "ready"}
    BY <1>0, <1>1 DEF Invite, SetsUp, Refuse, Answer, CreateSession, InitPhone, InitFailed, NoSessionLeak, EarlyIsClean, Cleaner
  <2>4. sessions' \subseteq sessions \cup {c}
    BY <1>1 DEF Invite, SetsUp, Refuse, Answer, CreateSession, InitPhone, InitFailed
  <2>5. NoSessionLeak'
    BY <1>0, <2>1, <2>3, <2>4 DEF NoSessionLeak, TypeOK, SharedTypes
  <2> QED BY <2>2, <2>5 DEF CallInv
<1>2. ASSUME NEW c \in Call, Register(c) \/ Monitor(c) \/ MonitorReturns(c) PROVE CallInv'
  <2>1. /\ UNCHANGED <<keysClosed, clean, sessions>>
        /\ active \subseteq active' /\ active' \subseteq active \cup {c}
        /\ pc[c] = "ready" => c \in active'
        /\ pc[c] \in {"ready", "registered", "cleaning"}
        /\ c \in active' => pc[c] = "ready" \/ c \in active
        /\ pc'[c] \in {"registered", "waiting", "returned"}
        /\ c \in active' => pc'[c] \in {"registered", "waiting"}
        /\ \A d \in Call \ {c} : pc'[d] = pc[d]
    BY <1>0, <1>2 DEF Register, Monitor, MonitorReturns, ActiveIsClean
  <2>2. EarlyIsClean' /\ OneCleaner'
    BY <1>0, <2>1 DEF EarlyIsClean, OneCleaner
  <2>3. ActiveIsClean'
    <3>1. c \in active' => c \notin keysClosed
            /\ \A who \in Cleaner : clean[c][who] \notin {"closing", "finishing"}
      BY <1>0, <2>1 DEF EarlyIsClean, ActiveIsClean
    <3> QED BY <1>0, <2>1, <3>1 DEF ActiveIsClean, TypeOK, SharedTypes
  <2>4. NoSessionLeak'
    BY <1>0, <2>1 DEF NoSessionLeak, TypeOK, SharedTypes
  <2> QED BY <2>2, <2>3, <2>4 DEF CallInv
<1>3. ASSUME NEW c \in Call, NEW who \in Cleaner, Take(c, who),
             clean[c][who] = "none", pc[c] \notin {"idle"} \cup BeingSetUp,
             UNCHANGED <<keysClosed, sessions>>,
             pc'[c] \notin {"idle"} \cup BeingSetUp,
             \A d \in Call \ {c} : pc'[d] = pc[d]
      PROVE  CallInv'
  <2>1. /\ active' = active \ {c}
        /\ clean'[c][who] = IF c \in active THEN "closing" ELSE "done"
        /\ \A other \in Cleaner \ {who} : clean'[c][other] = clean[c][other]
        /\ \A d \in Call \ {c} : clean'[d] = clean[d]
    BY <1>0, <1>3, TakeFacts
  <2>2. EarlyIsClean' /\ ActiveIsClean'
    BY <1>0, <1>3, <2>1 DEF EarlyIsClean, ActiveIsClean, TypeOK, SharedTypes
  <2>3. OneCleaner'
    BY <1>0, <1>3, <2>1 DEF OneCleaner, ActiveIsClean
  <2>4. NoSessionLeak'
    BY <1>0, <1>3, <2>1 DEF NoSessionLeak, TypeOK, SharedTypes
  <2> QED BY <2>2, <2>3, <2>4 DEF CallInv
<1>4. ASSUME NEW c \in Call, MonitorWakes(c) PROVE CallInv'
  BY <1>0, <1>3, <1>4 DEF MonitorWakes, EntersOnce, Cleaner
<1>5. ASSUME NEW l \in Listener, NEW c \in Call, StopTakes(l, c) PROVE CallInv'
  <2>1. ListenerOf[c] = l /\ pc[c] \notin {"idle"} \cup BeingSetUp
        /\ sweeping[l] # c
    BY <1>5, CallAssumption DEF CallAssumption, StopTakes, IInv, SweepsOwnCalls, CallsOf
  <2>2. clean[c]["stop"] = "none"
    BY <1>0, <1>5, <2>1 DEF StopTakes, EntersOnce
  <2> QED BY <1>3, <1>5, <2>1, <2>2 DEF StopTakes, Cleaner
<1>6. ASSUME NEW c \in Call, NEW who \in Cleaner, CleanupClose(c, who) PROVE CallInv'
  <2>1. /\ clean[c][who] = "closing" /\ keysClosed' = keysClosed \cup {c}
        /\ clean'[c][who] = "finishing"
        /\ \A other \in Cleaner \ {who} : clean'[c][other] = clean[c][other]
        /\ \A d \in Call \ {c} : clean'[d] = clean[d]
        /\ UNCHANGED <<pc, active, sessions>>
    BY <1>0, <1>6 DEF CleanupClose, TypeOK, CallTypes
  <2>2. EarlyIsClean' /\ ActiveIsClean'
    BY <1>0, <2>1 DEF EarlyIsClean, ActiveIsClean, TypeOK, SharedTypes
  <2>3. OneCleaner'
    BY <1>0, <2>1 DEF OneCleaner
  <2>4. NoSessionLeak'
    BY <1>0, <2>1 DEF NoSessionLeak, TypeOK, SharedTypes
  <2> QED BY <2>2, <2>3, <2>4 DEF CallInv
<1>7. ASSUME UNCHANGED <<pc, active, keysClosed, clean>>, sessions' \subseteq sessions
      PROVE  CallInv'
  BY <1>0, <1>7 DEF CallInv, EarlyIsClean, ActiveIsClean, OneCleaner, NoSessionLeak
<1>8. ASSUME NEW c \in Call, NEW who \in Cleaner, CleanupFinish(c, who) PROVE CallInv'
  <2>1. CASE UNCHANGED <<sessions, clean>>
    BY <1>7, <1>8, <2>1 DEF CleanupFinish
  <2>2. CASE sessions' = sessions \ {c} /\ clean' = [clean EXCEPT ![c][who] = "done"]
    <3>1. /\ clean[c][who] = "finishing" /\ sessions' = sessions \ {c}
          /\ clean'[c][who] = "done"
          /\ \A other \in Cleaner \ {who} : clean'[c][other] = clean[c][other]
          /\ \A d \in Call \ {c} : clean'[d] = clean[d]
          /\ UNCHANGED <<pc, active, keysClosed>>
      BY <1>0, <1>8, <2>2 DEF CleanupFinish, TypeOK, CallTypes
    <3>2. EarlyIsClean' /\ ActiveIsClean'
      BY <1>0, <3>1 DEF EarlyIsClean, ActiveIsClean, TypeOK, SharedTypes
    <3>3. OneCleaner'
      BY <1>0, <3>1 DEF OneCleaner
    <3>4. NoSessionLeak'
      BY <1>0, <3>1 DEF NoSessionLeak, TypeOK, SharedTypes
    <3> QED BY <3>2, <3>3, <3>4 DEF CallInv
  <2> QED BY <1>8, <2>1, <2>2 DEF CleanupFinish
<1>9. ASSUME NEW c \in Call, Reader(c) PROVE CallInv'
  BY <1>7, <1>9 DEF Reader, ReaderChecks, ReaderReads, ReaderEnds
<1>10. ASSUME NEW l \in Listener, Drain(l) \/ Draining(l) \/ StopSnapshot(l) \/ StopCloses(l)
       PROVE  CallInv'
  BY <1>7, <1>10 DEF Drain, Draining, DrainIdle, DrainStops, DrainReturns, StopSnapshot, StopCloses
<1>11. ASSUME NEW l \in Listener, NEW c \in Call, StopAwaits(l, c) PROVE CallInv'
  BY <1>7, <1>11 DEF StopAwaits
<1>12. CASE Main \/ UNCHANGED vars
  BY <1>7, <1>12 DEF Main, SetLimit, MainStop, MainReturns, MainStops, vars
<1> QED
  BY <1>1, <1>2, <1>4, <1>5, <1>6, <1>8, <1>9, <1>10, <1>11, <1>12
  DEF Next, SetsUp, Handler, Cleanup, Stopping

LEMMA CrashStep == IInv /\ [Next]_vars => NoDoubleClose'
<1> SUFFICES ASSUME IInv, [Next]_vars PROVE NoDoubleClose'
  OBVIOUS
<1> USE DEF callVars, listenerVars, stopVars
<1>1. ASSUME NEW c \in Call, NEW who \in Cleaner, CleanupClose(c, who) PROVE NoDoubleClose'
  <2>1. c \notin keysClosed
    BY <1>1 DEF CleanupClose, IInv, OneCleaner
  <2> QED BY <1>1, <2>1 DEF CleanupClose, IInv, NoDoubleClose
<1>2. ASSUME NEW c \in Call, NEW who \in Cleaner, CleanupFinish(c, who) PROVE NoDoubleClose'
  BY <1>2 DEF CleanupFinish, IInv, NoDoubleClose
<1>3. ASSUME NEW c \in Call, Invite(c) \/ Handler(c) PROVE NoDoubleClose'
  BY <1>3 DEF Invite, Handler, Refuse, Answer, CreateSession, InitPhone, InitFailed, Register, Monitor,
              MonitorWakes, MonitorReturns, IInv, NoDoubleClose
<1>4. ASSUME NEW c \in Call, Reader(c) PROVE NoDoubleClose'
  BY <1>4 DEF Reader, ReaderChecks, ReaderReads, ReaderEnds, IInv, NoDoubleClose
<1>5. ASSUME NEW l \in Listener, Drain(l) \/ Draining(l) \/ Stopping(l) PROVE NoDoubleClose'
  BY <1>5 DEF Drain, Draining, DrainIdle, DrainStops, DrainReturns, Stopping, StopSnapshot,
              StopTakes, StopAwaits, StopCloses, IInv, NoDoubleClose
<1>6. CASE Main \/ UNCHANGED vars
  BY <1>6 DEF Main, SetLimit, MainStop, MainReturns, MainStops, vars, IInv, NoDoubleClose
<1> QED BY <1>1, <1>2, <1>3, <1>4, <1>5, <1>6 DEF Next, Cleanup

LEMMA ReservationStep == IInv /\ [Next]_vars => ReservationsCounted'
<1> SUFFICES ASSUME IInv, [Next]_vars PROVE ReservationsCounted'
  OBVIOUS
<1> USE DEF callVars, listenerVars, stopVars, Goto
<1>0. TypeOK /\ ReservationsCounted
      /\ pc \in [Call -> BeingSetUp \cup {"idle", "registered", "waiting", "cleaning", "returned"}]
  BY DEF IInv, TypeOK, CallTypes
<1>1. ASSUME NEW c \in Call, Invite(c) PROVE ReservationsCounted'
  <2>1. CASE accepting[ListenerOf[c]]
    BY <1>0, <1>1, <2>1, ReserveCounts DEF Invite, BeingSetUp
  <2>2. CASE ~accepting[ListenerOf[c]]
    BY <1>0, <1>1, <2>2, KeepReservations DEF Invite, BeingSetUp
  <2> QED BY <2>1, <2>2
<1>2. ASSUME NEW c \in Call, SetsUp(c) \/ Register(c)
      PROVE  ReservationsCounted'
  <2>1. pc[c] \in BeingSetUp
    BY <1>2 DEF SetsUp, Refuse, Answer, CreateSession, InitPhone, InitFailed, Register, BeingSetUp
  <2>2. CASE ReleasePending(c) /\ pc' = [pc EXCEPT ![c] = "returned"]
    BY <1>0, <2>1, <2>2, ReleaseCounts DEF BeingSetUp
  <2>3. CASE ReleasePending(c) /\ pc' = [pc EXCEPT ![c] = "registered"]
    BY <1>0, <2>1, <2>3, ReleaseCounts DEF BeingSetUp
  <2>4. ASSUME UNCHANGED pending, NEW label \in BeingSetUp, pc' = [pc EXCEPT ![c] = label]
        PROVE  ReservationsCounted'
    BY <1>0, <2>1, <2>4, KeepReservations DEF BeingSetUp
  <2> QED
    BY <1>2, <2>2, <2>3, <2>4 DEF SetsUp, Refuse, Answer, CreateSession, InitPhone, InitFailed, Register, BeingSetUp
<1>3. ASSUME NEW c \in Call, Monitor(c) \/ MonitorWakes(c) \/ MonitorReturns(c)
      PROVE  ReservationsCounted'
  BY <1>0, <1>3, KeepReservations DEF Monitor, MonitorWakes, MonitorReturns, BeingSetUp
<1>4. ASSUME UNCHANGED <<pending, pc>> PROVE ReservationsCounted'
  BY <1>0, <1>4, KeepReservations
<1>5. ASSUME NEW c \in Call, Cleanup(c) \/ Reader(c) PROVE ReservationsCounted'
  BY <1>4, <1>5 DEF Cleanup, CleanupClose, CleanupFinish, Reader, ReaderChecks, ReaderReads,
                    ReaderEnds
<1>6. ASSUME NEW l \in Listener, Drain(l) \/ Draining(l) \/ Stopping(l)
      PROVE  ReservationsCounted'
  BY <1>4, <1>6 DEF Drain, Draining, DrainIdle, DrainStops, DrainReturns, Stopping,
                    StopSnapshot, StopTakes, StopAwaits, StopCloses
<1>7. CASE Main \/ UNCHANGED vars
  BY <1>4, <1>7 DEF Main, SetLimit, MainStop, MainReturns, MainStops, vars
<1> QED BY <1>1, <1>2, <1>3, <1>5, <1>6, <1>7 DEF Next, SetsUp, Handler
LEMMA StopInvStep == IInv /\ [Next]_vars => StopInv'
<1> SUFFICES ASSUME IInv, [Next]_vars PROVE StopInv'
  OBVIOUS
<1> USE DEF callVars, listenerVars, stopVars, Goto
<1>0. /\ TypeOK /\ EarlyIsClean /\ ActiveIsClean /\ StopInv
      /\ pc \in [Call -> BeingSetUp \cup {"idle", "registered", "waiting", "cleaning", "returned"}]
      /\ active \subseteq Call
      /\ \A c \in Call : ListenerOf[c] \in Listener
  BY CallAssumption DEF CallAssumption, IInv, TypeOK, CallTypes, SharedTypes, StopInv
<1>1. ASSUME NEW c \in Call,
             Invite(c) \/ SetsUp(c) PROVE StopInv'
  <2>1. /\ UNCHANGED <<active, clean, stopVars, accepting>>
        /\ pc[c] \in {"idle", "setup", "creating", "created", "failed"}
        /\ pc'[c] \in BeingSetUp \cup {"returned"}
        /\ \A d \in Call \ {c} : pc'[d] = pc[d]
        /\ pc[c] = "idle" /\ pc'[c] # "returned" => accepting[ListenerOf[c]]
    BY <1>0, <1>1 DEF Invite, SetsUp, Refuse, Answer, CreateSession, InitPhone, InitFailed
  <2>2. EntersOnce' /\ SweepsOwnCalls' /\ ActiveUntilStop'
    BY <1>0, <2>1 DEF StopInv, EntersOnce, SweepsOwnCalls, ActiveUntilStop, CallsOf
  <2>3. DrainOrder'
    BY <1>0, <2>1 DEF StopInv, DrainOrder, Quiet, CallsOf
  <2> QED BY <2>2, <2>3 DEF StopInv
<1>2. ASSUME NEW c \in Call, Register(c) \/ Monitor(c) \/ MonitorReturns(c) PROVE StopInv'
  <2>1. /\ UNCHANGED <<clean, stopVars, accepting>>
        /\ active \subseteq active' /\ active' \subseteq active \cup {c}
        /\ c \in active' => pc[c] = "ready" \/ c \in active
        /\ pc[c] \in {"ready", "registered", "cleaning"}
        /\ pc'[c] \in {"registered", "waiting", "returned"}
        /\ pc'[c] \in {"registered", "waiting"} => c \in active'
        /\ pc'[c] # "returned" => pc[c] \in {"ready", "registered"}
        /\ clean[c]["monitor"] # "none" => pc'[c] = "returned"
        /\ \A d \in Call \ {c} : pc'[d] = pc[d]
    BY <1>0, <1>2 DEF Register, Monitor, MonitorReturns, StopInv, EntersOnce
  <2>2. EntersOnce' /\ SweepsOwnCalls' /\ ActiveUntilStop'
    BY <1>0, <2>1 DEF StopInv, EntersOnce, SweepsOwnCalls, ActiveUntilStop, CallsOf
  <2>3. DrainOrder'
    BY <1>0, <2>1 DEF StopInv, DrainOrder, Quiet, CallsOf
  <2> QED BY <2>2, <2>3 DEF StopInv
<1>3. ASSUME NEW c \in Call, MonitorWakes(c) PROVE StopInv'
  <2>1. /\ active' = active \ {c} /\ pc[c] = "waiting" /\ pc'[c] = "cleaning"
        /\ UNCHANGED <<stopVars, accepting>>
        /\ clean'[c]["stop"] = clean[c]["stop"]
        /\ \A d \in Call \ {c} : clean'[d] = clean[d] /\ pc'[d] = pc[d]
    BY <1>0, <1>3, TakeFacts DEF MonitorWakes, Cleaner
  <2>2. EntersOnce' /\ SweepsOwnCalls' /\ ActiveUntilStop'
    BY <1>0, <2>1 DEF StopInv, EntersOnce, SweepsOwnCalls, ActiveUntilStop, CallsOf
  <2>3. DrainOrder'
    BY <1>0, <2>1 DEF StopInv, DrainOrder, Quiet, CallsOf
  <2> QED BY <2>2, <2>3 DEF StopInv
<1>4. ASSUME UNCHANGED <<pc, active, stopVars, accepting>>,
             \A c \in Call : \A who \in Cleaner : clean'[c][who] # "none" => clean[c][who] # "none"
      PROVE  StopInv'
  <2>1. EntersOnce' /\ SweepsOwnCalls' /\ ActiveUntilStop'
    BY <1>0, <1>4 DEF StopInv, EntersOnce, SweepsOwnCalls, ActiveUntilStop, CallsOf, Cleaner
  <2>2. DrainOrder'
    BY <1>0, <1>4 DEF StopInv, DrainOrder, Quiet, CallsOf
  <2> QED BY <2>1, <2>2 DEF StopInv
<1>5. ASSUME NEW c \in Call, NEW who \in Cleaner, CleanupClose(c, who) \/ CleanupFinish(c, who)
      PROVE  StopInv'
  BY <1>0, <1>4, <1>5 DEF CleanupClose, CleanupFinish, TypeOK, CallTypes
<1>6. ASSUME NEW c \in Call, Reader(c) PROVE StopInv'
  BY <1>4, <1>6 DEF Reader, ReaderChecks, ReaderReads, ReaderEnds
<1>7. ASSUME UNCHANGED <<pc, active, clean, sweep, sweeping>>,
             \A l \in Listener : /\ stop'[l] = "idle" => stop[l] = "idle"
                                 /\ stop[l] \in {"sweeping", "done"} => stop'[l] = stop[l],
             DrainOrder'
      PROVE  StopInv'
  BY <1>0, <1>7
  DEF StopInv, EntersOnce, SweepsOwnCalls, ActiveUntilStop, CallsOf, TypeOK, StopTypes
<1>8. ASSUME NEW l \in Listener, Drain(l) \/ DrainReturns(l) PROVE StopInv'
  <2>1. DrainOrder'
    BY <1>0, <1>8 DEF Drain, DrainReturns, StopInv, DrainOrder, Quiet, CallsOf, TypeOK,
                      StopTypes, SharedTypes
  <2> QED BY <1>7, <1>8, <2>1 DEF Drain, DrainReturns
<1>9. ASSUME NEW l \in Listener, DrainIdle(l) PROVE StopInv'
  <2>1. stop[l] = "idle" => Quiet(l)
    BY <1>9, IdleIsQuiet DEF DrainIdle
  <2>2. DrainOrder'
    BY <1>0, <1>9, <2>1 DEF DrainIdle, StopInv, DrainOrder, Quiet, CallsOf, TypeOK, StopTypes
  <2> QED BY <1>7, <1>9, <2>2 DEF DrainIdle
<1>10. ASSUME NEW l \in Listener, DrainStops(l) PROVE StopInv'
  <2>1. DrainOrder'
    BY <1>0, <1>10
    DEF DrainStops, Begin, StopInv, DrainOrder, Quiet, CallsOf, TypeOK, StopTypes
  <2>2. \A m \in Listener : /\ stop'[m] = "idle" => stop[m] = "idle"
                            /\ stop[m] \in {"sweeping", "done"} => stop'[m] = stop[m]
    BY <1>0, <1>10 DEF DrainStops, Begin, TypeOK, StopTypes
  <2> QED BY <1>7, <1>10, <2>1, <2>2 DEF DrainStops
<1>11. ASSUME NEW l \in Listener, StopSnapshot(l) PROVE StopInv'
  <2>1. /\ stop[l] = "begun" /\ stop'[l] = "sweeping" /\ sweep'[l] = active \cap CallsOf(l)
        /\ \A m \in Listener \ {l} : stop'[m] = stop[m] /\ sweep'[m] = sweep[m]
        /\ UNCHANGED <<pc, active, clean, accepting, drainer, stopper, sweeping>>
    BY <1>0, <1>11 DEF StopSnapshot, TypeOK, StopTypes
  <2>2. sweeping[l] = None /\ \A c \in CallsOf(l) : clean[c]["stop"] = "none"
    BY <1>0, <2>1 DEF CallsOf, StopInv, EntersOnce, SweepsOwnCalls
  <2>3. EntersOnce' /\ ActiveUntilStop'
    BY <1>0, <2>1, <2>2 DEF StopInv, EntersOnce, ActiveUntilStop, CallsOf
  <2>4. SweepsOwnCalls'
    BY <1>0, <2>1, <2>2 DEF StopInv, SweepsOwnCalls, ActiveIsClean, CallsOf
  <2>5. DrainOrder'
    BY <1>0, <2>1 DEF StopInv, DrainOrder, Quiet, CallsOf
  <2> QED BY <2>3, <2>4, <2>5 DEF StopInv
<1>12. ASSUME NEW l \in Listener, NEW c \in Call, StopTakes(l, c) PROVE StopInv'
  <2>1. /\ stop[l] = "sweeping" /\ c \in sweep[l] /\ sweeping'[l] = c
        /\ \A m \in Listener \ {l} : sweeping'[m] = sweeping[m]
        /\ UNCHANGED <<pc, accepting, drainer, stop, stopper, sweep>>
    BY <1>0, <1>12 DEF StopTakes, TypeOK, StopTypes
  <2>2. /\ active' = active \ {c} /\ clean'[c]["monitor"] = clean[c]["monitor"]
        /\ \A d \in Call \ {c} : clean'[d] = clean[d]
    BY <1>0, <1>12, TakeFacts DEF StopTakes, Cleaner
  <2>3. ListenerOf[c] = l /\ sweeping[l] = None
    BY <1>0, <1>12, <2>1 DEF StopTakes, StopInv, SweepsOwnCalls, CallsOf
  <2>4. EntersOnce'
    BY <1>0, <2>1, <2>2, <2>3, CallAssumption DEF CallAssumption, StopInv, EntersOnce
  <2>5. SweepsOwnCalls' /\ ActiveUntilStop'
    BY <1>0, <2>1, <2>2, <2>3 DEF StopInv, SweepsOwnCalls, ActiveUntilStop, CallsOf
  <2>6. DrainOrder'
    BY <1>0, <2>1, <2>2 DEF StopInv, DrainOrder, Quiet, CallsOf
  <2> QED BY <2>4, <2>5, <2>6 DEF StopInv
<1>13. ASSUME NEW l \in Listener, NEW c \in Call, StopAwaits(l, c) PROVE StopInv'
  <2>1. /\ sweeping[l] = c /\ sweeping'[l] = None /\ sweep'[l] = sweep[l] \ {c}
        /\ \A m \in Listener \ {l} : sweeping'[m] = sweeping[m] /\ sweep'[m] = sweep[m]
        /\ UNCHANGED <<pc, active, clean, accepting, drainer, stop, stopper>>
    BY <1>0, <1>13 DEF StopAwaits, TypeOK, StopTypes
  <2>2. EntersOnce' /\ SweepsOwnCalls' /\ ActiveUntilStop'
    BY <1>0, <2>1 DEF StopInv, EntersOnce, SweepsOwnCalls, ActiveUntilStop, CallsOf
  <2>3. DrainOrder'
    BY <1>0, <2>1 DEF StopInv, DrainOrder, Quiet, CallsOf
  <2> QED BY <2>2, <2>3 DEF StopInv
<1>14. ASSUME NEW l \in Listener, StopCloses(l) PROVE StopInv'
  <2>1. /\ stop[l] = "sweeping" /\ stop'[l] = "done"
        /\ \A m \in Listener \ {l} : stop'[m] = stop[m]
        /\ UNCHANGED <<pc, active, clean, accepting, drainer, stopper, sweep, sweeping>>
    BY <1>0, <1>14 DEF StopCloses, TypeOK, StopTypes
  <2>2. EntersOnce' /\ SweepsOwnCalls' /\ ActiveUntilStop'
    BY <1>0, <2>1 DEF StopInv, EntersOnce, SweepsOwnCalls, ActiveUntilStop, CallsOf
  <2>3. DrainOrder'
    BY <1>0, <2>1 DEF StopInv, DrainOrder, Quiet, CallsOf
  <2> QED BY <2>2, <2>3 DEF StopInv
<1>15. ASSUME NEW l \in Listener, MainStops(l) PROVE StopInv'
  <2>1. DrainOrder'
    BY <1>0, <1>15 DEF MainStops, Begin, StopInv, DrainOrder, Quiet, CallsOf, TypeOK, StopTypes
  <2>2. \A m \in Listener : /\ stop'[m] = "idle" => stop[m] = "idle"
                            /\ stop[m] \in {"sweeping", "done"} => stop'[m] = stop[m]
    BY <1>0, <1>15 DEF MainStops, Begin, TypeOK, StopTypes
  <2> QED BY <1>7, <1>15, <2>1, <2>2 DEF MainStops
<1>16. CASE SetLimit \/ MainStop \/ MainReturns \/ UNCHANGED vars
  BY <1>4, <1>16 DEF SetLimit, MainStop, MainReturns, vars
<1> QED
  BY <1>1, <1>2, <1>3, <1>5, <1>6, <1>8, <1>9, <1>10, <1>11, <1>12, <1>13, <1>14, <1>15, <1>16
  DEF Next, SetsUp, Handler, Cleanup, Stopping, Draining, Main
-----------------------------------------------------------------------------
(* The theorems.                                                           *)

LEMMA InitInvariant == Init => IInv
<1> SUFFICES ASSUME Init PROVE IInv
  OBVIOUS
<1>1. TypeOK
  BY DEF Init, TypeOK, CallTypes, SharedTypes, StopTypes, Cleaner
<1>2. ReservationsCounted
  <2>1. \A l \in Listener : Reserved(l) = {}
    BY DEF Init, Reserved, CallsOf
  <2> QED BY <2>1, FS_EmptySet DEF Init, ReservationsCounted, Reserved
<1>3. EarlyIsClean /\ ActiveIsClean /\ OneCleaner /\ NoSessionLeak /\ NoDoubleClose
  BY DEF Init, EarlyIsClean, ActiveIsClean, OneCleaner, NoSessionLeak, NoDoubleClose, Cleaner
<1>4. EntersOnce /\ SweepsOwnCalls /\ ActiveUntilStop /\ DrainOrder
  BY DEF Init, EntersOnce, SweepsOwnCalls, ActiveUntilStop, DrainOrder, Cleaner
<1> QED BY <1>1, <1>2, <1>3, <1>4 DEF IInv

LEMMA Invariance == Spec => []IInv
<1>1. IInv /\ [Next]_vars => IInv'
  <2> SUFFICES ASSUME IInv, [Next]_vars PROVE IInv'
    OBVIOUS
  <2>1. TypeOK'
    BY TypeStep DEF IInv
  <2> QED
    BY <2>1, CallInvStep, StopInvStep, CrashStep, ReservationStep DEF IInv, CallInv, StopInv
<1> QED BY InitInvariant, <1>1, PTL DEF Spec

\* Every variable keeps its type for any number of calls and listeners.
THEOREM TypeCorrect == Spec => []TypeOK
<1>1. IInv => TypeOK
  BY DEF IInv
<1> QED BY <1>1, Invariance, PTL

\* A drain never tears down a call in any stage of its life (server.go:402-422,
\* supervisor.go:367-386).
THEOREM DrainsAreGentle == Spec => []DrainTearsNothingDown
<1>1. IInv => DrainTearsNothingDown
  <2> SUFFICES ASSUME IInv, NEW c \in Call, stopper[ListenerOf[c]] = "drain"
               PROVE  c \notin active /\ pc[c] \in {"idle", "cleaning", "returned"}
    BY DEF DrainTearsNothingDown
  <2>1. ListenerOf[c] \in Listener /\ c \in CallsOf(ListenerOf[c])
    BY CallAssumption DEF CallAssumption, CallsOf
  <2>2. Quiet(ListenerOf[c])
    BY <2>1 DEF IInv, DrainOrder
  <2> QED BY <2>1, <2>2 DEF Quiet
<1> QED BY <1>1, Invariance, PTL

\* The reservations of a listener are its calls in set-up, however their
\* set-ups end (server.go:412-421, 518-523, 676-680).
THEOREM ReservationsExact == Spec => []ReservationsCounted
<1>1. IInv => ReservationsCounted
  BY DEF IInv
<1> QED BY <1>1, Invariance, PTL

\* No session outlives its call in the SessionManager (server.go:647-660, 721-763).
THEOREM SessionsReleased == Spec => []NoSessionLeak
<1>1. IInv => NoSessionLeak
  BY DEF IInv
<1> QED BY <1>1, Invariance, PTL

\* A call's channels are closed once, whoever cleans it up (server.go:465-466, 721-731).
THEOREM CleanedUpOnce == Spec => []NoDoubleClose
<1>1. IInv => NoDoubleClose
  BY DEF IInv
<1> QED BY <1>1, Invariance, PTL
-----------------------------------------------------------------------------
(* The safety halves of the liveness properties.                           *)

\* The Stop of a drain has no call to clean up.
DrainSweepsNothing == \A l \in Listener : stopper[l] = "drain" => sweep[l] = {}

LEMMA SweepStep == IInv /\ DrainSweepsNothing /\ [Next]_vars => DrainSweepsNothing'
<1> SUFFICES ASSUME TypeOK, SweepsOwnCalls, DrainOrder, DrainSweepsNothing, [Next]_vars
             PROVE  DrainSweepsNothing'
  BY DEF IInv
<1>1. CASE UNCHANGED <<stopper, sweep>>
  BY <1>1 DEF DrainSweepsNothing
<1>2. ASSUME NEW l \in Listener, StopSnapshot(l) PROVE DrainSweepsNothing'
  <2>1. stopper[l] = "drain" => active \cap CallsOf(l) = {}
    <3>1. drainer[l] \in {"stopping", "done"} /\ stopper[l] = "drain" => Quiet(l)
      BY DEF DrainOrder
    <3> QED BY <3>1 DEF DrainOrder, Quiet
  <2>2. /\ sweep'[l] = active \cap CallsOf(l) /\ UNCHANGED stopper
        /\ \A m \in Listener \ {l} : sweep'[m] = sweep[m]
    BY <1>2 DEF StopSnapshot, TypeOK, StopTypes
  <2> QED BY <2>1, <2>2 DEF DrainSweepsNothing
<1>3. ASSUME NEW l \in Listener, NEW c \in Call, StopAwaits(l, c) PROVE DrainSweepsNothing'
  <2>1. UNCHANGED stopper /\ \A m \in Listener : sweep'[m] \subseteq sweep[m]
    BY <1>3 DEF StopAwaits, TypeOK, StopTypes
  <2> QED BY <2>1 DEF DrainSweepsNothing
<1>4. ASSUME NEW l \in Listener, NEW who \in {"drain", "supervisor"}, Begin(l, who),
             UNCHANGED sweep
      PROVE  DrainSweepsNothing'
  <2>1. \A m \in Listener : stopper'[m] = stopper[m] \/ stop[m] = "idle"
    BY <1>4 DEF Begin, TypeOK, StopTypes
  <2> QED BY <1>4, <2>1 DEF DrainSweepsNothing, SweepsOwnCalls
<1>5. ASSUME NEW l \in Listener, DrainStops(l) \/ MainStops(l) PROVE DrainSweepsNothing'
  BY <1>4, <1>5 DEF DrainStops, MainStops
<1>6. ASSUME NEW c \in Call, Invite(c) \/ Handler(c) \/ Cleanup(c) \/ Reader(c)
      PROVE  UNCHANGED <<stopper, sweep>>
  BY <1>6 DEF Handler, Cleanup, Reader, Invite, Refuse, Answer, CreateSession, InitPhone, InitFailed, Register,
    Monitor, MonitorWakes, MonitorReturns, CleanupClose, CleanupFinish, ReaderChecks,
    ReaderReads, ReaderEnds, stopVars
<1>7. ASSUME NEW l \in Listener,
             \/ Drain(l) \/ DrainIdle(l) \/ DrainReturns(l) \/ StopCloses(l)
             \/ \E c \in Call : StopTakes(l, c)
      PROVE  UNCHANGED <<stopper, sweep>>
  BY <1>7 DEF Drain, DrainIdle, DrainReturns, StopCloses, StopTakes
<1>8. CASE SetLimit \/ MainStop \/ MainReturns \/ UNCHANGED vars
  BY <1>1, <1>8 DEF SetLimit, MainStop, MainReturns, vars, stopVars
<1> QED
  BY <1>1, <1>2, <1>3, <1>5, <1>6, <1>7, <1>8 DEF Next, Stopping, Draining, Main

\* The Stop of a drain hangs on no call.
DrainNeverHangs == \A l \in Listener : stopper[l] = "drain" => ~Stuck(l)

\* A reload cannot hang on a call whose monitor came too late, because the Stop of a
\* drain has no call to wait for: only the Stop of the whole process can
\* (server.go:455-476, 698-706; supervisor.go:367-386).
THEOREM DrainsNeverHang == Spec => []DrainNeverHangs
<1>1. Init => DrainSweepsNothing
  BY DEF Init, DrainSweepsNothing
<1>2. IInv /\ DrainSweepsNothing => DrainNeverHangs
  BY DEF IInv, SweepsOwnCalls, DrainSweepsNothing, DrainNeverHangs, Stuck
<1> QED BY <1>1, <1>2, SweepStep, Invariance, PTL DEF Spec

\* The call has been in activeCalls.
Answered(c) ==
  \/ pc[c] \in {"registered", "waiting", "cleaning"} \/ c \in keysClosed
  \/ \E who \in Cleaner : clean[c][who] # "none"

\* An answered call is active, or its channels are closed or about to be.
ClaimedIsClosed ==
  /\ \A c \in Call : Answered(c) =>
       c \in active \/ c \in keysClosed \/ \E who \in Cleaner : clean[c][who] = "closing"
  /\ \A l \in Listener : \A c \in sweep[l] : Answered(c)

\* A step that claims no call.
LEMMA NobodyClaims ==
  ASSUME TypeOK, ClaimedIsClosed, UNCHANGED <<clean, sweep>>,
         active \subseteq active', keysClosed \subseteq keysClosed',
         \A c \in Call : Answered(c) => Answered(c)',
         \A c \in Call : Answered(c)' => Answered(c) \/ c \in active'
  PROVE  ClaimedIsClosed'
<1>1. \A l \in Listener : sweep[l] \subseteq Call
  BY DEF TypeOK, StopTypes
<1>2. \A l \in Listener : \A c \in sweep'[l] : Answered(c)'
  BY <1>1 DEF ClaimedIsClosed
<1> QED BY <1>2 DEF ClaimedIsClosed

\* A call is deleted from activeCalls, or found missing there.
LEMMA TakeClaims ==
  ASSUME TypeOK, ClaimedIsClosed, NEW c \in Call, NEW who \in Cleaner, Take(c, who),
         clean[c][who] = "none", Answered(c), UNCHANGED <<keysClosed, sweep>>,
         \A d \in Call \ {c} : pc'[d] = pc[d]
  PROVE  ClaimedIsClosed'
<1>1. /\ active' = active \ {c}
      /\ clean'[c][who] = IF c \in active THEN "closing" ELSE "done"
      /\ \A other \in Cleaner \ {who} : clean'[c][other] = clean[c][other]
      /\ \A d \in Call \ {c} : clean'[d] = clean[d]
  BY TakeFacts
<1>2. Answered(c)' /\ \A d \in Call \ {c} : Answered(d)' <=> Answered(d)
  BY <1>1 DEF Answered
<1>3. \A l \in Listener : \A d \in sweep'[l] : Answered(d)'
  <2>1. \A l \in Listener : sweep[l] \subseteq Call
    BY DEF TypeOK, StopTypes
  <2> QED BY <1>2, <2>1 DEF ClaimedIsClosed
<1>4. ASSUME NEW d \in Call, Answered(d)'
      PROVE  \/ d \in active' \/ d \in keysClosed'
             \/ \E w \in Cleaner : clean'[d][w] = "closing"
  <2>1. CASE d = c /\ c \in active
    BY <1>1, <2>1
  <2>2. CASE d = c /\ c \notin active
    BY <1>1, <2>2 DEF ClaimedIsClosed
  <2>3. CASE d # c
    BY <1>1, <1>2, <1>4, <2>3 DEF ClaimedIsClosed
  <2> QED BY <2>1, <2>2, <2>3
<1> QED BY <1>3, <1>4 DEF ClaimedIsClosed

LEMMA ClaimStep == IInv /\ ClaimedIsClosed /\ [Next]_vars => ClaimedIsClosed'
<1> SUFFICES ASSUME TypeOK, ClaimedIsClosed, EarlyIsClean, ActiveIsClean, EntersOnce,
                    SweepsOwnCalls, [Next]_vars
             PROVE  ClaimedIsClosed'
  BY DEF IInv
<1> USE DEF callVars, listenerVars, stopVars, Goto
<1>0. /\ pc \in [Call -> BeingSetUp \cup {"idle", "registered", "waiting", "cleaning", "returned"}]
      /\ \A c \in Call : ListenerOf[c] \in Listener
      /\ \A l \in Listener : sweep[l] \subseteq CallsOf(l)
  BY CallAssumption DEF CallAssumption, TypeOK, CallTypes, SweepsOwnCalls
<1>1. CASE UNCHANGED <<pc, clean, active, keysClosed, sweep>>
  BY <1>1, NobodyClaims DEF Answered
<1>2. ASSUME NEW c \in Call, Invite(c) \/ SetsUp(c)
      PROVE  ClaimedIsClosed'
  <2>1. /\ UNCHANGED <<clean, active, keysClosed, sweep>> /\ \A d \in Call \ {c} : pc'[d] = pc[d]
        /\ pc[c] \in {"idle", "setup", "creating", "created", "failed"}
        /\ pc'[c] \in BeingSetUp \cup {"returned"}
    BY <1>0, <1>2 DEF Invite, SetsUp, Refuse, Answer, CreateSession, InitPhone, InitFailed
  <2> QED BY <2>1, NobodyClaims DEF Answered
<1>3. ASSUME NEW c \in Call, Register(c) PROVE ClaimedIsClosed'
  <2>1. /\ UNCHANGED <<clean, keysClosed, sweep>> /\ active' = active \cup {c}
        /\ pc'[c] = "registered" /\ \A d \in Call \ {c} : pc'[d] = pc[d]
    BY <1>0, <1>3 DEF Register
  <2> QED BY <2>1, NobodyClaims DEF Answered
<1>4. ASSUME NEW c \in Call, Monitor(c) PROVE ClaimedIsClosed'
  <2>1. /\ UNCHANGED <<clean, keysClosed, sweep, active>> /\ pc[c] = "registered"
        /\ pc'[c] = IF c \in active THEN "waiting" ELSE "returned"
        /\ \A d \in Call \ {c} : pc'[d] = pc[d]
    BY <1>0, <1>4 DEF Monitor
  <2>2. c \notin active => c \in keysClosed \/ \E who \in Cleaner : clean[c][who] = "closing"
    BY <2>1 DEF ClaimedIsClosed, Answered
  <2> QED BY <2>1, <2>2, NobodyClaims DEF Answered
<1>5. ASSUME NEW c \in Call, MonitorReturns(c) PROVE ClaimedIsClosed'
  <2>1. /\ UNCHANGED <<clean, keysClosed, sweep, active>> /\ pc'[c] = "returned"
        /\ clean[c]["monitor"] = "done" /\ \A d \in Call \ {c} : pc'[d] = pc[d]
    BY <1>0, <1>5 DEF MonitorReturns
  <2> QED BY <2>1, NobodyClaims DEF Answered, Cleaner
<1>6. ASSUME NEW c \in Call, MonitorWakes(c) PROVE ClaimedIsClosed'
  <2>1. /\ pc[c] = "waiting" /\ Take(c, "monitor") /\ UNCHANGED <<keysClosed, sweep>>
        /\ \A d \in Call \ {c} : pc'[d] = pc[d]
    BY <1>0, <1>6 DEF MonitorWakes
  <2>2. Answered(c) /\ clean[c]["monitor"] = "none"
    BY <2>1 DEF Answered, EntersOnce
  <2> QED BY <2>1, <2>2, TakeClaims DEF Cleaner
<1>7. ASSUME NEW l \in Listener, NEW c \in Call, StopTakes(l, c) PROVE ClaimedIsClosed'
  <2>1. /\ c \in sweep[l] /\ sweeping[l] = None /\ Take(c, "stop")
        /\ UNCHANGED <<keysClosed, sweep, pc>>
    BY <1>7 DEF StopTakes
  <2>2. ListenerOf[c] = l /\ c # None
    BY <1>0, <2>1, CallAssumption DEF CallsOf, CallAssumption
  <2>3. Answered(c) /\ clean[c]["stop"] = "none"
    BY <2>1, <2>2 DEF ClaimedIsClosed, EntersOnce
  <2> QED BY <2>1, <2>3, TakeClaims DEF Cleaner
<1>8. ASSUME NEW c \in Call, NEW who \in Cleaner, CleanupClose(c, who) \/ CleanupFinish(c, who)
      PROVE  ClaimedIsClosed'
  <2>0. CASE UNCHANGED clean
    BY <1>1, <1>8, <2>0 DEF CleanupClose, CleanupFinish, TypeOK, CallTypes
  <2>1. ASSUME ~UNCHANGED clean
        PROVE  /\ clean[c][who] \in {"closing", "finishing"}
               /\ clean'[c][who] \in {"finishing", "done"}
               /\ clean[c][who] = "closing" => c \in keysClosed'
               /\ clean'[c][who] = "finishing" => clean[c][who] = "closing"
               /\ keysClosed \subseteq keysClosed' /\ keysClosed' \subseteq keysClosed \cup {c}
               /\ \A other \in Cleaner \ {who} : clean'[c][other] = clean[c][other]
               /\ \A d \in Call \ {c} : clean'[d] = clean[d]
               /\ UNCHANGED <<pc, active, sweep>>
    BY <1>8, <2>1 DEF CleanupClose, CleanupFinish, TypeOK, CallTypes
  <2>2. ASSUME ~UNCHANGED clean PROVE ClaimedIsClosed'
    <3>1. \A d \in Call : Answered(d)' <=> Answered(d)
      BY <2>1, <2>2 DEF Answered
    <3> QED BY <1>0, <2>1, <2>2, <3>1 DEF ClaimedIsClosed, CallsOf
  <2> QED BY <2>0, <2>2
<1>9. ASSUME NEW l \in Listener, StopSnapshot(l) PROVE ClaimedIsClosed'
  <2>1. /\ UNCHANGED <<pc, clean, active, keysClosed>> /\ sweep'[l] \subseteq active
        /\ \A m \in Listener \ {l} : sweep'[m] = sweep[m]
    BY <1>9 DEF StopSnapshot, TypeOK, StopTypes
  <2>2. \A c \in active : Answered(c)
    BY DEF ActiveIsClean, Answered
  <2>3. \A c : Answered(c)' <=> Answered(c)
    BY <2>1 DEF Answered
  <2> QED BY <2>1, <2>2, <2>3 DEF ClaimedIsClosed
<1>10. ASSUME NEW l \in Listener, NEW c \in Call, StopAwaits(l, c) PROVE ClaimedIsClosed'
  <2>1. /\ UNCHANGED <<pc, clean, active, keysClosed>>
        /\ \A m \in Listener : sweep'[m] \subseteq sweep[m]
    BY <1>10 DEF StopAwaits, TypeOK, StopTypes
  <2>2. \A d : Answered(d)' <=> Answered(d)
    BY <2>1 DEF Answered
  <2> QED BY <2>1, <2>2 DEF ClaimedIsClosed
<1>11. ASSUME NEW l \in Listener, Drain(l) \/ Draining(l) \/ StopCloses(l) \/ MainStops(l)
      PROVE  ClaimedIsClosed'
  BY <1>1, <1>11 DEF Drain, Draining, DrainIdle, DrainStops, DrainReturns, StopCloses, MainStops
<1>12. CASE (\E c \in Call : Reader(c)) \/ SetLimit \/ MainStop \/ MainReturns \/ UNCHANGED vars
  BY <1>1, <1>12 DEF Reader, ReaderChecks, ReaderReads, ReaderEnds, SetLimit, MainStop,
    MainReturns, vars
<1> QED
  BY <1>2, <1>3, <1>4, <1>5, <1>6, <1>7, <1>8, <1>9, <1>10, <1>11, <1>12
  DEF Next, SetsUp, Handler, Cleanup, Stopping, Main

\* An answered call that is no longer active and that nobody is cleaning up.
EndedIsCleaned ==
  \A c \in Call :
    /\ Answered(c) /\ c \notin active
    /\ \A who \in Cleaner : clean[c][who] \notin {"closing", "finishing"}
    => c \notin sessions /\ c \in keysClosed

\* The safety half of CallsAreCleanedUp: whichever of the monitor and Stop deletes
\* an answered call, the clean-up that follows closes its channels and removes its
\* session, and no call falls between the two (server.go:698-763; manager.go:114-126).
THEOREM NoCallForgotten == Spec => []EndedIsCleaned
<1>1. Init => ClaimedIsClosed
  BY DEF Init, ClaimedIsClosed, Answered, Cleaner
<1>2. IInv /\ ClaimedIsClosed => EndedIsCleaned
  <2> SUFFICES ASSUME IInv, ClaimedIsClosed, NEW c \in Call, Answered(c), c \notin active,
                      \A who \in Cleaner : clean[c][who] \notin {"closing", "finishing"}
               PROVE  c \notin sessions /\ c \in keysClosed
    BY DEF EndedIsCleaned
  <2>1. c \in keysClosed
    BY DEF ClaimedIsClosed
  <2>2. pc[c] \notin {"created", "failed", "ready"}
    BY <2>1 DEF IInv, EarlyIsClean
  <2> QED BY <2>1, <2>2 DEF IInv, NoSessionLeak
<1> QED BY <1>1, <1>2, ClaimStep, Invariance, PTL DEF Spec
=============================================================================
