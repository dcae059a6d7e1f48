-------------------------- MODULE SupervisorProofs --------------------------
(***************************************************************************)
(* Theorems about Supervisor and about PortAllocation, which gives it its  *)
(* sockets, for every set of connections, sockets and listeners, every set *)
(* of legal configurations and any number of reloads.                      *)
(***************************************************************************)
EXTENDS Supervisor, PortAllocation, TLAPS

(* The inductive invariant: what makes the owner snapshot of Apply and the *)
(* busy test of the retry goroutines sufficient.                           *)

LiveIsOpen ==
  \A id \in Id : clients[id] # None =>
    /\ phase[clients[id]] = "open" /\ connOf[clients[id]] = id
    /\ clients[id] \notin draining /\ clients[id] \notin stopping

\* A listener being swapped in exists only between the two steps of its swap.
StagedIsOpen ==
  /\ mu # "swap" => staged = None
  /\ mu = "swap" =>
       /\ staged \in Client /\ phase[staged] = "open"
       /\ staged \notin draining
       /\ connOf[staged] \in Id
       /\ clients[connOf[staged]] # None /\ clients[connOf[staged]] # staged

\* While Apply runs, the socket of every serving listener is in its snapshot.
OwnersCoverLive ==
  mu # "free" => \A id \in Id :
    clients[id] # None => owners[conf[clients[id]].sock] # None

StopIsFinal ==
  /\ ~stopped => stopping = {}
  /\ stopped => mu = "free" /\ \A id \in Id : clients[id] = None

UsedAndOpen ==
  /\ \A c \in draining \cup stopping : phase[c] # "unused"
  /\ \A c \in Client : phase[c] = "open" => conf[c] \in Conf /\ connOf[c] \in Id

WorkIsWanted == \A id \in todo \cup deferred : desired[id] # None

WantedInApply ==
  mu # "free" => \A id \in Id : desired[id] # None /\ clients[id] = None =>
    \/ id \in todo \cup deferred
    \/ <<id, generation[id]>> \in retry

IInv ==
  /\ TypeOK /\ NoSharedSocket /\ NoOrphanListener /\ WantedIsServedOrRetried
  /\ LiveIsOpen /\ StagedIsOpen /\ OwnersCoverLive /\ StopIsFinal
  /\ UsedAndOpen /\ WorkIsWanted /\ WantedInApply

-----------------------------------------------------------------------------
(* Types.                                                                  *)

\* The variables a listener start assigns.
ListenerStartTypes ==
  /\ phase \in [Client -> {"unused", "open", "closed"}]
  /\ conf \in [Client -> Conf \cup {None}]
  /\ connOf \in [Client -> Id \cup {None}]
  /\ current \in [Id -> [from : Client \cup {Sup}, state : State]]

\* What a successful or a failed listener start leaves well typed.
LEMMA StartTypes ==
  ASSUME TypeOK, NEW id \in Id,
         \/ StartFailed(id)
         \/ \E c \in Client : Started(c, id, desired[id])
  PROVE  ListenerStartTypes'
<1> USE DEF TypeOK, SupervisorTypes, ListenerTypes, ListenerStartTypes, Report, State
<1>1. CASE StartFailed(id)
  BY <1>1 DEF StartFailed
<1>2. ASSUME NEW c \in Client, Started(c, id, desired[id]) PROVE ListenerStartTypes'
  BY <1>2 DEF Started
<1> QED BY <1>1, <1>2

\* Every step keeps the type of every variable.
LEMMA TypeStep == TypeOK /\ StagedIsOpen /\ [Next]_vars => TypeOK'
<1> SUFFICES ASSUME TypeOK, StagedIsOpen, [Next]_vars PROVE TypeOK'
  OBVIOUS
<1> USE DEF TypeOK, stopVars, applyVars
<1>1. CASE ApplyBegin
  <2>1. \A s \in Sock : OwnerOf(s) \in Client \cup {None}
    BY DEF OwnerOf, SupervisorTypes
  <2>2. PICK saved \in Saved : ApplyOf(saved)
    BY <1>1 DEF ApplyBegin
  <2>3. \A id \in Id : saved[id] \in Setting \cup {Absent, NoCred}
    BY SupervisorAssumption DEF SupervisorAssumption
  <2>4. desired' \in [Id -> Conf \cup {None}]
    BY <2>2, <2>3 DEF ApplyOf, Setting, Conf, TaskTypes
  <2>5. SupervisorTypes'
    BY <1>1, <2>2, <2>4 DEF ApplyBegin, ApplyOf, SupervisorTypes, State
  <2>6. ListenerTypes'
    BY <1>1 DEF ApplyBegin, ListenerTypes
  <2>7. TaskTypes'
    BY <1>1, <2>1, <2>2 DEF ApplyBegin, ApplyOf, TaskTypes
  <2> QED BY <2>5, <2>6, <2>7
<1>2. CASE ApplyFinish
  <2>1. SupervisorTypes'
    BY <1>2 DEF ApplyFinish, Drainable, BeginDrain, SupervisorTypes, State
  <2>2. ListenerTypes'
    BY <1>2 DEF ApplyFinish, ListenerTypes
  <2>3. TaskTypes'
    BY <1>2 DEF ApplyFinish, Schedule, TaskTypes, SupervisorTypes
  <2> QED BY <2>1, <2>2, <2>3
<1>3. ASSUME NEW id \in Id, LoopDefer(id) PROVE TypeOK'
  BY <1>3 DEF LoopDefer, SupervisorTypes, ListenerTypes, TaskTypes
<1>4. ASSUME NEW id \in Id, LoopStart(id) PROVE TypeOK'
  <2>1. ListenerStartTypes'
    BY <1>4, StartTypes DEF LoopStart
  <2>2. SupervisorTypes'
    BY <1>4, <2>1 DEF LoopStart, SupervisorTypes, ListenerStartTypes
  <2>3. ListenerTypes'
    BY <1>4, <2>1 DEF LoopStart, ListenerTypes, ListenerStartTypes, SilenceDraining, DrainingOf,
                      SupervisorTypes
  <2>4. TaskTypes'
    BY <1>4 DEF LoopStart, TaskTypes, SupervisorTypes, Schedule
  <2> QED BY <2>2, <2>3, <2>4
<1>5. ASSUME NEW id \in Id, LoopUpdate(id) PROVE TypeOK'
  BY <1>5 DEF LoopUpdate, Update, SupervisorTypes, ListenerTypes, TaskTypes
<1>6. ASSUME NEW id \in Id, LoopStage(id) PROVE TypeOK'
  <2>1. ListenerStartTypes'
    BY <1>6, StartTypes DEF LoopStage
  <2>2. SupervisorTypes' /\ ListenerTypes'
    BY <1>6, <2>1 DEF LoopStage, SupervisorTypes, ListenerTypes, ListenerStartTypes
  <2>3. TaskTypes'
    BY <1>6 DEF LoopStage, TaskTypes
  <2> QED BY <2>2, <2>3
<1>7. ASSUME NEW id \in Id, LoopSwap(id) PROVE TypeOK'
  <2>1. clients[id] \in Client
    BY <1>7 DEF LoopSwap, StagedIsOpen, SupervisorTypes
  <2>3. SupervisorTypes' /\ ListenerTypes'
    BY <1>7, <2>1 DEF LoopSwap, SupervisorTypes, ListenerTypes, TaskTypes, BeginDrain
  <2>2. TaskTypes'
    BY <1>7 DEF LoopSwap, SupervisorTypes, TaskTypes
  <2> QED BY <2>2, <2>3
<1>8. ASSUME NEW r \in retry, Poll(r[1], r[2]) PROVE TypeOK'
  <2>1. r[1] \in Id
    BY DEF TaskTypes
  <2>2. CASE RetryExit(r[1], r[2])
    BY <2>2 DEF RetryExit, SupervisorTypes, ListenerTypes, TaskTypes
  <2>3. CASE RetryStart(r[1], r[2]) \/ RetryFail(r[1], r[2])
    <3>1. ListenerStartTypes'
      BY <2>1, <2>3, StartTypes DEF RetryStart, RetryFail
    <3>2. SupervisorTypes'
      BY <2>1, <2>3, <3>1 DEF RetryStart, RetryFail, SupervisorTypes, ListenerStartTypes
    <3>3. ListenerTypes'
      BY <2>3, <3>1 DEF RetryStart, RetryFail, ListenerTypes, ListenerStartTypes,
                        SilenceDraining, DrainingOf, SupervisorTypes
    <3>4. TaskTypes'
      BY <2>3 DEF RetryStart, RetryFail, TaskTypes
    <3> QED BY <3>2, <3>3, <3>4
  <2> QED BY <1>8, <2>2, <2>3 DEF Poll
<1>9. ASSUME NEW c \in Client, Listener(c) PROVE TypeOK'
  <2>1. SupervisorTypes'
    BY <1>9 DEF Listener, ListenerEmits, CallArrives, CallsEnd, DrainStop, DrainDone, Closed,
                Report, State, SupervisorTypes
  <2>2. ListenerTypes'
    BY <1>9 DEF Listener, ListenerEmits, CallArrives, CallsEnd, DrainStop, DrainDone, Closed,
                ListenerTypes
  <2>3. TaskTypes'
    BY <1>9 DEF Listener, ListenerEmits, CallArrives, CallsEnd, DrainStop, DrainDone, TaskTypes
  <2> QED BY <2>1, <2>2, <2>3
<1>10. CASE StopBegin \/ StopReturn
  <2>1. SupervisorTypes'
    BY <1>10 DEF StopBegin, StopReturn, SupervisorTypes
  <2>2. ListenerTypes'
    BY <1>10 DEF StopBegin, StopReturn, ListenerTypes
  <2>3. stopping' \subseteq Client
    BY <1>10 DEF StopBegin, StopReturn, SupervisorTypes, TaskTypes
  <2>4. TaskTypes'
    BY <1>10, <2>3 DEF StopBegin, StopReturn, TaskTypes
  <2> QED BY <2>1, <2>2, <2>4
<1>11. ASSUME NEW c \in Client, StopClient(c) PROVE TypeOK'
  <2>1. SupervisorTypes'
    BY <1>11 DEF StopClient, Closed, Report, State, SupervisorTypes
  <2>2. ListenerTypes' /\ TaskTypes'
    BY <1>11 DEF StopClient, Closed, ListenerTypes, TaskTypes
  <2> QED BY <2>1, <2>2
<1>12. CASE UNCHANGED vars
  BY <1>12 DEF vars, SupervisorTypes, ListenerTypes, TaskTypes
<1> QED
  BY <1>1, <1>2, <1>3, <1>4, <1>5, <1>6, <1>7, <1>8, <1>9, <1>10, <1>11, <1>12
  DEF Next, Loop

-----------------------------------------------------------------------------
(* The invariant, part by part.                                            *)

\* A freshly started listener was not known to anybody.
LEMMA FreshIsUnknown ==
  ASSUME IInv, NEW c \in Client, Fresh(c)
  PROVE  /\ c \notin draining \cup stopping
         /\ c # staged
         /\ \A id \in Id : clients[id] # c
BY SupervisorAssumption
   DEF SupervisorAssumption, IInv, Fresh, UsedAndOpen, StagedIsOpen, LiveIsOpen, TypeOK, TaskTypes

LEMMA LiveStep == IInv /\ [Next]_vars => LiveIsOpen'
<1> SUFFICES ASSUME IInv, [Next]_vars PROVE LiveIsOpen'
  OBVIOUS
<1> USE DEF IInv, TypeOK, LiveIsOpen, stopVars, applyVars
<1>1. CASE ApplyBegin \/ StopReturn \/ UNCHANGED vars
  BY <1>1 DEF ApplyBegin, StopReturn, vars
<1>2. CASE ApplyFinish
  BY <1>2 DEF ApplyFinish, BeginDrain, Drainable, SupervisorTypes
<1>3. ASSUME NEW id \in Id, LoopDefer(id) \/ LoopUpdate(id) PROVE LiveIsOpen'
  BY <1>3 DEF LoopDefer, LoopUpdate
<1>4. ASSUME NEW id \in Id, LoopStart(id) PROVE LiveIsOpen'
  BY <1>4, FreshIsUnknown DEF LoopStart, Started, StartFailed, SupervisorTypes, ListenerTypes
<1>5. ASSUME NEW id \in Id, LoopStage(id) PROVE LiveIsOpen'
  BY <1>5, FreshIsUnknown DEF LoopStage, Started, StartFailed, ListenerTypes, SupervisorTypes
<1>6. ASSUME NEW id \in Id, LoopSwap(id) PROVE LiveIsOpen'
  BY <1>6, SupervisorAssumption
  DEF SupervisorAssumption, LoopSwap, BeginDrain, StagedIsOpen, StopIsFinal, SupervisorTypes
<1>7. ASSUME NEW r \in retry, Poll(r[1], r[2]) PROVE LiveIsOpen'
  BY <1>7, FreshIsUnknown
  DEF Poll, RetryExit, RetryStart, RetryFail, Started, StartFailed, SupervisorTypes, ListenerTypes
<1>8. ASSUME NEW c \in Client, Listener(c) PROVE LiveIsOpen'
  <2>1. CASE ListenerEmits(c) \/ CallArrives(c) \/ CallsEnd(c) \/ DrainDone(c)
    BY <2>1 DEF ListenerEmits, CallArrives, CallsEnd, DrainDone
  <2>2. CASE DrainStop(c)
    BY <2>2 DEF DrainStop, Closed, ListenerTypes
  <2> QED BY <1>8, <2>1, <2>2 DEF Listener
<1>9. CASE StopBegin
  BY <1>9 DEF StopBegin
<1>10. ASSUME NEW c \in Client, StopClient(c) PROVE LiveIsOpen'
  BY <1>10 DEF StopClient, Closed, StopIsFinal
<1> QED
  BY <1>1, <1>2, <1>3, <1>4, <1>5, <1>6, <1>7, <1>8, <1>9, <1>10 DEF Next, Loop

\* What IInv says of a serving listener.
LEMMA LiveFacts ==
  ASSUME IInv, NEW id \in Id, clients[id] # None
  PROVE  /\ clients[id] \in Client
         /\ conf[clients[id]] \in Conf /\ conf[clients[id]].sock \in Sock
BY DEF IInv, TypeOK, SupervisorTypes, LiveIsOpen, UsedAndOpen, Conf

LEMMA StagedStep == IInv /\ [Next]_vars => StagedIsOpen'
<1> SUFFICES ASSUME IInv, [Next]_vars PROVE StagedIsOpen'
  OBVIOUS
<1> USE DEF IInv, TypeOK, StagedIsOpen, stopVars, applyVars
<1>1. CASE ApplyBegin
  BY <1>1
  DEF ApplyBegin
<1>2. CASE ApplyFinish
  BY <1>2
  DEF ApplyFinish
<1>3. ASSUME NEW id \in Id, LoopDefer(id) \/ LoopUpdate(id) PROVE StagedIsOpen'
  BY <1>3
  DEF LoopDefer, LoopUpdate, NextId
<1>4. ASSUME NEW id \in Id, LoopStart(id) PROVE StagedIsOpen'
  BY <1>4, FreshIsUnknown
  DEF LoopStart, Started, StartFailed, NextId, ListenerTypes
<1>5. ASSUME NEW id \in Id, LoopStage(id) PROVE StagedIsOpen'
  BY <1>5, FreshIsUnknown
  DEF LoopStage, Started, StartFailed, NextId, ListenerTypes, SupervisorTypes
<1>6. ASSUME NEW id \in Id, LoopSwap(id) PROVE StagedIsOpen'
  BY <1>6
  DEF LoopSwap
<1>7. ASSUME NEW r \in retry, Poll(r[1], r[2]) PROVE StagedIsOpen'
  BY <1>7 DEF Poll, RetryExit, RetryStart, RetryFail, RetryMayStart
<1>8. ASSUME NEW c \in Client, Listener(c) PROVE StagedIsOpen'
  BY <1>8
  DEF Listener, ListenerEmits, CallArrives, CallsEnd, DrainStop, DrainDone, Closed, ListenerTypes
<1>9. CASE StopBegin \/ StopReturn \/ UNCHANGED vars
  BY <1>9
  DEF StopBegin, StopReturn, vars, StopIsFinal
<1>10. ASSUME NEW c \in Client, StopClient(c) PROVE StagedIsOpen'
  BY <1>10
  DEF StopClient, Closed, StopIsFinal, ListenerTypes
<1> QED
  BY <1>1, <1>2, <1>3, <1>4, <1>5, <1>6, <1>7, <1>8, <1>9, <1>10 DEF Next, Loop

LEMMA OwnersStep == IInv /\ [Next]_vars => OwnersCoverLive'
<1> SUFFICES ASSUME IInv, [Next]_vars PROVE OwnersCoverLive'
  OBVIOUS
<1> USE DEF IInv, TypeOK, OwnersCoverLive, stopVars, applyVars
<1>1. CASE ApplyBegin
  <2>1. \A id \in Id : clients[id] # None => OwnerOf(conf[clients[id]].sock) # None
    BY DEF OwnerOf
  <2> QED BY <1>1, <2>1, LiveFacts DEF ApplyBegin
<1>2. CASE ApplyFinish
  BY <1>2
  DEF ApplyFinish
<1>3. ASSUME NEW id \in Id, LoopDefer(id) \/ LoopUpdate(id) PROVE OwnersCoverLive'
  <2>1. CASE LoopDefer(id)
    BY <2>1 DEF LoopDefer
  <2>2. CASE LoopUpdate(id)
    <3>1. \A c \in Client : conf[c] \in Conf => conf'[c].sock = conf[c].sock
      BY <2>2 DEF LoopUpdate, Update, RequiresRecreate, ListenerTypes
    <3> QED BY <2>2, <3>1, LiveFacts DEF LoopUpdate
  <2> QED BY <1>3, <2>1, <2>2
<1>4. ASSUME NEW id \in Id, LoopStart(id) PROVE OwnersCoverLive'
  <2>1. ASSUME NEW c \in Client, Started(c, id, desired[id]), clients' = [clients EXCEPT ![id] = c],
               owners' = [owners EXCEPT ![desired[id].sock] = c]
        PROVE OwnersCoverLive'
    <3>1. desired[id].sock \in Sock
      BY <1>4 DEF LoopStart, NextId, WorkIsWanted, SupervisorTypes, Conf
    <3>2. \A j \in Id : clients[j] # c
      BY <2>1, FreshIsUnknown DEF Started
    <3>3. c # None
      BY SupervisorAssumption DEF SupervisorAssumption
    <3>4. conf' = [conf EXCEPT ![c] = desired[id]]
      BY <2>1 DEF Started
    <3> QED BY <1>4, <2>1, <3>1, <3>2, <3>3, <3>4, LiveFacts
        DEF LoopStart, NextId, SupervisorTypes, ListenerTypes, TaskTypes
  <2>2. CASE StartFailed(id) /\ UNCHANGED <<clients, owners>>
    BY <1>4, <2>2 DEF LoopStart, NextId, StartFailed
  <2> QED BY <1>4, <2>1, <2>2 DEF LoopStart
<1>5. ASSUME NEW id \in Id, LoopStage(id) PROVE OwnersCoverLive'
  <2>1. \A j \in Id : clients[j] # None => conf'[clients[j]] = conf[clients[j]]
    BY <1>5, FreshIsUnknown, LiveFacts DEF LoopStage, Started, StartFailed, ListenerTypes
  <2> QED BY <1>5, <2>1 DEF LoopStage, NextId
<1>6. ASSUME NEW id \in Id, LoopSwap(id) PROVE OwnersCoverLive'
  <2>1. /\ id \in Id /\ clients[id] # None /\ clients[id] # staged /\ staged # None
        /\ phase[staged] = "open" /\ staged \in Client /\ conf[staged].sock \in Sock
    BY <1>6, SupervisorAssumption DEF SupervisorAssumption, LoopSwap, StagedIsOpen, UsedAndOpen, Conf
  <2>2. conf[clients[id]].sock # conf[staged].sock
    BY <2>1, LiveFacts DEF NoSharedSocket, LiveIsOpen
  <2>3. \A j \in Id \ {id} : clients[j] # None => conf[clients[j]].sock # conf[clients[id]].sock
    BY <2>1, LiveFacts DEF NoSharedSocket, LiveIsOpen
  <2> QED BY <1>6, <2>1, <2>2, <2>3, LiveFacts DEF LoopSwap, TaskTypes, SupervisorTypes
<1>7. ASSUME NEW r \in retry, Poll(r[1], r[2]) PROVE OwnersCoverLive'
  BY <1>7 DEF Poll, RetryExit, RetryStart, RetryFail, RetryMayStart
<1>8. ASSUME NEW c \in Client, Listener(c) PROVE OwnersCoverLive'
  BY <1>8
  DEF Listener, ListenerEmits, CallArrives, CallsEnd, DrainStop, DrainDone, Closed
<1>9. CASE StopBegin \/ StopReturn \/ UNCHANGED vars
  BY <1>9
  DEF StopBegin, StopReturn, vars, StopIsFinal
<1>10. ASSUME NEW c \in Client, StopClient(c) PROVE OwnersCoverLive'
  BY <1>10
  DEF StopClient, Closed, StopIsFinal
<1> QED
  BY <1>1, <1>2, <1>3, <1>4, <1>5, <1>6, <1>7, <1>8, <1>9, <1>10 DEF Next, Loop

LEMMA StopStep == IInv /\ [Next]_vars => StopIsFinal'
<1> SUFFICES ASSUME IInv, [Next]_vars PROVE StopIsFinal'
  OBVIOUS
<1> USE DEF IInv, TypeOK, StopIsFinal, stopVars, applyVars
<1>1. CASE ApplyBegin
  BY <1>1
  DEF ApplyBegin
<1>2. CASE ApplyFinish
  BY <1>2
  DEF ApplyFinish
<1>3. ASSUME NEW id \in Id, LoopDefer(id) \/ LoopUpdate(id) PROVE StopIsFinal'
  BY <1>3
  DEF LoopDefer, LoopUpdate, NextId
<1>4. ASSUME NEW id \in Id, LoopStart(id) PROVE StopIsFinal'
  BY <1>4
  DEF LoopStart, Started, StartFailed, NextId
<1>5. ASSUME NEW id \in Id, LoopStage(id) PROVE StopIsFinal'
  BY <1>5
  DEF LoopStage, Started, StartFailed, NextId
<1>6. ASSUME NEW id \in Id, LoopSwap(id) PROVE StopIsFinal'
  BY <1>6
  DEF LoopSwap
<1>7. ASSUME NEW r \in retry, Poll(r[1], r[2]) PROVE StopIsFinal'
  BY <1>7
  DEF Poll, RetryExit, RetryStart, RetryFail, Started, StartFailed, Superseded, RetryMayStart
<1>8. ASSUME NEW c \in Client, Listener(c) PROVE StopIsFinal'
  BY <1>8
  DEF Listener, ListenerEmits, CallArrives, CallsEnd, DrainStop, DrainDone, Closed
<1>9. CASE StopBegin \/ StopReturn \/ UNCHANGED vars
  BY <1>9
  DEF StopBegin, StopReturn, vars
<1>10. ASSUME NEW c \in Client, StopClient(c) PROVE StopIsFinal'
  BY <1>10
  DEF StopClient, Closed
<1> QED
  BY <1>1, <1>2, <1>3, <1>4, <1>5, <1>6, <1>7, <1>8, <1>9, <1>10 DEF Next, Loop

LEMMA UsedStep == IInv /\ [Next]_vars => UsedAndOpen'
<1> SUFFICES ASSUME IInv, [Next]_vars PROVE UsedAndOpen'
  OBVIOUS
<1> USE DEF IInv, TypeOK, UsedAndOpen, stopVars, applyVars
<1>1. CASE ApplyBegin
  BY <1>1
  DEF ApplyBegin
<1>2. CASE ApplyFinish
  BY <1>2
  DEF ApplyFinish, BeginDrain, Drainable, LiveIsOpen, SupervisorTypes
<1>3. ASSUME NEW id \in Id, LoopDefer(id) \/ LoopUpdate(id) PROVE UsedAndOpen'
  BY <1>3
  DEF LoopDefer, LoopUpdate, NextId, Update, ListenerTypes, SupervisorTypes, WorkIsWanted
<1>4. ASSUME NEW id \in Id, LoopStart(id) PROVE UsedAndOpen'
  <2>1. desired[id] \in Conf
    BY <1>4 DEF LoopStart, NextId, WorkIsWanted, SupervisorTypes
  <2>2. CASE StartFailed(id)
    BY <1>4, <2>2 DEF LoopStart, StartFailed
  <2>3. ASSUME NEW c \in Client, Started(c, id, desired[id]) PROVE UsedAndOpen'
    BY <1>4, <2>1, <2>3 DEF LoopStart, Started, Fresh, ListenerTypes
  <2> QED BY <1>4, <2>2, <2>3 DEF LoopStart
<1>5. ASSUME NEW id \in Id, LoopStage(id) PROVE UsedAndOpen'
  <2>1. desired[id] \in Conf
    BY <1>5 DEF LoopStage, NextId, WorkIsWanted, SupervisorTypes
  <2>2. CASE StartFailed(id)
    BY <1>5, <2>2 DEF LoopStage, StartFailed
  <2>3. ASSUME NEW c \in Client, Started(c, id, desired[id]) PROVE UsedAndOpen'
    BY <1>5, <2>1, <2>3 DEF LoopStage, Started, Fresh, ListenerTypes
  <2> QED BY <1>5, <2>2, <2>3 DEF LoopStage
<1>6. ASSUME NEW id \in Id, LoopSwap(id) PROVE UsedAndOpen'
  BY <1>6
  DEF LoopSwap, BeginDrain, StagedIsOpen, LiveIsOpen
<1>7. ASSUME NEW r \in retry, Poll(r[1], r[2]) PROVE UsedAndOpen'
  BY <1>7
  DEF Poll, RetryExit, RetryStart, RetryFail, Started, StartFailed, RetryMayStart, Superseded, Fresh, ListenerTypes, SupervisorTypes, TaskTypes
<1>8. ASSUME NEW c \in Client, Listener(c) PROVE UsedAndOpen'
  <2>1. CASE ListenerEmits(c) \/ CallArrives(c) \/ CallsEnd(c) \/ DrainDone(c)
    BY <2>1 DEF ListenerEmits, CallArrives, CallsEnd, DrainDone
  <2>2. CASE DrainStop(c)
    BY <2>2 DEF DrainStop, Closed, ListenerTypes
  <2> QED BY <1>8, <2>1, <2>2 DEF Listener
<1>9. CASE StopBegin \/ StopReturn \/ UNCHANGED vars
  BY <1>9
  DEF StopBegin, StopReturn, vars, LiveIsOpen
<1>10. ASSUME NEW c \in Client, StopClient(c) PROVE UsedAndOpen'
  BY <1>10
  DEF StopClient, Closed, ListenerTypes
<1> QED
  BY <1>1, <1>2, <1>3, <1>4, <1>5, <1>6, <1>7, <1>8, <1>9, <1>10 DEF Next, Loop

LEMMA WorkStep == IInv /\ [Next]_vars => WorkIsWanted'
<1> SUFFICES ASSUME IInv, [Next]_vars PROVE WorkIsWanted'
  OBVIOUS
<1> USE DEF IInv, TypeOK, WorkIsWanted, stopVars, applyVars
<1>1. CASE ApplyBegin
  <2>1. PICK saved \in Saved : ApplyOf(saved)
    BY <1>1 DEF ApplyBegin
  <2>2. \A id \in todo' : desired'[id] \in Conf
    BY <2>1, SupervisorAssumption
    DEF SupervisorAssumption, ApplyOf, Setting, Conf, TaskTypes
  <2> QED BY <1>1, <2>2, SupervisorAssumption DEF SupervisorAssumption, ApplyBegin
<1>2. CASE ApplyFinish
  BY <1>2
  DEF ApplyFinish
<1>3. ASSUME NEW id \in Id, LoopDefer(id) \/ LoopUpdate(id) PROVE WorkIsWanted'
  BY <1>3
  DEF LoopDefer, LoopUpdate, NextId
<1>4. ASSUME NEW id \in Id, LoopStart(id) PROVE WorkIsWanted'
  BY <1>4
  DEF LoopStart, Started, StartFailed
<1>5. ASSUME NEW id \in Id, LoopStage(id) PROVE WorkIsWanted'
  BY <1>5
  DEF LoopStage, Started, StartFailed
<1>6. ASSUME NEW id \in Id, LoopSwap(id) PROVE WorkIsWanted'
  BY <1>6
  DEF LoopSwap
<1>7. ASSUME NEW r \in retry, Poll(r[1], r[2]) PROVE WorkIsWanted'
  BY <1>7
  DEF Poll, RetryExit, RetryStart, RetryFail, Started, StartFailed
<1>8. ASSUME NEW c \in Client, Listener(c) PROVE WorkIsWanted'
  BY <1>8
  DEF Listener, ListenerEmits, CallArrives, CallsEnd, DrainStop, DrainDone, Closed
<1>9. CASE StopBegin \/ StopReturn \/ UNCHANGED vars
  BY <1>9
  DEF StopBegin, StopReturn, vars
<1>10. ASSUME NEW c \in Client, StopClient(c) PROVE WorkIsWanted'
  BY <1>10
  DEF StopClient, Closed
<1> QED
  BY <1>1, <1>2, <1>3, <1>4, <1>5, <1>6, <1>7, <1>8, <1>9, <1>10 DEF Next, Loop

LEMMA WantedInApplyStep == IInv /\ [Next]_vars => WantedInApply'
<1> SUFFICES ASSUME IInv, [Next]_vars PROVE WantedInApply'
  OBVIOUS
<1> USE DEF IInv, TypeOK, WantedInApply, stopVars, applyVars
<1>1. CASE ApplyBegin
  BY <1>1
  DEF ApplyBegin, ApplyOf
<1>2. CASE ApplyFinish
  BY <1>2
  DEF ApplyFinish
<1>3. ASSUME NEW id \in Id, LoopDefer(id) \/ LoopUpdate(id) PROVE WantedInApply'
  BY <1>3
  DEF LoopDefer, LoopUpdate
<1>4. ASSUME NEW id \in Id, LoopStart(id) PROVE WantedInApply'
  <2>1. CASE Schedule({id})
    BY <1>4, <2>1 DEF LoopStart, Schedule, SupervisorTypes
  <2>2. ASSUME NEW c \in Client, clients' = [clients EXCEPT ![id] = c], UNCHANGED retry
        PROVE WantedInApply'
    BY <1>4, <2>2, SupervisorAssumption DEF SupervisorAssumption, LoopStart, NextId, SupervisorTypes
  <2> QED BY <1>4, <2>1, <2>2 DEF LoopStart
<1>5. ASSUME NEW id \in Id, LoopStage(id) PROVE WantedInApply'
  BY <1>5 DEF LoopStage, NextId
<1>6. ASSUME NEW id \in Id, LoopSwap(id) PROVE WantedInApply'
  BY <1>6, SupervisorAssumption DEF SupervisorAssumption, LoopSwap, StagedIsOpen, SupervisorTypes
<1>7. ASSUME NEW r \in retry, Poll(r[1], r[2]) PROVE WantedInApply'
  BY <1>7 DEF Poll, RetryExit, RetryStart, RetryFail, RetryMayStart
<1>8. ASSUME NEW c \in Client, Listener(c) PROVE WantedInApply'
  BY <1>8
  DEF Listener, ListenerEmits, CallArrives, CallsEnd, DrainStop, DrainDone, Closed
<1>9. CASE StopBegin \/ StopReturn \/ UNCHANGED vars
  BY <1>9
  DEF StopBegin, StopReturn, vars, StopIsFinal
<1>10. ASSUME NEW c \in Client, StopClient(c) PROVE WantedInApply'
  BY <1>10
  DEF StopClient, Closed
<1> QED
  BY <1>1, <1>2, <1>3, <1>4, <1>5, <1>6, <1>7, <1>8, <1>9, <1>10 DEF Next, Loop

LEMMA WantedStep == IInv /\ [Next]_vars => WantedIsServedOrRetried'
<1> SUFFICES ASSUME IInv, [Next]_vars PROVE WantedIsServedOrRetried'
  OBVIOUS
<1> USE DEF IInv, TypeOK, WantedIsServedOrRetried, stopVars, applyVars
<1>1. CASE ApplyBegin
  BY <1>1
  DEF ApplyBegin
<1>2. CASE ApplyFinish
  BY <1>2
  DEF ApplyFinish, Drainable, WorkIsWanted, Schedule, WantedInApply, SupervisorTypes
<1>3. ASSUME NEW id \in Id, LoopDefer(id) \/ LoopUpdate(id) PROVE WantedIsServedOrRetried'
  BY <1>3
  DEF LoopDefer, LoopUpdate, NextId
<1>4. ASSUME NEW id \in Id, LoopStart(id) PROVE WantedIsServedOrRetried'
  BY <1>4
  DEF LoopStart, Started, StartFailed, NextId
<1>5. ASSUME NEW id \in Id, LoopStage(id) PROVE WantedIsServedOrRetried'
  BY <1>5
  DEF LoopStage, Started, StartFailed, NextId
<1>6. ASSUME NEW id \in Id, LoopSwap(id) PROVE WantedIsServedOrRetried'
  BY <1>6
  DEF LoopSwap
<1>7. ASSUME NEW r \in retry, Poll(r[1], r[2]) PROVE WantedIsServedOrRetried'
  <2>1. r[1] \in Id
    BY DEF TaskTypes
  <2>2. CASE RetryExit(r[1], r[2])
    BY <2>1, <2>2 DEF RetryExit, Superseded, TaskTypes
  <2>3. CASE RetryStart(r[1], r[2])
    BY <2>1, <2>3, SupervisorAssumption DEF SupervisorAssumption, RetryStart, SupervisorTypes
  <2>4. CASE RetryFail(r[1], r[2])
    BY <2>4 DEF RetryFail
  <2> QED BY <1>7, <2>2, <2>3, <2>4 DEF Poll
<1>8. ASSUME NEW c \in Client, Listener(c) PROVE WantedIsServedOrRetried'
  BY <1>8
  DEF Listener, ListenerEmits, CallArrives, CallsEnd, DrainStop, DrainDone, Closed
<1>9. CASE StopBegin \/ StopReturn \/ UNCHANGED vars
  BY <1>9
  DEF StopBegin, StopReturn, vars
<1>10. ASSUME NEW c \in Client, StopClient(c) PROVE WantedIsServedOrRetried'
  BY <1>10
  DEF StopClient, Closed
<1> QED
  BY <1>1, <1>2, <1>3, <1>4, <1>5, <1>6, <1>7, <1>8, <1>9, <1>10 DEF Next, Loop

\* A socket that the owner snapshot and the drain set leave free is free.
LEMMA SnapshotIsEnough ==
  ASSUME IInv, mu = "loop", NEW s \in Sock, ~Taken(s)
  PROVE  \A c \in Client : phase[c] = "open" => conf[c].sock # s
<1> SUFFICES ASSUME NEW c \in Client, phase[c] = "open", conf[c].sock = s PROVE FALSE
  OBVIOUS
<1>1. stopping = {} /\ staged = None /\ c \notin draining
  BY DEF IInv, StopIsFinal, StagedIsOpen, Taken, DrainingOwns
<1>2. c # None
  BY SupervisorAssumption DEF SupervisorAssumption
<1>3. connOf[c] \in Id /\ clients[connOf[c]] = c
  BY <1>1, <1>2 DEF IInv, NoOrphanListener, UsedAndOpen
<1> QED BY <1>2, <1>3 DEF IInv, OwnersCoverLive, Taken

\* A socket the retry goroutine finds not busy is free.
LEMMA BusyTestIsEnough ==
  ASSUME IInv, mu = "free", ~stopped, NEW s \in Sock, ~SocketBusy(s)
  PROVE  \A c \in Client : phase[c] = "open" => conf[c].sock # s
<1> SUFFICES ASSUME NEW c \in Client, phase[c] = "open", conf[c].sock = s PROVE FALSE
  OBVIOUS
<1>1. stopping = {} /\ staged = None /\ c \notin draining
  BY DEF IInv, StopIsFinal, StagedIsOpen, SocketBusy, DrainingOwns
<1>2. c # None
  BY SupervisorAssumption DEF SupervisorAssumption
<1>3. connOf[c] \in Id /\ clients[connOf[c]] = c
  BY <1>1, <1>2 DEF IInv, NoOrphanListener, UsedAndOpen
<1> QED BY <1>2, <1>3 DEF SocketBusy

\* A start on a free socket keeps sockets unshared.
LEMMA StartOnFreeSocket ==
  ASSUME IInv, NEW c \in Client, NEW id \in Id, desired[id] # None,
         Started(c, id, desired[id]),
         \A d \in Client : phase[d] = "open" => conf[d].sock # desired[id].sock
  PROVE  NoSharedSocket'
<1>1. /\ phase' = [phase EXCEPT ![c] = "open"]
      /\ conf' = [conf EXCEPT ![c] = desired[id]]
  BY DEF Started
<1> QED BY <1>1 DEF IInv, TypeOK, ListenerTypes, NoSharedSocket

LEMMA NoSharedStep == IInv /\ [Next]_vars => NoSharedSocket'
<1> SUFFICES ASSUME IInv, [Next]_vars PROVE NoSharedSocket'
  OBVIOUS
<1> USE DEF stopVars, applyVars
<1>1. CASE ApplyBegin \/ ApplyFinish \/ StopBegin \/ StopReturn \/ UNCHANGED vars
  BY <1>1 DEF IInv, NoSharedSocket, ApplyBegin, ApplyFinish, StopBegin, StopReturn, vars
<1>2. ASSUME NEW id \in Id, LoopDefer(id) \/ LoopSwap(id) PROVE NoSharedSocket'
  BY <1>2 DEF IInv, NoSharedSocket, LoopDefer, LoopSwap
<1>3. ASSUME NEW id \in Id, LoopUpdate(id) PROVE NoSharedSocket'
  <2>1. phase' = phase /\ \A c \in Client : conf'[c].sock = conf[c].sock
    BY <1>3 DEF IInv, TypeOK, ListenerTypes, LoopUpdate, Update, RequiresRecreate
  <2> QED BY <2>1 DEF IInv, NoSharedSocket
<1>4. ASSUME NEW id \in Id, LoopStart(id) PROVE NoSharedSocket'
  <2>1. mu = "loop" /\ desired[id] # None /\ desired[id].sock \in Sock /\ ~Taken(desired[id].sock)
    BY <1>4 DEF LoopStart, NextId, IInv, WorkIsWanted, TypeOK, SupervisorTypes, Conf
  <2>2. CASE StartFailed(id)
    BY <2>2 DEF StartFailed, IInv, NoSharedSocket
  <2> QED BY <1>4, <2>1, <2>2, SnapshotIsEnough, StartOnFreeSocket DEF LoopStart
<1>5. ASSUME NEW id \in Id, LoopStage(id) PROVE NoSharedSocket'
  <2>1. mu = "loop" /\ desired[id] # None /\ desired[id].sock \in Sock /\ ~Taken(desired[id].sock)
    BY <1>5 DEF LoopStage, NextId, IInv, WorkIsWanted, TypeOK, SupervisorTypes, Conf
  <2>2. CASE StartFailed(id)
    BY <2>2 DEF StartFailed, IInv, NoSharedSocket
  <2> QED BY <1>5, <2>1, <2>2, SnapshotIsEnough, StartOnFreeSocket DEF LoopStage
<1>6. ASSUME NEW r \in retry, Poll(r[1], r[2]) PROVE NoSharedSocket'
  <2>1. r[1] \in Id
    BY DEF IInv, TypeOK, TaskTypes
  <2>2. CASE RetryExit(r[1], r[2]) \/ RetryFail(r[1], r[2])
    BY <2>2 DEF RetryExit, RetryFail, StartFailed, IInv, NoSharedSocket
  <2>3. CASE RetryStart(r[1], r[2])
    <3>1. /\ mu = "free" /\ ~stopped /\ desired[r[1]] # None
          /\ desired[r[1]].sock \in Sock /\ ~SocketBusy(desired[r[1]].sock)
      BY <2>1, <2>3 DEF RetryStart, RetryMayStart, Superseded, IInv, TypeOK, SupervisorTypes, Conf
    <3> QED BY <2>1, <2>3, <3>1, BusyTestIsEnough, StartOnFreeSocket DEF RetryStart
  <2> QED BY <1>6, <2>2, <2>3 DEF Poll
<1>7. ASSUME NEW c \in Client, Listener(c) \/ StopClient(c) PROVE NoSharedSocket'
  <2>1. /\ conf' = conf
        /\ \A d \in Client : phase'[d] = "open" => phase[d] = "open"
    BY <1>7 DEF IInv, TypeOK, ListenerTypes, Listener, ListenerEmits, CallArrives, CallsEnd,
                DrainStop, DrainDone, StopClient, Closed
  <2> QED BY <2>1 DEF IInv, NoSharedSocket
<1> QED
  BY <1>1, <1>2, <1>3, <1>4, <1>5, <1>6, <1>7 DEF Next, Loop

LEMMA NoOrphanStep == IInv /\ [Next]_vars => NoOrphanListener'
<1> SUFFICES ASSUME IInv, [Next]_vars, NEW c \in Client, phase'[c] = "open"
             PROVE  \/ c \in draining' \cup stopping'
                    \/ c = staged'
                    \/ clients'[connOf'[c]] = c
  BY DEF NoOrphanListener
<1> DEFINE Known == \/ c \in draining \cup stopping
                    \/ c = staged
                    \/ clients[connOf[c]] = c
           Known2 == \/ c \in draining' \cup stopping'
                     \/ c = staged'
                     \/ clients'[connOf'[c]] = c
<1> USE DEF stopVars, applyVars
<1>1. phase[c] = "open" => Known /\ connOf[c] \in Id
  BY DEF IInv, NoOrphanListener, UsedAndOpen
<1>2. CASE ApplyBegin \/ StopReturn \/ UNCHANGED vars
  BY <1>1, <1>2 DEF ApplyBegin, StopReturn, vars
<1>3. CASE ApplyFinish
  BY <1>1, <1>3 DEF ApplyFinish, BeginDrain, Drainable
<1>4. ASSUME NEW id \in Id, LoopDefer(id) \/ LoopUpdate(id) PROVE Known2
  BY <1>1, <1>4 DEF LoopDefer, LoopUpdate
<1>5. ASSUME NEW id \in Id, LoopStart(id) PROVE Known2
  <2>1. CASE StartFailed(id) /\ UNCHANGED clients
    BY <1>1, <1>5, <2>1 DEF StartFailed, LoopStart
  <2>2. ASSUME NEW d \in Client, Started(d, id, desired[id]), clients' = [clients EXCEPT ![id] = d]
        PROVE  Known2
    <3>1. clients[id] = None /\ c # None
      BY <1>5, SupervisorAssumption DEF SupervisorAssumption, LoopStart
    <3> QED BY <1>1, <1>5, <2>2, <3>1
            DEF LoopStart, Started, IInv, TypeOK, SupervisorTypes, ListenerTypes
  <2> QED BY <1>5, <2>1, <2>2 DEF LoopStart
<1>6. ASSUME NEW id \in Id, LoopStage(id) PROVE Known2
  <2>1. staged = None /\ c # None
    BY <1>6, SupervisorAssumption DEF SupervisorAssumption, LoopStage, NextId, IInv, StagedIsOpen
  <2> QED BY <1>1, <1>6, <2>1
          DEF LoopStage, Started, StartFailed, IInv, TypeOK, ListenerTypes
<1>7. ASSUME NEW id \in Id, LoopSwap(id) PROVE Known2
  BY <1>1, <1>7 DEF LoopSwap, BeginDrain, IInv, TypeOK, SupervisorTypes
<1>8. ASSUME NEW r \in retry, Poll(r[1], r[2]) PROVE Known2
  <2>1. CASE RetryExit(r[1], r[2]) \/ RetryFail(r[1], r[2])
    BY <1>1, <2>1 DEF RetryExit, RetryFail, StartFailed
  <2>2. ASSUME NEW d \in Client, Started(d, r[1], desired[r[1]]), RetryStart(r[1], r[2]),
               clients' = [clients EXCEPT ![r[1]] = d]
        PROVE  Known2
    <3>1. r[1] \in Id /\ clients[r[1]] = None /\ c # None
      BY <2>2, SupervisorAssumption
      DEF SupervisorAssumption, RetryStart, RetryMayStart, Superseded, IInv, TypeOK, TaskTypes
    <3> QED BY <1>1, <2>2, <3>1
            DEF RetryStart, Started, IInv, TypeOK, SupervisorTypes, ListenerTypes
  <2> QED BY <1>8, <2>1, <2>2 DEF Poll, RetryStart
<1>9. ASSUME NEW d \in Client, Listener(d) PROVE Known2
  <2>1. CASE ListenerEmits(d) \/ CallArrives(d) \/ CallsEnd(d)
    BY <1>1, <2>1 DEF ListenerEmits, CallArrives, CallsEnd
  <2>2. CASE DrainStop(d)
    BY <1>1, <2>2 DEF DrainStop, Closed, IInv, TypeOK, ListenerTypes
  <2>3. CASE DrainDone(d)
    BY <1>1, <2>3 DEF DrainDone
  <2> QED BY <1>9, <2>1, <2>2, <2>3 DEF Listener
<1>10. CASE StopBegin
  BY <1>1, <1>10 DEF StopBegin, IInv, StopIsFinal
<1>11. ASSUME NEW d \in Client, StopClient(d) PROVE Known2
  BY <1>1, <1>11 DEF StopClient, Closed, IInv, TypeOK, ListenerTypes
<1> QED
  BY <1>2, <1>3, <1>4, <1>5, <1>6, <1>7, <1>8, <1>9, <1>10, <1>11 DEF Next, Loop

-----------------------------------------------------------------------------
(* The theorems.                                                           *)

LEMMA InitInvariant == Init => IInv
<1> SUFFICES ASSUME Init PROVE IInv
  OBVIOUS
<1>1. TypeOK
  BY SupervisorAssumption
  DEF SupervisorAssumption, Init, TypeOK, SupervisorTypes, ListenerTypes, TaskTypes, State
<1>2. NoSharedSocket /\ NoOrphanListener /\ WantedIsServedOrRetried /\ LiveIsOpen
  BY DEF Init, NoSharedSocket, NoOrphanListener, WantedIsServedOrRetried, LiveIsOpen
<1>3. /\ StagedIsOpen /\ OwnersCoverLive /\ StopIsFinal
      /\ UsedAndOpen /\ WorkIsWanted /\ WantedInApply
  BY DEF Init, StagedIsOpen, OwnersCoverLive, StopIsFinal, UsedAndOpen, WorkIsWanted, WantedInApply
<1> QED BY <1>1, <1>2, <1>3 DEF IInv

LEMMA Invariance == Spec => []IInv
<1>1. IInv /\ [Next]_vars => IInv'
  <2> SUFFICES ASSUME IInv, [Next]_vars PROVE IInv'
    OBVIOUS
  <2>1. TypeOK'
    BY TypeStep DEF IInv
  <2> QED
    BY <2>1, NoSharedStep, NoOrphanStep, WantedStep, LiveStep, StagedStep, OwnersStep, StopStep,
       UsedStep, WorkStep, WantedInApplyStep
    DEF IInv
<1> QED BY InitInvariant, <1>1, PTL DEF Spec

\* Every variable keeps its type for any number of connections and reloads.
THEOREM TypeCorrect == Spec => []TypeOK
<1>1. IInv => TypeOK
  BY DEF IInv
<1> QED BY <1>1, Invariance, PTL

\* No two listeners of the supervisor ever hold the same socket, whatever the
\* reloads, failed starts, retries, drains and the stop (supervisor.go:69-174,
\* 317-386).
THEOREM SocketsUnshared == Spec => []NoSharedSocket
<1>1. IInv => NoSharedSocket
  BY DEF IInv
<1> QED BY <1>1, Invariance, PTL

\* No listener that holds a socket is forgotten by the supervisor.
THEOREM ListenersAccountedFor == Spec => []NoOrphanListener
<1>1. IInv => NoOrphanListener
  BY DEF IInv
<1> QED BY <1>1, Invariance, PTL

\* A wanted connection without a listener has a live retry goroutine.
THEOREM WantedNeverForgotten == Spec => []WantedIsServedOrRetried
<1>1. IInv => WantedIsServedOrRetried
  BY DEF IInv
<1> QED BY <1>1, Invariance, PTL
-----------------------------------------------------------------------------
(* What a reload does to a listener.                                       *)

\* The bookkeeping of the loop.
LoopShape ==
  /\ mu = "free" => todo = {} /\ deferred = {}
  /\ todo \cap deferred = {}
  /\ mu = "swap" => /\ connOf[staged] \in todo
                    /\ conf[staged] = desired[connOf[staged]]

\* A listener is deferred only when it has to be recreated.
DeferredDiffer ==
  \A id \in deferred : clients[id] # None =>
    BindSettingsDiffer(conf[clients[id]], desired[id])

\* ServesNewest, for the connections the loop has already handled.
HandledServesNewest ==
  \A id \in Id \ todo :
    clients[id] # None /\ desired[id] # None
      /\ ~BindSettingsDiffer(conf[clients[id]], desired[id])
      => conf[clients[id]] = desired[id]

ReloadInv == LoopShape /\ DeferredDiffer /\ HandledServesNewest

\* A step that leaves the reload's bookkeeping and the configurations of the
\* serving listeners alone.
LEMMA QuietStep ==
  ASSUME ReloadInv, TypeOK,
         UNCHANGED <<todo, deferred, desired>>,
         mu' = mu, mu # "swap",
         \A id \in Id : clients'[id] # None =>
           clients'[id] = clients[id] /\ conf'[clients[id]] = conf[clients[id]]
  PROVE  ReloadInv'
<1>1. LoopShape'
  BY DEF ReloadInv, LoopShape
<1>2. DeferredDiffer'
  BY DEF ReloadInv, DeferredDiffer, BindSettingsDiffer, TypeOK, TaskTypes
<1>3. HandledServesNewest'
  BY DEF ReloadInv, HandledServesNewest, BindSettingsDiffer
<1> QED BY <1>1, <1>2, <1>3 DEF ReloadInv

\* A listener start does not touch the serving listeners' configurations.
LEMMA StartKeepsLive ==
  ASSUME IInv, NEW id \in Id, NEW c \in Client, Started(c, id, desired[id])
  PROVE  /\ \A j \in Id : clients[j] # None => conf'[clients[j]] = conf[clients[j]]
         /\ conf'[c] = desired[id] /\ connOf'[c] = id /\ c # None
<1>1. c # None
  BY SupervisorAssumption DEF SupervisorAssumption
<1>2. conf' = [conf EXCEPT ![c] = desired[id]] /\ connOf' = [connOf EXCEPT ![c] = id]
  BY DEF Started
<1>3. \A j \in Id : clients[j] # c
  BY FreshIsUnknown DEF Started
<1> QED BY <1>1, <1>2, <1>3, LiveFacts DEF IInv, TypeOK, ListenerTypes

LEMMA ReloadStep == IInv /\ ReloadInv /\ [Next]_vars => ReloadInv'
<1> SUFFICES ASSUME IInv, ReloadInv, [Next]_vars PROVE ReloadInv'
  OBVIOUS
<1> USE DEF stopVars, applyVars
<1>0. TypeOK
  BY DEF IInv
<1>1. CASE ApplyBegin
  <2>1. PICK saved \in Saved : ApplyOf(saved)
    BY <1>1 DEF ApplyBegin
  <2>2. LoopShape' /\ DeferredDiffer'
    BY <1>1 DEF ApplyBegin, LoopShape, DeferredDiffer
  <2>3. \A id \in Id \ todo' : desired'[id] = None
    BY <2>1 DEF ApplyOf
  <2> QED BY <2>2, <2>3 DEF ReloadInv, HandledServesNewest
<1>2. CASE ApplyFinish
  <2>1. LoopShape' /\ DeferredDiffer'
    BY <1>2 DEF ApplyFinish, LoopShape, DeferredDiffer
  <2>2. HandledServesNewest'
    BY <1>2 DEF ApplyFinish, ReloadInv, HandledServesNewest, BindSettingsDiffer
  <2> QED BY <2>1, <2>2 DEF ReloadInv
<1>3. ASSUME NEW id \in Id, LoopDefer(id) PROVE ReloadInv'
  <2>1. clients[id] # None => BindSettingsDiffer(conf[clients[id]], desired[id])
    BY <1>3 DEF LoopDefer, RequiresRecreate, BindSettingsDiffer
  <2>2. LoopShape'
    BY <1>3 DEF LoopDefer, NextId, ReloadInv, LoopShape
  <2>3. DeferredDiffer'
    BY <1>3, <2>1 DEF LoopDefer, ReloadInv, DeferredDiffer, BindSettingsDiffer
  <2>4. HandledServesNewest'
    BY <1>3, <2>1 DEF LoopDefer, ReloadInv, HandledServesNewest, BindSettingsDiffer
  <2> QED BY <2>2, <2>3, <2>4 DEF ReloadInv
<1>4. ASSUME NEW id \in Id, LoopStart(id) PROVE ReloadInv'
  <2>1. id \in todo /\ mu = "loop" /\ mu' = mu /\ todo' = todo \ {id} /\ clients[id] = None
        /\ UNCHANGED <<deferred, desired>>
    BY <1>4 DEF LoopStart, NextId
  <2>2. LoopShape'
    BY <2>1 DEF ReloadInv, LoopShape
  <2>3. CASE StartFailed(id) /\ UNCHANGED clients
    <3>1. DeferredDiffer' /\ HandledServesNewest'
      BY <2>1, <2>3
      DEF StartFailed, ReloadInv, DeferredDiffer, HandledServesNewest, BindSettingsDiffer
    <3> QED BY <2>2, <3>1 DEF ReloadInv
  <2>4. ASSUME NEW c \in Client, Started(c, id, desired[id]), clients' = [clients EXCEPT ![id] = c]
        PROVE  ReloadInv'
    <3>1. /\ \A j \in Id : clients[j] # None => conf'[clients[j]] = conf[clients[j]]
          /\ conf'[c] = desired[id] /\ clients'[id] = c
          /\ \A j \in Id \ {id} : clients'[j] = clients[j]
      BY <1>0, <2>4, StartKeepsLive DEF TypeOK, SupervisorTypes
    <3>2. id \notin deferred /\ deferred \subseteq Id
      BY <1>0, <2>1 DEF ReloadInv, LoopShape, TypeOK, TaskTypes
    <3>3. DeferredDiffer'
      BY <2>1, <3>1, <3>2 DEF ReloadInv, DeferredDiffer, BindSettingsDiffer
    <3>4. HandledServesNewest'
      BY <2>1, <3>1 DEF ReloadInv, HandledServesNewest, BindSettingsDiffer
    <3> QED BY <2>2, <3>3, <3>4 DEF ReloadInv
  <2> QED BY <1>4, <2>3, <2>4 DEF LoopStart
<1>5. ASSUME NEW id \in Id, LoopUpdate(id) PROVE ReloadInv'
  <2>1. /\ id \in todo /\ mu = "loop" /\ mu' = mu /\ todo' = todo \ {id} /\ clients[id] # None
        /\ UNCHANGED <<deferred, desired, clients>>
        /\ conf' = [conf EXCEPT ![clients[id]] = desired[id]]
    BY <1>5 DEF LoopUpdate, NextId, Update
  <2>2. \A j \in Id \ {id} : clients[j] # None => conf'[clients[j]] = conf[clients[j]]
    BY <1>0, <2>1, LiveFacts DEF IInv, LiveIsOpen, TypeOK, ListenerTypes
  <2>3. conf'[clients[id]] = desired[id]
    BY <1>0, <2>1, LiveFacts DEF TypeOK, ListenerTypes
  <2>4. id \notin deferred /\ deferred \subseteq Id
    BY <1>0, <2>1 DEF ReloadInv, LoopShape, TypeOK, TaskTypes
  <2>5. LoopShape'
    BY <2>1 DEF ReloadInv, LoopShape
  <2>6. DeferredDiffer'
    BY <2>1, <2>2, <2>4 DEF ReloadInv, DeferredDiffer, BindSettingsDiffer
  <2>7. HandledServesNewest'
    BY <2>1, <2>2, <2>3 DEF ReloadInv, HandledServesNewest
  <2> QED BY <2>5, <2>6, <2>7 DEF ReloadInv
<1>6. ASSUME NEW id \in Id, LoopStage(id) PROVE ReloadInv'
  <2>1. /\ id \in todo /\ mu = "loop" /\ UNCHANGED <<deferred, desired, clients>>
        /\ BindSettingsDiffer(conf[clients[id]], desired[id])
    BY <1>6 DEF LoopStage, NextId, BindSettingsDiffer
  <2>2. CASE StartFailed(id) /\ todo' = todo \ {id} /\ UNCHANGED mu
    <3>1. LoopShape' /\ DeferredDiffer'
      BY <2>1, <2>2 DEF StartFailed, ReloadInv, LoopShape, DeferredDiffer, BindSettingsDiffer
    <3>2. HandledServesNewest'
      BY <2>1, <2>2 DEF StartFailed, ReloadInv, HandledServesNewest, BindSettingsDiffer
    <3> QED BY <3>1, <3>2 DEF ReloadInv
  <2>3. ASSUME NEW c \in Client, Started(c, id, desired[id]), staged' = c,
               mu' = "swap", UNCHANGED todo
        PROVE  ReloadInv'
    <3>1. /\ \A j \in Id : clients[j] # None => conf'[clients[j]] = conf[clients[j]]
          /\ conf'[c] = desired[id] /\ connOf'[c] = id
      BY <2>3, StartKeepsLive
    <3>2. LoopShape'
      BY <2>1, <2>3, <3>1 DEF ReloadInv, LoopShape
    <3>3. DeferredDiffer' /\ HandledServesNewest'
      BY <1>0, <2>1, <2>3, <3>1
      DEF ReloadInv, DeferredDiffer, HandledServesNewest, BindSettingsDiffer, TypeOK, TaskTypes
    <3> QED BY <3>2, <3>3 DEF ReloadInv
  <2> QED BY <1>6, <2>2, <2>3 DEF LoopStage
<1>7. ASSUME NEW id \in Id, LoopSwap(id) PROVE ReloadInv'
  <2>1. /\ id \in todo /\ mu = "swap" /\ mu' = "loop" /\ todo' = todo \ {id}
        /\ UNCHANGED <<deferred, desired, conf>>
        /\ clients' = [clients EXCEPT ![id] = staged]
        /\ conf[staged] = desired[id]
    BY <1>7 DEF LoopSwap, ReloadInv, LoopShape
  <2>2. id \notin deferred /\ deferred \subseteq Id
    BY <1>0, <2>1 DEF ReloadInv, LoopShape, TypeOK, TaskTypes
  <2>3. LoopShape' /\ DeferredDiffer'
    BY <1>0, <2>1, <2>2
    DEF ReloadInv, LoopShape, DeferredDiffer, BindSettingsDiffer, TypeOK, SupervisorTypes
  <2>4. HandledServesNewest'
    BY <1>0, <2>1 DEF ReloadInv, HandledServesNewest, BindSettingsDiffer, TypeOK, SupervisorTypes
  <2> QED BY <2>3, <2>4 DEF ReloadInv
<1>8. ASSUME NEW r \in retry, Poll(r[1], r[2]) PROVE ReloadInv'
  <2>1. r[1] \in Id
    BY <1>0 DEF TypeOK, TaskTypes
  <2>2. CASE RetryExit(r[1], r[2]) \/ RetryFail(r[1], r[2])
    BY <1>0, <2>2, QuietStep DEF RetryExit, RetryFail, RetryMayStart, StartFailed
  <2>3. ASSUME NEW c \in Client, RetryStart(r[1], r[2]), Started(c, r[1], desired[r[1]]),
               clients' = [clients EXCEPT ![r[1]] = c]
        PROVE  ReloadInv'
    <3>1. /\ \A j \in Id : clients[j] # None => conf'[clients[j]] = conf[clients[j]]
          /\ conf'[c] = desired[r[1]] /\ clients'[r[1]] = c
          /\ \A j \in Id \ {r[1]} : clients'[j] = clients[j]
      BY <1>0, <2>1, <2>3, StartKeepsLive DEF TypeOK, SupervisorTypes
    <3>2. mu = "free" /\ UNCHANGED <<mu, todo, deferred, desired>>
      BY <2>3 DEF RetryStart, RetryMayStart
    <3>3. LoopShape' /\ DeferredDiffer'
      BY <3>2 DEF ReloadInv, LoopShape, DeferredDiffer
    <3>4. HandledServesNewest'
      BY <3>1, <3>2 DEF ReloadInv, HandledServesNewest, BindSettingsDiffer
    <3> QED BY <3>3, <3>4 DEF ReloadInv
  <2> QED BY <1>8, <2>2, <2>3 DEF Poll, RetryStart
<1>9. CASE \/ \E c \in Client : Listener(c) \/ StopClient(c)
           \/ StopBegin \/ StopReturn \/ UNCHANGED vars
  <2>1. /\ UNCHANGED <<todo, deferred, desired, mu, conf, staged>>
        /\ \A id \in Id : clients'[id] # None => clients'[id] = clients[id]
    BY <1>9 DEF Listener, ListenerEmits, CallArrives, CallsEnd, DrainStop, DrainDone,
                StopBegin, StopReturn, StopClient, vars
  <2>2. UNCHANGED connOf
    BY <1>9 DEF Listener, ListenerEmits, CallArrives, CallsEnd, DrainStop, DrainDone,
                StopBegin, StopReturn, StopClient, vars
  <2>3. LoopShape' /\ DeferredDiffer'
    BY <1>0, <2>1, <2>2
    DEF ReloadInv, LoopShape, DeferredDiffer, BindSettingsDiffer, TypeOK, TaskTypes
  <2>4. HandledServesNewest'
    BY <2>1 DEF ReloadInv, HandledServesNewest, BindSettingsDiffer
  <2> QED BY <2>3, <2>4 DEF ReloadInv
<1> QED
  BY <1>1, <1>2, <1>3, <1>4, <1>5, <1>6, <1>7, <1>8, <1>9 DEF Next, Loop

LEMMA ReloadInvariance == Spec => []ReloadInv
<1>1. Init => ReloadInv
  BY DEF Init, ReloadInv, LoopShape, DeferredDiffer, HandledServesNewest
<1> QED BY <1>1, ReloadStep, Invariance, PTL DEF Spec

\* Between reloads every listener that can serve the wanted configuration runs
\* its newest revision (supervisor.go:65-68, 131-134).
THEOREM NewestServed == Spec => []ServesNewest
<1>1. ReloadInv => ServesNewest
  BY DEF ReloadInv, LoopShape, HandledServesNewest, ServesNewest
<1> QED BY <1>1, ReloadInvariance, PTL

\* No step but Stop takes a listener from a connection that still wants the
\* listener's bind settings (README.md:86-88).
THEOREM ListenersKept == Spec => HealthyListenerKept
<1> DEFINE Kept == \A id \in Id :
             clients[id] # None /\ clients'[id] # clients[id] /\ ~stopped' =>
               desired[id] = None \/ BindSettingsDiffer(conf[clients[id]], desired[id])
<1>1. IInv /\ ReloadInv /\ [Next]_vars => [Kept]_vars
  <2> SUFFICES ASSUME IInv, ReloadInv, Next,
                      NEW id \in Id, clients[id] # None, clients'[id] # clients[id], ~stopped'
               PROVE  desired[id] = None \/ BindSettingsDiffer(conf[clients[id]], desired[id])
    BY DEF vars
  <2>1. CASE ApplyFinish
    BY <2>1 DEF ApplyFinish, Drainable, ReloadInv, DeferredDiffer
  <2>2. ASSUME NEW j \in Id, LoopStart(j) PROVE FALSE
    BY <2>2 DEF LoopStart, IInv, TypeOK, SupervisorTypes
  <2>3. ASSUME NEW j \in Id, LoopSwap(j)
        PROVE  BindSettingsDiffer(conf[clients[id]], desired[id])
    <3>1. j = id /\ mu = "swap" /\ connOf[staged] = id
      BY <2>3 DEF LoopSwap, IInv, TypeOK, SupervisorTypes
    <3>2. conf[staged] = desired[id] /\ staged \in Client /\ phase[staged] = "open"
          /\ clients[id] # staged
      BY <3>1 DEF ReloadInv, LoopShape, IInv, StagedIsOpen
    <3>3. clients[id] \in Client /\ phase[clients[id]] = "open"
      BY LiveFacts DEF IInv, LiveIsOpen
    <3> QED BY <3>2, <3>3 DEF IInv, NoSharedSocket, BindSettingsDiffer
  <2>4. ASSUME NEW r \in retry, Poll(r[1], r[2]) PROVE FALSE
    BY <2>4 DEF Poll, RetryExit, RetryStart, RetryFail, RetryMayStart, Superseded,
                IInv, TypeOK, SupervisorTypes, TaskTypes
  <2>5. ASSUME NEW c \in Client, Listener(c) \/ StopClient(c) PROVE FALSE
    BY <2>5 DEF Listener, ListenerEmits, CallArrives, CallsEnd, DrainStop, DrainDone, StopClient
  <2>6. CASE ApplyBegin \/ StopBegin \/ StopReturn
    BY <2>6 DEF ApplyBegin, StopBegin, StopReturn
  <2>7. ASSUME NEW j \in Id, LoopDefer(j) \/ LoopUpdate(j) \/ LoopStage(j) PROVE FALSE
    BY <2>7 DEF LoopDefer, LoopUpdate, LoopStage
  <2> QED BY <2>1, <2>2, <2>3, <2>4, <2>5, <2>6, <2>7 DEF Next, Loop
<1> QED BY <1>1, Invariance, ReloadInvariance, PTL DEF Spec, HealthyListenerKept
-----------------------------------------------------------------------------
(* Supervisor implements SocketLease.                                      *)

HeldBy(s) == {c \in Client : phase[c] = "open" /\ conf[c].sock = s}
Held == [s \in Sock |-> HeldBy(s)]

\* A start on a free socket is an Acquire.
LEMMA StartAcquires ==
  ASSUME IInv, NEW id \in Id, desired[id] # None, NEW c \in Client,
         Started(c, id, desired[id]),
         \A d \in Client : phase[d] = "open" => conf[d].sock # desired[id].sock
  PROVE  Lease!Next
<1>1. PICK s \in Sock : s = desired[id].sock
  BY DEF IInv, TypeOK, SupervisorTypes, Conf
<1>2. phase' = [phase EXCEPT ![c] = "open"] /\ conf' = [conf EXCEPT ![c] = desired[id]]
  BY DEF Started
<1>3. HeldBy(s) = {}
  BY <1>1 DEF HeldBy
<1>4. \A d \in Client : phase'[d] = "open" /\ conf'[d].sock = s <=> d = c
  BY <1>1, <1>2 DEF IInv, TypeOK, ListenerTypes
<1>5. HeldBy(s)' = {c}
  BY <1>4 DEF HeldBy
<1>6. \A t \in Sock \ {s} : HeldBy(t)' = HeldBy(t)
  <2>1. ASSUME NEW t \in Sock \ {s}, NEW d \in Client
        PROVE  phase'[d] = "open" /\ conf'[d].sock = t <=> phase[d] = "open" /\ conf[d].sock = t
    BY <1>1, <1>2 DEF IInv, TypeOK, ListenerTypes, Started, Fresh
  <2> QED BY <2>1 DEF HeldBy
<1>7. Held' = [Held EXCEPT ![s] = {c}]
  BY <1>5, <1>6 DEF Held
<1>8. Held[s] = {}
  BY <1>3 DEF Held
<1> QED BY <1>7, <1>8 DEF Lease!Next, Lease!Acquire, Held, HeldBy

\* A step that opens and closes no listener and moves none to another socket.
LEMMA HeldUnchanged ==
  ASSUME \A c \in Client : /\ phase'[c] = "open" <=> phase[c] = "open"
                           /\ phase[c] = "open" => conf'[c].sock = conf[c].sock
  PROVE  UNCHANGED Held
<1>1. ASSUME NEW s \in Sock PROVE HeldBy(s)' = HeldBy(s)
  <2>1. \A c \in Client : phase'[c] = "open" /\ conf'[c].sock = s
                         <=> phase[c] = "open" /\ conf[c].sock = s
    OBVIOUS
  <2> QED BY <2>1 DEF HeldBy
<1> QED BY <1>1 DEF Held

\* Closing a listener releases its socket, or is a stutter.
LEMMA CloseReleases ==
  ASSUME IInv, NEW c \in Client, Closed(c), UNCHANGED conf
  PROVE  Lease!Next \/ UNCHANGED Held
<1>1. phase' = [phase EXCEPT ![c] = "closed"]
  BY DEF Closed
<1>2. CASE phase[c] # "open"
  BY <1>1, <1>2, HeldUnchanged DEF IInv, TypeOK, ListenerTypes
<1>3. CASE phase[c] = "open"
  <2>1. conf[c].sock \in Sock
    BY <1>3 DEF IInv, UsedAndOpen, Conf
  <2>2. c \in HeldBy(conf[c].sock)
    BY <1>3 DEF HeldBy
  <2>3. HeldBy(conf[c].sock)' = {}
    BY <1>1, <1>3 DEF HeldBy, IInv, NoSharedSocket, TypeOK, ListenerTypes
  <2>4. \A s \in Sock \ {conf[c].sock} : HeldBy(s)' = HeldBy(s)
    BY <1>1 DEF HeldBy, IInv, TypeOK, ListenerTypes
  <2>5. Held' = [Held EXCEPT ![conf[c].sock] = {}] /\ Held[conf[c].sock] # {}
    BY <2>1, <2>2, <2>3, <2>4 DEF Held
  <2> QED BY <2>1, <2>5 DEF Lease!Next, Lease!Release, Held, HeldBy
<1> QED BY <1>2, <1>3

LEMMA LeaseStep == IInv /\ [Next]_vars => Lease!Next \/ UNCHANGED Held
<1> SUFFICES ASSUME IInv, [Next]_vars PROVE Lease!Next \/ UNCHANGED Held
  OBVIOUS
<1> USE DEF stopVars, applyVars
<1>1. ASSUME UNCHANGED <<phase, conf>> PROVE UNCHANGED Held
  BY <1>1, HeldUnchanged
<1>2. CASE ApplyBegin \/ ApplyFinish \/ StopBegin \/ StopReturn \/ UNCHANGED vars
  BY <1>1, <1>2 DEF ApplyBegin, ApplyFinish, StopBegin, StopReturn, vars
<1>3. ASSUME NEW id \in Id, LoopDefer(id) \/ LoopSwap(id) PROVE UNCHANGED Held
  BY <1>1, <1>3 DEF LoopDefer, LoopSwap
<1>4. ASSUME NEW id \in Id, LoopUpdate(id) PROVE UNCHANGED Held
  <2>1. phase' = phase /\ \A c \in Client : conf'[c].sock = conf[c].sock
    BY <1>4 DEF IInv, TypeOK, ListenerTypes, LoopUpdate, Update, RequiresRecreate
  <2> QED BY <2>1, HeldUnchanged
<1>5. ASSUME NEW id \in Id, LoopStart(id) \/ LoopStage(id)
      PROVE  Lease!Next \/ UNCHANGED Held
  <2>1. mu = "loop" /\ desired[id] # None /\ desired[id].sock \in Sock /\ ~Taken(desired[id].sock)
    BY <1>5 DEF LoopStart, LoopStage, NextId, IInv, WorkIsWanted, TypeOK, SupervisorTypes, Conf
  <2>2. CASE StartFailed(id)
    BY <1>1, <2>2 DEF StartFailed
  <2>3. ASSUME NEW c \in Client, Started(c, id, desired[id]) PROVE Lease!Next
    BY <2>1, <2>3, SnapshotIsEnough, StartAcquires
  <2> QED BY <1>5, <2>2, <2>3 DEF LoopStart, LoopStage
<1>6. ASSUME NEW r \in retry, Poll(r[1], r[2]) PROVE Lease!Next \/ UNCHANGED Held
  <2>1. r[1] \in Id
    BY DEF IInv, TypeOK, TaskTypes
  <2>2. CASE RetryExit(r[1], r[2]) \/ RetryFail(r[1], r[2])
    BY <1>1, <2>2 DEF RetryExit, RetryFail, StartFailed
  <2>3. CASE RetryStart(r[1], r[2])
    <3>1. /\ mu = "free" /\ ~stopped /\ desired[r[1]] # None
          /\ desired[r[1]].sock \in Sock /\ ~SocketBusy(desired[r[1]].sock)
      BY <2>1, <2>3 DEF RetryStart, RetryMayStart, Superseded, IInv, TypeOK, SupervisorTypes, Conf
    <3> QED BY <2>1, <2>3, <3>1, BusyTestIsEnough, StartAcquires DEF RetryStart
  <2> QED BY <1>6, <2>2, <2>3 DEF Poll
<1>7. ASSUME NEW c \in Client, Listener(c) PROVE Lease!Next \/ UNCHANGED Held
  <2>1. CASE ListenerEmits(c) \/ CallArrives(c) \/ CallsEnd(c) \/ DrainDone(c)
    BY <1>1, <2>1 DEF ListenerEmits, CallArrives, CallsEnd, DrainDone
  <2>2. CASE DrainStop(c)
    BY <2>2, CloseReleases DEF DrainStop
  <2> QED BY <1>7, <2>1, <2>2 DEF Listener
<1>8. ASSUME NEW c \in Client, StopClient(c) PROVE Lease!Next \/ UNCHANGED Held
  BY <1>8, CloseReleases DEF StopClient
<1> QED
  BY <1>2, <1>3, <1>4, <1>5, <1>6, <1>7, <1>8 DEF Next, Loop

\* The listeners of the supervisor use sockets as SocketLease allows: taken
\* only when free, given back by the one listener that holds them.
THEOREM LeaseImplemented == Spec => ImplementsLease
<1>1. Init => Lease!Init
  BY DEF Init, Lease!Init
<1>2. IInv /\ [Next]_vars => [Lease!Next]_Held
  BY LeaseStep
<1> QED BY <1>1, <1>2, Invariance, PTL DEF Spec, ImplementsLease, Lease!Spec, Held, HeldBy
-----------------------------------------------------------------------------
(* The allocation of local ports. The invariant says what a loop has given *)
(* so far, and why a connection that was looked at has lost its port.      *)

Record == [conn : Connection, port : Nat \ {Unset}]

\* Types; a call has done with what stands before the loop's index, and leaves to
\* its second loop automatic connections only.
PortTypes ==
  /\ autoPorts \in [ConnId -> Nat] /\ at \in Nat
  /\ input \in Seq(Connection) /\ Valid(input)
  /\ out \in [DOMAIN input -> Nat]
  /\ last \in Seq(Record)
  /\ \A i, k \in DOMAIN last : last[i].conn.id = last[k].conn.id => i = k
  /\ at = 0 => input = <<>>
  /\ \A i \in automatic : i \in DOMAIN input /\ i < at /\ IsAuto(input[i])

\* The ports given so far: named, kept in the first loop, or granted.
Given ==
  /\ \A i \in DOMAIN input : ~IsAuto(input[i]) => out[i] = input[i].port
  /\ \A i \in DOMAIN input : IsAuto(input[i]) => (out[i] = Unset <=> i >= at \/ i \in automatic)
  /\ \A i \in DOMAIN input : out[i] # Unset => <<input[i].transport, out[i]>> \in used
  /\ \A i, k \in DOMAIN input :
       out[i] # Unset /\ out[i] = out[k] /\ input[i].transport = input[k].transport => i = k
  /\ \A i \in DOMAIN input : IsAuto(input[i]) /\ out[i] # Unset => autoPorts[input[i].id] = out[i]

\* What is remembered of id is what the last call gave it.
Remembers(id) ==
  /\ \A i \in AutoIn(last, id) : autoPorts[id] = last[i].port
  /\ autoPorts[id] # Unset => AutoIn(last, id) # {}

\* ... of every connection the first loop has still to look at.
Memory ==
  /\ at = 0 => \A id \in ConnId : Remembers(id)
  /\ \A k \in DOMAIN input : IsAuto(input[k]) /\ k >= at => Remembers(input[k].id)

NamesSocket(transport, port) ==
  \E n \in DOMAIN input : ~IsAuto(input[n]) /\ input[n].transport = transport /\ input[n].port = port

\* In the first loop a socket is taken by who names it or by who had the port before.
TakenBy ==
  at \in DOMAIN input => \A s \in used :
    \/ NamesSocket(s[1], s[2])
    \/ \E n \in DOMAIN input : /\ n < at /\ IsAuto(input[n]) /\ s[1] = input[n].transport
                               /\ \E m \in AutoIn(last, input[n].id) : s[2] = last[m].port

OtherChanges(id) ==
  \E n \in DOMAIN input : /\ IsAuto(input[n]) /\ input[n].id # id
                          /\ \E m \in AutoIn(last, input[n].id) :
                               last[m].conn.transport # input[n].transport

\* Whoever was looked at keeps its port, or there is a reason.
Traced ==
  \A k \in DOMAIN input : IsAuto(input[k]) /\ k < at => \A i \in AutoIn(last, input[k].id) :
    \/ out[k] = last[i].port /\ k \notin automatic
    \/ last[i].conn.transport # input[k].transport
    \/ NamesSocket(last[i].conn.transport, last[i].port)
    \/ OtherChanges(input[k].id)

\* The last two are what StableAcrossEdits needs: a port is lost only in the first
\* loop, to whoever put its socket into used before.
PortInv == PortTypes /\ Given /\ Memory /\ TakenBy /\ Traced /\ SocketsDistinct

LEMMA PortFacts ==
  /\ \A c \in Connection : c.id \in ConnId /\ c.transport \in Transport /\ c.port \in Nat
  /\ ConnId \subseteq Nat /\ FirstPort \in Nat /\ FirstPort > 0 /\ Unset \in Nat
<1>1. /\ ConnId \subseteq Nat /\ FirstPort \in Nat /\ FirstPort > 0 /\ Unset \in Nat
      /\ Explicit \subseteq Nat
  BY AllocationAssumption DEF Unset
<1>2. \A c \in Connection : c.id \in ConnId /\ c.transport \in Transport /\ c.port \in Explicit \cup {Unset}
  BY DEF Connection
<1> QED
  BY <1>1, <1>2

LEMMA InitPorts == PortsInit => PortInv
<1> SUFFICES ASSUME PortsInit PROVE PortInv
  OBVIOUS
<1>1. input \in Seq(Connection) /\ last \in Seq(Record) /\ DOMAIN input = {} /\ DOMAIN last = {}
      /\ out \in [DOMAIN input -> Nat]
  BY DEF PortsInit
<1>2. autoPorts \in [ConnId -> Nat] /\ \A id \in ConnId : autoPorts[id] = Unset
  BY PortFacts DEF PortsInit
<1> QED
  BY <1>1, <1>2 DEF PortsInit, PortInv, PortTypes, Valid, Given, Memory, Remembers, AutoIn, TakenBy,
    Traced, SocketsDistinct

\* The invariant, step by step.
LEMMA BeginsInv ==
  ASSUME PortInv, NEW in \in Inputs, Begins(in)
  PROVE  PortInv'
<1>1. in \in Seq(Connection) /\ Valid(in) /\ input' = in /\ at = 0 /\ at' = 1 /\ UNCHANGED <<automatic, last>>
  BY AllocationAssumption DEF Begins
<1>2. automatic = {}
  BY <1>1 DEF PortInv, PortTypes
<1>3. \A i \in DOMAIN in : in[i] \in Connection /\ i >= 1
  BY <1>1
<1>4. out' \in [DOMAIN in -> Nat] /\ \A i \in DOMAIN in : out'[i] = in[i].port
  BY <1>3, PortFacts DEF Begins
<1>5. /\ autoPorts' \in [ConnId -> Nat]
      /\ \A k \in DOMAIN in : IsAuto(in[k]) => autoPorts'[in[k].id] = autoPorts[in[k].id]
  <2>1. autoPorts' \in [ConnId -> Nat]
    BY PortFacts DEF Begins, PortInv, PortTypes
  <2>2. ASSUME NEW k \in DOMAIN in, IsAuto(in[k])
        PROVE  autoPorts'[in[k].id] = autoPorts[in[k].id]
    <3>1. ~\E i \in DOMAIN in : in[i].id = in[k].id /\ ~IsAuto(in[i])
      BY <1>1, <2>2 DEF Valid
    <3>2. in[k].id \in ConnId
      BY <1>3, PortFacts
    <3> QED
      BY <3>1, <3>2 DEF Begins
  <2> QED
    BY <2>1, <2>2
<1>6. \A s \in used' : \E i \in DOMAIN in : ~IsAuto(in[i]) /\ s[1] = in[i].transport /\ s[2] = in[i].port
  BY DEF Begins, Key
<1>7. \A i \in DOMAIN in : ~IsAuto(in[i]) => <<in[i].transport, in[i].port>> \in used'
  BY DEF Begins, Key
<1>8. PortTypes' /\ SocketsDistinct'
  BY <1>1, <1>2, <1>4, <1>5 DEF PortInv, PortTypes, SocketsDistinct, Valid, Socket
<1>9. Given'
  BY <1>1, <1>2, <1>3, <1>4, <1>7 DEF Given, Valid, Key, IsAuto
<1>10. Memory'
  <2>1. ASSUME NEW k \in DOMAIN in, IsAuto(in[k])
        PROVE  /\ \A i \in AutoIn(last, in[k].id) : autoPorts'[in[k].id] = last[i].port
               /\ autoPorts'[in[k].id] # Unset => AutoIn(last, in[k].id) # {}
    <3>1. in[k].id \in ConnId
      BY <1>3, PortFacts
    <3>2. Remembers(in[k].id)
      BY <1>1, <3>1 DEF PortInv, Memory
    <3> QED
      BY <1>5, <2>1, <3>2 DEF Remembers
  <2> QED
    BY <1>1, <2>1 DEF Memory, Remembers, AutoIn
<1>11. TakenBy' /\ Traced'
  BY <1>1, <1>3, <1>6 DEF TakenBy, NamesSocket, Traced
<1> QED
  BY <1>8, <1>9, <1>10, <1>11 DEF PortInv

LEMMA LooksInv ==
  ASSUME PortInv, Looks
  PROVE  PortInv'
<1> DEFINE c == input[at]
<1>1. /\ at \in DOMAIN input /\ at' = at + 1 /\ UNCHANGED <<autoPorts, input, last>> /\ at \in Nat
      /\ c \in Connection /\ c.id \in ConnId /\ c.transport \in Transport
  BY PortFacts DEF Looks, PortInv, PortTypes
<1>2. DOMAIN input = 1..Len(input) /\ Len(input) \in Nat
  BY DEF PortInv, PortTypes
<1>3. \A i \in DOMAIN input : IsAuto(input[i]) /\ input[i].id = c.id => i = at
  BY <1>1 DEF PortInv, PortTypes, Valid
<1>4. Memory'
  BY <1>1, <1>2 DEF PortInv, Memory, Remembers, AutoIn
<1>5. SocketsDistinct'
  BY <1>1 DEF PortInv, SocketsDistinct, Socket
<1>6. CASE ~IsAuto(c)
  <2>1. UNCHANGED <<out, used, automatic>>
    BY <1>6 DEF Looks
  <2>2. PortTypes' /\ Given'
    BY <1>1, <1>2, <1>6, <2>1 DEF PortInv, PortTypes, Given, Valid
  <2>3. TakenBy' /\ Traced'
    BY <1>1, <1>2, <1>6, <2>1 DEF PortInv, TakenBy, Traced, NamesSocket, OtherChanges, AutoIn
  <2> QED
    BY <1>4, <1>5, <2>2, <2>3 DEF PortInv
<1>7. CASE IsAuto(c) /\ Keeps(c)
  <2> DEFINE p == autoPorts[c.id]
  <2>1. /\ out' = [out EXCEPT ![at] = p] /\ used' = used \cup {<<c.transport, p>>} /\ UNCHANGED automatic
    BY <1>7 DEF Looks
  <2>2. p \in Nat /\ p # Unset /\ <<c.transport, p>> \notin used
    BY <1>1, <1>7 DEF Keeps, PortInv, PortTypes
  <2>3. Remembers(c.id)
    BY <1>1, <1>7 DEF PortInv, Memory
  <2>4. /\ out' \in [DOMAIN input -> Nat] /\ out'[at] = p
        /\ \A i \in DOMAIN input : i # at => out'[i] = out[i]
    BY <1>1, <2>1, <2>2 DEF PortInv, PortTypes
  <2>5. at \notin automatic
    BY <1>1 DEF PortInv, PortTypes
  <2>6. PortTypes'
    BY <1>1, <2>1, <2>4 DEF PortInv, PortTypes, Valid
  <2>7. Given'
    BY <1>1, <1>2, <1>7, <2>1, <2>2, <2>4, <2>5 DEF PortInv, PortTypes, Given
  <2>8. TakenBy'
    <3>1. PICK m \in AutoIn(last, c.id) : last[m].port = p
      BY <2>2, <2>3 DEF Remembers
    <3> QED
      BY <1>1, <1>2, <1>7, <2>1, <3>1 DEF PortInv, TakenBy, NamesSocket, AutoIn
  <2>9. Traced'
    <3> SUFFICES ASSUME NEW k \in DOMAIN input, IsAuto(input[k]), k < at + 1, NEW i \in AutoIn(last, input[k].id)
                 PROVE  \/ out'[k] = last[i].port /\ k \notin automatic'
                        \/ last[i].conn.transport # input[k].transport
                        \/ NamesSocket(last[i].conn.transport, last[i].port)
                        \/ OtherChanges(input[k].id)
      BY <1>1 DEF Traced, AutoIn, NamesSocket, OtherChanges
    <3>1. CASE k = at
      BY <2>1, <2>3, <2>4, <2>5, <3>1 DEF Remembers
    <3>2. CASE k # at
      BY <1>1, <1>2, <2>1, <2>4, <3>2 DEF PortInv, Traced
    <3> QED
      BY <3>1, <3>2
  <2> QED
    BY <1>4, <1>5, <2>6, <2>7, <2>8, <2>9 DEF PortInv
<1>8. CASE IsAuto(c) /\ ~Keeps(c)
  <2>1. automatic' = automatic \cup {at} /\ UNCHANGED <<out, used>>
    BY <1>8 DEF Looks
  <2>2. PortTypes' /\ Given'
    BY <1>1, <1>2, <1>8, <2>1 DEF PortInv, PortTypes, Given, Valid
  <2>3. TakenBy'
    BY <1>1, <1>2, <2>1 DEF PortInv, TakenBy, NamesSocket, AutoIn
  <2>4. ASSUME NEW i \in AutoIn(last, c.id), last[i].conn.transport = c.transport
        PROVE  NamesSocket(last[i].conn.transport, last[i].port) \/ OtherChanges(c.id)
    <3>1. autoPorts[c.id] = last[i].port
      BY <1>1, <1>8, <2>4 DEF PortInv, Memory, Remembers
    <3>2. last[i] \in Record /\ last[i].port # Unset /\ i \in DOMAIN last /\ last[i].conn.id = c.id
      <4>1. i \in DOMAIN last /\ last[i].conn.id = c.id
        BY <2>4 DEF AutoIn
      <4>2. last \in Seq(Record)
        BY DEF PortInv, PortTypes
      <4>3. last[i] \in Record
        BY <4>1, <4>2
      <4> QED
        BY <4>1, <4>3 DEF Record
    <3>3. <<c.transport, last[i].port>> \in used
      BY <1>8, <3>1, <3>2 DEF Keeps
    <3>4. \/ NamesSocket(c.transport, last[i].port)
          \/ \E n \in DOMAIN input : /\ n < at /\ IsAuto(input[n]) /\ c.transport = input[n].transport
                                     /\ \E m \in AutoIn(last, input[n].id) : last[i].port = last[m].port
      <4> DEFINE s == <<c.transport, last[i].port>>
      <4>1. s \in used /\ s[1] = c.transport /\ s[2] = last[i].port
        BY <3>3
      <4> HIDE DEF s
      <4>2. \/ NamesSocket(s[1], s[2])
            \/ \E n \in DOMAIN input : /\ n < at /\ IsAuto(input[n]) /\ s[1] = input[n].transport
                                       /\ \E m \in AutoIn(last, input[n].id) : s[2] = last[m].port
        BY <1>1, <4>1 DEF PortInv, TakenBy
      <4> QED
        BY <4>1, <4>2
    <3>5. ASSUME NEW n \in DOMAIN input, n < at, IsAuto(input[n]), c.transport = input[n].transport,
                 NEW m \in AutoIn(last, input[n].id), last[i].port = last[m].port
          PROVE  OtherChanges(c.id)
      <4>1. input[n].id # c.id
        BY <1>1, <1>3, <3>5
      <4>2. m \in DOMAIN last /\ last[m].conn.id = input[n].id
        BY <3>5 DEF AutoIn
      <4>3. Socket(last[m]) # Socket(last[i])
        BY <3>2, <4>1, <4>2 DEF PortInv, SocketsDistinct
      <4>4. last[m].conn.transport # input[n].transport
        BY <2>4, <3>5, <4>3 DEF Socket
      <4> QED
        BY <3>5, <4>1, <4>4 DEF OtherChanges
    <3> QED
      BY <2>4, <3>4, <3>5
  <2>5. Traced'
    <3> SUFFICES ASSUME NEW k \in DOMAIN input, IsAuto(input[k]), k < at + 1, NEW i \in AutoIn(last, input[k].id)
                 PROVE  \/ out'[k] = last[i].port /\ k \notin automatic'
                        \/ last[i].conn.transport # input[k].transport
                        \/ NamesSocket(last[i].conn.transport, last[i].port)
                        \/ OtherChanges(input[k].id)
      BY <1>1 DEF Traced, AutoIn, NamesSocket, OtherChanges
    <3>1. CASE k = at
      BY <2>4, <3>1
    <3>2. CASE k # at
      BY <1>1, <1>2, <2>1, <3>2 DEF PortInv, Traced
    <3> QED
      BY <3>1, <3>2
  <2> QED
    BY <1>4, <1>5, <2>2, <2>3, <2>5 DEF PortInv
<1> QED
  BY <1>6, <1>7, <1>8

LEMMA GrantsInv ==
  ASSUME PortInv, Grants
  PROVE  PortInv'
<1>1. PICK j \in automatic, p \in FirstPort..(FirstPort + Cardinality(used)) :
        /\ <<input[j].transport, p>> \notin used
        /\ out' = [out EXCEPT ![j] = p]
        /\ autoPorts' = [autoPorts EXCEPT ![input[j].id] = p]
        /\ used' = used \cup {<<input[j].transport, p>>}
        /\ automatic' = automatic \ {j}
  BY DEF Grants, FirstFree
<1>2. p \in Nat /\ p # Unset
  BY PortFacts DEF Unset
<1>3. at > Len(input) /\ UNCHANGED <<at, input, last>>
  BY DEF Grants
<1>4. DOMAIN input = 1..Len(input) /\ Len(input) \in Nat /\ at \in Nat
  BY DEF PortInv, PortTypes
<1>5. j \in DOMAIN input /\ IsAuto(input[j]) /\ input[j].id \in ConnId
  BY PortFacts DEF PortInv, PortTypes
<1>6. /\ out' \in [DOMAIN input -> Nat] /\ out'[j] = p
      /\ \A i \in DOMAIN input : i # j => out'[i] = out[i]
  BY <1>1, <1>2, <1>5 DEF PortInv, PortTypes
<1>7. /\ autoPorts' \in [ConnId -> Nat] /\ autoPorts'[input[j].id] = p
      /\ \A i \in DOMAIN input : i # j => autoPorts'[input[i].id] = autoPorts[input[i].id]
  BY <1>1, <1>2, <1>5 DEF PortInv, PortTypes, Valid
<1>8. PortTypes' /\ SocketsDistinct'
  BY <1>1, <1>3, <1>6, <1>7 DEF PortInv, PortTypes, Valid, SocketsDistinct, Socket
<1>9. Given'
  BY <1>1, <1>2, <1>3, <1>4, <1>5, <1>6, <1>7 DEF PortInv, Given
<1>10. Memory' /\ TakenBy'
  BY <1>3, <1>4, <1>5 DEF PortInv, Memory, TakenBy
<1>11. Traced'
  <2> SUFFICES ASSUME NEW k \in DOMAIN input, IsAuto(input[k]), k < at, NEW i \in AutoIn(last, input[k].id)
               PROVE  \/ out'[k] = last[i].port /\ k \notin automatic'
                      \/ last[i].conn.transport # input[k].transport
                      \/ NamesSocket(last[i].conn.transport, last[i].port)
                      \/ OtherChanges(input[k].id)
    BY <1>3 DEF Traced, AutoIn, NamesSocket, OtherChanges
  <2> QED
    BY <1>1, <1>6 DEF PortInv, Traced
<1> QED
  BY <1>8, <1>9, <1>10, <1>11 DEF PortInv

\* When the call returns, everyone has a port.
LEMMA Complete ==
  ASSUME PortInv, Returns
  PROVE  /\ DOMAIN last' = DOMAIN input /\ last' \in Seq(Record)
         /\ \A i \in DOMAIN input : /\ last'[i].conn = input[i] /\ last'[i].port = out[i]
                                    /\ out[i] # Unset /\ i < at
<1>1. at > Len(input) /\ automatic = {} /\ DOMAIN input = 1..Len(input) /\ Len(input) \in Nat /\ at \in Nat
  BY DEF Returns, PortInv, PortTypes
<1>2. \A i \in DOMAIN input : i < at /\ out[i] # Unset
  BY <1>1 DEF PortInv, Given, IsAuto
<1>3. last' = [i \in 1..Len(input) |-> [conn |-> input[i], port |-> out[i]]]
  BY <1>1 DEF Returns
<1>4. \A i \in 1..Len(input) : [conn |-> input[i], port |-> out[i]] \in Record
  BY <1>1, <1>2 DEF PortInv, PortTypes, Record
<1> QED
  BY <1>1, <1>2, <1>3, <1>4

LEMMA ReturnsInv ==
  ASSUME PortInv, Returns
  PROVE  PortInv'
<1>1. /\ DOMAIN last' = DOMAIN input /\ last' \in Seq(Record)
      /\ \A i \in DOMAIN input : last'[i].conn = input[i] /\ last'[i].port = out[i] /\ out[i] # Unset
  BY Complete
<1>2. at' = 0 /\ input' = <<>> /\ out' = <<>> /\ used' = {} /\ automatic' = {}
  BY DEF Returns
<1>3. DOMAIN input' = {} /\ input' \in Seq(Connection) /\ out' \in [DOMAIN input' -> Nat]
  BY <1>2
<1>4. autoPorts' \in [ConnId -> Nat]
  BY PortFacts DEF Returns, PortInv, PortTypes
<1>5. PortTypes'
  BY <1>1, <1>2, <1>3, <1>4 DEF PortInv, PortTypes, Valid
<1>6. Given' /\ TakenBy' /\ Traced'
  BY <1>2, <1>3 DEF Given, TakenBy, Traced
<1>7. SocketsDistinct'
  BY <1>1 DEF PortInv, Given, SocketsDistinct, Socket
<1>8. ASSUME NEW id \in ConnId PROVE Remembers(id)'
  <2>1. autoPorts'[id] = IF \E i \in DOMAIN input : input[i].id = id /\ IsAuto(input[i])
                         THEN autoPorts[id] ELSE Unset
    BY DEF Returns
  <2>2. \A i : i \in AutoIn(last', id) <=> i \in DOMAIN input /\ input[i].id = id /\ IsAuto(input[i])
    BY <1>1 DEF AutoIn
  <2>3. \A i \in AutoIn(last', id) : autoPorts'[id] = last'[i].port
    BY <1>1, <2>1, <2>2 DEF PortInv, Given
  <2>4. autoPorts'[id] # Unset => AutoIn(last', id) # {}
    BY <2>1, <2>2
  <2> QED
    BY <2>3, <2>4 DEF Remembers
<1>9. Memory'
  BY <1>3, <1>8 DEF Memory
<1> QED
  BY <1>5, <1>6, <1>7, <1>9 DEF PortInv

LEMMA NextPorts == PortInv /\ [PortsNext]_portVars => PortInv'
<1> SUFFICES ASSUME PortInv, [PortsNext]_portVars PROVE PortInv'
  OBVIOUS
<1>1. CASE UNCHANGED portVars
  BY <1>1 DEF portVars, locals, PortInv, PortTypes, Valid, Given, Memory, Remembers, AutoIn, TakenBy,
    NamesSocket, Traced, OtherChanges, SocketsDistinct, Socket
<1> QED
  BY <1>1, BeginsInv, LooksInv, GrantsInv, ReturnsInv DEF PortsNext

\* The invariant holds in every loop of every call.
THEOREM PortInvariant == PortsSpec => []PortInv
  BY InitPorts, NextPorts, PTL DEF PortsSpec

\* For any number of connections and ports: no two connections of a configuration
\* that Validate accepts are given the same socket (supervisor.go:186-217).
THEOREM SocketsAreDistinct == PortsSpec => []SocketsDistinct
<1>1. PortInv => SocketsDistinct
  BY DEF PortInv
<1> QED
  BY <1>1, PortInvariant, PTL

\* A connection that comes back with another port has given way.
LEMMA ReturnsStay ==
  ASSUME PortInv, Returns, NEW id \in ConnId, NEW i \in AutoIn(last, id), NEW k \in AutoIn(last', id),
         Moves(last[i], last'[k])
  PROVE  \/ NamedIn(last', Socket(last[i]))
         \/ \E other \in ConnId \ {id} : \E m \in AutoIn(last, other), n \in AutoIn(last', other) :
              last[m].conn.transport # last'[n].conn.transport
<1>1. /\ DOMAIN last' = DOMAIN input
      /\ \A n \in DOMAIN input : last'[n].conn = input[n] /\ last'[n].port = out[n] /\ n < at
  BY Complete
<1>2. k \in DOMAIN input /\ input[k].id = id /\ IsAuto(input[k]) /\ k < at
  BY <1>1 DEF AutoIn
<1>3. last[i].port # out[k] /\ last[i].conn.transport = input[k].transport
  BY <1>1, <1>2 DEF Moves
<1>4. NamesSocket(last[i].conn.transport, last[i].port) \/ OtherChanges(id)
  BY <1>2, <1>3 DEF PortInv, Traced
<1>5. ASSUME NamesSocket(last[i].conn.transport, last[i].port)
      PROVE  NamedIn(last', Socket(last[i]))
  <2>1. PICK n \in DOMAIN input : ~IsAuto(input[n]) /\ input[n].transport = last[i].conn.transport
                                  /\ input[n].port = last[i].port
    BY <1>5 DEF NamesSocket
  <2>2. out[n] = input[n].port
    BY <2>1 DEF PortInv, Given
  <2> QED
    BY <1>1, <2>1, <2>2 DEF NamedIn, Socket
<1>6. ASSUME OtherChanges(id)
      PROVE  \E other \in ConnId \ {id} : \E m \in AutoIn(last, other), n \in AutoIn(last', other) :
               last[m].conn.transport # last'[n].conn.transport
  <2>1. PICK n \in DOMAIN input : IsAuto(input[n]) /\ input[n].id # id
          /\ \E m \in AutoIn(last, input[n].id) : last[m].conn.transport # input[n].transport
    BY <1>6 DEF OtherChanges
  <2>2. n \in AutoIn(last', input[n].id) /\ input[n].id \in ConnId
    BY <1>1, <2>1, PortFacts DEF AutoIn, PortInv, PortTypes
  <2> QED
    BY <1>1, <2>1, <2>2
<1> QED
  BY <1>4, <1>5, <1>6

\* For any two configurations, one applied after the other: an automatic port moves
\* only for an explicit one or for another connection's change of transport
\* (supervisor.go:183-185, README.md:86-88).
THEOREM PortsAreStable == PortsSpec => StableAcrossEdits
<1>1. PortInv /\ [PortsNext]_portVars =>
        [\A id \in ConnId : \A i \in AutoIn(last, id), k \in AutoIn(last', id) :
           Moves(last[i], last'[k]) =>
             \/ NamedIn(last', Socket(last[i]))
             \/ \E other \in ConnId \ {id} : \E m \in AutoIn(last, other), n \in AutoIn(last', other) :
                  last[m].conn.transport # last'[n].conn.transport]_portVars
  <2> SUFFICES ASSUME PortInv, PortsNext, NEW id \in ConnId, NEW i \in AutoIn(last, id),
                      NEW k \in AutoIn(last', id), Moves(last[i], last'[k])
               PROVE  \/ NamedIn(last', Socket(last[i]))
                      \/ \E other \in ConnId \ {id} : \E m \in AutoIn(last, other), n \in AutoIn(last', other) :
                           last[m].conn.transport # last'[n].conn.transport
    OBVIOUS
  <2>1. CASE Returns
    BY <2>1, ReturnsStay
  <2>2. CASE last' = last
    <3>1. i = k
      BY <2>2 DEF AutoIn, PortInv, PortTypes
    <3> QED
      BY <2>2, <3>1 DEF Moves
  <2> QED
    BY <2>1, <2>2 DEF PortsNext, Begins, Looks, Grants
<1> QED
  BY <1>1, PortInvariant, PTL DEF PortsSpec, StableAcrossEdits
=============================================================================
