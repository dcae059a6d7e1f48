----------------------------- MODULE Supervisor -----------------------------
(***************************************************************************)
(* The SIP supervisor of core/sip/supervisor.go: it reconciles the         *)
(* listeners a saved configuration asks for with the listeners that run.   *)
(*                                                                         *)
(* Apply (lines 69-174) holds the mutex s.mu for its whole duration, but   *)
(* it is many steps here, one per iteration of its loop, because           *)
(* goroutines that do not need the mutex (call handling, registration,     *)
(* draining listeners) run between them.  The critical sections of the     *)
(* retry goroutines (317-345) and of Stop (413-440) are one step each.     *)
(*                                                                         *)
(* A listener's configuration is abstracted to the socket it binds         *)
(* (transport and local port, already allocated), a "shape" standing for   *)
(* every other field that listenerRequiresRecreate compares (263-268), and *)
(* the revision of the saved configuration its routes, credentials and     *)
(* definition come from.                                                   *)
(***************************************************************************)
EXTENDS Naturals

CONSTANTS
  Id,          \* connection ids, numbered in the order sort.Strings gives them
  Sock,        \* transport:port keys
  Shape,       \* "inbound" or "registered": the other recreate-relevant fields
  Client,      \* identities of started listeners, in creation order
  Saved,       \* configurations that can be saved: functions on Id
  None, Absent, NoCred,  \* no value / not in the config / in it, no password
  Sup,         \* the supervisor itself as the author of a status event
  MaxApply     \* bound on the number of Apply calls

Setting == [sock : Sock, shape : Shape]
Conf    == [sock : Sock, shape : Shape, rev : Nat]
State   == {"none", "up", "reg_error", "start_failed", "missing_credentials",
            "draining", "stopped"}

ASSUME SupervisorAssumption ==
  /\ Id \subseteq Nat /\ Client \subseteq Nat
  /\ None \notin Client /\ None \notin Conf
  /\ Absent \notin Setting /\ NoCred \notin Setting
  /\ Saved \subseteq [Id -> Setting \cup {Absent, NoCred}]
  /\ MaxApply \in Nat

VARIABLES
  \* fields of Supervisor guarded by s.mu
  clients, draining, desired, generation, stopped,
  current,     \* latest status per connection; from = the listener that emitted it
  \* the listeners themselves
  phase,       \* "unused" | "open" (owns its socket) | "closed"
  conf, connOf, silenced, busy,
  retry,       \* <<id, generation>> of the live scheduleDesired goroutines
  stopping,    \* listeners Stop has still to stop
  halted,      \* Stop has returned
  \* s.mu and the locals of the Apply that holds it
  mu, todo, owners, deferred, missing, staged, rev

applyVars == <<mu, todo, owners, deferred, missing, staged, rev>>
stopVars  == <<stopped, stopping, halted>>
vars == <<clients, draining, desired, generation, current, phase, conf, connOf,
          silenced, busy, retry, stopVars, applyVars>>

SupervisorTypes ==
  /\ clients \in [Id -> Client \cup {None}]
  /\ draining \subseteq Client
  /\ desired \in [Id -> Conf \cup {None}]
  /\ generation \in [Id -> Nat]
  /\ current \in [Id -> [from : Client \cup {Sup}, state : State]]

ListenerTypes ==
  /\ phase \in [Client -> {"unused", "open", "closed"}]
  /\ conf \in [Client -> Conf \cup {None}]
  /\ connOf \in [Client -> Id \cup {None}]
  /\ silenced \subseteq Client /\ busy \subseteq Client

TaskTypes ==
  /\ retry \subseteq Id \X Nat
  /\ stopped \in BOOLEAN /\ stopping \subseteq Client /\ halted \in BOOLEAN
  /\ mu \in {"free", "loop", "swap"}
  /\ todo \subseteq Id /\ deferred \subseteq Id /\ missing \subseteq Id
  /\ owners \in [Sock -> Client \cup {None}]
  /\ staged \in Client \cup {None}
  /\ rev \in Nat

TypeOK == SupervisorTypes /\ ListenerTypes /\ TaskTypes

Init ==
  /\ clients = [id \in Id |-> None]
  /\ draining = {}
  /\ desired = [id \in Id |-> None]
  /\ generation = [id \in Id |-> 0]
  /\ current = [id \in Id |-> [from |-> Sup, state |-> "none"]]
  /\ phase = [c \in Client |-> "unused"]
  /\ conf = [c \in Client |-> None]
  /\ connOf = [c \in Client |-> None]
  /\ silenced = {} /\ busy = {} /\ retry = {}
  /\ stopped = FALSE /\ stopping = {} /\ halted = FALSE
  /\ mu = "free" /\ todo = {} /\ deferred = {} /\ missing = {}
  /\ owners = [s \in Sock |-> None]
  /\ staged = None /\ rev = 0

-----------------------------------------------------------------------------
(* What the code asks of a configuration or of the listeners that run.     *)

\* Mutant: every saved change recreates the listener.
MutRecreateAlways(a, b) == a # b

\* listenerRequiresRecreate: these changes cannot be made on a live listener.
RequiresRecreate(a, b) == a.sock # b.sock \/ a.shape # b.shape

\* Mutant: a draining listener's socket counts as free.
MutDrainIgnored(s) == FALSE

DrainingOwns(s) == \E c \in draining : conf[c].sock = s

SocketBusy(s) ==
  \/ \E id \in Id : clients[id] # None /\ conf[clients[id]].sock = s
  \/ DrainingOwns(s)

DrainingOf(id) == {c \in draining : connOf[c] = id}

\* The listener that owns s when Apply takes its snapshot.
OwnerOf(s) ==
  IF \E id \in Id : clients[id] # None /\ conf[clients[id]].sock = s
  THEN clients[CHOOSE id \in Id : clients[id] # None /\ conf[clients[id]].sock = s]
  ELSE None

Fresh(c) == phase[c] = "unused" /\ \A d \in Client : phase[d] = "unused" => c <= d

\* silenceDrainingConnectionLocked: a drained listener of id must not report
\* over the one that is about to start.
SilenceDraining(id) == silenced' = silenced \cup DrainingOf(id)

\* Mutant: a listener is dropped without being drained.
MutDropped(cs) == UNCHANGED draining

\* beginDrainLocked: refuse new calls; the socket stays owned until the drain ends.
BeginDrain(cs) == draining' = draining \cup cs

\* Mutants: the goroutine is tied to the generation before this reload; or is
\* never started.
MutStaleGeneration(ids) == retry' = retry \cup {<<id, generation[id] - 1>> : id \in ids}
MutNoRetry(ids) == UNCHANGED retry

\* scheduleDesiredLocked: a retry goroutine per id, tied to the id's generation.
Schedule(ids) == retry' = retry \cup {<<id, generation[id]>> : id \in ids}

\* Mutant: the new routes do not reach the listener.
MutNoUpdate(c, want) == UNCHANGED conf

\* Client.Update: new routes, credentials and definition on a live listener.
Update(c, want) == conf' = [conf EXCEPT ![c] = want]

\* s.report: the latest event per connection wins.
Report(id, who, state) == current' = [current EXCEPT ![id] = [from |-> who, state |-> state]]

\* newStartedClient succeeds: the listener c of id has bound its socket and
\* emitted its first status.
Started(c, id, want) ==
  /\ Fresh(c)
  /\ phase' = [phase EXCEPT ![c] = "open"]
  /\ conf' = [conf EXCEPT ![c] = want]
  /\ connOf' = [connOf EXCEPT ![c] = id]
  /\ Report(id, c, "up")

\* newStartedClient fails: the listener it made is stopped again, and what
\* remains is the supervisor's start_failed event.
StartFailed(id) ==
  /\ Report(id, Sup, "start_failed")
  /\ UNCHANGED <<phase, conf, connOf>>

-----------------------------------------------------------------------------
(* Apply.                                                                  *)

\* What Apply makes of the saved configuration before it looks at a listener.
ApplyOf(saved) ==
  /\ generation' = [id \in Id |-> IF saved[id] = Absent THEN generation[id]
                                  ELSE generation[id] + 1]
  /\ missing' = {id \in Id : saved[id] = NoCred}
  /\ todo' = {id \in Id : saved[id] \notin {Absent, NoCred}}
  /\ desired' = [id \in Id |->
       IF saved[id] \in {Absent, NoCred} THEN None
       ELSE [sock |-> saved[id].sock, shape |-> saved[id].shape, rev |-> rev + 1]]
  /\ current' = [id \in Id |-> IF saved[id] # NoCred THEN current[id]
                               ELSE [from |-> Sup, state |-> "missing_credentials"]]

ApplyBegin ==
  /\ mu = "free" /\ ~stopped /\ rev < MaxApply
  /\ \E saved \in Saved : ApplyOf(saved)
  /\ rev' = rev + 1
  /\ owners' = [s \in Sock |-> OwnerOf(s)]
  /\ deferred' = {}
  /\ mu' = "loop"
  /\ UNCHANGED <<clients, draining, phase, conf, connOf, silenced, busy, retry,
                 staged, stopVars>>

\* The loop takes the ids in sorted order.
NextId(id) == mu = "loop" /\ id \in todo /\ \A j \in todo : id <= j

Taken(s) == owners[s] # None \/ DrainingOwns(s)

\* No listener yet and the socket is taken: retry once its owner has drained.
\* The same when a live listener must be recreated on a socket that is not free.
LoopDefer(id) ==
  LET old == clients[id]
      want == desired[id]
  IN /\ NextId(id)
     /\ IF old = None THEN Taken(want.sock)
        ELSE /\ RequiresRecreate(conf[old], want)
             /\ conf[old].sock = want.sock \/ Taken(want.sock)
     /\ deferred' = deferred \cup {id}
     /\ todo' = todo \ {id}
     /\ UNCHANGED <<clients, draining, desired, generation, current, phase, conf,
                    connOf, silenced, busy, retry, stopVars, mu, owners, missing,
                    staged, rev>>

\* startDesiredLocked for a connection without a listener.
LoopStart(id) ==
  /\ NextId(id) /\ clients[id] = None /\ ~Taken(desired[id].sock)
  /\ SilenceDraining(id)
  /\ todo' = todo \ {id}
  /\ \/ \E c \in Client :
          /\ Started(c, id, desired[id])
          /\ clients' = [clients EXCEPT ![id] = c]
          /\ owners' = [owners EXCEPT ![desired[id].sock] = c]
          /\ UNCHANGED retry
     \/ /\ StartFailed(id)
        /\ Schedule({id})
        /\ UNCHANGED <<clients, owners>>
  /\ UNCHANGED <<draining, desired, generation, busy, stopVars, mu, deferred,
                 missing, staged, rev>>

\* Routing, credential and definition changes reach a live listener in place.
LoopUpdate(id) ==
  LET old == clients[id] IN
  /\ NextId(id) /\ old # None /\ ~RequiresRecreate(conf[old], desired[id])
  /\ Update(old, desired[id])
  /\ todo' = todo \ {id}
  /\ UNCHANGED <<clients, draining, desired, generation, current, phase, connOf,
                 silenced, busy, retry, stopVars, mu, owners, deferred, missing,
                 staged, rev>>

\* canStage: the replacement binds another, free socket while the old listener
\* still runs.  A failure keeps the old listener and is not retried.
LoopStage(id) ==
  LET old == clients[id]
      want == desired[id]
  IN /\ NextId(id) /\ old # None
     /\ conf[old].sock # want.sock /\ ~Taken(want.sock)
     /\ \/ /\ \E c \in Client : Started(c, id, want) /\ staged' = c
           /\ mu' = "swap"
           /\ UNCHANGED todo
        \/ /\ StartFailed(id)
           /\ todo' = todo \ {id}
           /\ UNCHANGED <<mu, staged>>
     /\ UNCHANGED <<clients, draining, desired, generation, silenced, busy, retry,
                    stopVars, owners, deferred, missing, rev>>

\* silenceStatus on the old listener, then the swap, then beginDrain.
LoopSwap(id) ==
  LET old == clients[id] IN
  /\ mu = "swap" /\ id = connOf[staged]
  /\ silenced' = silenced \cup {old}
  /\ clients' = [clients EXCEPT ![id] = staged]
  /\ owners' = [owners EXCEPT ![conf[old].sock] = None, ![conf[staged].sock] = staged]
  /\ BeginDrain({old})
  /\ todo' = todo \ {id}
  /\ staged' = None
  /\ mu' = "loop"
  /\ UNCHANGED <<desired, generation, current, phase, conf, connOf, busy, retry,
                 stopVars, deferred, missing, rev>>

\* The listeners the loop left behind: their connection is gone or has no
\* credentials, or waits for a socket that is not free.
Drainable == {id \in Id : clients[id] # None /\ (desired[id] = None \/ id \in deferred)}

\* After the loop: drain them as one set, then start the retry goroutines and
\* release s.mu.
ApplyFinish ==
  LET dropped == {id \in Drainable : desired[id] = None}
      loud    == {id \in Drainable : clients[id] \notin silenced}
  IN
  /\ mu = "loop" /\ todo = {}
  /\ generation' = [id \in Id |-> IF id \in dropped \ missing THEN generation[id] + 1
                                  ELSE generation[id]]
  /\ clients' = [id \in Id |-> IF id \in Drainable THEN None ELSE clients[id]]
  /\ BeginDrain({clients[id] : id \in Drainable})
  /\ current' = [id \in Id |-> IF id \in loud THEN [from |-> clients[id], state |-> "draining"]
                               ELSE current[id]]
  /\ Schedule(deferred)
  /\ mu' = "free" /\ deferred' = {} /\ missing' = {}
  /\ owners' = [s \in Sock |-> None]
  /\ UNCHANGED <<desired, phase, conf, connOf, silenced, busy, stopVars, todo,
                 staged, rev>>

-----------------------------------------------------------------------------
(* The goroutine scheduleDesiredLocked starts, one poll per step.          *)

Superseded(id, g) ==
  stopped \/ generation[id] # g \/ clients[id] # None \/ desired[id] = None

RetryExit(id, g) ==
  /\ mu = "free" /\ <<id, g>> \in retry
  /\ Superseded(id, g)
  /\ retry' = retry \ {<<id, g>>}
  /\ UNCHANGED <<clients, draining, desired, generation, current, phase, conf,
                 connOf, silenced, busy, stopVars, applyVars>>

RetryMayStart(id, g) ==
  /\ mu = "free" /\ <<id, g>> \in retry
  /\ ~Superseded(id, g) /\ ~SocketBusy(desired[id].sock)

RetryStart(id, g) ==
  /\ RetryMayStart(id, g)
  /\ SilenceDraining(id)
  /\ \E c \in Client :
       /\ Started(c, id, desired[id])
       /\ clients' = [clients EXCEPT ![id] = c]
  /\ retry' = retry \ {<<id, g>>}
  /\ UNCHANGED <<draining, desired, generation, busy, stopVars, applyVars>>

RetryFail(id, g) ==
  /\ RetryMayStart(id, g)
  /\ SilenceDraining(id)
  /\ StartFailed(id)
  /\ UNCHANGED <<clients, draining, desired, generation, busy, retry, stopVars,
                 applyVars>>

-----------------------------------------------------------------------------
(* Listeners: status events, calls, draining.                              *)

\* Only a registration goroutine emits on its own, and Drain and Stop wait for
\* it to exit (stopRegistration); an inbound listener has none.
ListenerEmits(c) ==
  /\ phase[c] = "open" /\ conf[c].shape = "registered"
  /\ c \notin draining \cup silenced
  /\ \E state \in {"up", "reg_error"} : Report(connOf[c], c, state)
  /\ UNCHANGED <<clients, draining, desired, generation, phase, conf, connOf,
                 silenced, busy, retry, stopVars, applyVars>>

\* A draining listener answers 503.
CallArrives(c) ==
  /\ phase[c] = "open" /\ c \notin draining \cup busy
  /\ busy' = busy \cup {c}
  /\ UNCHANGED <<clients, draining, desired, generation, current, phase, conf,
                 connOf, silenced, retry, stopVars, applyVars>>

CallsEnd(c) ==
  /\ c \in busy
  /\ busy' = busy \ {c}
  /\ UNCHANGED <<clients, draining, desired, generation, current, phase, conf,
                 connOf, silenced, retry, stopVars, applyVars>>

\* Client.Stop: the socket is released, then "stopped" is emitted.
Closed(c) ==
  /\ phase' = [phase EXCEPT ![c] = "closed"]
  /\ IF phase[c] = "open" /\ c \notin silenced
     THEN Report(connOf[c], c, "stopped") ELSE UNCHANGED current

\* beginDrainLocked's goroutine: stop the listener once it is idle ...
DrainStop(c) ==
  /\ c \in draining \ busy /\ phase[c] = "open"
  /\ Closed(c)
  /\ UNCHANGED <<clients, draining, desired, generation, conf, connOf, silenced,
                 busy, retry, stopVars, applyVars>>

\* Mutant: the drain goroutine gives up once the supervisor is stopped.
MutDrainAbandoned(c) ==
  /\ mu = "free" /\ c \in draining /\ phase[c] = "closed" /\ ~stopped
  /\ draining' = draining \ {c}
  /\ UNCHANGED <<clients, desired, generation, current, phase, conf, connOf,
                 silenced, busy, retry, stopVars, applyVars>>

\* ... and then, under s.mu, forget it.
DrainDone(c) ==
  /\ mu = "free" /\ c \in draining /\ phase[c] = "closed"
  /\ draining' = draining \ {c}
  /\ UNCHANGED <<clients, desired, generation, current, phase, conf, connOf,
                 silenced, busy, retry, stopVars, applyVars>>

-----------------------------------------------------------------------------
(* Stop.                                                                   *)

StopBegin ==
  /\ mu = "free" /\ ~stopped
  /\ stopped' = TRUE
  /\ stopping' = draining \cup {clients[id] : id \in {i \in Id : clients[i] # None}}
  /\ clients' = [id \in Id |-> None]
  /\ UNCHANGED <<draining, desired, generation, current, phase, conf, connOf,
                 silenced, busy, retry, halted, applyVars>>

\* Stopping a listener hangs up its calls.
StopClient(c) ==
  /\ c \in stopping /\ \A d \in stopping : connOf[c] <= connOf[d]
  /\ Closed(c)
  /\ busy' = busy \ {c}
  /\ stopping' = stopping \ {c}
  /\ UNCHANGED <<clients, draining, desired, generation, conf, connOf, silenced,
                 retry, stopped, halted, applyVars>>

\* drainWG.Wait returns when every drain goroutine has finished.
StopReturn ==
  /\ stopped /\ ~halted /\ stopping = {} /\ draining = {}
  /\ halted' = TRUE
  /\ UNCHANGED <<clients, draining, desired, generation, current, phase, conf,
                 connOf, silenced, busy, retry, stopped, stopping, applyVars>>

-----------------------------------------------------------------------------
Loop(id) == LoopDefer(id) \/ LoopStart(id) \/ LoopUpdate(id) \/ LoopStage(id) \/ LoopSwap(id)
Poll(id, g) == RetryExit(id, g) \/ RetryStart(id, g) \/ RetryFail(id, g)
Listener(c) == ListenerEmits(c) \/ CallArrives(c) \/ CallsEnd(c) \/ DrainStop(c) \/ DrainDone(c)

Next ==
  \/ ApplyBegin \/ ApplyFinish
  \/ \E id \in Id : Loop(id)
  \/ \E r \in retry : Poll(r[1], r[2])
  \/ \E c \in Client : Listener(c)
  \/ StopBegin \/ StopReturn
  \/ \E c \in Client : StopClient(c)

Spec == Init /\ [][Next]_vars

(***************************************************************************)
(* Fairness: every goroutine that can run does run; a bind that is tried   *)
(* again and again succeeds at last; and calls on a listener end.  Nobody  *)
(* is obliged to save a configuration, to call, or to stop the program.    *)
(***************************************************************************)
Fairness ==
  /\ WF_vars(ApplyFinish)
  /\ \A id \in Id : WF_vars(Loop(id))
  /\ \A id \in Id : \A g \in 1..(2 * MaxApply) :
       WF_vars(RetryExit(id, g)) /\ WF_vars(RetryStart(id, g))
  /\ \A c \in Client :
       WF_vars(CallsEnd(c)) /\ WF_vars(DrainStop(c)) /\ WF_vars(DrainDone(c))
       /\ WF_vars(StopClient(c))
  /\ WF_vars(StopReturn)

FairSpec == Spec /\ Fairness
-----------------------------------------------------------------------------
(* Safety.                                                                 *)

\* Two configurations of a connection that one listener cannot serve in turn.
BindSettingsDiffer(a, b) == a.sock # b.sock \/ a.shape # b.shape

\* No two listeners that have not released their socket hold the same one:
\* the supervisor never starts a listener on a socket another of its listeners
\* (serving, draining or being stopped) still owns, whatever the order of
\* reloads, drains and retries (supervisor.go:101-103, 332, 347-365).
NoSharedSocket ==
  \A c, d \in Client :
    phase[c] = "open" /\ phase[d] = "open" /\ conf[c].sock = conf[d].sock => c = d

\* No listener is leaked: one that holds a socket is serving its connection, or
\* is being swapped in, drained or stopped (supervisor.go:138-149, 157-168, 420-427).
NoOrphanListener ==
  \A c \in Client : phase[c] = "open" =>
    \/ c \in draining \cup stopping
    \/ c = staged
    \/ clients[connOf[c]] = c

\* A connection that is wanted and has no listener is never forgotten: a retry
\* goroutine of its newest generation is running (122, 170-172, 323-340).
WantedIsServedOrRetried ==
  mu = "free" /\ ~stopped =>
    \A id \in Id : desired[id] # None /\ clients[id] = None =>
      <<id, generation[id]>> \in retry

\* Between two reloads, a listener whose bind settings are the wanted ones runs
\* the newest saved routes, credentials and definition; only a listener whose
\* staged replacement failed to start may run an older configuration (65-68, 131-134).
ServesNewest ==
  mu = "free" => \A id \in Id :
    clients[id] # None /\ desired[id] # None
      /\ ~BindSettingsDiffer(conf[clients[id]], desired[id])
      => conf[clients[id]] = desired[id]

-----------------------------------------------------------------------------
(* Action properties.                                                      *)

\* A reload takes a running listener away from its connection only when the
\* new configuration drops the connection or needs its listener recreated: an
\* unrelated insertion, removal or reordering never restarts a healthy listener
\* (README.md:86-88, supervisor.go:131-134, 157-161).
HealthyListenerKept ==
  [][\A id \in Id :
       clients[id] # None /\ clients'[id] # clients[id] /\ ~stopped' =>
         desired[id] = None \/ BindSettingsDiffer(conf[clients[id]], desired[id])]_vars

\* The supervisor implements SocketLease: a listener holds its socket from the
\* successful bind in newStartedClient until Client.Stop has closed its user agent.
Lease == INSTANCE SocketLease WITH
  Socket <- Sock, Holder <- Client,
  held <- [s \in Sock |-> {c \in Client : phase[c] = "open" /\ conf[c].sock = s}]

ImplementsLease == Lease!Spec

-----------------------------------------------------------------------------
(* Liveness.                                                               *)

\* The owner of s was kept on it because its own replacement failed to start.
KeptBack(id, s) ==
  /\ clients[id] # None /\ conf[clients[id]].sock = s
  /\ desired[id] # None /\ desired[id].sock # s

\* Once reloads stop, every wanted connection is served for good, unless the
\* socket it wants is held by a connection whose staged replacement failed.
EventuallyServed ==
  \A id \in Id :
    <>[](\/ stopped \/ desired[id] = None \/ clients[id] # None
         \/ \E other \in Id \ {id} : KeptBack(other, desired[id].sock))

\* Stop returns: no drain goroutine waits for ever (434-438).
StopCompletes == stopped ~> halted
=============================================================================
