--------------------------- MODULE CallLifecycle ---------------------------
(***************************************************************************)
(* The calls of the SIP listeners (core/sip/server.go, core/sip/phone.go)  *)
(* and the sessions they hold in the shared SessionManager                 *)
(* (core/controller/manager.go), from the INVITE to the cleanup, while     *)
(* listeners are drained by a reload or stopped with the process.          *)
(*                                                                         *)
(* Goroutines: per call the INVITE handler, which becomes the dialog       *)
(* monitor, and the DTMF read loop; per listener the drain goroutine of    *)
(* beginDrainLocked and the body of Client.Stop, which runs once, in       *)
(* whichever goroutine calls it first; and the main goroutine in           *)
(* Supervisor.Stop.  A step is one critical section (c.mu, configMu or     *)
(* SessionManager.mu) or what a goroutine does between two of them.        *)
(*                                                                         *)
(* RemoveSession stops the session with SessionManager.mu held, and that   *)
(* may never return: the session's queue may have ended by itself and take *)
(* no kill any more (queue.go:140-142, module Session).  The mutex is then *)
(* held for good.  What an Apply that waits for it keeps back, with        *)
(* Supervisor.mu held, is left out.                                        *)
(*                                                                         *)
(* A call identity is one INVITE.  SIP and RTP are external: they may make *)
(* any exchange fail and end any dialog.                                   *)
(***************************************************************************)
EXTENDS Naturals, FiniteSets

CONSTANTS
  Listener,    \* numbered in the order Supervisor.Stop takes them
  Call,
  ListenerOf,  \* the listener a call arrives at
  Limits,      \* values SIP.MaxConcurrentCalls takes
  None

ASSUME CallAssumption ==
  /\ Listener \subseteq Nat /\ IsFiniteSet(Listener) /\ IsFiniteSet(Call)
  /\ ListenerOf \in [Call -> Listener]
  /\ Limits \subseteq Nat \ {0} /\ Limits # {}
  /\ None \notin Call

VARIABLES
  \* per call
  pc,          \* where its INVITE handler / dialog monitor is
  reader,      \* where its DTMF read loop is
  clean,       \* clean[c][who]: where who's cleanupCall(c) is
  keysClosed,  \* calls whose keyChannel and hookChannel are closed
  cleanupDone, \* calls whose cleanupDone channel is closed
  \* per listener
  accepting, pending,
  active,      \* the union of the listeners' activeCalls
  drainer,     \* where the drain goroutine is
  stop,        \* where the body of Client.Stop is
  stopper,     \* who runs it
  sweep,       \* the calls it has still to clean up
  sweeping,    \* the one it is at
  \* SessionManager
  sessions, limit,
  blocked,     \* the call whose session's Stop never returns, with mu held
  \* the process
  main,        \* where Supervisor.Stop is
  crashed      \* the run-time panic that ended the process

callVars     == <<pc, reader, clean, keysClosed, cleanupDone>>
listenerVars == <<accepting, pending, active>>
stopVars     == <<drainer, stop, stopper, sweep, sweeping>>
manager      == <<sessions, limit, blocked>>
vars == <<callVars, listenerVars, stopVars, manager, main, crashed>>

Cleaner == {"monitor", "stop"}

CallTypes ==
  /\ pc \in [Call -> {"idle", "setup", "creating", "created", "failed", "ready", "registered",
                      "waiting", "cleaning", "returned"}]
  /\ reader \in [Call -> {"off", "top", "reading", "done"}]
  /\ clean \in [Call -> [Cleaner -> {"none", "closing", "finishing", "done"}]]
  /\ keysClosed \subseteq Call /\ cleanupDone \subseteq Call

SharedTypes ==
  /\ accepting \in [Listener -> BOOLEAN] /\ pending \in [Listener -> Nat]
  /\ active \subseteq Call
  /\ sessions \subseteq Call /\ limit \in Limits /\ blocked \in Call \cup {None}
  /\ main \in {"running", "stopping", "stopped"}
  /\ crashed \in {"no", "send_on_closed", "double_close"}

StopTypes ==
  /\ drainer \in [Listener -> {"idle", "polling", "leaving", "stopping", "done"}]
  /\ stop \in [Listener -> {"idle", "begun", "sweeping", "done"}]
  /\ stopper \in [Listener -> {"none", "drain", "supervisor"}]
  /\ sweep \in [Listener -> SUBSET Call] /\ sweeping \in [Listener -> Call \cup {None}]

TypeOK == CallTypes /\ SharedTypes /\ StopTypes

Init ==
  /\ pc = [c \in Call |-> "idle"] /\ reader = [c \in Call |-> "off"]
  /\ clean = [c \in Call |-> [w \in Cleaner |-> "none"]]
  /\ keysClosed = {} /\ cleanupDone = {}
  /\ accepting = [l \in Listener |-> TRUE] /\ pending = [l \in Listener |-> 0]
  /\ active = {}
  /\ drainer = [l \in Listener |-> "idle"]
  /\ stop = [l \in Listener |-> "idle"] /\ stopper = [l \in Listener |-> "none"]
  /\ sweep = [l \in Listener |-> {}] /\ sweeping = [l \in Listener |-> None]
  /\ sessions = {} /\ limit \in Limits /\ blocked = None
  /\ main = "running" /\ crashed = "no"

\* From the reservation to the entry in activeCalls.
BeingSetUp == {"setup", "creating", "created", "failed", "ready"}

CallsOf(l) == {c \in Call : ListenerOf[c] = l}

\* Mutant: a call being set up does not count.
MutRegisteredOnly(l) == Cardinality(active \cap CallsOf(l))

ActiveCalls(l) == Cardinality(active \cap CallsOf(l)) + pending[l]

\* c.ctx is cancelled, and with it the context of each of the listener's calls.
Cancelled(c) == stop[ListenerOf[c]] \in {"sweeping", "done"}

Goto(c, label) == pc' = [pc EXCEPT ![c] = label]

\* releasePendingCall, deferred until the call is in activeCalls.
ReleasePending(c) == pending' = [pending EXCEPT ![ListenerOf[c]] = @ - 1]

-----------------------------------------------------------------------------
(* The INVITE handler.                                                     *)

\* beginIncomingCall: 503 when the listener no longer accepts.
Invite(c) ==
  /\ pc[c] = "idle" /\ stop[ListenerOf[c]] # "done"
  /\ IF accepting[ListenerOf[c]]
     THEN /\ pending' = [pending EXCEPT ![ListenerOf[c]] = @ + 1]
          /\ Goto(c, "setup")
     ELSE Goto(c, "returned") /\ UNCHANGED pending
  /\ UNCHANGED <<reader, clean, keysClosed, cleanupDone, accepting, active, stopVars,
                 manager, main, crashed>>

\* Source, digest, route, provisional responses, answer or audio sink failed ...
Refuse(c) ==
  /\ pc[c] = "setup"
  /\ ReleasePending(c)
  /\ Goto(c, "returned")
  /\ UNCHANGED <<reader, clean, keysClosed, cleanupDone, accepting, active, stopVars,
                 manager, main, crashed>>

\* ... or the call is answered.
Answer(c) ==
  /\ pc[c] = "setup"
  /\ Goto(c, "creating")
  /\ UNCHANGED <<reader, clean, keysClosed, cleanupDone, listenerVars, stopVars,
                 manager, main, crashed>>

\* SessionManager.CreateSession.
CreateSession(c) ==
  /\ pc[c] = "creating" /\ blocked = None
  /\ IF Cardinality(sessions) < limit
     THEN sessions' = sessions \cup {c} /\ Goto(c, "created") /\ UNCHANGED pending
     ELSE ReleasePending(c) /\ Goto(c, "returned") /\ UNCHANGED sessions
  /\ UNCHANGED <<reader, clean, keysClosed, cleanupDone, accepting, active, stopVars,
                 limit, blocked, main, crashed>>

\* SIPPhone.Init starts the DTMF read loop, or fails ...
InitPhone(c) ==
  /\ pc[c] = "created"
  /\ \/ reader' = [reader EXCEPT ![c] = "top"] /\ Goto(c, "ready")
     \/ Goto(c, "failed") /\ UNCHANGED reader
  /\ UNCHANGED <<clean, keysClosed, cleanupDone, listenerVars, stopVars, manager,
                 main, crashed>>

\* ... and the session, which was never started, is removed.
InitFailed(c) ==
  /\ pc[c] = "failed" /\ blocked = None
  /\ sessions' = sessions \ {c}
  /\ ReleasePending(c)
  /\ Goto(c, "returned")
  /\ UNCHANGED <<reader, clean, keysClosed, cleanupDone, accepting, active, stopVars,
                 limit, blocked, main, crashed>>

\* The call enters activeCalls and its reservation ends, under one lock.
Register(c) ==
  /\ pc[c] = "ready"
  /\ active' = active \cup {c}
  /\ ReleasePending(c)
  /\ Goto(c, "registered")
  /\ UNCHANGED <<reader, clean, keysClosed, cleanupDone, accepting, stopVars, manager, main, crashed>>

\* monitorDialog looks its call up; when somebody has cleaned it up already, it
\* returns before it has deferred close(cleanupDone).
Monitor(c) ==
  /\ pc[c] = "registered"
  /\ Goto(c, IF c \in active THEN "waiting" ELSE "returned")
  /\ UNCHANGED <<reader, clean, keysClosed, cleanupDone, listenerVars, stopVars,
                 manager, main, crashed>>

\* cleanupCall's first critical section: only the goroutine that deletes the
\* call from activeCalls goes on.
Take(c, who) ==
  /\ active' = active \ {c}
  /\ clean' = [clean EXCEPT ![c][who] = IF c \in active THEN "closing" ELSE "done"]

MonitorWakes(c) ==
  /\ pc[c] = "waiting" /\ (Cancelled(c) \/ reader[c] = "done")
  /\ Take(c, "monitor")
  /\ Goto(c, "cleaning")
  /\ UNCHANGED <<reader, keysClosed, cleanupDone, accepting, pending, stopVars, manager, main, crashed>>

\* The deferred close(cleanupDone).
MonitorReturns(c) ==
  /\ pc[c] = "cleaning" /\ clean[c]["monitor"] = "done"
  /\ cleanupDone' = cleanupDone \cup {c}
  /\ Goto(c, "returned")
  /\ UNCHANGED <<reader, clean, keysClosed, listenerVars, stopVars, manager,
                 main, crashed>>

-----------------------------------------------------------------------------
(* cleanupCall after the delete.                                           *)

\* cancelFunc, then SIPPhone.Close: cancel the read loop, close both channels.
\* The recorder, the output stream and the audio source are stopped with it.
CleanupClose(c, who) ==
  /\ clean[c][who] = "closing"
  /\ keysClosed' = keysClosed \cup {c}
  /\ crashed' = IF c \in keysClosed THEN "double_close" ELSE crashed
  /\ clean' = [clean EXCEPT ![c][who] = "finishing"]
  /\ UNCHANGED <<pc, reader, cleanupDone, listenerVars, stopVars, manager, main>>

\* Mutant: the session stays registered.
MutKeepSession(c, who) ==
  /\ clean[c][who] = "finishing" /\ blocked = None
  /\ clean' = [clean EXCEPT ![c][who] = "done"]
  /\ UNCHANGED <<pc, reader, keysClosed, cleanupDone, listenerVars, stopVars, manager, main, crashed>>

\* RemoveSession and Hangup.  RemoveSession stops the session with the mutex held:
\* when its Stop does not return, neither does this, nor anybody who wants the mutex.
CleanupFinish(c, who) ==
  /\ clean[c][who] = "finishing" /\ blocked = None
  /\ \/ /\ sessions' = sessions \ {c}
        /\ clean' = [clean EXCEPT ![c][who] = "done"]
        /\ UNCHANGED blocked
     \/ c \in sessions /\ blocked' = c /\ UNCHANGED <<sessions, clean>>
  /\ UNCHANGED <<pc, reader, keysClosed, cleanupDone, listenerVars, stopVars, limit,
                 main, crashed>>

-----------------------------------------------------------------------------
(* The DTMF read loop.                                                     *)

ReaderChecks(c) ==
  /\ reader[c] = "top"
  /\ reader' = [reader EXCEPT ![c] = IF c \in keysClosed THEN "done" ELSE "reading"]
  /\ UNCHANGED <<pc, clean, keysClosed, cleanupDone, listenerVars, stopVars, manager, main, crashed>>

\* A packet: audio, or one that completes a digit for keyChannel.
ReaderReads(c) ==
  /\ reader[c] = "reading"
  /\ reader' = [reader EXCEPT ![c] = "top"]
  /\ \/ UNCHANGED crashed
     \/ c \in keysClosed /\ crashed' = "send_on_closed"
  /\ UNCHANGED <<pc, clean, keysClosed, cleanupDone, listenerVars, stopVars, manager, main>>

\* The dialog or its media ended: a BYE, a hangup by the IVR, our own Hangup.
ReaderEnds(c) ==
  /\ reader[c] = "reading"
  /\ reader' = [reader EXCEPT ![c] = "done"]
  /\ UNCHANGED <<pc, clean, keysClosed, cleanupDone, listenerVars, stopVars, manager, main, crashed>>

-----------------------------------------------------------------------------
(* Client.Stop: the body of stopOnce.                                      *)

Begin(l, who) ==
  IF stop[l] # "idle" THEN UNCHANGED <<stop, stopper>>
  ELSE /\ stop' = [stop EXCEPT ![l] = "begun"]
       /\ stopper' = [stopper EXCEPT ![l] = who]

\* cancel, then the snapshot of activeCalls.
StopSnapshot(l) ==
  /\ stop[l] = "begun"
  /\ stop' = [stop EXCEPT ![l] = "sweeping"]
  /\ sweep' = [sweep EXCEPT ![l] = active \cap CallsOf(l)]
  /\ UNCHANGED <<callVars, listenerVars, drainer, stopper, sweeping, manager,
                 main, crashed>>

StopTakes(l, c) ==
  /\ stop[l] = "sweeping" /\ sweeping[l] = None /\ c \in sweep[l]
  /\ sweeping' = [sweeping EXCEPT ![l] = c]
  /\ Take(c, "stop")
  /\ UNCHANGED <<pc, reader, keysClosed, cleanupDone, accepting, pending, drainer, stop,
                 stopper, sweep, manager, main, crashed>>

\* <-cc.cleanupDone
StopAwaits(l, c) ==
  /\ sweeping[l] = c /\ clean[c]["stop"] = "done" /\ c \in cleanupDone
  /\ sweep' = [sweep EXCEPT ![l] = @ \ {c}]
  /\ sweeping' = [sweeping EXCEPT ![l] = None]
  /\ UNCHANGED <<callVars, listenerVars, drainer, stop, stopper, manager, main,
                 crashed>>

\* ua.Close and the "stopped" event.
StopCloses(l) ==
  /\ stop[l] = "sweeping" /\ sweep[l] = {}
  /\ stop' = [stop EXCEPT ![l] = "done"]
  /\ UNCHANGED <<callVars, listenerVars, drainer, stopper, sweep, sweeping, manager, main, crashed>>

-----------------------------------------------------------------------------
(* The supervisor.                                                         *)

\* beginDrainLocked: Drain, and the goroutine that polls ActiveCalls.
Drain(l) ==
  /\ main = "running" /\ drainer[l] = "idle"
  /\ accepting' = [accepting EXCEPT ![l] = FALSE]
  /\ drainer' = [drainer EXCEPT ![l] = "polling"]
  /\ UNCHANGED <<callVars, pending, active, stop, stopper, sweep, sweeping, manager, main, crashed>>

\* The drain goroutine sees no call ...
DrainIdle(l) ==
  /\ drainer[l] = "polling" /\ ActiveCalls(l) = 0
  /\ drainer' = [drainer EXCEPT ![l] = "leaving"]
  /\ UNCHANGED <<callVars, listenerVars, stop, stopper, sweep, sweeping, manager,
                 main, crashed>>

\* ... and calls Stop.
DrainStops(l) ==
  /\ drainer[l] = "leaving"
  /\ drainer' = [drainer EXCEPT ![l] = "stopping"]
  /\ Begin(l, "drain")
  /\ UNCHANGED <<callVars, listenerVars, sweep, sweeping, manager, main, crashed>>

\* Mutant: only the caller that ran the body gets out of stopOnce.
MutOwnStopOnly(l) ==
  /\ drainer[l] = "stopping" /\ stop[l] = "done" /\ stopper[l] = "drain"
  /\ drainer' = [drainer EXCEPT ![l] = "done"]
  /\ UNCHANGED <<callVars, listenerVars, stop, stopper, sweep, sweeping, manager,
                 main, crashed>>

\* A second caller of Stop waits in stopOnce for the first.
DrainReturns(l) ==
  /\ drainer[l] = "stopping" /\ stop[l] = "done"
  /\ drainer' = [drainer EXCEPT ![l] = "done"]
  /\ UNCHANGED <<callVars, listenerVars, stop, stopper, sweep, sweeping, manager,
                 main, crashed>>

\* Apply: a new SIP.MaxConcurrentCalls for future calls.
SetLimit ==
  /\ main = "running" /\ blocked = None
  /\ limit' \in Limits \ {limit}
  /\ UNCHANGED <<callVars, listenerVars, stopVars, sessions, blocked, main, crashed>>

\* Supervisor.Stop: every listener in turn ...
MainStop ==
  /\ main = "running"
  /\ main' = "stopping"
  /\ UNCHANGED <<callVars, listenerVars, stopVars, manager, crashed>>

MainStops(l) ==
  /\ main = "stopping" /\ stop[l] = "idle"
  /\ \A m \in Listener : m < l => stop[m] = "done"
  /\ Begin(l, "supervisor")
  /\ UNCHANGED <<callVars, listenerVars, drainer, sweep, sweeping, manager, main,
                 crashed>>

\* ... then drainWG.Wait and SessionManager.StopAll, which may meet a session whose
\* Stop does not return.  A session starts when its call is in activeCalls.
MainReturns ==
  /\ main = "stopping" /\ blocked = None
  /\ \A l \in Listener : stop[l] = "done" /\ drainer[l] \in {"idle", "done"}
  /\ \/ main' = "stopped" /\ sessions' = {} /\ UNCHANGED blocked
     \/ /\ blocked' \in {c \in sessions : pc[c] \notin {"created", "failed", "ready"}}
        /\ UNCHANGED <<main, sessions>>
  /\ UNCHANGED <<callVars, listenerVars, stopVars, limit, crashed>>

-----------------------------------------------------------------------------
Alive == crashed = "no"

Handler(c) == Refuse(c) \/ Answer(c) \/ CreateSession(c) \/ InitPhone(c) \/ InitFailed(c)
              \/ Register(c) \/ Monitor(c) \/ MonitorWakes(c) \/ MonitorReturns(c)
Cleanup(c) == \E who \in Cleaner : CleanupClose(c, who) \/ CleanupFinish(c, who)
Reader(c)  == ReaderChecks(c) \/ ReaderReads(c) \/ ReaderEnds(c)
Stopping(l) == StopSnapshot(l) \/ (\E c \in Call : StopTakes(l, c) \/ StopAwaits(l, c))
               \/ StopCloses(l)
Draining(l) == DrainIdle(l) \/ DrainStops(l) \/ DrainReturns(l)
Main == SetLimit \/ MainStop \/ MainReturns \/ \E l \in Listener : MainStops(l)

Next ==
  /\ Alive
  /\ \/ \E c \in Call : Invite(c) \/ Handler(c) \/ Cleanup(c) \/ Reader(c)
     \/ \E l \in Listener : Drain(l) \/ Stopping(l) \/ Draining(l)
     \/ Main

Spec == Init /\ [][Next]_vars

(***************************************************************************)
(* Fairness: goroutines run, and calls end: the read loop that keeps       *)
(* reading packets meets the end of its dialog at last (strong fairness,   *)
(* because it is back at the top of the loop again and again).  Nobody is  *)
(* obliged to call, to save a configuration or to stop the process.  That  *)
(* RemoveSession returns is not assumed: a fair step of it may be the one  *)
(* that blocks, and then none of the steps that need the mutex is enabled. *)
(***************************************************************************)
Fairness ==
  /\ \A c \in Call : /\ WF_vars(Alive /\ Handler(c)) /\ WF_vars(Alive /\ Cleanup(c))
                     /\ WF_vars(Alive /\ ReaderChecks(c))
                     /\ SF_vars(Alive /\ ReaderEnds(c))
  /\ \A l \in Listener : WF_vars(Alive /\ Stopping(l)) /\ WF_vars(Alive /\ Draining(l))
                         /\ WF_vars(Alive /\ MainStops(l))
  /\ WF_vars(Alive /\ MainReturns)

FairSpec == Spec /\ Fairness
-----------------------------------------------------------------------------
(* Safety.                                                                 *)

\* A reload that drains a listener never tears a call down: once the drain
\* goroutine itself has called Stop, no call of the listener is being set up,
\* active or about to be, although it read ActiveCalls without a lock around
\* Stop (server.go:402-422, 493-501, 766-771; supervisor.go:367-386).
DrainTearsNothingDown ==
  \A c \in Call : stopper[ListenerOf[c]] = "drain" =>
    c \notin active /\ pc[c] \in {"idle", "cleaning", "returned"}

\* A session in the shared SessionManager belongs to a call that is set up,
\* active or being cleaned up: none is left behind to use up the limit on
\* concurrent calls (server.go:647-660, 721-763; manager.go:114-126).
NoSessionLeak ==
  \A c \in sessions :
    \/ pc[c] \in {"created", "failed", "ready"}
    \/ c \in active
    \/ \E who \in Cleaner : clean[c][who] \in {"closing", "finishing"}

\* However the dialog monitor and Stop interleave, a call is cleaned up by one
\* of them: its channels are never closed twice (server.go:465-466, 721-731).
NoDoubleClose == crashed # "double_close"

\* A listener that still takes calls has room for them in the accounting that
\* the drain relies on: every call between its reservation and its entry in
\* activeCalls is counted once (server.go:412-421, 676-680).
ReservationsCounted ==
  \A l \in Listener :
    pending[l] = Cardinality({c \in CallsOf(l) : pc[c] \in BeingSetUp})

-----------------------------------------------------------------------------
(* Liveness.                                                               *)

\* Stop waits for a call whose monitor has returned without closing cleanupDone.
Stuck(l) == sweeping[l] # None /\ pc[sweeping[l]] = "returned" /\ sweeping[l] \notin cleanupDone

\* A goroutine of the call waits for the SessionManager's mutex, in CreateSession or
\* RemoveSession, or for the Stop of its own session.
Waits(c) ==
  blocked # None /\ (pc[c] \in {"creating", "failed"} \/ \E who \in Cleaner : clean[c][who] = "finishing")

\* A drained listener is stopped once its calls have ended, unless its Stop hangs on
\* a call it cleaned up before the call's monitor looked it up, or one of its own
\* calls is held up by a session, of any listener, whose Stop does not return.
DrainCompletes ==
  \A l \in Listener :
    drainer[l] = "polling" ~>
      drainer[l] = "done" \/ ~Alive \/ Stuck(l) \/ \E c \in CallsOf(l) : Waits(c)

\* A call that was answered ends with its keys closed and its session removed, the
\* latter unless the removal of some session does not return.
CallsAreCleanedUp ==
  \A c \in Call :
    c \in active ~> ~Alive \/ (c \in keysClosed /\ (c \notin sessions \/ Waits(c)))

\* server.go:465-466: "cleanupCall is idempotent through its activeCalls delete,
\* so it is safe if a dialog monitor is finishing at the same time": a Stop
\* that has begun returns, if no session keeps it.
StopReturns ==
  \A l \in Listener : stop[l] = "begun" ~> stop[l] = "done" \/ ~Alive \/ blocked # None

\* server.go:454: "Stop gracefully stops the SIP client and unregisters": no
\* key press during a shutdown takes the process down with a run-time panic.
StopIsGraceful == crashed # "send_on_closed"
=============================================================================
