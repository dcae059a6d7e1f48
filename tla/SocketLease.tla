---------------------------- MODULE SocketLease ----------------------------
(***************************************************************************)
(* What the listeners of one process owe the operating system: a socket    *)
(* (transport:port) has at most one holder, it is taken only when nobody   *)
(* holds it, and given back before somebody else takes it.  Supervisor     *)
(* implements this (SupervisorProofs, and run supervisor_reload).           *)
(***************************************************************************)
CONSTANTS Socket, Holder

VARIABLE held   \* held[s]: the holders of s, none or one

Init == held = [s \in Socket |-> {}]

Acquire(s, h) ==
  /\ held[s] = {}
  /\ held' = [held EXCEPT ![s] = {h}]

Release(s) ==
  /\ held[s] # {}
  /\ held' = [held EXCEPT ![s] = {}]

Next == \E s \in Socket : Release(s) \/ \E h \in Holder : Acquire(s, h)

Spec == Init /\ [][Next]_held
=============================================================================
