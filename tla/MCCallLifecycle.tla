-------------------------- MODULE MCCallLifecycle --------------------------
(* Instances of CallLifecycle for TLC. *)
EXTENDS CallLifecycle, TLC

CONSTANTS c1, c2

OneListener == {1}
BothAtOne == (c1 :> 1) @@ (c2 :> 1)
OneCall == (c1 :> 1)
=============================================================================
