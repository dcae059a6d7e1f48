--------------------------- MODULE MCEnrollment ---------------------------
(* Instances of Enrollment for TLC. *)
EXTENDS Enrollment, TLC

CONSTANTS w1, w2, k1, k2

Alike == Permutations(Worker) \cup Permutations(Identity)
=============================================================================
