----------------------------- MODULE MCEditor -----------------------------
(* Instances of Editor for TLC. *)
EXTENDS Editor, TLC

CONSTANTS e1, e2, e3, l1, l2

\* After a write has replaced a version nobody compared with, the property says
\* nothing: TLC stops there.
NothingReplaced == ~replaced

Alike == Permutations(Change) \cup Permutations(Load)
=============================================================================
