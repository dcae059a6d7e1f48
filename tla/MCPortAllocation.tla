-------------------------- MODULE MCPortAllocation --------------------------
(* Instances of PortAllocation for TLC. *)
EXTENDS PortAllocation

ThreeIds == {1, 2, 3}
BothTransports == {"udp", "tcp"}

AnyConfiguration ==
  {in \in UNION {[1..n -> Connection] : n \in 1..Cardinality(ConnId)} : Valid(in)}
=============================================================================
