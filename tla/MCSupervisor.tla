---------------------------- MODULE MCSupervisor ----------------------------
(* Instances of Supervisor for TLC. *)
EXTENDS Supervisor, FiniteSets

CONSTANTS s1, s2, s3

TwoIds == {1, 2}

\* Validate (core/functions/sip_config.go:46-152) and allocatePortsLocked let
\* through only configurations with at least one connection in which no two
\* share a socket.
Legal(settings) ==
  {f \in [Id -> settings \cup {Absent, NoCred}] :
     /\ \E id \in Id : f[id] # Absent
     /\ \A i, j \in Id : i # j /\ f[i] \in settings /\ f[j] \in settings
          => f[i].sock # f[j].sock}

AnySaved == Legal(Setting)
\* No NoCred entries: port moves between connections that are all configured.
ConfiguredSaved == {f \in AnySaved : \A id \in Id : f[id] # NoCred}
\* Both connections present and configured, one shape: the port moves only.
PortMoves == {f \in ConfiguredSaved : \A id \in Id : f[id] # Absent}

Six == 1..6
Four == 1..4
=============================================================================
