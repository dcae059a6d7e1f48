--------------------------- MODULE PortAllocation ---------------------------
(***************************************************************************)
(* Supervisor.allocatePortsLocked (core/sip/supervisor.go:183-225): the    *)
(* local ports of one saved configuration after another.  Apply calls it   *)
(* with s.mu held, before it looks at a listener; an iteration of each of  *)
(* its loops is a step.  What it allocates are the sockets that module     *)
(* Supervisor works with.                                                  *)
(*                                                                         *)
(* A connection is its id (numbered in sort order), its transport and its  *)
(* local port, 0 for "allocate one".  Transports are taken normalised.     *)
(***************************************************************************)
EXTENDS Integers, Sequences, FiniteSets

CONSTANTS
  ConnId, Transport,
  Explicit,     \* explicit local ports a configuration may name
  FirstPort,    \* 5060
  Inputs        \* the configurations that are saved: sequences of connections

Unset == 0

Connection == [id : ConnId, transport : Transport, port : Explicit \cup {Unset}]

Key(c) == <<c.transport, c.port>>
IsAuto(c) == c.port = Unset

\* What Definition.Validate lets through: ids are unique, and no two connections
\* name the same socket.
Valid(in) ==
  \A i, k \in DOMAIN in :
    \/ in[i].id = in[k].id
    \/ ~IsAuto(in[i]) /\ ~IsAuto(in[k]) /\ Key(in[i]) = Key(in[k])
    => i = k

ASSUME AllocationAssumption ==
  /\ ConnId \subseteq Nat \ {0} /\ FirstPort \in Nat \ {0} /\ Explicit \subseteq Nat \ {0}
  /\ Inputs \subseteq Seq(Connection) /\ \A in \in Inputs : Valid(in)

VARIABLES
  autoPorts,   \* Supervisor.autoPorts: remembered ports, Unset for none
  at,          \* where the first loop is in the list; 0 outside of a call
  input,       \* the list
  out,         \* its ports so far, Unset for none
  used,        \* sockets that are taken
  automatic,   \* indexes that are left to the second loop
  last         \* what the last call returned, with the port that was asked for

locals == <<at, input, out, used, automatic>>
portVars == <<autoPorts, locals, last>>

PortsInit ==
  /\ autoPorts = [id \in ConnId |-> Unset] /\ last = <<>>
  /\ at = 0 /\ input = <<>> /\ out = <<>> /\ used = {} /\ automatic = {}

\* The call, up to its first loop over the automatic connections.
Begins(in) ==
  /\ at = 0 /\ at' = 1
  /\ input' = in /\ out' = [i \in DOMAIN in |-> in[i].port]
  /\ used' = {Key(in[i]) : i \in {k \in DOMAIN in : ~IsAuto(in[k])}}
  /\ autoPorts' = [id \in ConnId |->
       IF \E i \in DOMAIN in : in[i].id = id /\ ~IsAuto(in[i]) THEN Unset ELSE autoPorts[id]]
  /\ UNCHANGED <<automatic, last>>

\* Mutant: a remembered port is kept without asking who uses it.
MutKeepsAlways(c) == autoPorts[c.id] # Unset

\* Mutant: every reload allocates all automatic ports anew.
MutShifts(c) == FALSE

\* c keeps its remembered port.
Keeps(c) == autoPorts[c.id] # Unset /\ <<c.transport, autoPorts[c.id]>> \notin used

\* One iteration of the loop in the order of the list.
Looks ==
  /\ at \in DOMAIN input /\ at' = at + 1
  /\ LET c == input[at] IN
     \/ ~IsAuto(c) /\ UNCHANGED <<out, used, automatic>>
     \/ /\ IsAuto(c) /\ Keeps(c)
        /\ out' = [out EXCEPT ![at] = autoPorts[c.id]]
        /\ used' = used \cup {<<c.transport, autoPorts[c.id]>>}
        /\ UNCHANGED automatic
     \/ /\ IsAuto(c) /\ ~Keeps(c)
        /\ automatic' = automatic \cup {at}
        /\ UNCHANGED <<out, used>>
  /\ UNCHANGED <<autoPorts, input, last>>

\* p is the first free port.
FirstFree(transport, p) ==
  /\ <<transport, p>> \notin used
  /\ \A q \in FirstPort..(p - 1) : <<transport, q>> \in used

\* One iteration of the loop in the order of the ids.
Grants ==
  /\ at > Len(input)
  /\ \E i \in automatic, p \in FirstPort..(FirstPort + Cardinality(used)) :
       /\ \A k \in automatic : input[i].id <= input[k].id
       /\ FirstFree(input[i].transport, p)
       /\ out' = [out EXCEPT ![i] = p]
       /\ autoPorts' = [autoPorts EXCEPT ![input[i].id] = p]
       /\ used' = used \cup {<<input[i].transport, p>>}
       /\ automatic' = automatic \ {i}
  /\ UNCHANGED <<at, input, last>>

\* The call returns; connections that are gone are forgotten.
Returns ==
  /\ at > Len(input) /\ automatic = {}
  /\ last' = [i \in DOMAIN input |-> [conn |-> input[i], port |-> out[i]]]
  /\ autoPorts' = [id \in ConnId |->
       IF \E i \in DOMAIN input : input[i].id = id /\ IsAuto(input[i]) THEN autoPorts[id] ELSE Unset]
  /\ at' = 0 /\ input' = <<>> /\ out' = <<>> /\ used' = {}
  /\ UNCHANGED automatic

PortsNext == (\E in \in Inputs : Begins(in)) \/ Looks \/ Grants \/ Returns

PortsSpec == PortsInit /\ [][PortsNext]_portVars
-----------------------------------------------------------------------------
Socket(r) == <<r.conn.transport, r.port>>

\* The connections of one configuration get a socket each, whatever ports were
\* remembered: the supervisor starts no listener on another's (186-217).
SocketsDistinct ==
  \A i, k \in DOMAIN last : Socket(last[i]) = Socket(last[k]) => i = k

\* The record of an automatic connection in s.
AutoIn(s, id) == {i \in DOMAIN s : s[i].conn.id = id /\ IsAuto(s[i].conn)}

\* r, an automatic connection before a reload, moves with its transport unchanged.
Moves(r, to) == r.port # to.port /\ r.conn.transport = to.conn.transport

\* A connection of s names the socket itself.
NamedIn(s, socket) == \E k \in DOMAIN s : ~IsAuto(s[k].conn) /\ Socket(s[k]) = socket

\* Inserting, removing or reordering connections moves no automatic port; only
\* an explicit port, or another automatic connection that changes its
\* transport, takes a port away (183-185, README.md:86-88).
StableAcrossEdits ==
  [][\A id \in ConnId : \A i \in AutoIn(last, id), k \in AutoIn(last', id) :
       Moves(last[i], last'[k]) =>
         \/ NamedIn(last', Socket(last[i]))
         \/ \E other \in ConnId \ {id} : \E m \in AutoIn(last, other), n \in AutoIn(last', other) :
              last[m].conn.transport # last'[n].conn.transport]_portVars

=============================================================================
