---------------------------- MODULE StatusFeed ----------------------------
(***************************************************************************)
(* How the state of a SIP connection reaches the operator's page: the      *)
(* supervisor's report and the queue behind it (benis-phone.go), the one   *)
(* writer of the bridge's socket (core/functions/remote_ws.go), the broker *)
(* that stores and fans out (ui/worker/durable/configBroker.ts), and the   *)
(* page that asks for a snapshot on every message and every 30 seconds     *)
(* (ui/src/routes/ConfigEditor.tsx, SIPConnectionsEditor.tsx).             *)
(*                                                                         *)
(* One bridge, one page.  A connection has several reporters: Apply, and   *)
(* the goroutines of its listener and of one that drains (server.go).  An  *)
(* event is its connection and state; the number that a report keeps until *)
(* it is queued only says which is the newest.  Queries to the broker's    *)
(* own storage are atomic: it takes no other event while one is under way. *)
(* What was written to a socket that has closed is lost from the first     *)
(* message that the broker has not read.                                   *)
(***************************************************************************)
EXTENDS Naturals, Sequences, FiniteSets, SequencesExt

CONSTANTS
  Conn,        \* SIP connections
  State,       \* what a report says of one: "ready", "error", "registering", ...
  QueueCap,    \* capacity of statusChannel
  WireCap,     \* bound: messages a socket takes before a write blocks
  MaxEvents,   \* MAX_EVENTS
  MaxReport,   \* bound: reports of each connection
  MaxConnect,  \* bound: sockets the bridge ever opens
  MaxReply,    \* bound: answers on their way to the page
  None

ASSUME StatusFeedAssumption ==
  /\ IsFiniteSet(Conn) /\ None \notin Conn \cup State
  /\ {QueueCap, WireCap, MaxEvents, MaxReport, MaxConnect, MaxReply} \subseteq Nat \ {0}

VARIABLES
  current,    \* Supervisor.current: the latest state of each connection
  reporting,  \* reports that are stored but not queued yet
  reports,    \* number of reports made of each
  queue,      \* statusChannel
  uplink,      \* the bridge's socket
  greeting,   \* initialMessages that are still to be written
  sent,       \* written, not yet read by the broker
  connects,   \* sockets opened
  behind,     \* history: connections whose newest event found the queue full, or
              \* was queued before an older one, and which no later socket has been
              \* greeted with after all that was queued before it
  unrepaired, \* history: the same, without a reconnect since
  seen,       \* the broker's record of this instance, by age
  log,        \* and of its connections: the states of their events; old: these
               \* have passed the retention, and are perhaps deleted
  view,       \* the snapshot that the page shows
  replies     \* snapshots on their way to it

supervisor == <<current, reporting, reports>>
socket == <<uplink, greeting, sent, connects>>
losses == <<behind, unrepaired>>
broker == <<seen, log>>
page == <<view, replies>>
feedVars == <<supervisor, queue, socket, losses, broker, page>>

Event == [conn : Conn, state : State]
Report == [conn : Conn, state : State, number : 1..MaxReport]
Seen == {"never", "now", "late", "gone"}  \* late: 90 s, gone: 7 days
View == [seen : Seen, state : [Conn -> State \cup {None}]]
Hello == [conn |-> None, state |-> None]

FeedTypeOK ==
  /\ current \in [Conn -> State \cup {None}]
  /\ reporting \subseteq Report /\ behind \subseteq Conn /\ unrepaired \subseteq behind
  /\ reports \in [Conn -> 0..MaxReport]
  /\ queue \in Seq(Event) /\ Len(queue) <= QueueCap
  /\ uplink \in {"down", "up"}
  /\ greeting \in Seq(Event \cup {Hello})
  /\ sent \in Seq(Event \cup {Hello}) /\ Len(sent) <= WireCap
  /\ connects \in 0..MaxConnect
  /\ seen \in Seen
  /\ log \in [Conn -> [states : Seq(State), old : BOOLEAN]]
  /\ \A c \in Conn : Len(log[c].states) <= MaxEvents
  /\ view \in View /\ replies \subseteq View

Blank == [seen |-> "never", state |-> [c \in Conn |-> None]]

FeedInit ==
  /\ current = [c \in Conn |-> None] /\ reporting = {} /\ reports = [c \in Conn |-> 0]
  /\ queue = <<>>
  /\ uplink = "down" /\ greeting = <<>> /\ sent = <<>> /\ connects = 0
  /\ behind = {} /\ unrepaired = {}
  /\ seen = "never" /\ log = [c \in Conn |-> [states |-> <<>>, old |-> FALSE]]
  /\ view = Blank /\ replies = {}

-----------------------------------------------------------------------------
(* The bridge.                                                             *)

\* Supervisor.report stores the event and lets go of statusMu, ...
Reports(c, s) ==
  /\ reports[c] < MaxReport
  /\ current' = [current EXCEPT ![c] = s]
  /\ reports' = [reports EXCEPT ![c] = @ + 1]
  /\ reporting' = reporting \cup {[conn |-> c, state |-> s, number |-> reports[c] + 1]}
  /\ UNCHANGED <<queue, socket, losses, broker, page>>

Newest(r) == r.number = reports[r.conn]

\* Connections whose newest report is not queued yet.
Pending == {r.conn : r \in {q \in reporting : Newest(q)}}

\* ... and the status reporter queues it, unless the queue is full, perhaps after a
\* later report of the same connection.
Queues(r) ==
  LET room == Len(queue) < QueueCap
      stale == IF Newest(r) THEN ~room ELSE room /\ r.conn \notin Pending
      Now(set) == IF stale THEN set \cup {r.conn}
                  ELSE IF Newest(r) THEN set \ {r.conn} ELSE set
  IN
  /\ r \in reporting /\ reporting' = reporting \ {r}
  /\ queue' = IF room THEN Append(queue, [conn |-> r.conn, state |-> r.state]) ELSE queue
  /\ behind' = Now(behind) /\ unrepaired' = Now(unrepaired)
  /\ UNCHANGED <<current, reports, socket, broker, page>>

\* Mutant: a new socket is greeted with a hello alone.
MutInitialMessages == <<Hello>>

\* A hello, and StatusSnapshot in the order of the connections' ids.
InitialMessages ==
  <<Hello>> \o
  [i \in 1..Cardinality({c \in Conn : current[c] # None}) |->
     LET c == SetToSeq({d \in Conn : current[d] # None})[i]
     IN  [conn |-> c, state |-> current[c]]]

Connects ==
  /\ uplink = "down" /\ connects < MaxConnect
  /\ uplink' = "up" /\ connects' = connects + 1
  /\ greeting' = InitialMessages
  /\ unrepaired' = {}
  /\ behind' = {c \in behind : \E i \in DOMAIN queue : queue[i].conn = c}
  /\ UNCHANGED <<supervisor, queue, sent, broker, page>>

\* The writer: first the initial messages, ...
Greets ==
  /\ uplink = "up" /\ greeting # <<>> /\ Len(sent) < WireCap
  /\ sent' = Append(sent, Head(greeting)) /\ greeting' = Tail(greeting)
  /\ UNCHANGED <<supervisor, queue, uplink, connects, losses, broker, page>>

\* ... then what is queued (its heartbeats are left out, see Quiet).
Writes ==
  /\ uplink = "up" /\ greeting = <<>> /\ queue # <<>> /\ Len(sent) < WireCap
  /\ sent' = Append(sent, Head(queue)) /\ queue' = Tail(queue)
  /\ UNCHANGED <<supervisor, uplink, greeting, connects, losses, broker, page>>

\* A read or write fails: what was taken from the queue is not put back.
Drops ==
  /\ uplink = "up"
  /\ uplink' = "down" /\ greeting' = <<>> /\ sent' = <<>>
  /\ UNCHANGED <<supervisor, queue, connects, losses, broker, page>>

-----------------------------------------------------------------------------
(* The broker.                                                             *)

\* webSocketMessage: a status is appended, after what is older than the
\* retention is dropped, and the newest MaxEvents are kept; every message
\* dates the instance.
Receives ==
  LET m == Head(sent) IN
  /\ sent # <<>> /\ sent' = Tail(sent)
  /\ seen' = "now"
  /\ log' = IF m = Hello THEN log
            ELSE LET kept == IF log[m.conn].old THEN <<>> ELSE log[m.conn].states
                     all == Append(kept, m.state)
                 IN  [log EXCEPT ![m.conn] =
                        [states |-> IF Len(all) > MaxEvents THEN Tail(all) ELSE all,
                         old |-> FALSE]]
  /\ UNCHANGED <<supervisor, queue, uplink, greeting, connects, losses, page>>

\* snapshot: a connection whose events are all past the retention is left out,
\* and so is an instance not seen within it, with its connections.
Snapshot ==
  IF seen \in {"never", "gone"} THEN Blank
  ELSE [seen |-> seen,
        state |-> [c \in Conn |-> IF log[c].states = <<>> \/ log[c].old THEN None
                                  ELSE Last(log[c].states)]]

\* The instance has sent nothing for 90 seconds: a heartbeat every 30 seconds
\* keeps an instance with an open socket from being quiet.
Quiet ==
  /\ uplink = "down" /\ seen = "now" /\ seen' = "late"
  /\ UNCHANGED <<supervisor, queue, socket, losses, log, page>>

\* Seven days pass without another event, with the socket open or not.
Week ==
  /\ reporting = {} /\ sent = <<>>
  /\ log' = [c \in Conn |-> [log[c] EXCEPT !.old = @ \/ log[c].states # <<>>]]
  /\ seen' = IF seen = "late" THEN "gone" ELSE seen
  /\ broker' # broker
  /\ UNCHANGED <<supervisor, queue, socket, losses, page>>

-----------------------------------------------------------------------------
(* The page.                                                               *)

\* Mutant: the page asks once, when it opens.
MutAnswers ==
  /\ Cardinality(replies) < MaxReply
  /\ replies = {} /\ view = Blank
  /\ replies' = {Snapshot}
  /\ UNCHANGED <<supervisor, queue, socket, losses, broker, view>>

\* refresh: after a message, after opening its socket, and from the poll.  The
\* broker answers and deletes the records that have expired.
Answers ==
  /\ Cardinality(replies) < MaxReply
  /\ replies' = replies \cup {Snapshot}
  /\ seen' = IF seen = "gone" THEN "never" ELSE seen
  /\ log' = [c \in Conn |-> IF log[c].old THEN [log[c] EXCEPT !.states = <<>>] ELSE log[c]]
  /\ UNCHANGED <<supervisor, queue, socket, losses, view>>

\* Answers may arrive in any order; the page shows the last to arrive.
Shows(r) ==
  /\ r \in replies
  /\ view' = r /\ replies' = replies \ {r}
  /\ UNCHANGED <<supervisor, queue, socket, losses, broker>>

\* A request that fails is forgotten.
Forgets(r) ==
  /\ r \in replies /\ replies' = replies \ {r}
  /\ UNCHANGED <<supervisor, queue, socket, losses, broker, view>>

FeedNext ==
  \/ \E c \in Conn, s \in State : Reports(c, s)
  \/ \E r \in reporting : Queues(r)
  \/ Connects \/ Greets \/ Writes \/ Drops
  \/ Receives \/ Quiet \/ Week
  \/ Answers \/ \E r \in replies : Shows(r) \/ Forgets(r)

Ends(r) == Shows(r) \/ Forgets(r)

\* The page's timer keeps asking, every request ends, and not all of them fail.
FeedFairness ==
  WF_feedVars(Answers) /\ WF_feedVars(\E r \in replies : Ends(r)) /\ SF_feedVars(Shows(Snapshot))

FeedSpec == FeedInit /\ [][FeedNext]_feedVars /\ FeedFairness

-----------------------------------------------------------------------------
(* What must hold.                                                         *)

\* All that the bridge has to say has been read by the broker.
Settled == uplink = "up" /\ reporting = {} /\ \A q \in {queue, greeting, sent} : q = <<>>

Stored(c) == log[c].states # <<>> /\ Last(log[c].states) = current[c]

\* Messages lost with their socket are made up for by the snapshot that greets
\* the next one, although events queued before it are written after it: the
\* broker ends with the newest state.  The two things that nothing makes up for
\* until the next report or socket are named: the newest event found the queue full
\* (benis-phone.go), or an older one was queued after it, since report lets go of
\* statusMu before it calls the reporter (supervisor.go:388-394, initialMessages,
\* webSocketMessage).
SettledIsCurrent ==
  Settled => \A c \in Conn \ behind :
    current[c] = None \/ Stored(c) \/ log[c].old

\* Whatever answers overtake each other, the page ends with what the broker
\* holds (refresh and its poll).
PageCatchesUp == <>[](view = Snapshot)

\* A full queue leaves the broker stale only until the bridge reconnects.
ReconnectRepairs ==
  Settled => \A c \in Conn \ unrepaired :
    current[c] = None \/ Stored(c) \/ log[c].old
=============================================================================
