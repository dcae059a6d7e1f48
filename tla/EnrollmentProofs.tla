-------------------------- MODULE EnrollmentProofs --------------------------
(***************************************************************************)
(* Proofs about Enrollment for every number of identities, requests and    *)
(* bridges and every limit: its types; that a bridge saves an id approved  *)
(* for its own key; that a closed enrollment is good for no further        *)
(* approvals; that the pending enrollments stay within the limit; and that *)
(* decisions are not turned round.  OwnBridge is inductive once it also speaks of the id that an    *)
(* enrollment names, which a poll hands to the bridge.                     *)
(***************************************************************************)
EXTENDS Enrollment, FiniteSetTheorems, TLAPS

-----------------------------------------------------------------------------
(* Types.                                                                  *)

LEMMA JobFacts ==
  /\ Idle \in Job
  /\ \A j \in Job : \A step \in Step : [j EXCEPT !.at = step] \in Job
  /\ \A step \in Step : \A k \in Identity \cup {None} : \A b \in Bridge \cup {None} :
       [at |-> step, id |-> k, bridge |-> b] \in Job
  BY DEF Idle, Job, Step

\* What the helpers do to the workers.
LEMMA WorkerTypes ==
  ASSUME TypeOK, NEW w \in Worker
  PROVE  /\ Ends(w) => loc' \in [Worker -> Job]
         /\ \A step \in Step : Goes(w, step) => loc' \in [Worker -> Job]
         /\ \A step \in Step : \A k \in Identity \cup {None} : \A b \in Bridge \cup {None} :
              Starts(w, step, k, b) => loc' \in [Worker -> Job]
<1>1. \A step \in Step : [loc EXCEPT ![w].at = step] = [loc EXCEPT ![w] = [loc[w] EXCEPT !.at = step]]
  BY DEF TypeOK
<1>2. loc[w] \in Job /\ loc \in [Worker -> Job]
  BY DEF TypeOK
<1> QED
  BY <1>1, <1>2, JobFacts DEF Ends, Goes, Starts

\* An answer leaves the program well typed.
LEMMA AnswerTypes ==
  ASSUME TypeOK, NEW w \in Worker, NEW s, NEW b \in Bridge \cup {None}, Answers(w, s, b)
  PROVE  /\ loc' \in [Worker -> Job]
         /\ phase' \in [Identity -> Phase]
         /\ call' \in [Identity -> Worker \cup {None}]
         /\ knows' \in [Identity -> Bridge \cup {None}]
<1>1. Outcome(s) \in Phase
  BY DEF Outcome, Phase
<1>2. loc' \in [Worker -> Job]
  BY WorkerTypes DEF Answers
<1> QED
  BY <1>1, <1>2 DEF Answers, TypeOK, program

\* A request that is about a bridge has one.
HasBridge == \A w \in Worker : loc[w].at \in {"close", "seen", "subscribe"} => loc[w].bridge \in Bridge

LEMMA InitTypeOK == Init => TypeOK /\ HasBridge
  BY JobFacts DEF Init, TypeOK, HasBridge, Status, Phase, Idle

LEMMA NextTypeOK == TypeOK /\ HasBridge /\ [Next]_vars => TypeOK'
<1> SUFFICES ASSUME TypeOK, HasBridge, [Next]_vars PROVE TypeOK'
  OBVIOUS
<1> USE DEF TypeOK, rows, program
<1>s. /\ \A w \in Worker : loc[w].id \in Identity \cup {None} /\ loc[w].bridge \in Bridge \cup {None}
      /\ {"idle", "active", "existing", "count", "insert", "raced", "poll", "status",
          "expire", "deny", "approve", "close", "seen", "subscribe"} \subseteq Step
      /\ {"none", "pending", "overdue", "approved", "denied", "expired"} \subseteq Status
      /\ {"idle", "submitting", "waiting", "polling", "done", "failed"} \subseteq Phase
  BY DEF Job, Step, Status, Phase
<1>1. CASE Rotates
  BY <1>1 DEF Rotates
<1>0. CASE Lists
  <2>1. status' \in [Identity -> Status]
    BY <1>0, <1>s DEF Lists, Marked
  <2> QED
    BY <1>0, <2>1 DEF Lists
<1>2. ASSUME NEW k \in Identity, Loses(k) \/ Restarts(k) \/ Overdue(k) PROVE TypeOK'
  BY <1>2, <1>s DEF Loses, Restarts, Overdue
<1>3. ASSUME NEW b \in Bridge, Disconnects(b) PROVE TypeOK'
  BY <1>3 DEF Disconnects
<1>4. ASSUME NEW w \in Worker, LooksForActive(w) PROVE TypeOK'
  BY <1>4, <1>s, AnswerTypes, WorkerTypes DEF LooksForActive
<1>5. ASSUME NEW w \in Worker, LooksForExisting(w) \/ CountsPending(w) \/ Raced(w) \/ PollAnswers(w)
      PROVE TypeOK'
  <2>1. \A k \in Identity \cup {None} : k \in Identity => named[k] \in Bridge \cup {None}
    OBVIOUS
  <2>2. ASSUME NEW s, NEW b, Answers(w, s, b), b = None \/ b = named[loc[w].id]
        PROVE  /\ loc' \in [Worker -> Job]
               /\ phase' \in [Identity -> Phase]
               /\ call' \in [Identity -> Worker \cup {None}]
               /\ knows' \in [Identity -> Bridge \cup {None}]
    <3>1. CASE b \in Bridge \cup {None}
      BY <2>2, <3>1, AnswerTypes
    <3>2. CASE loc[w].id \notin Identity
      <4>1. Outcome(s) \in Phase
        BY DEF Outcome, Phase
      <4> QED
        BY <2>2, <3>2, <4>1, WorkerTypes DEF Answers
    <3> QED
      BY <2>2, <3>1, <3>2, <1>s
  <2>3. CASE LooksForExisting(w)
    BY <2>2, <2>3, <1>s, WorkerTypes DEF LooksForExisting
  <2>4. CASE CountsPending(w)
    BY <2>2, <2>4, <1>s, WorkerTypes DEF CountsPending
  <2>5. CASE Raced(w)
    BY <2>2, <2>5 DEF Raced
  <2>6. CASE PollAnswers(w)
    BY <2>2, <2>6 DEF PollAnswers
  <2> QED
    BY <1>5, <2>3, <2>4, <2>5, <2>6
<1>6. ASSUME NEW w \in Worker, Inserts(w) PROVE TypeOK'
  BY <1>6, <1>s, AnswerTypes, WorkerTypes DEF Inserts
<1>7. ASSUME NEW w \in Worker, PollMarks(w) \/ Seen(w) PROVE TypeOK'
  BY <1>7, <1>s, WorkerTypes DEF PollMarks, Seen
<1>8. ASSUME NEW w \in Worker, Fails(w) \/ Expires(w) \/ Denies(w) \/ Closes(w) \/ Subscribes(w)
      PROVE TypeOK'
  <2>1. loc' \in [Worker -> Job]
    BY <1>8, WorkerTypes DEF Fails, Expires, Denies, Closes, Subscribes
  <2>2. CASE Fails(w)
    BY <2>1, <2>2 DEF Fails
  <2>3. CASE Expires(w) \/ Denies(w)
    BY <2>1, <2>3, <1>s DEF Expires, Denies
  <2>4. CASE Closes(w) \/ Subscribes(w)
    <3>1. loc[w].bridge \in Bridge
      BY <2>4 DEF Closes, Subscribes, HasBridge
    <3> QED
      BY <2>1, <2>4, <3>1 DEF Closes, Subscribes
  <2> QED
    BY <1>8, <2>2, <2>3, <2>4
<1>9. ASSUME NEW w \in Worker, Approves(w) PROVE TypeOK'
  BY <1>9, <1>s, WorkerTypes DEF Approves
<1>10. ASSUME NEW w \in Worker, NEW k \in Identity,
              Submits(w, k) \/ Polls(w, k) \/ DecisionReads(w, k) \/ Connects(w, k)
       PROVE TypeOK'
  <2>1. CASE Submits(w, k)
    BY <2>1, <1>s, WorkerTypes DEF Submits, Marked
  <2>2. CASE Polls(w, k)
    BY <2>2, <1>s, WorkerTypes DEF Polls
  <2>3. CASE DecisionReads(w, k)
    BY <2>3, <1>s, WorkerTypes DEF DecisionReads
  <2>4. CASE Connects(w, k)
    BY <2>4, <1>s, WorkerTypes DEF Connects
  <2> QED
    BY <1>10, <2>1, <2>2, <2>3, <2>4
<1>11. ASSUME NEW w \in Worker, NEW b \in Bridge, Revokes(w, b) PROVE TypeOK'
  BY <1>11, <1>s, WorkerTypes DEF Revokes
<1>12. CASE UNCHANGED vars
  BY <1>12 DEF vars
<1> QED
  BY <1>0, <1>1, <1>2, <1>3, <1>4, <1>5, <1>6, <1>7, <1>8, <1>9, <1>10, <1>11, <1>12 DEF Next

\* What the helpers leave of where the workers are.
LEMMA WorkerSteps ==
  ASSUME TypeOK, NEW w \in Worker
  PROVE  /\ Ends(w) => loc'[w] = Idle /\ \A v \in Worker \ {w} : loc'[v] = loc[v]
         /\ \A step : Goes(w, step) =>
              /\ loc'[w].at = step /\ loc'[w].id = loc[w].id /\ loc'[w].bridge = loc[w].bridge
              /\ \A v \in Worker \ {w} : loc'[v] = loc[v]
         /\ \A step, k, b : Starts(w, step, k, b) =>
              /\ loc'[w] = [at |-> step, id |-> k, bridge |-> b]
              /\ \A v \in Worker \ {w} : loc'[v] = loc[v]
<1>1. loc[w] \in Job /\ loc \in [Worker -> Job]
  BY DEF TypeOK
<1>2. ASSUME NEW step, Goes(w, step)
      PROVE  /\ loc'[w].at = step /\ loc'[w].id = loc[w].id /\ loc'[w].bridge = loc[w].bridge
             /\ \A v \in Worker \ {w} : loc'[v] = loc[v]
  <2>1. loc'[w] = [loc[w] EXCEPT !.at = step]
    BY <1>1, <1>2 DEF Goes
  <2>2. \A v \in Worker \ {w} : loc'[v] = loc[v]
    BY <1>1, <1>2 DEF Goes
  <2>3. \A j \in Job : LET n == [j EXCEPT !.at = step] IN
          n.at = step /\ n.id = j.id /\ n.bridge = j.bridge
    BY DEF Job
  <2> QED
    BY <1>1, <2>1, <2>2, <2>3
<1>3. Ends(w) => loc'[w] = Idle /\ \A v \in Worker \ {w} : loc'[v] = loc[v]
  BY <1>1 DEF Ends
<1>4. ASSUME NEW step, NEW k, NEW b, Starts(w, step, k, b)
      PROVE  /\ loc'[w] = [at |-> step, id |-> k, bridge |-> b]
             /\ \A v \in Worker \ {w} : loc'[v] = loc[v]
  BY <1>1, <1>4 DEF Starts
<1> QED
  BY <1>2, <1>3, <1>4

LEMMA NextHasBridge == TypeOK /\ HasBridge /\ [Next]_vars => HasBridge'
<1> SUFFICES ASSUME TypeOK, HasBridge, [Next]_vars PROVE HasBridge'
  OBVIOUS
<1>i. Idle.at = "idle"
  BY DEF Idle
\* It is enough to look at the worker that moves.
<1>w. ASSUME NEW w \in Worker, \A v \in Worker \ {w} : loc'[v] = loc[v],
             loc'[w].at \in {"close", "seen", "subscribe"} => loc'[w].bridge \in Bridge
      PROVE  HasBridge'
  BY <1>w DEF HasBridge
<1>1. CASE UNCHANGED loc
  BY <1>1 DEF HasBridge
<1>2. ASSUME NEW w \in Worker, Ends(w) PROVE HasBridge'
  BY <1>2, <1>w, <1>i, WorkerSteps
<1>3. ASSUME NEW w \in Worker, NEW step, Goes(w, step),
             step \notin {"close", "seen", "subscribe"} \/ loc[w].at = "seen"
      PROVE  HasBridge'
  <2>1. loc'[w].at = step /\ loc'[w].bridge = loc[w].bridge /\ \A v \in Worker \ {w} : loc'[v] = loc[v]
    BY <1>3, WorkerSteps
  <2> QED
    BY <2>1, <1>3, <1>w DEF HasBridge
<1>4. ASSUME NEW w \in Worker, NEW step, NEW k, NEW b, Starts(w, step, k, b),
             step \notin {"close", "seen", "subscribe"} \/ b \in Bridge
      PROVE  HasBridge'
  <2>1. loc'[w] = [at |-> step, id |-> k, bridge |-> b] /\ \A v \in Worker \ {w} : loc'[v] = loc[v]
    BY <1>4, WorkerSteps
  <2> QED
    BY <2>1, <1>4, <1>w
<1>5. CASE Rotates \/ Lists \/ (\E b \in Bridge : Disconnects(b))
           \/ \E k \in Identity : Loses(k) \/ Restarts(k) \/ Overdue(k)
  BY <1>5, <1>1 DEF Rotates, Lists, Disconnects, Loses, Restarts, Overdue
<1>6. ASSUME NEW w \in Worker, \/ PollAnswers(w) \/ Raced(w) \/ Fails(w) \/ Expires(w)
             \/ Denies(w) \/ Approves(w) \/ Closes(w) \/ Subscribes(w)
      PROVE HasBridge'
  BY <1>6, <1>2 DEF PollAnswers, Raced, Fails, Expires, Denies, Approves, Closes, Subscribes, Answers
<1>7. ASSUME NEW w \in Worker, \/ LooksForActive(w) \/ LooksForExisting(w) \/ CountsPending(w)
             \/ Inserts(w) \/ PollMarks(w) \/ Seen(w)
      PROVE HasBridge'
  BY <1>7, <1>2, <1>3 DEF LooksForActive, LooksForExisting, CountsPending, Inserts, PollMarks, Seen, Answers
<1>8. ASSUME NEW w \in Worker, NEW k \in Identity, Submits(w, k) PROVE HasBridge'
  BY <1>8, <1>1, <1>4 DEF Submits
<1>9. ASSUME NEW w \in Worker, NEW k \in Identity, Polls(w, k) \/ DecisionReads(w, k) PROVE HasBridge'
  BY <1>9, <1>4 DEF Polls, DecisionReads
<1>10. ASSUME NEW w \in Worker, NEW k \in Identity, Connects(w, k) PROVE HasBridge'
  <2>1. knows[k] \in Bridge
    BY <1>10 DEF Connects, TypeOK
  <2> QED
    BY <1>10, <2>1, <1>4 DEF Connects
<1>11. ASSUME NEW w \in Worker, NEW b \in Bridge, Revokes(w, b) PROVE HasBridge'
  BY <1>11, <1>4 DEF Revokes
<1>12. CASE UNCHANGED vars
  BY <1>12, <1>1 DEF vars
<1> QED
  BY <1>5, <1>6, <1>7, <1>8, <1>9, <1>10, <1>11, <1>12 DEF Next

\* Every variable keeps its type, whatever is running.
THEOREM TypeCorrect == Spec => []TypeOK
  BY InitTypeOK, NextTypeOK, NextHasBridge, PTL DEF Spec

-----------------------------------------------------------------------------
(* Whose bridge it is.                                                     *)

\* An enrollment names a bridge of its own key.
NamesOwn == \A k \in Identity : named[k] # None => key[named[k]] = k

IInv == TypeOK /\ HasBridge /\ OwnBridge /\ NamesOwn

LEMMA InitIInv == Init => IInv
  BY InitTypeOK DEF IInv, Init, OwnBridge, NamesOwn

\* Nothing but an approval touches the bridges, and it only adds to them.
LEMMA QuietOwn ==
  ASSUME IInv, UNCHANGED <<named, key>>, active' \subseteq active,
         \A k \in Identity : knows'[k] # knows[k] => knows'[k] = None \/ key[knows'[k]] = k
  PROVE  OwnBridge' /\ NamesOwn'
  BY DEF IInv, OwnBridge, NamesOwn

\* An answer tells a bridge of its own key, if it tells one.
LEMMA AnswerOwn ==
  ASSUME TypeOK, NEW w \in Worker, NEW s, NEW b, Answers(w, s, b),
         b # None => key[b] = loc[w].id
  PROVE  \A k \in Identity : knows'[k] # knows[k] => knows'[k] = None \/ key[knows'[k]] = k
<1> SUFFICES ASSUME NEW k \in Identity, knows'[k] # knows[k]
             PROVE  knows'[k] = None \/ key[knows'[k]] = k
  OBVIOUS
<1>1. knows' = [knows EXCEPT ![loc[w].id] = b] \/ knows' = knows
  BY DEF Answers, program
<1>2. k = loc[w].id /\ knows'[k] = b
  BY <1>1 DEF TypeOK
<1> QED
  BY <1>2

LEMMA NextOwn == IInv /\ [Next]_vars => OwnBridge' /\ NamesOwn'
<1> SUFFICES ASSUME IInv, [Next]_vars PROVE OwnBridge' /\ NamesOwn'
  OBVIOUS
<1> DEFINE Tells == \A k \in Identity : knows'[k] # knows[k] => knows'[k] = None \/ key[knows'[k]] = k
<1> USE DEF rows, program
<1>t. TypeOK
  BY DEF IInv
\* Which actions leave the rows of bridges alone, and the bridges' files.
<1>1. ASSUME UNCHANGED <<named, key, knows>>, active' \subseteq active
      PROVE  OwnBridge' /\ NamesOwn'
  BY <1>1, QuietOwn
<1>2. ASSUME UNCHANGED <<named, key, active>>, Tells PROVE OwnBridge' /\ NamesOwn'
  BY <1>2, QuietOwn
<1>3. CASE \/ Rotates \/ Lists \/ UNCHANGED vars \/ \E b \in Bridge : Disconnects(b)
           \/ \E k \in Identity : Loses(k) \/ Restarts(k) \/ Overdue(k)
  BY <1>3, <1>1 DEF Rotates, Lists, Disconnects, Loses, Restarts, Overdue, vars
<1>4. ASSUME NEW w \in Worker, \/ PollMarks(w) \/ Fails(w) \/ Expires(w) \/ Denies(w) \/ Closes(w)
             \/ Seen(w) \/ Subscribes(w)
      PROVE OwnBridge' /\ NamesOwn'
  BY <1>4, <1>1 DEF PollMarks, Fails, Expires, Denies, Closes, Seen, Subscribes
<1>8. ASSUME NEW w \in Worker, NEW k \in Identity,
             Polls(w, k) \/ DecisionReads(w, k) \/ Connects(w, k) \/ Submits(w, k)
      PROVE OwnBridge' /\ NamesOwn'
  BY <1>8, <1>1 DEF Polls, DecisionReads, Connects, Submits
<1>9. ASSUME NEW w \in Worker, NEW b \in Bridge, Revokes(w, b)
      PROVE OwnBridge' /\ NamesOwn'
  BY <1>9, <1>1 DEF Revokes
<1>5. ASSUME NEW w \in Worker, LooksForActive(w) PROVE OwnBridge' /\ NamesOwn'
  <2>1. Tells
    BY <1>5, <1>t, AnswerOwn DEF LooksForActive
  <2> QED
    BY <1>5, <2>1, <1>2 DEF LooksForActive
<1>6. ASSUME NEW w \in Worker, \/ LooksForExisting(w) \/ CountsPending(w) \/ Raced(w)
             \/ PollAnswers(w) \/ Inserts(w)
      PROVE OwnBridge' /\ NamesOwn'
  <2>1. UNCHANGED <<named, key, active>>
    BY <1>6 DEF LooksForExisting, CountsPending, Raced, PollAnswers, Inserts
  <2>2. ASSUME NEW s, NEW b, Answers(w, s, b), b = None \/ b = named[loc[w].id] PROVE Tells
    <3>1. CASE loc[w].id \in Identity
      <4>1. b # None => key[b] = loc[w].id
        BY <2>2, <3>1 DEF IInv, NamesOwn
      <4> QED
        BY <2>2, <4>1, <1>t, AnswerOwn
    <3>2. CASE loc[w].id \notin Identity
      <4>1. knows' = knows \/ knows' = [knows EXCEPT ![loc[w].id] = b]
        BY <2>2 DEF Answers
      <4>2. \A k \in Identity : knows'[k] = knows[k]
        BY <4>1, <3>2, <1>t DEF TypeOK
      <4> QED
        BY <4>2
    <3> QED
      BY <3>1, <3>2
  <2>3. (\E s : Answers(w, s, None) \/ Answers(w, s, named[loc[w].id])) \/ UNCHANGED knows
    BY <1>6 DEF LooksForExisting, CountsPending, Raced, PollAnswers, Inserts
  <2>4. Tells
    BY <2>2, <2>3
  <2> QED
    BY <2>1, <2>4, <1>2
<1>7. ASSUME NEW w \in Worker, Approves(w) PROVE OwnBridge' /\ NamesOwn'
  <2> DEFINE k == loc[w].id
  <2>1. knows' = knows
    BY <1>7 DEF Approves
  <2>2. CASE ~Free(k)
    BY <2>2, <2>1, <1>7, <1>1 DEF Approves
  <2>3. CASE Free(k)
    <3>1. PICK b \in Bridge :
            /\ key[b] = None /\ key' = [key EXCEPT ![b] = k] /\ active' = active \cup {b}
            /\ named' = named \/ named' = [named EXCEPT ![k] = b]
      BY <1>7, <2>3 DEF Approves
    <3>2. key'[b] = k /\ \A c \in Bridge \ {b} : key'[c] = key[c]
      BY <3>1, <1>t DEF TypeOK
    <3>3. \A i \in Identity : key[b] # i
      BY <3>1, EnrollmentAssumption
    <3>4. OwnBridge'
      BY <2>1, <3>2, <3>3, <1>t DEF IInv, OwnBridge, TypeOK
    <3>5. NamesOwn'
      <4> SUFFICES ASSUME NEW i \in Identity, named'[i] # None PROVE key'[named'[i]] = i
        BY DEF NamesOwn
      <4>1. CASE named'[i] = named[i]
        BY <4>1, <3>2, <3>3, <1>t DEF IInv, NamesOwn, TypeOK
      <4>2. CASE named'[i] # named[i]
        BY <4>2, <3>1, <3>2, <1>t DEF TypeOK
      <4> QED
        BY <4>1, <4>2
    <3> QED
      BY <3>4, <3>5
  <2> QED
    BY <2>2, <2>3
<1> QED
  BY <1>3, <1>4, <1>5, <1>6, <1>7, <1>8, <1>9 DEF Next

LEMMA NextIInv == IInv /\ [Next]_vars => IInv'
  BY NextOwn, NextTypeOK, NextHasBridge DEF IInv

THEOREM Invariance == Spec => []IInv
  BY InitIInv, NextIInv, PTL DEF Spec

\* A bridge saves an id approved for its own key only.
THEOREM Own == Spec => []OwnBridge
<1>1. IInv => OwnBridge
  BY DEF IInv
<1> QED
  BY <1>1, Invariance, PTL

-----------------------------------------------------------------------------
(* What comes of a closed enrollment.                                      *)

NoMore(k) ==
  /\ Closed(k)'
  /\ Approving(k)' \subseteq Approving(k)
  /\ BridgesOf(k)' \subseteq BridgesOf(k) \/ Approving(k)' # Approving(k)

LEMMA ClosedStep ==
  ASSUME TypeOK, [Next]_vars, NEW k \in Identity, Closed(k)
  PROVE  NoMore(k)
<1> USE DEF rows, program
<1>i. Idle.at = "idle" /\ "expired" \notin Undecided /\ "approved" \notin Undecided /\ "denied" \notin Undecided
  BY DEF Idle, Undecided
\* It is enough that no worker begins to approve, where no bridge is made.
<1>1. ASSUME key' = key, Closed(k)', loc' = loc
      PROVE  NoMore(k)
  BY <1>1 DEF Approving, BridgesOf, NoMore
<1>m. ASSUME key' = key, Closed(k)', NEW w \in Worker,
             \A v \in Worker \ {w} : loc'[v] = loc[v], loc'[w].at # "approve" \/ loc'[w].id # k
      PROVE  NoMore(k)
  BY <1>m DEF Approving, BridgesOf, NoMore
<1>s. status' = status => Closed(k)'
  BY DEF Closed
<1>2. CASE \/ Rotates \/ UNCHANGED vars \/ \E b \in Bridge : Disconnects(b)
           \/ \E j \in Identity : Loses(j) \/ Restarts(j)
  BY <1>2, <1>1, <1>s DEF Rotates, Disconnects, Loses, Restarts, vars
<1>3. CASE Lists \/ \E j \in Identity : Overdue(j)
  <2>1. Closed(k)'
    BY <1>3 DEF Lists, Marked, Overdue, Closed, TypeOK
  <2> QED
    BY <1>3, <2>1, <1>1 DEF Lists, Overdue
<1>4. ASSUME NEW w \in Worker, \/ LooksForActive(w) \/ LooksForExisting(w) \/ CountsPending(w)
             \/ Raced(w) \/ PollAnswers(w) \/ Fails(w) \/ Closes(w) \/ Seen(w) \/ Subscribes(w)
      PROVE NoMore(k)
  <2>1. /\ UNCHANGED <<status, key>> /\ loc'[w].at # "approve"
        /\ \A v \in Worker \ {w} : loc'[v] = loc[v]
    BY <1>4, <1>i, WorkerSteps DEF LooksForActive, LooksForExisting, CountsPending, Raced,
         PollAnswers, Fails, Closes, Seen, Subscribes, Answers
  <2> QED
    BY <2>1, <1>s, <1>m
<1>5. ASSUME NEW w \in Worker, Inserts(w) PROVE NoMore(k)
  <2>1. /\ key' = key /\ loc'[w].at # "approve"
        /\ \A v \in Worker \ {w} : loc'[v] = loc[v]
    BY <1>5, <1>i, WorkerSteps DEF Inserts, Answers
  <2>2. Closed(k)'
    BY <1>5 DEF Inserts, Accepts, Closed, TypeOK
  <2> QED
    BY <2>1, <2>2, <1>m
<1>6. ASSUME NEW w \in Worker, PollMarks(w) PROVE NoMore(k)
  <2>1. /\ key' = key /\ loc'[w].at # "approve"
        /\ \A v \in Worker \ {w} : loc'[v] = loc[v]
    BY <1>6, WorkerSteps DEF PollMarks
  <2>2. Closed(k)'
    BY <1>6 DEF PollMarks, Closed, TypeOK
  <2> QED
    BY <2>1, <2>2, <1>m
<1>7. ASSUME NEW w \in Worker, Expires(w) \/ Denies(w) PROVE NoMore(k)
  <2>1. /\ key' = key /\ loc'[w].at # "approve"
        /\ \A v \in Worker \ {w} : loc'[v] = loc[v]
    BY <1>7, <1>i, WorkerSteps DEF Expires, Denies
  <2>2. Closed(k)'
    BY <1>7 DEF Expires, Denies, Closed, TypeOK
  <2> QED
    BY <2>1, <2>2, <1>m
<1>8. ASSUME NEW w \in Worker, Approves(w) PROVE NoMore(k)
  <2>1. Closed(k)'
    BY <1>8 DEF Approves, Closed, TypeOK
  <2>2. loc[w].at = "approve" /\ loc'[w] = Idle /\ \A v \in Worker \ {w} : loc'[v] = loc[v]
    BY <1>8, WorkerSteps DEF Approves
  <2>3. Approving(k)' = Approving(k) \ {w}
    BY <2>2, <1>i DEF Approving
  <2>4. CASE loc[w].id = k
    <3>1. w \in Approving(k)
      BY <2>2, <2>4 DEF Approving
    <3> QED
      BY <2>1, <2>3, <3>1 DEF NoMore
  <2>5. CASE loc[w].id # k
    <3>1. key' = key \/ \E b \in Bridge : key' = [key EXCEPT ![b] = loc[w].id]
      BY <1>8 DEF Approves
    <3>2. BridgesOf(k)' \subseteq BridgesOf(k)
      BY <2>5, <3>1 DEF BridgesOf, TypeOK
    <3> QED
      BY <2>1, <2>3, <3>2 DEF NoMore
  <2> QED
    BY <2>4, <2>5
<1>9. ASSUME NEW w \in Worker, NEW j \in Identity, Submits(w, j) PROVE NoMore(k)
  <2>1. Closed(k)'
    BY <1>9, <1>s DEF Submits, Marked, Closed, TypeOK
  <2>2. CASE loc' = loc
    BY <1>9, <2>1, <2>2, <1>1 DEF Submits
  <2>3. CASE Starts(w, "active", j, None)
    <3>1. loc'[w].at = "active" /\ \A v \in Worker \ {w} : loc'[v] = loc[v]
      BY <2>3 DEF Starts, TypeOK
    <3> QED
      BY <1>9, <2>1, <3>1, <1>m DEF Submits
  <2> QED
    BY <1>9, <2>2, <2>3 DEF Submits
<1>10. ASSUME NEW w \in Worker, NEW j \in Identity, Polls(w, j) \/ Connects(w, j) PROVE NoMore(k)
  <2>1. loc'[w].at # "approve" /\ \A v \in Worker \ {w} : loc'[v] = loc[v]
    BY <1>10 DEF Polls, Connects, Starts, TypeOK
  <2>2. UNCHANGED <<status, key>>
    BY <1>10 DEF Polls, Connects
  <2> QED
    BY <2>1, <2>2, <1>s, <1>m
<1>11. ASSUME NEW w \in Worker, NEW j \in Identity, DecisionReads(w, j) PROVE NoMore(k)
  <2>1. PICK step \in Step : Starts(w, step, j, None) /\ (step = "approve" => status[j] = "pending")
    BY <1>11 DEF DecisionReads, Step
  <2>2. loc'[w] = [at |-> step, id |-> j, bridge |-> None] /\ \A v \in Worker \ {w} : loc'[v] = loc[v]
    BY <2>1, WorkerSteps
  <2>3. loc'[w].at # "approve" \/ loc'[w].id # k
    BY <2>1, <2>2 DEF Closed
  <2>4. UNCHANGED <<status, key>>
    BY <1>11 DEF DecisionReads
  <2> QED
    BY <2>2, <2>3, <2>4, <1>s, <1>m
<1>12. ASSUME NEW w \in Worker, NEW b \in Bridge, Revokes(w, b) PROVE NoMore(k)
  <2>1. loc'[w].at # "approve" /\ \A v \in Worker \ {w} : loc'[v] = loc[v]
    BY <1>12 DEF Revokes, Starts, TypeOK
  <2>2. UNCHANGED <<status, key>>
    BY <1>12 DEF Revokes
  <2> QED
    BY <2>1, <2>2, <1>s, <1>m
<1> QED
  BY <1>2, <1>3, <1>4, <1>5, <1>6, <1>7, <1>8, <1>9, <1>10, <1>11, <1>12 DEF Next

\* Of an enrollment that is decided or expired come no bridges but those of the
\* approvals that were under way, one each.
THEOREM ClosedIsClosed == Spec => ClosedEnrollmentsApproveNoMore
<1>1. TypeOK /\ [Next]_vars =>
        [\A k \in Identity : Closed(k) =>
           /\ Closed(k)'
           /\ Approving(k)' \subseteq Approving(k)
           /\ BridgesOf(k)' \subseteq BridgesOf(k) \/ Approving(k)' # Approving(k)]_vars
  BY ClosedStep DEF NoMore
<1> QED
  BY <1>1, TypeCorrect, PTL DEF Spec, ClosedEnrollmentsApproveNoMore

-----------------------------------------------------------------------------
(* Decisions, and the limit.                                               *)

\* What a step may do to the enrollments: only an insertion, under the limit,
\* makes one pending, and a decision is changed by the deadline's mark alone.
Changes ==
  \/ \A k \in Identity : /\ status'[k] \in Undecided => status[k] \in Undecided
                         /\ status[k] \in {"approved", "denied"} => status'[k] \in {status[k], "expired"}
  \/ \E k \in Identity : Accepts(k) /\ status' = [status EXCEPT ![k] = "pending"]

LEMMA StepChanges == TypeOK /\ [Next]_vars => Changes
<1> SUFFICES ASSUME TypeOK, [Next]_vars PROVE Changes
  OBVIOUS
<1> USE DEF rows, Undecided
<1>1. ASSUME UNCHANGED status PROVE Changes
  BY <1>1 DEF Changes
<1>2. CASE \/ Rotates \/ UNCHANGED vars \/ \E b \in Bridge : Disconnects(b)
           \/ \E k \in Identity : Loses(k) \/ Restarts(k)
  BY <1>2, <1>1 DEF Rotates, Disconnects, Loses, Restarts, vars
<1>3. ASSUME NEW w \in Worker, \/ LooksForActive(w) \/ LooksForExisting(w) \/ CountsPending(w)
             \/ Raced(w) \/ PollAnswers(w) \/ Fails(w) \/ Closes(w) \/ Seen(w) \/ Subscribes(w)
      PROVE Changes
  BY <1>3, <1>1 DEF LooksForActive, LooksForExisting, CountsPending, Raced, PollAnswers, Fails, Closes,
                    Seen, Subscribes
<1>11. ASSUME NEW w \in Worker, NEW k \in Identity, Polls(w, k) \/ DecisionReads(w, k) \/ Connects(w, k)
       PROVE Changes
  BY <1>11, <1>1 DEF Polls, DecisionReads, Connects
<1>12. ASSUME NEW w \in Worker, NEW b \in Bridge, Revokes(w, b) PROVE Changes
  BY <1>12, <1>1 DEF Revokes
<1>4. ASSUME NEW k \in Identity, Overdue(k) PROVE Changes
  BY <1>4 DEF Overdue, Changes, TypeOK
<1>13. CASE Lists
  BY <1>13 DEF Lists, Marked, Changes, TypeOK
<1>5. ASSUME NEW w \in Worker, NEW k \in Identity, Submits(w, k) PROVE Changes
  BY <1>5 DEF Submits, Marked, Changes, TypeOK
<1>6. ASSUME NEW w \in Worker, PollMarks(w) PROVE Changes
  BY <1>6 DEF PollMarks, Changes, TypeOK
<1>7. ASSUME NEW w \in Worker, Expires(w) PROVE Changes
  BY <1>7 DEF Expires, Changes, TypeOK
<1>8. ASSUME NEW w \in Worker, Denies(w) PROVE Changes
  BY <1>8 DEF Denies, Changes, TypeOK
<1>9. ASSUME NEW w \in Worker, Approves(w) PROVE Changes
  <2>1. \/ status' = status
        \/ status[loc[w].id] \in Undecided /\ status' = [status EXCEPT ![loc[w].id] = "approved"]
    BY <1>9 DEF Approves
  <2> QED
    BY <2>1, <1>1 DEF Changes, TypeOK
<1>10. ASSUME NEW w \in Worker, Inserts(w) PROVE Changes
  <2>1. \/ status' = status
        \/ Accepts(loc[w].id) /\ status' = [status EXCEPT ![loc[w].id] = "pending"]
    BY <1>10 DEF Inserts
  <2>2. CASE loc[w].id \in Identity
    BY <2>1, <2>2, <1>1 DEF Changes
  <2>3. CASE loc[w].id \notin Identity
    BY <2>1, <2>3, <1>1 DEF TypeOK
  <2> QED
    BY <2>2, <2>3
<1> QED
  BY <1>2, <1>3, <1>4, <1>5, <1>6, <1>7, <1>8, <1>9, <1>10, <1>11, <1>12, <1>13 DEF Next

\* A denial never becomes an approval, nor an approval a denial; either may still
\* be replaced by the mark of the expiry.
THEOREM NotReversed == Spec => DecisionsAreNotReversed
<1>1. TypeOK /\ [Next]_vars =>
        [\A k \in Identity : status[k] \in {"approved", "denied"} =>
           status'[k] \in {status[k], "expired"}]_vars
  <2> SUFFICES ASSUME TypeOK, Changes,
                      NEW k \in Identity, status[k] \in {"approved", "denied"}
               PROVE  status'[k] \in {status[k], "expired"}
    BY StepChanges
  <2> QED
    BY DEF Changes, Accepts, TypeOK
<1> QED
  BY <1>1, TypeCorrect, PTL DEF Spec, DecisionsAreNotReversed

LEMMA PendingFinite == IsFiniteSet(Pending) /\ Cardinality(Pending) \in Nat
<1>1. Pending \subseteq Identity /\ IsFiniteSet(Identity)
  BY EnrollmentAssumption DEF Pending
<1> QED
  BY <1>1, FS_Subset, FS_CardinalityType

LEMMA NextBounded == TypeOK /\ PendingIsBounded /\ [Next]_vars => PendingIsBounded'
<1> SUFFICES ASSUME TypeOK, PendingIsBounded, Changes PROVE PendingIsBounded'
  BY StepChanges
<1> USE EnrollmentAssumption
<1>f. IsFiniteSet(Pending) /\ Cardinality(Pending) \in Nat
  BY PendingFinite
<1>1. CASE \A k \in Identity : status'[k] \in Undecided => status[k] \in Undecided
  <2>1. Pending' \subseteq Pending
    BY <1>1 DEF Pending, Undecided
  <2>2. IsFiniteSet(Pending') /\ Cardinality(Pending') <= Cardinality(Pending)
    BY <2>1, <1>f, FS_Subset
  <2>3. Cardinality(Pending') \in Nat
    BY <2>2, FS_CardinalityType
  <2> QED
    BY <2>2, <2>3, <1>f DEF PendingIsBounded
<1>2. ASSUME NEW k \in Identity, Accepts(k), status' = [status EXCEPT ![k] = "pending"]
      PROVE  PendingIsBounded'
  <2>1. Pending' = Pending \cup {k}
    BY <1>2 DEF Pending, Undecided, TypeOK
  <2>2. k \notin Pending
    BY <1>2 DEF Accepts, Pending, Undecided
  <2>3. Cardinality(Pending') = Cardinality(Pending) + 1
    BY <2>1, <2>2, <1>f, FS_AddElement
  <2>4. Cardinality(Pending) < PendingLimit
    BY <1>2 DEF Accepts
  <2> QED
    BY <2>3, <2>4, <1>f DEF PendingIsBounded
<1> QED
  BY <1>1, <1>2 DEF Changes

\* The pending enrollments of a configuration stay within the limit.
THEOREM Bounded == Spec => []PendingIsBounded
<1>1. Init => PendingIsBounded
  <2>1. ASSUME Init PROVE Pending = {}
    BY <2>1 DEF Init, Pending, Undecided
  <2> QED
    BY <2>1, FS_EmptySet, EnrollmentAssumption DEF PendingIsBounded
<1> QED
  BY <1>1, NextBounded, TypeCorrect, PTL DEF Spec
=============================================================================
