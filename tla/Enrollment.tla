---------------------------- MODULE Enrollment ----------------------------
(***************************************************************************)
(* How a bridge gets the right to fetch a configuration, and loses it: the *)
(* bridge waiting for approval (core/bridge/enrollment.go), the worker's   *)
(* handlers for it (ui/worker/handlers/bridge.ts), the operators' ones     *)
(* (ui/worker/handlers/registrations.ts) with the constraints of their     *)
(* tables, and the sockets that the broker holds for bridges.              *)
(*                                                                         *)
(* One configuration.  An identity is a key pair with the request id that  *)
(* is saved with it.  A handler runs over several awaited queries; any of  *)
(* them may fail, and the bridge may stop waiting for it, while queries of *)
(* other requests come between.  An enrollment whose deadline has passed   *)
(* is "overdue" until some handler marks it expired.                       *)
(***************************************************************************)
EXTENDS Naturals, FiniteSets

CONSTANTS
  Identity,
  Worker,        \* requests being handled at the same time
  MaxBridge,     \* bound: bridges ever approved
  PendingLimit,  \* MAX_PENDING_PER_CONFIG, and the trigger's
  None

ASSUME EnrollmentAssumption ==
  /\ IsFiniteSet(Identity)
  /\ MaxBridge \in Nat /\ PendingLimit \in Nat \ {0}
  /\ None \notin Identity \cup Worker \cup Nat

Bridge == 1..MaxBridge

VARIABLES
  current,   \* the identities' registration id still names the configuration
  status,    \* bridge_enrollments: at most one row per identity
  named,     \* its bridge_id
  key,       \* bridges: whose key each has
  active,    \* those not revoked
  sockets,   \* the broker's sockets, by bridge
  phase,     \* per identity: the bridge program
  call,      \* the request it is waiting for
  knows,     \* the bridge id in its identity file
  loc        \* per worker: where it is

rows == <<current, status, named, key, active>>
program == <<phase, call, knows>>
vars == <<rows, sockets, program, loc>>

Status == {"none", "pending", "overdue", "approved", "denied", "expired"}
Phase == {"idle", "submitting", "waiting", "polling", "done", "failed"}
Step == {"idle", "active", "existing", "count", "insert", "raced", "poll", "status",
         "expire", "deny", "approve", "close", "seen", "subscribe"}
Job == [at : Step, id : Identity \cup {None}, bridge : Bridge \cup {None}]
Idle == [at |-> "idle", id |-> None, bridge |-> None]

TypeOK ==
  /\ current \in BOOLEAN
  /\ status \in [Identity -> Status]
  /\ named \in [Identity -> Bridge \cup {None}]
  /\ key \in [Bridge -> Identity \cup {None}]
  /\ active \subseteq Bridge /\ sockets \subseteq Bridge
  /\ phase \in [Identity -> Phase]
  /\ call \in [Identity -> Worker \cup {None}]
  /\ knows \in [Identity -> Bridge \cup {None}]
  /\ loc \in [Worker -> Job]

Init ==
  /\ current = TRUE
  /\ status = [k \in Identity |-> "none"] /\ named = [k \in Identity |-> None]
  /\ key = [b \in Bridge |-> None]
  /\ active = {} /\ sockets = {}
  /\ phase = [k \in Identity |-> "idle"]
  /\ call = [k \in Identity |-> None] /\ knows = [k \in Identity |-> None]
  /\ loc = [w \in Worker |-> Idle]

-----------------------------------------------------------------------------
(* Helpers.                                                                *)

Undecided == {"pending", "overdue"}
Pending == {k \in Identity : status[k] \in Undecided}

\* UPDATE ... SET status = 'expired' ... AND expires_at <= ?, for every row.
Marked == [k \in Identity |-> IF status[k] = "overdue" THEN "expired" ELSE status[k]]

Starts(w, step, k, b) ==
  /\ loc[w].at = "idle"
  /\ loc' = [loc EXCEPT ![w] = [at |-> step, id |-> k, bridge |-> b]]
Goes(w, step) == loc' = [loc EXCEPT ![w].at = step]
Ends(w) == loc' = [loc EXCEPT ![w] = Idle]

\* What the bridge makes of an answer: WaitForApproval's switch.
Outcome(s) ==
  CASE s = "approved" -> "done" [] s \in Undecided -> "waiting" [] OTHER -> "failed"

\* The handler ends; its answer counts if the bridge still waits for it.
Answers(w, s, b) ==
  LET k == loc[w].id IN
  /\ Ends(w)
  /\ IF call[k] = w
     THEN /\ phase' = [phase EXCEPT ![k] = Outcome(s)]
          /\ call' = [call EXCEPT ![k] = None]
          /\ knows' = IF s = "approved" THEN [knows EXCEPT ![k] = b] ELSE knows
     ELSE UNCHANGED program

-----------------------------------------------------------------------------
(* A bridge submits its enrollment: enroll.                                *)

\* The registration id is looked up and overdue enrollments of the
\* configuration are marked; an unknown id is an answer that is not retried.
Submits(w, k) ==
  /\ phase[k] = "idle"
  /\ IF current
     THEN /\ Starts(w, "active", k, None)
          /\ phase' = [phase EXCEPT ![k] = "submitting"]
          /\ call' = [call EXCEPT ![k] = w]
          /\ status' = Marked
     ELSE /\ loc[w].at = "idle" /\ phase' = [phase EXCEPT ![k] = "failed"]
          /\ UNCHANGED <<call, status, loc>>
  /\ UNCHANGED <<current, named, key, active, sockets, knows>>

\* Mutant: any active bridge of the configuration will do.
MutLooksForActive(w) ==
  /\ loc[w].at = "active"
  /\ IF active # {}
     THEN \E b \in active : Answers(w, "approved", b)
     ELSE Goes(w, "existing") /\ UNCHANGED program
  /\ UNCHANGED <<rows, sockets>>

\* An active bridge with this key is the answer, whatever its enrollment says.
LooksForActive(w) ==
  /\ loc[w].at = "active"
  /\ IF \E b \in active : key[b] = loc[w].id
     THEN \E b \in active : key[b] = loc[w].id /\ Answers(w, "approved", b)
     ELSE Goes(w, "existing") /\ UNCHANGED program
  /\ UNCHANGED <<rows, sockets>>

\* So is an earlier enrollment, however it ended.
LooksForExisting(w) ==
  LET k == loc[w].id IN
  /\ loc[w].at = "existing"
  /\ IF status[k] # "none"
     THEN Answers(w, status[k], named[k])
     ELSE Goes(w, "count") /\ UNCHANGED program
  /\ UNCHANGED <<rows, sockets>>

CountsPending(w) ==
  /\ loc[w].at = "count"
  /\ IF Cardinality(Pending) >= PendingLimit
     THEN Answers(w, "limit", None)
     ELSE Goes(w, "insert") /\ UNCHANGED program
  /\ UNCHANGED <<rows, sockets>>

\* The table's primary key, and bridge_enrollments_pending_limit.
Accepts(k) == status[k] = "none" /\ Cardinality(Pending) < PendingLimit

Inserts(w) ==
  LET k == loc[w].id IN
  /\ loc[w].at = "insert"
  /\ IF Accepts(k)
     THEN status' = [status EXCEPT ![k] = "pending"] /\ Answers(w, "pending", None)
     ELSE Goes(w, "raced") /\ UNCHANGED <<status, program>>
  /\ UNCHANGED <<current, named, key, active, sockets>>

\* After a refused insert: what another request made of this key, or the limit.
\* (That the limit is free again by now is an error of the worker: Loses.)
Raced(w) ==
  LET k == loc[w].id IN
  /\ loc[w].at = "raced"
  /\ \/ status[k] # "none" /\ Answers(w, status[k], named[k])
     \/ status[k] = "none" /\ Cardinality(Pending) >= PendingLimit /\ Answers(w, "limit", None)
  /\ UNCHANGED <<rows, sockets>>

-----------------------------------------------------------------------------
(* It polls: enrollmentStatus; and waits.                                  *)

Polls(w, k) ==
  /\ phase[k] = "waiting"
  /\ Starts(w, "poll", k, None)
  /\ phase' = [phase EXCEPT ![k] = "polling"] /\ call' = [call EXCEPT ![k] = w]
  /\ UNCHANGED <<rows, sockets, knows>>

PollMarks(w) ==
  LET k == loc[w].id IN
  /\ loc[w].at = "poll"
  /\ status' = IF status[k] = "overdue" THEN [status EXCEPT ![k] = "expired"] ELSE status
  /\ Goes(w, "status")
  /\ UNCHANGED <<current, named, key, active, sockets, program>>

PollAnswers(w) ==
  /\ loc[w].at = "status"
  /\ Answers(w, status[loc[w].id], named[loc[w].id])
  /\ UNCHANGED <<rows, sockets>>

\* The request fails, or its answer is lost or late.  A submission is made
\* again; a failed poll leaves an empty status, which ends the wait.
Loses(k) ==
  /\ call[k] # None
  /\ phase' = [phase EXCEPT ![k] = IF phase[k] = "submitting" THEN "idle" ELSE "failed"]
  /\ call' = [call EXCEPT ![k] = None]
  /\ UNCHANGED <<rows, sockets, knows, loc>>

\* The program is stopped, or has given up, and is started again; before the
\* bridge id is saved it knows only its identity.
Restarts(k) ==
  /\ phase[k] # "done"
  /\ phase' = [phase EXCEPT ![k] = "idle"] /\ call' = [call EXCEPT ![k] = None]
  /\ UNCHANGED <<rows, sockets, knows, loc>>

\* A handler is cut short.
Fails(w) ==
  /\ loc[w].at # "idle" /\ Ends(w)
  /\ \A k \in Identity : call[k] # w
  /\ UNCHANGED <<rows, sockets, program>>

-----------------------------------------------------------------------------
(* Operators decide: decide, revokeBridge; and rotate the registration id. *)

\* list, which marks before it reads.
Lists == /\ status' = Marked
         /\ UNCHANGED <<current, named, key, active, sockets, program, loc>>

\* Mutant: whatever is not overdue can be decided.
MutDecisionReads(w, k) ==
  /\ \/ /\ status[k] \notin {"none", "overdue"}
        /\ \E step \in {"deny", "approve"} : Starts(w, step, k, None)
     \/ status[k] = "overdue" /\ Starts(w, "expire", k, None)
  /\ UNCHANGED <<rows, sockets, program>>

\* The row is read, with the fingerprint that the operator confirms.
DecisionReads(w, k) ==
  /\ \/ status[k] = "pending" /\ \E step \in {"deny", "approve"} : Starts(w, step, k, None)
     \/ status[k] = "overdue" /\ Starts(w, "expire", k, None)
  /\ UNCHANGED <<rows, sockets, program>>

\* What is overdue is marked, whatever it is by now.
Expires(w) ==
  /\ loc[w].at = "expire"
  /\ status' = [status EXCEPT ![loc[w].id] = "expired"]
  /\ Ends(w)
  /\ UNCHANGED <<current, named, key, active, sockets, program>>

Denies(w) ==
  LET k == loc[w].id IN
  /\ loc[w].at = "deny"
  /\ status' = IF status[k] \in Undecided THEN [status EXCEPT ![k] = "denied"] ELSE status
  /\ Ends(w)
  /\ UNCHANGED <<current, named, key, active, sockets, program>>

\* idx_bridges_active_key
Free(k) == \A b \in active : key[b] # k

\* The batch inserts the bridge and decides the enrollment if it is still
\* undecided; with an active bridge for the key it is aborted.
Approves(w) ==
  LET k == loc[w].id IN
  /\ loc[w].at = "approve"
  /\ IF Free(k)
     THEN \E b \in Bridge :
            /\ key[b] = None /\ \A c \in 1..(b - 1) : key[c] # None
            /\ key' = [key EXCEPT ![b] = k]
            /\ active' = active \cup {b}
            /\ IF status[k] \in Undecided
               THEN /\ status' = [status EXCEPT ![k] = "approved"]
                    /\ named' = [named EXCEPT ![k] = b]
               ELSE UNCHANGED <<status, named>>
     ELSE UNCHANGED <<status, named, key, active>>
  /\ Ends(w)
  /\ UNCHANGED <<current, sockets, program>>

\* revokeBridge: the row ...
Revokes(w, b) ==
  /\ b \in active /\ active' = active \ {b}
  /\ Starts(w, "close", None, b)
  /\ UNCHANGED <<current, status, named, key, sockets, program>>

\* ... and then the broker closes the sockets it has for this bridge.
Closes(w) ==
  /\ loc[w].at = "close"
  /\ sockets' = sockets \ {loc[w].bridge}
  /\ Ends(w)
  /\ UNCHANGED <<rows, program>>

\* rotateRegistration
Rotates == current /\ current' = FALSE
           /\ UNCHANGED <<status, named, key, active, sockets, program, loc>>

Overdue(k) ==
  /\ status[k] = "pending" /\ status' = [status EXCEPT ![k] = "overdue"]
  /\ UNCHANGED <<current, named, key, active, sockets, program, loc>>

-----------------------------------------------------------------------------
(* An approved bridge opens its socket: runtimeSocket.                     *)

\* authenticateBridge
Connects(w, k) ==
  /\ phase[k] = "done" /\ knows[k] \in active
  /\ Starts(w, "seen", k, knows[k])
  /\ UNCHANGED <<rows, sockets, program>>

\* last_seen is written.
Seen(w) == loc[w].at = "seen" /\ Goes(w, "subscribe") /\ UNCHANGED <<rows, sockets, program>>

\* The broker accepts the socket; it does not ask for the bridge again.
Subscribes(w) ==
  /\ loc[w].at = "subscribe"
  /\ sockets' = sockets \cup {loc[w].bridge}
  /\ Ends(w)
  /\ UNCHANGED <<rows, program>>

Disconnects(b) ==
  /\ b \in sockets /\ sockets' = sockets \ {b}
  /\ UNCHANGED <<rows, program, loc>>

Next ==
  \/ Rotates \/ Lists
  \/ \E k \in Identity : Loses(k) \/ Restarts(k) \/ Overdue(k)
  \/ \E b \in Bridge : Disconnects(b)
  \/ \E w \in Worker :
       \/ LooksForActive(w) \/ LooksForExisting(w) \/ CountsPending(w) \/ Inserts(w)
       \/ Raced(w) \/ PollMarks(w) \/ PollAnswers(w) \/ Fails(w) \/ Expires(w)
       \/ Denies(w) \/ Approves(w) \/ Closes(w) \/ Seen(w) \/ Subscribes(w)
       \/ \E k \in Identity : Submits(w, k) \/ Polls(w, k) \/ DecisionReads(w, k)
                              \/ Connects(w, k)
       \/ \E b \in Bridge : Revokes(w, b)

Spec == Init /\ [][Next]_vars

-----------------------------------------------------------------------------
(* What must hold.                                                         *)

\* The id that a bridge saves as its own is that of a bridge approved for its
\* own key, whichever request told it so (enroll, enrollmentStatus).
OwnBridge == \A k \in Identity : knows[k] # None => key[knows[k]] = k

Closed(k) == status[k] \in {"approved", "denied", "expired"}
Approving(k) == {w \in Worker : loc[w].at = "approve" /\ loc[w].id = k}
BridgesOf(k) == {b \in Bridge : key[b] = k}

\* Nothing more comes of an enrollment once it is decided or expired, except of
\* the approvals that had found it pending before: no other one begins, and each
\* bridge that is still made uses one of these up.  They do make it, for a key
\* without an active bridge, even where a denial or the expiry has been recorded
\* since: the batch inserts it whether or not its UPDATE finds the enrollment
\* pending (decide, registrations.ts:80-138).
ClosedEnrollmentsApproveNoMore ==
  [][\A k \in Identity : Closed(k) =>
       /\ Closed(k)'
       /\ Approving(k)' \subseteq Approving(k)
       /\ BridgesOf(k)' \subseteq BridgesOf(k) \/ Approving(k)' # Approving(k)]_vars

\* Requests that have counted the pending enrollments at the same time do not
\* exceed the limit together (enroll).
PendingIsBounded == Cardinality(Pending) <= PendingLimit

\* A denial and an approval that both found the enrollment pending do not turn
\* each other round.  A decision that came with the deadline may be replaced by
\* the mark of the expiry, which asks for no status (decide).
DecisionsAreNotReversed ==
  [][\A k \in Identity : status[k] \in {"approved", "denied"} =>
       status'[k] \in {status[k], "expired"}]_vars
=============================================================================
