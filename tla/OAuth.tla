------------------------------- MODULE OAuth -------------------------------
(***************************************************************************)
(* How agents get, renew and lose access to the control plane: client      *)
(* registration, the authorization page and its decision, the token        *)
(* endpoint, revocation by a token or by an operator, and the check of a   *)
(* bearer token before an MCP tool runs (ui/worker/lib/oauth.ts and        *)
(* ui/worker/handlers/mcp.ts).  A request runs over several awaited        *)
(* queries; one query, or one batch, is atomic, any of them may fail and   *)
(* end the request, and those of other requests come between.              *)
(*                                                                         *)
(* Codes and tokens are only ever found by their hash, so they are the     *)
(* rows themselves; a request whose client, redirect or verifier does not  *)
(* match its row ends at once and is left out.  A row that has expired is  *)
(* "lapsed"; one that is spent or revoked stays so whether it expires or   *)
(* not.                                                                    *)
(***************************************************************************)
EXTENDS Naturals, FiniteSets

CONSTANTS
  Worker,      \* requests being handled at the same time
  Ask,         \* authorization requests
  Writers,     \* those whose scope has config:write
  MaxGrant, MaxPair,     \* bounds: grants and token pairs ever made
  ClientsPerHour,        \* MAX_CLIENTS_PER_HOUR
  None

ASSUME OAuthAssumption ==
  /\ IsFiniteSet(Worker)
  /\ Writers \subseteq Ask
  /\ MaxGrant \in Nat /\ MaxPair \in Nat /\ ClientsPerHour \in Nat \ {0}
  /\ None \notin Ask /\ None \notin Nat

Grant == 1..MaxGrant
Pair == 1..MaxPair

VARIABLES
  recent,    \* oauth_clients of the last hour
  known,     \* some client is registered
  ask,       \* oauth_authorization_requests: status
  grant,     \* oauth_grants
  asked,     \* the request a grant was made for
  code,      \* oauth_codes: one per grant
  token,     \* oauth_tokens: made in pairs
  loc        \* per worker: where it is, and what it has read

rows == <<recent, known, ask, grant, asked, code, token>>
vars == <<rows, loc>>

Step == {"idle", "register", "approve", "deny", "spend", "consume", "issue",
         "mint", "revoke", "sweep", "check", "touch", "tool"}
Idle == [at |-> "idle", ask |-> None, grant |-> None, pair |-> None, late |-> FALSE]

Job == [at : Step, ask : Ask \cup {None}, grant : Grant \cup {None},
        pair : Pair \cup {None}, late : BOOLEAN]

TokenState == {"none", "live", "lapsed", "revoked"}
TokenRow == [grant : Grant \cup {None}, access : TokenState, refresh : TokenState]
NoToken == [grant |-> None, access |-> "none", refresh |-> "none"]

TypeOK ==
  /\ recent \in Nat /\ known \in BOOLEAN
  /\ ask \in [Ask -> {"none", "pending", "lapsed", "approved", "denied"}]
  /\ grant \in [Grant -> {"none", "active", "revoked"}]
  /\ asked \in [Grant -> Ask \cup {None}]
  /\ code \in [Grant -> {"none", "live", "lapsed", "used"}]
  /\ token \in [Pair -> TokenRow]
  /\ loc \in [Worker -> Job]

Init ==
  /\ recent = 0 /\ known = FALSE
  /\ ask = [a \in Ask |-> "none"]
  /\ grant = [g \in Grant |-> "none"]
  /\ asked = [g \in Grant |-> None]
  /\ code = [g \in Grant |-> "none"]
  /\ token = [p \in Pair |-> NoToken]
  /\ loc = [w \in Worker |-> Idle]

-----------------------------------------------------------------------------
(* Helpers.                                                                *)

Starts(w, job) == loc[w].at = "idle" /\ loc' = [loc EXCEPT ![w] = job]
Goes(w, step) == loc' = [loc EXCEPT ![w].at = step]
Ends(w) == loc' = [loc EXCEPT ![w] = Idle]

\* revoked_at IS NULL, of a code used_at IS NULL.
Unspent == {"live", "lapsed"}

\* UPDATE oauth_tokens SET revoked_at for one grant.
Revoked(g) ==
  [p \in Pair |-> IF token[p].grant = g
                  THEN [grant |-> g, access |-> "revoked", refresh |-> "revoked"]
                  ELSE token[p]]

-----------------------------------------------------------------------------
(* registerClient.                                                         *)

\* The registrations of the last hour are counted.
CountsClients(w) ==
  /\ recent < ClientsPerHour
  /\ Starts(w, [Idle EXCEPT !.at = "register"])
  /\ UNCHANGED rows

\* The client is inserted, whatever the count is by now.
InsertsClient(w) ==
  /\ loc[w].at = "register"
  /\ recent' = recent + 1 /\ known' = TRUE
  /\ Ends(w)
  /\ UNCHANGED <<ask, grant, asked, code, token>>

\* Some registrations are more than an hour old.
HourPasses ==
  /\ recent > 0 /\ \E n \in 0..(recent - 1) : recent' = n
  /\ UNCHANGED <<known, ask, grant, asked, code, token, loc>>

-----------------------------------------------------------------------------
(* The authorization page and its decision.                                *)

\* authorizationPage: the client's row never changes, so reading it and
\* inserting the request is one step.
AuthorizationPage(a) ==
  /\ known /\ ask[a] = "none"
  /\ ask' = [ask EXCEPT ![a] = "pending"]
  /\ UNCHANGED <<recent, known, grant, asked, code, token, loc>>

\* Mutant: the status is looked at in the update only.
MutDecisionReads(w, a) ==
  /\ ask[a] # "none"
  /\ \E step \in {"approve", "deny"} :
       Starts(w, [Idle EXCEPT !.at = step, !.ask = a])
  /\ UNCHANGED rows

\* decideAuthorization reads the request, which has to be pending.
DecisionReads(w, a) ==
  /\ ask[a] = "pending"
  /\ \E step \in {"approve", "deny"} :
       Starts(w, [Idle EXCEPT !.at = step, !.ask = a])
  /\ UNCHANGED rows

\* WHERE request_id = ? AND status = 'pending'
Decided(a, status) ==
  ask' = IF ask[a] \in {"pending", "lapsed"} THEN [ask EXCEPT ![a] = status] ELSE ask

Denies(w) ==
  /\ loc[w].at = "deny" /\ Decided(loc[w].ask, "denied")
  /\ Ends(w)
  /\ UNCHANGED <<recent, known, grant, asked, code, token>>

\* The batch: a grant, its code, and the decision if there is none yet.  The
\* grant does not depend on the decision.
Approves(w) ==
  /\ loc[w].at = "approve"
  /\ \E g \in Grant :
       /\ grant[g] = "none" /\ \A h \in 1..(g - 1) : grant[h] # "none"
       /\ grant' = [grant EXCEPT ![g] = "active"]
       /\ asked' = [asked EXCEPT ![g] = loc[w].ask]
       /\ code' = [code EXCEPT ![g] = "live"]
  /\ Decided(loc[w].ask, "approved")
  /\ Ends(w)
  /\ UNCHANGED <<recent, known, token>>

-----------------------------------------------------------------------------
(* The token endpoint.                                                     *)

\* exchangeAuthorizationCode: the code is read ...
CodeReads(w, g) ==
  /\ code[g] = "live"
  /\ Starts(w, [Idle EXCEPT !.at = "spend", !.grant = g])
  /\ UNCHANGED rows

\* Mutant: the code is marked without asking whether another request did.
MutSpends(w) ==
  /\ loc[w].at = "spend"
  /\ code' = [code EXCEPT ![loc[w].grant] = "used"]
  /\ Goes(w, "issue")
  /\ UNCHANGED <<recent, known, ask, grant, asked, token>>

\* ... and marked used, by the first request that gets there.
Spends(w) ==
  /\ loc[w].at = "spend"
  /\ IF code[loc[w].grant] \in Unspent
     THEN /\ code' = [code EXCEPT ![loc[w].grant] = "used"]
          /\ Goes(w, "issue")
     ELSE /\ UNCHANGED code
          /\ Ends(w)
  /\ UNCHANGED <<recent, known, ask, grant, asked, token>>

\* exchangeRefreshToken: lookupToken ...
RefreshReads(w, p) ==
  /\ token[p].refresh = "live" /\ grant[token[p].grant] = "active"
  /\ Starts(w, [Idle EXCEPT !.at = "consume", !.grant = token[p].grant, !.pair = p])
  /\ UNCHANGED rows

\* ... and the refresh token is used up.
Consumes(w) ==
  /\ loc[w].at = "consume"
  /\ IF token[loc[w].pair].refresh \in Unspent
     THEN /\ token' = [token EXCEPT ![loc[w].pair].refresh = "revoked"]
          /\ Goes(w, "issue")
     ELSE /\ UNCHANGED token
          /\ Ends(w)
  /\ UNCHANGED <<recent, known, ask, grant, asked, code>>

\* issueTokens: the grant is read once more ...
Issues(w) ==
  /\ loc[w].at = "issue"
  /\ IF grant[loc[w].grant] = "active" THEN Goes(w, "mint") ELSE Ends(w)
  /\ UNCHANGED rows

\* ... and the pair is inserted, for a grant that may be revoked by now.
Mints(w) ==
  /\ loc[w].at = "mint"
  /\ \E p \in Pair :
       /\ token[p].grant = None /\ \A q \in 1..(p - 1) : token[q].grant # None
       /\ token' = [token EXCEPT ![p] = [grant |-> loc[w].grant,
                                         access |-> "live", refresh |-> "live"]]
  /\ Ends(w)
  /\ UNCHANGED <<recent, known, ask, grant, asked, code>>

-----------------------------------------------------------------------------
(* Revocation.                                                             *)

\* revokeToken: whoever presents a token of the grant, of any age ...
TokenReads(w, p) ==
  /\ token[p].grant # None
  /\ Starts(w, [Idle EXCEPT !.at = "revoke", !.grant = token[p].grant])
  /\ UNCHANGED rows

\* ... revokes the grant and its tokens in one batch.
RevokesAll(w) ==
  /\ loc[w].at = "revoke"
  /\ grant' = [grant EXCEPT ![loc[w].grant] = "revoked"]
  /\ token' = Revoked(loc[w].grant)
  /\ Ends(w)
  /\ UNCHANGED <<recent, known, ask, asked, code>>

\* handleAgentsApi: an operator's revocation marks the grant ...
OperatorRevokes(w, g) ==
  /\ grant[g] = "active"
  /\ grant' = [grant EXCEPT ![g] = "revoked"]
  /\ Starts(w, [Idle EXCEPT !.at = "sweep", !.grant = g])
  /\ UNCHANGED <<recent, known, ask, asked, code, token>>

\* ... and then, in another query, its tokens.
Sweeps(w) ==
  /\ loc[w].at = "sweep"
  /\ token' = Revoked(loc[w].grant)
  /\ Ends(w)
  /\ UNCHANGED <<recent, known, ask, grant, asked, code>>

-----------------------------------------------------------------------------
(* An MCP request: handleMCP, authenticateOAuthBearer, runTool.            *)

\* It arrives; late is history: its agent was revoked before that.
Arrives(w, p) ==
  /\ token[p].access # "none"
  /\ Starts(w, [Idle EXCEPT !.at = "check", !.grant = token[p].grant, !.pair = p,
                            !.late = grant[token[p].grant] = "revoked"])
  /\ UNCHANGED rows

\* Mutant: the token's own row decides, as if revoking a grant swept every
\* token it will ever have.
MutAuthenticates(w) ==
  /\ loc[w].at = "check"
  /\ IF token[loc[w].pair].access = "live" THEN Goes(w, "touch") ELSE Ends(w)
  /\ UNCHANGED rows

\* The token and its grant are read in one query.
Authenticates(w) ==
  /\ loc[w].at = "check"
  /\ IF token[loc[w].pair].access = "live" /\ grant[loc[w].grant] = "active"
     THEN Goes(w, "touch")
     ELSE Ends(w)
  /\ UNCHANGED rows

\* last_used_at is written, whatever has become of the grant.
Touches(w) == loc[w].at = "touch" /\ Goes(w, "tool") /\ UNCHANGED rows

\* The tool: a reading one, or apply_config_patch where the scope allows it.
\* The actor is not looked at again.
ReadTool(w) == loc[w].at = "tool" /\ Ends(w) /\ UNCHANGED rows

WriteTool(w) ==
  /\ loc[w].at = "tool" /\ asked[loc[w].grant] \in Writers
  /\ Ends(w)
  /\ UNCHANGED rows

-----------------------------------------------------------------------------
(* Failure and time.                                                       *)

\* A query fails, or the worker is stopped.
Fails(w) == loc[w].at # "idle" /\ Ends(w) /\ UNCHANGED rows

\* Something that has not been used in time expires.
Lapses ==
  /\ \/ /\ \E a \in Ask : ask[a] = "pending" /\ ask' = [ask EXCEPT ![a] = "lapsed"]
        /\ UNCHANGED <<code, token>>
     \/ /\ \E g \in Grant : code[g] = "live" /\ code' = [code EXCEPT ![g] = "lapsed"]
        /\ UNCHANGED <<ask, token>>
     \/ /\ \E p \in Pair :
             \/ token[p].access = "live" /\ token' = [token EXCEPT ![p].access = "lapsed"]
             \/ token[p].refresh = "live" /\ token' = [token EXCEPT ![p].refresh = "lapsed"]
        /\ UNCHANGED <<ask, code>>
  /\ UNCHANGED <<recent, known, grant, asked, loc>>

Next ==
  \/ HourPasses \/ Lapses
  \/ \E a \in Ask : AuthorizationPage(a)
  \/ \E w \in Worker :
       \/ CountsClients(w) \/ InsertsClient(w) \/ Denies(w) \/ Approves(w)
       \/ Spends(w) \/ Consumes(w) \/ Issues(w) \/ Mints(w)
       \/ RevokesAll(w) \/ Sweeps(w) \/ Authenticates(w) \/ Touches(w)
       \/ ReadTool(w) \/ WriteTool(w) \/ Fails(w)
       \/ \E a \in Ask : DecisionReads(w, a)
       \/ \E g \in Grant : CodeReads(w, g) \/ OperatorRevokes(w, g)
       \/ \E p \in Pair : RefreshReads(w, p) \/ TokenReads(w, p) \/ Arrives(w, p)

Spec == Init /\ [][Next]_vars

-----------------------------------------------------------------------------
(* What must hold.                                                         *)

\* What still entitles the holder to a new pair of tokens of grant g: its
\* code, a refresh token, or a request that has used one of them up.
HasCode(g) == code[g] \in Unspent
Renewable(g) == {p \in Pair : token[p].grant = g /\ token[p].refresh \in Unspent}
Issuing(g) == {w \in Worker : loc[w].grant = g /\ loc[w].at \in {"issue", "mint"}}

Line(g) ==
  /\ HasCode(g) => Renewable(g) = {} /\ Issuing(g) = {}
  /\ Renewable(g) # {} => Issuing(g) = {}
  /\ \A p, q \in Renewable(g) : p = q
  /\ \A v, w \in Issuing(g) : v = w

\* However often a code or a refresh token is presented, and however the
\* requests interleave, a grant has one line of succession: the entitlements
\* to its next pair of tokens are never two (exchangeAuthorizationCode,
\* exchangeRefreshToken, issueTokens).
OneLineOfTokens == \A g \in Grant : Line(g)

\* A tool never runs for an agent that was revoked before the request
\* arrived, not even on a token made while it was being revoked: "Its access
\* and refresh tokens will stop working immediately" (AgentsPage.tsx).
RevokedAgentsAreOut ==
  \A w \in Worker : loc[w].at \in {"touch", "tool"} => ~loc[w].late

Closed(a) == ask[a] \in {"approved", "denied", "lapsed"}
Approving(a) == {w \in Worker : loc[w].at = "approve" /\ loc[w].ask = a}
GrantsFor(a) == {g \in Grant : asked[g] = a}

\* Nothing more comes of an authorization request once it is decided or has
\* expired, except of the approvals that had found it pending before: no other
\* one begins, and each grant that is still made uses one of these up.  They do
\* make it, with a working code, even where a denial has been recorded since:
\* the batch inserts both whether or not its UPDATE finds the request pending
\* (decideAuthorization, oauth.ts:385-441).
ClosedRequestsGrantNoMore ==
  [][\A a \in Ask : Closed(a) =>
       /\ Closed(a)'
       /\ Approving(a)' \subseteq Approving(a)
       /\ GrantsFor(a)' \subseteq GrantsFor(a) \/ Approving(a)' # Approving(a)]_vars

=============================================================================
