---------------------------- MODULE OAuthProofs ----------------------------
(***************************************************************************)
(* Proofs about OAuth for every number of workers, requests, grants and    *)
(* tokens: its types; that a grant has one line of refresh tokens; that a  *)
(* revoked agent is out; and that a closed authorization request is good   *)
(* for no further grants.  OneLineOfTokens is inductive with Made, which   *)
(* says that what a worker or a token refers to exists.                    *)
(***************************************************************************)
EXTENDS OAuth, TLAPS

-----------------------------------------------------------------------------
(* Types.                                                                  *)

LEMMA JobFacts ==
  /\ Idle \in Job
  /\ \A j \in Job : \A step \in Step : [j EXCEPT !.at = step] \in Job
  /\ \A w \in Worker : \A step \in Step :
       TypeOK => [loc EXCEPT ![w].at = step] = [loc EXCEPT ![w] = [loc[w] EXCEPT !.at = step]]
<1>1. Idle \in Job
  BY DEF Idle, Job, Step
<1>2. ASSUME NEW j \in Job, NEW step \in Step PROVE [j EXCEPT !.at = step] \in Job
  BY DEF Job
<1> QED
  BY <1>1, <1>2 DEF TypeOK

\* A worker that goes on or ends keeps a job; so does one that starts one.
LEMMA WorkerTypes ==
  ASSUME TypeOK, NEW w \in Worker
  PROVE  /\ Ends(w) => loc' \in [Worker -> Job]
         /\ \A step \in Step : Goes(w, step) => loc' \in [Worker -> Job]
         /\ \A j \in Job : Starts(w, j) => loc' \in [Worker -> Job]
  BY JobFacts DEF TypeOK, Ends, Goes, Starts

\* The jobs a request can start with.
LEMMA NewJobs ==
  /\ \A step \in Step : [Idle EXCEPT !.at = step] \in Job
  /\ \A step \in Step : \A a \in Ask : [Idle EXCEPT !.at = step, !.ask = a] \in Job
  /\ \A step \in Step : \A g \in Grant \cup {None} :
       [Idle EXCEPT !.at = step, !.grant = g] \in Job
  /\ \A step \in Step : \A g \in Grant \cup {None} : \A p \in Pair :
       [Idle EXCEPT !.at = step, !.grant = g, !.pair = p] \in Job
  /\ \A step \in Step : \A g \in Grant \cup {None} : \A p \in Pair : \A l \in BOOLEAN :
       [Idle EXCEPT !.at = step, !.grant = g, !.pair = p, !.late = l] \in Job
  BY DEF Idle, Job, Step

\* What the updates of a token row leave.
LEMMA TokenRows ==
  /\ NoToken \in TokenRow
  /\ \A t \in TokenRow : t.grant \in Grant \cup {None}
  /\ \A t \in TokenRow : \A s \in TokenState :
       [t EXCEPT !.access = s] \in TokenRow /\ [t EXCEPT !.refresh = s] \in TokenRow
  /\ \A g \in Grant \cup {None} : \A a, r \in TokenState :
       [grant |-> g, access |-> a, refresh |-> r] \in TokenRow
  BY DEF NoToken, TokenRow, TokenState

LEMMA InitTypeOK == Init => TypeOK
<1> SUFFICES ASSUME Init PROVE TypeOK
  OBVIOUS
<1>1. token \in [Pair -> TokenRow] /\ loc \in [Worker -> Job]
  BY JobFacts, TokenRows DEF Init
<1> QED
  BY <1>1 DEF Init, TypeOK

\* The rows other than tokens, and what the workers do with the rest.
LEMMA NextTypeOK == TypeOK /\ [Next]_vars => TypeOK'
<1> SUFFICES ASSUME TypeOK, [Next]_vars PROVE TypeOK'
  OBVIOUS
<1> USE OAuthAssumption DEF TypeOK, rows
<1>s. /\ \A w \in Worker : loc[w] \in Job
      /\ \A w \in Worker : loc[w].grant \in Grant \cup {None}
      /\ {"idle", "register", "approve", "deny", "spend", "consume", "issue",
          "mint", "revoke", "sweep", "check", "touch", "tool"} \subseteq Step
      /\ {"none", "live", "lapsed", "revoked"} \subseteq TokenState
  BY DEF Job, Step, TokenState
<1>1. CASE HourPasses
  BY <1>1 DEF HourPasses
<1>2. CASE Lapses
  <2>1. \A p \in Pair : /\ [token EXCEPT ![p].access = "lapsed"] \in [Pair -> TokenRow]
                        /\ [token EXCEPT ![p].refresh = "lapsed"] \in [Pair -> TokenRow]
    BY TokenRows, <1>s
  <2>2. token' \in [Pair -> TokenRow]
    BY <1>2, <2>1 DEF Lapses
  <2> QED
    BY <1>2, <2>2 DEF Lapses
<1>3. ASSUME NEW a \in Ask, AuthorizationPage(a) PROVE TypeOK'
  BY <1>3 DEF AuthorizationPage
<1>4. ASSUME NEW w \in Worker, Issues(w) \/ Authenticates(w) \/ Touches(w)
             \/ ReadTool(w) \/ WriteTool(w) \/ Fails(w) PROVE TypeOK'
  BY <1>4, <1>s, WorkerTypes DEF Issues, Authenticates, Touches, ReadTool, WriteTool, Fails
<1>5. ASSUME NEW w \in Worker, CountsClients(w) \/ InsertsClient(w) PROVE TypeOK'
  <2>1. loc' \in [Worker -> Job]
    BY <1>5, <1>s, WorkerTypes, NewJobs DEF CountsClients, InsertsClient
  <2>2. CASE CountsClients(w)
    BY <2>1, <2>2 DEF CountsClients
  <2>3. CASE InsertsClient(w)
    <3>1. recent' \in Nat /\ known' \in BOOLEAN
      BY <2>3 DEF InsertsClient
    <3> QED
      BY <2>1, <2>3, <3>1 DEF InsertsClient
  <2> QED
    BY <1>5, <2>2, <2>3
<1>6. ASSUME NEW w \in Worker, Denies(w) \/ Approves(w) PROVE TypeOK'
  <2>1. loc' \in [Worker -> Job] /\ UNCHANGED <<recent, known, token>>
    BY <1>6, WorkerTypes DEF Denies, Approves
  <2>2. loc[w].ask \in Ask \cup {None}
    BY <1>s DEF Job
  <2> QED
    BY <1>6, <2>1, <2>2 DEF Denies, Approves, Decided
<1>7. ASSUME NEW w \in Worker, Spends(w) PROVE TypeOK'
  BY <1>7, <1>s, WorkerTypes DEF Spends
<1>8. ASSUME NEW w \in Worker, Consumes(w) PROVE TypeOK'
  <2>1. \A p \in Pair : [token EXCEPT ![p].refresh = "revoked"] \in [Pair -> TokenRow]
    BY TokenRows, <1>s
  <2>2. loc[w].pair \in Pair \cup {None}
    BY <1>s DEF Job
  <2>3. loc' \in [Worker -> Job] /\ UNCHANGED <<recent, known, ask, grant, asked, code>>
    BY <1>8, <1>s, WorkerTypes DEF Consumes
  <2>4. token' \in [Pair -> TokenRow]
    BY <1>8, <2>1, <2>2 DEF Consumes
  <2> QED
    BY <2>3, <2>4
<1>9. ASSUME NEW w \in Worker, Mints(w) PROVE TypeOK'
  <2>1. loc' \in [Worker -> Job] /\ UNCHANGED <<recent, known, ask, grant, asked, code>>
    BY <1>9, WorkerTypes DEF Mints
  <2>2. [grant |-> loc[w].grant, access |-> "live", refresh |-> "live"] \in TokenRow
    BY <1>s, TokenRows
  <2>3. token' \in [Pair -> TokenRow]
    BY <1>9, <2>2 DEF Mints
  <2> QED
    BY <2>1, <2>3
<1>10. ASSUME NEW w \in Worker, RevokesAll(w) \/ Sweeps(w) PROVE TypeOK'
  <2>1. loc' \in [Worker -> Job] /\ UNCHANGED <<recent, known, ask, asked, code>>
    BY <1>10, WorkerTypes DEF RevokesAll, Sweeps
  <2>2. Revoked(loc[w].grant) \in [Pair -> TokenRow]
    BY <1>s, TokenRows DEF Revoked
  <2> QED
    BY <1>10, <2>1, <2>2 DEF RevokesAll, Sweeps
<1>11. ASSUME NEW w \in Worker, NEW a \in Ask, DecisionReads(w, a) PROVE TypeOK'
  BY <1>11, <1>s, WorkerTypes, NewJobs DEF DecisionReads
<1>12. ASSUME NEW w \in Worker, NEW g \in Grant, CodeReads(w, g) \/ OperatorRevokes(w, g)
       PROVE TypeOK'
  BY <1>12, <1>s, WorkerTypes, NewJobs DEF CodeReads, OperatorRevokes
<1>13. ASSUME NEW w \in Worker, NEW p \in Pair,
              RefreshReads(w, p) \/ TokenReads(w, p) \/ Arrives(w, p)
       PROVE TypeOK'
  <2>1. token[p].grant \in Grant \cup {None}
    BY TokenRows
  <2> QED
    BY <1>13, <2>1, <1>s, WorkerTypes, NewJobs DEF RefreshReads, TokenReads, Arrives
<1>14. CASE UNCHANGED vars
  BY <1>14 DEF vars
<1> QED
  BY <1>1, <1>2, <1>3, <1>4, <1>5, <1>6, <1>7, <1>8, <1>9, <1>10, <1>11, <1>12,
     <1>13, <1>14 DEF Next

\* Every variable keeps its type, whatever is running.
THEOREM TypeCorrect == Spec => []TypeOK
  BY InitTypeOK, NextTypeOK, PTL DEF Spec

-----------------------------------------------------------------------------
(* One line of tokens, and agents that are out.                            *)

\* What a token or a worker refers to exists.
Made ==
  /\ \A p \in Pair : token[p].grant \in Grant \/ token[p] = NoToken
  /\ \A g \in Grant : grant[g] = "none" =>
       /\ code[g] = "none"
       /\ \A p \in Pair : token[p].grant # g
       /\ \A w \in Worker : loc[w].grant # g
  /\ \A w \in Worker :
       /\ loc[w].at \in {"spend", "consume", "issue", "mint", "revoke", "sweep", "check"}
            => loc[w].grant \in Grant
       /\ loc[w].at = "consume" =>
            loc[w].pair \in Pair /\ token[loc[w].pair].grant = loc[w].grant

LateIsRevoked ==
  \A w \in Worker : loc[w].late => /\ loc[w].at = "check" /\ loc[w].grant \in Grant
                                  /\ grant[loc[w].grant] = "revoked"

IInv == TypeOK /\ Made /\ OneLineOfTokens /\ LateIsRevoked

\* Nothing new is entitled to tokens of g.
Narrows(g) ==
  /\ HasCode(g)' => HasCode(g)
  /\ Renewable(g)' \subseteq Renewable(g)
  /\ Issuing(g)' \subseteq Issuing(g)

LEMMA NarrowLine == ASSUME NEW g, Line(g), Narrows(g) PROVE Line(g)'
  BY DEF Line, Narrows

\* What the helpers do to one worker.
LEMMA WorkerSteps ==
  ASSUME TypeOK, NEW w \in Worker
  PROVE  /\ Ends(w) => loc'[w] = Idle /\ \A v \in Worker \ {w} : loc'[v] = loc[v]
         /\ \A step : Goes(w, step) =>
              /\ loc'[w].at = step /\ loc'[w].grant = loc[w].grant
              /\ loc'[w].pair = loc[w].pair /\ loc'[w].late = loc[w].late
              /\ \A v \in Worker \ {w} : loc'[v] = loc[v]
         /\ \A j : Starts(w, j) =>
              /\ loc'[w] = j /\ loc[w].at = "idle"
              /\ \A v \in Worker \ {w} : loc'[v] = loc[v]
<1>1. loc[w] \in Job /\ loc \in [Worker -> Job]
  BY DEF TypeOK
<1>2. ASSUME NEW step, Goes(w, step)
      PROVE  /\ loc'[w].at = step /\ loc'[w].grant = loc[w].grant
             /\ loc'[w].pair = loc[w].pair /\ loc'[w].late = loc[w].late
             /\ \A v \in Worker \ {w} : loc'[v] = loc[v]
  <2>1. loc'[w] = [loc[w] EXCEPT !.at = step]
    BY <1>1, <1>2 DEF Goes
  <2>2. \A v \in Worker \ {w} : loc'[v] = loc[v]
    BY <1>1, <1>2 DEF Goes
  <2>3. \A j \in Job : LET k == [j EXCEPT !.at = step] IN
          k.at = step /\ k.grant = j.grant /\ k.pair = j.pair /\ k.late = j.late
    BY DEF Job
  <2> QED
    BY <1>1, <2>1, <2>2, <2>3
<1>3. /\ Ends(w) => loc'[w] = Idle /\ \A v \in Worker \ {w} : loc'[v] = loc[v]
      /\ \A j : Starts(w, j) =>
           /\ loc'[w] = j /\ loc[w].at = "idle"
           /\ \A v \in Worker \ {w} : loc'[v] = loc[v]
  BY <1>1 DEF Ends, Starts
<1> QED
  BY <1>2, <1>3

LEMMA InitIInv == Init => IInv
<1> SUFFICES ASSUME Init PROVE IInv
  OBVIOUS
<1>1. \A p \in Pair : token[p] = NoToken
  BY DEF Init
<1>2. \A w \in Worker : loc[w] = Idle
  BY DEF Init
<1>3. Made /\ LateIsRevoked
  BY <1>1, <1>2, OAuthAssumption DEF Made, LateIsRevoked, Init, NoToken, Idle, Grant
<1>4. OneLineOfTokens
  BY <1>1, <1>2, OAuthAssumption
     DEF OneLineOfTokens, Line, HasCode, Renewable, Issuing, Unspent, Init, NoToken,
         Idle, Grant
<1> QED
  BY <1>3, <1>4, InitTypeOK DEF IInv

\* A step that leaves grants, codes and tokens alone and gives no worker a
\* grant it did not have.
LEMMA QuietMade ==
  ASSUME TypeOK, Made, UNCHANGED <<grant, code, token>>,
         NEW w \in Worker, \A v \in Worker \ {w} : loc'[v] = loc[v],
         \/ loc'[w] = Idle
         \/ loc'[w].grant = None /\ loc'[w].at \in {"register", "approve", "deny"}
         \/ loc'[w].at \in {"touch", "tool"} /\ loc'[w].grant = loc[w].grant
         \/ /\ loc'[w].at = "mint" /\ loc[w].at = "issue"
            /\ loc'[w].grant = loc[w].grant
  PROVE  Made'
<1> USE OAuthAssumption DEF Made
<1>1. \A g \in Grant : g # None
  BY DEF Grant
<1>2. Idle.grant = None /\ Idle.at = "idle"
  BY DEF Idle
<1>3. \A g \in Grant : grant[g] = "none" => loc'[w].grant # g
  BY <1>1, <1>2
<1>4. /\ loc'[w].at \in {"spend", "consume", "issue", "mint", "revoke", "sweep", "check"}
            => loc'[w].grant \in Grant
      /\ loc'[w].at # "consume"
  BY <1>2
<1> QED
  BY <1>3, <1>4

LEMMA NextMade == IInv /\ [Next]_vars => Made'
<1> SUFFICES ASSUME IInv, [Next]_vars PROVE Made'
  OBVIOUS
<1> USE DEF IInv, rows
<1>n. \A g \in Grant : g # None
  BY OAuthAssumption DEF Grant
<1>i. Idle.grant = None /\ Idle.at = "idle"
  BY DEF Idle
<1>t. NoToken.grant = None
  BY DEF NoToken
<1>1. CASE HourPasses
  BY <1>1 DEF HourPasses, Made
<1>2. CASE Lapses
  <2>1. \A p \in Pair : token'[p].grant = token[p].grant
                       /\ (token[p] = NoToken => token'[p] = NoToken)
    BY <1>2 DEF Lapses, NoToken, TypeOK, TokenRow
  <2>2. \A g \in Grant : code[g] = "none" => code'[g] = "none"
    BY <1>2 DEF Lapses, TypeOK
  <2>3. UNCHANGED <<grant, loc>>
    BY <1>2 DEF Lapses
  <2> QED
    BY <2>1, <2>2, <2>3 DEF Made
<1>3. ASSUME NEW a \in Ask, AuthorizationPage(a) PROVE Made'
  BY <1>3 DEF AuthorizationPage, Made
<1>4. ASSUME NEW w \in Worker, \/ CountsClients(w) \/ InsertsClient(w) \/ Denies(w)
             \/ Issues(w) \/ Authenticates(w) \/ Touches(w) \/ ReadTool(w)
             \/ WriteTool(w) \/ Fails(w) \/ \E a \in Ask : DecisionReads(w, a)
      PROVE Made'
  <2>1. UNCHANGED <<grant, code, token>>
    BY <1>4 DEF CountsClients, InsertsClient, Denies, Issues, Authenticates, Touches,
                ReadTool, WriteTool, Fails, DecisionReads
  <2>2. \A v \in Worker \ {w} : loc'[v] = loc[v]
    BY <1>4, WorkerSteps DEF CountsClients, InsertsClient, Denies, Issues, Authenticates,
                Touches, ReadTool, WriteTool, Fails, DecisionReads
  <2>3. CASE InsertsClient(w) \/ Denies(w) \/ ReadTool(w) \/ WriteTool(w) \/ Fails(w)
    BY <2>1, <2>2, <2>3, WorkerSteps, QuietMade
       DEF InsertsClient, Denies, ReadTool, WriteTool, Fails
  <2>4. CASE CountsClients(w) \/ \E a \in Ask : DecisionReads(w, a)
    <3>1. loc'[w].grant = None /\ loc'[w].at \in {"register", "approve", "deny"}
      BY <2>4 DEF TypeOK, CountsClients, DecisionReads, Starts, Idle
    <3> QED
      BY <3>1, <2>1, <2>2, QuietMade
  <2>5. CASE Issues(w) \/ Authenticates(w) \/ Touches(w)
    <3>1. \/ loc'[w] = Idle
          \/ loc'[w].at \in {"touch", "tool"} /\ loc'[w].grant = loc[w].grant
          \/ /\ loc'[w].at = "mint" /\ loc[w].at = "issue"
             /\ loc'[w].grant = loc[w].grant
      BY <2>5, WorkerSteps DEF Issues, Authenticates, Touches
    <3> QED
      BY <3>1, <2>1, <2>2, QuietMade
  <2> QED
    BY <1>4, <2>3, <2>4, <2>5
<1>5. ASSUME NEW w \in Worker, Approves(w) PROVE Made'
  <2>1. PICK g \in Grant : /\ grant[g] = "none"
                          /\ grant' = [grant EXCEPT ![g] = "active"]
                          /\ code' = [code EXCEPT ![g] = "live"]
    BY <1>5 DEF Approves
  <2>2. token' = token /\ loc'[w] = Idle /\ \A v \in Worker \ {w} : loc'[v] = loc[v]
    BY <1>5, WorkerSteps DEF Approves
  <2>3. \A h \in Grant : grant'[h] = "none" => grant[h] = "none" /\ code'[h] = code[h]
    BY <2>1 DEF TypeOK
  <2> QED
    BY <2>2, <2>3, <1>n, <1>i DEF Made
<1>6. ASSUME NEW w \in Worker, Spends(w) PROVE Made'
  <2>1. UNCHANGED <<grant, token>> /\ loc[w].at = "spend" /\ loc[w].grant \in Grant
    BY <1>6 DEF Spends, Made
  <2>2. code[loc[w].grant] \in Unspent => grant[loc[w].grant] # "none"
    BY <2>1 DEF Made, Unspent
  <2>3. \A g \in Grant : grant[g] = "none" => code'[g] = code[g]
    BY <1>6, <2>1, <2>2 DEF Spends, TypeOK
  <2>4. \/ loc'[w] = Idle
        \/ loc'[w].grant = loc[w].grant /\ loc'[w].at = "issue"
    BY <1>6, WorkerSteps DEF Spends
  <2>5. \A v \in Worker \ {w} : loc'[v] = loc[v]
    BY <1>6, WorkerSteps DEF Spends
  <2> QED
    BY <2>1, <2>3, <2>4, <2>5, <1>n, <1>i DEF Made
<1>7. ASSUME NEW w \in Worker, Consumes(w) PROVE Made'
  <2>1. /\ UNCHANGED <<grant, code>> /\ loc[w].at = "consume" /\ loc[w].grant \in Grant
        /\ loc[w].pair \in Pair
    BY <1>7 DEF Consumes, Made
  <2>2. \A p \in Pair : token'[p].grant = token[p].grant
                       /\ (token[p] = NoToken => token'[p] = NoToken)
    BY <1>7, <2>1 DEF Consumes, NoToken, TypeOK, TokenRow, Unspent
  <2>3. \/ loc'[w] = Idle
        \/ loc'[w].grant = loc[w].grant /\ loc'[w].at = "issue"
    BY <1>7, WorkerSteps DEF Consumes
  <2>4. \A v \in Worker \ {w} : loc'[v] = loc[v]
    BY <1>7, WorkerSteps DEF Consumes
  <2> QED
    BY <2>1, <2>2, <2>3, <2>4, <1>n, <1>i DEF Made
<1>8. ASSUME NEW w \in Worker, Mints(w) PROVE Made'
  <2>1. PICK p \in Pair :
          /\ token[p].grant = None
          /\ token' = [token EXCEPT ![p] = [grant |-> loc[w].grant,
                                            access |-> "live", refresh |-> "live"]]
    BY <1>8 DEF Mints
  <2>2. /\ UNCHANGED <<grant, code>> /\ loc[w].at = "mint" /\ loc[w].grant \in Grant
        /\ loc'[w] = Idle /\ \A v \in Worker \ {w} : loc'[v] = loc[v]
    BY <1>8, WorkerSteps DEF Mints, Made
  <2>3. \A q \in Pair : q # p => token'[q] = token[q]
    BY <2>1 DEF TypeOK
  <2>4. token'[p].grant = loc[w].grant
    BY <2>1 DEF TypeOK
  <2>5. \A v \in Worker : loc[v].at = "consume" => loc[v].pair # p
    BY <2>1, <1>n DEF Made
  <2> QED
    BY <2>2, <2>3, <2>4, <2>5, <1>n, <1>i DEF Made
<1>9. ASSUME NEW w \in Worker, RevokesAll(w) \/ Sweeps(w) PROVE Made'
  <2>1. /\ loc[w].grant \in Grant /\ grant[loc[w].grant] # "none" /\ code' = code
        /\ token' = Revoked(loc[w].grant)
        /\ grant' \in {grant, [grant EXCEPT ![loc[w].grant] = "revoked"]}
        /\ loc'[w] = Idle /\ \A v \in Worker \ {w} : loc'[v] = loc[v]
    BY <1>9, WorkerSteps DEF RevokesAll, Sweeps, Made
  <2>2. \A p \in Pair : token'[p].grant = token[p].grant
                       /\ (token[p] = NoToken => token'[p] = NoToken)
    BY <2>1, <1>n, <1>t DEF Revoked
  <2>3. \A g \in Grant : grant'[g] = "none" => grant[g] = "none"
    BY <2>1 DEF TypeOK
  <2> QED
    BY <2>1, <2>2, <2>3, <1>n, <1>i DEF Made
<1>10. ASSUME NEW w \in Worker, NEW g \in Grant, CodeReads(w, g) \/ OperatorRevokes(w, g)
       PROVE Made'
  <2>1. /\ UNCHANGED <<code, token>> /\ grant[g] # "none"
        /\ \A h \in Grant : grant'[h] = "none" => grant[h] = "none"
        /\ \A v \in Worker \ {w} : loc'[v] = loc[v]
    BY <1>10, WorkerSteps DEF CodeReads, OperatorRevokes, Made, TypeOK
  <2>2. loc'[w].grant = g /\ loc'[w].at \in {"spend", "sweep"}
    BY <1>10 DEF TypeOK, CodeReads, OperatorRevokes, Starts, Idle
  <2> QED
    BY <2>1, <2>2 DEF Made
<1>11. ASSUME NEW w \in Worker, NEW p \in Pair,
              RefreshReads(w, p) \/ TokenReads(w, p) \/ Arrives(w, p)
       PROVE Made'
  <2>1. token[p].grant \in Grant
    BY <1>11 DEF RefreshReads, TokenReads, Arrives, Made, NoToken, TypeOK
  <2>2. UNCHANGED <<grant, code, token>> /\ \A v \in Worker \ {w} : loc'[v] = loc[v]
    BY <1>11, WorkerSteps DEF RefreshReads, TokenReads, Arrives
  <2>3. /\ loc'[w].grant = token[p].grant /\ loc'[w].at \in {"consume", "revoke", "check"}
        /\ loc'[w].at = "consume" => loc'[w].pair = p
    BY <1>11 DEF TypeOK, RefreshReads, TokenReads, Arrives, Starts, Idle
  <2> QED
    BY <2>1, <2>2, <2>3 DEF Made
<1>12. CASE UNCHANGED vars
  BY <1>12 DEF vars, Made
<1> QED
  BY <1>1, <1>2, <1>3, <1>4, <1>5, <1>6, <1>7, <1>8, <1>9, <1>10, <1>11, <1>12 DEF Next

\* A step that spends nothing and gives no worker the right to issue tokens.
LEMMA QuietLine ==
  ASSUME NEW g \in Grant, Line(g),
         code'[g] \in Unspent => code[g] \in Unspent,
         \A p \in Pair : token'[p].grant = token[p].grant
                      /\ (token'[p].refresh \in Unspent => token[p].refresh \in Unspent),
         \A w \in Worker : loc'[w].at \in {"issue", "mint"} =>
                            loc'[w].grant = loc[w].grant /\ loc[w].at \in {"issue", "mint"}
  PROVE  Line(g)'
<1>1. Narrows(g)
  BY DEF Narrows, HasCode, Renewable, Issuing
<1> QED
  BY <1>1, NarrowLine

LEMMA NextLine == IInv /\ [Next]_vars => OneLineOfTokens'
<1> SUFFICES ASSUME IInv, [Next]_vars, NEW g \in Grant PROVE Line(g)'
  BY DEF OneLineOfTokens
<1> USE DEF IInv, rows
<1>l. Line(g)
  BY DEF OneLineOfTokens
<1>i. Idle.at = "idle"
  BY DEF Idle
<1>u. "live" \in Unspent /\ "lapsed" \in Unspent /\ "used" \notin Unspent
      /\ "revoked" \notin Unspent /\ "none" \notin Unspent
  BY DEF Unspent
<1>1. CASE HourPasses \/ \E a \in Ask : AuthorizationPage(a)
  BY <1>1, <1>l, QuietLine DEF HourPasses, AuthorizationPage
<1>2. CASE Lapses
  <2>1. /\ code'[g] \in Unspent => code[g] \in Unspent
        /\ \A p \in Pair : token'[p].grant = token[p].grant
        /\ \A p \in Pair : token'[p].refresh \in Unspent => token[p].refresh \in Unspent
        /\ loc' = loc
    BY <1>2, <1>u DEF Lapses, TypeOK, TokenRow
  <2> QED
    BY <2>1, <1>l, QuietLine
<1>3. ASSUME NEW w \in Worker, \/ CountsClients(w) \/ InsertsClient(w) \/ Denies(w)
             \/ Issues(w) \/ Authenticates(w) \/ Touches(w) \/ ReadTool(w)
             \/ WriteTool(w) \/ Fails(w)
      PROVE Line(g)'
  <2>1. UNCHANGED <<code, token>>
    BY <1>3 DEF CountsClients, InsertsClient, Denies, Issues, Authenticates, Touches,
         ReadTool, WriteTool, Fails
  <2>2. \A v \in Worker \ {w} : loc'[v] = loc[v]
    BY <1>3, WorkerSteps DEF CountsClients, InsertsClient, Denies, Issues, Authenticates,
         Touches, ReadTool, WriteTool, Fails
  <2>3. loc'[w].at \in {"issue", "mint"} => loc'[w].grant = loc[w].grant /\ loc[w].at = "issue"
    <3>1. CASE CountsClients(w)
      BY <3>1 DEF TypeOK, CountsClients, Starts, Idle
    <3>2. CASE ~CountsClients(w)
      BY <1>3, <3>2, <1>i, WorkerSteps DEF InsertsClient, Denies, Issues, Authenticates,
           Touches, ReadTool, WriteTool, Fails
    <3> QED
      BY <3>1, <3>2
  <2> QED
    BY <2>1, <2>2, <2>3, <1>l, QuietLine
<1>10. ASSUME NEW w \in Worker, NEW a \in Ask, DecisionReads(w, a) PROVE Line(g)'
  <2>1. /\ UNCHANGED <<code, token>> /\ loc'[w].at \in {"approve", "deny"}
        /\ \A v \in Worker \ {w} : loc'[v] = loc[v]
    BY <1>10 DEF TypeOK, DecisionReads, Starts, Idle
  <2> QED
    BY <2>1, <1>l, QuietLine
<1>11. ASSUME NEW w \in Worker, NEW h \in Grant, CodeReads(w, h) \/ OperatorRevokes(w, h)
       PROVE Line(g)'
  <2>1. /\ UNCHANGED <<code, token>> /\ loc'[w].at \in {"spend", "sweep"}
        /\ \A v \in Worker \ {w} : loc'[v] = loc[v]
    BY <1>11 DEF TypeOK, CodeReads, OperatorRevokes, Starts, Idle
  <2> QED
    BY <2>1, <1>l, QuietLine
<1>12. ASSUME NEW w \in Worker, NEW p \in Pair,
              RefreshReads(w, p) \/ TokenReads(w, p) \/ Arrives(w, p)
       PROVE Line(g)'
  <2>1. /\ UNCHANGED <<code, token>> /\ loc'[w].at \in {"consume", "revoke", "check"}
        /\ \A v \in Worker \ {w} : loc'[v] = loc[v]
    BY <1>12 DEF TypeOK, RefreshReads, TokenReads, Arrives, Starts, Idle
  <2> QED
    BY <2>1, <1>l, QuietLine
<1>4. ASSUME NEW w \in Worker, Approves(w) PROVE Line(g)'
  <2>1. PICK h \in Grant : grant[h] = "none" /\ code' = [code EXCEPT ![h] = "live"]
    BY <1>4 DEF Approves
  <2>2. token' = token /\ loc'[w] = Idle /\ \A v \in Worker \ {w} : loc'[v] = loc[v]
    BY <1>4, WorkerSteps DEF Approves
  <2>3. CASE g # h
    <3>1. code'[g] = code[g]
      BY <2>1, <2>3 DEF TypeOK
    <3> QED
      BY <3>1, <2>2, <1>i, <1>l, QuietLine
  <2>4. CASE g = h
    <3>1. (\A p \in Pair : token[p].grant # g) /\ (\A v \in Worker : loc[v].grant # g)
      BY <2>1, <2>4 DEF Made
    <3>2. Renewable(g)' = {} /\ Issuing(g)' = {}
      BY <3>1, <2>2, <1>i DEF Renewable, Issuing
    <3> QED
      BY <3>2 DEF Line
  <2> QED
    BY <2>3, <2>4
<1>5. ASSUME NEW w \in Worker, Spends(w) PROVE Line(g)'
  <2>1. /\ token' = token /\ loc[w].at = "spend" /\ loc[w].grant \in Grant
        /\ \A v \in Worker \ {w} : loc'[v] = loc[v]
    BY <1>5, WorkerSteps DEF Spends, Made
  <2>2. CASE g = loc[w].grant /\ code[g] \in Unspent
    <3>1. Renewable(g) = {} /\ Issuing(g) = {}
      BY <1>l, <2>2 DEF Line, HasCode
    <3>2. code'[g] = "used"
      BY <1>5, <2>2 DEF Spends, TypeOK
    <3>3. Renewable(g)' = {} /\ Issuing(g)' \subseteq {w}
      BY <2>1, <3>1 DEF Renewable, Issuing
    <3> QED
      BY <3>2, <3>3, <1>u DEF Line, HasCode
  <2>3. CASE ~(g = loc[w].grant /\ code[g] \in Unspent)
    <3>1. code'[g] \in Unspent => code[g] \in Unspent
      BY <1>5, <2>1, <1>u DEF Spends, TypeOK
    <3>2. CASE code[loc[w].grant] \in Unspent
      <4>1. g # loc[w].grant /\ loc'[w].grant = loc[w].grant
        BY <1>5, <2>3, <3>2, WorkerSteps DEF Spends
      <4>2. Narrows(g)
        BY <2>1, <3>1, <4>1 DEF Narrows, HasCode, Renewable, Issuing
      <4> QED
        BY <4>2, <1>l, NarrowLine
    <3>3. CASE code[loc[w].grant] \notin Unspent
      BY <1>5, <2>1, <3>1, <3>3, <1>i, <1>l, WorkerSteps, QuietLine DEF Spends
    <3> QED
      BY <3>2, <3>3
  <2> QED
    BY <2>2, <2>3
<1>6. ASSUME NEW w \in Worker, Consumes(w) PROVE Line(g)'
  <2>1. /\ code' = code /\ loc[w].at = "consume" /\ loc[w].grant \in Grant
        /\ loc[w].pair \in Pair /\ token[loc[w].pair].grant = loc[w].grant
        /\ \A v \in Worker \ {w} : loc'[v] = loc[v]
    BY <1>6, WorkerSteps DEF Consumes, Made
  <2> DEFINE p == loc[w].pair
  <2>2. /\ \A q \in Pair : token'[q].grant = token[q].grant
        /\ \A q \in Pair : token'[q].refresh \in Unspent => token[q].refresh \in Unspent
    BY <1>6, <2>1, <1>u DEF Consumes, TypeOK, TokenRow
  <2>3. CASE g = loc[w].grant /\ token[p].refresh \in Unspent
    <3>1. p \in Renewable(g)
      BY <2>1, <2>3 DEF Renewable
    <3>2. ~HasCode(g) /\ Issuing(g) = {} /\ Renewable(g) \subseteq {p}
      BY <3>1, <1>l DEF Line
    <3>3. token'[p].refresh = "revoked"
      BY <1>6, <2>1, <2>3 DEF Consumes, TypeOK, TokenRow
    <3>4. Renewable(g)' = {} /\ Issuing(g)' \subseteq {w} /\ ~HasCode(g)'
      BY <2>1, <2>2, <3>2, <3>3, <1>u DEF Renewable, Issuing, HasCode
    <3> QED
      BY <3>4 DEF Line
  <2>4. CASE ~(g = loc[w].grant /\ token[p].refresh \in Unspent)
    <3>1. CASE token[p].refresh \in Unspent
      <4>1. g # loc[w].grant /\ loc'[w].grant = loc[w].grant
        BY <1>6, <2>4, <3>1, WorkerSteps DEF Consumes
      <4>2. Narrows(g)
        BY <2>1, <2>2, <4>1 DEF Narrows, HasCode, Renewable, Issuing
      <4> QED
        BY <4>2, <1>l, NarrowLine
    <3>2. CASE token[p].refresh \notin Unspent
      BY <1>6, <2>1, <2>2, <3>2, <1>i, <1>l, WorkerSteps, QuietLine DEF Consumes
    <3> QED
      BY <3>1, <3>2
  <2> QED
    BY <2>3, <2>4
<1>7. ASSUME NEW w \in Worker, Mints(w) PROVE Line(g)'
  <2>1. PICK p \in Pair :
          /\ token[p].grant = None
          /\ token' = [token EXCEPT ![p] = [grant |-> loc[w].grant,
                                            access |-> "live", refresh |-> "live"]]
    BY <1>7 DEF Mints
  <2>2. /\ code' = code /\ loc[w].at = "mint" /\ loc[w].grant \in Grant
        /\ loc'[w] = Idle /\ \A v \in Worker \ {w} : loc'[v] = loc[v]
    BY <1>7, WorkerSteps DEF Mints, Made
  <2>3. /\ \A q \in Pair : q # p => token'[q] = token[q]
        /\ token'[p].grant = loc[w].grant
    BY <2>1 DEF TypeOK
  <2>4. Issuing(g)' = Issuing(g) \ {w}
    BY <2>2, <1>i DEF Issuing
  <2>5. CASE g = loc[w].grant
    <3>1. w \in Issuing(g)
      BY <2>2, <2>5 DEF Issuing
    <3>2. ~HasCode(g) /\ Renewable(g) = {} /\ Issuing(g) \subseteq {w}
      BY <3>1, <1>l DEF Line
    <3>3. Renewable(g)' \subseteq {p} /\ Issuing(g)' = {} /\ ~HasCode(g)'
      BY <2>2, <2>3, <2>4, <3>2 DEF Renewable, HasCode
    <3> QED
      BY <3>3 DEF Line
  <2>6. CASE g # loc[w].grant
    <3>1. Narrows(g)
      BY <2>2, <2>3, <2>4, <2>6 DEF Narrows, HasCode, Renewable
    <3> QED
      BY <3>1, <1>l, NarrowLine
  <2> QED
    BY <2>5, <2>6
<1>8. ASSUME NEW w \in Worker, RevokesAll(w) \/ Sweeps(w) PROVE Line(g)'
  <2>1. /\ code' = code /\ token' = Revoked(loc[w].grant)
        /\ loc'[w] = Idle /\ \A v \in Worker \ {w} : loc'[v] = loc[v]
    BY <1>8, WorkerSteps DEF RevokesAll, Sweeps
  <2>2. \A q \in Pair :
          /\ token'[q].grant = token[q].grant
          /\ token'[q].refresh \in Unspent => token[q].refresh \in Unspent
    BY <2>1, <1>u DEF Revoked
  <2>3. \A v \in Worker : loc'[v].at \in {"issue", "mint"} =>
          loc'[v].grant = loc[v].grant /\ loc[v].at \in {"issue", "mint"}
    BY <2>1, <1>i
  <2>4. code'[g] \in Unspent => code[g] \in Unspent
    BY <2>1
  <2> QED
    BY <2>2, <2>3, <2>4, <1>l, QuietLine
<1>9. CASE UNCHANGED vars
  BY <1>9, <1>l, QuietLine DEF vars
<1> QED
  BY <1>1, <1>2, <1>3, <1>4, <1>5, <1>6, <1>7, <1>8, <1>9, <1>10, <1>11,
     <1>12 DEF Next

\* No step brings a revoked grant back.
LEMMA RevokedStays ==
  TypeOK /\ [Next]_vars => \A g \in Grant : grant[g] = "revoked" => grant'[g] = "revoked"
<1> SUFFICES ASSUME TypeOK, [Next]_vars, NEW g \in Grant, grant[g] = "revoked"
             PROVE grant'[g] = "revoked"
  OBVIOUS
<1>1. ASSUME NEW w \in Worker, Approves(w) PROVE grant'[g] = "revoked"
  BY <1>1 DEF Approves, TypeOK
<1>2. ASSUME NEW w \in Worker, RevokesAll(w) PROVE grant'[g] = "revoked"
  BY <1>2 DEF RevokesAll, TypeOK
<1>3. ASSUME NEW w \in Worker, NEW h \in Grant, OperatorRevokes(w, h)
      PROVE grant'[g] = "revoked"
  BY <1>3 DEF OperatorRevokes, TypeOK
<1> QED
  BY <1>1, <1>2, <1>3
     DEF Next, vars, rows, HourPasses, Lapses, AuthorizationPage, CountsClients,
         InsertsClient, Denies, Spends, Consumes, Issues, Mints, Sweeps, Authenticates,
         Touches, ReadTool, WriteTool, Fails, DecisionReads, CodeReads, RefreshReads,
         TokenReads, Arrives

LEMMA NextLate == IInv /\ [Next]_vars => LateIsRevoked'
<1> SUFFICES ASSUME IInv, [Next]_vars, NEW v \in Worker, loc'[v].late
             PROVE  /\ loc'[v].at = "check" /\ loc'[v].grant \in Grant
                    /\ grant'[loc'[v].grant] = "revoked"
  BY DEF LateIsRevoked
<1> USE DEF IInv, rows
<1>i. Idle.late = FALSE
  BY DEF Idle
<1>r. \A g \in Grant : grant[g] = "revoked" => grant'[g] = "revoked"
  BY RevokedStays
<1>v. CASE loc'[v] = loc[v]
  BY <1>v, <1>r DEF LateIsRevoked
<1>n. loc[v].late => /\ loc[v].at = "check" /\ loc[v].grant \in Grant
                     /\ grant[loc[v].grant] = "revoked"
  BY DEF LateIsRevoked
<1>1. ASSUME NEW w \in Worker, \/ InsertsClient(w) \/ Denies(w) \/ Approves(w)
             \/ Mints(w) \/ RevokesAll(w) \/ Sweeps(w) \/ ReadTool(w) \/ WriteTool(w)
             \/ Fails(w)
      PROVE loc'[v] = loc[v]
  BY <1>1, <1>i, WorkerSteps DEF InsertsClient, Denies, Approves, Mints, RevokesAll,
       Sweeps, ReadTool, WriteTool, Fails
<1>2. ASSUME NEW w \in Worker, \/ Spends(w) \/ Consumes(w) \/ Issues(w) \/ Touches(w)
      PROVE loc'[v] = loc[v]
  BY <1>2, <1>i, <1>n, WorkerSteps DEF Spends, Consumes, Issues, Touches
<1>3. ASSUME NEW w \in Worker, Authenticates(w) PROVE loc'[v] = loc[v]
  BY <1>3, <1>i, <1>n, WorkerSteps DEF Authenticates
<1>4. ASSUME NEW w \in Worker, CountsClients(w) \/ \E a \in Ask : DecisionReads(w, a)
      PROVE loc'[v] = loc[v]
  BY <1>4 DEF TypeOK, CountsClients, DecisionReads, Starts, Idle
<1>5. ASSUME NEW w \in Worker, NEW h \in Grant, CodeReads(w, h) \/ OperatorRevokes(w, h)
      PROVE loc'[v] = loc[v]
  <2> DEFINE Early == loc'[w].late = FALSE /\ \A u \in Worker \ {w} : loc'[u] = loc[u]
  <2>1. CodeReads(w, h) => Early
    BY DEF TypeOK, CodeReads, Starts, Idle
  <2>2. OperatorRevokes(w, h) => Early
    BY DEF TypeOK, OperatorRevokes, Starts, Idle
  <2> QED
    BY <1>5, <2>1, <2>2
<1>6. ASSUME NEW w \in Worker, NEW p \in Pair, RefreshReads(w, p) \/ TokenReads(w, p)
      PROVE loc'[v] = loc[v]
  <2> DEFINE Early == loc'[w].late = FALSE /\ \A u \in Worker \ {w} : loc'[u] = loc[u]
  <2>1. RefreshReads(w, p) => Early
    BY DEF TypeOK, RefreshReads, Starts, Idle
  <2>2. TokenReads(w, p) => Early
    BY DEF TypeOK, TokenReads, Starts, Idle
  <2> QED
    BY <1>6, <2>1, <2>2
<1>7. ASSUME NEW w \in Worker, NEW p \in Pair, Arrives(w, p)
      PROVE  /\ loc'[v].at = "check" /\ loc'[v].grant \in Grant
             /\ grant'[loc'[v].grant] = "revoked"
  <2>1. token[p].grant \in Grant
    BY <1>7 DEF Arrives, Made, NoToken, TypeOK
  <2>2. /\ grant' = grant /\ \A u \in Worker \ {w} : loc'[u] = loc[u]
        /\ loc'[w].at = "check" /\ loc'[w].grant = token[p].grant
        /\ loc'[w].late = (grant[token[p].grant] = "revoked")
    BY <1>7 DEF TypeOK, Arrives, Starts, Idle
  <2> QED
    BY <2>1, <2>2, <1>v
<1>8. CASE HourPasses \/ Lapses \/ (\E a \in Ask : AuthorizationPage(a)) \/ UNCHANGED vars
  BY <1>8, <1>v DEF HourPasses, Lapses, AuthorizationPage, vars
<1> QED
  BY <1>v, <1>1, <1>2, <1>3, <1>4, <1>5, <1>6, <1>7, <1>8 DEF Next

-----------------------------------------------------------------------------
(* Theorems.                                                               *)

THEOREM Invariance == Spec => []IInv
<1>1. Init => IInv
  BY InitIInv
<1>2. IInv /\ [Next]_vars => IInv'
  BY NextTypeOK, NextMade, NextLine, NextLate DEF IInv
<1> QED
  BY <1>1, <1>2, PTL DEF Spec

\* A code and a refresh token are each good for one pair of tokens, and a
\* grant never has two entitlements to its next pair, however many requests
\* present what they have at the same time.  It says nothing of access tokens:
\* an older one stays good until it expires or the grant is revoked.
THEOREM OneLine == Spec => []OneLineOfTokens
  BY Invariance, PTL DEF IInv

\* No tool runs for an agent that was revoked before its request arrived.
THEOREM RevokedOut == Spec => []RevokedAgentsAreOut
<1>1. IInv => RevokedAgentsAreOut
  BY DEF IInv, LateIsRevoked, RevokedAgentsAreOut
<1> QED
  BY <1>1, Invariance, PTL

\* What a closed request allows of a step.
NoMore(a) ==
  /\ Closed(a)'
  /\ Approving(a)' \subseteq Approving(a)
  /\ GrantsFor(a)' \subseteq GrantsFor(a) \/ Approving(a)' # Approving(a)

LEMMA ClosedStep ==
  ASSUME TypeOK, [Next]_vars, NEW a \in Ask, Closed(a)
  PROVE  NoMore(a)
<1> USE DEF rows
\* It is enough that no worker begins to approve, where no grant is made.
<1>1. ASSUME asked' = asked, ask'[a] = ask[a],
             \A v \in Worker : loc'[v].at = "approve" /\ loc'[v].ask = a => loc'[v] = loc[v]
      PROVE  NoMore(a)
  BY <1>1 DEF Closed, Approving, GrantsFor, NoMore
<1>i. Idle.at = "idle"
  BY DEF Idle
\* Nor does the worker that moves, unless its step is "approve".
<1>m. ASSUME asked' = asked, ask'[a] = ask[a], NEW w \in Worker,
             \A v \in Worker \ {w} : loc'[v] = loc[v], loc'[w].at # "approve" \/ loc'[w].ask # a
      PROVE  NoMore(a)
  BY <1>1, <1>m
<1>2. CASE HourPasses \/ UNCHANGED vars
  BY <1>1, <1>2 DEF HourPasses, vars
<1>3. CASE Lapses
  <2>1. ask'[a] = ask[a]
    BY <1>3 DEF Lapses, Closed, TypeOK
  <2> QED
    BY <1>1, <1>3, <2>1 DEF Lapses
<1>4. ASSUME NEW b \in Ask, AuthorizationPage(b) PROVE NoMore(a)
  <2>1. ask'[a] = ask[a] /\ UNCHANGED <<asked, loc>>
    BY <1>4 DEF AuthorizationPage, Closed, TypeOK
  <2> QED
    BY <1>1, <2>1
<1>5. ASSUME NEW w \in Worker, Approves(w) PROVE NoMore(a)
  <2>1. Closed(a)'
    BY <1>5 DEF Approves, Decided, Closed, TypeOK
  <2>2. loc[w].at = "approve" /\ loc'[w] = Idle /\ \A v \in Worker \ {w} : loc'[v] = loc[v]
    BY <1>5, WorkerSteps DEF Approves
  <2>3. Approving(a)' = Approving(a) \ {w}
    BY <2>2, <1>i DEF Approving
  <2>4. PICK g \in Grant : asked' = [asked EXCEPT ![g] = loc[w].ask]
    BY <1>5 DEF Approves
  <2>5. CASE loc[w].ask = a
    <3>1. w \in Approving(a)
      BY <2>2, <2>5 DEF Approving
    <3> QED
      BY <2>1, <2>3, <3>1 DEF NoMore
  <2>6. CASE loc[w].ask # a
    <3>1. GrantsFor(a)' \subseteq GrantsFor(a)
      BY <2>4, <2>6 DEF GrantsFor, TypeOK
    <3> QED
      BY <2>1, <2>3, <3>1 DEF NoMore
  <2> QED
    BY <2>5, <2>6
<1>6. ASSUME NEW w \in Worker, Denies(w) PROVE NoMore(a)
  <2>1. ask'[a] = ask[a] \/ ask'[a] = "denied"
    BY <1>6 DEF Denies, Decided, TypeOK
  <2>2. asked' = asked /\ loc'[w] = Idle /\ \A v \in Worker \ {w} : loc'[v] = loc[v]
    BY <1>6, WorkerSteps DEF Denies
  <2> QED
    BY <2>1, <2>2, <1>i DEF NoMore, Closed, Approving, GrantsFor
<1>7. ASSUME NEW w \in Worker, NEW b \in Ask, DecisionReads(w, b) PROVE NoMore(a)
  <2>1. b # a
    BY <1>7 DEF DecisionReads, Closed
  <2>2. loc'[w].ask = b
    BY <1>7 DEF DecisionReads, Starts, TypeOK, Idle
  <2>3. UNCHANGED <<ask, asked>> /\ \A v \in Worker \ {w} : loc'[v] = loc[v]
    BY <1>7, WorkerSteps DEF DecisionReads
  <2> QED
    BY <2>1, <2>2, <2>3, <1>m
<1>8. ASSUME NEW w \in Worker, \/ InsertsClient(w) \/ Mints(w) \/ RevokesAll(w) \/ Sweeps(w)
             \/ ReadTool(w) \/ WriteTool(w) \/ Fails(w)
      PROVE NoMore(a)
  <2>1. /\ UNCHANGED <<ask, asked>> /\ loc'[w] = Idle
        /\ \A v \in Worker \ {w} : loc'[v] = loc[v]
    BY <1>8, WorkerSteps DEF InsertsClient, Mints, RevokesAll, Sweeps, ReadTool, WriteTool, Fails
  <2> QED
    BY <2>1, <1>i, <1>m
<1>9. ASSUME NEW w \in Worker, \/ Spends(w) \/ Consumes(w) \/ Issues(w) \/ Authenticates(w)
             \/ Touches(w)
      PROVE NoMore(a)
  <2>1. /\ UNCHANGED <<ask, asked>> /\ loc'[w].at # "approve"
        /\ \A v \in Worker \ {w} : loc'[v] = loc[v]
    BY <1>9, <1>i, WorkerSteps DEF Spends, Consumes, Issues, Authenticates, Touches
  <2> QED
    BY <2>1, <1>m
<1>10. ASSUME NEW w \in Worker, CountsClients(w) PROVE NoMore(a)
  <2>1. loc'[w].at # "approve"
    BY <1>10 DEF CountsClients, Starts, TypeOK, Idle
  <2>2. UNCHANGED <<ask, asked>> /\ \A v \in Worker \ {w} : loc'[v] = loc[v]
    BY <1>10, WorkerSteps DEF CountsClients
  <2> QED
    BY <2>1, <2>2, <1>m
<1>11. ASSUME NEW w \in Worker, NEW g \in Grant, CodeReads(w, g) \/ OperatorRevokes(w, g)
       PROVE NoMore(a)
  <2>1. loc'[w].at # "approve"
    BY <1>11 DEF CodeReads, OperatorRevokes, Starts, TypeOK, Idle
  <2>2. UNCHANGED <<ask, asked>> /\ \A v \in Worker \ {w} : loc'[v] = loc[v]
    BY <1>11, WorkerSteps DEF CodeReads, OperatorRevokes
  <2> QED
    BY <2>1, <2>2, <1>m
<1>12. ASSUME NEW w \in Worker, NEW p \in Pair,
              RefreshReads(w, p) \/ TokenReads(w, p) \/ Arrives(w, p)
       PROVE NoMore(a)
  <2>1. loc'[w].at # "approve"
    BY <1>12 DEF RefreshReads, TokenReads, Arrives, Starts, TypeOK, Idle
  <2>2. UNCHANGED <<ask, asked>> /\ \A v \in Worker \ {w} : loc'[v] = loc[v]
    BY <1>12, WorkerSteps DEF RefreshReads, TokenReads, Arrives
  <2> QED
    BY <2>1, <2>2, <1>m
<1> QED
  BY <1>2, <1>3, <1>4, <1>5, <1>6, <1>7, <1>8, <1>9, <1>10, <1>11, <1>12 DEF Next

\* Of a request that is decided or expired come no grants but those of the
\* approvals that were under way, one each.
THEOREM ClosedIsClosed == Spec => ClosedRequestsGrantNoMore
<1>1. TypeOK /\ [Next]_vars =>
        [\A a \in Ask : Closed(a) =>
           /\ Closed(a)'
           /\ Approving(a)' \subseteq Approving(a)
           /\ GrantsFor(a)' \subseteq GrantsFor(a) \/ Approving(a)' # Approving(a)]_vars
  BY ClosedStep DEF NoMore
<1> QED
  BY <1>1, TypeCorrect, PTL DEF Spec, ClosedRequestsGrantNoMore
=============================================================================
