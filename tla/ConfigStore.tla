---------------------------- MODULE ConfigStore ----------------------------
(***************************************************************************)
(* How the control plane stores one IVR configuration: the editor's        *)
(* requests (ui/worker/handlers/configs.ts) and the patches of agents and  *)
(* rollbacks (ui/worker/lib/config-changes.ts) on three tables of D1:      *)
(* configs, sip_secrets and credential_bundles, with config_changes as the *)
(* history.  A request runs over several awaited queries; one query, or    *)
(* one batch, is atomic, and queries of other requests come between.       *)
(*                                                                         *)
(* A document is its set of connections and a text for all the rest; its   *)
(* rendering is injective, so the hash of a version is its document and    *)
(* secret revision.  What a request submits is chosen where it is used.    *)
(***************************************************************************)
EXTENDS Naturals, FiniteSets

CONSTANTS
  Request,    \* the requests that arrive, each handled once
  Conn, Text, Password,
  Key,        \* of the credential bundle; a key is set or empty
  None

Doc == [conns : SUBSET Conn, text : Text]

\* The configs row; born is history: the request that inserted it.
Row == [doc : Doc, hash : Doc \X Nat, rev : Nat, reg : Request \cup {"first"},
        change : Request \cup {None}, born : Request \cup {"first"}]

ASSUME StoreAssumption ==
  None \notin Request \cup Password \cup Doc \cup Row /\ "first" \notin Request

\* sha256Hex of the rendered document and the secret revision.
Hash(doc, rev) == <<doc, rev>>

VARIABLES
  row,         \* the configs row, or None
  passwords,   \* sip_secrets
  bundle,      \* credential_bundles: the keys that are set
  history,     \* config_changes
  loc,         \* per request: where it is, and what it has read
  overwritten, \* history: a write replaced a version its request had not read, or
               \* a row that was not there then
  served       \* history: what each hash has stood for since the row exists

store == <<row, passwords, bundle, history>>
vars == <<store, loc, overwritten, served>>

Step == {"idle", "put", "save", "credentials", "write", "patch", "check", "commit",
         "delete", "create", "rotate", "done"}
Blank == [at |-> "done", row |-> None, has |-> {}, bundle |-> {}, doc |-> None]

Has == {c \in Conn : passwords[c] # None}

\* What a bridge is sent for the stored version.
Runtime == [doc |-> row.doc, credentials |-> bundle,
            passwords |-> {<<c, passwords[c]>> : c \in row.doc.conns}]

TypeOK ==
  /\ row \in Row \cup {None}
  /\ passwords \in [Conn -> Password \cup {None}]
  /\ bundle \subseteq Key
  /\ history \subseteq [id : Request, before : Doc, after : Doc]
  /\ loc \in [Request -> [at : Step, row : Row \cup {None}, has : SUBSET Conn,
                          bundle : SUBSET Key, doc : Doc \cup {None}]]
  /\ overwritten \in BOOLEAN

\* Nothing is stored yet, or a first version with a password per connection.
Init ==
  /\ \/ row = None
     \/ \E doc \in Doc : /\ doc.conns # {}
                         /\ row = [doc |-> doc, hash |-> Hash(doc, 1), rev |-> 1,
                                   reg |-> "first", change |-> None, born |-> "first"]
  /\ \E p \in Password : passwords =
       [c \in Conn |-> IF row # None /\ c \in row.doc.conns THEN p ELSE None]
  /\ bundle = {} /\ history = {}
  /\ loc = [r \in Request |-> [Blank EXCEPT !.at = "idle"]]
  /\ overwritten = FALSE
  /\ served = IF row = None THEN {} ELSE {[hash |-> row.hash, runtime |-> Runtime]}

-----------------------------------------------------------------------------
(* Helpers.                                                                *)

Goes(r, step) == loc' = [loc EXCEPT ![r].at = step]
Ends(r) == loc' = [loc EXCEPT ![r] = Blank]

\* A query reads the row.
Reads(r, from, to) ==
  /\ loc[r].at = from
  /\ loc' = [loc EXCEPT ![r].at = to, ![r].row = row]
  /\ UNCHANGED <<store, overwritten, served>>

\* A batch has committed.
Seen ==
  served' = IF row' = None THEN {}
            ELSE served \cup {[hash |-> row'.hash, runtime |-> Runtime']}

\* The stored version is not the one r has read.
Moved(r) ==
  \/ (row = None) # (loc[r].row = None)
  \/ row # None /\ (row.hash # loc[r].row.hash \/ row.born # loc[r].row.born)

\* upsertConfigStatement: the last change's id is left alone.
Upsert(r, doc, rev, reg) ==
  row' = [doc |-> doc, hash |-> Hash(doc, rev), rev |-> rev, reg |-> reg,
          change |-> IF row = None THEN None ELSE row.change,
          born |-> IF row = None THEN r ELSE row.born]

\* DELETE FROM sip_secrets for the connections in gone.
Without(gone) == [c \in Conn |-> IF c \in gone THEN None ELSE passwords[c]]

\* staleSIPSecrets
Stale(has, doc) == has \ doc.conns

-----------------------------------------------------------------------------
(* Saves from the editor: putOne.                                          *)

\* getConfig; a row with another hash than the expected one ends the request
\* (Refused), any other document may be submitted over it.
PutReads(r) == Reads(r, "idle", "put")

\* listSIPSecrets.
PutLists(r) ==
  /\ loc[r].at = "put"
  /\ loc' = [loc EXCEPT ![r].at = "save", ![r].has = Has]
  /\ UNCHANGED <<store, overwritten, served>>

\* sip_secrets of the body: set, or, with null, dropped.
Changes(conns) == UNION {[some -> Password \cup {None}] : some \in SUBSET conns}

\* finalSecretIDs
Final(r, doc, set) ==
  (loc[r].has \ (Stale(loc[r].has, doc) \cup {c \in DOMAIN set : set[c] = None}))
    \cup {c \in DOMAIN set : set[c] # None}

SecretRevision(r, doc, set) ==
  (IF loc[r].row = None THEN 0 ELSE loc[r].row.rev)
    + (IF DOMAIN set # {} \/ Stale(loc[r].has, doc) # {} THEN 1 ELSE 0)

\* Mutant: a password that the same save drops counts as present.
MutSaveable(r, doc, set) ==
  \/ loc[r].row = None
  \/ doc.conns # {} /\ doc.conns \subseteq loc[r].has \cup DOMAIN set

\* Only a new draft may lack connections or passwords.
Saveable(r, doc, set) ==
  \/ loc[r].row = None
  \/ doc.conns # {} /\ doc.conns \subseteq Final(r, doc, set)

\* The batch: the row is written whatever it is by now.
PutCommits(r) ==
  /\ loc[r].at = "save"
  /\ \E doc \in Doc : \E set \in Changes(doc.conns) :
       /\ Saveable(r, doc, set)
       /\ Upsert(r, doc, SecretRevision(r, doc, set),
                 IF loc[r].row = None THEN r ELSE loc[r].row.reg)
       /\ passwords' = [c \in Conn |->
            IF c \in DOMAIN set THEN set[c] ELSE Without(Stale(loc[r].has, doc))[c]]
  /\ overwritten' = (overwritten \/ Moved(r))
  /\ UNCHANGED <<bundle, history>>
  /\ Seen /\ Ends(r)

-----------------------------------------------------------------------------
(* Credentials: patchCredentials.                                          *)

CredentialsRead(r) == row # None /\ Reads(r, "idle", "credentials")

\* getCredentialBundle.
BundleRead(r) ==
  /\ loc[r].at = "credentials"
  /\ loc' = [loc EXCEPT ![r].at = "write", ![r].bundle = bundle]
  /\ UNCHANGED <<store, overwritten, served>>

\* Mutant: the secret revision is left as it was.
MutSameRevision(r) ==
  /\ loc[r].at = "write" /\ row # None
  /\ \E k \in Key : bundle' \in {loc[r].bundle \cup {k}, loc[r].bundle \ {k}}
  /\ overwritten' = (overwritten \/ Moved(r))
  /\ UNCHANGED <<row, passwords, history>>
  /\ Seen /\ Ends(r)

\* The batch: the bundle that was read with some keys changed, and a hash for
\* the document that was read.  With the row gone its foreign key aborts it.
CredentialsCommit(r) ==
  /\ loc[r].at = "write" /\ row # None
  /\ \E k \in Key : bundle' \in {loc[r].bundle \cup {k}, loc[r].bundle \ {k}}
  /\ row' = [row EXCEPT !.rev = loc[r].row.rev + 1,
                        !.hash = Hash(loc[r].row.doc, loc[r].row.rev + 1)]
  /\ overwritten' = (overwritten \/ Moved(r))
  /\ UNCHANGED <<passwords, history>>
  /\ Seen /\ Ends(r)

-----------------------------------------------------------------------------
(* Agents and rollbacks: applyConfigPatch, rollbackConfigChange.           *)

\* getConfigChange: a rollback brings back the document before a recorded change.
Restorable == {h.before : h \in history}

\* A patch makes any document of the one it is applied to.
PatchBegins(r) ==
  /\ loc[r].at = "idle"
  /\ \E doc \in Doc \cup Restorable :
       loc' = [loc EXCEPT ![r].at = "patch", ![r].doc = doc]
  /\ UNCHANGED <<store, overwritten, served>>

PatchReads(r) == row # None /\ Reads(r, "patch", "check")

\* listSIPSecrets, and the validation: connections, each with a password.
PatchLists(r) ==
  /\ loc[r].at = "check"
  /\ loc[r].doc.conns # {} /\ loc[r].doc.conns \subseteq Has
  /\ loc' = [loc EXCEPT ![r].at = "commit", ![r].has = Has]
  /\ UNCHANGED <<store, overwritten, served>>

PatchRevision(r) ==
  loc[r].row.rev + (IF Stale(loc[r].has, loc[r].doc) # {} THEN 1 ELSE 0)

\* Mutant: ... WHERE name = ?
MutAnyVersion(r) == row # None

\* UPDATE ... WHERE name = ? AND hash = ?
Current(r) == row # None /\ row.hash = loc[r].row.hash

\* Mutant: the passwords of removed connections are kept.
MutKeepsPasswords(r) ==
  /\ loc[r].at = "commit" /\ Current(r)
  /\ row' = [row EXCEPT !.doc = loc[r].doc, !.rev = PatchRevision(r), !.change = r,
                        !.hash = Hash(loc[r].doc, PatchRevision(r))]
  /\ history' = history \cup {[id |-> r, before |-> loc[r].row.doc, after |-> loc[r].doc]}
  /\ overwritten' = (overwritten \/ Moved(r))
  /\ UNCHANGED <<passwords, bundle>>
  /\ Seen /\ Ends(r)

\* The batch; the trigger of 0004_mcp_oauth.sql aborts it when the UPDATE
\* matched no row, and the agent is told of the conflict (Refused).
PatchCommits(r) ==
  /\ loc[r].at = "commit" /\ Current(r)
  /\ row' = [row EXCEPT !.doc = loc[r].doc, !.rev = PatchRevision(r), !.change = r,
                        !.hash = Hash(loc[r].doc, PatchRevision(r))]
  /\ passwords' = Without(Stale(loc[r].has, loc[r].doc))
  /\ history' = history \cup {[id |-> r, before |-> loc[r].row.doc, after |-> loc[r].doc]}
  /\ overwritten' = (overwritten \/ Moved(r))
  /\ UNCHANGED bundle
  /\ Seen /\ Ends(r)

-----------------------------------------------------------------------------
(* Deletion, duplication onto this name, and a new registration.           *)

DeleteReads(r) == row # None /\ Reads(r, "idle", "delete")

\* The other tables follow by ON DELETE CASCADE.
DeleteCommits(r) ==
  /\ loc[r].at = "delete"
  /\ row' = None
  /\ passwords' = Without(Conn) /\ bundle' = {} /\ history' = {}
  /\ UNCHANGED overwritten
  /\ Seen /\ Ends(r)

DuplicateReads(r) == row = None /\ Reads(r, "idle", "create")

\* The source is another configuration, with a password for some or, unless it
\* is a draft, for all of its connections; the batch does not look again
\* whether the name is free.
DuplicateCommits(r) ==
  /\ loc[r].at = "create"
  /\ \E doc \in Doc, p \in Password : \E copied \in SUBSET doc.conns :
       /\ Upsert(r, doc, IF copied # {} THEN 1 ELSE 0, r)
       /\ passwords' = [c \in Conn |-> IF c \in copied THEN p ELSE passwords[c]]
  /\ overwritten' = (overwritten \/ Moved(r))
  /\ UNCHANGED <<bundle, history>>
  /\ Seen /\ Ends(r)

RotateReads(r) == row # None /\ Reads(r, "idle", "rotate")

RotateCommits(r) ==
  /\ loc[r].at = "rotate"
  /\ row' = IF row = None THEN None ELSE [row EXCEPT !.reg = r]
  /\ Ends(r)
  /\ UNCHANGED <<passwords, bundle, history, overwritten, served>>

\* A request ends without an effect: the name is unknown or taken, the expected
\* hash or the submission is refused, the batch aborts or D1 fails.
Refused(r) ==
  /\ loc[r].at # "done"
  /\ Ends(r)
  /\ UNCHANGED <<store, overwritten, served>>

-----------------------------------------------------------------------------
Next ==
  \E r \in Request :
    \/ PutReads(r) \/ PutLists(r) \/ PutCommits(r)
    \/ CredentialsRead(r) \/ BundleRead(r) \/ CredentialsCommit(r)
    \/ PatchBegins(r) \/ PatchReads(r) \/ PatchLists(r) \/ PatchCommits(r)
    \/ DeleteReads(r) \/ DeleteCommits(r)
    \/ DuplicateReads(r) \/ DuplicateCommits(r)
    \/ RotateReads(r) \/ RotateCommits(r)
    \/ Refused(r)

Spec == Init /\ [][Next]_vars
-----------------------------------------------------------------------------
(* Properties.                                                             *)

\* A bridge compares hashes to learn whether it must reload: unless a save was
\* overwritten, one hash never stands for two documents, password sets or
\* credential bundles, whoever changed which table in between and whatever a
\* rollback brought back (configs.ts:239-247, 442-446; config-changes.ts:236-239;
\* hotreload.go:171-175).
HashIdentifiesRuntime ==
  ~overwritten => \A s, t \in served : s.hash = t.hash => s.runtime = t.runtime

\* No password outlives its connection, unless a save was overwritten: it would
\* come back with a later connection of that id (configs.ts:223, 256-258;
\* config-changes.ts:236, 280-282; the cascade of 0002_sip_secrets.sql).
NoLeftoverPassword ==
  ~overwritten => Has \subseteq (IF row = None THEN {} ELSE row.doc.conns)

\* Every connection of the stored version can register.
Complete == row # None /\ row.doc.conns # {} /\ row.doc.conns \subseteq Has

\* A configuration whose connections have their passwords stays that way,
\* whichever saves, patches and rollbacks run at once, unless one overwrites
\* another; only a new draft may lack them (configs.ts:225-238;
\* config-changes.ts:220-228).
CompleteStaysComplete ==
  [][Complete /\ row' # None /\ ~overwritten' => Complete']_vars

\* An agent's patch or a rollback replaces the version it was prepared from and
\* no other, even while the editor saves, and the history records the document
\* that was there and the one that took its place (config-changes.ts:263-305,
\* the trigger of 0004_mcp_oauth.sql:94-107, mcp.ts:132).  An overwriting
\* credential save voids it: it stores the hash of a document that is gone.
HistoryIsExact ==
  [][\A h \in history' \ history : ~overwritten =>
       /\ row # None /\ row' # None
       /\ h.before = row.doc /\ h.after = row'.doc /\ row'.change = h.id]_vars

\* ConfigEditor.tsx:276-277: "saving is blocked to prevent overwriting the newer
\* version"; configs.ts:183-187 refuses a save whose expected hash is not the
\* stored one.  A save that ends when another version is stored than the one it
\* was checked against leaves that version alone.
NewerVersionKept ==
  [][\A r \in Request :
       loc[r].at = "save" /\ loc'[r].at = "done" /\ row # None /\ loc[r].row # None
         /\ row.hash # loc[r].row.hash => row' = row]_vars
=============================================================================
