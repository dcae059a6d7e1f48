------------------------------ MODULE Editor ------------------------------
(***************************************************************************)
(* The page on which an operator edits one configuration                   *)
(* (ui/src/routes/ConfigEditor.tsx, with the requests of lib/api.ts): its  *)
(* draft, the version it is based on, the saves, the reloads that the      *)
(* broker's notices start, and the banner that blocks saving.              *)
(*                                                                         *)
(* A document is the set of changes it contains; a typed change is a       *)
(* member of Change, used once.  A hash is what it is computed from, the   *)
(* document and the number of changes of its secrets.  A save and a        *)
(* credential patch compare the hash first and store later, whatever has   *)
(* been stored meanwhile; a rollback and an agent's patch store only over  *)
(* the version they have read.  Module ConfigStore has these handlers      *)
(* query by query.  A handler of the page runs from one await to the next; *)
(* between them the operator goes on typing and notices arrive.            *)
(***************************************************************************)
EXTENDS Naturals, FiniteSets

CONSTANTS
  Change,
  Load,      \* reloads that can be under way at the same time
  Null

PageHash == [doc : SUBSET Change, rev : Nat]

\* A row of the configurations' table.
PageRow == [doc : SUBSET Change, hash : PageHash]
First == [doc |-> {}, hash |-> [doc |-> {}, rev |-> 0]]

\* What the proofs need to know of the constants.
NullIsNoHash == Null \notin PageHash

VARIABLES
  live,      \* the stored row
  earlier,   \* documents that a rollback may restore
  used,      \* changes somebody has made
  shown,     \* history: the changes that the draft has contained
  replaced,  \* history: a write has replaced another version than the
             \* one whose hash was compared
  notices,   \* config-updated messages on their way to the page
  doc,       \* the draft
  saved,     \* savedToml: what the draft is compared with, or Null
  hash,      \* savedHash: what the next request names, or Null
  external,  \* externalHash: the banner is shown
  sipEdits, credEdits,        \* secretEdits, credentialEdits
  saving, patching, rolling,  \* the requests of the page's buttons
  loads      \* its reloads

versions == <<live, earlier, used, shown, replaced>>
draft == <<doc, sipEdits, credEdits>>
base == <<saved, hash, external>>
requests == <<saving, patching, rolling>>
pageVars == <<versions, notices, draft, base, requests, loads>>

\* A request, from the click to its answer: what it names, what it brings,
\* the hash it leads to.
ApiCall == [at : {"sent", "checked", "stored", "refused"}, on : PageHash \cup {Null},
            doc : SUBSET Change, edits : SUBSET Change, is : PageHash \cup {Null}]
Reload == [at : {"idle", "sent", "answered"}, is : PageRow \cup {Null}]
NoLoad == [at |-> "idle", is |-> Null]

PageTypeOK ==
  /\ live \in PageRow /\ replaced \in BOOLEAN /\ earlier \subseteq SUBSET Change
  /\ used \subseteq Change /\ shown \subseteq Change
  /\ notices \subseteq PageHash
  /\ doc \subseteq Change /\ sipEdits \subseteq Change /\ credEdits \subseteq Change
  /\ saved \in (SUBSET Change) \cup {Null}
  /\ hash \in PageHash \cup {Null} /\ external \in BOOLEAN
  /\ saving \in ApiCall \cup {Null} /\ patching \in ApiCall \cup {Null}
  /\ rolling \in ApiCall \cup {Null}
  /\ loads \in [Load -> Reload]

\* The page opens: an empty draft, and the first load on its way.
PageInit ==
  /\ live = First /\ earlier = {} /\ used = {} /\ shown = {} /\ notices = {}
  /\ replaced = FALSE
  /\ doc = {} /\ saved = Null /\ hash = Null /\ external = FALSE
  /\ sipEdits = {} /\ credEdits = {}
  /\ saving = Null /\ patching = Null /\ rolling = Null
  /\ \E l \in Load : loads = [k \in Load |-> IF k = l THEN [NoLoad EXCEPT !.at = "sent"] ELSE NoLoad]

Dirty == doc # saved \/ sipEdits # {} \/ credEdits # {}

-----------------------------------------------------------------------------
(* The operator types: setDoc, setSecretEdit, the credentials' onChange.   *)

Types(c) ==
  /\ c \notin used /\ used' = used \cup {c}
  /\ \/ doc' = doc \cup {c} /\ shown' = shown \cup {c} /\ UNCHANGED <<sipEdits, credEdits>>
     \/ sipEdits' = sipEdits \cup {c} /\ UNCHANGED <<doc, credEdits, shown>>
     \/ credEdits' = credEdits \cup {c} /\ UNCHANGED <<doc, sipEdits, shown>>
  /\ UNCHANGED <<live, earlier, replaced, notices, base, requests, loads>>

Asks(d, edits) == [at |-> "sent", on |-> hash, doc |-> d, edits |-> edits, is |-> Null]

\* save, up to the request.
Saves ==
  /\ saving = Null /\ ~external
  /\ saving' = Asks(doc, sipEdits)
  /\ UNCHANGED <<versions, notices, draft, base, patching, rolling, loads>>

\* saveCredentials, which the banner does not block.
Patches ==
  /\ patching = Null /\ credEdits # {}
  /\ patching' = Asks({}, credEdits)
  /\ UNCHANGED <<versions, notices, draft, base, saving, rolling, loads>>

\* rollback, confirmed.
RollsBack ==
  /\ rolling = Null
  /\ \E d \in earlier : rolling' = Asks(d, {})
  /\ UNCHANGED <<versions, notices, draft, base, saving, patching, loads>>

-----------------------------------------------------------------------------
(* The worker.                                                             *)

\* A row is stored, and subscribers are told; read is the hash that the
\* request has been compared with.
Stores(row, read) ==
  /\ live' = row /\ notices' = notices \cup {row.hash}
  /\ replaced' = (replaced \/ live.hash # read)

\* r goes on: its hash was the stored one, and it will lead to h.
Checked(r, h) == [r EXCEPT !.at = "checked", !.is = h]
Stored(r) == [r EXCEPT !.at = "stored"]
Rejected(r) == [r EXCEPT !.at = "refused"]

Pending(r) == r # Null /\ r.at = "sent"
Decided(r) == r # Null /\ r.at \in {"stored", "refused"}

\* The hash is the stored one.
Accepts(r) == Pending(r) /\ r.on = live.hash

\* The hash of document d after a change of secrets, if there is one.
After(d, edits) == [doc |-> d, rev |-> live.hash.rev + IF edits = {} THEN 0 ELSE 1]

\* putOne, up to its comparison, and the row it prepares from what it has read.
SaveChecked ==
  /\ Accepts(saving) /\ saving' = Checked(saving, After(saving.doc, saving.edits))
  /\ UNCHANGED <<versions, notices, draft, base, patching, rolling, loads>>

\* Its batch, which looks at no hash.
SaveStored ==
  /\ saving # Null /\ saving.at = "checked" /\ saving' = Stored(saving)
  /\ Stores([doc |-> saving.doc, hash |-> saving.is], saving.on)
  /\ UNCHANGED <<earlier, used, shown, draft, base, patching, rolling, loads>>

\* patchCredentials, likewise; it leaves the document.
PatchChecked ==
  /\ Accepts(patching) /\ patching' = Checked(patching, After(live.doc, patching.edits))
  /\ UNCHANGED <<versions, notices, draft, base, saving, rolling, loads>>

PatchStored ==
  /\ patching # Null /\ patching.at = "checked" /\ patching' = Stored(patching)
  /\ Stores([doc |-> live.doc, hash |-> patching.is], patching.on)
  /\ UNCHANGED <<earlier, used, shown, draft, base, saving, rolling, loads>>

\* rollbackConfigChange, which stores WHERE hash is the one it has compared; it
\* is itself a change that can be rolled back.
RollbackStored ==
  /\ Accepts(rolling)
  /\ rolling' = Stored(Checked(rolling, After(rolling.doc, {})))
  /\ Stores([doc |-> rolling.doc, hash |-> After(rolling.doc, {})], rolling.on)
  /\ earlier' = earlier \cup {live.doc}
  /\ UNCHANGED <<used, shown, draft, base, saving, patching, loads>>

\* The hash is not the stored one.
Refuses ==
  \/ /\ Pending(saving) /\ saving.on # live.hash /\ saving' = Rejected(saving)
     /\ UNCHANGED <<versions, notices, draft, base, patching, rolling, loads>>
  \/ /\ Pending(patching) /\ patching.on # live.hash /\ patching' = Rejected(patching)
     /\ UNCHANGED <<versions, notices, draft, base, saving, rolling, loads>>
  \/ /\ Pending(rolling) /\ rolling.on # live.hash /\ rolling' = Rejected(rolling)
     /\ UNCHANGED <<versions, notices, draft, base, saving, patching, loads>>

\* getOne
LoadAnswered(l) ==
  /\ loads[l].at = "sent" /\ loads' = [loads EXCEPT ![l] = [at |-> "answered", is |-> live]]
  /\ UNCHANGED <<versions, notices, draft, base, requests>>

\* An agent changes the document: applyConfigPatch, like a rollback WHERE hash
\* is the one it has read.
OthersChange(c) ==
  /\ c \notin used /\ used' = used \cup {c}
  /\ LET d == live.doc \cup {c} IN Stores([doc |-> d, hash |-> After(d, {})], live.hash)
  /\ earlier' = earlier \cup {live.doc}
  /\ UNCHANGED <<shown, draft, base, requests, loads>>

-----------------------------------------------------------------------------
(* The page goes on.                                                       *)

StartsLoad == \E l \in Load : loads[l] = NoLoad /\ loads' = [loads EXCEPT ![l].at = "sent"]

\* save, after its answer: the draft is left, what was typed of passwords
\* meanwhile is not.
SaveEnds ==
  /\ Decided(saving) /\ saving' = Null
  /\ IF saving.at = "stored"
     THEN /\ hash' = saving.is /\ saved' = saving.doc
          /\ sipEdits' = {} /\ external' = FALSE
     ELSE UNCHANGED <<base, sipEdits>>
  /\ UNCHANGED <<versions, notices, doc, credEdits, patching, rolling, loads>>

PatchEnds ==
  /\ Decided(patching) /\ patching' = Null
  /\ IF patching.at = "stored"
     THEN hash' = patching.is /\ credEdits' = {}
     ELSE UNCHANGED <<hash, credEdits>>
  /\ UNCHANGED <<versions, notices, doc, sipEdits, saved, external, saving, rolling, loads>>

\* After a rollback the page reloads, whatever its draft.
RollbackEnds ==
  /\ Decided(rolling) /\ rolling' = Null
  /\ IF rolling.at = "stored" THEN StartsLoad ELSE UNCHANGED loads
  /\ UNCHANGED <<versions, notices, draft, base, saving, patching>>

\* The network fails, and the worker goes on no further with the request.
Fails ==
  \/ /\ saving # Null /\ saving' = Null
     /\ UNCHANGED <<versions, notices, draft, base, patching, rolling, loads>>
  \/ /\ patching # Null /\ patching' = Null
     /\ UNCHANGED <<versions, notices, draft, base, saving, rolling, loads>>
  \/ /\ \E l \in Load : loads[l] # NoLoad /\ loads' = [loads EXCEPT ![l] = NoLoad]
     /\ UNCHANGED <<versions, notices, draft, base, requests>>

\* loadConfig, after its answer: draft and base are replaced together.
LoadEnds(l) ==
  /\ loads[l].at = "answered" /\ loads' = [loads EXCEPT ![l] = NoLoad]
  /\ doc' = loads[l].is.doc /\ saved' = loads[l].is.doc /\ hash' = loads[l].is.hash
  /\ sipEdits' = {} /\ credEdits' = {} /\ external' = FALSE
  /\ shown' = shown \cup loads[l].is.doc
  /\ UNCHANGED <<live, earlier, used, replaced, notices, requests>>

\* A config-updated message: a clean page reloads, any other shows the banner.
Notices(v) ==
  /\ v \in notices /\ notices' = notices \ {v}
  /\ IF v = hash THEN UNCHANGED <<external, loads>>
     ELSE IF Dirty THEN external' = TRUE /\ UNCHANGED loads
     ELSE StartsLoad /\ UNCHANGED external
  /\ UNCHANGED <<versions, draft, saved, hash, requests>>

\* It is lost with its socket.
NoticeLost(v) ==
  /\ v \in notices /\ notices' = notices \ {v}
  /\ UNCHANGED <<versions, draft, base, requests, loads>>

\* The banner's button; a draft is given up only when the operator confirms.
Reloads ==
  /\ external /\ StartsLoad
  /\ UNCHANGED <<versions, notices, draft, base, requests>>

PageNext ==
  \/ \E c \in Change : Types(c) \/ OthersChange(c)
  \/ Saves \/ Patches \/ RollsBack
  \/ SaveChecked \/ SaveStored \/ PatchChecked \/ PatchStored \/ RollbackStored \/ Refuses
  \/ SaveEnds \/ PatchEnds \/ RollbackEnds \/ Fails
  \/ \E l \in Load : LoadAnswered(l) \/ LoadEnds(l)
  \/ \E v \in notices : Notices(v) \/ NoticeLost(v)
  \/ Reloads

PageSpec == PageInit /\ [][PageNext]_pageVars

-----------------------------------------------------------------------------
(* Properties.                                                             *)

\* A save or a rollback of this page takes back no change that its draft has
\* never contained, in whatever order the answers to its requests, the notices
\* and its reloads come: the hash it names is always that of a version it has
\* shown (ConfigEditor.tsx:142-181, 183-201; configs.ts:182-187;
\* config-changes.ts:192-197).  That holds as long as no save and no credential
\* patch has stored over a version stored between its comparison and its batch
\* (configs.ts:182-278, 409-446): such a write takes back what nobody has seen.
OnlyShownIsTakenBack == [][~replaced' => live.doc \ live'.doc \subseteq shown]_pageVars

\* Nothing under way.
Settled ==
  /\ saving = Null /\ patching = Null /\ rolling = Null
  /\ notices = {} /\ \A l \in Load : loads[l] = NoLoad

\* The banner, which blocks saving, is up only while the stored version is
\* not the page's.
BannerIsTrue == Settled /\ external => live.hash # hash
=============================================================================
