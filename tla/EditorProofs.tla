---------------------------- MODULE EditorProofs ----------------------------
(***************************************************************************)
(* Proofs about a saved configuration on both sides of the network: Editor *)
(* (the page), ScriptPanel (its script panel) and ConfigStore (the         *)
(* worker's rows behind it), for every set of connections, requests,       *)
(* scripts and texts and any number of changes.                            *)
(*                                                                         *)
(* Editor: its types, and that a save or a rollback takes back only        *)
(* changes that the draft has contained, as long as no write has replaced  *)
(* a version it had not been compared with. The latter is about the        *)
(* version a request names, so the invariant follows the hash from the     *)
(* answers through the page into the next request.                         *)
(*                                                                         *)
(* ScriptPanel: its types, that a verdict is about the code beside it, and *)
(* that the table shows the answer of the newest test.                     *)
(*                                                                         *)
(* ConfigStore: its types and all that its run checks. The invariant is    *)
(* about what a request has read and still holds while others write: a row *)
(* is known by the hash it had, and by the row's age where the hash is not *)
(* enough.                                                                 *)
(***************************************************************************)
EXTENDS Editor, ScriptPanel, ConfigStore, TLAPS

-----------------------------------------------------------------------------
(* The page.                                                               *)

(* Types.                                                                  *)

LEMMA EntryFacts ==
  ASSUME NullIsNoHash
  PROVE
  /\ First \in PageRow
  /\ Null \notin PageHash
  /\ \A entry \in PageRow : entry.doc \in SUBSET Change /\ entry.hash \in PageHash
  /\ \A h \in PageHash : h.doc \subseteq Change /\ h.rev \in Nat
  /\ \A d \in SUBSET Change : \A h \in PageHash : [doc |-> d, hash |-> h] \in PageRow
  BY DEF NullIsNoHash, PageRow, PageHash, First

LEMMA AfterFacts ==
  ASSUME PageTypeOK
  PROVE  \A d \in SUBSET Change : \A e : After(d, e) \in PageHash /\ After(d, e).doc = d
<1> SUFFICES ASSUME NEW d \in SUBSET Change, NEW e PROVE After(d, e) \in PageHash /\ After(d, e).doc = d
  OBVIOUS
<1>1. live.hash.rev \in Nat
  BY DEF PageTypeOK, PageRow, PageHash
<1>2. live.hash.rev + (IF e = {} THEN 0 ELSE 1) \in Nat
  BY <1>1
<1> QED
  BY <1>2 DEF After, PageHash

LEMMA RequestFacts ==
  /\ \A on \in PageHash \cup {Null} : \A d, e \in SUBSET Change :
       [at |-> "sent", on |-> on, doc |-> d, edits |-> e, is |-> Null] \in ApiCall
  /\ \A r \in ApiCall : \A h \in PageHash :
       /\ Checked(r, h) \in ApiCall /\ Checked(r, h).at = "checked" /\ Checked(r, h).is = h
       /\ Checked(r, h).on = r.on /\ Checked(r, h).doc = r.doc
  /\ \A r \in ApiCall :
       /\ Stored(r) \in ApiCall /\ Stored(r).at = "stored" /\ Stored(r).is = r.is
       /\ Stored(r).on = r.on /\ Stored(r).doc = r.doc
  /\ \A r \in ApiCall :
       /\ Rejected(r) \in ApiCall /\ Rejected(r).at = "refused"
       /\ Rejected(r).on = r.on /\ Rejected(r).doc = r.doc
  /\ \A r \in ApiCall : r.doc \subseteq Change /\ r.edits \subseteq Change
                        /\ r.on \in PageHash \cup {Null} /\ r.is \in PageHash \cup {Null}
  BY DEF ApiCall, Checked, Stored, Rejected

LEMMA ReloadFacts ==
  /\ NoLoad \in Reload
  /\ \A r \in Reload : [r EXCEPT !.at = "sent"] \in Reload
  /\ \A entry \in PageRow \cup {Null} : [at |-> "answered", is |-> entry] \in Reload
  BY DEF Reload, NoLoad

\* What a prepared write stores and what an answer brings is a hash, or a row.
Answered ==
  /\ saving # Null /\ saving.at \in {"checked", "stored"} => saving.is \in PageHash
  /\ patching # Null /\ patching.at \in {"checked", "stored"} => patching.is \in PageHash
  /\ \A l \in Load : loads[l].at = "answered" => loads[l].is \in PageRow

LEMMA StartTypes ==
  ASSUME NullIsNoHash, PageTypeOK, Answered, StartsLoad
  PROVE  /\ loads' \in [Load -> Reload]
         /\ \A l \in Load : loads'[l].at = "answered" => loads'[l].is \in PageRow
<1>1. PICK l \in Load : loads[l] = NoLoad /\ loads' = [loads EXCEPT ![l].at = "sent"]
  BY DEF StartsLoad
<1>2. loads' = [loads EXCEPT ![l] = [loads[l] EXCEPT !.at = "sent"]]
  BY <1>1
<1>3. loads'[l].at = "sent"
  BY <1>1 DEF PageTypeOK, NoLoad
<1> QED
  BY <1>1, <1>2, <1>3, ReloadFacts DEF PageTypeOK, Answered

LEMMA StoresTypes ==
  ASSUME PageTypeOK, NEW entry \in PageRow, NEW read, entry.hash \in PageHash, Stores(entry, read)
  PROVE  live' \in PageRow /\ notices' \subseteq PageHash /\ replaced' \in BOOLEAN
  BY DEF PageTypeOK, Stores

LEMMA InitTypeOK ==
  ASSUME NullIsNoHash
  PROVE  PageInit => PageTypeOK /\ Answered
<1> SUFFICES ASSUME PageInit PROVE PageTypeOK /\ Answered
  OBVIOUS
<1>1. PICK l \in Load : loads = [k \in Load |-> IF k = l THEN [NoLoad EXCEPT !.at = "sent"] ELSE NoLoad]
  BY DEF PageInit
<1>2. loads \in [Load -> Reload]
  BY <1>1, ReloadFacts
<1>3. \A k \in Load : loads[k].at # "answered"
  BY <1>1 DEF NoLoad
<1> QED
  BY <1>2, <1>3, EntryFacts DEF PageInit, PageTypeOK, Answered

LEMMA NextTypeOK ==
  ASSUME NullIsNoHash
  PROVE  PageTypeOK /\ Answered /\ [PageNext]_pageVars => PageTypeOK' /\ Answered'
<1> SUFFICES ASSUME PageTypeOK, Answered, [PageNext]_pageVars PROVE PageTypeOK' /\ Answered'
  OBVIOUS
<1> USE DEF PageTypeOK, Answered, versions, draft, base, requests
<1>1. ASSUME NEW c \in Change, Types(c) PROVE PageTypeOK' /\ Answered'
  BY <1>1 DEF Types
<1>2. ASSUME NEW c \in Change, OthersChange(c) PROVE PageTypeOK' /\ Answered'
  <2> DEFINE d == live.doc \cup {c}
  <2>1. d \in SUBSET Change /\ live.doc \in SUBSET Change
    BY EntryFacts
  <2>2. After(d, {}) \in PageHash
    BY <2>1, AfterFacts
  <2>3. [doc |-> d, hash |-> After(d, {})] \in PageRow
    BY <2>1, <2>2, EntryFacts
  <2>4. live' \in PageRow /\ notices' \subseteq PageHash /\ replaced' \in BOOLEAN
    BY <1>2, <2>2, <2>3, StoresTypes DEF OthersChange
  <2>5. earlier' \subseteq SUBSET Change
    BY <1>2, <2>1 DEF OthersChange
  <2> QED
    BY <1>2, <2>4, <2>5 DEF OthersChange
<1>3. CASE Saves \/ Patches \/ RollsBack
  <2>1. \A d, e \in SUBSET Change : Asks(d, e) \in ApiCall /\ Asks(d, e).at = "sent"
    BY RequestFacts DEF Asks
  <2>2. CASE Saves
    <3>1. saving' \in ApiCall /\ saving'.at = "sent"
      BY <2>1, <2>2 DEF Saves
    <3> QED
      BY <2>2, <3>1 DEF Saves
  <2>3. CASE Patches
    <3>1. patching' \in ApiCall /\ patching'.at = "sent"
      BY <2>1, <2>3 DEF Patches
    <3> QED
      BY <2>3, <3>1 DEF Patches
  <2>4. CASE RollsBack
    <3>1. rolling' \in ApiCall
      BY <2>1, <2>4 DEF RollsBack
    <3> QED
      BY <2>4, <3>1 DEF RollsBack
  <2> QED
    BY <1>3, <2>2, <2>3, <2>4
<1>4. CASE SaveChecked \/ SaveStored
  <2>1. saving \in ApiCall /\ saving.doc \in SUBSET Change
    BY <1>4, RequestFacts DEF SaveChecked, SaveStored, Accepts, Pending
  <2>2. CASE SaveChecked
    <3>1. After(saving.doc, saving.edits) \in PageHash
      BY <2>1, AfterFacts
    <3>2. saving' \in ApiCall /\ saving'.is \in PageHash
      BY <2>1, <2>2, <3>1, RequestFacts DEF SaveChecked
    <3> QED
      BY <2>2, <3>2 DEF SaveChecked
  <2>3. CASE SaveStored
    <3>1. saving.is \in PageHash
      BY <2>3 DEF SaveStored
    <3>2. [doc |-> saving.doc, hash |-> saving.is] \in PageRow
      BY <2>1, <3>1, EntryFacts
    <3>3. live' \in PageRow /\ notices' \subseteq PageHash /\ replaced' \in BOOLEAN
      BY <2>3, <3>1, <3>2, StoresTypes DEF SaveStored
    <3>4. saving' \in ApiCall /\ saving'.is \in PageHash
      BY <2>1, <2>3, <3>1, RequestFacts DEF SaveStored
    <3> QED
      BY <2>3, <3>3, <3>4 DEF SaveStored
  <2> QED
    BY <1>4, <2>2, <2>3
<1>15. CASE PatchChecked \/ PatchStored
  <2>1. patching \in ApiCall /\ live.doc \in SUBSET Change
    BY <1>15, EntryFacts DEF PatchChecked, PatchStored, Accepts, Pending
  <2>2. CASE PatchChecked
    <3>1. After(live.doc, patching.edits) \in PageHash
      BY <2>1, AfterFacts
    <3>2. patching' \in ApiCall /\ patching'.is \in PageHash
      BY <2>1, <2>2, <3>1, RequestFacts DEF PatchChecked
    <3> QED
      BY <2>2, <3>2 DEF PatchChecked
  <2>3. CASE PatchStored
    <3>1. patching.is \in PageHash
      BY <2>3 DEF PatchStored
    <3>2. [doc |-> live.doc, hash |-> patching.is] \in PageRow
      BY <2>1, <3>1, EntryFacts
    <3>3. live' \in PageRow /\ notices' \subseteq PageHash /\ replaced' \in BOOLEAN
      BY <2>3, <3>1, <3>2, StoresTypes DEF PatchStored
    <3>4. patching' \in ApiCall /\ patching'.is \in PageHash
      BY <2>1, <2>3, <3>1, RequestFacts DEF PatchStored
    <3> QED
      BY <2>3, <3>3, <3>4 DEF PatchStored
  <2> QED
    BY <1>15, <2>2, <2>3
<1>16. CASE RollbackStored
  <2>1. rolling \in ApiCall /\ rolling.doc \in SUBSET Change /\ live.doc \in SUBSET Change
    BY <1>16, RequestFacts, EntryFacts DEF RollbackStored, Accepts, Pending
  <2>2. After(rolling.doc, {}) \in PageHash
    BY <2>1, AfterFacts
  <2>3. [doc |-> rolling.doc, hash |-> After(rolling.doc, {})] \in PageRow
    BY <2>1, <2>2, EntryFacts
  <2>4. live' \in PageRow /\ notices' \subseteq PageHash /\ replaced' \in BOOLEAN
    BY <1>16, <2>2, <2>3, StoresTypes DEF RollbackStored
  <2>5. rolling' \in ApiCall
    BY <1>16, <2>1, <2>2, RequestFacts DEF RollbackStored
  <2>6. earlier' \subseteq SUBSET Change
    BY <1>16, <2>1 DEF RollbackStored
  <2> QED
    BY <1>16, <2>4, <2>5, <2>6 DEF RollbackStored
<1>5. CASE Refuses
  BY <1>5, RequestFacts DEF Refuses, Pending
<1>6. CASE SaveEnds \/ PatchEnds
  <2>1. CASE SaveEnds
    <3>1. saving \in ApiCall /\ saving.doc \in SUBSET Change
      BY <2>1, RequestFacts DEF SaveEnds, Decided
    <3> QED
      BY <2>1, <3>1 DEF SaveEnds, Decided
  <2>2. CASE PatchEnds
    BY <2>2 DEF PatchEnds, Decided
  <2> QED
    BY <1>6, <2>1, <2>2
<1>7. CASE RollbackEnds
  BY <1>7, StartTypes DEF RollbackEnds
<1>8. CASE Fails
  <2>1. \A l \in Load : LET n == [loads EXCEPT ![l] = NoLoad] IN
          n \in [Load -> Reload] /\ \A k \in Load : n[k].at = "answered" => n[k].is \in PageRow
    BY ReloadFacts DEF NoLoad
  <2> QED
    BY <1>8, <2>1 DEF Fails
<1>9. ASSUME NEW l \in Load, LoadAnswered(l) PROVE PageTypeOK' /\ Answered'
  BY <1>9, ReloadFacts DEF LoadAnswered
<1>10. ASSUME NEW l \in Load, LoadEnds(l) PROVE PageTypeOK' /\ Answered'
  <2>1. loads[l].is \in PageRow
    BY <1>10 DEF LoadEnds
  <2>2. /\ loads' \in [Load -> Reload]
        /\ \A k \in Load : loads'[k].at = "answered" => loads'[k].is \in PageRow
    BY <1>10, ReloadFacts DEF LoadEnds, NoLoad
  <2> QED
    BY <1>10, <2>1, <2>2, EntryFacts DEF LoadEnds
<1>11. ASSUME NEW v \in notices, Notices(v) PROVE PageTypeOK' /\ Answered'
  <2>1. /\ loads' \in [Load -> Reload]
        /\ \A k \in Load : loads'[k].at = "answered" => loads'[k].is \in PageRow
    BY <1>11, StartTypes DEF Notices
  <2> QED
    BY <1>11, <2>1 DEF Notices
<1>12. ASSUME NEW v \in notices, NoticeLost(v) PROVE PageTypeOK' /\ Answered'
  BY <1>12 DEF NoticeLost
<1>13. CASE Reloads
  BY <1>13, StartTypes DEF Reloads
<1>14. CASE UNCHANGED pageVars
  BY <1>14 DEF pageVars
<1> QED
  BY <1>1, <1>2, <1>3, <1>4, <1>5, <1>6, <1>7, <1>8, <1>9, <1>10, <1>11, <1>12, <1>13, <1>14, <1>15, <1>16
  DEF PageNext

\* Every variable keeps its type: drafts, versions and requests are made of
\* changes, however requests, notices and reloads overlap.
THEOREM TypeCorrect ==
  ASSUME NullIsNoHash
  PROVE  PageSpec => []PageTypeOK
<1>1. PageSpec => [](PageTypeOK /\ Answered)
  BY InitTypeOK, NextTypeOK, PTL DEF PageSpec
<1> QED
  BY <1>1, PTL

-----------------------------------------------------------------------------
(* What the hash stands for has been shown.                                *)

\* A request names a version that has been shown, and so does its answer.
Fits(r) ==
  r # Null => /\ r.on # Null => r.on.doc \subseteq shown
              /\ r.at \in {"checked", "stored"} => r.is.doc \subseteq shown

\* A hash is that of the document beside it, and one that the page has got stands
\* for a document that the draft has contained.
HashesShown ==
  /\ live.doc = live.hash.doc
  /\ \A l \in Load : loads[l].at = "answered" => loads[l].is.doc = loads[l].is.hash.doc
  /\ hash # Null => hash.doc \subseteq shown
  /\ Fits(saving) /\ Fits(patching)
  /\ rolling # Null /\ rolling.on # Null => rolling.on.doc \subseteq shown
  /\ saving # Null /\ saving.at = "checked" => saving.is.doc = saving.doc
  /\ patching # Null /\ patching.at = "checked"
       => patching.on # Null /\ patching.is.doc = patching.on.doc

BaseShown ==
  /\ doc \subseteq shown
  /\ saving # Null => saving.doc \subseteq shown
  /\ ~replaced => HashesShown

IInv == PageTypeOK /\ Answered /\ BaseShown

LEMMA DraftShown ==
  ASSUME NullIsNoHash
  PROVE  IInv /\ [PageNext]_pageVars => /\ doc' \subseteq shown'
                                        /\ saving' # Null => saving'.doc \subseteq shown'
<1> SUFFICES ASSUME PageTypeOK, doc \subseteq shown, saving # Null => saving.doc \subseteq shown,
                    [PageNext]_pageVars
             PROVE  doc' \subseteq shown' /\ (saving' # Null => saving'.doc \subseteq shown')
  BY DEF IInv, BaseShown
<1> USE DEF versions, draft, base, requests
<1>1. CASE Saves
  BY <1>1 DEF Saves, Asks
<1>2. CASE SaveChecked \/ SaveStored
  <2>1. saving \in ApiCall /\ saving # Null /\ saving.doc \in SUBSET Change
    BY <1>2, RequestFacts DEF SaveChecked, SaveStored, Accepts, Pending, PageTypeOK
  <2>2. After(saving.doc, saving.edits) \in PageHash
    BY <2>1, AfterFacts
  <2>3. saving'.doc = saving.doc
    BY <1>2, <2>1, <2>2, RequestFacts DEF SaveChecked, SaveStored
  <2> QED
    BY <1>2, <2>1, <2>3 DEF SaveChecked, SaveStored
<1>3. CASE Refuses
  BY <1>3, RequestFacts DEF Refuses, Pending, PageTypeOK
<1>4. CASE ~(Saves \/ SaveChecked \/ SaveStored \/ Refuses)
  BY <1>4 DEF PageNext, pageVars, Types, OthersChange, Patches, RollsBack, PatchChecked, PatchStored,
    RollbackStored, SaveEnds, PatchEnds, RollbackEnds, Fails, LoadAnswered, LoadEnds, Notices,
    NoticeLost, Reloads
<1> QED
  BY <1>1, <1>2, <1>3, <1>4

\* Once a write has replaced what it had not been compared with, it has.
LEMMA ReplacedStays ==
  PageTypeOK /\ [PageNext]_pageVars /\ ~replaced' => ~replaced
  BY DEF PageNext, pageVars, versions, Types, Saves, Patches, RollsBack, SaveChecked, SaveStored,
    PatchChecked, PatchStored, RollbackStored, Stores, OthersChange, Refuses, SaveEnds, PatchEnds,
    RollbackEnds, Fails, LoadAnswered, LoadEnds, Notices, NoticeLost, Reloads, PageTypeOK

LEMMA StartShown ==
  ASSUME PageTypeOK, HashesShown, StartsLoad
  PROVE  \A l \in Load : loads'[l].at = "answered" => loads'[l].is.doc = loads'[l].is.hash.doc
<1>1. PICK l \in Load : loads[l] = NoLoad /\ loads' = [loads EXCEPT ![l].at = "sent"]
  BY DEF StartsLoad
<1>2. loads'[l].at = "sent"
  BY <1>1 DEF PageTypeOK, NoLoad
<1> QED
  BY <1>1, <1>2 DEF PageTypeOK, HashesShown

LEMMA NextHashesShown ==
  ASSUME NullIsNoHash
  PROVE  IInv /\ ~replaced' /\ [PageNext]_pageVars => HashesShown'
<1> SUFFICES ASSUME PageTypeOK, Answered, BaseShown, HashesShown, ~replaced', [PageNext]_pageVars
             PROVE  HashesShown'
  BY ReplacedStays DEF IInv, BaseShown
<1> USE DEF HashesShown, Fits, versions, draft, base, requests
<1>1. ASSUME NEW c \in Change, Types(c) PROVE HashesShown'
  BY <1>1 DEF Types
<1>2. ASSUME NEW c \in Change, OthersChange(c) PROVE HashesShown'
  <2> DEFINE d == live.doc \cup {c}
  <2>1. d \in SUBSET Change
    BY EntryFacts DEF PageTypeOK
  <2>2. live'.doc = d /\ live'.hash = After(d, {})
    BY <1>2 DEF OthersChange, Stores
  <2>3. live'.doc = live'.hash.doc
    BY <2>1, <2>2, AfterFacts
  <2> QED
    BY <1>2, <2>3 DEF OthersChange
<1>3. CASE Saves \/ Patches \/ RollsBack
  <2>1. \A d, e : Asks(d, e).at = "sent" /\ Asks(d, e).on = hash
    BY DEF Asks
  <2> QED
    BY <1>3, <2>1 DEF Saves, Patches, RollsBack
<1>4. CASE SaveChecked
  <2>1. saving \in ApiCall /\ saving # Null /\ saving.doc \in SUBSET Change
    BY <1>4, RequestFacts DEF SaveChecked, Accepts, Pending, PageTypeOK
  <2>2. /\ After(saving.doc, saving.edits) \in PageHash
        /\ After(saving.doc, saving.edits).doc = saving.doc
    BY <2>1, AfterFacts
  <2>3. /\ saving'.on = saving.on /\ saving'.doc = saving.doc
        /\ saving'.is.doc = saving.doc
    BY <1>4, <2>1, <2>2, RequestFacts DEF SaveChecked
  <2> QED
    BY <1>4, <2>1, <2>3 DEF SaveChecked, BaseShown
<1>5. CASE SaveStored
  <2>1. saving \in ApiCall /\ saving # Null
    BY <1>5 DEF SaveStored, PageTypeOK
  <2>2. /\ saving'.on = saving.on /\ saving'.is = saving.is
        /\ saving'.at = "stored"
    BY <1>5, <2>1, RequestFacts DEF SaveStored
  <2>3. live' = [doc |-> saving.doc, hash |-> saving.is]
    BY <1>5 DEF SaveStored, Stores
  <2>4. saving.is.doc = saving.doc
    BY <1>5 DEF SaveStored
  <2> QED
    BY <1>5, <2>1, <2>2, <2>3, <2>4 DEF SaveStored
<1>6. CASE PatchChecked
  <2>1. patching \in ApiCall /\ patching # Null /\ live.doc \in SUBSET Change
    BY <1>6, EntryFacts DEF PatchChecked, Accepts, Pending, PageTypeOK
  <2>2. /\ After(live.doc, patching.edits) \in PageHash
        /\ After(live.doc, patching.edits).doc = live.doc
    BY <2>1, AfterFacts
  <2>3. patching'.on = patching.on /\ patching'.is.doc = live.doc
    BY <1>6, <2>1, <2>2, RequestFacts DEF PatchChecked
  <2>4. patching.on = live.hash /\ live.hash # Null
    BY <1>6, EntryFacts DEF PatchChecked, Accepts, PageTypeOK
  <2> QED
    BY <1>6, <2>1, <2>3, <2>4 DEF PatchChecked
<1>7. CASE PatchStored
  <2>1. patching \in ApiCall /\ patching # Null
    BY <1>7 DEF PatchStored, PageTypeOK
  <2>2. patching'.on = patching.on /\ patching'.is = patching.is
    BY <1>7, <2>1, RequestFacts DEF PatchStored
  <2>3. live' = [doc |-> live.doc, hash |-> patching.is]
    BY <1>7 DEF PatchStored, Stores
  <2>4. live.hash = patching.on
    BY <1>7 DEF PatchStored, Stores
  <2>5. patching.is.doc = live.doc
    BY <1>7, <2>4 DEF PatchStored
  <2> QED
    BY <1>7, <2>1, <2>2, <2>3, <2>5 DEF PatchStored
<1>8. CASE RollbackStored
  <2>1. rolling \in ApiCall /\ rolling # Null /\ rolling.doc \in SUBSET Change
    BY <1>8, RequestFacts DEF RollbackStored, Accepts, Pending, PageTypeOK
  <2>2. After(rolling.doc, {}) \in PageHash /\ After(rolling.doc, {}).doc = rolling.doc
    BY <2>1, AfterFacts
  <2>3. rolling'.on = rolling.on
    BY <1>8, <2>1, <2>2, RequestFacts DEF RollbackStored
  <2>4. live'.doc = live'.hash.doc
    BY <1>8, <2>2 DEF RollbackStored, Stores
  <2> QED
    BY <1>8, <2>1, <2>3, <2>4 DEF RollbackStored
<1>9. CASE Refuses
  BY <1>9, RequestFacts DEF Refuses, Pending, PageTypeOK
<1>10. CASE SaveEnds \/ PatchEnds
  <2>1. CASE SaveEnds
    BY <2>1 DEF SaveEnds, Decided
  <2>2. CASE PatchEnds
    BY <2>2 DEF PatchEnds, Decided
  <2> QED
    BY <1>10, <2>1, <2>2
<1>11. CASE RollbackEnds \/ Reloads
  BY <1>11, StartShown DEF RollbackEnds, Reloads
<1>12. CASE Fails
  <2>1. \A l \in Load : LET n == [loads EXCEPT ![l] = NoLoad] IN
          \A k \in Load : n[k].at = "answered" => n[k].is.doc = n[k].is.hash.doc
    BY DEF NoLoad, PageTypeOK
  <2>2. CASE saving' = Null /\ UNCHANGED <<versions, draft, base, patching, rolling, loads>>
    BY <2>2
  <2>3. CASE patching' = Null /\ UNCHANGED <<versions, draft, base, saving, rolling, loads>>
    BY <2>3
  <2>4. CASE UNCHANGED <<versions, draft, base, requests>>
             /\ \E l \in Load : loads' = [loads EXCEPT ![l] = NoLoad]
    BY <2>1, <2>4
  <2> QED
    BY <1>12, <2>2, <2>3, <2>4 DEF Fails
<1>13. ASSUME NEW l \in Load, LoadAnswered(l) PROVE HashesShown'
  BY <1>13 DEF LoadAnswered, PageTypeOK
<1>14. ASSUME NEW l \in Load, LoadEnds(l) PROVE HashesShown'
  <2>1. \A k \in Load : loads'[k].at = "answered" => loads'[k].is.doc = loads'[k].is.hash.doc
    BY <1>14 DEF LoadEnds, NoLoad, PageTypeOK
  <2> QED
    BY <1>14, <2>1 DEF LoadEnds
<1>15. ASSUME NEW v \in notices, Notices(v) \/ NoticeLost(v) PROVE HashesShown'
  BY <1>15, StartShown DEF Notices, NoticeLost
<1>16. CASE UNCHANGED pageVars
  BY <1>16 DEF pageVars
<1> QED
  BY <1>1, <1>2, <1>3, <1>4, <1>5, <1>6, <1>7, <1>8, <1>9, <1>10, <1>11, <1>12, <1>13, <1>14, <1>15,
    <1>16 DEF PageNext

\* The invariant: a hash that is held by the page, named by a request or brought
\* by an answer stands for a document whose changes the draft has contained, as
\* long as no write has replaced a version it had not been compared with.
THEOREM Invariance ==
  ASSUME NullIsNoHash
  PROVE  PageSpec => []IInv
<1>1. PageInit => IInv
  <2> SUFFICES ASSUME PageInit PROVE BaseShown
    BY InitTypeOK DEF IInv
  <2>1. PICK l \in Load : loads = [k \in Load |-> IF k = l THEN [NoLoad EXCEPT !.at = "sent"] ELSE NoLoad]
    BY DEF PageInit
  <2>2. \A k \in Load : loads[k].at # "answered"
    BY <2>1 DEF NoLoad
  <2> QED
    BY <2>2 DEF PageInit, BaseShown, HashesShown, Fits, First
<1>2. IInv /\ [PageNext]_pageVars => IInv'
  BY NextTypeOK, DraftShown, NextHashesShown DEF IInv, BaseShown
<1> QED
  BY <1>1, <1>2, PTL DEF PageSpec

-----------------------------------------------------------------------------
(* Nothing unseen is taken back.                                           *)

LEMMA StepsTakeBackShown ==
  ASSUME NullIsNoHash
  PROVE  IInv /\ [PageNext]_pageVars => (~replaced' => live.doc \ live'.doc \subseteq shown)
<1> SUFFICES ASSUME PageTypeOK, BaseShown, HashesShown, ~replaced', [PageNext]_pageVars
             PROVE  live.doc \ live'.doc \subseteq shown
  BY ReplacedStays DEF IInv, BaseShown
<1> USE DEF versions
<1>1. CASE SaveStored
  <2>1. saving # Null /\ saving.on = live.hash /\ live.hash # Null
    BY <1>1, EntryFacts DEF SaveStored, Stores, PageTypeOK
  <2> QED
    BY <2>1 DEF HashesShown, Fits
<1>2. CASE RollbackStored
  <2>1. rolling # Null /\ rolling.on = live.hash /\ live.hash # Null
    BY <1>2, EntryFacts DEF RollbackStored, Accepts, Pending, PageTypeOK
  <2> QED
    BY <2>1 DEF HashesShown
<1>3. CASE PatchStored
  <2>1. live'.doc = live.doc
    BY <1>3 DEF PatchStored, Stores
  <2> QED
    BY <2>1
<1>4. ASSUME NEW c \in Change, OthersChange(c) PROVE live.doc \ live'.doc \subseteq shown
  <2>1. live'.doc = live.doc \cup {c}
    BY <1>4 DEF OthersChange, Stores
  <2> QED
    BY <2>1
<1>5. CASE ~(SaveStored \/ RollbackStored \/ PatchStored \/ \E c \in Change : OthersChange(c))
  <2>1. live' = live
    BY <1>5 DEF PageNext, pageVars, Types, Saves, Patches, RollsBack, SaveChecked, PatchChecked,
      Refuses, SaveEnds, PatchEnds, RollbackEnds, Fails, LoadAnswered, LoadEnds, Notices,
      NoticeLost, Reloads
  <2> QED
    BY <2>1
<1> QED
  BY <1>1, <1>2, <1>3, <1>4, <1>5

\* For any number of changes and of reloads whose answers overtake each other,
\* a save or a rollback of the page takes back only what its draft has contained,
\* as long as no save and no credential patch has stored over a version stored
\* between its comparison and its batch.
THEOREM TakesBackShown ==
  ASSUME NullIsNoHash
  PROVE  PageSpec => OnlyShownIsTakenBack
<1>1. IInv /\ [PageNext]_pageVars
        => [~replaced' => live.doc \ live'.doc \subseteq shown]_pageVars
  BY StepsTakeBackShown
<1> QED
  BY <1>1, Invariance, PTL DEF PageSpec, OnlyShownIsTakenBack
-----------------------------------------------------------------------------
(* The script panel.                                                       *)

\* Types of what the panel's editor shows; a verdict goes with its panel.
EditorTypes ==
  /\ code \in [Script -> Source]
  /\ open \in Script \cup {Nil}
  /\ view \in Source \cup {Nil} /\ (view = Nil) = (open = Nil)
  /\ past \in Seq(Source) /\ Len(past) <= MaxUndo
  /\ verdict \in {"valid", "invalid", Nil}
  /\ open = Nil => verdict = Nil
  /\ formatting \in Formatting \cup {Nil}
  /\ formatErr \in Bad \cup {"unloaded", Nil}

EditorInv == EditorTypes /\ VerdictIsOfShownCode

\* Only the test begun last can still answer in this panel, and while none
\* runs there none can.
OneAnswer ==
  /\ panel \in {"idle", "running", "done"}
  /\ result \in Run \cup {Nil} /\ newest \in Run \cup {Nil}
  /\ worker \in [Run -> Stage]
  /\ timer \subseteq Run /\ mine \subseteq Run
  /\ panel = "running" => timer \cap mine = {newest}
  /\ panel # "running" => timer \cap mine = {}
  /\ panel = "done" => result = newest /\ newest # Nil

PanelInv == EditorInv /\ OneAnswer

LEMMA ShowsType ==
  ASSUME EditorTypes, view # Nil, NEW t \in Source, Shows(t)
  PROVE  view' = t /\ past' \in Seq(Source) /\ Len(past') <= MaxUndo
<1> DEFINE all == <<view>> \o past
           n == IF Len(past) < MaxUndo THEN Len(past) + 1 ELSE MaxUndo
<1>1. all \in Seq(Source) /\ Len(all) = Len(past) + 1 /\ Len(past) \in Nat
  BY DEF EditorTypes
<1>2. n \in Nat /\ n <= Len(all) /\ n <= MaxUndo
  BY <1>1, PanelAssumption DEF EditorTypes
<1>3. SubSeq(all, 1, n) \in Seq(Source) /\ Len(SubSeq(all, 1, n)) = n
  <2>1. \A i \in 1..n : all[i] \in Source
    BY <1>1, <1>2
  <2> HIDE DEF all, n
  <2> QED
    BY <1>1, <1>2, <2>1
<1> QED
  BY <1>2, <1>3 DEF Shows

LEMMA RendersInv ==
  ASSUME EditorInv, NEW s \in Script, NEW c \in [Script -> Source], open # Nil,
         open' = s, formatting' \in Formatting \cup {Nil}, UNCHANGED formatErr,
         Renders(s, c)
  PROVE  EditorInv'
<1>1. view # Nil /\ view \in Source /\ s # Nil /\ c[s] \in Source /\ c[s] # Nil
  BY PanelAssumption DEF EditorInv, EditorTypes
<1>2. CASE view = c[s]
  BY <1>1, <1>2 DEF Renders, EditorInv, EditorTypes, VerdictIsOfShownCode
<1>3. CASE view # c[s]
  <2>1. view' = c[s] /\ past' \in Seq(Source) /\ Len(past') <= MaxUndo
    BY <1>1, <1>3, ShowsType DEF Renders, EditorInv
  <2>2. code' = c /\ verdict' = Nil
    BY <1>3 DEF Renders, Listener
  <2> QED
    BY <1>1, <2>1, <2>2, PanelAssumption DEF EditorInv, EditorTypes, VerdictIsOfShownCode
<1> QED
  BY <1>2, <1>3

LEMMA BecomesInv ==
  ASSUME EditorInv, NEW c \in [Script -> Source], UNCHANGED <<open, formatErr>>,
         formatting' \in Formatting \cup {Nil}, Becomes(c)
  PROVE  EditorInv'
<1>1. CASE open = Nil
  BY <1>1 DEF Becomes, EditorInv, EditorTypes, VerdictIsOfShownCode
<1>2. CASE open # Nil
  BY <1>2, RendersInv DEF Becomes, EditorInv, EditorTypes
<1> QED
  BY <1>1, <1>2

LEMMA InitPanel == PanelInit => PanelInv
<1> SUFFICES ASSUME PanelInit PROVE PanelInv
  OBVIOUS
<1>1. EditorInv
  BY PanelAssumption DEF PanelInit, EditorInv, EditorTypes, VerdictIsOfShownCode
<1>2. OneAnswer
  BY DEF PanelInit, OneAnswer, Stage
<1> QED
  BY <1>1, <1>2 DEF PanelInv

LEMMA NextEditor == EditorInv /\ [PanelNext]_panelVars => EditorInv'
<1> SUFFICES ASSUME EditorInv, [PanelNext]_panelVars PROVE EditorInv'
  OBVIOUS
<1>1. CASE UNCHANGED <<editor, format>>
  BY <1>1 DEF editor, format, EditorInv, EditorTypes, VerdictIsOfShownCode
<1>2. ASSUME NEW t \in Source, Enters(t) PROVE EditorInv'
  <2>1. view # Nil /\ open \in Script
    BY <1>2 DEF Enters, EditorInv, EditorTypes
  <2>2. view' = t /\ past' \in Seq(Source) /\ Len(past') <= MaxUndo
    BY <1>2, <2>1, ShowsType DEF Enters, EditorInv
  <2> QED
    BY <1>2, <2>1, <2>2, PanelAssumption
      DEF Enters, Listener, format, EditorInv, EditorTypes, VerdictIsOfShownCode
<1>3. CASE Undoes
  <2>1. /\ open \in Script /\ open # Nil /\ past \in Seq(Source) /\ past # <<>>
        /\ Head(past) \in Source /\ Head(past) # Nil
        /\ Tail(past) \in Seq(Source) /\ Len(Tail(past)) <= MaxUndo
    BY <1>3, PanelAssumption DEF Undoes, EditorInv, EditorTypes
  <2>2. view' = Head(past) /\ past' = Tail(past) /\ UNCHANGED <<open, formatting, formatErr>>
    BY <1>3 DEF Undoes, format
  <2>3. CASE Head(past) = view
    BY <1>3, <2>1, <2>2, <2>3 DEF Undoes, EditorInv, EditorTypes, VerdictIsOfShownCode
  <2>4. CASE Head(past) # view
    <3>1. code' = [code EXCEPT ![open] = Head(past)] /\ verdict' = Nil
      BY <1>3, <2>4 DEF Undoes, Listener
    <3> QED
      BY <2>1, <2>2, <3>1, PanelAssumption DEF EditorInv, EditorTypes, VerdictIsOfShownCode
  <2> QED
    BY <2>3, <2>4
<1>4. ASSUME NEW s \in Script, Switches(s) PROVE EditorInv'
  BY <1>4, RendersInv DEF Switches, format, EditorInv, EditorTypes
<1>5. ASSUME NEW s \in Script, Opens(s) PROVE EditorInv'
  BY <1>5, PanelAssumption DEF Opens, format, EditorInv, EditorTypes, VerdictIsOfShownCode
<1>6. CASE Closes
  <2>1. formatting' \in Formatting \cup {Nil}
    BY <1>6 DEF Closes, Formatting, EditorInv, EditorTypes
  <2>2. past' \in Seq(Source) /\ Len(past') <= MaxUndo
    BY <1>6, PanelAssumption DEF Closes
  <2> QED
    BY <1>6, <2>1, <2>2 DEF Closes, EditorInv, EditorTypes, VerdictIsOfShownCode
<1>7. CASE Validates
  BY <1>7, PanelAssumption DEF Validates, EditorInv, EditorTypes, VerdictIsOfShownCode
<1>8. CASE Formats
  BY <1>8, PanelAssumption DEF Formats, Formatting, editor, EditorInv, EditorTypes, VerdictIsOfShownCode
<1>9. CASE FormatEnds
  <2>1. formatting.of \in Script /\ formatting.draft \in [Script -> Source]
    BY <1>9 DEF FormatEnds, Formatting, EditorInv, EditorTypes
  <2>2. [formatting.draft EXCEPT ![formatting.of] = Neat] \in [Script -> Source]
    BY <2>1, PanelAssumption
  <2> QED
    BY <1>9, <2>2, BecomesInv DEF FormatEnds, EditorInv, EditorTypes
<1>10. CASE DraftReplaced
  BY <1>10, BecomesInv DEF DraftReplaced, format, EditorInv, EditorTypes
<1>11. ASSUME NEW r \in Run,
              \/ Tests(r) \/ Fetches(r) \/ HeadersCome(r) \/ FetchFails(r) \/ BodyEnds(r)
              \/ Posts(r) \/ Throws(r) \/ Answers(r) \/ TimesOut(r)
       PROVE  EditorInv'
  BY <1>1, <1>11 DEF Tests, Fetches, HeadersCome, FetchFails, BodyEnds, Posts, Throws, Moves,
    Answers, TimesOut, Settles
<1>12. CASE FormatFails
  <2>1. formatErr' \in Bad \cup {"unloaded", Nil} /\ formatting' = Nil /\ UNCHANGED editor
    BY <1>12 DEF FormatFails, EditorInv, EditorTypes
  <2> QED
    BY <2>1, PanelAssumption DEF editor, EditorInv, EditorTypes, VerdictIsOfShownCode
<1> QED
  BY <1>1, <1>2, <1>3, <1>4, <1>5, <1>6, <1>7, <1>8, <1>9, <1>10, <1>11, <1>12 DEF PanelNext, panelVars

LEMMA NextAnswer == OneAnswer /\ [PanelNext]_panelVars => OneAnswer'
<1> SUFFICES ASSUME OneAnswer, [PanelNext]_panelVars PROVE OneAnswer'
  OBVIOUS
<1>1. CASE UNCHANGED tests
  BY <1>1 DEF tests, OneAnswer
<1>2. CASE Closes
  BY <1>2 DEF Closes, OneAnswer
<1>3. ASSUME NEW r \in Run, Tests(r) PROVE OneAnswer'
  BY <1>3, PanelAssumption DEF Tests, MayTest, OneAnswer, Stage
<1>4. ASSUME NEW r \in Run,
             \/ Fetches(r) \/ HeadersCome(r) \/ FetchFails(r) \/ BodyEnds(r) \/ Posts(r) \/ Throws(r)
      PROVE  OneAnswer'
  BY <1>4 DEF Fetches, HeadersCome, FetchFails, BodyEnds, Posts, Throws, Moves, OneAnswer, Stage
<1>5. ASSUME NEW r \in Run, Answers(r) \/ TimesOut(r) PROVE OneAnswer'
  <2>1. Settles(r)
    BY <1>5 DEF Answers, TimesOut
  <2>2. worker' \in [Run -> Stage] /\ timer' = timer \ {r} /\ UNCHANGED <<newest, mine>>
    BY <2>1 DEF Settles, Cleanup, OneAnswer, Stage
  <2>3. CASE r \in mine \cap timer
    <3>1. panel = "running" /\ newest = r /\ panel' = "done" /\ result' = r
      BY <2>1, <2>3 DEF Settles, OneAnswer
    <3> QED
      BY <2>2, <3>1, PanelAssumption DEF OneAnswer
  <2>4. CASE r \notin mine \cap timer
    <3>1. UNCHANGED <<panel, result>>
      BY <2>1, <2>4 DEF Settles
    <3>2. timer' \cap mine' = timer \cap mine
      BY <2>2, <2>4
    <3> QED
      BY <2>2, <3>1, <3>2 DEF OneAnswer
  <2> QED
    BY <2>3, <2>4
<1>6. CASE Undoes \/ Validates \/ Formats \/ FormatEnds \/ FormatFails \/ DraftReplaced
             \/ (\E t \in Source : Enters(t)) \/ (\E s \in Script : Opens(s) \/ Switches(s))
  BY <1>1, <1>6 DEF Undoes, Validates, Formats, FormatEnds, FormatFails, DraftReplaced, Enters, Opens, Switches
<1> QED
  BY <1>1, <1>2, <1>3, <1>4, <1>5, <1>6 DEF PanelNext, panelVars

\* The invariant of both halves of the panel: its editor and its tests.
THEOREM PanelInvariant == PanelSpec => []PanelInv
<1>1. PanelInv /\ [PanelNext]_panelVars => PanelInv'
  BY NextEditor, NextAnswer DEF PanelInv
<1> QED
  BY <1>1, InitPanel, PTL DEF PanelSpec

\* Every variable keeps its type; the editor's undo history stays within its bound.
THEOREM PanelTypeCorrect == PanelSpec => []PanelTypeOK
<1>1. PanelInv => PanelTypeOK
  BY DEF PanelInv, EditorInv, EditorTypes, OneAnswer, PanelTypeOK
<1> QED
  BY <1>1, PanelInvariant, PTL

\* Whatever is typed, undone, formatted late, opened or reloaded, the editor shows
\* the draft's code, and Validate's verdict is of the code that is shown; Format's
\* error line is never of code that is found valid, though it may be of code that is
\* no longer shown (ActionEditor.tsx:797-874, CodeEditor.tsx:124-148).
THEOREM VerdictTrue == PanelSpec => []VerdictIsOfShownCode
<1>1. PanelInv => VerdictIsOfShownCode
  BY DEF PanelInv, EditorInv
<1> QED
  BY <1>1, PanelInvariant, PTL

\* For any number of tests, panels and timeouts: the table shows the answer of the
\* test begun last, and one that runs can still answer (ActionEditor.tsx:918-932).
THEOREM NewestShown == PanelSpec => []ShownIsNewest
<1>1. PanelInv => ShownIsNewest
  BY DEF PanelInv, OneAnswer, ShownIsNewest
<1> QED
  BY <1>1, PanelInvariant, PTL
-----------------------------------------------------------------------------
(* The store.                                                              *)

LocType == [at : Step, row : Row \cup {None}, has : SUBSET Conn,
            bundle : SUBSET Key, doc : Doc \cup {None}]

\* What a handler has read is there when it goes on.
Prepared ==
  \A q \in Request :
    /\ loc[q].at \in {"credentials", "write", "delete", "rotate", "check", "commit"} => loc[q].row # None
    /\ loc[q].at = "create" => loc[q].row = None
    /\ loc[q].at \in {"patch", "check", "commit"} => loc[q].doc # None
    /\ loc[q].at = "commit" => loc[q].doc.conns # {} /\ loc[q].doc.conns \subseteq loc[q].has

StoreTypes == TypeOK /\ Prepared

LEMMA RowFacts ==
  /\ None \notin Row /\ None \notin Doc /\ None \notin Request /\ "first" \notin Request
  /\ \A x \in Row : /\ x.doc \in Doc /\ x.rev \in Nat /\ x.hash \in Doc \X Nat
                    /\ x.born \in Request \cup {"first"} /\ x.reg \in Request \cup {"first"}
                    /\ x.change \in Request \cup {None}
  /\ \A d \in Doc : d.conns \subseteq Conn
  BY StoreAssumption DEF Row, Doc

LEMMA BlankType == Blank \in LocType /\ Blank.row = None /\ Blank.at = "done"
  BY DEF Blank, LocType, Step

LEMMA InitStoreTypes == Init => StoreTypes
<1> SUFFICES ASSUME Init PROVE StoreTypes
  OBVIOUS
<1>1. row \in Row \cup {None}
  BY DEF Init, Row, Hash
<1>2. passwords \in [Conn -> Password \cup {None}]
  BY DEF Init
<1>3. [Blank EXCEPT !.at = "idle"] \in LocType
  BY DEF Blank, LocType, Step
<1>4. loc \in [Request -> LocType] /\ \A q \in Request : loc[q].at = "idle"
  BY <1>3 DEF Init, Blank
<1> QED
  BY <1>1, <1>2, <1>4 DEF Init, StoreTypes, TypeOK, Prepared, LocType

LEMMA ReadTypes ==
  ASSUME StoreTypes, NEW r \in Request, NEW from, NEW to \in Step, Reads(r, from, to)
  PROVE  /\ loc' = [loc EXCEPT ![r] = [loc[r] EXCEPT !.at = to, !.row = row]]
         /\ loc' \in [Request -> LocType]
         /\ loc'[r].at = to /\ loc'[r].row = row /\ loc'[r].doc = loc[r].doc
         /\ loc'[r].has = loc[r].has
         /\ \A q \in Request \ {r} : loc'[q] = loc[q]
  BY DEF StoreTypes, TypeOK, Reads, LocType

LEMMA EndTypes ==
  ASSUME StoreTypes, NEW r \in Request, Ends(r)
  PROVE  /\ loc' \in [Request -> LocType] /\ loc'[r] = Blank
         /\ loc'[r].row = None /\ loc'[r].at = "done"
         /\ \A q \in Request \ {r} : loc'[q] = loc[q]
  BY BlankType DEF StoreTypes, TypeOK, Ends, LocType

LEMMA UpsertType ==
  ASSUME StoreTypes, NEW r \in Request, NEW d \in Doc, NEW rev \in Nat, NEW reg \in Request \cup {"first"},
         Upsert(r, d, rev, reg)
  PROVE  row' \in Row /\ row' # None
<1>1. (IF row = None THEN None ELSE row.change) \in Request \cup {None}
  BY RowFacts DEF StoreTypes, TypeOK
<1>2. (IF row = None THEN r ELSE row.born) \in Request \cup {"first"}
  BY RowFacts DEF StoreTypes, TypeOK
<1>3. row' \in Row
  BY <1>1, <1>2 DEF Upsert, Row, Hash
<1> QED
  BY <1>3, RowFacts

LEMMA NextStoreTypes == StoreTypes /\ [Next]_vars => StoreTypes'
<1> SUFFICES ASSUME StoreTypes, [Next]_vars PROVE StoreTypes'
  OBVIOUS
<1>1. CASE UNCHANGED vars
  BY <1>1 DEF vars, store, StoreTypes, TypeOK, Prepared
<1> SUFFICES ASSUME NEW r \in Request,
                    \/ PutReads(r) \/ PutLists(r) \/ PutCommits(r)
                    \/ CredentialsRead(r) \/ BundleRead(r) \/ CredentialsCommit(r)
                    \/ PatchBegins(r) \/ PatchReads(r) \/ PatchLists(r) \/ PatchCommits(r)
                    \/ DeleteReads(r) \/ DeleteCommits(r)
                    \/ DuplicateReads(r) \/ DuplicateCommits(r)
                    \/ RotateReads(r) \/ RotateCommits(r)
                    \/ Refused(r)
             PROVE  StoreTypes'
  BY <1>1 DEF Next
<1>2. loc[r] \in LocType /\ loc[r].row \in Row \cup {None} /\ loc[r].doc \in Doc \cup {None}
  BY DEF StoreTypes, TypeOK, LocType
<1>3. CASE PutReads(r) \/ CredentialsRead(r) \/ PatchReads(r) \/ DeleteReads(r) \/ DuplicateReads(r)
             \/ RotateReads(r)
  <2>1. PICK from \in Step, to \in {"put", "credentials", "check", "delete", "create", "rotate"} :
          /\ Reads(r, from, to)
          /\ to \notin {"put", "create"} => row # None
          /\ to = "create" => row = None
          /\ to = "check" => from = "patch"
    BY <1>3 DEF PutReads, CredentialsRead, PatchReads, DeleteReads, DuplicateReads, RotateReads, Step
  <2>2. to \in Step
    BY DEF Step
  <2>3. /\ loc' \in [Request -> LocType] /\ loc'[r].at = to /\ loc'[r].row = row
        /\ loc'[r].doc = loc[r].doc /\ \A q \in Request \ {r} : loc'[q] = loc[q]
    BY <2>1, <2>2, ReadTypes
  <2>4. Prepared'
    BY <2>1, <2>3 DEF StoreTypes, Prepared, Reads
  <2> QED
    BY <2>1, <2>3, <2>4 DEF StoreTypes, TypeOK, LocType, Reads, store
<1>4. CASE PutLists(r) \/ PatchLists(r) \/ BundleRead(r) \/ PatchBegins(r)
  <2>1. Restorable \subseteq Doc /\ Has \subseteq Conn
    BY DEF StoreTypes, TypeOK, Restorable, Has
  <2>2. PICK m \in LocType :
          /\ loc' = [loc EXCEPT ![r] = m]
          /\ m.row = loc[r].row
          /\ m.at \in {"save", "commit", "write", "patch"}
          /\ m.at = "write" => loc[r].at = "credentials"
          /\ m.at = "commit" => /\ loc[r].at = "check" /\ m.doc # None
                                /\ m.doc.conns # {} /\ m.doc.conns \subseteq m.has
          /\ m.at = "patch" => m.doc # None
    <3>1. CASE PutLists(r)
      <4> DEFINE m == [loc[r] EXCEPT !.at = "save", !.has = Has]
      <4>1. m \in LocType /\ m.at = "save" /\ m.row = loc[r].row
        BY <1>2, <2>1 DEF LocType, Step
      <4>2. loc' = [loc EXCEPT ![r] = m]
        BY <3>1 DEF PutLists, StoreTypes, TypeOK
      <4> QED
        BY <4>1, <4>2
    <3>2. CASE PatchLists(r)
      <4> DEFINE m == [loc[r] EXCEPT !.at = "commit", !.has = Has]
      <4>1. /\ m \in LocType /\ m.at = "commit" /\ m.row = loc[r].row /\ m.doc = loc[r].doc
            /\ m.has = Has
        BY <1>2, <2>1 DEF LocType, Step
      <4>2. loc' = [loc EXCEPT ![r] = m]
        BY <3>2 DEF PatchLists, StoreTypes, TypeOK
      <4>3. loc[r].at = "check" /\ loc[r].doc # None /\ loc[r].doc.conns # {}
            /\ loc[r].doc.conns \subseteq Has
        BY <3>2 DEF PatchLists, StoreTypes, Prepared
      <4> QED
        BY <4>1, <4>2, <4>3
    <3>3. CASE BundleRead(r)
      <4> DEFINE m == [loc[r] EXCEPT !.at = "write", !.bundle = bundle]
      <4>1. m \in LocType /\ m.at = "write" /\ m.row = loc[r].row
        BY <1>2 DEF LocType, Step, StoreTypes, TypeOK
      <4>2. loc' = [loc EXCEPT ![r] = m] /\ loc[r].at = "credentials"
        BY <3>3 DEF BundleRead, StoreTypes, TypeOK
      <4> QED
        BY <4>1, <4>2
    <3>4. CASE PatchBegins(r)
      <4>1. PICK d \in Doc : loc' = [loc EXCEPT ![r].at = "patch", ![r].doc = d]
        BY <3>4, <2>1 DEF PatchBegins
      <4> DEFINE m == [loc[r] EXCEPT !.at = "patch", !.doc = d]
      <4>2. m \in LocType /\ m.at = "patch" /\ m.row = loc[r].row /\ m.doc # None
        BY <1>2, RowFacts DEF LocType, Step
      <4>3. loc' = [loc EXCEPT ![r] = m]
        BY <4>1 DEF StoreTypes, TypeOK
      <4> QED
        BY <4>2, <4>3
    <3> QED
      BY <1>4, <3>1, <3>2, <3>3, <3>4
  <2>4. loc' \in [Request -> LocType] /\ \A q \in Request \ {r} : loc'[q] = loc[q]
    BY <2>2 DEF StoreTypes, TypeOK, LocType
  <2>5. loc'[r] = m
    BY <2>2 DEF StoreTypes, TypeOK
  <2>6. Prepared'
    BY <2>2, <2>4, <2>5 DEF StoreTypes, Prepared
  <2>7. UNCHANGED <<store, overwritten>>
    BY <1>4 DEF PutLists, PatchLists, BundleRead, PatchBegins
  <2> QED
    BY <2>4, <2>6, <2>7 DEF StoreTypes, TypeOK, LocType, store
<1>5. CASE PutCommits(r) \/ CredentialsCommit(r) \/ PatchCommits(r) \/ DeleteCommits(r)
             \/ DuplicateCommits(r) \/ RotateCommits(r) \/ Refused(r)
  <2>1. Ends(r)
    BY <1>5 DEF PutCommits, CredentialsCommit, PatchCommits, DeleteCommits, DuplicateCommits,
      RotateCommits, Refused
  <2>2. /\ loc' \in [Request -> LocType] /\ loc'[r].row = None /\ loc'[r].at = "done"
        /\ \A q \in Request \ {r} : loc'[q] = loc[q]
    BY <2>1, EndTypes
  <2>3. Prepared'
    BY <2>2 DEF StoreTypes, Prepared
  <2>4. row' \in Row \cup {None}
    <3>1. CASE PutCommits(r)
      <4>1. PICK d \in Doc : \E set \in Changes(d.conns) :
              Upsert(r, d, SecretRevision(r, d, set), IF loc[r].row = None THEN r ELSE loc[r].row.reg)
        BY <3>1 DEF PutCommits
      <4>2. \A set : SecretRevision(r, d, set) \in Nat
        BY <1>2, RowFacts DEF SecretRevision
      <4>3. (IF loc[r].row = None THEN r ELSE loc[r].row.reg) \in Request \cup {"first"}
        BY <1>2, RowFacts
      <4> QED
        BY <4>1, <4>2, <4>3, UpsertType
    <3>2. CASE CredentialsCommit(r)
      <4>1. loc[r].row \in Row /\ row \in Row
        BY <3>2, <1>2 DEF CredentialsCommit, StoreTypes, Prepared, TypeOK
      <4>2. loc[r].row.rev + 1 \in Nat /\ loc[r].row.doc \in Doc
        BY <4>1, RowFacts
      <4>3. Hash(loc[r].row.doc, loc[r].row.rev + 1) \in Doc \X Nat
        BY <4>2 DEF Hash
      <4> QED
        BY <3>2, <4>1, <4>2, <4>3 DEF CredentialsCommit, Row
    <3>3. CASE PatchCommits(r)
      <4>1. loc[r].row \in Row /\ row \in Row /\ loc[r].doc \in Doc
        BY <3>3, <1>2 DEF PatchCommits, Current, StoreTypes, Prepared, TypeOK
      <4>2. PatchRevision(r) \in Nat
        BY <4>1, RowFacts DEF PatchRevision
      <4>3. Hash(loc[r].doc, PatchRevision(r)) \in Doc \X Nat
        BY <4>1, <4>2 DEF Hash
      <4> QED
        BY <3>3, <4>1, <4>2, <4>3 DEF PatchCommits, Row
    <3>4. CASE DuplicateCommits(r)
      <4>1. PICK d \in Doc, copied \in SUBSET Conn : Upsert(r, d, IF copied # {} THEN 1 ELSE 0, r)
        BY <3>4, RowFacts DEF DuplicateCommits
      <4> QED
        BY <4>1, UpsertType
    <3>5. CASE RotateCommits(r)
      BY <3>5 DEF RotateCommits, StoreTypes, TypeOK, Row
    <3> QED
      BY <1>5, <3>1, <3>2, <3>3, <3>4, <3>5 DEF DeleteCommits, Refused, store, StoreTypes, TypeOK
  <2>5. passwords' \in [Conn -> Password \cup {None}]
    <3>1. \A gone : Without(gone) \in [Conn -> Password \cup {None}]
      BY DEF Without, StoreTypes, TypeOK
    <3>2. CASE PutCommits(r)
      <4>1. PICK d \in Doc : \E set \in Changes(d.conns) :
              passwords' = [c \in Conn |->
                IF c \in DOMAIN set THEN set[c] ELSE Without(Stale(loc[r].has, d))[c]]
        BY <3>2 DEF PutCommits
      <4>2. \A set \in Changes(d.conns) : \A c \in DOMAIN set : set[c] \in Password \cup {None}
        BY DEF Changes
      <4> QED
        BY <4>1, <4>2, <3>1
    <3>3. CASE DuplicateCommits(r)
      BY <3>3 DEF DuplicateCommits, StoreTypes, TypeOK
    <3> QED
      BY <1>5, <3>1, <3>2, <3>3 DEF CredentialsCommit, PatchCommits, DeleteCommits, RotateCommits,
        Refused, store, StoreTypes, TypeOK
  <2>6. bundle' \subseteq Key
    <3>1. loc[r].bundle \subseteq Key
      BY <1>2 DEF LocType
    <3> QED
      BY <1>5, <3>1 DEF PutCommits, CredentialsCommit, PatchCommits, DeleteCommits, DuplicateCommits,
        RotateCommits, Refused, store, StoreTypes, TypeOK
  <2>7. history' \subseteq [id : Request, before : Doc, after : Doc]
    <3>1. CASE PatchCommits(r)
      <4>1. loc[r].row.doc \in Doc /\ loc[r].doc \in Doc
        BY <3>1, <1>2, RowFacts DEF PatchCommits, StoreTypes, Prepared
      <4> QED
        BY <3>1, <4>1 DEF PatchCommits, StoreTypes, TypeOK
    <3> QED
      BY <1>5, <3>1 DEF PutCommits, CredentialsCommit, DeleteCommits, DuplicateCommits,
        RotateCommits, Refused, store, StoreTypes, TypeOK
  <2>8. overwritten' \in BOOLEAN
    BY <1>5 DEF PutCommits, CredentialsCommit, PatchCommits, DeleteCommits, DuplicateCommits,
      RotateCommits, Refused, Moved, StoreTypes, TypeOK
  <2> QED
    BY <2>2, <2>3, <2>4, <2>5, <2>6, <2>7, <2>8 DEF StoreTypes, TypeOK, LocType
<1> QED
  BY <1>3, <1>4, <1>5

-----------------------------------------------------------------------------
(* One row, from its insertion to its deletion.                            *)

\* r has read the row that is there, in this or in an earlier version.
SameRow(r) == row # None /\ loc[r].row # None /\ loc[r].row.born = row.born

\* A row is inserted by a request that ends with it.
BornOnce ==
  /\ row # None /\ row.born \in Request => loc[row.born].at = "done"
  /\ \A q \in Request : loc[q].row # None /\ loc[q].row.born \in Request =>
       loc[loc[q].row.born].at = "done"

\* The stored hash, and one that was read, is that of its document and revision.
HashIsExact ==
  /\ row # None => row.hash = Hash(row.doc, row.rev)
  /\ \A q \in Request : loc[q].row # None => loc[q].row.hash = Hash(loc[q].row.doc, loc[q].row.rev)

\* While the revision is the one r has read, so are the passwords it has listed.
ReadsAge ==
  \A q \in Request : SameRow(q) =>
    /\ loc[q].row.rev <= row.rev
    /\ loc[q].row.rev = row.rev /\ loc[q].at \in {"save", "commit"} => loc[q].has = Has

\* What a bridge would be sent for document d with these secrets.
RuntimeOf(d, keys, secrets) ==
  [doc |-> d, credentials |-> keys, passwords |-> {<<c, secrets[c]>> : c \in d.conns}]

\* What was served under the present revision has the present secrets.
RevisionIsSecrets ==
  \A s \in served :
    /\ row # None /\ s.hash \in Doc \X Nat /\ s.hash[2] <= row.rev
    /\ s.hash[2] = row.rev => s.runtime = RuntimeOf(s.hash[1], bundle, passwords)

\* A row's birth is exact whatever is overwritten; the rest is, until the first
\* overwriting, about the row's hash and about what requests in their middle hold.
StoreInv ==
  /\ StoreTypes /\ BornOnce
  /\ ~overwritten => /\ HashIsExact /\ ReadsAge /\ RevisionIsSecrets
                     /\ HashIdentifiesRuntime /\ NoLeftoverPassword

\* What a step does to the stored configuration: it is gone, inserted, or in
\* another version, whose revision tells whether its secrets are others.
Gone == row' = None /\ served' = {} /\ Has' = {}

Inserted(r) ==
  /\ row = None /\ loc[r].at # "done" /\ row' # None /\ row'.born = r
  /\ Has' \subseteq row'.doc.conns
  /\ served' = {[hash |-> row'.hash, runtime |-> Runtime']}

Followed ==
  /\ row # None /\ row' # None /\ row'.born = row.born
  /\ Has' \subseteq row'.doc.conns
  /\ served' \subseteq served \cup {[hash |-> row'.hash, runtime |-> Runtime']}
  /\ \/ row'.rev > row.rev
     \/ row'.rev = row.rev /\ UNCHANGED <<passwords, bundle>>

Stands(r) ==
  /\ row' # None => row'.hash = Hash(row'.doc, row'.rev)
  /\ Gone \/ Inserted(r) \/ Followed

\* Who finds the hash and the birth it has read, finds the row it has read.
LEMMA Unmoved ==
  ASSUME StoreInv, ~overwritten, NEW r \in Request, ~Moved(r)
  PROVE  /\ row = None <=> loc[r].row = None
         /\ row # None => /\ SameRow(r) /\ loc[r].row.rev = row.rev /\ loc[r].row.doc = row.doc
                          /\ loc[r].at \in {"save", "commit"} => loc[r].has = Has
<1>1. row = None <=> loc[r].row = None
  BY DEF Moved
<1>2. ASSUME row # None
      PROVE  SameRow(r) /\ row.hash = loc[r].row.hash
  BY <1>1, <1>2 DEF Moved, SameRow
<1>3. ASSUME row # None
      PROVE  loc[r].row.rev = row.rev /\ loc[r].row.doc = row.doc
  <2>1. Hash(row.doc, row.rev) = Hash(loc[r].row.doc, loc[r].row.rev)
    BY <1>1, <1>2, <1>3 DEF StoreInv, HashIsExact
  <2> QED
    BY <2>1 DEF Hash
<1> QED
  BY <1>1, <1>2, <1>3 DEF StoreInv, ReadsAge

LEMMA StillStands ==
  ASSUME StoreInv, ~overwritten, NEW r \in Request, UNCHANGED <<store, served>>
  PROVE  Stands(r)
<1>1. Has' = Has
  BY DEF Has, store
<1> QED
  BY <1>1 DEF StoreInv, HashIsExact, RevisionIsSecrets, NoLeftoverPassword, Stands, Gone, Followed,
    store, StoreTypes, TypeOK

\* The steps that write, one by one.
LEMMA PutStands ==
  ASSUME StoreInv, StoreTypes', NEW r \in Request, PutCommits(r), ~overwritten'
  PROVE  Stands(r)
<1>1. ~overwritten /\ ~Moved(r) /\ loc[r].at = "save"
  BY DEF PutCommits
<1>2. PICK d \in Doc : \E set \in Changes(d.conns) :
        /\ Upsert(r, d, SecretRevision(r, d, set), IF loc[r].row = None THEN r ELSE loc[r].row.reg)
        /\ passwords' = [c \in Conn |->
             IF c \in DOMAIN set THEN set[c] ELSE Without(Stale(loc[r].has, d))[c]]
  BY DEF PutCommits
<1>3. PICK set \in Changes(d.conns) :
        /\ Upsert(r, d, SecretRevision(r, d, set), IF loc[r].row = None THEN r ELSE loc[r].row.reg)
        /\ passwords' = [c \in Conn |->
             IF c \in DOMAIN set THEN set[c] ELSE Without(Stale(loc[r].has, d))[c]]
  BY <1>2
<1>4. DOMAIN set \subseteq d.conns /\ d.conns \subseteq Conn
  BY RowFacts DEF Changes
<1>5. row' # None /\ row'.doc = d /\ row'.rev = SecretRevision(r, d, set)
      /\ row'.hash = Hash(d, row'.rev) /\ row'.born = IF row = None THEN r ELSE row.born
  <2>1. SecretRevision(r, d, set) \in Nat /\ (IF loc[r].row = None THEN r ELSE loc[r].row.reg)
          \in Request \cup {"first"}
    <3>1. loc[r].row \in Row \cup {None}
      BY DEF StoreInv, StoreTypes, TypeOK
    <3> QED
      BY <3>1, RowFacts DEF SecretRevision
  <2>2. row' # None
    BY <1>3, <2>1, UpsertType DEF StoreInv
  <2> QED
    BY <1>3, <2>2 DEF Upsert
<1>6. Has' \subseteq d.conns
  <2>1. SUFFICES ASSUME NEW c \in Conn, passwords'[c] # None, c \notin DOMAIN set, c \notin d.conns
                 PROVE  FALSE
    BY <1>4 DEF Has
  <2>2. c \notin Stale(loc[r].has, d) /\ passwords[c] # None
    BY <1>3, <2>1 DEF Without
  <2>3. c \in Has /\ c \notin loc[r].has
    BY <2>1, <2>2 DEF Has, Stale
  <2>4. row # None
    BY <1>1, <2>3 DEF StoreInv, NoLeftoverPassword
  <2> QED
    BY <1>1, <2>3, <2>4, Unmoved
<1>7. served' = served \cup {[hash |-> row'.hash, runtime |-> Runtime']}
  BY <1>5 DEF PutCommits, Seen
<1>8. CASE row = None
  <2>1. served = {}
    BY <1>1, <1>8 DEF StoreInv, RevisionIsSecrets
  <2> QED
    BY <1>1, <1>5, <1>6, <1>7, <1>8, <2>1 DEF Stands, Inserted
<1>9. CASE row # None
  <2>1. loc[r].row.rev = row.rev /\ loc[r].row # None /\ row.rev \in Nat
    BY <1>1, <1>9, Unmoved, RowFacts DEF StoreInv, StoreTypes, TypeOK
  <2>2. CASE DOMAIN set = {} /\ Stale(loc[r].has, d) = {}
    <3>1. row'.rev = row.rev
      BY <1>5, <2>1, <2>2 DEF SecretRevision
    <3>2. passwords \in [Conn -> Password \cup {None}]
      BY DEF StoreInv, StoreTypes, TypeOK
    <3>3. \A c \in Conn : passwords'[c] = passwords[c]
      BY <1>3, <2>2 DEF Without
    <3>4. passwords' = passwords
      BY <1>3, <3>2, <3>3
    <3> QED
      BY <1>5, <1>6, <1>7, <1>9, <3>1, <3>4 DEF Stands, Followed, PutCommits
  <2>3. CASE ~(DOMAIN set = {} /\ Stale(loc[r].has, d) = {})
    <3>1. SecretRevision(r, d, set) = row.rev + 1
      BY <2>1, <2>3 DEF SecretRevision
    <3>2. row'.rev > row.rev
      BY <1>5, <2>1, <3>1
    <3> QED
      BY <1>5, <1>6, <1>7, <1>9, <3>2 DEF Stands, Followed
  <2> QED
    BY <2>2, <2>3
<1> QED
  BY <1>8, <1>9

LEMMA CredentialsStand ==
  ASSUME StoreInv, StoreTypes', NEW r \in Request, CredentialsCommit(r), ~overwritten'
  PROVE  Stands(r)
<1>1. ~overwritten /\ ~Moved(r) /\ row # None /\ row \in Row
  BY DEF CredentialsCommit, StoreInv, StoreTypes, TypeOK
<1>2. loc[r].row.rev = row.rev /\ loc[r].row.doc = row.doc /\ row.rev \in Nat
  BY <1>1, Unmoved, RowFacts
<1>3. row' = [row EXCEPT !.rev = row.rev + 1, !.hash = Hash(row.doc, row.rev + 1)]
  BY <1>2 DEF CredentialsCommit
<1>4. row'.rev = row.rev + 1 /\ row'.doc = row.doc /\ row'.born = row.born
      /\ row'.hash = Hash(row.doc, row.rev + 1)
  BY <1>1, <1>3 DEF Row
<1>5. row' # None
  <2>1. row.rev + 1 \in Nat /\ Hash(row.doc, row.rev + 1) \in Doc \X Nat
    BY <1>1, <1>2, RowFacts DEF Hash
  <2>2. row' \in Row
    BY <1>1, <1>3, <2>1 DEF Row
  <2> QED
    BY <2>2, RowFacts
<1>6. Has' = Has /\ Has \subseteq row.doc.conns
  BY <1>1 DEF CredentialsCommit, Has, StoreInv, NoLeftoverPassword
<1>7. served' = served \cup {[hash |-> row'.hash, runtime |-> Runtime']}
  BY <1>5 DEF CredentialsCommit, Seen
<1> QED
  BY <1>1, <1>2, <1>4, <1>5, <1>6, <1>7 DEF Stands, Followed

LEMMA PatchStands ==
  ASSUME StoreInv, StoreTypes', NEW r \in Request, PatchCommits(r), ~overwritten'
  PROVE  Stands(r)
<1>1. /\ ~overwritten /\ ~Moved(r) /\ row # None /\ row \in Row /\ loc[r].at = "commit"
      /\ loc[r].doc \in Doc
  BY DEF PatchCommits, Current, StoreInv, StoreTypes, TypeOK, Prepared
<1>2. loc[r].row.rev = row.rev /\ row.rev \in Nat /\ loc[r].has = Has
  BY <1>1, Unmoved, RowFacts
<1>3. PatchRevision(r) \in Nat /\ Hash(loc[r].doc, PatchRevision(r)) \in Doc \X Nat
  BY <1>1, <1>2 DEF PatchRevision, Hash
<1>4. /\ row' \in Row /\ row'.rev = PatchRevision(r) /\ row'.doc = loc[r].doc /\ row'.born = row.born
      /\ row'.hash = Hash(row'.doc, row'.rev)
  BY <1>1, <1>3, RowFacts DEF PatchCommits, Row
<1>5. row' # None
  BY <1>4, RowFacts
<1>6. served' = served \cup {[hash |-> row'.hash, runtime |-> Runtime']}
  BY <1>5 DEF PatchCommits, Seen
<1>7. Has' \subseteq row'.doc.conns
  BY <1>2, <1>4 DEF PatchCommits, Without, Stale, Has
<1>8. CASE Stale(loc[r].has, loc[r].doc) = {}
  <2>1. row'.rev = row.rev
    BY <1>2, <1>4, <1>8 DEF PatchRevision
  <2>2. passwords' = passwords
    BY <1>8 DEF PatchCommits, Without, StoreInv, StoreTypes, TypeOK
  <2> QED
    BY <1>1, <1>4, <1>5, <1>6, <1>7, <2>1, <2>2 DEF Stands, Followed, PatchCommits
<1>9. CASE Stale(loc[r].has, loc[r].doc) # {}
  <2>1. row'.rev = row.rev + 1
    BY <1>2, <1>4, <1>9 DEF PatchRevision
  <2> QED
    BY <1>1, <1>2, <1>4, <1>5, <1>6, <1>7, <2>1 DEF Stands, Followed
<1> QED
  BY <1>8, <1>9

LEMMA DeleteStands ==
  ASSUME NEW r \in Request, DeleteCommits(r)
  PROVE  Stands(r)
  BY DEF DeleteCommits, Without, Has, Seen, Stands, Gone

LEMMA DuplicateStands ==
  ASSUME StoreInv, StoreTypes', NEW r \in Request, DuplicateCommits(r), ~overwritten'
  PROVE  Stands(r)
<1>1. ~overwritten /\ ~Moved(r) /\ loc[r].at = "create"
  BY DEF DuplicateCommits
<1>2. PICK d \in Doc, p \in Password : \E copied \in SUBSET d.conns :
        /\ Upsert(r, d, IF copied # {} THEN 1 ELSE 0, r)
        /\ passwords' = [c \in Conn |-> IF c \in copied THEN p ELSE passwords[c]]
  BY DEF DuplicateCommits
<1>3. PICK copied \in SUBSET d.conns :
        /\ Upsert(r, d, IF copied # {} THEN 1 ELSE 0, r)
        /\ passwords' = [c \in Conn |-> IF c \in copied THEN p ELSE passwords[c]]
  BY <1>2
<1>4. row' # None
  <2>1. (IF copied # {} THEN 1 ELSE 0) \in Nat
    OBVIOUS
  <2> QED
    BY <1>3, <2>1, UpsertType DEF StoreInv
<1>5. served' = served \cup {[hash |-> row'.hash, runtime |-> Runtime']}
  BY <1>4 DEF DuplicateCommits, Seen
<1>6. row = None
  <2>1. loc[r].row = None
    BY <1>1 DEF StoreInv, StoreTypes, Prepared
  <2> QED
    BY <1>1, <2>1 DEF Moved
<1>7. Has = {} /\ served = {}
  BY <1>1, <1>6 DEF StoreInv, NoLeftoverPassword, RevisionIsSecrets
<1>8. row'.doc = d /\ row'.born = r /\ row'.hash = Hash(row'.doc, row'.rev)
  BY <1>3, <1>6 DEF Upsert
<1>9. Has' \subseteq d.conns
  BY <1>3, <1>7 DEF Has
<1> QED
  BY <1>1, <1>4, <1>5, <1>6, <1>7, <1>8, <1>9 DEF Stands, Inserted

LEMMA RotateStands ==
  ASSUME StoreInv, StoreTypes', NEW r \in Request, RotateCommits(r), ~overwritten'
  PROVE  Stands(r)
<1>1. ~overwritten /\ UNCHANGED <<passwords, bundle, served>> /\ Has' = Has
  BY DEF RotateCommits, Has
<1>2. CASE row = None
  BY <1>1, <1>2 DEF RotateCommits, StoreInv, RevisionIsSecrets, NoLeftoverPassword, Stands, Gone
<1>3. CASE row # None
  <2>1. row \in Row /\ row.rev \in Nat
    BY <1>3, RowFacts DEF StoreInv, StoreTypes, TypeOK
  <2>2. /\ row' # None /\ row'.doc = row.doc /\ row'.hash = row.hash /\ row'.rev = row.rev
        /\ row'.born = row.born
    <3>1. row' = [row EXCEPT !.reg = r]
      BY <1>3 DEF RotateCommits
    <3>2. row' \in Row
      BY <2>1, <3>1 DEF Row
    <3> QED
      BY <2>1, <3>1, <3>2, RowFacts DEF Row
  <2> QED
    BY <1>1, <1>3, <2>1, <2>2 DEF StoreInv, HashIsExact, NoLeftoverPassword, Stands, Followed
<1> QED
  BY <1>2, <1>3

\* What a step does to the request that takes it.
Turns(r) ==
  /\ loc[r].at # "done"
  /\ \A q \in Request \ {r} : loc'[q] = loc[q]
  /\ \/ /\ loc'[r].row = row /\ loc'[r].at \notin {"save", "commit"} /\ UNCHANGED store
     \/ /\ loc'[r].row = loc[r].row /\ UNCHANGED store
        /\ loc'[r].at \in {"save", "commit"} => loc'[r].has = Has
     \/ loc'[r].row = None /\ loc'[r].at = "done"

Acts(r) ==
  \/ PutReads(r) \/ PutLists(r) \/ PutCommits(r)
  \/ CredentialsRead(r) \/ BundleRead(r) \/ CredentialsCommit(r)
  \/ PatchBegins(r) \/ PatchReads(r) \/ PatchLists(r) \/ PatchCommits(r)
  \/ DeleteReads(r) \/ DeleteCommits(r)
  \/ DuplicateReads(r) \/ DuplicateCommits(r)
  \/ RotateReads(r) \/ RotateCommits(r)
  \/ Refused(r)

LEMMA ActsTurn ==
  ASSUME StoreTypes, NEW r \in Request, Acts(r)
  PROVE  Turns(r)
<1>1. CASE PutReads(r) \/ CredentialsRead(r) \/ PatchReads(r) \/ DeleteReads(r) \/ DuplicateReads(r)
             \/ RotateReads(r)
  <2>1. PICK from \in {"idle", "patch"},
             to \in {"put", "credentials", "check", "delete", "create", "rotate"} : Reads(r, from, to)
    BY <1>1 DEF PutReads, CredentialsRead, PatchReads, DeleteReads, DuplicateReads, RotateReads
  <2>2. to \in Step
    BY DEF Step
  <2>3. loc'[r].at = to /\ loc'[r].row = row /\ \A q \in Request \ {r} : loc'[q] = loc[q]
    BY <2>1, <2>2, ReadTypes
  <2> QED
    BY <2>1, <2>3 DEF Turns, Reads
<1>2. CASE PutLists(r) \/ PatchLists(r) \/ BundleRead(r) \/ PatchBegins(r)
  BY <1>2 DEF PutLists, PatchLists, BundleRead, PatchBegins, Turns, StoreTypes, TypeOK
<1>3. CASE PutCommits(r) \/ CredentialsCommit(r) \/ PatchCommits(r) \/ DeleteCommits(r)
             \/ DuplicateCommits(r) \/ RotateCommits(r) \/ Refused(r)
  <2>1. Ends(r) /\ loc[r].at # "done"
    BY <1>3 DEF PutCommits, CredentialsCommit, PatchCommits, DeleteCommits, DuplicateCommits,
      RotateCommits, Refused
  <2> QED
    BY <2>1, EndTypes DEF Turns
<1> QED
  BY <1>1, <1>2, <1>3 DEF Acts

LEMMA ActsStand ==
  ASSUME StoreInv, StoreTypes', NEW r \in Request, Acts(r), ~overwritten'
  PROVE  ~overwritten /\ Stands(r)
<1>1. ~overwritten
  BY DEF Acts, PutReads, PutLists, PutCommits, CredentialsRead, BundleRead, CredentialsCommit,
    PatchBegins, PatchReads, PatchLists, PatchCommits, DeleteReads, DeleteCommits, DuplicateReads,
    DuplicateCommits, RotateReads, RotateCommits, Refused, Reads
<1>2. CASE UNCHANGED <<store, served>>
  BY <1>1, <1>2, StillStands
<1>3. CASE ~UNCHANGED <<store, served>>
  <2>1. PutCommits(r) \/ CredentialsCommit(r) \/ PatchCommits(r) \/ DeleteCommits(r)
          \/ DuplicateCommits(r) \/ RotateCommits(r)
    BY <1>3 DEF Acts, PutReads, PutLists, CredentialsRead, BundleRead, PatchBegins, PatchReads,
      PatchLists, DeleteReads, DuplicateReads, RotateReads, Refused, Reads
  <2> QED
    BY <1>1, <2>1, PutStands, CredentialsStand, PatchStands, DeleteStands, DuplicateStands,
      RotateStands
<1> QED
  BY <1>2, <1>3

\* Whether or not a version has been overwritten, a row has one birth.
LEMMA NextBorn ==
  ASSUME StoreTypes, StoreTypes', BornOnce, NEW r \in Request, Acts(r)
  PROVE  BornOnce'
<1>1. Turns(r)
  BY ActsTurn
<1>2. \/ row' = None
      \/ row # None /\ row' # None /\ row'.born = row.born
      \/ row' # None /\ row'.born = r /\ loc'[r].at = "done"
  <2>1. CASE PutCommits(r) \/ DuplicateCommits(r)
    <3>1. row' = None \/ row'.born = IF row = None THEN r ELSE row.born
      BY <2>1 DEF PutCommits, DuplicateCommits, Upsert
    <3>2. Ends(r)
      BY <2>1 DEF PutCommits, DuplicateCommits
    <3> QED
      BY <3>1, <3>2, EndTypes
  <2>2. CASE CredentialsCommit(r) \/ PatchCommits(r) \/ RotateCommits(r)
    BY <2>2 DEF CredentialsCommit, PatchCommits, Current, RotateCommits, StoreTypes, TypeOK, Row
  <2>3. CASE DeleteCommits(r)
    BY <2>3 DEF DeleteCommits
  <2>4. CASE ~(PutCommits(r) \/ DuplicateCommits(r) \/ CredentialsCommit(r) \/ PatchCommits(r)
                 \/ RotateCommits(r) \/ DeleteCommits(r))
    BY <2>4 DEF Acts, PutReads, PutLists, CredentialsRead, BundleRead, PatchBegins, PatchReads,
      PatchLists, DeleteReads, DuplicateReads, RotateReads, Refused, Reads, store
  <2> QED
    BY <2>1, <2>2, <2>3, <2>4
<1>3. ASSUME NEW b \in Request, loc[b].at = "done"
      PROVE  loc'[b].at = "done"
  BY <1>1, <1>3 DEF Turns
<1>4. row' # None /\ row'.born \in Request => loc'[row'.born].at = "done"
  BY <1>2, <1>3 DEF BornOnce
<1>5. ASSUME NEW q \in Request, loc'[q].row # None, loc'[q].row.born \in Request
      PROVE  loc'[loc'[q].row.born].at = "done"
  <2>1. \/ loc'[q].row = loc[q].row
        \/ loc'[q].row = row
    BY <1>1, <1>5 DEF Turns
  <2> QED
    BY <1>3, <1>5, <2>1 DEF BornOnce
<1> QED
  BY <1>4, <1>5 DEF BornOnce

LEMMA NextHash ==
  ASSUME StoreInv, ~overwritten, NEW r \in Request, Turns(r), Stands(r)
  PROVE  HashIsExact'
  BY DEF StoreInv, HashIsExact, Turns, Stands, Hash

LEMMA NextReads ==
  ASSUME StoreInv, ~overwritten, StoreTypes', NEW r \in Request, Turns(r), Stands(r)
  PROVE  ReadsAge'
<1> SUFFICES ASSUME NEW q \in Request, SameRow(q)'
             PROVE  /\ loc'[q].row.rev <= row'.rev
                    /\ loc'[q].row.rev = row'.rev /\ loc'[q].at \in {"save", "commit"} =>
                         loc'[q].has = Has'
  BY DEF ReadsAge
<1>1. row' \in Row /\ row'.rev \in Nat
  BY RowFacts DEF SameRow, StoreTypes, TypeOK
<1>2. CASE q = r
  <2>1. UNCHANGED store /\ Has' = Has
    BY <1>2 DEF Turns, SameRow, store, Has
  <2> QED
    BY <1>1, <1>2, <2>1 DEF Turns, SameRow, StoreInv, ReadsAge, store
<1>3. CASE q # r
  <2>1. loc'[q] = loc[q]
    BY <1>3 DEF Turns
  <2>2. ~Inserted(r)
    BY <2>1 DEF Inserted, SameRow, StoreInv, BornOnce
  <2>3. Followed
    BY <2>2 DEF Stands, Gone, SameRow
  <2>4. SameRow(q) /\ row \in Row /\ row.rev \in Nat
    BY <2>1, <2>3, RowFacts DEF Followed, SameRow, StoreInv, StoreTypes, TypeOK
  <2>5. loc[q].row.rev \in Nat
    BY <2>4, RowFacts DEF SameRow, StoreInv, StoreTypes, TypeOK
  <2>6. loc[q].row.rev <= row.rev /\ row.rev <= row'.rev
    BY <1>1, <2>3, <2>4 DEF StoreInv, ReadsAge, Followed
  <2>7. row'.rev = row.rev => Has' = Has
    BY <1>1, <2>3, <2>4 DEF Followed, Has
  <2> QED
    BY <1>1, <2>1, <2>4, <2>5, <2>6, <2>7 DEF StoreInv, ReadsAge
<1> QED
  BY <1>2, <1>3

LEMMA NextServed ==
  ASSUME StoreInv, ~overwritten, StoreTypes', NEW r \in Request, Stands(r)
  PROVE  RevisionIsSecrets' /\ HashIdentifiesRuntime'
<1>1. ASSUME row' # None
      PROVE  /\ row'.doc \in Doc /\ row'.rev \in Nat /\ Runtime' = RuntimeOf(row'.doc, bundle', passwords')
             /\ row'.hash = <<row'.doc, row'.rev>>
  BY <1>1, RowFacts DEF StoreTypes, TypeOK, Runtime, RuntimeOf, Stands, Hash
<1> DEFINE new == [hash |-> row'.hash, runtime |-> Runtime']
<1>2. ASSUME row' # None
      PROVE  new.hash \in Doc \X Nat /\ new.hash[2] = row'.rev /\ new.runtime = RuntimeOf(new.hash[1], bundle', passwords')
  BY <1>1, <1>2
<1>3. ASSUME NEW s \in served', s # new
      PROVE  /\ s \in served /\ Followed /\ s.hash \in Doc \X Nat /\ s.hash[2] <= row'.rev
             /\ s.hash[2] = row'.rev => s.runtime = RuntimeOf(s.hash[1], bundle', passwords')
  <2>1. Followed /\ s \in served
    BY <1>3 DEF Stands, Gone, Inserted, Followed
  <2>2. row.rev \in Nat /\ row'.rev \in Nat
    BY <1>1, <2>1, RowFacts DEF Followed, StoreInv, StoreTypes, TypeOK
  <2>3. /\ s.hash \in Doc \X Nat /\ s.hash[2] <= row.rev /\ s.hash[2] \in Nat
        /\ s.hash[2] = row.rev => s.runtime = RuntimeOf(s.hash[1], bundle, passwords)
    BY <2>1 DEF StoreInv, RevisionIsSecrets
  <2>4. row'.rev = row.rev => UNCHANGED <<bundle, passwords>>
    BY <2>1, <2>2 DEF Followed
  <2>5. CASE row'.rev > row.rev
    BY <2>1, <2>2, <2>3, <2>5
  <2>6. CASE row'.rev = row.rev
    BY <2>1, <2>3, <2>4, <2>6
  <2> QED
    BY <2>1, <2>5, <2>6 DEF Followed
<1>4. RevisionIsSecrets'
  <2> SUFFICES ASSUME NEW s \in served'
               PROVE  /\ row' # None /\ s.hash \in Doc \X Nat /\ s.hash[2] <= row'.rev
                      /\ s.hash[2] = row'.rev => s.runtime = RuntimeOf(s.hash[1], bundle', passwords')
    BY DEF RevisionIsSecrets
  <2>1. row' # None
    BY DEF Stands, Gone, Inserted, Followed
  <2>2. CASE s = new
    BY <1>1, <1>2, <2>1, <2>2
  <2>3. CASE s # new
    BY <1>3, <2>1, <2>3
  <2> QED
    BY <2>2, <2>3
<1>5. HashIdentifiesRuntime'
  <2> SUFFICES ASSUME NEW s \in served', NEW t \in served', s.hash = t.hash
               PROVE  s.runtime = t.runtime
    BY DEF HashIdentifiesRuntime
  <2>1. row' # None
    BY DEF Stands, Gone, Inserted, Followed
  <2>2. CASE s = new \/ t = new
    <3>1. s.hash[2] = row'.rev
      BY <1>2, <2>1, <2>2
    <3> QED
      BY <1>4, <3>1 DEF RevisionIsSecrets
  <2>3. CASE s # new /\ t # new
    BY <1>3, <2>3 DEF StoreInv, HashIdentifiesRuntime
  <2> QED
    BY <2>2, <2>3
<1> QED
  BY <1>4, <1>5

LEMMA InitStore == Init => StoreInv
<1> SUFFICES ASSUME Init PROVE StoreInv
  OBVIOUS
<1>1. StoreTypes
  BY InitStoreTypes
<1>2. \A q \in Request : loc[q].row = None
  BY DEF Init, Blank
<1>3. row # None => row.born = "first" /\ row.hash = Hash(row.doc, row.rev) /\ row.rev = 1
                      /\ row.doc \in Doc
  BY DEF Init
<1>4. BornOnce /\ HashIsExact /\ ReadsAge
  BY <1>2, <1>3, RowFacts DEF BornOnce, HashIsExact, ReadsAge, SameRow
<1>5. RevisionIsSecrets /\ HashIdentifiesRuntime
  <2>1. CASE row = None
    BY <2>1 DEF Init, RevisionIsSecrets, HashIdentifiesRuntime
  <2>2. CASE row # None
    <3> DEFINE s == [hash |-> row.hash, runtime |-> Runtime]
    <3>1. served = {s}
      BY <2>2 DEF Init
    <3>2. s.hash = <<row.doc, 1>> /\ s.runtime = RuntimeOf(row.doc, bundle, passwords)
      BY <1>3, <2>2 DEF Runtime, RuntimeOf, Hash
    <3>3. s.hash \in Doc \X Nat /\ s.hash[2] = row.rev /\ s.hash[2] <= row.rev
          /\ s.runtime = RuntimeOf(s.hash[1], bundle, passwords)
      BY <1>3, <2>2, <3>2
    <3> QED
      BY <2>2, <3>1, <3>3 DEF RevisionIsSecrets, HashIdentifiesRuntime
  <2> QED
    BY <2>1, <2>2
<1>6. NoLeftoverPassword
  BY DEF Init, NoLeftoverPassword, Has
<1> QED
  BY <1>1, <1>4, <1>5, <1>6 DEF StoreInv

LEMMA NextStore == StoreInv /\ [Next]_vars => StoreInv'
<1> SUFFICES ASSUME StoreInv, [Next]_vars PROVE StoreInv'
  OBVIOUS
<1>1. StoreTypes'
  BY NextStoreTypes DEF StoreInv
<1>2. CASE UNCHANGED vars
  BY <1>1, <1>2 DEF vars, store, StoreInv, BornOnce, HashIsExact, ReadsAge, SameRow, Has,
    RevisionIsSecrets, RuntimeOf, HashIdentifiesRuntime, NoLeftoverPassword
<1>3. CASE Next
  <2>1. PICK r \in Request : Acts(r)
    BY <1>3 DEF Next, Acts
  <2>2. Turns(r) /\ BornOnce'
    BY <1>1, <2>1, ActsTurn, NextBorn DEF StoreInv
  <2>3. ASSUME ~overwritten'
        PROVE  /\ HashIsExact' /\ ReadsAge' /\ RevisionIsSecrets'
               /\ HashIdentifiesRuntime' /\ NoLeftoverPassword'
    <3>1. ~overwritten /\ Stands(r)
      BY <1>1, <2>1, <2>3, ActsStand
    <3>2. NoLeftoverPassword'
      BY <3>1 DEF Stands, Gone, Inserted, Followed, NoLeftoverPassword
    <3> QED
      BY <1>1, <2>2, <3>1, <3>2, NextHash, NextReads, NextServed
  <2> QED
    BY <1>1, <2>2, <2>3 DEF StoreInv
<1> QED
  BY <1>2, <1>3

\* The invariant holds for any requests at once on one name.
THEOREM StoreInvariant == Spec => []StoreInv
  BY InitStore, NextStore, PTL DEF Spec

\* Every variable keeps its type: a row is a document with its hash and revision,
\* whichever query of which request comes next.
THEOREM StoreTypeCorrect == Spec => []TypeOK
<1>1. StoreInv => TypeOK
  BY DEF StoreInv, StoreTypes
<1> QED
  BY <1>1, StoreInvariant, PTL

\* For any number of saves, credential changes, patches, rollbacks, deletions and
\* duplications, query by query: unless a save was overwritten, bridges that see
\* one hash run one document with one set of secrets (configs.ts:239-247).
THEOREM HashesIdentify == Spec => []HashIdentifiesRuntime
<1>1. StoreInv => HashIdentifiesRuntime
  BY DEF StoreInv, HashIdentifiesRuntime
<1> QED
  BY <1>1, StoreInvariant, PTL

\* A connection's password leaves with it, for any number of requests, unless a
\* save was overwritten (configs.ts:223, 256-258; config-changes.ts:280-282).
THEOREM PasswordsLeave == Spec => []NoLeftoverPassword
<1>1. StoreInv => NoLeftoverPassword
  BY DEF StoreInv, NoLeftoverPassword
<1> QED
  BY <1>1, StoreInvariant, PTL

\* A step from a complete configuration that overwrites nothing leads to one.
LEMMA NextComplete ==
  ASSUME StoreInv, StoreTypes', NEW r \in Request, Acts(r), Complete, row' # None, ~overwritten'
  PROVE  Complete'
<1>1. ~overwritten /\ row # None /\ row \in Row
  BY ActsStand DEF Complete, StoreInv, StoreTypes, TypeOK
<1>2. CASE PutCommits(r)
  <2>1. ~Moved(r) /\ loc[r].at = "save"
    BY <1>2 DEF PutCommits
  <2>2. loc[r].row # None /\ loc[r].has = Has
    BY <1>1, <2>1, Unmoved
  <2>3. PICK d \in Doc : \E set \in Changes(d.conns) :
          /\ Saveable(r, d, set)
          /\ Upsert(r, d, SecretRevision(r, d, set), IF loc[r].row = None THEN r ELSE loc[r].row.reg)
          /\ passwords' = [c \in Conn |->
               IF c \in DOMAIN set THEN set[c] ELSE Without(Stale(loc[r].has, d))[c]]
    BY <1>2 DEF PutCommits
  <2>4. PICK set \in Changes(d.conns) :
          /\ Saveable(r, d, set)
          /\ Upsert(r, d, SecretRevision(r, d, set), IF loc[r].row = None THEN r ELSE loc[r].row.reg)
          /\ passwords' = [c \in Conn |->
               IF c \in DOMAIN set THEN set[c] ELSE Without(Stale(loc[r].has, d))[c]]
    BY <2>3
  <2>5. d.conns # {} /\ d.conns \subseteq Final(r, d, set) /\ row'.doc = d
    BY <2>2, <2>4 DEF Saveable, Upsert
  <2>6. ASSUME NEW c \in d.conns
        PROVE  c \in Conn /\ passwords'[c] # None
    <3>1. c \in Conn /\ c \in Final(r, d, set)
      BY <2>5, RowFacts
    <3>2. CASE c \in DOMAIN set
      BY <2>4, <3>1, <3>2 DEF Final
    <3>3. CASE c \notin DOMAIN set
      <4>1. c \in Has /\ c \notin Stale(loc[r].has, d)
        BY <2>2, <3>1, <3>3 DEF Final
      <4>2. passwords'[c] = passwords[c]
        BY <2>4, <3>1, <3>3, <4>1 DEF Without
      <4> QED
        BY <3>1, <4>1, <4>2 DEF Has
    <3> QED
      BY <3>2, <3>3
  <2> QED
    BY <2>5, <2>6 DEF Complete, Has
<1>3. CASE CredentialsCommit(r)
  BY <1>1, <1>3 DEF CredentialsCommit, Complete, Has, Row
<1>4. CASE PatchCommits(r)
  <2>1. ~Moved(r) /\ loc[r].at = "commit"
    BY <1>4 DEF PatchCommits
  <2>2. loc[r].has = Has /\ loc[r].doc.conns # {} /\ loc[r].doc.conns \subseteq loc[r].has
    BY <1>1, <2>1, Unmoved DEF StoreInv, StoreTypes, Prepared
  <2>3. row'.doc = loc[r].doc
    BY <1>1, <1>4 DEF PatchCommits, Row
  <2>4. \A c \in loc[r].doc.conns : c \in Conn /\ passwords'[c] = passwords[c] /\ passwords[c] # None
    BY <1>4, <2>2 DEF PatchCommits, Without, Stale, Has
  <2> QED
    BY <2>2, <2>3, <2>4 DEF Complete, Has
<1>5. CASE DeleteCommits(r)
  BY <1>5 DEF DeleteCommits
<1>6. CASE DuplicateCommits(r)
  <2>1. loc[r].row = None /\ ~Moved(r)
    BY <1>6 DEF DuplicateCommits, StoreInv, StoreTypes, Prepared
  <2> QED
    BY <1>1, <2>1 DEF Moved
<1>7. CASE RotateCommits(r)
  BY <1>1, <1>7 DEF RotateCommits, Complete, Has, Row
<1>8. CASE UNCHANGED store
  BY <1>8 DEF Complete, Has, store
<1>9. CASE ~(PutCommits(r) \/ CredentialsCommit(r) \/ PatchCommits(r) \/ DeleteCommits(r)
             \/ DuplicateCommits(r) \/ RotateCommits(r))
  BY <1>8, <1>9 DEF Acts, PutReads, PutLists, CredentialsRead, BundleRead, PatchBegins, PatchReads,
      PatchLists, DeleteReads, DuplicateReads, RotateReads, Refused, Reads
<1> QED
  BY <1>2, <1>3, <1>4, <1>5, <1>6, <1>7, <1>9

\* The batch of a patch records what it replaces.
LEMMA NextHistory ==
  ASSUME StoreInv, NEW r \in Request, Acts(r), ~overwritten, NEW h \in history' \ history
  PROVE  row # None /\ row' # None /\ h.before = row.doc /\ h.after = row'.doc /\ row'.change = h.id
<1>1. PatchCommits(r)
  BY DEF Acts, PutReads, PutLists, PutCommits, CredentialsRead, BundleRead, CredentialsCommit,
    PatchBegins, PatchReads, PatchLists, DeleteReads, DeleteCommits, DuplicateReads,
    DuplicateCommits, RotateReads, RotateCommits, Refused, Reads, store
<1>2. /\ row # None /\ row \in Row /\ loc[r].row # None /\ loc[r].row \in Row /\ loc[r].doc \in Doc
      /\ row.hash = loc[r].row.hash
  BY <1>1 DEF PatchCommits, Current, StoreInv, StoreTypes, TypeOK, Prepared
<1>3. loc[r].row.doc = row.doc
  BY <1>2 DEF StoreInv, HashIsExact, Hash
<1>4. h = [id |-> r, before |-> loc[r].row.doc, after |-> loc[r].doc]
  BY <1>1 DEF PatchCommits
<1>5. PatchRevision(r) \in Nat /\ Hash(loc[r].doc, PatchRevision(r)) \in Doc \X Nat
  BY <1>2, RowFacts DEF PatchRevision, Hash
<1>6. row' \in Row /\ row'.doc = loc[r].doc /\ row'.change = r
  BY <1>1, <1>2, <1>5 DEF PatchCommits, Row
<1> QED
  BY <1>2, <1>3, <1>4, <1>6, RowFacts

\* Only a new draft lacks passwords: no save, patch or rollback makes a complete
\* configuration incomplete, whichever run at once (configs.ts:225-238).
THEOREM CompleteStays == Spec => CompleteStaysComplete
<1>1. StoreInv /\ [Next]_vars => [Complete /\ row' # None /\ ~overwritten' => Complete']_vars
  <2> SUFFICES ASSUME StoreInv, Next, Complete, row' # None, ~overwritten' PROVE Complete'
    OBVIOUS
  <2>1. PICK r \in Request : Acts(r)
    BY DEF Next, Acts
  <2> QED
    BY <2>1, NextStoreTypes, NextComplete DEF StoreInv
<1> QED
  BY <1>1, StoreInvariant, PTL DEF Spec, CompleteStaysComplete

\* A patch or a rollback replaces the document it says it replaces, whichever
\* requests come between its queries (config-changes.ts:263-305).
THEOREM HistoryExact == Spec => HistoryIsExact
<1>1. StoreInv /\ [Next]_vars =>
        [\A h \in history' \ history : ~overwritten =>
          /\ row # None /\ row' # None
          /\ h.before = row.doc /\ h.after = row'.doc /\ row'.change = h.id]_vars
  <2> SUFFICES ASSUME StoreInv, Next, NEW h \in history' \ history, ~overwritten
               PROVE  row # None /\ row' # None
                      /\ h.before = row.doc /\ h.after = row'.doc /\ row'.change = h.id
    OBVIOUS
  <2>1. PICK r \in Request : Acts(r)
    BY DEF Next, Acts
  <2> QED
    BY <2>1, NextHistory
<1> QED
  BY <1>1, StoreInvariant, PTL DEF Spec, HistoryIsExact
=============================================================================
