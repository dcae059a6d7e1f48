-------------------------- MODULE HotReloadProofs ---------------------------
(***************************************************************************)
(* Proofs about what a running phone is told and what it tells: HotReload  *)
(* (the notices and the reload) and StatusFeed (the status of the          *)
(* connections, to every open stream), for every set of revisions,         *)
(* connections and streams and any number of saves, failures and notices.  *)
(*                                                                         *)
(* HotReload: its types; that what is installed between two reloads is one *)
(* bundle that the broker has given out, the one the manager believes in;  *)
(* and that no reload outlives Stop. The invariant says what the holder of *)
(* hashMu has installed so far, and that a trigger that is gone is idle.   *)
(*                                                                         *)
(* StatusFeed: its types, and that a stream with nothing under way shows   *)
(* what is current, where no report has been dropped or queued behind a    *)
(* newer one. The invariant says where the newest message about a          *)
(* connection is as long as the stream does not show it.                   *)
(***************************************************************************)
EXTENDS HotReload, StatusFeed, FiniteSetTheorems, TLAPS

-----------------------------------------------------------------------------
(* The reload.                                                             *)

\* A notice under way belongs to one save.
Counted == TypeOK /\ notices <= saves

LEMMA InitCounted == Init => Counted
<1> SUFFICES ASSUME Init PROVE Counted
  OBVIOUS
<1>1. 0 \in 0..MaxSaves /\ 0 \in 0..MaxInbox /\ 0 \in 0..MaxFaults
  BY ReloadAssumption
<1>2. pc \in [Trigger -> {"idle", "lock", "fetch", "load", "passwords", "bundle", "tts", "sip"}]
  BY DEF Init
<1>3. gone \subseteq Trigger
  BY DEF Init, Trigger
<1>4. {saved, hash} \subseteq Revision /\ {runtime, tts, credentials, sip} \subseteq Bundle
  BY ReloadAssumption DEF Init, First, Whole, Revision, Bundle, Secrets
<1>5. /\ mu \in Trigger \cup {Nobody} /\ missed \subseteq Revision
      /\ link \in {"down", "up"} /\ signal \in BOOLEAN
      /\ life \in {"running", "stopping", "stopped"}
  BY DEF Init
<1>6. saves = 0 /\ notices = 0 /\ inbox = 0 /\ faults = 0
  BY DEF Init
<1> QED
  BY <1>1, <1>2, <1>3, <1>4, <1>5, <1>6 DEF Counted, TypeOK

LEMMA FaultTypes == Fault /\ faults \in 0..MaxFaults => faults' \in 0..MaxFaults
  BY ReloadAssumption DEF Fault

LEMMA NextCounted == Counted /\ [Next]_vars => Counted'
<1> SUFFICES ASSUME Counted, [Next]_vars PROVE Counted'
  OBVIOUS
<1> USE ReloadAssumption DEF Counted, TypeOK, plane, wire, engine, history, Trigger, Nobody
<1>1. CASE Save
  BY <1>1 DEF Save
<1>2. CASE Notify
  BY <1>2 DEF Notify
<1>3. CASE NotifyFails
  BY <1>3, FaultTypes DEF NotifyFails
<1>4. CASE Connect
  BY <1>4 DEF Connect
<1>5. CASE Disconnect
  BY <1>5, FaultTypes DEF Disconnect
<1>6. CASE ReadNotice
  BY <1>6 DEF ReadNotice, Calls
<1>7. CASE Tick
  BY <1>7 DEF Tick, Calls
<1>8. CASE Signal
  BY <1>8 DEF Signal
<1>9. CASE TakeSignal
  BY <1>9 DEF TakeSignal, Calls
<1>10. ASSUME NEW t \in Trigger, Lock(t) PROVE Counted'
  BY <1>10 DEF Lock
<1>11. ASSUME NEW t \in Trigger, ReloadFails(t) PROVE Counted'
  BY <1>11, FaultTypes DEF ReloadFails, Returns
<1>12. ASSUME NEW t \in Trigger, Exits(t) PROVE Counted'
  BY <1>12 DEF Exits
<1>13. ASSUME NEW t \in Trigger, FetchHash(t) PROVE Counted'
  BY <1>13 DEF FetchHash, Returns
<1>14. ASSUME NEW t \in Trigger, LoadDocument(t) \/ LoadPasswords(t) \/ LoadCredentials(t)
       PROVE Counted'
  <2>1. saved.secrets \in Secrets
    BY DEF Revision
  <2>2. runtime' \in Bundle
    BY <1>14, <2>1 DEF LoadDocument, LoadPasswords, LoadCredentials, Bundle, Whole, Revision
  <2>3. /\ pc' \in [Trigger -> {"idle", "lock", "fetch", "load", "passwords", "bundle", "tts", "sip"}]
        /\ UNCHANGED <<plane, wire, mu, engine, signal, gone, life, history>>
    BY <1>14 DEF LoadDocument, LoadPasswords, LoadCredentials
  <2> QED
    BY <2>2, <2>3
<1>15. ASSUME NEW t \in Trigger, InstallServices(t) PROVE Counted'
  BY <1>15 DEF InstallServices
<1>16. ASSUME NEW t \in Trigger, ApplySIP(t) PROVE Counted'
  <2>1. runtime.hash \in Revision
    BY DEF Bundle
  <2> QED
    BY <1>16, <2>1 DEF ApplySIP, Returns
<1>17. CASE StopBegins \/ StopReturns
  <2>1. gone' \subseteq Trigger /\ life' \in {"running", "stopping", "stopped"}
    BY <1>17 DEF StopBegins, StopReturns
  <2>2. inbox' \in 0..MaxInbox /\ link' \in {"down", "up"}
    BY <1>17 DEF StopBegins, StopReturns
  <2>3. UNCHANGED <<plane, pc, mu, runtime, engine, signal, history>>
    BY <1>17 DEF StopBegins, StopReturns
  <2> QED
    BY <2>1, <2>2, <2>3
<1>18. CASE UNCHANGED vars
  BY <1>18 DEF vars
<1> QED
  BY <1>1, <1>2, <1>3, <1>4, <1>5, <1>6, <1>7, <1>8, <1>9, <1>10, <1>11, <1>12, <1>13,
    <1>14, <1>15, <1>16, <1>17, <1>18 DEF Next, Reload

\* Every variable keeps its type; in particular the buffer of notices and the
\* counters stay within their bounds.
THEOREM TypeCorrect == Spec => []TypeOK
<1>1. Counted => TypeOK
  BY DEF Counted
<1> QED
  BY <1>1, InitCounted, NextCounted, PTL DEF Spec

-----------------------------------------------------------------------------
(* The inductive invariant.                                                *)

\* hashMu is held exactly by the trigger that is past Lock.
HolderIsInside == \A t \in Trigger : mu = t <=> pc[t] \notin {"idle", "lock"}

\* A bundle's secrets are not older than its document, nor newer than the newest.
Sound(b) ==
  /\ b.hash.secrets <= b.passwords /\ b.passwords <= b.credentials
  /\ b.credentials <= saved.secrets

\* The flow is of the revision the manager believes in, and of a sound bundle.
FlowIsHash == sip.hash = hash /\ Sound(sip)

\* All that is installed comes from that bundle.
Together == tts = sip /\ credentials = sip

\* What a reload has read and installed when it is about to take the step pc[t].
HalfInstalled ==
  \A t \in Trigger :
    /\ pc[t] \in {"fetch", "load", "passwords", "bundle", "tts"} => Together
    /\ pc[t] = "passwords" => runtime.hash.secrets <= saved.secrets
    /\ pc[t] = "bundle" =>
         runtime.hash.secrets <= runtime.passwords /\ runtime.passwords <= saved.secrets
    /\ pc[t] \in {"tts", "sip"} => Sound(runtime)
    /\ pc[t] = "sip" => tts = runtime /\ credentials = runtime

\* A trigger that is gone is between two reloads, and Stop waits for all.
GoneIsIdle ==
  /\ \A t \in gone : pc[t] = "idle"
  /\ life = "stopped" => gone = Trigger

Installed == FlowIsHash /\ (mu = Nobody => Together) /\ HalfInstalled

IInv == Counted /\ HolderIsInside /\ Installed /\ GoneIsIdle

LEMMA NextHolderIsInside == IInv /\ [Next]_vars => HolderIsInside'
<1> SUFFICES ASSUME TypeOK, HolderIsInside, [Next]_vars PROVE HolderIsInside'
  BY DEF IInv, Counted
<1> USE DEF TypeOK, HolderIsInside, Trigger, Nobody, Calls, Returns
<1>1. CASE ReadNotice \/ Tick \/ TakeSignal
  BY <1>1 DEF ReadNotice, Tick, TakeSignal
<1>2. ASSUME NEW t \in Trigger, Lock(t) PROVE HolderIsInside'
  BY <1>2 DEF Lock
<1>3. ASSUME NEW t \in Trigger, ReloadFails(t) \/ FetchHash(t) \/ ApplySIP(t) PROVE HolderIsInside'
  BY <1>3 DEF ReloadFails, FetchHash, ApplySIP
<1>4. ASSUME NEW t \in Trigger,
             LoadDocument(t) \/ LoadPasswords(t) \/ LoadCredentials(t) \/ InstallServices(t)
      PROVE HolderIsInside'
  BY <1>4 DEF LoadDocument, LoadPasswords, LoadCredentials, InstallServices
<1>5. CASE UNCHANGED <<pc, mu>>
  BY <1>5
<1> QED
  BY <1>1, <1>2, <1>3, <1>4, <1>5 DEF Next, Reload, vars, Save, Notify, NotifyFails, Connect,
    Disconnect, Signal, Exits, StopBegins, StopReturns

LEMMA NextGoneIsIdle == IInv /\ [Next]_vars => GoneIsIdle'
<1> SUFFICES ASSUME TypeOK, GoneIsIdle, [Next]_vars PROVE GoneIsIdle'
  BY DEF IInv, Counted
<1> USE DEF TypeOK, GoneIsIdle, Trigger, Calls, Returns
<1>1. CASE ReadNotice \/ Tick \/ TakeSignal
  BY <1>1 DEF ReadNotice, Tick, TakeSignal
<1>2. ASSUME NEW t \in Trigger, Lock(t) \/ Reload(t) \/ ReloadFails(t) PROVE GoneIsIdle'
  <2>1. /\ pc[t] # "idle" /\ UNCHANGED <<gone, life>>
        /\ \A s \in Trigger \ {t} : pc'[s] = pc[s]
    BY <1>2 DEF Lock, Reload, ReloadFails, FetchHash, LoadDocument,
      LoadPasswords, LoadCredentials, InstallServices, ApplySIP
  <2> QED
    BY <2>1
<1>3. ASSUME NEW t \in Trigger, Exits(t) PROVE GoneIsIdle'
  BY <1>3 DEF Exits
<1>4. CASE StopBegins \/ StopReturns
  BY <1>4 DEF StopBegins, StopReturns
<1>5. CASE UNCHANGED <<pc, gone, life>>
  BY <1>5
<1> QED
  BY <1>1, <1>2, <1>3, <1>4, <1>5 DEF Next, vars, Save, Notify, NotifyFails, Connect, Disconnect, Signal

\* A save leaves the older secrets behind, and nothing else reads or writes them.
LEMMA SecretsGrow == TypeOK /\ [Next]_vars => saved.secrets <= saved'.secrets
<1> SUFFICES ASSUME TypeOK, [Next]_vars PROVE saved.secrets <= saved'.secrets
  OBVIOUS
<1>1. saved.secrets \in Nat
  BY ReloadAssumption DEF TypeOK, Revision, Secrets
<1>2. CASE Save
  BY <1>1, <1>2 DEF Save
<1>3. CASE saved' = saved
  BY <1>1, <1>3
<1> QED
  BY <1>2, <1>3 DEF Next, Reload, vars, plane, Notify, NotifyFails, Connect, Disconnect,
    ReadNotice, Tick, Signal, TakeSignal, Lock, ReloadFails, FetchHash, LoadDocument,
    LoadPasswords, LoadCredentials, InstallServices, ApplySIP, Exits, StopBegins, StopReturns

\* What a bundle names are numbers.
LEMMA Numbers ==
  ASSUME TypeOK
  PROVE  /\ saved.secrets \in Nat
         /\ \A b \in {runtime, sip} :
              b.hash.secrets \in Nat /\ b.passwords \in Nat /\ b.credentials \in Nat
<1>1. Secrets \subseteq Nat
  BY ReloadAssumption DEF Secrets
<1> QED
  BY <1>1 DEF TypeOK, Revision, Bundle

LEMMA NextInstalled == IInv /\ [Next]_vars => Installed'
<1> SUFFICES ASSUME Counted, TypeOK, HolderIsInside, Installed, GoneIsIdle, [Next]_vars
             PROVE  Installed'
  BY DEF IInv, Counted
<1>a. saved.secrets <= saved'.secrets
  BY SecretsGrow
<1>c. saved'.secrets \in Nat
  <2>1. Counted'
    BY NextCounted
  <2> QED
    BY <2>1, ReloadAssumption DEF Counted, TypeOK, Revision, Secrets
<1>b. /\ saved.secrets \in Nat /\ saved'.secrets \in Nat
      /\ \A b \in {runtime, sip} :
           b.hash.secrets \in Nat /\ b.passwords \in Nat /\ b.credentials \in Nat
  BY Numbers, <1>c
<1>0. ASSUME sip' = sip, hash' = hash PROVE FlowIsHash'
  BY <1>0, <1>a, <1>b DEF FlowIsHash, Sound, Installed
<1>1. CASE UNCHANGED <<mu, runtime, engine>>
           /\ \A t \in Trigger : pc'[t] # pc[t] => pc'[t] \notin {"passwords", "bundle", "tts", "sip"}
           /\ \A s \in Trigger : pc'[s] # pc[s] => pc'[s] \in {"idle", "lock"}
  <2>1. FlowIsHash'
    BY <1>1, <1>0 DEF engine
  <2>2. (mu = Nobody => Together)'
    BY <1>1 DEF engine, Installed, Together
  <2>3. HalfInstalled'
    BY <1>1, <1>a, <1>b DEF engine, Installed, HalfInstalled, Together, Sound
  <2> QED
    BY <2>1, <2>2, <2>3 DEF Installed
<1>2. CASE ReadNotice \/ Tick \/ TakeSignal
  BY <1>1, <1>2 DEF ReadNotice, Tick, TakeSignal, Calls, Trigger, TypeOK
<1> USE DEF Trigger, Nobody, TypeOK
<1>3. ASSUME NEW t \in Trigger,
             Lock(t) \/ ReloadFails(t) \/ FetchHash(t) \/ LoadDocument(t) \/ LoadPasswords(t)
             \/ LoadCredentials(t) \/ InstallServices(t)
      PROVE Installed'
  <2> USE DEF Lock, ReloadFails, FetchHash, LoadDocument, LoadPasswords, LoadCredentials,
        InstallServices, Returns
  <2>1. sip' = sip /\ hash' = hash /\ saved' = saved
    BY <1>3 DEF engine, plane
  <2>2. \A s \in Trigger \ {t} : pc'[s] = pc[s] /\ pc[s] \in {"idle", "lock"}
    BY <1>3 DEF HolderIsInside
  <2>3. pc[t] = "lock" => mu = Nobody
    BY <1>3
  <2>4. pc[t] # "lock" => mu = t
    BY <1>3 DEF HolderIsInside
  <2>5. mu' = Nobody => Together'
    BY <1>3, <2>1, <2>3, <2>4 DEF engine, Installed, HalfInstalled, Together
  <2>6. /\ pc'[t] \in {"fetch", "load", "passwords", "bundle", "tts"} => Together'
        /\ pc'[t] = "sip" => tts' = runtime' /\ credentials' = runtime'
    BY <1>3, <2>1, <2>3 DEF engine, Installed, HalfInstalled, Together
  <2>7. /\ pc'[t] = "passwords" => runtime'.hash.secrets <= saved'.secrets
        /\ pc'[t] = "bundle" =>
             runtime'.hash.secrets <= runtime'.passwords /\ runtime'.passwords <= saved'.secrets
        /\ pc'[t] \in {"tts", "sip"} => Sound(runtime)'
    <3>1. CASE LoadDocument(t)
      BY <3>1, <2>1, <1>b DEF Whole
    <3>2. CASE LoadPasswords(t)
      BY <3>2, <2>1, <1>b DEF Installed, HalfInstalled, Bundle
    <3>3. CASE LoadCredentials(t)
      BY <3>3, <2>1, <1>b DEF Installed, HalfInstalled, Sound, Bundle
    <3>4. CASE InstallServices(t)
      BY <3>4, <2>1 DEF Installed, HalfInstalled, Sound
    <3>5. CASE Lock(t) \/ ReloadFails(t) \/ FetchHash(t)
      BY <3>5
    <3> QED
      BY <1>3, <3>1, <3>2, <3>3, <3>4, <3>5
  <2>8. HalfInstalled'
    BY <2>2, <2>6, <2>7 DEF HalfInstalled
  <2> QED
    BY <1>0, <2>1, <2>5, <2>8 DEF Installed
<1>4. ASSUME NEW t \in Trigger, ApplySIP(t) PROVE Installed'
  <2>1. life # "stopped"
    BY <1>4 DEF ApplySIP, GoneIsIdle
  <2>2. sip' = runtime /\ hash' = runtime.hash /\ saved' = saved
    BY <1>4, <2>1 DEF ApplySIP, plane
  <2>3. FlowIsHash'
    BY <1>4, <2>2 DEF ApplySIP, FlowIsHash, Installed, HalfInstalled, Sound
  <2>4. Together'
    BY <1>4, <2>2 DEF ApplySIP, Together, Installed, HalfInstalled
  <2>5. \A s \in Trigger : pc'[s] \in {"idle", "lock"}
    BY <1>4 DEF ApplySIP, Returns, HolderIsInside
  <2> QED
    BY <2>3, <2>4, <2>5 DEF Installed, HalfInstalled
<1>5. CASE UNCHANGED <<pc, mu, runtime, engine>>
  BY <1>1, <1>5
<1> QED
  BY <1>2, <1>3, <1>4, <1>5 DEF Next, Reload, vars, Save, Notify,
    NotifyFails, Connect, Disconnect, Signal, Exits, StopBegins, StopReturns

\* The invariant: only the holder of hashMu is inside a reload, what it has read so
\* far is not older than the document it read first, and what it has installed is what
\* it has read.
THEOREM Invariance == Spec => []IInv
<1>1. Init => IInv
  BY InitCounted DEF IInv, Init, HolderIsInside, Installed, FlowIsHash, Together, Sound,
    HalfInstalled, GoneIsIdle, Trigger, Nobody, First, Whole
<1>2. IInv /\ [Next]_vars => IInv'
  BY NextCounted, NextHolderIsInside, NextInstalled, NextGoneIsIdle DEF IInv
<1> QED
  BY <1>1, <1>2, PTL DEF Spec

-----------------------------------------------------------------------------
(* The properties.                                                         *)

\* When the manager believes in the newest revision, the flow is whole.
LEMMA NewestIsWhole ==
  ASSUME TypeOK, FlowIsHash, hash = saved
  PROVE  sip = Whole(saved)
<1>1. sip.hash = saved /\ sip.passwords = saved.secrets /\ sip.credentials = saved.secrets
  BY Numbers DEF FlowIsHash, Sound
<1>2. sip = [hash |-> sip.hash, passwords |-> sip.passwords, credentials |-> sip.credentials]
  BY DEF TypeOK, Bundle
<1> QED
  BY <1>1, <1>2 DEF Whole

\* For any number of saves and failures, also between the broker's queries and in
\* the middle of a reload, the flow, the credentials and the voices between two
\* reloads come from one bundle with the manager's document, and with its secrets
\* unless a newer hash is waiting to be fetched.
THEOREM OneBundle == Spec => []InstalledTogether
<1>1. IInv => InstalledTogether
  <2> SUFFICES ASSUME IInv, mu = Nobody
               PROVE  /\ tts = sip /\ credentials = sip /\ sip.hash = hash
                      /\ hash.secrets <= sip.passwords /\ sip.passwords <= sip.credentials
                      /\ hash = saved => sip = Whole(saved)
    BY DEF InstalledTogether
  <2>1. TypeOK /\ FlowIsHash /\ Together
    BY DEF IInv, Counted, Installed
  <2> QED
    BY <2>1, NewestIsWhole DEF FlowIsHash, Sound, Together
<1> QED
  BY <1>1, Invariance, PTL

\* A reload has read the document of a bundle and is about to install it.
Installing(t) == pc[t] \in {"passwords", "bundle", "tts", "sip"}

\* A notice, or what it has set off, will still bring the newest revision.
OnItsWay ==
  \/ notices > 0 \/ inbox > 0 \/ pc["ws"] \in {"lock", "fetch", "load"}
  \/ \E t \in Trigger : Installing(t) /\ runtime.hash = saved

\* What is installed, or is just being installed, is out of date only while a
\* notice comes, unless one of the newest revision was lost.
NoticeUnderWay ==
  /\ life = "running" /\ saved \notin missed
  /\ hash # saved \/ \E t \in Trigger : Installing(t) /\ runtime.hash # saved
  => OnItsWay

LEMMA NextNotice == IInv /\ NoticeUnderWay /\ [Next]_vars => NoticeUnderWay'
<1> SUFFICES ASSUME TypeOK, HolderIsInside, NoticeUnderWay, [Next]_vars PROVE NoticeUnderWay'
  BY DEF IInv, Counted
<1> USE DEF TypeOK, HolderIsInside, NoticeUnderWay, OnItsWay, Installing, Trigger, Nobody,
  plane, wire, engine, history, Calls, Returns
<1>1. CASE Save
  BY <1>1 DEF Save
<1>2. CASE Notify \/ NotifyFails
  BY <1>2 DEF Notify, NotifyFails
<1>3. CASE Disconnect
  BY <1>3 DEF Disconnect
<1>4. CASE ReadNotice \/ Tick \/ TakeSignal
  BY <1>4 DEF ReadNotice, Tick, TakeSignal
<1>5. ASSUME NEW t \in Trigger, Lock(t) PROVE NoticeUnderWay'
  BY <1>5 DEF Lock
<1>6. ASSUME NEW t \in Trigger, ReloadFails(t) PROVE NoticeUnderWay'
  BY <1>6 DEF ReloadFails
<1>7. ASSUME NEW t \in Trigger, FetchHash(t) PROVE NoticeUnderWay'
  BY <1>7 DEF FetchHash
<1>8. ASSUME NEW t \in Trigger, LoadDocument(t) PROVE NoticeUnderWay'
  BY <1>8 DEF LoadDocument, Whole
<1>9. ASSUME NEW t \in Trigger, LoadPasswords(t) \/ LoadCredentials(t) \/ InstallServices(t)
      PROVE NoticeUnderWay'
  <2>1. runtime'.hash = runtime.hash
    BY <1>9 DEF LoadPasswords, LoadCredentials, InstallServices, Bundle
  <2> QED
    BY <1>9, <2>1 DEF LoadPasswords, LoadCredentials, InstallServices
<1>10. ASSUME NEW t \in Trigger, ApplySIP(t) PROVE NoticeUnderWay'
  BY <1>10 DEF ApplySIP
<1>11. CASE StopBegins \/ StopReturns
  BY <1>11 DEF StopBegins, StopReturns
<1>12. CASE UNCHANGED <<plane, inbox, pc, runtime, hash, life, missed>>
  BY <1>12
<1> QED
  BY <1>1, <1>2, <1>3, <1>4, <1>5, <1>6, <1>7, <1>8, <1>9, <1>10, <1>11, <1>12 DEF Next, Reload,
    vars, Connect, Signal, Exits

\* The bridge has caught up when nothing is on its way.
CaughtUp ==
  /\ life = "running" /\ saved \notin missed
  /\ notices = 0 /\ inbox = 0 /\ mu = Nobody /\ pc["ws"] = "idle"
  => sip = Whole(saved) /\ tts = Whole(saved) /\ credentials = Whole(saved)

\* No notice is absorbed, neither by a reload it comes in the middle of nor by one
\* of another trigger: without polling, whenever no notice and no reload is under
\* way, the bridge runs what was saved last, unless that notice was lost or a reload
\* failed since (hotreload.go:164-197, remote_ws.go:147-173).
THEOREM NoNoticeAbsorbed == Spec => []CaughtUp
<1>1. Init => NoticeUnderWay
  BY DEF Init, NoticeUnderWay, Installing, Trigger
<1>2. IInv /\ NoticeUnderWay => CaughtUp
  <2> SUFFICES ASSUME IInv, NoticeUnderWay PROVE CaughtUp
    OBVIOUS
  <2>1. mu = Nobody => Together
    BY DEF IInv, Installed
  <2>2. mu = Nobody => \A t \in Trigger : ~Installing(t)
    BY DEF IInv, HolderIsInside, Installing, Trigger, Nobody
  <2>3. hash = saved => sip = Whole(saved)
    BY NewestIsWhole DEF IInv, Counted, Installed
  <2> QED
    BY <2>1, <2>2, <2>3 DEF CaughtUp, NoticeUnderWay, OnItsWay, Together, Trigger
<1> QED
  BY <1>1, <1>2, NextNotice, Invariance, PTL DEF Spec

\* No reload is under way once the supervisor is stopped.
THEOREM StopIsLast == Spec => []NoReloadAfterStop
<1>1. IInv => NoReloadAfterStop
  BY DEF IInv, Counted, GoneIsIdle, HolderIsInside, NoReloadAfterStop, TypeOK, Trigger, Nobody
<1> QED
  BY <1>1, Invariance, PTL
-----------------------------------------------------------------------------
(* The status feed.                                                        *)

Message == Event \cup {Hello}

\* Sequence s has a message about c; the last one says x.
Holds(s, c) == \E i \in DOMAIN s : s[i].conn = c
NewestIs(s, c, x) ==
  \E i \in DOMAIN s : /\ s[i].conn = c /\ s[i].state = x
                      /\ \A j \in DOMAIN s : j > i => s[j].conn # c

\* A report has the number it was made with, and the newest the state of now.
Numbered ==
  \A r \in reporting :
    /\ r.number <= reports[r.conn]
    /\ Newest(r) => r.state = current[r.conn]

FeedTypes == FeedTypeOK /\ Numbered

\* The last message about c on its way to the broker, in the order in which it
\* will read them, brings the state of now; with none on its way it has it.
UnderWay(c) ==
  /\ Holds(queue, c) => NewestIs(queue, c, current[c])
  /\ uplink = "up" /\ ~Holds(queue, c) =>
       /\ Holds(greeting, c) => NewestIs(greeting, c, current[c])
       /\ ~Holds(greeting, c) =>
            /\ Holds(sent, c) => NewestIs(sent, c, current[c])
            /\ ~Holds(sent, c) => Stored(c) \/ log[c].old

\* All of it, about every connection whose newest report has been queued in its turn.
FeedInv ==
  /\ FeedTypes
  /\ \A c \in Conn \ (behind \cup Pending) : current[c] # None => UnderWay(c)

LEMMA Appended ==
  ASSUME NEW M, NEW s \in Seq(M), NEW m \in M, NEW c, NEW x
  PROVE  /\ Holds(Append(s, m), c) <=> Holds(s, c) \/ m.conn = c
         /\ m.conn = c /\ m.state = x => NewestIs(Append(s, m), c, x)
         /\ m.conn # c /\ NewestIs(s, c, x) => NewestIs(Append(s, m), c, x)
<1> DEFINE t == Append(s, m)
<1>1. /\ Len(t) = Len(s) + 1 /\ DOMAIN t = 1..Len(t) /\ DOMAIN s = 1..Len(s) /\ Len(s) \in Nat
      /\ t[Len(t)] = m /\ \A i \in DOMAIN s : t[i] = s[i]
  OBVIOUS
<1> HIDE DEF t
<1>2. Holds(t, c) <=> Holds(s, c) \/ m.conn = c
  BY <1>1 DEF Holds
<1>3. m.conn = c /\ m.state = x => NewestIs(t, c, x)
  BY <1>1 DEF NewestIs
<1>4. ASSUME m.conn # c, NewestIs(s, c, x) PROVE NewestIs(t, c, x)
  <2>1. PICK i \in DOMAIN s : s[i].conn = c /\ s[i].state = x
                              /\ \A j \in DOMAIN s : j > i => s[j].conn # c
    BY <1>4 DEF NewestIs
  <2>2. ASSUME NEW j \in DOMAIN t, j > i PROVE t[j].conn # c
    BY <1>1, <1>4, <2>1, <2>2
  <2>3. i \in DOMAIN t /\ t[i].conn = c /\ t[i].state = x
    BY <1>1, <2>1
  <2> QED
    BY <2>2, <2>3 DEF NewestIs
<1> QED
  BY <1>2, <1>3, <1>4 DEF t

LEMMA PassedOn ==
  ASSUME NEW M, NEW s \in Seq(M), s # <<>>, NEW c, NEW x
  PROVE  /\ Head(s) \in M /\ Tail(s) \in Seq(M) /\ Len(Tail(s)) <= Len(s)
         /\ Holds(s, c) <=> Holds(Tail(s), c) \/ Head(s).conn = c
         /\ Holds(Tail(s), c) /\ NewestIs(s, c, x) => NewestIs(Tail(s), c, x)
         /\ ~Holds(Tail(s), c) /\ NewestIs(s, c, x) => Head(s).conn = c /\ Head(s).state = x
<1> DEFINE t == Tail(s)
<1>1. /\ Len(s) \in Nat /\ Len(s) > 0 /\ Len(t) = Len(s) - 1 /\ t \in Seq(M)
      /\ DOMAIN s = 1..Len(s) /\ DOMAIN t = 1..Len(t) /\ Head(s) = s[1] /\ Head(s) \in M
      /\ \A i \in DOMAIN t : t[i] = s[i + 1]
  OBVIOUS
<1> HIDE DEF t
<1>2. \A i \in DOMAIN s : i = 1 \/ (i - 1 \in DOMAIN t /\ t[i - 1] = s[i])
  BY <1>1
<1>3. \A i \in DOMAIN t : i + 1 \in DOMAIN s /\ t[i] = s[i + 1]
  BY <1>1
<1>4. 1 \in DOMAIN s /\ Head(s) = s[1]
  BY <1>1
<1>5. Holds(s, c) <=> Holds(t, c) \/ Head(s).conn = c
  BY <1>2, <1>3, <1>4 DEF Holds
<1>6. ASSUME NewestIs(s, c, x)
      PROVE  /\ Holds(t, c) => NewestIs(t, c, x)
             /\ ~Holds(t, c) => Head(s).conn = c /\ Head(s).state = x
  <2>1. PICK i \in DOMAIN s : s[i].conn = c /\ s[i].state = x
                              /\ \A j \in DOMAIN s : j > i => s[j].conn # c
    BY <1>6 DEF NewestIs
  <2>2. CASE i = 1
    <3>1. \A j \in DOMAIN t : j + 1 > i
      BY <1>1, <2>2
    <3>2. ~Holds(t, c)
      BY <1>3, <2>1, <3>1 DEF Holds
    <3> QED
      BY <1>4, <2>1, <2>2, <3>2
  <2>3. CASE i # 1
    <3>1. i - 1 \in DOMAIN t /\ t[i - 1] = s[i]
      BY <1>2, <2>3
    <3>2. ASSUME NEW j \in DOMAIN t, j > i - 1 PROVE t[j].conn # c
      <4>1. j + 1 > i /\ j + 1 \in DOMAIN s
        BY <1>1, <3>2
      <4> QED
        BY <1>3, <2>1, <4>1
    <3> QED
      BY <2>1, <3>1, <3>2 DEF NewestIs, Holds
  <2> QED
    BY <2>2, <2>3
<1> QED
  BY <1>1, <1>5, <1>6 DEF t

LEMMA OrderLists ==
  ASSUME NEW S, IsFiniteSet(S)
  PROVE  /\ Cardinality(S) \in Nat
         /\ SetToSeq(S) \in [1..Cardinality(S) -> S]
         /\ \A x \in S : \E i \in 1..Cardinality(S) : SetToSeq(S)[i] = x
         /\ \A i, j \in 1..Cardinality(S) : SetToSeq(S)[i] = SetToSeq(S)[j] => i = j
<1> DEFINE n == Cardinality(S)
<1>1. n \in Nat /\ ExistsBijection(1..n, S)
  BY FS_CardinalityType
<1>2. \E f \in [1..n -> S] : IsInjective(f)
  BY <1>1 DEF ExistsBijection, Bijection, Injection
<1>3. SetToSeq(S) \in [1..n -> S] /\ IsInjective(SetToSeq(S))
  BY <1>2 DEF SetToSeq
<1>4. SetToSeq(S) \in Injection(1..n, S)
  BY <1>3 DEF Injection
<1>5. IsFiniteSet(1..n) /\ Cardinality(1..n) = n
  BY <1>1, FS_Interval
<1>6. SetToSeq(S) \in Surjection(1..n, S)
  BY <1>4, <1>5, FS_Injection
<1> QED
  BY <1>1, <1>3, <1>6 DEF Surjection, IsInjective

\* A greeting tells the state of every connection.
LEMMA Greeting ==
  ASSUME FeedTypes
  PROVE  /\ InitialMessages \in Seq(Message)
         /\ \A c \in Conn : current[c] # None => NewestIs(InitialMessages, c, current[c])
                                                 /\ Holds(InitialMessages, c)
<1> DEFINE S == {d \in Conn : current[d] # None}
           n == Cardinality(S)
           f == SetToSeq(S)
           g == [i \in 1..n |-> [conn |-> f[i], state |-> current[f[i]]]]
<1>1. IsFiniteSet(S)
  BY StatusFeedAssumption, FS_Subset
<1>2. /\ n \in Nat /\ f \in [1..n -> S]
      /\ \A x \in S : \E i \in 1..n : f[i] = x
      /\ \A i, j \in 1..n : f[i] = f[j] => i = j
  BY <1>1, OrderLists
<1>3. InitialMessages = <<Hello>> \o g
  BY DEF InitialMessages
<1> HIDE DEF S, n, f
<1>4. \A d \in S : d \in Conn /\ current[d] \in State
  BY DEF S, FeedTypes, FeedTypeOK
<1>5. \A i \in 1..n : g[i] \in Event /\ g[i].conn = f[i] /\ g[i].state = current[f[i]]
  BY <1>2, <1>4 DEF Event
<1>6. g \in Seq(Message) /\ Len(g) = n
  BY <1>2, <1>5 DEF Message
<1>7. /\ InitialMessages \in Seq(Message) /\ Len(InitialMessages) = n + 1
      /\ \A i \in 1..n : InitialMessages[i + 1] = g[i]
  BY <1>2, <1>3, <1>6 DEF Message
<1>8. ASSUME NEW c \in Conn, current[c] # None
      PROVE  NewestIs(InitialMessages, c, current[c]) /\ Holds(InitialMessages, c)
  <2>1. c \in S
    BY <1>8 DEF S
  <2>2. PICK i \in 1..n : f[i] = c
    BY <1>2, <2>1
  <2>3. /\ i + 1 \in DOMAIN InitialMessages /\ InitialMessages[i + 1].conn = c
        /\ InitialMessages[i + 1].state = current[c]
    <3>1. InitialMessages[i + 1] = g[i]
      BY <1>7
    <3>2. g[i].conn = c /\ g[i].state = current[c]
      BY <1>5, <2>2
    <3>3. i + 1 \in DOMAIN InitialMessages
      BY <1>2, <1>7
    <3> HIDE DEF g
    <3> QED
      BY <3>1, <3>2, <3>3
  <2>4. ASSUME NEW j \in DOMAIN InitialMessages, j > i + 1
        PROVE  InitialMessages[j].conn # c
    <3>1. j - 1 \in 1..n /\ j - 1 # i /\ (j - 1) + 1 = j
      BY <1>2, <1>7, <2>4
    <3>2. InitialMessages[j] = g[j - 1]
      BY <1>7, <3>1
    <3> QED
      BY <1>2, <1>5, <2>2, <3>1, <3>2
  <2> QED
    BY <2>3, <2>4 DEF NewestIs, Holds
<1> QED
  BY <1>7, <1>8

LEMMA FeedFacts ==
  /\ None \notin Conn /\ None \notin State /\ Hello \notin Event
  /\ \A e \in Event : e.conn \in Conn /\ e.state \in State
  /\ \A c \in Conn : Hello.conn # c
  BY StatusFeedAssumption DEF Event, Hello

LEMMA SnapshotType == FeedTypes => Snapshot \in View
<1> SUFFICES ASSUME FeedTypes PROVE Snapshot \in View
  OBVIOUS
<1>1. \A c \in Conn : log[c].states \in Seq(State)
  BY DEF FeedTypes, FeedTypeOK
<1>2. \A c \in Conn : log[c].states # <<>> => Last(log[c].states) \in State
  BY <1>1 DEF Last
<1>3. [c \in Conn |-> IF log[c].states = <<>> \/ log[c].old THEN None ELSE Last(log[c].states)]
        \in [Conn -> State \cup {None}]
  BY <1>2
<1> QED
  BY <1>3 DEF Snapshot, Blank, View, Seen, FeedTypes, FeedTypeOK

LEMMA InitFeed == FeedInit => FeedInv
<1> SUFFICES ASSUME FeedInit PROVE FeedInv
  OBVIOUS
<1>1. Blank \in View
  BY DEF Blank, View, Seen
<1>2. MaxReport \in Nat /\ MaxConnect \in Nat /\ QueueCap \in Nat /\ WireCap \in Nat /\ MaxEvents \in Nat
  BY StatusFeedAssumption
<1>3. log \in [Conn -> [states : Seq(State), old : BOOLEAN]] /\ \A c \in Conn : Len(log[c].states) <= MaxEvents
  BY <1>2 DEF FeedInit
<1> QED
  BY <1>1, <1>2, <1>3 DEF FeedInit, FeedInv, FeedTypes, FeedTypeOK, Numbered, Seen

\* What the broker's record of a connection becomes.
LEMMA ReceivesLog ==
  ASSUME FeedTypes, Receives
  PROVE  /\ log' \in [Conn -> [states : Seq(State), old : BOOLEAN]]
         /\ \A c \in Conn : Len(log'[c].states) <= MaxEvents
         /\ \A c \in Conn : Head(sent).conn # c => log'[c] = log[c]
         /\ \A c \in Conn : Head(sent).conn = c =>
              log'[c].states # <<>> /\ Last(log'[c].states) = Head(sent).state
<1> DEFINE m == Head(sent)
<1>1. sent # <<>> /\ sent \in Seq(Message)
  BY DEF Receives, FeedTypes, FeedTypeOK, Message
<1>2. m \in Event \cup {Hello}
  BY <1>1, PassedOn DEF Message
<1>3. CASE m = Hello
  BY <1>3, FeedFacts DEF Receives, FeedTypes, FeedTypeOK
<1>4. CASE m # Hello
  <2> DEFINE kept == IF log[m.conn].old THEN <<>> ELSE log[m.conn].states
             all == Append(kept, m.state)
             new == IF Len(all) > MaxEvents THEN Tail(all) ELSE all
  <2>1. m.conn \in Conn /\ m.state \in State
    BY <1>2, <1>4, FeedFacts
  <2>2. kept \in Seq(State) /\ Len(kept) <= MaxEvents /\ Len(kept) \in Nat /\ MaxEvents \in Nat \ {0}
    <3>1. log[m.conn].states \in Seq(State) /\ Len(log[m.conn].states) <= MaxEvents
      BY <2>1 DEF FeedTypes, FeedTypeOK
    <3> QED
      BY <3>1, StatusFeedAssumption
  <2>3. log' = [log EXCEPT ![m.conn] = [states |-> new, old |-> FALSE]]
    BY <1>4 DEF Receives
  <2> HIDE DEF kept
  <2>4. /\ all \in Seq(State) /\ Len(all) = Len(kept) + 1 /\ all[Len(all)] = m.state
        /\ Len(all) <= MaxEvents + 1
    BY <2>1, <2>2
  <2> HIDE DEF all
  <2>5. new \in Seq(State) /\ Len(new) <= MaxEvents /\ new # <<>> /\ Last(new) = m.state
    <3>1. CASE Len(all) > MaxEvents
      <4>1. Len(Tail(all)) = Len(all) - 1 /\ Tail(all) \in Seq(State) /\ Len(all) - 1 > 0
            /\ Tail(all)[Len(all) - 1] = all[Len(all)]
        BY <2>2, <2>4, <3>1
      <4>2. new = Tail(all)
        BY <3>1
      <4> HIDE DEF new
      <4> QED
        BY <2>2, <2>4, <4>1, <4>2 DEF Last
    <3>2. CASE ~(Len(all) > MaxEvents)
      <4>1. new = all /\ all # <<>> /\ Len(all) <= MaxEvents
        BY <2>2, <2>4, <3>2
      <4> HIDE DEF new
      <4> QED
        BY <2>4, <4>1 DEF Last
    <3> QED
      BY <3>1, <3>2
  <2> HIDE DEF new
  <2>6. log' \in [Conn -> [states : Seq(State), old : BOOLEAN]]
    BY <2>1, <2>3, <2>5 DEF FeedTypes, FeedTypeOK
  <2>7. log'[m.conn] = [states |-> new, old |-> FALSE] /\ \A c \in Conn \ {m.conn} : log'[c] = log[c]
    BY <2>1, <2>3 DEF FeedTypes, FeedTypeOK
  <2>8. \A c \in Conn : Len(log'[c].states) <= MaxEvents
    BY <2>5, <2>7 DEF FeedTypes, FeedTypeOK
  <2>9. \A c \in Conn : m.conn # c => log'[c] = log[c]
    BY <2>7
  <2>10. \A c \in Conn : m.conn = c => log'[c].states # <<>> /\ Last(log'[c].states) = m.state
    BY <2>5, <2>7
  <2> QED
    BY <2>6, <2>8, <2>9, <2>10
<1> QED
  BY <1>3, <1>4

LEMMA NextFeedTypes == FeedTypes /\ [FeedNext]_feedVars => FeedTypes'
<1> SUFFICES ASSUME FeedTypes, [FeedNext]_feedVars PROVE FeedTypes'
  OBVIOUS
<1>0. /\ QueueCap \in Nat /\ WireCap \in Nat /\ MaxEvents \in Nat /\ MaxReport \in Nat /\ MaxConnect \in Nat
  BY StatusFeedAssumption
<1> USE DEF FeedTypes, FeedTypeOK, supervisor, socket, losses, broker, page
<1>1. ASSUME NEW c \in Conn, NEW s \in State, Reports(c, s) PROVE FeedTypes'
  <2> DEFINE n == [conn |-> c, state |-> s, number |-> reports[c] + 1]
  <2>1. reports[c] + 1 \in 1..MaxReport /\ n \in Report
    BY <1>0, <1>1 DEF Reports, Report
  <2>2. reports' \in [Conn -> 0..MaxReport] /\ current' \in [Conn -> State \cup {None}]
    BY <1>0, <1>1, <2>1 DEF Reports
  <2>3. reporting' \subseteq Report
    BY <1>1, <2>1 DEF Reports
  <2>4. ASSUME NEW r \in reporting'
        PROVE  r.number <= reports'[r.conn] /\ (Newest(r)' => r.state = current'[r.conn])
    <3>1. CASE r = n
      BY <1>0, <1>1, <2>1, <3>1 DEF Reports, Newest
    <3>2. CASE r # n
      <4>1. r \in reporting /\ r \in Report
        BY <1>1, <3>2 DEF Reports
      <4>2. r.number <= reports[r.conn] /\ r.number \in Nat /\ r.conn \in Conn
            /\ reports[r.conn] \in Nat
        BY <1>0, <4>1 DEF Report, Numbered
      <4>3. CASE r.conn = c
        BY <1>1, <4>2, <4>3 DEF Reports, Newest
      <4>4. CASE r.conn # c
        BY <1>1, <4>1, <4>2, <4>4 DEF Reports, Newest, Numbered
      <4> QED
        BY <4>3, <4>4
    <3> QED
      BY <3>1, <3>2
  <2>5. UNCHANGED <<queue, socket, losses, broker, page>>
    BY <1>1 DEF Reports
  <2> HIDE DEF n
  <2> QED
    BY <2>2, <2>3, <2>4, <2>5 DEF Numbered
<1>2. ASSUME NEW r \in reporting, Queues(r) PROVE FeedTypes'
  <2>1. [conn |-> r.conn, state |-> r.state] \in Event /\ r.conn \in Conn
    BY DEF Report, Event
  <2>2. queue' \in Seq(Event) /\ Len(queue') <= QueueCap
    <3>1. CASE Len(queue) < QueueCap
      <4>1. queue' = Append(queue, [conn |-> r.conn, state |-> r.state])
        BY <1>2, <3>1 DEF Queues
      <4> QED
        BY <1>0, <2>1, <3>1, <4>1
    <3>2. CASE ~(Len(queue) < QueueCap)
      BY <1>2, <3>2 DEF Queues
    <3> QED
      BY <3>1, <3>2
  <2>3. behind' \subseteq Conn /\ unrepaired' \subseteq behind'
    BY <1>2, <2>1 DEF Queues
  <2>4. reporting' \subseteq reporting /\ UNCHANGED <<current, reports, socket, broker, page>>
    BY <1>2 DEF Queues
  <2>5. \A q \in reporting' : q.number <= reports'[q.conn] /\ (Newest(q)' => q.state = current'[q.conn])
    BY <2>4 DEF Newest, Numbered
  <2> QED
    BY <2>2, <2>3, <2>4, <2>5 DEF Numbered
<1>3. ASSUME Connects PROVE FeedTypeOK'
  BY <1>0, <1>3, Greeting DEF Connects, Message
<1>4. ASSUME Greets PROVE FeedTypeOK'
  <2>1. /\ Head(greeting) \in Message /\ Tail(greeting) \in Seq(Message)
    BY <1>4, PassedOn DEF Greets, Message
  <2>2. sent' \in Seq(Message) /\ Len(sent') <= WireCap
    BY <1>0, <1>4, <2>1 DEF Greets, Message
  <2> QED
    BY <1>4, <2>1, <2>2 DEF Greets, Message
<1>5. ASSUME Writes PROVE FeedTypeOK'
  <2>1. Head(queue) \in Event /\ Tail(queue) \in Seq(Event) /\ Len(Tail(queue)) <= QueueCap
    BY <1>0, <1>5 DEF Writes
  <2>2. sent' \in Seq(Message) /\ Len(sent') <= WireCap
    BY <1>0, <1>5, <2>1 DEF Writes, Message
  <2> QED
    BY <1>5, <2>1, <2>2 DEF Writes, Message
<1>6. ASSUME Drops PROVE FeedTypeOK'
  BY <1>0, <1>6 DEF Drops
<1>7. ASSUME Receives PROVE FeedTypeOK'
  <2>1. sent' \in Seq(Message) /\ Len(sent') <= WireCap
    BY <1>0, <1>7 DEF Receives, Message
  <2> QED
    BY <1>7, <2>1, ReceivesLog DEF Receives, Message, Seen
<1>8. ASSUME Quiet PROVE FeedTypeOK'
  BY <1>8 DEF Quiet, Seen
<1>9. ASSUME Week PROVE FeedTypeOK'
  BY <1>9 DEF Week, Seen
<1>10. ASSUME Answers PROVE FeedTypeOK'
  <2>1. log' \in [Conn -> [states : Seq(State), old : BOOLEAN]]
    <3>1. \A e \in [states : Seq(State), old : BOOLEAN] :
            [e EXCEPT !.states = <<>>] \in [states : Seq(State), old : BOOLEAN]
      <4>1. <<>> \in Seq(State)
        OBVIOUS
      <4> QED
        BY <4>1
    <3> QED
      BY <1>10, <3>1 DEF Answers
  <2>2. \A c \in Conn : Len(log'[c].states) <= MaxEvents
    BY <1>0, <1>10 DEF Answers
  <2> QED
    BY <1>10, <2>1, <2>2, SnapshotType DEF Answers, Seen
<1>11. ASSUME NEW r \in replies, Shows(r) \/ Forgets(r) PROVE FeedTypeOK'
  BY <1>11 DEF Shows, Forgets
<1>12. ASSUME UNCHANGED feedVars PROVE FeedTypeOK'
  BY <1>12 DEF feedVars
<1>13. ASSUME UNCHANGED supervisor PROVE Numbered'
  BY <1>13 DEF Numbered, Newest
<1> QED
  BY <1>1, <1>2, <1>3, <1>4, <1>5, <1>6, <1>7, <1>8, <1>9, <1>10, <1>11, <1>12, <1>13
  DEF FeedNext, Connects, Greets, Writes, Drops, Receives, Quiet, Week, Answers, Shows, Forgets,
    feedVars

-----------------------------------------------------------------------------
(* What is under way to the broker.                                        *)

\* A message moves on to the socket.
LEMMA WrittenUnderWay ==
  ASSUME FeedTypes, NEW c \in Conn, UnderWay(c), Greets \/ Writes
  PROVE  UnderWay(c)'
<1> USE DEF FeedTypes, FeedTypeOK
<1>1. uplink = "up" /\ UNCHANGED <<uplink, current, log>> /\ sent \in Seq(Message)
  BY DEF Greets, Writes, supervisor, broker, Message
<1>2. CASE Greets
  <2> DEFINE m == Head(greeting)
  <2>1. /\ greeting \in Seq(Message) /\ greeting # <<>> /\ m \in Message
        /\ greeting' = Tail(greeting) /\ sent' = Append(sent, m) /\ UNCHANGED queue
    BY <1>2 DEF Greets, Message
  <2>2. /\ Holds(greeting, c) <=> Holds(greeting', c) \/ m.conn = c
        /\ Holds(greeting', c) /\ NewestIs(greeting, c, current[c]) => NewestIs(greeting', c, current[c])
        /\ ~Holds(greeting', c) /\ NewestIs(greeting, c, current[c]) => m.conn = c /\ m.state = current[c]
    BY <2>1, PassedOn
  <2>3. /\ Holds(sent', c) <=> Holds(sent, c) \/ m.conn = c
        /\ m.conn = c /\ m.state = current[c] => NewestIs(sent', c, current[c])
        /\ m.conn # c /\ NewestIs(sent, c, current[c]) => NewestIs(sent', c, current[c])
    BY <1>1, <2>1, Appended
  <2>4. UNCHANGED <<queue, current, log, uplink>>
    BY <1>1, <2>1
  <2> HIDE DEF m, FeedTypes
  <2> QED
    BY <1>1, <2>2, <2>3, <2>4 DEF UnderWay, Stored
<1>3. CASE Writes
  <2> DEFINE m == Head(queue)
  <2>1. /\ queue \in Seq(Message) /\ queue # <<>> /\ m \in Message /\ greeting = <<>>
        /\ queue' = Tail(queue) /\ sent' = Append(sent, m) /\ UNCHANGED greeting
    BY <1>3 DEF Writes, Message
  <2>2. /\ Holds(queue, c) <=> Holds(queue', c) \/ m.conn = c
        /\ Holds(queue', c) /\ NewestIs(queue, c, current[c]) => NewestIs(queue', c, current[c])
        /\ ~Holds(queue', c) /\ NewestIs(queue, c, current[c]) => m.conn = c /\ m.state = current[c]
    BY <2>1, PassedOn
  <2>3. /\ Holds(sent', c) <=> Holds(sent, c) \/ m.conn = c
        /\ m.conn = c /\ m.state = current[c] => NewestIs(sent', c, current[c])
        /\ m.conn # c /\ NewestIs(sent, c, current[c]) => NewestIs(sent', c, current[c])
    BY <1>1, <2>1, Appended
  <2>4. ~Holds(greeting, c) /\ ~Holds(greeting', c)
    BY <2>1 DEF Holds
  <2>5. UNCHANGED <<current, log, uplink>>
    BY <1>1
  <2> HIDE DEF m, FeedTypes
  <2> QED
    BY <1>1, <2>2, <2>3, <2>4, <2>5 DEF UnderWay, Stored
<1> QED
  BY <1>2, <1>3

\* A message reaches the broker.
LEMMA ReceivedUnderWay ==
  ASSUME FeedTypes, NEW c \in Conn, UnderWay(c), Receives
  PROVE  UnderWay(c)'
<1> DEFINE m == Head(sent)
<1>1. /\ sent \in Seq(Message) /\ sent # <<>> /\ sent' = Tail(sent)
      /\ UNCHANGED <<queue, greeting, uplink, current>>
  BY DEF Receives, FeedTypes, FeedTypeOK, Message, supervisor
<1>2. /\ Holds(sent, c) <=> Holds(sent', c) \/ m.conn = c
      /\ Holds(sent', c) /\ NewestIs(sent, c, current[c]) => NewestIs(sent', c, current[c])
      /\ ~Holds(sent', c) /\ NewestIs(sent, c, current[c]) => m.conn = c /\ m.state = current[c]
  BY <1>1, PassedOn
<1>3. /\ m.conn # c => log'[c] = log[c]
      /\ m.conn = c => log'[c].states # <<>> /\ Last(log'[c].states) = m.state
  BY ReceivesLog
<1> HIDE DEF m
<1> QED
  BY <1>1, <1>2, <1>3 DEF UnderWay, Stored

LEMMA NextUnderWay ==
  ASSUME FeedInv, FeedTypes', FeedNext, NEW c \in Conn \ (behind' \cup Pending'), current'[c] # None
  PROVE  UnderWay(c)'
<1> USE DEF supervisor, socket, losses, broker, page
<1>1. ASSUME NEW d \in Conn, NEW s \in State, Reports(d, s) PROVE UnderWay(c)'
  <2> DEFINE n == [conn |-> d, state |-> s, number |-> reports[d] + 1]
  <2>1. n \in reporting' /\ reports'[d] = reports[d] + 1
    BY <1>1 DEF Reports, FeedInv, FeedTypes, FeedTypeOK
  <2>2. d \in Pending'
    BY <2>1 DEF Pending, Newest
  <2>3. c # d /\ UNCHANGED <<queue, greeting, sent, uplink, log, behind>>
    BY <1>1, <2>2 DEF Reports
  <2>4. current'[c] = current[c] /\ reports'[c] = reports[c] /\ reporting \subseteq reporting'
    BY <1>1, <2>3 DEF Reports, FeedInv, FeedTypes, FeedTypeOK
  <2>5. c \notin behind \cup Pending
    <3> SUFFICES ASSUME c \in Pending PROVE FALSE
      BY <2>3
    <3>1. PICK r \in reporting : r.conn = c /\ r.number = reports[c]
      BY DEF Pending, Newest
    <3>2. c \in Pending'
      BY <2>4, <3>1 DEF Pending, Newest
    <3> QED
      BY <3>2
  <2> QED
    BY <2>3, <2>4, <2>5 DEF FeedInv, UnderWay, Stored
<1>2. ASSUME NEW r \in reporting, Queues(r) PROVE UnderWay(c)'
  <2>1. UNCHANGED <<current, reports, greeting, sent, uplink, log>> /\ reporting' = reporting \ {r}
    BY <1>2 DEF Queues
  <2>2. r \in Report /\ r.conn \in Conn /\ r.state \in State
    BY DEF FeedInv, FeedTypes, FeedTypeOK, Report
  <2>3. ASSUME c \in Pending, r.conn # c \/ ~Newest(r) PROVE FALSE
    <3>1. PICK q \in reporting : q.conn = c /\ Newest(q)
      BY <2>3 DEF Pending
    <3>2. q \in reporting' /\ Newest(q)'
      BY <2>1, <2>3, <3>1 DEF Newest
    <3> QED
      BY <3>1, <3>2 DEF Pending
  <2>4. CASE r.conn = c /\ Newest(r)
    <3> DEFINE e == [conn |-> r.conn, state |-> r.state]
    <3>1. Len(queue) < QueueCap
      BY <1>2, <2>4 DEF Queues
    <3>2. queue' = Append(queue, e)
      BY <1>2, <3>1 DEF Queues
    <3>3. e \in Event /\ queue \in Seq(Event) /\ e.conn = c /\ e.state = current[c]
      BY <2>2, <2>4 DEF FeedInv, FeedTypes, FeedTypeOK, Numbered, Event
    <3> HIDE DEF e
    <3>4. NewestIs(queue', c, current[c]) /\ Holds(queue', c)
      BY <3>2, <3>3, Appended
    <3> QED
      BY <2>1, <3>4 DEF UnderWay
  <2>5. CASE r.conn = c /\ ~Newest(r)
    <3>1. c \notin Pending /\ ~(Len(queue) < QueueCap)
      BY <1>2, <2>3, <2>5 DEF Queues
    <3>2. UNCHANGED <<queue, behind>>
      BY <1>2, <2>5, <3>1 DEF Queues
    <3> QED
      BY <2>1, <3>1, <3>2 DEF FeedInv, UnderWay, Stored
  <2>6. CASE r.conn # c
    <3>1. c \notin Pending /\ c \notin behind
      BY <1>2, <2>3, <2>6 DEF Queues
    <3>2. UnderWay(c)
      BY <2>1, <3>1 DEF FeedInv
    <3>3. CASE Len(queue) < QueueCap
      <4> DEFINE e == [conn |-> r.conn, state |-> r.state]
      <4>1. queue' = Append(queue, e)
        BY <1>2, <3>3 DEF Queues
      <4>2. e \in Event /\ queue \in Seq(Event) /\ e.conn # c
        BY <2>2, <2>6 DEF FeedInv, FeedTypes, FeedTypeOK, Event
      <4> HIDE DEF e
      <4>3. /\ Holds(queue', c) <=> Holds(queue, c)
            /\ NewestIs(queue, c, current[c]) => NewestIs(queue', c, current[c])
        BY <4>1, <4>2, Appended
      <4> QED
        BY <2>1, <3>2, <4>3 DEF UnderWay, Stored
    <3>4. CASE ~(Len(queue) < QueueCap)
      <4>1. UNCHANGED queue
        BY <1>2, <3>4 DEF Queues
      <4> QED
        BY <2>1, <3>2, <4>1 DEF UnderWay, Stored
    <3> QED
      BY <3>3, <3>4
  <2> QED
    BY <2>4, <2>5, <2>6
<1>3. CASE Connects
  <2>1. /\ greeting' = InitialMessages /\ UNCHANGED <<queue, current, reports, reporting>>
        /\ behind' = {d \in behind : \E i \in DOMAIN queue : queue[i].conn = d}
    BY <1>3 DEF Connects
  <2>2. NewestIs(greeting', c, current[c]) /\ Holds(greeting', c)
    BY <2>1, Greeting DEF FeedInv
  <2>3. CASE c \in behind
    <3>1. ~Holds(queue, c)
      BY <2>1, <2>3 DEF Holds
    <3> QED
      BY <2>1, <2>2, <3>1 DEF UnderWay
  <2>4. CASE c \notin behind
    <3>1. Pending' = Pending
      BY <2>1 DEF Pending, Newest
    <3>2. UnderWay(c)
      BY <2>1, <2>4, <3>1 DEF FeedInv
    <3> QED
      BY <2>1, <2>2, <3>2 DEF UnderWay
  <2> QED
    BY <2>3, <2>4
<1>4. ASSUME UNCHANGED <<behind, reporting, reports, current>>
      PROVE  UnderWay(c)
  <2>1. Pending' = Pending
    BY <1>4 DEF Pending, Newest
  <2> QED
    BY <1>4, <2>1 DEF FeedInv
<1>5. CASE Greets \/ Writes
  BY <1>4, <1>5, WrittenUnderWay DEF FeedInv, Greets, Writes
<1>6. CASE Drops
  <2>1. uplink' = "down" /\ UNCHANGED <<queue, current>> /\ UnderWay(c)
    BY <1>4, <1>6 DEF Drops
  <2> QED
    BY <2>1 DEF UnderWay
<1>7. CASE Receives
  BY <1>4, <1>7, ReceivedUnderWay DEF FeedInv, Receives
<1>8. CASE Quiet
  BY <1>4, <1>8 DEF Quiet, UnderWay, Stored
<1>9. CASE Week \/ Answers
  <2>1. UNCHANGED <<queue, greeting, sent, uplink, current, behind, reports, reporting>> /\ UnderWay(c)
    BY <1>4, <1>9 DEF Week, Answers
  <2>2. Stored(c) \/ log[c].old => log'[c].old \/ log'[c] = log[c]
    BY <1>9 DEF Week, Answers, Stored, FeedInv, FeedTypes, FeedTypeOK
  <2> QED
    BY <2>1, <2>2 DEF UnderWay, Stored
<1>10. ASSUME NEW r \in replies, Shows(r) \/ Forgets(r) PROVE UnderWay(c)'
  BY <1>4, <1>10 DEF Shows, Forgets, UnderWay, Stored
<1> QED
  BY <1>1, <1>2, <1>3, <1>5, <1>6, <1>7, <1>8, <1>9, <1>10 DEF FeedNext

LEMMA NextFeed == FeedInv /\ [FeedNext]_feedVars => FeedInv'
<1> SUFFICES ASSUME FeedInv, [FeedNext]_feedVars PROVE FeedInv'
  OBVIOUS
<1>1. FeedTypes'
  BY NextFeedTypes DEF FeedInv
<1>2. CASE UNCHANGED feedVars
  <2>1. Pending' = Pending
    BY <1>2 DEF feedVars, supervisor, Pending, Newest
  <2> QED
    BY <1>1, <1>2, <2>1 DEF feedVars, supervisor, socket, losses, broker, FeedInv, UnderWay, Stored
<1>3. CASE FeedNext
  BY <1>1, <1>3, NextUnderWay DEF FeedInv
<1> QED
  BY <1>2, <1>3

\* The invariant holds through reconnections, lost messages and full queues.
THEOREM FeedInvariant == FeedSpec => []FeedInv
  BY InitFeed, NextFeed, PTL DEF FeedSpec

\* Every variable keeps its type, for any number of messages.
THEOREM FeedTypeCorrect == FeedSpec => []FeedTypeOK
<1>1. FeedInv => FeedTypeOK
  BY DEF FeedInv, FeedTypes
<1> QED
  BY <1>1, FeedInvariant, PTL

\* When all that the bridge has to say is read, the broker's last state of every
\* connection is the present one, although events queued before a reconnection are
\* written after its snapshot (initialMessages, webSocketMessage).
THEOREM FeedCatchesUp == FeedSpec => []SettledIsCurrent
<1>1. FeedInv => SettledIsCurrent
  <2> SUFFICES ASSUME FeedInv, Settled, NEW c \in Conn \ behind, current[c] # None
               PROVE  Stored(c) \/ log[c].old
    BY DEF SettledIsCurrent
  <2>1. queue = <<>> /\ greeting = <<>> /\ sent = <<>> /\ uplink = "up" /\ c \notin Pending
    BY DEF Settled, Pending
  <2>2. ~Holds(queue, c) /\ ~Holds(greeting, c) /\ ~Holds(sent, c)
    BY <2>1 DEF Holds
  <2> QED
    BY <2>1, <2>2 DEF FeedInv, UnderWay
<1> QED
  BY <1>1, FeedInvariant, PTL
=============================================================================
