----------------------------- MODULE HotReload -----------------------------
(***************************************************************************)
(* How a saved configuration reaches a running bridge: the hot reload      *)
(* manager (core/hotreload/hotreload.go) with its three triggers, the      *)
(* WebSocket watcher (core/functions/remote_ws.go), the optional poll loop *)
(* and SIGUSR1; runtimeResources.Apply (benis-phone.go:353-395); and the   *)
(* control plane as far as it decides what the bridge learns: a save that  *)
(* notifies the broker afterwards (ui/worker/handlers/configs.ts:278-282)  *)
(* and the broker that forwards the notice to whoever is connected         *)
(* (ui/worker/durable/configBroker.ts:82-98).                              *)
(*                                                                         *)
(* A revision is what a configuration's hash stands for: its document and  *)
(* the number of its secret revision (configs.ts:243-249, 443-446).  The   *)
(* number only grows, while a document may be saved again later, so        *)
(* revisions are not ordered.  A save is one step here; what racing saves  *)
(* do to the number is module ConfigStore, and a configuration is not      *)
(* deleted.  The broker answers a bundle by three queries, one after the   *)
(* other (bridge.ts:249-273), so the document of one revision may come     *)
(* with the secrets of later ones.                                         *)
(* What Supervisor.Apply does with a configuration is module Supervisor.   *)
(***************************************************************************)
EXTENDS Naturals

CONSTANTS
  Document, Initial,   \* the documents, and the one the bridge started with
  MaxFaults,   \* bound on failures: of requests, R2 sync, TTS set-up, the WebSocket
  MaxSaves,    \* bound on the number of saves
  MaxInbox     \* bound on notices on the wire to the bridge

ASSUME ReloadAssumption ==
  /\ Initial \in Document
  /\ MaxFaults \in Nat /\ MaxSaves \in Nat /\ MaxInbox \in Nat \ {0}

Trigger == {"ws", "poll", "usr1"}
Nobody == "nobody"

Secrets == 0..MaxSaves
Revision == [document : Document, secrets : Secrets]

\* What LoadRuntimeConfig returns: hash names the document, passwords and
\* credentials are the secret revisions that the other two queries found.
Bundle == [hash : Revision, passwords : Secrets, credentials : Secrets]

Whole(r) == [hash |-> r, passwords |-> r.secrets, credentials |-> r.secrets]
First == [document |-> Initial, secrets |-> 0]

VARIABLES
  \* the control plane
  saved, saves,
  notices,     \* notifyConfigChanged calls under way
  link,        \* the WebSocket between broker and bridge: "down", "up"
  inbox,       \* notices on it that the bridge has not read
  \* the bridge
  pc,          \* where each trigger's reloadOnce is
  mu,          \* holder of hashMu
  runtime,     \* the bundle the holder has fetched, query by query
  hash,        \* the revision the manager believes it runs
  tts, credentials, sip,   \* the bundles that are installed
  signal,      \* a SIGUSR1 in the channel of one
  gone,        \* triggers whose goroutine has exited, or was never started
  life,        \* "running", "stopping" (Manager.Stop), "stopped"
  faults,      \* failures so far
  missed       \* history: what was saved when a notice or a reload last failed

plane  == <<saved, saves, notices>>
wire   == <<link, inbox>>
engine == <<tts, credentials, sip, hash>>
history == <<faults, missed>>
vars == <<plane, wire, pc, mu, runtime, engine, signal, gone, life, history>>

TypeOK ==
  /\ {saved, hash} \subseteq Revision
  /\ {runtime, tts, credentials, sip} \subseteq Bundle
  /\ saves \in 0..MaxSaves /\ notices \in 0..MaxSaves
  /\ link \in {"down", "up"} /\ inbox \in 0..MaxInbox
  /\ pc \in [Trigger -> {"idle", "lock", "fetch", "load", "passwords", "bundle", "tts", "sip"}]
  /\ mu \in Trigger \cup {Nobody}
  /\ signal \in BOOLEAN /\ gone \subseteq Trigger
  /\ life \in {"running", "stopping", "stopped"}
  /\ faults \in 0..MaxFaults /\ missed \subseteq Revision

Init ==
  /\ saved = First /\ saves = 0 /\ notices = 0
  /\ link = "down" /\ inbox = 0
  /\ pc = [t \in Trigger |-> "idle"] /\ mu = Nobody
  /\ runtime = Whole(First) /\ hash = First
  /\ tts = runtime /\ credentials = runtime /\ sip = runtime
  /\ signal = FALSE
  /\ gone \in {{}, {"poll"}}   \* the poll loop runs only with -poll (108-111)
  /\ life = "running" /\ faults = 0 /\ missed = {}

-----------------------------------------------------------------------------
(* The control plane and the WebSocket.                                    *)

\* The batch commits, then notifyConfigChanged is handed to waitUntil.  A save
\* that changes a secret raises the secret revision by one.
Save ==
  /\ saves < MaxSaves
  /\ saves' = saves + 1
  /\ saved' \in Revision \ {saved}
  /\ saved'.secrets \in {saved.secrets, saved.secrets + 1}
  /\ notices' = notices + 1
  /\ UNCHANGED <<wire, pc, mu, runtime, engine, signal, gone, life, history>>

\* The broker sends the notice to the sockets it has.
Notify ==
  /\ notices > 0 /\ inbox < MaxInbox
  /\ notices' = notices - 1
  /\ IF link = "up" THEN inbox' = inbox + 1 /\ UNCHANGED missed
                    ELSE missed' = {saved} /\ UNCHANGED inbox
  /\ UNCHANGED <<saved, saves, link, pc, mu, runtime, engine, signal, gone, life, faults>>

Fault == faults < MaxFaults /\ faults' = faults + 1

NotifyFails ==
  /\ Fault /\ notices > 0
  /\ notices' = notices - 1
  /\ missed' = {saved}
  /\ UNCHANGED <<saved, saves, wire, pc, mu, runtime, engine, signal, gone, life>>

\* WSWatcher.runOnce: the dial succeeds.
Connect ==
  /\ link = "down" /\ life = "running" /\ pc["ws"] = "idle"
  /\ link' = "up"
  /\ UNCHANGED <<plane, inbox, pc, mu, runtime, engine, signal, gone, life, history>>

\* What was on the wire is lost.
Disconnect ==
  /\ Fault /\ link = "up"
  /\ link' = "down" /\ inbox' = 0
  /\ missed' = IF inbox > 0 THEN {saved} ELSE missed
  /\ UNCHANGED <<plane, pc, mu, runtime, engine, signal, gone, life>>

-----------------------------------------------------------------------------
(* The triggers.                                                           *)

Calls(t) == pc[t] = "idle" /\ t \notin gone /\ pc' = [pc EXCEPT ![t] = "lock"]

\* Mutant: a frame that comes during a reload is taken to be served by it.
MutAbsorbs ==
  /\ link = "up" /\ inbox > 0
  /\ inbox' = inbox - 1
  /\ pc' = IF pc["ws"] = "idle" THEN [pc EXCEPT !["ws"] = "lock"] ELSE pc
  /\ UNCHANGED <<plane, link, mu, runtime, engine, signal, gone, life, history>>

\* A config-updated frame; the read loop reads no other until OnUpdate returns.
ReadNotice ==
  /\ link = "up" /\ inbox > 0 /\ Calls("ws")
  /\ inbox' = inbox - 1
  /\ UNCHANGED <<plane, link, mu, runtime, engine, signal, gone, life, history>>

Tick ==
  /\ Calls("poll")
  /\ UNCHANGED <<plane, wire, mu, runtime, engine, signal, gone, life, history>>

Signal ==
  /\ life = "running" /\ ~signal
  /\ signal' = TRUE
  /\ UNCHANGED <<plane, wire, pc, mu, runtime, engine, gone, life, history>>

TakeSignal ==
  /\ signal /\ Calls("usr1")
  /\ signal' = FALSE
  /\ UNCHANGED <<plane, wire, mu, runtime, engine, gone, life, history>>

-----------------------------------------------------------------------------
(* reloadOnce.                                                             *)

Lock(t) ==
  /\ pc[t] = "lock" /\ mu = Nobody
  /\ mu' = t
  /\ pc' = [pc EXCEPT ![t] = "fetch"]
  /\ UNCHANGED <<plane, wire, runtime, engine, signal, gone, life, history>>

Returns(t) == pc' = [pc EXCEPT ![t] = "idle"] /\ mu' = Nobody

\* FetchHash, a definition that does not load or decode, or what Apply does
\* before it installs anything (validation, prepareTTS, syncR2) fails.
ReloadFails(t) ==
  /\ Fault /\ pc[t] \in {"fetch", "load", "passwords", "bundle", "tts"}
  /\ Returns(t)
  /\ missed' = {saved}
  /\ UNCHANGED <<plane, wire, runtime, engine, signal, gone, life>>

\* Mutant: the hash is recorded when it is fetched, before it is applied.
MutRecordsEarly(t) ==
  /\ pc[t] = "fetch"
  /\ hash' = saved
  /\ IF t # "usr1" /\ saved = hash
     THEN Returns(t)
     ELSE pc' = [pc EXCEPT ![t] = "load"] /\ UNCHANGED mu
  /\ UNCHANGED <<plane, wire, runtime, tts, credentials, sip, signal, gone, life, history>>

\* The hash decides, unless SIGUSR1 forces the reload.
FetchHash(t) ==
  /\ pc[t] = "fetch"
  /\ IF t # "usr1" /\ saved = hash
     THEN Returns(t)
     ELSE pc' = [pc EXCEPT ![t] = "load"] /\ UNCHANGED mu
  /\ UNCHANGED <<plane, wire, runtime, engine, signal, gone, life, history>>

\* LoadRuntimeConfig, answered by three queries.  The configuration's row names
\* the bundle's revision, which may be a later one than the hash just fetched; the
\* two queries after it replace the secrets it would go with.
LoadDocument(t) ==
  /\ pc[t] = "load"
  /\ runtime' = Whole(saved)
  /\ pc' = [pc EXCEPT ![t] = "passwords"]
  /\ UNCHANGED <<plane, wire, mu, engine, signal, gone, life, history>>

LoadPasswords(t) ==
  /\ pc[t] = "passwords"
  /\ runtime' = [runtime EXCEPT !.passwords = saved.secrets]
  /\ pc' = [pc EXCEPT ![t] = "bundle"]
  /\ UNCHANGED <<plane, wire, mu, engine, signal, gone, life, history>>

\* Mutant: the configuration's row is read last, after the secrets.
MutRowLast(t) ==
  /\ pc[t] = "bundle"
  /\ runtime' = [hash |-> saved, passwords |-> runtime.passwords, credentials |-> saved.secrets]
  /\ pc' = [pc EXCEPT ![t] = "tts"]
  /\ UNCHANGED <<plane, wire, mu, engine, signal, gone, life, history>>

LoadCredentials(t) ==
  /\ pc[t] = "bundle"
  /\ runtime' = [runtime EXCEPT !.credentials = saved.secrets]
  /\ pc' = [pc EXCEPT ![t] = "tts"]
  /\ UNCHANGED <<plane, wire, mu, engine, signal, gone, life, history>>

\* After prepareTTS and syncR2, which install nothing: ttsRegistry.Replace and
\* secrets.Replace, between which Apply neither returns nor waits.
InstallServices(t) ==
  /\ pc[t] = "tts"
  /\ tts' = runtime /\ credentials' = runtime
  /\ pc' = [pc EXCEPT ![t] = "sip"]
  /\ UNCHANGED <<plane, wire, mu, runtime, sip, hash, signal, gone, life, history>>

\* Supervisor.Apply, which refuses only when the supervisor is stopped, and then
\* m.hash.
ApplySIP(t) ==
  /\ pc[t] = "sip"
  /\ IF life = "stopped" THEN UNCHANGED <<sip, hash>>
                          ELSE sip' = runtime /\ hash' = runtime.hash
  /\ Returns(t)
  /\ UNCHANGED <<plane, wire, runtime, tts, credentials, signal, gone, life, history>>

-----------------------------------------------------------------------------
(* Shutdown: Manager.Stop, then Supervisor.Stop (benis-phone.go:216-217).  *)

\* The contexts are cancelled, the signal channel is closed.
StopBegins ==
  /\ life = "running"
  /\ life' = "stopping" /\ link' = "down" /\ inbox' = 0
  /\ UNCHANGED <<plane, pc, mu, runtime, engine, signal, gone, history>>

\* A goroutine exits between two reloads; a buffered signal is served first.
Exits(t) ==
  /\ life = "stopping" /\ pc[t] = "idle" /\ t \notin gone
  /\ t = "usr1" => ~signal
  /\ gone' = gone \cup {t}
  /\ UNCHANGED <<plane, wire, pc, mu, runtime, engine, signal, life, history>>

\* wg.Wait returns, and the supervisor is stopped.
StopReturns ==
  /\ life = "stopping" /\ gone = Trigger
  /\ life' = "stopped"
  /\ UNCHANGED <<plane, wire, pc, mu, runtime, engine, signal, gone, history>>

-----------------------------------------------------------------------------
Reload(t) == FetchHash(t) \/ LoadDocument(t) \/ LoadPasswords(t) \/ LoadCredentials(t)
             \/ InstallServices(t) \/ ApplySIP(t)

Next ==
  \/ Save \/ Notify \/ NotifyFails \/ Connect \/ Disconnect
  \/ ReadNotice \/ Tick \/ Signal \/ TakeSignal
  \/ \E t \in Trigger : Lock(t) \/ Reload(t) \/ ReloadFails(t) \/ Exits(t)
  \/ StopBegins \/ StopReturns

Spec == Init /\ [][Next]_vars

(***************************************************************************)
(* Fairness: goroutines run, notices are delivered or fail, the watcher    *)
(* reconnects, the ticker ticks; hashMu is granted to each waiter in the   *)
(* end (strong fairness).  Failures are finitely many (MaxFaults).  Nobody *)
(* need save, signal or stop the process, and nothing is assumed of a      *)
(* shutdown.                                                               *)
(***************************************************************************)
Fairness ==
  /\ WF_vars(Notify \/ NotifyFails) /\ WF_vars(Connect)
  /\ WF_vars(ReadNotice) /\ WF_vars(Tick) /\ WF_vars(TakeSignal)
  /\ \A t \in Trigger : SF_vars(Lock(t)) /\ WF_vars(Reload(t) \/ ReloadFails(t))

FairSpec == Spec /\ Fairness
-----------------------------------------------------------------------------
(* Properties.                                                             *)

\* Between two reloads the flow, the credentials and the voices come from one
\* bundle, whose document is that of the revision the manager compares the next
\* hash with.  Its secrets are never older than that revision, and newer ones, read
\* when a save came between the broker's queries, are there only while the newest
\* hash differs from the manager's, so that the next reload is not skipped: neither
\* a save in the middle of a reload nor a failed reload leaves it believing it runs
\* something else (hotreload.go:164-197, benis-phone.go:353-395, bridge.ts:249-273).
InstalledTogether ==
  mu = Nobody =>
    /\ tts = sip /\ credentials = sip /\ sip.hash = hash
    /\ hash.secrets <= sip.passwords /\ sip.passwords <= sip.credentials
    /\ hash = saved => sip = Whole(saved)

\* When the supervisor is stopped no reload is under way, so none finds it
\* stopped after installing voices and credentials (hotreload.go:126-136,
\* benis-phone.go:216-217, supervisor.go:76-78).
NoReloadAfterStop ==
  life = "stopped" => mu = Nobody /\ \A t \in Trigger : pc[t] = "idle"

\* Where the poll loop runs, the bridge runs the newest document with the newest
\* secrets once saves stop, whichever notices are lost and reloads fail (hotreload.go:142-156).
PollFindsNewest == <>[](sip = Whole(saved) \/ "poll" \in gone \/ life # "running")

\* Without it, the newest revision runs unless its notice was lost or a reload
\* failed after it was saved: a notice that comes during a reload is not
\* absorbed by it (configs.ts:278-282, hotreload.go:164-175, remote_ws.go:147-173).
NoticeSuffices == <>[](sip = Whole(saved) \/ saved \in missed \/ life # "running")

\* configs.ts:280-282: failures to notify "don't roll the save back; the binary
\* will catch up on next reconnect": a bridge that stays connected, and whose
\* requests succeed, runs the newest revision at last.
CatchesUpOnReconnect ==
  <>[](link = "up") => <>[](sip = Whole(saved) \/ life # "running")
=============================================================================
