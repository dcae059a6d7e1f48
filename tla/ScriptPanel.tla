---------------------------- MODULE ScriptPanel ----------------------------
(***************************************************************************)
(* The panel beside the flow graph while a script action is open           *)
(* (ui/src/components/ActionEditor.tsx, CodeEditor.tsx, FnGraph.tsx): the  *)
(* code editor and its undo, Validate, Format, and the test of a script in *)
(* a web worker (lib/script-runner.ts), whose requests go through the      *)
(* worker's proxy (worker/handlers/preview.ts).                            *)
(*                                                                         *)
(* The panel's components have no React key: going from one script to      *)
(* another keeps them and their state, opening anything else drops them.   *)
(* A state update is rendered, and its effects run, before the next event: *)
(* React runs pending effects before it renders again, so that an event in *)
(* between is as good as one before the update.                            *)
(***************************************************************************)
EXTENDS Naturals, Sequences

CONSTANTS
  Script,     \* the script actions of the menus
  Source,     \* what a script's code can be
  Bad,        \* code that does not parse
  Neat,       \* code as Prettier leaves it
  Run,        \* tests, each begun once
  MaxUndo,    \* bound on the undo history: older entries are gone
  Nil

ASSUME PanelAssumption ==
  /\ Bad \subseteq Source /\ Neat \in Source \ Bad
  /\ Nil \notin Script \cup Run \cup Source \cup {"valid", "invalid"} /\ "unloaded" \notin Source
  /\ MaxUndo \in Nat

VARIABLES
  code,        \* the draft
  open,        \* the script in the panel, or Nil
  view,        \* CodeMirror's document
  past,        \* what its undo brings back, last first
  verdict,     \* what the panel says of the code: "valid", "invalid" or Nil
  formatting,  \* the formatting under way: its script, the draft at the click, and
               \* whether its panel is still there
  formatErr,   \* the error line of Format: the code that did not parse, "unloaded" or Nil
  panel,       \* state of the test panel: "idle", "running", "done"
  result,      \* the run whose result is on display, or Nil
  newest,      \* history: the last run begun in this panel
  worker,      \* per run: what its web worker does
  timer,       \* runs whose timeout is armed
  mine         \* runs whose panel is still there

editor == <<code, open, view, past, verdict>>
tests == <<panel, result, newest, worker, timer, mine>>
format == <<formatting, formatErr>>
panelVars == <<editor, format, tests>>

\* A worker runs the script, waits for the headers or the body of an answer to
\* a request, has posted its result or failed, and is terminated.
Stage == {"none", "runs", "asks", "reads", "posted", "failed", "ended"}

Formatting == [of : Script, draft : [Script -> Source], here : BOOLEAN]

PanelTypeOK ==
  /\ code \in [Script -> Source]
  /\ open \in Script \cup {Nil}
  /\ view \in Source \cup {Nil} /\ (view = Nil) = (open = Nil)
  /\ past \in Seq(Source) /\ Len(past) <= MaxUndo
  /\ verdict \in {"valid", "invalid", Nil}
  /\ formatting \in Formatting \cup {Nil}
  /\ formatErr \in Bad \cup {"unloaded", Nil}
  /\ panel \in {"idle", "running", "done"}
  /\ result \in Run \cup {Nil} /\ newest \in Run \cup {Nil}
  /\ worker \in [Run -> Stage]
  /\ timer \subseteq Run /\ mine \subseteq Run

PanelInit ==
  /\ code \in [Script -> Source]
  /\ open = Nil /\ view = Nil /\ past = <<>> /\ verdict = Nil
  /\ formatting = Nil /\ formatErr = Nil
  /\ panel = "idle" /\ result = Nil /\ newest = Nil
  /\ worker = [r \in Run |-> "none"] /\ timer = {} /\ mine = {}

-----------------------------------------------------------------------------
(* The code editor.                                                        *)

\* CodeMirror's document becomes t; the old one can be brought back.
Shows(t) ==
  /\ view' = t
  /\ past' = SubSeq(<<view>> \o past, 1, IF Len(past) < MaxUndo THEN Len(past) + 1 ELSE MaxUndo)

\* The update listener, on any change of the document, with draft c: the
\* onChange of the last render, which is that of script s.
Listener(s, c, t) == code' = [c EXCEPT ![s] = t] /\ verdict' = Nil

\* The operator types.
Enters(t) ==
  /\ open # Nil /\ t # view
  /\ Shows(t) /\ Listener(open, code, t)
  /\ UNCHANGED <<open, format, tests>>

\* Undo, also past the opening of this script.
Undoes ==
  /\ open # Nil /\ past # <<>>
  /\ view' = Head(past) /\ past' = Tail(past)
  /\ IF Head(past) # view THEN Listener(open, code, Head(past)) ELSE UNCHANGED <<code, verdict>>
  /\ UNCHANGED <<open, format, tests>>

\* Mutant: the document is set without telling the listener.
MutRenders(s, c) ==
  /\ code' = c /\ UNCHANGED verdict
  /\ IF view = c[s] THEN UNCHANGED <<view, past>> ELSE Shows(c[s])

\* The editor is rendered with the code of s in draft c: the effect on value.
Renders(s, c) ==
  IF view = c[s] THEN code' = c /\ UNCHANGED <<view, past, verdict>>
  ELSE Shows(c[s]) /\ Listener(s, c, c[s])

\* The draft becomes c.
Becomes(c) == IF open = Nil THEN code' = c /\ UNCHANGED <<view, past, verdict>>
              ELSE Renders(open, c)

\* Another script's node is clicked.
Switches(s) ==
  /\ open \notin {Nil, s}
  /\ open' = s /\ Renders(s, code)
  /\ UNCHANGED <<format, tests>>

\* A script's node is clicked while something else, or nothing, is open.
Opens(s) ==
  /\ open = Nil
  /\ open' = s /\ view' = code[s] /\ past' = <<>>
  /\ UNCHANGED <<code, verdict, format, tests>>

\* Something else is opened: the panel goes, what it has begun does not.
Closes ==
  /\ open # Nil
  /\ open' = Nil /\ view' = Nil /\ past' = <<>> /\ verdict' = Nil /\ formatErr' = Nil
  /\ formatting' = IF formatting = Nil THEN Nil ELSE [formatting EXCEPT !.here = FALSE]
  /\ panel' = "idle" /\ result' = Nil /\ newest' = Nil /\ mine' = {}
  /\ UNCHANGED <<code, worker, timer>>

\* validate
Validates ==
  /\ open # Nil
  /\ verdict' = IF code[open] \in Bad THEN "invalid" ELSE "valid"
  /\ formatErr' = Nil
  /\ UNCHANGED <<code, open, view, past, formatting, tests>>

\* format, up to its first await; one at a time here.
Formats ==
  /\ open # Nil /\ formatting = Nil
  /\ formatting' = [of |-> open, draft |-> code, here |-> TRUE] /\ formatErr' = Nil
  /\ UNCHANGED <<editor, tests>>

\* Its onChange is that of the click: all menus become what they were then.
FormatEnds ==
  /\ formatting # Nil /\ formatting.draft[formatting.of] \notin Bad
  /\ Becomes([formatting.draft EXCEPT ![formatting.of] = Neat])
  /\ formatting' = Nil
  /\ UNCHANGED <<open, formatErr, tests>>

\* The code of the click does not parse, or Prettier is not loaded: a panel that is
\* still there says so, whatever it shows by now.
FormatFails ==
  /\ formatting # Nil
  /\ \E e \in ({formatting.draft[formatting.of]} \cap Bad) \cup {"unloaded"} :
       formatErr' = IF formatting.here THEN e ELSE formatErr
  /\ formatting' = Nil
  /\ UNCHANGED <<editor, tests>>

\* The page takes another version of the configuration.
DraftReplaced ==
  /\ \E c \in [Script -> Source] : Becomes(c)
  /\ UNCHANGED <<open, format, tests>>

-----------------------------------------------------------------------------
(* The test of a script.                                                   *)

\* Mutant: the button works while a test runs.
MutMayTest == open # Nil

\* The button is enabled.
MayTest == open # Nil /\ panel # "running"

\* run, runScriptTest
Tests(r) ==
  /\ MayTest /\ worker[r] = "none"
  /\ panel' = "running" /\ result' = Nil /\ newest' = r
  /\ worker' = [worker EXCEPT ![r] = "runs"]
  /\ timer' = timer \cup {r} /\ mine' = mine \cup {r}
  /\ UNCHANGED <<editor, format>>

Moves(r, from, to) ==
  /\ worker[r] \in from /\ worker' = [worker EXCEPT ![r] = to]
  /\ UNCHANGED <<editor, format, panel, result, newest, timer, mine>>

\* The script asks for a page (proxyFetch), and handlePreview for its headers;
\* they come, the request fails or is aborted, or the body ends.
Fetches(r) == Moves(r, {"runs"}, "asks")
HeadersCome(r) == Moves(r, {"asks"}, "reads")
FetchFails(r) == Moves(r, {"asks"}, "runs")
BodyEnds(r) == Moves(r, {"reads"}, "runs")

\* The script returns or throws; a result that cannot be posted is an error.
Posts(r) == Moves(r, {"runs"}, "posted")
Throws(r) == Moves(r, {"runs"}, "failed")

\* Mutant: the worker is left to itself.
MutCleanup(r) == worker' = worker

\* cleanup
Cleanup(r) == worker' = [worker EXCEPT ![r] = "ended"]

\* The promise is resolved, once, and the panel that waits for it shows the result.
Settles(r) ==
  /\ Cleanup(r) /\ timer' = timer \ {r}
  /\ IF r \in mine \cap timer THEN panel' = "done" /\ result' = r ELSE UNCHANGED <<panel, result>>
  /\ UNCHANGED <<editor, format, newest, mine>>

\* onmessage or onerror
Answers(r) == worker[r] \in {"posted", "failed"} /\ Settles(r)

\* The timeout; a script may loop, a body may never end.
TimesOut(r) == r \in timer /\ Settles(r)

PanelNext ==
  \/ \E t \in Source : Enters(t)
  \/ \E s \in Script : Opens(s) \/ Switches(s)
  \/ Undoes \/ Closes \/ Validates \/ Formats \/ FormatEnds \/ FormatFails
  \/ DraftReplaced
  \/ \E r \in Run :
       \/ Tests(r) \/ Fetches(r) \/ HeadersCome(r) \/ FetchFails(r) \/ BodyEnds(r)
       \/ Posts(r) \/ Throws(r) \/ Answers(r) \/ TimesOut(r)

\* A timer that is armed fires, unless it is cleared.
Fairness == \A r \in Run : WF_panelVars(TimesOut(r))

PanelSpec == PanelInit /\ [][PanelNext]_panelVars /\ Fairness

-----------------------------------------------------------------------------
(* Properties.                                                             *)

\* The editor shows the draft's code, and the verdict of Validate is of that code,
\* although only the listener takes a verdict back: the code may have been replaced
\* by opening another script, by an undo, a late Format or a reload
\* (ActionEditor.tsx:844-850, CodeEditor.tsx:124-126, 141-148).  The error line of
\* Format is not a verdict on what is shown: no change takes it back and it may come
\* late, so it may stand beside other code, even beside "Valid JavaScript", and then
\* it is never of the code that is found valid (ActionEditor.tsx:797, 810-813, 870-874).
VerdictIsOfShownCode ==
  open # Nil =>
    /\ view = code[open]
    /\ verdict # Nil => (verdict = "invalid") = (view \in Bad)
    /\ verdict = "valid" => formatErr # view

\* The result on display is that of the test begun last in this panel, and one
\* that shows "Running" waits for a test that can still answer, whatever the
\* operator opens while tests of an earlier panel go on (ActionEditor.tsx:918-932).
ShownIsNewest ==
  /\ panel = "done" => result = newest /\ newest # Nil
  /\ panel = "running" => newest \in timer \cap mine

\* Every worker is terminated and every test answers, also when the script
\* loops or its request never ends (script-runner.ts:109-152).
TestsEnd ==
  /\ \A r \in Run : worker[r] # "none" ~> worker[r] = "ended"
  /\ panel = "running" ~> panel # "running"
=============================================================================
