---------------------------- MODULE OutputStream ----------------------------
(***************************************************************************)
(* The output stream of one call (core/sip/output_stream.go): one          *)
(* goroutine paces audio frames onto the wire and takes its orders from    *)
(* one buffered channel.  Each job that is submitted has a channel of its  *)
(* own on which the submitter waits for the job's result.                  *)
(*                                                                         *)
(* Submitters, Clear, Pause, Resume and Close run in other goroutines (the *)
(* session, the caller queue, cleanupCall).  An operation blocked on the   *)
(* full channel is an action that is not enabled.  Frames, encoding and    *)
(* the recorder's tap are left out: a frame either goes out or fails.      *)
(***************************************************************************)
EXTENDS Naturals, Sequences

CONSTANTS
  Job,       \* the sources that are submitted, each once
  CtrlCap,   \* capacity of the control channel
  None

Signal == {"clear", "pause", "resume", "shutdown"}

ASSUME StreamAssumption ==
  /\ CtrlCap \in Nat \ {0}
  /\ None \notin Job
  /\ Signal \cap Job = {}

VARIABLES
  ctrl,      \* the control channel; a job stands for its opSubmit
  cur,       \* the job being played
  pending,   \* jobs behind it
  paused,
  run,       \* the goroutine: in "drain" (drainOps), at its "frame", "exited"
  answer,    \* the result of each job: "new" before Submit, "none" until answered
  closer,    \* Close: "open" (not called), "closing", "sent", "closed"
  cleared    \* history: jobs submitted before a Clear that was not dropped

goroutineVars == <<cur, pending, paused, run>>
vars == <<ctrl, goroutineVars, answer, closer, cleared>>

Result == {"ok", "interrupted", "failed", "closed"}

TypeOK ==
  /\ ctrl \in Seq(Job \cup Signal) /\ Len(ctrl) <= CtrlCap
  /\ cur \in Job \cup {None} /\ pending \in Seq(Job) /\ paused \in BOOLEAN
  /\ run \in {"drain", "frame", "exited"}
  /\ answer \in [Job -> Result \cup {"new", "none"}]
  /\ closer \in {"open", "closing", "sent", "closed"}
  /\ cleared \subseteq Job

Init ==
  /\ ctrl = <<>> /\ cur = None /\ pending = <<>> /\ paused = FALSE
  /\ run = "drain" /\ closer = "open" /\ cleared = {}
  /\ answer = [j \in Job |-> "new"]

\* A send on the control channel does not block.
Room == Len(ctrl) < CtrlCap
InCtrl(j) == \E i \in 1..Len(ctrl) : ctrl[i] = j
InPending(j) == \E i \in 1..Len(pending) : pending[i] = j

-----------------------------------------------------------------------------
(* The operations other goroutines call.                                   *)

\* Submit's select: when the channel has room and the goroutine has exited,
\* either case may be taken.
Submit(j) ==
  /\ answer[j] = "new"
  /\ \/ Room /\ ctrl' = Append(ctrl, j) /\ answer' = [answer EXCEPT ![j] = "none"]
     \/ run = "exited" /\ answer' = [answer EXCEPT ![j] = "closed"] /\ UNCHANGED ctrl
  /\ UNCHANGED <<goroutineVars, closer, cleared>>

\* Non-blocking: dropped, which changes nothing, when the channel is full.
Clear ==
  /\ Room
  /\ ctrl' = Append(ctrl, "clear")
  /\ cleared' = cleared \cup {j \in Job : answer[j] # "new"}
  /\ UNCHANGED <<goroutineVars, answer, closer>>

PauseOrResume ==
  /\ Room
  /\ \E s \in {"pause", "resume"} : ctrl' = Append(ctrl, s)
  /\ UNCHANGED <<goroutineVars, answer, closer, cleared>>

\* cleanupCall closes the stream of a call once.
CloseBegins ==
  /\ closer = "open"
  /\ closer' = IF run = "exited" THEN "closed" ELSE "closing"
  /\ UNCHANGED <<ctrl, goroutineVars, answer, cleared>>

\* Mutant: the shutdown is sent like a Clear, and lost when the channel is full.
MutLossyShutdown ==
  /\ closer = "closing"
  /\ ctrl' = IF Room THEN Append(ctrl, "shutdown") ELSE ctrl
  /\ closer' = "sent"
  /\ UNCHANGED <<goroutineVars, answer, cleared>>

CloseSends ==
  /\ closer = "closing" /\ Room
  /\ ctrl' = Append(ctrl, "shutdown")
  /\ closer' = "sent"
  /\ UNCHANGED <<goroutineVars, answer, cleared>>

CloseReturns ==
  /\ closer \in {"closing", "sent"} /\ run = "exited"
  /\ closer' = "closed"
  /\ UNCHANGED <<ctrl, goroutineVars, answer, cleared>>

-----------------------------------------------------------------------------
(* The goroutine.                                                          *)

\* The jobs the goroutine holds.
Held == {j \in Job : cur = j \/ InPending(j)}

\* Mutant: the jobs behind the current one survive.
MutKeepWaiting(result) ==
  /\ answer' = [j \in Job |-> IF j = cur THEN result ELSE answer[j]]
  /\ cur' = None
  /\ UNCHANGED pending

\* finishCurrent, then dropPending.
FinishAll(result) ==
  /\ answer' = [j \in Job |-> IF j \in Held THEN result ELSE answer[j]]
  /\ cur' = None
  /\ pending' = <<>>

\* Mutant: the goroutine takes clears first, as from a channel of their own.
MutClearFirst ==
  /\ run = "drain" /\ InCtrl("clear")
  /\ \E i \in 1..Len(ctrl) :
       /\ ctrl[i] = "clear"
       /\ ctrl' = SubSeq(ctrl, 1, i - 1) \o SubSeq(ctrl, i + 1, Len(ctrl))
  /\ answer' = [j \in Job |-> IF j \in Held \/ InCtrl(j) THEN "interrupted" ELSE answer[j]]
  /\ cur' = None /\ pending' = <<>>
  /\ UNCHANGED <<paused, run, closer, cleared>>

HandleClear ==
  /\ run = "drain" /\ ctrl # <<>> /\ Head(ctrl) = "clear"
  /\ ctrl' = Tail(ctrl)
  /\ FinishAll("interrupted")
  /\ UNCHANGED <<paused, run, closer, cleared>>

HandleShutdown ==
  /\ run = "drain" /\ ctrl # <<>> /\ Head(ctrl) = "shutdown"
  /\ ctrl' = Tail(ctrl)
  /\ FinishAll("interrupted")
  /\ run' = "exited"
  /\ UNCHANGED <<paused, closer, cleared>>

HandleSubmit ==
  /\ run = "drain" /\ ctrl # <<>> /\ Head(ctrl) \in Job
  /\ ctrl' = Tail(ctrl)
  /\ \/ cur = None /\ cur' = Head(ctrl) /\ UNCHANGED pending
     \/ cur # None /\ pending' = Append(pending, Head(ctrl)) /\ UNCHANGED cur
  /\ UNCHANGED <<paused, run, answer, closer, cleared>>

HandlePause ==
  /\ run = "drain" /\ ctrl # <<>> /\ Head(ctrl) \in {"pause", "resume"}
  /\ ctrl' = Tail(ctrl)
  /\ paused' = (Head(ctrl) = "pause")
  /\ UNCHANGED <<cur, pending, run, answer, closer, cleared>>

\* drainOps finds the channel empty.
Drained ==
  /\ run = "drain" /\ ctrl = <<>>
  /\ run' = "frame"
  /\ UNCHANGED <<ctrl, cur, pending, paused, answer, closer, cleared>>

AtFrame == run = "frame" /\ run' = "drain" /\ UNCHANGED <<ctrl, paused, closer, cleared>>

\* A frame of the source, or silence while it has none.
FrameSent ==
  /\ AtFrame /\ cur # None /\ ~paused
  /\ UNCHANGED <<cur, pending, answer>>

\* Mutant: the next job is not taken up.
MutNoPromotion ==
  /\ AtFrame /\ cur # None /\ ~paused
  /\ answer' = [answer EXCEPT ![cur] = "ok"]
  /\ cur' = None
  /\ UNCHANGED pending

\* EOF: finishCurrent(nil), promoteNext.
SourceEnds ==
  /\ AtFrame /\ cur # None /\ ~paused
  /\ answer' = [answer EXCEPT ![cur] = "ok"]
  /\ \/ pending = <<>> /\ cur' = None /\ UNCHANGED pending
     \/ pending # <<>> /\ cur' = Head(pending) /\ pending' = Tail(pending)

\* A write or the source fails: finishCurrent(err), and nothing is promoted.
SourceFails ==
  /\ AtFrame /\ cur # None /\ ~paused
  /\ answer' = [answer EXCEPT ![cur] = "failed"]
  /\ cur' = None
  /\ UNCHANGED pending

SilenceSent ==
  /\ AtFrame /\ (cur = None \/ paused)
  /\ UNCHANGED <<cur, pending, answer>>

\* The stream of a call whose media is gone ends by itself.
SilenceFails ==
  /\ run = "frame" /\ (cur = None \/ paused)
  /\ FinishAll("failed")
  /\ run' = "exited"
  /\ UNCHANGED <<ctrl, paused, closer, cleared>>

-----------------------------------------------------------------------------
Handle == HandleClear \/ HandleShutdown \/ HandleSubmit \/ HandlePause
Frame  == FrameSent \/ SourceEnds \/ SourceFails \/ SilenceSent \/ SilenceFails
Run    == Handle \/ Drained \/ Frame
Close  == CloseBegins \/ CloseSends \/ CloseReturns

Next == (\E j \in Job : Submit(j)) \/ Clear \/ PauseOrResume \/ Close \/ Run

Spec == Init /\ [][Next]_vars

(***************************************************************************)
(* Fairness: the goroutine runs; a Close that has begun goes on, and when  *)
(* it is blocked on the full channel Go's runtime hands it the first slot  *)
(* that frees up (strong fairness).  No source need end, nobody need call  *)
(* Close; that cleanupCall does, CallLifecycle shows of answered calls.    *)
(***************************************************************************)
Fairness == WF_vars(Run) /\ SF_vars(CloseSends) /\ WF_vars(CloseReturns)

FairSpec == Spec /\ Fairness
-----------------------------------------------------------------------------
(* Safety.                                                                 *)

\* A job that was submitted is in exactly one place, the channel, the queue,
\* the player, or with its submitter, so it is answered at most once and the
\* goroutine never blocks on an answer nobody takes (output_stream.go:189-207,
\* 224-230, 250-258; the answer channel has room for one, line 123).
OnePlace ==
  \A j \in Job :
    /\ InCtrl(j) => cur # j /\ ~InPending(j)
    /\ InPending(j) => cur # j
    /\ answer[j] = "none" <=> InCtrl(j) \/ InPending(j) \/ cur = j

\* A job is interrupted only by a Clear sent after it or by Close, never by a
\* Clear that came before it (output_stream.go:34-37, 48-52).
InterruptedOnlyByLaterClear ==
  \A j \in Job : answer[j] = "interrupted" => j \in cleared \/ closer # "open"

\* Jobs wait behind no job only after one has failed: then nothing is promoted
\* until a later job has been submitted and ended (250-258, 273-296).
StallsOnlyAfterFailure ==
  cur = None /\ pending # <<>> => \E j \in Job : answer[j] = "failed"

-----------------------------------------------------------------------------
(* Liveness.                                                               *)

\* Left in the channel by a goroutine that has exited.
Stranded(j) == run = "exited" /\ InCtrl(j)

\* Once a stream is being closed, whoever waits for a job is answered, unless
\* the job reached the channel too late for the goroutine (161-175, 209-218).
EveryoneAnswered ==
  \A j \in Job :
    answer[j] = "none" /\ closer # "open" ~> answer[j] # "none" \/ Stranded(j)

\* Close returns, however full the channel is (169-174).
CloseCompletes == closer = "closing" ~> closer = "closed"

\* output_stream.go:161-162: Close signals "ErrInterrupted to any blocked
\* callers, and waits for the goroutine to exit": nobody is left waiting.
CloseAnswersEveryone ==
  closer = "closed" => \A j \in Job : answer[j] # "none"
=============================================================================
