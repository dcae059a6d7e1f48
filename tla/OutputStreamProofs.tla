------------------------- MODULE OutputStreamProofs -------------------------
(***************************************************************************)
(* Theorems about OutputStream, for every set of jobs and every capacity   *)
(* of the control channel.                                                 *)
(***************************************************************************)
EXTENDS OutputStream, TLAPS

-----------------------------------------------------------------------------
(* What the two sequences do when one element enters or leaves them.       *)

\* x is somewhere in s.
In(x, s) == \E i \in 1..Len(s) : s[i] = x

\* No element of S is twice in s.
Distinct(s, S) == \A i, k \in 1..Len(s) : s[i] = s[k] /\ s[i] \in S => i = k

\* Appending to a sequence, index by index.
LEMMA AppendIndex ==
  ASSUME NEW S, NEW s \in Seq(S), NEW e \in S
  PROVE  /\ Append(s, e) \in Seq(S)
         /\ Len(Append(s, e)) = Len(s) + 1
         /\ \A i \in 1..Len(s) : Append(s, e)[i] = s[i]
         /\ Append(s, e)[Len(s) + 1] = e
  OBVIOUS

\* The rest of a sequence, index by index.
LEMMA TailIndex ==
  ASSUME NEW S, NEW s \in Seq(S), s # <<>>
  PROVE  /\ Tail(s) \in Seq(S) /\ Head(s) \in S
         /\ Len(s) \in Nat \ {0} /\ Len(Tail(s)) = Len(s) - 1
         /\ Head(s) = s[1]
         /\ \A i \in 1..(Len(s) - 1) : Tail(s)[i] = s[i + 1]
  OBVIOUS

\* What is in a sequence that grew.
LEMMA InAppend ==
  ASSUME NEW S, NEW s \in Seq(S), NEW e \in S, NEW x
  PROVE  In(x, Append(s, e)) <=> In(x, s) \/ x = e
  <1>1. Len(s) \in Nat OBVIOUS
  <1>2. In(x, s) => In(x, Append(s, e)) BY AppendIndex, <1>1 DEF In
  <1>3. x = e => In(x, Append(s, e)) BY AppendIndex, <1>1 DEF In
  <1>4. In(x, Append(s, e)) => In(x, s) \/ x = e BY AppendIndex, <1>1 DEF In
  <1> QED BY <1>2, <1>3, <1>4

\* A sequence without repetitions stays so when something new enters it.
LEMMA DistinctAppend ==
  ASSUME NEW S, NEW T, NEW s \in Seq(S), NEW e \in S, Distinct(s, T),
         e \in T => ~In(e, s)
  PROVE  Distinct(Append(s, e), T)
  <1>1. Len(s) \in Nat OBVIOUS
  <1> QED BY AppendIndex, <1>1 DEF In, Distinct

\* What is in a sequence that lost its head.
LEMMA InTail ==
  ASSUME NEW S, NEW T, NEW s \in Seq(S), s # <<>>, Distinct(s, T), NEW x
  PROVE  /\ In(x, Tail(s)) => In(x, s)
         /\ In(Head(s), s)
         /\ In(x, s) => In(x, Tail(s)) \/ x = Head(s)
         /\ Head(s) \in T => ~In(Head(s), Tail(s))
  <1>1. In(x, Tail(s)) => In(x, s) BY TailIndex DEF In
  <1>2. In(Head(s), s) BY TailIndex DEF In
  <1>3. ASSUME In(x, s), x # Head(s) PROVE In(x, Tail(s))
    <2>1. PICK i \in 1..Len(s) : s[i] = x BY <1>3 DEF In
    <2>2. i # 1 BY <2>1, <1>3, TailIndex
    <2>3. i - 1 \in 1..(Len(s) - 1) /\ (i - 1) + 1 = i BY <2>2, TailIndex
    <2>4. Tail(s)[i - 1] = x BY <2>1, <2>3, TailIndex
    <2> QED BY <2>3, <2>4, TailIndex DEF In
  <1>4. ASSUME Head(s) \in T, In(Head(s), Tail(s)) PROVE FALSE
    <2>1. PICK i \in 1..Len(Tail(s)) : Tail(s)[i] = Head(s) BY <1>4 DEF In
    <2>2. i + 1 \in 1..Len(s) /\ i + 1 # 1 /\ s[i + 1] = s[1] BY <2>1, TailIndex
    <2> QED BY <2>2, <1>4, TailIndex DEF Distinct
  <1> QED BY <1>1, <1>2, <1>3, <1>4

\* A sequence without repetitions stays so when its head leaves it.
LEMMA DistinctTail ==
  ASSUME NEW S, NEW T, NEW s \in Seq(S), s # <<>>, Distinct(s, T)
  PROVE  Distinct(Tail(s), T)
  BY TailIndex DEF Distinct

\* The empty sequence.
LEMMA EmptySeq ==
  ASSUME NEW S, NEW T
  PROVE  /\ <<>> \in Seq(S) /\ Distinct(<<>>, T) /\ Len(<<>>) = 0
         /\ \A x : ~In(x, <<>>)
  BY DEF In, Distinct

-----------------------------------------------------------------------------
(* The inductive invariant.                                                *)

\* Nothing is twice in the channel or in the queue.
NoRepeat == Distinct(ctrl, Job) /\ Distinct(pending, Job)

\* A job that waits and is not behind a Clear in the channel was submitted before it.
ClearsAfter ==
  \A i \in 1..Len(ctrl) : ctrl[i] = "clear" =>
    \A j \in Job : answer[j] = "none" =>
      j \in cleared \/ \E k \in 1..Len(ctrl) : k > i /\ ctrl[k] = j

\* Only Close sends a shutdown.
ShutdownIsClose == In("shutdown", ctrl) => closer # "open"

IInv ==
  /\ TypeOK /\ OnePlace /\ NoRepeat /\ ClearsAfter /\ ShutdownIsClose
  /\ InterruptedOnlyByLaterClear /\ StallsOnlyAfterFailure

LEMMA InitIInv == Init => IInv
  <1> SUFFICES ASSUME Init PROVE IInv OBVIOUS
  <1>1. TypeOK
    <2>1. <<>> \in Seq(Job \cup Signal) /\ <<>> \in Seq(Job) /\ Len(<<>>) <= CtrlCap
      BY StreamAssumption
    <2>2. answer \in [Job -> Result \cup {"new", "none"}] BY DEF Init
    <2> QED BY <2>1, <2>2 DEF Init, TypeOK
  <1>2. OnePlace
    <2>1. \A j \in Job : ~InCtrl(j) /\ ~InPending(j) /\ cur # j /\ answer[j] = "new"
      <3>1. \A j \in Job : ~In(j, ctrl) /\ ~In(j, pending) BY EmptySeq DEF Init
      <3> QED BY <3>1, StreamAssumption DEF Init, In, InCtrl, InPending
    <2> QED BY <2>1 DEF OnePlace
  <1>3. NoRepeat BY EmptySeq DEF Init, NoRepeat
  <1>4. ClearsAfter /\ ShutdownIsClose BY EmptySeq DEF Init, ClearsAfter, ShutdownIsClose
  <1>5. InterruptedOnlyByLaterClear /\ StallsOnlyAfterFailure
    BY DEF Init, InterruptedOnlyByLaterClear, StallsOnlyAfterFailure
  <1> QED BY <1>1, <1>2, <1>3, <1>4, <1>5 DEF IInv

\* An operation e enters the channel: what its capacity and order keep.
LEMMA Sent ==
  ASSUME IInv, NEW e \in Job \cup Signal, Room, ctrl' = Append(ctrl, e),
         e \in Job => ~In(e, ctrl)
  PROVE  /\ ctrl' \in Seq(Job \cup Signal) /\ Len(ctrl') <= CtrlCap
         /\ Distinct(ctrl', Job)
         /\ \A x : In(x, ctrl') <=> In(x, ctrl) \/ x = e
  <1>1. ctrl \in Seq(Job \cup Signal) BY DEF IInv, TypeOK
  <1>2. Len(ctrl) \in Nat BY <1>1
  <1>3. ctrl' \in Seq(Job \cup Signal) /\ Len(ctrl') <= CtrlCap
    BY <1>1, <1>2, AppendIndex, StreamAssumption DEF Room
  <1>4. Distinct(ctrl', Job)
    BY <1>1, DistinctAppend DEF IInv, NoRepeat
  <1>5. \A x : In(x, ctrl') <=> In(x, ctrl) \/ x = e BY <1>1, InAppend
  <1> QED BY <1>3, <1>4, <1>5

\* The head of the channel is taken: what that keeps.
LEMMA Received ==
  ASSUME IInv, ctrl # <<>>, ctrl' = Tail(ctrl)
  PROVE  /\ ctrl' \in Seq(Job \cup Signal) /\ Len(ctrl') <= CtrlCap
         /\ Distinct(ctrl', Job)
         /\ In(Head(ctrl), ctrl) /\ Head(ctrl) = ctrl[1] /\ 1 \in 1..Len(ctrl)
         /\ \A x : In(x, ctrl') => In(x, ctrl)
         /\ \A x : In(x, ctrl) => In(x, ctrl') \/ x = Head(ctrl)
         /\ Head(ctrl) \in Job => ~In(Head(ctrl), ctrl')
  <1>1. ctrl \in Seq(Job \cup Signal) /\ Len(ctrl) <= CtrlCap /\ Distinct(ctrl, Job)
    BY DEF IInv, TypeOK, NoRepeat
  <1>2. ctrl' \in Seq(Job \cup Signal) /\ Len(ctrl') <= CtrlCap /\ 1 \in 1..Len(ctrl)
    BY <1>1, TailIndex, StreamAssumption
  <1>3. Distinct(ctrl', Job) BY <1>1, DistinctTail
  <1>4. Head(ctrl) = ctrl[1] BY <1>1, TailIndex
  <1>5. /\ In(Head(ctrl), ctrl)
        /\ \A x : In(x, ctrl') => In(x, ctrl)
        /\ \A x : In(x, ctrl) => In(x, ctrl') \/ x = Head(ctrl)
        /\ Head(ctrl) \in Job => ~In(Head(ctrl), ctrl')
    BY <1>1, InTail
  <1> QED BY <1>2, <1>3, <1>4, <1>5

\* ClearsAfter survives a receive that answers nobody new.
LEMMA ClearsAfterReceive ==
  ASSUME IInv, ctrl # <<>>, ctrl' = Tail(ctrl), cleared' = cleared,
         \A j \in Job : answer'[j] = "none" => answer[j] = "none"
  PROVE  ClearsAfter'
  <1>1. ctrl \in Seq(Job \cup Signal) BY DEF IInv, TypeOK
  <1> SUFFICES ASSUME NEW i \in 1..Len(ctrl'), ctrl'[i] = "clear", NEW j \in Job,
                      answer'[j] = "none", j \notin cleared
               PROVE  \E k \in 1..Len(ctrl') : k > i /\ ctrl'[k] = j
    BY DEF ClearsAfter
  <1>2. i + 1 \in 1..Len(ctrl) /\ ctrl[i + 1] = "clear" BY <1>1, TailIndex
  <1>3. PICK k \in 1..Len(ctrl) : k > i + 1 /\ ctrl[k] = j
    BY <1>2 DEF IInv, ClearsAfter
  <1>4. k - 1 \in 1..Len(ctrl') /\ k - 1 > i /\ (k - 1) + 1 = k BY <1>1, <1>3, TailIndex
  <1>5. ctrl'[k - 1] = j BY <1>1, <1>3, <1>4, TailIndex
  <1> QED BY <1>4, <1>5

\* FinishAll answers the jobs the goroutine holds, each for the first time.
LEMMA Finished ==
  ASSUME IInv, NEW result \in Result, FinishAll(result)
  PROVE  /\ answer' \in [Job -> Result \cup {"new", "none"}]
         /\ \A j \in Held : answer[j] = "none" /\ answer'[j] = result /\ ~In(j, ctrl)
         /\ \A j \in Job \ Held : answer'[j] = answer[j]
         /\ cur' = None /\ pending' = <<>>
  <1>1. answer \in [Job -> Result \cup {"new", "none"}] BY DEF IInv, TypeOK
  <1>2. answer' \in [Job -> Result \cup {"new", "none"}] BY <1>1 DEF FinishAll
  <1>3. \A j \in Held : answer[j] = "none" /\ ~In(j, ctrl)
    BY DEF IInv, OnePlace, Held, In, InCtrl
  <1> QED BY <1>2, <1>3 DEF FinishAll, Held

-----------------------------------------------------------------------------
(* Every step keeps the invariant.                                         *)

LEMMA SubmitStep ==
  ASSUME IInv, NEW j \in Job, Submit(j)
  PROVE  IInv'
  <1>1. CASE Room /\ ctrl' = Append(ctrl, j) /\ answer' = [answer EXCEPT ![j] = "none"]
    <2>0. answer[j] = "new" /\ UNCHANGED <<goroutineVars, closer, cleared>>
      BY DEF Submit
    <2>1. ~In(j, ctrl) /\ ~InPending(j) /\ cur # j
      BY <2>0 DEF IInv, OnePlace, InCtrl, In
    <2>2. /\ ctrl' \in Seq(Job \cup Signal) /\ Len(ctrl') <= CtrlCap
          /\ Distinct(ctrl', Job)
          /\ \A x : In(x, ctrl') <=> In(x, ctrl) \/ x = j
      BY <1>1, <2>1, Sent
    <2>3. answer'[j] = "none" /\ \A i \in Job \ {j} : answer'[i] = answer[i]
      BY <1>1 DEF IInv, TypeOK
    <2>4. TypeOK'
      BY <1>1, <2>0, <2>2 DEF IInv, TypeOK, goroutineVars
    <2>5. OnePlace'
      BY <2>0, <2>1, <2>2, <2>3 DEF IInv, OnePlace, InCtrl, InPending, In, goroutineVars
    <2>6. NoRepeat' BY <2>0, <2>2 DEF IInv, NoRepeat, goroutineVars
    <2>7. ClearsAfter'
      <3>1. ctrl \in Seq(Job \cup Signal) /\ j # "clear"
        BY StreamAssumption DEF IInv, TypeOK, Signal
      <3>2. /\ Len(ctrl') = Len(ctrl) + 1 /\ Len(ctrl) \in Nat
            /\ \A i \in 1..Len(ctrl) : ctrl'[i] = ctrl[i]
            /\ ctrl'[Len(ctrl) + 1] = j
        BY <1>1, <3>1, AppendIndex
      <3> QED BY <2>0, <2>3, <3>1, <3>2 DEF IInv, ClearsAfter
    <2>8. ShutdownIsClose'
      BY <2>0, <2>2, StreamAssumption DEF IInv, ShutdownIsClose, Signal
    <2>9. InterruptedOnlyByLaterClear' /\ StallsOnlyAfterFailure'
      BY <2>0, <2>3
      DEF IInv, InterruptedOnlyByLaterClear, StallsOnlyAfterFailure, goroutineVars
    <2> QED BY <2>4, <2>5, <2>6, <2>7, <2>8, <2>9 DEF IInv
  <1>2. CASE answer' = [answer EXCEPT ![j] = "closed"] /\ UNCHANGED ctrl
    <2>0. answer[j] = "new" /\ UNCHANGED <<goroutineVars, closer, cleared>>
      BY DEF Submit
    <2>3. answer'[j] = "closed" /\ \A i \in Job \ {j} : answer'[i] = answer[i]
      BY <1>2 DEF IInv, TypeOK
    <2>4. TypeOK' BY <1>2, <2>0 DEF IInv, TypeOK, goroutineVars, Result
    <2>5. OnePlace'
      BY <1>2, <2>0, <2>3 DEF IInv, OnePlace, InCtrl, InPending, goroutineVars
    <2>6. NoRepeat' /\ ShutdownIsClose'
      BY <1>2, <2>0 DEF IInv, NoRepeat, ShutdownIsClose, goroutineVars
    <2>7. ClearsAfter' BY <1>2, <2>0, <2>3 DEF IInv, ClearsAfter
    <2>9. InterruptedOnlyByLaterClear' /\ StallsOnlyAfterFailure'
      BY <2>0, <2>3
      DEF IInv, InterruptedOnlyByLaterClear, StallsOnlyAfterFailure, goroutineVars
    <2> QED BY <2>4, <2>5, <2>6, <2>7, <2>9 DEF IInv
  <1> QED BY <1>1, <1>2 DEF Submit

\* A Clear, Pause, Resume or shutdown enters the channel.
LEMMA SignalSent ==
  ASSUME IInv, NEW e \in Signal, Room, ctrl' = Append(ctrl, e),
         UNCHANGED <<goroutineVars, answer>>,
         cleared \subseteq cleared', cleared' \subseteq Job,
         e = "clear" => \A j \in Job : answer[j] # "new" => j \in cleared',
         closer' \in {"open", "closing", "sent", "closed"},
         closer # "open" => closer' # "open",
         e = "shutdown" => closer' # "open"
  PROVE  IInv'
  <1>1. e \notin Job BY StreamAssumption
  <1>2. /\ ctrl' \in Seq(Job \cup Signal) /\ Len(ctrl') <= CtrlCap
        /\ Distinct(ctrl', Job)
        /\ \A x : In(x, ctrl') <=> In(x, ctrl) \/ x = e
    BY <1>1, Sent
  <1>3. TypeOK' BY <1>2 DEF IInv, TypeOK, goroutineVars
  <1>4. OnePlace'
    BY <1>1, <1>2 DEF IInv, OnePlace, InCtrl, InPending, In, goroutineVars
  <1>5. NoRepeat' BY <1>2 DEF IInv, NoRepeat, goroutineVars
  <1>6. ClearsAfter'
    <2>1. ctrl \in Seq(Job \cup Signal) BY DEF IInv, TypeOK
    <2>2. /\ Len(ctrl') = Len(ctrl) + 1 /\ Len(ctrl) \in Nat
          /\ \A i \in 1..Len(ctrl) : ctrl'[i] = ctrl[i]
          /\ ctrl'[Len(ctrl) + 1] = e
      BY <2>1, AppendIndex
    <2> SUFFICES ASSUME NEW i \in 1..Len(ctrl'), ctrl'[i] = "clear", NEW j \in Job,
                        answer'[j] = "none", j \notin cleared'
                 PROVE  \E k \in 1..Len(ctrl') : k > i /\ ctrl'[k] = j
      BY DEF ClearsAfter
    <2>3. i # Len(ctrl) + 1 BY <2>2
    <2>4. i \in 1..Len(ctrl) /\ ctrl[i] = "clear" BY <2>2, <2>3
    <2>5. PICK k \in 1..Len(ctrl) : k > i /\ ctrl[k] = j
      BY <2>4 DEF IInv, ClearsAfter
    <2> QED BY <2>2, <2>5
  <1>7. ShutdownIsClose' BY <1>2 DEF IInv, ShutdownIsClose
  <1>8. InterruptedOnlyByLaterClear' /\ StallsOnlyAfterFailure'
    BY DEF IInv, InterruptedOnlyByLaterClear, StallsOnlyAfterFailure, goroutineVars
  <1> QED BY <1>3, <1>4, <1>5, <1>6, <1>7, <1>8 DEF IInv

\* A step that touches neither the channel nor the jobs.
LEMMA QuietStep ==
  ASSUME IInv, UNCHANGED <<ctrl, cur, pending, paused, answer, cleared>>,
         run' \in {"drain", "frame", "exited"},
         closer' \in {"open", "closing", "sent", "closed"},
         closer # "open" => closer' # "open"
  PROVE  IInv'
  <1>1. TypeOK' /\ NoRepeat' BY DEF IInv, TypeOK, NoRepeat
  <1>2. OnePlace' BY DEF IInv, OnePlace, InCtrl, InPending
  <1>3. ClearsAfter' /\ ShutdownIsClose' BY DEF IInv, ClearsAfter, ShutdownIsClose
  <1>4. InterruptedOnlyByLaterClear' /\ StallsOnlyAfterFailure'
    BY DEF IInv, InterruptedOnlyByLaterClear, StallsOnlyAfterFailure
  <1> QED BY <1>1, <1>2, <1>3, <1>4 DEF IInv

LEMMA CallersStep ==
  ASSUME IInv, Clear \/ PauseOrResume \/ Close
  PROVE  IInv'
  <1>0. closer \in {"open", "closing", "sent", "closed"} /\ cleared \subseteq Job
        /\ run \in {"drain", "frame", "exited"}
    BY DEF IInv, TypeOK
  <1>1. CASE Clear BY <1>0, <1>1, SignalSent DEF Clear, Signal
  <1>2. CASE PauseOrResume BY <1>0, <1>2, SignalSent DEF PauseOrResume, Signal
  <1>3. CASE CloseSends BY <1>0, <1>3, SignalSent DEF CloseSends, Signal
  <1>4. CASE CloseBegins BY <1>0, <1>4, QuietStep DEF CloseBegins, goroutineVars
  <1>5. CASE CloseReturns BY <1>0, <1>5, QuietStep DEF CloseReturns, goroutineVars
  <1> QED BY <1>1, <1>2, <1>3, <1>4, <1>5 DEF Close

\* The goroutine answers every job it holds: the channel is left alone, or its
\* head, which is no job, is taken.
LEMMA FinishStep ==
  ASSUME IInv, NEW result \in Result, FinishAll(result),
         \/ ctrl' = ctrl
         \/ ctrl # <<>> /\ ctrl' = Tail(ctrl) /\ Head(ctrl) \in Signal,
         run' \in {"drain", "frame", "exited"},
         UNCHANGED <<paused, closer, cleared>>,
         result = "interrupted" => closer # "open" \/ Held \subseteq cleared
  PROVE  IInv'
  <1>1. /\ answer' \in [Job -> Result \cup {"new", "none"}]
        /\ \A j \in Held : answer[j] = "none" /\ answer'[j] = result /\ ~In(j, ctrl)
        /\ \A j \in Job \ Held : answer'[j] = answer[j]
        /\ cur' = None /\ pending' = <<>>
    BY Finished
  <1>2. /\ ctrl' \in Seq(Job \cup Signal) /\ Len(ctrl') <= CtrlCap
        /\ Distinct(ctrl', Job)
        /\ \A x : In(x, ctrl') => In(x, ctrl)
        /\ \A j \in Job : In(j, ctrl) => In(j, ctrl')
    <2>1. CASE ctrl' = ctrl BY <2>1 DEF IInv, TypeOK, NoRepeat
    <2>2. CASE ctrl # <<>> /\ ctrl' = Tail(ctrl) /\ Head(ctrl) \in Signal
      <3>1. Head(ctrl) \notin Job BY <2>2, StreamAssumption
      <3> QED BY <2>2, <3>1, Received
    <2> QED BY <2>1, <2>2
  <1>3. TypeOK' BY <1>1, <1>2, EmptySeq DEF IInv, TypeOK
  <1>4. OnePlace'
    <2>1. \A j \in Job : ~InPending(j)' /\ cur' # j
      BY <1>1, StreamAssumption DEF InPending
    <2>2. \A j \in Job : answer'[j] = "none" <=> In(j, ctrl')
      BY <1>1, <1>2 DEF IInv, OnePlace, Held, In, InCtrl, Result
    <2> QED BY <2>1, <2>2 DEF OnePlace, InCtrl, In
  <1>5. NoRepeat' BY <1>1, <1>2, EmptySeq DEF NoRepeat
  <1>6. ClearsAfter'
    <2>1. \A j \in Job : answer'[j] = "none" => answer[j] = "none"
      BY <1>1 DEF Result
    <2>2. CASE ctrl' = ctrl BY <2>1, <2>2 DEF IInv, ClearsAfter
    <2>3. CASE ctrl # <<>> /\ ctrl' = Tail(ctrl) BY <2>1, <2>3, ClearsAfterReceive
    <2> QED BY <2>2, <2>3
  <1>7. ShutdownIsClose' BY <1>2 DEF IInv, ShutdownIsClose
  <1>8. InterruptedOnlyByLaterClear'
    BY <1>1 DEF IInv, InterruptedOnlyByLaterClear, Held
  <1>9. StallsOnlyAfterFailure' BY <1>1 DEF StallsOnlyAfterFailure
  <1> QED BY <1>3, <1>4, <1>5, <1>6, <1>7, <1>8, <1>9 DEF IInv

LEMMA HandleStep ==
  ASSUME IInv, Handle
  PROVE  IInv'
  <1>0. /\ closer \in {"open", "closing", "sent", "closed"}
        /\ run \in {"drain", "frame", "exited"}
    BY DEF IInv, TypeOK
  <1>1. CASE HandleClear
    <2>1. Held \subseteq cleared
      <3> SUFFICES ASSUME NEW j \in Held, j \notin cleared PROVE FALSE OBVIOUS
      <3>1. answer[j] = "none" /\ ~In(j, ctrl)
        BY DEF IInv, OnePlace, Held, In, InCtrl
      <3>2. 1 \in 1..Len(ctrl) /\ ctrl[1] = "clear"
        BY <1>1, TailIndex DEF HandleClear, IInv, TypeOK
      <3> QED BY <3>1, <3>2 DEF IInv, ClearsAfter, In, Held
    <2> QED BY <1>0, <1>1, <2>1, FinishStep DEF HandleClear, Signal, Result
  <1>2. CASE HandleShutdown
    <2>1. closer # "open"
      BY <1>2, InTail DEF HandleShutdown, IInv, TypeOK, NoRepeat, ShutdownIsClose
    <2> QED BY <1>0, <1>2, <2>1, FinishStep DEF HandleShutdown, Signal, Result
  <1>3. CASE HandleSubmit
    <2>0. /\ ctrl # <<>> /\ Head(ctrl) \in Job /\ ctrl' = Tail(ctrl)
          /\ UNCHANGED <<paused, run, answer, closer, cleared>>
      BY <1>3 DEF HandleSubmit
    <2>1. /\ ctrl' \in Seq(Job \cup Signal) /\ Len(ctrl') <= CtrlCap
          /\ Distinct(ctrl', Job)
          /\ In(Head(ctrl), ctrl)
          /\ \A x : In(x, ctrl') => In(x, ctrl)
          /\ \A x : In(x, ctrl) => In(x, ctrl') \/ x = Head(ctrl)
          /\ ~In(Head(ctrl), ctrl')
      BY <2>0, Received
    <2>2. cur # Head(ctrl) /\ ~In(Head(ctrl), pending) /\ answer[Head(ctrl)] = "none"
      BY <2>0, <2>1 DEF IInv, OnePlace, In, InCtrl, InPending
    <2>3. ClearsAfter' BY <2>0, ClearsAfterReceive
    <2>4. ShutdownIsClose' /\ InterruptedOnlyByLaterClear'
      BY <2>0, <2>1 DEF IInv, ShutdownIsClose, InterruptedOnlyByLaterClear
    <2>5. CASE cur = None /\ cur' = Head(ctrl) /\ UNCHANGED pending
      <3>1. TypeOK' /\ NoRepeat'
        BY <2>0, <2>1, <2>5 DEF IInv, TypeOK, NoRepeat
      <3>2. OnePlace'
        BY <2>0, <2>1, <2>2, <2>5, StreamAssumption
        DEF IInv, OnePlace, In, InCtrl, InPending
      <3>3. StallsOnlyAfterFailure' BY <2>0, <2>5, StreamAssumption DEF StallsOnlyAfterFailure
      <3> QED BY <2>3, <2>4, <3>1, <3>2, <3>3 DEF IInv
    <2>6. CASE cur # None /\ pending' = Append(pending, Head(ctrl)) /\ UNCHANGED cur
      <3>1. pending \in Seq(Job) /\ Distinct(pending, Job) BY DEF IInv, TypeOK, NoRepeat
      <3>2. pending' \in Seq(Job) BY <2>0, <2>6, <3>1, AppendIndex
      <3>3. Distinct(pending', Job) BY <2>0, <2>2, <2>6, <3>1, DistinctAppend
      <3>4. \A x : In(x, pending') <=> In(x, pending) \/ x = Head(ctrl)
        BY <2>0, <2>6, <3>1, InAppend
      <3>5. TypeOK' /\ NoRepeat'
        BY <2>0, <2>1, <2>6, <3>2, <3>3 DEF IInv, TypeOK, NoRepeat
      <3>6. OnePlace'
        BY <2>0, <2>1, <2>2, <2>6, <3>4 DEF IInv, OnePlace, In, InCtrl, InPending
      <3>7. StallsOnlyAfterFailure' BY <2>6 DEF StallsOnlyAfterFailure
      <3> QED BY <2>3, <2>4, <3>5, <3>6, <3>7 DEF IInv
    <2> QED BY <1>3, <2>5, <2>6 DEF HandleSubmit
  <1>4. CASE HandlePause
    <2>0. /\ ctrl # <<>> /\ ctrl' = Tail(ctrl) /\ Head(ctrl) \notin Job
          /\ paused' \in BOOLEAN
          /\ UNCHANGED <<cur, pending, run, answer, closer, cleared>>
      BY <1>4, StreamAssumption DEF HandlePause, Signal
    <2>1. /\ ctrl' \in Seq(Job \cup Signal) /\ Len(ctrl') <= CtrlCap
          /\ Distinct(ctrl', Job)
          /\ \A x : In(x, ctrl') => In(x, ctrl)
          /\ \A x : In(x, ctrl) => In(x, ctrl') \/ x = Head(ctrl)
      BY <2>0, Received
    <2>2. TypeOK' /\ NoRepeat' BY <2>0, <2>1 DEF IInv, TypeOK, NoRepeat
    <2>3. OnePlace' BY <2>0, <2>1 DEF IInv, OnePlace, In, InCtrl, InPending
    <2>4. ClearsAfter' BY <2>0, ClearsAfterReceive
    <2>5. ShutdownIsClose' /\ InterruptedOnlyByLaterClear' /\ StallsOnlyAfterFailure'
      BY <2>0, <2>1
      DEF IInv, ShutdownIsClose, InterruptedOnlyByLaterClear, StallsOnlyAfterFailure
    <2> QED BY <2>2, <2>3, <2>4, <2>5 DEF IInv
  <1> QED BY <1>1, <1>2, <1>3, <1>4 DEF Handle

\* The current job is answered; the next one, if any is taken up, plays.
LEMMA CurrentAnswered ==
  ASSUME IInv, NEW result \in {"ok", "failed"}, cur # None,
         answer' = [answer EXCEPT ![cur] = result], run' = "drain",
         UNCHANGED <<ctrl, paused, closer, cleared>>,
         \/ cur' = None /\ UNCHANGED pending /\ (pending = <<>> \/ result = "failed")
         \/ pending # <<>> /\ cur' = Head(pending) /\ pending' = Tail(pending)
  PROVE  IInv'
  <1>0. cur \in Job BY DEF IInv, TypeOK
  <1>1. /\ answer' \in [Job -> Result \cup {"new", "none"}]
        /\ answer'[cur] = result /\ answer[cur] = "none"
        /\ \A j \in Job \ {cur} : answer'[j] = answer[j]
    BY <1>0 DEF IInv, TypeOK, OnePlace, Result
  <1>2. ClearsAfter' /\ ShutdownIsClose' /\ InterruptedOnlyByLaterClear'
    BY <1>1 DEF IInv, ClearsAfter, ShutdownIsClose, InterruptedOnlyByLaterClear
  <1>3. ~In(cur, ctrl) /\ ~In(cur, pending)
    BY <1>0 DEF IInv, OnePlace, In, InCtrl, InPending
  <1>4. CASE cur' = None /\ UNCHANGED pending /\ (pending = <<>> \/ result = "failed")
    <2>1. TypeOK' /\ NoRepeat' BY <1>1, <1>4 DEF IInv, TypeOK, NoRepeat
    <2>2. OnePlace'
      BY <1>0, <1>1, <1>3, <1>4, StreamAssumption
      DEF IInv, OnePlace, In, InCtrl, InPending
    <2>3. StallsOnlyAfterFailure' BY <1>0, <1>1, <1>4 DEF StallsOnlyAfterFailure
    <2> QED BY <1>2, <2>1, <2>2, <2>3 DEF IInv
  <1>5. CASE pending # <<>> /\ cur' = Head(pending) /\ pending' = Tail(pending)
    <2>1. pending \in Seq(Job) /\ Distinct(pending, Job) BY DEF IInv, TypeOK, NoRepeat
    <2>2. /\ pending' \in Seq(Job) /\ Head(pending) \in Job
          /\ Distinct(pending', Job)
      BY <1>5, <2>1, TailIndex, DistinctTail
    <2>3. /\ In(Head(pending), pending) /\ ~In(Head(pending), pending')
          /\ \A x : In(x, pending') => In(x, pending)
          /\ \A x : In(x, pending) => In(x, pending') \/ x = Head(pending)
      BY <1>5, <2>1, <2>2, InTail
    <2>4. TypeOK' /\ NoRepeat' BY <1>1, <1>5, <2>2 DEF IInv, TypeOK, NoRepeat
    <2>5. OnePlace'
      <3>1. \A j \in Job : /\ In(j, ctrl) => cur # j /\ ~In(j, pending)
                           /\ In(j, pending) => cur # j
                           /\ answer[j] = "none" <=> In(j, ctrl) \/ In(j, pending) \/ cur = j
        BY DEF IInv, OnePlace, In, InCtrl, InPending
      <3>2. answer'[cur] # "none" /\ ctrl' = ctrl BY <1>1
      <3>3. \A j \in Job : /\ In(j, ctrl') => cur' # j /\ ~In(j, pending')
                           /\ In(j, pending') => cur' # j
        BY <1>5, <2>2, <2>3, <3>1, <3>2
      <3>4. \A j \in Job : answer'[j] = "none"
                           <=> In(j, ctrl') \/ In(j, pending') \/ cur' = j
        <4> TAKE j \in Job
        <4>1. CASE j = cur
          <5>1. cur' # cur BY <1>3, <1>5, <2>3
          <5> QED BY <1>3, <2>3, <3>2, <4>1, <5>1
        <4>2. CASE j # cur
          <5>1. answer'[j] = answer[j] BY <1>1, <4>2
          <5>2. In(j, pending) <=> In(j, pending') \/ cur' = j BY <1>5, <2>3
          <5>3. In(j, ctrl') <=> In(j, ctrl) BY <3>2
          <5>4. answer[j] = "none" <=> In(j, ctrl) \/ In(j, pending) BY <3>1, <4>2
          <5> QED BY <5>1, <5>2, <5>3, <5>4
        <4> QED BY <4>1, <4>2
      <3> SUFFICES ASSUME NEW j \in Job
                   PROVE  /\ In(j, ctrl') => cur' # j /\ ~In(j, pending')
                          /\ In(j, pending') => cur' # j
                          /\ answer'[j] = "none" <=> In(j, ctrl') \/ In(j, pending') \/ cur' = j
        BY DEF OnePlace, In, InCtrl, InPending
      <3> QED BY <3>3, <3>4 DEF In
    <2>6. StallsOnlyAfterFailure' BY <1>5, <2>2, StreamAssumption DEF StallsOnlyAfterFailure
    <2> QED BY <1>2, <2>4, <2>5, <2>6 DEF IInv
  <1> QED BY <1>4, <1>5

LEMMA FrameStep ==
  ASSUME IInv, Frame \/ Drained
  PROVE  IInv'
  <1>0. /\ closer \in {"open", "closing", "sent", "closed"}
        /\ run \in {"drain", "frame", "exited"}
    BY DEF IInv, TypeOK
  <1>1. CASE FrameSent BY <1>0, <1>1, QuietStep DEF FrameSent, AtFrame
  <1>2. CASE SilenceSent BY <1>0, <1>2, QuietStep DEF SilenceSent, AtFrame
  <1>3. CASE Drained BY <1>0, <1>3, QuietStep DEF Drained
  <1>4. CASE SourceEnds BY <1>4, CurrentAnswered DEF SourceEnds, AtFrame
  <1>5. CASE SourceFails BY <1>5, CurrentAnswered DEF SourceFails, AtFrame
  <1>6. CASE SilenceFails BY <1>6, FinishStep DEF SilenceFails, Result
  <1> QED BY <1>1, <1>2, <1>3, <1>4, <1>5, <1>6 DEF Frame

-----------------------------------------------------------------------------
(* Theorems.                                                               *)

LEMMA Inductive == IInv /\ [Next]_vars => IInv'
  <1> SUFFICES ASSUME IInv, [Next]_vars PROVE IInv' OBVIOUS
  <1>1. CASE \E j \in Job : Submit(j) BY <1>1, SubmitStep
  <1>2. CASE Clear \/ PauseOrResume \/ Close BY <1>2, CallersStep
  <1>3. CASE Run BY <1>3, HandleStep, FrameStep DEF Run
  <1>4. CASE UNCHANGED vars
    <2>1. /\ closer \in {"open", "closing", "sent", "closed"}
          /\ run \in {"drain", "frame", "exited"}
      BY DEF IInv, TypeOK
    <2> QED BY <1>4, <2>1, QuietStep DEF vars, goroutineVars
  <1> QED BY <1>1, <1>2, <1>3, <1>4 DEF Next

\* The inductive invariant holds of every behaviour.
LEMMA Invariant == Spec => []IInv
  BY InitIInv, Inductive, PTL DEF Spec

\* The control channel never holds more than its capacity, and every variable
\* of the output goroutine has its type (output_stream.go:95, 184-187).
THEOREM TypeCorrect == Spec => []TypeOK
  <1>1. IInv => TypeOK BY DEF IInv
  <1> QED BY <1>1, Invariant, PTL

\* Every submitted job is in one place until its one answer (189-207, 224-258).
THEOREM AnsweredOnce == Spec => []OnePlace
  <1>1. IInv => OnePlace BY DEF IInv
  <1> QED BY <1>1, Invariant, PTL

\* A Clear never interrupts what is submitted after it (34-37, 48-52).
THEOREM ClearsInOrder == Spec => []InterruptedOnlyByLaterClear
  <1>1. IInv => InterruptedOnlyByLaterClear BY DEF IInv
  <1> QED BY <1>1, Invariant, PTL

\* Queued jobs wait behind silence only after a failure (250-258, 273-296).
THEOREM PromotedUnlessFailed == Spec => []StallsOnlyAfterFailure
  <1>1. IInv => StallsOnlyAfterFailure BY DEF IInv
  <1> QED BY <1>1, Invariant, PTL

-----------------------------------------------------------------------------
(* What is left when the stream is closed.                                 *)

\* A goroutine that has exited holds no job.
ExitedEmpty == run = "exited" => cur = None /\ pending = <<>>

\* A shutdown that was sent stays in the channel until the goroutine takes it.
ShutdownArrives ==
  /\ closer = "sent" => run = "exited" \/ In("shutdown", ctrl)
  /\ closer = "closed" => run = "exited"

LEMMA NextEnd ==
  ASSUME IInv, ExitedEmpty, ShutdownArrives, [Next]_vars
  PROVE  ExitedEmpty' /\ ShutdownArrives'
  <1>0. ctrl \in Seq(Job \cup Signal) /\ "shutdown" \in Signal /\ "shutdown" \notin Job
    BY StreamAssumption DEF IInv, TypeOK, Signal
  <1>1. ASSUME NEW e \in Job \cup Signal, ctrl' = Append(ctrl, e)
        PROVE  In("shutdown", ctrl') <=> In("shutdown", ctrl) \/ e = "shutdown"
    BY <1>0, <1>1, InAppend
  <1>2. ASSUME ctrl # <<>>, ctrl' = Tail(ctrl), Head(ctrl) # "shutdown"
        PROVE  In("shutdown", ctrl) => In("shutdown", ctrl')
    BY <1>2, Received
  <1> USE DEF ExitedEmpty, ShutdownArrives
  <1>3. ASSUME NEW j \in Job, Submit(j) PROVE ExitedEmpty' /\ ShutdownArrives'
    BY <1>1, <1>3 DEF Submit, goroutineVars
  <1>4. CASE Clear
    BY <1>1, <1>4 DEF Clear, goroutineVars, Signal
  <1>5. CASE PauseOrResume
    BY <1>1, <1>5 DEF PauseOrResume, goroutineVars, Signal
  <1>6. CASE CloseSends
    BY <1>0, <1>1, <1>6 DEF CloseSends, goroutineVars
  <1>7. CASE CloseBegins \/ CloseReturns
    BY <1>7 DEF CloseBegins, CloseReturns, goroutineVars
  <1>8. CASE HandleClear
    BY <1>2, <1>8 DEF HandleClear, FinishAll
  <1>9. CASE HandleShutdown
    BY <1>9 DEF HandleShutdown, FinishAll
  <1>10. CASE HandleSubmit
    BY <1>0, <1>2, <1>10 DEF HandleSubmit
  <1>11. CASE HandlePause
    BY <1>2, <1>11 DEF HandlePause
  <1>12. CASE Drained \/ Frame
    BY <1>12 DEF Drained, Frame, AtFrame, FrameSent, SourceEnds, SourceFails, SilenceSent,
      SilenceFails, FinishAll
  <1>13. CASE UNCHANGED vars
    BY <1>13 DEF vars, goroutineVars
  <1> QED
    BY <1>3, <1>4, <1>5, <1>6, <1>7, <1>8, <1>9, <1>10, <1>11, <1>12, <1>13
    DEF Next, Run, Handle, Close

\* Once the goroutine has exited, and so once Close has returned, the only jobs
\* without an answer are those that reached the channel too late for it.
OnlyStrandedWait ==
  run = "exited" \/ closer = "closed" => \A j \in Job : answer[j] = "none" => Stranded(j)

\* The safety half of EveryoneAnswered: whoever was played or waited in the queue
\* when the goroutine exits has been answered by then (output_stream.go:161-175,
\* 209-218, 250-258).
THEOREM CloseStrandsOnlyLatecomers == Spec => []OnlyStrandedWait
  <1>1. Init => ExitedEmpty /\ ShutdownArrives
    BY DEF Init, ExitedEmpty, ShutdownArrives
  <1>2. IInv /\ ExitedEmpty /\ ShutdownArrives => OnlyStrandedWait
    <2> SUFFICES ASSUME IInv, ExitedEmpty, ShutdownArrives, run = "exited" \/ closer = "closed",
                        NEW j \in Job, answer[j] = "none"
                 PROVE  Stranded(j)
      BY DEF OnlyStrandedWait
    <2>1. run = "exited" /\ cur = None /\ pending = <<>>
      BY DEF ExitedEmpty, ShutdownArrives
    <2>2. ~InPending(j) /\ cur # j
      BY <2>1, EmptySeq, StreamAssumption DEF InPending, In
    <2> QED BY <2>1, <2>2 DEF IInv, OnePlace, Stranded
  <1> QED BY <1>1, <1>2, NextEnd, Invariant, PTL DEF Spec

\* The safety half of CloseCompletes: a Close that waits has its shutdown in the
\* channel, or the goroutine has exited (output_stream.go:169-174, 209-218).
THEOREM CloseIsNotLost == Spec => []ShutdownArrives
  <1>1. Init => ExitedEmpty /\ ShutdownArrives
    BY DEF Init, ExitedEmpty, ShutdownArrives
  <1> QED BY <1>1, NextEnd, Invariant, PTL DEF Spec
=============================================================================
