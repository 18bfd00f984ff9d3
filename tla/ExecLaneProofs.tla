--------------------------- MODULE ExecLaneProofs ---------------------------
(***************************************************************************)
(* What the `exec:` lane guarantees for any number of traces.  Nothing is  *)
(* assumed of the constants but in LaneDelivers: any thread state may run  *)
(* out of time, tools may miss, children may stay silent, chatter or die,  *)
(* and Ctrl-C may strike.                                                  *)
(*                                                                         *)
(* Three inductive invariants carry it.  OnceInv follows what a trace      *)
(* asked for through the pipes: it is in one place at a time.  SwapInv     *)
(* describes the conversation on the pipes of self._proc for as long as no *)
(* earlier trace was reported as a miss or a timeout or slipped out of its *)
(* call, the ends of a call that leave a frame of it behind; request and   *)
(* response are then the current trace's own.  LeftInv says, as long as no *)
(* timeout was reported, that a child of use is self._proc.                *)
(***************************************************************************)
EXTENDS ExecLane, TLAPS, SequenceTheorems

\* Sending appends a frame to one pipe; reading takes its first frame off.
LEMMA PipeSend ==
  ASSUME NEW S, NEW f \in [Traces -> Seq(S)], NEW c \in Traces, NEW x \in S
  PROVE  [f EXCEPT ![c] = Append(@, x)] \in [Traces -> Seq(S)]
<1>1. Append(f[c], x) \in Seq(S)
  BY AppendProperties
<1>2. QED BY <1>1

LEMMA PipeTake ==
  ASSUME NEW S, NEW f \in [Traces -> Seq(S)], NEW c \in Traces, f[c] # <<>>
  PROVE  /\ [f EXCEPT ![c] = Tail(@)] \in [Traces -> Seq(S)]
         /\ Head(f[c]) \in S
<1>1. Tail(f[c]) \in Seq(S) /\ Head(f[c]) \in S
  BY HeadTailProperties
<1>2. QED BY <1>1

LEMMA OutcomesTyped ==
  /\ Promise!Pending \in Outcomes
  /\ \A t \in Traces \cup {NoTrace} : Promise!Success(t) \in Outcomes
  /\ Failed("tool_cache_miss") \in Outcomes
  /\ Failed("runner_timeout") \in Outcomes
  /\ Failed("runner_exception") \in Outcomes
BY DEF Outcomes, Failed, Promise!Failures

\* While the main thread waits there is a trace it waits for: without this the
\* index it advances could leave its range.
WaitsForTrace == main = "wait" => cur \in Traces

LEMMA InitTyped == Init => TypeOK /\ WaitsForTrace
<1> SUFFICES ASSUME Init PROVE TypeOK /\ WaitsForTrace
  OBVIOUS
<1> USE ExecAssumption, OutcomesTyped DEF Init, Traces, NoChild, NoTrace
<1>1. [c \in Traces |-> <<>>] \in [Traces -> Seq(ToChild)]
  BY EmptySeq
<1>2. [c \in Traces |-> <<>>] \in [Traces -> Seq(FromChild)]
  BY EmptySeq
<1>3. [t \in Traces |-> Promise!Pending] \in [Traces -> Outcomes]
  OBVIOUS
<1>4. WaitsForTrace /\ cur \in 1..(N + 1)
  BY DEF WaitsForTrace
<1>5. /\ thread \in [Traces -> {"none", "queued", "entered", "spawn", "hello",
                                "ack", "request", "recv", "lookup", "done"}]
      /\ child \in [Traces -> {"unborn", "booting", "greeted", "ready",
                               "working", "asked", "awaiting", "dead"}]
  OBVIOUS
<1>6. QED BY <1>1, <1>2, <1>3, <1>4, <1>5 DEF TypeOK

MainActs == MainStep \/ Interrupt \/ CutClose

\* The main thread.
LEMMA MainTyped ==
  ASSUME TypeOK, WaitsForTrace, MainActs
  PROVE  (TypeOK /\ WaitsForTrace)'
<1> USE ExecAssumption, OutcomesTyped
    DEF TypeOK, WaitsForTrace, Traces, NoChild, NoTrace
<1>1. CASE Submit
  BY <1>1 DEF Submit, runnerVars, childVars
<1>2. CASE Complete
  BY <1>2 DEF Complete, NextTrace, threadVars, runnerVars, childVars
<1>3. CASE TimeOut
  BY <1>3 DEF TimeOut, NextTrace, runnerVars, childVars
<1>4. CASE StartClose \/ Interrupt \/ ExitProcess
  BY <1>4 DEF StartClose, Interrupt, ExitProcess, threadVars, runnerVars, childVars
<1>5. CASE AskShutdown
  <2>1. proc \in Traces /\ Frame("shutdown", NoTrace) \in ToChild
    BY <1>5 DEF AskShutdown, CanSend, Frame, ToChild
  <2>2. stdin' \in [Traces -> Seq(ToChild)]
    BY <1>5, <2>1, PipeSend DEF AskShutdown, SendFrame
  <2>3. QED BY <1>5, <2>2 DEF AskShutdown, threadVars, runnerVars
<1>6. CASE ShutdownUnsent \/ FinishClose \/ CutClose
  BY <1>6 DEF ShutdownUnsent, FinishClose, CutClose, LeaveClose, threadVars
<1>7. QED BY <1>1, <1>2, <1>3, <1>4, <1>5, <1>6 DEF MainActs, MainStep

\* A runner thread.
LEMMA ResolveTyped ==
  ASSUME TypeOK, NEW t \in Traces, NEW r \in Outcomes, Resolve(t, r)
  PROVE  /\ thread' \in [Traces -> {"none", "queued", "entered", "spawn",
              "hello", "ack", "request", "recv", "lookup", "done"}]
         /\ reads' \in [Traces -> Traces \cup {NoChild}]
         /\ result' \in [Traces -> Outcomes]
BY DEF TypeOK, Resolve

LEMMA RaiseTyped ==
  ASSUME TypeOK, NEW t \in Traces, Raise(t)
  PROVE  /\ thread' \in [Traces -> {"none", "queued", "entered", "spawn",
              "hello", "ack", "request", "recv", "lookup", "done"}]
         /\ reads' \in [Traces -> Traces \cup {NoChild}]
         /\ result' \in [Traces -> Outcomes]
BY ResolveTyped, OutcomesTyped DEF Raise

LEMMA ThreadTyped ==
  ASSUME TypeOK, NEW t \in Traces, ThreadStep(t)
  PROVE  TypeOK'
<1> USE DEF TypeOK
<1>1. CASE Enter(t) \/ CheckStarted(t) \/ Spawn(t)
  BY <1>1 DEF Enter, CheckStarted, Spawn, Step, mainVars, runnerVars, childVars
<1>2. CASE SpawnFails(t) \/ HelloTimeout(t) \/ ReceiveEof(t)
  BY <1>2, RaiseTyped DEF SpawnFails, HelloTimeout, ReceiveEof,
              mainVars, runnerVars, childVars
<1>3. CASE AnswerMiss(t) \/ ReceiveStray(t) \/ LookupRaises(t)
  BY <1>3, ResolveTyped, RaiseTyped, OutcomesTyped
     DEF AnswerMiss, ReceiveStray, LookupRaises, SlipOut, mainVars, runnerVars,
         childVars
<1>4. CASE Listen(t)
  BY <1>4, RaiseTyped DEF Listen, NoChild, mainVars, runnerVars, childVars
<1>5. ASSUME Consume(t)
      PROVE  /\ Incoming(t) \in FromChild
             /\ stdout' \in [Traces -> Seq(FromChild)]
             /\ UNCHANGED <<main, victim, cur, outcome, slipped, proc, started,
                            child, job, stdin>>
  <2>1. reads[t] \in Traces /\ stdout[reads[t]] # <<>>
    BY <1>5 DEF Consume, Reading, NoChild
  <2>2. QED
    BY <1>5, <2>1, PipeTake DEF Consume, Incoming, mainVars, runnerVars
<1>6. CASE ReceiveHello(t) \/ ReceiveLookup(t) \/ ReceiveError(t)
  <2>1. Consume(t)
    BY <1>6 DEF ReceiveHello, ReceiveLookup, ReceiveError
  <2>2. QED
    BY <1>5, <1>6, <2>1, RaiseTyped
       DEF ReceiveHello, ReceiveLookup, ReceiveError
<1>7. CASE ReceiveResponse(t)
  <2>1. Incoming(t).trace \in Traces \cup {NoTrace}
    BY <1>5, <1>7 DEF ReceiveResponse, FromChild
  <2>2. Promise!Success(Incoming(t).trace) \in Outcomes
    BY <2>1, OutcomesTyped
  <2>3. QED
    BY <1>5, <1>7, <2>2, ResolveTyped DEF ReceiveResponse
<1>8. ASSUME NEW type \in {"hello_ack", "replay_request", "tool_result"},
             CanSend, SendFrame(Frame(type, t))
      PROVE  stdin' \in [Traces -> Seq(ToChild)]
  <2>1. proc \in Traces /\ Frame(type, t) \in ToChild
    BY <1>8 DEF CanSend, Frame, ToChild, NoChild
  <2>2. QED BY <1>8, <2>1, PipeSend DEF SendFrame
<1>9. CASE SendAck(t)
  BY <1>8, <1>9, RaiseTyped DEF SendAck, Step, mainVars
<1>10. CASE SendRequest(t)
  BY <1>8, <1>10, RaiseTyped DEF SendRequest, Step, mainVars, runnerVars
<1>11. CASE AnswerHit(t)
  BY <1>8, <1>11, RaiseTyped DEF AnswerHit, Step, mainVars, runnerVars
<1>12. QED
  BY <1>1, <1>2, <1>4, <1>6, <1>9, <1>10, <1>11, <1>3, <1>7 DEF ThreadStep

\* A child.
LEMMA ChildTyped ==
  ASSUME TypeOK, NEW c \in Traces, ChildMoves(c) \/ Die(c)
  PROVE  TypeOK'
<1> USE DEF TypeOK, NoChild, NoTrace
<1>1. ASSUME NEW f \in FromChild, Emit(c, f)
      PROVE  stdout' \in [Traces -> Seq(FromChild)]
  BY <1>1, PipeSend DEF Emit
<1>2. ASSUME TakeFrame(c)
      PROVE  Arrived(c) \in ToChild /\ stdin' \in [Traces -> Seq(ToChild)]
  BY <1>2, PipeTake DEF TakeFrame, Arrived
<1>3. CASE SayHello(c)
  <2>1. Frame("hello", NoTrace) \in FromChild
    BY DEF Frame, FromChild
  <2>2. QED
    BY <1>1, <1>3, <2>1 DEF SayHello, ChildStep, mainVars, threadVars, runnerVars
<1>4. CASE AwaitAck(c) \/ AwaitTool(c)
  BY <1>2, <1>4
     DEF AwaitAck, AwaitTool, ChildStep, mainVars, threadVars, runnerVars
<1>5. CASE AwaitRequest(c)
  <2>1. Arrived(c).trace \in Traces \cup {NoTrace}
    BY <1>2, <1>5 DEF AwaitRequest, ToChild
  <2>2. QED
    BY <1>2, <1>5, <2>1
       DEF AwaitRequest, ChildStep, mainVars, threadVars, runnerVars
<1>6. CASE AskTool(c)
  <2>1. Frame("tool_lookup", job[c]) \in FromChild
    BY DEF Frame, FromChild
  <2>2. QED
    BY <1>1, <1>6, <2>1 DEF AskTool, ChildStep, mainVars, threadVars, runnerVars
<1>7. CASE Answer(c)
  <2>1. \A type \in {"replay_response", "replay_error"} :
          Frame(type, job[c]) \in FromChild
    BY DEF Frame, FromChild
  <2>2. QED
    BY <1>1, <1>7, <2>1 DEF Answer, mainVars, threadVars, runnerVars
<1>8. CASE SeeEof(c) \/ Die(c)
  BY <1>8 DEF SeeEof, Die, ChildStep, mainVars, threadVars, runnerVars
<1>9. QED
  BY <1>3, <1>4, <1>5, <1>6, <1>7, <1>8 DEF ChildMoves

\* Only the main thread moves its own variables.
LEMMA ThreadLeavesMain ==
  ASSUME NEW t \in Traces, ThreadStep(t)
  PROVE  UNCHANGED mainVars
BY DEF ThreadStep, Enter, CheckStarted, Spawn, SpawnFails, Listen, ReceiveHello,
       HelloTimeout, SendAck, SendRequest, ReceiveLookup, ReceiveResponse,
       ReceiveError, ReceiveStray, ReceiveEof, AnswerHit, AnswerMiss, LookupRaises,
       SlipOut, Consume

LEMMA ChildLeavesMain ==
  ASSUME NEW c \in Traces, ChildMoves(c) \/ Die(c)
  PROVE  UNCHANGED <<mainVars, threadVars, runnerVars>>
BY DEF ChildMoves, Die, SayHello, AwaitAck, AwaitRequest, AskTool, AwaitTool,
       Answer, SeeEof

LEMMA StepTyped ==
  TypeOK /\ WaitsForTrace /\ [Next]_vars => (TypeOK /\ WaitsForTrace)'
<1> SUFFICES ASSUME TypeOK, WaitsForTrace, [Next]_vars
             PROVE  (TypeOK /\ WaitsForTrace)'
  OBVIOUS
<1>1. CASE UNCHANGED vars
  BY <1>1 DEF vars, TypeOK, WaitsForTrace
<1>2. CASE Finished
  BY <1>1, <1>2 DEF Finished
<1>3. ASSUME UNCHANGED mainVars
      PROVE  WaitsForTrace'
  BY <1>3 DEF mainVars, WaitsForTrace
<1>4. CASE \E t \in Traces : ThreadStep(t)
  BY <1>3, <1>4, ThreadTyped, ThreadLeavesMain
<1>5. CASE \E c \in Traces : ChildMoves(c) \/ Die(c)
  BY <1>3, <1>5, ChildTyped, ChildLeavesMain
<1>6. QED
  BY <1>1, <1>2, <1>4, <1>5, MainTyped DEF Next, MainActs

\* In every state of the lane its variables are of the expected types: a pipe
\* only ever carries frames of its direction, and no thread reads, and nothing
\* kills, a child that no call can have spawned.
THEOREM TypeCorrect == Spec => []TypeOK
BY InitTyped, StepTyped, PTL DEF Spec

-----------------------------------------------------------------------------
(* No response is reported for two traces.                                 *)
(*                                                                         *)
(* What a trace asked for is at any time in one place only: its request on *)
(* the way to a child, the job of a child, the response on the way back,   *)
(* or the result of the thread that read it.                               *)

Places == {"request", "job", "response", "result"}

\* What trace t asked for is at c: in slot i of a pipe, or in slot 0.
Holds(place, c, i, t) ==
  \/ /\ place = "request" /\ i \in 1..Len(stdin[c])
     /\ stdin[c][i] = Frame("replay_request", t)
  \/ /\ place = "job" /\ i = 0
     /\ child[c] \in {"working", "awaiting", "asked"} /\ job[c] = t
  \/ /\ place = "response" /\ i \in 1..Len(stdout[c])
     /\ stdout[c][i] = Frame("replay_response", t)
  \/ /\ place = "result" /\ i = 0
     /\ result[c] = Promise!Success(t)

InOnePlace ==
  \A t \in Traces : \A p, q \in Places, c, d \in Traces, i, j \in Nat :
    Holds(p, c, i, t) /\ Holds(q, d, j, t) => p = q /\ c = d /\ i = j

\* A call that has not sent its request yet is nowhere.
Calling == {"none", "queued", "entered", "spawn", "hello", "ack", "request"}
NowhereBeforeRequest ==
  \A t \in Traces : thread[t] \in Calling =>
    \A p \in Places, c \in Traces, i \in Nat : ~Holds(p, c, i, t)

\* A trace is submitted once; a future is resolved once, and what is reported of
\* the trace is what the future holds, or a timeout.
SubmittedOnce ==
  /\ main = "wait" => cur \in Traces
  /\ \A t \in Traces :
       t > cur \/ (t = cur /\ main = "submit") => thread[t] = "none"
ResultIsFinal ==
  \A t \in Traces :
    /\ result[t] # Promise!Pending => thread[t] = "done"
    /\ outcome[t] \in {Promise!Pending, Failed("runner_timeout"), result[t]}

OnceInv == TypeOK /\ SubmittedOnce /\ ResultIsFinal
             /\ NowhereBeforeRequest /\ InOnePlace

\* The frames of a pipe after one was appended to it, or its first one taken.
LEMMA FramesSent ==
  ASSUME NEW S, NEW f \in [Traces -> Seq(S)], NEW p \in Traces, NEW x \in S,
         NEW g, g = [f EXCEPT ![p] = Append(@, x)],
         NEW c \in Traces, NEW i \in 1..Len(g[c])
  PROVE  IF c = p /\ i = Len(f[c]) + 1
         THEN g[c][i] = x
         ELSE i \in 1..Len(f[c]) /\ g[c][i] = f[c][i]
BY AppendProperties, LenProperties

LEMMA FramesTaken ==
  ASSUME NEW S, NEW f \in [Traces -> Seq(S)], NEW p \in Traces, f[p] # <<>>,
         NEW g, g = [f EXCEPT ![p] = Tail(@)],
         NEW c \in Traces, NEW i \in 1..Len(g[c])
  PROVE  IF c = p
         THEN i + 1 \in 1..Len(f[c]) /\ g[c][i] = f[c][i + 1]
         ELSE i \in 1..Len(f[c]) /\ g[c][i] = f[c][i]
BY HeadTailProperties, LenProperties

\* A step after which nothing is anywhere it was not before.
Quiet ==
  \A p \in Places, c \in Traces, i \in Nat, t \in Traces :
    Holds(p, c, i, t)' => Holds(p, c, i, t)

\* A step that takes the first frame off the pipe `from` at c, and at most puts
\* what it is about into slot 0 of `to` at d.
Takes(from, c, to, d) ==
  \A p \in Places, e \in Traces, i \in Nat, t \in Traces :
    Holds(p, e, i, t)' =>
      \/ p = from /\ e = c /\ Holds(p, e, i + 1, t)
      \/ ~(p = from /\ e = c) /\ Holds(p, e, i, t)
      \/ p = to /\ e = d /\ i = 0 /\ Holds(from, c, 1, t)

\* A step that turns the job of c into a response in slot n of its pipe.
Answers(c, n) ==
  \A p \in Places, e \in Traces, i \in Nat, t \in Traces :
    Holds(p, e, i, t)' =>
      \/ ~(p = "job" /\ e = c) /\ Holds(p, e, i, t)
      \/ p = "response" /\ e = c /\ i = n /\ Holds("job", c, 0, t)

\* A step that creates nothing: what is somewhere afterwards was somewhere.
CreatesNothing ==
  \A p \in Places, c \in Traces, i \in Nat, t \in Traces :
    Holds(p, c, i, t)' =>
      \E q \in Places, d \in Traces, j \in Nat : Holds(q, d, j, t)

Moves ==
  \/ Quiet
  \/ \E from \in {"request", "response"}, to \in {"job", "result"},
        c, d \in Traces : Takes(from, c, to, d)
  \/ \E c \in Traces, n \in Nat : Answers(c, n)

LEMMA MovesKeepPlaces ==
  ASSUME InOnePlace, Moves
  PROVE  InOnePlace' /\ CreatesNothing
<1> USE DEF Places
<1>1. CASE Quiet
  BY <1>1 DEF InOnePlace, Quiet, CreatesNothing
<1>2. ASSUME NEW from \in {"request", "response"}, NEW to \in {"job", "result"},
             NEW c \in Traces, NEW d \in Traces, Takes(from, c, to, d)
      PROVE  InOnePlace' /\ CreatesNothing
  <2>1. from \in Places /\ to \in Places /\ to # from
    OBVIOUS
  <2>2. InOnePlace'
    <3> SUFFICES ASSUME NEW t \in Traces, NEW p \in Places, NEW q \in Places,
                        NEW e \in Traces, NEW f \in Traces,
                        NEW i \in Nat, NEW j \in Nat,
                        Holds(p, e, i, t)', Holds(q, f, j, t)'
                 PROVE  p = q /\ e = f /\ i = j
      BY DEF InOnePlace
    <3>1. \/ p = from /\ e = c /\ Holds(p, e, i + 1, t)
          \/ ~(p = from /\ e = c) /\ Holds(p, e, i, t)
          \/ p = to /\ e = d /\ i = 0 /\ Holds(from, c, 1, t)
      BY <1>2 DEF Takes
    <3>2. \/ q = from /\ f = c /\ Holds(q, f, j + 1, t)
          \/ ~(q = from /\ f = c) /\ Holds(q, f, j, t)
          \/ q = to /\ f = d /\ j = 0 /\ Holds(from, c, 1, t)
      BY <1>2 DEF Takes
    <3>3. i \in Nat \ {0} \/ p \notin {"request", "response"}
      BY DEF Holds
    <3>4. j \in Nat \ {0} \/ q \notin {"request", "response"}
      BY DEF Holds
    <3>5. QED
      BY <2>1, <3>1, <3>2, <3>3, <3>4 DEF InOnePlace
  <2>3. CreatesNothing
    <3>1. \A i \in Nat : i + 1 \in Nat
      OBVIOUS
    <3>2. QED BY <1>2, <2>1, <3>1 DEF Takes, CreatesNothing
  <2>4. QED BY <2>2, <2>3
<1>3. ASSUME NEW c \in Traces, NEW n \in Nat, Answers(c, n)
      PROVE  InOnePlace' /\ CreatesNothing
  BY <1>3 DEF InOnePlace, Answers, CreatesNothing
<1>4. QED BY <1>1, <1>2, <1>3 DEF Moves

\* A runner thread moves itself alone, and is none that has yet to be started or
\* has ended; it leaves a result only as it ends.
LEMMA ThreadStepsAlone ==
  ASSUME TypeOK, NEW t \in Traces, ThreadStep(t)
  PROVE  /\ thread[t] \notin {"none", "done"}
         /\ thread'[t] \notin {"none", "queued"}
         /\ thread'[t] \in Calling => thread[t] \in Calling
         /\ result'[t] = result[t] \/ thread'[t] = "done"
         /\ \A u \in Traces \ {t} : /\ thread'[u] = thread[u]
                                    /\ reads'[u] = reads[u]
                                    /\ result'[u] = result[u]
         /\ slipped' \subseteq slipped \cup {t}
<1> USE DEF TypeOK, Calling
<1>1. CASE Enter(t) \/ CheckStarted(t) \/ Spawn(t)
  BY <1>1 DEF Enter, CheckStarted, Spawn, Step
<1>2. CASE SpawnFails(t) \/ Listen(t) \/ HelloTimeout(t) \/ ReceiveEof(t)
           \/ AnswerMiss(t) \/ ReceiveStray(t) \/ LookupRaises(t)
  BY <1>2 DEF SpawnFails, Listen, HelloTimeout, ReceiveEof, AnswerMiss, ReceiveStray,
              LookupRaises, SlipOut, Reading, Raise, Resolve
<1>3. CASE ReceiveHello(t) \/ ReceiveLookup(t) \/ ReceiveResponse(t) \/ ReceiveError(t)
  BY <1>3 DEF ReceiveHello, ReceiveLookup, ReceiveResponse, ReceiveError, Consume,
              Raise, Resolve
<1>4. CASE SendAck(t) \/ SendRequest(t) \/ AnswerHit(t)
  BY <1>4 DEF SendAck, SendRequest, AnswerHit, Step, Raise, Resolve
<1>5. QED BY <1>1, <1>2, <1>3, <1>4 DEF ThreadStep

\* Only a call that raises slips out, and it stays so.
LEMMA SlippedGrows ==
  ASSUME NEW t \in Traces, ThreadStep(t)
  PROVE  slipped \subseteq slipped'
BY DEF ThreadStep, Enter, CheckStarted, Spawn, SpawnFails, Listen, ReceiveHello,
       HelloTimeout, SendAck, SendRequest, ReceiveLookup, ReceiveResponse,
       ReceiveError, ReceiveStray, ReceiveEof, AnswerHit, AnswerMiss, LookupRaises,
       SlipOut, Consume

LEMMA SlipsRaise ==
  ASSUME TypeOK, NEW t \in Traces, ThreadStep(t)
  PROVE  \A u \in slipped' \ slipped : result'[u] = Failed("runner_exception")
BY DEF TypeOK, ThreadStep, Enter, CheckStarted, Spawn, SpawnFails, Listen,
       ReceiveHello, HelloTimeout, SendAck, SendRequest, ReceiveLookup,
       ReceiveResponse, ReceiveError, ReceiveStray, ReceiveEof, AnswerHit, AnswerMiss,
       LookupRaises, SlipOut, Consume, Raise, Resolve

LEMMA SubmittedOnceKept ==
  ASSUME TypeOK, SubmittedOnce, ResultIsFinal, [Next]_vars
  PROVE  (SubmittedOnce /\ ResultIsFinal)'
<1> USE DEF TypeOK, SubmittedOnce, ResultIsFinal
<1>1. CASE UNCHANGED vars \/ Finished
  BY <1>1 DEF vars, Finished
<1>2. ASSUME NEW t \in Traces, ThreadStep(t)
      PROVE  (SubmittedOnce /\ ResultIsFinal)'
  <2>1. UNCHANGED mainVars
    BY <1>2, ThreadLeavesMain
  <2>2. SubmittedOnce'
    BY <1>2, <2>1, ThreadStepsAlone DEF mainVars
  <2>3. result[t] = Promise!Pending
    BY <1>2, ThreadStepsAlone
  <2>4. ResultIsFinal'
    BY <1>2, <2>1, <2>3, ThreadStepsAlone DEF mainVars
  <2>5. QED BY <2>2, <2>4
<1>3. ASSUME NEW c \in Traces, ChildMoves(c) \/ Die(c)
      PROVE  (SubmittedOnce /\ ResultIsFinal)'
  BY <1>3, ChildLeavesMain DEF mainVars, threadVars
<1>4. CASE MainActs
  <2>1. CASE Submit
    BY <2>1, ExecAssumption DEF Submit, Traces
  <2>2. CASE Complete
    BY <2>2, ExecAssumption DEF Complete, NextTrace, threadVars, Traces
  <2>3. CASE TimeOut
    BY <2>3, ExecAssumption DEF TimeOut, NextTrace, Failed, Traces
  <2>4. CASE StartClose \/ Interrupt \/ ExitProcess
    BY <2>4 DEF StartClose, Interrupt, ExitProcess, threadVars
  <2>5. CASE AskShutdown \/ ShutdownUnsent \/ FinishClose \/ CutClose
    BY <2>5 DEF AskShutdown, ShutdownUnsent, FinishClose, CutClose, LeaveClose,
                threadVars
  <2>6. QED BY <1>4, <2>1, <2>2, <2>3, <2>4, <2>5 DEF MainActs, MainStep
<1>5. QED BY <1>1, <1>2, <1>3, <1>4 DEF Next, MainActs

\* A frame that is no request may be sent without anything changing its place.
LEMMA OtherFramesQuiet ==
  ASSUME TypeOK, NEW c \in Traces, NEW f \in ToChild, f.type # "replay_request",
         stdin' = [stdin EXCEPT ![c] = Append(@, f)],
         NEW d \in Traces, NEW i \in Nat, NEW t \in Traces,
         Holds("request", d, i, t)'
  PROVE  Holds("request", d, i, t)
<1>1. i \in 1..Len(stdin'[d]) /\ stdin'[d][i] = Frame("replay_request", t)
  BY DEF Holds
<1>2. ~(d = c /\ i = Len(stdin[d]) + 1)
  BY <1>1, FramesSent DEF TypeOK, Frame
<1>3. QED BY <1>1, <1>2, FramesSent DEF TypeOK, Holds

LEMMA MainQuiet ==
  ASSUME TypeOK, MainActs
  PROVE  Quiet
<1> USE DEF Quiet
<1>1. CASE Submit \/ Complete \/ TimeOut \/ StartClose \/ Interrupt \/ ExitProcess
           \/ ShutdownUnsent \/ CutClose
  BY <1>1 DEF Holds, Submit, Complete, TimeOut, StartClose, Interrupt, ExitProcess,
              ShutdownUnsent, CutClose, LeaveClose, threadVars, runnerVars, childVars
<1>2. CASE AskShutdown
  <2>1. proc \in Traces /\ Frame("shutdown", NoTrace) \in ToChild
    BY <1>2 DEF AskShutdown, CanSend, Frame, ToChild, TypeOK
  <2>2. \A d \in Traces, i \in Nat, t \in Traces :
          Holds("request", d, i, t)' => Holds("request", d, i, t)
    BY <1>2, <2>1, OtherFramesQuiet DEF AskShutdown, SendFrame, Frame
  <2>3. QED BY <1>2, <2>2 DEF AskShutdown, Holds, Places, threadVars
<1>3. CASE FinishClose
  BY <1>3 DEF FinishClose, LeaveClose, Holds, threadVars, TypeOK
<1>4. QED BY <1>1, <1>2, <1>3 DEF MainActs, MainStep

\* A failure is no response.
LEMMA RaiseQuiet ==
  ASSUME TypeOK, NEW t \in Traces, Raise(t), UNCHANGED childVars
  PROVE  Quiet
BY DEF TypeOK, Raise, Resolve, Failed, Promise!Success, Quiet, Holds, childVars

\* The steps of a thread that neither send a request nor take a frame.
LEMMA ThreadQuiet ==
  ASSUME TypeOK, NEW t \in Traces,
         \/ Enter(t) \/ CheckStarted(t) \/ Spawn(t) \/ SpawnFails(t) \/ Listen(t)
         \/ HelloTimeout(t) \/ SendAck(t) \/ ReceiveEof(t) \/ AnswerHit(t)
         \/ AnswerMiss(t) \/ ReceiveStray(t) \/ LookupRaises(t)
  PROVE  Quiet
<1>1. CASE Enter(t) \/ CheckStarted(t) \/ Spawn(t)
  BY <1>1 DEF TypeOK, Quiet, Holds, Enter, CheckStarted, Spawn, Step, childVars
<1>2. CASE SpawnFails(t) \/ HelloTimeout(t) \/ ReceiveEof(t) \/ ReceiveStray(t)
           \/ LookupRaises(t)
  BY <1>2, RaiseQuiet DEF SpawnFails, HelloTimeout, ReceiveEof, ReceiveStray,
                          LookupRaises, SlipOut
<1>3. CASE Listen(t)
  <2>1. CASE proc = NoChild
    BY <1>3, <2>1, RaiseQuiet DEF Listen
  <2>2. CASE proc # NoChild
    BY <1>3, <2>2 DEF Listen, Quiet, Holds, childVars
  <2>3. QED BY <2>1, <2>2
<1>4. CASE AnswerMiss(t)
  BY <1>4 DEF TypeOK, AnswerMiss, Resolve, Failed, Promise!Success, Quiet, Holds,
              childVars
<1>5. ASSUME NEW type \in {"hello_ack", "tool_result"}, CanSend,
             SendFrame(Frame(type, t)), UNCHANGED <<result, child, job, stdout>>
      PROVE  Quiet
  <2>1. proc \in Traces /\ Frame(type, t) \in ToChild
    BY <1>5 DEF CanSend, Frame, ToChild, TypeOK
  <2>2. \A d \in Traces, i \in Nat, u \in Traces :
          Holds("request", d, i, u)' => Holds("request", d, i, u)
    BY <1>5, <2>1, OtherFramesQuiet DEF SendFrame, Frame
  <2>3. QED BY <1>5, <2>2 DEF Quiet, Holds, Places
<1>6. CASE SendAck(t)
  BY <1>5, <1>6, RaiseQuiet DEF SendAck, childVars
<1>7. CASE AnswerHit(t)
  BY <1>5, <1>7, RaiseQuiet DEF AnswerHit, childVars
<1>8. QED BY <1>1, <1>2, <1>3, <1>4, <1>6, <1>7

\* The steps of a thread that take the next frame of its child: only the thread
\* that reads a response has it afterwards.
LEMMA ConsumeMoves ==
  ASSUME TypeOK, NEW t \in Traces,
         ReceiveHello(t) \/ ReceiveLookup(t) \/ ReceiveResponse(t) \/ ReceiveError(t)
  PROVE  Moves
<1> DEFINE c == reads[t]
<1>1. /\ Consume(t) /\ c \in Traces /\ stdout[c] # <<>>
      /\ stdout' = [stdout EXCEPT ![c] = Tail(@)]
      /\ UNCHANGED <<child, job, stdin>>
  BY DEF TypeOK, ReceiveHello, ReceiveLookup, ReceiveResponse, ReceiveError,
         Consume, Reading
<1>2. ASSUME NEW e \in Traces, NEW i \in Nat, NEW u \in Traces,
             Holds("response", e, i, u)'
      PROVE  IF e = c THEN Holds("response", e, i + 1, u)
                      ELSE Holds("response", e, i, u)
  BY <1>1, <1>2, FramesTaken DEF TypeOK, Holds
<1>3. ASSUME NEW e \in Traces, NEW i \in Nat, NEW u \in Traces,
             Holds("result", e, i, u)'
      PROVE  \/ Holds("result", e, i, u)
             \/ e = t /\ i = 0 /\ Holds("response", c, 1, u)
  <2>1. CASE ReceiveResponse(t)
    <3>1. CASE e = t
      <4>1. Incoming(t).type = "replay_response" /\ Incoming(t).trace = u
        BY <1>3, <2>1, <3>1
           DEF ReceiveResponse, Resolve, Holds, Promise!Success, TypeOK
      <4>2. Incoming(t) \in FromChild /\ Incoming(t) = stdout[c][1]
        BY <1>1, ElementOfSeq, HeadTailProperties, EmptySeq DEF TypeOK, Incoming
      <4>3. stdout[c][1] = Frame("replay_response", u)
        BY <4>1, <4>2 DEF Frame, FromChild
      <4>4. 1 \in 1..Len(stdout[c])
        BY <1>1, EmptySeq DEF TypeOK
      <4>5. QED BY <1>3, <3>1, <4>3, <4>4 DEF Holds
    <3>2. CASE e # t
      BY <1>3, <2>1, <3>2 DEF ReceiveResponse, Resolve, Holds, TypeOK
    <3>3. QED BY <3>1, <3>2
  <2>2. CASE ReceiveHello(t) \/ ReceiveLookup(t) \/ ReceiveError(t)
    BY <1>3, <2>2
       DEF ReceiveHello, ReceiveLookup, ReceiveError, Raise, Resolve, Failed,
           Promise!Success, Holds, TypeOK
  <2>3. QED BY <2>1, <2>2
<1>4. Takes("response", c, "result", t)
  BY <1>1, <1>2, <1>3 DEF Takes, Places, Holds
<1>5. QED BY <1>1, <1>4 DEF Moves

\* A call that sends its request has had nothing anywhere until then.
LEMMA SendRequestKeepsPlaces ==
  ASSUME TypeOK, NowhereBeforeRequest, InOnePlace, NEW t \in Traces, SendRequest(t)
  PROVE  (NowhereBeforeRequest /\ InOnePlace)'
<1>1. CASE ~CanSend
  <2>1. Quiet
    BY <1>1, RaiseQuiet DEF SendRequest, childVars
  <2>2. InOnePlace' /\ CreatesNothing
    BY <2>1, MovesKeepPlaces DEF Moves
  <2>3. thread' = [thread EXCEPT ![t] = "done"]
    BY <1>1 DEF SendRequest, Raise, Resolve
  <2>4. NowhereBeforeRequest'
    BY <2>2, <2>3 DEF NowhereBeforeRequest, CreatesNothing, Calling, TypeOK
  <2>5. QED BY <2>2, <2>4
<1>2. CASE CanSend
  <2>1. /\ proc \in Traces /\ Frame("replay_request", t) \in ToChild
        /\ stdin' = [stdin EXCEPT ![proc] = Append(@, Frame("replay_request", t))]
        /\ thread[t] = "request" /\ thread' = [thread EXCEPT ![t] = "recv"]
        /\ UNCHANGED <<result, child, job, stdout>>
    BY <1>2 DEF SendRequest, SendFrame, Step, CanSend, Frame, ToChild, TypeOK
  <2>2. ASSUME NEW p \in Places, NEW c \in Traces, NEW i \in Nat, NEW u \in Traces,
               Holds(p, c, i, u)'
        PROVE  \/ Holds(p, c, i, u)
               \/ p = "request" /\ u = t /\ c = proc /\ i = Len(stdin[proc]) + 1
    <3>1. CASE p = "request"
      <4>1. i \in 1..Len(stdin'[c]) /\ stdin'[c][i] = Frame("replay_request", u)
        BY <2>2, <3>1 DEF Holds
      <4>2. CASE c = proc /\ i = Len(stdin[c]) + 1
        BY <2>1, <3>1, <4>1, <4>2, FramesSent DEF Frame, TypeOK
      <4>3. CASE ~(c = proc /\ i = Len(stdin[c]) + 1)
        <5>1. i \in 1..Len(stdin[c]) /\ stdin'[c][i] = stdin[c][i]
          BY <2>1, <4>1, <4>3, FramesSent DEF TypeOK
        <5>2. QED BY <3>1, <4>1, <5>1 DEF Holds
      <4>4. QED BY <4>2, <4>3
    <3>2. CASE p # "request"
      BY <2>1, <2>2, <3>2 DEF Holds
    <3>3. QED BY <3>1, <3>2
  <2>3. \A p \in Places, c \in Traces, i \in Nat : ~Holds(p, c, i, t)
    BY <2>1 DEF NowhereBeforeRequest, Calling
  <2>4. InOnePlace'
    BY <2>2, <2>3 DEF InOnePlace
  <2>5. NowhereBeforeRequest'
    BY <2>1, <2>2 DEF NowhereBeforeRequest, Calling, TypeOK
  <2>6. QED BY <2>4, <2>5
<1>3. QED BY <1>1, <1>2

\* A child takes one frame, or turns its job into one frame, or does neither.
LEMMA ChildTakes ==
  ASSUME TypeOK, NEW c \in Traces,
         AwaitAck(c) \/ AwaitRequest(c) \/ AwaitTool(c)
  PROVE  Moves
<1>1. /\ stdin[c] # <<>> /\ stdin' = [stdin EXCEPT ![c] = Tail(@)]
      /\ UNCHANGED <<result, stdout>>
  BY DEF AwaitAck, AwaitRequest, AwaitTool, TakeFrame, threadVars
<1>2. ASSUME NEW e \in Traces, NEW i \in Nat, NEW u \in Traces,
             Holds("request", e, i, u)'
      PROVE  IF e = c THEN Holds("request", e, i + 1, u)
                      ELSE Holds("request", e, i, u)
  BY <1>1, <1>2, FramesTaken DEF TypeOK, Holds
<1>3. ASSUME NEW e \in Traces, NEW i \in Nat, NEW u \in Traces,
             Holds("job", e, i, u)'
      PROVE  \/ Holds("job", e, i, u)
             \/ e = c /\ i = 0 /\ Holds("request", c, 1, u)
  <2>1. CASE AwaitRequest(c) /\ e = c
    <3>1. Arrived(c).type = "replay_request" /\ Arrived(c).trace = u
      BY <1>3, <2>1 DEF AwaitRequest, ChildStep, Holds, TypeOK, Traces, NoTrace
    <3>2. Arrived(c) \in ToChild /\ Arrived(c) = stdin[c][1]
      BY <1>1, HeadTailProperties, EmptySeq DEF TypeOK, Arrived
    <3>3. stdin[c][1] = Frame("replay_request", u)
      BY <3>1, <3>2 DEF Frame, ToChild
    <3>4. 1 \in 1..Len(stdin[c])
      BY <1>1, EmptySeq DEF TypeOK
    <3>5. QED BY <1>3, <2>1, <3>3, <3>4 DEF Holds
  <2>2. CASE ~(AwaitRequest(c) /\ e = c)
    BY <1>3, <2>2
       DEF AwaitAck, AwaitRequest, AwaitTool, ChildStep, Holds, TypeOK
  <2>3. QED BY <2>1, <2>2
<1>4. Takes("request", c, "job", c)
  BY <1>1, <1>2, <1>3 DEF Takes, Places, Holds
<1>5. QED BY <1>4 DEF Moves

LEMMA ChildEmits ==
  ASSUME TypeOK, NEW c \in Traces, SayHello(c) \/ AskTool(c) \/ Answer(c)
  PROVE  Moves
<1>1. PICK f \in FromChild :
        /\ stdout' = [stdout EXCEPT ![c] = Append(@, f)]
        /\ f.type = "replay_response" =>
             Answer(c) /\ f.trace = job[c] /\ child[c] \in {"working", "asked"}
  <2>1. \A type \in {"hello", "tool_lookup", "replay_response", "replay_error"},
           u \in Traces \cup {NoTrace} : Frame(type, u) \in FromChild
    BY DEF Frame, FromChild
  <2>2. QED BY <2>1 DEF SayHello, AskTool, Answer, Emit, Frame, TypeOK
<1>2. UNCHANGED <<result, stdin, job>>
  BY DEF SayHello, AskTool, Answer, threadVars
<1>3. ASSUME NEW e \in Traces, NEW i \in Nat, NEW u \in Traces,
             Holds("response", e, i, u)'
      PROVE  \/ Holds("response", e, i, u)
             \/ /\ e = c /\ i = Len(stdout[c]) + 1 /\ f.type = "replay_response"
                /\ f.trace = u
  <2>1. i \in 1..Len(stdout'[e]) /\ stdout'[e][i] = Frame("replay_response", u)
    BY <1>3 DEF Holds
  <2>2. CASE e = c /\ i = Len(stdout[e]) + 1
    BY <1>1, <2>1, <2>2, FramesSent DEF Frame, TypeOK
  <2>3. CASE ~(e = c /\ i = Len(stdout[e]) + 1)
    <3>1. i \in 1..Len(stdout[e]) /\ stdout'[e][i] = stdout[e][i]
      BY <1>1, <2>1, <2>3, FramesSent DEF TypeOK
    <3>2. QED BY <2>1, <3>1 DEF Holds
  <2>4. QED BY <2>2, <2>3
<1>4. CASE Answer(c)
  <2>1. \A e \in Traces, i \in Nat, u \in Traces :
          Holds("job", e, i, u)' => e # c /\ Holds("job", e, i, u)
    BY <1>4 DEF Answer, Holds, TypeOK
  <2>2. \A u \in Traces : job[c] = u => Holds("job", c, 0, u)
    BY <1>4 DEF Answer, Holds
  <2>3. Len(stdout[c]) + 1 \in Nat
    BY LenProperties DEF TypeOK
  <2>4. Answers(c, Len(stdout[c]) + 1)
    BY <1>1, <1>2, <1>3, <2>1, <2>2 DEF Answers, Places, Holds
  <2>5. QED BY <2>3, <2>4 DEF Moves
<1>5. CASE ~Answer(c)
  <2>1. \A e \in Traces, i \in Nat, u \in Traces :
          Holds("job", e, i, u)' => Holds("job", e, i, u)
    BY <1>5 DEF SayHello, AskTool, ChildStep, Holds, TypeOK
  <2>2. Quiet
    BY <1>1, <1>2, <1>3, <1>5, <2>1 DEF Quiet, Places, Holds
  <2>3. QED BY <2>2 DEF Moves
<1>6. QED BY <1>4, <1>5

LEMMA ChildKeepsPlaces ==
  ASSUME TypeOK, NEW c \in Traces, ChildMoves(c) \/ Die(c)
  PROVE  Moves
<1>1. CASE SeeEof(c) \/ Die(c)
  BY <1>1 DEF SeeEof, Die, ChildStep, Moves, Quiet, Holds, TypeOK, threadVars
<1>2. QED BY <1>1, ChildTakes, ChildEmits DEF ChildMoves

LEMMA OnceStep == OnceInv /\ [Next]_vars => OnceInv'
<1> SUFFICES ASSUME OnceInv, [Next]_vars PROVE OnceInv'
  OBVIOUS
<1> USE DEF OnceInv
<1>1. (TypeOK /\ SubmittedOnce /\ ResultIsFinal)'
  BY StepTyped, SubmittedOnceKept DEF WaitsForTrace, SubmittedOnce
<1>2. ASSUME Moves, \A t \in Traces : thread'[t] \in Calling => thread[t] \in Calling
      PROVE  (NowhereBeforeRequest /\ InOnePlace)'
  BY <1>2, MovesKeepPlaces DEF NowhereBeforeRequest, CreatesNothing
<1>3. ASSUME NEW t \in Traces, ThreadStep(t)
      PROVE  (NowhereBeforeRequest /\ InOnePlace)'
  <2>1. \A u \in Traces : thread'[u] \in Calling => thread[u] \in Calling
    BY <1>3, ThreadStepsAlone
  <2>2. CASE SendRequest(t)
    BY <2>2, SendRequestKeepsPlaces
  <2>3. CASE \/ ReceiveHello(t) \/ ReceiveLookup(t) \/ ReceiveResponse(t)
             \/ ReceiveError(t)
    BY <1>2, <2>1, <2>3, ConsumeMoves
  <2>4. CASE \/ Enter(t) \/ CheckStarted(t) \/ Spawn(t) \/ SpawnFails(t)
             \/ Listen(t) \/ HelloTimeout(t) \/ SendAck(t) \/ ReceiveEof(t)
             \/ AnswerHit(t) \/ AnswerMiss(t) \/ ReceiveStray(t) \/ LookupRaises(t)
    BY <1>2, <2>1, <2>4, ThreadQuiet DEF Moves
  <2>5. QED BY <1>3, <2>2, <2>3, <2>4 DEF ThreadStep
<1>4. ASSUME NEW c \in Traces, ChildMoves(c) \/ Die(c)
      PROVE  (NowhereBeforeRequest /\ InOnePlace)'
  BY <1>2, <1>4, ChildKeepsPlaces, ChildLeavesMain DEF threadVars
<1>5. CASE MainActs
  <2>1. \A t \in Traces : thread'[t] \in Calling => thread[t] \in Calling
    BY <1>5 DEF MainActs, MainStep, Submit, Complete, TimeOut, StartClose, Interrupt,
                ExitProcess, AskShutdown, ShutdownUnsent, FinishClose, CutClose,
                LeaveClose, threadVars, SubmittedOnce, Calling, TypeOK
  <2>2. Moves
    BY <1>5, MainQuiet DEF Moves
  <2>3. QED BY <1>1, <1>2, <2>1, <2>2
<1>6. CASE UNCHANGED vars \/ Finished
  <2>1. UNCHANGED vars
    BY <1>6 DEF Finished
  <2>2. Quiet
    BY <2>1 DEF vars, Quiet, Holds
  <2>3. Moves /\ UNCHANGED thread
    BY <2>1, <2>2 DEF vars, Moves
  <2>4. QED BY <1>1, <1>2, <2>3
<1>7. QED BY <1>1, <1>3, <1>4, <1>5, <1>6 DEF Next, MainActs

\* Nothing is anywhere before the run starts.
LEMMA OnceInit == Init => OnceInv
<1> SUFFICES ASSUME Init PROVE OnceInv
  OBVIOUS
<1>1. \A p \in Places, c \in Traces, i \in Nat, t \in Traces : ~Holds(p, c, i, t)
  BY EmptySeq DEF Init, Holds, Promise!Pending, Promise!Success
<1>2. SubmittedOnce /\ ResultIsFinal
  BY DEF Init, SubmittedOnce, ResultIsFinal, Promise!Pending
<1>3. QED
  BY <1>1, <1>2, InitTyped DEF OnceInv, NowhereBeforeRequest, InOnePlace

\* Whatever times out, misses, dies or fails to start, and however the threads
\* left behind by timeouts read each other's lines: no response of a child is
\* reported as the output of two traces.
THEOREM ResponsesUsedOnce == Spec => []ResponseUsedOnce
<1>1. OnceInv => ResponseUsedOnce
  <2> SUFFICES ASSUME OnceInv, NEW t \in Traces, NEW u \in Traces,
                      outcome[t].kind = "success", outcome[t].of # NoTrace,
                      outcome[u] = outcome[t]
               PROVE  t = u
    BY DEF ResponseUsedOnce
  <2>1. PICK x \in Traces : outcome[t] = Promise!Success(x)
    BY DEF OnceInv, TypeOK, Outcomes, Promise!Failures, Promise!Pending,
           Promise!Success
  <2>2. result[t] = Promise!Success(x) /\ result[u] = Promise!Success(x)
    BY <2>1 DEF OnceInv, ResultIsFinal, Failed, Promise!Pending, Promise!Success
  <2>3. Holds("result", t, 0, x) /\ Holds("result", u, 0, x)
    BY <2>2 DEF Holds
  <2>4. QED BY <2>3 DEF OnceInv, InOnePlace, Places
<1>2. QED BY OnceInit, OnceStep, <1>1, PTL DEF Spec

-----------------------------------------------------------------------------
(* Where outputs change places, an earlier trace is to blame.              *)

\* The outcomes that leave a frame of their call behind; a call that slipped out
\* does so too.
Culprits == {Failed("tool_cache_miss"), Failed("runner_timeout")}
Clean == \A u \in Traces : u < cur => outcome[u] \notin Culprits /\ u \notin slipped

\* What is on its way to, and from, the child the lane talks to.
Frames(in, out) == stdin[proc] = in /\ stdout[proc] = out

\* No child has been greeted: whatever self._proc is, nobody talks to it.
Unstarted == ~started /\ thread[cur] \in {"none", "queued", "entered", "spawn", "done"}

\* The child spawned for the current trace is expected to say hello.
Greeting ==
  /\ ~started /\ proc = cur
  /\ \/ /\ thread[cur] = "hello"
        /\ \/ child[proc] \in {"booting", "dead"} /\ Frames(<<>>, <<>>)
           \/ /\ child[proc] \in {"greeted", "dead"}
              /\ Frames(<<>>, <<Frame("hello", NoTrace)>>)
     \/ /\ thread[cur] = "ack"
        /\ child[proc] \in {"greeted", "dead"} /\ Frames(<<>>, <<>>)

\* A greeted child, with nothing asked of it: its pipes are empty, but for the
\* hello_ack it has not read yet.
Idle ==
  /\ started /\ proc \in Traces
  /\ thread[cur] \in {"none", "queued", "entered", "request", "done"}
  /\ \/ child[proc] = "dead"
     \/ child[proc] = "ready" /\ Frames(<<>>, <<>>)
     \/ child[proc] = "greeted" /\ Frames(<<Frame("hello_ack", proc)>>, <<>>)

\* The current trace has asked, or has been asked for a tool's result.
Waiting ==
  /\ thread[cur] = "recv"
  /\ \/ /\ child[proc] = "greeted"
        /\ Frames(<<Frame("hello_ack", proc), Frame("replay_request", cur)>>, <<>>)
     \/ child[proc] = "ready" /\ Frames(<<Frame("replay_request", cur)>>, <<>>)
     \/ /\ child[proc] \in {"working", "asked"} /\ job[proc] = cur
        /\ Frames(<<>>, <<>>)
     \/ /\ child[proc] = "awaiting" /\ job[proc] = cur
        /\ \/ Frames(<<>>, <<Frame("tool_lookup", cur)>>)
           \/ Frames(<<Frame("tool_result", cur)>>, <<>>)
     \/ /\ child[proc] = "ready"
        /\ \E type \in {"replay_response", "replay_error"} :
             Frames(<<>>, <<Frame(type, cur)>>)

LookingUp ==
  /\ thread[cur] = "lookup"
  /\ child[proc] = "awaiting" /\ job[proc] = cur /\ Frames(<<>>, <<>>)

\* The child died; what is left to read answers no other trace.
Lost ==
  /\ thread[cur] \in {"recv", "lookup"} /\ child[proc] = "dead"
  /\ \A i \in 1..Len(stdout[proc]) :
       stdout[proc][i].type = "replay_response" => stdout[proc][i].trace = cur

\* The call of the current trace, from its request to its result.
Exchange == started /\ proc \in Traces /\ (Waiting \/ LookingUp \/ Lost)

\* The other threads have not been started or have ended.
Alone == \A t \in Traces \ {cur} : thread[t] \in {"none", "done"}
ReadsOwnChild ==
  \A t \in Traces : reads[t] # NoChild =>
    t = cur /\ reads[t] = proc /\ thread[t] \in {"hello", "recv"}
\* A call that has not spawned finds nothing on the pipes of the child it spawns.
Fresh ==
  \A c \in Traces : thread[c] \in {"none", "queued", "entered", "spawn"} =>
    /\ child[c] = "unborn" /\ stdin[c] = <<>> /\ stdout[c] = <<>>
    /\ proc # c
ResultIsOwn == \A t \in Traces : result[t].kind = "success" => result[t].of = t

InSync ==
  /\ Alone /\ ReadsOwnChild /\ Fresh /\ ResultIsOwn
  /\ Unstarted \/ Greeting \/ Idle \/ Exchange

\* Lane and child agree on whose turn it is, as long as there is no culprit.
SyncWhileClean ==
  /\ cur \in Traces /\ main \in {"submit", "wait"}
  /\ Clean /\ result[cur] # Failed("tool_cache_miss") /\ cur \notin slipped
  => InSync

\* Pipes of at most two frames.
LEMMA ShortPipes ==
  ASSUME NEW a, NEW b
  PROVE  /\ Append(<<>>, a) = <<a>> /\ Append(<<a>>, b) = <<a, b>>
         /\ Head(<<a>>) = a /\ Tail(<<a>>) = <<>> /\ <<a>> # <<>>
         /\ Head(<<a, b>>) = a /\ Tail(<<a, b>>) = <<b>> /\ <<a, b>> # <<>>
<1>1. Append(<<>>, a) = <<a>>
  OBVIOUS
<1>2. Append(<<a>>, b) = <<a, b>>
  <2>1. <<a>> \in Seq({a, b}) /\ Len(<<a>>) = 1 /\ <<a>>[1] = a
    OBVIOUS
  <2>2. /\ Append(<<a>>, b) \in Seq({a, b}) /\ Len(Append(<<a>>, b)) = 2
        /\ Append(<<a>>, b)[1] = a /\ Append(<<a>>, b)[2] = b
    BY <2>1, AppendProperties
  <2>3. /\ <<a, b>> \in Seq({a, b}) /\ Len(<<a, b>>) = 2
        /\ <<a, b>>[1] = a /\ <<a, b>>[2] = b
    OBVIOUS
  <2>4. \A i \in 1..2 : Append(<<a>>, b)[i] = <<a, b>>[i]
    BY <2>2, <2>3
  <2>5. QED BY <2>2, <2>3, <2>4, SeqEqual
<1>3. Head(<<a>>) = a /\ <<a>> # <<>>
  OBVIOUS
<1>4. Tail(<<a>>) = <<>>
  <2>1. <<a>> \in Seq({a}) /\ Len(<<a>>) = 1 /\ <<a>> # <<>>
    OBVIOUS
  <2>2. Tail(<<a>>) \in Seq({a}) /\ Len(Tail(<<a>>)) = 0
    BY <2>1, HeadTailProperties
  <2>3. QED BY <2>2, EmptySeq
<1>5. Head(<<a, b>>) = a /\ <<a, b>> # <<>>
  OBVIOUS
<1>6. Tail(<<a, b>>) = <<b>>
  OBVIOUS
<1>7. QED BY <1>1, <1>2, <1>3, <1>4, <1>5, <1>6

\* A child moves itself and its own pipes alone.
LEMMA ChildStepsAlone ==
  ASSUME TypeOK, NEW c \in Traces, ChildMoves(c) \/ Die(c)
  PROVE  /\ child[c] # "unborn"
         /\ \A d \in Traces \ {c} : /\ child'[d] = child[d] /\ job'[d] = job[d]
                                    /\ stdin'[d] = stdin[d]
                                    /\ stdout'[d] = stdout[d]
<1> USE DEF TypeOK
<1>1. CASE SayHello(c) \/ AskTool(c) \/ Answer(c)
  BY <1>1 DEF SayHello, AskTool, Answer, ChildStep, Emit
<1>2. CASE AwaitAck(c) \/ AwaitRequest(c) \/ AwaitTool(c)
  BY <1>2 DEF AwaitAck, AwaitRequest, AwaitTool, ChildStep, TakeFrame
<1>3. CASE SeeEof(c) \/ Die(c)
  BY <1>3 DEF SeeEof, Die, ChildStep, Alive
<1>4. QED BY <1>1, <1>2, <1>3 DEF ChildMoves

\* A child's answers keep lane and child in step, and so does its death.
LEMMA ChildKeepsSync ==
  ASSUME TypeOK, main \in {"submit", "wait"}, cur \in Traces, InSync,
         NEW c \in Traces, ChildMoves(c) \/ Die(c)
  PROVE  InSync'
<1> USE DEF InSync
<1>1. UNCHANGED <<main, victim, cur, outcome, thread, reads, result, proc, started>>
  BY ChildLeavesMain DEF mainVars, threadVars, runnerVars
<1>2. (Alone /\ ReadsOwnChild /\ ResultIsOwn)'
  BY <1>1 DEF Alone, ReadsOwnChild, ResultIsOwn
<1>3. Fresh'
  BY <1>1, ChildStepsAlone DEF Fresh
<1>4. CASE Unstarted
  BY <1>1, <1>2, <1>3, <1>4 DEF Unstarted
<1>5. CASE c # proc
  BY <1>1, <1>2, <1>3, <1>5, ChildStepsAlone
     DEF Unstarted, Greeting, Idle, Exchange, Waiting, LookingUp, Lost, Frames
<1>6. CASE c = proc /\ Greeting
  <2>1. SayHello(c) \/ Die(c)
    BY <1>6 DEF Greeting, Frames, ChildMoves, AwaitAck, AwaitRequest, AwaitTool,
                TakeFrame, AskTool, Answer, SeeEof, PipesClosed, ChildStep
  <2>2. Greeting'
    BY <1>1, <1>6, <2>1, ShortPipes
       DEF Greeting, Frames, SayHello, Die, ChildStep, Emit, Alive, TypeOK
  <2>3. QED BY <1>2, <1>3, <2>2
<1>7. CASE c = proc /\ Idle
  <2>1. AwaitAck(c) \/ Die(c)
    BY <1>7 DEF Idle, Frames, ChildMoves, SayHello, AwaitRequest, AwaitTool,
                TakeFrame, AskTool, Answer, SeeEof, PipesClosed, ChildStep, Die, Alive
  <2>2. Idle'
    BY <1>1, <1>7, <2>1, ShortPipes
       DEF Idle, Frames, AwaitAck, TakeFrame, Die, ChildStep, Alive, TypeOK
  <2>3. QED BY <1>2, <1>3, <2>2
<1>8. CASE c = proc /\ Exchange
  <2>1. ASSUME Die(c)
        PROVE  Lost'
    <3>1. thread[cur] \in {"recv", "lookup"} /\ child'[c] = "dead"
          /\ stdout' = stdout
      BY <1>8, <2>1 DEF Exchange, Waiting, LookingUp, Lost, Die, ChildStep, TypeOK
    <3>2. \A i \in 1..Len(stdout[proc]) :
            stdout[proc][i].type = "replay_response" => stdout[proc][i].trace = cur
      BY <1>8 DEF Exchange, Waiting, LookingUp, Lost, Frames, Frame
    <3>3. QED BY <1>1, <1>8, <3>1, <3>2 DEF Lost
  <2>2. ASSUME LookingUp, ~Die(c)
        PROVE  FALSE
    BY <1>8, <2>2
       DEF LookingUp, Frames, ChildMoves, SayHello, AwaitAck, AwaitRequest,
           AwaitTool, TakeFrame, AskTool, Answer, SeeEof, PipesClosed, ChildStep
  <2>3. ASSUME Lost, ~Die(c)
        PROVE  FALSE
    BY <1>8, <2>3
       DEF Lost, ChildMoves, SayHello, AwaitAck, AwaitRequest,
           AwaitTool, AskTool, Answer, SeeEof, ChildStep
  <2>4. ASSUME Waiting, ~Die(c)
        PROVE  Waiting'
    <3> USE <1>1, <1>8, <2>4 DEF TypeOK
    <3>1. ~SayHello(c) /\ ~SeeEof(c)
      BY DEF Waiting, SayHello, ChildStep, SeeEof, PipesClosed
    <3>2. CASE AwaitAck(c)
      <4>1. /\ child[c] = "greeted"
            /\ Frames(<<Frame("hello_ack", proc), Frame("replay_request", cur)>>,
                      <<>>)
        BY <3>2 DEF Waiting, AwaitAck, ChildStep
      <4>2. child'[c] = "ready" /\ stdout'[c] = <<>>
        BY <3>2, <4>1 DEF Frames, AwaitAck, ChildStep
      <4>3. stdin'[c] = <<Frame("replay_request", cur)>>
        BY <3>2, <4>1, ShortPipes DEF Frames, AwaitAck, TakeFrame
      <4>4. QED BY <4>2, <4>3 DEF Waiting, Frames
    <3>3. CASE AwaitRequest(c)
      <4>1. Frames(<<Frame("replay_request", cur)>>, <<>>)
        BY <3>3 DEF Waiting, Frames, AwaitRequest, TakeFrame, ChildStep
      <4>2. Arrived(c) = Frame("replay_request", cur) /\ stdin'[c] = <<>>
        BY <3>3, <4>1, ShortPipes DEF Frames, AwaitRequest, Arrived, TakeFrame
      <4>3. child'[c] = "working" /\ job'[c] = cur
        BY <3>3, <4>2 DEF Frame, AwaitRequest, ChildStep
      <4>4. stdout'[c] = <<>>
        BY <3>3, <4>1 DEF Frames, AwaitRequest
      <4>5. QED BY <4>2, <4>3, <4>4 DEF Waiting, Frames
    <3>4. CASE AskTool(c)
      BY <3>4, ShortPipes DEF Waiting, Frames, AskTool, Emit, ChildStep
    <3>5. CASE AwaitTool(c)
      BY <3>5, ShortPipes DEF Waiting, Frames, AwaitTool, TakeFrame, ChildStep
    <3>6. CASE Answer(c)
      <4>1. Frames(<<>>, <<>>) /\ job[c] = cur /\ thread[cur] = "recv"
        BY <3>6 DEF Waiting, Answer
      <4>2. PICK type \in {"replay_response", "replay_error"} :
              Emit(c, Frame(type, cur))
        BY <3>6, <4>1 DEF Answer
      <4>3. stdout'[c] = <<Frame(type, cur)>> /\ stdin'[c] = <<>>
        BY <3>6, <4>1, <4>2, ShortPipes DEF Frames, Answer, Emit
      <4>4. child'[c] = "ready"
        BY <3>6 DEF Answer
      <4>5. QED BY <4>1, <4>3, <4>4 DEF Waiting, Frames
    <3>7. QED BY <3>1, <3>2, <3>3, <3>4, <3>5, <3>6 DEF ChildMoves
  <2>5. Exchange'
    BY <1>1, <1>8, <2>1, <2>2, <2>3, <2>4 DEF Exchange
  <2>6. QED BY <1>2, <1>3, <2>5
<1>9. QED BY <1>4, <1>5, <1>6, <1>7, <1>8

\* The part of InSync that concerns no pipe in use, after a step of thread t.
Tidy(t) ==
  /\ reads'[t] # NoChild => reads'[t] = proc' /\ thread'[t] \in {"hello", "recv"}
  /\ result'[t].kind = "success" => result'[t].of = t

LEMMA TidyEnough ==
  ASSUME TypeOK, cur \in Traces, InSync, NEW t \in Traces, ThreadStep(t), Tidy(t)
  PROVE  /\ t = cur /\ UNCHANGED <<main, victim, cur, outcome>>
         /\ (Alone /\ ReadsOwnChild /\ ResultIsOwn)'
<1>1. t = cur
  BY ThreadStepsAlone DEF InSync, Alone
<1>2. UNCHANGED <<main, victim, cur, outcome>>
  BY ThreadLeavesMain DEF mainVars
<1>3. (Alone /\ ReadsOwnChild /\ ResultIsOwn)'
  BY <1>1, <1>2, ThreadStepsAlone
     DEF InSync, Alone, ReadsOwnChild, ResultIsOwn, Tidy
<1>4. QED BY <1>1, <1>2, <1>3

\* Before the handshake is over.
LEMMA HandshakeKeepsSync ==
  ASSUME TypeOK, cur \in Traces, InSync, NEW t \in Traces, ThreadStep(t),
         \/ Enter(t) \/ CheckStarted(t) \/ Spawn(t) \/ SpawnFails(t)
         \/ ReceiveHello(t) \/ HelloTimeout(t) \/ SendAck(t)
  PROVE  InSync'
<1> USE DEF TypeOK
<1>1. t = cur
  BY ThreadStepsAlone DEF InSync, Alone
<1>2. CASE Enter(t) \/ CheckStarted(t)
  <2>1. Tidy(t)
    BY <1>1, <1>2
       DEF InSync, ReadsOwnChild, ResultIsOwn, Tidy, Enter, CheckStarted, Step
  <2>2. Fresh'
    BY <1>2 DEF InSync, Fresh, Enter, CheckStarted, Step, runnerVars, childVars
  <2>3. (Unstarted \/ Idle)'
    <3>1. Unstarted \/ Idle
      BY <1>1, <1>2
         DEF InSync, Greeting, Exchange, Waiting, LookingUp, Lost, Enter,
             CheckStarted, Step
    <3>2. UNCHANGED <<cur, proc, started, child, stdin, stdout>>
      BY <1>2, <2>1, TidyEnough DEF Enter, CheckStarted, runnerVars, childVars
    <3>3. thread'[cur] \in {"entered", "request", "spawn"}
          /\ (thread'[cur] = "request" => started)
          /\ (thread'[cur] = "spawn" => ~started)
      BY <1>1, <1>2 DEF Enter, CheckStarted, Step
    <3>4. CASE started
      BY <3>1, <3>2, <3>3, <3>4 DEF Unstarted, Idle, Frames
    <3>5. CASE ~started
      BY <3>2, <3>3, <3>5 DEF Unstarted
    <3>6. QED BY <3>4, <3>5
  <2>4. QED BY <2>1, <2>2, <2>3, TidyEnough DEF InSync
<1>3. CASE Spawn(t)
  <2>1. Tidy(t)
    BY <1>1, <1>3 DEF InSync, ReadsOwnChild, ResultIsOwn, Tidy, Spawn, Step
  <2>2. Fresh'
    BY <1>3 DEF InSync, Fresh, Spawn, Step
  <2>3. ~started /\ stdin[t] = <<>> /\ stdout[t] = <<>>
    BY <1>1, <1>3
       DEF InSync, Fresh, Unstarted, Greeting, Idle, Exchange, Waiting, LookingUp,
           Lost, Spawn, Step
  <2>4. Greeting'
    BY <1>1, <1>3, <2>1, <2>3, TidyEnough DEF Greeting, Frames, Spawn, Step
  <2>5. QED BY <2>1, <2>2, <2>4, TidyEnough DEF InSync
<1>4. ASSUME Raise(t), ~started', UNCHANGED <<proc, child, stdin>>,
             \A c \in Traces : stdout[c] = <<>> => stdout'[c] = <<>>
      PROVE  InSync'
  <2>1. Tidy(t)
    BY <1>4 DEF Tidy, Raise, Resolve, Failed
  <2>2. Fresh'
    BY <1>4 DEF InSync, Fresh, Raise, Resolve
  <2>3. Unstarted'
    BY <1>1, <1>4, <2>1, TidyEnough DEF Unstarted, Raise, Resolve
  <2>4. QED BY <2>1, <2>2, <2>3, TidyEnough DEF InSync
<1>5. ASSUME thread[t] \in {"spawn", "hello", "ack"}
      PROVE  ~started /\ (thread[t] \in {"hello", "ack"} => Greeting)
  BY <1>1, <1>5
     DEF InSync, Unstarted, Idle, Exchange, Waiting, LookingUp, Lost, Greeting
<1>6. CASE SpawnFails(t) \/ HelloTimeout(t)
  BY <1>4, <1>5, <1>6 DEF SpawnFails, HelloTimeout, runnerVars, childVars
<1>7. CASE ReceiveHello(t)
  <2>1. /\ Greeting /\ ~started /\ reads[t] = proc /\ proc \in Traces
        /\ stdout[proc] # <<>> /\ thread[cur] = "hello"
    BY <1>1, <1>5, <1>7
       DEF InSync, ReadsOwnChild, ReceiveHello, Consume, Reading, Greeting
  <2>2. /\ stdout' = [stdout EXCEPT ![proc] = Tail(@)]
        /\ UNCHANGED <<proc, started, child, job, stdin>>
    BY <1>7, <2>1 DEF ReceiveHello, Consume, runnerVars
  <2>3. /\ Frames(<<>>, <<Frame("hello", NoTrace)>>)
        /\ child[proc] \in {"greeted", "dead"}
    BY <2>1 DEF Greeting, Frames
  <2>4. Incoming(t).type = "hello" /\ stdout'[proc] = <<>>
    BY <2>1, <2>2, <2>3, ShortPipes DEF Incoming, Frame, Frames
  <2>5. thread' = [thread EXCEPT ![t] = "ack"]
        /\ reads' = [reads EXCEPT ![t] = NoChild] /\ UNCHANGED result
    BY <1>7, <2>4 DEF ReceiveHello
  <2>6. Tidy(t)
    BY <2>5 DEF InSync, ResultIsOwn, Tidy
  <2>7. Fresh'
    BY <2>1, <2>2, <2>5 DEF InSync, Fresh
  <2>8. Greeting'
    BY <1>1, <2>1, <2>2, <2>3, <2>4, <2>5, <2>6, TidyEnough DEF Greeting, Frames
  <2>9. QED BY <2>6, <2>7, <2>8, TidyEnough DEF InSync
<1>8. CASE SendAck(t)
  <2>1. Greeting /\ ~started /\ thread[cur] = "ack"
    BY <1>1, <1>5, <1>8 DEF SendAck
  <2>2. CASE CanSend
    <3>1. child[proc] = "greeted" /\ Frames(<<>>, <<>>) /\ proc = t /\ proc \in Traces
      BY <1>1, <2>1, <2>2 DEF Greeting, CanSend, Alive
    <3>2. /\ stdin' = [stdin EXCEPT ![proc] = Append(@, Frame("hello_ack", proc))]
          /\ started' = TRUE /\ thread' = [thread EXCEPT ![t] = "request"]
          /\ UNCHANGED <<reads, result, proc, child, job, stdout>>
      BY <1>8, <2>2, <3>1 DEF SendAck, SendFrame, Step
    <3>3. stdin'[proc] = <<Frame("hello_ack", proc)>>
      BY <3>1, <3>2, ShortPipes DEF Frames
    <3>4. Tidy(t)
      BY <1>1, <2>1, <3>2 DEF InSync, ReadsOwnChild, ResultIsOwn, Tidy
    <3>5. Fresh'
      BY <3>2 DEF InSync, Fresh
    <3>6. Idle'
      BY <1>1, <3>1, <3>2, <3>3, <3>4, TidyEnough DEF Idle, Frames
    <3>7. QED BY <3>4, <3>5, <3>6, TidyEnough DEF InSync
  <2>3. CASE ~CanSend
    BY <1>4, <1>8, <2>1, <2>3 DEF SendAck
  <2>4. QED BY <2>2, <2>3
<1>9. QED BY <1>2, <1>3, <1>6, <1>7, <1>8

\* From the request to the result.
LEMMA ExchangeKeepsSync ==
  ASSUME TypeOK, cur \in Traces, InSync, NEW t \in Traces, ThreadStep(t),
         \/ SendRequest(t) \/ ReceiveLookup(t) \/ ReceiveResponse(t)
         \/ ReceiveError(t) \/ AnswerHit(t)
  PROVE  InSync'
<1> USE DEF TypeOK
<1>1. t = cur
  BY ThreadStepsAlone DEF InSync, Alone
<1>2. ASSUME NEW r, Resolve(t, r), r.kind = "success" => r.of = t,
             started, proc \in Traces, UNCHANGED <<proc, started, child, stdin>>,
             \A c \in Traces : stdout[c] = <<>> => stdout'[c] = <<>>,
             \/ child[proc] = "dead"
             \/ /\ child[proc] = "ready"
                /\ stdin[proc] = <<>> /\ stdout'[proc] = <<>>
      PROVE  InSync'
  <2>1. Tidy(t)
    BY <1>2 DEF Tidy, Resolve
  <2>2. Fresh'
    BY <1>2 DEF InSync, Fresh, Resolve
  <2>3. Idle'
    BY <1>1, <1>2, <2>1, TidyEnough DEF Idle, Frames, Resolve
  <2>4. QED BY <2>1, <2>2, <2>3, TidyEnough DEF InSync
<1>3. ASSUME Raise(t), started, proc \in Traces,
             UNCHANGED <<proc, started, child, stdin>>,
             \A c \in Traces : stdout[c] = <<>> => stdout'[c] = <<>>,
             \/ child[proc] = "dead"
             \/ /\ child[proc] = "ready"
                /\ stdin[proc] = <<>> /\ stdout'[proc] = <<>>
      PROVE  InSync'
  <2>1. /\ Resolve(t, Failed("runner_exception"))
        /\ Failed("runner_exception").kind # "success"
    BY <1>3 DEF Raise, Failed
  <2>2. QED BY <1>2, <1>3, <2>1
<1>4. CASE SendRequest(t)
  <2>1. Idle /\ started /\ proc \in Traces
    BY <1>1, <1>4
       DEF InSync, Unstarted, Greeting, Exchange, Waiting, LookingUp, Lost, Idle,
           SendRequest
  <2>2. CASE ~CanSend
    <3>1. child[proc] = "dead"
      BY <2>1, <2>2 DEF CanSend, Alive, Idle, NoChild, Traces
    <3>2. QED
      BY <1>3, <1>4, <2>1, <2>2, <3>1 DEF SendRequest, runnerVars
  <2>3. CASE CanSend
    <3>1. /\ stdin' = [stdin EXCEPT ![proc] = Append(@, Frame("replay_request", cur))]
          /\ thread' = [thread EXCEPT ![t] = "recv"] /\ thread[t] = "request"
          /\ UNCHANGED <<reads, result, proc, started, child, job, stdout>>
      BY <1>1, <1>4, <2>3 DEF SendRequest, SendFrame, Step, runnerVars
    <3>2. Tidy(t)
      BY <1>1, <3>1 DEF InSync, ReadsOwnChild, ResultIsOwn, Tidy
    <3>3. Fresh'
      BY <3>1 DEF InSync, Fresh
    <3>4. \/ child[proc] = "ready" /\ Frames(<<>>, <<>>)
          \/ child[proc] = "greeted" /\ Frames(<<Frame("hello_ack", proc)>>, <<>>)
      BY <2>1, <2>3 DEF Idle, CanSend, Alive
    <3>5. Waiting'
      BY <1>1, <2>1, <3>1, <3>2, <3>4, TidyEnough, ShortPipes DEF Waiting, Frames
    <3>6. QED BY <2>1, <3>1, <3>2, <3>3, <3>5, TidyEnough DEF InSync, Exchange
  <2>4. QED BY <2>2, <2>3
<1>5. ASSUME thread[t] \in {"recv", "lookup"}
      PROVE  Exchange
  BY <1>1, <1>5 DEF InSync, Unstarted, Greeting, Idle
<1>6. ASSUME thread[t] = "recv", Consume(t)
      PROVE  /\ Exchange /\ reads[t] = proc /\ proc \in Traces /\ started
             /\ stdout[proc] # <<>> /\ Incoming(t) = stdout[proc][1]
             /\ stdout' = [stdout EXCEPT ![proc] = Tail(@)]
             /\ UNCHANGED <<proc, started, child, job, stdin>>
             /\ \A c \in Traces : stdout[c] = <<>> => stdout'[c] = <<>>
  <2>1. Exchange /\ reads[t] = proc /\ proc \in Traces /\ started
    BY <1>5, <1>6 DEF InSync, ReadsOwnChild, Consume, Reading, Exchange
  <2>2. /\ stdout[proc] # <<>> /\ stdout' = [stdout EXCEPT ![proc] = Tail(@)]
        /\ UNCHANGED <<proc, started, child, job, stdin>>
    BY <1>6, <2>1 DEF Consume, runnerVars
  <2>3. Incoming(t) = stdout[proc][1]
    BY <2>1, <2>2, HeadTailProperties DEF Incoming
  <2>4. QED BY <2>1, <2>2, <2>3
<1>7. CASE ReceiveLookup(t)
  <2>1. thread[t] = "recv" /\ Consume(t) /\ Incoming(t).type = "tool_lookup"
    BY <1>7 DEF ReceiveLookup
  <2>2. /\ thread' = [thread EXCEPT ![t] = "lookup"]
        /\ reads' = [reads EXCEPT ![t] = NoChild] /\ UNCHANGED result
    BY <1>7 DEF ReceiveLookup
  <2>3. Tidy(t)
    BY <2>2 DEF InSync, ResultIsOwn, Tidy
  <2>4. Fresh'
    BY <1>6, <2>1, <2>2 DEF InSync, Fresh
  <2>5. CASE Waiting
    <3>1. child[proc] = "awaiting" /\ job[proc] = cur
          /\ Frames(<<>>, <<Frame("tool_lookup", cur)>>)
      BY <1>6, <2>1, <2>5 DEF Waiting, Frames, Frame
    <3>2. LookingUp'
      BY <1>1, <1>6, <2>1, <2>2, <2>3, <3>1, TidyEnough, ShortPipes
         DEF LookingUp, Frames
    <3>3. QED BY <1>6, <2>1, <2>3, <2>4, <3>2, TidyEnough DEF InSync, Exchange
  <2>6. CASE Lost
    <3>1. ASSUME NEW i \in 1..Len(stdout'[proc])
          PROVE  stdout'[proc][i].type = "replay_response" =>
                   stdout'[proc][i].trace = cur
      <4>1. i + 1 \in 1..Len(stdout[proc]) /\ stdout'[proc][i] = stdout[proc][i + 1]
        <5>1. reads[t] = proc /\ proc \in Traces /\ stdout[proc] # <<>>
              /\ stdout' = [stdout EXCEPT ![proc] = Tail(@)]
          BY <1>6, <2>1
        <5>2. QED BY <5>1, FramesTaken
      <4>2. QED BY <2>6, <4>1 DEF Lost
    <3>2. Lost'
      BY <1>1, <1>6, <2>1, <2>2, <2>3, <2>6, <3>1, TidyEnough DEF Lost
    <3>3. QED BY <1>6, <2>1, <2>3, <2>4, <3>2, TidyEnough DEF InSync, Exchange
  <2>7. QED BY <1>1, <1>6, <2>1, <2>5, <2>6 DEF Exchange, LookingUp
<1>8. CASE ReceiveResponse(t) \/ ReceiveError(t)
  <2>1. /\ thread[t] = "recv" /\ Consume(t)
        /\ Incoming(t).type \in {"replay_response", "replay_error", "hello"}
    BY <1>8 DEF ReceiveResponse, ReceiveError
  <2>2. \/ child[proc] = "dead"
        \/ child[proc] = "ready" /\ stdin[proc] = <<>> /\ stdout'[proc] = <<>>
    <3>1. CASE Waiting
      <4>1. child[proc] = "ready" /\ stdin[proc] = <<>>
            /\ \E type \in {"replay_response", "replay_error"} :
                 stdout[proc] = <<Frame(type, cur)>>
        BY <1>6, <2>1, <3>1 DEF Waiting, Frames, Frame
      <4>2. QED BY <1>6, <2>1, <4>1, ShortPipes DEF Frames
    <3>2. QED BY <1>1, <1>6, <2>1, <3>1 DEF Exchange, LookingUp, Lost
  <2>3. Incoming(t).type = "replay_response" => Incoming(t).trace = cur
    <3>1. CASE Waiting
      BY <1>6, <2>1, <3>1 DEF Waiting, Frames, Frame
    <3>2. CASE Lost
      <4>1. 1 \in 1..Len(stdout[proc])
        BY <1>6, <2>1, EmptySeq
      <4>2. QED BY <1>6, <2>1, <3>2, <4>1 DEF Lost
    <3>3. QED BY <1>1, <1>6, <2>1, <3>1, <3>2 DEF Exchange, LookingUp
  <2>4. CASE ReceiveResponse(t)
    <3>1. Resolve(t, Promise!Success(cur)) /\ Promise!Success(cur).of = t
      BY <1>1, <2>3, <2>4 DEF ReceiveResponse, Promise!Success
    <3>2. QED BY <1>2, <1>6, <2>1, <2>2, <3>1
  <2>5. CASE ReceiveError(t)
    BY <1>3, <1>6, <2>1, <2>2, <2>5 DEF ReceiveError
  <2>6. QED BY <1>8, <2>4, <2>5
<1>9. CASE AnswerHit(t)
  <2>1. /\ thread[t] = "lookup" /\ Exchange /\ started /\ proc \in Traces
        /\ LookingUp \/ Lost
    BY <1>1, <1>5, <1>9 DEF AnswerHit, Exchange, Waiting
  <2>2. CASE ~CanSend
    <3>1. child[proc] = "dead"
      BY <2>1, <2>2 DEF LookingUp, Lost, CanSend, Alive, NoChild, Traces
    <3>2. QED
      BY <1>3, <1>9, <2>1, <2>2, <3>1 DEF AnswerHit, runnerVars
  <2>3. CASE CanSend
    <3>1. LookingUp
      BY <2>1, <2>3 DEF Lost, CanSend, Alive
    <3>2. /\ stdin' = [stdin EXCEPT ![proc] = Append(@, Frame("tool_result", cur))]
          /\ thread' = [thread EXCEPT ![t] = "recv"]
          /\ UNCHANGED <<reads, result, proc, started, child, job, stdout>>
      BY <1>1, <1>9, <2>3 DEF AnswerHit, SendFrame, Step, runnerVars
    <3>3. Tidy(t)
      BY <1>1, <2>1, <3>2 DEF InSync, ReadsOwnChild, ResultIsOwn, Tidy
    <3>4. Fresh'
      BY <3>2 DEF InSync, Fresh
    <3>5. Waiting'
      BY <1>1, <2>1, <3>1, <3>2, <3>3, TidyEnough, ShortPipes
         DEF LookingUp, Waiting, Frames
    <3>6. QED BY <2>1, <3>2, <3>3, <3>4, <3>5, TidyEnough DEF InSync, Exchange
  <2>4. QED BY <2>2, <2>3
<1>10. QED BY <1>4, <1>7, <1>8, <1>9

\* Going to a child's stdout, and finding it at its end.
LEMMA ReadingKeepsSync ==
  ASSUME TypeOK, cur \in Traces, InSync, NEW t \in Traces, ThreadStep(t),
         Listen(t) \/ ReceiveEof(t)
  PROVE  InSync'
<1> USE DEF TypeOK
<1>1. t = cur
  BY ThreadStepsAlone DEF InSync, Alone
<1>2. /\ thread[t] \in {"hello", "recv"} /\ proc \in Traces
      /\ (~started /\ Greeting) \/ (started /\ Exchange)
  <2>1. thread[cur] \in {"hello", "recv"}
    BY <1>1 DEF Listen, ReceiveEof, Reading
  <2>2. Greeting \/ Exchange
    BY <2>1 DEF InSync, Unstarted, Idle
  <2>3. QED BY <1>1, <2>1, <2>2 DEF Greeting, Exchange
<1>3. UNCHANGED <<proc, started, child, job, stdin, stdout>>
  BY DEF Listen, ReceiveEof, runnerVars, childVars
<1>4. CASE Listen(t)
  <2>1. reads' = [reads EXCEPT ![t] = proc] /\ UNCHANGED <<thread, result>>
    BY <1>2, <1>4 DEF Listen, NoChild, Traces
  <2>2. Tidy(t)
    BY <1>2, <1>3, <2>1 DEF InSync, ResultIsOwn, Tidy
  <2>3. Fresh'
    BY <1>3, <2>1 DEF InSync, Fresh
  <2>4. (Greeting \/ Exchange)'
    BY <1>2, <1>3, <2>1, <2>2, TidyEnough
       DEF Greeting, Exchange, Waiting, LookingUp, Lost, Frames
  <2>5. QED BY <2>2, <2>3, <2>4, TidyEnough DEF InSync
<1>5. CASE ReceiveEof(t)
  <2>1. Resolve(t, Failed("runner_exception")) /\ child[proc] = "dead"
    BY <1>1, <1>5
       DEF InSync, ReadsOwnChild, ReceiveEof, Reading, Raise
  <2>2. Tidy(t)
    BY <2>1 DEF Tidy, Resolve, Failed
  <2>3. Fresh'
    BY <1>3, <2>1 DEF InSync, Fresh, Resolve
  <2>4. (Unstarted \/ Idle)'
    BY <1>1, <1>2, <1>3, <2>1, <2>2, TidyEnough DEF Unstarted, Idle, Resolve
  <2>5. QED BY <2>2, <2>3, <2>4, TidyEnough DEF InSync
<1>6. QED BY <1>4, <1>5

LEMMA ThreadKeepsSync ==
  ASSUME TypeOK, cur \in Traces, InSync, NEW t \in Traces, ThreadStep(t),
         ~AnswerMiss(t), ~ReceiveStray(t), ~LookupRaises(t)
  PROVE  InSync'
BY HandshakeKeepsSync, ExchangeKeepsSync, ReadingKeepsSync DEF ThreadStep

\* The traces reached so far, and no others, have an outcome.
PendingAhead == \A t \in Traces : outcome[t] = Promise!Pending <=> t >= cur

\* A call that slipped out raised.
SlipShows == \A t \in slipped : result[t] = Failed("runner_exception")

SwapInv == TypeOK /\ SubmittedOnce /\ ResultIsFinal /\ PendingAhead /\ SlipShows
             /\ SyncWhileClean /\ SwapsHaveCulprits

\* What makes an earlier trace a culprit.
Blamed(u) == outcome[u] \in Culprits
               \/ (outcome[u] = Failed("runner_exception") /\ u \in slipped)

\* A call that slipped out is reported as such, or as a timeout.
LEMMA SlipsAreBlamed ==
  ASSUME ResultIsFinal, PendingAhead, SlipShows, cur \in Nat,
         NEW u \in Traces, u < cur, u \in slipped
  PROVE  Blamed(u)
<1>1. outcome[u] # Promise!Pending
  BY ExecAssumption DEF PendingAhead, Traces
<1>2. QED BY <1>1 DEF ResultIsFinal, SlipShows, Blamed, Culprits

LEMMA SwapInit == Init => SwapInv
<1> SUFFICES ASSUME Init PROVE SwapInv
  OBVIOUS
<1>1. TypeOK /\ SubmittedOnce /\ ResultIsFinal
  BY OnceInit DEF OnceInv
<1>2. PendingAhead /\ SlipShows /\ SwapsHaveCulprits
  BY ExecAssumption
     DEF Init, PendingAhead, SlipShows, SwapsHaveCulprits, Promise!Pending, Traces
<1>3. Alone /\ ReadsOwnChild /\ Fresh /\ ResultIsOwn
  BY DEF Init, Alone, ReadsOwnChild, Fresh, ResultIsOwn, Promise!Pending, Traces,
         NoChild
<1>4. cur \in Traces => Unstarted
  BY DEF Init, Unstarted
<1>5. QED BY <1>1, <1>2, <1>3, <1>4 DEF SwapInv, SyncWhileClean, InSync

\* The step that settles the current trace: with a result of its own as long as
\* no earlier trace is to blame.
LEMMA SettlingKeepsSwapInv ==
  ASSUME SwapInv, Complete \/ TimeOut
  PROVE  (PendingAhead /\ SlipShows /\ SyncWhileClean /\ SwapsHaveCulprits)'
<1> USE DEF SwapInv, TypeOK, SubmittedOnce
<1>1. PICK o \in Outcomes :
        /\ main = "wait" /\ cur \in Traces /\ main' = "submit" /\ cur' = cur + 1
        /\ outcome' = [outcome EXCEPT ![cur] = o]
        /\ \/ Complete /\ o = result[cur] /\ o # Promise!Pending
           \/ TimeOut /\ o = Failed("runner_timeout")
  BY OutcomesTyped DEF Complete, TimeOut, NextTrace
<1>2. outcome[cur] = Promise!Pending /\ o # Promise!Pending
  BY <1>1, ExecAssumption DEF PendingAhead, Traces, Failed, Promise!Pending
<1>3. PendingAhead'
  BY <1>1, <1>2, ExecAssumption DEF PendingAhead, Traces
<1>4. UNCHANGED <<slipped, result>>
  BY DEF Complete, TimeOut, threadVars
<1>5. SlipShows'
  BY <1>4 DEF SlipShows
<1>6. Clean' => Clean /\ o \notin Culprits /\ cur \notin slipped
  <2> SUFFICES ASSUME Clean'
               PROVE  Clean /\ o \notin Culprits /\ cur \notin slipped
    OBVIOUS
  <2>1. \A u \in Traces : u < cur' => outcome'[u] \notin Culprits /\ u \notin slipped
    BY <1>4 DEF Clean, Culprits
  <2>2. cur < cur' /\ outcome'[cur] = o
    BY <1>1, ExecAssumption DEF Traces
  <2>3. \A u \in Traces : u < cur => u < cur' /\ outcome'[u] = outcome[u]
    BY <1>1, ExecAssumption DEF Traces
  <2>4. Clean
    BY <2>1, <2>3 DEF Clean
  <2>5. QED BY <1>1, <2>1, <2>2, <2>4
<1>7. Clean /\ o \notin Culprits /\ cur \notin slipped => InSync
  BY <1>1 DEF SyncWhileClean, Culprits
<1>8. SwapsHaveCulprits'
  <2> SUFFICES ASSUME NEW t \in Traces,
                      outcome'[t].kind = "success", outcome'[t].of # t
               PROVE  \E u \in 1..(t - 1) : Blamed(u)'
    BY DEF SwapsHaveCulprits, Culprits, Blamed
  <2>1. ASSUME NEW u \in Traces, Blamed(u)
        PROVE  Blamed(u)'
    BY <1>1, <1>2, <1>4, <2>1 DEF Blamed, Culprits, Failed, Promise!Pending
  <2>2. CASE t = cur
    <3>1. o.kind = "success" /\ o.of # cur /\ o = result[cur]
      BY <1>1, <2>2 DEF Failed
    <3>2. o \notin Culprits /\ cur \notin slipped
      BY <3>1 DEF Culprits, Failed, SlipShows
    <3>3. ~InSync
      BY <1>1, <3>1 DEF InSync, ResultIsOwn
    <3>4. PICK u \in Traces : u < cur /\ (outcome[u] \in Culprits \/ u \in slipped)
      BY <1>7, <3>2, <3>3 DEF Clean
    <3>5. Blamed(u)
      BY <1>1, <3>4, SlipsAreBlamed, ExecAssumption DEF Blamed, Traces
    <3>6. u \in 1..(t - 1)
      BY <2>2, <3>4, ExecAssumption DEF Traces
    <3>7. QED BY <2>1, <3>5, <3>6
  <2>3. CASE t # cur
    <3>1. outcome[t].kind = "success" /\ outcome[t].of # t
      BY <1>1, <2>3
    <3>2. PICK u \in 1..(t - 1) : Blamed(u)
      BY <3>1 DEF SwapsHaveCulprits, Culprits, Blamed
    <3>3. u \in Traces
      BY ExecAssumption DEF Traces
    <3>4. QED BY <2>1, <3>2, <3>3
  <2>4. QED BY <2>2, <2>3
<1>9. SyncWhileClean'
  <2> SUFFICES ASSUME cur' \in Traces, Clean'
               PROVE  InSync'
    BY DEF SyncWhileClean
  <2>1. InSync /\ Complete
    BY <1>1, <1>6, <1>7 DEF Culprits
  <2>2. UNCHANGED <<thread, reads, result, proc, started, child, job, stdin, stdout>>
    BY <2>1 DEF Complete, threadVars, runnerVars, childVars
  <2>3. thread[cur] = "done" /\ thread[cur'] = "none" /\ cur' # cur
    BY <1>1, <2>1, ExecAssumption DEF Complete, ResultIsFinal, Traces
  <2>4. (Alone /\ ReadsOwnChild /\ Fresh /\ ResultIsOwn)'
    BY <2>1, <2>2, <2>3 DEF InSync, Alone, ReadsOwnChild, Fresh, ResultIsOwn
  <2>5. Unstarted \/ Idle
    BY <2>1, <2>3 DEF InSync, Greeting, Exchange, Waiting, LookingUp, Lost
  <2>6. (Unstarted \/ Idle)'
    BY <2>2, <2>3, <2>5 DEF Unstarted, Idle, Frames
  <2>7. QED BY <2>4, <2>6 DEF InSync
<1>10. QED BY <1>3, <1>5, <1>8, <1>9

LEMMA SwapStep == SwapInv /\ [Next]_vars => SwapInv'
<1> SUFFICES ASSUME SwapInv, [Next]_vars PROVE SwapInv'
  OBVIOUS
<1> USE DEF SwapInv
<1>1. (TypeOK /\ SubmittedOnce /\ ResultIsFinal)'
  BY StepTyped, SubmittedOnceKept DEF WaitsForTrace, SubmittedOnce
<1>2. ASSUME UNCHANGED <<cur, outcome, slipped, result>>
      PROVE  /\ (PendingAhead /\ SlipShows /\ SwapsHaveCulprits)'
             /\ Clean' <=> Clean
  BY <1>2 DEF PendingAhead, SlipShows, SwapsHaveCulprits, Clean
<1>3. CASE UNCHANGED vars \/ Finished
  <2>1. UNCHANGED vars
    BY <1>3 DEF Finished
  <2>2. InSync => InSync'
    BY <2>1 DEF vars, InSync, Alone, ReadsOwnChild, Fresh, ResultIsOwn, Unstarted,
                Greeting, Idle, Exchange, Waiting, LookingUp, Lost, Frames
  <2>3. QED BY <1>1, <1>2, <2>1, <2>2 DEF vars, SyncWhileClean
<1>4. ASSUME NEW t \in Traces, ThreadStep(t)
      PROVE  SwapInv'
  <2>1. UNCHANGED <<main, cur, outcome>> /\ slipped \subseteq slipped'
    BY <1>4, ThreadLeavesMain, SlippedGrows DEF mainVars
  <2>2. ASSUME NEW u \in Traces, result[u] # Promise!Pending
        PROVE  result'[u] = result[u]
    BY <1>4, <2>2, ThreadStepsAlone DEF ResultIsFinal
  <2>3. SlipShows'
    BY <1>4, <2>2, SlipsRaise DEF SlipShows, TypeOK, Failed, Promise!Pending
  <2>4. SwapsHaveCulprits'
    BY <2>1 DEF SwapsHaveCulprits
  <2>5. Clean' => Clean
    BY <2>1 DEF Clean
  <2>6. ASSUME cur \in Traces, InSync,
               AnswerMiss(t) \/ ReceiveStray(t) \/ LookupRaises(t)
        PROVE  result'[cur] = Failed("tool_cache_miss") \/ cur \in slipped'
    <3>1. t = cur
      BY <1>4, <2>6, ThreadStepsAlone DEF InSync, Alone
    <3>2. QED
      BY <2>6, <3>1 DEF AnswerMiss, ReceiveStray, LookupRaises, SlipOut, Resolve, TypeOK
  <2>7. SyncWhileClean'
    <3> SUFFICES ASSUME cur \in Traces, main \in {"submit", "wait"}, Clean',
                        result'[cur] # Failed("tool_cache_miss"), cur \notin slipped'
                 PROVE  InSync'
      BY <2>1 DEF SyncWhileClean
    <3>1. result[cur] # Failed("tool_cache_miss") /\ cur \notin slipped
      BY <2>1, <2>2 DEF Failed, Promise!Pending
    <3>2. InSync
      BY <2>5, <3>1 DEF SyncWhileClean
    <3>3. QED BY <1>4, <2>6, <3>2, ThreadKeepsSync
  <2>8. PendingAhead'
    BY <2>1 DEF PendingAhead
  <2>9. QED BY <1>1, <2>3, <2>4, <2>7, <2>8
<1>5. ASSUME NEW c \in Traces, ChildMoves(c) \/ Die(c)
      PROVE  SwapInv'
  <2>1. UNCHANGED <<main, cur, outcome, result, slipped>>
    BY <1>5, ChildLeavesMain DEF mainVars, threadVars
  <2>2. SyncWhileClean'
    <3> SUFFICES ASSUME cur \in Traces, main \in {"submit", "wait"}, InSync
                 PROVE  InSync'
      BY <1>2, <2>1 DEF SyncWhileClean
    <3>1. QED BY <1>5, ChildKeepsSync
  <2>3. QED BY <1>1, <1>2, <2>1, <2>2
<1>6. CASE Complete \/ TimeOut
  BY <1>1, <1>6, SettlingKeepsSwapInv
<1>7. CASE Submit
  <2>1. /\ UNCHANGED <<cur, outcome, result, slipped, reads, proc, started, child, job,
                       stdin, stdout>>
        /\ main = "submit" /\ cur \in Traces
        /\ thread' = [thread EXCEPT ![cur] = "queued"]
    BY <1>7, ExecAssumption DEF Submit, runnerVars, childVars, TypeOK, Traces
  <2>2. thread[cur] = "none"
    BY <2>1 DEF SubmittedOnce
  <2>3. InSync => InSync'
    BY <2>1, <2>2
       DEF InSync, Alone, ReadsOwnChild, Fresh, ResultIsOwn, Unstarted, Greeting,
           Idle, Exchange, Waiting, LookingUp, Lost, Frames, TypeOK
  <2>4. QED BY <1>1, <1>2, <2>1, <2>3 DEF SyncWhileClean
<1>8. CASE \/ StartClose \/ AskShutdown \/ ShutdownUnsent \/ FinishClose
           \/ ExitProcess \/ Interrupt \/ CutClose
  <2>1. UNCHANGED <<cur, outcome, slipped, result>> /\ main' \notin {"submit", "wait"}
    BY <1>8 DEF StartClose, AskShutdown, ShutdownUnsent, FinishClose, ExitProcess,
                Interrupt, CutClose, LeaveClose, threadVars
  <2>2. QED BY <1>1, <1>2, <2>1 DEF SyncWhileClean
<1>9. QED
  BY <1>3, <1>4, <1>5, <1>6, <1>7, <1>8 DEF Next, MainStep

\* A trace reported with the output of another one comes after a trace reported
\* as a tool cache miss, a timeout, or an exception raised before the child's
\* answer was read: whatever dies, fails to start, answers with an error or is
\* interrupted, and however many traces there are.
THEOREM OnlyCulpritsSwap == Spec => []SwapsHaveCulprits
<1>1. SwapInv => SwapsHaveCulprits
  BY DEF SwapInv
<1>2. QED BY SwapInit, SwapStep, <1>1, PTL DEF Spec

-----------------------------------------------------------------------------
(* The promise of TraceReplay, when nothing is missed, slips or times out. *)

NoCulprits ==
  /\ slipped = {}
  /\ \A t \in Traces : result[t] \notin Culprits /\ outcome[t] \notin Culprits

LEMMA NoCulpritsStep ==
  ASSUME Timeouts = {}, Misses = FALSE, Slips = FALSE, SwapInv, NoCulprits, [Next]_vars
  PROVE  NoCulprits'
<1> USE DEF NoCulprits, SwapInv, TypeOK
<1>1. CASE UNCHANGED vars \/ Finished
  BY <1>1 DEF vars, Finished
<1>2. ASSUME NEW t \in Traces, ThreadStep(t)
      PROVE  NoCulprits'
  <2>1. \/ result'[t] = result[t]
        \/ result'[t] = Failed("runner_exception")
        \/ result'[t] = Promise!Success(Incoming(t).trace)
    BY <1>2 DEF ThreadStep, Enter, CheckStarted, Spawn, SpawnFails, Listen,
                ReceiveHello, HelloTimeout, SendAck, SendRequest, ReceiveLookup,
                ReceiveResponse, ReceiveError, ReceiveStray, ReceiveEof, AnswerHit,
                AnswerMiss, LookupRaises, SlipOut, Raise, Resolve
  <2>2. result'[t] \notin Culprits
    BY <2>1 DEF Culprits, Failed, Promise!Success
  <2>3. UNCHANGED <<outcome, slipped>>
    BY <1>2 DEF ThreadStep, Enter, CheckStarted, Spawn, SpawnFails, Listen,
                ReceiveHello, HelloTimeout, SendAck, SendRequest, ReceiveLookup,
                ReceiveResponse, ReceiveError, ReceiveStray, ReceiveEof, AnswerHit,
                AnswerMiss, LookupRaises, SlipOut, Consume, mainVars
  <2>4. QED BY <1>2, <2>2, <2>3, ThreadStepsAlone
<1>3. ASSUME NEW c \in Traces, ChildMoves(c) \/ Die(c)
      PROVE  NoCulprits'
  BY <1>3, ChildLeavesMain DEF mainVars, threadVars
<1>4. CASE MainActs
  <2>1. CASE Complete
    BY <2>1 DEF Complete, NextTrace, threadVars, SubmittedOnce
  <2>2. ~TimeOut
    BY DEF TimeOut
  <2>3. CASE \/ Submit \/ StartClose \/ AskShutdown \/ ShutdownUnsent \/ FinishClose
             \/ ExitProcess \/ Interrupt \/ CutClose
    BY <2>3 DEF Submit, StartClose, AskShutdown, ShutdownUnsent, FinishClose,
                ExitProcess, Interrupt, CutClose, LeaveClose, threadVars
  <2>4. QED BY <1>4, <2>1, <2>2, <2>3 DEF MainActs, MainStep
<1>5. QED BY <1>1, <1>2, <1>3, <1>4 DEF Next, MainActs

\* Completing a trace settles it; no other step shows in the outcomes.
LEMMA StepDelivers ==
  ASSUME Timeouts = {}, Misses = FALSE, Slips = FALSE, SwapInv, NoCulprits, [Next]_vars
  PROVE  [Promise!Next]_outcome
<1>1. CASE Complete
  <2>1. /\ cur \in Traces /\ result[cur] # Promise!Pending
        /\ outcome' = [outcome EXCEPT ![cur] = result[cur]]
    BY <1>1 DEF Complete, NextTrace, SwapInv, SubmittedOnce
  <2>2. outcome[cur] = Promise!Pending
    BY <2>1, ExecAssumption DEF SwapInv, PendingAhead, Traces
  <2>3. ResultIsOwn
    BY <1>1, <2>1
       DEF SwapInv, SyncWhileClean, NoCulprits, Clean, Culprits, InSync, Complete
  <2>4. result[cur] \in Promise!Failures \cup {Promise!Success(cur)}
    <3>1. CASE result[cur] \in Promise!Failures
      BY <3>1
    <3>2. CASE result[cur] \notin Promise!Failures
      <4>1. PICK x \in Traces \cup {NoTrace} : result[cur] = Promise!Success(x)
        BY <2>1, <3>2 DEF SwapInv, TypeOK, Outcomes
      <4>2. x = cur
        BY <2>1, <2>3, <4>1 DEF ResultIsOwn, Promise!Success
      <4>3. QED BY <4>1, <4>2
    <3>3. QED BY <3>1, <3>2
  <2>5. QED BY <2>1, <2>2, <2>4 DEF Promise!Next, Promise!Settle
<1>2. ASSUME ~Complete
      PROVE  UNCHANGED outcome
  <2>1. CASE MainActs
    BY <1>2, <2>1 DEF MainActs, MainStep, Submit, TimeOut, StartClose, AskShutdown,
                      ShutdownUnsent, FinishClose, ExitProcess, Interrupt, CutClose,
                      LeaveClose
  <2>2. CASE UNCHANGED vars \/ Finished
    BY <2>2 DEF vars, Finished
  <2>3. QED
    BY <2>1, <2>2, ThreadLeavesMain, ChildLeavesMain DEF Next, MainActs, mainVars
<1>3. QED BY <1>1, <1>2

\* With no timeout, no miss and no call that slips out the lane implements
\* TraceReplay: every trace is settled once, by the output a child computed for it
\* or by a typed failure, whichever children cannot be started, answer with an
\* error or die, and whenever Ctrl-C ends the run.
THEOREM LaneDelivers ==
  ASSUME Timeouts = {}, Misses = FALSE, Slips = FALSE
  PROVE  Spec => Delivers
<1>1. Init => SwapInv /\ NoCulprits /\ Promise!Init
  <2>1. Init => NoCulprits
    BY DEF Init, NoCulprits, Culprits, Failed, Promise!Pending
  <2>2. QED BY <2>1, SwapInit DEF Init, Promise!Init
<1>2. SwapInv /\ NoCulprits /\ [Next]_vars => (SwapInv /\ NoCulprits)'
  BY SwapStep, NoCulpritsStep
<1>3. SwapInv /\ NoCulprits /\ [Next]_vars => [Promise!Next]_outcome
  BY StepDelivers
<1>4. QED BY <1>1, <1>2, <1>3, PTL DEF Spec, Delivers, Promise!Spec

-----------------------------------------------------------------------------
(* What close() leaves behind when no timeout was reported.                *)

\* A child is spawned by the call it is named after, and the runner and close()
\* name no other.
Unborn ==
  /\ \A c \in Traces :
       thread[c] \in {"none", "queued", "entered", "spawn"} => child[c] = "unborn"
  /\ \A c \in {proc, victim} \ {NoChild} : child[c] # "unborn"

Tame == \A t \in Traces : outcome[t] # Failed("runner_timeout")

\* The call for c got past the handshake, or did not need one.
Used(c) ==
  \/ thread[c] \in {"request", "recv", "lookup"}
  \/ /\ thread[c] = "done"
     /\ result[c] \notin {Promise!Pending, Failed("runner_exception")}
Reported(c) == outcome[c] \notin {Promise!Pending, Failed("runner_exception")}

\* Until the fields are reset, they name the child that was of use, if there is one.
FieldsNameIt ==
  /\ \A t \in Traces : thread[t] \in {"spawn", "hello", "ack"} => ~started
  /\ \A t \in Traces : thread[t] \in {"hello", "ack"} => proc = t
  /\ \A c \in Traces : Used(c) /\ child[c] # "unborn" => started /\ proc = c

Held ==
  /\ Alone
  /\ main \in {"submit", "wait", "finally", "asking", "closing"} => FieldsNameIt
  /\ main \in {"asking", "closing"} =>
       \A c \in Traces : Reported(c) /\ child[c] # "unborn" => victim = c
  /\ main = "closed" => \A c \in Traces : Reported(c) => ~Alive(c)

LeftInv == TypeOK /\ SubmittedOnce /\ ResultIsFinal /\ PendingAhead /\ Unborn
             /\ (Tame => Held)

\* A child that lives, or was ever born, did so before the step or is spawned by it.
LEMMA ThreadBirths ==
  ASSUME TypeOK, Unborn, NEW t \in Traces, ThreadStep(t)
  PROVE  /\ \A c \in Traces : child'[c] = child[c] \/ (c = t /\ thread[t] = "spawn")
         /\ Unborn'
<1> USE DEF TypeOK, Unborn
<1>1. CASE Spawn(t)
  BY <1>1 DEF Spawn, Step, mainVars
<1>2. CASE ~Spawn(t)
  <2>1. UNCHANGED <<child, proc, victim>>
    BY <1>2 DEF ThreadStep, Enter, CheckStarted, SpawnFails, Listen, ReceiveHello,
                HelloTimeout, SendAck, SendRequest, ReceiveLookup, ReceiveResponse,
                ReceiveError, ReceiveStray, ReceiveEof, AnswerHit, AnswerMiss,
                LookupRaises, SlipOut, Consume, mainVars, runnerVars, childVars
  <2>2. \A u \in Traces :
          thread'[u] \in {"none", "queued", "entered", "spawn"}
          => thread[u] \in {"none", "queued", "entered", "spawn"}
    BY <1>2 DEF ThreadStep, Enter, CheckStarted, SpawnFails, Listen, ReceiveHello,
                HelloTimeout, SendAck, SendRequest, ReceiveLookup, ReceiveResponse,
                ReceiveError, ReceiveStray, ReceiveEof, AnswerHit, AnswerMiss,
                LookupRaises, SlipOut, Raise, Resolve, Step
  <2>3. QED BY <2>1, <2>2
<1>3. QED BY <1>1, <1>2

LEMMA ChildBirths ==
  ASSUME TypeOK, NEW c \in Traces, ChildMoves(c) \/ Die(c)
  PROVE  \A d \in Traces : /\ child[d] = "unborn" <=> child'[d] = "unborn"
                           /\ child[d] = "dead" => child'[d] = "dead"
<1> USE DEF TypeOK
<1>1. \/ child[c] \notin {"unborn", "dead"} /\ child'[c] # "unborn"
      \/ child' = child
  BY DEF ChildMoves, SayHello, AwaitAck, AwaitRequest, AskTool, AwaitTool, Answer,
         SeeEof, Die, ChildStep, Alive
<1>2. \A d \in Traces \ {c} : child'[d] = child[d]
  BY DEF ChildMoves, SayHello, AwaitAck, AwaitRequest, AskTool, AwaitTool, Answer,
         SeeEof, Die, ChildStep
<1>3. QED BY <1>1, <1>2

\* The one thread that runs keeps the fields on the child of use: it overwrites
\* them only as long as no call got past the handshake.
LEMMA ThreadKeepsFields ==
  ASSUME TypeOK, Alone, Unborn, FieldsNameIt, NEW t \in Traces, ThreadStep(t)
  PROVE  FieldsNameIt'
<1> USE DEF TypeOK
<1>1. t = cur /\ \A u \in Traces \ {t} : /\ thread'[u] = thread[u]
                                         /\ result'[u] = result[u]
                                         /\ thread[u] \in {"none", "done"}
  BY ThreadStepsAlone DEF Alone
<1>2. CASE Enter(t) \/ CheckStarted(t)
  BY <1>1, <1>2
     DEF Enter, CheckStarted, Step, FieldsNameIt, Used, Unborn, runnerVars, childVars
<1>3. CASE Spawn(t)
  BY <1>1, <1>3 DEF Spawn, Step, FieldsNameIt, Used
<1>4. CASE SendAck(t)
  <2>1. proc = t /\ ~started /\ proc' = proc /\ child' = child
    BY <1>4 DEF SendAck, FieldsNameIt
  <2>2. \/ thread' = [thread EXCEPT ![t] = "request"] /\ started' /\ UNCHANGED result
        \/ Raise(t) /\ UNCHANGED started
    BY <1>4 DEF SendAck, Step
  <2>3. \A c \in Traces \ {t} : Used(c)' <=> Used(c)
    BY <1>1 DEF Used
  <2>4. QED BY <1>1, <2>1, <2>2, <2>3 DEF FieldsNameIt, Used, Raise, Resolve
<1>5. CASE ~(Enter(t) \/ CheckStarted(t) \/ Spawn(t) \/ SendAck(t))
  <2>1. UNCHANGED <<proc, started, child>>
    BY <1>5 DEF ThreadStep, SpawnFails, Listen, ReceiveHello, HelloTimeout,
                SendRequest, ReceiveLookup, ReceiveResponse, ReceiveError,
                ReceiveStray, ReceiveEof, AnswerHit, AnswerMiss, LookupRaises,
                SlipOut, Consume, runnerVars, childVars
  <2>2. \/ thread'[t] = thread[t] /\ result'[t] = result[t]
        \/ thread'[t] = "done" /\ result'[t] = Failed("runner_exception")
        \/ thread[t] = "hello" /\ thread'[t] = "ack"
        \/ Used(t) /\ thread'[t] \in {"recv", "lookup", "done"}
    BY <1>5 DEF ThreadStep, SpawnFails, Listen, ReceiveHello, HelloTimeout,
                SendRequest, ReceiveLookup, ReceiveResponse, ReceiveError,
                ReceiveStray, ReceiveEof, AnswerHit, AnswerMiss, LookupRaises,
                SlipOut, Step, Raise, Resolve, Used
  <2>3. \A c \in Traces : Used(c)' => Used(c)
    BY <1>1, <2>2 DEF Used
  <2>4. QED BY <1>1, <2>1, <2>2, <2>3 DEF FieldsNameIt
<1>6. QED BY <1>2, <1>3, <1>4, <1>5

\* A trace that is reported without a timeout or an exception was of use.
LEMMA ReportedWasUsed ==
  ASSUME LeftInv, Tame, NEW c \in Traces, Reported(c)
  PROVE  Used(c) /\ thread[c] = "done"
BY DEF LeftInv, ResultIsFinal, Tame, Reported, Used

LEMMA LeftInit == Init => LeftInv
<1> SUFFICES ASSUME Init PROVE LeftInv
  OBVIOUS
<1>1. TypeOK /\ SubmittedOnce /\ ResultIsFinal /\ PendingAhead
  BY OnceInit, SwapInit DEF OnceInv, SwapInv
<1>2. Unborn /\ Held
  BY DEF Init, Unborn, Held, Alone, FieldsNameIt, Used, Traces
<1>3. QED BY <1>1, <1>2 DEF LeftInv

\* A settled trace stays settled, so that a timeout, once reported, stays reported.
LEMMA TameBefore ==
  ASSUME TypeOK, PendingAhead, WaitsForTrace, [Next]_vars, Tame'
  PROVE  Tame
<1> USE DEF Tame, TypeOK, Failed, Promise!Pending
<1>1. CASE Complete \/ TimeOut
  <2>1. cur \in Traces /\ outcome[cur] = Promise!Pending
    BY <1>1, ExecAssumption DEF Complete, TimeOut, WaitsForTrace, PendingAhead, Traces
  <2>2. QED BY <1>1, <2>1 DEF Complete, TimeOut, NextTrace
<1>2. CASE ~(Complete \/ TimeOut)
  <2>1. UNCHANGED outcome
    BY <1>2, ThreadLeavesMain, ChildLeavesMain
       DEF Next, MainStep, Submit, StartClose, AskShutdown, ShutdownUnsent, FinishClose,
           ExitProcess, Interrupt, CutClose, LeaveClose, Finished, vars, mainVars
  <2>2. QED BY <2>1
<1>3. QED BY <1>1, <1>2

\* The steps of the main thread.
LEMMA MainBirths ==
  ASSUME TypeOK, SubmittedOnce, Unborn, MainActs
  PROVE  Unborn'
<1> USE DEF TypeOK, Unborn
<1>1. CASE Submit
  BY <1>1, ExecAssumption DEF Submit, SubmittedOnce, Traces, runnerVars, childVars
<1>2. CASE TimeOut
  BY <1>2 DEF TimeOut, NextTrace, runnerVars, childVars
<1>3. CASE \/ Complete \/ StartClose \/ AskShutdown \/ ShutdownUnsent
           \/ Interrupt \/ CutClose \/ ExitProcess
  BY <1>3 DEF Complete, NextTrace, StartClose, AskShutdown, ShutdownUnsent, LeaveClose,
              Interrupt, CutClose, ExitProcess, threadVars, runnerVars, childVars
<1>4. CASE FinishClose
  <2>1. NoChild \notin Traces
    BY ExecAssumption DEF Traces, NoChild
  <2>2. \A c \in Traces : child[c] = "unborn" => child'[c] = "unborn"
    BY <1>4, <2>1 DEF FinishClose
  <2>3. victim # NoChild => child'[victim] # "unborn"
    BY <1>4, <2>1 DEF FinishClose
  <2>4. QED BY <1>4, <2>2, <2>3 DEF FinishClose, LeaveClose, threadVars
<1>5. QED BY <1>1, <1>2, <1>3, <1>4 DEF MainActs, MainStep

LEMMA MainKeepsHeld ==
  ASSUME LeftInv, Tame, Tame', MainActs
  PROVE  Held'
<1> USE DEF LeftInv, TypeOK
<1>1. Held
  OBVIOUS
<1>2. CASE Submit
  <2>1. /\ cur \in Traces /\ thread[cur] = "none" /\ main = "submit"
        /\ thread' = [thread EXCEPT ![cur] = "queued"] /\ main' = "wait"
        /\ UNCHANGED <<cur, result, proc, started, child>>
    BY <1>2, ExecAssumption DEF Submit, SubmittedOnce, Traces, runnerVars, childVars
  <2>2. \A c \in Traces : Used(c)' <=> Used(c)
    BY <2>1 DEF Used
  <2>3. QED BY <1>1, <2>1, <2>2 DEF Held, Alone, FieldsNameIt
<1>3. CASE Complete
  <2>1. /\ cur \in Traces /\ thread[cur] = "done" /\ cur' = cur + 1
        /\ main = "wait" /\ main' = "submit"
        /\ UNCHANGED <<thread, result, proc, started, child>>
    BY <1>3 DEF Complete, NextTrace, SubmittedOnce, ResultIsFinal, threadVars,
                runnerVars, childVars
  <2>2. QED BY <1>1, <2>1 DEF Held, Alone, FieldsNameIt, Used
<1>4. ~TimeOut
  BY ExecAssumption DEF TimeOut, NextTrace, Tame, SubmittedOnce
<1>5. CASE StartClose
  <2>1. \A c \in Traces : Reported(c) /\ child[c] # "unborn" => proc = c
    BY <1>1, <1>5, ReportedWasUsed DEF StartClose, Held, FieldsNameIt
  <2>2. /\ main \in {"submit", "finally"} /\ victim' = proc
        /\ main' \in {"asking", "closing", "closed"}
        /\ main' = "closed" => proc = NoChild
        /\ UNCHANGED <<cur, outcome, thread, result, proc, started, child>>
    BY <1>5 DEF StartClose, threadVars, runnerVars, childVars
  <2>3. QED
    BY <1>1, <2>1, <2>2 DEF Held, Alone, FieldsNameIt, Used, Reported, Alive,
                            Traces, NoChild
<1>6. CASE AskShutdown \/ Interrupt
  <2>1. /\ \/ main = "asking" /\ main' = "closing"
           \/ main \in {"submit", "wait"} /\ main' = "finally"
        /\ UNCHANGED <<cur, victim, outcome, thread, result, proc, started, child>>
    BY <1>6 DEF AskShutdown, Interrupt, threadVars, runnerVars, childVars
  <2>2. QED
    BY <1>1, <2>1 DEF Held, Alone, FieldsNameIt, Used, Reported
<1>7. CASE ShutdownUnsent
  <2>1. \A c \in Traces : Reported(c) => ~Alive(c)
    BY <1>1, <1>7, ReportedWasUsed
       DEF ShutdownUnsent, CanSend, Held, FieldsNameIt, Alive, Traces, NoChild
  <2>2. main' = "closed" /\ UNCHANGED <<cur, outcome, thread, child>>
    BY <1>7 DEF ShutdownUnsent, LeaveClose, threadVars
  <2>3. QED BY <1>1, <2>1, <2>2 DEF Held, Alone, Reported, Alive
<1>8. CASE FinishClose
  <2>1. \A c \in Traces : Reported(c) /\ child[c] # "unborn" => victim = c
    BY <1>1, <1>8 DEF FinishClose, Held
  <2>2. /\ main' = "closed" /\ UNCHANGED <<cur, outcome, thread>>
        /\ child' = [child EXCEPT ![victim] = "dead"]
    BY <1>8 DEF FinishClose, LeaveClose, threadVars
  <2>3. QED BY <1>1, <2>1, <2>2 DEF Held, Alone, Reported, Alive
<1>9. CASE CutClose \/ ExitProcess
  <2>1. main' \in {"cut", "exited"} /\ UNCHANGED <<cur, thread, child>>
    BY <1>9 DEF CutClose, LeaveClose, ExitProcess, threadVars, childVars
  <2>2. QED BY <1>1, <2>1 DEF Held, Alone
<1>10. QED
  BY <1>2, <1>3, <1>4, <1>5, <1>6, <1>7, <1>8, <1>9 DEF MainActs, MainStep

LEMMA LeftStep == LeftInv /\ [Next]_vars => LeftInv'
<1> SUFFICES ASSUME LeftInv, [Next]_vars PROVE LeftInv'
  OBVIOUS
<1> USE DEF LeftInv
<1>1. (TypeOK /\ SubmittedOnce /\ ResultIsFinal)'
  BY StepTyped, SubmittedOnceKept DEF WaitsForTrace, SubmittedOnce
<1>2. CASE UNCHANGED vars \/ Finished
  <2>1. UNCHANGED vars
    BY <1>2 DEF Finished
  <2>2. PendingAhead' /\ Unborn' /\ (Tame <=> Tame')
    BY <2>1 DEF vars, PendingAhead, Unborn, Tame
  <2>3. Held => Held'
    BY <2>1 DEF vars, Held, Alone, FieldsNameIt, Used, Reported, Alive
  <2>4. QED BY <1>1, <2>2, <2>3
<1>3. ASSUME NEW t \in Traces, ThreadStep(t)
      PROVE  LeftInv'
  <2>1. UNCHANGED <<main, victim, cur, outcome>>
    BY <1>3, ThreadLeavesMain DEF mainVars
  <2>2. PendingAhead' /\ (Tame <=> Tame')
    BY <2>1 DEF PendingAhead, Tame
  <2>3. Unborn'
    BY <1>3, ThreadBirths
  <2>4. ASSUME Tame
        PROVE  Held'
    <3>1. Held
      BY <2>4
    <3>2. Alone'
      BY <1>3, <2>1, <3>1, ThreadStepsAlone DEF Held, Alone
    <3>3. \A c \in Traces : Reported(c) => child'[c] = child[c]
      BY <1>3, <2>4, ThreadBirths, ReportedWasUsed
    <3>4. FieldsNameIt => FieldsNameIt'
      BY <1>3, <3>1, ThreadKeepsFields DEF Held
    <3>5. QED BY <2>1, <3>1, <3>2, <3>3, <3>4 DEF Held, Reported, Alive
  <2>5. QED BY <1>1, <2>2, <2>3, <2>4
<1>4. ASSUME NEW c \in Traces, ChildMoves(c) \/ Die(c)
      PROVE  LeftInv'
  <2>1. UNCHANGED <<main, victim, cur, outcome, thread, result, proc, started>>
    BY <1>4, ChildLeavesMain DEF mainVars, threadVars, runnerVars
  <2>2. \A d \in Traces : /\ child[d] = "unborn" <=> child'[d] = "unborn"
                          /\ child[d] = "dead" => child'[d] = "dead"
    BY <1>4, ChildBirths
  <2>3. PendingAhead' /\ (Tame <=> Tame')
    BY <2>1 DEF PendingAhead, Tame
  <2>4. Unborn'
    BY <2>1, <2>2 DEF Unborn, TypeOK
  <2>5. Held => Held'
    BY <2>1, <2>2 DEF Held, Alone, FieldsNameIt, Used, Reported, Alive
  <2>6. QED BY <1>1, <2>3, <2>4, <2>5
<1>5. CASE MainActs
  <2>1. PendingAhead'
    <3>1. CASE Complete \/ TimeOut
      <4>1. PICK o \in Outcomes :
              /\ cur \in Traces /\ cur' = cur + 1 /\ o # Promise!Pending
              /\ outcome' = [outcome EXCEPT ![cur] = o]
        BY <3>1, OutcomesTyped
           DEF Complete, TimeOut, NextTrace, SubmittedOnce, TypeOK, Failed,
               Promise!Pending
      <4>2. QED BY <4>1, ExecAssumption DEF PendingAhead, TypeOK, Traces
    <3>2. CASE ~(Complete \/ TimeOut)
      BY <1>5, <3>2
         DEF MainActs, MainStep, Submit, StartClose, AskShutdown, ShutdownUnsent,
             FinishClose, ExitProcess, Interrupt, CutClose, LeaveClose, PendingAhead
    <3>3. QED BY <3>1, <3>2
  <2>2. Unborn'
    BY <1>5, MainBirths
  <2>3. Tame' => Held'
    BY <1>5, TameBefore, MainKeepsHeld DEF WaitsForTrace, SubmittedOnce
  <2>4. QED BY <1>1, <2>1, <2>2, <2>3
<1>6. QED BY <1>2, <1>3, <1>4, <1>5 DEF Next, MainActs

\* When close() comes to its end and no timeout was reported, every child that is
\* still there was given up by the trace that spawned it, which is reported as an
\* exception, or was spawned for a trace that was interrupted: no child that
\* answered, or missed the cache, survives, however many there are.
THEOREM LeftoversReported == Spec => []LeftoversAreReported
<1>1. LeftInv => LeftoversAreReported
  <2> SUFFICES ASSUME LeftInv, main = "closed", Tame
               PROVE  \A c \in Traces :
                        Alive(c)
                        => outcome[c] \in {Failed("runner_exception"), Promise!Pending}
    BY DEF LeftoversAreReported, Tame
  <2>1. QED BY DEF LeftInv, Held, Reported
<1>2. QED BY LeftInit, LeftStep, <1>1, PTL DEF Spec

=============================================================================
