------------------------------ MODULE ExecLane ------------------------------
(***************************************************************************)
(* The `exec:` runner lane: one ExecRunner object (exec_runner.py) shared  *)
(* by all traces of a run, the replay kernel that calls it under a timeout *)
(* (replay/kernel.py), and the child process it drives over two pipes.     *)
(*                                                                         *)
(* Three kinds of actors:                                                  *)
(*   - the main thread replays the traces 1, 2, ... one after the other    *)
(*     (pipeline.py, cli_pipeline.py), closes the runner (cli.py) and      *)
(*     exits; Ctrl-C reaches this thread and no other;                     *)
(*   - one runner thread per trace executes ExecRunner.__call__; a thread  *)
(*     whose trace timed out keeps running, because Python cannot kill it; *)
(*   - children, written after the repository's reference child            *)
(*     examples/exec_agent_node/agent.js: one that answers each request    *)
(*     once, but may print other lines to its stdout as well.              *)
(*                                                                         *)
(* All runner threads share the fields `_proc` and `_started`.  A frame is *)
(* its type and, as a ghost, the trace it was produced for: the protocol's *)
(* request_id is the constant "r-0" and tells no two requests apart.       *)
(* The child spawned by the call for trace t is named t: a call spawns at  *)
(* most one.  A line that is no frame of the protocol is not kept in the   *)
(* pipe: it ends the call that reads it, whenever it was written, so a     *)
(* call may find one wherever it reads.                                    *)
(***************************************************************************)
EXTENDS Naturals, Sequences, FiniteSets

CONSTANTS
  N,           \* number of traces in the batch
  Timeouts,    \* thread states in which replay_seconds may run out
  Misses,      \* a tool lookup may miss the trace's cache
  Slips,       \* stray lines, malformed tool_lookups, lookups that raise
  HelloFails,  \* a child may fail to spawn or to say hello within 10 s
  ChildDies,   \* a child may exit or be killed at any moment
  Interrupts   \* Ctrl-C may strike

ASSUME ExecAssumption ==
  /\ N \in Nat \ {0}
  /\ {Misses, Slips, HelloFails, ChildDies, Interrupts} \subseteq BOOLEAN

VARIABLES
  main,     \* control state of the main thread
  victim,   \* the child close() is shutting down (its local `proc`)
  cur,      \* trace being replayed; N + 1 when all are done
  thread,   \* control state of each trace's runner thread
  reads,    \* child whose stdout the thread's blocked readline is on
  result,   \* what the thread's future holds
  slipped,  \* history: calls that raised with the child's answer still to come
  outcome,  \* the ReplayResult the kernel returned for each trace
  proc,     \* self._proc
  started,  \* self._started
  child,    \* control state of each child
  job,      \* trace whose request the child is working on
  stdin,    \* frames on their way to each child
  stdout    \* frames on their way from each child

mainVars == <<main, victim, cur, outcome>>
threadVars == <<thread, reads, result, slipped>>
runnerVars == <<proc, started>>
childVars == <<child, job, stdin, stdout>>
vars == <<main, victim, cur, outcome, thread, reads, result, slipped, proc, started,
          child, job, stdin, stdout>>

Traces == 1..N
NoTrace == 0
NoChild == 0

Promise == INSTANCE TraceReplay

Failed(code) == [kind |-> code, of |-> NoTrace]
Outcomes == Promise!Failures \cup {Promise!Pending}
              \cup {Promise!Success(t) : t \in Traces \cup {NoTrace}}

Frame(type, t) == [type |-> type, trace |-> t]
ToChild == [type : {"hello_ack", "replay_request", "tool_result", "shutdown"},
            trace : Traces \cup {NoTrace}]
FromChild == [type : {"hello", "tool_lookup", "replay_response",
                      "replay_error"},
              trace : Traces \cup {NoTrace}]

TypeOK ==
  /\ main \in {"submit", "wait", "finally", "asking", "closing", "closed",
              "cut", "exited"}
  /\ victim \in Traces \cup {NoChild}
  /\ cur \in 1..(N + 1)
  /\ thread \in [Traces -> {"none", "queued", "entered", "spawn", "hello",
                            "ack", "request", "recv", "lookup", "done"}]
  /\ reads \in [Traces -> Traces \cup {NoChild}]
  /\ result \in [Traces -> Outcomes]
  /\ slipped \subseteq Traces
  /\ outcome \in [Traces -> Outcomes]
  /\ proc \in Traces \cup {NoChild}
  /\ started \in BOOLEAN
  /\ child \in [Traces -> {"unborn", "booting", "greeted", "ready", "working",
                           "asked", "awaiting", "dead"}]
  /\ job \in [Traces -> Traces \cup {NoTrace}]
  /\ stdin \in [Traces -> Seq(ToChild)]
  /\ stdout \in [Traces -> Seq(FromChild)]

Init ==
  /\ main = "submit"
  /\ victim = NoChild
  /\ cur = 1
  /\ thread = [t \in Traces |-> "none"]
  /\ reads = [t \in Traces |-> NoChild]
  /\ result = [t \in Traces |-> Promise!Pending]
  /\ slipped = {}
  /\ outcome = [t \in Traces |-> Promise!Pending]
  /\ proc = NoChild
  /\ started = FALSE
  /\ child = [c \in Traces |-> "unborn"]
  /\ job = [c \in Traces |-> NoTrace]
  /\ stdin = [c \in Traces |-> <<>>]
  /\ stdout = [c \in Traces |-> <<>>]

Alive(c) == child[c] \notin {"unborn", "dead"}

\* _send on self._proc: NoChild and a closed pipe raise ExecRunnerError.
CanSend == proc # NoChild /\ Alive(proc)
SendFrame(f) == stdin' = [stdin EXCEPT ![proc] = Append(@, f)]

-----------------------------------------------------------------------------
(* The main thread: replay_one_trace for each trace, close(), exit         *)

\* ex.submit(runner, ...) on a fresh one-thread executor.
Submit ==
  /\ main = "submit" /\ cur <= N
  /\ main' = "wait"
  /\ thread' = [thread EXCEPT ![cur] = "queued"]
  /\ UNCHANGED <<victim, cur, outcome, reads, result, slipped, runnerVars, childVars>>

NextTrace(o) ==
  /\ outcome' = [outcome EXCEPT ![cur] = o]
  /\ cur' = cur + 1
  /\ main' = "submit"
  /\ UNCHANGED victim

\* future.result() returned or re-raised what the thread left.
Complete ==
  /\ main = "wait"
  /\ result[cur] # Promise!Pending
  /\ NextTrace(result[cur])
  /\ UNCHANGED <<threadVars, runnerVars, childVars>>

\* Mutant of TimeOut: a failure code that is not in the registry.
TimeOutUnregistered ==
  /\ main = "wait"
  /\ thread[cur] \in Timeouts /\ result[cur] = Promise!Pending
  /\ thread' = [thread EXCEPT ![cur] = IF @ = "queued" THEN "done" ELSE @]
  /\ NextTrace(Failed("timeout"))
  /\ UNCHANGED <<reads, result, slipped, runnerVars, childVars>>

\* FuturesTimeoutError: cancel() only stops a thread that has not picked the
\* call up; shutdown(wait=False) leaves a running one behind.
TimeOut ==
  /\ main = "wait"
  /\ thread[cur] \in Timeouts /\ result[cur] = Promise!Pending
  /\ thread' = [thread EXCEPT ![cur] = IF @ = "queued" THEN "done" ELSE @]
  /\ NextTrace(Failed("runner_timeout"))
  /\ UNCHANGED <<reads, result, slipped, runnerVars, childVars>>

\* KeyboardInterrupt leaves run_pipeline; the runner thread goes on.
Interrupt ==
  /\ Interrupts
  /\ main \in {"submit", "wait"}
  /\ main' = "finally"
  /\ UNCHANGED <<victim, cur, outcome, threadVars, runnerVars, childVars>>

\* However run_pipeline ended: close() takes self._proc and polls it; without one
\* it returns.
StartClose ==
  /\ (main = "submit" /\ cur = N + 1) \/ main = "finally"
  /\ main' = IF proc = NoChild THEN "closed"
             ELSE IF Alive(proc) THEN "asking" ELSE "closing"
  /\ victim' = proc
  /\ UNCHANGED <<cur, outcome, threadVars, runnerVars, childVars>>

\* A child that was running is asked to shut down; _send asks whichever child
\* self._proc is by then.
AskShutdown ==
  /\ main = "asking" /\ CanSend
  /\ main' = "closing"
  /\ SendFrame(Frame("shutdown", NoTrace))
  /\ UNCHANGED <<victim, cur, outcome, threadVars, runnerVars, child, job, stdout>>

\* The finally clause of close(): the victim's streams are closed and the fields
\* reset, whatever they hold by now.
LeaveClose(to) ==
  /\ main' = to
  /\ proc' = NoChild
  /\ started' = FALSE
  /\ UNCHANGED <<victim, cur, outcome, threadVars, job, stdin, stdout>>

\* The child has died since the poll: _send raises ExecRunnerError, which is not
\* suppressed; only the `finally` clause runs, and _close_runner hides the rest.
ShutdownUnsent ==
  /\ main = "asking" /\ ~CanSend
  /\ LeaveClose("closed")
  /\ UNCHANGED child

\* Mutant of FinishClose: it gives up instead of killing.
CloseWithoutKill ==
  /\ main = "closing"
  /\ LeaveClose("closed")
  /\ UNCHANGED child

\* wait(5 s), terminate(), wait(5 s), kill(), wait(): one way or another the
\* child is gone.
FinishClose ==
  /\ main = "closing"
  /\ LeaveClose("closed")
  /\ child' = [child EXCEPT ![victim] = "dead"]

\* KeyboardInterrupt during the shutdown frame or the waits: nothing is killed,
\* and _close_runner, which suppresses Exception, lets it through.
CutClose ==
  /\ Interrupts
  /\ main \in {"asking", "closing"}
  /\ LeaveClose("cut")
  /\ UNCHANGED child

\* The interpreter joins the threads of every executor, then it exits.
ExitProcess ==
  /\ main \in {"closed", "cut"}
  /\ \A t \in Traces : thread[t] \in {"none", "done"}
  /\ main' = "exited"
  /\ UNCHANGED <<victim, cur, outcome, threadVars, runnerVars, childVars>>

-----------------------------------------------------------------------------
(* A runner thread: ExecRunner.__call__                                    *)

Step(t, from, to) == thread[t] = from /\ thread' = [thread EXCEPT ![t] = to]

\* The call returns or raises: the future is resolved, the thread ends.
Resolve(t, r) ==
  /\ thread' = [thread EXCEPT ![t] = "done"]
  /\ reads' = [reads EXCEPT ![t] = NoChild]
  /\ result' = [result EXCEPT ![t] = r]

Raise(t) == Resolve(t, Failed("runner_exception"))

\* A call raises although the child's answer to its request is still to come.
SlipOut(t) ==
  /\ Slips
  /\ Raise(t)
  /\ slipped' = slipped \cup {t}
  /\ UNCHANGED <<mainVars, runnerVars, childVars>>

Enter(t) ==
  /\ Step(t, "queued", "entered")
  /\ UNCHANGED <<mainVars, reads, result, slipped, runnerVars, childVars>>

\* if not self._started: self.start()
CheckStarted(t) ==
  /\ Step(t, "entered", IF started THEN "request" ELSE "spawn")
  /\ UNCHANGED <<mainVars, reads, result, slipped, runnerVars, childVars>>

\* subprocess.Popen; the previous self._proc, if any, is overwritten.
Spawn(t) ==
  /\ Step(t, "spawn", "hello")
  /\ child' = [child EXCEPT ![t] = "booting"]
  /\ proc' = t
  /\ UNCHANGED <<mainVars, reads, result, slipped, started, job, stdin, stdout>>

SpawnFails(t) ==
  /\ HelloFails
  /\ thread[t] = "spawn"
  /\ Raise(t)
  /\ UNCHANGED <<mainVars, slipped, runnerVars, childVars>>

\* _recv takes self._proc once, then blocks in that child's readline.
Listen(t) ==
  /\ thread[t] \in {"hello", "recv"} /\ reads[t] = NoChild
  /\ IF proc = NoChild
     THEN Raise(t)
     ELSE reads' = [reads EXCEPT ![t] = proc] /\ UNCHANGED <<thread, result>>
  /\ UNCHANGED <<mainVars, slipped, runnerVars, childVars>>

\* t's readline returns the next line of its child; any thread blocked on the
\* same child may be the one that gets it.
Reading(t) == thread[t] \in {"hello", "recv"} /\ reads[t] # NoChild
Incoming(t) == Head(stdout[reads[t]])
Consume(t) ==
  /\ Reading(t) /\ stdout[reads[t]] # <<>>
  /\ stdout' = [stdout EXCEPT ![reads[t]] = Tail(@)]
  /\ UNCHANGED <<mainVars, slipped, runnerVars, child, job, stdin>>

ReceiveHello(t) ==
  /\ thread[t] = "hello"
  /\ Consume(t)
  /\ IF Incoming(t).type = "hello"
     THEN /\ thread' = [thread EXCEPT ![t] = "ack"]
          /\ reads' = [reads EXCEPT ![t] = NoChild]
          /\ UNCHANGED result
     ELSE Raise(t)

\* Mutant of HelloTimeout: the broken binary is spawned again and again.
HelloRetried(t) ==
  /\ HelloFails
  /\ thread[t] = "hello" /\ Reading(t)
  /\ Step(t, "hello", "spawn")
  /\ reads' = [reads EXCEPT ![t] = NoChild]
  /\ UNCHANGED <<mainVars, result, slipped, runnerVars, childVars>>

\* select() gives up after _HELLO_TIMEOUT_S, or the line is no frame at all;
\* self._proc stays set.
HelloTimeout(t) ==
  /\ HelloFails
  /\ thread[t] = "hello" /\ Reading(t)
  /\ Raise(t)
  /\ UNCHANGED <<mainVars, slipped, runnerVars, childVars>>

SendAck(t) ==
  /\ thread[t] = "ack"
  /\ IF CanSend
     THEN /\ SendFrame(Frame("hello_ack", t))
          /\ started' = TRUE
          /\ Step(t, "ack", "request")
          /\ UNCHANGED <<reads, result>>
     ELSE Raise(t) /\ UNCHANGED <<stdin, started>>
  /\ UNCHANGED <<mainVars, slipped, proc, child, job, stdout>>

SendRequest(t) ==
  /\ thread[t] = "request"
  /\ IF CanSend
     THEN /\ SendFrame(Frame("replay_request", t))
          /\ Step(t, "request", "recv")
          /\ UNCHANGED <<reads, result>>
     ELSE Raise(t) /\ UNCHANGED stdin
  /\ UNCHANGED <<mainVars, slipped, runnerVars, child, job, stdout>>

ReceiveLookup(t) ==
  /\ thread[t] = "recv"
  /\ Consume(t)
  /\ Incoming(t).type = "tool_lookup"
  /\ thread' = [thread EXCEPT ![t] = "lookup"]
  /\ reads' = [reads EXCEPT ![t] = NoChild]
  /\ UNCHANGED result

\* Mutant of ReceiveResponse: the line is looked at and stays where it is.
PeekResponse(t) ==
  /\ thread[t] = "recv"
  /\ Reading(t) /\ stdout[reads[t]] # <<>>
  /\ Incoming(t).type = "replay_response"
  /\ Resolve(t, Promise!Success(Incoming(t).trace))
  /\ UNCHANGED <<mainVars, slipped, runnerVars, childVars>>

\* The response is taken as the output of t; its request_id is not looked at.
ReceiveResponse(t) ==
  /\ thread[t] = "recv"
  /\ Consume(t)
  /\ Incoming(t).type = "replay_response"
  /\ Resolve(t, Promise!Success(Incoming(t).trace))

\* replay_error, a response that _build_output rejects, or a late hello.
ReceiveError(t) ==
  /\ thread[t] = "recv"
  /\ Consume(t)
  /\ Incoming(t).type \in {"replay_error", "replay_response", "hello"}
  /\ Raise(t)

\* Chatter: a line that is not JSON, no object, or of a type __call__ does not
\* expect, in front of whatever the child has sent or will send.
ReceiveStray(t) ==
  /\ thread[t] = "recv" /\ Reading(t)
  /\ SlipOut(t)

\* readline returns "": the child is gone and the pipe is drained.
ReceiveEof(t) ==
  /\ Reading(t) /\ stdout[reads[t]] = <<>> /\ child[reads[t]] = "dead"
  /\ Raise(t)
  /\ UNCHANGED <<mainVars, slipped, runnerVars, childVars>>

\* Mutant of AnswerHit: the tool_result is sent twice.
AnswerTwice(t) ==
  /\ thread[t] = "lookup"
  /\ IF CanSend
     THEN /\ stdin' = [stdin EXCEPT ![proc] = @ \o <<Frame("tool_result", t),
                                                   Frame("tool_result", t)>>]
          /\ Step(t, "lookup", "recv")
          /\ UNCHANGED <<reads, result>>
     ELSE Raise(t) /\ UNCHANGED stdin
  /\ UNCHANGED <<mainVars, slipped, runnerVars, child, job, stdout>>

\* The cache asked is the one of the thread's own trace.
AnswerHit(t) ==
  /\ thread[t] = "lookup"
  /\ IF CanSend
     THEN /\ SendFrame(Frame("tool_result", t))
          /\ Step(t, "lookup", "recv")
          /\ UNCHANGED <<reads, result>>
     ELSE Raise(t) /\ UNCHANGED stdin
  /\ UNCHANGED <<mainVars, slipped, runnerVars, child, job, stdout>>

\* StrictToolCache.lookup raises CacheMissError out of __call__: no tool_result.
AnswerMiss(t) ==
  /\ Misses
  /\ thread[t] = "lookup"
  /\ Resolve(t, Failed("tool_cache_miss"))
  /\ UNCHANGED <<mainVars, slipped, runnerVars, childVars>>

\* The tool_lookup is malformed, or the lookup raises something else.
LookupRaises(t) ==
  /\ thread[t] = "lookup"
  /\ SlipOut(t)

ThreadStep(t) ==
  \/ Enter(t) \/ CheckStarted(t) \/ Spawn(t) \/ SpawnFails(t) \/ Listen(t)
  \/ ReceiveHello(t) \/ HelloTimeout(t) \/ SendAck(t) \/ SendRequest(t)
  \/ ReceiveLookup(t) \/ ReceiveResponse(t) \/ ReceiveError(t)
  \/ ReceiveStray(t) \/ ReceiveEof(t)
  \/ AnswerHit(t) \/ AnswerMiss(t) \/ LookupRaises(t)

-----------------------------------------------------------------------------
(* A child: agent.js                                                       *)

ChildStep(c, from, to) == child[c] = from /\ child' = [child EXCEPT ![c] = to]
Emit(c, f) == stdout' = [stdout EXCEPT ![c] = Append(@, f)]
Arrived(c) == Head(stdin[c])
TakeFrame(c) == stdin[c] # <<>> /\ stdin' = [stdin EXCEPT ![c] = Tail(@)]

SayHello(c) ==
  /\ ChildStep(c, "booting", "greeted")
  /\ Emit(c, Frame("hello", NoTrace))
  /\ UNCHANGED <<mainVars, threadVars, runnerVars, job, stdin>>

\* await recv(): whatever comes first is taken for the hello_ack.
AwaitAck(c) ==
  /\ TakeFrame(c)
  /\ ChildStep(c, "greeted", "ready")
  /\ UNCHANGED <<mainVars, threadVars, runnerVars, job, stdout>>

\* Everything but a shutdown is answered as a replay_request.
AwaitRequest(c) ==
  /\ TakeFrame(c)
  /\ ChildStep(c, "ready",
       IF Arrived(c).type = "shutdown" THEN "dead" ELSE "working")
  /\ job' = [job EXCEPT ![c] =
       IF Arrived(c).type = "replay_request" THEN Arrived(c).trace ELSE NoTrace]
  /\ UNCHANGED <<mainVars, threadVars, runnerVars, stdout>>

AskTool(c) ==
  /\ ChildStep(c, "working", "awaiting")
  /\ Emit(c, Frame("tool_lookup", job[c]))
  /\ UNCHANGED <<mainVars, threadVars, runnerVars, job, stdin>>

\* await recv(): whatever comes next is taken for the tool_result.
AwaitTool(c) ==
  /\ TakeFrame(c)
  /\ ChildStep(c, "awaiting", "asked")
  /\ UNCHANGED <<mainVars, threadVars, runnerVars, job, stdout>>

Answer(c) ==
  /\ child[c] \in {"working", "asked"}
  /\ child' = [child EXCEPT ![c] = "ready"]
  /\ \E type \in {"replay_response", "replay_error"} :
       Emit(c, Frame(type, job[c]))
  /\ UNCHANGED <<mainVars, threadVars, runnerVars, job, stdin>>

\* The streams of the child close() took are closed; those of a child that was
\* spawned over stay open (the subprocess module keeps a Popen that still runs),
\* and so do those of a child spawned since, until the interpreter exits.
PipesClosed(c) == main = "exited" \/ (main \in {"closed", "cut"} /\ c = victim)

\* A child waiting for a frame sees the end of its input.
SeeEof(c) ==
  /\ PipesClosed(c) /\ stdin[c] = <<>>
  /\ child[c] \in {"greeted", "ready", "awaiting"}
  /\ child' = [child EXCEPT ![c] = "dead"]
  /\ UNCHANGED <<mainVars, threadVars, runnerVars, job, stdin, stdout>>

Die(c) ==
  /\ ChildDies
  /\ Alive(c)
  /\ child' = [child EXCEPT ![c] = "dead"]
  /\ UNCHANGED <<mainVars, threadVars, runnerVars, job, stdin, stdout>>

ChildMoves(c) ==
  \/ SayHello(c) \/ AwaitAck(c) \/ AwaitRequest(c) \/ AskTool(c)
  \/ AwaitTool(c) \/ Answer(c) \/ SeeEof(c)

-----------------------------------------------------------------------------
MainStep ==
  \/ Submit \/ Complete \/ TimeOut \/ StartClose \/ AskShutdown
  \/ ShutdownUnsent \/ FinishClose \/ ExitProcess

\* whatifd is gone, and its children end as they like.
Finished ==
  /\ main = "exited"
  /\ UNCHANGED vars

Next ==
  \/ MainStep \/ Interrupt \/ CutClose
  \/ \E t \in Traces : ThreadStep(t)
  \/ \E c \in Traces : ChildMoves(c) \/ Die(c)
  \/ Finished

Spec == Init /\ [][Next]_vars

\* The main thread and the runner threads are scheduled; children answer, and end
\* with their input.  Nobody has to die, to print chatter or to press Ctrl-C.
FairSpec ==
  /\ Spec
  /\ WF_vars(MainStep)
  /\ \A t \in Traces : WF_vars(ThreadStep(t))
  /\ \A c \in Traces : WF_vars(ChildMoves(c))

-----------------------------------------------------------------------------
(* Properties                                                              *)

\* Per-trace isolation: what is reported as the output for a trace is what a
\* child computed for that trace (docs/runner-contract-exec.md 9.1).
OutputIsOwn ==
  \A t \in Traces : outcome[t].kind = "success" => outcome[t].of = t

\* Where isolation fails, an earlier trace of the run is to blame, and the report
\* shows it: a miss of the tool cache, a timeout, or an exception raised between
\* the request and the child's answer.  Children that die, answer with an error or
\* with a response that is rejected, or cannot be started never let outputs change
\* places.
SwapsHaveCulprits ==
  \A t \in Traces :
    outcome[t].kind = "success" /\ outcome[t].of # t =>
      \E u \in 1..(t - 1) :
        \/ outcome[u] \in {Failed("tool_cache_miss"), Failed("runner_timeout")}
        \/ outcome[u] = Failed("runner_exception") /\ u \in slipped

\* Whatever the two pipes get out of step by, no replay_response is reported
\* for two traces: a line read by one thread is read by no other.
ResponseUsedOnce ==
  \A t, u \in Traces :
    /\ outcome[t].kind = "success" /\ outcome[t].of # NoTrace
    /\ outcome[u] = outcome[t]
    => t = u

\* close() misses no child that was of use: one that survives it was given up by
\* the trace that spawned it (a failed handshake), or spawned for a trace that was
\* interrupted, or else some trace is reported as a timeout.
LeftoversAreReported ==
  main = "closed" =>
    \/ \E t \in Traces : outcome[t] = Failed("runner_timeout")
    \/ \A c \in Traces :
         Alive(c) => outcome[c] \in {Failed("runner_exception"), Promise!Pending}

\* The run comes to its end and nothing outlives it, with no timeout to rescue it:
\* no thread waits for ever for a frame, whichever children cannot be started, stay
\* silent or die, so none holds up the interpreter, which joins them all before it
\* exits; and then the children end, those that were spawned over or missed by
\* close() included.
Terminates == <>(main = "exited" /\ \A c \in Traces : ~Alive(c))

\* Without misses, slips and timeouts the lane keeps the promise of TraceReplay: each
\* trace settled once, by its own output or by a typed failure.
Delivers == Promise!Spec

=============================================================================
