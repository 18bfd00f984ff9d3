----------------------------- MODULE AsyncLane ------------------------------
(***************************************************************************)
(* The async lane of whatifd fork: the traces the source listed, replayed  *)
(* one after the other by an async def runner and scored.  For each trace  *)
(* build_delta_fn builds the strict tool cache from its recorded spans and *)
(* runs replay_one_trace_async under an event loop of its own, with        *)
(* asyncio.wait_for around the runner and asyncio.run around both.         *)
(*                                                                         *)
(* The runner is the user's code.  It may look tools up, start background  *)
(* tasks and threads, block the event loop, swallow its cancellation, and  *)
(* end in any way.  Time is two facts: the deadline has passed (late), and *)
(* the loop's timer has cancelled the runner (expired), which needs the    *)
(* loop to be in control.                                                  *)
(***************************************************************************)
EXTENDS Intake

CONSTANTS
  Names,      \* tool names a runner asks for
  MaxTraces   \* bound: traces a source lists

VARIABLES
  at,        \* the trace being replayed: a position in raw; 0 before the first
  stage,     \* how far _delta_fn is with it
  cache,     \* StrictToolCache: answers by (name, {})
  answers,   \* ghost: what the runner was answered
  late,      \* timeout_seconds have passed since the runner started
  expired,   \* wait_for has cancelled it
  leftover,  \* what runners started and did not await: "task", "thread" of
             \* this loop, "stray" threads of loops that are closed
  ended,     \* how the runner ended
  result,    \* what replay_one_trace_async returned
  outcome,   \* the ReplayResult of each position
  deltas,    \* positions with a delta
  failures   \* positions with a FailureRecord

laneVars == <<at, stage, cache, answers, late, expired, leftover, ended,
              result, outcome, deltas, failures>>
vars == <<intakeVars, laneVars>>

Positions == 1..MaxTraces
Promise == INSTANCE TraceReplay WITH Traces <- Positions, NoTrace <- 0

\* An exit (SystemExit, KeyboardInterrupt) is no ReplayResult: it propagates.
Exit == [kind |-> "exit", of |-> 0]
Failed(code) == [kind |-> code, of |-> 0]

-----------------------------------------------------------------------------
\* Spans without an output are skipped, a repeated name keeps the last.  No
\* adapter records ToolSpan.args: every span is filed under (name, {}).
BuildToolCache(spans) ==
  LET recorded == {i \in 1..Len(spans) : spans[i].output}
      calls(name) == {i \in recorded : spans[i].name = name}
  IN  [name \in {spans[i].name : i \in recorded} |-> spans[Max(calls(name))]]

\* Mutant: the except clauses the other way round; CacheMissError is an
\* Exception.
ClassifyBroadly(how) ==
  [output |-> Promise!Success(at),
   cancelled |-> Failed("runner_timeout"), timeout_error |-> Failed("runner_timeout"),
   miss |-> Failed("runner_exception"), exception |-> Failed("runner_exception"),
   exit |-> Exit][how]

\* What the kernel returns for each way the awaited runner can end.  wait_for
\* turns the cancellation it caused into TimeoutError; a TimeoutError the
\* runner raises itself is taken for it.
Classify(how) ==
  [output |-> Promise!Success(at),
   cancelled |-> Failed("runner_timeout"), timeout_error |-> Failed("runner_timeout"),
   miss |-> Failed("tool_cache_miss"), exception |-> Failed("runner_exception"),
   exit |-> Exit][how]

-----------------------------------------------------------------------------
LaneInit ==
  /\ at = 0 /\ stage = "idle" /\ cache = <<>> /\ answers = {}
  /\ late = FALSE /\ expired = FALSE /\ leftover = {}
  /\ ended = "" /\ result = Promise!Pending
  /\ outcome = [p \in Positions |-> Promise!Pending]
  /\ deltas = {} /\ failures = {}

Init == IntakeInit /\ LaneInit

\* Mutant: one tool cache for the whole run.
StartOnSharedCache ==
  /\ source = "listed" /\ stage = "idle" /\ at < Len(raw)
  /\ at' = at + 1 /\ stage' = "running"
  /\ cache' = BuildToolCache(raw[at + 1].tools) @@ cache
  /\ answers' = {} /\ late' = FALSE /\ expired' = FALSE
  /\ ended' = "" /\ result' = Promise!Pending
  /\ UNCHANGED <<leftover, outcome, deltas, failures, intakeVars>>

\* Mutant: a trace that timed out is replayed again.
StartAgain ==
  /\ source = "listed" /\ stage = "idle" /\ at < Len(raw)
  /\ at' = IF at > 0 /\ expired THEN at ELSE at + 1
  /\ stage' = "running" /\ cache' = BuildToolCache(raw[at'].tools)
  /\ answers' = {} /\ late' = FALSE /\ expired' = FALSE
  /\ ended' = "" /\ result' = Promise!Pending
  /\ UNCHANGED <<leftover, outcome, deltas, failures, intakeVars>>

\* _delta_fn on the next trace: its tool cache, a loop, the runner's coroutine.
StartTrace ==
  /\ source = "listed" /\ stage = "idle" /\ at < Len(raw)
  /\ at' = at + 1 /\ stage' = "running"
  /\ cache' = BuildToolCache(raw[at + 1].tools)
  /\ answers' = {} /\ late' = FALSE /\ expired' = FALSE
  /\ ended' = "" /\ result' = Promise!Pending
  /\ UNCHANGED <<leftover, outcome, deltas, failures, intakeVars>>

\* The user's runner is on the loop: on its way or in its cleanup.
Running == stage \in {"running", "blocking", "cancelling"}

\* tool_cache.lookup(name, {}) hits.
Lookup(name) ==
  /\ Running /\ name \in DOMAIN cache
  /\ answers' = answers \cup {<<name, cache[name]>>}
  /\ UNCHANGED <<at, stage, cache, late, expired, leftover, ended, result,
                 outcome, deltas, failures, intakeVars>>

\* The runner starts a task, or work in a thread (to_thread), and goes on.
Spawn(what) ==
  /\ stage = "running" /\ what \notin leftover
  /\ leftover' = leftover \cup {what}
  /\ UNCHANGED <<at, stage, cache, answers, late, expired, ended, result,
                 outcome, deltas, failures, intakeVars>>

\* It computes without an await: the loop is not in control meanwhile.
Block ==
  /\ stage = "running" /\ stage' = "blocking"
  /\ UNCHANGED <<at, cache, answers, late, expired, leftover, ended, result,
                 outcome, deltas, failures, intakeVars>>

Yield ==
  /\ stage = "blocking" /\ stage' = "running"
  /\ UNCHANGED <<at, cache, answers, late, expired, leftover, ended, result,
                 outcome, deltas, failures, intakeVars>>

\* The seconds pass.
GetsLate ==
  /\ stage \in {"running", "blocking"} /\ ~late
  /\ late' = TRUE
  /\ UNCHANGED <<at, stage, cache, answers, expired, leftover, ended, result,
                 outcome, deltas, failures, intakeVars>>

\* Mutant: the timer only records that it fired.
ExpireWithoutCancel ==
  /\ stage = "running" /\ late /\ ~expired
  /\ stage' = "running"
  /\ UNCHANGED <<at, cache, answers, late, expired, leftover, ended, result,
                 outcome, deltas, failures, intakeVars>>

\* wait_for's timer: CancelledError enters the runner at its await.
Expire ==
  /\ stage = "running" /\ late /\ ~expired
  /\ expired' = TRUE /\ stage' = "cancelling"
  /\ UNCHANGED <<at, cache, answers, late, leftover, ended, result, outcome,
                 deltas, failures, intakeVars>>

\* The runner catches the cancellation and goes on; no timer is left.
Swallow ==
  /\ stage = "cancelling" /\ stage' = "running"
  /\ UNCHANGED <<at, cache, answers, late, expired, leftover, ended, result,
                 outcome, deltas, failures, intakeVars>>

\* The runner ends and the kernel returns.  A lookup missed: a name without a
\* recorded output, or any arguments.  (A miss the runner catches is no step.)
EndRunner(how) ==
  /\ \/ how = "output" /\ stage \in {"running", "blocking"}
     \/ how = "cancelled" /\ stage = "cancelling"
     \/ how \in {"miss", "timeout_error", "exception", "exit"}
        /\ stage \in {"running", "blocking", "cancelling"}
  /\ ended' = how /\ result' = Classify(how) /\ stage' = "closing"
  /\ UNCHANGED <<at, cache, answers, late, expired, leftover, outcome, deltas,
                 failures, intakeVars>>

\* A task ends (asyncio.run cancels it and waits), or a thread does.
LeftoverEnds(what) ==
  /\ what \in leftover
  /\ what = "stray" \/ Running \/ stage = "closing"
  /\ leftover' = leftover \ {what}
  /\ UNCHANGED <<at, stage, cache, answers, late, expired, ended, result,
                 outcome, deltas, failures, intakeVars>>

\* Since Python 3.12 asyncio.run waits 300 seconds for threads, warns and goes
\* on without them.
GiveUpThreads ==
  /\ stage = "closing" /\ "thread" \in leftover
  /\ leftover' = (leftover \ {"thread"}) \cup {"stray"}
  /\ UNCHANGED <<at, stage, cache, answers, late, expired, ended, result,
                 outcome, deltas, failures, intakeVars>>

\* Mutant: the loop is closed over what still runs.
CloseAnyway ==
  /\ stage = "closing"
  /\ IF result = Exit
     THEN stage' = "aborted" /\ UNCHANGED <<outcome, failures>>
     ELSE /\ outcome' = [outcome EXCEPT ![at] = result]
          /\ IF result = Promise!Success(at)
             THEN stage' = "scoring" /\ UNCHANGED failures
             ELSE stage' = "idle" /\ failures' = failures \cup {at}
  /\ UNCHANGED <<at, cache, answers, late, expired, leftover, ended, result,
                 deltas, intakeVars>>

\* asyncio.run returns.  A ReplayFailure is raised as _ReplayStageError and
\* becomes a FailureRecord of the trace; an exit goes through everything.
CloseLoop ==
  /\ stage = "closing" /\ leftover \subseteq {"stray"}
  /\ IF result = Exit
     THEN stage' = "aborted" /\ UNCHANGED <<outcome, failures>>
     ELSE /\ outcome' = [outcome EXCEPT ![at] = result]
          /\ IF result = Promise!Success(at)
             THEN stage' = "scoring" /\ UNCHANGED failures
             ELSE stage' = "idle" /\ failures' = failures \cup {at}
  /\ UNCHANGED <<at, cache, answers, late, expired, leftover, ended, result,
                 deltas, intakeVars>>

\* Mutant: a judge that gave no score leaves no trace.
ScoreOrDrop ==
  /\ stage = "scoring" /\ stage' = "idle"
  /\ deltas' \in {deltas, deltas \cup {at}}
  /\ UNCHANGED <<at, cache, answers, late, expired, leftover, ended, result,
                 outcome, failures, intakeVars>>

\* scorer.score: a number, or none (_ScorerStructuralError), or it raises.
Score ==
  /\ stage = "scoring" /\ stage' = "idle"
  /\ \/ deltas' = deltas \cup {at} /\ UNCHANGED failures
     \/ failures' = failures \cup {at} /\ UNCHANGED deltas
  /\ UNCHANGED <<at, cache, answers, late, expired, leftover, ended, result,
                 outcome, intakeVars>>

RunOver ==
  \/ source = "failed" \/ stage = "aborted"
  \/ source = "listed" /\ stage = "idle" /\ at = Len(raw)

Done == RunOver /\ UNCHANGED vars

Runner ==
  \/ \E name \in Names : Lookup(name)
  \/ \E what \in {"task", "thread"} : Spawn(what)
  \/ Block \/ Yield \/ Swallow
  \/ \E how \in {"output", "miss", "timeout_error", "exception", "exit",
                 "cancelled"} : EndRunner(how)
  \/ \E what \in {"task", "thread", "stray"} : LeftoverEnds(what)

Kernel == StartTrace \/ GetsLate \/ Expire \/ GiveUpThreads \/ CloseLoop

Next ==
  \/ IntakeNext /\ UNCHANGED laneVars
  \/ Kernel \/ Runner \/ Score \/ Done

Spec == Init /\ [][Next]_vars

\* The HTTP calls have timeouts; whatifd's own statements are carried out; time
\* passes; and a loop that keeps regaining control runs a timer that is due.
\* Nothing is assumed of the runner, of what it started, or of the scorer.
Fairness ==
  /\ WF_vars(Fetch /\ UNCHANGED laneVars)
  /\ WF_vars(StartTrace) /\ WF_vars(CloseLoop) /\ WF_vars(GetsLate)
  /\ SF_vars(Expire)

FairSpec == Spec /\ Fairness

-----------------------------------------------------------------------------
LaneOK ==
  /\ at \in 0..Len(raw) /\ Len(raw) <= MaxTraces
  /\ stage \in {"idle", "running", "blocking", "cancelling", "closing",
                "scoring", "aborted"}
  /\ {late, expired} \subseteq BOOLEAN
  /\ leftover \subseteq {"task", "thread", "stray"}
  /\ ended \in {"", "output", "miss", "timeout_error", "exception", "exit",
                "cancelled"}
  /\ result \in Promise!Failures \cup {Promise!Pending, Exit, Promise!Success(at)}
  /\ \A p \in Positions :
       outcome[p] \in Promise!Failures \cup {Promise!Pending, Promise!Success(p)}
  /\ deltas \cup failures \subseteq 1..at

\* The types of both parts.
TypeOK == IntakeOK /\ LaneOK

\* use-original: whatever a runner was answered was recorded in the very trace
\* it replays, under that name, by a tool span (never the root) and by the last
\* call of that tool; however spans of several traces were interleaved.
CacheIsOwn ==
  \A a \in answers :
    LET name == a[1] span == a[2] own == raw[at].tools
    IN /\ span.trace = raw[at].trace /\ span.name = name /\ span.output
       /\ span # raw[at].root
       /\ \E i \in 1..Len(own) :
            /\ own[i] = span
            /\ \A j \in i + 1..Len(own) : own[j].name = name => ~own[j].output

\* "Nothing leaks" of kernel_async.py, unlike the sync lane: when the next
\* trace is replayed, this one is scored or the run is over, no task the runner
\* started is alive, and no thread that asyncio.run has not given up on.
NothingOutlives ==
  stage \in {"idle", "scoring", "aborted"} => leftover \subseteq {"stray"}

\* What is reported of a trace is what its runner did: a miss is a miss even
\* when the cleanup of a cancelled runner met it, an output is a success even
\* after the deadline, and a timeout means that the deadline had passed or that
\* the runner raised TimeoutError of its own.
OutcomeTellsWhat ==
  stage \in {"closing", "scoring"} =>
    /\ (result = Promise!Success(at)) <=> (ended = "output")
    /\ (result = Failed("tool_cache_miss")) <=> (ended = "miss")
    /\ result = Failed("runner_timeout") => late \/ ended = "timeout_error"

\* A run that is over accounts for every trace it listed, each once: it has a
\* delta, of a replay that succeeded, or a FailureRecord.  Only an exit leaves
\* traces without either, and those are the last.
EveryTraceCounts ==
  RunOver =>
    /\ deltas \cap failures = {}
    /\ deltas \cup failures =
         1..(IF stage = "aborted" THEN at - 1 ELSE Len(raw))
    /\ \A p \in deltas : outcome[p] = Promise!Success(p)

\* The lane keeps the promise of a replay: each position settled once, by the
\* output of its own runner or by a typed failure.
Delivers == Promise!Spec

\* The user's code has the run: it blocks the loop, does not end after it was
\* cancelled, left something behind that does not end, or judges.
Held ==
  \/ stage \in {"blocking", "cancelling", "scoring"}
  \/ stage = "running" /\ expired
  \/ stage = "closing" /\ ~(leftover \subseteq {"stray"})

\* A run ends, or the user's code holds it for ever (wait_for waits for a
\* runner that swallows its cancellation; asyncio.run waits for threads): no
\* awaiting runner outlives its timeout otherwise, and whatifd itself never
\* waits for nothing.
RunEnds == <>RunOver \/ <>[]Held

=============================================================================
