# whatifd: TLA+ models, model checking and proofs

whatifd answers "would this change have helped?": it takes recorded traces of an
agent, replays each of them with a change applied, scores original against
replay, sorts the score deltas into a *failure* and a *baseline* cohort, and
prints a verdict: Ship, Don't Ship, or Inconclusive.

This directory models the parts of the program where that answer can go wrong
without a unit test noticing: how traces are read from their sources, how they
are replayed (the async lane, the `exec:` lane with its child process, the bounded
replay stream), the path from per-trace deltas to the verdict and to what is
printed of it, the commands that write report files, and the scorer cache with
its lock. Each definition names the code it stands
for in `PROJECT.json` (`map`); paths below are relative to `src/whatifd/` of the
repository unless they start with another directory.

Run a model with `tlc -config <run>.cfg <module>`, check the proofs of a module
with `tlapm <module>.tla`.

## 1. Inventory

| Component | State | Operations | Interacts with |
|---|---|---|---|
| Scorer cache lock (`cache/lock.py`) | the directory entry `.lock`, the inodes it named, their kernel locks and contents | `acquire_cache_lock` (a context manager) | other processes on the same cache, `unlock` |
| Operator unlock (`cache/recovery.py`) | none of its own | `unlock`: inspect, refuse or remove | the lock file |
| exec lane (`exec_runner.py`) | `_proc`, `_started` of one shared `ExecRunner`; the child; two pipes | `start`, `__call__`, `_answer_tool_lookup`, `close` | runner threads of the kernel, the child, the tool cache |
| Replay kernel (`replay/kernel.py`) | a one-thread pool per call | `replay_one_trace` | runner, stream, pipeline |
| Replay stream (`replay/pipeline.py`) | window of in-flight calls, the source iterator | `replay_stream` generator | kernel, consumer |
| Run pipeline (`pipeline.py`, `cli_pipeline.py`) | cohort buckets, `FailureRecord`s | `run_pipeline`, `delta_fn` | source, kernel, scorer, decision |
| Floor, guards, verdict (`decision/`) | none (functions) | `evaluate_floor`, guards, `compute_verdict` | pipeline, projection |
| Report projection (`report/projection.py`) | none | copy verdict, findings, floor failures to the wire model | renderers, diff |
| Statistics (`statistical/`) | a seeded generator | median, bootstrap interval, rounding | pipeline |
| Cache storage (`cache/storage/v1.py`, `cache/recovery.py`) | `meta.json`, one file per entry in bucket directories | `init_cache`, `read_meta`, `write_entry`, `read_entry`, `rebuild`, `verify` | lock, CLI `cache` commands |
| Cache keying, policy, summary (`cache/`) | none | hash, resolve mode, count | CLI, report |
| Trace sources (`adapters/`, `packages/*/source.py`) | page number or cursor, spans grouped by trace | `iter_traces` | external trace stores, pipeline |
| Tool cache (`replay/tool_cache.py`) | recorded tool outputs of one trace | `build_tool_cache`, `lookup` | async and exec lanes, python runners |
| Async kernel (`replay/kernel_async.py`, `cli_pipeline.py`) | one event loop per trace | `replay_one_trace_async` under `asyncio.run` | the user's runner, pipeline |
| CLI (`cli.py`, loaders) | exit code, artifacts on disk, the runner to close | `fork`, `report-migrate`, `diff`, `exec-check`, `cache ...` | everything |
| Configuration (`config.py`, `adapters/factory.py`) | validated config, forensic affirmation token | `load_config`, `assert_two_affirmation`, the factories | CLI |
| Renderers (`render/`, `decision/fix_suggestions.py`) | none | reason, next steps, counts | report |
| Diff and migration (`diff.py`, `report/migrate.py`) | none | `load_report`, `compute_diff`, `migrate_report` | report files |
| Sensitive values, redaction, encoding (`serialization/`) | none | graph walk, canonical JSON | report, CLI |
| Datadog emitter, Inspect scorer (`packages/`) | none | one call to an external library each | |

`acquire_cache_lock`, the cache storage and `replay_stream` are library
components: the CLI's `fork` calls none of them yet (its pipeline is
sequential), so their models have the callers that their contracts admit.

Hard behaviours, by component (the list with lines is `hazards` in
`PROJECT.json`):

- **Lock**: interleaving of processes between `open`, `flock`, `unlink`;
  death of a holder at any system call; a takeover that reads an identity
  while its owner rewrites it; an operator who removes the file meanwhile.
- **Cache storage**: files are truncated and then written, in place; processes die
  between the two; `rebuild` takes no lock and works off directory listings that
  writers and other rebuilds outdate.
- **exec lane**: Python cannot kill a thread, so a timeout leaves the runner
  thread behind, on the same `ExecRunner` as its successor; every frame carries
  the same `request_id`; an exception between request and answer puts the two
  ends out of step; children die, stay silent, or never start.
- **Stream**: lazy consumption, a slow consumer, a source that raises, a
  consumer that leaves, exceptions that are not `Exception`s, abandoned threads.
- **Intake**: a list paged by number moves while it is read; spans of many
  traces arrive interleaved, in any order, cut into pages anywhere.
- **Async lane**: cancellation is a request, which the runner may swallow, answer
  with an output or meet in its cleanup; what it left running is waited for.
- **CLI**: two artifacts, each truncated and then filled, under names that all
  runs of a day share; failures, exits of the user's code and signals between
  any two steps; some exceptions are caught and some are not.
- **Decision**: traces that are skipped or raise leave some denominators and not
  others; ratios and medians meet thresholds with equality, the median after a
  rounding; the experiment shape is known to some of the rules only.

What makes each component correct: the lock admits one writer, refuses only for
a live holder and is given back; the storage keeps what it acknowledged, and a
rebuild clears what it found; the lane and the stream settle every trace
once, with its own result or a typed failure, and end; the stream stays within
its window; every span goes to its trace and a runner is answered from its own
trace only; a Ship verdict is backed by the traces and an Inconclusive says why;
the exit code, the report and the files agree.

## 2. Modules

| Module | Models | Kind |
|---|---|---|
| `TraceReplay` | what every replay component promises | abstract specification |
| `CacheLock`, `MCCacheLock`, `CacheLockProofs` | lock and unlock | state machine, model values for TLC, proofs |
| `CacheStore`, `MCCacheStore`, `CacheStoreProofs` | storage and rebuild | state machine, model values for TLC, proofs |
| `ExecLane`, `ExecLaneProofs` | kernel, exec runner, children, pipes | state machine, refines `TraceReplay`, proofs |
| `ReplayStream`, `ReplayStreamProofs` | stream and kernel | state machine, refines `TraceReplay`, proofs |
| `Intake` | trace sources and adapters | state machine, part of `AsyncLane` |
| `AsyncLane`, `MCAsyncLane`, `AsyncLaneProofs` | tool cache, async kernel, the loop over the traces | state machine that composes `Intake`, refines `TraceReplay`, model values, proofs |
| `Decision`, `MCDecision`, `DecisionProofs` | pipeline, floor, guards, verdict, projection | state machine over operators, model values, proofs |
| `Render` | reason and next steps of a report | operators over `Decision`'s report, proved about in `DecisionProofs` |
| `ForkRun`, `MCForkRun`, `ForkRunProofs` | the CLI's commands, config checks, factories | state machine, model values, proofs |
| `OrderLemmas` | nothing of the code | lemmas on least elements and enumerations that `DecisionProofs` and `AsyncLaneProofs` share |

### TraceReplay

One variable, the outcome of every trace; one action, settling a pending trace
with its own success or a failure code of the registry (`replay/result.py`).
`ExecLane!Delivers`, `ReplayStream!Settles` and `AsyncLane!Delivers` are this
specification under a refinement mapping: what the kernel returned, what the
consumer was handed, and what `_delta_fn` was returned for each position of the
source's list.

### CacheLock

One step per system call, because processes share nothing but the file system.
The lock file is kept as a directory entry (`path`) and inodes (`flock`,
`content`): `flock(2)` locks an inode, `unlink` removes the entry, and a
descriptor opened before still reaches the old inode. `pc` follows
`acquire_cache_lock` from open to close, `Acquired` is the local `acquired`.
`Crash` can happen in every state and gives the kernel lock back. Two paths leave
the function with the lock still on its file: an `unlink()` that raises anything
but `FileNotFoundError` skips both `LOCK_UN` and `close()` (`CleanupRaises`), and
Ctrl-C between the `flock` call and `acquired = True` skips the whole cleanup but
`close()` (`FlockInterrupted`). The lock then goes with the file (`DropFile`),
closed by the `finally` or by its finalizer, and a named entry stays behind; the history
variable `abandoned` remembers it. Stale
detection reads the process's own descriptor; `StaleVerdicts` is the set of
answers the pid, create-time and age checks can give. `opc` follows `unlock`.

### CacheStore

`meta` and `entry` say what the files hold, `entriesDir` and `shard` which
directories exist. A content is the call that wrote it, so that no two calls
write the same one; `Partial` is a file that was truncated and not yet written.
`pc` takes a client through `init_cache` and then one `write_entry` or
`read_entry` after the other; `linked` says whether the file it is writing still
has its name, because a rebuild may unlink it between open and write.
`rpc` follows `rebuild(force=True)` with its listings (`todo`, `files`); the
ways a file system call can fail under it are actions of their own
(`ListFails`, `UnlinkFails`, `RemoveFails`), and end it. Writers exclude each
other, as `write_entry` demands of its callers (`cache/storage/v1.py:268`);
readers, `init_cache` and `rebuild` take no lock. `verify` only reads and is not
an action. Two history variables: `owed`, the completed writes that nothing has
overwritten and no rebuild has touched, and `found`, what was there when a
rebuild began.

### ExecLane

The main thread (`Submit`, `Complete`, `TimeOut`, then `close()` from
`StartClose` to `FinishClose`, then `ExitProcess`, which joins the executors'
threads), one runner thread per trace (from `Enter` to the resolution of its
future), and the children, written after the reference child in
`examples/exec_agent_node/agent.js`. All threads share `proc` and `started`;
`reads` is the child whose `readline` a thread is blocked on, taken once. A frame
carries, as a ghost, the trace it was produced for, which the real protocol
(`request_id` is always `"r-0"`) cannot tell.

A call may end between its request and the child's answer in ways that leave the
answer in the pipe, or the child waiting: the lookup misses (`AnswerMiss`), the
`tool_lookup` is malformed or the lookup raises something else (`LookupRaises`),
or the line read is no frame that `__call__` expects (`ReceiveStray`). `slipped`
remembers the last two, which are all reported as `runner_exception`. A stray
line is not kept in the pipe: it ends the call that reads it, so that a call may
find one whenever it reads. Of a child is assumed that it answers a request once,
with a frame of some kind, and ends when its input ends; it may print anything
else, and exit or be killed at any moment. A full `stderr` pipe, which nobody
drains, is outside the model.

Ctrl-C strikes the main thread only, in the replay (`Interrupt`) or in `close()`
(`CutClose`, which `_close_runner` does not suppress). `close()` kills the child
it finds in `_proc` and closes its pipes. A child that was spawned over keeps
its pipes, since the `subprocess` module holds on to a `Popen` that still runs, and
so does one that is spawned after `close()`; they end with the interpreter
(`PipesClosed`).

### ReplayStream

The generator's control state `gen`, its window and the snapshot `done` that
`wait()` returned, the kernel calls on the pool's workers, and the runner
threads. The consumer is the environment: it asks for the next result, or drops
the generator. A runner ends in one of `Endings`; `Classify` is the kernel's
order of `except` clauses.

### Intake

`source` says whether `list(iter_traces())` is still fetching, has returned or
has raised. For the span adapters (`FetchSpans`) a page is any set of
undelivered spans in any order, at most `PageLimit` of them; after the last page
the spans are grouped (`GroupKeys`, `GroupOf`), a root is chosen (`RootOf`) and the rest
become tool spans (`ToolSpans`). What the code does with dictionaries and list
comprehensions is written by position (`Picked`: the elements at a set of
positions, in their order), a form that can be proved about; a trace's place is
where it is first seen. For Langfuse (`FetchTraces`) a page is what rows
`(N-1)*L+1..N*L` hold at that moment, while `TraceArrives` and `TraceRemoved`
move the rows. `recording`, `arrived` and `removed` are known to the environment
only.

### AsyncLane

`EXTENDS Intake`: once the source is listed, `StartTrace` takes the next raw
trace, folds its tool spans into a cache (`BuildToolCache`) and starts the
runner on a loop of its own. The runner is the environment: it looks tools up,
spawns tasks and threads, blocks the loop, swallows its cancellation, ends in
any way. The kernel is `GetsLate` (the deadline passes), `Expire` (the loop's
timer runs, which needs the loop to be in control) and `Classify` (the order of
the `except` clauses). `CloseLoop` is the return of `asyncio.run`, which waits
for everything in `leftover`; since Python 3.12 it gives threads up after 300
seconds (`GiveUpThreads`), so that "Nothing leaks" is true of tasks and not of
threads. `Score` and the failure branch of `CloseLoop` are the bookkeeping of
`run_pipeline`: a delta or a `FailureRecord`. A `SystemExit` goes through all of
it (`aborted`). The Inspect scorer's endings are the branches of `Score`.

### Decision

`Skip`, `Score` and `Raise` are one turn of the loop over the traces each;
`Decide` is everything after the loop, as operators that follow the functions:
`CohortFailures` (floor rules), `Findings` (guard chain), `VerdictState`,
`Report` (projection). Deltas are integers in units of 1/10000, so that the
rounding of the median to three decimals (`WireMedian`) is part of the model.

### Render

What the three renderers say of a report, as operators over `Decision!report`:
`Reason` (the same choice is made in `render/ci_status.py`, `render/summary.py`
and `render/markdown.py`) and `NextSteps` with the registry of templates.

### ForkRun

Each command is a process; `stage` is where it is, `file` what every path holds.
Writing is opening, which truncates, and filling, with other processes and signals
between the two. A fork goes through `LoadConfig` (all cross-field validators),
`AssertTwoAffirmation`, `BuildAdapters` (the outcomes of the factories and the
loaders; `belt` notes the checks that repeat a validator), `StartReplay`,
`EndReplay`, `WalkReport`, the JSON,
the Markdown and `Announce`. `report-migrate`, `diff` and `exec-check` read and
write the same files. What each step refuses with code 2 (`Refuses`) and what
escapes as a traceback with code 1 (`Leaks`) follows the `except` clauses one by
one. `run_pipeline` is a step that returns any report of `Reports`: `AsyncLane`, `ExecLane` and
`Decision` say which. What becomes of a runner's child when `run_pipeline` ends
is `ExecLane`'s subject alone.

## 3. Runs

| Run | Bounds | Question |
|---|---|---|
| `lock_two_contenders` | 2 processes, 1 attempt each, 3 inodes, age takeover on | One writer at a time; only the holder removes the entry; every kernel lock is given back (fair scheduling). |
| `lock_contenders` | 3 processes, 2 attempts, 3 inodes, 1 operator; symmetry over processes and inodes | What the lock does guarantee with everything going on, an `unlink()` that raises and an interrupted flock included. |
| `lock_single_writer` (violation) | 3 processes, 1 attempt, no takeover | Two writers, without a crash or an operator. |
| `store_walks` | 2 clients with 2 calls each, 2 keys in one shard, 2 rebuilds; symmetry over clients, rebuilds, keys | Acknowledged writes are kept; a partial file has a writer; a rebuild clears; an `OSError` needs a rebuild. |
| `exec_serial` | 3 traces, no miss, slip or timeout, every start-up failure and death, Ctrl-C at any moment | Refinement of `TraceReplay`; termination without a timeout's help; which children `close()` may leave behind. |
| `exec_faults` | 3 traces, everything may fail, timeouts while awaiting an answer, no Ctrl-C | An answer is used once; an output changes places only after a miss, a timeout or an exception raised ahead of the answer, which the report shows; threads and children end. |
| `exec_miss` (violation) | 3 traces, misses only | A trace is credited with another trace's output. |
| `stream_window` | 4 bundles, 2 workers, every ending, source failure, departure | Window, completeness, leaks, promise, termination. |
| `decision_verdicts` | 6 traces in every split, deltas below, near and above epsilon, both shapes | A Ship is earned and monotone; findings agree with counts; a verdict that is not Ship has a reason and next steps. |
| `render_reason` (violation) | as `decision_verdicts` | An Inconclusive by the floor, explained by an observed improvement. |
| `async_lane` | 2 recordings of 4 and 5 spans in pages of 2; a list of 3 with 1 arrival and 1 deletion; at most 4 traces | Spans and pages are accounted for; a runner is answered from its own trace; every trace is settled and counted once; a run ends or the user's code holds it. |
| `fork_session` | 2 forks of one day, one with pinned paths and every config, 1 tool, 1 process cut | Exit codes, reports and files agree; refusals touch nothing; broken files have culprits. |

**Why the bounds are enough.** Three processes are the smallest number for a
second writer: one on the inode that lost its name, one on the new one, one that
removed the name. Two attempts let a process meet its own residue; three inodes
are as many as three descriptors can keep apart. Two clients with two calls and two
keys in the storage allow an overwrite, a write next to a read, and a death in
each; two rebuilds meet on every file and directory, and with both keys in one
shard a listing can be outdated by the other key. The proofs cover every
sharding. In the exec lane a frame that
is out of step hits the trace after the next one, so three traces. Four bundles
on two workers give a full window, a refill, a drain, and a departure in each.
Six traces give cohorts of up to three on each side of the required count of 2,
with even and odd medians, and ratios exactly at and next to the thresholds.
The two recordings of `async_lane` hold what grouping and root choice can trip
over: two interleaved traces, a tool called twice, once without an output, a
span without a trace id, a tag on a child only, a nested orchestrator, a trace
whose every span has a parent; pages of two cut them everywhere. Three listed
traces in pages of two give a full page, a short one and, after a deletion or an
arrival, rows on either side of the border; one arrival makes four traces, the
bound of the lane. Two forks and a tool are the smallest set in which two
writers meet on a file and a third reads it, and one cut process is enough, since
what a second one leaves behind is what the first did.
`exec_faults` lets the timeout strike while an answer is awaited, the state in
which two threads meet on one child; a timeout in the other states, and Ctrl-C next to
timeouts, are covered by the proofs of its three invariants. `LeftoversAreReported`
excuses every leftover once a timeout is reported, for good reason: a timeout
*before* the spawn lets the abandoned thread spawn a child after `close()`, and
nobody owns that one. The run for it has no timeouts, and its theorem any.

**Fairness.** `CacheLock`: living processes are scheduled (weak fairness per
process), nothing is assumed of crashes or operators; a file that `close()` did
not reach is closed by its finalizer once the traceback that refers to it is
gone, or with the process. `ExecLane`: the main
thread and the runner threads are scheduled by the interpreter, and a child that
can take its next step takes it, answers what it was asked and ends with its
input; dying, chattering and Ctrl-C are never fair. `Terminates` speaks of the
end of the interpreter, because a child that was spawned over survives `close()`. `ReplayStream`: the pool's
workers run, the consumer keeps asking unless it left, and the kernel's wait
runs out; runners get no fairness at all. `AsyncLane`: calls to the source return
(its clients have timeouts), `StartTrace`, `CloseLoop` and the passing of time
happen, and the loop's timer runs if the loop is in control again and again
(strong fairness of `Expire`, because a runner may block and yield for ever);
nothing is assumed of the runner, of what it left behind, or of the scorer, which
has no timeout. `RunEnds` therefore says: the run ends, or from some moment on the
user's code holds it, in one of the ways `Held` lists. `ForkRun` claims no liveness.

**Deadlock** is checked everywhere except in the lock, storage and `fork_session`
runs, where all processes may have used up their attempts, be over or be dead. In the other modules the end of a
run is a stuttering action guarded by the final state, so any other stop is
reported.

## 4. What the runs found

Each violation run checks a sentence of the repository against the code.

1. *Two writers* (`lock_single_writer`). The holder unlinks the lock file before
   it unlocks. A contender that opened the file earlier wins the flock on the
   inode without a name; a newcomer creates another inode and locks that. The
   comment in `cache/lock.py:344-348` knows that an inode check is missing.
2. *Outputs move to other traces* (`exec_miss`). The answer's `request_id` is not
   compared, and a child that was left in the middle of a tool lookup answers
   out of step. The same happens after a timeout, when two threads share the
   child, and after a line that is no frame or a lookup that raises, when the
   answer is still to come; for `docs/runner-contract-exec.md:190` that is a
   failure of the one trace. `SwapsHaveCulprits` shows that nothing else does
   it, with a child that answers each request once.
3. *The reason does not cite the floor* (`render_reason`). An Inconclusive by the
   validity floor carries the finding `improvement_observed` when the failure
   cohort improved; all three renderers look at the findings first, whatever
   their severity, so that the reason of the Inconclusive is the improvement.

Other disagreements seen while modelling, not given a run of their own. In the
cache, the lanes and the decision:

- `init_cache` truncates `meta.json` and then writes it. A second process that
  starts in between reads an empty file and refuses the cache; one that dies in
  between leaves it so for good, since `cache rebuild --force`, which the error
  message recommends (`cache/storage/v1.py:256`), keeps `meta.json`.
- Under `regression_check` the CI guard and the primary endpoint still read the
  failure cohort (`decision/verdict.py:129`).
- `hit:false` of the exec contract (`docs/runner-contract-exec.md:129`) is never
  sent; a miss raises. After a `runner_timeout` the child is not restarted
  (`:180`); a binary that fails its handshake is spawned again for every trace
  (`exec_runner.py:102` says it is not).
- The stream "never raises for runner-related conditions"
  (`replay/pipeline.py:52`), but a `SystemExit` of the runner passes through.
  A `TimeoutError` raised by the runner's own I/O is the class the kernel's
  wait raises, and is reported as `runner_timeout`.
- Skipped traces leave no `FailureRecord` (`adapters/protocols.py:86`), and the
  registered finding `cohort_systemic_failure` is emitted by nothing.
- Every replay failure is recorded as `scorer_unavailable` (`pipeline.py:179`);
  `require_baseline` and `max_ci_width` are read by nothing.
- `unlock` checks and unlinks in two steps, and a holder that has truncated its
  file and not yet written it counts as not alive: it can remove a live lock
  (`cache/recovery.py:243` says it refuses). `WritersBoundedByRemovals` counts
  such removals.
- Runner threads of earlier timeouts add to "Peak threads = 2 * max_workers"
  (`replay/pipeline.py:36`).
- A `rebuild` next to a writer can end with an `OSError` half way, and turn
  the writer's `write_bytes` into one; the CLI catches neither.
- The age takeover of a live holder's lock never succeeds: its flock is refused.
- `verify` requires the keys `key`, `value` and `metadata`, which `write_entry`
  does not write.
- `replayed = scored` (`pipeline.py:241`): a trace that was replayed and could
  not be scored counts as not replayed. The findings of `ci_availability.py` cite
  a placeholder instead of failure records (`:43`).

In the sources and the async lane:

- A trace that arrives while Langfuse is paged is read twice and counts twice in
  its cohort (`PagesComplete` therefore asks for no repetition only without
  arrivals); one that is deleted makes another one disappear.
- The Phoenix and Datadog adapters "prefer" a span without a parent and "fall
  back" to an orchestration kind; the code takes the first span that has either,
  in order of delivery.
- `selection.*.limit` (`config.py:232`) is read by nothing and `max_traces` of
  the sources is never set by the factories; a next step suggests to raise the
  limit (`decision/fix_suggestions.py:144`). `timeouts.score_seconds` is unused.
- "TimeoutError is raised by `asyncio.wait_for` ONLY" (`replay/kernel_async.py:115`):
  the runner may raise it too. "Nothing leaks" (`:27`): threads may, see above.
  A runner that swallows its cancellation holds the run for ever.

In the CLI:

- Exit code 1 is "Don't Ship" (`cli.py:100`), and also that of every uncaught
  exception; a runner's `SystemExit(0)` is code 0 without a report.
  `ExitMatchesReport` is claimed for forks that return their code.
- `report-migrate` promises "never an unhandled exception" (`cli.py:843`):
  `UnicodeDecodeError` on the way in and `OSError` on the way out escape, and
  `diff` lets `KeyError` escape for a JSON object that is no report.
  A Markdown with a lone surrogate raises `UnicodeEncodeError` past `except
  OSError`, after the JSON is written and the Markdown truncated.
- Two forks of one day overwrite each other's dated artifacts, and may leave the
  JSON of one next to the Markdown of the other, or a mixture; an in-place
  migration undoes a fork that finished since it read the file.
- `finished_at` and `duration_ms` are taken before `run_pipeline` (`cli.py:489`).
- `python -m whatifd.cli` calls `main()` before `exec-check` is registered
  (`cli.py:902`).
- A malformed or unexpected frame is reported as `runner_exception`, not as the
  `runner_protocol_error` of `docs/runner-contract-exec.md:190`. The duplicate
  `replay_response` of the same line is not noticed at all: nothing compares it
  with the request, and the next trace takes it for its own.
- `close()` and the tear-down promise of `cli.py:530-534` cover the child in `_proc`
  only. A second Ctrl-C in its waits, a child spawned over after a failed
  handshake and a child spawned by a thread whose trace had timed out outlive
  `run_pipeline` (`LeftoversAreReported` lists them); all end with the
  interpreter, if they end with their input.
- The async kernel calls the runner outside its `try`
  (`replay/kernel_async.py:123`): a runner that raises before it returns its
  coroutine raises out of `replay_one_trace_async`. `AsyncLane` starts with the
  coroutine.
- A child that closes its stdin and lives on makes `close()` skip the wait and
  the kill: `_send` turns the `OSError` into `ExecRunnerError`, which is not
  among the suppressed exceptions (`exec_runner.py:149`). `ExecLane` models the
  reference child, which does not do that.

## 5. Proofs

All theorems hold for every value of the constants that the modules' `ASSUME`s
admit.

**CacheLockProofs.** `IInv` is inductive: the types; a descriptor is open exactly
during an attempt (`OpenFiles`); `acquired` and the kernel agree
(`LockOwnership`); the file a holder locked records it (`FileNamesHolder`);
whoever is about to `LOCK_UN` owns an inode the entry no longer names
(`UnlinkedBeforeRelease`); a named inode that is free again lost its lock with
a file that was closed, and not with a `LOCK_UN` (`FreedByAbandonment`): by a
crash, an `unlink()` that raised, an interrupted flock; without removals all
descriptors are on the named inode (`NamedUntilRemoval`). Each part is needed:
`FileNamesHolder` fails without `LockOwnership` (somebody else could truncate),
and `FreedByAbandonment` without `UnlinkedBeforeRelease` (a release could free
the named inode). From it follow `OwnershipCorrect`, `HolderIsNamed`,
`ExclusiveUntilRemoval` (one writer as long as no entry was removed) and the
action properties `RefusalsAreHonest` and `TakeoversNeedAbandonment`.

How much exclusion is left after removals takes two more invariants.
`WritersAreBounded` (never more writers than removals and one) counts inodes
instead of writers: an open inode without the entry went astray by a removal of
its own (`StraysCounted`), and by `LockOwnership` an inode has one writer. That
the strays are finitely many is part of the induction, since `Procs` need not be
finite. `TwoAttemptsExclude` and `TwoAttemptsKeepEntry` are the other end: of
two processes with one attempt each and no operator, the one that removed the entry
has finished (`RemoverIsFinished`), so nobody is left to exclude. The third
attempt is the counterexample of `lock_single_writer`.

**ExecLaneProofs.** Nothing is assumed of the constants but in `LaneDelivers`.
`OnceInv` follows a trace through the lane: its request, the job of a child, its
response and its result are one thing in one place at a time, it
is submitted once, and a result does not change; `TypeCorrect` and
`ResponsesUsedOnce` follow whatever times out or dies. `SwapInv` describes the
conversation on the pipes of `self._proc` as long as every earlier trace ended
without a miss, a timeout or a slip: who of thread and child is to speak, and
that the frames in between belong to the trace at hand. A crash, a refused start
and an error answer all end the call with both pipes empty or the child lost; the
three others are what leaves a frame behind, and a slip is reported as an
exception (`SlipShows`), which gives `OnlyCulpritsSwap`. `LaneDelivers` is the
refinement of `TraceReplay` under `Timeouts = {}`, `Misses = FALSE` and
`Slips = FALSE`, the hypotheses of the run `exec_serial`; without them it is
false (`exec_miss`).

`LeftoversReported` says what `close()` owes. As long as no timeout was reported
one thread runs at a time, so the fields can be followed: a call overwrites
`_proc` only when no handshake has succeeded, hence a child that got past its
handshake is `_proc` until `close()` resets it (`FieldsNameIt`), and it is the
child that `close()` kills or finds dead (`Held`). It needs to know that calls
and `close()` name no child that was not born (`Unborn`).

**CacheStoreProofs.** `IInv` is inductive: the types; files are in their
directories (`Nested`); one client writes, and the file it has open under its
name is partial (`WritersOK`); every other partial file was opened by a client
that died (`PartialOwned`, which must know `linked`, or else the completion of
a write to a file without a name would lose its witness); nothing is owed while a
rebuild runs (`OwedOK`); a content that was ever on disk or found by a rebuild
belongs to a call that has ended (`Fresh`), so that none comes back; and an
entry that a rebuild found and that still exists is ahead of it (`Clearing`).
`PartialsHaveWriters`, `AcknowledgedIsKept`, `RebuildsClear` and
`OsErrorsNeedRebuild` follow, for any number of clients, rebuilds, calls, keys and
any sharding.

**ReplayStreamProofs.** `StreamInvariant` ties the window to the kernel calls
and to what was handed over; the central count is that pulled and not handed
over traces are exactly the window, whose size the guards bound (`WindowIsLazy`).
`StreamIsComplete`, `OnlyTimeoutsLeak` and the refinement
`StreamImplementsPromise` follow.

**DecisionProofs.** `ShipsAreEarned`: the invariant is that a report exists only
when no trace is pending. Where the verdict is computed, "ship" excludes floor
failures and blocking findings; each excluded one is a bound on a count, and the
share of improved among scored times the share of scored among selected gives
the bound against all selected failures (`SharesMultiply`).

`BetterDeltasShip` needs to know what the report is, not only what it excludes:
`ReportStands` keeps it equal to the operators at the current deltas. A rank of
a cohort is a `CHOOSE` over counts; it exists because finite sets of integers
have a least element (`OrderLemmas`), and no rank falls when one delta rises
(`RankIsMonotone`), so neither does the median, nor its rounding, nor a count of
improved traces, while a count of regressed ones does not grow. `ObservationsAreReal`
goes from the median back to a count: a median above epsilon has at least half
of the cohort above it. The rounding of the median forced a hypothesis on it,
`ThreeDecimals`: an epsilon of at most three decimals. The default is 0.05
(`config.py:373`), but the field takes any number, and TLC finds the
counterexample at 0.0507: deltas of 0.0506 pass no threshold and have a rounded
median of 0.051, although `decision/guards/improvement_observation.py:49` says
"strictly above".

What is said of a verdict (`Render`): `Explained` says that in every report the
findings carry the severity of their registry entry, a Don't Ship has a finding
that blocks, and an Inconclusive has one or a floor failure of a required cohort.
It needs the case of the cohort that fails the floor without having a row, which
`AbsentFindings` turns into a finding. `InconclusivesAreExplained` and
`NextStepsAreThere` follow.

**AsyncLaneProofs.** `Hand` ties the result at hand to the way the runner ended
(cancellation needs the deadline; `Classified` keeps the `except` clauses apart)
and gives `NothingIsLeft` and `OutcomesTellWhat` for any source and runner.
`Accounted` says that the positions before the one at hand are settled and each
in exactly one of `deltas` and `failures` and that those behind it are untouched;
it holds because no step changes the list once the source is listed.
`EveryTraceIsCounted` and the refinement `LaneImplementsPromise` follow. They are
stated for behaviours that list at most `MaxTraces` traces (`[]InBound`), the
bound of the abstract specification's domain; the program has none. `TypesHold`
has the same hypothesis, the other theorems have none.

`PagesAreComplete`: with page, page limit and list the adapter is at the row
`Offset`. While nothing was deleted, a row above it that is not read yet came
after the start, because an arrival moves rows down only; while nothing arrived,
a row below it has not been read, because a deletion moves rows up only (`Paged`).
A short page means that `Offset` has reached the end of the list.

`SpansAreAccounted`: `received` enumerates what is no longer pending
(`Spanned`), since a page takes a set of pending spans in any order, and at the
end nothing is pending: a page is empty only when nothing is left, `PageLimit`
being positive. Grouping an enumeration enumerates the trace ids, and for each id its
spans; root and tools split such a group. These are facts about positions
(`NthIs`, `NthIsOnto`: the k-th of a finite set of positions exists, is unique, and
leaves none out), with no induction over the stream.

`RunnersReplayTheirOwn`: the cache at hand is that of the trace at hand, from
`StartTrace` until the next one (`Owned`), a cache holds the last recorded call of a
name (`CacheHolds`), and the two invariants of the sources say whose spans the
trace has.

**ForkRunProofs.** Four inductive invariants, for any processes, configs, reports
and paths and without `MaxCut`.
`Written`: what report, destinations and opened paths a fork has at each stage,
which gives `ExitCodesMatchReports`. `Blamed`: whoever
has a file open has touched it, an empty or torn file has somebody at work or
somebody who failed, and a mixture has two; the case to see is that of a process
that finishes a file which another one has truncated meanwhile. `Left`: what a
fork has written is in its files with its own text unless another command has
touched them, and a migration that did has read an older version; it builds on
`Blamed` and gives `DiskMatchesExitCode`. `Loaded`: a config past
`LoadConfig` passed every validator, from which `BeltsNeverFire` and
`ForensicNeedsBothSurfaces` follow. `TypeCorrect` needs the first two: what a
migration writes is of a known kind because of what it has read.

**Proved and not run.** The type invariants of `CacheLock`, `CacheStore`,
`ReplayStream`, `Decision` and `ForkRun`, the lock's `IInv`,
`InconclusiveIsExplained` (implied by `NextStepsExist`, which a run checks),
`BeltNeverFires` and `ForensicNeedsBoth` are theorems, so that no run spends time on them;
each can be added to the configuration of its module's run as an `INVARIANT`.

**Model-checked only.** Liveness (`LockIsReleased`, `Terminates`, `StreamEnds`, `RunEnds`), which is outside the prover's reach, as is the absence of
deadlock. Every invariant and every other action property that a passing run checks is a theorem,
and so are the three refinements of `TraceReplay`.

## 6. Limits of the models

- `ObservedMeansHalfImproved` holds for an epsilon that is a multiple of 0.001,
  as in the run. For a finer one the rounded median can exceed it although the
  median does not (epsilon 0.0506, median 0.0506 rounds to 0.051).
- The bootstrap interval enters as computable or not, since no guard reads its
  bounds. A NaN score would count as unchanged and is not modelled.
- Deltas stay clear of exact rounding ties, where the binary float decides.
- The storage: permissions, full disks and other failing writes are not
  modelled; `exists`-style calls follow one another without a step in between
  only inside `mkdir(exist_ok=True)`. A truncated write that leaves a prefix of
  the content is the same as an empty file: neither parses.
- File system: `open`, `flock`, `unlink` on a local POSIX file system. Network
  file systems enter through the error path `FlockUnsupported` only.
- `Intake`: retries and rate limits are inside the vendors' clients; a call
  returns a page or raises. A trace of Langfuse carries no spans, so that its
  tool cache is empty. Cohort classifiers supplied by the user are not modelled.
- `ExecLane`: a child answers each request once. One that sends a second
  `replay_response` hands it to the next trace, with no other sign in the report;
  `SwapsHaveCulprits`, `ResponseUsedOnce` and `Delivers` are not claimed for it.
  Nor is a child that closes its standard input and lives on, one that ignores
  the end of its input, or a full `stderr` pipe part of the model.
- `AsyncLane`: no adapter records the arguments of a tool call, so that every
  span is filed under empty arguments and a lookup with arguments misses; a
  `CacheMissError` that the runner catches itself is not a step.
- `ForkRun`: file contents are whole, empty, torn or mixed; a fork's second write
  to a path that another process has open is one of whole and mixed. Which report a
  run returns is an input.

### Not modelled

- *Cache keying*: a hash over canonical JSON; only its injectivity matters.
- *Cache policy and summary*, *Datadog emitter*: single functions that `fork` does
  not call.
- *Determinism and encoding*, the *graph walk*: sequential traversals of one
  object, without state; `ForkRun` has their place and their refusals.
- *Report diff*: the field-by-field comparison of two finished reports.
- *Statistics*: the resampling, which is seeded arithmetic no decision reads.
- *Inspect AI scorer*: a call into an external library; its endings are those of
  `AsyncLane!Score`.

## 7. What is left

1. Absence of deadlock as an invariant: in every state that is not final, the
   guard of some step holds that does not wait for the user's code. TLC checks
   it; stated by the guards it is in the prover's reach.
2. The matching of findings across two reports (`diff.py`) against a reference
   definition.
