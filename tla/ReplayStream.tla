---------------------------- MODULE ReplayStream ----------------------------
(***************************************************************************)
(* replay_stream (replay/pipeline.py): a generator that replays a stream   *)
(* of bundles under a sliding window of at most MaxWorkers kernel calls,   *)
(* and the kernel (replay/kernel.py) each of its workers runs, which puts  *)
(* the user's runner in a thread of its own to bound it by a timeout.      *)
(*                                                                         *)
(* Actors: the consumer that iterates the generator (the generator only    *)
(* runs while the consumer is inside next()), the workers of the stream's  *)
(* pool, and one runner thread per kernel call.  A runner thread that      *)
(* outlives its timeout is never stopped.                                  *)
(***************************************************************************)
EXTENDS Naturals, FiniteSets

CONSTANTS
  N,           \* the source yields the bundles 1..N
  MaxWorkers,  \* max_workers
  Endings,     \* how a runner may end
  SourceFails  \* the iterator over the bundles may raise

\* A runner's output, a CacheMissError, the TimeoutError of its own I/O, any
\* other Exception, or a BaseException that is no Exception (sys.exit()).
AllEndings == {"output", "miss", "timeout_error", "exception", "exit"}

ASSUME StreamAssumption ==
  /\ N \in Nat
  /\ MaxWorkers \in Nat \ {0}   \* replay_stream refuses max_workers < 1
  /\ Endings \subseteq AllEndings
  /\ SourceFails \in BOOLEAN

VARIABLES
  gen,      \* where the generator is
  pulled,   \* bundles taken from the source: 1..pulled
  window,   \* in_flight: submitted and not yet yielded
  done,     \* the rest of the set `wait` returned, not yet yielded
  kernel,   \* control state of each kernel call
  runner,   \* control state of each runner thread
  result,   \* what the future of each kernel call holds
  yielded   \* what the consumer was given for each trace

genVars == <<gen, pulled, window, done, yielded>>
callVars == <<kernel, runner, result>>
vars == <<gen, pulled, window, done, kernel, runner, result, yielded>>

Traces == 1..N
NoTrace == 0

Promise == INSTANCE TraceReplay WITH outcome <- yielded

Failed(code) == [kind |-> code, of |-> NoTrace]
Raised == Failed("base_exception")
Results == Promise!Failures \cup {Promise!Pending, Raised}
             \cup {Promise!Success(t) : t \in Traces}

\* Leaving the `with` block, and where the generator ends up.
Leaving == [returning |-> "returned", raising |-> "raised", closing |-> "closed"]
Ended == {"returned", "raised", "closed"}

TypeOK ==
  /\ gen \in {"priming", "waiting", "draining", "suspended"}
               \cup DOMAIN Leaving \cup Ended
  /\ pulled \in 0..N
  /\ window \subseteq 1..pulled
  /\ done \subseteq window
  /\ kernel \in [Traces -> {"none", "queued", "waiting", "done"}]
  /\ runner \in [Traces -> {"none", "submitted", "running", "cancelled"}
                             \cup AllEndings]
  /\ result \in [Traces -> Results]
  /\ yielded \in [Traces -> Results]

Init ==
  /\ gen = "priming"
  /\ pulled = 0
  /\ window = {}
  /\ done = {}
  /\ kernel = [t \in Traces |-> "none"]
  /\ runner = [t \in Traces |-> "none"]
  /\ result = [t \in Traces |-> Promise!Pending]
  /\ yielded = [t \in Traces |-> Promise!Pending]

-----------------------------------------------------------------------------
(* The kernel call of trace t, on a worker of the stream's pool            *)

\* A worker picks the call up; the kernel submits the runner to its own pool.
StartKernel(t) ==
  /\ kernel[t] = "queued"
  /\ Cardinality({u \in Traces : kernel[u] = "waiting"}) < MaxWorkers
  /\ kernel' = [kernel EXCEPT ![t] = "waiting"]
  /\ runner' = [runner EXCEPT ![t] = "submitted"]
  /\ UNCHANGED <<result, genVars>>

StartRunner(t) ==
  /\ runner[t] = "submitted"
  /\ runner' = [runner EXCEPT ![t] = "running"]
  /\ UNCHANGED <<kernel, result, genVars>>

EndRunner(t) ==
  /\ runner[t] = "running"
  /\ \E e \in Endings : runner' = [runner EXCEPT ![t] = e]
  /\ UNCHANGED <<kernel, result, genVars>>

\* The except clauses in their order; TimeoutError is the class that
\* future.result() raises when the wait itself times out.
CodeOf == [timeout_error |-> "runner_timeout", miss |-> "tool_cache_miss",
           exception |-> "runner_exception", exit |-> "base_exception"]

Classify(t) ==
  IF runner[t] = "output" THEN Promise!Success(t) ELSE Failed(CodeOf[runner[t]])

Resolve(t, r) ==
  /\ kernel[t] = "waiting"
  /\ kernel' = [kernel EXCEPT ![t] = "done"]
  /\ result' = [result EXCEPT ![t] = r]

\* future.result() returned or re-raised, and the runner's pool is shut down.
KernelReturns(t) ==
  /\ runner[t] \in AllEndings
  /\ Resolve(t, Classify(t))
  /\ UNCHANGED <<runner, genVars>>

\* Mutant of KernelTimesOut: the thread's handle is lost with the executor, and
\* its work is taken for an exception of the runner.
TimesOutAsException(t) ==
  /\ runner[t] \in {"submitted", "running"}
  /\ Resolve(t, Failed("runner_exception"))
  /\ runner' = [runner EXCEPT ![t] = IF @ = "submitted" THEN "cancelled" ELSE @]
  /\ UNCHANGED genVars

\* Mutant of KernelTimesOut: `with ThreadPoolExecutor`, which joins the thread.
TimesOutJoining(t) ==
  /\ runner[t] = "submitted"
  /\ Resolve(t, Failed("runner_timeout"))
  /\ runner' = [runner EXCEPT ![t] = "cancelled"]
  /\ UNCHANGED genVars

\* The wait runs out: cancel() takes back a call that has not started, and
\* shutdown(wait=False) leaves a running one behind.
KernelTimesOut(t) ==
  /\ runner[t] \in {"submitted", "running"}
  /\ Resolve(t, Failed("runner_timeout"))
  /\ runner' = [runner EXCEPT ![t] = IF @ = "submitted" THEN "cancelled" ELSE @]
  /\ UNCHANGED genVars

-----------------------------------------------------------------------------
(* The generator                                                           *)

\* next(bundles_iter) and ex.submit(_call_kernel, bundle, timeout_seconds)
PullAndSubmit ==
  /\ pulled < N
  /\ pulled' = pulled + 1
  /\ window' = window \cup {pulled + 1}
  /\ kernel' = [kernel EXCEPT ![pulled + 1] = "queued"]
  /\ UNCHANGED <<done, runner, result, yielded>>

\* `while in_flight` decides where the generator goes next.
WhileInFlight == gen' = IF window = {} THEN "returning" ELSE "waiting"

\* One step of the islice(bundles_iter, max_workers) that fills the window.
Prime ==
  /\ gen = "priming"
  /\ Cardinality(window) < MaxWorkers
  /\ PullAndSubmit
  /\ UNCHANGED gen

PrimeEnds ==
  /\ gen = "priming"
  /\ Cardinality(window) = MaxWorkers \/ pulled = N
  /\ WhileInFlight
  /\ UNCHANGED <<pulled, window, done, yielded, callVars>>

\* wait(in_flight, FIRST_COMPLETED): all the futures that are done by now.
WaitReturns ==
  /\ gen = "waiting"
  /\ done' = {t \in window : kernel[t] = "done"}
  /\ done' # {}
  /\ gen' = "draining"
  /\ UNCHANGED <<pulled, window, yielded, callVars>>

\* Mutant of YieldResult: any of the completed futures is read.
YieldAnyResult(t) ==
  /\ gen = "draining"
  /\ t \in done
  /\ window' = window \ {t}
  /\ done' = done \ {t}
  /\ \E u \in {u \in done : result[u] # Raised} :
       yielded' = [yielded EXCEPT ![t] = result[u]]
  /\ gen' = "suspended"
  /\ UNCHANGED <<pulled, callVars>>

\* yield future.result(): the generator stops here until it is resumed.
YieldResult(t) ==
  /\ gen = "draining"
  /\ t \in done
  /\ window' = window \ {t}
  /\ done' = done \ {t}
  /\ result[t] # Raised
  /\ yielded' = [yielded EXCEPT ![t] = result[t]]
  /\ gen' = "suspended"
  /\ UNCHANGED <<pulled, callVars>>

\* future.result() re-raises what escaped the kernel.
ResultRaises(t) ==
  /\ gen = "draining"
  /\ t \in done
  /\ window' = window \ {t}
  /\ done' = done \ {t}
  /\ result[t] = Raised
  /\ gen' = "raising"
  /\ UNCHANGED <<pulled, yielded, callVars>>

\* Mutant of Refill: the pool is asked for a worker more than was freed.
RefillUnbounded ==
  /\ gen = "suspended"
  /\ PullAndSubmit
  /\ UNCHANGED gen

\* The consumer asks for the next result: the window slides by one bundle.
Refill ==
  /\ gen = "suspended"
  /\ PullAndSubmit
  /\ gen' = "draining"

\* StopIteration: the window shrinks.
SourceExhausted ==
  /\ gen = "suspended" /\ pulled = N
  /\ gen' = "draining"
  /\ UNCHANGED <<pulled, window, done, yielded, callVars>>

\* Mutant of LoopAgain: one batch of completions is taken for the last.
LoopEndsEarly ==
  /\ gen = "draining" /\ done = {}
  /\ gen' = IF pulled = N THEN "returning" ELSE "waiting"
  /\ UNCHANGED <<pulled, window, done, yielded, callVars>>

\* The inner loop is through.
LoopAgain ==
  /\ gen = "draining" /\ done = {}
  /\ WhileInFlight
  /\ UNCHANGED <<pulled, window, done, yielded, callVars>>

\* The iterator over the bundles raises while the window is filled or slides.
SourceRaises ==
  /\ SourceFails
  /\ gen \in {"priming", "suspended"} /\ pulled < N
  /\ gen = "priming" => Cardinality(window) < MaxWorkers
  /\ gen' = "raising"
  /\ UNCHANGED <<pulled, window, done, yielded, callVars>>

\* The consumer drops the generator: GeneratorExit at the yield.
Abandon ==
  /\ gen = "suspended"
  /\ gen' = "closing"
  /\ UNCHANGED <<pulled, window, done, yielded, callVars>>

\* Leaving the `with` block waits for every kernel call, not for runners.
Shutdown ==
  /\ gen \in DOMAIN Leaving
  /\ \A t \in Traces : kernel[t] \notin {"queued", "waiting"}
  /\ gen' = Leaving[gen]
  /\ UNCHANGED <<pulled, window, done, yielded, callVars>>

Idle == gen \in Ended /\ UNCHANGED vars

-----------------------------------------------------------------------------

Stepping ==
  \/ Prime \/ PrimeEnds \/ WaitReturns \/ LoopAgain \/ Shutdown
  \/ Refill \/ SourceExhausted
  \/ \E t \in Traces : YieldResult(t) \/ ResultRaises(t)

Next ==
  \/ Stepping
  \/ SourceRaises \/ Abandon
  \/ \E t \in Traces :
       \/ StartKernel(t) \/ StartRunner(t) \/ EndRunner(t)
       \/ KernelReturns(t) \/ KernelTimesOut(t)
  \/ Idle

Spec == Init /\ [][Next]_vars

\* The consumer keeps iterating, the pool's workers run and the timeout of the
\* kernel fires.  Nothing is assumed of the runners.
FairSpec ==
  /\ Spec
  /\ WF_vars(Stepping)
  /\ \A t \in Traces :
       /\ WF_vars(StartKernel(t))
       /\ WF_vars(KernelReturns(t) \/ KernelTimesOut(t))

-----------------------------------------------------------------------------
(* Properties                                                              *)

\* The results the consumer sees are those of the abstract promise: one result
\* per trace, its own, never replaced (replay/result.py's sealed union).
Settles == Promise!Spec

\* "at most max_workers bundles are in flight ... the input iterable is consumed
\* lazily": with a slow consumer, a fast source and abandoned threads alike, no
\* more than max_workers bundles were pulled beyond those handed over.
LazyWindow ==
  Cardinality({t \in 1..pulled : yielded[t] = Promise!Pending}) <= MaxWorkers

\* A stream that ends by itself has handed over every bundle of its source:
\* the window drained, however completions and refills were interleaved.
NothingDropped ==
  gen \in {"returning", "returned"} =>
    \A t \in Traces : yielded[t] # Promise!Pending

\* Runner threads that outlive their kernel call are those reported as a timeout:
\* the other exits join the thread before the result exists.
LeaksAreTimeouts ==
  \A t \in Traces :
    kernel[t] = "done" /\ runner[t] \in {"submitted", "running"} =>
      runner[t] = "running" /\ result[t] = Failed("runner_timeout")

\* The stream ends although no runner ever returns, be it by draining its
\* window, by an exception, or because the consumer left.
StreamEnds == <>(gen \in Ended)

=============================================================================
