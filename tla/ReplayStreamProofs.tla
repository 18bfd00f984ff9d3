------------------------- MODULE ReplayStreamProofs -------------------------
(***************************************************************************)
(* ReplayStream, for every number of bundles and of workers, every way a   *)
(* runner may end and every consumer.  The inductive invariant IInv says   *)
(* where a bundle is at each moment: the window holds exactly the bundles  *)
(* pulled and not yet handed over (WindowOK), and the future of a kernel   *)
(* call holds the call's own result from the moment it is done (CallsOK).  *)
(***************************************************************************)
EXTENDS ReplayStream, FiniteSetTheorems, TLAPS

\* Pulled and not handed over.
Owed == {t \in 1..pulled : yielded[t] = Promise!Pending}

CallOK(t) ==
  /\ t > pulled => kernel[t] = "none" /\ yielded[t] = Promise!Pending
  /\ kernel[t] \in {"none", "queued"} => runner[t] = "none"
  /\ kernel[t] = "done" => result[t] # Promise!Pending
  /\ kernel[t] # "done" => t \notin done
  /\ result[t] \in Promise!Failures
                     \cup {Promise!Success(t), Promise!Pending, Raised}

CallsOK == \A t \in Traces : CallOK(t)

WindowOK ==
  /\ gen \notin {"raising", "raised"} => window = Owed
  /\ Cardinality(Owed) <= MaxWorkers
  /\ gen = "suspended" => Cardinality(Owed) < MaxWorkers
  /\ gen = "draining" /\ window = {} => pulled = N
  /\ gen \in {"returning", "returned"} => window = {} /\ pulled = N

IInv == TypeOK /\ CallsOK /\ LeaksAreTimeouts /\ WindowOK

-----------------------------------------------------------------------------

LEMMA OwedIsFinite ==
  ASSUME TypeOK
  PROVE  IsFiniteSet(Owed) /\ Cardinality(Owed) \in Nat
<1>1. pulled \in Nat
  BY StreamAssumption DEF TypeOK, StreamAssumption
<1>2. IsFiniteSet(1..pulled)
  BY <1>1, FS_Interval
<1>3. Owed \subseteq 1..pulled
  BY DEF Owed
<1> QED BY <1>2, <1>3, FS_Subset, FS_CardinalityType

LEMMA InitEstablishes ==
  Init => IInv
<1> SUFFICES ASSUME Init PROVE IInv
  OBVIOUS
<1>1. TypeOK
  BY StreamAssumption DEF Init, TypeOK, Results, StreamAssumption, Traces
<1>2. CallsOK /\ LeaksAreTimeouts
  BY DEF Init, CallsOK, CallOK, LeaksAreTimeouts
<1>3. Owed = {}
  BY DEF Init, Owed
<1>4. Cardinality({}) = 0
  BY FS_EmptySet
<1>5. WindowOK
  BY <1>3, <1>4, StreamAssumption DEF Init, WindowOK, StreamAssumption
<1> QED BY <1>1, <1>2, <1>5 DEF IInv

-----------------------------------------------------------------------------
(* The steps of a kernel call                                              *)

KernelStep(t) ==
  StartKernel(t) \/ StartRunner(t) \/ EndRunner(t) \/ KernelReturns(t)
    \/ KernelTimesOut(t)

\* What an ended runner leaves in the future is a result of its own trace.
LEMMA ClassifyIsOwn ==
  ASSUME NEW t \in Traces, runner[t] \in AllEndings
  PROVE  Classify(t) \in Promise!Failures \cup {Promise!Success(t), Raised}
BY DEF Classify, CodeOf, AllEndings, Failed, Raised, Promise!Failures,
       Promise!Success

LEMMA OwnIsResult ==
  ASSUME NEW t \in Traces
  PROVE  /\ Promise!Failures \cup {Promise!Success(t), Raised} \subseteq Results
         /\ Promise!Pending \notin
              Promise!Failures \cup {Promise!Success(t), Raised}
         /\ Failed("runner_timeout") \in Promise!Failures
         /\ Raised \notin Promise!Failures \cup {Promise!Success(t)}
BY DEF Results, Failed, Raised, Promise!Failures, Promise!Success,
       Promise!Pending

\* A kernel step leaves the generator alone and keeps the future of every call.
LEMMA KernelStepPreserves ==
  ASSUME IInv, NEW t \in Traces, KernelStep(t)
  PROVE  IInv' /\ UNCHANGED genVars
<1> USE DEF IInv
<1>1. UNCHANGED genVars
  BY DEF KernelStep, StartKernel, StartRunner, EndRunner, KernelReturns,
         KernelTimesOut, genVars
<1>2. WindowOK'
  BY <1>1 DEF WindowOK, Owed, genVars
<1>3. CASE StartKernel(t)
  <2>1. TypeOK'
    BY <1>3 DEF StartKernel, TypeOK, genVars
  <2>2. CallsOK'
    BY <1>3 DEF StartKernel, TypeOK, CallsOK, CallOK, genVars
  <2>3. LeaksAreTimeouts'
    BY <1>3 DEF StartKernel, TypeOK, LeaksAreTimeouts
  <2> QED BY <1>1, <1>2, <2>1, <2>2, <2>3
<1>4. CASE StartRunner(t)
  <2>1. TypeOK'
    BY <1>4 DEF StartRunner, TypeOK, genVars
  <2>2. CallsOK'
    BY <1>4 DEF StartRunner, TypeOK, CallsOK, CallOK, genVars
  <2>3. LeaksAreTimeouts'
    BY <1>4 DEF StartRunner, TypeOK, LeaksAreTimeouts
  <2> QED BY <1>1, <1>2, <2>1, <2>2, <2>3
<1>5. CASE EndRunner(t)
  <2>1. Endings \subseteq AllEndings
    BY StreamAssumption DEF StreamAssumption
  <2>2. TypeOK'
    BY <1>5, <2>1 DEF EndRunner, TypeOK, genVars
  <2>3. CallsOK'
    BY <1>5 DEF EndRunner, TypeOK, CallsOK, CallOK, genVars
  <2>4. LeaksAreTimeouts'
    BY <1>5, <2>1 DEF EndRunner, TypeOK, LeaksAreTimeouts, AllEndings
  <2> QED BY <1>1, <1>2, <2>2, <2>3, <2>4
<1>6. CASE KernelReturns(t)
  <2> DEFINE r == Classify(t)
  <2>1. r \in Promise!Failures \cup {Promise!Success(t), Raised}
    BY <1>6, ClassifyIsOwn DEF KernelReturns
  <2>2. r \in Results /\ r # Promise!Pending
    BY <2>1, OwnIsResult
  <2>3. Resolve(t, r) /\ runner[t] \in AllEndings /\ UNCHANGED <<runner, genVars>>
    BY <1>6 DEF KernelReturns
  <2> HIDE DEF r
  <2>4. TypeOK'
    BY <2>2, <2>3 DEF Resolve, TypeOK, genVars
  <2>5. CallsOK'
    BY <2>1, <2>2, <2>3 DEF Resolve, TypeOK, CallsOK, CallOK, genVars
  <2>6. LeaksAreTimeouts'
    BY <2>3 DEF Resolve, TypeOK, LeaksAreTimeouts, AllEndings
  <2> QED BY <1>1, <1>2, <2>4, <2>5, <2>6
<1>7. CASE KernelTimesOut(t)
  <2> DEFINE r == Failed("runner_timeout")
  <2>1. r \in Promise!Failures \cup {Promise!Success(t), Raised}
    BY OwnIsResult
  <2>2. r \in Results /\ r # Promise!Pending
    BY <2>1, OwnIsResult
  <2>3. /\ Resolve(t, r) /\ runner[t] \in {"submitted", "running"}
        /\ runner' = [runner EXCEPT ![t] = IF @ = "submitted" THEN "cancelled" ELSE @]
        /\ UNCHANGED genVars
    BY <1>7 DEF KernelTimesOut
  <2>4. TypeOK'
    <3> HIDE DEF r
    <3> QED BY <2>2, <2>3 DEF Resolve, TypeOK, genVars
  <2>5. CallsOK'
    <3> HIDE DEF r
    <3> QED BY <2>1, <2>2, <2>3 DEF Resolve, TypeOK, CallsOK, CallOK, genVars
  <2>6. LeaksAreTimeouts'
    BY <2>3 DEF Resolve, TypeOK, LeaksAreTimeouts
  <2> QED BY <1>1, <1>2, <2>4, <2>5, <2>6
<1> QED BY <1>3, <1>4, <1>5, <1>6, <1>7 DEF KernelStep

-----------------------------------------------------------------------------
(* The steps of the generator                                              *)

\* A pull adds one bundle to what is owed, and to the window.
LEMMA PullAddsOne ==
  ASSUME IInv, PullAndSubmit, gen \in {"priming", "suspended"},
         Cardinality(Owed) < MaxWorkers
  PROVE  /\ pulled' \in 0..N /\ window' \subseteq 1..pulled' /\ window' # {}
         /\ window' = Owed' /\ Cardinality(Owed') <= MaxWorkers
         /\ kernel' \in [Traces -> {"none", "queued", "waiting", "done"}]
         /\ CallsOK' /\ LeaksAreTimeouts' /\ done' \subseteq window'
<1> USE DEF IInv
<1>1. /\ N \in Nat /\ pulled \in Nat /\ pulled < N /\ pulled' = pulled + 1
      /\ pulled + 1 \in Traces
  BY StreamAssumption DEF StreamAssumption, PullAndSubmit, TypeOK, Traces
<1>2. yielded' = yielded /\ yielded[pulled + 1] = Promise!Pending
  BY <1>1 DEF PullAndSubmit, CallsOK, CallOK
<1>3. Owed' = Owed \cup {pulled + 1}
  BY <1>1, <1>2 DEF Owed
<1>4. window = Owed
  BY DEF WindowOK
<1>5. window' = Owed' /\ window' # {}
  BY <1>3, <1>4 DEF PullAndSubmit
<1>6. pulled + 1 \notin Owed
  BY <1>1 DEF Owed
<1>7. Cardinality(Owed') = Cardinality(Owed) + 1
  BY <1>3, <1>6, OwedIsFinite, FS_AddElement
<1>8. Cardinality(Owed') <= MaxWorkers
  BY <1>7, OwedIsFinite, StreamAssumption DEF StreamAssumption
<1>9. window' \subseteq 1..pulled' /\ done' \subseteq window'
  BY <1>5 DEF Owed, PullAndSubmit, TypeOK
<1>10. CallsOK'
  <2> SUFFICES ASSUME NEW t \in Traces PROVE CallOK(t)'
    BY DEF CallsOK
  <2>1. CallOK(t) /\ t \in Nat
    BY StreamAssumption DEF CallsOK, Traces, StreamAssumption
  <2>2. CallOK(pulled + 1) /\ kernel[pulled + 1] = "none"
    BY <1>1 DEF CallsOK, CallOK
  <2>3. CASE t = pulled + 1
    BY <1>1, <2>2, <2>3 DEF CallOK, PullAndSubmit, TypeOK
  <2>4. CASE t # pulled + 1
    BY <1>1, <2>1, <2>4 DEF CallOK, PullAndSubmit, TypeOK
  <2> QED BY <2>3, <2>4
<1>11. LeaksAreTimeouts'
  BY <1>1 DEF LeaksAreTimeouts, PullAndSubmit, TypeOK
<1>12. kernel' \in [Traces -> {"none", "queued", "waiting", "done"}]
  BY <1>1 DEF PullAndSubmit, TypeOK
<1> QED BY <1>1, <1>5, <1>8, <1>9, <1>10, <1>11, <1>12

\* Handing a bundle over, or raising its exception, takes it out of the window.
LEMMA HandingOverRemovesOne ==
  ASSUME IInv, NEW t \in Traces, YieldResult(t)
  PROVE  /\ window' = Owed' /\ Cardinality(Owed') < MaxWorkers
         /\ yielded[t] = Promise!Pending
         /\ result[t] \in Promise!Failures \cup {Promise!Success(t)}
<1> USE DEF IInv
<1>1. t \in window /\ window = Owed /\ t \in done
  BY DEF YieldResult, TypeOK, WindowOK
<1>2. yielded[t] = Promise!Pending /\ t \in 1..pulled
  BY <1>1 DEF Owed
<1>3. kernel[t] = "done" /\ CallOK(t)
  BY <1>1 DEF CallsOK, CallOK, TypeOK
<1>4. result[t] \in Promise!Failures \cup {Promise!Success(t)}
  BY <1>3 DEF CallOK, YieldResult
<1>5. result[t] # Promise!Pending
  BY <1>3 DEF CallOK
<1>6. Owed' = Owed \ {t}
  BY <1>2, <1>5 DEF Owed, YieldResult, TypeOK
<1>7. Cardinality(Owed') = Cardinality(Owed) - 1
  BY <1>1, <1>6, OwedIsFinite, FS_RemoveElement
<1>8. Cardinality(Owed') < MaxWorkers
  BY <1>7, OwedIsFinite, StreamAssumption DEF WindowOK, StreamAssumption
<1> QED BY <1>1, <1>2, <1>4, <1>6, <1>8 DEF YieldResult

\* Steps that only move the generator.
Moves ==
  /\ UNCHANGED <<pulled, window, done, yielded, callVars>>
  /\ \/ /\ gen = "priming" /\ (Cardinality(window) = MaxWorkers \/ pulled = N)
        /\ WhileInFlight
     \/ gen = "draining" /\ done = {} /\ WhileInFlight
     \/ gen = "suspended" /\ pulled = N /\ gen' = "draining"
     \/ gen' = "raising"
     \/ gen = "suspended" /\ gen' = "closing"
     \/ gen \in DOMAIN Leaving /\ gen' = Leaving[gen]

LEMMA MovesPreserve ==
  ASSUME IInv, Moves
  PROVE  IInv'
<1> USE DEF IInv
<1>1. CallsOK' /\ LeaksAreTimeouts' /\ Owed' = Owed
  BY DEF Moves, CallsOK, CallOK, LeaksAreTimeouts, callVars, Owed
<1>2. TypeOK'
  BY DEF Moves, TypeOK, callVars, WhileInFlight, Leaving, Ended
<1>3. N \in Nat /\ MaxWorkers \in Nat \ {0} /\ pulled \in 0..N
  BY StreamAssumption DEF StreamAssumption, TypeOK
<1>4. gen = "priming" /\ window = {} /\ Cardinality(window) = MaxWorkers => FALSE
  BY <1>3, FS_EmptySet
<1>5. WindowOK'
  BY <1>1, <1>3, <1>4 DEF Moves, WindowOK, WhileInFlight, Leaving
<1> QED BY <1>1, <1>2, <1>5

LEMMA StepPreserves ==
  IInv /\ [Next]_vars => IInv'
<1> SUFFICES ASSUME IInv, [Next]_vars PROVE IInv'
  OBVIOUS
<1>1. ASSUME NEW t \in Traces, KernelStep(t)
      PROVE  IInv'
  BY <1>1, KernelStepPreserves
<1>2. CASE Prime
  <2>1. Cardinality(Owed) < MaxWorkers
    BY <1>2 DEF Prime, IInv, WindowOK
  <2>2. PullAndSubmit /\ gen = "priming" /\ gen' = gen
    BY <1>2 DEF Prime
  <2>3. TypeOK'
    BY <2>1, <2>2, PullAddsOne DEF IInv, TypeOK, PullAndSubmit
  <2>4. WindowOK'
    BY <2>1, <2>2, PullAddsOne DEF WindowOK
  <2> QED BY <2>1, <2>2, <2>3, <2>4, PullAddsOne DEF IInv
<1>3. CASE Refill
  <2>1. Cardinality(Owed) < MaxWorkers
    BY <1>3 DEF Refill, IInv, WindowOK
  <2>2. PullAndSubmit /\ gen = "suspended" /\ gen' = "draining"
    BY <1>3 DEF Refill
  <2>3. TypeOK'
    BY <2>1, <2>2, PullAddsOne DEF IInv, TypeOK, PullAndSubmit
  <2>4. WindowOK'
    BY <2>1, <2>2, PullAddsOne DEF WindowOK
  <2> QED BY <2>1, <2>2, <2>3, <2>4, PullAddsOne DEF IInv
<1>4. CASE WaitReturns
  <2>1. TypeOK'
    BY <1>4 DEF WaitReturns, IInv, TypeOK, callVars
  <2>2. CallsOK' /\ LeaksAreTimeouts' /\ Owed' = Owed
    BY <1>4 DEF WaitReturns, IInv, CallsOK, CallOK, LeaksAreTimeouts, callVars,
                Owed
  <2>3. WindowOK'
    BY <1>4, <2>2 DEF WaitReturns, IInv, WindowOK
  <2> QED BY <2>1, <2>2, <2>3 DEF IInv
<1>5. ASSUME NEW t \in Traces, YieldResult(t)
      PROVE  IInv'
  <2>1. CallsOK' /\ LeaksAreTimeouts'
    <3>1. kernel[t] = "done"
      BY <1>5 DEF YieldResult, IInv, CallsOK, CallOK, TypeOK
    <3>2. ~(t > pulled)
      BY <3>1 DEF IInv, CallsOK, CallOK
    <3> QED BY <1>5, <3>1, <3>2 DEF YieldResult, IInv, CallsOK, CallOK,
               LeaksAreTimeouts, callVars, TypeOK
  <2>2. TypeOK'
    BY <1>5 DEF YieldResult, IInv, TypeOK, callVars
  <2>3. window' = Owed' /\ Cardinality(Owed') < MaxWorkers
    BY <1>5, HandingOverRemovesOne
  <2>4. Cardinality(Owed') \in Nat /\ MaxWorkers \in Nat
    <3>1. (IsFiniteSet(Owed) /\ Cardinality(Owed) \in Nat)'
      BY <2>2, OwedIsFinite, PTL
    <3> QED BY <3>1, StreamAssumption DEF StreamAssumption
  <2>5. WindowOK'
    BY <1>5, <2>3, <2>4 DEF YieldResult, WindowOK
  <2> QED BY <2>1, <2>2, <2>5 DEF IInv
<1>6. ASSUME NEW t \in Traces, ResultRaises(t)
      PROVE  IInv'
  <2>1. TypeOK'
    BY <1>6 DEF ResultRaises, IInv, TypeOK, callVars, Leaving
  <2>2. CallsOK' /\ LeaksAreTimeouts' /\ Owed' = Owed
    BY <1>6 DEF ResultRaises, IInv, CallsOK, CallOK, LeaksAreTimeouts, callVars,
                Owed
  <2>3. WindowOK'
    BY <1>6, <2>2 DEF ResultRaises, IInv, WindowOK
  <2> QED BY <2>1, <2>2, <2>3 DEF IInv
<1>7. ASSUME PrimeEnds \/ SourceExhausted \/ LoopAgain \/ SourceRaises \/ Abandon
               \/ Shutdown
      PROVE  IInv'
  <2>1. Moves
    BY <1>7 DEF PrimeEnds, SourceExhausted, LoopAgain, SourceRaises, Abandon,
                Shutdown, Moves
  <2> QED BY <2>1, MovesPreserve
<1>8. CASE UNCHANGED vars
  BY <1>8 DEF vars, IInv, TypeOK, CallsOK, CallOK, LeaksAreTimeouts, WindowOK, Owed
<1>9. CASE Next
  BY <1>1, <1>2, <1>3, <1>4, <1>5, <1>6, <1>7, <1>8, <1>9
     DEF Next, Stepping, KernelStep, Idle
<1> QED BY <1>8, <1>9

-----------------------------------------------------------------------------
(* Theorems                                                                *)

\* IInv holds of every reachable state.
THEOREM StreamInvariant == Spec => []IInv
BY InitEstablishes, StepPreserves, PTL DEF Spec

\* The state of a stream is well typed; what `wait` returned is always a part of
\* the window.
THEOREM TypeCorrect == Spec => []TypeOK
<1>1. IInv => TypeOK
  BY DEF IInv
<1> QED BY <1>1, StreamInvariant, PTL

\* However slow the consumer, fast the source and many the abandoned threads, the
\* generator holds at most max_workers bundles.
THEOREM WindowIsLazy == Spec => []LazyWindow
<1>1. IInv => LazyWindow
  BY DEF IInv, WindowOK, LazyWindow, Owed
<1> QED BY <1>1, StreamInvariant, PTL

\* A generator that returns has handed over every bundle of the source.
THEOREM StreamIsComplete == Spec => []NothingDropped
<1>1. IInv => NothingDropped
  <2> SUFFICES ASSUME IInv, gen \in {"returning", "returned"}, NEW t \in Traces
               PROVE  yielded[t] # Promise!Pending
    BY DEF NothingDropped
  <2>1. Owed = {} /\ pulled = N
    BY DEF IInv, WindowOK
  <2> QED BY <2>1 DEF Owed, Traces
<1> QED BY <1>1, StreamInvariant, PTL

\* Only a timeout leaves a runner thread behind its kernel call.
THEOREM OnlyTimeoutsLeak == Spec => []LeaksAreTimeouts
<1>1. IInv => LeaksAreTimeouts
  BY DEF IInv
<1> QED BY <1>1, StreamInvariant, PTL

\* The stream implements the abstract promise: a trace's result is its own, and
\* is handed over once.
THEOREM StreamImplementsPromise == Spec => Settles
<1>1. Init => Promise!Init
  BY DEF Init, Promise!Init
<1>2. IInv /\ [Next]_vars => [Promise!Next]_yielded
  <2> SUFFICES ASSUME IInv, [Next]_vars, ~(UNCHANGED yielded)
               PROVE  Promise!Next
    OBVIOUS
  <2>1. PICK t \in Traces : YieldResult(t)
    BY DEF Next, Stepping, Prime, PrimeEnds, WaitReturns, LoopAgain, Shutdown,
           Refill, SourceExhausted, ResultRaises, SourceRaises, Abandon,
           StartKernel, StartRunner, EndRunner, KernelReturns, KernelTimesOut,
           Idle, PullAndSubmit, genVars, callVars, vars
  <2>2. Promise!Settle(t)
    BY <2>1, HandingOverRemovesOne DEF YieldResult, Promise!Settle
  <2> QED BY <2>2 DEF Promise!Next
<1> QED BY <1>1, <1>2, StreamInvariant, PTL DEF Spec, Settles, Promise!Spec

=============================================================================
