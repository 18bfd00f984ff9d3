------------------------------ MODULE Decision ------------------------------
(***************************************************************************)
(* From per-trace deltas to the verdict of a run:                          *)
(*   - pipeline.py: run_pipeline walks the traces of the source, calls     *)
(*     `delta_fn` on each, sorts the deltas into cohorts and turns every   *)
(*     cohort into a CohortResult;                                         *)
(*   - decision/: the trust floor, the guard chain and compute_verdict;    *)
(*   - report/projection.py: what of the verdict reaches the report.       *)
(*                                                                         *)
(* Deltas, and the policy's epsilon, are integers in units of 1/10000, so  *)
(* that the rounding of the median to three decimals can be seen; ratios   *)
(* are percentages and are compared without division.                      *)
(***************************************************************************)
EXTENDS Integers, FiniteSets, Functions

CONSTANTS
  N,              \* traces of the source are 1..N, in source order
  Sources,        \* the cohort labellings of the traces considered
  Deltas,         \* the scores delta_fn can return
  Shapes,         \* the values of runtime.experiment_shape considered
  Epsilon,        \* policy.practical_delta_epsilon
  MaxRegression,  \* policy.max_baseline_regression_ratio, in percent
  MinImprovement, \* policy.min_failure_improvement_ratio, in percent
  MinCount,       \* TrustFloor.min_{selected,replayed,scored}_per_...
  MinValidity     \* TrustFloor.min_replay_validity_ratio_..., in percent

Traces == 1..N

\* Labels of the default classifiers; the source may use one, both or neither.
Cohorts == {"failure", "baseline"}

\* Medians stay clear of the ties of the three-decimal rounding, where the
\* binary representation of the float decides.
ASSUME DecisionAssumption ==
  /\ N \in Nat
  /\ Sources \subseteq [Traces -> Cohorts]
  /\ Deltas \subseteq Int
  /\ \A a, b \in Deltas : (a + b) % 20 # 10
  /\ Shapes \subseteq {"failure_rescue", "regression_check"}
  /\ Epsilon \in Nat
  /\ {MaxRegression, MinImprovement, MinValidity} \subseteq 0..100
  /\ MinCount \in Nat \ {0}

VARIABLES
  shape,    \* runtime.experiment_shape of this run
  cohort,   \* the cohort label of each trace, fixed by the source
  fate,     \* what became of each trace
  delta,    \* the delta of each scored trace, 0 elsewhere
  failures, \* traces that have a FailureRecord
  report    \* the verdict state, its findings and its floor failures

inputs == <<shape, cohort>>
vars == <<shape, cohort, fate, delta, failures, report>>

NoReport == [state |-> "none", findings |-> {}, failed |-> {}]

-----------------------------------------------------------------------------
(* Cohort results: _bucket_by_cohort and _cohort_result_from_bucket        *)

Selected(c) == {t \in Traces : cohort[t] = c}
Scored(c) == {t \in Selected(c) : fate[t] = "scored"}
Present(c) == Selected(c) # {}

Improved(d, c) == {t \in Scored(c) : d[t] > Epsilon}
\* Mutant: a change in either direction counts as a regression.
MovedEitherWay(d, c) ==
  {t \in Scored(c) : d[t] > Epsilon \/ d[t] < -Epsilon}

Regressed(d, c) == {t \in Scored(c) : d[t] < -Epsilon}

\* A cohort's CI and median exist from the floor's scored minimum on.
CiComputable(c) == Cardinality(Scored(c)) >= MinCount

\* The k-th smallest delta of the cohort.
Ranked(d, c, k) ==
  CHOOSE m \in {d[t] : t \in Scored(c)} :
    /\ Cardinality({t \in Scored(c) : d[t] < m}) < k
    /\ Cardinality({t \in Scored(c) : d[t] <= m}) >= k

\* Mutant: the mean of the cohort instead of its median.
TwiceMean(d, c) ==
  (2 * FoldFunctionOnSet(+, 0, d, Scored(c))) \div Cardinality(Scored(c))

\* statistics.median, doubled: the mean of the two middle deltas.
TwiceMedian(d, c) ==
  LET n == Cardinality(Scored(c))
  IN  Ranked(d, c, (n + 1) \div 2) + Ranked(d, c, (n \div 2) + 1)

\* to_decimal_string and back: the median as the guards see it, in 1/1000.
WireMedian(d, c) == (TwiceMedian(d, c) + 10) \div 20

-----------------------------------------------------------------------------
(* The trust floor: compute_cohort_floor_failures and evaluate_floor       *)

Rules == {"selected", "replayed", "scored", "validity"}

\* Mutant: the traces the adapter skipped leave the validity ratio too.
BreaksOfAttempts(c, rule) ==
  LET attempted == Cardinality({t \in Selected(c) : fate[t] # "skipped"})
      replayed == Cardinality(Scored(c))
  IN  \/ rule = "selected" /\ Cardinality(Selected(c)) < MinCount
      \/ rule \in {"replayed", "scored"} /\ replayed < MinCount
      \/ rule = "validity" /\ replayed * 100 < MinValidity * attempted

\* The CLI's pipeline reports every scored trace, and no other, as replayed.
Breaks(c, rule) ==
  LET selected == Cardinality(Selected(c))
      replayed == Cardinality(Scored(c))
  IN  \/ rule = "selected" /\ selected < MinCount
      \/ rule \in {"replayed", "scored"} /\ replayed < MinCount
      \/ rule = "validity" /\ replayed * 100 < MinValidity * selected

CohortFailures(c) == {rule \in Rules : Breaks(c, rule)}

\* policy.required_cohorts is the default; only the floor adapts to the shape.
PolicyRequired == {"failure", "baseline"}
Required == IF shape = "regression_check" THEN {"baseline"} ELSE PolicyRequired

FloorPassed == \A c \in Required : Present(c) /\ CohortFailures(c) = {}

-----------------------------------------------------------------------------
(* The guard chain                                                         *)

Finding(code, severity, c) == [code |-> code, severity |-> severity, cohort |-> c]

\* primary_endpoint_guard with the default endpoints; it abstains on a cohort
\* that is absent or has nothing scored.
ImprovementEndpoint(d) ==
  LET scored == Cardinality(Scored("failure"))
      improved == Cardinality(Improved(d, "failure"))
  IN  IF scored # 0 /\ improved * 100 < MinImprovement * scored
      THEN {Finding("failure_improvement_below_threshold", "blocks_ship", "failure")}
      ELSE {}

RegressionEndpoint(d) ==
  LET scored == Cardinality(Scored("baseline"))
      regressed == Cardinality(Regressed(d, "baseline"))
  IN  IF scored # 0 /\ regressed * 100 > MaxRegression * scored
      THEN {Finding("baseline_regression_above_threshold", "blocks_ship", "baseline")}
      ELSE {}

\* practical_delta_guard and improvement_observation_guard: below or above,
\* decided on the rounded median.
DeltaFindings(d) ==
  IF ~CiComputable("failure") THEN {}
  ELSE IF WireMedian(d, "failure") * 10 > Epsilon
       THEN {Finding("improvement_observed", "info", "failure")}
       ELSE {Finding("practical_delta_below_threshold", "blocks_ship", "failure")}

\* ci_availability_guard reads the policy's required cohorts, for every shape.
CiFindings ==
  {Finding("ci_unavailable_for_required_cohort", "blocks_all", c) :
     c \in {c \in PolicyRequired : Present(c) /\ ~CiComputable(c)}}

AbsentFindings ==
  {Finding("required_cohort_absent", "blocks_all", c) :
     c \in {c \in Required : ~Present(c)}}

Findings(d) ==
  ImprovementEndpoint(d) \cup RegressionEndpoint(d) \cup CiFindings
    \cup AbsentFindings
    \cup (IF shape = "regression_check" THEN {} ELSE DeltaFindings(d))

-----------------------------------------------------------------------------
(* compute_verdict and the projection to the report                        *)

VerdictState(passed, findings) ==
  LET severities == {f.severity : f \in findings}
  IN  IF ~passed \/ "blocks_all" \in severities THEN "inconclusive"
      ELSE IF "blocks_ship" \in severities THEN "dont_ship"
      ELSE "ship"

\* Floor failures reach the report under their cohort, required or not; those of
\* a cohort that is absent have no place in it.
Report(d) ==
  [state |-> VerdictState(FloorPassed, Findings(d)),
   findings |-> Findings(d),
   failed |-> {c \in Cohorts : Present(c) /\ CohortFailures(c) # {}}]

-----------------------------------------------------------------------------
(* The run                                                                 *)

TypeOK ==
  /\ shape \in Shapes
  /\ cohort \in Sources
  /\ fate \in [Traces -> {"pending", "skipped", "scored", "raised"}]
  /\ delta \in [Traces -> Deltas \cup {0}]
  /\ failures \subseteq Traces
  /\ report.state \in {"none", "ship", "dont_ship", "inconclusive"}
  /\ report.failed \subseteq Cohorts

Init ==
  /\ shape \in Shapes
  /\ cohort \in Sources
  /\ fate = [t \in Traces |-> "pending"]
  /\ delta = [t \in Traces |-> 0]
  /\ failures = {}
  /\ report = NoReport

\* The loop of _bucket_by_cohort has come to trace t.
IsNext(t) ==
  /\ fate[t] = "pending"
  /\ \A u \in Traces : u < t => fate[u] # "pending"

\* The adapter gave the trace a skip_reason: no delta, no FailureRecord.
Skip(t) ==
  /\ IsNext(t)
  /\ fate' = [fate EXCEPT ![t] = "skipped"]
  /\ UNCHANGED <<inputs, delta, failures, report>>

\* delta_fn returns the score of the replayed trace.
Score(t) ==
  /\ IsNext(t)
  /\ fate' = [fate EXCEPT ![t] = "scored"]
  /\ \E d \in Deltas : delta' = [delta EXCEPT ![t] = d]
  /\ UNCHANGED <<inputs, failures, report>>

\* delta_fn raises: a replay failure, a scorer without a score, an outage.
Raise(t) ==
  /\ IsNext(t)
  /\ fate' = [fate EXCEPT ![t] = "raised"]
  /\ failures' = failures \cup {t}
  /\ UNCHANGED <<inputs, delta, report>>

Decide ==
  /\ \A t \in Traces : fate[t] # "pending"
  /\ report = NoReport
  /\ report' = Report(delta)
  /\ UNCHANGED <<inputs, fate, delta, failures>>

\* The report is written and the process exits.
Done == report # NoReport /\ UNCHANGED vars

Next ==
  \/ \E t \in Traces : Skip(t) \/ Score(t) \/ Raise(t)
  \/ Decide
  \/ Done

Spec == Init /\ [][Next]_vars

-----------------------------------------------------------------------------
(* Properties                                                              *)

\* A Ship verdict was earned by traces, whatever was skipped or failed: enough
\* were scored in every required cohort; the baseline kept its share of
\* regressions; and the improved traces are the policy's share of the floor's
\* share of all the failures SELECTED, so losing traces does not conjure them.
ShipIsEarned ==
  report.state = "ship" =>
    /\ \A c \in Required : Cardinality(Scored(c)) >= MinCount
    /\ Cardinality(Regressed(delta, "baseline")) * 100
         <= MaxRegression * Cardinality(Scored("baseline"))
    /\ shape = "failure_rescue" =>
         Cardinality(Improved(delta, "failure")) * 10000
           >= MinImprovement * MinValidity * Cardinality(Selected("failure"))

\* A better delta never costs a Ship: raising any one trace's score leaves the
\* verdict where it was, through the counts, the median and its rounding.
ShipIsMonotone ==
  report.state = "ship" =>
    \A t \in Traces, d \in Deltas :
      fate[t] = "scored" /\ d >= delta[t] =>
        Report([delta EXCEPT ![t] = d]).state = "ship"

\* "improvement_observed", decided on the rounded median, is never said of a
\* failure cohort in which less than half of the scored traces improved, for an
\* epsilon of at most three decimals (the default is 0.05).
ObservedMeansHalfImproved ==
  (\E f \in report.findings : f.code = "improvement_observed") =>
    Cardinality(Improved(delta, "failure")) * 2
      >= Cardinality(Scored("failure"))

\* An Inconclusive report is actionable: it holds a blocking finding or the floor
\* failure of a cohort the floor required (the projection drops the others).
InconclusiveIsExplained ==
  report.state = "inconclusive" =>
    \/ \E f \in report.findings : f.severity \in {"blocks_ship", "blocks_all"}
    \/ report.failed \cap Required # {}

=============================================================================
