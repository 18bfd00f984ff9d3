------------------------------- MODULE Render --------------------------------
(***************************************************************************)
(* What the three renderers (the CI status row, the summary, the Markdown  *)
(* report) say of a finished report: the reason of the verdict and the     *)
(* next steps.  They only read the report; the wording is left out.        *)
(***************************************************************************)
EXTENDS Decision

SEVERITY_RANK ==
  [blocks_all |-> 4, blocks_ship |-> 3, degrades_trust |-> 2, info |-> 1]

\* The severity of each finding code.
FINDING_CODE_REGISTRY ==
  [improvement_observed                |-> "info",
   cache_mode_inferred                 |-> "info",
   baseline_regression_above_threshold |-> "blocks_ship",
   failure_improvement_below_threshold |-> "blocks_ship",
   practical_delta_below_threshold     |-> "blocks_ship",
   cache_corruption_detected           |-> "blocks_all",
   cache_lock_unavailable              |-> "blocks_all",
   ci_unavailable_for_required_cohort  |-> "blocks_all",
   cohort_systemic_failure             |-> "blocks_all",
   required_cohort_absent              |-> "blocks_all"]

\* Mutant: a template was forgotten.
RegistryWithoutAbsent ==
  {code \in DOMAIN FINDING_CODE_REGISTRY :
     FINDING_CODE_REGISTRY[code] # "info" /\ code # "required_cohort_absent"}

\* The codes that have a template of next steps.
FIX_SUGGESTION_REGISTRY ==
  {"baseline_regression_above_threshold", "failure_improvement_below_threshold",
   "practical_delta_below_threshold", "cache_corruption_detected",
   "cache_lock_unavailable", "ci_unavailable_for_required_cohort",
   "cohort_systemic_failure", "required_cohort_absent"}

Line(kind, about) == [kind |-> kind, about |-> about]

\* Ties go to the first of the list: any of these.
HighestSeverityFinding(findings) ==
  {f \in findings :
     \A g \in findings : SEVERITY_RANK[f.severity] >= SEVERITY_RANK[g.severity]}

\* The cohorts of a report are in alphabetical order.
TopFloorFailure(failed) ==
  IF "baseline" \in failed THEN Line("floor", "baseline")
  ELSE Line("floor", "failure")

\* What the reason of the verdict may be.
Reason(r) ==
  IF r.state = "ship" THEN {Line("passed", "")}
  ELSE IF r.findings # {}
  THEN {Line("finding", f) : f \in HighestSeverityFinding(r.findings)}
  ELSE IF r.failed # {} THEN {TopFloorFailure(r.failed)}
  ELSE {Line("contract violation upstream", "")}

\* "Suggested next steps", below #fix.
NextSteps(r) ==
  LET blocking == {f \in r.findings : SEVERITY_RANK[f.severity] >= 3}
  IN  IF r.state = "ship" THEN {}
      ELSE IF blocking # {}
      THEN {IF f.code \in FIX_SUGGESTION_REGISTRY
            THEN Line("template", f.code) ELSE Line("no template", f.code) :
              f \in blocking}
      ELSE IF r.failed # {} THEN {TopFloorFailure(r.failed)}
      ELSE {Line("none available", "")}

-----------------------------------------------------------------------------
\* Cardinal 8, in what the operator reads: below a verdict that is not Ship
\* there is a reason and there are next steps; every step is a template or a
\* floor rule of a cohort the verdict rests on, never a placeholder, and the
\* findings have the severity they are registered with.
NextStepsExist ==
  report.state \in {"dont_ship", "inconclusive"} =>
    /\ \A f \in report.findings : f.severity = FINDING_CODE_REGISTRY[f.code]
    /\ NextSteps(report) # {}
    /\ \A line \in NextSteps(report) :
         \/ line.kind = "template"
         \/ line.kind = "floor" /\ line.about \in Required
    /\ \A line \in Reason(report) : line.kind \in {"finding", "floor"}

\* "if the floor failed, the verdict is Inconclusive and the reason cites the
\* floor rule" (render/ci_status.py).  Any finding that blocks is let pass: what
\* is asked is that the reason is no observation in favour of the change.
ReasonCitesFloor ==
  report # NoReport /\ ~FloorPassed =>
    \A line \in Reason(report) :
      line.kind = "finding" => line.about.severity \in {"blocks_ship", "blocks_all"}

=============================================================================
