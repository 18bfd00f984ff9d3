----------------------------- MODULE MCDecision -----------------------------
(* Decision and Render, the traces of the failure cohort before those of   *)
(* the baseline: cohorts do not depend on how the source interleaves them. *)
EXTENDS Render

CONSTANT MaxTraces

MCSources ==
  {[t \in 1..MaxTraces |-> IF t <= k THEN "failure" ELSE "baseline"] :
     k \in 0..MaxTraces}

MCDeltas == {-600, 400, 504, 900}

=============================================================================
