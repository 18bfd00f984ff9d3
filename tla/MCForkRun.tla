----------------------------- MODULE MCForkRun ------------------------------
(* One fork with the configs the checks tell apart and free choice of its   *)
(* paths, one with a plain config and the dated paths, and a tool.          *)
EXTENDS ForkRun

CONSTANTS f1, f2

Config(source, scorer, judge, shape, failures, profile, ack) ==
  [source |-> source[1], spans_provider |-> source[2], dd_from |-> source[2],
   scorer |-> scorer, judge |-> judge, shape |-> shape,
   failure_cohort |-> failures, profile |-> profile, acknowledged |-> ack]

Sources == {<<"stub", FALSE>>, <<"langfuse", FALSE>>, <<"other", FALSE>>}
             \cup {"phoenix", "datadog"} \X BOOLEAN

Plain == Config(<<"stub", FALSE>>, "stub", FALSE, "failure_rescue", TRUE,
                "default", FALSE)

\* The validators and the factories each look at one group of fields: the
\* groups vary one at a time.
Varied ==
  {[Plain EXCEPT !.source = s[1], !.spans_provider = s[2], !.dd_from = s[2]] :
     s \in Sources}
  \cup {[Plain EXCEPT !.scorer = "inspect_ai", !.judge = j] : j \in BOOLEAN}
  \cup {[Plain EXCEPT !.shape = s, !.failure_cohort = b] :
          s \in {"failure_rescue", "regression_check"}, b \in BOOLEAN}
  \cup {[Plain EXCEPT !.profile = "forensic", !.acknowledged = b] :
          b \in BOOLEAN}

MCConfigs == [f \in {f1, f2} |-> IF f = f1 THEN Varied ELSE {Plain}]

MCReports ==
  [f \in {f1, f2} |->
     IF f = f1 THEN {Report("dont_ship", FALSE, FALSE), Report("inconclusive", FALSE, FALSE),
                     Report("ship", FALSE, TRUE), Report("ship", TRUE, FALSE)}
     ELSE {Report("ship", FALSE, FALSE)}]

=============================================================================
