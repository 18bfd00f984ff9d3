--------------------------- MODULE DecisionProofs ---------------------------
(***************************************************************************)
(* Decision and Render, for every number of traces, labelling, set of      *)
(* scores, shape and threshold.                                            *)
(*                                                                         *)
(* Once a report exists no trace is pending, so nothing that the verdict   *)
(* was computed from changes afterwards, and the report stays the one of   *)
(* the deltas (ReportStands). Where the verdict is computed, "ship" leaves *)
(* no room for a floor failure or a blocking finding, each of which is a   *)
(* bound on the counts or on the median.                                   *)
(*                                                                         *)
(* The scores of a cohort are ranked by counts. A rank is known to exist   *)
(* because finite sets have a least element (OrderLemmas), and it follows  *)
(* every single score upwards (RankIsMonotone); so do the median, its      *)
(* rounding, and the verdict.                                              *)
(*                                                                         *)
(* The three ways not to be a Ship each leave a blocking finding or a      *)
(* floor failure of a required cohort in the report, and the renderers     *)
(* have a text for all of these.                                           *)
(***************************************************************************)
EXTENDS Render, OrderLemmas, FiniteSetTheorems, TLAPS

\* The report is the last thing that happens.
ReportIsLast == report # NoReport => \A t \in Traces : fate[t] # "pending"

IInv == TypeOK /\ ReportIsLast

\* What ShipIsEarned says of a run that ships.
Earned ==
  /\ \A c \in Required : Cardinality(Scored(c)) >= MinCount
  /\ Cardinality(Regressed(delta, "baseline")) * 100
       <= MaxRegression * Cardinality(Scored("baseline"))
  /\ shape = "failure_rescue" =>
       Cardinality(Improved(delta, "failure")) * 10000
         >= MinImprovement * MinValidity * Cardinality(Selected("failure"))

-----------------------------------------------------------------------------
(* Arithmetic and cardinalities                                            *)

\* A share a of a share b, both in percent, is their product.
LEMMA SharesMultiply ==
  ASSUME NEW i \in Nat, NEW s \in Nat, NEW n \in Nat, NEW a \in Nat, NEW b \in Nat,
         i * 100 >= a * s, s * 100 >= b * n
  PROVE  i * 10000 >= a * b * n
<1> DEFINE p == a * s
           q == b * n
<1>1. p \in Nat /\ q \in Nat
  BY Z3
<1>2. i * 10000 >= p * 100
  <2> HIDE DEF q
  <2>1. i * 100 >= p
    BY DEF p
  <2> HIDE DEF p
  <2> QED BY <1>1, <2>1
<1>3. a * (s * 100) >= a * q
  <2> DEFINE r == s * 100
  <2>1. r \in Nat /\ r >= q
    BY DEF q
  <2> HIDE DEF q, r
  <2>2. a * r >= a * q
    BY <1>1, <2>1, Z3
  <2> QED BY <2>2 DEF r
<1>4. p * 100 = a * (s * 100)
  BY Z3 DEF p
<1>5. a * q = a * b * n
  BY Z3 DEF q
<1> HIDE DEF p, q
<1>6. p * 100 >= a * q
  BY <1>3, <1>4
<1>7. a * q \in Nat
  BY <1>1, Z3
<1>8. i * 10000 >= a * q
  BY <1>1, <1>2, <1>6, <1>7, SMT
<1> QED BY <1>5, <1>8

\* Every set the counts are taken of is finite.
LEMMA CountsAreNatural ==
  ASSUME TypeOK, NEW c
  PROVE  /\ Cardinality(Selected(c)) \in Nat
         /\ Cardinality(Scored(c)) \in Nat
         /\ Cardinality(Improved(delta, c)) \in Nat
         /\ Cardinality(Regressed(delta, c)) \in Nat
<1>1. IsFiniteSet(Traces)
  BY FS_Interval, DecisionAssumption DEF Traces, DecisionAssumption
<1>2. /\ Selected(c) \subseteq Traces
      /\ Scored(c) \subseteq Traces
      /\ Improved(delta, c) \subseteq Traces
      /\ Regressed(delta, c) \subseteq Traces
  BY DEF Selected, Scored, Improved, Regressed
<1> QED BY <1>1, <1>2, FS_Subset, FS_CardinalityType

-----------------------------------------------------------------------------
(* The verdict                                                             *)

\* "ship" means that the floor passed and that no finding blocks.
LEMMA ShipHasNoBlocker ==
  ASSUME NEW passed \in BOOLEAN, NEW findings,
         VerdictState(passed, findings) = "ship"
  PROVE  /\ passed
         /\ \A f \in findings : f.severity \notin {"blocks_ship", "blocks_all"}
<1> DEFINE severities == {f.severity : f \in findings}
<1>1. passed /\ "blocks_all" \notin severities /\ "blocks_ship" \notin severities
  BY DEF VerdictState
<1> QED BY <1>1

\* The floor alone: every required cohort has its scored and its valid traces.
LEMMA FloorCounts ==
  ASSUME TypeOK, FloorPassed, NEW c \in Required
  PROVE  /\ Cardinality(Scored(c)) >= MinCount
         /\ Cardinality(Scored(c)) * 100
              >= MinValidity * Cardinality(Selected(c))
<1>1. \A rule \in Rules : ~Breaks(c, rule)
  BY DEF FloorPassed, CohortFailures
<1>2. ~Breaks(c, "scored") /\ ~Breaks(c, "validity")
  BY <1>1 DEF Rules
<1>3. ~(Cardinality(Scored(c)) < MinCount)
  BY <1>2 DEF Breaks
<1>4. ~(Cardinality(Scored(c)) * 100 < MinValidity * Cardinality(Selected(c)))
  BY <1>2 DEF Breaks
<1> DEFINE sc == Cardinality(Scored(c))
           v == MinValidity * Cardinality(Selected(c))
<1>5. sc \in Nat /\ MinCount \in Nat
  BY CountsAreNatural, DecisionAssumption DEF DecisionAssumption
<1>6. MinValidity \in Nat
  BY DecisionAssumption DEF DecisionAssumption
<1>7. v \in Nat
  <2> DEFINE n == Cardinality(Selected(c))
  <2>1. n \in Nat
    BY CountsAreNatural
  <2> HIDE DEF n
  <2> QED BY <1>6, <2>1, Z3 DEF n
<1>8. ~(sc < MinCount) /\ ~(sc * 100 < v)
  BY <1>3, <1>4
<1> HIDE DEF sc, v
<1>9. sc >= MinCount /\ sc * 100 >= v
  BY <1>5, <1>7, <1>8
<1> QED BY <1>9 DEF sc, v

\* Where the verdict is computed, Ship is earned.
LEMMA VerdictIsEarned ==
  ASSUME TypeOK, VerdictState(FloorPassed, Findings(delta)) = "ship"
  PROVE  Earned
<1>1. FloorPassed \in BOOLEAN
  BY DEF FloorPassed
<1>2. /\ FloorPassed
      /\ \A f \in Findings(delta) : f.severity \notin {"blocks_ship", "blocks_all"}
  BY <1>1, ShipHasNoBlocker
<1>3. \A c \in Required : Cardinality(Scored(c)) >= MinCount
  BY <1>2, FloorCounts
<1>4. "baseline" \in Required
  BY DEF Required, PolicyRequired
<1>5. MinCount \in Nat \ {0} /\ MaxRegression \in Nat /\ MinImprovement \in Nat
        /\ MinValidity \in Nat
  BY DecisionAssumption DEF DecisionAssumption
<1>6. ASSUME NEW c \in Required
      PROVE  Cardinality(Scored(c)) # 0
  BY <1>3, <1>5, <1>6, CountsAreNatural
<1>7. Cardinality(Regressed(delta, "baseline")) * 100
        <= MaxRegression * Cardinality(Scored("baseline"))
  <2> DEFINE r == Cardinality(Regressed(delta, "baseline"))
             s == Cardinality(Scored("baseline"))
             m == MaxRegression * s
  <2>1. r \in Nat /\ s \in Nat /\ s # 0
    BY <1>4, <1>6, CountsAreNatural
  <2>2. m \in Nat
    BY <1>5, <2>1, Z3
  <2>3. ~(r * 100 > m)
    <3>1. RegressionEndpoint(delta) \subseteq Findings(delta)
      BY DEF Findings
    <3>2. SUFFICES ASSUME r * 100 > m PROVE FALSE
      OBVIOUS
    <3>3. Finding("baseline_regression_above_threshold", "blocks_ship", "baseline")
            \in RegressionEndpoint(delta)
      BY <2>1, <3>2 DEF RegressionEndpoint
    <3> QED BY <1>2, <3>1, <3>3 DEF Finding
  <2> HIDE DEF r, m
  <2>4. r * 100 <= m
    BY <2>1, <2>2, <2>3
  <2> QED BY <2>4 DEF r, m
<1>8. ASSUME shape = "failure_rescue"
      PROVE  Cardinality(Improved(delta, "failure")) * 10000
               >= MinImprovement * MinValidity * Cardinality(Selected("failure"))
  <2> DEFINE i == Cardinality(Improved(delta, "failure"))
             s == Cardinality(Scored("failure"))
             n == Cardinality(Selected("failure"))
             m == MinImprovement * s
  <2>1. "failure" \in Required
    BY <1>8 DEF Required, PolicyRequired
  <2>2. i \in Nat /\ s \in Nat /\ n \in Nat /\ s # 0
    BY <2>1, <1>6, CountsAreNatural
  <2>3. m \in Nat
    BY <1>5, <2>2, Z3
  <2>4. ~(i * 100 < m)
    <3>1. ImprovementEndpoint(delta) \subseteq Findings(delta)
      BY DEF Findings
    <3>2. SUFFICES ASSUME i * 100 < m PROVE FALSE
      OBVIOUS
    <3>3. Finding("failure_improvement_below_threshold", "blocks_ship", "failure")
            \in ImprovementEndpoint(delta)
      BY <2>2, <3>2 DEF ImprovementEndpoint
    <3> QED BY <1>2, <3>1, <3>3 DEF Finding
  <2>5. s * 100 >= MinValidity * n
    BY <1>2, <2>1, FloorCounts
  <2> HIDE DEF i, s, n
  <2>6. i * 100 >= MinImprovement * s
    <3> HIDE DEF m
    <3>1. i * 100 >= m
      BY <2>2, <2>3, <2>4
    <3> QED BY <3>1 DEF m
  <2>7. i * 10000 >= MinImprovement * MinValidity * n
    BY <1>5, <2>2, <2>5, <2>6, SharesMultiply
  <2> QED BY <2>7 DEF i, n
<1> QED BY <1>3, <1>7, <1>8 DEF Earned

-----------------------------------------------------------------------------
(* The invariant                                                           *)

LEMMA InitEstablishes ==
  Init => IInv /\ ShipIsEarned
BY DEF Init, IInv, TypeOK, ReportIsLast, ShipIsEarned, NoReport

\* A report has one of the three states and names cohorts of the source.
LEMMA ReportType ==
  /\ Report(delta).state \in {"ship", "dont_ship", "inconclusive"}
  /\ Report(delta).failed \subseteq Cohorts
BY DEF Report, VerdictState

\* While a trace is pending there is no report, and a step on it makes none.
LEMMA StepPreserves ==
  IInv /\ ShipIsEarned /\ [Next]_vars => IInv' /\ ShipIsEarned'
<1> SUFFICES ASSUME IInv, ShipIsEarned, [Next]_vars
             PROVE  IInv' /\ ShipIsEarned'
  OBVIOUS
<1>1. ASSUME NEW t \in Traces, IsNext(t)
      PROVE  report = NoReport
  BY <1>1 DEF IInv, ReportIsLast, IsNext
<1>2. ASSUME report' = NoReport
      PROVE  ReportIsLast' /\ ShipIsEarned'
  BY <1>2 DEF ReportIsLast, ShipIsEarned, NoReport
<1>3. ASSUME NEW t \in Traces, Skip(t)
      PROVE  IInv' /\ ShipIsEarned'
  <2>1. report' = NoReport
    BY <1>1, <1>3 DEF Skip
  <2>2. TypeOK'
    BY <1>3 DEF Skip, inputs, IInv, TypeOK
  <2> QED BY <1>2, <2>1, <2>2 DEF IInv
<1>4. ASSUME NEW t \in Traces, Score(t)
      PROVE  IInv' /\ ShipIsEarned'
  <2>1. report' = NoReport
    BY <1>1, <1>4 DEF Score
  <2>2. TypeOK'
    BY <1>4 DEF Score, inputs, IInv, TypeOK
  <2> QED BY <1>2, <2>1, <2>2 DEF IInv
<1>5. ASSUME NEW t \in Traces, Raise(t)
      PROVE  IInv' /\ ShipIsEarned'
  <2>1. report' = NoReport
    BY <1>1, <1>5 DEF Raise
  <2>2. TypeOK'
    BY <1>5 DEF Raise, inputs, IInv, TypeOK
  <2> QED BY <1>2, <2>1, <2>2 DEF IInv
<1>6. CASE Decide
  <2>1. TypeOK'
    <3>1. UNCHANGED <<shape, cohort, fate, delta, failures>>
      BY <1>6 DEF Decide, inputs
    <3>2. report' = Report(delta)
      BY <1>6 DEF Decide
    <3> QED BY <3>1, <3>2, ReportType DEF IInv, TypeOK
  <2>2. ReportIsLast'
    BY <1>6 DEF Decide, ReportIsLast
  <2>3. ASSUME report'.state = "ship"
        PROVE  Earned
    <3>1. report'.state = VerdictState(FloorPassed, Findings(delta))
      BY <1>6 DEF Decide, Report
    <3> QED BY <2>3, <3>1, VerdictIsEarned DEF IInv
  <2>4. Earned => Earned'
    BY <1>6 DEF Decide, inputs, Earned, Scored, Selected, Improved, Regressed, Traces,
                Required, PolicyRequired
  <2>5. ShipIsEarned'
    BY <2>3, <2>4 DEF ShipIsEarned, Earned
  <2> QED BY <2>1, <2>2, <2>5 DEF IInv
<1>7. CASE UNCHANGED vars
  <2>1. TypeOK'
    BY <1>7 DEF vars, IInv, TypeOK
  <2>2. ReportIsLast'
    BY <1>7 DEF vars, IInv, ReportIsLast
  <2>3. ShipIsEarned'
    BY <1>7 DEF vars, ShipIsEarned, Scored, Selected, Improved, Regressed,
                Traces, Required, PolicyRequired
  <2> QED BY <2>1, <2>2, <2>3 DEF IInv
<1>8. CASE Next
  BY <1>3, <1>4, <1>5, <1>6, <1>7, <1>8 DEF Next, Done
<1> QED BY <1>7, <1>8

-----------------------------------------------------------------------------
(* Theorems                                                                *)

\* Every state of a run is well typed: a trace is in one state, its record names
\* it, and the report is one of the three verdicts.
THEOREM TypeCorrect == Spec => []TypeOK
<1>1. IInv /\ ShipIsEarned => TypeOK
  BY DEF IInv
<1> QED BY <1>1, InitEstablishes, StepPreserves, PTL DEF Spec

\* Whatever traces are skipped or raise, and for every policy, a Ship verdict is
\* backed by enough scored traces, few enough regressions and, in the shape that
\* asks for it, improvements that are a share of all the failures selected.
THEOREM ShipsAreEarned == Spec => []ShipIsEarned
BY InitEstablishes, StepPreserves, PTL DEF Spec

-----------------------------------------------------------------------------
(* The median                                                              *)

\* A value that has fewer than k of the cohort's deltas below it and at least k
\* at or below it.
IsRanked(d, c, k, m) ==
  /\ m \in {d[t] : t \in Scored(c)}
  /\ Cardinality({t \in Scored(c) : d[t] < m}) < k
  /\ Cardinality({t \in Scored(c) : d[t] <= m}) >= k

LEMMA RankedIsRanked ==
  ASSUME NEW c, IsFiniteSet(Scored(c)), NEW d, \A t \in Scored(c) : d[t] \in Int,
         NEW k \in Nat, 1 <= k, k <= Cardinality(Scored(c))
  PROVE  IsRanked(d, c, k, Ranked(d, c, k)) /\ Ranked(d, c, k) \in Int
<1> DEFINE S == Scored(c)
           D == {d[t] : t \in S}
           Low(m) == {t \in S : d[t] <= m}
           Under(m) == {t \in S : d[t] < m}
           Enough == {m \in D : Cardinality(Low(m)) >= k}
<1>1. IsFiniteSet(D) /\ D \in SUBSET Int
  <2> DEFINE f == [t \in S |-> d[t]]
  <2>1. f \in Surjection(S, D)
    BY DEF Surjection
  <2>2. IsFiniteSet(D)
    BY <2>1, FS_Surjection
  <2> QED BY <2>2
<1>2. ASSUME NEW m
      PROVE  /\ Low(m) \subseteq S /\ Under(m) \subseteq S
             /\ Cardinality(Low(m)) \in Nat /\ Cardinality(Under(m)) \in Nat
             /\ IsFiniteSet(Low(m)) /\ IsFiniteSet(Under(m))
  <2>1. Low(m) \subseteq S /\ Under(m) \subseteq S
    OBVIOUS
  <2> HIDE DEF S, Low, Under
  <2>2. IsFiniteSet(Low(m)) /\ IsFiniteSet(Under(m))
    BY <2>1, FS_Subset DEF S
  <2> QED BY <2>1, <2>2, FS_CardinalityType
<1>3. S # {} /\ D # {}
  <2>1. S # {}
    BY FS_EmptySet
  <2> QED BY <2>1
<1>4. Enough # {}
  <2>1. PICK g \in D : \A x \in D : x <= g
    <3> HIDE DEF D
    <3> QED BY <1>1, <1>3, FiniteSetHasGreatest
  <2>2. Low(g) = S
    BY <2>1
  <2>3. Cardinality(Low(g)) >= k
    <3> HIDE DEF Low, S
    <3> QED BY <2>2 DEF S
  <2> QED BY <2>1, <2>3
<1>5. Enough \in SUBSET Int /\ IsFiniteSet(Enough)
  BY <1>1, FS_Subset
<1>6. PICK m \in Enough : \A x \in Enough : m <= x
  <2> HIDE DEF Enough
  <2> QED BY <1>4, <1>5, FiniteSetHasLeast
<1>7. m \in Int /\ m \in D /\ Cardinality(Low(m)) >= k
  BY <1>1, <1>6
<1>8. Cardinality(Under(m)) < k
  <2> DEFINE E == {x \in D : x < m}
  <2>1. CASE E = {}
    <3>1. Under(m) = {}
      BY <2>1
    <3> QED BY <3>1, FS_EmptySet
  <2>2. CASE E # {}
    <3>1. E \in SUBSET Int /\ IsFiniteSet(E)
      BY <1>1, FS_Subset
    <3>2. PICK e \in E : \A x \in E : x <= e
      <4> HIDE DEF E
      <4> QED BY <2>2, <3>1, FiniteSetHasGreatest
    <3>3. e \in D /\ e < m /\ e \in Int
      BY <1>1, <3>2
    <3>4. Under(m) = Low(e)
      <4>1. ASSUME NEW t \in S, d[t] < m PROVE d[t] <= e
        BY <3>2, <4>1
      <4>2. ASSUME NEW t \in S, d[t] <= e PROVE d[t] < m
        BY <1>7, <3>3, <4>2
      <4> QED BY <4>1, <4>2
    <3>5. e \notin Enough
      BY <1>6, <1>7, <3>3
    <3>6. ~(Cardinality(Low(e)) >= k)
      BY <3>3, <3>5
    <3> HIDE DEF Low, Under, Enough
    <3> QED BY <1>2, <3>4, <3>6
  <2> QED BY <2>1, <2>2
<1>9. IsRanked(d, c, k, m)
  BY <1>7, <1>8 DEF IsRanked
<1>10. IsRanked(d, c, k, Ranked(d, c, k))
  BY <1>9 DEF Ranked, IsRanked
<1>11. Ranked(d, c, k) \in Int
  BY <1>1, <1>10 DEF IsRanked
<1> QED BY <1>10, <1>11

\* A rank does not fall where no delta falls, and is not above a bound that k of
\* the deltas keep.
LEMMA RankIsMonotone ==
  ASSUME NEW c, IsFiniteSet(Scored(c)), NEW k \in Nat, NEW d, NEW e,
         \A t \in Scored(c) : d[t] \in Int /\ e[t] \in Int /\ d[t] <= e[t],
         NEW m \in Int, NEW n \in Int, IsRanked(d, c, k, m), IsRanked(e, c, k, n)
  PROVE  m <= n
<1> SUFFICES ASSUME n < m PROVE FALSE
  OBVIOUS
<1> DEFINE A == {t \in Scored(c) : e[t] <= n}
           B == {t \in Scored(c) : d[t] < m}
<1>1. A \subseteq B
  <2>1. ASSUME NEW t \in Scored(c), e[t] <= n PROVE d[t] < m
    BY <2>1
  <2> QED BY <2>1
<1>2. Cardinality(A) >= k /\ Cardinality(B) < k
  BY DEF IsRanked
<1>3. B \subseteq Scored(c)
  OBVIOUS
<1> HIDE DEF A, B
<1>4. IsFiniteSet(A) /\ IsFiniteSet(B) /\ Cardinality(A) <= Cardinality(B)
  BY <1>1, <1>3, FS_Subset
<1> QED BY <1>2, <1>4, FS_CardinalityType

LEMMA RankIsBounded ==
  ASSUME NEW c, IsFiniteSet(Scored(c)), NEW k \in Nat, NEW d,
         \A t \in Scored(c) : d[t] \in Int, NEW b \in Int, NEW m \in Int,
         IsRanked(d, c, k, m), Cardinality({t \in Scored(c) : d[t] <= b}) >= k
  PROVE  m <= b
<1> SUFFICES ASSUME b < m PROVE FALSE
  OBVIOUS
<1> DEFINE A == {t \in Scored(c) : d[t] <= b}
           B == {t \in Scored(c) : d[t] < m}
<1>1. A \subseteq B
  <2>1. ASSUME NEW t \in Scored(c), d[t] <= b PROVE d[t] < m
    BY <2>1
  <2> QED BY <2>1
<1>2. Cardinality(A) >= k /\ Cardinality(B) < k
  BY DEF IsRanked
<1>3. B \subseteq Scored(c)
  OBVIOUS
<1> HIDE DEF A, B
<1>4. IsFiniteSet(A) /\ IsFiniteSet(B) /\ Cardinality(A) <= Cardinality(B)
  BY <1>1, <1>3, FS_Subset
<1> QED BY <1>2, <1>4, FS_CardinalityType

\* The two middle ranks, and what to_decimal_string makes of their mean.
LEMMA MiddleRanks ==
  ASSUME NEW n \in Nat, 1 <= n
  PROVE  /\ (n + 1) \div 2 \in Nat /\ 1 <= (n + 1) \div 2 /\ (n + 1) \div 2 <= n
         /\ (n \div 2) + 1 \in Nat /\ 1 <= (n \div 2) + 1 /\ (n \div 2) + 1 <= n
         /\ (n + 1) \div 2 <= (n \div 2) + 1 /\ n < ((n \div 2) + 1) * 2
OBVIOUS

LEMMA RoundingIsMonotone ==
  ASSUME NEW a \in Int, NEW b \in Int, a <= b
  PROVE  /\ (a + 10) \div 20 \in Int /\ (b + 10) \div 20 \in Int
         /\ (a + 10) \div 20 <= (b + 10) \div 20
OBVIOUS

LEMMA RoundingKeepsThreeDecimals ==
  ASSUME NEW a \in Int, NEW b \in Nat, b % 10 = 0, a <= 2 * b
  PROVE  ((a + 10) \div 20) * 10 <= b
OBVIOUS

\* The epsilon of the policy has no more decimals than the median on the wire.
ThreeDecimals == Epsilon % 10 = 0

LEMMA Middle ==
  ASSUME NEW c, IsFiniteSet(Scored(c)), CiComputable(c),
         NEW d, \A t \in Scored(c) : d[t] \in Int
  PROVE  \E m, n \in Int :
           /\ TwiceMedian(d, c) = m + n
           /\ IsRanked(d, c, (Cardinality(Scored(c)) + 1) \div 2, m)
           /\ IsRanked(d, c, (Cardinality(Scored(c)) \div 2) + 1, n)
<1> DEFINE s == Cardinality(Scored(c))
<1>1. s \in Nat /\ 1 <= s
  <2>1. s \in Nat /\ s >= MinCount /\ MinCount \in Nat \ {0}
    BY FS_CardinalityType, DecisionAssumption DEF CiComputable, DecisionAssumption
  <2> QED BY <2>1
<1>2. /\ (s + 1) \div 2 \in Nat /\ 1 <= (s + 1) \div 2 /\ (s + 1) \div 2 <= s
      /\ (s \div 2) + 1 \in Nat /\ 1 <= (s \div 2) + 1 /\ (s \div 2) + 1 <= s
  BY <1>1, MiddleRanks
<1>3. /\ IsRanked(d, c, (s + 1) \div 2, Ranked(d, c, (s + 1) \div 2))
      /\ Ranked(d, c, (s + 1) \div 2) \in Int
  BY <1>2, RankedIsRanked
<1>4. /\ IsRanked(d, c, (s \div 2) + 1, Ranked(d, c, (s \div 2) + 1))
      /\ Ranked(d, c, (s \div 2) + 1) \in Int
  BY <1>2, RankedIsRanked
<1>5. TwiceMedian(d, c) = Ranked(d, c, (s + 1) \div 2) + Ranked(d, c, (s \div 2) + 1)
  BY DEF TwiceMedian
<1> QED BY <1>3, <1>4, <1>5

LEMMA ScoresAreNumbers ==
  ASSUME TypeOK, NEW c
  PROVE  /\ IsFiniteSet(Scored(c)) /\ Scored(c) \subseteq Traces
         /\ \A t \in Traces : delta[t] \in Int
<1>1. IsFiniteSet(Traces)
  BY FS_Interval, DecisionAssumption DEF Traces, DecisionAssumption
<1>2. Scored(c) \subseteq Traces
  BY DEF Scored, Selected
<1>3. \A t \in Traces : delta[t] \in Int
  <2>1. Deltas \subseteq Int
    BY DecisionAssumption DEF DecisionAssumption
  <2>2. \A t \in Traces : delta[t] \in Deltas \cup {0}
    BY DEF TypeOK
  <2>3. Deltas \cup {0} \subseteq Int
    BY <2>1
  <2> QED BY <2>2, <2>3, Zenon
<1> QED BY <1>1, <1>2, <1>3, FS_Subset

\* The observation, where it is made.
LEMMA ObservedHere ==
  ASSUME TypeOK, ThreeDecimals, NEW f \in Findings(delta),
         f.code = "improvement_observed"
  PROVE  Cardinality(Improved(delta, "failure")) * 2 >= Cardinality(Scored("failure"))
<1>1. CiComputable("failure") /\ WireMedian(delta, "failure") * 10 > Epsilon
  <2>1. f \in DeltaFindings(delta)
    BY DEF Findings, ImprovementEndpoint, RegressionEndpoint, CiFindings, AbsentFindings,
           Finding
  <2> QED BY <2>1 DEF DeltaFindings, Finding
<1> DEFINE S == Scored("failure")
           I == Improved(delta, "failure")
           U == {t \in S : delta[t] <= Epsilon}
           s == Cardinality(S)
           i == Cardinality(I)
<1>2. Epsilon \in Nat
  BY DecisionAssumption DEF DecisionAssumption
<1>3. IsFiniteSet(S) /\ \A t \in S : delta[t] \in Int
  BY ScoresAreNumbers
<1>4. s \in Nat /\ i \in Nat
  BY CountsAreNatural
<1>5. Cardinality(U) = s - i
  <2>1. I \subseteq S
    BY DEF Improved
  <2>2. U = S \ I
    <3>1. ASSUME NEW t \in S PROVE (delta[t] <= Epsilon) <=> ~(delta[t] > Epsilon)
      BY <1>2, <1>3
    <3> QED BY <3>1 DEF Improved
  <2>3. S \cap I = I
    BY <2>1
  <2> HIDE DEF S, I, U
  <2> QED BY <1>3, <2>2, <2>3, FS_Difference DEF s, i
<1> SUFFICES ASSUME i * 2 < s PROVE FALSE
  BY <1>4
<1>6. Cardinality(U) >= (s \div 2) + 1 /\ Cardinality(U) >= (s + 1) \div 2
  <2> HIDE DEF U, s, i
  <2> QED BY <1>4, <1>5
<1>7. PICK m \in Int, n \in Int :
        /\ TwiceMedian(delta, "failure") = m + n
        /\ IsRanked(delta, "failure", (s + 1) \div 2, m)
        /\ IsRanked(delta, "failure", (s \div 2) + 1, n)
  BY <1>1, <1>3, Middle
<1>8. m <= Epsilon /\ n <= Epsilon
  <2>1. (s + 1) \div 2 \in Nat /\ (s \div 2) + 1 \in Nat
    <3> HIDE DEF s
    <3> QED BY <1>4
  <2>2. m <= Epsilon
    BY <1>2, <1>3, <1>6, <1>7, <2>1, RankIsBounded
  <2>3. n <= Epsilon
    BY <1>2, <1>3, <1>6, <1>7, <2>1, RankIsBounded
  <2> QED BY <2>2, <2>3
<1>9. m + n \in Int /\ m + n <= 2 * Epsilon
  BY <1>2, <1>8
<1>10. WireMedian(delta, "failure") * 10 <= Epsilon
  <2>1. ((m + n + 10) \div 20) * 10 <= Epsilon
    BY <1>2, <1>9, RoundingKeepsThreeDecimals DEF ThreeDecimals
  <2> QED BY <1>7, <2>1 DEF WireMedian
<1>11. WireMedian(delta, "failure") \in Int
  BY <1>7, <1>9, RoundingIsMonotone DEF WireMedian
<1> QED BY <1>1, <1>2, <1>10, <1>11

\* The converse of ShipHasNoBlocker.
LEMMA NoBlockerShips ==
  ASSUME NEW findings,
         \A f \in findings : f.severity \notin {"blocks_ship", "blocks_all"}
  PROVE  VerdictState(TRUE, findings) = "ship"
BY DEF VerdictState

\* Where the verdict is computed, a better delta does not cost the Ship.
LEMMA BetterStillShips ==
  ASSUME TypeOK, VerdictState(FloorPassed, Findings(delta)) = "ship",
         NEW t \in Traces, NEW x \in Deltas, fate[t] = "scored", x >= delta[t],
         NEW e, e = [delta EXCEPT ![t] = x]
  PROVE  VerdictState(FloorPassed, Findings(e)) = "ship"
<1>1. FloorPassed \in BOOLEAN
  BY DEF FloorPassed
<1>2. /\ FloorPassed
      /\ \A f \in Findings(delta) : f.severity \notin {"blocks_ship", "blocks_all"}
  BY <1>1, ShipHasNoBlocker
<1>3. /\ Epsilon \in Nat /\ MaxRegression \in Nat /\ MinImprovement \in Nat
      /\ Deltas \subseteq Int
  BY DecisionAssumption DEF DecisionAssumption
<1>4. \A u \in Traces : delta[u] \in Int
  BY ScoresAreNumbers
<1>5. \A u \in Traces : e[u] \in Int /\ delta[u] <= e[u]
  BY <1>3, <1>4 DEF TypeOK
<1>6. ASSUME NEW c
      PROVE  /\ IsFiniteSet(Scored(c)) /\ Scored(c) \subseteq Traces
             /\ Cardinality(Improved(delta, c)) <= Cardinality(Improved(e, c))
             /\ Cardinality(Regressed(e, c)) <= Cardinality(Regressed(delta, c))
             /\ Cardinality(Improved(e, c)) \in Nat
             /\ Cardinality(Regressed(e, c)) \in Nat
  <2>1. IsFiniteSet(Scored(c)) /\ Scored(c) \subseteq Traces
    BY ScoresAreNumbers
  <2>2. Improved(delta, c) \subseteq Improved(e, c)
    <3>1. ASSUME NEW u \in Traces, delta[u] > Epsilon PROVE e[u] > Epsilon
      BY <1>3, <1>4, <1>5, <3>1
    <3> QED BY <2>1, <3>1 DEF Improved
  <2>3. Regressed(e, c) \subseteq Regressed(delta, c)
    <3>1. ASSUME NEW u \in Traces, e[u] < -Epsilon PROVE delta[u] < -Epsilon
      BY <1>3, <1>4, <1>5, <3>1
    <3> QED BY <2>1, <3>1 DEF Regressed
  <2>4. /\ Improved(e, c) \subseteq Scored(c) /\ Regressed(e, c) \subseteq Scored(c)
        /\ Regressed(delta, c) \subseteq Scored(c)
    BY DEF Improved, Regressed
  <2>5. /\ IsFiniteSet(Improved(e, c)) /\ IsFiniteSet(Regressed(e, c))
        /\ IsFiniteSet(Regressed(delta, c))
    BY <2>1, <2>4, FS_Subset
  <2> QED BY <2>1, <2>2, <2>3, <2>5, FS_Subset, FS_CardinalityType
<1>7. ImprovementEndpoint(e) \subseteq ImprovementEndpoint(delta)
  <2> DEFINE s == Cardinality(Scored("failure"))
             i == Cardinality(Improved(delta, "failure"))
             j == Cardinality(Improved(e, "failure"))
             p == MinImprovement * s
  <2>1. i \in Nat /\ j \in Nat /\ i <= j /\ s \in Nat
    BY <1>6, CountsAreNatural
  <2>2. p \in Nat
    BY <1>3, <2>1, Z3
  <2>3. j * 100 < p => i * 100 < p
    <3> HIDE DEF i, j, p
    <3> QED BY <2>1, <2>2
  <2> QED BY <2>3 DEF ImprovementEndpoint
<1>8. RegressionEndpoint(e) \subseteq RegressionEndpoint(delta)
  <2> DEFINE s == Cardinality(Scored("baseline"))
             i == Cardinality(Regressed(delta, "baseline"))
             j == Cardinality(Regressed(e, "baseline"))
             p == MaxRegression * s
  <2>1. i \in Nat /\ j \in Nat /\ j <= i /\ s \in Nat
    BY <1>6, CountsAreNatural
  <2>2. p \in Nat
    BY <1>3, <2>1, Z3
  <2>3. j * 100 > p => i * 100 > p
    <3> HIDE DEF i, j, p
    <3> QED BY <2>1, <2>2
  <2> QED BY <2>3 DEF RegressionEndpoint
<1>9. ASSUME NEW f \in DeltaFindings(e), f.severity \in {"blocks_ship", "blocks_all"}
      PROVE  f \in DeltaFindings(delta)
  <2>1. /\ CiComputable("failure") /\ ~(WireMedian(e, "failure") * 10 > Epsilon)
        /\ f = Finding("practical_delta_below_threshold", "blocks_ship", "failure")
    BY <1>9 DEF DeltaFindings, Finding
  <2> DEFINE a == TwiceMedian(delta, "failure")
             b == TwiceMedian(e, "failure")
             s == Cardinality(Scored("failure"))
  <2>2. /\ IsFiniteSet(Scored("failure"))
        /\ \A u \in Scored("failure") :
             delta[u] \in Int /\ e[u] \in Int /\ delta[u] <= e[u]
    BY <1>4, <1>5, <1>6
  <2>3. a \in Int /\ b \in Int /\ a <= b
    <3>1. PICK m \in Int, n \in Int :
            /\ a = m + n
            /\ IsRanked(delta, "failure", (s + 1) \div 2, m)
            /\ IsRanked(delta, "failure", (s \div 2) + 1, n)
      BY <2>1, <2>2, Middle
    <3>2. PICK k \in Int, l \in Int :
            /\ b = k + l
            /\ IsRanked(e, "failure", (s + 1) \div 2, k)
            /\ IsRanked(e, "failure", (s \div 2) + 1, l)
      BY <2>1, <2>2, Middle
    <3>3. (s + 1) \div 2 \in Nat /\ (s \div 2) + 1 \in Nat
      <4>1. s \in Nat
        BY CountsAreNatural
      <4> HIDE DEF s
      <4> QED BY <4>1
    <3>4. m <= k
      BY <2>2, <3>1, <3>2, <3>3, RankIsMonotone
    <3>5. n <= l
      BY <2>2, <3>1, <3>2, <3>3, RankIsMonotone
    <3> HIDE DEF a, b
    <3> QED BY <3>1, <3>2, <3>4, <3>5
  <2>4. ~(WireMedian(delta, "failure") * 10 > Epsilon)
    <3>1. /\ (a + 10) \div 20 \in Int /\ (b + 10) \div 20 \in Int
          /\ (a + 10) \div 20 <= (b + 10) \div 20
      <4> HIDE DEF a, b
      <4> QED BY <2>3, RoundingIsMonotone
    <3>2. ~(((b + 10) \div 20) * 10 > Epsilon)
      BY <2>1 DEF WireMedian
    <3>3. ~(((a + 10) \div 20) * 10 > Epsilon)
      <4> DEFINE y == (a + 10) \div 20
                 z == (b + 10) \div 20
      <4> HIDE DEF y, z
      <4>1. y \in Int /\ z \in Int /\ y <= z /\ ~(z * 10 > Epsilon)
        BY <3>1, <3>2 DEF y, z
      <4>2. ~(y * 10 > Epsilon)
        BY <1>3, <4>1
      <4> QED BY <4>2 DEF y
    <3> QED BY <3>3 DEF WireMedian
  <2> QED BY <2>1, <2>4 DEF DeltaFindings
<1>10. ASSUME NEW f \in Findings(e), f.severity \in {"blocks_ship", "blocks_all"}
       PROVE  f \in Findings(delta)
  BY <1>7, <1>8, <1>9, <1>10 DEF Findings
<1>11. \A f \in Findings(e) : f.severity \notin {"blocks_ship", "blocks_all"}
  BY <1>2, <1>10
<1> QED BY <1>1, <1>2, <1>11, NoBlockerShips

-----------------------------------------------------------------------------
(* The report is the one of the deltas, to the end                         *)

ReportStands == report # NoReport => report = Report(delta)

\* The report depends on what no step changes once there is one.
LEMMA ReportDepends ==
  ASSUME UNCHANGED <<shape, cohort, fate, delta>>
  PROVE  Report(delta)' = Report(delta)
<1>1. \A c : Selected(c)' = Selected(c)
  BY DEF Selected
<1>2. \A c : Scored(c)' = Scored(c)
  BY <1>1 DEF Scored
<1>3. ImprovementEndpoint(delta)' = ImprovementEndpoint(delta)
  BY <1>2 DEF ImprovementEndpoint, Improved
<1>4. RegressionEndpoint(delta)' = RegressionEndpoint(delta)
  BY <1>2 DEF RegressionEndpoint, Regressed
<1>5. \A c : Present(c)' = Present(c) /\ CiComputable(c)' = CiComputable(c)
  BY <1>1, <1>2 DEF Present, CiComputable
<1>6. Required' = Required
  BY DEF Required, PolicyRequired
<1>7. CiFindings' = CiFindings /\ AbsentFindings' = AbsentFindings
  BY <1>5, <1>6 DEF CiFindings, AbsentFindings
<1>8. \A c, k : Ranked(delta, c, k)' = Ranked(delta, c, k)
  BY <1>2 DEF Ranked
<1>9. DeltaFindings(delta)' = DeltaFindings(delta)
  BY <1>2, <1>5, <1>8 DEF DeltaFindings, WireMedian, TwiceMedian
<1>10. \A c : CohortFailures(c)' = CohortFailures(c)
  BY <1>1, <1>2 DEF CohortFailures, Breaks
<1>11. Findings(delta)' = Findings(delta)
  BY <1>3, <1>4, <1>7, <1>9 DEF Findings
<1>12. FloorPassed' = FloorPassed
  BY <1>5, <1>6, <1>10 DEF FloorPassed
<1> QED BY <1>5, <1>10, <1>11, <1>12 DEF Report

LEMMA ReportStandsStep == IInv /\ ReportStands /\ [Next]_vars => ReportStands'
<1> SUFFICES ASSUME IInv, ReportStands, [Next]_vars PROVE ReportStands'
  OBVIOUS
<1>1. ASSUME NEW t \in Traces, Skip(t) \/ Score(t) \/ Raise(t) PROVE report' = NoReport
  BY <1>1 DEF Skip, Score, Raise, IsNext, IInv, ReportIsLast
<1>2. CASE Decide
  BY <1>2, ReportDepends DEF Decide, inputs, ReportStands
<1>3. CASE UNCHANGED vars
  BY <1>3, ReportDepends DEF vars, ReportStands
<1> QED BY <1>1, <1>2, <1>3 DEF Next, Done, ReportStands

LEMMA StandsInit == Init => ReportStands
BY DEF Init, ReportStands

\* Raising the score of any one trace of a run that ships, by any amount, leaves
\* the verdict at Ship: for every policy, cohorts of any size and median of any
\* rounding, through the three guards that read the deltas.
THEOREM BetterDeltasShip == Spec => []ShipIsMonotone
<1>1. IInv /\ ReportStands => ShipIsMonotone
  <2> SUFFICES ASSUME TypeOK, ReportStands, report.state = "ship",
                      NEW t \in Traces, NEW d \in Deltas,
                      fate[t] = "scored", d >= delta[t]
               PROVE  Report([delta EXCEPT ![t] = d]).state = "ship"
    BY DEF ShipIsMonotone, IInv
  <2>1. report # NoReport
    BY DEF NoReport
  <2>2. VerdictState(FloorPassed, Findings(delta)) = "ship"
    BY <2>1 DEF ReportStands, Report
  <2>3. VerdictState(FloorPassed, Findings([delta EXCEPT ![t] = d])) = "ship"
    BY <2>2, BetterStillShips
  <2> QED BY <2>3 DEF Report
<1> QED BY <1>1, InitEstablishes, StepPreserves, StandsInit, ReportStandsStep, PTL DEF Spec

\* With an epsilon of at most three decimals, "improvement_observed" is only said
\* of a failure cohort at least half of whose scored traces improved.  (With more
\* decimals the rounded median can pass the epsilon that no delta passes.)
THEOREM ObservationsAreReal ==
  ASSUME ThreeDecimals
  PROVE  Spec => []ObservedMeansHalfImproved
<1>1. IInv /\ ReportStands => ObservedMeansHalfImproved
  <2> SUFFICES ASSUME TypeOK, ReportStands, NEW f \in report.findings,
                      f.code = "improvement_observed"
               PROVE  Cardinality(Improved(delta, "failure")) * 2
                        >= Cardinality(Scored("failure"))
    BY DEF ObservedMeansHalfImproved, IInv
  <2>1. report # NoReport
    BY DEF NoReport
  <2>2. f \in Findings(delta)
    BY <2>1 DEF ReportStands, Report
  <2> QED BY <2>2, ObservedHere
<1> QED BY <1>1, InitEstablishes, StepPreserves, StandsInit, ReportStandsStep, PTL DEF Spec

-----------------------------------------------------------------------------
(* What is said of a verdict                                               *)

Blocks(f) == f.severity \in {"blocks_ship", "blocks_all"}

\* The findings a run can make.
KnownFindings ==
  {f \in [code : DOMAIN FINDING_CODE_REGISTRY, severity : DOMAIN SEVERITY_RANK,
          cohort : Cohorts] :
     f.severity = FINDING_CODE_REGISTRY[f.code]}

\* What a report shows of its verdict.
Explained ==
  /\ report.findings \subseteq KnownFindings
  /\ report.failed \subseteq Cohorts
  /\ report.state = "dont_ship" => \E f \in report.findings : Blocks(f)
  /\ report.state = "inconclusive" =>
       \/ \E f \in report.findings : Blocks(f)
       \/ report.failed \cap Required # {}

-----------------------------------------------------------------------------
(* The findings                                                            *)

\* The codes and severities the guards use are registered.
LEMMA CodesAreRegistered ==
  \A c \in Cohorts :
    /\ Finding("failure_improvement_below_threshold", "blocks_ship", c) \in KnownFindings
    /\ Finding("baseline_regression_above_threshold", "blocks_ship", c) \in KnownFindings
    /\ Finding("practical_delta_below_threshold", "blocks_ship", c) \in KnownFindings
    /\ Finding("improvement_observed", "info", c) \in KnownFindings
    /\ Finding("ci_unavailable_for_required_cohort", "blocks_all", c) \in KnownFindings
    /\ Finding("required_cohort_absent", "blocks_all", c) \in KnownFindings
BY DEF KnownFindings, Finding, FINDING_CODE_REGISTRY, SEVERITY_RANK

LEMMA FindingsAreKnown == Findings(delta) \subseteq KnownFindings
<1>1. "failure" \in Cohorts /\ "baseline" \in Cohorts
  BY DEF Cohorts
<1>2. /\ ImprovementEndpoint(delta) \subseteq KnownFindings
      /\ RegressionEndpoint(delta) \subseteq KnownFindings
      /\ DeltaFindings(delta) \subseteq KnownFindings
  BY <1>1, CodesAreRegistered DEF ImprovementEndpoint, RegressionEndpoint, DeltaFindings
<1>3. PolicyRequired \subseteq Cohorts /\ Required \subseteq Cohorts
  BY DEF PolicyRequired, Required, Cohorts
<1>4. CiFindings \subseteq KnownFindings /\ AbsentFindings \subseteq KnownFindings
  BY <1>3, CodesAreRegistered DEF CiFindings, AbsentFindings
<1> QED BY <1>2, <1>4 DEF Findings

\* A floor that fails leaves its trace in the report.
LEMMA FloorFailureShows ==
  ASSUME ~FloorPassed
  PROVE  \/ \E f \in Findings(delta) : Blocks(f)
         \/ {c \in Cohorts : Present(c) /\ CohortFailures(c) # {}} \cap Required # {}
<1>1. PICK c \in Required : ~(Present(c) /\ CohortFailures(c) = {})
  BY DEF FloorPassed
<1>2. c \in Cohorts
  BY DEF Required, PolicyRequired, Cohorts
<1>3. CASE ~Present(c)
  <2>1. Finding("required_cohort_absent", "blocks_all", c) \in AbsentFindings
    BY <1>3 DEF AbsentFindings
  <2>2. Blocks(Finding("required_cohort_absent", "blocks_all", c))
    BY DEF Blocks, Finding
  <2> QED BY <2>1, <2>2 DEF Findings
<1>4. CASE Present(c)
  BY <1>1, <1>2, <1>4
<1> QED BY <1>3, <1>4

\* The verdict that is not Ship has a reason.
LEMMA VerdictIsExplained ==
  ASSUME report' = Report(delta), shape' = shape
  PROVE  Explained'
<1> DEFINE state == VerdictState(FloorPassed, Findings(delta))
           failed == {c \in Cohorts : Present(c) /\ CohortFailures(c) # {}}
<1>1. /\ report'.state = state
      /\ report'.findings = Findings(delta)
      /\ report'.failed = failed
  BY DEF Report
<1>2. state = "dont_ship" => \E f \in Findings(delta) : Blocks(f)
  BY DEF VerdictState, Blocks
<1>3. state = "inconclusive" =>
        (\E f \in Findings(delta) : Blocks(f)) \/ failed \cap Required # {}
  BY FloorFailureShows DEF VerdictState, Blocks
<1>4. failed \subseteq Cohorts
  OBVIOUS
<1>5. Required' = Required
  BY DEF Required, PolicyRequired
<1> HIDE DEF state, failed
<1> QED BY <1>1, <1>2, <1>3, <1>4, <1>5, FindingsAreKnown
        DEF Explained, Blocks, KnownFindings, FINDING_CODE_REGISTRY, SEVERITY_RANK, Cohorts

-----------------------------------------------------------------------------
(* The invariant                                                           *)

LEMMA InitExplained == Init => Explained
BY DEF Init, NoReport, Explained

LEMMA StepExplains == IInv /\ Explained /\ [Next]_vars => Explained'
<1> SUFFICES ASSUME IInv, Explained, [Next]_vars
             PROVE  Explained'
  OBVIOUS
<1>1. ASSUME report' = report, shape' = shape
      PROVE  Explained'
  BY <1>1 DEF Explained, Required, PolicyRequired, Blocks, KnownFindings,
              FINDING_CODE_REGISTRY, SEVERITY_RANK, Cohorts
<1>2. CASE \E t \in Traces : Skip(t) \/ Score(t) \/ Raise(t)
  BY <1>1, <1>2 DEF Skip, Score, Raise, inputs
<1>3. CASE Decide
  BY <1>3, VerdictIsExplained DEF Decide, inputs
<1>4. CASE UNCHANGED vars
  BY <1>1, <1>4 DEF vars
<1> QED BY <1>2, <1>3, <1>4 DEF Next, Done

-----------------------------------------------------------------------------
(* The texts                                                               *)

\* Ranks from three on are the two severities that block, and those have a
\* template.
LEMMA BlockersHaveTemplates ==
  \A f \in KnownFindings :
    /\ SEVERITY_RANK[f.severity] >= 3 <=> Blocks(f)
    /\ Blocks(f) => f.code \in FIX_SUGGESTION_REGISTRY
BY DEF KnownFindings, Blocks, SEVERITY_RANK, FINDING_CODE_REGISTRY,
       FIX_SUGGESTION_REGISTRY

\* One of several findings has the highest severity.
LEMMA SomeFindingIsHighest ==
  ASSUME NEW findings \in SUBSET KnownFindings, findings # {}
  PROVE  HighestSeverityFinding(findings) # {}
<1> DEFINE rank(f) == SEVERITY_RANK[f.severity]
<1>1. \A f \in findings : rank(f) \in 1..4
  BY DEF KnownFindings, SEVERITY_RANK
<1>2. \A f, g \in findings : (rank(f) >= rank(g)) \/ (rank(g) > rank(f))
  BY <1>1
<1>3. PICK f \in findings :
        \/ rank(f) = 4
        \/ rank(f) = 3 /\ \A g \in findings : rank(g) # 4
        \/ rank(f) = 2 /\ \A g \in findings : rank(g) \notin {3, 4}
        \/ rank(f) = 1 /\ \A g \in findings : rank(g) \notin {2, 3, 4}
  BY <1>1
<1>4. \A g \in findings : rank(f) >= rank(g)
  BY <1>1, <1>3
<1> QED BY <1>4 DEF HighestSeverityFinding

\* An explained report is rendered with its reason and its next steps.
LEMMA ExplainedIsRendered == Explained => NextStepsExist
<1> SUFFICES ASSUME Explained, report.state \in {"dont_ship", "inconclusive"}
             PROVE  NextStepsExist
  BY DEF NextStepsExist
<1> DEFINE blocking == {f \in report.findings : SEVERITY_RANK[f.severity] >= 3}
<1>1. /\ report.findings \subseteq KnownFindings
      /\ report.failed \subseteq Cohorts
      /\ report.state # "ship"
  BY DEF Explained
<1>2. \A f \in report.findings : f.severity = FINDING_CODE_REGISTRY[f.code]
  BY <1>1 DEF KnownFindings
<1>3. \A f \in blocking : f.code \in FIX_SUGGESTION_REGISTRY
  BY <1>1, BlockersHaveTemplates
<1>4. blocking = {} => report.failed \cap Required # {}
  BY <1>1, BlockersHaveTemplates DEF Explained
<1>5. ASSUME report.failed \cap Required # {}
      PROVE  /\ TopFloorFailure(report.failed).kind = "floor"
             /\ TopFloorFailure(report.failed).about \in Required
  BY <1>1, <1>5 DEF TopFloorFailure, Line, Required, PolicyRequired, Cohorts
<1>6. NextSteps(report) # {}
  BY <1>1, <1>3 DEF NextSteps
<1>7. \A line \in NextSteps(report) :
        \/ line.kind = "template"
        \/ line.kind = "floor" /\ line.about \in Required
  <2>1. CASE blocking # {}
    <3>1. NextSteps(report) = {Line("template", f.code) : f \in blocking}
      BY <1>1, <1>3, <2>1 DEF NextSteps
    <3> QED BY <3>1 DEF Line
  <2>2. CASE blocking = {}
    <3>1. report.failed # {}
      BY <1>4, <2>2
    <3>2. NextSteps(report) = {TopFloorFailure(report.failed)}
      BY <1>1, <2>2, <3>1 DEF NextSteps
    <3> QED BY <1>4, <1>5, <2>2, <3>2
  <2> QED BY <2>1, <2>2
<1>8. \A line \in Reason(report) : line.kind \in {"finding", "floor"}
  <2>1. CASE report.findings # {}
    BY <1>1, <2>1 DEF Reason, Line
  <2>2. CASE report.findings = {}
    <3>1. report.failed \cap Required # {}
      BY <1>4, <2>2
    <3>2. Reason(report) = {TopFloorFailure(report.failed)}
      BY <1>1, <2>2, <3>1 DEF Reason
    <3> QED BY <1>5, <3>1, <3>2
  <2> QED BY <2>1, <2>2
<1> QED BY <1>2, <1>6, <1>7, <1>8 DEF NextStepsExist

-----------------------------------------------------------------------------
(* Theorems                                                                *)

\* The report of every run that does not ship has a blocking finding or a floor
\* failure of a cohort that the floor required.
THEOREM InconclusivesAreExplained == Spec => []InconclusiveIsExplained
<1>1. Explained => InconclusiveIsExplained
  BY DEF Explained, InconclusiveIsExplained, Blocks
<1> QED BY <1>1, InitEstablishes, InitExplained, StepPreserves, StepExplains,
           PTL DEF Spec

\* Below every verdict that is not Ship the operator reads a reason, and next
\* steps that are templates or floor rules of required cohorts.
THEOREM NextStepsAreThere == Spec => []NextStepsExist
BY InitEstablishes, InitExplained, StepPreserves, StepExplains,
   ExplainedIsRendered, PTL DEF Spec

=============================================================================
