---------------------------- MODULE OrderLemmas -----------------------------
(***************************************************************************)
(* Finite sets of integers have a least and a greatest element, by the     *)
(* well-foundedness of inclusion.  Decision's ranks and the positions of   *)
(* Intake are chosen by them.  A sequence enumerates a set when it lists   *)
(* each of its elements once.                                              *)
(***************************************************************************)
EXTENDS Integers, Functions, FiniteSets, FiniteSetTheorems, SequenceTheorems,
        WellFoundedInduction, TLAPS

\* No element of S is below one whose Below is least for inclusion.
LEMMA FiniteSetHasLeast ==
  ASSUME NEW S \in SUBSET Int, S # {}, IsFiniteSet(S)
  PROVE  \E m \in S : \A x \in S : m <= x
<1> DEFINE Below(m) == {x \in S : x < m}
           T == {Below(m) : m \in S}
<1>1. T \subseteq FiniteSubsetsOf(S) /\ T # {}
  <2>1. ASSUME NEW m \in S PROVE Below(m) \in SUBSET S /\ IsFiniteSet(Below(m))
    BY FS_Subset
  <2> QED BY <2>1 DEF FiniteSubsetsOf
<1>2. IsWellFoundedOn(StrictSubsetOrdering(S), FiniteSubsetsOf(S))
  BY FS_StrictSubsetOrderingWellFounded
<1>3. \E X \in T : \A Y \in T : ~(<<Y, X>> \in StrictSubsetOrdering(S))
  <2> HIDE DEF T
  <2> QED BY <1>1, <1>2, WFMin
<1>4. PICK m \in S : \A x \in S : ~(<<Below(x), Below(m)>> \in StrictSubsetOrdering(S))
  BY <1>3
<1>5. ASSUME NEW x \in S, x < m PROVE FALSE
  <2>1. Below(x) \subseteq Below(m) /\ x \in Below(m) /\ x \notin Below(x)
    <3>1. x \in Int /\ m \in Int
      OBVIOUS
    <3>2. ASSUME NEW y \in S, y < x PROVE y < m
      <4>1. y \in Int
        OBVIOUS
      <4> QED BY <1>5, <3>1, <3>2, <4>1
    <3>3. ~(x < x)
      BY <3>1
    <3> QED BY <1>5, <3>2, <3>3
  <2>2. Below(x) \in SUBSET S /\ Below(m) \in SUBSET S /\ Below(x) # Below(m)
    BY <2>1
  <2> HIDE DEF Below
  <2>3. <<Below(x), Below(m)>> \in StrictSubsetOrdering(S)
    BY <2>1, <2>2 DEF StrictSubsetOrdering
  <2> QED BY <1>4, <2>3
<1>6. \A x \in S : m <= x
  BY <1>5
<1> QED BY <1>6

LEMMA FiniteSetHasGreatest ==
  ASSUME NEW S \in SUBSET Int, S # {}, IsFiniteSet(S)
  PROVE  \E m \in S : \A x \in S : x <= m
<1> DEFINE Neg == {-x : x \in S}
<1>1. Neg \in SUBSET Int /\ Neg # {}
  <2>1. \A x \in S : -x \in Int
    OBVIOUS
  <2> QED BY <2>1
<1>2. IsFiniteSet(Neg)
  <2> DEFINE f == [x \in S |-> -x]
  <2>1. f \in Surjection(S, Neg)
    BY DEF Surjection
  <2> QED BY <2>1, FS_Surjection
<1>3. PICK n \in Neg : \A y \in Neg : n <= y
  <2> HIDE DEF Neg
  <2> QED BY <1>1, <1>2, FiniteSetHasLeast
<1>4. PICK m \in S : n = -m
  BY <1>3
<1>5. \A x \in S : -m <= -x
  BY <1>3, <1>4
<1>6. \A x \in S : x <= m
  BY <1>5
<1> QED BY <1>6

\* How many elements are below one: less than below a greater one.
LEMMA UnderGrows ==
  ASSUME NEW I \in SUBSET Nat, IsFiniteSet(I), NEW a \in I
  PROVE  /\ Cardinality({j \in I : j < a}) \in Nat
         /\ Cardinality({j \in I : j <= a}) = Cardinality({j \in I : j < a}) + 1
         /\ Cardinality({j \in I : j <= a}) <= Cardinality(I)
         /\ \A b \in I : a < b =>
              Cardinality({j \in I : j < a}) < Cardinality({j \in I : j < b})
<1> DEFINE Under(m) == {j \in I : j < m}
           Low(m) == {j \in I : j <= m}
<1>1. \A m \in I : /\ Under(m) \in SUBSET I /\ Low(m) \in SUBSET I
                   /\ m \notin Under(m) /\ Low(m) = Under(m) \cup {m}
  <2> TAKE m \in I
  <2>1. \A j \in I : j \in Nat
    OBVIOUS
  <2>2. \A j \in I : j <= m <=> (j < m \/ j = m)
    BY <2>1
  <2>3. ~(m < m)
    BY <2>1
  <2> QED BY <2>2, <2>3
<1>2. \A b \in I : a < b => Low(a) \subseteq Under(b)
  <2> SUFFICES ASSUME NEW b \in I, a < b, NEW j \in I, j <= a PROVE j < b
    OBVIOUS
  <2>1. a \in Nat /\ b \in Nat /\ j \in Nat
    OBVIOUS
  <2> QED BY <2>1
<1> HIDE DEF Under, Low
<1>3. \A m \in I : /\ IsFiniteSet(Under(m)) /\ IsFiniteSet(Low(m))
                   /\ Cardinality(Under(m)) \in Nat /\ Cardinality(Low(m)) \in Nat
                   /\ Cardinality(Low(m)) = Cardinality(Under(m)) + 1
                   /\ Cardinality(Low(m)) <= Cardinality(I)
  BY <1>1, FS_Subset, FS_CardinalityType, FS_AddElement
<1>4. \A b \in I : a < b => Cardinality(Low(a)) <= Cardinality(Under(b))
  BY <1>2, <1>3, FS_Subset
<1>5. \A b \in I : a < b => Cardinality(Under(a)) < Cardinality(Under(b))
  BY <1>3, <1>4
<1> QED BY <1>3, <1>5 DEF Under, Low

-----------------------------------------------------------------------------
\* A function on 1..n is a sequence of length n.
LEMMA FunctionIsSeq ==
  ASSUME NEW S, NEW n \in Nat, NEW f \in [1..n -> S]
  PROVE  f \in Seq(S) /\ Len(f) = n
<1>1. f \in Seq(S)
  BY SeqDef
<1>2. 1..Len(f) = 1..n /\ Len(f) \in Nat
  BY <1>1, LenProperties
<1> QED BY <1>2

\* s lists the elements of S, each once.
Enumerates(s, S) ==
  /\ s \in Seq(S)
  /\ \A x \in S : \E i \in 1..Len(s) : s[i] = x
  /\ \A i, j \in 1..Len(s) : s[i] = s[j] => i = j

LEMMA EnumeratedCount ==
  ASSUME NEW S, NEW s, Enumerates(s, S)
  PROVE  /\ Len(s) \in Nat /\ \A i \in 1..Len(s) : s[i] \in S
         /\ IsFiniteSet(S) /\ Cardinality(S) = Len(s) /\ Range(s) = S
<1>1. s \in Seq(S) /\ Len(s) \in Nat /\ \A i \in 1..Len(s) : s[i] \in S
  BY LenProperties, ElementOfSeq DEF Enumerates
<1> DEFINE f == [i \in 1..Len(s) |-> s[i]]
<1>2. f \in Bijection(1..Len(s), S)
  <2>1. f \in [1..Len(s) -> S]
    BY <1>1
  <2>2. \A i, j \in 1..Len(s) : f[i] = f[j] => i = j
    BY DEF Enumerates
  <2>3. \A x \in S : \E i \in 1..Len(s) : f[i] = x
    BY DEF Enumerates
  <2> HIDE DEF f
  <2> QED BY <2>1, <2>2, <2>3 DEF Bijection, Injection, Surjection, IsInjective
<1>3. IsFiniteSet(S) /\ Cardinality(S) = Len(s)
  <2>1. ExistsBijection(1..Len(s), S)
    BY <1>2 DEF ExistsBijection
  <2>2. IsFiniteSet(1..Len(s))
    BY <1>1, FS_Interval
  <2> QED BY <1>1, <2>1, <2>2, FS_CountingElements, FS_Bijection
<1>4. Range(s) = S
  <2>1. Range(s) = {s[i] : i \in 1..Len(s)}
    BY <1>1, RangeEquality
  <2> QED BY <1>1, <2>1 DEF Enumerates
<1> QED BY <1>1, <1>3, <1>4

\* Two disjoint enumerations, one after the other.
LEMMA ConcatEnumerates ==
  ASSUME NEW A, NEW B, A \cap B = {}, NEW a, NEW b, Enumerates(a, A), Enumerates(b, B)
  PROVE  Enumerates(a \o b, A \cup B)
<1>1. /\ Len(a) \in Nat /\ \A i \in 1..Len(a) : a[i] \in A
      /\ Len(b) \in Nat /\ \A i \in 1..Len(b) : b[i] \in B
  BY EnumeratedCount
<1>2. a \in Seq(A \cup B) /\ b \in Seq(A \cup B)
  <2>1. a \in [1..Len(a) -> A] /\ b \in [1..Len(b) -> B]
    BY LenProperties DEF Enumerates
  <2>2. a \in [1..Len(a) -> A \cup B] /\ b \in [1..Len(b) -> A \cup B]
    BY <2>1
  <2> QED BY <1>1, <2>2, FunctionIsSeq
<1> DEFINE c == a \o b
<1>3. /\ c \in Seq(A \cup B) /\ Len(c) = Len(a) + Len(b)
      /\ \A i \in 1..Len(a) + Len(b) : c[i] = IF i <= Len(a) THEN a[i] ELSE b[i - Len(a)]
  BY <1>2, ConcatProperties
<1> HIDE DEF c
<1>4. \A i \in 1..Len(a) : i \in 1..Len(c) /\ c[i] = a[i]
  BY <1>1, <1>3
<1>5. \A i \in 1..Len(b) : Len(a) + i \in 1..Len(c) /\ c[Len(a) + i] = b[i]
  BY <1>1, <1>3
<1>6. \A i \in 1..Len(c) : \/ i \in 1..Len(a) /\ c[i] = a[i]
                           \/ /\ i - Len(a) \in 1..Len(b) /\ c[i] = b[i - Len(a)]
                              /\ i = Len(a) + (i - Len(a))
  BY <1>1, <1>3
<1>7. ASSUME NEW x \in A \cup B
      PROVE  \E i \in 1..Len(c) : c[i] = x
  <2>1. CASE x \in A
    <3>1. PICK i \in 1..Len(a) : a[i] = x
      BY <2>1 DEF Enumerates
    <3> QED BY <1>4, <3>1
  <2>2. CASE x \in B
    <3>1. PICK i \in 1..Len(b) : b[i] = x
      BY <2>2 DEF Enumerates
    <3> QED BY <1>5, <3>1
  <2> QED BY <2>1, <2>2
<1>8. ASSUME NEW i \in 1..Len(c), NEW j \in 1..Len(c), c[i] = c[j]
      PROVE  i = j
  <2>1. CASE i \in 1..Len(a) /\ c[i] = a[i] /\ j \in 1..Len(a) /\ c[j] = a[j]
    BY <1>8, <2>1 DEF Enumerates
  <2>2. CASE /\ i - Len(a) \in 1..Len(b) /\ c[i] = b[i - Len(a)]
             /\ j - Len(a) \in 1..Len(b) /\ c[j] = b[j - Len(a)]
    <3>1. i - Len(a) = j - Len(a)
      BY <1>8, <2>2 DEF Enumerates
    <3> QED BY <1>1, <1>3, <3>1
  <2>3. CASE i \in 1..Len(a) /\ c[i] = a[i] /\ j - Len(a) \in 1..Len(b) /\ c[j] = b[j - Len(a)]
    BY <1>1, <1>8, <2>3
  <2>4. CASE j \in 1..Len(a) /\ c[j] = a[j] /\ i - Len(a) \in 1..Len(b) /\ c[i] = b[i - Len(a)]
    BY <1>1, <1>8, <2>4
  <2> QED BY <1>6, <2>1, <2>2, <2>3, <2>4
<1> QED BY <1>3, <1>7, <1>8 DEF Enumerates, c

=============================================================================
