-------------------------- MODULE AsyncLaneProofs ---------------------------
(***************************************************************************)
(* AsyncLane and its Intake, for any source and any runner. What counts    *)
(* positions holds for every run that lists at most MaxTraces traces       *)
(* (InBound).                                                              *)
(*                                                                         *)
(* Hand says what is known of the trace at hand at each stage, Accounted   *)
(* that the traces before it have been settled and counted. The list of    *)
(* traces stands still once the lane has started, because every step of    *)
(* the source is one of a source that is still fetching.                   *)
(*                                                                         *)
(* Paged is the invariant of reading by page number: which of the rows     *)
(* above the Offset can still be unread, and which below it have been      *)
(* read. Spanned is that of the span adapters: what was received and what  *)
(* is pending are the recording, each span once. Grouped makes traces of   *)
(* it, by position: a group lists the spans of one trace, its root is one  *)
(* of them, its tools are the others (FromSpans). Owned ties the tool      *)
(* cache to the trace at hand, and the two together say whose spans a      *)
(* runner is answered with.                                                *)
(***************************************************************************)
EXTENDS AsyncLane, OrderLemmas, FiniteSetTheorems, SequenceTheorems, TLAPS

InBound == MaxTraces \in Nat /\ Len(raw) \in 0..MaxTraces

-----------------------------------------------------------------------------
\* The trace at hand.
Stages == {"idle", "running", "blocking", "cancelling", "closing", "scoring",
           "aborted"}

Hand ==
  /\ stage \in Stages
  /\ stage = "cancelling" => late
  /\ NothingOutlives
  /\ OutcomeTellsWhat

\* The except clauses tell the endings apart.
LEMMA Classified ==
  ASSUME NEW how \in {"output", "miss", "timeout_error", "exception", "exit",
                      "cancelled"}
  PROVE  /\ (Classify(how) = Promise!Success(at)) <=> (how = "output")
         /\ (Classify(how) = Failed("tool_cache_miss")) <=> (how = "miss")
         /\ Classify(how) = Failed("runner_timeout") =>
              how \in {"cancelled", "timeout_error"}
         /\ (Classify(how) = Exit) <=> (how = "exit")
         /\ Classify(how) \in Promise!Failures \cup {Promise!Success(at), Exit}
<1> USE DEF Classify, Promise!Success, Promise!Failures, Failed, Exit
<1>1. CASE how = "output"
  BY <1>1
<1>2. CASE how = "miss"
  BY <1>2
<1>3. CASE how \in {"cancelled", "timeout_error"}
  BY <1>3
<1>4. CASE how = "exception"
  BY <1>4
<1>5. CASE how = "exit"
  BY <1>5
<1> QED BY <1>1, <1>2, <1>3, <1>4, <1>5

LEMMA HandStep == Hand /\ [Next]_vars => Hand'
<1> SUFFICES ASSUME Hand, [Next]_vars PROVE Hand'
  OBVIOUS
<1> USE DEF Hand, Stages, NothingOutlives, OutcomeTellsWhat, Promise!Success,
    Promise!Pending, Failed, Exit
<1>1. CASE IntakeNext /\ UNCHANGED laneVars
  BY <1>1 DEF laneVars
<1>2. CASE StartTrace
  BY <1>2 DEF StartTrace
<1>3. CASE GetsLate
  BY <1>3 DEF GetsLate
<1>4. CASE Expire
  BY <1>4 DEF Expire
<1>5. CASE GiveUpThreads
  BY <1>5 DEF GiveUpThreads
<1>6. CASE CloseLoop
  BY <1>6 DEF CloseLoop
<1>7. ASSUME NEW name \in Names, Lookup(name) PROVE Hand'
  BY <1>7 DEF Lookup
<1>8. ASSUME NEW what \in {"task", "thread"}, Spawn(what) PROVE Hand'
  BY <1>8 DEF Spawn
<1>9. CASE Block \/ Yield \/ Swallow
  BY <1>9 DEF Block, Yield, Swallow
<1>10. ASSUME NEW how \in {"output", "miss", "timeout_error", "exception", "exit",
                           "cancelled"}, EndRunner(how)
       PROVE  Hand'
  <2>1. /\ stage' = "closing" /\ ended' = how /\ result' = Classify(how)
        /\ UNCHANGED <<at, late, leftover>> /\ (how = "cancelled" => late)
    BY <1>10 DEF EndRunner
  <2>2. (Promise!Success(at))' = Promise!Success(at)
    BY <2>1
  <2>3. leftover' \subseteq {"stray"} \/ stage' = "closing"
    BY <2>1
  <2> HIDE DEF Promise!Success, Failed
  <2> QED BY <2>1, <2>2, <2>3, Classified
<1>11. ASSUME NEW what \in {"task", "thread", "stray"}, LeftoverEnds(what)
       PROVE  Hand'
  BY <1>11 DEF LeftoverEnds, Running
<1>12. CASE Score
  BY <1>12 DEF Score
<1>13. CASE UNCHANGED vars
  BY <1>13 DEF vars, laneVars
<1> HIDE DEF Hand
<1> QED
  BY <1>1, <1>2, <1>3, <1>4, <1>5, <1>6, <1>7, <1>8, <1>9, <1>10, <1>11, <1>12,
     <1>13 DEF Next, Kernel, Runner, Done

LEMMA HandAlways == Spec => []Hand
<1>1. Init => Hand
  BY DEF Init, LaneInit, Hand, Stages, NothingOutlives, OutcomeTellsWhat
<1> QED BY <1>1, HandStep, PTL DEF Spec

\* When the next trace is replayed, this one is scored or the run is over, no
\* task and no thread of this trace's runner is waited for (kernel_async.py).
THEOREM NothingIsLeft == Spec => []NothingOutlives
<1>1. Hand => NothingOutlives
  BY DEF Hand
<1> QED BY <1>1, HandAlways, PTL

\* What is reported of a trace is what its runner did.
THEOREM OutcomesTellWhat == Spec => []OutcomeTellsWhat
<1>1. Hand => OutcomeTellsWhat
  BY DEF Hand
<1> QED BY <1>1, HandAlways, PTL

-----------------------------------------------------------------------------
\* The traces before it.
Replaying == {"running", "blocking", "cancelling", "closing"}

Accounted ==
  /\ at \in Nat /\ stage \in Stages
  /\ source = "fetching" \/ source = "failed" => at = 0
  /\ source = "failed" => raw = <<>>
  /\ source \in {"fetching", "failed", "listed"}
  /\ at = 0 => stage = "idle"
  /\ at <= Len(raw)
  /\ outcome = [p \in Positions |-> outcome[p]]
  /\ \A p \in Positions : p > at => outcome[p] = Promise!Pending
  /\ stage \in Replaying => outcome[at] = Promise!Pending
  /\ stage = "closing" => result \in Promise!Failures \cup {Promise!Success(at), Exit}
  /\ stage = "scoring" => outcome[at] = Promise!Success(at)
  /\ deltas \cap failures = {}
  /\ deltas \cup failures = 1..(IF stage = "idle" THEN at ELSE at - 1)
  /\ \A p \in deltas : outcome[p] = Promise!Success(p)

LEMMA OutcomeKinds ==
  /\ \A p : Promise!Success(p) # Exit /\ Promise!Success(p) \notin Promise!Failures
  /\ Exit \notin Promise!Failures
BY DEF Promise!Success, Promise!Failures, Exit

LEMMA AccountedStep ==
  Accounted /\ InBound /\ InBound' /\ [Next]_vars => Accounted'
<1> SUFFICES ASSUME Accounted, InBound, InBound', [Next]_vars PROVE Accounted'
  OBVIOUS
<1> USE DEF Accounted, InBound, Stages, Replaying, Positions
<1>1. CASE IntakeNext /\ UNCHANGED laneVars
  <2>1. source = "fetching" /\ at = 0 /\ stage = "idle"
    BY <1>1 DEF IntakeNext, Fetch, FetchSpans, FetchTraces, SourceFails,
       TraceArrives, TraceRemoved
  <2>2. source' \in {"fetching", "failed", "listed"} /\ (source' = "failed" => raw' = <<>>)
    BY <1>1, <2>1 DEF IntakeNext, Fetch, FetchSpans, FetchTraces, SourceFails,
       TraceArrives, TraceRemoved, Listed
  <2> QED BY <1>1, <2>1, <2>2 DEF laneVars
<1>2. CASE StartTrace
  <2>1. /\ source = "listed" /\ stage = "idle" /\ at < Len(raw)
        /\ at' = at + 1 /\ stage' = "running"
        /\ UNCHANGED <<outcome, deltas, failures, source, raw>>
    BY <1>2 DEF StartTrace, intakeVars
  <2>2. at' \in Positions
    BY <2>1
  <2>3. outcome'[at'] = Promise!Pending
    BY <2>1, <2>2
  <2>4. 1..(at' - 1) = 1..at
    BY <2>1
  <2>5. \A q \in Positions : q > at' => q > at
    BY <2>1
  <2>6. at' \in Nat /\ at' <= Len(raw') /\ at' # 0
    BY <2>1
  <2> QED BY <2>1, <2>3, <2>4, <2>5, <2>6
<1>3. CASE GetsLate \/ Expire \/ GiveUpThreads
  BY <1>3 DEF GetsLate, Expire, GiveUpThreads, intakeVars
<1>4. CASE CloseLoop
  <2>1. /\ stage = "closing" /\ at # 0 /\ source = "listed" /\ at \in Positions
        /\ UNCHANGED <<at, deltas, source, raw>>
    BY <1>4 DEF CloseLoop, intakeVars
  <2>2. at \notin deltas \cup failures /\ (1..(at - 1)) \cup {at} = 1..at
    BY <2>1
  <2>3. CASE result = Exit
    <3>1. stage' = "aborted" /\ UNCHANGED <<outcome, failures>>
      BY <1>4, <2>3 DEF CloseLoop
    <3> QED BY <2>1, <3>1
  <2>4. CASE result # Exit
    <3>1. outcome' = [outcome EXCEPT ![at] = result]
      BY <1>4, <2>4 DEF CloseLoop
    <3>2. /\ outcome' = [q \in Positions |-> outcome'[q]] /\ outcome'[at] = result
          /\ \A q \in Positions \ {at} : outcome'[q] = outcome[q]
      BY <2>1, <3>1
    <3>3. deltas \subseteq Positions \ {at}
      BY <2>1
    <3>4. CASE result = Promise!Success(at)
      <4>1. stage' = "scoring" /\ failures' = failures
        BY <1>4, <2>4, <3>4 DEF CloseLoop
      <4>2. \A q \in Positions : q > at => outcome'[q] = Promise!Pending
        BY <2>1, <3>2
      <4>3. \A q \in deltas : outcome'[q] = Promise!Success(q)
        BY <3>2, <3>3
      <4> HIDE DEF Positions
      <4> QED BY <2>1, <3>2, <3>4, <4>1, <4>2, <4>3
    <3>5. CASE result # Promise!Success(at)
      <4>1. stage' = "idle" /\ failures' = failures \cup {at}
        BY <1>4, <2>4, <3>5 DEF CloseLoop
      <4>2. \A q \in Positions : q > at => outcome'[q] = Promise!Pending
        BY <2>1, <3>2
      <4>3. \A q \in deltas : outcome'[q] = Promise!Success(q)
        BY <3>2, <3>3
      <4>4. deltas \cap failures' = {} /\ deltas \cup failures' = 1..at
        BY <2>1, <2>2, <4>1
      <4> HIDE DEF Positions
      <4> QED BY <2>1, <3>2, <4>1, <4>2, <4>3, <4>4
    <3> QED BY <3>4, <3>5
  <2> QED BY <2>3, <2>4
<1>5. ASSUME NEW name \in Names, Lookup(name) PROVE Accounted'
  BY <1>5 DEF Lookup, intakeVars
<1>6. ASSUME NEW what \in {"task", "thread"}, Spawn(what) PROVE Accounted'
  BY <1>6 DEF Spawn, intakeVars
<1>7. CASE Block \/ Yield \/ Swallow
  BY <1>7 DEF Block, Yield, Swallow, intakeVars
<1>8. ASSUME NEW how \in {"output", "miss", "timeout_error", "exception", "exit",
                          "cancelled"}, EndRunner(how)
      PROVE  Accounted'
  BY <1>8, Classified DEF EndRunner, intakeVars
<1>9. ASSUME NEW what \in {"task", "thread", "stray"}, LeftoverEnds(what)
      PROVE  Accounted'
  BY <1>9 DEF LeftoverEnds, intakeVars
<1>10. CASE Score
  <2>1. /\ stage = "scoring" /\ stage' = "idle" /\ at # 0 /\ source = "listed"
        /\ outcome[at] = Promise!Success(at)
        /\ UNCHANGED <<at, outcome, result, source, raw>>
    BY <1>10 DEF Score, intakeVars
  <2>2. at \notin deltas \cup failures /\ (1..(at - 1)) \cup {at} = 1..at
    BY <2>1
  <2>3. \/ deltas' = deltas \cup {at} /\ failures' = failures
        \/ deltas' = deltas /\ failures' = failures \cup {at}
    BY <1>10 DEF Score
  <2> QED BY <2>1, <2>2, <2>3
<1>11. CASE UNCHANGED vars
  BY <1>11 DEF vars, laneVars, intakeVars
<1> HIDE DEF Accounted, InBound
<1> QED
  BY <1>1, <1>2, <1>3, <1>4, <1>5, <1>6, <1>7, <1>8, <1>9, <1>10, <1>11
     DEF Next, Kernel, Runner, Done


LEMMA AccountedAlways == Spec /\ []InBound => []Accounted
<1>1. Init /\ InBound => Accounted
  <2> SUFFICES ASSUME Init, InBound PROVE Accounted
    OBVIOUS
  <2>1. /\ at = 0 /\ stage = "idle" /\ source = "fetching"
        /\ deltas = {} /\ failures = {}
        /\ outcome = [p \in Positions |-> Promise!Pending]
    BY DEF Init, IntakeInit, LaneInit
  <2>2. 1..0 = {} /\ 0 <= Len(raw)
    BY DEF InBound
  <2> QED BY <2>1, <2>2 DEF Accounted, Stages, Replaying, Positions
<1> QED BY <1>1, AccountedStep, PTL DEF Spec

\* A run that is over accounts for every trace it listed, by a delta or by a
\* FailureRecord; only an exit leaves the rest without either.
THEOREM EveryTraceIsCounted == Spec /\ []InBound => []EveryTraceCounts
<1>1. Accounted /\ InBound => EveryTraceCounts
  <2> SUFFICES ASSUME Accounted, InBound, RunOver
               PROVE  /\ deltas \cap failures = {}
                      /\ deltas \cup failures =
                           1..(IF stage = "aborted" THEN at - 1 ELSE Len(raw))
                      /\ \A p \in deltas : outcome[p] = Promise!Success(p)
    BY DEF EveryTraceCounts
  <2>1. CASE stage = "aborted"
    BY <2>1 DEF Accounted
  <2>2. CASE stage # "aborted" /\ source = "failed"
    <3>1. at = 0 /\ stage = "idle" /\ Len(raw) = 0
      BY <2>2 DEF Accounted, Replaying
    <3> QED BY <3>1 DEF Accounted
  <2>3. CASE source = "listed" /\ stage = "idle" /\ at = Len(raw)
    BY <2>3 DEF Accounted
  <2> QED BY <2>1, <2>2, <2>3 DEF RunOver
<1> QED BY <1>1, AccountedAlways, PTL

\* The lane keeps the promise of TraceReplay: a position is settled once, by its
\* own runner's output or by a typed failure.
THEOREM LaneImplementsPromise == Spec /\ []InBound => Delivers
<1>1. Init => Promise!Init
  BY DEF Init, LaneInit, Promise!Init
<1>2. Accounted /\ InBound /\ [Next]_vars => [Promise!Next]_outcome
  <2> SUFFICES ASSUME Accounted, InBound, [Next]_vars, ~(UNCHANGED outcome)
               PROVE  Promise!Next
    OBVIOUS
  <2>1. CloseLoop
    BY DEF Next, Kernel, Runner, Done, StartTrace, GetsLate, Expire,
       GiveUpThreads, Lookup, Spawn, Block, Yield, Swallow, EndRunner,
       LeftoverEnds, Score, laneVars, vars
  <2>2. stage = "closing" /\ result # Exit /\ outcome' = [outcome EXCEPT ![at] = result]
    BY <2>1 DEF CloseLoop
  <2>3. at \in Positions
    BY <2>2 DEF Accounted, InBound, Positions
  <2>4. outcome[at] = Promise!Pending /\ result \in Promise!Failures \cup {Promise!Success(at)}
    BY <2>2 DEF Accounted, Replaying
  <2>5. Promise!Settle(at)
    BY <2>2, <2>4 DEF Promise!Settle
  <2> QED BY <2>3, <2>5 DEF Promise!Next
<1> QED BY <1>1, <1>2, AccountedAlways, PTL DEF Spec, Delivers, Promise!Spec

-----------------------------------------------------------------------------
\* Paging by number over a list that moves.  Read from the top, the list has
\* a part that was asked for already, the first Offset rows.  An arrival moves
\* every row down, so a row of the first part may be a trace not read yet, but
\* only one that came after the start; a deletion moves rows up into that part
\* unread, but never one of it down to be read again.

Offset == (page - 1) * PageLimit

TraceIds == Nat \ {0}
RawTraces == {ProjectTrace(t) : t \in TraceIds}

ReadOnce == \A i, j \in 1..Len(raw) : raw[i].trace = raw[j].trace => i = j

\* While the source is fetching.
Paging ==
  /\ ~removed =>
       /\ Len(log) = LogLength + arrived
       /\ \A i \in 1..Len(log) : log[i] = LogLength + arrived + 1 - i
       /\ \A i \in 1..Len(log) : i <= Offset /\ log[i] <= LogLength => log[i] \in Yielded
  /\ arrived = 0 =>
       /\ \A i, j \in 1..Len(log) : log[i] = log[j] => i = j
       /\ \A i \in 1..Len(log) : i > Offset => log[i] \notin Yielded
       /\ ReadOnce

\* Once it has listed.
Complete ==
  /\ ~removed => \A t \in 1..LogLength : t \in Yielded
  /\ arrived = 0 => ReadOnce

Paged ==
  adapter = "langfuse" =>
    /\ log \in Seq(TraceIds) /\ raw \in Seq(RawTraces)
    /\ arrived \in Nat /\ removed \in BOOLEAN /\ page \in Nat \ {0}
    /\ source = "fetching" => Paging
    /\ source = "listed" => Complete

LEMMA LimitsAreNumbers == PageLimit \in Nat \ {0} /\ LogLength \in Nat /\ Arrivals \in Nat
BY IntakeAssumption DEF IntakeAssumption

\* The ids of the traces listed so far.
LEMMA YieldedByPosition ==
  ASSUME NEW S, raw \in Seq(S)
  PROVE  Yielded = {raw[i].trace : i \in 1..Len(raw)}
BY RangeEquality DEF Yielded

LEMMA PagedInit == Init => Paged
<1> SUFFICES ASSUME Init, adapter = "langfuse" PROVE Paged
  BY DEF Paged
<1>1. log = [i \in 1..LogLength |-> LogLength + 1 - i] /\ raw = <<>>
  BY DEF Init, IntakeInit
<1>2. /\ arrived = 0 /\ removed = FALSE /\ page = 1 /\ source = "fetching"
  BY DEF Init, IntakeInit
<1>3. log \in Seq(TraceIds) /\ Len(log) = LogLength
  <2>1. \A i \in 1..LogLength : LogLength + 1 - i \in TraceIds
    BY LimitsAreNumbers DEF TraceIds
  <2>2. log \in [1..LogLength -> TraceIds]
    BY <1>1, <2>1
  <2> QED BY <2>2, LimitsAreNumbers, FunctionIsSeq
<1>4. raw \in Seq(RawTraces) /\ Len(raw) = 0
  BY <1>1, EmptySeq
<1>5. Yielded = {} /\ Offset = 0
  BY <1>2, <1>4, YieldedByPosition, LimitsAreNumbers DEF Offset
<1>6. Paging
  BY <1>1, <1>2, <1>3, <1>4, <1>5, LimitsAreNumbers DEF Paging, ReadOnce
<1>7. /\ arrived \in Nat /\ removed \in BOOLEAN /\ page \in Nat \ {0}
      /\ source # "listed"
  <2>1. removed \in BOOLEAN
    BY <1>2, Zenon
  <2>2. arrived \in Nat /\ page \in Nat \ {0} /\ source # "listed"
    BY <1>2
  <2> QED BY <2>1, <2>2
<1> QED BY <1>3, <1>4, <1>6, <1>7, Zenon DEF Paged

LEMMA PageCut ==
  ASSUME NEW first \in Nat, NEW last \in Nat, NEW rows \in Nat, last <= rows,
         last <= first + PageLimit, last = first + PageLimit \/ last = rows,
         NEW got, got = IF first + 1 <= last THEN last - (first + 1) + 1 ELSE 0
  PROVE  /\ got <= PageLimit
         /\ got = PageLimit \/ first + got >= rows
         /\ first <= rows => first + got <= rows
         /\ rows < first => got = 0
BY LimitsAreNumbers

\* A page is the rows after the Offset, as far as there are any.
LEMMA PageRows ==
  ASSUME NEW rows \in Seq(TraceIds), NEW first \in Nat, NEW data,
         data = SubSeq(rows, first + 1, AtMost(first + PageLimit, Len(rows)))
  PROVE  /\ data \in Seq(TraceIds) /\ Len(data) \in Nat
         /\ Len(data) <= PageLimit
         /\ Len(data) = PageLimit \/ first + Len(data) >= Len(rows)
         /\ first <= Len(rows) => first + Len(data) <= Len(rows)
         /\ Len(rows) < first => Len(data) = 0
         /\ \A i \in 1..Len(data) : data[i] = rows[first + i]
<1>1. PICK last : last = AtMost(first + PageLimit, Len(rows))
  OBVIOUS
<1>2. /\ Len(rows) \in Nat /\ last \in Nat /\ last <= Len(rows)
      /\ last <= first + PageLimit
      /\ last = first + PageLimit \/ last = Len(rows)
  BY <1>1, LimitsAreNumbers, LenProperties DEF AtMost
<1>3. \A i \in first + 1..last : rows[i] \in TraceIds
  BY <1>2, ElementOfSeq
<1>4. /\ data \in Seq(TraceIds)
      /\ Len(data) = IF first + 1 <= last THEN last - (first + 1) + 1 ELSE 0
      /\ \A i \in 1..last - (first + 1) + 1 : data[i] = rows[first + 1 + i - 1]
  BY <1>1, <1>2, <1>3, SubSeqProperties
<1>5. Len(data) \in Nat
  BY <1>4, LenProperties
<1>6. ASSUME NEW i \in 1..Len(data) PROVE data[i] = rows[first + i]
  <2>1. i \in 1..last - (first + 1) + 1 /\ first + 1 + i - 1 = first + i
    BY <1>2, <1>4
  <2> QED BY <1>4, <2>1
<1>7. /\ Len(data) <= PageLimit
      /\ Len(data) = PageLimit \/ first + Len(data) >= Len(rows)
      /\ first <= Len(rows) => first + Len(data) <= Len(rows)
      /\ Len(rows) < first => Len(data) = 0
  <2>1. Len(data) = IF first + 1 <= last THEN last - (first + 1) + 1 ELSE 0
    BY <1>4
  <2> QED BY <1>2, <2>1, PageCut, Zenon
<1> QED BY <1>4, <1>5, <1>6, <1>7

LEMMA ProjectedRows ==
  ASSUME NEW data \in Seq(TraceIds), NEW new,
         new = [i \in 1..Len(data) |-> ProjectTrace(data[i])]
  PROVE  /\ new \in Seq(RawTraces) /\ Len(new) = Len(data)
         /\ \A i \in 1..Len(data) : new[i].trace = data[i]
<1>1. Len(data) \in Nat /\ \A i \in 1..Len(data) : data[i] \in TraceIds
  BY LenProperties, ElementOfSeq
<1>2. new \in [1..Len(data) -> RawTraces]
  BY <1>1 DEF RawTraces
<1>3. new \in Seq(RawTraces) /\ Len(new) = Len(data)
  BY <1>1, <1>2, FunctionIsSeq
<1>4. \A i \in 1..Len(data) : new[i].trace = data[i]
  BY <1>1 DEF ProjectTrace, RawTrace
<1> QED BY <1>3, <1>4

LEMMA PagedFetch ==
  ASSUME Paged, FetchTraces
  PROVE  Paged'
<1>1. /\ adapter = "langfuse" /\ adapter' = adapter /\ source = "fetching" /\ Paging
      /\ log \in Seq(TraceIds) /\ raw \in Seq(RawTraces) /\ arrived \in Nat
      /\ removed \in BOOLEAN /\ page \in Nat \ {0}
      /\ UNCHANGED <<arrived, removed>>
  BY DEF FetchTraces, Paged
<1>2. PICK first, data, new, all :
        /\ first = Offset
        /\ data = SubSeq(log, first + 1, AtMost(first + PageLimit, Len(log)))
        /\ new = [i \in 1..Len(data) |-> ProjectTrace(data[i])]
        /\ all = raw \o new /\ raw' = all
        /\ \/ LastPage(data) /\ source' = "listed" /\ log' = <<>> /\ page' = 1
           \/ ~LastPage(data) /\ source' = source /\ log' = log /\ page' = page + 1
  BY Zenon DEF FetchTraces, Listed, Offset
<1>3. data = SubSeq(log, first + 1, AtMost(first + PageLimit, Len(log)))
  BY <1>2
<1>4. new = [i \in 1..Len(data) |-> ProjectTrace(data[i])]
  BY <1>2
<1>5. all = raw \o new /\ raw' = all
  BY <1>2
<1>6. log \in Seq(TraceIds)
  BY <1>1
<1>7. first = Offset /\ first \in Nat
  BY <1>1, <1>2, LimitsAreNumbers DEF Offset
<1>8. /\ data \in Seq(TraceIds) /\ Len(data) \in Nat
      /\ Len(data) <= PageLimit
      /\ Len(data) = PageLimit \/ first + Len(data) >= Len(log)
      /\ first <= Len(log) => first + Len(data) <= Len(log)
      /\ Len(log) < first => Len(data) = 0
      /\ \A i \in 1..Len(data) : data[i] = log[first + i]
  <2>1. first \in Nat
    BY <1>7
  <2> QED BY <1>6, <1>3, <2>1, PageRows
<1>9. /\ new \in Seq(RawTraces) /\ Len(new) = Len(data)
      /\ \A i \in 1..Len(data) : new[i].trace = log[first + i]
  <2>1. /\ new \in Seq(RawTraces) /\ Len(new) = Len(data)
        /\ \A i \in 1..Len(data) : new[i].trace = data[i]
    BY <1>4, <1>8, ProjectedRows
  <2> QED BY <1>8, <2>1
<1>10. Len(data) \in Nat
  BY <1>8
<1>11. Len(data) <= PageLimit
  BY <1>8
<1>12. Len(data) = PageLimit \/ first + Len(data) >= Len(log)
  BY <1>8
<1>13. /\ first <= Len(log) => first + Len(data) <= Len(log)
       /\ Len(log) < first => Len(data) = 0
  BY <1>8
<1>14. Len(log) \in Nat /\ Len(raw) \in Nat
  BY <1>1, LenProperties
<1>15. /\ all \in Seq(RawTraces) /\ Len(all) = Len(raw) + Len(data)
      /\ \A i \in 1..Len(all) : all[i] = IF i <= Len(raw) THEN raw[i] ELSE new[i - Len(raw)]
  <2>1. /\ all \in Seq(RawTraces) /\ Len(all) = Len(raw) + Len(new)
        /\ \A i \in 1..Len(raw) + Len(new) :
             all[i] = IF i <= Len(raw) THEN raw[i] ELSE new[i - Len(raw)]
    BY <1>1, <1>5, <1>9, ConcatProperties
  <2> QED BY <1>9, <2>1
<1>16. /\ Yielded = {raw[i].trace : i \in 1..Len(raw)}
      /\ Yielded' = {all[i].trace : i \in 1..Len(all)}
  <2>1. Range(raw) = {raw[i] : i \in 1..Len(raw)}
    BY <1>1, RangeEquality
  <2>2. Range(all) = {all[i] : i \in 1..Len(all)}
    BY <1>15, RangeEquality
  <2>3. Yielded' = {r.trace : r \in Range(all)}
    BY <1>5, Zenon DEF Yielded
  <2>4. Yielded = {r.trace : r \in Range(raw)}
    BY Zenon DEF Yielded
  <2>5. {r.trace : r \in {raw[i] : i \in 1..Len(raw)}} = {raw[i].trace : i \in 1..Len(raw)}
    OBVIOUS
  <2>6. {r.trace : r \in {all[i] : i \in 1..Len(all)}} = {all[i].trace : i \in 1..Len(all)}
    OBVIOUS
  <2> QED BY <2>1, <2>2, <2>3, <2>4, <2>5, <2>6
<1>17. Yielded' = Yielded \cup {log[first + i] : i \in 1..Len(data)}
  <2>1. ASSUME NEW i \in 1..Len(raw) PROVE i \in 1..Len(all) /\ all[i] = raw[i]
    BY <1>10, <1>14, <1>15
  <2>2. ASSUME NEW i \in 1..Len(data)
        PROVE  Len(raw) + i \in 1..Len(all) /\ all[Len(raw) + i].trace = log[first + i]
    <3>1. Len(raw) + i \in 1..Len(all) /\ all[Len(raw) + i] = new[i]
      BY <1>10, <1>14, <1>15
    <3> QED BY <1>9, <3>1
  <2>3. ASSUME NEW j \in 1..Len(all), j > Len(raw)
        PROVE  j - Len(raw) \in 1..Len(data) /\ all[j].trace = log[first + (j - Len(raw))]
    <3>1. j - Len(raw) \in 1..Len(data) /\ all[j] = new[j - Len(raw)]
      BY <1>10, <1>14, <1>15, <2>3
    <3> QED BY <1>9, <3>1
  <2>4. ASSUME NEW j \in 1..Len(all), ~(j > Len(raw)) PROVE j \in 1..Len(raw)
    BY <1>14, <1>15, <2>4
  <2> QED BY <1>16, <2>1, <2>2, <2>3, <2>4
<1>18. ASSUME ~removed, NEW i \in 1..Len(log), i <= first + Len(data), log[i] <= LogLength
      PROVE  log[i] \in Yielded'
  <2>1. CASE i <= first
    BY <1>1, <1>7, <1>17, <1>18, <2>1 DEF Paging
  <2>2. CASE i > first
    <3>1. i - first \in 1..Len(data) /\ first + (i - first) = i
      BY <1>7, <1>10, <1>14, <1>18, <2>2
    <3> QED BY <1>17, <3>1
  <2> QED BY <1>7, <1>14, <2>1, <2>2
<1>19. ASSUME arrived = 0 PROVE ReadOnce'
  <2>1. ASSUME NEW i \in 1..Len(data)
        PROVE  first + i \in 1..Len(log) /\ first + i > Offset /\ log[first + i] \notin Yielded
    <3>1. first + Len(data) <= Len(log)
      BY <1>7, <1>10, <1>13, <1>14
    <3>2. first + i \in 1..Len(log) /\ first + i > Offset
      BY <1>7, <1>10, <1>14, <3>1
    <3> QED BY <1>1, <1>19, <3>2 DEF Paging
  <2>2. \A i, j \in 1..Len(data) : log[first + i] = log[first + j] => i = j
    BY <1>1, <1>7, <1>10, <1>19, <2>1 DEF Paging
  <2>3. ASSUME NEW i \in 1..Len(all), NEW j \in 1..Len(all),
               all[i].trace = all[j].trace, i <= Len(raw)
        PROVE  i = j
    <3>1. CASE j <= Len(raw)
      BY <1>1, <1>14, <1>15, <1>19, <2>3, <3>1 DEF Paging, ReadOnce
    <3>2. CASE j > Len(raw)
      <4>1. j - Len(raw) \in 1..Len(data) /\ all[j] = new[j - Len(raw)]
        BY <1>10, <1>14, <1>15, <3>2
      <4>2. i \in 1..Len(raw) /\ all[i] = raw[i]
        BY <1>14, <1>15, <2>3
      <4>3. raw[i].trace = log[first + (j - Len(raw))]
        BY <1>9, <2>3, <4>1, <4>2
      <4> QED BY <1>16, <2>1, <4>1, <4>2, <4>3
    <3> QED BY <1>14, <1>15, <3>1, <3>2
  <2>4. ASSUME NEW i \in 1..Len(all), NEW j \in 1..Len(all),
               all[i].trace = all[j].trace, i > Len(raw), j > Len(raw)
        PROVE  i = j
    <3>1. /\ i - Len(raw) \in 1..Len(data) /\ j - Len(raw) \in 1..Len(data)
          /\ all[i] = new[i - Len(raw)] /\ all[j] = new[j - Len(raw)]
      BY <1>10, <1>14, <1>15, <2>4
    <3>2. log[first + (i - Len(raw))] = log[first + (j - Len(raw))]
      BY <1>9, <2>4, <3>1
    <3>3. i - Len(raw) = j - Len(raw)
      BY <2>2, <3>1, <3>2
    <3> QED BY <1>14, <1>15, <3>3
  <2>5. \A i, j \in 1..Len(all) : all[i].trace = all[j].trace => i = j
    BY <1>14, <1>15, <2>3, <2>4
  <2> QED BY <1>5, <2>5 DEF ReadOnce
<1>20. CASE LastPage(data)
  <2>1. Len(data) < PageLimit
    BY <1>20 DEF LastPage
  <2>2. first + Len(data) >= Len(log)
    BY <1>10, <1>12, <2>1, LimitsAreNumbers
  <2>3. ASSUME ~removed, NEW t \in 1..LogLength PROVE t \in Yielded'
    <3> DEFINE i == LogLength + arrived + 1 - t
    <3>1. /\ Len(log) = LogLength + arrived
          /\ \A j \in 1..Len(log) : log[j] = LogLength + arrived + 1 - j
      BY <1>1, <2>3 DEF Paging
    <3>2. i \in 1..Len(log) /\ LogLength + arrived + 1 - i = t
      BY <1>1, <2>3, <3>1, LimitsAreNumbers
    <3> HIDE DEF i
    <3>3. log[i] = t /\ i <= first + Len(data)
      BY <1>7, <1>10, <2>2, <3>1, <3>2
    <3> QED BY <1>18, <2>3, <3>2, <3>3
  <2>4. Complete'
    BY <1>1, <1>19, <2>3 DEF Complete
  <2>5. log' \in Seq(TraceIds) /\ page' \in Nat \ {0} /\ source' = "listed"
    <3>1. log' = <<>> /\ page' = 1 /\ source' = "listed"
      BY <1>2, <1>20, Zenon
    <3> QED BY <3>1, EmptySeq
  <2> QED BY <1>1, <1>2, <1>15, <2>4, <2>5 DEF Paged
<1>21. CASE ~LastPage(data)
  <2>1. Len(data) = PageLimit
    BY <1>10, <1>11, <1>21, LimitsAreNumbers DEF LastPage
  <2>2. /\ page' = page + 1 /\ log' = log /\ source' = "fetching"
    BY <1>1, <1>2, <1>21
  <2>3. Offset' = first + Len(data)
    BY <1>1, <1>7, <2>1, <2>2, LimitsAreNumbers DEF Offset
  <2>4. Paging'
    <3>1. ASSUME ~removed
          PROVE  \A i \in 1..Len(log) :
                   i <= Offset' /\ log[i] <= LogLength => log[i] \in Yielded'
      BY <1>18, <2>3, <3>1
    <3>2. ASSUME arrived = 0, NEW i \in 1..Len(log), i > Offset', log[i] \in Yielded'
          PROVE  FALSE
      <4>1. log[i] \notin Yielded
        BY <1>1, <1>7, <1>10, <2>3, <3>2 DEF Paging
      <4>2. PICK k \in 1..Len(data) : log[i] = log[first + k]
        BY <1>17, <3>2, <4>1
      <4>3. first + k \in 1..Len(log) /\ first + k # i
        BY <1>7, <1>10, <1>14, <2>1, <2>3, <3>2
      <4> QED BY <1>1, <3>2, <4>2, <4>3 DEF Paging
    <3>3. ~removed' = ~removed /\ arrived' = arrived
      BY <1>1
    <3> QED BY <1>1, <1>19, <2>2, <3>1, <3>2, <3>3 DEF Paging
  <2>5. page' \in Nat \ {0}
    BY <1>1, <2>2
  <2> QED BY <1>1, <1>2, <1>15, <2>2, <2>4, <2>5 DEF Paged
<1> QED BY <1>20, <1>21

LEMMA PagedArrival ==
  ASSUME Paged, TraceArrives
  PROVE  Paged'
<1> DEFINE t == LogLength + arrived + 1
<1>1. /\ adapter = "langfuse" /\ adapter' = adapter /\ source = "fetching" /\ Paging
      /\ log \in Seq(TraceIds) /\ raw \in Seq(RawTraces) /\ arrived \in Nat
      /\ removed \in BOOLEAN /\ page \in Nat \ {0}
      /\ arrived' = arrived + 1 /\ log' = <<t>> \o log
      /\ UNCHANGED <<removed, page, source, raw>>
  BY DEF TraceArrives, Paged
<1>2. t \in TraceIds /\ <<t>> \in Seq(TraceIds) /\ Len(<<t>>) = 1 /\ <<t>>[1] = t
  BY <1>1, LimitsAreNumbers DEF TraceIds
<1>3. Len(log) \in Nat
  BY <1>1, LenProperties
<1>4. /\ log' \in Seq(TraceIds) /\ Len(log') = Len(log) + 1
      /\ log'[1] = t /\ \A i \in 2..Len(log) + 1 : log'[i] = log[i - 1]
  <2>1. /\ <<t>> \o log \in Seq(TraceIds) /\ Len(<<t>> \o log) = 1 + Len(log)
        /\ \A i \in 1..1 + Len(log) :
             (<<t>> \o log)[i] = IF i <= 1 THEN <<t>>[1] ELSE log[i - 1]
    <3>1. /\ <<t>> \o log \in Seq(TraceIds) /\ Len(<<t>> \o log) = Len(<<t>>) + Len(log)
          /\ \A i \in 1..Len(<<t>>) + Len(log) :
               (<<t>> \o log)[i] = IF i <= Len(<<t>>) THEN <<t>>[i] ELSE log[i - Len(<<t>>)]
      BY <1>1, <1>2, ConcatProperties
    <3> QED BY <1>2, <1>3, <3>1
  <2> HIDE DEF t
  <2> QED BY <1>1, <1>2, <1>3, <2>1
<1>5. Offset' = Offset /\ Offset \in Nat /\ Yielded' = Yielded
  BY <1>1, LimitsAreNumbers DEF Offset, Yielded
<1>6. ASSUME ~removed
      PROVE  /\ Len(log') = LogLength + arrived'
             /\ \A i \in 1..Len(log') : log'[i] = LogLength + arrived' + 1 - i
             /\ \A i \in 1..Len(log') : i <= Offset' /\ log'[i] <= LogLength => log'[i] \in Yielded'
  <2>1. /\ Len(log) = LogLength + arrived
        /\ \A i \in 1..Len(log) : log[i] = LogLength + arrived + 1 - i
        /\ \A i \in 1..Len(log) : i <= Offset /\ log[i] <= LogLength => log[i] \in Yielded
    BY <1>1, <1>6 DEF Paging
  <2>2. Len(log') = LogLength + arrived'
    BY <1>1, <1>4, <2>1, LimitsAreNumbers
  <2>3. \A i \in 1..Len(log') : log'[i] = LogLength + arrived' + 1 - i
    BY <1>1, <1>3, <1>4, <2>1, LimitsAreNumbers
  <2>4. ASSUME NEW i \in 1..Len(log'), i <= Offset', log'[i] <= LogLength
        PROVE  log'[i] \in Yielded'
    <3>1. i # 1
      BY <1>1, <1>4, <2>4, LimitsAreNumbers
    <3>2. i - 1 \in 1..Len(log) /\ log'[i] = log[i - 1]
      BY <1>3, <1>4, <3>1
    <3> QED BY <1>5, <2>1, <2>4, <3>2
  <2> QED BY <2>2, <2>3, <2>4
<1>7. Paging'
  <2>1. arrived' # 0
    BY <1>1
  <2> QED BY <1>1, <1>6, <2>1 DEF Paging
<1> QED BY <1>1, <1>4, <1>7 DEF Paged

LEMMA PagedRemoval ==
  ASSUME Paged, TraceRemoved
  PROVE  Paged'
<1>1. /\ adapter = "langfuse" /\ adapter' = adapter /\ source = "fetching" /\ Paging
      /\ log \in Seq(TraceIds) /\ raw \in Seq(RawTraces) /\ arrived \in Nat
      /\ page \in Nat \ {0} /\ removed' = TRUE
      /\ UNCHANGED <<arrived, page, source, raw>>
  BY DEF TraceRemoved, Paged
<1>2. PICK k \in 1..Len(log) : log' = RemoveAt(log, k)
  BY DEF TraceRemoved
<1>3. Len(log) \in Nat
  BY <1>1, LenProperties
<1>4. /\ log' \in Seq(TraceIds) /\ Len(log') = Len(log) - 1
      /\ \A i \in 1..Len(log') : log'[i] = IF i < k THEN log[i] ELSE log[i + 1]
  <2> DEFINE above == SubSeq(log, 1, k - 1)
             below == SubSeq(log, k + 1, Len(log))
  <2>1. /\ above \in Seq(TraceIds)
        /\ Len(above) = IF 1 <= k - 1 THEN k - 1 - 1 + 1 ELSE 0
        /\ \A i \in 1..k - 1 - 1 + 1 : above[i] = log[1 + i - 1]
    <3>1. \A i \in 1..k - 1 : log[i] \in TraceIds
      BY <1>1, <1>3, ElementOfSeq
    <3> QED BY <1>3, <3>1, SubSeqProperties
  <2>2. /\ below \in Seq(TraceIds)
        /\ Len(below) = IF k + 1 <= Len(log) THEN Len(log) - (k + 1) + 1 ELSE 0
        /\ \A i \in 1..Len(log) - (k + 1) + 1 : below[i] = log[k + 1 + i - 1]
    <3>1. \A i \in k + 1..Len(log) : log[i] \in TraceIds
      BY <1>1, <1>3, ElementOfSeq
    <3> QED BY <1>3, <3>1, SubSeqProperties
  <2>3. log' = above \o below
    BY <1>2 DEF RemoveAt
  <2> HIDE DEF above, below
  <2>4. Len(above) = k - 1 /\ Len(below) = Len(log) - k
    BY <1>3, <2>1, <2>2
  <2>5. /\ log' \in Seq(TraceIds) /\ Len(log') = Len(above) + Len(below)
        /\ \A i \in 1..Len(above) + Len(below) :
             log'[i] = IF i <= Len(above) THEN above[i] ELSE below[i - Len(above)]
    BY <2>1, <2>2, <2>3, ConcatProperties
  <2>6. Len(log') = Len(log) - 1
    BY <1>3, <2>4, <2>5
  <2>7. ASSUME NEW i \in 1..Len(log') PROVE log'[i] = IF i < k THEN log[i] ELSE log[i + 1]
    <3>1. CASE i < k
      <4>1. i \in 1..k - 1 - 1 + 1 /\ 1 + i - 1 = i
        BY <1>3, <2>6, <3>1
      <4>2. above[i] = log[i]
        BY <2>1, <4>1
      <4>3. i \in 1..Len(above) + Len(below) /\ i <= Len(above)
        BY <1>3, <2>4, <2>6, <3>1
      <4> QED BY <2>5, <3>1, <4>2, <4>3
    <3>2. CASE i >= k
      <4>1. /\ i - (k - 1) \in 1..Len(log) - (k + 1) + 1
            /\ k + 1 + (i - (k - 1)) - 1 = i + 1
        BY <1>3, <2>6, <3>2
      <4>2. below[i - (k - 1)] = log[i + 1]
        BY <2>2, <4>1
      <4> QED BY <1>3, <2>4, <2>5, <2>6, <3>2, <4>2
    <3> QED BY <1>3, <2>6, <3>1, <3>2
  <2> QED BY <2>5, <2>6, <2>7
<1>5. Offset' = Offset /\ Offset \in Nat /\ Yielded' = Yielded
  BY <1>1, LimitsAreNumbers DEF Offset, Yielded
<1>6. ASSUME arrived = 0
      PROVE  /\ \A i, j \in 1..Len(log') : log'[i] = log'[j] => i = j
             /\ \A i \in 1..Len(log') : i > Offset => log'[i] \notin Yielded
  <2>1. /\ \A i, j \in 1..Len(log) : log[i] = log[j] => i = j
        /\ \A i \in 1..Len(log) : i > Offset => log[i] \notin Yielded
    BY <1>1, <1>6 DEF Paging
  <2>2. ASSUME NEW i \in 1..Len(log')
        PROVE  \E j \in 1..Len(log) : log'[i] = log[j] /\ j = IF i < k THEN i ELSE i + 1
    <3>1. (IF i < k THEN i ELSE i + 1) \in 1..Len(log)
      BY <1>3, <1>4
    <3>2. log'[i] = log[IF i < k THEN i ELSE i + 1]
      BY <1>3, <1>4
    <3> QED BY <3>1, <3>2
  <2>3. ASSUME NEW i \in 1..Len(log'), NEW j \in 1..Len(log'), log'[i] = log'[j]
        PROVE  i = j
    <3>1. PICK m \in 1..Len(log) : log'[i] = log[m] /\ m = IF i < k THEN i ELSE i + 1
      BY <2>2
    <3>2. PICK n \in 1..Len(log) : log'[j] = log[n] /\ n = IF j < k THEN j ELSE j + 1
      BY <2>2
    <3>3. m = n
      BY <2>1, <2>3, <3>1, <3>2
    <3> QED BY <1>3, <1>4, <3>1, <3>2, <3>3
  <2>4. ASSUME NEW i \in 1..Len(log'), i > Offset
        PROVE  log'[i] \notin Yielded
    <3>1. PICK m \in 1..Len(log) : log'[i] = log[m] /\ m = IF i < k THEN i ELSE i + 1
      BY <2>2
    <3>2. m > Offset
      BY <1>3, <1>4, <1>5, <2>4, <3>1
    <3> QED BY <2>1, <3>1, <3>2
  <2> QED BY <2>3, <2>4
<1>7. Paging'
  BY <1>1, <1>5, <1>6 DEF Paging, ReadOnce
<1> QED BY <1>1, <1>4, <1>7 DEF Paged

\* The steps of the lane do not touch the source.
LEMMA ListStands ==
  ASSUME [Next]_vars
  PROVE  IntakeNext \/ UNCHANGED intakeVars
BY DEF Next, Kernel, Runner, Done, StartTrace, GetsLate, Expire, GiveUpThreads,
   CloseLoop, Lookup, Spawn, Block, Yield, Swallow, EndRunner, LeftoverEnds, Score, vars

LEMMA PagedStep == Paged /\ [Next]_vars => Paged'
<1> SUFFICES ASSUME Paged, [Next]_vars PROVE Paged'
  OBVIOUS
<1>1. CASE UNCHANGED intakeVars
  BY <1>1 DEF intakeVars, Paged, Paging, Complete, Offset, Yielded, ReadOnce
<1>2. CASE FetchSpans
  BY <1>2 DEF FetchSpans, Paged
<1>3. CASE FetchTraces
  BY <1>3, PagedFetch
<1>4. CASE SourceFails
  <2>1. log' = <<>> /\ raw' = <<>> /\ page' = 1 /\ source' = "failed"
        /\ UNCHANGED <<adapter, arrived, removed>>
    BY <1>4 DEF SourceFails
  <2>2. log' \in Seq(TraceIds) /\ raw' \in Seq(RawTraces)
    BY <2>1, EmptySeq
  <2> QED BY <2>1, <2>2 DEF Paged
<1>5. CASE TraceArrives
  BY <1>5, PagedArrival
<1>6. CASE TraceRemoved
  BY <1>6, PagedRemoval
<1> QED BY <1>1, <1>2, <1>3, <1>4, <1>5, <1>6, ListStands DEF IntakeNext, Fetch

\* However many traces arrive and are deleted while langfuse is paged through
\* by number, and whatever the page limit: without a deletion no trace that was
\* there at the start is missed, and without an arrival none is read twice.
THEOREM PagesAreComplete == Spec => []PagesComplete
<1>1. Paged => PagesComplete
  <2> SUFFICES ASSUME Paged, source = "listed", adapter = "langfuse"
               PROVE  /\ ~removed => 1..LogLength \subseteq Yielded
                      /\ arrived = 0 => Len(raw) = Cardinality(Yielded)
    BY DEF PagesComplete
  <2>1. Complete /\ raw \in Seq(RawTraces)
    BY DEF Paged
  <2>2. Len(raw) \in Nat /\ Range(raw) = {raw[i] : i \in 1..Len(raw)}
    BY <2>1, LenProperties, RangeEquality
  <2>3. ASSUME ReadOnce PROVE Len(raw) = Cardinality(Yielded)
    <3> DEFINE f == [i \in 1..Len(raw) |-> raw[i].trace]
    <3>1. f \in Bijection(1..Len(raw), Yielded)
      <4>1. f \in [1..Len(raw) -> Yielded]
        BY <2>2 DEF Yielded
      <4>2. \A i, j \in 1..Len(raw) : f[i] = f[j] => i = j
        BY <2>3 DEF ReadOnce
      <4>3. \A t \in Yielded : \E i \in 1..Len(raw) : f[i] = t
        BY <2>2 DEF Yielded
      <4> HIDE DEF f
      <4> QED BY <4>1, <4>2, <4>3 DEF Bijection, Injection, Surjection, IsInjective
    <3> QED BY <2>2, <3>1, FS_CountingElements DEF ExistsBijection
  <2> QED BY <2>1, <2>3 DEF Complete
<1> QED BY <1>1, PagedInit, PagedStep, PTL DEF Spec

-----------------------------------------------------------------------------
\* Positions.  The k-th of a finite set of positions exists: the least of those
\* with at least k at or before them.  Picked lists what is at them, in order.
LEMMA NthIs ==
  ASSUME NEW I \in SUBSET Nat, IsFiniteSet(I), NEW k \in 1..Cardinality(I)
  PROVE  Nth(I, k) \in I /\ Cardinality({j \in I : j < Nth(I, k)}) = k - 1
<1> DEFINE Under(m) == {j \in I : j < m}
           Low(m) == {j \in I : j <= m}
           Enough == {m \in I : Cardinality(Low(m)) >= k}
<1>1. \A m \in I : /\ Cardinality(Under(m)) \in Nat
                   /\ Cardinality(Low(m)) = Cardinality(Under(m)) + 1
  BY UnderGrows
<1>2. I # {} /\ I \in SUBSET Int
  <2>1. I # {}
    BY FS_EmptySet
  <2>2. \A j \in I : j \in Int
    OBVIOUS
  <2> QED BY <2>1, <2>2
<1>3. Enough # {}
  <2>1. PICK g \in I : \A x \in I : x <= g
    BY <1>2, FiniteSetHasGreatest
  <2>2. Low(g) = I
    BY <2>1
  <2>3. Cardinality(I) >= k
    BY FS_CardinalityType
  <2> QED BY <2>2, <2>3
<1>4. Enough \in SUBSET I /\ Enough \in SUBSET Int /\ IsFiniteSet(Enough)
  BY <1>2, FS_Subset
<1>5. PICK m \in Enough : \A x \in Enough : m <= x
  <2> HIDE DEF Enough
  <2> QED BY <1>3, <1>4, FiniteSetHasLeast
<1>6. m \in I /\ Cardinality(Low(m)) >= k
  OBVIOUS
<1>7. Cardinality(Under(m)) < k
  <2>1. CASE Under(m) = {}
    BY <2>1, FS_EmptySet
  <2>2. CASE Under(m) # {}
    <3>1. Under(m) \in SUBSET I /\ Under(m) \in SUBSET Int /\ IsFiniteSet(Under(m))
      BY <1>2, FS_Subset
    <3>2. PICK e \in Under(m) : \A x \in Under(m) : x <= e
      <4> HIDE DEF Under
      <4> QED BY <2>2, <3>1, FiniteSetHasGreatest
    <3>3. e \in I /\ e < m
      BY <3>2
    <3>4. Under(m) = Low(e)
      <4>1. ASSUME NEW j \in I, j < m PROVE j <= e
        BY <3>2, <4>1
      <4>2. ASSUME NEW j \in I, j <= e PROVE j < m
        <5>1. j \in Nat /\ e \in Nat /\ m \in Nat
          BY <1>6, <3>3
        <5> QED BY <3>3, <4>2, <5>1
      <4> QED BY <4>1, <4>2
    <3>5. e \notin Enough
      <4>1. e \in Int /\ m \in Int
        BY <1>2, <1>6, <3>3
      <4> HIDE DEF Enough
      <4> QED BY <1>5, <3>3, <4>1
    <3>6. ~(Cardinality(Low(e)) >= k)
      BY <3>3, <3>5
    <3>7. Cardinality(Under(m)) \in Nat
      BY <1>1, <1>6
    <3> HIDE DEF Low, Under, Enough
    <3> QED BY <3>4, <3>6, <3>7
  <2> QED BY <2>1, <2>2
<1>8. Cardinality(Under(m)) = k - 1
  <2> HIDE DEF Low, Under, Enough
  <2> QED BY <1>1, <1>6, <1>7
<1> QED BY <1>6, <1>8 DEF Nth

LEMMA NthIsOnto ==
  ASSUME NEW I \in SUBSET Nat, IsFiniteSet(I), NEW i \in I
  PROVE  \E k \in 1..Cardinality(I) : Nth(I, k) = i
<1> DEFINE Under(m) == {j \in I : j < m}
           k == Cardinality(Under(i)) + 1
<1>1. k \in 1..Cardinality(I)
  <2>1. /\ Cardinality(Under(i)) \in Nat
        /\ Cardinality(Under(i)) + 1 <= Cardinality(I)
    BY UnderGrows
  <2>2. Cardinality(I) \in Nat
    BY FS_CardinalityType
  <2> HIDE DEF Under
  <2> QED BY <2>1, <2>2
<1>2. PICK n \in I : n = Nth(I, k) /\ Cardinality(Under(n)) = k - 1
  <2> HIDE DEF k
  <2> QED BY <1>1, NthIs
<1>3. Cardinality(Under(i)) \in Nat /\ Cardinality(Under(n)) = Cardinality(Under(i))
  <2>1. Cardinality(Under(i)) \in Nat
    BY UnderGrows
  <2>2. k = Cardinality(Under(i)) + 1
    OBVIOUS
  <2> HIDE DEF Under, k
  <2> QED BY <1>2, <2>1, <2>2
<1>4. ~(n < i) /\ ~(i < n)
  <2>1. n < i => Cardinality(Under(n)) < Cardinality(Under(i))
    BY UnderGrows
  <2>2. i < n => Cardinality(Under(i)) < Cardinality(Under(n))
    BY UnderGrows
  <2> HIDE DEF Under
  <2> QED BY <1>3, <2>1, <2>2
<1>5. n = i
  <2>1. n \in Nat /\ i \in Nat
    OBVIOUS
  <2> QED BY <1>4, <2>1
<1> QED BY <1>1, <1>2, <1>5

LEMMA PickedIs ==
  ASSUME NEW S, NEW seq \in Seq(S), NEW I \in SUBSET (1..Len(seq))
  PROVE  /\ Picked(seq, I) \in Seq(S)
         /\ Len(Picked(seq, I)) = Cardinality(I) /\ Cardinality(I) \in Nat
         /\ \A k \in 1..Cardinality(I) :
              Nth(I, k) \in I /\ Picked(seq, I)[k] = seq[Nth(I, k)]
         /\ \A i \in I : \E k \in 1..Cardinality(I) : Nth(I, k) = i
         /\ \A k, l \in 1..Cardinality(I) : Nth(I, k) = Nth(I, l) => k = l
<1>1. IsFiniteSet(I) /\ I \in SUBSET Nat /\ Cardinality(I) \in Nat
  <2>1. Len(seq) \in Nat
    BY LenProperties
  <2>2. IsFiniteSet(1..Len(seq))
    BY <2>1, FS_Interval
  <2>3. \A i \in 1..Len(seq) : i \in Nat
    BY <2>1
  <2> QED BY <2>2, <2>3, FS_Subset, FS_CardinalityType
<1>2. \A k \in 1..Cardinality(I) :
        Nth(I, k) \in I /\ Cardinality({j \in I : j < Nth(I, k)}) = k - 1
  BY <1>1, NthIs
<1>3. \A k \in 1..Cardinality(I) : seq[Nth(I, k)] \in S
  BY <1>2, ElementOfSeq
<1>4. Picked(seq, I) \in [1..Cardinality(I) -> S]
  BY <1>3 DEF Picked
<1>5. Picked(seq, I) \in Seq(S) /\ Len(Picked(seq, I)) = Cardinality(I)
  BY <1>1, <1>4, FunctionIsSeq
<1>6. \A k \in 1..Cardinality(I) : Picked(seq, I)[k] = seq[Nth(I, k)]
  BY DEF Picked
<1>7. \A k, l \in 1..Cardinality(I) : Nth(I, k) = Nth(I, l) => k = l
  <2> SUFFICES ASSUME NEW k \in 1..Cardinality(I), NEW l \in 1..Cardinality(I),
                      Nth(I, k) = Nth(I, l)
               PROVE  k = l
    OBVIOUS
  <2>1. k - 1 = l - 1
    BY <1>2
  <2> QED BY <1>1, <2>1
<1> QED BY <1>1, <1>2, <1>5, <1>6, <1>7, NthIsOnto

-----------------------------------------------------------------------------
(* Grouping: enumerations of the spans of a recording                     *)
\* Picking at positions that hold different elements lists them, each once.
LEMMA PickedEnumerates ==
  ASSUME NEW S, NEW s \in Seq(S), NEW I \in SUBSET (1..Len(s)),
         \A i, j \in I : s[i] = s[j] => i = j,
         NEW T, T = {s[i] : i \in I}
  PROVE  Enumerates(Picked(s, I), T)
<1>1. /\ Len(Picked(s, I)) = Cardinality(I) /\ Cardinality(I) \in Nat
      /\ \A k \in 1..Cardinality(I) :
           Nth(I, k) \in I /\ Picked(s, I)[k] = s[Nth(I, k)]
      /\ \A i \in I : \E k \in 1..Cardinality(I) : Nth(I, k) = i
      /\ \A k, l \in 1..Cardinality(I) : Nth(I, k) = Nth(I, l) => k = l
  BY PickedIs
<1>2. Picked(s, I) \in Seq(T)
  <2>1. Picked(s, I) \in [1..Cardinality(I) -> T]
    BY <1>1 DEF Picked
  <2> QED BY <1>1, <2>1, FunctionIsSeq
<1>3. \A x \in T : \E k \in 1..Cardinality(I) : Picked(s, I)[k] = x
  BY <1>1
<1>4. \A k, l \in 1..Cardinality(I) : Picked(s, I)[k] = Picked(s, I)[l] => k = l
  BY <1>1
<1> QED BY <1>1, <1>2, <1>3, <1>4 DEF Enumerates

\* Any order in which a page may deliver a batch.
LEMMA OrderEnumerates ==
  ASSUME NEW B, IsFiniteSet(B), NEW s \in SetToSeqs(B)
  PROVE  Enumerates(s, B)
<1>1. /\ s \in [1..Cardinality(B) -> B]
      /\ \A i, j \in 1..Cardinality(B) : s[i] = s[j] => i = j
  BY DEF SetToSeqs
<1>2. Cardinality(B) \in Nat
  BY FS_CardinalityType
<1>3. s \in Seq(B) /\ Len(s) = Cardinality(B)
  BY <1>1, <1>2, FunctionIsSeq
<1>4. s \in Surjection(1..Cardinality(B), B)
  <2>1. s \in Injection(1..Cardinality(B), B)
    BY <1>1 DEF Injection, IsInjective
  <2>2. Cardinality(1..Cardinality(B)) = Cardinality(B)
    BY <1>2, FS_Interval
  <2> QED BY <2>1, <2>2, FS_Injection
<1>5. \A x \in B : \E i \in 1..Cardinality(B) : s[i] = x
  BY <1>4 DEF Surjection
<1> QED BY <1>1, <1>3, <1>5 DEF Enumerates

\* A group lists the spans of its trace.
LEMMA GroupIs ==
  ASSUME NEW R, NEW all, Enumerates(all, R), NEW t
  PROVE  Enumerates(GroupOf(all, t), {s \in R : s.trace = t})
<1> DEFINE I == {i \in 1..Len(all) : all[i].trace = t}
<1>1. {s \in R : s.trace = t} = {all[i] : i \in I}
  <2>1. \A i \in 1..Len(all) : all[i] \in R
    BY EnumeratedCount
  <2> QED BY <2>1 DEF Enumerates
<1>2. I \in SUBSET (1..Len(all)) /\ all \in Seq(R) /\ \A i, j \in I : all[i] = all[j] => i = j
  BY DEF Enumerates
<1> QED BY <1>1, <1>2, PickedEnumerates DEF GroupOf

\* The keys of spans_by_trace are the trace ids, each at its first span.
LEMMA KeysAre ==
  ASSUME NEW R, NEW all, Enumerates(all, R)
  PROVE  Enumerates(GroupKeys(all), {s.trace : s \in R} \ {NoTrace})
<1> DEFINE I == {i \in 1..Len(all) :
                   /\ all[i].trace # NoTrace
                   /\ \A j \in 1..i - 1 : all[j].trace # all[i].trace}
           T == {s.trace : s \in R}
           ts == TracesOf(all)
<1>1. Len(all) \in Nat /\ \A i \in 1..Len(all) : all[i] \in R
  BY EnumeratedCount
<1>2. ts \in Seq(T) /\ Len(ts) = Len(all) /\ \A i \in 1..Len(all) : ts[i] = all[i].trace
  <2>1. ts \in [1..Len(all) -> T]
    BY <1>1 DEF TracesOf
  <2>2. ts \in Seq(T) /\ Len(ts) = Len(all)
    <3> HIDE DEF ts, T
    <3> QED BY <1>1, <2>1, FunctionIsSeq
  <2> QED BY <2>2 DEF TracesOf
<1>3. ASSUME NEW i \in I, NEW j \in I, ts[i] = ts[j]
      PROVE  i = j
  <2>1. ~(i < j) /\ ~(j < i)
    <3>1. i \in Nat /\ j \in Nat
      BY <1>1
    <3>2. i < j => i \in 1..j - 1
      BY <1>1, <3>1
    <3>3. j < i => j \in 1..i - 1
      BY <1>1, <3>1
    <3> QED BY <1>2, <1>3, <3>2, <3>3
  <2> QED BY <1>1, <2>1
<1>4. ASSUME NEW t \in T \ {NoTrace}
      PROVE  \E i \in I : ts[i] = t
  <2> DEFINE At == {i \in 1..Len(all) : all[i].trace = t}
  <2>1. At # {}
    BY DEF Enumerates
  <2>2. At \in SUBSET Int /\ IsFiniteSet(At)
    <3>1. IsFiniteSet(1..Len(all)) /\ \A i \in 1..Len(all) : i \in Int
      BY <1>1, FS_Interval
    <3> QED BY <3>1, FS_Subset
  <2>3. PICK i \in At : \A j \in At : i <= j
    <3> HIDE DEF At
    <3> QED BY <2>1, <2>2, FiniteSetHasLeast
  <2>4. ASSUME NEW j \in 1..i - 1 PROVE all[j].trace # t
    <3>1. i \in 1..Len(all)
      OBVIOUS
    <3>2. j \in 1..Len(all) /\ ~(i <= j)
      BY <1>1, <3>1
    <3> QED BY <2>3, <3>2
  <2> QED BY <1>2, <2>4
<1>5. T \ {NoTrace} = {ts[i] : i \in I}
  <2>1. \A i \in I : ts[i] \in T \ {NoTrace}
    BY <1>1, <1>2
  <2> HIDE DEF I, ts, T
  <2> QED BY <1>4, <2>1, Zenon
<1>6. I \in SUBSET (1..Len(ts)) /\ GroupKeys(all) = Picked(ts, I)
  BY <1>2 DEF GroupKeys
<1> HIDE DEF I, ts, T
<1>7. Enumerates(Picked(ts, I), T \ {NoTrace})
  BY <1>2, <1>3, <1>5, <1>6, PickedEnumerates
<1> QED BY <1>6, <1>7 DEF T

\* The root of a group is one of its spans, and one without a parent if there is
\* one that no nested orchestration competes with.
LEMMA RootIs ==
  ASSUME NEW G, G # {}, NEW g, Enumerates(g, G)
  PROVE  /\ RootOf(g) \in G
         /\ (\E s \in G : ~s.parent) /\ (\A s \in G : s.parent => ~s.orchestrates)
              => ~RootOf(g).parent
<1> DEFINE roots == {i \in 1..Len(g) : IsRootSpan(g[i])}
<1>1. Len(g) \in Nat /\ \A i \in 1..Len(g) : g[i] \in G
  BY EnumeratedCount
<1>2. CASE roots = {}
  <2>1. RootOf(g) = Head(g)
    BY <1>2 DEF RootOf
  <2>2. Head(g) = g[1] /\ 1 \in 1..Len(g)
    <3>1. PICK i \in 1..Len(g) : TRUE
      BY DEF Enumerates
    <3>2. Len(g) # 0
      BY <1>1, <3>1
    <3>3. g # <<>> /\ g \in Seq(G)
      BY <3>2, EmptySeq DEF Enumerates
    <3> QED BY <1>1, <3>2, <3>3, HeadTailProperties
  <2>3. \A s \in G : s.parent
    <3>1. \A i \in 1..Len(g) : ~IsRootSpan(g[i])
      BY <1>2
    <3>2. \A s \in G : \E i \in 1..Len(g) : g[i] = s
      BY DEF Enumerates
    <3>3. \A s \in G : ~IsRootSpan(s)
      BY <3>1, <3>2, Zenon
    <3> QED BY <3>3, Zenon DEF IsRootSpan
  <2>4. RootOf(g) \in G
    BY <1>1, <2>1, <2>2
  <2> QED BY <2>3, <2>4, Zenon
<1>3. CASE roots # {}
  <2>1. roots \in SUBSET Int /\ IsFiniteSet(roots)
    <3>1. IsFiniteSet(1..Len(g)) /\ \A i \in 1..Len(g) : i \in Int
      BY <1>1, FS_Interval
    <3> QED BY <3>1, FS_Subset
  <2>2. \E i \in roots : \A j \in roots : i <= j
    <3> HIDE DEF roots
    <3> QED BY <1>3, <2>1, FiniteSetHasLeast
  <2>3. Min(roots) \in roots
    <3> HIDE DEF roots
    <3> QED BY <2>2 DEF Min
  <2>4. RootOf(g) = g[Min(roots)]
    BY <1>3 DEF RootOf
  <2>5. Min(roots) \in 1..Len(g) /\ IsRootSpan(g[Min(roots)])
    BY <2>3
  <2> HIDE DEF roots
  <2>6. RootOf(g) \in G /\ IsRootSpan(RootOf(g))
    BY <1>1, <2>4, <2>5
  <2>7. ~RootOf(g).parent \/ RootOf(g).orchestrates
    BY <2>6, Zenon DEF IsRootSpan
  <2> QED BY <2>6, <2>7, Zenon
<1> QED BY <1>2, <1>3

\* The tool spans are the others.
LEMMA ToolsAre ==
  ASSUME NEW G, NEW g, Enumerates(g, G)
  PROVE  Enumerates(ToolSpans(g), G \ {RootOf(g)})
<1> DEFINE I == {i \in 1..Len(g) : g[i] # RootOf(g)}
<1>1. G \ {RootOf(g)} = {g[i] : i \in I}
  <2>1. \A i \in 1..Len(g) : g[i] \in G
    BY EnumeratedCount
  <2> QED BY <2>1 DEF Enumerates
<1>2. I \in SUBSET (1..Len(g)) /\ g \in Seq(G) /\ \A i, j \in I : g[i] = g[j] => i = j
  BY DEF Enumerates
<1>3. ToolSpans(g) = Picked(g, I)
  BY DEF ToolSpans
<1> HIDE DEF I
<1> QED BY <1>1, <1>2, <1>3, PickedEnumerates

\* What is promised of one trace r that is yielded from the spans R.
FromSpans(r, R) ==
  LET own == {s \in R : s.trace = r.trace}
  IN  /\ r.trace # NoTrace /\ r.cohort \in {"failure", "baseline"}
      /\ r.root \in own /\ Enumerates(r.tools, own \ {r.root})
      /\ (r.cohort = "failure") <=> (\E s \in own : s.tagged)
      /\ (\E s \in own : ~s.parent) /\ (\A s \in own : s.parent => ~s.orchestrates)
           => ~r.root.parent

\* Of all of them: the traces of R that have an id, each once.
GroupsOf(traces, R) ==
  /\ Len(traces) \in Nat /\ DOMAIN traces = 1..Len(traces)
  /\ \A i \in 1..Len(traces) : FromSpans(traces[i], R)
  /\ LET found == {traces[i].trace : i \in 1..Len(traces)}
     IN  found = {s.trace : s \in R} \ {NoTrace} /\ Cardinality(found) = Len(traces)

LEMMA GroupProjected ==
  ASSUME NEW R, NEW all, Enumerates(all, R),
         NEW t \in {s.trace : s \in R} \ {NoTrace}
  PROVE  /\ ProjectSpans(GroupOf(all, t)).trace = t
         /\ FromSpans(ProjectSpans(GroupOf(all, t)), R)
<1> DEFINE g == GroupOf(all, t)
           G == {s \in R : s.trace = t}
           r == ProjectSpans(g)
<1>1. Enumerates(g, G)
  BY GroupIs
<1>2. G # {}
  OBVIOUS
<1>3. Head(g).trace = t /\ Range(g) = G
  <2>1. Len(g) \in Nat /\ (\A i \in 1..Len(g) : g[i] \in G) /\ Range(g) = G
    BY <1>1, EnumeratedCount
  <2>2. PICK i \in 1..Len(g) : TRUE
    BY <1>1, <1>2 DEF Enumerates
  <2>3. Len(g) # 0 /\ 1 \in 1..Len(g)
    BY <2>1, <2>2
  <2>4. g # <<>> /\ g \in Seq(G)
    BY <1>1, <2>3, EmptySeq DEF Enumerates
  <2>5. Head(g) = g[1]
    BY <2>4, HeadTailProperties
  <2>6. \A s \in G : s.trace = t
    OBVIOUS
  <2> HIDE DEF g, G
  <2> QED BY <2>1, <2>3, <2>5, <2>6
<1>4. /\ RootOf(g) \in G
      /\ (\E s \in G : ~s.parent) /\ (\A s \in G : s.parent => ~s.orchestrates)
           => ~RootOf(g).parent
  <2> HIDE DEF g, G
  <2> QED BY <1>1, <1>2, RootIs
<1>5. Enumerates(ToolSpans(g), G \ {RootOf(g)})
  <2> HIDE DEF g, G
  <2> QED BY <1>1, ToolsAre
<1>6. /\ r.trace = t /\ r.root = RootOf(g) /\ r.tools = ToolSpans(g)
      /\ r.cohort = IF \E s \in G : s.tagged THEN "failure" ELSE "baseline"
  <2> HIDE DEF g, G
  <2> QED BY <1>3 DEF ProjectSpans, RawTrace
<1>7. /\ r.cohort \in {"failure", "baseline"}
      /\ (r.cohort = "failure") <=> (\E s \in G : s.tagged)
  <2> HIDE DEF g, G, r
  <2>1. CASE \E s \in G : s.tagged
    BY <1>6, <2>1
  <2>2. CASE ~(\E s \in G : s.tagged)
    BY <1>6, <2>2
  <2> QED BY <2>1, <2>2
<1>8. G = {s \in R : s.trace = r.trace}
  BY <1>6
<1> HIDE DEF g, G, r
<1>9. /\ r.root \in G /\ Enumerates(r.tools, G \ {r.root})
      /\ (\E s \in G : ~s.parent) /\ (\A s \in G : s.parent => ~s.orchestrates)
           => ~r.root.parent
  BY <1>4, <1>5, <1>6, Zenon
<1>10. r.trace # NoTrace /\ r.trace = t
  BY <1>6
<1>11. FromSpans(r, R)
  BY <1>7, <1>8, <1>9, <1>10, Zenon DEF FromSpans
<1> QED BY <1>10, <1>11 DEF r, g

LEMMA GroupedAccounts ==
  ASSUME NEW R, NEW all, Enumerates(all, R)
  PROVE  GroupsOf(Grouped(all), R)
<1> DEFINE keys == GroupKeys(all)
           T == {s.trace : s \in R} \ {NoTrace}
           traces == Grouped(all)
           project(t) == ProjectSpans(GroupOf(all, t))
<1>1. Enumerates(keys, T)
  BY KeysAre
<1>2. Len(keys) \in Nat /\ (\A i \in 1..Len(keys) : keys[i] \in T) /\ Cardinality(T) = Len(keys)
  <2> HIDE DEF keys, T
  <2> QED BY <1>1, EnumeratedCount
<1>3. traces = [i \in 1..Len(keys) |-> project(keys[i])]
  BY DEF Grouped
<1>4. \A t \in T : project(t).trace = t /\ FromSpans(project(t), R)
  BY GroupProjected
<1> HIDE DEF keys, T, traces, project
<1>5. DOMAIN traces = 1..Len(keys) /\ Len(traces) = Len(keys)
  <2>1. traces \in [1..Len(keys) -> {project(keys[i]) : i \in 1..Len(keys)}]
    BY <1>3
  <2> QED BY <1>2, <2>1, FunctionIsSeq
<1>6. \A i \in 1..Len(keys) : traces[i].trace = keys[i] /\ FromSpans(traces[i], R)
  BY <1>2, <1>3, <1>4
<1>7. {traces[i].trace : i \in 1..Len(keys)} = T
  <2>1. \A t \in T : \E i \in 1..Len(keys) : keys[i] = t
    BY <1>1 DEF Enumerates
  <2> QED BY <1>2, <1>6, <2>1
<1> QED BY <1>2, <1>5, <1>6, <1>7 DEF GroupsOf, T, traces

\* What was received lists what is no longer pending, each span once; the list
\* of traces is there at once or not at all.
Spanned ==
  adapter = "spans" =>
    /\ recording \in Recordings
    /\ source \in {"fetching", "listed", "failed"}
    /\ source = "fetching" => /\ pending \in SUBSET recording /\ raw = <<>>
                              /\ Enumerates(received, recording \ pending)
    /\ source = "listed" => GroupsOf(raw, recording)
    /\ source = "failed" => raw = <<>>

LEMMA SpannedGivesAccounts ==
  ASSUME Spanned
  PROVE  SpansAccounted
<1> SUFFICES ASSUME source = "listed", adapter = "spans" PROVE SpansAccounted
  BY DEF SpansAccounted
<1>1. GroupsOf(raw, recording) /\ IsFiniteSet(recording)
  BY IntakeAssumption DEF Spanned
<1>2. Range(raw) = {raw[i] : i \in 1..Len(raw)}
  BY <1>1 DEF GroupsOf, Range
<1>3. Yielded = {raw[i].trace : i \in 1..Len(raw)}
  BY <1>2 DEF Yielded
<1>4. Yielded = {s.trace : s \in recording} \ {NoTrace} /\ Len(raw) = Cardinality(Yielded)
  BY <1>1, <1>3 DEF GroupsOf
<1>5. ASSUME NEW r \in Range(raw)
      PROVE  /\ {r.root} \cup Range(r.tools) = SpansOf(r.trace)
             /\ 1 + Len(r.tools) = Cardinality(SpansOf(r.trace))
             /\ (r.cohort = "failure") <=> \E s \in SpansOf(r.trace) : s.tagged
             /\ (\E s \in SpansOf(r.trace) : ~s.parent)
                /\ (\A s \in SpansOf(r.trace) : s.parent => ~s.orchestrates)
                  => ~r.root.parent
  <2> DEFINE own == SpansOf(r.trace)
  <2>1. FromSpans(r, recording)
    BY <1>1, <1>2 DEF GroupsOf
  <2>2. own = {s \in recording : s.trace = r.trace}
    BY DEF SpansOf
  <2>3. IsFiniteSet(own)
    BY <1>1, <2>2, FS_Subset
  <2> HIDE DEF own
  <2>4. r.root \in own /\ Enumerates(r.tools, own \ {r.root})
    BY <2>1, <2>2 DEF FromSpans
  <2>5. Range(r.tools) = own \ {r.root} /\ Len(r.tools) = Cardinality(own \ {r.root})
    BY <2>4, EnumeratedCount
  <2>6. {r.root} \cup Range(r.tools) = own
    BY <2>4, <2>5
  <2>7. 1 + Len(r.tools) = Cardinality(own)
    <3>1. Cardinality(own) \in Nat /\ Cardinality(own \ {r.root}) = Cardinality(own) - 1
      BY <2>3, <2>4, FS_RemoveElement, FS_CardinalityType
    <3> QED BY <2>5, <3>1
  <2>8. /\ (r.cohort = "failure") <=> (\E s \in own : s.tagged)
        /\ (\E s \in own : ~s.parent) /\ (\A s \in own : s.parent => ~s.orchestrates)
           => ~r.root.parent
    BY <2>1, <2>2, Zenon DEF FromSpans
  <2> QED BY <2>6, <2>7, <2>8, Zenon DEF own
<1> QED BY <1>4, <1>5, Zenon DEF SpansAccounted

LEMMA SpannedInit ==
  ASSUME Init
  PROVE  Spanned
<1>1. CASE adapter = "spans"
  <2>1. /\ recording \in Recordings /\ pending = recording /\ received = <<>>
        /\ source = "fetching" /\ raw = <<>>
    BY <1>1 DEF Init, IntakeInit
  <2>2. Enumerates(<<>>, {})
    <3>1. <<>> \in Seq({}) /\ Len(<<>>) = 0
      BY EmptySeq
    <3> QED BY <3>1 DEF Enumerates
  <2>3. recording \ pending = {}
    BY <2>1
  <2> QED BY <2>1, <2>2, <2>3 DEF Spanned
<1>2. CASE adapter # "spans"
  BY <1>2 DEF Spanned
<1> QED BY <1>1, <1>2

\* A page goes from pending to received.  The last one leaves nothing pending: it
\* is all that was, or it is empty, and a page is empty only when nothing is.
LEMMA SpansFetched ==
  ASSUME Spanned, FetchSpans
  PROVE  Spanned'
<1>1. /\ source = "fetching" /\ adapter = "spans"
      /\ adapter' = adapter /\ recording' = recording
  BY DEF FetchSpans
<1>2. /\ recording \in Recordings /\ IsFiniteSet(recording)
      /\ pending \in SUBSET recording /\ raw = <<>>
      /\ Enumerates(received, recording \ pending)
  BY <1>1, IntakeAssumption DEF Spanned
<1>3. IsFiniteSet(pending) /\ Cardinality(pending) \in Nat
  BY <1>2, FS_Subset, FS_CardinalityType
<1>4. PICK batch \in kSubset(AtMost(PageLimit, Cardinality(pending)), pending) :
        \E spans \in SetToSeqs(batch), cursor \in BOOLEAN :
          LET all == received \o spans
          IN /\ pending # batch => cursor
             /\ IF cursor /\ batch # {}
                THEN /\ pending' = pending \ batch /\ received' = all
                     /\ UNCHANGED <<source, raw, log, page>>
                ELSE Listed(Grouped(all))
  BY DEF FetchSpans
<1>5. PICK spans \in SetToSeqs(batch), cursor \in BOOLEAN :
          LET all == received \o spans
          IN /\ pending # batch => cursor
             /\ IF cursor /\ batch # {}
                THEN /\ pending' = pending \ batch /\ received' = all
                     /\ UNCHANGED <<source, raw, log, page>>
                ELSE Listed(Grouped(all))
  BY <1>4
<1> DEFINE all == received \o spans
<1>6. /\ batch \in SUBSET pending /\ IsFiniteSet(batch)
      /\ Cardinality(batch) = AtMost(PageLimit, Cardinality(pending))
  BY <1>3, <1>4, FS_Subset DEF kSubset
<1>7. Enumerates(all, (recording \ pending) \cup batch)
  <2>1. Enumerates(spans, batch)
    BY <1>6, OrderEnumerates
  <2>2. (recording \ pending) \cap batch = {}
    BY <1>6
  <2> QED BY <1>2, <2>1, <2>2, ConcatEnumerates
<1> HIDE DEF all
<1>8. CASE cursor /\ batch # {}
  <2>1. /\ pending' = pending \ batch /\ received' = all
        /\ source' = source /\ raw' = raw
    BY <1>5, <1>8 DEF all
  <2>2. recording \ (pending \ batch) = (recording \ pending) \cup batch
    BY <1>2, <1>6
  <2>3. pending \ batch \in SUBSET recording
    BY <1>2
  <2>4. Enumerates(received', recording' \ pending')
    BY <1>1, <1>7, <2>1, <2>2
  <2> QED BY <1>1, <1>2, <2>1, <2>3, <2>4 DEF Spanned
<1>9. CASE ~(cursor /\ batch # {})
  <2>1. source' = "listed" /\ raw' = Grouped(all)
    BY <1>5, <1>9 DEF Listed, all
  <2>2. pending = batch
    <3>1. CASE ~cursor
      BY <1>5, <3>1
    <3>2. CASE batch = {}
      <4>1. Cardinality(batch) = 0
        BY <3>2, FS_EmptySet
      <4>2. Cardinality(pending) = 0
        BY <1>3, <1>6, <4>1, IntakeAssumption DEF AtMost
      <4> QED BY <1>3, <3>2, <4>2, FS_EmptySet
    <3> QED BY <1>9, <3>1, <3>2
  <2>3. (recording \ pending) \cup batch = recording
    BY <1>2, <2>2
  <2>4. GroupsOf(raw', recording)
    BY <1>7, <2>1, <2>3, GroupedAccounts
  <2>5. source' # "fetching" /\ source' # "failed"
    BY <2>1
  <2> QED BY <1>1, <1>2, <2>1, <2>4, <2>5 DEF Spanned
<1> QED BY <1>8, <1>9

LEMMA SpannedStep ==
  ASSUME Spanned, [Next]_vars
  PROVE  Spanned'
<1> USE DEF vars, intakeVars
<1>1. CASE FetchSpans
  BY <1>1, SpansFetched
<1>2. CASE SourceFails
  <2>1. /\ source' = "failed" /\ raw' = <<>> /\ adapter' = adapter
        /\ recording' = recording
    BY <1>2 DEF SourceFails
  <2>2. source' # "fetching" /\ source' # "listed"
    BY <2>1
  <2> QED BY <2>1, <2>2 DEF Spanned
<1>3. CASE FetchTraces \/ TraceArrives \/ TraceRemoved
  <2>1. adapter = "langfuse" /\ adapter' = adapter
    BY <1>3 DEF FetchTraces, TraceArrives, TraceRemoved
  <2>2. adapter' # "spans"
    BY <2>1
  <2> QED BY <2>2 DEF Spanned
<1>4. CASE UNCHANGED intakeVars
  BY <1>4 DEF Spanned
<1>5. Fetch \/ TraceArrives \/ TraceRemoved \/ UNCHANGED intakeVars
  BY DEF Next, IntakeNext, Kernel, Runner, Done, StartTrace, GetsLate, Expire,
         GiveUpThreads, CloseLoop, Lookup, Spawn, Block, Yield, Swallow,
         EndRunner, LeftoverEnds, Score
<1> QED BY <1>1, <1>2, <1>3, <1>4, <1>5 DEF Fetch

\* However a recording is cut into pages and ordered within them, what
\* iter_traces yields is one RawTrace per trace of it, with that trace's spans
\* and no others, each once, its root and the cohort of its tags.
THEOREM SpansAreAccounted == Spec => []SpansAccounted
<1>1. Init => Spanned
  BY SpannedInit
<1>2. Spanned /\ [Next]_vars => Spanned'
  BY SpannedStep
<1>3. Spanned => SpansAccounted
  BY SpannedGivesAccounts
<1> QED BY <1>1, <1>2, <1>3, PTL DEF Spec

-----------------------------------------------------------------------------
\* The tool cache of the trace at hand.

\* What the cache answers is the last recorded call of that name.
LEMMA CacheHolds ==
  ASSUME NEW spans, Len(spans) \in Nat, NEW name \in DOMAIN BuildToolCache(spans)
  PROVE  \E i \in 1..Len(spans) :
           /\ spans[i] = BuildToolCache(spans)[name]
           /\ spans[i].output /\ spans[i].name = name
           /\ \A j \in i + 1..Len(spans) : spans[j].name = name => ~spans[j].output
<1> DEFINE recorded == {i \in 1..Len(spans) : spans[i].output}
           calls == {i \in recorded : spans[i].name = name}
<1>1. name \in {spans[i].name : i \in recorded} /\ BuildToolCache(spans)[name] = spans[Max(calls)]
  BY DEF BuildToolCache
<1>2. calls # {}
  BY <1>1
<1>3. calls \in SUBSET Int /\ IsFiniteSet(calls)
  <2>1. IsFiniteSet(1..Len(spans)) /\ \A i \in 1..Len(spans) : i \in Int
    BY FS_Interval
  <2> QED BY <2>1, FS_Subset
<1>4. \E m \in calls : \A x \in calls : x <= m
  <2> HIDE DEF calls
  <2> QED BY <1>2, <1>3, FiniteSetHasGreatest
<1>5. \E m \in calls : \A x \in calls : m >= x
  <2>1. \A m, x \in calls : x <= m <=> m >= x
    BY <1>3
  <2> HIDE DEF calls
  <2> QED BY <1>4, <2>1
<1>6. Max(calls) \in calls /\ \A x \in calls : Max(calls) >= x
  <2> HIDE DEF calls
  <2> QED BY <1>5 DEF Max
<1>7. PICK i \in calls : i = Max(calls) /\ \A x \in calls : i >= x
  BY <1>6
<1>8. i \in 1..Len(spans) /\ spans[i].output /\ spans[i].name = name
  BY <1>7, Zenon
<1>9. ASSUME NEW j \in i + 1..Len(spans), spans[j].name = name, spans[j].output
      PROVE  FALSE
  <2>1. j \in 1..Len(spans) /\ ~(i >= j)
    BY <1>8
  <2>2. j \in calls
    BY <1>9, <2>1, Zenon
  <2> QED BY <1>7, <2>1, <2>2
<1> QED BY <1>1, <1>7, <1>8, <1>9, Zenon

\* The list of traces is a sequence, in the shape its adapter gives it.
Projected ==
  /\ adapter \in {"spans", "langfuse"}
  /\ Spanned /\ Paged

LEMMA ProjectedTraces ==
  ASSUME Projected, source = "listed", NEW i \in 1..Len(raw)
  PROVE  /\ Len(raw) \in Nat
         /\ \/ FromSpans(raw[i], recording)
            \/ raw[i].tools = <<>>
<1>1. CASE adapter = "spans"
  BY <1>1 DEF Projected, Spanned, GroupsOf
<1>2. CASE adapter = "langfuse"
  <2>1. raw \in Seq(RawTraces)
    BY <1>2 DEF Projected, Paged
  <2>2. Len(raw) \in Nat /\ raw[i] \in RawTraces
    BY <2>1, LenProperties, ElementOfSeq
  <2> QED BY <2>2 DEF RawTraces, ProjectTrace, RawTrace
<1> QED BY <1>1, <1>2 DEF Projected

\* The cache is that of the trace at hand, and so is every answer.
Owned ==
  /\ at \in Nat /\ stage \in Stages
  /\ at = 0 => stage = "idle" /\ answers = {}
  /\ at # 0 => /\ source = "listed" /\ at \in 1..Len(raw)
               /\ cache = BuildToolCache(raw[at].tools)
  /\ \A a \in answers : \E name \in DOMAIN cache : a = <<name, cache[name]>>

LEMMA OwnedGivesOwn ==
  ASSUME Owned, Projected
  PROVE  CacheIsOwn
<1> SUFFICES ASSUME NEW a \in answers
             PROVE  LET name == a[1] span == a[2] own == raw[at].tools
                    IN /\ span.trace = raw[at].trace /\ span.name = name /\ span.output
                       /\ span # raw[at].root
                       /\ \E i \in 1..Len(own) :
                            /\ own[i] = span
                            /\ \A j \in i + 1..Len(own) : own[j].name = name => ~own[j].output
  BY DEF CacheIsOwn
<1> DEFINE own == raw[at].tools
<1>1. /\ source = "listed" /\ at \in 1..Len(raw) /\ cache = BuildToolCache(own)
  BY DEF Owned
<1>2. PICK name \in DOMAIN cache : a = <<name, cache[name]>>
  BY DEF Owned
<1>3. a[1] = name /\ a[2] = cache[name]
  BY <1>2
<1>4. FromSpans(raw[at], recording)
  <2>1. own # <<>>
    <3>1. ASSUME own = <<>> PROVE FALSE
      <4>1. Len(own) = 0
        BY <3>1
      <4>2. DOMAIN cache = {}
        BY <1>1, <4>1 DEF BuildToolCache
      <4> QED BY <1>2, <4>2
    <3> QED BY <3>1
  <2> QED BY <1>1, <2>1, ProjectedTraces
<1>5. PICK R : R = {s \in recording : s.trace = raw[at].trace}
  OBVIOUS
<1>6. Enumerates(own, R \ {raw[at].root})
  BY <1>4, <1>5 DEF FromSpans
<1>7. Len(own) \in Nat /\ \A i \in 1..Len(own) : own[i] \in R \ {raw[at].root}
  BY <1>6, EnumeratedCount
<1> HIDE DEF own
<1>8. PICK i \in 1..Len(own) :
        /\ own[i] = cache[name] /\ own[i].output /\ own[i].name = name
        /\ \A j \in i + 1..Len(own) : own[j].name = name => ~own[j].output
  BY <1>1, <1>2, <1>7, CacheHolds
<1>9. own[i].trace = raw[at].trace /\ own[i] # raw[at].root
  BY <1>5, <1>7
<1> QED BY <1>3, <1>8, <1>9, Zenon DEF own

LEMMA ProjectedInit == Init => Projected
<1>1. Init => adapter \in {"spans", "langfuse"}
  BY DEF Init, IntakeInit
<1> QED BY <1>1, SpannedInit, PagedInit DEF Projected

LEMMA ProjectedStep == Projected /\ [Next]_vars => Projected'
<1> SUFFICES ASSUME Projected, [Next]_vars PROVE Projected'
  OBVIOUS
<1>1. adapter' = adapter
  BY ListStands DEF IntakeNext, Fetch, FetchSpans, FetchTraces, SourceFails,
     TraceArrives, TraceRemoved, intakeVars
<1> QED BY <1>1, SpannedStep, PagedStep DEF Projected

LEMMA OwnedStep ==
  ASSUME Owned, Projected, [Next]_vars
  PROVE  Owned'
<1> USE DEF Owned, Stages
<1>1. CASE IntakeNext /\ UNCHANGED laneVars
  <2>1. source = "fetching"
    BY <1>1 DEF IntakeNext, Fetch, FetchSpans, FetchTraces, SourceFails,
       TraceArrives, TraceRemoved
  <2>2. at = 0 /\ UNCHANGED <<at, stage, cache, answers>>
    BY <1>1, <2>1 DEF laneVars
  <2> QED BY <2>2
<1>2. CASE StartTrace
  <2>1. /\ source = "listed" /\ at < Len(raw) /\ at' = at + 1 /\ stage' = "running"
        /\ cache' = BuildToolCache(raw[at + 1].tools) /\ answers' = {}
        /\ source' = source /\ raw' = raw
    BY <1>2 DEF StartTrace, intakeVars
  <2>2. Len(raw) \in Nat
    <3>1. CASE adapter = "spans"
      BY <2>1, <3>1 DEF Projected, Spanned, GroupsOf
    <3>2. CASE adapter = "langfuse"
      <4>1. raw \in Seq(RawTraces)
        BY <3>2 DEF Projected, Paged
      <4> QED BY <4>1, LenProperties
    <3> QED BY <3>1, <3>2 DEF Projected
  <2>3. at' \in Nat /\ at' # 0 /\ at' \in 1..Len(raw')
    BY <2>1, <2>2
  <2> QED BY <2>1, <2>3
<1>3. ASSUME NEW name \in Names, Lookup(name) PROVE Owned'
  <2>1. /\ name \in DOMAIN cache /\ answers' = answers \cup {<<name, cache[name]>>}
        /\ stage # "idle" /\ UNCHANGED <<at, stage, cache, source, raw>>
    BY <1>3 DEF Lookup, Running, intakeVars
  <2> QED BY <2>1
<1>4. CASE UNCHANGED <<at, cache, answers, source, raw>> /\ (at # 0 \/ UNCHANGED stage)
           /\ stage' \in Stages
  BY <1>4
<1>5. ASSUME NEW what \in {"task", "thread"}, Spawn(what) PROVE Owned'
  BY <1>4, <1>5 DEF Spawn, intakeVars
<1>6. ASSUME NEW what \in {"task", "thread", "stray"}, LeftoverEnds(what) PROVE Owned'
  BY <1>4, <1>6 DEF LeftoverEnds, intakeVars
<1>7. ASSUME NEW how \in {"output", "miss", "timeout_error", "exception", "exit",
                          "cancelled"}, EndRunner(how)
      PROVE  Owned'
  <2>1. /\ stage # "idle" /\ stage' = "closing"
        /\ UNCHANGED <<at, cache, answers, source, raw>>
    BY <1>7 DEF EndRunner, intakeVars
  <2> QED BY <1>4, <2>1
<1>8. CASE Block \/ Yield \/ Swallow \/ GetsLate \/ Expire \/ GiveUpThreads
  BY <1>4, <1>8 DEF Block, Yield, Swallow, GetsLate, Expire, GiveUpThreads, intakeVars
<1>9. CASE CloseLoop \/ Score
  <2>1. /\ stage # "idle" /\ stage' \in {"aborted", "scoring", "idle"}
        /\ UNCHANGED <<at, cache, answers, source, raw>>
    BY <1>9 DEF CloseLoop, Score, intakeVars
  <2> QED BY <1>4, <2>1
<1>10. CASE UNCHANGED vars
  BY <1>4, <1>10 DEF vars, laneVars, intakeVars
<1> HIDE DEF Owned
<1> QED
  BY <1>1, <1>2, <1>3, <1>5, <1>6, <1>7, <1>8, <1>9, <1>10
     DEF Next, Kernel, Runner, Done

\* Whatever a runner was answered was recorded in the very trace it replays,
\* under that name, by a tool span and by the last call of that tool.
THEOREM RunnersReplayTheirOwn == Spec => []CacheIsOwn
<1>1. Init => Owned
  <2> SUFFICES ASSUME Init PROVE Owned
    OBVIOUS
  <2>1. at = 0 /\ stage = "idle" /\ answers = {}
    BY DEF Init, LaneInit
  <2> QED BY <2>1 DEF Owned, Stages
<1> QED BY <1>1, OwnedStep, OwnedGivesOwn, ProjectedInit, ProjectedStep, PTL DEF Spec

-----------------------------------------------------------------------------
\* Types.

\* What the iterator keeps is gone once the list is complete.
IntakeTyped ==
  /\ page \in Nat \ {0} /\ source \in {"fetching", "listed", "failed"}
  /\ adapter = "langfuse" => recording = {}
  /\ adapter = "langfuse" \/ source # "fetching" => pending = {} /\ received = <<>>

LaneTyped ==
  /\ late \in BOOLEAN /\ expired \in BOOLEAN
  /\ leftover \subseteq {"task", "thread", "stray"}
  /\ ended \in {"", "output", "miss", "timeout_error", "exception", "exit",
                "cancelled"}
  /\ result \in Promise!Failures \cup {Promise!Pending, Exit, Promise!Success(at)}
  /\ \A p \in Positions :
       outcome[p] \in Promise!Failures \cup {Promise!Pending, Promise!Success(p)}

LEMMA IntakeTypedStep ==
  ASSUME Projected, IntakeTyped, [Next]_vars
  PROVE  IntakeTyped'
<1>1. CASE UNCHANGED intakeVars
  BY <1>1 DEF IntakeTyped, intakeVars
<1>2. CASE FetchSpans
  <2>1. /\ adapter = "spans" /\ adapter' = adapter /\ source = "fetching"
        /\ \/ source' = source /\ page' = page
           \/ /\ source' = "listed" /\ page' = 1
              /\ pending' = {} /\ received' = <<>>
    BY <1>2 DEF FetchSpans, Listed
  <2> QED BY <2>1 DEF IntakeTyped
<1>3. CASE FetchTraces
  <2>1. /\ UNCHANGED <<adapter, recording>> /\ source = "fetching"
        /\ \/ UNCHANGED <<source, pending, received>> /\ page' = page + 1
           \/ /\ source' = "listed" /\ page' = 1
              /\ pending' = {} /\ received' = <<>>
    BY <1>3 DEF FetchTraces, Listed
  <2> QED BY <2>1 DEF IntakeTyped
<1>4. CASE SourceFails \/ TraceArrives \/ TraceRemoved
  BY <1>4 DEF IntakeTyped, SourceFails, TraceArrives, TraceRemoved
<1> QED BY <1>1, <1>2, <1>3, <1>4, ListStands DEF IntakeNext, Fetch

LEMMA IntakeIsTyped ==
  ASSUME Projected, IntakeTyped
  PROVE  IntakeOK
<1>1. Range(<<>>) = {}
  BY DEF Range
<1>2. /\ recording \in Recordings \cup {{}}
      /\ pending \subseteq recording /\ Range(received) \subseteq recording
  <2>1. CASE adapter = "spans" /\ source = "fetching"
    <3>1. pending \in SUBSET recording /\ Enumerates(received, recording \ pending)
      BY <2>1 DEF Projected, Spanned
    <3>2. Range(received) = recording \ pending
      BY <3>1, EnumeratedCount
    <3>3. recording \in Recordings
      BY <2>1 DEF Projected, Spanned
    <3> QED BY <3>1, <3>2, <3>3
  <2>2. CASE adapter = "langfuse" \/ source # "fetching"
    <3>1. pending = {} /\ received = <<>>
      BY <2>2 DEF IntakeTyped
    <3>2. recording \in Recordings \cup {{}}
      BY DEF Projected, Spanned, IntakeTyped
    <3> QED BY <1>1, <3>1, <3>2
  <2> QED BY <2>1, <2>2 DEF Projected
<1>3. ASSUME NEW r \in Range(raw)
      PROVE  r.trace # NoTrace /\ r.cohort \in {"failure", "baseline"}
  <2>1. CASE adapter = "langfuse"
    <3>1. raw \in Seq(RawTraces)
      BY <2>1 DEF Projected, Paged
    <3>2. r \in RawTraces
      BY <3>1, ElementOfSeq, RangeEquality
    <3>3. PICK t \in TraceIds : r = ProjectTrace(t)
      BY <3>2 DEF RawTraces
    <3> QED BY <3>3 DEF ProjectTrace, RawTrace, TraceIds, NoTrace
  <2>2. CASE adapter = "spans" /\ source = "listed"
    <3>1. GroupsOf(raw, recording)
      BY <2>2 DEF Projected, Spanned
    <3>2. PICK i \in 1..Len(raw) : r = raw[i]
      BY <3>1 DEF GroupsOf, Range
    <3> QED BY <3>1, <3>2 DEF GroupsOf, FromSpans
  <2>3. CASE adapter = "spans" /\ source # "listed"
    <3>1. raw = <<>>
      BY <2>3 DEF Projected, Spanned, IntakeTyped
    <3> QED BY <1>1, <3>1
  <2> QED BY <2>1, <2>2, <2>3 DEF Projected
<1>4. /\ adapter \in {"spans", "langfuse"} /\ page \in Nat \ {0}
      /\ source \in {"fetching", "listed", "failed"}
  BY DEF Projected, IntakeTyped
<1> QED BY <1>2, <1>3, <1>4 DEF IntakeOK

LEMMA LaneTypedStep ==
  ASSUME LaneTyped, Accounted, InBound, [Next]_vars
  PROVE  LaneTyped'
<1> USE DEF LaneTyped
<1>1. CASE UNCHANGED <<at, late, expired, leftover, ended, result, outcome>>
  BY <1>1
<1>2. CASE StartTrace
  <2>1. /\ late' = FALSE /\ expired' = FALSE /\ ended' = "" /\ result' = Promise!Pending
        /\ UNCHANGED <<leftover, outcome>>
    BY <1>2 DEF StartTrace
  <2>2. result' \in Promise!Failures \cup {Promise!Pending, Exit, (Promise!Success(at))'}
    BY <2>1
  <2>3. late' \in BOOLEAN /\ expired' \in BOOLEAN
    BY <2>1, Zenon
  <2> QED BY <2>1, <2>2, <2>3
<1>3. CASE GetsLate
  BY <1>3 DEF GetsLate
<1>4. CASE Expire
  BY <1>4 DEF Expire
<1>5. CASE GiveUpThreads
  BY <1>5 DEF GiveUpThreads
<1>6. ASSUME NEW what \in {"task", "thread"}, Spawn(what) PROVE LaneTyped'
  BY <1>6 DEF Spawn
<1>7. ASSUME NEW what \in {"task", "thread", "stray"}, LeftoverEnds(what) PROVE LaneTyped'
  BY <1>7 DEF LeftoverEnds
<1>8. ASSUME NEW how \in {"output", "miss", "timeout_error", "exception", "exit",
                          "cancelled"}, EndRunner(how)
      PROVE  LaneTyped'
  <2>1. /\ ended' = how /\ result' = Classify(how)
        /\ UNCHANGED <<at, late, expired, leftover, outcome>>
    BY <1>8 DEF EndRunner
  <2>2. Classify(how) \in Promise!Failures \cup {Promise!Success(at), Exit}
    BY Classified
  <2>3. (Promise!Success(at))' = Promise!Success(at)
    BY <2>1
  <2>4. result' \in Promise!Failures \cup {Promise!Pending, Exit, (Promise!Success(at))'}
    BY <2>1, <2>2, <2>3
  <2> QED BY <2>1, <2>4
<1>9. CASE CloseLoop
  <2>1. /\ stage = "closing"
        /\ UNCHANGED <<at, late, expired, leftover, ended, result>>
    BY <1>9 DEF CloseLoop
  <2>2. CASE result = Exit
    <3>1. outcome' = outcome
      BY <1>9, <2>2 DEF CloseLoop
    <3> QED BY <1>1, <2>1, <3>1
  <2>3. CASE result # Exit
    <3>1. outcome' = [outcome EXCEPT ![at] = result]
      BY <1>9, <2>3 DEF CloseLoop
    <3>2. result \in Promise!Failures \cup {Promise!Success(at)}
      BY <2>1, <2>3 DEF Accounted
    <3>3. outcome = [p \in Positions |-> outcome[p]]
      BY DEF Accounted
    <3>4. \A p \in Positions : outcome'[p] = IF p = at THEN result ELSE outcome[p]
      <4> HIDE DEF LaneTyped
      <4> QED BY <3>1, <3>3
    <3>5. ASSUME NEW p \in Positions
          PROVE  outcome'[p] \in Promise!Failures \cup {Promise!Pending, Promise!Success(p)}
      BY <3>2, <3>4
    <3>6. (Promise!Success(at))' = Promise!Success(at)
      BY <2>1
    <3> QED BY <2>1, <3>5, <3>6
  <2> QED BY <2>2, <2>3
<1>10. CASE (IntakeNext /\ UNCHANGED laneVars) \/ UNCHANGED vars
  BY <1>1, <1>10 DEF vars, laneVars
<1>11. CASE Block \/ Yield \/ Swallow \/ Score
  BY <1>1, <1>11 DEF Block, Yield, Swallow, Score
<1>12. ASSUME NEW name \in Names, Lookup(name) PROVE LaneTyped'
  BY <1>1, <1>12 DEF Lookup
<1> HIDE DEF LaneTyped
<1> QED
  BY <1>2, <1>3, <1>4, <1>5, <1>6, <1>7, <1>8, <1>9, <1>10, <1>11, <1>12
     DEF Next, Kernel, Runner, Done

LEMMA TypesInit ==
  ASSUME Init
  PROVE  IntakeTyped /\ LaneTyped
<1>1. /\ adapter \in {"spans", "langfuse"}
      /\ recording \in IF adapter = "spans" THEN Recordings ELSE {{}}
      /\ pending = recording /\ received = <<>> /\ page = 1 /\ source = "fetching"
  BY DEF Init, IntakeInit
<1>2. /\ late = FALSE /\ expired = FALSE /\ leftover = {} /\ ended = ""
      /\ result = Promise!Pending /\ outcome = [p \in Positions |-> Promise!Pending]
  BY DEF Init, LaneInit
<1>3. IntakeTyped
  BY <1>1 DEF IntakeTyped
<1>4. late \in BOOLEAN /\ expired \in BOOLEAN
  BY <1>2, Zenon
<1>5. \A p \in Positions : outcome[p] = Promise!Pending
  BY <1>2
<1>6. LaneTyped
  BY <1>2, <1>4, <1>5 DEF LaneTyped
<1> QED BY <1>3, <1>6

\* The types, and what bounds the counters: a position is one of the list.
THEOREM TypesHold == Spec /\ []InBound => []TypeOK
<1>1. Accounted /\ InBound /\ Hand /\ Projected /\ IntakeTyped /\ LaneTyped => TypeOK
  <2> SUFFICES ASSUME Accounted, InBound, Hand, Projected, IntakeTyped, LaneTyped
               PROVE  IntakeOK /\ LaneOK
    BY DEF TypeOK
  <2>1. /\ at \in 0..Len(raw) /\ Len(raw) <= MaxTraces
    BY DEF Accounted, InBound
  <2>2. deltas \cup failures \subseteq 1..at
    <3>1. deltas \cup failures = 1..(IF stage = "idle" THEN at ELSE at - 1) /\ at \in Nat
      BY DEF Accounted
    <3> QED BY <3>1
  <2>3. {late, expired} \subseteq BOOLEAN
    BY Zenon DEF LaneTyped
  <2>4. LaneOK
    BY <2>1, <2>2, <2>3, Zenon DEF LaneOK, LaneTyped, Hand, Stages
  <2> QED BY <2>4, IntakeIsTyped
<1> QED BY <1>1, TypesInit, IntakeTypedStep, LaneTypedStep, ProjectedInit,
           ProjectedStep, AccountedAlways, HandAlways, PTL DEF Spec

=============================================================================
