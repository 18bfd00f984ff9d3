------------------------------- MODULE Intake -------------------------------
(***************************************************************************)
(* How whatifd fork reads the traces of an experiment: run_pipeline lists  *)
(* trace_source.iter_traces() to the end before it replays anything.       *)
(*                                                                         *)
(* The span adapters (whatifd-phoenix, whatifd-datadog) receive one flat   *)
(* stream of spans, in no order the code relies on, and group it: a trace  *)
(* is one root span and the tool spans the tool cache is built from.  The  *)
(* langfuse adapter receives whole traces by page NUMBER, newest first,    *)
(* from a list that other programs add to and delete from meanwhile.       *)
(*                                                                         *)
(* A span is its identity, its trace, the few attributes the code looks at *)
(* and whether an output was recorded; its content is left out.            *)
(***************************************************************************)
EXTENDS Naturals, SequencesExt

CONSTANTS
  Recordings,  \* what a span API may hold: a set of sets of spans
  PageLimit,   \* page_limit: rows asked for in one call
  LogLength,   \* traces langfuse lists when the run starts
  Arrivals,    \* bound: traces recorded while the run pages through them
  Tagged       \* traces with the tag the default classifier looks for

NoTrace == 0   \* the trace id of a span that carries none

AtMost(a, b) == IF a < b THEN a ELSE b

ASSUME IntakeAssumption ==
  /\ PageLimit \in Nat \ {0}
  /\ {LogLength, Arrivals} \subseteq Nat
  /\ \A spans \in Recordings : IsFiniteSet(spans)

VARIABLES
  adapter,    \* source.adapter
  recording,  \* the spans the span API holds
  pending,    \* those it has not delivered
  received,   \* those the adapter received, in order
  log,        \* the traces langfuse lists, newest first
  arrived,    \* ghost: how many were added since the run started
  removed,    \* ghost: whether one was deleted since
  page,       \* the langfuse adapter's page number
  source,     \* "fetching", "listed", or "failed": the call raised
  raw         \* the RawTraces yielded so far

intakeVars ==
  <<adapter, recording, pending, received, log, arrived, removed, page, source,
    raw>>

Span(id, trace, parent, orchestrates, name, output, tagged) ==
  [id |-> id, trace |-> trace, parent |-> parent,
   orchestrates |-> orchestrates, name |-> name, output |-> output,
   tagged |-> tagged]

NoSpan == Span(0, NoTrace, FALSE, FALSE, "", FALSE, FALSE)
RawTrace(trace, root, tools, tagged) ==
  [trace |-> trace, root |-> root, tools |-> tools,
   cohort |-> IF tagged THEN "failure" ELSE "baseline"]

-----------------------------------------------------------------------------
\* Grouping the spans.

\* No parent, or an orchestration kind (CHAIN/AGENT; agent/workflow).
IsRootSpan(s) == ~s.parent \/ s.orchestrates

\* The elements of a sequence at the positions I, in their order.
Nth(I, k) == CHOOSE i \in I : Cardinality({j \in I : j < i}) = k - 1
Picked(seq, I) == [k \in 1..Cardinality(I) |-> seq[Nth(I, k)]]

GroupOf(spans, t) == Picked(spans, {i \in 1..Len(spans) : spans[i].trace = t})

TracesOf(spans) == [i \in 1..Len(spans) |-> spans[i].trace]

\* Mutant: the spans without a trace id make a group too.
AnyKeys(spans) ==
  Picked(TracesOf(spans),
         {i \in 1..Len(spans) : \A j \in 1..i - 1 : spans[j].trace # spans[i].trace})

\* Mutant: a group ends where the next span is of another trace.
RunsOfSpans(spans) ==
  Picked(TracesOf(spans),
         {i \in 1..Len(spans) :
            /\ spans[i].trace # NoTrace
            /\ i > 1 => spans[i - 1].trace # spans[i].trace})

\* The keys of spans_by_trace, in insertion order: where a trace is first seen.
GroupKeys(spans) ==
  Picked(TracesOf(spans),
         {i \in 1..Len(spans) :
            /\ spans[i].trace # NoTrace
            /\ \A j \in 1..i - 1 : spans[j].trace # spans[i].trace})

RootOf(group) ==
  LET roots == {i \in 1..Len(group) : IsRootSpan(group[i])}
  IN  IF roots = {} THEN Head(group) ELSE group[Min(roots)]

\* `s is not root`: identity, the spans of a recording differ in their id.
ToolSpans(group) ==
  Picked(group, {i \in 1..Len(group) : group[i] # RootOf(group)})

ProjectSpans(group) ==
  RawTrace(Head(group).trace, RootOf(group), ToolSpans(group),
           \E s \in Range(group) : s.tagged)

\* What iter_traces yields once the last page is in.
Grouped(spans) ==
  LET keys == GroupKeys(spans)
  IN  [i \in 1..Len(keys) |-> ProjectSpans(GroupOf(spans, keys[i]))]

\* A langfuse trace carries no spans: its tool cache will be empty.
ProjectTrace(t) == RawTrace(t, NoSpan, <<>>, t \in Tagged)

-----------------------------------------------------------------------------
IntakeInit ==
  /\ adapter \in {"spans", "langfuse"}
  /\ recording \in IF adapter = "spans" THEN Recordings ELSE {{}}
  /\ pending = recording /\ received = <<>>
  /\ log = IF adapter = "spans" THEN <<>>
           ELSE [i \in 1..LogLength |-> LogLength + 1 - i]
  /\ arrived = 0 /\ removed = FALSE /\ page = 1
  /\ source = "fetching" /\ raw = <<>>

\* list() has the whole iterator; the adapter's locals are gone.
Listed(traces) ==
  /\ source' = "listed" /\ raw' = traces
  /\ pending' = {} /\ received' = <<>> /\ log' = <<>> /\ page' = 1

\* One page of the Export API (one batch of the phoenix provider), any spans in
\* any order.  It ends where there is no cursor, or with an empty page; spans
\* are grouped once the last page is in.
FetchSpans ==
  /\ source = "fetching" /\ adapter = "spans"
  /\ \E batch \in kSubset(AtMost(PageLimit, Cardinality(pending)), pending) :
     \E spans \in SetToSeqs(batch), cursor \in BOOLEAN :
       LET all == received \o spans
       IN /\ pending # batch => cursor
          /\ IF cursor /\ batch # {}
             THEN /\ pending' = pending \ batch /\ received' = all
                  /\ UNCHANGED <<source, raw, log, page>>
             ELSE Listed(Grouped(all))
  /\ UNCHANGED <<adapter, recording, arrived, removed>>

\* Mutant: the full page ends the iteration too.
AnyPageIsLast(data) == Len(data) <= PageLimit

LastPage(data) == Len(data) < PageLimit

\* trace.list(page=N, limit=L): rows (N-1)*L+1..N*L of the list as it is now.
FetchTraces ==
  /\ source = "fetching" /\ adapter = "langfuse"
  /\ LET first == (page - 1) * PageLimit
         data == SubSeq(log, first + 1, AtMost(first + PageLimit, Len(log)))
         all == raw \o [i \in 1..Len(data) |-> ProjectTrace(data[i])]
     IN IF LastPage(data) THEN Listed(all)
        ELSE /\ raw' = all /\ page' = page + 1
             /\ UNCHANGED <<source, log, pending, received>>
  /\ UNCHANGED <<adapter, recording, arrived, removed>>

\* A call raises (status, network, the provider's own error): list() never
\* returns and run_pipeline raises with it.
SourceFails ==
  /\ source = "fetching"
  /\ source' = "failed" /\ raw' = <<>>
  /\ pending' = {} /\ received' = <<>> /\ log' = <<>> /\ page' = 1
  /\ UNCHANGED <<adapter, recording, arrived, removed>>

\* Meanwhile: the application records a trace, an operator deletes one.
TraceArrives ==
  /\ source = "fetching" /\ adapter = "langfuse"
  /\ arrived < Arrivals
  /\ arrived' = arrived + 1
  /\ log' = <<LogLength + arrived + 1>> \o log
  /\ UNCHANGED <<adapter, recording, pending, received, removed, page, source,
                 raw>>

TraceRemoved ==
  /\ source = "fetching" /\ adapter = "langfuse"
  /\ ~removed
  /\ removed' = TRUE
  /\ \E i \in 1..Len(log) : log' = RemoveAt(log, i)
  /\ UNCHANGED <<adapter, recording, pending, received, arrived, page, source,
                 raw>>

Fetch == FetchSpans \/ FetchTraces \/ SourceFails
IntakeNext == Fetch \/ TraceArrives \/ TraceRemoved

IntakeOK ==
  /\ adapter \in {"spans", "langfuse"} /\ recording \in Recordings \cup {{}}
  /\ pending \subseteq recording /\ Range(received) \subseteq recording
  /\ page \in Nat \ {0}
  /\ source \in {"fetching", "listed", "failed"}
  /\ \A r \in Range(raw) :
       r.trace # NoTrace /\ r.cohort \in {"failure", "baseline"}

-----------------------------------------------------------------------------
Yielded == {r.trace : r \in Range(raw)}
SpansOf(t) == {s \in recording : s.trace = t}

\* However the pages cut and order the stream, no span is lost, counted twice
\* or lent to another trace: each trace of the recording is yielded once, its
\* root and tool spans are exactly its spans, and a tag on any of them (a tool
\* span delivered last, too) puts the trace in the failure cohort.  The root,
\* the span that becomes the user's question and the answer, is one without a
\* parent if there is any and no nested agent or workflow competes with it.
SpansAccounted ==
  source = "listed" /\ adapter = "spans" =>
    /\ Yielded = {s.trace : s \in recording} \ {NoTrace}
    /\ Len(raw) = Cardinality(Yielded)
    /\ \A r \in Range(raw) :
         /\ {r.root} \cup Range(r.tools) = SpansOf(r.trace)
         /\ 1 + Len(r.tools) = Cardinality(SpansOf(r.trace))
         /\ (r.cohort = "failure") <=> \E s \in SpansOf(r.trace) : s.tagged
         /\ (\E s \in SpansOf(r.trace) : ~s.parent)
            /\ (\A s \in SpansOf(r.trace) : s.parent => ~s.orchestrates)
              => ~r.root.parent

\* Paging by number over a moving list: without a deletion every trace that was
\* there at the start is read, without an arrival none is read twice.  (With
\* one, a trace is: it moves to the next page and counts twice in its cohort.)
PagesComplete ==
  source = "listed" /\ adapter = "langfuse" =>
    /\ ~removed => 1..LogLength \subseteq Yielded
    /\ arrived = 0 => Len(raw) = Cardinality(Yielded)

=============================================================================
