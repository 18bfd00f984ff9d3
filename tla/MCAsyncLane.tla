---------------------------- MODULE MCAsyncLane -----------------------------
(* Two span recordings: two traces with nested and repeated spans and a span *)
(* without a trace id; and one trace no span of which lacks a parent.       *)
EXTENDS AsyncLane

MCRecordings ==
  {{Span(1, 1, FALSE, TRUE, "", TRUE, FALSE),
    Span(2, 1, TRUE, FALSE, "search", TRUE, FALSE),
    Span(3, 1, TRUE, FALSE, "search", FALSE, TRUE),
    Span(4, 2, FALSE, FALSE, "search", TRUE, FALSE),
    Span(5, NoTrace, FALSE, FALSE, "search", TRUE, TRUE)},
   {Span(1, 1, TRUE, FALSE, "search", TRUE, FALSE),
    Span(2, 1, TRUE, TRUE, "", FALSE, FALSE),
    Span(3, 1, TRUE, FALSE, "search", TRUE, FALSE),
    Span(4, 2, TRUE, FALSE, "send", TRUE, FALSE)}}

MCNames == {"search", "send"}

=============================================================================
