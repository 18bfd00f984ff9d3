----------------------------- MODULE TraceReplay -----------------------------
(***************************************************************************)
(* What replaying a batch of traces promises, whatever lane and whatever   *)
(* concurrency carries it out: every trace gets one outcome, once; an      *)
(* outcome is the runner's output for that very trace or a typed failure   *)
(* (replay/result.py: ReplaySuccess | ReplayFailure, each with its         *)
(* trace_id).  Traces may be settled in any order.                         *)
(***************************************************************************)
CONSTANTS
  Traces,   \* the traces of the batch
  NoTrace   \* not a trace

VARIABLE outcome  \* [Traces -> what the batch reports of each trace]

Pending == [kind |-> "pending", of |-> NoTrace]

\* The output computed for t, and the three codes of ReplayFailure.
Success(t) == [kind |-> "success", of |-> t]
Failures ==
  {[kind |-> code, of |-> NoTrace] :
     code \in {"tool_cache_miss", "runner_timeout", "runner_exception"}}

Init == outcome = [t \in Traces |-> Pending]

Settle(t) ==
  /\ outcome[t] = Pending
  /\ \E o \in Failures \cup {Success(t)} : outcome' = [outcome EXCEPT ![t] = o]

Next == \E t \in Traces : Settle(t)

Spec == Init /\ [][Next]_outcome

=============================================================================
