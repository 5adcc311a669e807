----------------------------- MODULE MCJobStore -----------------------------
(***************************************************************************)
(* A small job store for TLC.                                              *)
(***************************************************************************)
EXTENDS JobStore, TLC

CONSTANTS j1, j2, a1, a2, d1, d2

\* A success after the start, and a failure from before the task was sent.
MCReport ==
  {[execution_status |-> "COMPLETED", task_dispatched |-> TRUE,
    receipt |-> "runner"],
   [execution_status |-> "FAILED", task_dispatched |-> FALSE,
    receipt |-> "runner"]}

\* Jobs, attempts and devices are only compared for equality.
Symmetric ==
  Permutations({j1, j2}) \cup Permutations({a1, a2})
    \cup Permutations({d1, d2})
=============================================================================
