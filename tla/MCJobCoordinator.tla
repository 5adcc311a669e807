-------------------------- MODULE MCJobCoordinator --------------------------
(***************************************************************************)
(* Small instances of the job coordinator for TLC.                         *)
(***************************************************************************)
EXTENDS JobCoordinator, TLC

CONSTANTS c1, c2, j1, a1, a2, d1, d2, r1, t1, dg1, dg2

MCCompleted ==
  [execution_status |-> "COMPLETED", task_dispatched |-> TRUE,
   receipt |-> "runner"]
MCFailed ==
  [execution_status |-> "FAILED", task_dispatched |-> FALSE,
   receipt |-> "runner"]

MCReport == {MCCompleted, MCFailed}

\* One request, sent with two contents.
MCTwoContents ==
  {[request |-> r1, target |-> t1, digest |-> dg1, result_target |-> "resource"],
   [request |-> r1, target |-> t1, digest |-> dg2, result_target |-> "none"]}
MCResource ==
  {[request |-> r1, target |-> t1, digest |-> dg1, result_target |-> "resource"]}

\* Each device draws its own attempt id.
MCCredential ==
  {[device |-> d1, job |-> j1, attempt |-> a1],
   [device |-> d2, job |-> j1, attempt |-> a2]}
MCOneOwner == {[device |-> d1, job |-> j1, attempt |-> a1]}

Symmetric == Permutations(Call)
=============================================================================
