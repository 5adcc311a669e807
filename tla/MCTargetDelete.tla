--------------------------- MODULE MCTargetDelete ---------------------------
(***************************************************************************)
(* Small instances of project deletion for TLC.                            *)
(***************************************************************************)
EXTENDS TargetDelete

CONSTANTS j1, j2, a1, d1, r1, r2, t1, dg1

\* Two requests of one project.
MCSubmission ==
  {[request |-> r1, target |-> t1, digest |-> dg1, result_target |-> "none"],
   [request |-> r2, target |-> t1, digest |-> dg1, result_target |-> "none"]}

MCCredential == {[device |-> d1, job |-> j1, attempt |-> a1]}

MCReport ==
  {[execution_status |-> "FAILED", task_dispatched |-> FALSE,
    receipt |-> "runner"]}
=============================================================================
