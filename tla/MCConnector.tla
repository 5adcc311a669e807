---------------------------- MODULE MCConnector ----------------------------
(***************************************************************************)
(* Instances of Connector for TLC.                                         *)
(***************************************************************************)
EXTENDS Connector

CONSTANTS Crashes, Losses, OrcaFaults   \* how many faults of each kind

AllFaults == [crash |-> Crashes, lost |-> Losses, orca |-> OrcaFaults]

CloseReceipts == [i \in 1..(Crashes + 1) |-> <<"closed1", "closed2", "closed3">>[i]]

AllReports ==
  [execution_status : {"COMPLETED", "FAILED", "TIMED_OUT", "BLOCKED"},
   task_dispatched  : BOOLEAN,
   receipt          : {"retained", "closed1", "closed2", "closed3"}]
=============================================================================
