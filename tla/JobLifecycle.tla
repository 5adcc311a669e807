---------------------------- MODULE JobLifecycle ----------------------------
(***************************************************************************)
(* What the job queue promises a user, without Redis keys or attempts: a   *)
(* job is submitted once, runs for at most one device, and ends once, with *)
(* an outcome that never changes.                                          *)
(*                                                                         *)
(* This is the state deriveHostJobState computes for every reader          *)
(* (services/server/src/jobs/v2-service.ts), "expired" apart: an expired   *)
(* job is a queued one whose claim deadline has passed.                    *)
(***************************************************************************)
CONSTANTS
  JobId,      \* job ids
  Device,     \* claimants: a device together with its claim token
  Report,     \* execution reports a runner may send
  OperatorReport(_), \* the report an operator's cancel writes
  None        \* JSON null

VARIABLE life   \* life[j] is what a reader of job j may learn

Absent == [state |-> "absent", owner |-> None, report |-> None]

Init == life = [j \in JobId |-> Absent]

Submit(j) ==
  /\ life[j].state = "absent"
  /\ life' = [life EXCEPT ![j] =
       [state |-> "queued", owner |-> None, report |-> None]]

Claim(j, d) ==
  /\ life[j].state = "queued"
  /\ life' = [life EXCEPT ![j] =
       [state |-> "claimed", owner |-> d, report |-> None]]

Start(j) ==
  /\ life[j].state = "claimed"
  /\ life' = [life EXCEPT ![j] =
       [state |-> "running", owner |-> @.owner, report |-> None]]

(***************************************************************************)
(* The owner's report, or an operator's cancel of a claimed or running     *)
(* job.  A report that says the task was dispatched needs a started job.   *)
(***************************************************************************)
Finish(j, rep) ==
  /\ life[j].state \in {"claimed", "running"}
  /\ rep.task_dispatched => life[j].state = "running"
  /\ life' = [life EXCEPT ![j] =
       [state |-> "terminal", owner |-> @.owner, report |-> rep]]

\* An operator cancels a job nobody has claimed.
Withdraw(j) ==
  /\ life[j].state = "queued"
  /\ life' = [life EXCEPT ![j] =
       [state |-> "terminal", owner |-> None, report |-> None]]

Next ==
  \E j \in JobId :
    \/ Submit(j) \/ Start(j) \/ Withdraw(j)
    \/ \E d \in Device : Claim(j, d)
    \/ \E rep \in Report \cup {OperatorReport(b) : b \in BOOLEAN} :
         Finish(j, rep)

Spec == Init /\ [][Next]_life
=============================================================================
