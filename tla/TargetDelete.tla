---------------------------- MODULE TargetDelete ----------------------------
(***************************************************************************)
(* TargetDeleteCoordinator of services/server/src/jobs/target-delete.ts:   *)
(* concurrent project deletes beside the calls of JobCoordinator.  A       *)
(* delete arms a fence, scans the whole job stream for live jobs, removes  *)
(* the target's row and releases the fence; each await is a step, and the  *)
(* process may die between any two.  A delete is named by its token.       *)
(*                                                                         *)
(* A fence may go while its delete goes on: its time passes, another       *)
(* delete takes it over, or an overdue DEL meets it.  The delete does not  *)
(* notice.  lapsed and unguarded record where that happened, since what a  *)
(* delete promises it promises under its fence.                            *)
(***************************************************************************)
EXTENDS JobCoordinator

CONSTANTS
  ScanBatch,   \* TARGET_DELETE_STREAM_SCAN_BATCH
  SlowDeletes  \* the deletes that may pause for longer than the fence's TTL:
               \* all of them could, an instance bounds them

ASSUME DeleteAssumption == ScanBatch \in Nat \ {0} /\ SlowDeletes \subseteq FenceToken

VARIABLES
  del,       \* the deletes in flight
  lapsed,    \* the deletes that lost their fence before they removed the row
  unguarded  \* the targets whose row such a delete removed (both history)

allVars == <<job, attempt, targetQueue, stream, requestKey, expired, fence,
             call, row, binding, ledger, del, lapsed, unguarded>>

\* All but the history, which follows from the rest.
deleteVars == <<storeVars, serviceVars, del>>

(***************************************************************************)
(* A delete: its target, the stream entry it has loaded last, the last of  *)
(* the batch it has read and whether that batch was a short one, the       *)
(* deadlines that had passed when the scan began, the expired jobs it met, *)
(* and whether it met a live one.                                          *)
(***************************************************************************)
NoDelete ==
  [at |-> "idle", target |-> None, cursor |-> 0, upTo |-> 0, last |-> FALSE,
   now |-> {}, dead |-> {}, blocked |-> FALSE, outcome |-> "none"]

DeleteInit ==
  /\ CoordInit
  /\ del = [k \in FenceToken |-> NoDelete]
  /\ lapsed = {} /\ unguarded = {}

\* The delete goes on at pc; the fields of its scan are kept.
Proceeds(k, pc) == del' = [del EXCEPT ![k].at = pc]
Ends(k, outcome) ==
  del' = [del EXCEPT ![k] = [NoDelete EXCEPT !.at = "done", !.outcome = outcome]]

-----------------------------------------------------------------------------
\* deleteTargetForDevice: authorization, from the row alone.
BeginDelete(k, t) ==
  /\ del[k].at = "idle" /\ row[t] # "deleted"
  /\ del' = [del EXCEPT ![k].at = "acquire", ![k].target = t]
  /\ UNCHANGED vars

\* deleteTargetInternal: SET NX, tried a second time after a lost takeover.
AcquireFence(k) ==
  LET t == del[k].target IN
  /\ del[k].at \in {"acquire", "reacquire"}
  /\ \/ AcquireTargetDeleteFence(t, k) /\ Proceeds(k, "scan")
     \/ /\ fence[t].token # None
        /\ IF del[k].at = "acquire" THEN Proceeds(k, "contended")
           ELSE Ends(k, "in_progress")
        /\ UNCHANGED storeVars
  /\ UNCHANGED serviceVars

\* handleContendedFence
ContendedRow(k) ==
  /\ del[k].at = "contended"
  /\ IF row[del[k].target] = "deleted" THEN Ends(k, "already_deleted")
     ELSE Proceeds(k, "fence")
  /\ UNCHANGED vars

ContendedFence(k) ==
  /\ del[k].at = "fence"
  /\ IF fence[del[k].target].fresh THEN Ends(k, "in_progress")
     ELSE Proceeds(k, "takeover")
  /\ UNCHANGED vars

TakeOverFence(k) ==
  LET t == del[k].target IN
  /\ del[k].at = "takeover"
  /\ \/ TakeoverStaleTargetDeleteFence(t, k) /\ Proceeds(k, "scan")
     \/ fence[t].token = None /\ Proceeds(k, "reacquire") /\ UNCHANGED storeVars
  /\ UNCHANGED serviceVars

-----------------------------------------------------------------------------
\* verifyTargetQuiescence: one batch of the stream, an empty one ends the scan.
\* The stream only grows, so the entries read are those up to a position.
ScanStream(k) ==
  LET from == del[k].cursor
      upTo == IF from + ScanBatch < Len(stream) THEN from + ScanBatch
              ELSE Len(stream)
  IN
  /\ del[k].at = "scan"
  /\ IF upTo = from THEN Proceeds(k, "prune")
     ELSE del' = [del EXCEPT ![k].at = "load", ![k].upTo = upTo,
            ![k].last = upTo < from + ScanBatch,
            ![k].now = IF from = 0 THEN expired ELSE @]
  /\ UNCHANGED vars

LoadJobSkipsClaimed(k) ==                  \* mutant
  LET j == stream[del[k].cursor + 1] IN
  /\ del[k].at = "load" /\ del[k].cursor < del[k].upTo
  /\ del' = [del EXCEPT ![k].cursor = @ + 1,
       ![k].blocked = @ \/ (job[j].target = del[k].target /\ job[j].status = "queued"
                              /\ j \notin del[k].now)]
  /\ UNCHANGED vars

\* A queued job past its deadline is dead; every other unfinished one blocks.
LoadJob(k) ==
  LET j == stream[del[k].cursor + 1]
      mine == job[j].target = del[k].target
      isDead == mine /\ job[j].status = "queued" /\ j \in del[k].now
  IN
  /\ del[k].at = "load" /\ del[k].cursor < del[k].upTo
  /\ del' = [del EXCEPT ![k].cursor = @ + 1,
       ![k].dead = IF isDead THEN @ \cup {j} ELSE @,
       ![k].blocked = @ \/ (mine /\ ~isDead /\ job[j].status # "terminal")]
  /\ UNCHANGED vars

TouchForgetsCursor(k) ==                   \* mutant
  LET t == del[k].target IN
  /\ del[k].at = "load" /\ del[k].cursor = del[k].upTo
  /\ del' = [del EXCEPT ![k].at = "scan", ![k].cursor = 0]
  /\ TouchTargetDeleteFence(t, k) \/ (fence[t].token # k /\ UNCHANGED storeVars)
  /\ UNCHANGED serviceVars

\* The result of the touch is not looked at; a short batch was the last.
TouchFence(k) ==
  LET t == del[k].target IN
  /\ del[k].at = "load" /\ del[k].cursor = del[k].upTo
  /\ Proceeds(k, IF del[k].last THEN "prune" ELSE "scan")
  /\ TouchTargetDeleteFence(t, k) \/ (fence[t].token # k /\ UNCHANGED storeVars)
  /\ UNCHANGED serviceVars

\* Drops the queue entries of the dead jobs in one ZREM, which may fail.
PruneDead(k) ==
  LET t == del[k].target IN
  /\ del[k].at = "prune"
  /\ Proceeds(k, IF del[k].blocked THEN "release" ELSE "delete")
  /\ ZRemTargetQueue(t, del[k].dead) \/ UNCHANGED storeVars
  /\ UNCHANGED serviceVars

\* deleteExecutionTargetRow: the row and, by cascade, its bindings.
DeleteRow(k) ==
  LET t == del[k].target IN
  /\ del[k].at = "delete"
  /\ row' = [row EXCEPT ![t] = "deleted"]
  /\ binding' = [d \in Device, u \in Target |->
                   IF u = t THEN "none" ELSE binding[d, u]]
  /\ del' = [del EXCEPT ![k].at = "release", ![k].outcome =
               IF row[t] = "deleted" THEN "already_deleted" ELSE "deleted"]
  /\ UNCHANGED <<storeVars, call, ledger>>

-----------------------------------------------------------------------------
\* releaseTargetDeleteFence: a GET, and a DEL if the token was still ours.
ReleaseRead(k) ==
  /\ del[k].at = "release"
  /\ IF fence[del[k].target].token = k THEN Proceeds(k, "unfence")
     ELSE Ends(k, IF del[k].blocked THEN "blocked" ELSE del[k].outcome)
  /\ UNCHANGED vars

ReleaseFence(k) ==
  LET t == del[k].target IN
  /\ del[k].at = "unfence"
  /\ Ends(k, IF del[k].blocked THEN "blocked" ELSE del[k].outcome)
  /\ DeleteFenceKey(t) \/ (fence[t].token = None /\ UNCHANGED storeVars)
  /\ UNCHANGED serviceVars

\* The process dies, and no finally block runs.
DeleteDies(k) ==
  /\ del[k].at \notin {"idle", "done"}
  /\ Ends(k, "died")
  /\ UNCHANGED vars

DeleteStep(k) ==
  \/ AcquireFence(k) \/ ContendedRow(k) \/ ContendedFence(k) \/ TakeOverFence(k)
  \/ ScanStream(k) \/ LoadJob(k) \/ TouchFence(k) \/ PruneDead(k)
  \/ DeleteRow(k) \/ ReleaseRead(k) \/ ReleaseFence(k)

InFlight(k) == del[k].at \notin {"idle", "done"}

FenceAges(t) ==
  /\ \A k \in FenceToken \ SlowDeletes : fence[t].token = k => ~InFlight(k)
  /\ FenceGoesStale(t) \/ FenceExpires(t)
  /\ UNCHANGED <<serviceVars, del>>

DeadlinePasses(j) == ClaimDeadlinePasses(j) /\ UNCHANGED <<serviceVars, del>>

\* Where a delete relies on its fence, and what is remembered of one that did not
\* have it.
Guarded == {"scan", "load", "prune", "delete"}

Lapses ==
  /\ lapsed' = {k \in FenceToken : del'[k].at \in Guarded /\
                   (k \in lapsed \/ fence'[del'[k].target] # Armed(k))}
  /\ unguarded' = unguarded \cup
       {t \in Target : row[t] # "deleted" /\ \E k \in lapsed :
          del[k].at = "delete" /\ del[k].target = t /\ del'[k].at = "release"}

DeleteNext ==
  /\ \/ ServiceStep /\ UNCHANGED del
     \/ \E k \in FenceToken :
          DeleteStep(k) \/ DeleteDies(k) \/ (\E t \in Target : BeginDelete(k, t))
     \/ \E t \in Target : FenceAges(t)
     \/ \E j \in JobId : DeadlinePasses(j)
  /\ Lapses

DeleteSpec == DeleteInit /\ [][DeleteNext]_allVars

Orphaned(t) == \A k \in FenceToken : fence[t].token = k => ~InFlight(k)

\* The event loop runs every delete that is alive.  Time passes, but only a fence
\* whose delete is gone is sure to get old.
FairDeleteSpec ==
  /\ DeleteSpec
  /\ \A k \in FenceToken : WF_deleteVars(DeleteStep(k))
  /\ \A t \in Target : WF_deleteVars(FenceAges(t) /\ Orphaned(t))

-----------------------------------------------------------------------------
LiveOn(t) ==
  {j \in JobId : /\ job[j].target = t
                 /\ \/ job[j].status = "active"
                    \/ job[j].status = "queued" /\ j \notin expired}

(***************************************************************************)
(* A delete removes a project's row only at a moment when the project has  *)
(* no job that is claimed, running or still claimable, although it looked  *)
(* at the jobs one by one, some time before: if it has held its fence from *)
(* the scan to the removal, as verifyTargetQuiescence requires ("MUST run  *)
(* while the caller holds the fresh fence").                               *)
(***************************************************************************)
DeletesOnlyQuiet ==
  [][\A t \in Target :
       row'[t] = "deleted" /\ row[t] # "deleted" /\ t \notin unguarded' =>
         LiveOn(t) = {}]_allVars

(***************************************************************************)
(* The fence is never a permanent tombstone: whether the delete is         *)
(* blocked, fails or dies, submissions and claims go through again.        *)
(***************************************************************************)
FenceHeals == \A t \in Target : fence[t].fresh ~> ~fence[t].fresh

(***************************************************************************)
(* No device is ever given work on a project that was removed under its    *)
(* delete's fence, although submit and claim check the row and its binding *)
(* some awaits before their script.  A submission that checked the row     *)
(* before the delete may still leave a queued job on it, which nobody can  *)
(* claim.                                                                  *)
(***************************************************************************)
NothingRunsOnDeleted ==
  \A j \in JobId : job[j].status = "active" =>
    row[job[j].target] # "deleted" \/ job[j].target \in unguarded
=============================================================================
