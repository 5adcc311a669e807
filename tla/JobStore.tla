------------------------------ MODULE JobStore ------------------------------
(***************************************************************************)
(* The Redis job store of services/server/src/jobs: one action per Lua     *)
(* script of v2-assignment-script.ts and per plain Redis command that      *)
(* v2-store.ts issues.  A script runs to completion without interruption,  *)
(* so each is one step; an error reply mutates nothing and is a stutter.   *)
(*                                                                         *)
(* A "device" is a device id together with the claim token it sends: the   *)
(* scripts always compare the two together.  Workspace and user ids are    *)
(* constant here; time is what the scripts learn from it: whether a job's  *)
(* claim deadline has passed, and whether a delete fence is fresh.         *)
(***************************************************************************)
EXTENDS Sequences, FiniteSets

CONSTANTS
  JobId, AttemptId, Device, Target, RequestId,
  Digest,       \* business digests of submissions
  Payload,      \* digests of managed results
  Report,       \* execution reports a runner may send
  FenceToken,   \* tokens of project-delete operations
  None          \* JSON null

ExecutionStatus ==
  {"COMPLETED", "FAILED", "TIMED_OUT", "CANCELLED", "BLOCKED", "INTERRUPTED"}

(***************************************************************************)
(* The fields of a report that the scripts act on; "receipt" stands for    *)
(* everything else a replay compares (times, executor, error, digest).     *)
(***************************************************************************)
IsReport(rep) ==
  /\ DOMAIN rep = {"execution_status", "task_dispatched", "receipt"}
  /\ rep.execution_status \in ExecutionStatus
  /\ rep.task_dispatched \in BOOLEAN

\* The synthetic report of an operator's cancel.
OperatorReport(dispatched) ==
  [execution_status |-> "CANCELLED", task_dispatched |-> dispatched,
   receipt |-> "operator"]

ASSUME ReportAssumption ==
  \A rep \in Report : IsReport(rep) /\ rep.receipt # "operator"

ASSUME NoneAssumption ==
  None \notin JobId \cup AttemptId \cup Device \cup Payload
                    \cup FenceToken \cup RequestId \cup Target \cup Digest
                    \cup Report \cup {OperatorReport(b) : b \in BOOLEAN}

VARIABLES
  job,          \* ceo:job:v2:<id>          job records
  attempt,      \* ceo:attempt:v1:<id>      attempt records
  targetQueue,  \* ceo:target:v1:<id>:jobs  the ids a device may poll
  stream,       \* ceo:jobs:stream:v2       every job ever submitted
  requestKey,   \* ceo:request:v2:...       request id to job id
  expired,      \* the jobs whose claim_deadline_ms has passed
  fence         \* ceo:target:delete-fence:v1:<id>

storeVars ==
  <<job, attempt, targetQueue, stream, requestKey, expired, fence>>

JobRecord ==
  [status        : {"none", "queued", "active", "terminal"},
   request       : RequestId \cup {None},
   digest        : Digest \cup {None},
   target        : Target \cup {None},
   result_target : {"none", "resource"},
   latest        : AttemptId \cup {None},   \* latest_attempt_id
   cancel        : Device \cup {None}]      \* the operator-cancel record

AnyReport == Report \cup {OperatorReport(b) : b \in BOOLEAN}

AttemptRecord ==
  [phase   : {"none", "claimed", "running", "terminal"},
   job     : JobId \cup {None},
   device  : Device \cup {None},
   started : BOOLEAN,                       \* started_at_ms is set
   report  : AnyReport \cup {None},
   result  : Payload \cup {None}]

NoJob ==
  [status |-> "none", request |-> None, digest |-> None, target |-> None,
   result_target |-> "none", latest |-> None, cancel |-> None]

NoAttempt ==
  [phase |-> "none", job |-> None, device |-> None, started |-> FALSE,
   report |-> None, result |-> None]

\* What the scripts write into a job record and into an attempt record.
NewJob(r, t, dg, rt) ==
  [status |-> "queued", request |-> r, digest |-> dg, target |-> t,
   result_target |-> rt, latest |-> None, cancel |-> None]
Activated(rec, a) == [rec EXCEPT !.status = "active", !.latest = a]
Ended(rec)        == [rec EXCEPT !.status = "terminal"]
Cancelled(rec, d) == [rec EXCEPT !.status = "terminal", !.cancel = d]

NewAttempt(j, d) ==
  [phase |-> "claimed", job |-> j, device |-> d, started |-> FALSE,
   report |-> None, result |-> None]
Started(att)       == [att EXCEPT !.phase = "running", !.started = TRUE]
Reported(att, rep) == [att EXCEPT !.phase = "terminal", !.report = rep]
WithResult(att, p) == [att EXCEPT !.result = p]

FenceRecord == [token : FenceToken \cup {None}, fresh : BOOLEAN]
NoFence == [token |-> None, fresh |-> FALSE]
Armed(k) == [token |-> k, fresh |-> TRUE]

\* Every Redis key holds a record of its shape: the job and attempt hashes, the
\* queue, the device indexes and the fences (v2-store.ts).
TypeOK ==
  /\ job \in [JobId -> JobRecord]
  /\ attempt \in [AttemptId -> AttemptRecord]
  /\ targetQueue \in [Target -> SUBSET JobId]
  /\ stream \in Seq(JobId)
  /\ requestKey \in [RequestId -> JobId \cup {None}]
  /\ expired \in SUBSET JobId
  /\ fence \in [Target -> FenceRecord]

Init ==
  /\ job = [j \in JobId |-> NoJob]
  /\ attempt = [a \in AttemptId |-> NoAttempt]
  /\ targetQueue = [t \in Target |-> {}]
  /\ stream = <<>>
  /\ requestKey = [r \in RequestId |-> None]
  /\ expired = {}
  /\ fence = [t \in Target |-> NoFence]

-----------------------------------------------------------------------------
(***************************************************************************)
(* Time.  claim_deadline_ms is stamped seven days after submission; Redis  *)
(* drops a fence key a TTL after it was last armed, and a fence may look   *)
(* stale a little earlier, since it is stamped with the server's clock and *)
(* read against the clock of Redis.                                        *)
(***************************************************************************)
ClaimDeadlinePasses(j) ==
  /\ job[j].status # "none" /\ j \notin expired
  /\ expired' = expired \cup {j}
  /\ UNCHANGED <<job, attempt, targetQueue, stream, requestKey, fence>>

FenceGoesStale(t) ==
  /\ fence[t].fresh
  /\ fence' = [fence EXCEPT ![t] = [@ EXCEPT !.fresh = FALSE]]
  /\ UNCHANGED <<job, attempt, targetQueue, stream, requestKey, expired>>

FenceExpires(t) ==
  /\ fence[t].token # None
  /\ fence' = [fence EXCEPT ![t] = NoFence]
  /\ UNCHANGED <<job, attempt, targetQueue, stream, requestKey, expired>>

-----------------------------------------------------------------------------
(***************************************************************************)
(* V2_CREATE_JOB_SCRIPT.  The record is written as "preparing" and then as *)
(* "queued" within the script, so no reader ever meets the first.          *)
(***************************************************************************)
CreateAcceptsAnyRequest(r, j, t) ==        \* mutant
  ~fence[t].fresh /\ job[j].status = "none"

CreateAccepts(r, j, t) ==
  requestKey[r] = None /\ ~fence[t].fresh /\ job[j].status = "none"

CreateJobLeftPreparing(r, j, t, dg, rt) == \* mutant
  /\ CreateAccepts(r, j, t)
  /\ requestKey' = [requestKey EXCEPT ![r] = j]
  /\ job' = [job EXCEPT ![j] =
       [NewJob(r, t, dg, rt) EXCEPT !.status = "preparing"]]
  /\ stream' = Append(stream, j)
  /\ targetQueue' = [targetQueue EXCEPT ![t] = @ \cup {j}]
  /\ UNCHANGED <<attempt, expired, fence>>

CreateJob(r, j, t, dg, rt) ==
  /\ CreateAccepts(r, j, t)
  /\ requestKey' = [requestKey EXCEPT ![r] = j]
  /\ job' = [job EXCEPT ![j] = NewJob(r, t, dg, rt)]
  /\ stream' = Append(stream, j)
  /\ targetQueue' = [targetQueue EXCEPT ![t] = @ \cup {j}]
  /\ UNCHANGED <<attempt, expired, fence>>

(***************************************************************************)
(* V2_CLAIM_JOB_SCRIPT.  A fresh fence refuses every claim, replays too.   *)
(* A claim by the current attempt replays; any other needs a queued job.   *)
(***************************************************************************)
ClaimReaches(j, t) ==
  ~fence[t].fresh /\ job[j].status # "none" /\ job[j].target = t

ClaimReplays(j, t, d, a) ==
  /\ ClaimReaches(j, t)
  /\ job[j].latest = a
  /\ attempt[a].job = j /\ attempt[a].device = d
  /\ attempt[a].phase \in {"claimed", "running"}

ClaimAnyStatus(j, t, a) ==                 \* mutant
  ClaimReaches(j, t) /\ job[j].latest # a /\ job[j].status # "none"

ClaimMayOwn(j, t, a) ==
  ClaimReaches(j, t) /\ job[j].latest # a /\ job[j].status = "queued"

ClaimReusesAttempt(j, t, a) ==             \* mutant
  ClaimMayOwn(j, t, a) /\ j \notin expired

ClaimAccepts(j, t, a) ==
  ClaimMayOwn(j, t, a) /\ j \notin expired /\ attempt[a].phase = "none"

ClaimJob(j, t, d, a) ==
  /\ ClaimAccepts(j, t, a)
  /\ attempt' = [attempt EXCEPT ![a] = NewAttempt(j, d)]
  /\ job' = [job EXCEPT ![j] = Activated(@, a)]
  /\ targetQueue' = [targetQueue EXCEPT ![t] = @ \ {j}]
  /\ UNCHANGED <<stream, requestKey, expired, fence>>

\* JOB_EXPIRED: the only error reply that mutates, by dropping the dead entry.
ClaimTooLate(j, t, a) ==
  /\ ClaimMayOwn(j, t, a) /\ j \in expired
  /\ targetQueue' = [targetQueue EXCEPT ![t] = @ \ {j}]
  /\ UNCHANGED <<job, attempt, stream, requestKey, expired, fence>>

-----------------------------------------------------------------------------
\* The identity checks every later script of an attempt repeats.
Owns(d, j, a) ==
  /\ job[j].latest = a /\ attempt[a].phase # "none"
  /\ attempt[a].job = j /\ attempt[a].device = d

\* V2_START_JOB_SCRIPT
StartJob(j, a, d) ==
  /\ job[j].status = "active" /\ Owns(d, j, a)
  /\ attempt[a].phase = "claimed"
  /\ attempt' = [attempt EXCEPT ![a] = Started(@)]
  /\ UNCHANGED <<job, targetQueue, stream, requestKey, expired, fence>>

(***************************************************************************)
(* V2_REPORT_JOB_SCRIPT.  A terminal attempt only compares the report with *)
(* the stored one: equal replays, anything else is REPORT_CONFLICT.        *)
(***************************************************************************)
ReportReplays(j, a, d, rep) ==
  /\ Owns(d, j, a) /\ job[j].status \in {"active", "terminal"}
  /\ attempt[a].phase = "terminal" /\ attempt[a].report = rep

ReportUnstarted(j, a, d, rep) ==           \* mutant
  /\ job[j].status = "active" /\ Owns(d, j, a)
  /\ attempt[a].phase \in {"claimed", "running"}

ReportAccepts(j, a, d, rep) ==
  /\ job[j].status = "active" /\ Owns(d, j, a)
  /\ attempt[a].phase \in {"claimed", "running"}
  /\ rep.task_dispatched => attempt[a].phase = "running"

ReportAttemptOnly(j, a, d, rep) ==         \* mutant
  /\ ReportAccepts(j, a, d, rep)
  /\ attempt' = [attempt EXCEPT ![a] = Reported(@, rep)]
  /\ UNCHANGED <<job, targetQueue, stream, requestKey, expired, fence>>

ReportJob(j, a, d, rep) ==
  /\ ReportAccepts(j, a, d, rep)
  /\ attempt' = [attempt EXCEPT ![a] = Reported(@, rep)]
  /\ job' = [job EXCEPT ![j] = Ended(@)]
  /\ UNCHANGED <<targetQueue, stream, requestKey, expired, fence>>

(***************************************************************************)
(* V2_CANCEL_JOB_SCRIPT.  "expected" is the attempt linkage the caller     *)
(* read before; a different linkage is CANCEL_RACE and mutates nothing.    *)
(***************************************************************************)
CancelReachesFinished(j, expected) ==      \* mutant
  /\ job[j].status \in {"active", "terminal"} /\ job[j].latest = expected
  /\ attempt[expected].job = j

CancelReaches(j, expected) ==
  /\ job[j].status = "active" /\ job[j].latest = expected
  /\ attempt[expected].job = j
  /\ attempt[expected].phase \in {"claimed", "running"}

CancelActive(j, expected, d) ==
  /\ CancelReaches(j, expected)
  /\ attempt' = [attempt EXCEPT ![expected] =
       Reported(@, OperatorReport(@.phase = "running"))]
  /\ job' = [job EXCEPT ![j] = Cancelled(@, d)]
  /\ UNCHANGED <<targetQueue, stream, requestKey, expired, fence>>

CancelKeepsQueueEntry(j, expected, d) ==   \* mutant
  /\ job[j].status = "queued" /\ job[j].latest = expected
  /\ job' = [job EXCEPT ![j] = Cancelled(@, d)]
  /\ UNCHANGED <<attempt, targetQueue, stream, requestKey, expired, fence>>

CancelQueued(j, expected, d) ==
  /\ job[j].status = "queued" /\ job[j].latest = expected
  /\ job' = [job EXCEPT ![j] = Cancelled(@, d)]
  /\ targetQueue' = [targetQueue EXCEPT ![job[j].target] = @ \ {j}]
  /\ UNCHANGED <<attempt, stream, requestKey, expired, fence>>

(***************************************************************************)
(* V2_RECORD_RESULT_SCRIPT.  The script looks at neither the job's status  *)
(* nor the attempt's phase.  A stored result is replaced only by an        *)
(* explicit redelivery.                                                    *)
(***************************************************************************)
RecordReplays(j, a, d, p) == Owns(d, j, a) /\ attempt[a].result = p

RecordJobResult(j, a, d, p, mode) ==
  /\ Owns(d, j, a) /\ attempt[a].result # p
  /\ attempt[a].result = None \/ mode = "explicit_redelivery"
  /\ attempt' = [attempt EXCEPT ![a] = WithResult(@, p)]
  /\ UNCHANGED <<job, targetQueue, stream, requestKey, expired, fence>>

\* pruneTargetQueue: one ZREM, which looks at nothing.
ZRemTargetQueue(t, S) ==
  /\ targetQueue' = [targetQueue EXCEPT ![t] = @ \ S]
  /\ UNCHANGED <<job, attempt, stream, requestKey, expired, fence>>

\* What its callers owe the store: they prune only entries that are dead by then.
PruneTargetQueue(t, S) ==
  /\ \A j \in S : job[j].status # "queued" \/ j \in expired
  /\ ZRemTargetQueue(t, S)

-----------------------------------------------------------------------------
\* SET NX PX
AcquireTargetDeleteFence(t, k) ==
  /\ fence[t].token = None
  /\ fence' = [fence EXCEPT ![t] = Armed(k)]
  /\ UNCHANGED <<job, attempt, targetQueue, stream, requestKey, expired>>

\* SET XX PX: replaces whatever fence is there, fresh or not.
TakeoverStaleTargetDeleteFence(t, k) ==
  /\ fence[t].token # None
  /\ fence' = [fence EXCEPT ![t] = Armed(k)]
  /\ UNCHANGED <<job, attempt, targetQueue, stream, requestKey, expired>>

\* V2_TOUCH_DELETE_FENCE_SCRIPT: re-arms the fence of its current owner only.
TouchTargetDeleteFence(t, k) ==
  /\ fence[t].token = k
  /\ fence' = [fence EXCEPT ![t] = Armed(k)]
  /\ UNCHANGED <<job, attempt, targetQueue, stream, requestKey, expired>>

\* DEL, the second command of releaseTargetDeleteFence.
DeleteFenceKey(t) ==
  /\ fence[t].token # None
  /\ fence' = [fence EXCEPT ![t] = NoFence]
  /\ UNCHANGED <<job, attempt, targetQueue, stream, requestKey, expired>>

-----------------------------------------------------------------------------
JobStep(j) ==
  \/ ClaimDeadlinePasses(j)
  \/ \E r \in RequestId, t \in Target, dg \in Digest,
        rt \in {"none", "resource"} : CreateJob(r, j, t, dg, rt)
  \/ \E t \in Target, a \in AttemptId : ClaimTooLate(j, t, a)
  \/ \E t \in Target, a \in AttemptId, d \in Device : ClaimJob(j, t, d, a)
  \/ \E d \in Device : CancelQueued(j, None, d)
  \/ \E a \in AttemptId, d \in Device :
       \/ StartJob(j, a, d)
       \/ CancelActive(j, a, d)
       \/ \E rep \in Report : ReportJob(j, a, d, rep)
       \/ \E p \in Payload, mode \in {"automatic", "explicit_redelivery"} :
            RecordJobResult(j, a, d, p, mode)

FenceStep(t) ==
  \/ FenceGoesStale(t) \/ FenceExpires(t) \/ DeleteFenceKey(t)
  \/ \E k \in FenceToken :
       \/ AcquireTargetDeleteFence(t, k)
       \/ TakeoverStaleTargetDeleteFence(t, k)
       \/ TouchTargetDeleteFence(t, k)

Next ==
  \/ \E j \in JobId : JobStep(j)
  \/ \E t \in Target, S \in SUBSET JobId : PruneTargetQueue(t, S)
  \/ \E t \in Target : FenceStep(t)

Spec == Init /\ [][Next]_storeVars

-----------------------------------------------------------------------------
(***************************************************************************)
(* A job's status and the phase of its attempt never disagree: the reads   *)
(* of v2-service.ts treat every other combination as CORRUPT_JOB_STATE or  *)
(* CORRUPT_ATTEMPT_LINKAGE.  Claim, report and cancel each write both      *)
(* records and may run in any order.                                       *)
(***************************************************************************)
JobAgrees(j) ==
  LET rec == job[j] IN
  /\ rec.status = "none" => rec = NoJob
  /\ rec.status = "queued" => rec.latest = None /\ rec.cancel = None
  /\ rec.status = "active" =>
       /\ rec.latest # None /\ rec.cancel = None
       /\ attempt[rec.latest].phase \in {"claimed", "running"}
  /\ rec.status = "terminal" =>
       \/ rec.latest = None /\ rec.cancel # None
       \/ rec.latest # None /\ attempt[rec.latest].phase = "terminal"

JobAttemptAgree == \A j \in JobId : JobAgrees(j)

(***************************************************************************)
(* A job never gets a second attempt, whatever devices race for it: every  *)
(* attempt record in the store is the latest attempt of its job, and the   *)
(* attempt a job points at exists and points back.                         *)
(***************************************************************************)
AttemptLinked(a) ==
  attempt[a].phase # "none" =>
    attempt[a].job \in JobId /\ job[attempt[a].job].latest = a

JobLinked(j) ==
  job[j].latest # None =>
    /\ attempt[job[j].latest].phase # "none"
    /\ attempt[job[j].latest].job = j

OneAttemptPerJob ==
  /\ \A a \in AttemptId : AttemptLinked(a)
  /\ \A j \in JobId : JobLinked(j)

(***************************************************************************)
(* A job that can still be claimed is never lost from its target's queue,  *)
(* and a queue never offers a job that was claimed, cancelled or finished, *)
(* although pollers prune entries on the strength of an earlier read.      *)
(***************************************************************************)
QueueOffersClaimable ==
  /\ \A j \in JobId :
       job[j].status = "queued" /\ j \notin expired =>
         j \in targetQueue[job[j].target]
  /\ \A t \in Target : \A j \in targetQueue[t] :
       job[j].status = "queued" /\ job[j].target = t

(***************************************************************************)
(* A request id names at most one job, and the job it names is its own:    *)
(* retried submissions cannot create a second job.                         *)
(***************************************************************************)
OneJobPerRequest ==
  /\ \A j \in JobId : job[j].status # "none" =>
       job[j].request \in RequestId /\ requestKey[job[j].request] = j
  /\ \A r \in RequestId : requestKey[r] # None =>
       job[requestKey[r]].request = r

(***************************************************************************)
(* A stored report of a dispatched task belongs to an attempt that was     *)
(* started, and a job that carries a cancel record and an attempt shows    *)
(* the operator's report: a late runner report never replaces it.          *)
(***************************************************************************)
ReportEarned(a) ==
  /\ attempt[a].phase = "running" => attempt[a].started
  /\ attempt[a].phase \in {"claimed", "running"} => attempt[a].report = None
  /\ attempt[a].phase = "terminal" =>
       /\ attempt[a].report # None
       /\ attempt[a].report.task_dispatched => attempt[a].started

CancelStands(j) ==
  job[j].cancel # None /\ job[j].latest # None =>
    attempt[job[j].latest].report \in {OperatorReport(b) : b \in BOOLEAN}

ReportTellsTheTruth ==
  /\ \A a \in AttemptId : ReportEarned(a)
  /\ \A j \in JobId : CancelStands(j)

(***************************************************************************)
(* A finished job is never rewritten: no later claim, start, report or     *)
(* cancel changes its record or its attempt's report.                      *)
(***************************************************************************)
TerminalKept ==
  /\ \A j \in JobId : job[j].status = "terminal" => job'[j] = job[j]
  /\ \A a \in AttemptId :
       attempt[a].phase = "terminal" =>
         /\ attempt'[a].phase = "terminal"
         /\ attempt'[a].report = attempt[a].report
         /\ attempt'[a].device = attempt[a].device

TerminalIsFinal == [][TerminalKept]_storeVars

-----------------------------------------------------------------------------
(***************************************************************************)
(* The abstract job behind the records.                                    *)
(***************************************************************************)
LifeOf(j) ==
  IF job[j].latest = None
  THEN [state  |-> IF job[j].status = "none" THEN "absent"
                   ELSE job[j].status,
        owner  |-> None, report |-> None]
  ELSE [state  |-> attempt[job[j].latest].phase,
        owner  |-> attempt[job[j].latest].device,
        report |-> attempt[job[j].latest].report]

hostLife == [j \in JobId |-> LifeOf(j)]

Lifecycle == INSTANCE JobLifecycle WITH life <- hostLife

\* Every behaviour of the store is one of the abstract job lifecycle.
ImplementsLifecycle == Lifecycle!Spec
=============================================================================
