-------------------------- MODULE JobStoreProofs ---------------------------
(***************************************************************************)
(* What JobStore promises for every number of jobs, attempts, devices,     *)
(* targets, requests and fence tokens.                                     *)
(***************************************************************************)
EXTENDS JobStore, TLAPS

\* A record may hold null because no id, payload or report is null.
LEMMA NoneIsNew ==
  /\ None \notin JobId /\ None \notin AttemptId /\ None \notin Device
  /\ None \notin RequestId /\ None \notin Target /\ None \notin FenceToken
  /\ None \notin Payload /\ None \notin AnyReport
  BY NoneAssumption DEF AnyReport

LEMMA ReportsAreReports ==
  \A rep \in Report : rep \in AnyReport /\ rep.task_dispatched \in BOOLEAN
  BY ReportAssumption DEF AnyReport, IsReport

\* What the scripts write into a job record is again a job record ...
LEMMA JobUpdates ==
  ASSUME NEW rec \in JobRecord
  PROVE  /\ \A a \in AttemptId : Activated(rec, a) \in JobRecord
         /\ \A d \in Device : Cancelled(rec, d) \in JobRecord
         /\ Ended(rec) \in JobRecord
  BY DEF JobRecord, Activated, Cancelled, Ended

\* ... and likewise for an attempt record.
LEMMA AttemptUpdates ==
  ASSUME NEW rec \in AttemptRecord
  PROVE  /\ Started(rec) \in AttemptRecord
         /\ \A rep \in AnyReport : Reported(rec, rep) \in AttemptRecord
         /\ \A p \in Payload : WithResult(rec, p) \in AttemptRecord
  BY DEF AttemptRecord, Started, Reported, WithResult

(***************************************************************************)
(* The type invariant: every script leaves every key well formed.          *)
(***************************************************************************)
LEMMA TypeInit == Init => TypeOK
  BY DEF Init, TypeOK, NoJob, NoAttempt, NoFence, FenceRecord,
       JobRecord, AttemptRecord

LEMMA TypeStep == TypeOK /\ [Next]_storeVars => TypeOK'
<1> SUFFICES ASSUME TypeOK PROVE [Next]_storeVars => TypeOK'
  OBVIOUS
<1>a. /\ \A j \in JobId : job[j] \in JobRecord
      /\ \A a \in AttemptId : attempt[a] \in AttemptRecord
  BY DEF TypeOK
<1>1. ASSUME NEW j \in JobId, ClaimDeadlinePasses(j) PROVE TypeOK'
  BY <1>1 DEF ClaimDeadlinePasses, TypeOK
<1>2. ASSUME NEW j \in JobId, NEW r \in RequestId, NEW t \in Target,
             NEW dg \in Digest, NEW rt \in {"none", "resource"},
             CreateJob(r, j, t, dg, rt)
      PROVE  TypeOK'
  <2>1. NewJob(r, t, dg, rt) \in JobRecord
    BY DEF JobRecord, NewJob
  <2> QED
    BY <1>2, <2>1 DEF CreateJob, TypeOK
<1>3. ASSUME NEW t \in Target, NEW S \in SUBSET JobId, PruneTargetQueue(t, S)
      PROVE  TypeOK'
  BY <1>3 DEF PruneTargetQueue, ZRemTargetQueue, TypeOK
<1>4. ASSUME NEW j \in JobId, NEW t \in Target, NEW a \in AttemptId,
             ClaimTooLate(j, t, a)
      PROVE  TypeOK'
  BY <1>4 DEF ClaimTooLate, TypeOK
<1>5. ASSUME NEW j \in JobId, NEW t \in Target, NEW a \in AttemptId,
             NEW d \in Device, ClaimJob(j, t, d, a)
      PROVE  TypeOK'
  <2>1. Activated(job[j], a) \in JobRecord
    BY <1>a, JobUpdates
  <2>2. NewAttempt(j, d) \in AttemptRecord
    BY DEF AttemptRecord, NewAttempt
  <2> QED
    BY <1>5, <2>1, <2>2 DEF ClaimJob, TypeOK
<1>6. ASSUME NEW j \in JobId, NEW d \in Device, CancelQueued(j, None, d)
      PROVE  TypeOK'
  <2>1. Cancelled(job[j], d) \in JobRecord
    BY <1>a, JobUpdates
  <2> QED
    BY <1>6, <2>1 DEF CancelQueued, TypeOK
<1>7. ASSUME NEW j \in JobId, NEW a \in AttemptId, NEW d \in Device,
             StartJob(j, a, d)
      PROVE  TypeOK'
  <2>1. Started(attempt[a]) \in AttemptRecord
    BY <1>a, AttemptUpdates
  <2> QED
    BY <1>7, <2>1 DEF StartJob, TypeOK
<1>8. ASSUME NEW j \in JobId, NEW a \in AttemptId, NEW d \in Device,
             CancelActive(j, a, d)
      PROVE  TypeOK'
  <2>1. Cancelled(job[j], d) \in JobRecord
    BY <1>a, JobUpdates
  <2>2. OperatorReport(attempt[a].phase = "running") \in AnyReport
    BY DEF AnyReport
  <2>3. Reported(attempt[a], OperatorReport(attempt[a].phase = "running"))
          \in AttemptRecord
    BY <1>a, <2>2, AttemptUpdates
  <2> QED
    BY <1>8, <2>1, <2>3 DEF CancelActive, TypeOK
<1>9. ASSUME NEW j \in JobId, NEW a \in AttemptId, NEW d \in Device,
             NEW rep \in Report, ReportJob(j, a, d, rep)
      PROVE  TypeOK'
  <2>1. Ended(job[j]) \in JobRecord
    BY <1>a, JobUpdates
  <2>2. Reported(attempt[a], rep) \in AttemptRecord
    BY <1>a, ReportsAreReports, AttemptUpdates
  <2> QED
    BY <1>9, <2>1, <2>2 DEF ReportJob, TypeOK
<1>10. ASSUME NEW j \in JobId, NEW a \in AttemptId, NEW d \in Device,
              NEW p \in Payload, NEW mode, RecordJobResult(j, a, d, p, mode)
       PROVE  TypeOK'
  <2>1. WithResult(attempt[a], p) \in AttemptRecord
    BY <1>a, AttemptUpdates
  <2> QED
    BY <1>10, <2>1 DEF RecordJobResult, TypeOK
<1>11. ASSUME NEW t \in Target, FenceStep(t) PROVE TypeOK'
  <2>1. /\ NoFence \in FenceRecord
        /\ \A k \in FenceToken : Armed(k) \in FenceRecord
        /\ \A f \in FenceRecord : [f EXCEPT !.fresh = FALSE] \in FenceRecord
    BY DEF FenceRecord, NoFence, Armed
  <2>2. fence' \in [Target -> FenceRecord]
    BY <1>11, <2>1 DEF FenceStep, FenceGoesStale, FenceExpires,
         DeleteFenceKey, AcquireTargetDeleteFence,
         TakeoverStaleTargetDeleteFence, TouchTargetDeleteFence, TypeOK
  <2>3. UNCHANGED <<job, attempt, targetQueue, stream, requestKey, expired>>
    BY <1>11 DEF FenceStep, FenceGoesStale, FenceExpires,
         DeleteFenceKey, AcquireTargetDeleteFence,
         TakeoverStaleTargetDeleteFence, TouchTargetDeleteFence
  <2> QED
    BY <2>2, <2>3 DEF TypeOK
<1>12. ASSUME UNCHANGED storeVars PROVE TypeOK'
  BY <1>12 DEF storeVars, TypeOK
<1> QED
  BY <1>1, <1>2, <1>3, <1>4, <1>5, <1>6, <1>7, <1>8, <1>9, <1>10, <1>11,
     <1>12 DEF Next, JobStep

THEOREM TypeCorrect == Spec => []TypeOK
  BY TypeInit, TypeStep, PTL DEF Spec

-----------------------------------------------------------------------------
(***************************************************************************)
(* What each update leaves in the fields the invariants read.              *)
(***************************************************************************)
LEMMA JobFields ==
  ASSUME NEW rec \in JobRecord, NEW x
  PROVE  /\ Activated(rec, x).status = "active"
         /\ Activated(rec, x).latest = x
         /\ Activated(rec, x).request = rec.request
         /\ Activated(rec, x).target = rec.target
         /\ Activated(rec, x).cancel = rec.cancel
         /\ Cancelled(rec, x).status = "terminal"
         /\ Cancelled(rec, x).latest = rec.latest
         /\ Cancelled(rec, x).request = rec.request
         /\ Cancelled(rec, x).target = rec.target
         /\ Cancelled(rec, x).cancel = x
         /\ Ended(rec).status = "terminal"
         /\ Ended(rec).latest = rec.latest
         /\ Ended(rec).request = rec.request
         /\ Ended(rec).target = rec.target
         /\ Ended(rec).cancel = rec.cancel
  BY DEF JobRecord, Activated, Cancelled, Ended

LEMMA StartedFields ==
  ASSUME NEW att \in AttemptRecord
  PROVE  /\ Started(att).phase = "running"
         /\ Started(att).job = att.job
         /\ Started(att).device = att.device
         /\ Started(att).started = TRUE
         /\ Started(att).report = att.report
  BY DEF AttemptRecord, Started

LEMMA ReportedFields ==
  ASSUME NEW att \in AttemptRecord, NEW rep
  PROVE  /\ Reported(att, rep).phase = "terminal"
         /\ Reported(att, rep).job = att.job
         /\ Reported(att, rep).device = att.device
         /\ Reported(att, rep).started = att.started
         /\ Reported(att, rep).report = rep
  BY DEF AttemptRecord, Reported

LEMMA WithResultFields ==
  ASSUME NEW att \in AttemptRecord, NEW p
  PROVE  /\ WithResult(att, p).phase = att.phase
         /\ WithResult(att, p).job = att.job
         /\ WithResult(att, p).device = att.device
         /\ WithResult(att, p).started = att.started
         /\ WithResult(att, p).report = att.report
  BY DEF AttemptRecord, WithResult

(***************************************************************************)
(* The inductive invariant.  None of its parts is inductive alone: a claim *)
(* keeps OneAttemptPerJob only because a queued job has no attempt         *)
(* (JobAttemptAgree), a report keeps the operator's outcome only because   *)
(* an active job carries no cancel record, and creating a job keeps        *)
(* QueueOffersClaimable only because absent jobs are in no queue.          *)
(***************************************************************************)
StoreInv ==
  /\ TypeOK
  /\ JobAttemptAgree
  /\ OneAttemptPerJob
  /\ QueueOffersClaimable
  /\ OneJobPerRequest
  /\ ReportTellsTheTruth

LEMMA StoreInvInit == Init => StoreInv
<1> SUFFICES ASSUME Init PROVE StoreInv
  OBVIOUS
<1>1. TypeOK
  BY TypeInit
<1>2. JobAttemptAgree
  BY DEF Init, JobAttemptAgree, JobAgrees, NoJob
<1>3. OneAttemptPerJob /\ QueueOffersClaimable /\ OneJobPerRequest
  BY DEF Init, OneAttemptPerJob, AttemptLinked, JobLinked,
       QueueOffersClaimable, OneJobPerRequest, NoJob, NoAttempt
<1>4. ReportTellsTheTruth
  BY DEF Init, ReportTellsTheTruth, ReportEarned, CancelStands, NoJob,
       NoAttempt
<1> QED
  BY <1>1, <1>2, <1>3, <1>4 DEF StoreInv

(***************************************************************************)
(* Every script touches one job and at most one attempt.  If both end up   *)
(* as the invariant wants them, and nothing else refers to them, then so   *)
(* does the whole store.  (For a script that writes no attempt, a = None.) *)
(***************************************************************************)
LEMMA OneJobChanges ==
  ASSUME StoreInv, NEW j \in JobId, NEW a,
         \A i \in JobId : i # j =>
            job'[i] = job[i] /\ (job[i].latest # None => job[i].latest # a),
         \A b \in AttemptId : b # a =>
            /\ attempt'[b] = attempt[b]
            /\ attempt[b].phase # "none" => attempt[b].job # j,
         JobAgrees(j)', JobLinked(j)', CancelStands(j)',
         a \in AttemptId => AttemptLinked(a)' /\ ReportEarned(a)'
  PROVE  JobAttemptAgree' /\ OneAttemptPerJob' /\ ReportTellsTheTruth'
<1>1. ASSUME NEW i \in JobId, i # j
      PROVE  JobAgrees(i)' /\ JobLinked(i)' /\ CancelStands(i)'
  <2>1. JobAgrees(i) /\ JobLinked(i) /\ CancelStands(i) /\ job[i] \in JobRecord
    BY DEF StoreInv, TypeOK, JobAttemptAgree, OneAttemptPerJob,
         ReportTellsTheTruth
  <2>2. job'[i] = job[i]
    BY <1>1
  <2>3. job[i].latest # None =>
          attempt'[job[i].latest] = attempt[job[i].latest]
    BY <1>1, <2>1 DEF JobRecord
  <2>4. JobAgrees(i)'
    BY <2>1, <2>2, <2>3 DEF JobAgrees
  <2>5. JobLinked(i)'
    BY <2>1, <2>2, <2>3 DEF JobLinked
  <2>6. CancelStands(i)'
    BY <2>1, <2>2, <2>3 DEF CancelStands
  <2> QED
    BY <2>4, <2>5, <2>6
<1>2. ASSUME NEW b \in AttemptId, b # a
      PROVE  AttemptLinked(b)' /\ ReportEarned(b)'
  <2>1. AttemptLinked(b) /\ ReportEarned(b) /\ attempt'[b] = attempt[b]
    BY <1>2 DEF StoreInv, OneAttemptPerJob, ReportTellsTheTruth
  <2>2. AttemptLinked(b)'
    BY <1>2, <2>1 DEF AttemptLinked
  <2>3. ReportEarned(b)'
    BY <2>1 DEF ReportEarned
  <2> QED
    BY <2>2, <2>3
<1> QED
  BY <1>1, <1>2 DEF JobAttemptAgree, OneAttemptPerJob, ReportTellsTheTruth

LEMMA CreateKeeps ==
  ASSUME StoreInv, TypeOK',
         NEW j \in JobId, NEW r \in RequestId, NEW t \in Target,
         NEW dg \in Digest, NEW rt \in {"none", "resource"},
         CreateJob(r, j, t, dg, rt)
  PROVE  StoreInv'
<1>1. /\ \A i \in JobId : i # j => job'[i] = job[i]
      /\ \A q \in RequestId : q # r => requestKey'[q] = requestKey[q]
      /\ requestKey'[r] = j
      /\ attempt' = attempt
      /\ job'[j] = NewJob(r, t, dg, rt)
  BY DEF CreateJob, StoreInv, TypeOK
<1>2. /\ job'[j].status = "queued" /\ job'[j].target = t
      /\ job'[j].latest = None /\ job'[j].cancel = None
      /\ job'[j].request = r
  BY <1>1 DEF NewJob
<1>3. /\ job[j].status = "none" /\ job[j].latest = None
      /\ job[j].request = None /\ requestKey[r] = None
  BY DEF CreateJob, CreateAccepts, StoreInv, JobAttemptAgree, JobAgrees,
       NoJob
<1>4. JobAttemptAgree' /\ OneAttemptPerJob' /\ ReportTellsTheTruth'
  <2>1. \A b \in AttemptId : attempt[b].phase # "none" => attempt[b].job # j
    BY <1>3, NoneIsNew DEF StoreInv, OneAttemptPerJob, AttemptLinked
  <2>2. JobAgrees(j)' /\ JobLinked(j)' /\ CancelStands(j)'
    BY <1>2 DEF JobAgrees, JobLinked, CancelStands
  <2> QED
    BY <1>1, <2>1, <2>2, NoneIsNew, OneJobChanges
<1>5. QueueOffersClaimable'
  BY <1>1, <1>2, <1>3 DEF StoreInv, QueueOffersClaimable, CreateJob, TypeOK
<1>6. OneJobPerRequest'
  <2>1. \A q \in RequestId : requestKey[q] # None =>
          requestKey[q] \in JobId /\ requestKey[q] # j
    BY <1>3, NoneIsNew DEF StoreInv, OneJobPerRequest, TypeOK
  <2>2. ASSUME NEW i \in JobId, job'[i].status # "none"
        PROVE  job'[i].request \in RequestId /\ requestKey'[job'[i].request] = i
    <3>1. CASE i = j
      BY <1>1, <1>2, <3>1
    <3>2. CASE i # j
      BY <1>1, <1>3, <2>2, <3>2, NoneIsNew DEF StoreInv, OneJobPerRequest
    <3> QED
      BY <3>1, <3>2
  <2>3. ASSUME NEW q \in RequestId, requestKey'[q] # None
        PROVE  job'[requestKey'[q]].request = q
    <3>1. CASE q = r
      BY <1>1, <1>2, <3>1
    <3>2. CASE q # r
      BY <1>1, <2>1, <2>3, <3>2 DEF StoreInv, OneJobPerRequest
    <3> QED
      BY <3>1, <3>2
  <2> QED
    BY <2>2, <2>3 DEF OneJobPerRequest
<1> QED
  BY <1>4, <1>5, <1>6 DEF StoreInv

LEMMA ClaimKeeps ==
  ASSUME StoreInv, TypeOK',
         NEW j \in JobId, NEW t \in Target, NEW a \in AttemptId,
         NEW d \in Device, ClaimJob(j, t, d, a)
  PROVE  StoreInv'
<1>1. /\ \A i \in JobId : i # j => job'[i] = job[i]
      /\ \A b \in AttemptId : b # a => attempt'[b] = attempt[b]
      /\ job'[j] = Activated(job[j], a)
      /\ attempt'[a] = NewAttempt(j, d)
  BY DEF ClaimJob, StoreInv, TypeOK
<1>2. /\ job[j] \in JobRecord
      /\ job[j].status = "queued" /\ job[j].target = t
      /\ attempt[a].phase = "none"
      /\ job[j].latest = None /\ job[j].cancel = None
  BY DEF ClaimJob, ClaimAccepts, ClaimMayOwn, ClaimReaches, StoreInv,
       JobAttemptAgree, JobAgrees, TypeOK
<1>3. /\ job'[j].status = "active" /\ job'[j].latest = a
      /\ job'[j].request = job[j].request /\ job'[j].target = t
      /\ job'[j].cancel = None
  BY <1>1, <1>2, JobFields
<1>4. /\ attempt'[a].phase = "claimed" /\ attempt'[a].job = j
      /\ attempt'[a].report = None
  BY <1>1 DEF NewAttempt
<1>5. JobAttemptAgree' /\ OneAttemptPerJob' /\ ReportTellsTheTruth'
  <2>1. \A i \in JobId : job[i].latest # None => job[i].latest # a
    BY <1>2 DEF StoreInv, OneAttemptPerJob, JobLinked
  <2>2. \A b \in AttemptId : attempt[b].phase # "none" => attempt[b].job # j
    BY <1>2, NoneIsNew DEF StoreInv, OneAttemptPerJob, AttemptLinked
  <2>3. JobAgrees(j)' /\ JobLinked(j)' /\ CancelStands(j)'
    BY <1>3, <1>4, NoneIsNew DEF JobAgrees, JobLinked, CancelStands
  <2>4. AttemptLinked(a)' /\ ReportEarned(a)'
    BY <1>3, <1>4 DEF AttemptLinked, ReportEarned
  <2> QED
    BY <1>1, <2>1, <2>2, <2>3, <2>4, OneJobChanges
<1>6. QueueOffersClaimable'
  BY <1>1, <1>2, <1>3 DEF StoreInv, QueueOffersClaimable, ClaimJob, TypeOK
<1>7. OneJobPerRequest'
  BY <1>1, <1>2, <1>3 DEF StoreInv, OneJobPerRequest, ClaimJob, TypeOK
<1> QED
  BY <1>5, <1>6, <1>7 DEF StoreInv

LEMMA CancelQueuedKeeps ==
  ASSUME StoreInv, TypeOK', NEW j \in JobId, NEW d \in Device,
         CancelQueued(j, None, d)
  PROVE  StoreInv'
<1>1. /\ \A i \in JobId : i # j => job'[i] = job[i]
      /\ attempt' = attempt
      /\ job'[j] = Cancelled(job[j], d)
  BY DEF CancelQueued, StoreInv, TypeOK
<1>2. job[j] \in JobRecord /\ job[j].status = "queued" /\ job[j].latest = None
  BY DEF CancelQueued, StoreInv, TypeOK
<1>3. /\ job'[j].status = "terminal" /\ job'[j].latest = None
      /\ job'[j].request = job[j].request /\ job'[j].target = job[j].target
      /\ job'[j].cancel = d
  BY <1>1, <1>2, JobFields
<1>4. JobAttemptAgree' /\ OneAttemptPerJob' /\ ReportTellsTheTruth'
  <2>1. \A b \in AttemptId : attempt[b].phase # "none" => attempt[b].job # j
    BY <1>2, NoneIsNew DEF StoreInv, OneAttemptPerJob, AttemptLinked
  <2>2. JobAgrees(j)' /\ JobLinked(j)' /\ CancelStands(j)'
    BY <1>3, NoneIsNew DEF JobAgrees, JobLinked, CancelStands
  <2> QED
    BY <1>1, <2>1, <2>2, NoneIsNew, OneJobChanges
<1>5. QueueOffersClaimable'
  BY <1>1, <1>2, <1>3 DEF StoreInv, QueueOffersClaimable, CancelQueued, TypeOK
<1>6. OneJobPerRequest'
  BY <1>1, <1>2, <1>3 DEF StoreInv, OneJobPerRequest, CancelQueued, TypeOK
<1> QED
  BY <1>4, <1>5, <1>6 DEF StoreInv

\* The attempt a job points at is that job's alone, and its only one.
LEMMA OwnedAlone ==
  ASSUME StoreInv, NEW j \in JobId, NEW a \in AttemptId, job[j].latest = a
  PROVE  /\ attempt[a].phase # "none" /\ attempt[a].job = j
         /\ \A i \in JobId : i # j =>
              (job[i].latest # None => job[i].latest # a)
         /\ \A b \in AttemptId : b # a =>
              (attempt[b].phase # "none" => attempt[b].job # j)
  BY NoneIsNew DEF StoreInv, OneAttemptPerJob, AttemptLinked, JobLinked

LEMMA StartKeeps ==
  ASSUME StoreInv, TypeOK', NEW j \in JobId, NEW a \in AttemptId,
         NEW d \in Device, StartJob(j, a, d)
  PROVE  StoreInv'
<1>1. /\ job' = job
      /\ \A b \in AttemptId : b # a => attempt'[b] = attempt[b]
      /\ attempt'[a] = Started(attempt[a])
  BY DEF StartJob, StoreInv, TypeOK
<1>2. /\ attempt[a] \in AttemptRecord /\ attempt[a].phase = "claimed"
      /\ job[j].latest = a /\ job[j].status = "active"
      /\ attempt[a].report = None /\ job[j].cancel = None
  BY DEF StartJob, Owns, StoreInv, TypeOK, ReportTellsTheTruth, ReportEarned,
       JobAttemptAgree, JobAgrees
<1>3. /\ attempt'[a].phase = "running" /\ attempt'[a].job = attempt[a].job
      /\ attempt'[a].started = TRUE /\ attempt'[a].report = None
  BY <1>1, <1>2, StartedFields
<1>4. JobAttemptAgree' /\ OneAttemptPerJob' /\ ReportTellsTheTruth'
  <2>1. JobAgrees(j)' /\ JobLinked(j)' /\ CancelStands(j)'
    BY <1>1, <1>2, <1>3, OwnedAlone, NoneIsNew
      DEF JobAgrees, JobLinked, CancelStands
  <2>2. AttemptLinked(a)' /\ ReportEarned(a)'
    BY <1>1, <1>2, <1>3, OwnedAlone DEF AttemptLinked, ReportEarned
  <2> QED
    BY <1>1, <1>2, <2>1, <2>2, OwnedAlone, OneJobChanges
<1>5. QueueOffersClaimable' /\ OneJobPerRequest'
  BY <1>1 DEF StartJob, StoreInv, QueueOffersClaimable, OneJobPerRequest
<1> QED
  BY <1>4, <1>5 DEF StoreInv

LEMMA ReportKeeps ==
  ASSUME StoreInv, TypeOK', NEW j \in JobId, NEW a \in AttemptId,
         NEW d \in Device, NEW rep \in Report, ReportJob(j, a, d, rep)
  PROVE  StoreInv'
<1>1. /\ \A i \in JobId : i # j => job'[i] = job[i]
      /\ \A b \in AttemptId : b # a => attempt'[b] = attempt[b]
      /\ job'[j] = Ended(job[j])
      /\ attempt'[a] = Reported(attempt[a], rep)
  BY DEF ReportJob, StoreInv, TypeOK
<1>2. /\ job[j] \in JobRecord /\ attempt[a] \in AttemptRecord
      /\ job[j].latest = a /\ job[j].status = "active"
      /\ job[j].cancel = None
      /\ rep.task_dispatched => attempt[a].started
  BY DEF ReportJob, ReportAccepts, Owns, StoreInv, TypeOK,
       ReportTellsTheTruth, ReportEarned, JobAttemptAgree, JobAgrees
<1>3. /\ attempt'[a].phase = "terminal" /\ attempt'[a].job = attempt[a].job
      /\ attempt'[a].started = attempt[a].started
      /\ attempt'[a].report = rep
  BY <1>1, <1>2, ReportedFields
<1>4. /\ job'[j].status = "terminal" /\ job'[j].latest = a
      /\ job'[j].request = job[j].request /\ job'[j].target = job[j].target
      /\ job'[j].cancel = None
  BY <1>1, <1>2, JobFields
<1>5. JobAttemptAgree' /\ OneAttemptPerJob' /\ ReportTellsTheTruth'
  <2>1. JobAgrees(j)' /\ JobLinked(j)' /\ CancelStands(j)'
    BY <1>2, <1>3, <1>4, OwnedAlone, NoneIsNew
      DEF JobAgrees, JobLinked, CancelStands
  <2>2. rep # None
    BY ReportsAreReports, NoneIsNew
  <2>3. AttemptLinked(a)'
    BY <1>2, <1>3, <1>4, OwnedAlone DEF AttemptLinked
  <2>4. ReportEarned(a)'
    BY <1>2, <1>3, <2>2 DEF ReportEarned
  <2> QED
    BY <1>1, <1>2, <2>1, <2>3, <2>4, OwnedAlone, OneJobChanges
<1>6. QueueOffersClaimable'
  BY <1>1, <1>2, <1>4 DEF ReportJob, StoreInv, QueueOffersClaimable, TypeOK
<1>7. OneJobPerRequest'
  BY <1>1, <1>2, <1>4 DEF ReportJob, StoreInv, OneJobPerRequest, TypeOK
<1> QED
  BY <1>5, <1>6, <1>7 DEF StoreInv

LEMMA CancelActiveKeeps ==
  ASSUME StoreInv, TypeOK', NEW j \in JobId, NEW a \in AttemptId,
         NEW d \in Device, CancelActive(j, a, d)
  PROVE  StoreInv'
<1> DEFINE rep == OperatorReport(attempt[a].phase = "running")
<1>1. /\ \A i \in JobId : i # j => job'[i] = job[i]
      /\ \A b \in AttemptId : b # a => attempt'[b] = attempt[b]
      /\ job'[j] = Cancelled(job[j], d)
      /\ attempt'[a] = Reported(attempt[a], rep)
  BY DEF CancelActive, StoreInv, TypeOK
<1>2. /\ job[j] \in JobRecord /\ attempt[a] \in AttemptRecord
      /\ job[j].latest = a /\ job[j].status = "active"
      /\ attempt[a].phase = "running" => attempt[a].started
  BY DEF CancelActive, CancelReaches, StoreInv, TypeOK,
       ReportTellsTheTruth, ReportEarned
<1>3. /\ attempt'[a].phase = "terminal" /\ attempt'[a].job = attempt[a].job
      /\ attempt'[a].started = attempt[a].started
      /\ attempt'[a].report = rep
  BY <1>1, <1>2, ReportedFields
<1>4. /\ job'[j].status = "terminal" /\ job'[j].latest = a
      /\ job'[j].request = job[j].request /\ job'[j].target = job[j].target
      /\ job'[j].cancel = d
  BY <1>1, <1>2, JobFields
<1>5. /\ rep \in {OperatorReport(b) : b \in BOOLEAN}
      /\ rep # None
      /\ rep.task_dispatched = (attempt[a].phase = "running")
  <2>1. rep \in {OperatorReport(b) : b \in BOOLEAN}
    OBVIOUS
  <2>2. rep # None
    BY <2>1, NoneIsNew DEF AnyReport
  <2>3. rep.task_dispatched = (attempt[a].phase = "running")
    BY DEF OperatorReport
  <2> QED
    BY <2>1, <2>2, <2>3
<1> HIDE DEF rep
<1>6. JobAttemptAgree' /\ OneAttemptPerJob' /\ ReportTellsTheTruth'
  <2>1. JobAgrees(j)' /\ JobLinked(j)' /\ CancelStands(j)'
    BY <1>2, <1>3, <1>4, <1>5, OwnedAlone, NoneIsNew
      DEF JobAgrees, JobLinked, CancelStands
  <2>2. AttemptLinked(a)'
    BY <1>2, <1>3, <1>4, OwnedAlone DEF AttemptLinked
  <2>3. ReportEarned(a)'
    BY <1>2, <1>3, <1>5 DEF ReportEarned
  <2> QED
    BY <1>1, <1>2, <2>1, <2>2, <2>3, OwnedAlone, OneJobChanges
<1>7. QueueOffersClaimable'
  BY <1>1, <1>2, <1>4 DEF CancelActive, StoreInv, QueueOffersClaimable, TypeOK
<1>8. OneJobPerRequest'
  BY <1>1, <1>2, <1>4 DEF CancelActive, StoreInv, OneJobPerRequest, TypeOK
<1> QED
  BY <1>6, <1>7, <1>8 DEF StoreInv

LEMMA RecordKeeps ==
  ASSUME StoreInv, TypeOK', NEW j \in JobId, NEW a \in AttemptId,
         NEW d \in Device, NEW p \in Payload, NEW mode,
         RecordJobResult(j, a, d, p, mode)
  PROVE  StoreInv'
<1>1. /\ job' = job
      /\ \A b \in AttemptId : b # a => attempt'[b] = attempt[b]
      /\ attempt'[a] = WithResult(attempt[a], p)
  BY DEF RecordJobResult, StoreInv, TypeOK
<1>2. /\ attempt[a] \in AttemptRecord /\ job[j].latest = a
      /\ AttemptLinked(a) /\ ReportEarned(a)
      /\ JobAgrees(j) /\ JobLinked(j) /\ CancelStands(j)
  BY DEF RecordJobResult, Owns, StoreInv, TypeOK, ReportTellsTheTruth,
       OneAttemptPerJob, JobAttemptAgree
<1>3. /\ attempt'[a].phase = attempt[a].phase
      /\ attempt'[a].job = attempt[a].job
      /\ attempt'[a].started = attempt[a].started
      /\ attempt'[a].report = attempt[a].report
  BY <1>1, <1>2, WithResultFields
<1>4. JobAttemptAgree' /\ OneAttemptPerJob' /\ ReportTellsTheTruth'
  <2>1. JobAgrees(j)' /\ JobLinked(j)' /\ CancelStands(j)'
    BY <1>1, <1>2, <1>3 DEF JobAgrees, JobLinked, CancelStands
  <2>2. AttemptLinked(a)' /\ ReportEarned(a)'
    BY <1>1, <1>2, <1>3 DEF AttemptLinked, ReportEarned
  <2> QED
    BY <1>1, <1>2, <2>1, <2>2, OwnedAlone, OneJobChanges
<1>5. QueueOffersClaimable' /\ OneJobPerRequest'
  BY <1>1 DEF RecordJobResult, StoreInv, QueueOffersClaimable,
       OneJobPerRequest
<1> QED
  BY <1>4, <1>5 DEF StoreInv

\* Steps that write no record keep every part but the queue's at once.
LEMMA QuietKeeps ==
  ASSUME StoreInv, TypeOK',
         UNCHANGED <<job, attempt, requestKey>>, QueueOffersClaimable'
  PROVE  StoreInv'
<1>1. JobAttemptAgree'
  BY DEF StoreInv, JobAttemptAgree, JobAgrees
<1>2. OneAttemptPerJob' /\ OneJobPerRequest'
  BY DEF StoreInv, OneAttemptPerJob, AttemptLinked, JobLinked, OneJobPerRequest
<1>3. ReportTellsTheTruth'
  BY DEF StoreInv, ReportTellsTheTruth, ReportEarned, CancelStands
<1> QED
  BY <1>1, <1>2, <1>3 DEF StoreInv

LEMMA StoreInvStep == StoreInv /\ [Next]_storeVars => StoreInv'
<1> SUFFICES ASSUME StoreInv, [Next]_storeVars PROVE StoreInv'
  OBVIOUS
<1>0. TypeOK'
  BY TypeStep DEF StoreInv
<1>1. ASSUME NEW j \in JobId, ClaimDeadlinePasses(j) PROVE StoreInv'
  <2>1. QueueOffersClaimable'
    BY <1>1 DEF ClaimDeadlinePasses, StoreInv, QueueOffersClaimable, TypeOK
  <2> QED
    BY <1>0, <1>1, <2>1, QuietKeeps DEF ClaimDeadlinePasses
<1>2. ASSUME NEW t \in Target, NEW S \in SUBSET JobId, PruneTargetQueue(t, S)
      PROVE  StoreInv'
  <2>1. QueueOffersClaimable'
    BY <1>2 DEF PruneTargetQueue, ZRemTargetQueue, StoreInv, QueueOffersClaimable, TypeOK
  <2> QED
    BY <1>0, <1>2, <2>1, QuietKeeps DEF PruneTargetQueue, ZRemTargetQueue
<1>3. ASSUME NEW j \in JobId, NEW t \in Target, NEW a \in AttemptId,
             ClaimTooLate(j, t, a)
      PROVE  StoreInv'
  <2>1. QueueOffersClaimable'
    BY <1>3 DEF ClaimTooLate, StoreInv, QueueOffersClaimable, TypeOK
  <2> QED
    BY <1>0, <1>3, <2>1, QuietKeeps DEF ClaimTooLate
<1>4. ASSUME NEW t \in Target, FenceStep(t) PROVE StoreInv'
  <2>1. UNCHANGED <<job, attempt, targetQueue, stream, requestKey, expired>>
    BY <1>4 DEF FenceStep, FenceGoesStale, FenceExpires,
         DeleteFenceKey, AcquireTargetDeleteFence,
         TakeoverStaleTargetDeleteFence, TouchTargetDeleteFence
  <2>2. QueueOffersClaimable'
    BY <2>1 DEF StoreInv, QueueOffersClaimable
  <2> QED
    BY <1>0, <2>1, <2>2, QuietKeeps
<1>5. CASE UNCHANGED storeVars
  <2>1. QueueOffersClaimable'
    BY <1>5 DEF storeVars, StoreInv, QueueOffersClaimable
  <2> QED
    BY <1>0, <1>5, <2>1, QuietKeeps DEF storeVars
<1>6. ASSUME NEW j \in JobId, JobStep(j) PROVE StoreInv'
  BY <1>0, <1>1, <1>3, <1>6, CreateKeeps, ClaimKeeps,
     CancelQueuedKeeps, StartKeeps, ReportKeeps, CancelActiveKeeps,
     RecordKeeps DEF JobStep
<1> QED
  BY <1>2, <1>4, <1>5, <1>6 DEF Next

THEOREM StoreInvariant == Spec => []StoreInv
  BY StoreInvInit, StoreInvStep, PTL DEF Spec

(***************************************************************************)
(* Job status and attempt phase agree in every reachable state, so a       *)
(* reader that sees both records at once never reports corruption.         *)
(***************************************************************************)
THEOREM JobAttemptAgreement == Spec => []JobAttemptAgree
<1>1. StoreInv => JobAttemptAgree
  BY DEF StoreInv
<1> QED
  BY <1>1, StoreInvariant, PTL

(***************************************************************************)
(* However many devices race, a job gets one attempt and keeps it.         *)
(***************************************************************************)
THEOREM SingleAttempt == Spec => []OneAttemptPerJob
<1>1. StoreInv => OneAttemptPerJob
  BY DEF StoreInv
<1> QED
  BY <1>1, StoreInvariant, PTL

(***************************************************************************)
(* Claimable jobs are offered, and only claimable ones, in spite of the    *)
(* pruning that pollers do.                                                *)
(***************************************************************************)
THEOREM QueueIsExact == Spec => []QueueOffersClaimable
<1>1. StoreInv => QueueOffersClaimable
  BY DEF StoreInv
<1> QED
  BY <1>1, StoreInvariant, PTL

\* A submission retried under its request id never makes a second job.
THEOREM SubmissionIsIdempotent == Spec => []OneJobPerRequest
<1>1. StoreInv => OneJobPerRequest
  BY DEF StoreInv
<1> QED
  BY <1>1, StoreInvariant, PTL

(***************************************************************************)
(* Dispatched reports come from started attempts, and an operator's cancel *)
(* is never overwritten by a late runner.                                  *)
(***************************************************************************)
THEOREM ReportsAreTrue == Spec => []ReportTellsTheTruth
<1>1. StoreInv => ReportTellsTheTruth
  BY DEF StoreInv
<1> QED
  BY <1>1, StoreInvariant, PTL

\* No script rewrites what a finished job or attempt shows.
LEMMA TerminalStep ==
  ASSUME StoreInv, [Next]_storeVars
  PROVE  [TerminalKept]_storeVars
<1>0. \A a \in AttemptId : attempt[a] \in AttemptRecord
  BY DEF StoreInv, TypeOK
<1> SUFFICES ASSUME Next PROVE TerminalKept
  OBVIOUS
<1>1. ASSUME NEW j \in JobId, JobStep(j) PROVE TerminalKept
  <2>1. ASSUME NEW r \in RequestId, NEW t \in Target, NEW dg \in Digest,
               NEW rt \in {"none", "resource"}, CreateJob(r, j, t, dg, rt)
        PROVE  TerminalKept
    BY <2>1 DEF CreateJob, CreateAccepts, TerminalKept, StoreInv, TypeOK
  <2>2. ASSUME NEW t \in Target, NEW a \in AttemptId, NEW d \in Device,
               ClaimJob(j, t, d, a)
        PROVE  TerminalKept
    BY <2>2 DEF ClaimJob, ClaimAccepts, ClaimMayOwn, TerminalKept,
         StoreInv, TypeOK
  <2>3. ASSUME NEW d \in Device, CancelQueued(j, None, d) PROVE TerminalKept
    BY <2>3 DEF CancelQueued, TerminalKept, StoreInv, TypeOK
  <2>4. ASSUME NEW a \in AttemptId, NEW d \in Device, StartJob(j, a, d)
        PROVE  TerminalKept
    BY <2>4 DEF StartJob, TerminalKept, StoreInv, TypeOK
  <2>5. ASSUME NEW a \in AttemptId, NEW d \in Device, CancelActive(j, a, d)
        PROVE  TerminalKept
    BY <2>5 DEF CancelActive, CancelReaches, TerminalKept, StoreInv,
         TypeOK
  <2>6. ASSUME NEW a \in AttemptId, NEW d \in Device, NEW rep \in Report,
               ReportJob(j, a, d, rep)
        PROVE  TerminalKept
    BY <2>6 DEF ReportJob, ReportAccepts, TerminalKept, StoreInv, TypeOK
  <2>7. ASSUME NEW a \in AttemptId, NEW d \in Device, NEW p \in Payload,
               NEW mode, RecordJobResult(j, a, d, p, mode)
        PROVE  TerminalKept
    <3>1. /\ job' = job
          /\ \A b \in AttemptId : b # a => attempt'[b] = attempt[b]
          /\ attempt'[a] = WithResult(attempt[a], p)
      BY <2>7 DEF RecordJobResult, StoreInv, TypeOK
    <3>2. /\ attempt'[a].phase = attempt[a].phase
          /\ attempt'[a].device = attempt[a].device
          /\ attempt'[a].report = attempt[a].report
      BY <1>0, <3>1, WithResultFields
    <3> QED
      BY <3>1, <3>2 DEF TerminalKept
  <2>8. CASE UNCHANGED <<job, attempt>>
    BY <2>8 DEF TerminalKept
  <2> QED
    BY <1>1, <2>1, <2>2, <2>3, <2>4, <2>5, <2>6, <2>7, <2>8
      DEF JobStep, ClaimDeadlinePasses, ClaimTooLate
<1>2. ASSUME NEW t \in Target, FenceStep(t) PROVE TerminalKept
  BY <1>2 DEF FenceStep, FenceGoesStale, FenceExpires, DeleteFenceKey,
       AcquireTargetDeleteFence, TakeoverStaleTargetDeleteFence,
       TouchTargetDeleteFence, TerminalKept
<1>3. ASSUME NEW t \in Target, NEW S \in SUBSET JobId, PruneTargetQueue(t, S)
      PROVE  TerminalKept
  BY <1>3 DEF PruneTargetQueue, ZRemTargetQueue, TerminalKept
<1> QED
  BY <1>1, <1>2, <1>3 DEF Next

(***************************************************************************)
(* A finished job is never rewritten, whatever is replayed against it.     *)
(***************************************************************************)
THEOREM FinishedStaysFinished == Spec => TerminalIsFinal
<1>1. StoreInv /\ [Next]_storeVars => [TerminalKept]_storeVars
  BY TerminalStep
<1> QED
  BY <1>1, StoreInvariant, PTL DEF Spec, TerminalIsFinal

-----------------------------------------------------------------------------
(***************************************************************************)
(* Refinement.  A step that changes job j and attempt a is invisible to    *)
(* readers of every other job.                                             *)
(***************************************************************************)
LEMMA OthersLookTheSame ==
  ASSUME StoreInv, NEW j \in JobId, NEW a, NEW new,
         \A i \in JobId : i # j =>
            job'[i] = job[i] /\ (job[i].latest # None => job[i].latest # a),
         \A b \in AttemptId : b # a => attempt'[b] = attempt[b],
         LifeOf(j)' = new
  PROVE  hostLife' = [hostLife EXCEPT ![j] = new]
<1>1. ASSUME NEW i \in JobId, i # j PROVE LifeOf(i)' = LifeOf(i)
  <2>1. job[i] \in JobRecord
    BY DEF StoreInv, TypeOK
  <2>2. job[i].latest # None =>
          attempt'[job[i].latest] = attempt[job[i].latest]
    BY <1>1, <2>1 DEF JobRecord
  <2> QED
    BY <1>1, <2>2 DEF LifeOf
<1> QED
  BY <1>1 DEF hostLife

LEMMA CreateIsSubmit ==
  ASSUME StoreInv, NEW j \in JobId, NEW r \in RequestId, NEW t \in Target,
         NEW dg \in Digest, NEW rt \in {"none", "resource"},
         CreateJob(r, j, t, dg, rt)
  PROVE  Lifecycle!Submit(j)
<1>1. /\ \A i \in JobId : i # j => job'[i] = job[i]
      /\ attempt' = attempt /\ job'[j] = NewJob(r, t, dg, rt)
      /\ job[j].status = "none" /\ job[j].latest = None
  BY DEF CreateJob, CreateAccepts, StoreInv, TypeOK, JobAttemptAgree,
       JobAgrees, NoJob
<1>2. LifeOf(j).state = "absent"
  BY <1>1 DEF LifeOf
<1>3. LifeOf(j)' = [state |-> "queued", owner |-> None, report |-> None]
  BY <1>1 DEF LifeOf, NewJob
<1>4. hostLife' = [hostLife EXCEPT ![j] =
                     [state |-> "queued", owner |-> None, report |-> None]]
  <2>1. \A i \in JobId : i # j =>
          job'[i] = job[i] /\ (job[i].latest # None => job[i].latest # None)
    BY <1>1
  <2>2. \A b \in AttemptId : b # None => attempt'[b] = attempt[b]
    BY <1>1
  <2> QED
    BY <2>1, <2>2, <1>3, OthersLookTheSame
<1> QED
  BY <1>2, <1>4 DEF Lifecycle!Submit, hostLife

LEMMA ClaimIsClaim ==
  ASSUME StoreInv, NEW j \in JobId, NEW t \in Target, NEW a \in AttemptId,
         NEW d \in Device, ClaimJob(j, t, d, a)
  PROVE  Lifecycle!Claim(j, d)
<1>1. /\ \A i \in JobId : i # j => job'[i] = job[i]
      /\ \A b \in AttemptId : b # a => attempt'[b] = attempt[b]
      /\ job'[j] = Activated(job[j], a) /\ attempt'[a] = NewAttempt(j, d)
      /\ job[j] \in JobRecord /\ attempt[a].phase = "none"
      /\ job[j].status = "queued" /\ job[j].latest = None
  BY DEF ClaimJob, ClaimAccepts, ClaimMayOwn, StoreInv, TypeOK,
       JobAttemptAgree, JobAgrees
<1>2. \A i \in JobId : job[i].latest # None => job[i].latest # a
  BY <1>1 DEF StoreInv, OneAttemptPerJob, JobLinked
<1>3. LifeOf(j).state = "queued"
  BY <1>1 DEF LifeOf
<1>4. job'[j].latest = a
  BY <1>1, JobFields
<1>5. LifeOf(j)' = [state |-> "claimed", owner |-> d, report |-> None]
  BY <1>1, <1>4, NoneIsNew DEF LifeOf, NewAttempt
<1>6. hostLife' = [hostLife EXCEPT ![j] =
                     [state |-> "claimed", owner |-> d, report |-> None]]
  BY <1>1, <1>2, <1>5, OthersLookTheSame
<1> QED
  BY <1>3, <1>6 DEF Lifecycle!Claim, hostLife

LEMMA CancelQueuedIsWithdraw ==
  ASSUME StoreInv, NEW j \in JobId, NEW d \in Device, CancelQueued(j, None, d)
  PROVE  Lifecycle!Withdraw(j)
<1>1. /\ \A i \in JobId : i # j => job'[i] = job[i]
      /\ attempt' = attempt /\ job'[j] = Cancelled(job[j], d)
      /\ job[j] \in JobRecord
      /\ job[j].status = "queued" /\ job[j].latest = None
  BY DEF CancelQueued, StoreInv, TypeOK
<1>2. LifeOf(j).state = "queued"
  BY <1>1 DEF LifeOf
<1>3. job'[j].latest = None /\ job'[j].status = "terminal"
  BY <1>1, JobFields
<1>4. LifeOf(j)' = [state |-> "terminal", owner |-> None, report |-> None]
  BY <1>3 DEF LifeOf
<1>5. hostLife' = [hostLife EXCEPT ![j] =
                     [state |-> "terminal", owner |-> None, report |-> None]]
  <2>1. \A i \in JobId : i # j =>
          job'[i] = job[i] /\ (job[i].latest # None => job[i].latest # None)
    BY <1>1
  <2>2. \A b \in AttemptId : b # None => attempt'[b] = attempt[b]
    BY <1>1
  <2> QED
    BY <2>1, <2>2, <1>4, OthersLookTheSame
<1> QED
  BY <1>2, <1>5 DEF Lifecycle!Withdraw, hostLife

LEMMA StartIsStart ==
  ASSUME StoreInv, NEW j \in JobId, NEW a \in AttemptId, NEW d \in Device,
         StartJob(j, a, d)
  PROVE  Lifecycle!Start(j)
<1>1. /\ job' = job
      /\ \A b \in AttemptId : b # a => attempt'[b] = attempt[b]
      /\ attempt'[a] = Started(attempt[a])
      /\ attempt[a] \in AttemptRecord
      /\ attempt[a].phase = "claimed" /\ job[j].latest = a
      /\ attempt[a].report = None
  BY DEF StartJob, Owns, StoreInv, TypeOK, ReportTellsTheTruth, ReportEarned
<1>2. /\ LifeOf(j).state = "claimed"
      /\ LifeOf(j).owner = attempt[a].device
  BY <1>1, NoneIsNew DEF LifeOf
<1>3. /\ attempt'[a].phase = "running"
      /\ attempt'[a].device = attempt[a].device
      /\ attempt'[a].report = None
  BY <1>1, StartedFields
<1>4. LifeOf(j)' = [state |-> "running", owner |-> LifeOf(j).owner,
                    report |-> None]
  BY <1>1, <1>2, <1>3, NoneIsNew DEF LifeOf
<1>5. hostLife' = [hostLife EXCEPT ![j] =
        [state |-> "running", owner |-> LifeOf(j).owner, report |-> None]]
  <2>1. \A i \in JobId : i # j =>
          job'[i] = job[i] /\ (job[i].latest # None => job[i].latest # a)
    BY <1>1, OwnedAlone
  <2>2. \A b \in AttemptId : b # a => attempt'[b] = attempt[b]
    BY <1>1
  <2> QED
    BY <2>1, <2>2, <1>4, OthersLookTheSame
<1> QED
  BY <1>2, <1>5 DEF Lifecycle!Start, hostLife

\* A report and an operator's cancel both end the job with their report.
LEMMA EndingIsFinish ==
  ASSUME StoreInv, NEW j \in JobId, NEW a \in AttemptId, NEW rep,
         \A i \in JobId : i # j => job'[i] = job[i],
         \A b \in AttemptId : b # a => attempt'[b] = attempt[b],
         attempt'[a] = Reported(attempt[a], rep),
         job[j].latest = a, job'[j].latest = a,
         attempt[a].phase \in {"claimed", "running"},
         rep.task_dispatched => attempt[a].phase = "running"
  PROVE  Lifecycle!Finish(j, rep)
<1>1. attempt[a] \in AttemptRecord
  BY DEF StoreInv, TypeOK
<1>2. /\ LifeOf(j).state = attempt[a].phase
      /\ LifeOf(j).owner = attempt[a].device
  BY NoneIsNew DEF LifeOf
<1>3. /\ attempt'[a].phase = "terminal"
      /\ attempt'[a].device = attempt[a].device
      /\ attempt'[a].report = rep
  BY <1>1, ReportedFields
<1>4. LifeOf(j)' = [state |-> "terminal", owner |-> LifeOf(j).owner,
                    report |-> rep]
  BY <1>2, <1>3, NoneIsNew DEF LifeOf
<1>5. hostLife' = [hostLife EXCEPT ![j] =
        [state |-> "terminal", owner |-> LifeOf(j).owner, report |-> rep]]
  BY <1>4, OwnedAlone, OthersLookTheSame
<1> QED
  BY <1>2, <1>5 DEF Lifecycle!Finish, hostLife

\* Steps that write neither the job's state nor its owner are invisible.
LEMMA RecordIsInvisible ==
  ASSUME StoreInv, NEW j \in JobId, NEW a \in AttemptId, NEW d \in Device,
         NEW p \in Payload, NEW mode, RecordJobResult(j, a, d, p, mode)
  PROVE  hostLife' = hostLife
<1>1. /\ job' = job
      /\ \A b \in AttemptId : b # a => attempt'[b] = attempt[b]
      /\ attempt'[a] = WithResult(attempt[a], p)
      /\ attempt[a] \in AttemptRecord
  BY DEF RecordJobResult, StoreInv, TypeOK
<1>2. ASSUME NEW i \in JobId PROVE LifeOf(i)' = LifeOf(i)
  <2>1. job[i] \in JobRecord
    BY DEF StoreInv, TypeOK
  <2>2. /\ attempt'[a].phase = attempt[a].phase
        /\ attempt'[a].device = attempt[a].device
        /\ attempt'[a].report = attempt[a].report
    BY <1>1, WithResultFields
  <2> QED
    BY <1>1, <2>1, <2>2 DEF LifeOf, JobRecord
<1> QED
  BY <1>2 DEF hostLife

(***************************************************************************)
(* The store implements the abstract lifecycle: claims, starts, reports    *)
(* and cancels of any number of clients amount to one submit, at most one  *)
(* claim and start, and one ending per job.                                *)
(***************************************************************************)
THEOREM StoreImplementsLifecycle == Spec => ImplementsLifecycle
<1>1. Init => Lifecycle!Init
  BY DEF Init, Lifecycle!Init, Lifecycle!Absent, hostLife, LifeOf, NoJob
<1>2. ASSUME StoreInv, [Next]_storeVars PROVE [Lifecycle!Next]_hostLife
  <2>1. ASSUME UNCHANGED <<job, attempt>> PROVE UNCHANGED hostLife
    BY <2>1 DEF hostLife, LifeOf
  <2>2. ASSUME NEW j \in JobId, NEW a \in AttemptId, NEW d \in Device,
               NEW rep \in Report, ReportJob(j, a, d, rep)
        PROVE  Lifecycle!Finish(j, rep)
    <3>1. /\ \A i \in JobId : i # j => job'[i] = job[i]
          /\ \A b \in AttemptId : b # a => attempt'[b] = attempt[b]
          /\ attempt'[a] = Reported(attempt[a], rep)
          /\ job'[j] = Ended(job[j]) /\ job[j] \in JobRecord
          /\ job[j].latest = a
          /\ attempt[a].phase \in {"claimed", "running"}
          /\ rep.task_dispatched => attempt[a].phase = "running"
      BY <1>2, <2>2 DEF ReportJob, ReportAccepts, Owns, StoreInv, TypeOK
    <3>2. job'[j].latest = a
      BY <3>1, JobFields
    <3> QED
      BY <1>2, <3>1, <3>2, EndingIsFinish
  <2>3. ASSUME NEW j \in JobId, NEW a \in AttemptId, NEW d \in Device,
               CancelActive(j, a, d)
        PROVE  Lifecycle!Finish(j, OperatorReport(attempt[a].phase = "running"))
    <3> DEFINE rep == OperatorReport(attempt[a].phase = "running")
    <3>1. /\ \A i \in JobId : i # j => job'[i] = job[i]
          /\ \A b \in AttemptId : b # a => attempt'[b] = attempt[b]
          /\ attempt'[a] = Reported(attempt[a], rep)
          /\ job'[j] = Cancelled(job[j], d) /\ job[j] \in JobRecord
          /\ job[j].latest = a
          /\ attempt[a].phase \in {"claimed", "running"}
      BY <1>2, <2>3 DEF CancelActive, CancelReaches, StoreInv, TypeOK
    <3>2. job'[j].latest = a
      BY <3>1, JobFields
    <3>3. rep.task_dispatched => attempt[a].phase = "running"
      BY DEF OperatorReport
    <3> HIDE DEF rep
    <3> QED
      BY <1>2, <3>1, <3>2, <3>3, EndingIsFinish DEF rep
  <2>4. ASSUME NEW j \in JobId, JobStep(j)
        PROVE  Lifecycle!Next \/ UNCHANGED hostLife
    <3>1. ASSUME NEW r \in RequestId, NEW t \in Target, NEW dg \in Digest,
                 NEW rt \in {"none", "resource"}, CreateJob(r, j, t, dg, rt)
          PROVE  Lifecycle!Next
      BY <1>2, <3>1, CreateIsSubmit DEF Lifecycle!Next
    <3>2. ASSUME NEW t \in Target, NEW a \in AttemptId, NEW d \in Device,
                 ClaimJob(j, t, d, a)
          PROVE  Lifecycle!Next
      BY <1>2, <3>2, ClaimIsClaim DEF Lifecycle!Next
    <3>3. ASSUME NEW d \in Device, CancelQueued(j, None, d)
          PROVE  Lifecycle!Next
      BY <1>2, <3>3, CancelQueuedIsWithdraw DEF Lifecycle!Next
    <3>4. ASSUME NEW a \in AttemptId, NEW d \in Device, StartJob(j, a, d)
          PROVE  Lifecycle!Next
      BY <1>2, <3>4, StartIsStart DEF Lifecycle!Next
    <3>5. ASSUME NEW a \in AttemptId, NEW d \in Device, CancelActive(j, a, d)
          PROVE  Lifecycle!Next
      <4>1. OperatorReport(attempt[a].phase = "running")
              \in {OperatorReport(b) : b \in BOOLEAN}
        OBVIOUS
      <4> QED
        BY <2>3, <3>5, <4>1 DEF Lifecycle!Next
    <3>6. ASSUME NEW a \in AttemptId, NEW d \in Device, NEW rep \in Report,
                 ReportJob(j, a, d, rep)
          PROVE  Lifecycle!Next
      BY <2>2, <3>6 DEF Lifecycle!Next
    <3>7. ASSUME NEW a \in AttemptId, NEW d \in Device, NEW p \in Payload,
                 NEW mode, RecordJobResult(j, a, d, p, mode)
          PROVE  UNCHANGED hostLife
      BY <1>2, <3>7, RecordIsInvisible
    <3> QED
      BY <2>1, <2>4, <3>1, <3>2, <3>3, <3>4, <3>5, <3>6, <3>7
        DEF JobStep, ClaimDeadlinePasses, ClaimTooLate
  <2>5. ASSUME NEW t \in Target, FenceStep(t) PROVE UNCHANGED hostLife
    BY <2>1, <2>5 DEF FenceStep, FenceGoesStale, FenceExpires,
         DeleteFenceKey, AcquireTargetDeleteFence,
         TakeoverStaleTargetDeleteFence, TouchTargetDeleteFence
  <2>6. CASE UNCHANGED storeVars
    BY <2>1, <2>6 DEF storeVars
  <2>7. ASSUME NEW t \in Target, NEW S \in SUBSET JobId, PruneTargetQueue(t, S)
        PROVE  UNCHANGED hostLife
    BY <2>1, <2>7 DEF PruneTargetQueue, ZRemTargetQueue
  <2> QED
    BY <1>2, <2>4, <2>5, <2>6, <2>7 DEF Next
<1> QED
  BY <1>1, <1>2, StoreInvariant, PTL
    DEF Spec, ImplementsLifecycle, Lifecycle!Spec
=============================================================================
