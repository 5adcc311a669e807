------------------------ MODULE JobCoordinatorProofs ------------------------
(***************************************************************************)
(* What the coordinator promises its callers for every number of calls in  *)
(* flight, jobs, devices and targets: it keeps to the store's              *)
(* specification, and its answers hold, also while projects are deleted    *)
(* beside it; and what the deletes promise, for every number of them.      *)
(***************************************************************************)
EXTENDS TargetDelete, JobStoreProofs

-----------------------------------------------------------------------------
(***************************************************************************)
(* The store never takes back what a call may have read.                   *)
(***************************************************************************)
JobForward(j) ==
  job[j].status # "none" =>
    /\ job'[j].status # "none"
    /\ job'[j].request = job[j].request /\ job'[j].digest = job[j].digest
    /\ job'[j].target = job[j].target /\ job'[j].result_target = job[j].result_target
    /\ job[j].latest # None => job'[j].latest = job[j].latest
    /\ job[j].status \in {"active", "terminal"} => job'[j].status \in {"active", "terminal"}
    /\ job[j].status = "terminal" => job'[j] = job[j]

AttemptForward(a) ==
  attempt[a].phase # "none" =>
    /\ attempt'[a].phase # "none"
    /\ attempt'[a].job = attempt[a].job /\ attempt'[a].device = attempt[a].device
    /\ attempt[a].result # None => attempt'[a].result # None

Forward ==
  /\ \A j \in JobId : JobForward(j)
  /\ \A a \in AttemptId : AttemptForward(a)
  /\ expired \subseteq expired'
  /\ \A r \in RequestId : requestKey[r] # None => requestKey'[r] = requestKey[r]

LEMMA MoreJobFields ==
  ASSUME NEW rec \in JobRecord, NEW x
  PROVE  /\ Activated(rec, x).digest = rec.digest
         /\ Activated(rec, x).result_target = rec.result_target
         /\ Cancelled(rec, x).digest = rec.digest
         /\ Cancelled(rec, x).result_target = rec.result_target
         /\ Ended(rec).digest = rec.digest
         /\ Ended(rec).result_target = rec.result_target
  BY DEF JobRecord, Activated, Cancelled, Ended

LEMMA ResultFields ==
  ASSUME NEW att \in AttemptRecord, NEW x
  PROVE  /\ Started(att).result = att.result /\ Reported(att, x).result = att.result
         /\ WithResult(att, x).result = x
  BY DEF AttemptRecord, Started, Reported, WithResult

\* A step that leaves the other jobs and attempts alone.
LEMMA OneForward ==
  ASSUME NEW j \in JobId, NEW a, \A i \in JobId : i # j => job'[i] = job[i],
         \A b \in AttemptId : b # a => attempt'[b] = attempt[b],
         JobForward(j), a \in AttemptId => AttemptForward(a),
         expired \subseteq expired',
         \A r \in RequestId : requestKey[r] # None => requestKey'[r] = requestKey[r]
  PROVE  Forward
  BY DEF Forward, JobForward, AttemptForward

LEMMA StoreForward == StoreInv /\ [Next]_storeVars => Forward
<1> SUFFICES ASSUME StoreInv, [Next]_storeVars PROVE Forward
  OBVIOUS
<1>0. /\ job \in [JobId -> JobRecord] /\ attempt \in [AttemptId -> AttemptRecord]
      /\ requestKey \in [RequestId -> JobId \cup {None}]
  BY DEF StoreInv, TypeOK
<1>1. ASSUME UNCHANGED <<job, attempt, requestKey>>, expired \subseteq expired'
      PROVE  Forward
  BY <1>1 DEF Forward, JobForward, AttemptForward
<1>2. ASSUME NEW j \in JobId, NEW r \in RequestId, NEW t \in Target, NEW dg \in Digest,
             NEW rt \in {"none", "resource"}, CreateJob(r, j, t, dg, rt)
      PROVE  Forward
  BY <1>0, <1>2, NoneIsNew
     DEF CreateJob, CreateAccepts, Forward, JobForward, AttemptForward
<1>3. ASSUME NEW j \in JobId, NEW t \in Target, NEW a \in AttemptId, NEW d \in Device,
             ClaimJob(j, t, d, a)
      PROVE  Forward
  <2>1. /\ job'[j] = Activated(job[j], a) /\ job[j] \in JobRecord
        /\ job[j].status = "queued" /\ attempt[a].phase = "none"
        /\ \A i \in JobId : i # j => job'[i] = job[i]
        /\ \A b \in AttemptId : b # a => attempt'[b] = attempt[b]
        /\ UNCHANGED <<expired, requestKey>>
    BY <1>0, <1>3 DEF ClaimJob, ClaimAccepts, ClaimMayOwn
  <2>2. job[j].latest = None
    BY <2>1 DEF StoreInv, JobAttemptAgree, JobAgrees
  <2>3. JobForward(j) /\ AttemptForward(a)
    BY <2>1, <2>2, JobFields, MoreJobFields DEF JobForward, AttemptForward
  <2> QED
    BY <2>1, <2>3, OneForward
<1>4. ASSUME NEW j \in JobId, NEW d \in Device, CancelQueued(j, None, d)
      PROVE  Forward
  <2>1. /\ job'[j] = Cancelled(job[j], d) /\ job[j] \in JobRecord
        /\ job[j].status = "queued" /\ UNCHANGED <<attempt, expired, requestKey>>
        /\ \A i \in JobId : i # j => job'[i] = job[i]
    BY <1>0, <1>4 DEF CancelQueued
  <2>2. JobForward(j)
    BY <2>1, JobFields, MoreJobFields DEF JobForward
  <2> QED
    BY <2>1, <2>2, OneForward, NoneIsNew
<1>5. ASSUME NEW j \in JobId, NEW a \in AttemptId, NEW d \in Device, StartJob(j, a, d)
      PROVE  Forward
  <2>1. /\ attempt'[a] = Started(attempt[a]) /\ attempt[a] \in AttemptRecord
        /\ \A b \in AttemptId : b # a => attempt'[b] = attempt[b]
        /\ UNCHANGED <<job, expired, requestKey>>
    BY <1>0, <1>5 DEF StartJob
  <2>2. AttemptForward(a) /\ JobForward(j)
    BY <2>1, StartedFields, ResultFields DEF AttemptForward, JobForward
  <2> QED
    BY <2>1, <2>2, OneForward
<1>6. ASSUME NEW j \in JobId, NEW a \in AttemptId, NEW rep, NEW new,
             attempt' = [attempt EXCEPT ![a] = Reported(@, rep)],
             job' = [job EXCEPT ![j] = new], job[j].status = "active",
             new = Ended(job[j]) \/ \E d \in Device : new = Cancelled(job[j], d),
             UNCHANGED <<expired, requestKey>>
      PROVE  Forward
  <2>1. /\ attempt'[a] = Reported(attempt[a], rep) /\ attempt[a] \in AttemptRecord
        /\ \A b \in AttemptId : b # a => attempt'[b] = attempt[b]
        /\ job'[j] = new /\ job[j] \in JobRecord
        /\ \A i \in JobId : i # j => job'[i] = job[i]
    BY <1>0, <1>6
  <2>2. AttemptForward(a)
    BY <2>1, ReportedFields, ResultFields DEF AttemptForward
  <2>3. JobForward(j)
    BY <1>6, <2>1, JobFields, MoreJobFields DEF JobForward
  <2> QED
    BY <1>6, <2>1, <2>2, <2>3, OneForward
<1>7. ASSUME NEW j \in JobId, NEW a \in AttemptId, NEW d \in Device, CancelActive(j, a, d)
      PROVE  Forward
  <2> DEFINE rep == OperatorReport(attempt[a].phase = "running")
  <2>1. /\ attempt' = [attempt EXCEPT ![a] = Reported(@, rep)]
        /\ job' = [job EXCEPT ![j] = Cancelled(job[j], d)] /\ job[j].status = "active"
        /\ UNCHANGED <<expired, requestKey>>
    BY <1>0, <1>7 DEF CancelActive, CancelReaches
  <2> HIDE DEF rep
  <2> QED
    BY <1>6, <2>1
<1>8. ASSUME NEW j \in JobId, NEW a \in AttemptId, NEW d \in Device, NEW rep \in Report,
             ReportJob(j, a, d, rep)
      PROVE  Forward
  <2>1. /\ attempt' = [attempt EXCEPT ![a] = Reported(@, rep)]
        /\ job' = [job EXCEPT ![j] = Ended(job[j])] /\ job[j].status = "active"
        /\ UNCHANGED <<expired, requestKey>>
    BY <1>0, <1>8 DEF ReportJob, ReportAccepts
  <2> QED
    BY <1>6, <2>1
<1>9. ASSUME NEW j \in JobId, NEW a \in AttemptId, NEW d \in Device, NEW p \in Payload,
             NEW mode, RecordJobResult(j, a, d, p, mode)
      PROVE  Forward
  <2>1. /\ attempt'[a] = WithResult(attempt[a], p) /\ attempt[a] \in AttemptRecord
        /\ \A b \in AttemptId : b # a => attempt'[b] = attempt[b]
        /\ UNCHANGED <<job, expired, requestKey>>
    BY <1>0, <1>9 DEF RecordJobResult
  <2>2. AttemptForward(a) /\ JobForward(j)
    BY <2>1, WithResultFields, ResultFields, NoneIsNew DEF AttemptForward, JobForward
  <2> QED
    BY <2>1, <2>2, OneForward
<1>10. ASSUME NEW j \in JobId, JobStep(j) PROVE Forward
  <2>1. CASE ClaimDeadlinePasses(j)
    BY <1>1, <2>1 DEF ClaimDeadlinePasses
  <2>2. CASE \E t \in Target, a \in AttemptId : ClaimTooLate(j, t, a)
    BY <1>1, <2>2 DEF ClaimTooLate
  <2> QED
    BY <1>2, <1>3, <1>4, <1>5, <1>7, <1>8, <1>9, <1>10, <2>1, <2>2 DEF JobStep
<1>11. ASSUME NEW t \in Target, FenceStep(t) PROVE Forward
  BY <1>1, <1>11 DEF FenceStep, FenceGoesStale, FenceExpires, DeleteFenceKey,
     AcquireTargetDeleteFence, TakeoverStaleTargetDeleteFence, TouchTargetDeleteFence
<1>12. CASE \E t \in Target, S \in SUBSET JobId : PruneTargetQueue(t, S)
  BY <1>1, <1>12 DEF PruneTargetQueue, ZRemTargetQueue
<1>13. CASE UNCHANGED storeVars
  BY <1>1, <1>13 DEF storeVars
<1> QED
  BY <1>10, <1>11, <1>12, <1>13 DEF Next

-----------------------------------------------------------------------------
(***************************************************************************)
(* The calls in flight.                                                    *)
(***************************************************************************)
At == {"idle", "begin", "existing", "authorize", "create", "queues", "jobs", "prune", "replay",
       "claim", "attempt", "apply", "record", "report", "cancel", "answered"}
AnyReq == {None} \cup UNION {Requests(o) : o \in Operations}
QueueRow == [target : Target, job : JobId]
Code == {"none", "ok", "created", "replayed", "claimed", "started", "recorded", "reported",
         "cancelled", "already_cancelled", "already_terminal", "REFUSED", "JOB_NOT_FOUND",
         "TARGET_NOT_FOUND", "TARGET_DISABLED", "TARGET_DELETE_FENCED", "IDEMPOTENCY_CONFLICT",
         "JOB_EXPIRED", "JOB_FINISHED", "JOB_ALREADY_CLAIMED", "RESULT_REQUIRED",
         "STALE_RESULT_SUBMISSION", "CANCEL_RACE", "CANCEL_RACE_EXHAUSTED",
         "CORRUPT_ATTEMPT_RECORD", "CORRUPT_JOB_STATE"}
Word == ExecutionStatus \cup {"none", "queued", "expired", "claimed", "running", "terminal"}
About == {None} \cup JobId \cup Payload \cup Word
Answer == [code : Code, about : About]

CallRow ==
  [op : Operations \cup {"none"}, at : At, req : AnyReq, job : JobRecord, att : {NoAttempt},
   round : {0, 1}, targets : SUBSET Target, rows : SUBSET QueueRow, stale : QueueRow \cup {None},
   offers : SUBSET JobId, answer : Answer]

\* A request is one its operation takes.
ReqOK(k) == k.op # "none" => k.req \in Requests(k.op)

SubmittedAs(j, s) ==
  /\ job[j].status # "none" /\ job[j].request = s.request /\ job[j].digest = s.digest
  /\ job[j].target = s.target /\ job[j].result_target = s.result_target

SubmitOK(k) ==
  k.op = "submit" =>
    /\ k.at = "existing" => requestKey[k.req.request] # None
    /\ k.at = "answered" /\ k.answer.code \in {"created", "replayed"} =>
         k.answer.about \in JobId /\ SubmittedAs(k.answer.about, k.req)

\* A row that was stale when it was read is stale when it is pruned.
PollOK(k) ==
  k.op = "poll" =>
    /\ \A r \in k.rows : job[r.job].status # "none"
    /\ k.at = "prune" => /\ k.stale \in k.rows
                         /\ \/ job[k.stale.job].status \in {"active", "terminal"}
                            \/ k.stale.job \in expired

ClaimOK(k) ==
  k.op = "claim" /\ k.at = "answered" /\ k.answer.code \in {"claimed", "replayed"} =>
    Owns(k.req.device, k.req.job, k.req.attempt)

\* A result is in Git before it is recorded, and a report that needs one has
\* seen it.
ResultOK(k) ==
  k.op = "result" /\ k.at = "record" =>
    [attempt |-> k.req.attempt, payload |-> k.req.payload] \in ledger

ReportOK(k) ==
  k.op = "report" /\ k.at \in {"attempt", "report"} =>
    /\ job[k.req.job].status # "none"
    /\ k.at = "report" /\ NeedsResult(job[k.req.job], k.req.report) =>
         attempt[k.req.attempt].phase # "none" /\ attempt[k.req.attempt].result # None

\* The linkage of a job changes once: a cancel that was overtaken has seen, or
\* will read, the one attempt of its job.
CancelOK(k) ==
  k.op = "cancel" =>
    /\ k.round = 1 => job[k.req.job].latest # None
    /\ k.at \in {"attempt", "cancel"} /\ (k.round = 1 \/ k.job.latest # None) =>
         k.job.latest = job[k.req.job].latest
    /\ k.at = "answered" => k.answer.code # "CANCEL_RACE_EXHAUSTED"
    /\ k.at = "answered" /\ k.answer.code = "cancelled" =>
         job[k.req.job].status = "terminal" /\ job[k.req.job].cancel # None

CallOK(c) ==
  /\ ReqOK(call[c]) /\ SubmitOK(call[c]) /\ PollOK(call[c]) /\ ClaimOK(call[c])
  /\ ResultOK(call[c]) /\ ReportOK(call[c]) /\ CancelOK(call[c])

CallInv == call \in [Call -> CallRow] /\ \A c \in Call : CallOK(c)

CreatedOnce ==
  \A c, o \in Call : c # o /\ Done(c, "submit", {"created"}) /\ Done(o, "submit", {"created"}) =>
    call[c].answer.about # call[o].answer.about

(***************************************************************************)
(* Jobs come from submissions, results have an attempt, and count only     *)
(* when they are in Git.                                                   *)
(***************************************************************************)
FromSubmission ==
  \A j \in JobId : job[j].status # "none" => \E s \in Submission : SubmittedAs(j, s)

ResultHasAttempt == \A a \in AttemptId : attempt[a].phase = "none" => attempt[a].result = None

RecordInv == FromSubmission /\ ResultHasAttempt /\ CompletedHasResult /\ RecordedWasCommitted

CoordInv == StoreInv /\ RecordInv /\ CallInv /\ CreatedOnce

-----------------------------------------------------------------------------
(***************************************************************************)
(* Facts about requests and rows.                                          *)
(***************************************************************************)
LEMMA ReqFacts ==
  ASSUME NEW k, ReqOK(k)
  PROVE  /\ k.op = "submit" =>
              /\ k.req \in Submission /\ k.req.request \in RequestId /\ k.req.target \in Target
              /\ k.req.digest \in Digest /\ k.req.result_target \in {"none", "resource"}
         /\ k.op \in {"claim", "start", "result", "report"} =>
              k.req.device \in Device /\ k.req.job \in JobId /\ k.req.attempt \in AttemptId
         /\ k.op = "result" => /\ k.req.payload \in Payload
                               /\ k.req.mode \in {"automatic", "explicit_redelivery"}
         /\ k.op = "report" => k.req.report \in Report
         /\ k.op = "cancel" => k.req.device \in Device /\ k.req.job \in JobId
         /\ k.op = "get" => k.req.job \in JobId
<1>1. k.op = "submit" =>
        /\ k.req \in Submission /\ k.req.request \in RequestId /\ k.req.target \in Target
        /\ k.req.digest \in Digest /\ k.req.result_target \in {"none", "resource"}
  BY SubmissionAssumption DEF ReqOK, Requests
<1>2. k.op \in {"claim", "start"} =>
        k.req.device \in Device /\ k.req.job \in JobId /\ k.req.attempt \in AttemptId
  BY CredentialAssumption DEF ReqOK, Requests
<1>3. k.op = "result" =>
        /\ k.req.device \in Device /\ k.req.job \in JobId /\ k.req.attempt \in AttemptId
        /\ k.req.payload \in Payload /\ k.req.mode \in {"automatic", "explicit_redelivery"}
  BY CredentialAssumption DEF ReqOK, Requests
<1>4. k.op = "report" =>
        /\ k.req.device \in Device /\ k.req.job \in JobId /\ k.req.attempt \in AttemptId
        /\ k.req.report \in Report
  BY CredentialAssumption DEF ReqOK, Requests
<1>5. k.op = "cancel" => k.req.device \in Device /\ k.req.job \in JobId
  <2>1. k.op = "cancel" => k.req \in [device : Device, job : JobId]
    BY DEF ReqOK, Requests
  <2> QED
    BY <2>1
<1>6. k.op = "get" => k.req.job \in JobId
  <2>1. k.op = "get" => k.req \in [job : JobId]
    BY DEF ReqOK, Requests
  <2> QED
    BY <2>1
<1> QED
  BY <1>1, <1>2, <1>3, <1>4, <1>5, <1>6

LEMMA NoneReq == None \in AnyReq
  BY DEF AnyReq

LEMMA AnyReqs ==
  ASSUME NEW o \in Operations, NEW q \in Requests(o)
  PROVE  q \in AnyReq
  BY DEF AnyReq

LEMMA NoJobRecord == NoJob \in JobRecord /\ NoJob.status = "none" /\ NoJob.latest = None
  BY DEF NoJob, JobRecord

LEMMA NoCallRow ==
  /\ NoCall \in CallRow /\ NoCall.op = "none" /\ NoCall.at = "idle"
<1> DEFINE a == NoAnswer
<1>1. a \in Answer
  BY DEF Answer, NoAnswer, Code, About
<1>2. "none" \in Operations \cup {"none"} /\ "idle" \in At
  BY DEF At
<1> HIDE DEF a
<1>3. NoCall = [op |-> "none", at |-> "idle", req |-> None, job |-> NoJob,
                att |-> NoAttempt, round |-> 0, targets |-> {}, rows |-> {},
                stale |-> None, offers |-> {}, answer |-> a]
  BY DEF NoCall, a
<1> QED
  BY <1>1, <1>2, <1>3, NoneReq, NoJobRecord DEF CallRow

OnlyCall(c) ==
  call' \in [Call -> CallRow] /\ \A d \in Call : d # c => call'[d] = call[d]

LEMMA RowChanges ==
  ASSUME CallInv, NEW c \in Call, NEW new \in CallRow, call' = [call EXCEPT ![c] = new]
  PROVE  OnlyCall(c) /\ call'[c] = new
  BY DEF CallInv, OnlyCall

SameRow(c) ==
  /\ call'[c].op = call[c].op /\ call'[c].req = call[c].req /\ call'[c].round = call[c].round
  /\ call'[c].rows = call[c].rows /\ call'[c].stale = call[c].stale

LEMMA MovesFields ==
  ASSUME CallInv, NEW c \in Call, NEW pc \in At, Moves(c, pc)
  PROVE  OnlyCall(c) /\ SameRow(c) /\ call'[c].at = pc /\ call'[c].job = call[c].job
<1> DEFINE new == [call[c] EXCEPT !.at = pc]
<1>1. call[c] \in CallRow
  BY DEF CallInv
<1>2. new \in CallRow
  BY <1>1 DEF CallRow
<1>3. /\ new.op = call[c].op /\ new.req = call[c].req /\ new.round = call[c].round
      /\ new.rows = call[c].rows /\ new.stale = call[c].stale /\ new.at = pc
      /\ new.job = call[c].job
  BY <1>1 DEF CallRow
<1>4. call' = [call EXCEPT ![c] = new]
  BY DEF Moves
<1> HIDE DEF new
<1> QED
  BY <1>2, <1>3, <1>4, RowChanges DEF SameRow

LEMMA ReadsFields ==
  ASSUME CallInv, NEW c \in Call, NEW pc \in At, NEW rec \in JobRecord, Reads(c, rec, pc)
  PROVE  OnlyCall(c) /\ SameRow(c) /\ call'[c].at = pc /\ call'[c].job = rec
<1> DEFINE new == [call[c] EXCEPT !.at = pc, !.job = rec]
<1>1. call[c] \in CallRow
  BY DEF CallInv
<1>2. new \in CallRow
  BY <1>1 DEF CallRow
<1>3. /\ new.op = call[c].op /\ new.req = call[c].req /\ new.round = call[c].round
      /\ new.rows = call[c].rows /\ new.stale = call[c].stale /\ new.at = pc
      /\ new.job = rec
  BY <1>1 DEF CallRow
<1>4. call' = [call EXCEPT ![c] = new]
  BY DEF Reads, CallInv
<1> HIDE DEF new
<1> QED
  BY <1>2, <1>3, <1>4, RowChanges DEF SameRow

LEMMA RepliesFields ==
  ASSUME CallInv, NEW c \in Call, NEW code \in Code, NEW about \in About,
         Replies(c, code, about)
  PROVE  /\ OnlyCall(c) /\ call'[c].op = call[c].op /\ call'[c].req = call[c].req
         /\ call'[c].at = "answered" /\ call'[c].round = 0 /\ call'[c].rows = {}
         /\ call'[c].answer.code = code /\ call'[c].answer.about = about
<1> DEFINE new == Answered(call[c], code, about)
<1> DEFINE ans == [code |-> code, about |-> about]
<1>1. call[c] \in CallRow /\ "answered" \in At
  BY DEF CallInv, At
<1>2. ans \in Answer /\ ans.code = code /\ ans.about = about
  BY DEF Answer
<1>3. new = [NoCall EXCEPT !.op = call[c].op, !.at = "answered", !.req = call[c].req,
                           !.offers = call[c].offers, !.answer = ans]
  BY DEF Answered
<1> HIDE DEF ans
<1>4. NoCall \in CallRow /\ NoCall.round = 0 /\ NoCall.rows = {}
  BY NoCallRow DEF NoCall
<1> HIDE DEF new
<1>5. new \in CallRow
  BY <1>1, <1>2, <1>3, <1>4 DEF CallRow
<1>6. /\ new.op = call[c].op /\ new.req = call[c].req /\ new.at = "answered"
      /\ new.round = 0 /\ new.rows = {} /\ new.answer = ans
  BY <1>1, <1>3, <1>4 DEF CallRow
<1>7. call' = [call EXCEPT ![c] = new]
  BY DEF Replies, new
<1> QED
  BY <1>2, <1>5, <1>6, <1>7, RowChanges

-----------------------------------------------------------------------------
(***************************************************************************)
(* What other calls rely on stays so.                                      *)
(***************************************************************************)
LEMMA OthersOK ==
  ASSUME StoreInv, CallInv, Forward, ledger \subseteq ledger', NEW d \in Call, call'[d] = call[d]
  PROVE  CallOK(d)'
<1>1. CallOK(d) /\ call[d] \in CallRow
  BY DEF CallInv
<1> DEFINE k == call[d]
<1>2. /\ \A j \in JobId : JobForward(j)
      /\ \A a \in AttemptId : AttemptForward(a)
      /\ expired \subseteq expired'
      /\ \A r \in RequestId : requestKey[r] # None => requestKey'[r] = requestKey[r]
  BY DEF Forward
<1>3. /\ k.op = "submit" => k.req.request \in RequestId
      /\ k.op \in {"claim", "start", "result", "report"} =>
              k.req.job \in JobId /\ k.req.attempt \in AttemptId
      /\ k.op = "cancel" => k.req.job \in JobId
  BY <1>1, ReqFacts DEF CallOK
<1>4. \A j \in JobId : job[j].latest # None \/ job[j].cancel # None => job[j].status # "none"
  BY DEF StoreInv, JobAttemptAgree, JobAgrees, NoJob
<1>5. ReqOK(k)
  BY <1>1 DEF CallOK
<1>6. SubmitOK(call[d])'
  BY <1>1, <1>2, <1>3 DEF CallOK, SubmitOK, SubmittedAs, JobForward
<1>7. PollOK(call[d])'
  <2>1. \A r \in k.rows : r.job \in JobId
    BY <1>1 DEF CallRow, QueueRow
  <2>2. PollOK(k)
    BY <1>1 DEF CallOK
  <2> QED
    BY <1>2, <2>1, <2>2 DEF PollOK, JobForward
<1>8. ClaimOK(call[d])'
  <2>1. ClaimOK(k)
    BY <1>1 DEF CallOK
  <2>2. \A j \in JobId : \A a \in AttemptId : \A x : Owns(x, j, a) =>
          /\ job'[j].latest = a /\ attempt'[a].phase # "none"
          /\ attempt'[a].job = j /\ attempt'[a].device = x
    BY <1>2, <1>4, NoneIsNew DEF Owns, JobForward, AttemptForward
  <2> QED
    BY <1>3, <2>1, <2>2 DEF ClaimOK, Owns
<1>9. ResultOK(call[d])'
  BY <1>1 DEF CallOK, ResultOK
<1>10. ReportOK(call[d])'
  BY <1>1, <1>2, <1>3 DEF CallOK, ReportOK, NeedsResult, JobForward, AttemptForward
<1>11. CancelOK(call[d])'
  BY <1>1, <1>2, <1>3, <1>4 DEF CallOK, CancelOK, JobForward
<1> QED
  BY <1>5, <1>6, <1>7, <1>8, <1>9, <1>10, <1>11 DEF CallOK, ReqOK

\* A step of call c: the store takes a step of its own or none.
LEMMA OneCallKeeps ==
  ASSUME CoordInv, [Next]_storeVars, RecordInv', ledger \subseteq ledger', NEW c \in Call,
         OnlyCall(c), CallOK(c)', CreatedOnce'
  PROVE  CoordInv'
<1>1. StoreInv' /\ Forward
  BY StoreInvStep, StoreForward DEF CoordInv
<1>2. CallInv'
  <2>1. \A d \in Call : CallOK(d)'
    BY <1>1, OthersOK DEF CoordInv, OnlyCall
  <2> QED
    BY <2>1 DEF CallInv, OnlyCall
<1> QED
  BY <1>1, <1>2 DEF CoordInv

LEMMA CallKeeps ==
  ASSUME CoordInv, [Next]_storeVars, RecordInv', ledger \subseteq ledger', NEW c \in Call,
         OnlyCall(c), CallOK(c)', ~Done(c, "submit", {"created"})'
  PROVE  CoordInv'
<1>1. CreatedOnce'
  BY DEF CoordInv, CreatedOnce, OnlyCall, Done
<1> QED
  BY <1>1, OneCallKeeps

LEMMA RecordsStay ==
  ASSUME RecordInv, UNCHANGED <<job, attempt>>, ledger \subseteq ledger'
  PROVE  RecordInv'
  BY DEF RecordInv, FromSubmission, SubmittedAs, ResultHasAttempt, CompletedHasResult,
     RecordedWasCommitted

\* A step of a call that only reads.
LEMMA QuietCall ==
  ASSUME CoordInv, UNCHANGED storeVars, ledger \subseteq ledger', NEW c \in Call,
         OnlyCall(c), CallOK(c)', ~Done(c, "submit", {"created"})'
  PROVE  CoordInv' /\ [Next]_storeVars
<1>1. RecordInv'
  BY RecordsStay DEF CoordInv, storeVars
<1> QED
  BY <1>1, CallKeeps

(***************************************************************************)
(* Answers and moves.                                                      *)
(***************************************************************************)
LEMMA AnswerKept ==
  ASSUME CallInv, NEW c \in Call, NEW code \in Code, NEW about \in About,
         Replies(c, code, about),
         call[c].op = "submit" /\ code \in {"created", "replayed"} =>
           /\ about \in JobId /\ job'[about].status # "none"
           /\ job'[about].request = call[c].req.request
           /\ job'[about].digest = call[c].req.digest
           /\ job'[about].target = call[c].req.target
           /\ job'[about].result_target = call[c].req.result_target,
         call[c].op = "claim" /\ code \in {"claimed", "replayed"} =>
           /\ job'[call[c].req.job].latest = call[c].req.attempt
           /\ attempt'[call[c].req.attempt].phase # "none"
           /\ attempt'[call[c].req.attempt].job = call[c].req.job
           /\ attempt'[call[c].req.attempt].device = call[c].req.device,
         call[c].op = "cancel" =>
           /\ code # "CANCEL_RACE_EXHAUSTED"
           /\ code = "cancelled" => /\ job'[call[c].req.job].status = "terminal"
                                    /\ job'[call[c].req.job].cancel # None
  PROVE  OnlyCall(c) /\ CallOK(c)' /\ (code # "created" => ~Done(c, "submit", {"created"})')
<1>1. /\ OnlyCall(c) /\ call'[c].op = call[c].op /\ call'[c].req = call[c].req
      /\ call'[c].at = "answered" /\ call'[c].round = 0 /\ call'[c].rows = {}
      /\ call'[c].answer.code = code /\ call'[c].answer.about = about
  BY RepliesFields
<1>2. ReqOK(call[c])
  BY DEF CallInv, CallOK
<1>3. ReqOK(call[c])'
  BY <1>1, <1>2 DEF ReqOK
<1>4. SubmitOK(call[c])'
  BY <1>1 DEF SubmitOK, SubmittedAs
<1>5. PollOK(call[c])' /\ ResultOK(call[c])' /\ ReportOK(call[c])'
  BY <1>1 DEF PollOK, ResultOK, ReportOK
<1>6. ClaimOK(call[c])'
  BY <1>1 DEF ClaimOK, Owns
<1>7. CancelOK(call[c])'
  BY <1>1 DEF CancelOK
<1>8. code # "created" => ~Done(c, "submit", {"created"})'
  BY <1>1 DEF Done
<1> QED
  BY <1>1, <1>3, <1>4, <1>5, <1>6, <1>7, <1>8 DEF CallOK

LEMMA AboutNone == None \in About
  BY DEF About

\* Answers that promise nothing.
Refusal == Code \ {"created", "replayed", "claimed", "cancelled", "CANCEL_RACE_EXHAUSTED"}

LEMMA QuietRefusal ==
  ASSUME CoordInv, UNCHANGED <<storeVars, ledger>>, NEW c \in Call, NEW code \in Refusal,
         NEW about \in About, Replies(c, code, about)
  PROVE  CoordInv' /\ [Next]_storeVars
<1>1. CallInv /\ code \in Code
  BY DEF CoordInv, Refusal
<1>2. code \notin {"created", "replayed", "claimed", "cancelled", "CANCEL_RACE_EXHAUSTED"}
  BY DEF Refusal
<1>3. OnlyCall(c) /\ CallOK(c)' /\ ~Done(c, "submit", {"created"})'
  BY <1>1, <1>2, AnswerKept
<1> QED
  BY <1>3, QuietCall

\* A quiet step of a call to another place.
LEMMA QuietMove ==
  ASSUME CoordInv, UNCHANGED storeVars, ledger \subseteq ledger', NEW c \in Call,
         NEW pc \in At, Moves(c, pc),
         pc \notin {"answered", "prune"},
         call[c].op = "submit" /\ pc = "existing" => requestKey[call[c].req.request] # None,
         call[c].op = "result" /\ pc = "record" =>
           [attempt |-> call[c].req.attempt, payload |-> call[c].req.payload] \in ledger',
         call[c].op = "report" /\ pc \in {"attempt", "report"} =>
           /\ call[c].at \in {"attempt", "report"}
           /\ pc = "report" =>
                attempt[call[c].req.attempt].phase # "none" /\ attempt[call[c].req.attempt].result # None,
         call[c].op = "cancel" => call[c].at \in {"attempt", "cancel"}
  PROVE  CoordInv' /\ [Next]_storeVars
<1>0. CallInv /\ CallOK(c)
  BY DEF CoordInv, CallInv
<1>1. /\ OnlyCall(c) /\ call'[c].op = call[c].op /\ call'[c].req = call[c].req
      /\ call'[c].round = call[c].round /\ call'[c].rows = call[c].rows
      /\ call'[c].stale = call[c].stale /\ call'[c].at = pc /\ call'[c].job = call[c].job
  BY <1>0, MovesFields DEF SameRow
<1>2. UNCHANGED <<job, attempt, requestKey, expired>>
  BY DEF storeVars
<1>3. ReqOK(call[c])' /\ SubmitOK(call[c])'
  BY <1>0, <1>1, <1>2 DEF CallOK, ReqOK, SubmitOK
<1>4. PollOK(call[c])' /\ ClaimOK(call[c])' /\ ResultOK(call[c])'
  BY <1>0, <1>1, <1>2 DEF CallOK, PollOK, ClaimOK, ResultOK
<1>5. ReportOK(call[c])'
  BY <1>0, <1>1, <1>2 DEF CallOK, ReportOK
<1>6. CancelOK(call[c])'
  BY <1>0, <1>1, <1>2 DEF CallOK, CancelOK
<1>7. ~Done(c, "submit", {"created"})'
  BY <1>1 DEF Done
<1> QED
  BY <1>1, <1>3, <1>4, <1>5, <1>6, <1>7, QuietCall DEF CallOK

\* A call reads its job.
LEMMA QuietRead ==
  ASSUME CoordInv, UNCHANGED <<storeVars, ledger>>, NEW c \in Call,
         NEW j \in JobId, job[j].status # "none", NEW pc \in At, Reads(c, job[j], pc),
         call[c].op \in {"claim", "result", "report", "cancel", "get"}, call[c].req.job = j,
         pc \in {"replay", "authorize", "attempt", "report"},
         call[c].op = "report" /\ pc = "report" => ~NeedsResult(job[j], call[c].req.report)
  PROVE  CoordInv' /\ [Next]_storeVars
<1>0. CallInv /\ CallOK(c) /\ job[j] \in JobRecord
  BY DEF CoordInv, CallInv, StoreInv, TypeOK
<1>1. /\ OnlyCall(c) /\ call'[c].op = call[c].op /\ call'[c].req = call[c].req
      /\ call'[c].round = call[c].round /\ call'[c].rows = call[c].rows
      /\ call'[c].stale = call[c].stale /\ call'[c].at = pc /\ call'[c].job = job[j]
  BY <1>0, ReadsFields DEF SameRow
<1>2. UNCHANGED <<job, attempt, requestKey, expired>>
  BY DEF storeVars
<1>3. ReqOK(call[c])' /\ SubmitOK(call[c])'
  BY <1>0, <1>1, <1>2 DEF CallOK, ReqOK, SubmitOK
<1>4. PollOK(call[c])' /\ ClaimOK(call[c])' /\ ResultOK(call[c])'
  BY <1>0, <1>1, <1>2 DEF CallOK, PollOK, ClaimOK, ResultOK
<1>5. ReportOK(call[c])'
  BY <1>0, <1>1, <1>2 DEF CallOK, ReportOK, NeedsResult
<1>6. CancelOK(call[c])'
  BY <1>0, <1>1, <1>2 DEF CallOK, CancelOK
<1>7. ~Done(c, "submit", {"created"})'
  BY <1>1 DEF Done
<1> QED
  BY <1>1, <1>3, <1>4, <1>5, <1>6, <1>7, QuietCall DEF CallOK

-----------------------------------------------------------------------------
(***************************************************************************)
(* The calls' reads.                                                       *)
(***************************************************************************)
LEMMA CallFacts ==
  ASSUME CoordInv, NEW c \in Call
  PROVE  /\ CallOK(c) /\ call[c] \in CallRow
         /\ call[c].op = "submit" =>
              /\ call[c].req \in Submission /\ call[c].req.request \in RequestId
              /\ call[c].req.target \in Target /\ call[c].req.digest \in Digest
              /\ call[c].req.result_target \in {"none", "resource"}
         /\ call[c].op \in {"claim", "start", "result", "report"} =>
              /\ call[c].req.device \in Device /\ call[c].req.job \in JobId
              /\ call[c].req.attempt \in AttemptId
         /\ call[c].op = "result" => /\ call[c].req.payload \in Payload
                                     /\ call[c].req.mode \in {"automatic", "explicit_redelivery"}
         /\ call[c].op = "report" => call[c].req.report \in Report
         /\ call[c].op = "cancel" => call[c].req.device \in Device /\ call[c].req.job \in JobId
         /\ call[c].op = "get" => call[c].req.job \in JobId
  BY ReqFacts DEF CoordInv, CallInv, CallOK

LEMMA SubmitLookupKeeps ==
  ASSUME CoordInv, NEW c \in Call, SubmitLookup(c)
  PROVE  CoordInv' /\ [Next]_storeVars
<1>1. "authorize" \in At /\ "existing" \in At
  BY DEF At
<1>2. call[c].op = "submit" /\ UNCHANGED storeVars /\ UNCHANGED ledger
  BY DEF SubmitLookup, Waits
<1>3. CASE requestKey[call[c].req.request] = None
  <2>1. Moves(c, "authorize")
    BY <1>3 DEF SubmitLookup
  <2> QED
    BY <1>1, <1>2, <2>1, QuietMove
<1>4. CASE requestKey[call[c].req.request] # None
  <2>1. Moves(c, "existing")
    BY <1>4 DEF SubmitLookup
  <2> QED
    BY <1>1, <1>2, <1>4, <2>1, QuietMove
<1> QED
  BY <1>3, <1>4

LEMMA SubmitReadExistingKeeps ==
  ASSUME CoordInv, NEW c \in Call, SubmitReadExisting(c)
  PROVE  CoordInv' /\ [Next]_storeVars
<1> DEFINE s == call[c].req
<1> DEFINE j == requestKey[s.request]
<1>1. /\ call[c].op = "submit" /\ call[c].at = "existing"
      /\ UNCHANGED storeVars /\ UNCHANGED ledger /\ UNCHANGED job
  BY DEF SubmitReadExisting, Waits, storeVars
<1>2. s \in Submission /\ s.request \in RequestId /\ s.digest \in Digest
  BY <1>1, CallFacts
<1>3. j # None /\ j \in JobId
  BY <1>1, <1>2, CallFacts DEF CoordInv, StoreInv, TypeOK, CallOK, SubmitOK
<1>4. job[j].request = s.request /\ job[j].status # "none"
  BY <1>2, <1>3, NoneIsNew
     DEF CoordInv, StoreInv, OneJobPerRequest, JobAttemptAgree, JobAgrees, NoJob
<1>5. CASE job[j].digest = s.digest
  <2>1. Replies(c, "replayed", j)
    BY <1>5 DEF SubmitReadExisting
  <2>2. PICK s0 \in Submission : SubmittedAs(j, s0)
    BY <1>3, <1>4 DEF CoordInv, RecordInv, FromSubmission
  <2>3. job[j].target = s.target /\ job[j].result_target = s.result_target
    BY <1>2, <1>5, <2>2, SubmissionAssumption DEF SubmittedAs
  <2>4. "replayed" \in Code /\ j \in About
    BY <1>3 DEF Code, About
  <2>5. CallInv
    BY DEF CoordInv
  <2> HIDE DEF j, s
  <2>6. /\ call[c].req.request = s.request /\ call[c].req.digest = s.digest
        /\ call[c].req.target = s.target /\ call[c].req.result_target = s.result_target
    BY DEF s
  <2>7. OnlyCall(c) /\ CallOK(c)' /\ ~Done(c, "submit", {"created"})'
    BY <1>1, <1>3, <1>4, <1>5, <2>1, <2>3, <2>4, <2>5, <2>6, AnswerKept
  <2> QED
    BY <1>1, <2>7, QuietCall
<1>6. CASE job[j].digest # s.digest
  <2>1. Replies(c, "IDEMPOTENCY_CONFLICT", None)
    BY <1>6 DEF SubmitReadExisting
  <2>2. "IDEMPOTENCY_CONFLICT" \in Refusal
    BY DEF Refusal, Code
  <2> QED
    BY <1>1, <2>1, <2>2, QuietRefusal, AboutNone
<1> QED
  BY <1>5, <1>6

LEMMA SubmitAuthorizeKeeps ==
  ASSUME CoordInv, NEW c \in Call, SubmitAuthorize(c)
  PROVE  CoordInv' /\ [Next]_storeVars
<1>1. call[c].op = "submit" /\ UNCHANGED storeVars /\ UNCHANGED ledger
  BY DEF SubmitAuthorize, Waits
<1>2. \/ Replies(c, "TARGET_NOT_FOUND", None) \/ Replies(c, "TARGET_DISABLED", None)
      \/ Moves(c, "create")
  BY DEF SubmitAuthorize
<1>3. "create" \in At /\ "TARGET_NOT_FOUND" \in Refusal /\ "TARGET_DISABLED" \in Refusal
  BY DEF At, Refusal, Code
<1>4. CASE Moves(c, "create")
  BY <1>1, <1>3, <1>4, QuietMove
<1> QED
  BY <1>1, <1>2, <1>3, <1>4, QuietRefusal, AboutNone

LEMMA ClaimReadKeeps ==
  ASSUME CoordInv, NEW c \in Call, ClaimRead(c)
  PROVE  CoordInv' /\ [Next]_storeVars
<1>1. call[c].op = "claim" /\ UNCHANGED storeVars /\ UNCHANGED ledger
  BY DEF ClaimRead, Waits
<1>2. call[c].req.job \in JobId
  BY <1>1, CallFacts
<1> DEFINE j == call[c].req.job
<1>3. CASE job[j].status = "none"
  <2>1. Replies(c, "JOB_NOT_FOUND", None)
    BY <1>3 DEF ClaimRead
  <2>2. "JOB_NOT_FOUND" \in Refusal
    BY DEF Refusal, Code
  <2> QED
    BY <1>1, <2>1, <2>2, QuietRefusal, AboutNone
<1>4. CASE job[j].status # "none"
  <2>1. Reads(c, job[j], "replay") \/ Reads(c, job[j], "authorize")
    BY <1>4 DEF ClaimRead
  <2>2. "replay" \in At /\ "authorize" \in At
    BY DEF At
  <2> HIDE DEF j
  <2>3. j \in JobId /\ call[c].req.job = j
    BY <1>2 DEF j
  <2>4. call[c].op \in {"claim", "result", "report", "cancel", "get"}
    BY <1>1
  <2> QED
    BY <1>1, <1>4, <2>1, <2>2, <2>3, <2>4, QuietRead
<1> QED
  BY <1>3, <1>4

LEMMA ClaimAuthorizeKeeps ==
  ASSUME CoordInv, NEW c \in Call, ClaimAuthorize(c)
  PROVE  CoordInv' /\ [Next]_storeVars
<1>1. call[c].op = "claim" /\ UNCHANGED storeVars /\ UNCHANGED ledger
  BY DEF ClaimAuthorize, Waits
<1>2. "claim" \in At /\ "JOB_NOT_FOUND" \in Refusal
  BY DEF At, Refusal, Code
<1>3. Moves(c, "claim") \/ Replies(c, "JOB_NOT_FOUND", None)
  BY DEF ClaimAuthorize
<1>4. CASE Moves(c, "claim")
  BY <1>1, <1>2, <1>4, QuietMove
<1> QED
  BY <1>1, <1>2, <1>3, <1>4, QuietRefusal, AboutNone

LEMMA ClaimReplayKeeps ==
  ASSUME CoordInv, NEW c \in Call, ClaimReplay(c)
  PROVE  CoordInv' /\ [Next]_storeVars
<1>1. /\ call[c].op = "claim" /\ UNCHANGED storeVars /\ UNCHANGED ledger
      /\ UNCHANGED <<job, attempt>>
  BY DEF ClaimReplay, storeVars
<1> DEFINE q == call[c].req
<1>2. /\ job[q.job].latest = q.attempt /\ attempt[q.attempt].phase \in {"claimed", "running"}
      /\ attempt[q.attempt].job = q.job /\ attempt[q.attempt].device = q.device
      /\ Replies(c, "replayed", attempt[q.attempt].phase)
  BY DEF ClaimReplay, ClaimReplays
<1>3. "replayed" \in Code /\ attempt[q.attempt].phase \in About /\ CallInv
  BY <1>2 DEF Code, About, Word, CoordInv
<1>4. OnlyCall(c) /\ CallOK(c)' /\ ~Done(c, "submit", {"created"})'
  BY <1>1, <1>2, <1>3, AnswerKept
<1> QED
  BY <1>1, <1>4, QuietCall

LEMMA ClaimRefusedKeeps ==
  ASSUME CoordInv, NEW c \in Call, ClaimRefused(c)
  PROVE  CoordInv' /\ [Next]_storeVars
<1> DEFINE code == ClaimRefusal(call[c].req, call[c].job.target)
<1>1. UNCHANGED storeVars /\ UNCHANGED ledger /\ Replies(c, code, None)
  BY DEF ClaimRefused
<1>2. code \in Refusal
  BY DEF ClaimRefusal, Refusal, Code
<1> HIDE DEF code
<1> QED
  BY <1>1, <1>2, QuietRefusal, AboutNone

LEMMA ResultReadJobKeeps ==
  ASSUME CoordInv, NEW c \in Call, ResultReadJob(c)
  PROVE  CoordInv' /\ [Next]_storeVars
<1>1. call[c].op = "result" /\ UNCHANGED storeVars /\ UNCHANGED ledger
  BY DEF ResultReadJob, Waits
<1> DEFINE j == call[c].req.job
<1>2. \/ job[j].status # "none" /\ Reads(c, job[j], "attempt")
      \/ Replies(c, "REFUSED", None)
  BY DEF ResultReadJob
<1>3. "attempt" \in At /\ "REFUSED" \in Refusal
  BY DEF At, Refusal, Code
<1>4. j \in JobId /\ call[c].req.job = j /\ call[c].op \in {"claim", "result", "report", "cancel", "get"}
  BY <1>1, CallFacts
<1> HIDE DEF j
<1>5. CASE Replies(c, "REFUSED", None)
  BY <1>1, <1>3, <1>5, QuietRefusal, AboutNone
<1> QED
  BY <1>1, <1>2, <1>3, <1>4, <1>5, QuietRead

LEMMA ResultReadAttemptKeeps ==
  ASSUME CoordInv, NEW c \in Call, ResultReadAttempt(c)
  PROVE  CoordInv' /\ [Next]_storeVars
<1>1. call[c].op = "result" /\ UNCHANGED storeVars /\ UNCHANGED ledger
  BY DEF ResultReadAttempt, Waits
<1> DEFINE p == call[c].req.payload
<1>2. \/ Replies(c, "REFUSED", None) \/ Replies(c, "CORRUPT_ATTEMPT_RECORD", None)
      \/ Replies(c, "replayed", p) \/ Replies(c, "STALE_RESULT_SUBMISSION", None)
      \/ Moves(c, "apply")
  BY DEF ResultReadAttempt
<1>3. /\ "apply" \in At /\ "REFUSED" \in Refusal /\ "CORRUPT_ATTEMPT_RECORD" \in Refusal
      /\ "STALE_RESULT_SUBMISSION" \in Refusal /\ "replayed" \in Code
  BY DEF At, Refusal, Code
<1>4. p \in About /\ CallInv
  BY <1>1, CallFacts DEF About, CoordInv
<1> HIDE DEF p
<1>5. CASE Replies(c, "replayed", p)
  <2>1. OnlyCall(c) /\ CallOK(c)' /\ ~Done(c, "submit", {"created"})'
    BY <1>1, <1>3, <1>4, <1>5, AnswerKept
  <2> QED
    BY <1>1, <2>1, QuietCall
<1>6. CASE Moves(c, "apply")
  BY <1>1, <1>3, <1>6, QuietMove
<1> QED
  BY <1>1, <1>2, <1>3, <1>5, <1>6, QuietRefusal, AboutNone

LEMMA ResultApplyKeeps ==
  ASSUME CoordInv, NEW c \in Call, ResultApply(c)
  PROVE  CoordInv' /\ [Next]_storeVars
<1>1. /\ call[c].op = "result" /\ UNCHANGED storeVars /\ Moves(c, "record")
      /\ ledger' = ledger \cup {[attempt |-> call[c].req.attempt, payload |-> call[c].req.payload]}
  BY DEF ResultApply, Waits
<1>2. "record" \in At
  BY DEF At
<1>3. /\ ledger \subseteq ledger'
      /\ [attempt |-> call[c].req.attempt, payload |-> call[c].req.payload] \in ledger'
  BY <1>1
<1> QED
  BY <1>1, <1>2, <1>3, QuietMove

LEMMA ReportReadJobKeeps ==
  ASSUME CoordInv, NEW c \in Call, ReportReadJob(c)
  PROVE  CoordInv' /\ [Next]_storeVars
<1>1. call[c].op = "report" /\ UNCHANGED storeVars /\ UNCHANGED ledger
  BY DEF ReportReadJob, Waits
<1> DEFINE j == call[c].req.job
<1>2. \/ /\ job[j].status # "none"
         /\ \/ Reads(c, job[j], "attempt")
            \/ Reads(c, job[j], "report") /\ ~NeedsResult(job[j], call[c].req.report)
      \/ Replies(c, "JOB_NOT_FOUND", None)
  BY DEF ReportReadJob
<1>3. "attempt" \in At /\ "report" \in At /\ "JOB_NOT_FOUND" \in Refusal
  BY DEF At, Refusal, Code
<1>4. j \in JobId /\ call[c].req.job = j /\ call[c].op \in {"claim", "result", "report", "cancel", "get"}
  BY <1>1, CallFacts
<1> HIDE DEF j
<1>5. CASE Replies(c, "JOB_NOT_FOUND", None)
  BY <1>1, <1>3, <1>5, QuietRefusal, AboutNone
<1> QED
  BY <1>1, <1>2, <1>3, <1>4, <1>5, QuietRead

LEMMA ReportReadAttemptKeeps ==
  ASSUME CoordInv, NEW c \in Call, ReportReadAttempt(c)
  PROVE  CoordInv' /\ [Next]_storeVars
<1>1. call[c].op = "report" /\ call[c].at = "attempt" /\ UNCHANGED storeVars /\ UNCHANGED ledger
  BY DEF ReportReadAttempt, Waits
<1> DEFINE a == call[c].req.attempt
<1>2. \/ Replies(c, "CORRUPT_ATTEMPT_RECORD", None) \/ Replies(c, "RESULT_REQUIRED", None)
      \/ attempt[a].result # None /\ Moves(c, "report")
  BY DEF ReportReadAttempt
<1>3. "report" \in At /\ "CORRUPT_ATTEMPT_RECORD" \in Refusal /\ "RESULT_REQUIRED" \in Refusal
  BY DEF At, Refusal, Code
<1>4. attempt[a].result # None => attempt[a].phase # "none"
  BY <1>1, CallFacts DEF CoordInv, RecordInv, ResultHasAttempt
<1>5. CASE attempt[a].result # None /\ Moves(c, "report")
  BY <1>1, <1>3, <1>4, <1>5, QuietMove
<1> QED
  BY <1>1, <1>2, <1>3, <1>5, QuietRefusal, AboutNone

LEMMA CancelReadJobKeeps ==
  ASSUME CoordInv, NEW c \in Call, CancelReadJob(c)
  PROVE  CoordInv' /\ [Next]_storeVars
<1>1. call[c].op = "cancel" /\ UNCHANGED storeVars /\ UNCHANGED ledger
  BY DEF CancelReadJob, Waits
<1> DEFINE j == call[c].req.job
<1>2. \/ job[j].status # "none" /\ Reads(c, job[j], "attempt")
      \/ Replies(c, "JOB_NOT_FOUND", None)
  BY DEF CancelReadJob
<1>3. "attempt" \in At /\ "JOB_NOT_FOUND" \in Refusal
  BY DEF At, Refusal, Code
<1>4. j \in JobId /\ call[c].req.job = j /\ call[c].op \in {"claim", "result", "report", "cancel", "get"}
  BY <1>1, CallFacts
<1> HIDE DEF j
<1>5. CASE Replies(c, "JOB_NOT_FOUND", None)
  BY <1>1, <1>3, <1>5, QuietRefusal, AboutNone
<1> QED
  BY <1>1, <1>2, <1>3, <1>4, <1>5, QuietRead

LEMMA GetReadJobKeeps ==
  ASSUME CoordInv, NEW c \in Call, GetReadJob(c)
  PROVE  CoordInv' /\ [Next]_storeVars
<1>1. call[c].op = "get" /\ UNCHANGED storeVars /\ UNCHANGED ledger
  BY DEF GetReadJob, Waits
<1> DEFINE j == call[c].req.job
<1>2. \/ job[j].status # "none" /\ Reads(c, job[j], "attempt")
      \/ Replies(c, "JOB_NOT_FOUND", None)
  BY DEF GetReadJob
<1>3. "attempt" \in At /\ "JOB_NOT_FOUND" \in Refusal
  BY DEF At, Refusal, Code
<1>4. j \in JobId /\ call[c].req.job = j /\ call[c].op \in {"claim", "result", "report", "cancel", "get"}
  BY <1>1, CallFacts
<1> HIDE DEF j
<1>5. CASE Replies(c, "JOB_NOT_FOUND", None)
  BY <1>1, <1>3, <1>5, QuietRefusal, AboutNone
<1> QED
  BY <1>1, <1>2, <1>3, <1>4, <1>5, QuietRead

\* What a reader is told about a job is a word of the protocol.
LEMMA ReportStatus ==
  ASSUME NEW rep \in AnyReport
  PROVE  rep.execution_status \in ExecutionStatus
  BY ReportAssumption DEF AnyReport, IsReport, OperatorReport, ExecutionStatus

LEMMA NamedRecord ==
  ASSUME CoordInv, NEW rec \in JobRecord
  PROVE  NamedAttempt(rec) \in AttemptRecord
<1>1. NoAttempt \in AttemptRecord
  BY DEF NoAttempt, AttemptRecord
<1>2. rec.latest \in AttemptId \cup {None}
  BY DEF JobRecord
<1> QED
  BY <1>1, <1>2 DEF CoordInv, StoreInv, TypeOK, NamedAttempt

LEMMA ViewWord ==
  ASSUME NEW rec \in JobRecord, NEW att \in AttemptRecord
  PROVE  ExecutionStatusView(rec, att) \in About
<1>1. att.report \in AnyReport \cup {None}
  BY DEF AttemptRecord
<1>2. att.report # None => att.report.execution_status \in ExecutionStatus
  BY <1>1, ReportStatus
<1>3. "CANCELLED" \in ExecutionStatus
  BY DEF ExecutionStatus
<1> QED
  BY <1>2, <1>3 DEF ExecutionStatusView, About, Word

LEMMA StateWord ==
  ASSUME NEW rec \in JobRecord, NEW att, NEW e
  PROVE  HostState(rec, att, e) \in {"queued", "expired", "claimed", "running", "terminal", "CORRUPT_JOB_STATE"}
<1>1. rec.status \in {"none", "queued", "active", "terminal"}
  BY DEF JobRecord
<1>2. CASE rec.status = "none"
  BY <1>2 DEF HostState
<1>3. CASE rec.status = "queued"
  BY <1>3 DEF HostState
<1>4. CASE rec.status = "active"
  BY <1>4 DEF HostState
<1>5. CASE rec.status = "terminal"
  BY <1>5 DEF HostState
<1> QED
  BY <1>1, <1>2, <1>3, <1>4, <1>5

LEMMA CancelReadAttemptKeeps ==
  ASSUME CoordInv, NEW c \in Call, CancelReadAttempt(c)
  PROVE  CoordInv' /\ [Next]_storeVars
<1>1. call[c].op = "cancel" /\ call[c].at = "attempt" /\ UNCHANGED storeVars /\ UNCHANGED ledger
  BY DEF CancelReadAttempt, Waits
<1> DEFINE att == NamedAttempt(call[c].job)
<1> DEFINE status == ExecutionStatusView(call[c].job, att)
<1>2. status \in About
  <2>1. call[c].job \in JobRecord
    BY CallFacts DEF CallRow
  <2> QED
    BY <2>1, NamedRecord, ViewWord
<1>3. \/ Replies(c, "CORRUPT_ATTEMPT_RECORD", None) \/ Replies(c, "CORRUPT_JOB_STATE", None)
      \/ Replies(c, "already_cancelled", status) \/ Replies(c, "already_terminal", status)
      \/ Moves(c, "cancel")
  BY DEF CancelReadAttempt
<1>4. /\ "cancel" \in At /\ "CORRUPT_ATTEMPT_RECORD" \in Refusal /\ "CORRUPT_JOB_STATE" \in Refusal
      /\ "already_cancelled" \in Refusal /\ "already_terminal" \in Refusal
  BY DEF At, Refusal, Code
<1> HIDE DEF status, att
<1>5. CASE Moves(c, "cancel")
  BY <1>1, <1>4, <1>5, QuietMove
<1> QED
  BY <1>1, <1>2, <1>3, <1>4, <1>5, QuietRefusal, AboutNone

LEMMA GetReadAttemptKeeps ==
  ASSUME CoordInv, NEW c \in Call, GetReadAttempt(c)
  PROVE  CoordInv' /\ [Next]_storeVars
<1>1. UNCHANGED storeVars /\ UNCHANGED ledger
  BY DEF GetReadAttempt
<1> DEFINE state == HostState(call[c].job, NamedAttempt(call[c].job), call[c].req.job \in expired)
<1>2. state # "CORRUPT_JOB_STATE" => state \in About
  <2>1. call[c].job \in JobRecord
    BY CallFacts DEF CallRow
  <2>2. state \in {"queued", "expired", "claimed", "running", "terminal", "CORRUPT_JOB_STATE"}
    BY <2>1, StateWord
  <2> QED
    BY <2>2 DEF About, Word
<1>3. \/ Replies(c, "CORRUPT_ATTEMPT_RECORD", None) \/ Replies(c, "CORRUPT_JOB_STATE", None)
      \/ state # "CORRUPT_JOB_STATE" /\ Replies(c, "ok", state)
  BY DEF GetReadAttempt
<1>4. "CORRUPT_ATTEMPT_RECORD" \in Refusal /\ "CORRUPT_JOB_STATE" \in Refusal /\ "ok" \in Refusal
  BY DEF Refusal, Code
<1> HIDE DEF state
<1> QED
  BY <1>1, <1>2, <1>3, <1>4, QuietRefusal, AboutNone

(***************************************************************************)
(* The cancel loop comes round once: the second read sees the one linkage  *)
(* the job will ever have.                                                 *)
(***************************************************************************)
LEMMA CancelRacesKeeps ==
  ASSUME CoordInv, NEW c \in Call, CancelRaces(c)
  PROVE  CoordInv' /\ [Next]_storeVars
<1> DEFINE j == call[c].req.job
<1>1. /\ call[c].op = "cancel" /\ call[c].at = "cancel" /\ UNCHANGED storeVars /\ UNCHANGED ledger
      /\ job[j].latest # call[c].job.latest /\ UNCHANGED job
  BY DEF CancelRaces, Waits, storeVars
<1>2. CallOK(c) /\ call[c] \in CallRow /\ CallInv
  BY CallFacts DEF CoordInv
<1>3. call[c].round = 0 /\ call[c].job.latest = None /\ job[j].latest # None
  <2>1. call[c].round \in {0, 1}
    BY <1>2 DEF CallRow
  <2>2. CancelOK(call[c])
    BY <1>2 DEF CallOK
  <2> QED
    BY <1>1, <2>1, <2>2 DEF CancelOK
<1> DEFINE new == [call[c] EXCEPT !.at = "begin", !.job = NoJob, !.round = 1]
<1>4. call' = [call EXCEPT ![c] = new]
  <2>1. call[c].round + 1 < MaxRounds /\ call[c].round + 1 = 1
    BY <1>3, RoundsAssumption
  <2>2. call' = [call EXCEPT ![c].at = "begin", ![c].job = NoJob, ![c].round = @ + 1]
    BY <2>1 DEF CancelRaces
  <2> QED
    BY <2>1, <2>2, <1>2 DEF CallInv
<1>5. new \in CallRow
  <2>1. "begin" \in At
    BY DEF At
  <2> QED
    BY <1>2, <2>1, NoJobRecord DEF CallRow
<1>6. new.op = call[c].op /\ new.req = call[c].req /\ new.at = "begin" /\ new.round = 1
  BY <1>2 DEF CallRow
<1> HIDE DEF new
<1>7. OnlyCall(c) /\ call'[c] = new
  BY <1>2, <1>4, <1>5, RowChanges
<1>8. ReqOK(call[c])'
  BY <1>2, <1>6, <1>7 DEF CallOK, ReqOK
<1>9. /\ SubmitOK(call[c])' /\ PollOK(call[c])' /\ ClaimOK(call[c])' /\ ResultOK(call[c])'
      /\ ReportOK(call[c])' /\ ~Done(c, "submit", {"created"})'
  BY <1>1, <1>6, <1>7 DEF SubmitOK, PollOK, ClaimOK, ResultOK, ReportOK, Done
<1>10. CancelOK(call[c])'
  BY <1>1, <1>3, <1>6, <1>7 DEF CancelOK
<1> QED
  BY <1>1, <1>7, <1>8, <1>9, <1>10, QuietCall DEF CallOK

-----------------------------------------------------------------------------
(***************************************************************************)
(* Calls come and go.                                                      *)
(***************************************************************************)
LEMMA FreshCall ==
  ASSUME CoordInv, UNCHANGED <<storeVars, ledger>>, NEW c \in Call, NEW new \in CallRow,
         call' = [call EXCEPT ![c] = new], ReqOK(new), new.at \in {"idle", "begin"},
         new.round = 0, new.rows = {}
  PROVE  CoordInv' /\ [Next]_storeVars
<1>1. OnlyCall(c) /\ call'[c] = new
  BY RowChanges DEF CoordInv
<1>2. ReqOK(call[c])'
  BY <1>1 DEF ReqOK
<1>3. /\ SubmitOK(call[c])' /\ PollOK(call[c])' /\ ClaimOK(call[c])' /\ ResultOK(call[c])'
      /\ ReportOK(call[c])' /\ CancelOK(call[c])' /\ ~Done(c, "submit", {"created"})'
  BY <1>1 DEF SubmitOK, PollOK, ClaimOK, ResultOK, ReportOK, CancelOK, Done
<1> QED
  BY <1>1, <1>2, <1>3, QuietCall DEF CallOK

LEMMA InvokeKeeps ==
  ASSUME CoordInv, NEW c \in Call, NEW op \in Op, Invoke(c, op)
  PROVE  CoordInv' /\ [Next]_storeVars
<1>1. PICK q \in Requests(op) :
        call' = [call EXCEPT ![c] = [NoCall EXCEPT !.op = op, !.at = "begin", !.req = q]]
  BY DEF Invoke
<1>2. op \in Operations /\ q \in AnyReq
  BY OpAssumption, AnyReqs
<1> DEFINE new == [NoCall EXCEPT !.op = op, !.at = "begin", !.req = q]
<1>3. NoCall.round = 0 /\ NoCall.rows = {} /\ NoCall \in CallRow
  BY NoCallRow DEF NoCall
<1>4. new \in CallRow
  <2>1. "begin" \in At
    BY DEF At
  <2> QED
    BY <1>2, <1>3, <2>1 DEF CallRow
<1>5. new.op = op /\ new.req = q /\ new.at = "begin" /\ new.round = 0 /\ new.rows = {}
  BY <1>3 DEF CallRow
<1>6. call' = [call EXCEPT ![c] = new] /\ UNCHANGED <<storeVars, ledger>>
  BY <1>1 DEF Invoke
<1> HIDE DEF new
<1>7. ReqOK(new)
  BY <1>5 DEF ReqOK
<1> QED
  BY <1>4, <1>5, <1>6, <1>7, FreshCall

LEMMA EndKeeps ==
  ASSUME CoordInv, NEW c \in Call, Return(c) \/ CallLost(c)
  PROVE  CoordInv' /\ [Next]_storeVars
<1>1. call' = [call EXCEPT ![c] = NoCall] /\ UNCHANGED <<storeVars, ledger>>
  BY DEF Return, CallLost
<1>2. NoCall.round = 0 /\ NoCall.rows = {}
  BY DEF NoCall
<1>3. ReqOK(NoCall)
  BY NoCallRow DEF ReqOK
<1> QED
  BY <1>1, <1>2, <1>3, FreshCall, NoCallRow

-----------------------------------------------------------------------------
(***************************************************************************)
(* A poll walks targets, queue rows and jobs.                              *)
(***************************************************************************)
LEMMA PollMoves ==
  ASSUME CoordInv, [Next]_storeVars, RecordInv', UNCHANGED ledger, NEW c \in Call,
         call[c].op = "poll", NEW new \in CallRow, call' = [call EXCEPT ![c] = new],
         new.op = call[c].op, new.req = call[c].req, new.at # "answered",
         \A r \in new.rows : job'[r.job].status # "none",
         new.at = "prune" => /\ new.stale \in new.rows
                             /\ \/ job'[new.stale.job].status \in {"active", "terminal"}
                                \/ new.stale.job \in expired'
  PROVE  CoordInv'
<1>1. OnlyCall(c) /\ call'[c] = new
  BY RowChanges DEF CoordInv
<1>2. ReqOK(call[c])
  BY CallFacts DEF CallOK
<1>3. ReqOK(call[c])' /\ PollOK(call[c])'
  BY <1>1, <1>2 DEF ReqOK, PollOK
<1>4. /\ SubmitOK(call[c])' /\ ClaimOK(call[c])' /\ ResultOK(call[c])'
      /\ ReportOK(call[c])' /\ CancelOK(call[c])' /\ ~Done(c, "submit", {"created"})'
  BY <1>1 DEF SubmitOK, ClaimOK, ResultOK, ReportOK, CancelOK, Done
<1> QED
  BY <1>1, <1>3, <1>4, CallKeeps DEF CallOK

LEMMA PollTargetsKeeps ==
  ASSUME CoordInv, NEW c \in Call, PollTargets(c)
  PROVE  CoordInv' /\ [Next]_storeVars
<1> DEFINE ts == {t \in Target : ResolveEligibleBinding(call[c].req.device, t)}
<1> DEFINE new == [call[c] EXCEPT !.at = "queues", !.targets = ts]
<1>1. /\ call[c].op = "poll" /\ UNCHANGED <<storeVars, ledger>> /\ UNCHANGED <<job, attempt>>
  BY DEF PollTargets, Waits, storeVars
<1>2. call[c] \in CallRow /\ PollOK(call[c]) /\ call \in [Call -> CallRow]
  BY CallFacts DEF CallOK, CoordInv, CallInv
<1>3. ts \in SUBSET Target /\ "queues" \in At
  BY DEF At
<1>4. call' = [call EXCEPT ![c].at = "queues", ![c].targets = ts]
  BY DEF PollTargets
<1> HIDE DEF ts
<1>5. call' = [call EXCEPT ![c] = new]
  BY <1>2, <1>4
<1>6. new \in CallRow
  BY <1>2, <1>3 DEF CallRow
<1>7. /\ new.op = call[c].op /\ new.req = call[c].req /\ new.at = "queues"
      /\ new.rows = call[c].rows
  BY <1>2 DEF CallRow
<1> HIDE DEF new
<1>8. RecordInv'
  BY <1>1, RecordsStay DEF CoordInv
<1> QED
  BY <1>1, <1>2, <1>5, <1>6, <1>7, <1>8, PollMoves DEF PollOK

LEMMA PollQueueKeeps ==
  ASSUME CoordInv, NEW c \in Call, PollQueue(c)
  PROVE  CoordInv' /\ [Next]_storeVars
<1>1. /\ call[c].op = "poll" /\ UNCHANGED <<storeVars, ledger>> /\ UNCHANGED storeVars
      /\ UNCHANGED ledger /\ UNCHANGED <<job, attempt>>
  BY DEF PollQueue, Waits, storeVars
<1>2. call[c] \in CallRow /\ PollOK(call[c]) /\ call \in [Call -> CallRow]
  BY CallFacts DEF CallOK, CoordInv, CallInv
<1>3. CASE call[c].targets = {}
  <2>1. Moves(c, "jobs")
    BY <1>3 DEF PollQueue
  <2>2. "jobs" \in At
    BY DEF At
  <2> QED
    BY <1>1, <2>1, <2>2, QuietMove
<1>4. CASE call[c].targets # {}
  <2>1. PICK t \in call[c].targets : \E S \in PollRows(t) :
            call' = [call EXCEPT ![c].targets = @ \ {t},
              ![c].rows = @ \cup {[target |-> t, job |-> j] : j \in S}]
    BY <1>4 DEF PollQueue
  <2>2. PICK S \in PollRows(t) :
            call' = [call EXCEPT ![c].targets = @ \ {t},
              ![c].rows = @ \cup {[target |-> t, job |-> j] : j \in S}]
    BY <2>1
  <2>3. t \in Target
    BY <1>2 DEF CallRow
  <2>4. S \in SUBSET JobId /\ \A j \in S : job[j].status = "queued"
    BY <2>3 DEF PollRows, CoordInv, StoreInv, TypeOK, QueueOffersClaimable
  <2> DEFINE R == {[target |-> t, job |-> j] : j \in S}
  <2>5. R \in SUBSET QueueRow /\ \A r \in R : job[r.job].status # "none"
    BY <2>3, <2>4 DEF QueueRow
  <2> DEFINE new == [call[c] EXCEPT !.targets = call[c].targets \ {t}, !.rows = call[c].rows \cup R]
  <2>6. call' = [call EXCEPT ![c].targets = @ \ {t}, ![c].rows = @ \cup R]
    BY <2>2
  <2> HIDE DEF R
  <2>7. call' = [call EXCEPT ![c] = new]
    BY <1>2, <2>6
  <2>8. new \in CallRow
    <3>1. call[c].targets \ {t} \in SUBSET Target /\ call[c].rows \cup R \in SUBSET QueueRow
      BY <1>2, <2>5 DEF CallRow
    <3> QED
      BY <1>2, <3>1 DEF CallRow
  <2>9. /\ new.op = call[c].op /\ new.req = call[c].req /\ new.at = call[c].at
        /\ new.rows = call[c].rows \cup R
    BY <1>2 DEF CallRow
  <2> HIDE DEF new
  <2>10. RecordInv' /\ call[c].at = "queues"
    BY <1>1, RecordsStay DEF CoordInv, PollQueue, Waits
  <2>11. \A r \in new.rows : job'[r.job].status # "none"
    BY <1>1, <1>2, <2>5, <2>9 DEF PollOK
  <2> QED
    BY <1>1, <2>7, <2>8, <2>9, <2>10, <2>11, PollMoves
<1> QED
  BY <1>3, <1>4

LEMMA PollJobKeeps ==
  ASSUME CoordInv, NEW c \in Call, PollJob(c)
  PROVE  CoordInv' /\ [Next]_storeVars
<1>1. /\ call[c].op = "poll" /\ call[c].at = "jobs" /\ UNCHANGED <<storeVars, ledger>>
      /\ UNCHANGED storeVars /\ UNCHANGED ledger /\ UNCHANGED <<job, attempt, expired>>
  BY DEF PollJob, Waits, storeVars
<1>2. call[c] \in CallRow /\ PollOK(call[c]) /\ call \in [Call -> CallRow]
  BY CallFacts DEF CallOK, CoordInv, CallInv
<1>3. RecordInv'
  BY <1>1, RecordsStay DEF CoordInv
<1>4. CASE Replies(c, "ok", None)
  <2>1. "ok" \in Refusal
    BY DEF Refusal, Code
  <2> QED
    BY <1>1, <1>4, <2>1, QuietRefusal, AboutNone
<1>5. ASSUME NEW r \in call[c].rows, job[r.job].status # "queued" \/ r.job \in expired,
             call' = [call EXCEPT ![c].at = "prune", ![c].stale = r]
      PROVE  CoordInv'
  <2> DEFINE new == [call[c] EXCEPT !.at = "prune", !.stale = r]
  <2>1. call' = [call EXCEPT ![c] = new]
    BY <1>2, <1>5
  <2>2. r \in QueueRow /\ "prune" \in At
    BY <1>2 DEF CallRow, At
  <2>3. new \in CallRow
    BY <1>2, <2>2 DEF CallRow
  <2>4. /\ new.op = call[c].op /\ new.req = call[c].req /\ new.at = "prune"
        /\ new.rows = call[c].rows /\ new.stale = r
    BY <1>2 DEF CallRow
  <2> HIDE DEF new
  <2>5. job[r.job].status # "none" /\ job[r.job] \in JobRecord
    BY <1>1, <1>2, <2>2 DEF PollOK, QueueRow, CoordInv, StoreInv, TypeOK
  <2>6. job[r.job].status \in {"active", "terminal"} \/ r.job \in expired
    BY <1>5, <2>5 DEF JobRecord
  <2> QED
    BY <1>1, <1>2, <1>3, <2>1, <2>3, <2>4, <2>6, PollMoves DEF PollOK
<1>6. ASSUME NEW r \in call[c].rows,
             call' = [call EXCEPT ![c].rows = @ \ {r}, ![c].offers = @ \cup {r.job}]
      PROVE  CoordInv'
  <2> DEFINE new == [call[c] EXCEPT !.rows = call[c].rows \ {r},
                                    !.offers = call[c].offers \cup {r.job}]
  <2>1. call' = [call EXCEPT ![c] = new]
    BY <1>2, <1>6
  <2>2. r \in QueueRow /\ call[c].rows \ {r} \in SUBSET QueueRow
    BY <1>2 DEF CallRow
  <2>3. call[c].offers \cup {r.job} \in SUBSET JobId
    BY <1>2, <2>2 DEF CallRow, QueueRow
  <2>4. new \in CallRow
    BY <1>2, <2>2, <2>3 DEF CallRow
  <2>5. /\ new.op = call[c].op /\ new.req = call[c].req /\ new.at = call[c].at
        /\ new.rows = call[c].rows \ {r}
    BY <1>2 DEF CallRow
  <2> HIDE DEF new
  <2> QED
    BY <1>1, <1>2, <1>3, <2>1, <2>4, <2>5, PollMoves DEF PollOK
<1>7. \/ Replies(c, "ok", None)
      \/ \E r \in call[c].rows :
           \/ /\ job[r.job].status # "queued" \/ r.job \in expired
              /\ call' = [call EXCEPT ![c].at = "prune", ![c].stale = r]
           \/ call' = [call EXCEPT ![c].rows = @ \ {r}, ![c].offers = @ \cup {r.job}]
  BY DEF PollJob
<1> QED
  BY <1>1, <1>4, <1>5, <1>6, <1>7

\* An entry found dead is dead when it is dropped.
LEMMA PollPruneKeeps ==
  ASSUME CoordInv, NEW c \in Call, PollPrune(c)
  PROVE  CoordInv' /\ [Next]_storeVars
<1> DEFINE r == call[c].stale
<1>1. /\ call[c].op = "poll" /\ call[c].at = "prune" /\ UNCHANGED ledger
      /\ call' = [call EXCEPT ![c] = Pruned(call[c])]
      /\ UNCHANGED <<job, attempt>>
      /\ ZRemTargetQueue(r.target, {r.job}) \/ UNCHANGED storeVars
  BY DEF PollPrune, Waits, storeVars, ZRemTargetQueue
<1>2. call[c] \in CallRow /\ PollOK(call[c])
  BY CallFacts DEF CallOK
<1>3. r \in QueueRow /\ (job[r.job].status \in {"active", "terminal"} \/ r.job \in expired)
  BY <1>1, <1>2 DEF PollOK, CallRow
<1>4. [Next]_storeVars
  <2>1. r.target \in Target /\ {r.job} \in SUBSET JobId
    BY <1>3 DEF QueueRow
  <2>2. CASE ZRemTargetQueue(r.target, {r.job})
    <3>1. PruneTargetQueue(r.target, {r.job})
      BY <1>3, <2>2 DEF PruneTargetQueue
    <3> QED
      BY <2>1, <3>1 DEF Next
  <2> QED
    BY <1>1, <2>2
<1>5. RecordInv'
  BY <1>1, RecordsStay DEF CoordInv
<1> DEFINE new == Pruned(call[c])
<1>6. new \in CallRow
  <2>1. "jobs" \in At /\ call[c].rows \ {r} \in SUBSET QueueRow
    BY <1>2 DEF CallRow, At
  <2>2. new = [call[c] EXCEPT !.at = "jobs", !.stale = None, !.rows = call[c].rows \ {r}]
    BY DEF Pruned
  <2> QED
    BY <1>2, <2>1, <2>2 DEF CallRow
<1>7. /\ new.op = call[c].op /\ new.req = call[c].req /\ new.at = "jobs"
      /\ new.rows = call[c].rows \ {r}
  BY <1>2 DEF CallRow, Pruned
<1> HIDE DEF new
<1>8. call' = [call EXCEPT ![c] = new]
  BY <1>1 DEF new
<1>9. \A x \in new.rows : job'[x.job].status # "none"
  BY <1>1, <1>2, <1>7 DEF PollOK
<1> HIDE DEF r
<1>10. CoordInv'
  BY <1>1, <1>4, <1>5, <1>6, <1>7, <1>8, <1>9, PollMoves
<1> QED
  BY <1>4, <1>10

-----------------------------------------------------------------------------
(***************************************************************************)
(* The scripts: what a call writes is the store's step, and the results    *)
(* that count are in Git.                                                  *)
(***************************************************************************)
CompletedAt(j) ==
  LET a == job[j].latest IN
  job[j].status = "terminal" /\ job[j].result_target = "resource" /\ a # None
    /\ attempt[a].report.execution_status = "COMPLETED" => attempt[a].result # None

\* The same after a step.
CompletedNext(j) ==
  job'[j].status = "terminal" /\ job'[j].result_target = "resource" /\ job'[j].latest # None
    /\ attempt'[job'[j].latest].report.execution_status = "COMPLETED" =>
      attempt'[job'[j].latest].result # None

LEMMA RecordsKept ==
  ASSUME StoreInv, RecordInv, UNCHANGED ledger, NEW j \in JobId, NEW a,
         job[j].status # "none", JobForward(j),
         \A i \in JobId : i # j => job'[i] = job[i] /\ (job[i].latest # None => job[i].latest # a),
         \A b \in AttemptId : b # a => attempt'[b] = attempt[b],
         CompletedNext(j),
         a \in AttemptId =>
           /\ attempt'[a].phase # "none"
           /\ attempt'[a].result # None => [attempt |-> a, payload |-> attempt'[a].result] \in ledger
  PROVE  RecordInv'
<1>1. FromSubmission'
  BY DEF RecordInv, FromSubmission, SubmittedAs, JobForward
<1>2. ResultHasAttempt' /\ RecordedWasCommitted'
  BY DEF RecordInv, ResultHasAttempt, RecordedWasCommitted
<1>3. CompletedHasResult'
  <2>1. \A i \in JobId : CompletedAt(i)
    BY DEF RecordInv, CompletedHasResult, CompletedAt
  <2>2. ASSUME NEW i \in JobId, i # j PROVE CompletedAt(i)'
    <3>1. job'[i] = job[i] /\ job[i].latest \in AttemptId \cup {None}
      BY <2>2 DEF StoreInv, TypeOK, JobRecord
    <3>2. job[i].latest # None => attempt'[job[i].latest] = attempt[job[i].latest]
      BY <2>2, <3>1
    <3> QED
      BY <2>1, <3>1, <3>2 DEF CompletedAt
  <2>3. \A i \in JobId : CompletedAt(i)'
    BY <2>2 DEF CompletedAt, CompletedNext
  <2> QED
    BY <2>3 DEF CompletedHasResult, CompletedAt
<1> QED
  BY <1>1, <1>2, <1>3 DEF RecordInv

LEMMA SubmitCreateKeeps ==
  ASSUME CoordInv, NEW c \in Call, SubmitCreate(c)
  PROVE  CoordInv' /\ [Next]_storeVars
<1> DEFINE s == call[c].req
<1>1. call[c].op = "submit" /\ call[c].at = "create" /\ UNCHANGED ledger
  BY DEF SubmitCreate, Waits
<1>2. /\ s \in Submission /\ s.request \in RequestId /\ s.target \in Target
      /\ s.digest \in Digest /\ s.result_target \in {"none", "resource"}
  BY <1>1, CallFacts
<1>3. CASE requestKey[s.request] # None /\ Moves(c, "existing") /\ UNCHANGED storeVars
  <2>1. "existing" \in At
    BY DEF At
  <2> QED
    BY <1>1, <1>3, <2>1, QuietMove
<1>4. CASE Replies(c, "TARGET_DELETE_FENCED", None) /\ UNCHANGED storeVars
  <2>1. "TARGET_DELETE_FENCED" \in Refusal
    BY DEF Refusal, Code
  <2> QED
    BY <1>1, <1>4, <2>1, QuietRefusal, AboutNone
<1>5. ASSUME NEW j \in JobId, CreateJob(s.request, j, s.target, s.digest, s.result_target),
             Replies(c, "created", j)
      PROVE  CoordInv' /\ [Next]_storeVars
  <2>1. Next
    BY <1>2, <1>5 DEF Next, JobStep
  <2>2. /\ job[j].status = "none" /\ job'[j] = NewJob(s.request, s.target, s.digest, s.result_target)
        /\ \A i \in JobId : i # j => job'[i] = job[i]
        /\ UNCHANGED attempt
    BY <1>5 DEF CreateJob, CreateAccepts, CoordInv, StoreInv, TypeOK
  <2>3. /\ job'[j].status = "queued" /\ job'[j].request = s.request /\ job'[j].digest = s.digest
        /\ job'[j].target = s.target /\ job'[j].result_target = s.result_target
        /\ job'[j].latest = None
    BY <2>2 DEF NewJob
  <2>4. RecordInv'
    <3>1. FromSubmission'
      <4>1. \A i \in JobId \ {j} : job'[i].status # "none" =>
              \E s1 \in Submission : SubmittedAs(i, s1)'
        BY <2>2 DEF CoordInv, RecordInv, FromSubmission, SubmittedAs
      <4>2. \E s1 \in Submission : SubmittedAs(j, s1)'
        BY <1>2, <2>3 DEF SubmittedAs
      <4> QED
        BY <4>1, <4>2 DEF FromSubmission
    <3>2. ResultHasAttempt' /\ RecordedWasCommitted'
      BY <1>1, <2>2 DEF CoordInv, RecordInv, ResultHasAttempt, RecordedWasCommitted
    <3>3. CompletedHasResult'
      BY <2>2, <2>3 DEF CoordInv, RecordInv, CompletedHasResult
    <3> QED
      BY <3>1, <3>2, <3>3 DEF RecordInv
  <2>5. "created" \in Code /\ j \in About /\ CallInv
    BY DEF Code, About, CoordInv
  <2>6. OnlyCall(c) /\ CallOK(c)'
    BY <1>1, <1>5, <2>3, <2>5, AnswerKept
  <2>7. CreatedOnce'
    <3>1. call'[c].answer.about = j
      BY <1>5, <2>5, RepliesFields
    <3>2. ASSUME NEW o \in Call, o # c, Done(o, "submit", {"created"})'
          PROVE  call'[o].answer.about # j
      <4>1. call'[o] = call[o]
        BY <2>6, <3>2 DEF OnlyCall
      <4>2. call[o].op = "submit" /\ call[o].at = "answered" /\ call[o].answer.code = "created"
        BY <3>2, <4>1 DEF Done
      <4>3. SubmitOK(call[o])
        BY CallFacts DEF CallOK
      <4>4. job[call[o].answer.about].status # "none"
        BY <4>2, <4>3 DEF SubmitOK, SubmittedAs
      <4> QED
        BY <2>2, <4>1, <4>4
    <3>3. ASSUME NEW o1 \in Call, NEW o2 \in Call, o1 # c, o2 # c, o1 # o2,
                 Done(o1, "submit", {"created"})', Done(o2, "submit", {"created"})'
          PROVE  call'[o1].answer.about # call'[o2].answer.about
      <4>1. call'[o1] = call[o1] /\ call'[o2] = call[o2]
        BY <2>6, <3>3 DEF OnlyCall
      <4> QED
        BY <3>3, <4>1 DEF CoordInv, CreatedOnce, Done
    <3> QED
      BY <3>1, <3>2, <3>3 DEF CreatedOnce
  <2> QED
    BY <1>1, <2>1, <2>4, <2>6, <2>7, OneCallKeeps
<1> QED
  BY <1>3, <1>4, <1>5 DEF SubmitCreate

LEMMA ClaimOwnKeeps ==
  ASSUME CoordInv, NEW c \in Call, ClaimOwn(c)
  PROVE  CoordInv' /\ [Next]_storeVars
<1> DEFINE q == call[c].req
<1> DEFINE t == call[c].job.target
<1>1. call[c].op = "claim" /\ UNCHANGED ledger /\ CallInv /\ StoreInv /\ RecordInv
  BY DEF ClaimOwn, Waits, CoordInv
<1>2. q.job \in JobId /\ q.attempt \in AttemptId /\ q.device \in Device
  BY <1>1, CallFacts
<1>3. ClaimMayOwn(q.job, t, q.attempt) => t \in Target
  <2>1. job[q.job].status # "none" => job[q.job].target \in Target
    BY <1>1, <1>2, SubmissionAssumption DEF RecordInv, FromSubmission, SubmittedAs
  <2> QED
    BY <2>1 DEF ClaimMayOwn, ClaimReaches
<1>4. CASE ClaimJob(q.job, t, q.device, q.attempt) /\ Replies(c, "claimed", "claimed")
  <2>1. Next
    BY <1>2, <1>3, <1>4 DEF ClaimJob, ClaimAccepts, Next, JobStep
  <2>2. /\ job'[q.job] = Activated(job[q.job], q.attempt) /\ job[q.job] \in JobRecord
        /\ job[q.job].status = "queued" /\ attempt[q.attempt].phase = "none"
        /\ attempt'[q.attempt] = NewAttempt(q.job, q.device)
        /\ \A i \in JobId : i # q.job => job'[i] = job[i]
        /\ \A b \in AttemptId : b # q.attempt => attempt'[b] = attempt[b]
    BY <1>1, <1>2, <1>4 DEF ClaimJob, ClaimAccepts, ClaimMayOwn, StoreInv, TypeOK
  <2>3. /\ job'[q.job].status = "active" /\ job'[q.job].latest = q.attempt
        /\ attempt'[q.attempt].phase = "claimed" /\ attempt'[q.attempt].job = q.job
        /\ attempt'[q.attempt].device = q.device /\ attempt'[q.attempt].result = None
    BY <2>2, JobFields DEF NewAttempt
  <2>4. \A i \in JobId : job[i].latest # None => job[i].latest # q.attempt
    BY <1>1, <2>2 DEF StoreInv, OneAttemptPerJob, JobLinked
  <2>5. JobForward(q.job)
    BY <1>1, <1>2, <2>1, StoreForward DEF Forward
  <2>6. CompletedNext(q.job) /\ job[q.job].status # "none"
    BY <2>2, <2>3 DEF CompletedNext
  <2> HIDE DEF q, t
  <2>7. RecordInv'
    <3>1. /\ \A i \in JobId : i # q.job =>
               job'[i] = job[i] /\ (job[i].latest # None => job[i].latest # q.attempt)
          /\ attempt'[q.attempt].phase # "none" /\ ~(attempt'[q.attempt].result # None)
          /\ \A b \in AttemptId : b # q.attempt => attempt'[b] = attempt[b]
      BY <2>2, <2>3, <2>4
    <3>2. ASSUME NEW j \in JobId, NEW a \in AttemptId, j = q.job, a = q.attempt
          PROVE  RecordInv'
      <4>1. /\ \A i \in JobId : i # j =>
                 job'[i] = job[i] /\ (job[i].latest # None => job[i].latest # a)
            /\ attempt'[a].phase # "none" /\ ~(attempt'[a].result # None)
            /\ \A b \in AttemptId : b # a => attempt'[b] = attempt[b]
            /\ JobForward(j) /\ CompletedNext(j) /\ job[j].status # "none"
        BY <2>5, <2>6, <3>1, <3>2
      <4> QED
        BY <1>1, <4>1, RecordsKept
    <3> QED
      BY <1>2, <3>2
  <2>8. "claimed" \in Code /\ "claimed" \in About
    BY DEF Code, About, Word
  <2>9. call[c].req = q
    BY DEF q
  <2>10. OnlyCall(c) /\ CallOK(c)' /\ ~Done(c, "submit", {"created"})'
    BY <1>1, <1>4, <2>3, <2>8, <2>9, AnswerKept
  <2> QED
    BY <1>1, <2>1, <2>7, <2>10, CallKeeps
<1>5. CASE ClaimTooLate(q.job, t, q.attempt) /\ Replies(c, "JOB_EXPIRED", None)
  <2>1. Next /\ UNCHANGED <<job, attempt>>
    BY <1>2, <1>3, <1>5 DEF ClaimTooLate, Next, JobStep
  <2>2. RecordInv'
    BY <1>1, <2>1, RecordsStay
  <2>3. "JOB_EXPIRED" \in Code
    BY DEF Code
  <2>4. OnlyCall(c) /\ CallOK(c)' /\ ~Done(c, "submit", {"created"})'
    BY <1>1, <1>5, <2>3, AboutNone, AnswerKept
  <2> QED
    BY <1>1, <2>1, <2>2, <2>4, CallKeeps
<1> QED
  BY <1>4, <1>5 DEF ClaimOwn

\* Start, record and report write the attempt their caller owns.
LEMMA OwnerWrites ==
  ASSUME CoordInv, NEW c \in Call, [Next]_storeVars, UNCHANGED ledger,
         NEW j \in JobId, NEW a \in AttemptId, job[j].latest = a, job[j].status # "none",
         \A i \in JobId : i # j => job'[i] = job[i],
         \A b \in AttemptId : b # a => attempt'[b] = attempt[b],
         CompletedNext(j), attempt'[a].phase # "none",
         attempt'[a].result # None => [attempt |-> a, payload |-> attempt'[a].result] \in ledger,
         NEW code \in Code, NEW about \in About, Replies(c, code, about),
         call[c].op \notin {"submit", "claim"},
         call[c].op = "cancel" => /\ call[c].req.job = j /\ code = "cancelled"
                                  /\ job'[j].status = "terminal" /\ job'[j].cancel # None
  PROVE  CoordInv'
<1>1. StoreInv /\ RecordInv /\ CallInv
  BY DEF CoordInv
<1>2. \A i \in JobId : i # j => (job[i].latest # None => job[i].latest # a)
  BY <1>1, OwnedAlone
<1>3. JobForward(j)
  BY <1>1, StoreForward DEF Forward
<1>4. RecordInv'
  BY <1>1, <1>2, <1>3, RecordsKept
<1>5. OnlyCall(c) /\ CallOK(c)'
  BY <1>1, AnswerKept
<1>6. ~Done(c, "submit", {"created"})'
  BY <1>1, RepliesFields DEF Done
<1> QED
  BY <1>4, <1>5, <1>6, CallKeeps

LEMMA StartCallKeeps ==
  ASSUME CoordInv, NEW c \in Call, StartCall(c)
  PROVE  CoordInv' /\ [Next]_storeVars
<1> DEFINE q == call[c].req
<1>1. call[c].op = "start" /\ UNCHANGED ledger /\ CallInv
  BY DEF StartCall, Waits, CoordInv
<1>2. q.job \in JobId /\ q.attempt \in AttemptId /\ q.device \in Device
  BY <1>1, CallFacts
<1>3. CASE StartJob(q.job, q.attempt, q.device) /\ Replies(c, "started", None)
  <2>1. Next
    BY <1>2, <1>3 DEF Next, JobStep
  <2>2. /\ attempt'[q.attempt] = Started(attempt[q.attempt]) /\ attempt[q.attempt] \in AttemptRecord
        /\ \A b \in AttemptId : b # q.attempt => attempt'[b] = attempt[b]
        /\ UNCHANGED job /\ job[q.job].status = "active" /\ job[q.job].latest = q.attempt
        /\ attempt[q.attempt].phase = "claimed"
    BY <1>2, <1>3 DEF StartJob, Owns, CoordInv, StoreInv, TypeOK
  <2>3. attempt'[q.attempt].phase = "running" /\ attempt'[q.attempt].result = attempt[q.attempt].result
    BY <2>2, StartedFields, ResultFields
  <2>4. CompletedNext(q.job)
    BY <2>2 DEF CompletedNext
  <2>5. attempt[q.attempt].result # None =>
          [attempt |-> q.attempt, payload |-> attempt[q.attempt].result] \in ledger
    BY <1>2 DEF CoordInv, RecordInv, RecordedWasCommitted
  <2>6. "started" \in Code
    BY DEF Code
  <2> HIDE DEF q
  <2>7. CoordInv'
    BY <1>1, <1>2, <1>3, <2>1, <2>2, <2>3, <2>4, <2>5, <2>6, AboutNone, OwnerWrites
  <2> QED
    BY <2>1, <2>7
<1>4. CASE Replies(c, "replayed", None) /\ UNCHANGED storeVars
  <2>1. "replayed" \in Code
    BY DEF Code
  <2>2. OnlyCall(c) /\ CallOK(c)' /\ ~Done(c, "submit", {"created"})'
    BY <1>1, <1>4, <2>1, AboutNone, AnswerKept
  <2> QED
    BY <1>1, <1>4, <2>2, QuietCall
<1>5. CASE Replies(c, "REFUSED", None) /\ UNCHANGED storeVars
  <2>1. "REFUSED" \in Refusal
    BY DEF Refusal, Code
  <2> QED
    BY <1>1, <1>5, <2>1, AboutNone, QuietRefusal
<1> QED
  BY <1>3, <1>4, <1>5 DEF StartCall

LEMMA ResultRecordKeeps ==
  ASSUME CoordInv, NEW c \in Call, ResultRecord(c)
  PROVE  CoordInv' /\ [Next]_storeVars
<1> DEFINE q == call[c].req
<1>1. call[c].op = "result" /\ call[c].at = "record" /\ UNCHANGED ledger /\ CallInv
  BY DEF ResultRecord, Waits, CoordInv
<1>2. /\ q.job \in JobId /\ q.attempt \in AttemptId /\ q.device \in Device /\ q.payload \in Payload
      /\ q.mode \in {"automatic", "explicit_redelivery"}
  BY <1>1, CallFacts
<1>3. CASE /\ RecordJobResult(q.job, q.attempt, q.device, q.payload, q.mode)
           /\ Replies(c, "recorded", q.payload)
  <2>1. Next
    BY <1>2, <1>3 DEF Next, JobStep
  <2>2. /\ attempt'[q.attempt] = WithResult(attempt[q.attempt], q.payload)
        /\ attempt[q.attempt] \in AttemptRecord
        /\ \A b \in AttemptId : b # q.attempt => attempt'[b] = attempt[b]
        /\ UNCHANGED job /\ job[q.job].latest = q.attempt /\ attempt[q.attempt].phase # "none"
    BY <1>2, <1>3 DEF RecordJobResult, Owns, CoordInv, StoreInv, TypeOK
  <2>3. attempt'[q.attempt].phase # "none" /\ attempt'[q.attempt].result = q.payload
    BY <2>2, WithResultFields, ResultFields
  <2>4. CompletedNext(q.job)
    BY <1>2, <2>2, <2>3, NoneIsNew DEF CompletedNext
  <2>5. [attempt |-> q.attempt, payload |-> q.payload] \in ledger
    BY <1>1, CallFacts DEF CallOK, ResultOK
  <2>6. "recorded" \in Code /\ q.payload \in About
    BY <1>2 DEF Code, About
  <2>7. job[q.job].status # "none"
    BY <1>2, <2>2, NoneIsNew DEF CoordInv, StoreInv, JobAttemptAgree, JobAgrees, NoJob
  <2> HIDE DEF q
  <2>8. CoordInv'
    BY <1>1, <1>2, <1>3, <2>1, <2>2, <2>3, <2>4, <2>5, <2>6, <2>7, OwnerWrites
  <2> QED
    BY <2>1, <2>8
<1>4. CASE Replies(c, "replayed", q.payload) /\ UNCHANGED storeVars
  <2>1. "replayed" \in Code /\ q.payload \in About
    BY <1>2 DEF Code, About
  <2>2. OnlyCall(c) /\ CallOK(c)' /\ ~Done(c, "submit", {"created"})'
    BY <1>1, <1>4, <2>1, AnswerKept
  <2> QED
    BY <1>1, <1>4, <2>2, QuietCall
<1>5. CASE Replies(c, "STALE_RESULT_SUBMISSION", None) /\ UNCHANGED storeVars
  <2>1. "STALE_RESULT_SUBMISSION" \in Refusal
    BY DEF Refusal, Code
  <2> QED
    BY <1>1, <1>5, <2>1, AboutNone, QuietRefusal
<1> QED
  BY <1>3, <1>4, <1>5 DEF ResultRecord

LEMMA ReportCallKeeps ==
  ASSUME CoordInv, NEW c \in Call, ReportCall(c)
  PROVE  CoordInv' /\ [Next]_storeVars
<1> DEFINE q == call[c].req
<1>1. call[c].op = "report" /\ call[c].at = "report" /\ UNCHANGED ledger /\ CallInv
  BY DEF ReportCall, Waits, CoordInv
<1>2. /\ q.job \in JobId /\ q.attempt \in AttemptId /\ q.device \in Device /\ q.report \in Report
  BY <1>1, CallFacts
<1>3. CASE ReportJob(q.job, q.attempt, q.device, q.report) /\ Replies(c, "reported", None)
  <2>1. Next
    BY <1>2, <1>3 DEF Next, JobStep
  <2>2. /\ attempt'[q.attempt] = Reported(attempt[q.attempt], q.report)
        /\ attempt[q.attempt] \in AttemptRecord /\ job[q.job] \in JobRecord
        /\ \A b \in AttemptId : b # q.attempt => attempt'[b] = attempt[b]
        /\ \A i \in JobId : i # q.job => job'[i] = job[i]
        /\ job'[q.job] = Ended(job[q.job]) /\ job[q.job].latest = q.attempt
        /\ job[q.job].status = "active"
    BY <1>2, <1>3 DEF ReportJob, ReportAccepts, Owns, CoordInv, StoreInv, TypeOK
  <2>3. /\ attempt'[q.attempt].phase = "terminal" /\ attempt'[q.attempt].report = q.report
        /\ attempt'[q.attempt].result = attempt[q.attempt].result
        /\ job'[q.job].latest = q.attempt /\ job'[q.job].result_target = job[q.job].result_target
    BY <2>2, ReportedFields, ResultFields, JobFields, MoreJobFields
  <2>4. CompletedNext(q.job)
    <3>1. ReportOK(call[c])
      BY CallFacts DEF CallOK
    <3>2. NeedsResult(job[q.job], q.report) => attempt[q.attempt].result # None
      BY <1>1, <3>1 DEF ReportOK
    <3> QED
      BY <2>3, <3>2 DEF CompletedNext, NeedsResult
  <2>5. attempt[q.attempt].result # None =>
          [attempt |-> q.attempt, payload |-> attempt[q.attempt].result] \in ledger
    BY <1>2 DEF CoordInv, RecordInv, RecordedWasCommitted
  <2>6. "reported" \in Code
    BY DEF Code
  <2> HIDE DEF q
  <2>7. CoordInv'
    BY <1>1, <1>2, <1>3, <2>1, <2>2, <2>3, <2>4, <2>5, <2>6, AboutNone, OwnerWrites
  <2> QED
    BY <2>1, <2>7
<1>4. CASE Replies(c, "replayed", None) /\ UNCHANGED storeVars
  <2>1. "replayed" \in Code
    BY DEF Code
  <2>2. OnlyCall(c) /\ CallOK(c)' /\ ~Done(c, "submit", {"created"})'
    BY <1>1, <1>4, <2>1, AboutNone, AnswerKept
  <2> QED
    BY <1>1, <1>4, <2>2, QuietCall
<1>5. CASE Replies(c, "REFUSED", None) /\ UNCHANGED storeVars
  <2>1. "REFUSED" \in Refusal
    BY DEF Refusal, Code
  <2> QED
    BY <1>1, <1>5, <2>1, AboutNone, QuietRefusal
<1> QED
  BY <1>3, <1>4, <1>5 DEF ReportCall

LEMMA CancelQueuedCallKeeps ==
  ASSUME CoordInv, NEW c \in Call, NEW j \in JobId, NEW d \in Device, UNCHANGED ledger,
         call[c].op = "cancel", call[c].req.job = j, NEW e, CancelQueued(j, e, d),
         Replies(c, "cancelled", "CANCELLED")
  PROVE  CoordInv' /\ [Next]_storeVars
<1>1. StoreInv /\ RecordInv /\ CallInv
  BY DEF CoordInv
<1>2. job[j].status = "queued" /\ job[j].latest = None /\ e = None
  BY <1>1 DEF CancelQueued, StoreInv, JobAttemptAgree, JobAgrees
<1>3. Next
  BY <1>2 DEF Next, JobStep
<1>4. /\ job'[j] = Cancelled(job[j], d) /\ job[j] \in JobRecord /\ UNCHANGED attempt
      /\ \A i \in JobId : i # j => job'[i] = job[i]
  BY <1>1 DEF CancelQueued, StoreInv, TypeOK
<1>5. job'[j].status = "terminal" /\ job'[j].latest = None /\ job'[j].cancel # None
  BY <1>2, <1>4, JobFields, NoneIsNew
<1>6. JobForward(j) /\ CompletedNext(j)
  BY <1>1, <1>3, <1>5, StoreForward DEF Forward, CompletedNext
<1>7. RecordInv'
  <2>1. ASSUME NEW a, a = None PROVE RecordInv'
    <3>1. \A i \in JobId : i # j => job'[i] = job[i] /\ (job[i].latest # None => job[i].latest # a)
      BY <1>4, <2>1
    <3>2. (\A b \in AttemptId : b # a => attempt'[b] = attempt[b]) /\ a \notin AttemptId
      BY <1>4, <2>1, NoneIsNew
    <3>3. job[j].status # "none"
      BY <1>2
    <3> QED
      BY <1>1, <1>6, <3>1, <3>2, <3>3, RecordsKept
  <2> QED
    BY <2>1
<1>8. "cancelled" \in Code /\ "CANCELLED" \in About
  BY DEF Code, About, Word, ExecutionStatus
<1>9. OnlyCall(c) /\ CallOK(c)' /\ ~Done(c, "submit", {"created"})'
  BY <1>1, <1>5, <1>8, AnswerKept
<1> QED
  BY <1>3, <1>7, <1>9, CallKeeps

LEMMA CancelActiveCallKeeps ==
  ASSUME CoordInv, NEW c \in Call, NEW j \in JobId, NEW d \in Device, UNCHANGED ledger,
         call[c].op = "cancel", call[c].req.job = j, NEW a \in AttemptId, CancelActive(j, a, d),
         Replies(c, "cancelled", "CANCELLED")
  PROVE  CoordInv' /\ [Next]_storeVars
<1>1. Next
  BY DEF Next, JobStep
<1> DEFINE rep == OperatorReport(attempt[a].phase = "running")
<1>2. /\ attempt'[a] = Reported(attempt[a], rep)
      /\ attempt[a] \in AttemptRecord /\ job[j] \in JobRecord
      /\ \A b \in AttemptId : b # a => attempt'[b] = attempt[b]
      /\ \A i \in JobId : i # j => job'[i] = job[i]
      /\ job'[j] = Cancelled(job[j], d) /\ job[j].latest = a /\ job[j].status = "active"
  BY DEF CancelActive, CancelReaches, CoordInv, StoreInv, TypeOK
<1>3. rep.execution_status = "CANCELLED"
  BY DEF OperatorReport
<1> HIDE DEF rep
<1>4. /\ attempt'[a].phase = "terminal" /\ attempt'[a].report = rep
      /\ attempt'[a].result = attempt[a].result
      /\ job'[j].latest = a /\ job'[j].status = "terminal" /\ job'[j].cancel = d
  BY <1>2, ReportedFields, ResultFields, JobFields
<1>5. CompletedNext(j)
  BY <1>3, <1>4 DEF CompletedNext
<1>6. attempt[a].result # None => [attempt |-> a, payload |-> attempt[a].result] \in ledger
  BY DEF CoordInv, RecordInv, RecordedWasCommitted
<1>7. "cancelled" \in Code /\ "CANCELLED" \in About
  BY DEF Code, About, Word, ExecutionStatus
<1>8. job'[j].cancel # None
  BY <1>4, NoneIsNew
<1>9. CoordInv'
  BY <1>1, <1>2, <1>4, <1>5, <1>6, <1>7, <1>8, OwnerWrites
<1> QED
  BY <1>1, <1>9

LEMMA CancelCallKeeps ==
  ASSUME CoordInv, NEW c \in Call, CancelCall(c)
  PROVE  CoordInv' /\ [Next]_storeVars
<1> DEFINE q == call[c].req
<1> DEFINE e == call[c].job.latest
<1>1. call[c].op = "cancel" /\ UNCHANGED ledger
  BY DEF CancelCall, Waits
<1>2. q.job \in JobId /\ q.device \in Device /\ e \in AttemptId \cup {None}
  BY <1>1, CallFacts DEF CallRow, JobRecord
<1>3. CASE CancelQueued(q.job, e, q.device) /\ Replies(c, "cancelled", "CANCELLED")
  BY <1>1, <1>2, <1>3, CancelQueuedCallKeeps
<1>4. CASE e # None /\ CancelActive(q.job, e, q.device) /\ Replies(c, "cancelled", "CANCELLED")
  <2>1. e \in AttemptId
    BY <1>2, <1>4
  <2> QED
    BY <1>1, <1>2, <1>4, <2>1, CancelActiveCallKeeps
<1> DEFINE code == CancelOutcome(q.job, e)
<1> DEFINE view == ExecutionStatusView(job[q.job], NamedAttempt(job[q.job]))
<1>5. CASE /\ Replies(c, code, IF code = "already_cancelled" THEN view ELSE None)
           /\ UNCHANGED storeVars
  <2>1. code \in Refusal
    BY DEF CancelOutcome, Refusal, Code
  <2>2. view \in About
    <3>1. job[q.job] \in JobRecord
      BY <1>2 DEF CoordInv, StoreInv, TypeOK
    <3> QED
      BY <3>1, NamedRecord, ViewWord
  <2> HIDE DEF code, view
  <2> QED
    BY <1>1, <1>5, <2>1, <2>2, AboutNone, QuietRefusal
<1> QED
  BY <1>3, <1>4, <1>5 DEF CancelCall

-----------------------------------------------------------------------------
(***************************************************************************)
(* Every step of the coordinator keeps the invariant and is a step of the  *)
(* store or leaves it alone.                                               *)
(***************************************************************************)
LEMMA CallStepKeeps ==
  ASSUME CoordInv, NEW c \in Call, CallStep(c)
  PROVE  CoordInv' /\ [Next]_storeVars
<1>1. CASE SubmitLookup(c) \/ SubmitReadExisting(c) \/ SubmitAuthorize(c) \/ SubmitCreate(c)
  BY <1>1, SubmitLookupKeeps, SubmitReadExistingKeeps, SubmitAuthorizeKeeps, SubmitCreateKeeps
<1>2. CASE PollTargets(c) \/ PollQueue(c) \/ PollJob(c) \/ PollPrune(c)
  BY <1>2, PollTargetsKeeps, PollQueueKeeps, PollJobKeeps, PollPruneKeeps
<1>3. CASE \/ ClaimRead(c) \/ ClaimAuthorize(c) \/ ClaimReplay(c) \/ ClaimOwn(c)
           \/ ClaimRefused(c) \/ StartCall(c)
  BY <1>3, ClaimReadKeeps, ClaimAuthorizeKeeps, ClaimReplayKeeps, ClaimOwnKeeps,
     ClaimRefusedKeeps, StartCallKeeps
<1>4. CASE ResultReadJob(c) \/ ResultReadAttempt(c) \/ ResultApply(c) \/ ResultRecord(c)
  BY <1>4, ResultReadJobKeeps, ResultReadAttemptKeeps, ResultApplyKeeps, ResultRecordKeeps
<1>5. CASE ReportReadJob(c) \/ ReportReadAttempt(c) \/ ReportCall(c)
  BY <1>5, ReportReadJobKeeps, ReportReadAttemptKeeps, ReportCallKeeps
<1>6. CASE CancelReadJob(c) \/ CancelReadAttempt(c) \/ CancelCall(c) \/ CancelRaces(c)
  BY <1>6, CancelReadJobKeeps, CancelReadAttemptKeeps, CancelCallKeeps, CancelRacesKeeps
<1>7. CASE GetReadJob(c) \/ GetReadAttempt(c)
  BY <1>7, GetReadJobKeeps, GetReadAttemptKeeps
<1> QED
  BY <1>1, <1>2, <1>3, <1>4, <1>5, <1>6, <1>7 DEF CallStep

\* A step that leaves the calls and the ledger alone.
LEMMA BesideCalls ==
  ASSUME CoordInv, [Next]_storeVars, RecordInv', UNCHANGED <<call, ledger>>
  PROVE  CoordInv'
<1>1. StoreInv' /\ Forward
  BY StoreInvStep, StoreForward DEF CoordInv
<1>2. \A d \in Call : CallOK(d)'
  BY <1>1, OthersOK DEF CoordInv
<1>3. CallInv' /\ CreatedOnce'
  BY <1>2 DEF CoordInv, CallInv, CreatedOnce, Done
<1> QED
  BY <1>1, <1>3 DEF CoordInv

LEMMA ServiceStepKeeps ==
  ASSUME CoordInv, ServiceStep
  PROVE  CoordInv' /\ [Next]_storeVars
<1>1. CASE UNCHANGED <<storeVars, call, ledger>>
  <2>1. UNCHANGED <<job, attempt>> /\ [Next]_storeVars
    BY <1>1 DEF storeVars
  <2>2. RecordInv'
    BY <1>1, <2>1, RecordsStay DEF CoordInv
  <2> QED
    BY <1>1, <2>1, <2>2, BesideCalls
<1>2. CASE \E c \in Call : CallStep(c) \/ CallLost(c) \/ Return(c)
  BY <1>2, CallStepKeeps, EndKeeps
<1>3. CASE \E c \in Call : \E op \in Op : Invoke(c, op)
  BY <1>3, InvokeKeeps
<1>4. CASE \/ \E t \in Target, s \in RowStates : TargetChanges(t, s)
           \/ \E d \in Device, t \in Target, s \in BindingStates : BindingChanges(d, t, s)
  BY <1>1, <1>4 DEF TargetChanges, BindingChanges
<1> QED
  BY <1>2, <1>3, <1>4 DEF ServiceStep

LEMMA CoordStepKeeps == CoordInv /\ [CoordNext]_vars => CoordInv' /\ [Next]_storeVars
<1> SUFFICES ASSUME CoordInv, [CoordNext]_vars PROVE CoordInv' /\ [Next]_storeVars
  OBVIOUS
<1>1. CASE ServiceStep
  BY <1>1, ServiceStepKeeps
<1>2. CASE OutsideStep
  <2>1. Next /\ UNCHANGED <<job, attempt>> /\ UNCHANGED <<call, ledger>> /\ UNCHANGED ledger
    BY <1>2 DEF OutsideStep, ClaimDeadlinePasses, serviceVars, Next, JobStep
  <2>2. RecordInv'
    BY <2>1, RecordsStay DEF CoordInv
  <2> QED
    BY <2>1, <2>2, BesideCalls
<1>3. CASE UNCHANGED vars
  <2>1. UNCHANGED storeVars /\ UNCHANGED <<job, attempt>> /\ UNCHANGED <<call, ledger>>
        /\ UNCHANGED ledger
    BY <1>3 DEF vars, storeVars
  <2>2. RecordInv'
    BY <2>1, RecordsStay DEF CoordInv
  <2> QED
    BY <2>1, <2>2, BesideCalls
<1> QED
  BY <1>1, <1>2, <1>3 DEF CoordNext

LEMMA CoordInvInit == CoordInit => CoordInv
<1> SUFFICES ASSUME CoordInit PROVE CoordInv
  OBVIOUS
<1>1. StoreInv
  BY StoreInvInit DEF CoordInit
<1>2. RecordInv
  BY DEF CoordInit, Init, RecordInv, FromSubmission, ResultHasAttempt, CompletedHasResult,
     RecordedWasCommitted, NoJob, NoAttempt
<1>3. call = [c \in Call |-> NoCall]
  BY DEF CoordInit
<1>4. \A c \in Call : call[c] = NoCall /\ call[c].at = "idle" /\ call[c].op = "none"
  BY <1>3, NoCallRow
<1>5. \A c \in Call : CallOK(c)
  BY <1>4 DEF CallOK, ReqOK, SubmitOK, PollOK, ClaimOK, ResultOK, ReportOK, CancelOK
<1>6. CallInv /\ CreatedOnce
  BY <1>3, <1>4, <1>5, NoCallRow DEF CallInv, CreatedOnce, Done
<1> QED
  BY <1>1, <1>2, <1>6 DEF CoordInv

(***************************************************************************)
(* Whatever calls are in flight, and however they interleave, the          *)
(* coordinator's inductive invariant holds in every reachable state.       *)
(***************************************************************************)
THEOREM CoordInvariant == CoordSpec => []CoordInv
  BY CoordInvInit, CoordStepKeeps, PTL DEF CoordSpec

(***************************************************************************)
(* The coordinator implements the store's specification: each of its steps *)
(* is one script of the store or none, so every theorem about the store    *)
(* holds of the store as the coordinator uses it.                          *)
(***************************************************************************)
THEOREM CoordImplementsStore == CoordSpec => ImplementsStore
<1>1. CoordInit => Init
  BY DEF CoordInit
<1> QED
  BY <1>1, CoordInvInit, CoordStepKeeps, PTL DEF CoordSpec, ImplementsStore, Spec

\* What the invariant says to the callers.
LEMMA CoordPromises == CoordInv => AnswersHold /\ ResultsAreReal /\ CancelHolds
<1>1. CoordInv => AnswersHold
  <2> SUFFICES ASSUME CoordInv PROVE AnswersHold
    OBVIOUS
  <2>1. \A c \in Call : SubmitOK(call[c]) /\ ClaimOK(call[c])
    BY CallFacts DEF CallOK
  <2>2. SubmitNamesOwnJob
    BY <2>1 DEF SubmitNamesOwnJob, Done, SubmitOK, SubmittedAs, CoordInv, CreatedOnce
  <2>3. ClaimAnswersOwnership
    BY <2>1 DEF ClaimAnswersOwnership, Done, ClaimOK
  <2> QED
    BY <2>2, <2>3 DEF AnswersHold
<1>2. CoordInv => ResultsAreReal
  BY DEF CoordInv, RecordInv, ResultsAreReal
<1>3. CoordInv => CancelHolds
  <2> SUFFICES ASSUME CoordInv PROVE CancelHolds
    OBVIOUS
  <2>1. \A c \in Call : CancelOK(call[c])
    BY CallFacts DEF CallOK
  <2>2. CancelNeverExhausted
    BY <2>1 DEF CancelNeverExhausted, Done, CancelOK
  <2>3. ASSUME NEW c \in Call, Done(c, "cancel", {"cancelled"})
        PROVE  LET rec == job[call[c].req.job] IN
               /\ HostState(rec, NamedAttempt(rec), FALSE) = "terminal"
               /\ ExecutionStatusView(rec, NamedAttempt(rec)) = "CANCELLED"
    <3> DEFINE rec == job[call[c].req.job]
    <3>1. rec.status = "terminal" /\ rec.cancel # None /\ call[c].req.job \in JobId
      BY <2>1, <2>3, CallFacts DEF Done, CancelOK
    <3>2. rec \in JobRecord
      BY <3>1 DEF CoordInv, StoreInv, TypeOK
    <3>3. CASE rec.latest = None
      <4>1. NamedAttempt(rec) = NoAttempt
        BY <3>3 DEF NamedAttempt
      <4> QED
        BY <3>1, <3>3, <4>1 DEF HostState, ExecutionStatusView, NoAttempt
    <3>4. CASE rec.latest # None
      <4>1. NamedAttempt(rec) = attempt[rec.latest]
        BY <3>4 DEF NamedAttempt
      <4>2. attempt[rec.latest].phase = "terminal"
        BY <3>1, <3>4 DEF CoordInv, StoreInv, JobAttemptAgree, JobAgrees
      <4>3. attempt[rec.latest].report \in {OperatorReport(b) : b \in BOOLEAN}
        BY <3>1, <3>4 DEF CoordInv, StoreInv, ReportTellsTheTruth, CancelStands
      <4>4. /\ attempt[rec.latest].report.execution_status = "CANCELLED"
            /\ attempt[rec.latest].report # None
        <5>1. PICK b \in BOOLEAN : attempt[rec.latest].report = OperatorReport(b)
          BY <4>3
        <5>2. OperatorReport(b).execution_status = "CANCELLED"
          BY DEF OperatorReport
        <5>3. None # OperatorReport(b)
          BY NoneIsNew DEF AnyReport
        <5> QED
          BY <5>1, <5>2, <5>3
      <4> QED
        BY <3>1, <3>4, <4>1, <4>2, <4>4 DEF HostState, ExecutionStatusView
    <3> QED
      BY <3>3, <3>4
  <2> QED
    BY <2>2, <2>3 DEF CancelHolds, CancelTold
<1> QED
  BY <1>1, <1>2, <1>3

(***************************************************************************)
(* What submit and claim told their callers is so, and stays so for as     *)
(* long as the answer is under way (createJob, claimJob).                  *)
(***************************************************************************)
THEOREM AnswersTheorem == CoordSpec => []AnswersHold
  BY CoordPromises, CoordInvariant, PTL

(***************************************************************************)
(* No job counts as completed on a result that is not in Git, however the  *)
(* calls that deliver results and reports interleave, fail or repeat.      *)
(***************************************************************************)
THEOREM ResultsTheorem == CoordSpec => []ResultsAreReal
  BY CoordPromises, CoordInvariant, PTL

(***************************************************************************)
(* A cancel never runs out of rounds, and a job whose cancel was confirmed *)
(* shows CANCELLED to every later reader (cancelJob).                      *)
(***************************************************************************)
THEOREM CancelTheorem == CoordSpec => []CancelHolds
  BY CoordPromises, CoordInvariant, PTL

-----------------------------------------------------------------------------
(***************************************************************************)
(* Deletes beside the calls (module TargetDelete).  What a delete means to *)
(* prune was past its deadline when its scan began, and deadlines do not   *)
(* come back.                                                              *)
(***************************************************************************)
DelShape(r) ==
  r \in [at : {r.at}, target : {r.target}, cursor : {r.cursor}, upTo : {r.upTo},
         last : {r.last}, now : {r.now}, dead : {r.dead}, blocked : {r.blocked}, outcome : {r.outcome}]

DelRowOK(r) ==
  /\ DelShape(r)
  /\ r.at \notin {"idle", "done"} => r.target \in Target
  /\ r.now \subseteq expired /\ r.dead \subseteq expired

DelInv ==
  /\ del = [k \in FenceToken |-> del[k]]
  /\ \A k \in FenceToken : DelRowOK(del[k])

DeleteInv == CoordInv /\ DelInv

LEMMA NoDeleteRow == DelRowOK(NoDelete) /\ NoDelete.at = "idle"
  BY DEF DelRowOK, DelShape, NoDelete

\* One delete moves on; deadlines do not come back.
LEMMA DelChanges ==
  ASSUME DelInv, NEW k \in FenceToken, NEW new, DelRowOK(new), expired \subseteq expired',
         del' = [del EXCEPT ![k] = new]
  PROVE  DelInv'
<1>1. del' = [i \in FenceToken |-> IF i = k THEN new ELSE del[i]]
  BY DEF DelInv
<1>2. \A i \in FenceToken : DelRowOK(del[i])
  BY DEF DelInv
<1>3. \A i \in FenceToken : del'[i] = new \/ del'[i] = del[i]
  BY <1>1
<1>4. ASSUME NEW i \in FenceToken PROVE DelRowOK(del[i])'
  <2>1. CASE del'[i] = new
    BY <2>1 DEF DelRowOK, DelShape
  <2>2. CASE del'[i] = del[i]
    BY <1>2, <2>2 DEF DelRowOK, DelShape
  <2> QED
    BY <1>3, <2>1, <2>2
<1>5. del' = [i \in FenceToken |-> del'[i]]
  BY <1>1
<1> QED
  BY <1>4, <1>5 DEF DelInv

LEMMA DelStays ==
  ASSUME DelInv, expired \subseteq expired', UNCHANGED del
  PROVE  DelInv'
  BY DEF DelInv, DelRowOK, DelShape

LEMMA DelProceeds ==
  ASSUME DelInv, NEW k \in FenceToken, del[k].target \in Target, NEW pc, Proceeds(k, pc),
         expired \subseteq expired'
  PROVE  DelInv'
<1> DEFINE new == [del[k] EXCEPT !.at = pc]
<1>1. DelRowOK(del[k])
  BY DEF DelInv
<1>2. DelRowOK(new)
  BY <1>1 DEF DelRowOK, DelShape
<1>3. del' = [del EXCEPT ![k] = new]
  BY DEF Proceeds
<1> HIDE DEF new
<1> QED
  BY <1>2, <1>3, DelChanges

LEMMA DelEnds ==
  ASSUME DelInv, NEW k \in FenceToken, NEW outcome, Ends(k, outcome), expired \subseteq expired'
  PROVE  DelInv'
<1> DEFINE new == [NoDelete EXCEPT !.at = "done", !.outcome = outcome]
<1>1. DelRowOK(new)
  BY DEF DelRowOK, DelShape, NoDelete
<1>2. del' = [del EXCEPT ![k] = new]
  BY DEF Ends
<1> HIDE DEF new
<1> QED
  BY <1>1, <1>2, DelChanges

\* A delete writes neither jobs nor attempts.
LEMMA DeleteBeside ==
  ASSUME CoordInv, [Next]_storeVars, UNCHANGED <<job, attempt, call, ledger>>
  PROVE  CoordInv' /\ expired \subseteq expired'
<1>1. RecordInv'
  BY RecordsStay DEF CoordInv
<1>2. expired \subseteq expired'
  BY StoreForward DEF Forward, CoordInv
<1> QED
  BY <1>1, <1>2, BesideCalls

LEMMA DeleteStepKeeps ==
  ASSUME DeleteInv, NEW k \in FenceToken, DeleteStep(k)
  PROVE  DeleteInv' /\ [Next]_storeVars
<1> DEFINE t == del[k].target
<1>0. CoordInv /\ DelInv /\ DelRowOK(del[k])
  BY DEF DeleteInv, DelInv
<1>a. del[k].at \notin {"idle", "done"} => t \in Target
  BY <1>0 DEF DelRowOK
<1>b. ASSUME UNCHANGED <<storeVars, call, ledger>>
      PROVE  CoordInv' /\ [Next]_storeVars /\ expired \subseteq expired'
  <2>1. [Next]_storeVars /\ UNCHANGED <<job, attempt, call, ledger>>
    BY <1>b DEF storeVars
  <2> QED
    BY <1>0, <2>1, DeleteBeside
<1>c. ASSUME t \in Target, FenceStep(t), UNCHANGED serviceVars
      PROVE  CoordInv' /\ [Next]_storeVars /\ expired \subseteq expired'
  <2>1. Next
    BY <1>c DEF Next
  <2>2. UNCHANGED <<job, attempt, call, ledger>>
    BY <1>c DEF FenceStep, FenceGoesStale, FenceExpires, DeleteFenceKey,
       AcquireTargetDeleteFence, TakeoverStaleTargetDeleteFence, TouchTargetDeleteFence,
       serviceVars
  <2> QED
    BY <1>0, <2>1, <2>2, DeleteBeside
<1>1. CASE AcquireFence(k)
  <2>1. t \in Target /\ UNCHANGED serviceVars
    BY <1>1, <1>a DEF AcquireFence
  <2>2. \/ FenceStep(t) /\ Proceeds(k, "scan")
        \/ UNCHANGED storeVars /\ (Proceeds(k, "contended") \/ Ends(k, "in_progress"))
    BY <1>1 DEF AcquireFence, FenceStep
  <2>3. CoordInv' /\ [Next]_storeVars /\ expired \subseteq expired'
    BY <1>b, <1>c, <2>1, <2>2 DEF serviceVars
  <2>4. DelInv'
    BY <1>0, <2>1, <2>2, <2>3, DelProceeds, DelEnds
  <2> QED
    BY <2>3, <2>4 DEF DeleteInv
<1>2. CASE ContendedRow(k) \/ ContendedFence(k) \/ ReleaseRead(k)
  <2>1. t \in Target /\ UNCHANGED vars
    BY <1>2, <1>a DEF ContendedRow, ContendedFence, ReleaseRead
  <2>2. (\E pc : Proceeds(k, pc)) \/ (\E o : Ends(k, o))
    BY <1>2 DEF ContendedRow, ContendedFence, ReleaseRead
  <2>3. CoordInv' /\ [Next]_storeVars /\ expired \subseteq expired'
    BY <1>b, <2>1 DEF vars, storeVars
  <2>4. DelInv'
    BY <1>0, <2>1, <2>2, <2>3, DelProceeds, DelEnds
  <2> QED
    BY <2>3, <2>4 DEF DeleteInv
<1>3. CASE TakeOverFence(k)
  <2>1. t \in Target /\ UNCHANGED serviceVars
    BY <1>3, <1>a DEF TakeOverFence
  <2>2. \E pc : Proceeds(k, pc) /\ (FenceStep(t) \/ UNCHANGED storeVars)
    BY <1>3 DEF TakeOverFence, FenceStep
  <2>3. CoordInv' /\ [Next]_storeVars /\ expired \subseteq expired'
    BY <1>b, <1>c, <2>1, <2>2 DEF serviceVars
  <2>4. DelInv'
    BY <1>0, <2>1, <2>2, <2>3, DelProceeds
  <2> QED
    BY <2>3, <2>4 DEF DeleteInv
<1>4. CASE ScanStream(k)
  <2>1. t \in Target /\ UNCHANGED vars
    BY <1>4, <1>a DEF ScanStream
  <2>2. CoordInv' /\ [Next]_storeVars /\ expired \subseteq expired'
    BY <1>b, <2>1 DEF vars, storeVars
  <2>3. CASE Proceeds(k, "prune")
    BY <1>0, <2>1, <2>2, <2>3, DelProceeds DEF DeleteInv
  <2>4. ASSUME NEW upTo, NEW last,
               del' = [del EXCEPT ![k].at = "load", ![k].upTo = upTo, ![k].last = last,
                         ![k].now = IF del[k].cursor = 0 THEN expired ELSE @]
        PROVE  DelInv'
    <3> DEFINE seen == IF del[k].cursor = 0 THEN expired ELSE del[k].now
    <3> DEFINE new == [del[k] EXCEPT !.at = "load", !.upTo = upTo, !.last = last,
                                   !.now = seen]
    <3>1. seen \subseteq expired
      BY <1>0 DEF DelRowOK
    <3>2. del' = [del EXCEPT ![k] = new]
      BY <1>0, <2>4 DEF DelInv
    <3> HIDE DEF seen
    <3>3. DelRowOK(new)
      BY <1>0, <2>1, <3>1 DEF DelRowOK, DelShape
    <3> HIDE DEF new
    <3> QED
      BY <1>0, <2>2, <3>2, <3>3, DelChanges
  <2> DEFINE U == IF del[k].cursor + ScanBatch < Len(stream) THEN del[k].cursor + ScanBatch
                  ELSE Len(stream)
             L == U < del[k].cursor + ScanBatch
  <2>5. Proceeds(k, "prune") \/
        del' = [del EXCEPT ![k].at = "load", ![k].upTo = U, ![k].last = L,
                  ![k].now = IF del[k].cursor = 0 THEN expired ELSE @]
    BY <1>4 DEF ScanStream
  <2> HIDE DEF U, L
  <2> QED
    BY <2>2, <2>3, <2>4, <2>5 DEF DeleteInv
<1>5. CASE LoadJob(k)
  <2>1. t \in Target /\ UNCHANGED vars
    BY <1>5, <1>a DEF LoadJob
  <2>2. CoordInv' /\ [Next]_storeVars /\ expired \subseteq expired'
    BY <1>b, <2>1 DEF vars, storeVars
  <2> DEFINE j == stream[del[k].cursor + 1]
  <2> DEFINE isDead == job[j].target = t /\ job[j].status = "queued" /\ j \in del[k].now
  <2> DEFINE D == IF isDead THEN del[k].dead \cup {j} ELSE del[k].dead
  <2> DEFINE B == del[k].blocked \/ (job[j].target = t /\ ~isDead /\ job[j].status # "terminal")
  <2> DEFINE new == [del[k] EXCEPT !.cursor = del[k].cursor + 1, !.dead = D, !.blocked = B]
  <2>3. D \subseteq expired
    BY <1>0 DEF DelRowOK
  <2>4. del' = [del EXCEPT ![k].cursor = @ + 1,
       ![k].dead = IF isDead THEN @ \cup {j} ELSE @,
       ![k].blocked = @ \/ (job[j].target = t /\ ~isDead /\ job[j].status # "terminal")]
    BY <1>5 DEF LoadJob
  <2>5. del' = [del EXCEPT ![k] = new]
    BY <1>0, <2>4 DEF DelInv
  <2> HIDE DEF D, B
  <2>6. DelRowOK(new)
    BY <1>0, <2>1, <2>3 DEF DelRowOK, DelShape
  <2> HIDE DEF new
  <2>7. DelInv'
    BY <1>0, <2>2, <2>5, <2>6, DelChanges
  <2> QED
    BY <2>2, <2>7 DEF DeleteInv
<1>6. CASE TouchFence(k)
  <2>1. t \in Target /\ UNCHANGED serviceVars
    BY <1>6, <1>a DEF TouchFence
  <2>2. /\ \E pc : Proceeds(k, pc)
        /\ FenceStep(t) \/ UNCHANGED storeVars
    BY <1>6 DEF TouchFence, FenceStep
  <2>3. CoordInv' /\ [Next]_storeVars /\ expired \subseteq expired'
    BY <1>b, <1>c, <2>1, <2>2 DEF serviceVars
  <2>4. DelInv'
    BY <1>0, <2>1, <2>2, <2>3, DelProceeds
  <2> QED
    BY <2>3, <2>4 DEF DeleteInv
<1>7. CASE PruneDead(k)
  <2>1. t \in Target /\ UNCHANGED serviceVars /\ \E pc : Proceeds(k, pc)
    BY <1>7, <1>a DEF PruneDead
  <2>2. ZRemTargetQueue(t, del[k].dead) \/ UNCHANGED storeVars
    BY <1>7 DEF PruneDead
  <2>3. CoordInv' /\ [Next]_storeVars /\ expired \subseteq expired'
    <3>1. CASE ZRemTargetQueue(t, del[k].dead)
      <4>1. del[k].dead \in SUBSET JobId /\ \A j \in del[k].dead : j \in expired
        BY <1>0 DEF DelRowOK, CoordInv, StoreInv, TypeOK
      <4>2. Next
        BY <2>1, <3>1, <4>1 DEF Next, PruneTargetQueue
      <4>3. UNCHANGED <<job, attempt, call, ledger>>
        BY <2>1, <3>1 DEF ZRemTargetQueue, serviceVars
      <4> QED
        BY <1>0, <4>2, <4>3, DeleteBeside
    <3> QED
      BY <1>b, <2>1, <2>2, <3>1 DEF serviceVars
  <2>4. DelInv'
    BY <1>0, <2>1, <2>3, DelProceeds
  <2> QED
    BY <2>3, <2>4 DEF DeleteInv
<1>8. CASE DeleteRow(k)
  <2>1. t \in Target /\ UNCHANGED <<storeVars, call, ledger>>
    BY <1>8, <1>a DEF DeleteRow
  <2>2. CoordInv' /\ [Next]_storeVars /\ expired \subseteq expired'
    BY <1>b, <2>1
  <2> DEFINE o == IF row[t] = "deleted" THEN "already_deleted" ELSE "deleted"
  <2> DEFINE new == [del[k] EXCEPT !.at = "release", !.outcome = o]
  <2>3. del' = [del EXCEPT ![k].at = "release", ![k].outcome = o]
    BY <1>8 DEF DeleteRow
  <2> HIDE DEF o
  <2>4. del' = [del EXCEPT ![k] = new]
    BY <1>0, <2>3 DEF DelInv
  <2>5. DelRowOK(new)
    BY <1>0, <2>1 DEF DelRowOK, DelShape
  <2> HIDE DEF new
  <2>6. DelInv'
    BY <1>0, <2>2, <2>4, <2>5, DelChanges
  <2> QED
    BY <2>2, <2>6 DEF DeleteInv
<1>9. CASE ReleaseFence(k)
  <2>1. t \in Target /\ UNCHANGED serviceVars /\ \E o : Ends(k, o)
    BY <1>9, <1>a DEF ReleaseFence
  <2>2. FenceStep(t) \/ UNCHANGED storeVars
    BY <1>9 DEF ReleaseFence, FenceStep
  <2>3. CoordInv' /\ [Next]_storeVars /\ expired \subseteq expired'
    BY <1>b, <1>c, <2>1, <2>2 DEF serviceVars
  <2>4. DelInv'
    BY <1>0, <2>1, <2>3, DelEnds
  <2> QED
    BY <2>3, <2>4 DEF DeleteInv
<1> QED
  BY <1>1, <1>2, <1>3, <1>4, <1>5, <1>6, <1>7, <1>8, <1>9 DEF DeleteStep

LEMMA DeleteNextKeeps == DeleteInv /\ [DeleteNext]_allVars => DeleteInv' /\ [Next]_storeVars
<1> SUFFICES ASSUME DeleteInv, [DeleteNext]_allVars PROVE DeleteInv' /\ [Next]_storeVars
  OBVIOUS
<1>0. CoordInv /\ DelInv
  BY DEF DeleteInv
<1>a. ASSUME [Next]_storeVars, UNCHANGED <<job, attempt, call, ledger>>, UNCHANGED del
      PROVE  DeleteInv' /\ [Next]_storeVars
  BY <1>0, <1>a, DeleteBeside, DelStays DEF DeleteInv
<1>1. CASE ServiceStep /\ UNCHANGED del
  <2>1. CoordInv' /\ [Next]_storeVars
    BY <1>0, <1>1, ServiceStepKeeps
  <2>2. expired \subseteq expired'
    BY <1>0, <2>1, StoreForward DEF CoordInv, Forward
  <2> QED
    BY <1>0, <1>1, <2>1, <2>2, DelStays DEF DeleteInv
<1>2. CASE \E k \in FenceToken : DeleteStep(k)
  BY <1>2, DeleteStepKeeps
<1>3. ASSUME NEW k \in FenceToken, DeleteDies(k)
      PROVE  DeleteInv' /\ [Next]_storeVars
  <2>1. UNCHANGED <<job, attempt, call, ledger>> /\ UNCHANGED storeVars /\ Ends(k, "died")
    BY <1>3 DEF DeleteDies, vars, storeVars
  <2>2. CoordInv' /\ expired \subseteq expired'
    BY <1>0, <2>1, DeleteBeside
  <2> QED
    BY <1>0, <2>1, <2>2, DelEnds DEF DeleteInv
<1>4. ASSUME NEW k \in FenceToken, NEW t \in Target, BeginDelete(k, t)
      PROVE  DeleteInv' /\ [Next]_storeVars
  <2>1. UNCHANGED <<job, attempt, call, ledger>> /\ UNCHANGED storeVars
    BY <1>4 DEF BeginDelete, vars, storeVars
  <2>2. CoordInv' /\ expired \subseteq expired'
    BY <1>0, <2>1, DeleteBeside
  <2> DEFINE new == [del[k] EXCEPT !.at = "acquire", !.target = t]
  <2>3. del' = [del EXCEPT ![k] = new]
    <3>1. del' = [del EXCEPT ![k].at = "acquire", ![k].target = t]
      BY <1>4 DEF BeginDelete
    <3> QED
      BY <1>0, <3>1 DEF DelInv
  <2>4. DelRowOK(del[k])
    BY <1>0 DEF DelInv
  <2>5. DelRowOK(new)
    BY <2>4 DEF DelRowOK, DelShape
  <2> HIDE DEF new
  <2>6. DelInv'
    BY <1>0, <2>2, <2>3, <2>5, DelChanges
  <2> QED
    BY <2>1, <2>2, <2>6 DEF DeleteInv
<1>5. ASSUME NEW t \in Target, FenceAges(t)
      PROVE  DeleteInv' /\ [Next]_storeVars
  <2>1. FenceStep(t)
    BY <1>5 DEF FenceAges, FenceStep
  <2>2. Next
    BY <2>1 DEF Next
  <2>3. UNCHANGED <<job, attempt, call, ledger>> /\ UNCHANGED del
    BY <1>5 DEF FenceAges, FenceGoesStale, FenceExpires, serviceVars
  <2> QED
    BY <1>a, <2>2, <2>3
<1>6. ASSUME NEW j \in JobId, DeadlinePasses(j)
      PROVE  DeleteInv' /\ [Next]_storeVars
  <2>1. Next
    BY <1>6 DEF DeadlinePasses, Next, JobStep
  <2>2. UNCHANGED <<job, attempt, call, ledger>> /\ UNCHANGED del
    BY <1>6 DEF DeadlinePasses, ClaimDeadlinePasses, serviceVars
  <2> QED
    BY <1>a, <2>1, <2>2
<1>7. CASE UNCHANGED allVars
  <2>1. UNCHANGED storeVars /\ UNCHANGED <<job, attempt, call, ledger>> /\ UNCHANGED del
    BY <1>7 DEF allVars, storeVars
  <2> QED
    BY <1>a, <2>1
<1> QED
  BY <1>1, <1>2, <1>3, <1>4, <1>5, <1>6, <1>7 DEF DeleteNext

LEMMA DeleteInvInit == DeleteInit => DeleteInv
<1> SUFFICES ASSUME DeleteInit PROVE DeleteInv
  OBVIOUS
<1>1. CoordInv
  BY CoordInvInit DEF DeleteInit
<1>2. del = [k \in FenceToken |-> NoDelete]
  BY DEF DeleteInit
<1>3. \A k \in FenceToken : DelRowOK(del[k])
  BY <1>2, NoDeleteRow
<1> QED
  BY <1>1, <1>2, <1>3 DEF DeleteInv, DelInv

(***************************************************************************)
(* Project deletes, however slow and however many, take nothing from the   *)
(* store: they only drop the queue entries of jobs past their deadline, so *)
(* every step of deletes and calls together is a step of the store.        *)
(***************************************************************************)
THEOREM DeleteImplementsStore == DeleteSpec => ImplementsStore
<1>1. DeleteInit => Init
  BY DEF DeleteInit, CoordInit
<1> QED
  BY <1>1, DeleteInvInit, DeleteNextKeeps, PTL DEF DeleteSpec, ImplementsStore, Spec

(***************************************************************************)
(* What the coordinator promises its callers it keeps while projects are   *)
(* deleted beside them, by any number of deletes that may die or outlive   *)
(* their fence (target-delete.ts).                                         *)
(***************************************************************************)
THEOREM PromisesSurviveDeletes ==
  DeleteSpec => [](AnswersHold /\ ResultsAreReal /\ CancelHolds)
<1>1. DeleteInv => AnswersHold /\ ResultsAreReal /\ CancelHolds
  BY CoordPromises DEF DeleteInv
<1> QED
  BY <1>1, DeleteInvInit, DeleteNextKeeps, PTL DEF DeleteSpec
-----------------------------------------------------------------------------
(***************************************************************************)
(* What a delete that still has its fence knows of its target's jobs.      *)
(***************************************************************************)
\* Never claimed again: finished, or queued past its deadline.
Dead(j) == job[j].status = "terminal" \/ (job[j].status = "queued" /\ j \in expired)

Quiet(t) == \A j \in JobId : job[j].status # "none" /\ job[j].target = t => Dead(j)

\* The stream holds the jobs there are.
StreamInv ==
  /\ \A i \in 1..Len(stream) : job[stream[i]].status # "none"
  /\ \A j \in JobId : job[j].status # "none" => \E i \in 1..Len(stream) : stream[i] = j

QuietUpTo(t, n) == \A i \in 1..n : job[stream[i]].target = t => Dead(stream[i])
NoneAfter(t, n) == \A i \in 1..Len(stream) : n < i => job[stream[i]].target # t

BeforeScan == {"idle", "acquire", "contended", "fence", "takeover", "reacquire"}

ScanShape(d) ==
  /\ d.blocked \in BOOLEAN /\ d.last \in BOOLEAN
  /\ d.at \in BeforeScan => d.cursor = 0 /\ ~d.blocked
  /\ d.at \in Guarded => d.cursor \in Nat /\ d.cursor <= Len(stream)
  /\ d.at = "load" => d.upTo \in Nat /\ d.cursor <= d.upTo /\ d.upTo <= Len(stream)
  /\ d.at = "delete" => ~d.blocked

ScanKnows(d) ==
  /\ ~d.blocked => QuietUpTo(d.target, d.cursor)
  /\ d.at = "load" /\ d.last => NoneAfter(d.target, d.upTo)
  /\ d.at \in {"prune", "delete"} => NoneAfter(d.target, d.cursor)

ScanOK(k) ==
  /\ ScanShape(del[k])
  /\ del[k].at \in Guarded /\ k \notin lapsed =>
       fence[del[k].target] = Armed(k) /\ ScanKnows(del[k])

\* Removed, and under a fence that held.
Gone(t) == row[t] = "deleted" /\ t \notin unguarded

\* A claim that has read its job, and one that has seen the target enabled.
ClaimSafe(k) ==
  k.op = "claim" /\ k.at \in {"authorize", "claim"} =>
    /\ job[k.req.job].status # "none" /\ job[k.req.job].target = k.job.target
    /\ k.at = "claim" /\ Gone(k.job.target) => Dead(k.req.job)

GuardInv ==
  /\ StreamInv
  /\ \A k \in FenceToken : ScanOK(k)
  /\ \A c \in Call : ClaimSafe(call[c])
  /\ NothingRunsOnDeleted

GuardedInv == DeleteInv /\ GuardInv

(***************************************************************************)
(* What the store does to jobs: only a claimable one becomes active, and a *)
(* new one comes with its place at the end of the stream, past no fence.   *)
(***************************************************************************)
OnlyClaimable ==
  \A j \in JobId : job'[j].status = "active" /\ job[j].status # "active" =>
    job[j].status = "queued" /\ j \notin expired

Submits(j, t) ==
  /\ ~fence[t].fresh /\ stream' = Append(stream, j)
  /\ job[j].status = "none" /\ job'[j].status = "queued" /\ job'[j].target = t
  /\ \A i \in JobId : i # j /\ job[i].status = "none" => job'[i].status = "none"

NoneNew ==
  stream' = stream /\ \A j \in JobId : job[j].status = "none" => job'[j].status = "none"

JobsMove == OnlyClaimable /\ (NoneNew \/ \E j \in JobId, t \in Target : Submits(j, t))

LEMMA NewJobFields ==
  ASSUME NEW r, NEW t, NEW dg, NEW rt
  PROVE  NewJob(r, t, dg, rt).status = "queued" /\ NewJob(r, t, dg, rt).target = t
  BY DEF NewJob

LEMMA StoreJobsMove == StoreInv /\ [Next]_storeVars => JobsMove
<1> SUFFICES ASSUME StoreInv, [Next]_storeVars PROVE JobsMove
  OBVIOUS
<1>0. job \in [JobId -> JobRecord]
  BY DEF StoreInv, TypeOK
<1>1. ASSUME UNCHANGED <<job, stream>> PROVE JobsMove
  BY <1>1 DEF JobsMove, OnlyClaimable, NoneNew
<1>2. ASSUME NEW j \in JobId, NEW r \in RequestId, NEW t \in Target, NEW dg \in Digest,
             NEW rt \in {"none", "resource"}, CreateJob(r, j, t, dg, rt)
      PROVE  JobsMove
  <2>1. /\ job'[j] = NewJob(r, t, dg, rt) /\ job[j].status = "none" /\ ~fence[t].fresh
        /\ \A i \in JobId : i # j => job'[i] = job[i]
        /\ stream' = Append(stream, j)
    BY <1>0, <1>2 DEF CreateJob, CreateAccepts
  <2>2. job'[j].status = "queued" /\ job'[j].target = t
    BY <2>1, NewJobFields
  <2>3. Submits(j, t)
    BY <2>1, <2>2 DEF Submits
  <2>4. OnlyClaimable
    BY <2>1, <2>2 DEF OnlyClaimable
  <2> QED
    BY <2>3, <2>4 DEF JobsMove
<1>3. ASSUME NEW j \in JobId, NEW new, job' = [job EXCEPT ![j] = new],
             new.status # "active" \/ (job[j].status = "queued" /\ j \notin expired),
             job[j].status # "none", UNCHANGED stream
      PROVE  JobsMove
  <2>1. job'[j] = new /\ \A i \in JobId : i # j => job'[i] = job[i]
    BY <1>0, <1>3
  <2> QED
    BY <1>3, <2>1 DEF JobsMove, OnlyClaimable, NoneNew
<1>4. ASSUME NEW j \in JobId, NEW t \in Target, NEW a \in AttemptId, NEW d \in Device,
             ClaimJob(j, t, d, a)
      PROVE  JobsMove
  <2> DEFINE new == Activated(job[j], a)
  <2>1. /\ job' = [job EXCEPT ![j] = new] /\ job[j].status = "queued" /\ j \notin expired
        /\ UNCHANGED stream
    BY <1>0, <1>4 DEF ClaimJob, ClaimAccepts, ClaimMayOwn
  <2> HIDE DEF new
  <2> QED
    BY <1>3, <2>1
<1>5. ASSUME NEW j \in JobId, NEW d \in Device, job[j].status \in {"queued", "active"},
             job' = [job EXCEPT ![j] = Cancelled(@, d)], UNCHANGED stream
      PROVE  JobsMove
  <2> DEFINE new == Cancelled(job[j], d)
  <2>1. job' = [job EXCEPT ![j] = new] /\ new.status = "terminal"
    BY <1>0, <1>5, JobFields
  <2> HIDE DEF new
  <2> QED
    BY <1>3, <1>5, <2>1
<1>6. ASSUME NEW j \in JobId, NEW a \in AttemptId, NEW d \in Device, NEW rep \in Report,
             ReportJob(j, a, d, rep)
      PROVE  JobsMove
  <2> DEFINE new == Ended(job[j])
  <2>1. /\ job' = [job EXCEPT ![j] = new] /\ new.status = "terminal"
        /\ job[j].status = "active" /\ UNCHANGED stream
    BY <1>0, <1>6, JobFields DEF ReportJob, ReportAccepts
  <2> HIDE DEF new
  <2> QED
    BY <1>3, <2>1
<1>7. ASSUME NEW j \in JobId, JobStep(j) PROVE JobsMove
  <2>1. CASE \/ ClaimDeadlinePasses(j)
             \/ \E t \in Target, a \in AttemptId : ClaimTooLate(j, t, a)
             \/ \E a \in AttemptId, d \in Device : StartJob(j, a, d)
             \/ \E a \in AttemptId, d \in Device, p \in Payload,
                   mode \in {"automatic", "explicit_redelivery"} :
                  RecordJobResult(j, a, d, p, mode)
    <3>1. UNCHANGED <<job, stream>>
      BY <2>1 DEF ClaimDeadlinePasses, ClaimTooLate, StartJob, RecordJobResult
    <3> QED
      BY <1>1, <3>1
  <2>2. CASE \/ \E d \in Device : CancelQueued(j, None, d)
             \/ \E a \in AttemptId, d \in Device : CancelActive(j, a, d)
    BY <1>5, <2>2 DEF CancelQueued, CancelActive, CancelReaches
  <2> QED
    BY <1>2, <1>4, <1>6, <1>7, <2>1, <2>2 DEF JobStep
<1>8. ASSUME NEW t \in Target, FenceStep(t) PROVE JobsMove
  BY <1>1, <1>8 DEF FenceStep, FenceGoesStale, FenceExpires, DeleteFenceKey,
     AcquireTargetDeleteFence, TakeoverStaleTargetDeleteFence, TouchTargetDeleteFence
<1>9. CASE \E t \in Target, S \in SUBSET JobId : PruneTargetQueue(t, S)
  BY <1>1, <1>9 DEF PruneTargetQueue, ZRemTargetQueue
<1>10. CASE UNCHANGED storeVars
  BY <1>1, <1>10 DEF storeVars
<1> QED
  BY <1>7, <1>8, <1>9, <1>10 DEF Next

\* A job that nobody can claim any more stays so, on its target.
LEMMA DeadStays ==
  ASSUME StoreInv, [Next]_storeVars, NEW j \in JobId
  PROVE  Dead(j) => Dead(j)'
<1>1. Forward /\ JobsMove /\ StoreInv'
  BY StoreForward, StoreJobsMove, StoreInvStep
<1>2. JobForward(j) /\ expired \subseteq expired'
  BY <1>1 DEF Forward
<1>3. job'[j].status \in {"none", "queued", "active", "terminal"}
  BY <1>1 DEF StoreInv, TypeOK, JobRecord
<1> QED
  BY <1>1, <1>2, <1>3 DEF JobsMove, OnlyClaimable, JobForward, Dead

LEMMA StreamStays ==
  ASSUME StoreInv, StreamInv, [Next]_storeVars
  PROVE  /\ StreamInv'
         /\ Len(stream) <= Len(stream')
         /\ \A i \in 1..Len(stream) : stream[i] \in JobId /\ stream'[i] = stream[i]
<1>1. JobsMove /\ Forward /\ stream \in Seq(JobId)
  BY StoreJobsMove, StoreForward DEF StoreInv, TypeOK
<1>2. \A i \in 1..Len(stream) : stream[i] \in JobId
  BY <1>1
<1>3. \A j \in JobId : job[j].status # "none" => job'[j].status # "none"
  BY <1>1 DEF Forward, JobForward
<1>4. CASE NoneNew
  BY <1>1, <1>2, <1>3, <1>4 DEF NoneNew, StreamInv
<1>5. ASSUME NEW j \in JobId, NEW t \in Target, Submits(j, t)
      PROVE  StreamInv' /\ Len(stream) <= Len(stream')
             /\ \A i \in 1..Len(stream) : stream'[i] = stream[i]
  <2>1. stream' = Append(stream, j)
    BY <1>5 DEF Submits
  <2>2. /\ Len(stream') = Len(stream) + 1 /\ Len(stream) \in Nat
        /\ stream'[Len(stream) + 1] = j
        /\ \A i \in 1..Len(stream) : stream'[i] = stream[i]
    BY <1>1, <2>1
  <2>3. \A i \in 1..Len(stream') : i \in 1..Len(stream) \/ i = Len(stream) + 1
    BY <2>2
  <2>4. \A i \in 1..Len(stream') : job'[stream'[i]].status # "none"
    BY <1>2, <1>3, <1>5, <2>2, <2>3 DEF Submits, StreamInv
  <2>5. ASSUME NEW i \in JobId, job'[i].status # "none"
        PROVE  \E n \in 1..Len(stream') : stream'[n] = i
    <3>1. CASE i = j
      BY <2>2, <3>1
    <3>2. CASE i # j
      <4>1. job[i].status # "none"
        BY <1>5, <2>5, <3>2 DEF Submits
      <4>2. PICK n \in 1..Len(stream) : stream[n] = i
        BY <4>1 DEF StreamInv
      <4> QED
        BY <2>2, <4>2
    <3> QED
      BY <3>1, <3>2
  <2> QED
    BY <2>2, <2>4, <2>5 DEF StreamInv
<1> QED
  BY <1>1, <1>2, <1>4, <1>5 DEF JobsMove, NoneNew

(***************************************************************************)
(* What a delete has seen of the stream stays so while its fence is fresh: *)
(* the jobs it passed stay dead, and a new one is not on its target.       *)
(***************************************************************************)
LEMMA SeenStaysDead ==
  ASSUME StoreInv, StreamInv, [Next]_storeVars, NEW t, NEW n \in Nat, n <= Len(stream),
         QuietUpTo(t, n)
  PROVE  QuietUpTo(t, n)'
<1>1. \A i \in 1..Len(stream) : stream[i] \in JobId /\ stream'[i] = stream[i]
  BY StreamStays
<1>2. ASSUME NEW i \in 1..n, job'[stream'[i]].target = t
      PROVE  Dead(stream[i])'
  <2> DEFINE j == stream[i]
  <2>1. i \in 1..Len(stream) /\ j \in JobId /\ stream'[i] = j
    BY <1>1 DEF StoreInv, TypeOK
  <2>2. job[j].status # "none"
    BY <2>1 DEF StreamInv
  <2>3. job'[j].target = job[j].target
    BY <2>1, <2>2, StoreForward DEF Forward, JobForward
  <2>4. Dead(j)
    BY <1>2, <2>1, <2>3 DEF QuietUpTo
  <2>5. Dead(j)'
    BY <2>1, <2>4, DeadStays
  <2> QED
    BY <2>1, <2>5 DEF Dead
<1> QED
  BY <1>2 DEF QuietUpTo, Dead

LEMMA NoneComes ==
  ASSUME StoreInv, StreamInv, [Next]_storeVars, NEW t \in Target, fence[t].fresh,
         NEW n \in Nat, NoneAfter(t, n)
  PROVE  NoneAfter(t, n)'
<1>1. /\ \A i \in 1..Len(stream) : stream[i] \in JobId /\ stream'[i] = stream[i]
      /\ JobsMove /\ stream \in Seq(JobId)
  BY StreamStays, StoreJobsMove DEF StoreInv, TypeOK
<1>2. ASSUME NEW i \in 1..Len(stream), n < i
      PROVE  job'[stream'[i]].target # t
  <2>1. stream[i] \in JobId /\ stream'[i] = stream[i] /\ job[stream[i]].status # "none"
    BY <1>1 DEF StreamInv
  <2>2. job'[stream[i]].target = job[stream[i]].target
    BY <2>1, StoreForward DEF Forward, JobForward
  <2> QED
    BY <1>2, <2>1, <2>2 DEF NoneAfter
<1>3. CASE NoneNew
  BY <1>2, <1>3 DEF NoneNew, NoneAfter
<1>4. ASSUME NEW j \in JobId, NEW u \in Target, Submits(j, u)
      PROVE  NoneAfter(t, n)'
  <2>1. /\ Len(stream') = Len(stream) + 1 /\ Len(stream) \in Nat
        /\ stream'[Len(stream) + 1] = j /\ job'[j].target = u /\ u # t
    BY <1>1, <1>4 DEF Submits
  <2>2. \A i \in 1..Len(stream') : i \in 1..Len(stream) \/ i = Len(stream) + 1
    BY <2>1
  <2> QED
    BY <1>2, <2>1, <2>2 DEF NoneAfter
<1> QED
  BY <1>1, <1>3, <1>4 DEF JobsMove

\* A delete that does not move.
LEMMA ScanStays ==
  ASSUME DeleteInv, StreamInv, [Next]_storeVars, Lapses, NEW k \in FenceToken, ScanOK(k),
         del'[k] = del[k]
  PROVE  ScanOK(k)'
<1> DEFINE d == del[k]
<1>1. StoreInv /\ DelRowOK(d)
  BY DEF DeleteInv, CoordInv, DelInv
<1>2. Len(stream) <= Len(stream') /\ Len(stream) \in Nat /\ Len(stream') \in Nat
  BY <1>1, StreamStays, StoreInvStep DEF StoreInv, TypeOK, DeleteInv, CoordInv
<1>3. ScanShape(d)'
  BY <1>2 DEF ScanOK, ScanShape
<1>4. ASSUME d.at \in Guarded, k \notin lapsed'
      PROVE  fence'[d.target] = Armed(k) /\ ScanKnows(d)'
  <2>1. k \notin lapsed /\ fence'[d.target] = Armed(k)
    BY <1>4 DEF Lapses
  <2>2. /\ fence[d.target].fresh /\ d.target \in Target /\ ScanKnows(d)
        /\ d.cursor \in Nat /\ d.cursor <= Len(stream)
        /\ d.at = "load" => d.upTo \in Nat
    BY <1>1, <1>4, <2>1 DEF ScanOK, ScanShape, Armed, DelRowOK, Guarded
  <2>3. ~d.blocked => QuietUpTo(d.target, d.cursor)'
    BY <1>1, <2>2, SeenStaysDead DEF ScanKnows
  <2>4. d.at = "load" /\ d.last => NoneAfter(d.target, d.upTo)'
    BY <1>1, <2>2, NoneComes DEF ScanKnows
  <2>5. d.at \in {"prune", "delete"} => NoneAfter(d.target, d.cursor)'
    BY <1>1, <2>2, NoneComes DEF ScanKnows
  <2> QED
    BY <2>1, <2>3, <2>4, <2>5 DEF ScanKnows, QuietUpTo, NoneAfter
<1> HIDE DEF d
<1> QED
  BY <1>3, <1>4 DEF ScanOK, d, ScanShape, ScanKnows, QuietUpTo, NoneAfter, Dead

(***************************************************************************)
(* Calls.  A step of a call leaves the others and its own operation alone. *)
(***************************************************************************)
KeepsOp(c) ==
  (\A d \in Call : d # c => call'[d] = call[d]) /\ call'[c].op = call[c].op

LEMMA OpChanges ==
  ASSUME CallInv, NEW c \in Call, NEW new, call' = [call EXCEPT ![c] = new],
         new.op = call[c].op
  PROVE  KeepsOp(c) /\ call'[c] = new
  BY DEF CallInv, KeepsOp

LEMMA OpMoves ==
  ASSUME CallInv, NEW c \in Call, NEW pc, NEW rec, Moves(c, pc) \/ Reads(c, rec, pc)
  PROVE  KeepsOp(c)
<1>1. call[c] \in CallRow
  BY DEF CallInv
<1>2. CASE Moves(c, pc)
  <2> DEFINE new == [call[c] EXCEPT !.at = pc]
  <2>1. new.op = call[c].op /\ call' = [call EXCEPT ![c] = new]
    BY <1>1, <1>2 DEF CallRow, Moves
  <2> HIDE DEF new
  <2> QED
    BY <2>1, OpChanges
<1>3. CASE Reads(c, rec, pc)
  <2> DEFINE new == [call[c] EXCEPT !.at = pc, !.job = rec]
  <2>1. new.op = call[c].op /\ call' = [call EXCEPT ![c] = new]
    BY <1>1, <1>3 DEF CallRow, Reads, CallInv
  <2> HIDE DEF new
  <2> QED
    BY <2>1, OpChanges
<1> QED
  BY <1>2, <1>3

LEMMA OpReplies ==
  ASSUME CallInv, NEW c \in Call, NEW code, NEW about, Replies(c, code, about)
  PROVE  KeepsOp(c) /\ call'[c].at = "answered"
<1> DEFINE new == Answered(call[c], code, about)
<1> DEFINE ans == [code |-> code, about |-> about]
<1>1. new = [NoCall EXCEPT !.op = call[c].op, !.at = "answered", !.req = call[c].req,
                           !.offers = call[c].offers, !.answer = ans]
  BY DEF Answered
<1> HIDE DEF ans
<1>2. NoCall \in CallRow
  BY NoCallRow
<1>3. call' = [call EXCEPT ![c] = new]
  BY DEF Replies
<1> HIDE DEF new
<1>4. new.op = call[c].op /\ new.at = "answered"
  BY <1>1, <1>2 DEF CallRow
<1> QED
  BY <1>3, <1>4, OpChanges

LEMMA OpKept ==
  ASSUME CallInv, NEW c \in Call, CallStep(c), call[c].op # "claim"
  PROVE  KeepsOp(c)
<1>0. call[c] \in CallRow
  BY DEF CallInv
<1>1. CASE SubmitLookup(c) \/ SubmitReadExisting(c) \/ SubmitAuthorize(c) \/ StartCall(c)
             \/ ResultApply(c) \/ ResultRecord(c) \/ ResultReadAttempt(c)
             \/ ReportReadAttempt(c) \/ ReportCall(c) \/ CancelCall(c)
             \/ CancelReadAttempt(c) \/ GetReadAttempt(c)
  <2>1. (\E pc : Moves(c, pc)) \/ (\E code, about : Replies(c, code, about))
    BY <1>1 DEF SubmitLookup, SubmitReadExisting, SubmitAuthorize, StartCall, ResultApply,
       ResultRecord, ResultReadAttempt, ReportReadAttempt, ReportCall, CancelCall,
       CancelReadAttempt, GetReadAttempt
  <2> QED
    BY <2>1, OpMoves, OpReplies
<1>2. CASE SubmitCreate(c)
  <2>1. (\E pc : Moves(c, pc)) \/ (\E code, about : Replies(c, code, about))
    BY <1>2 DEF SubmitCreate
  <2> QED
    BY <2>1, OpMoves, OpReplies
<1>3. CASE ResultReadJob(c) \/ ReportReadJob(c) \/ CancelReadJob(c) \/ GetReadJob(c)
  <2>1. (\E rec, pc : Reads(c, rec, pc)) \/ (\E code, about : Replies(c, code, about))
    BY <1>3 DEF ResultReadJob, ReportReadJob, CancelReadJob, GetReadJob
  <2> QED
    BY <2>1, OpMoves, OpReplies
<1>4. CASE PollTargets(c)
  <2> DEFINE S == {t \in Target : ResolveEligibleBinding(call[c].req.device, t)}
  <2> DEFINE new == [call[c] EXCEPT !.at = "queues", !.targets = S]
  <2>1. call' = [call EXCEPT ![c] = new]
    BY <1>4 DEF PollTargets, CallInv
  <2> HIDE DEF S
  <2>2. new.op = call[c].op
    BY <1>0 DEF CallRow
  <2> HIDE DEF new
  <2> QED
    BY <2>1, <2>2, OpChanges
<1>5. ASSUME NEW T, NEW R, call' = [call EXCEPT ![c].targets = T, ![c].rows = R]
      PROVE  KeepsOp(c)
  <2> DEFINE new == [call[c] EXCEPT !.targets = T, !.rows = R]
  <2>1. call' = [call EXCEPT ![c] = new] /\ new.op = call[c].op
    BY <1>0, <1>5 DEF CallRow, CallInv
  <2> HIDE DEF new
  <2> QED
    BY <2>1, OpChanges
<1>6. CASE PollQueue(c)
  <2>1. CASE Moves(c, "jobs")
    BY <2>1, OpMoves
  <2>2. CASE ~Moves(c, "jobs")
    <3>0. PICK t \in call[c].targets : \E S \in PollRows(t) :
            call' = [call EXCEPT ![c].targets = @ \ {t},
              ![c].rows = @ \cup {[target |-> t, job |-> j] : j \in S}]
      BY <1>6, <2>2 DEF PollQueue
    <3>1. PICK S \in PollRows(t) :
            call' = [call EXCEPT ![c].targets = @ \ {t},
              ![c].rows = @ \cup {[target |-> t, job |-> j] : j \in S}]
      BY <3>0
    <3> DEFINE T == call[c].targets \ {t}
               R == call[c].rows \cup {[target |-> t, job |-> j] : j \in S}
    <3>2. call' = [call EXCEPT ![c].targets = T, ![c].rows = R]
      BY <1>0, <3>1 DEF CallInv, CallRow
    <3> HIDE DEF T, R
    <3> QED
      BY <1>5, <3>2
  <2> QED
    BY <2>1, <2>2
<1>7. CASE PollJob(c)
  <2>1. CASE \E code, about : Replies(c, code, about)
    BY <2>1, OpReplies
  <2>2. CASE ~\E code, about : Replies(c, code, about)
    <3>1. PICK r \in call[c].rows :
            \/ call' = [call EXCEPT ![c].at = "prune", ![c].stale = r]
            \/ call' = [call EXCEPT ![c].rows = @ \ {r}, ![c].offers = @ \cup {r.job}]
      BY <1>7, <2>2 DEF PollJob
    <3> DEFINE one == [call[c] EXCEPT !.at = "prune", !.stale = r]
               two == [call[c] EXCEPT !.rows = @ \ {r}, !.offers = @ \cup {r.job}]
    <3>2. call' = [call EXCEPT ![c] = one] \/ call' = [call EXCEPT ![c] = two]
      BY <1>0, <3>1 DEF CallInv, CallRow
    <3>3. one.op = call[c].op /\ two.op = call[c].op
      BY <1>0 DEF CallRow
    <3> HIDE DEF one, two
    <3> QED
      BY <3>2, <3>3, OpChanges
  <2> QED
    BY <2>1, <2>2
<1>8. CASE PollPrune(c)
  <2> DEFINE new == Pruned(call[c])
  <2>1. call' = [call EXCEPT ![c] = new] /\ new.op = call[c].op
    BY <1>0, <1>8 DEF PollPrune, Pruned, CallRow
  <2> HIDE DEF new
  <2> QED
    BY <2>1, OpChanges
<1>9. CASE CancelRaces(c)
  <2>1. CASE \E code, about : Replies(c, code, about)
    BY <2>1, OpReplies
  <2>2. CASE ~\E code, about : Replies(c, code, about)
    <3> DEFINE new == [call[c] EXCEPT !.at = "begin", !.job = NoJob, !.round = @ + 1]
    <3>1. call' = [call EXCEPT ![c].at = "begin", ![c].job = NoJob, ![c].round = @ + 1]
      BY <1>9, <2>2 DEF CancelRaces
    <3>2. call' = [call EXCEPT ![c] = new] /\ new.op = call[c].op
      BY <1>0, <3>1 DEF CallInv, CallRow
    <3> HIDE DEF new
    <3> QED
      BY <3>2, OpChanges
  <2> QED
    BY <2>1, <2>2
<1> QED
  BY <1>1, <1>2, <1>3, <1>4, <1>6, <1>7, <1>8, <1>9
     DEF CallStep, ClaimRead, ClaimAuthorize, ClaimReplay, ClaimOwn, ClaimRefused, Waits

LEMMA RowsKept ==
  ASSUME NEW c \in Call, CallStep(c)
  PROVE  UNCHANGED <<row, binding>>
<1>1. CASE SubmitLookup(c) \/ SubmitReadExisting(c) \/ SubmitAuthorize(c) \/ SubmitCreate(c)
           \/ PollTargets(c) \/ PollQueue(c) \/ PollJob(c) \/ PollPrune(c)
  BY <1>1 DEF SubmitLookup, SubmitReadExisting, SubmitAuthorize, SubmitCreate, PollTargets,
     PollQueue, PollJob, PollPrune
<1>2. CASE ClaimRead(c) \/ ClaimAuthorize(c) \/ ClaimReplay(c) \/ ClaimOwn(c)
           \/ ClaimRefused(c) \/ StartCall(c)
  BY <1>2 DEF ClaimRead, ClaimAuthorize, ClaimReplay, ClaimOwn, ClaimRefused, StartCall
<1>3. CASE ResultReadJob(c) \/ ResultReadAttempt(c) \/ ResultApply(c) \/ ResultRecord(c)
           \/ ReportReadJob(c) \/ ReportReadAttempt(c) \/ ReportCall(c)
  BY <1>3 DEF ResultReadJob, ResultReadAttempt, ResultApply, ResultRecord, ReportReadJob,
     ReportReadAttempt, ReportCall
<1>4. CASE CancelReadJob(c) \/ CancelReadAttempt(c) \/ CancelCall(c) \/ CancelRaces(c)
           \/ GetReadJob(c) \/ GetReadAttempt(c)
  BY <1>4 DEF CancelReadJob, CancelReadAttempt, CancelCall, CancelRaces, GetReadJob,
     GetReadAttempt
<1> QED
  BY <1>1, <1>2, <1>3, <1>4 DEF CallStep

\* No call but a claim makes a job active.
LEMMA OnlyClaimsActivate ==
  ASSUME CoordInv, NEW c \in Call, CallStep(c), NEW j \in JobId,
         job'[j].status = "active", job[j].status # "active"
  PROVE  /\ Waits(c, "claim", "claim") /\ call[c].req.job = j
         /\ call[c].job.target = job[j].target /\ ~Dead(j)
<1>0. job \in [JobId -> JobRecord] /\ ReqOK(call[c])
  BY DEF CoordInv, StoreInv, TypeOK, CallInv, CallOK
<1>1. job[j].status = "queued" /\ j \notin expired /\ ~Dead(j)
  <2>1. JobsMove
    BY CallStepKeeps, StoreJobsMove DEF CoordInv
  <2> QED
    BY <2>1 DEF JobsMove, OnlyClaimable, Dead
<1>2. ~UNCHANGED job
  OBVIOUS
<1>3. CASE ClaimOwn(c)
  <2>1. ClaimJob(call[c].req.job, call[c].job.target, call[c].req.device, call[c].req.attempt)
    BY <1>2, <1>3 DEF ClaimOwn, ClaimTooLate
  <2>2. call[c].req.job \in JobId /\ job[call[c].req.job].target = call[c].job.target
    BY <1>0, <1>3, <2>1, ReqFacts
       DEF ClaimOwn, Waits, ClaimJob, ClaimAccepts, ClaimMayOwn, ClaimReaches
  <2>3. call[c].req.job = j
    BY <1>0, <2>1 DEF ClaimJob
  <2> QED
    BY <1>1, <1>3, <2>2, <2>3 DEF ClaimOwn
<1>4. CASE SubmitCreate(c)
  <2> DEFINE s == call[c].req
  <2>1. PICK i \in JobId : CreateJob(s.request, i, s.target, s.digest, s.result_target)
    BY <1>2, <1>4 DEF SubmitCreate, storeVars
  <2>2. job' = [job EXCEPT ![i] = NewJob(s.request, s.target, s.digest, s.result_target)]
    BY <2>1 DEF CreateJob
  <2> HIDE DEF s
  <2>3. job'[j] = job[j] \/ job'[j] = NewJob(s.request, s.target, s.digest, s.result_target)
    BY <1>0, <2>2
  <2> QED
    BY <2>3, NewJobFields
<1>5. ASSUME NEW i, NEW new, job' = [job EXCEPT ![i] = new],
             new.status # "active" PROVE FALSE
  BY <1>0, <1>5
<1>6. CASE ReportCall(c)
  <2> DEFINE q == call[c].req
             new == Ended(job[q.job])
  <2>1. ReportJob(q.job, q.attempt, q.device, q.report)
    BY <1>2, <1>6 DEF ReportCall, storeVars
  <2>2. job' = [job EXCEPT ![q.job] = new] /\ q.job \in JobId
    BY <1>0, <1>6, <2>1, ReqFacts DEF ReportJob, ReportCall, Waits
  <2>3. new.status # "active"
    BY <1>0, <2>2, JobFields
  <2> HIDE DEF new, q
  <2> QED
    BY <1>5, <2>2, <2>3
<1>7. CASE CancelCall(c)
  <2> DEFINE q == call[c].req
             new == Cancelled(job[q.job], q.device)
  <2>1. job' = [job EXCEPT ![q.job] = new]
    BY <1>0, <1>2, <1>7 DEF CancelCall, CancelQueued, CancelActive, storeVars
  <2>2. q.job \in JobId /\ q.device \in Device
    BY <1>0, <1>7, ReqFacts DEF CancelCall, Waits
  <2>3. new.status # "active"
    BY <1>0, <2>2, JobFields
  <2> HIDE DEF new, q
  <2> QED
    BY <1>5, <2>1, <2>3
<1>8. ~(StartCall(c) \/ ResultRecord(c) \/ PollPrune(c))
  BY <1>2 DEF StartCall, StartJob, ResultRecord, RecordJobResult, PollPrune, ZRemTargetQueue,
     storeVars
<1>9. ~(SubmitLookup(c) \/ SubmitReadExisting(c) \/ SubmitAuthorize(c) \/ PollTargets(c)
          \/ PollQueue(c) \/ PollJob(c) \/ ClaimRead(c) \/ ClaimAuthorize(c)
          \/ ClaimReplay(c) \/ ClaimRefused(c))
  BY <1>2 DEF SubmitLookup, SubmitReadExisting, SubmitAuthorize, PollTargets, PollQueue,
     PollJob, ClaimRead, ClaimAuthorize, ClaimReplay, ClaimRefused, storeVars
<1>10. ~(ResultReadJob(c) \/ ResultReadAttempt(c) \/ ResultApply(c) \/ ReportReadJob(c)
           \/ ReportReadAttempt(c) \/ CancelReadJob(c) \/ CancelReadAttempt(c)
           \/ CancelRaces(c) \/ GetReadJob(c) \/ GetReadAttempt(c))
  BY <1>2 DEF ResultReadJob, ResultReadAttempt, ResultApply, ReportReadJob,
     ReportReadAttempt, CancelReadJob, CancelReadAttempt, CancelRaces, GetReadJob,
     GetReadAttempt, storeVars
<1> QED
  BY <1>3, <1>4, <1>6, <1>7, <1>8, <1>9, <1>10 DEF CallStep

LEMMA JobTarget ==
  ASSUME CoordInv, NEW j \in JobId, job[j].status # "none"
  PROVE  job[j].target \in Target
  BY SubmissionAssumption DEF CoordInv, RecordInv, FromSubmission, SubmittedAs

(***************************************************************************)
(* A target is removed under a fence only while it is quiet.               *)
(***************************************************************************)
GoneQuietly == \A t \in Target : Gone(t)' => Gone(t) \/ Quiet(t)

LEMMA SafeStays ==
  ASSUME CoordInv, [Next]_storeVars, GoneQuietly, NEW d \in Call, ClaimSafe(call[d]),
         call'[d] = call[d]
  PROVE  ClaimSafe(call[d])'
<1> DEFINE k == call[d]
           j == k.req.job
           t == k.job.target
<1> SUFFICES ASSUME k.op = "claim", k.at \in {"authorize", "claim"}
             PROVE  /\ job'[j].status # "none" /\ job'[j].target = t
                    /\ k.at = "claim" /\ Gone(t)' => Dead(j)'
  BY DEF ClaimSafe, Gone, Dead
<1>1. j \in JobId
  BY ReqFacts DEF CoordInv, CallInv, CallOK
<1>2. /\ job[j].status # "none" /\ job[j].target = t
      /\ k.at = "claim" /\ Gone(t) => Dead(j)
  BY DEF ClaimSafe
<1>3. job'[j].status # "none" /\ job'[j].target = t
  BY <1>1, <1>2, StoreForward DEF CoordInv, Forward, JobForward
<1>4. t \in Target
  BY <1>1, <1>2, JobTarget
<1>5. ASSUME k.at = "claim", Gone(t)' PROVE Dead(j)'
  <2>1. Dead(j)
    BY <1>1, <1>2, <1>4, <1>5 DEF GoneQuietly, Quiet
  <2> QED
    BY <1>1, <2>1, DeadStays DEF CoordInv
<1> QED
  BY <1>3, <1>5

LEMMA CallsStaySafe ==
  ASSUME GuardedInv, GoneQuietly, NEW c \in Call, CallStep(c)
  PROVE  \A d \in Call : ClaimSafe(call[d])'
<1>0. CoordInv /\ CallInv /\ \A d \in Call : ClaimSafe(call[d])
  BY DEF GuardedInv, GuardInv, DeleteInv, CoordInv
<1>1. [Next]_storeVars /\ UNCHANGED row
  BY <1>0, CallStepKeeps, RowsKept
<1>a. ASSUME NEW code, NEW about, Replies(c, code, about)
      PROVE  KeepsOp(c) /\ ClaimSafe(call[c])'
  BY <1>0, <1>a, OpReplies DEF ClaimSafe
<1>2. KeepsOp(c) /\ ClaimSafe(call[c])'
  <2>1. CASE call[c].op # "claim"
    <3>1. KeepsOp(c)
      BY <1>0, <2>1, OpKept
    <3> QED
      BY <2>1, <3>1 DEF KeepsOp, ClaimSafe
  <2>2. CASE ClaimRead(c)
    <3> DEFINE q == call[c].req
    <3>1. CASE \E code, about : Replies(c, code, about)
      BY <1>a, <3>1
    <3>2. CASE ~\E code, about : Replies(c, code, about)
      <4>1. /\ Reads(c, job[q.job], "replay") \/ Reads(c, job[q.job], "authorize")
            /\ job[q.job].status # "none" /\ UNCHANGED storeVars /\ q.job \in JobId
        <5>1. q.job \in JobId
          BY <1>0, <2>2, ReqFacts DEF ClaimRead, Waits, CallInv, CallOK
        <5> QED
          BY <2>2, <3>2, <5>1 DEF ClaimRead
      <4>2. job[q.job] \in JobRecord
        BY <1>0, <4>1 DEF CoordInv, StoreInv, TypeOK
      <4>3. "replay" \in At /\ "authorize" \in At
        BY DEF At
      <4>4. /\ SameRow(c) /\ call'[c].job = job[q.job]
            /\ call'[c].at \in {"replay", "authorize"}
        BY <1>0, <4>1, <4>2, <4>3, ReadsFields
      <4>5. KeepsOp(c)
        BY <1>0, <4>1, OpMoves
      <4>6. call'[c].req = q /\ job' = job
        BY <4>1, <4>4 DEF SameRow, storeVars
      <4> HIDE DEF q
      <4> QED
        BY <4>1, <4>4, <4>5, <4>6 DEF ClaimSafe
    <3> QED
      BY <3>1, <3>2
  <2>3. CASE ClaimAuthorize(c)
    <3>1. CASE \E code, about : Replies(c, code, about)
      BY <1>a, <3>1
    <3>2. CASE ~\E code, about : Replies(c, code, about)
      <4>1. /\ Moves(c, "claim") /\ UNCHANGED <<job, row>>
            /\ row[call[c].job.target] = "enabled"
            /\ call[c].op = "claim" /\ call[c].at = "authorize"
        BY <1>1, <2>3, <3>2 DEF ClaimAuthorize, ResolveEligibleBinding, Waits, storeVars
      <4>2. "claim" \in At
        BY DEF At
      <4>3. SameRow(c) /\ call'[c].at = "claim" /\ call'[c].job = call[c].job /\ KeepsOp(c)
        BY <1>0, <4>1, <4>2, MovesFields, OpMoves
      <4>4. /\ job[call[c].req.job].status # "none"
            /\ job[call[c].req.job].target = call[c].job.target
        BY <1>0, <4>1 DEF ClaimSafe
      <4> QED
        BY <4>1, <4>3, <4>4 DEF ClaimSafe, SameRow, Gone
    <3> QED
      BY <3>1, <3>2
  <2>4. CASE ClaimReplay(c) \/ ClaimOwn(c) \/ ClaimRefused(c)
    <3>1. \E code, about : Replies(c, code, about)
      BY <2>4 DEF ClaimReplay, ClaimOwn, ClaimRefused
    <3> QED
      BY <1>a, <3>1
  <2>5. call[c].op = "claim" =>
          ClaimRead(c) \/ ClaimAuthorize(c) \/ ClaimReplay(c) \/ ClaimOwn(c) \/ ClaimRefused(c)
    BY DEF CallStep, SubmitLookup, SubmitReadExisting, SubmitAuthorize, SubmitCreate,
       PollTargets, PollQueue, PollJob, PollPrune, StartCall, ResultReadJob,
       ResultReadAttempt, ResultApply, ResultRecord, ReportReadJob, ReportReadAttempt,
       ReportCall, CancelReadJob, CancelReadAttempt, CancelCall, CancelRaces, GetReadJob,
       GetReadAttempt, Waits
  <2> QED
    BY <2>1, <2>2, <2>3, <2>4, <2>5
<1>3. \A d \in Call : d # c => ClaimSafe(call[d])'
  BY <1>0, <1>1, <1>2, SafeStays DEF KeepsOp
<1> QED
  BY <1>2, <1>3

(***************************************************************************)
(* Every step that does not move a delete.                                 *)
(***************************************************************************)
LEMMA RunsOnTarget ==
  ASSUME CoordInv, [Next]_storeVars, GoneQuietly, NothingRunsOnDeleted, NEW j \in JobId,
         job'[j].status = "active",
         job[j].status # "active" => ~Dead(j) /\ ~Gone(job[j].target) /\ job[j].status # "none"
  PROVE  ~Gone(job[j].target)' /\ job'[j].target = job[j].target
<1>1. job[j].status # "none" /\ ~Dead(j) /\ ~Gone(job[j].target)
  BY DEF Dead, NothingRunsOnDeleted, Gone
<1>2. PICK t \in Target : t = job[j].target
  BY <1>1, JobTarget
<1>3. ~Gone(t)'
  BY <1>1, <1>2 DEF GoneQuietly, Quiet
<1>4. job'[j].target = t
  BY <1>1, <1>2, StoreForward DEF CoordInv, Forward, JobForward
<1> QED
  BY <1>2, <1>3, <1>4 DEF Gone

LEMMA RunsStayOnTargets ==
  ASSUME CoordInv, [Next]_storeVars, GoneQuietly, NothingRunsOnDeleted,
         \A j \in JobId : job'[j].status = "active" /\ job[j].status # "active" =>
           ~Dead(j) /\ ~Gone(job[j].target) /\ job[j].status # "none"
  PROVE  NothingRunsOnDeleted'
<1>1. \A j \in JobId : job'[j].status = "active" => ~Gone(job[j].target)'
  BY RunsOnTarget
<1> QED
  BY <1>1 DEF NothingRunsOnDeleted, Gone

\* What remains to be shown of a step that moves at most one delete.
LEMMA GuardStays ==
  ASSUME GuardedInv, [Next]_storeVars, Lapses, GoneQuietly,
         \A k \in FenceToken : del'[k] = del[k] \/ ScanOK(k)',
         \A c \in Call : ClaimSafe(call[c])',
         \A j \in JobId : job'[j].status = "active" /\ job[j].status # "active" =>
           ~Dead(j) /\ ~Gone(job[j].target) /\ job[j].status # "none"
  PROVE  GuardInv'
<1>0. CoordInv /\ GuardInv /\ DeleteInv /\ StoreInv /\ StreamInv
  BY DEF GuardedInv, DeleteInv, CoordInv, GuardInv
<1>1. StreamInv'
  BY <1>0, StreamStays
<1>2. \A k \in FenceToken : ScanOK(k)'
  BY <1>0, ScanStays DEF GuardInv
<1>3. NothingRunsOnDeleted'
  BY <1>0, RunsStayOnTargets DEF GuardInv
<1> QED
  BY <1>1, <1>2, <1>3 DEF GuardInv

\* Without the removal of a row no target goes.
LEMMA NoneGoes ==
  ASSUME Lapses, \A t \in Target : row'[t] = "deleted" => row[t] = "deleted"
  PROVE  GoneQuietly
  BY DEF GoneQuietly, Gone, Lapses

LEMMA ServiceGuard ==
  ASSUME GuardedInv, ServiceStep, UNCHANGED del, Lapses
  PROVE  GuardInv'
<1>0. CoordInv /\ GuardInv /\ CallInv
  BY DEF GuardedInv, DeleteInv, CoordInv
<1>1. [Next]_storeVars
  BY <1>0, ServiceStepKeeps
<1>2. CASE \E c \in Call : CallStep(c)
  <2>1. PICK c \in Call : CallStep(c)
    BY <1>2
  <2>2. GoneQuietly
    BY <2>1, RowsKept, NoneGoes
  <2>3. \A d \in Call : ClaimSafe(call[d])'
    BY <2>1, <2>2, CallsStaySafe
  <2>4. ASSUME NEW j \in JobId, job'[j].status = "active", job[j].status # "active"
        PROVE  ~Dead(j) /\ ~Gone(job[j].target) /\ job[j].status # "none"
    <3>1. /\ call[c].op = "claim" /\ call[c].at = "claim" /\ call[c].req.job = j
          /\ call[c].job.target = job[j].target /\ ~Dead(j)
      BY <1>0, <2>1, <2>4, OnlyClaimsActivate DEF Waits
    <3>2. ClaimSafe(call[c])
      BY <1>0 DEF GuardInv
    <3> QED
      BY <3>1, <3>2 DEF ClaimSafe
  <2> QED
    BY <1>1, <2>2, <2>3, <2>4, GuardStays
<1>3. ASSUME UNCHANGED storeVars, \A t \in Target : row'[t] = "deleted" => row[t] = "deleted",
             \A c \in Call : ClaimSafe(call[c])' \/ call'[c] = call[c]
      PROVE  GuardInv'
  <2>1. GoneQuietly
    BY <1>3, NoneGoes
  <2>2. \A c \in Call : ClaimSafe(call[c])'
    BY <1>0, <1>1, <1>3, <2>1, SafeStays DEF GuardInv
  <2>3. job' = job
    BY <1>3 DEF storeVars
  <2> QED
    BY <1>1, <2>1, <2>2, <2>3, GuardStays
<1>4. ASSUME NEW c \in Call, NEW new, call' = [call EXCEPT ![c] = new],
             new.at \in {"idle", "begin"}, UNCHANGED <<storeVars, row>>
      PROVE  GuardInv'
  <2>1. call'[c] = new /\ \A d \in Call : d # c => call'[d] = call[d]
    BY <1>0, <1>4 DEF CallInv
  <2>2. ClaimSafe(call[c])'
    BY <1>4, <2>1 DEF ClaimSafe
  <2> QED
    BY <1>3, <1>4, <2>1, <2>2
<1>5. ASSUME NEW c \in Call, CallLost(c) \/ Return(c) PROVE GuardInv'
  <2>1. call' = [call EXCEPT ![c] = NoCall] /\ UNCHANGED <<storeVars, row>>
    BY <1>5 DEF CallLost, Return
  <2> QED
    BY <1>4, <2>1, NoCallRow
<1>6. ASSUME NEW c \in Call, NEW op \in Op, Invoke(c, op) PROVE GuardInv'
  <2>1. PICK q \in Requests(op) :
          call' = [call EXCEPT ![c] = [NoCall EXCEPT !.op = op, !.at = "begin", !.req = q]]
    BY <1>6 DEF Invoke
  <2> DEFINE new == [NoCall EXCEPT !.op = op, !.at = "begin", !.req = q]
  <2>2. new.at = "begin"
    BY NoCallRow DEF CallRow
  <2>3. UNCHANGED <<storeVars, row>>
    BY <1>6 DEF Invoke
  <2>4. call' = [call EXCEPT ![c] = new]
    BY <2>1
  <2> HIDE DEF new
  <2> QED
    BY <1>4, <2>2, <2>3, <2>4
<1>7. ASSUME NEW t \in Target, NEW s \in RowStates, TargetChanges(t, s) PROVE GuardInv'
  <2>1. /\ row' = [row EXCEPT ![t] = s] /\ s # "deleted"
        /\ UNCHANGED storeVars /\ UNCHANGED call
    BY <1>7, StatesAssumption DEF TargetChanges
  <2>2. \A u \in Target : row'[u] = "deleted" => row[u] = "deleted"
    BY <2>1
  <2> QED
    BY <1>3, <2>1, <2>2
<1>8. CASE \E d \in Device, t \in Target, s \in BindingStates : BindingChanges(d, t, s)
  BY <1>3, <1>8 DEF BindingChanges
<1> QED
  BY <1>2, <1>5, <1>6, <1>7, <1>8 DEF ServiceStep

\* Time, a delete that begins and one that dies leave the targets as they are.
LEMMA BesideGuard ==
  ASSUME GuardedInv, [Next]_storeVars, Lapses, UNCHANGED <<job, call, row>>,
         \A k \in FenceToken : del'[k] = del[k] \/ ScanOK(k)'
  PROVE  GuardInv'
<1>0. CoordInv /\ GuardInv
  BY DEF GuardedInv, DeleteInv
<1>1. GoneQuietly
  BY NoneGoes
<1>2. \A c \in Call : ClaimSafe(call[c])'
  BY <1>0, <1>1, SafeStays DEF GuardInv
<1> QED
  BY <1>1, <1>2, GuardStays

(***************************************************************************)
(* A delete's own steps leave the jobs alone.                              *)
(***************************************************************************)
OnlyDelete(k) == \A q \in FenceToken : q # k => del'[q] = del[q]

LEMMA DelFields ==
  ASSUME DelInv, NEW k \in FenceToken, NEW new, del' = [del EXCEPT ![k] = new]
  PROVE  OnlyDelete(k) /\ del'[k] = new
  BY DEF DelInv, OnlyDelete

LEMMA ProceedsFields ==
  ASSUME DelInv, NEW k \in FenceToken, NEW pc, Proceeds(k, pc)
  PROVE  /\ OnlyDelete(k) /\ del'[k].at = pc
         /\ del'[k].target = del[k].target /\ del'[k].cursor = del[k].cursor
         /\ del'[k].upTo = del[k].upTo /\ del'[k].last = del[k].last
         /\ del'[k].blocked = del[k].blocked
<1> DEFINE new == [del[k] EXCEPT !.at = pc]
<1>1. DelShape(del[k])
  BY DEF DelInv, DelRowOK
<1>2. /\ new.at = pc /\ new.target = del[k].target /\ new.cursor = del[k].cursor
      /\ new.upTo = del[k].upTo /\ new.last = del[k].last /\ new.blocked = del[k].blocked
  BY <1>1 DEF DelShape
<1>3. del' = [del EXCEPT ![k] = new]
  BY DEF Proceeds
<1> HIDE DEF new
<1> QED
  BY <1>2, <1>3, DelFields

LEMMA EndsFields ==
  ASSUME DelInv, NEW k \in FenceToken, NEW outcome, Ends(k, outcome)
  PROVE  OnlyDelete(k) /\ ScanOK(k)'
<1> DEFINE new == [NoDelete EXCEPT !.at = "done", !.outcome = outcome]
<1>1. new.at = "done" /\ new.blocked = FALSE /\ new.last = FALSE
  BY DEF NoDelete
<1>2. del' = [del EXCEPT ![k] = new]
  BY DEF Ends
<1> HIDE DEF new
<1>3. OnlyDelete(k) /\ del'[k] = new
  BY <1>2, DelFields
<1> QED
  BY <1>1, <1>3 DEF ScanOK, ScanShape, BeforeScan, Guarded

LEMMA OwnFence ==
  ASSUME Lapses, NEW k \in FenceToken, ScanShape(del[k])',
         del'[k].at \in Guarded /\ k \notin lapsed => ScanKnows(del[k])'
  PROVE  ScanOK(k)'
  BY DEF Lapses, ScanOK, Guarded, Armed

LEMMA DeleteScan ==
  ASSUME GuardedInv, NEW k \in FenceToken, DeleteStep(k), Lapses, ~DeleteRow(k)
  PROVE  OnlyDelete(k) /\ ScanOK(k)' /\ UNCHANGED <<job, call, row>>
<1> DEFINE d == del[k]
<1>0. /\ DelInv /\ ScanOK(k) /\ ScanShape(d) /\ DelRowOK(d) /\ Len(stream) \in Nat
      /\ \A i \in 1..Len(stream) : stream[i] \in JobId
  BY DEF GuardedInv, DeleteInv, GuardInv, ScanOK, DelInv, CoordInv, StoreInv, TypeOK
<1>a. d.at \in Guarded /\ k \notin lapsed => ScanKnows(d)
  BY <1>0 DEF ScanOK
<1>b. ASSUME UNCHANGED storeVars \/ (\E t : FenceStep(t)) \/ (\E t, S : ZRemTargetQueue(t, S))
      PROVE  UNCHANGED <<job, stream, expired>>
  BY <1>b DEF storeVars, FenceStep, FenceGoesStale, FenceExpires, DeleteFenceKey,
     AcquireTargetDeleteFence, TakeoverStaleTargetDeleteFence, TouchTargetDeleteFence,
     ZRemTargetQueue
<1>c. ASSUME NEW pc \in BeforeScan, Proceeds(k, pc), d.at \in BeforeScan
      PROVE  OnlyDelete(k) /\ ScanOK(k)'
  BY <1>0, <1>c, ProceedsFields DEF ScanOK, ScanShape, BeforeScan, Guarded
<1>d. ASSUME NEW pc \in {"release", "unfence"}, Proceeds(k, pc)
      PROVE  OnlyDelete(k) /\ ScanOK(k)'
  BY <1>0, <1>d, ProceedsFields DEF ScanOK, ScanShape, BeforeScan, Guarded
<1>e. ASSUME UNCHANGED <<job, stream, expired>>, Proceeds(k, "scan"),
             d.cursor \in Nat, d.cursor <= Len(stream),
             d.at \in Guarded \/ d.cursor = 0
      PROVE  OnlyDelete(k) /\ ScanOK(k)'
  <2>1. /\ OnlyDelete(k) /\ del'[k].at = "scan" /\ del'[k].target = d.target
        /\ del'[k].cursor = d.cursor /\ del'[k].last = d.last /\ del'[k].blocked = d.blocked
    BY <1>0, <1>e, ProceedsFields
  <2>2. ScanShape(del[k])'
    BY <1>0, <1>e, <2>1 DEF ScanShape, BeforeScan, Guarded
  <2>3. k \notin lapsed => ScanKnows(del[k])'
    <3>1. d.cursor = 0 => QuietUpTo(d.target, d.cursor)
      BY DEF QuietUpTo
    <3>2. k \notin lapsed /\ ~d.blocked => QuietUpTo(d.target, d.cursor)
      BY <1>a, <1>e, <3>1 DEF ScanKnows
    <3> QED
      BY <1>e, <2>1, <3>2 DEF ScanKnows, QuietUpTo, Dead
  <2> QED
    BY <2>1, <2>2, <2>3, OwnFence
<1>f. ASSUME NEW pc \in {"prune", "delete"}, Proceeds(k, pc), d.at \in Guarded,
             UNCHANGED <<job, stream, expired>>, pc = "delete" => ~d.blocked,
             k \notin lapsed => NoneAfter(d.target, d.cursor)
      PROVE  OnlyDelete(k) /\ ScanOK(k)'
  <2>1. /\ OnlyDelete(k) /\ del'[k].at = pc /\ del'[k].target = d.target
        /\ del'[k].cursor = d.cursor /\ del'[k].last = d.last /\ del'[k].blocked = d.blocked
    BY <1>0, <1>f, ProceedsFields
  <2>2. ScanShape(del[k])'
    BY <1>0, <1>f, <2>1 DEF ScanShape, BeforeScan, Guarded
  <2>3. k \notin lapsed => ScanKnows(del[k])'
    BY <1>a, <1>f, <2>1 DEF ScanKnows, QuietUpTo, NoneAfter, Dead
  <2> QED
    BY <2>1, <2>2, <2>3, OwnFence
<1>1. CASE AcquireFence(k)
  <2>1. /\ d.at \in BeforeScan /\ UNCHANGED serviceVars
        /\ \/ (\E t : FenceStep(t)) /\ Proceeds(k, "scan")
           \/ UNCHANGED storeVars /\ (Proceeds(k, "contended") \/ Ends(k, "in_progress"))
    BY <1>1 DEF AcquireFence, FenceStep, BeforeScan
  <2>2. d.cursor = 0
    BY <1>0, <2>1 DEF ScanShape
  <2>3. OnlyDelete(k) /\ ScanOK(k)'
    BY <1>0, <1>b, <1>c, <1>e, <2>1, <2>2, EndsFields DEF BeforeScan
  <2> QED
    BY <1>b, <2>1, <2>3 DEF serviceVars
<1>2. CASE ContendedRow(k) \/ ContendedFence(k)
  <2>1. /\ d.at \in BeforeScan /\ UNCHANGED vars
        /\ (\E pc \in BeforeScan : Proceeds(k, pc)) \/ (\E o : Ends(k, o))
    BY <1>2 DEF ContendedRow, ContendedFence, BeforeScan
  <2> QED
    BY <1>0, <1>c, <2>1, EndsFields DEF vars
<1>3. CASE TakeOverFence(k)
  <2>1. /\ d.at \in BeforeScan /\ UNCHANGED serviceVars
        /\ \/ (\E t : FenceStep(t)) /\ Proceeds(k, "scan")
           \/ UNCHANGED storeVars /\ Proceeds(k, "reacquire")
    BY <1>3 DEF TakeOverFence, FenceStep, BeforeScan
  <2>2. d.cursor = 0
    BY <1>0, <2>1 DEF ScanShape
  <2>3. OnlyDelete(k) /\ ScanOK(k)'
    BY <1>0, <1>b, <1>c, <1>e, <2>1, <2>2 DEF BeforeScan
  <2> QED
    BY <1>b, <2>1, <2>3 DEF serviceVars
<1>6. CASE TouchFence(k)
  <2>1. /\ d.at = "load" /\ d.cursor = d.upTo /\ UNCHANGED serviceVars
        /\ Proceeds(k, IF d.last THEN "prune" ELSE "scan")
        /\ UNCHANGED storeVars \/ \E t : FenceStep(t)
    BY <1>6 DEF TouchFence, FenceStep
  <2>2. UNCHANGED <<job, stream, expired>> /\ d.at \in Guarded
    BY <1>b, <2>1 DEF Guarded
  <2>3. CASE d.last
    <3>1. k \notin lapsed => NoneAfter(d.target, d.cursor)
      BY <1>a, <2>1, <2>2, <2>3 DEF ScanKnows
    <3>2. OnlyDelete(k) /\ ScanOK(k)'
      BY <1>f, <2>1, <2>2, <2>3, <3>1
    <3> QED
      BY <2>1, <2>2, <3>2 DEF serviceVars
  <2>4. CASE ~d.last
    <3>1. OnlyDelete(k) /\ ScanOK(k)'
      BY <1>0, <1>e, <2>1, <2>2, <2>4 DEF ScanShape
    <3> QED
      BY <2>1, <2>2, <3>1 DEF serviceVars
  <2> QED
    BY <2>3, <2>4
<1>7. CASE PruneDead(k)
  <2>1. /\ d.at = "prune" /\ UNCHANGED serviceVars
        /\ Proceeds(k, IF d.blocked THEN "release" ELSE "delete")
        /\ UNCHANGED storeVars \/ \E t, S : ZRemTargetQueue(t, S)
    BY <1>7 DEF PruneDead
  <2>2. UNCHANGED <<job, stream, expired>> /\ d.at \in Guarded
    BY <1>b, <2>1 DEF Guarded
  <2>3. k \notin lapsed => NoneAfter(d.target, d.cursor)
    BY <1>a, <2>1, <2>2 DEF ScanKnows
  <2>4. OnlyDelete(k) /\ ScanOK(k)'
    BY <1>d, <1>f, <2>1, <2>2, <2>3
  <2> QED
    BY <2>1, <2>2, <2>4 DEF serviceVars
<1>8. CASE ReleaseRead(k)
  <2>1. UNCHANGED vars /\ (Proceeds(k, "unfence") \/ \E o : Ends(k, o))
    BY <1>8 DEF ReleaseRead
  <2> QED
    BY <1>0, <1>d, <2>1, EndsFields DEF vars
<1>9. CASE ReleaseFence(k)
  <2>1. /\ UNCHANGED serviceVars /\ \E o : Ends(k, o)
        /\ UNCHANGED storeVars \/ \E t : FenceStep(t)
    BY <1>9 DEF ReleaseFence, FenceStep
  <2> QED
    BY <1>0, <1>b, <2>1, EndsFields DEF serviceVars
<1>4. CASE ScanStream(k)
  <2> DEFINE U == IF d.cursor + ScanBatch < Len(stream) THEN d.cursor + ScanBatch
                  ELSE Len(stream)
             L == U < d.cursor + ScanBatch
             N == IF d.cursor = 0 THEN expired ELSE d.now
  <2>1. /\ d.at = "scan" /\ UNCHANGED vars
        /\ IF U = d.cursor THEN Proceeds(k, "prune")
           ELSE del' = [del EXCEPT ![k].at = "load", ![k].upTo = U, ![k].last = L,
                          ![k].now = IF d.cursor = 0 THEN expired ELSE @]
    BY <1>4 DEF ScanStream
  <2>2. /\ d.cursor \in Nat /\ d.cursor <= Len(stream) /\ ScanBatch \in Nat \ {0}
        /\ d.at \in Guarded
    BY <1>0, <2>1, DeleteAssumption DEF ScanShape, Guarded
  <2>3. /\ U \in Nat /\ d.cursor <= U /\ U <= Len(stream) /\ L \in BOOLEAN
        /\ U = d.cursor \/ L => U = Len(stream)
    BY <1>0, <2>2
  <2>4. U = Len(stream) => NoneAfter(d.target, U)
    BY <1>0 DEF NoneAfter
  <2>5. UNCHANGED <<job, stream, expired, call, row>>
    BY <2>1 DEF vars
  <2> HIDE DEF U, L
  <2>6. CASE U = d.cursor
    BY <1>f, <2>1, <2>2, <2>3, <2>4, <2>5, <2>6
  <2>7. CASE U # d.cursor
    <3> DEFINE new == [d EXCEPT !.at = "load", !.upTo = U, !.last = L, !.now = N]
    <3>1. del' = [del EXCEPT ![k] = new]
      BY <1>0, <2>1, <2>7 DEF DelInv
    <3> HIDE DEF N
    <3>2. /\ new.at = "load" /\ new.target = d.target /\ new.cursor = d.cursor
          /\ new.upTo = U /\ new.last = L /\ new.blocked = d.blocked
      BY <1>0 DEF DelRowOK, DelShape
    <3> HIDE DEF new
    <3>3. OnlyDelete(k) /\ del'[k] = new
      BY <1>0, <3>1, DelFields
    <3>4. ScanShape(del[k])'
      BY <1>0, <2>2, <2>3, <2>5, <3>2, <3>3 DEF ScanShape, BeforeScan, Guarded
    <3>5. k \notin lapsed => ScanKnows(del[k])'
      BY <1>a, <2>2, <2>3, <2>4, <2>5, <3>2, <3>3 DEF ScanKnows, QuietUpTo, NoneAfter, Dead
    <3> QED
      BY <2>5, <3>3, <3>4, <3>5, OwnFence
  <2> QED
    BY <2>6, <2>7
<1>5. CASE LoadJob(k)
  <2> DEFINE j == stream[d.cursor + 1]
             isDead == job[j].target = d.target /\ job[j].status = "queued" /\ j \in d.now
             D == IF isDead THEN d.dead \cup {j} ELSE d.dead
             B == d.blocked \/ (job[j].target = d.target /\ ~isDead
                                  /\ job[j].status # "terminal")
             new == [d EXCEPT !.cursor = d.cursor + 1, !.dead = D, !.blocked = B]
  <2>1. /\ d.at = "load" /\ d.cursor < d.upTo /\ UNCHANGED vars
        /\ del' = [del EXCEPT ![k].cursor = @ + 1,
             ![k].dead = IF isDead THEN @ \cup {j} ELSE @,
             ![k].blocked = @ \/ (job[j].target = d.target /\ ~isDead
                                    /\ job[j].status # "terminal")]
    BY <1>5 DEF LoadJob
  <2>2. /\ d.cursor \in Nat /\ d.upTo \in Nat /\ d.upTo <= Len(stream) /\ d.at \in Guarded
        /\ d.blocked \in BOOLEAN
    BY <1>0, <2>1 DEF ScanShape, Guarded
  <2>3. UNCHANGED <<job, stream, expired, call, row>>
    BY <2>1 DEF vars
  <2>4. del' = [del EXCEPT ![k] = new]
    BY <1>0, <2>1 DEF DelInv
  <2>5. B \in BOOLEAN /\ (~B => ~d.blocked /\ (job[j].target = d.target => Dead(j)))
    BY <1>0, <2>2 DEF DelRowOK, Dead
  <2>6. QuietUpTo(d.target, d.cursor) /\ ~B => QuietUpTo(d.target, d.cursor + 1)
    BY <2>2, <2>5 DEF QuietUpTo
  <2> HIDE DEF D, B
  <2>7. /\ new.at = d.at /\ new.target = d.target /\ new.cursor = d.cursor + 1
        /\ new.upTo = d.upTo /\ new.last = d.last /\ new.blocked = B
    BY <1>0 DEF DelRowOK, DelShape
  <2> HIDE DEF new
  <2>8. OnlyDelete(k) /\ del'[k] = new
    BY <1>0, <2>4, DelFields
  <2>9. ScanShape(del[k])'
    <3>1. /\ del'[k].at = "load" /\ del'[k].cursor = d.cursor + 1 /\ del'[k].upTo = d.upTo
          /\ del'[k].last \in BOOLEAN /\ del'[k].blocked \in BOOLEAN
      BY <1>0, <2>1, <2>5, <2>7, <2>8 DEF ScanShape
    <3>2. d.cursor + 1 \in Nat /\ d.cursor + 1 <= d.upTo /\ d.cursor + 1 <= Len(stream)
      BY <1>0, <2>1, <2>2
    <3> QED
      BY <2>2, <2>3, <3>1, <3>2 DEF ScanShape, BeforeScan, Guarded
  <2>10. k \notin lapsed => ScanKnows(del[k])'
    BY <1>a, <2>1, <2>2, <2>3, <2>5, <2>6, <2>7, <2>8
       DEF ScanKnows, QuietUpTo, NoneAfter, Dead
  <2> QED
    BY <2>3, <2>8, <2>9, <2>10, OwnFence
<1> QED
  BY <1>1, <1>2, <1>3, <1>4, <1>5, <1>6, <1>7, <1>8, <1>9 DEF DeleteStep

(***************************************************************************)
(* The removal of the row.  A delete that has had its fence all along has  *)
(* seen every job of its target dead.                                      *)
(***************************************************************************)
LEMMA RemovedQuietly ==
  ASSUME GuardedInv, NEW k \in FenceToken, DeleteRow(k), k \notin lapsed
  PROVE  Quiet(del[k].target)
<1> DEFINE d == del[k]
<1>1. d.at = "delete" /\ ScanOK(k)
  BY DEF DeleteRow, GuardedInv, GuardInv
<1>2. /\ QuietUpTo(d.target, d.cursor) /\ NoneAfter(d.target, d.cursor)
      /\ d.cursor \in Nat
  BY <1>1 DEF ScanOK, ScanShape, ScanKnows, Guarded
<1>3. ASSUME NEW j \in JobId, job[j].status # "none", job[j].target = d.target
      PROVE  Dead(j)
  <2>1. PICK i \in 1..Len(stream) : stream[i] = j
    BY <1>3 DEF GuardedInv, GuardInv, StreamInv
  <2>2. i \in 1..d.cursor \/ d.cursor < i
    BY <1>2, <2>1 DEF GuardedInv, DeleteInv, CoordInv, StoreInv, TypeOK
  <2> QED
    BY <1>2, <1>3, <2>1, <2>2 DEF QuietUpTo, NoneAfter
<1> QED
  BY <1>3 DEF Quiet

LEMMA RowGuard ==
  ASSUME GuardedInv, NEW k \in FenceToken, DeleteRow(k), Lapses
  PROVE  /\ GuardInv'
         /\ \A t \in Target : row[t] # "deleted" /\ row'[t] = "deleted"
              /\ t \notin unguarded' => Quiet(t)
<1> DEFINE u == del[k].target
<1>0. CoordInv /\ GuardInv /\ DelInv /\ ScanOK(k) /\ DelRowOK(del[k]) /\ del[k].at = "delete"
  BY DEF GuardedInv, DeleteInv, GuardInv, DelInv, DeleteRow
<1>1. \A t \in Target : t # u => row'[t] = row[t]
  BY DEF DeleteRow
<1>2. UNCHANGED storeVars /\ UNCHANGED call /\ job' = job
  BY DEF DeleteRow, storeVars
<1> DEFINE o == IF row[u] = "deleted" THEN "already_deleted" ELSE "deleted"
           new == [del[k] EXCEPT !.at = "release", !.outcome = o]
<1>3. del' = [del EXCEPT ![k] = new]
  BY <1>0 DEF DeleteRow, DelInv
<1> HIDE DEF o
<1>4. new.at = "release" /\ new.last = del[k].last /\ new.blocked = del[k].blocked
  BY <1>0 DEF DelRowOK, DelShape
<1> HIDE DEF new
<1>5. OnlyDelete(k) /\ del'[k] = new
  BY <1>0, <1>3, DelFields
<1>6. ScanOK(k)'
  BY <1>0, <1>4, <1>5 DEF ScanOK, ScanShape, BeforeScan, Guarded
<1>7. row[u] # "deleted" /\ u \in Target /\ u \notin unguarded' => Quiet(u)
  <2>1. CASE k \notin lapsed
    BY <2>1, RemovedQuietly
  <2>2. CASE k \in lapsed
    BY <1>0, <1>4, <1>5, <2>2 DEF Lapses
  <2> QED
    BY <2>1, <2>2
<1>8. \A t \in Target : row[t] # "deleted" /\ row'[t] = "deleted" /\ t \notin unguarded'
        => Quiet(t)
  BY <1>1, <1>7
<1>9. GoneQuietly
  BY <1>8 DEF GoneQuietly, Gone, Lapses
<1>10. [Next]_storeVars
  BY <1>2
<1>11. \A c \in Call : ClaimSafe(call[c])'
  BY <1>0, <1>2, <1>9, <1>10, SafeStays DEF GuardInv
<1>12. GuardInv'
  BY <1>2, <1>5, <1>6, <1>9, <1>10, <1>11, GuardStays DEF OnlyDelete
<1> QED
  BY <1>8, <1>12

LEMMA GuardNextKeeps == GuardedInv /\ [DeleteNext]_allVars => GuardedInv'
<1> SUFFICES ASSUME GuardedInv, [DeleteNext]_allVars PROVE GuardedInv'
  OBVIOUS
<1>0. DeleteInv' /\ [Next]_storeVars /\ DelInv /\ DeleteInv
  BY DeleteNextKeeps DEF GuardedInv, DeleteInv
<1>1. CASE UNCHANGED allVars
  <2>1. GuardInv
    BY DEF GuardedInv
  <2>2. UNCHANGED <<job, stream, expired, fence, call, row, del, lapsed, unguarded>>
    BY <1>1 DEF allVars
  <2>3. GuardInv'
    BY <2>1, <2>2 DEF GuardInv, StreamInv, ScanOK, ScanShape, ScanKnows, QuietUpTo, NoneAfter,
       ClaimSafe, Gone, Dead, NothingRunsOnDeleted
  <2> QED
    BY <1>0, <2>3 DEF GuardedInv
<1>2. ASSUME DeleteNext PROVE GuardInv'
  <2>0. Lapses
    BY <1>2 DEF DeleteNext
  <2>1. CASE ServiceStep /\ UNCHANGED del
    BY <2>0, <2>1, ServiceGuard
  <2>2. ASSUME NEW k \in FenceToken, DeleteStep(k) PROVE GuardInv'
    <3>1. CASE DeleteRow(k)
      BY <2>0, <3>1, RowGuard
    <3>2. CASE ~DeleteRow(k)
      BY <1>0, <2>0, <2>2, <3>2, DeleteScan, BesideGuard DEF OnlyDelete
    <3> QED
      BY <3>1, <3>2
  <2>3. ASSUME NEW k \in FenceToken, DeleteDies(k) PROVE GuardInv'
    <3>1. UNCHANGED <<job, call, row>> /\ Ends(k, "died")
      BY <2>3 DEF DeleteDies, vars
    <3>2. OnlyDelete(k) /\ ScanOK(k)'
      BY <1>0, <3>1, EndsFields
    <3> QED
      BY <1>0, <2>0, <3>1, <3>2, BesideGuard DEF OnlyDelete
  <2>4. ASSUME NEW k \in FenceToken, NEW t \in Target, BeginDelete(k, t) PROVE GuardInv'
    <3> DEFINE new == [del[k] EXCEPT !.at = "acquire", !.target = t]
    <3>1. UNCHANGED <<job, call, row>> /\ del[k].at = "idle"
      BY <2>4 DEF BeginDelete, vars
    <3>2. DelRowOK(del[k]) /\ ScanShape(del[k])
      BY <1>0 DEF DelInv, GuardedInv, GuardInv, ScanOK
    <3>3. del' = [del EXCEPT ![k] = new]
      <4>1. del' = [del EXCEPT ![k].at = "acquire", ![k].target = t]
        BY <2>4 DEF BeginDelete
      <4> QED
        BY <1>0, <4>1 DEF DelInv
    <3>4. /\ new.at = "acquire" /\ new.cursor = del[k].cursor /\ new.last = del[k].last
          /\ new.blocked = del[k].blocked
      BY <3>2 DEF DelRowOK, DelShape
    <3> HIDE DEF new
    <3>5. OnlyDelete(k) /\ del'[k] = new
      BY <1>0, <3>3, DelFields
    <3>6. ScanOK(k)'
      BY <3>1, <3>2, <3>4, <3>5 DEF ScanOK, ScanShape, BeforeScan, Guarded
    <3> QED
      BY <1>0, <2>0, <3>1, <3>5, <3>6, BesideGuard DEF OnlyDelete
  <2>5. ASSUME NEW t \in Target, FenceAges(t) PROVE GuardInv'
    <3>1. UNCHANGED <<job, call, row, del>>
      BY <2>5 DEF FenceAges, FenceGoesStale, FenceExpires, serviceVars
    <3> QED
      BY <1>0, <2>0, <3>1, BesideGuard
  <2>6. ASSUME NEW j \in JobId, DeadlinePasses(j) PROVE GuardInv'
    <3>1. UNCHANGED <<job, call, row, del>>
      BY <2>6 DEF DeadlinePasses, ClaimDeadlinePasses, serviceVars
    <3> QED
      BY <1>0, <2>0, <3>1, BesideGuard
  <2> QED
    BY <1>2, <2>1, <2>2, <2>3, <2>4, <2>5, <2>6 DEF DeleteNext
<1> QED
  BY <1>0, <1>1, <1>2 DEF GuardedInv

LEMMA GuardedInvInit == DeleteInit => GuardedInv
<1> SUFFICES ASSUME DeleteInit PROVE GuardedInv
  OBVIOUS
<1>1. /\ job = [j \in JobId |-> NoJob] /\ stream = <<>> /\ call = [c \in Call |-> NoCall]
      /\ del = [k \in FenceToken |-> NoDelete]
  BY DEF DeleteInit, CoordInit, Init
<1>2. StreamInv /\ NothingRunsOnDeleted
  BY <1>1, NoJobRecord DEF StreamInv, NothingRunsOnDeleted
<1>3. \A c \in Call : ClaimSafe(call[c])
  BY <1>1, NoCallRow DEF ClaimSafe
<1>4. \A k \in FenceToken : ScanOK(k)
  BY <1>1 DEF ScanOK, ScanShape, NoDelete, BeforeScan, Guarded
<1> QED
  BY <1>2, <1>3, <1>4, DeleteInvInit DEF GuardedInv, GuardInv

(***************************************************************************)
(* What a delete that has its fence knows of its target's jobs stays true  *)
(* beside every call, every other delete and every loss of a fence.        *)
(***************************************************************************)
THEOREM DeleteInvariant == DeleteSpec => []GuardedInv
  BY GuardedInvInit, GuardNextKeeps, PTL DEF DeleteSpec

(***************************************************************************)
(* No device is given work on a project that a delete has removed under    *)
(* its fence, for any number of calls, jobs, projects and deletes.         *)
(***************************************************************************)
THEOREM DeletedStayQuiet == DeleteSpec => []NothingRunsOnDeleted
<1>1. GuardedInv => NothingRunsOnDeleted
  BY DEF GuardedInv, GuardInv
<1> QED
  BY <1>1, DeleteInvariant, PTL

(***************************************************************************)
(* A delete whose fence held from the scan to the removal removes a row    *)
(* only at a moment when the project has no live job, although it read the *)
(* jobs one by one before (verifyTargetQuiescence).                        *)
(***************************************************************************)
THEOREM DeletesAreQuiet == DeleteSpec => DeletesOnlyQuiet
<1> DEFINE A == \A t \in Target :
       row'[t] = "deleted" /\ row[t] # "deleted" /\ t \notin unguarded' => LiveOn(t) = {}
<1>1. ASSUME GuardedInv, [DeleteNext]_allVars PROVE [A]_allVars
  <2>0. CoordInv
    BY <1>1 DEF GuardedInv, DeleteInv
  <2>1. \A t \in Target : Quiet(t) => LiveOn(t) = {}
    BY DEF Quiet, LiveOn, Dead
  <2>2. CASE UNCHANGED allVars
    BY <2>2
  <2>3. ASSUME NEW k \in FenceToken, DeleteRow(k), Lapses PROVE A
    BY <1>1, <2>1, <2>3, RowGuard
  <2>4. CASE \A t \in Target : row'[t] = "deleted" => row[t] = "deleted"
    BY <2>4
  <2>5. CASE DeleteNext
    <3>1. CASE ServiceStep
      <4>1. CASE \E c \in Call : CallStep(c)
        BY <2>4, <4>1, RowsKept
      <4>2. CASE \E c \in Call : CallLost(c) \/ Return(c) \/ \E op \in Op : Invoke(c, op)
        BY <2>4, <4>2 DEF CallLost, Return, Invoke
      <4>3. CASE \E t \in Target, s \in RowStates : TargetChanges(t, s)
        BY <2>4, <4>3, StatesAssumption DEF TargetChanges
      <4>4. CASE \E d \in Device, t \in Target, s \in BindingStates : BindingChanges(d, t, s)
        BY <2>4, <4>4 DEF BindingChanges
      <4> QED
        BY <3>1, <4>1, <4>2, <4>3, <4>4 DEF ServiceStep
    <3>2. ASSUME NEW k \in FenceToken, DeleteStep(k) PROVE A
      <4>1. CASE DeleteRow(k)
        BY <2>3, <2>5, <4>1 DEF DeleteNext
      <4>2. CASE ~DeleteRow(k)
        BY <1>1, <2>4, <2>5, <3>2, <4>2, DeleteScan DEF DeleteNext
      <4> QED
        BY <4>1, <4>2
    <3>3. CASE \/ \E k \in FenceToken : DeleteDies(k) \/ \E t \in Target : BeginDelete(k, t)
               \/ \E t \in Target : FenceAges(t)
               \/ \E j \in JobId : DeadlinePasses(j)
      BY <2>4, <3>3 DEF DeleteDies, BeginDelete, FenceAges, DeadlinePasses, serviceVars, vars
    <3> HIDE DEF A
    <3> QED
      BY <2>5, <3>1, <3>2, <3>3 DEF DeleteNext
  <2> QED
    BY <1>1, <2>2, <2>5
<1>2. DeleteSpec => [][A]_allVars
  BY <1>1, GuardedInvInit, GuardNextKeeps, PTL DEF DeleteSpec
<1> QED
  BY <1>2 DEF DeletesOnlyQuiet
=============================================================================
