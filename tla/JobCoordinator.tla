--------------------------- MODULE JobCoordinator ---------------------------
(***************************************************************************)
(* JobCoordinator of services/server/src/jobs/v2-service.ts: the calls the *)
(* host and the devices make, interleaved at every await.  A call reads    *)
(* the job, later reads the attempt, and later still runs a script on the  *)
(* strength of what it read.  One step is one Redis command or one check   *)
(* of the control database, with the synchronous code that follows it.     *)
(*                                                                         *)
(* A claim, start, report and cancel by one device carry one credential:   *)
(* the device (with its claim token), the job and the attempt id it drew.  *)
(***************************************************************************)
EXTENDS JobStore, Integers

CONSTANTS
  Call,         \* slots for calls in flight
  Op,           \* the operations the clients of an instance invoke
  Submission,   \* the submissions hosts make
  Credential,   \* the credentials devices hold
  MaxRounds,    \* JOB_CANCEL_MAX_RACE_RETRIES
  PollLimit,    \* the limit of a poll
  RowStates,    \* the changes operators make to target rows
  BindingStates \* and to bindings

ASSUME SubmissionAssumption ==
  /\ Submission \subseteq
       [request : RequestId, target : Target, digest : Digest,
        result_target : {"none", "resource"}]
  \* The digest covers the target and the result target.
  /\ \A s1, s2 \in Submission : s1.digest = s2.digest =>
       s1.target = s2.target /\ s1.result_target = s2.result_target

ASSUME CredentialAssumption ==
  Credential \subseteq [device : Device, job : JobId, attempt : AttemptId]

ASSUME StatesAssumption ==
  /\ RowStates \subseteq {"enabled", "disabled"}
  /\ BindingStates \subseteq {"none", "enabled", "disabled"}

\* One round is not enough: JOB_CANCEL_MAX_RACE_RETRIES is 3.
ASSUME RoundsAssumption == MaxRounds \in Nat \ {0, 1} /\ PollLimit \in Nat \ {0}

Operations == {"submit", "poll", "claim", "start", "result", "report", "cancel", "get"}
ASSUME OpAssumption == Op \subseteq Operations

VARIABLES
  call,     \* the calls in flight
  row,      \* execution_targets: each target's row
  binding,  \* device_target_bindings
  ledger    \* transactions of managed results the workspace has committed

serviceVars == <<call, row, binding, ledger>>
vars == <<job, attempt, targetQueue, stream, requestKey, expired, fence,
          call, row, binding, ledger>>

NoAnswer == [code |-> "none", about |-> None]

(***************************************************************************)
(* A call: its operation and request, where it waits, the job and attempt  *)
(* it has read, the cancel round, and for a poll the targets and queue     *)
(* rows still to visit, the row to prune and the jobs to offer.            *)
(***************************************************************************)
NoCall ==
  [op |-> "none", at |-> "idle", req |-> None, job |-> NoJob,
   att |-> NoAttempt, round |-> 0, targets |-> {}, rows |-> {},
   stale |-> None, offers |-> {}, answer |-> NoAnswer]

Answered(rec, code, about) ==
  [NoCall EXCEPT !.op = rec.op, !.at = "answered", !.req = rec.req,
                 !.offers = rec.offers,
                 !.answer = [code |-> code, about |-> about]]

Moves(c, pc) == call' = [call EXCEPT ![c].at = pc]
Reads(c, rec, pc) == call' = [call EXCEPT ![c].at = pc, ![c].job = rec]
Replies(c, code, about) == call' = [call EXCEPT ![c] = Answered(@, code, about)]
Waits(c, op, pc) == call[c].op = op /\ call[c].at = pc

CoordInit ==
  /\ Init
  /\ call = [c \in Call |-> NoCall]
  /\ row = [t \in Target |-> "enabled"]
  /\ binding = [d \in Device, t \in Target |-> "enabled"]
  /\ ledger = {}

-----------------------------------------------------------------------------
(***************************************************************************)
(* The control database.  A revoked device, a disabled owner and a lost    *)
(* membership make a device ineligible as a disabled binding does.         *)
(***************************************************************************)
EligibleUnlessDisabled(d, t) ==            \* mutant
  row[t] # "disabled" /\ binding[d, t] # "disabled"

ResolveEligibleBinding(d, t) == row[t] = "enabled" /\ binding[d, t] = "enabled"

\* assertDeviceTargetAccess: a disabled binding still gives access.
HasTargetAccess(d, t) == binding[d, t] # "none"

\* disableExecutionTarget, enableExecutionTarget
TargetChanges(t, state) ==
  /\ row[t] \notin {"deleted", state}
  /\ row' = [row EXCEPT ![t] = state]
  /\ UNCHANGED <<storeVars, call, binding, ledger>>

BindingChanges(d, t, state) ==
  /\ row[t] # "deleted" /\ binding[d, t] # state
  /\ binding' = [binding EXCEPT ![<<d, t>>] = state]
  /\ UNCHANGED <<storeVars, call, row, ledger>>

-----------------------------------------------------------------------------
(***************************************************************************)
(* parseAttemptRecordV1 refuses a result on an attempt that is only        *)
(* claimed, and on a finished one whose task was never dispatched.         *)
(***************************************************************************)
Parses(att) ==
  att.result # None =>
    \/ att.phase = "running"
    \/ att.phase = "terminal" /\ att.report.task_dispatched

\* deriveHostJobState
HostState(rec, att, isExpired) ==
  CASE rec.status = "queued" -> IF isExpired THEN "expired" ELSE "queued"
    [] rec.status = "active" /\ att.phase \in {"claimed", "running"} -> att.phase
    [] rec.status = "terminal" /\ rec.latest = None /\ rec.cancel # None -> "terminal"
    [] rec.status = "terminal" /\ att.phase = "terminal" -> "terminal"
    [] OTHER -> "CORRUPT_JOB_STATE"

\* jobExecutionStatusView
ExecutionStatusView(rec, att) ==
  IF att.report # None THEN att.report.execution_status
  ELSE IF rec.cancel # None THEN "CANCELLED" ELSE None

-----------------------------------------------------------------------------
\* submit
SubmitLookup(c) ==
  /\ Waits(c, "submit", "begin")
  /\ Moves(c, IF requestKey[call[c].req.request] = None THEN "authorize" ELSE "existing")
  /\ UNCHANGED <<storeVars, row, binding, ledger>>

SubmitReadExistingBlind(c) ==              \* mutant
  LET s == call[c].req  j == requestKey[s.request] IN
  /\ Waits(c, "submit", "existing")
  /\ Replies(c, "replayed", j)
  /\ UNCHANGED <<storeVars, row, binding, ledger>>

\* Both idempotency paths read the job the request key names.
SubmitReadExisting(c) ==
  LET s == call[c].req  j == requestKey[s.request] IN
  /\ Waits(c, "submit", "existing")
  /\ IF job[j].digest = s.digest THEN Replies(c, "replayed", j)
     ELSE Replies(c, "IDEMPOTENCY_CONFLICT", None)
  /\ UNCHANGED <<storeVars, row, binding, ledger>>

SubmitAuthorize(c) ==
  LET t == call[c].req.target IN
  /\ Waits(c, "submit", "authorize")
  /\ CASE row[t] = "deleted" -> Replies(c, "TARGET_NOT_FOUND", None)
       [] row[t] = "disabled" -> Replies(c, "TARGET_DISABLED", None)
       [] OTHER -> Moves(c, "create")
  /\ UNCHANGED <<storeVars, row, binding, ledger>>

SubmitCreate(c) ==
  LET s == call[c].req IN
  /\ Waits(c, "submit", "create")
  /\ \/ /\ \E j \in JobId :
             /\ CreateJob(s.request, j, s.target, s.digest, s.result_target)
             /\ Replies(c, "created", j)
     \/ /\ requestKey[s.request] # None
        /\ Moves(c, "existing")
        /\ UNCHANGED storeVars
     \/ /\ requestKey[s.request] = None /\ fence[s.target].fresh
        /\ Replies(c, "TARGET_DELETE_FENCED", None)
        /\ UNCHANGED storeVars
  /\ UNCHANGED <<row, binding, ledger>>

-----------------------------------------------------------------------------
\* getPendingJobs
PollTargets(c) ==
  /\ Waits(c, "poll", "begin")
  /\ call' = [call EXCEPT ![c].at = "queues", ![c].targets =
       {t \in Target : ResolveEligibleBinding(call[c].req.device, t)}]
  /\ UNCHANGED <<storeVars, row, binding, ledger>>

\* At most PollLimit rows of each queue are read.
PollRows(t) ==
  {S \in SUBSET targetQueue[t] :
     Cardinality(S) = PollLimit \/ (Cardinality(S) < PollLimit /\ S = targetQueue[t])}

PollQueue(c) ==
  /\ Waits(c, "poll", "queues")
  /\ IF call[c].targets = {} THEN Moves(c, "jobs")
     ELSE \E t \in call[c].targets : \E S \in PollRows(t) :
            call' = [call EXCEPT ![c].targets = @ \ {t},
              ![c].rows = @ \cup {[target |-> t, job |-> j] : j \in S}]
  /\ UNCHANGED <<storeVars, row, binding, ledger>>

PollPrunesMissingOffers(c) ==              \* mutant
  /\ Waits(c, "poll", "jobs")
  /\ IF call[c].rows = {} \/ Cardinality(call[c].offers) >= PollLimit
     THEN Replies(c, "ok", None)
     ELSE \E r \in call[c].rows :
            call' = [call EXCEPT ![c].at = "prune", ![c].stale = r]
  /\ UNCHANGED <<storeVars, row, binding, ledger>>

\* The stale rows are pruned, the others offered.
PollJob(c) ==
  /\ Waits(c, "poll", "jobs")
  /\ IF call[c].rows = {} \/ Cardinality(call[c].offers) >= PollLimit
     THEN Replies(c, "ok", None)
     ELSE \E r \in call[c].rows :
       IF job[r.job].status # "queued" \/ r.job \in expired
       THEN call' = [call EXCEPT ![c].at = "prune", ![c].stale = r]
       ELSE call' = [call EXCEPT ![c].rows = @ \ {r}, ![c].offers = @ \cup {r.job}]
  /\ UNCHANGED <<storeVars, row, binding, ledger>>

Pruned(rec) == [rec EXCEPT !.at = "jobs", !.stale = None, !.rows = @ \ {rec.stale}]

PollPruneRetries(c) ==                     \* mutant
  /\ Waits(c, "poll", "prune")
  /\ \/ /\ ZRemTargetQueue(call[c].stale.target, {call[c].stale.job})
        /\ call' = [call EXCEPT ![c] = Pruned(@)]
     \/ Moves(c, "jobs") /\ UNCHANGED storeVars
  /\ UNCHANGED <<row, binding, ledger>>

\* A prune that fails is ignored.
PollPrune(c) ==
  /\ Waits(c, "poll", "prune")
  /\ \/ ZRemTargetQueue(call[c].stale.target, {call[c].stale.job})
     \/ UNCHANGED storeVars
  /\ call' = [call EXCEPT ![c] = Pruned(@)]
  /\ UNCHANGED <<row, binding, ledger>>

-----------------------------------------------------------------------------
\* claimJob
ClaimRead(c) ==
  LET q == call[c].req  rec == job[q.job] IN
  /\ Waits(c, "claim", "begin")
  /\ IF rec.status = "none" THEN Replies(c, "JOB_NOT_FOUND", None)
     ELSE IF rec.latest = q.attempt THEN Reads(c, rec, "replay")
     ELSE Reads(c, rec, "authorize")
  /\ UNCHANGED <<storeVars, row, binding, ledger>>

ClaimAuthorize(c) ==
  /\ Waits(c, "claim", "authorize")
  /\ IF ResolveEligibleBinding(call[c].req.device, call[c].job.target)
     THEN Moves(c, "claim") ELSE Replies(c, "JOB_NOT_FOUND", None)
  /\ UNCHANGED <<storeVars, row, binding, ledger>>

\* The replies of the claim script that change nothing.
ClaimRefusal(q, t) ==
  IF fence[t].fresh THEN "TARGET_DELETE_FENCED"
  ELSE IF job[q.job].latest = q.attempt /\ ~Parses(attempt[q.attempt])
    THEN "CORRUPT_ATTEMPT_RECORD"
  ELSE IF job[q.job].latest = q.attempt THEN "JOB_FINISHED"
  ELSE IF job[q.job].status # "queued" THEN "JOB_ALREADY_CLAIMED"
  ELSE "IDEMPOTENCY_CONFLICT"

ClaimReplay(c) ==
  LET q == call[c].req IN
  /\ call[c].op = "claim" /\ call[c].at \in {"replay", "claim"}
  /\ ClaimReplays(q.job, call[c].job.target, q.device, q.attempt)
  /\ Parses(attempt[q.attempt])
  /\ Replies(c, "replayed", attempt[q.attempt].phase)
  /\ UNCHANGED <<storeVars, row, binding, ledger>>

ClaimOwn(c) ==
  LET q == call[c].req IN
  /\ Waits(c, "claim", "claim")
  /\ \/ /\ ClaimJob(q.job, call[c].job.target, q.device, q.attempt)
        /\ Replies(c, "claimed", "claimed")
     \/ /\ ClaimTooLate(q.job, call[c].job.target, q.attempt)
        /\ Replies(c, "JOB_EXPIRED", None)
  /\ UNCHANGED <<row, binding, ledger>>

ClaimRefused(c) ==
  LET q == call[c].req  t == call[c].job.target IN
  /\ call[c].op = "claim" /\ call[c].at \in {"replay", "claim"}
  /\ ~(ClaimReplays(q.job, t, q.device, q.attempt) /\ Parses(attempt[q.attempt]))
  /\ ~(ClaimMayOwn(q.job, t, q.attempt)
         /\ (q.job \in expired \/ attempt[q.attempt].phase = "none"))
  /\ Replies(c, ClaimRefusal(q, t), None)
  /\ UNCHANGED <<storeVars, row, binding, ledger>>

-----------------------------------------------------------------------------
\* startJob
StartCall(c) ==
  LET q == call[c].req IN
  /\ Waits(c, "start", "begin")
  /\ \/ StartJob(q.job, q.attempt, q.device) /\ Replies(c, "started", None)
     \/ /\ ~(job[q.job].status = "active" /\ Owns(q.device, q.job, q.attempt)
               /\ attempt[q.attempt].phase = "claimed")
        /\ Replies(c, IF job[q.job].status = "active"
                           /\ Owns(q.device, q.job, q.attempt)
                      THEN "replayed" ELSE "REFUSED", None)
        /\ UNCHANGED storeVars
  /\ UNCHANGED <<row, binding, ledger>>

-----------------------------------------------------------------------------
\* submitJobResult
ResultReadJob(c) ==
  LET rec == job[call[c].req.job] IN
  /\ Waits(c, "result", "begin")
  /\ IF rec.status # "none" /\ rec.result_target = "resource"
     THEN Reads(c, rec, "attempt") ELSE Replies(c, "REFUSED", None)
  /\ UNCHANGED <<storeVars, row, binding, ledger>>

ResultReadAttempt(c) ==
  LET q == call[c].req  att == attempt[q.attempt] IN
  /\ Waits(c, "result", "attempt")
  /\ IF att.phase = "none" \/ att.job # q.job \/ att.device # q.device
       THEN Replies(c, "REFUSED", None)
     ELSE IF ~Parses(att) THEN Replies(c, "CORRUPT_ATTEMPT_RECORD", None)
     ELSE IF att.result = q.payload THEN Replies(c, "replayed", q.payload)
     ELSE IF att.result # None /\ q.mode = "automatic"
       THEN Replies(c, "STALE_RESULT_SUBMISSION", None)
     ELSE Moves(c, "apply")
  /\ UNCHANGED <<storeVars, row, binding, ledger>>

ResultApplyInBackground(c) ==              \* mutant
  Waits(c, "result", "apply") /\ Moves(c, "record")
    /\ UNCHANGED <<storeVars, row, binding, ledger>>

\* applyManagedJobResult: the transaction id is drawn from attempt and payload,
\* so a second application finds the first and changes nothing.
ResultApply(c) ==
  LET q == call[c].req IN
  /\ Waits(c, "result", "apply")
  /\ ledger' = ledger \cup {[attempt |-> q.attempt, payload |-> q.payload]}
  /\ Moves(c, "record")
  /\ UNCHANGED <<storeVars, row, binding>>

ResultRecord(c) ==
  LET q == call[c].req IN
  /\ Waits(c, "result", "record")
  /\ \/ /\ RecordJobResult(q.job, q.attempt, q.device, q.payload, q.mode)
        /\ Replies(c, "recorded", q.payload)
     \/ /\ RecordReplays(q.job, q.attempt, q.device, q.payload)
        /\ Replies(c, "replayed", q.payload)
        /\ UNCHANGED storeVars
     \/ /\ attempt[q.attempt].result \notin {None, q.payload} /\ q.mode = "automatic"
        /\ Replies(c, "STALE_RESULT_SUBMISSION", None)
        /\ UNCHANGED storeVars
  /\ UNCHANGED <<row, binding, ledger>>

-----------------------------------------------------------------------------
\* reportJob
NeedsResult(rec, rep) ==
  rec.result_target = "resource" /\ rep.execution_status = "COMPLETED"

ReportReadJob(c) ==
  LET q == call[c].req  rec == job[q.job] IN
  /\ Waits(c, "report", "begin")
  /\ IF rec.status = "none" THEN Replies(c, "JOB_NOT_FOUND", None)
     ELSE IF NeedsResult(rec, q.report) THEN Reads(c, rec, "attempt")
     ELSE Reads(c, rec, "report")
  /\ UNCHANGED <<storeVars, row, binding, ledger>>

ReportReadAttempt(c) ==
  LET att == attempt[call[c].req.attempt] IN
  /\ Waits(c, "report", "attempt")
  /\ IF ~Parses(att) THEN Replies(c, "CORRUPT_ATTEMPT_RECORD", None)
     ELSE IF att.result = None THEN Replies(c, "RESULT_REQUIRED", None)
     ELSE Moves(c, "report")
  /\ UNCHANGED <<storeVars, row, binding, ledger>>

ReportCall(c) ==
  LET q == call[c].req IN
  /\ Waits(c, "report", "report")
  /\ \/ ReportJob(q.job, q.attempt, q.device, q.report) /\ Replies(c, "reported", None)
     \/ /\ ReportReplays(q.job, q.attempt, q.device, q.report)
        /\ Replies(c, "replayed", None)
        /\ UNCHANGED storeVars
     \/ /\ ~ReportAccepts(q.job, q.attempt, q.device, q.report)
        /\ ~ReportReplays(q.job, q.attempt, q.device, q.report)
        /\ Replies(c, "REFUSED", None)
        /\ UNCHANGED storeVars
  /\ UNCHANGED <<row, binding, ledger>>

-----------------------------------------------------------------------------
\* cancelJobForDevice
CancelReadJob(c) ==
  LET q == call[c].req  rec == job[q.job] IN
  /\ Waits(c, "cancel", "begin")
  /\ IF rec.status = "none" \/ ~HasTargetAccess(q.device, rec.target)
     THEN Replies(c, "JOB_NOT_FOUND", None)
     ELSE Reads(c, rec, "attempt")
  /\ UNCHANGED <<storeVars, row, binding, ledger>>

\* The attempt the job named when it was read, NoAttempt if it named none.
NamedAttempt(rec) == IF rec.latest = None THEN NoAttempt ELSE attempt[rec.latest]

CancelReadAttempt(c) ==
  LET rec == call[c].job
      att == NamedAttempt(rec)
      state == HostState(rec, att, call[c].req.job \in expired)
      status == ExecutionStatusView(rec, att)
  IN
  /\ Waits(c, "cancel", "attempt")
  /\ IF ~Parses(att) THEN Replies(c, "CORRUPT_ATTEMPT_RECORD", None)
     ELSE IF state = "CORRUPT_JOB_STATE" THEN Replies(c, state, None)
     ELSE IF state = "terminal"
       THEN Replies(c, IF status = "CANCELLED" THEN "already_cancelled"
                       ELSE "already_terminal", status)
     ELSE Moves(c, "cancel")
  /\ UNCHANGED <<storeVars, row, binding, ledger>>

(***************************************************************************)
(* The script reads the attempt key the caller named, the key "none" when  *)
(* it named none, and the caller maps every outcome but "cancelled" to     *)
(* "already_cancelled".                                                    *)
(***************************************************************************)
CancelOutcome(j, expected) ==
  LET rec == job[j] IN
  IF rec.status = "terminal" /\ rec.latest = None THEN "already_cancelled"
  ELSE IF rec.status = "terminal" /\ expected = None THEN "CORRUPT_ATTEMPT_RECORD"
  ELSE IF rec.status = "terminal" THEN "already_cancelled"
  ELSE "CANCEL_RACE"

CancelCall(c) ==
  LET q == call[c].req  expected == call[c].job.latest IN
  /\ Waits(c, "cancel", "cancel")
  /\ \/ /\ CancelQueued(q.job, expected, q.device)
        /\ Replies(c, "cancelled", "CANCELLED")
     \/ /\ expected # None
        /\ CancelActive(q.job, expected, q.device)
        /\ Replies(c, "cancelled", "CANCELLED")
     \/ /\ job[q.job].status = "terminal"
        /\ Replies(c, CancelOutcome(q.job, expected),
                   IF CancelOutcome(q.job, expected) = "already_cancelled"
                   THEN ExecutionStatusView(job[q.job], NamedAttempt(job[q.job]))
                   ELSE None)
        /\ UNCHANGED storeVars
  /\ UNCHANGED <<row, binding, ledger>>

CancelKeepsFirstRead(c) ==                 \* mutant
  /\ Waits(c, "cancel", "cancel")
  /\ job[call[c].req.job].status # "terminal"
  /\ job[call[c].req.job].latest # call[c].job.latest
  /\ IF call[c].round + 1 < MaxRounds
     THEN call' = [call EXCEPT ![c].round = @ + 1]
     ELSE Replies(c, "CANCEL_RACE_EXHAUSTED", None)
  /\ UNCHANGED <<storeVars, row, binding, ledger>>

\* CANCEL_RACE: read the job again, for MaxRounds rounds in all.
CancelRaces(c) ==
  /\ Waits(c, "cancel", "cancel")
  /\ job[call[c].req.job].status # "terminal"
  /\ job[call[c].req.job].latest # call[c].job.latest
  /\ IF call[c].round + 1 < MaxRounds
     THEN call' = [call EXCEPT ![c].at = "begin", ![c].job = NoJob,
                               ![c].round = @ + 1]
     ELSE Replies(c, "CANCEL_RACE_EXHAUSTED", None)
  /\ UNCHANGED <<storeVars, row, binding, ledger>>

-----------------------------------------------------------------------------
\* getJobForHost
GetReadJob(c) ==
  LET rec == job[call[c].req.job] IN
  /\ Waits(c, "get", "begin")
  /\ IF rec.status = "none" THEN Replies(c, "JOB_NOT_FOUND", None)
     ELSE Reads(c, rec, "attempt")
  /\ UNCHANGED <<storeVars, row, binding, ledger>>

GetReadAttempt(c) ==
  LET rec == call[c].job
      att == NamedAttempt(rec)
      state == HostState(rec, att, call[c].req.job \in expired)
  IN
  /\ Waits(c, "get", "attempt")
  /\ IF ~Parses(att) THEN Replies(c, "CORRUPT_ATTEMPT_RECORD", None)
     ELSE IF state = "CORRUPT_JOB_STATE" THEN Replies(c, state, None)
     ELSE Replies(c, "ok", state)
  /\ UNCHANGED <<storeVars, row, binding, ledger>>

-----------------------------------------------------------------------------
Requests(op) ==
  CASE op = "submit" -> Submission
    [] op = "poll" -> [device : Device]
    [] op \in {"claim", "start"} -> Credential
    [] op = "result" ->
         {[device |-> q.device, job |-> q.job, attempt |-> q.attempt,
           payload |-> p, mode |-> m] : q \in Credential, p \in Payload,
           m \in {"automatic", "explicit_redelivery"}}
    [] op = "report" ->
         {[device |-> q.device, job |-> q.job, attempt |-> q.attempt,
           report |-> rep] : q \in Credential, rep \in Report}
    [] op = "cancel" -> [device : Device, job : JobId]
    [] op = "get" -> [job : JobId]

Invoke(c, op) ==
  /\ call[c].at = "idle"
  /\ \E q \in Requests(op) :
       call' = [call EXCEPT ![c] = [NoCall EXCEPT !.op = op, !.at = "begin", !.req = q]]
  /\ UNCHANGED <<storeVars, row, binding, ledger>>

\* The client has taken the answer.
Return(c) ==
  /\ call[c].at = "answered"
  /\ call' = [call EXCEPT ![c] = NoCall]
  /\ UNCHANGED <<storeVars, row, binding, ledger>>

\* A Redis or workspace error, or the end of the process, ends the call.
CallLost(c) ==
  /\ call[c].at \notin {"idle", "answered"}
  /\ call' = [call EXCEPT ![c] = NoCall]
  /\ UNCHANGED <<storeVars, row, binding, ledger>>

CallStep(c) ==
  \/ SubmitLookup(c) \/ SubmitReadExisting(c) \/ SubmitAuthorize(c) \/ SubmitCreate(c)
  \/ PollTargets(c) \/ PollQueue(c) \/ PollJob(c) \/ PollPrune(c)
  \/ ClaimRead(c) \/ ClaimAuthorize(c) \/ ClaimReplay(c) \/ ClaimOwn(c)
  \/ ClaimRefused(c) \/ StartCall(c)
  \/ ResultReadJob(c) \/ ResultReadAttempt(c) \/ ResultApply(c) \/ ResultRecord(c)
  \/ ReportReadJob(c) \/ ReportReadAttempt(c) \/ ReportCall(c)
  \/ CancelReadJob(c) \/ CancelReadAttempt(c) \/ CancelCall(c) \/ CancelRaces(c)
  \/ GetReadJob(c) \/ GetReadAttempt(c)

\* Time.  The deletes that run beside, and their fences, are TargetDelete's.
OutsideStep == (\E j \in JobId : ClaimDeadlinePasses(j)) /\ UNCHANGED serviceVars

ServiceStep ==
  \/ \E c \in Call : CallStep(c) \/ CallLost(c) \/ Return(c)
                       \/ \E op \in Op : Invoke(c, op)
  \/ \E t \in Target, s \in RowStates : TargetChanges(t, s)
  \/ \E d \in Device, t \in Target, s \in BindingStates : BindingChanges(d, t, s)

CoordNext == ServiceStep \/ OutsideStep

CoordSpec == CoordInit /\ [][CoordNext]_vars

\* The event loop resumes every call whose Redis command has answered.
FairCoordSpec == CoordSpec /\ \A c \in Call : WF_vars(CallStep(c))

-----------------------------------------------------------------------------
(***************************************************************************)
(* Whatever the calls had read before, each write they make is one the     *)
(* store's specification allows: no prune drops a claimable job, no claim, *)
(* report or cancel acts on a linkage that has changed.                    *)
(***************************************************************************)
ImplementsStore == Spec

Done(c, op, codes) ==
  call[c].op = op /\ call[c].at = "answered" /\ call[c].answer.code \in codes

(***************************************************************************)
(* submit answers a job that is the caller's own submission, and of all    *)
(* concurrent and retried submissions of a request one creates it.         *)
(***************************************************************************)
SubmitNamesOwnJob ==
  \A c \in Call : Done(c, "submit", {"created", "replayed"}) =>
    LET s == call[c].req  j == call[c].answer.about IN
    /\ job[j].request = s.request /\ job[j].digest = s.digest
    /\ job[j].target = s.target /\ job[j].result_target = s.result_target
    /\ \A o \in Call \ {c} :
         Done(c, "submit", {"created"}) /\ Done(o, "submit", {"created"}) =>
           call[o].answer.about # j

(***************************************************************************)
(* A device that was told it claimed a job owns it, however late the       *)
(* answer: no other device can have been told the same.                    *)
(***************************************************************************)
ClaimAnswersOwnership ==
  \A c \in Call : Done(c, "claim", {"claimed", "replayed"}) =>
    Owns(call[c].req.device, call[c].req.job, call[c].req.attempt)

(***************************************************************************)
(* What a call is told is so, whatever the calls beside it did between its *)
(* reads and its script: submit and claim (createJob, claimJob).           *)
(***************************************************************************)
AnswersHold == SubmitNamesOwnJob /\ ClaimAnswersOwnership

\* A job that must deliver a result is never COMPLETED without one.
CompletedHasResult ==
  \A j \in JobId :
    LET a == job[j].latest IN
    job[j].status = "terminal" /\ job[j].result_target = "resource" /\ a # None
      /\ attempt[a].report.execution_status = "COMPLETED" =>
        attempt[a].result # None

\* A recorded result is one the workspace has committed.
RecordedWasCommitted ==
  \A a \in AttemptId : attempt[a].result # None =>
    [attempt |-> a, payload |-> attempt[a].result] \in ledger

(***************************************************************************)
(* No job counts as completed on the strength of a result that is not in   *)
(* Git, though the call may die between the two: reportJob's check and     *)
(* submitJobResult's transaction both precede the script that counts.      *)
(***************************************************************************)
ResultsAreReal == CompletedHasResult /\ RecordedWasCommitted

\* The cancel loop never gives up with CANCEL_RACE_EXHAUSTED: a job's linkage
\* changes once, so the second read cannot be overtaken again.
CancelNeverExhausted ==
  \A c \in Call : ~Done(c, "cancel", {"CANCEL_RACE_EXHAUSTED"})

\* A cancel that was told "cancelled" stands: the record of the job reads CANCELLED
\* for good.  (Of a late result that cannot be parsed, a Host reads
\* CORRUPT_ATTEMPT_RECORD instead of the record.)
CancelTold ==
  \A c \in Call : Done(c, "cancel", {"cancelled"}) =>
    LET rec == job[call[c].req.job] IN
    /\ HostState(rec, NamedAttempt(rec), FALSE) = "terminal"
    /\ ExecutionStatusView(rec, NamedAttempt(rec)) = "CANCELLED"

(***************************************************************************)
(* However claims, starts and reports overtake it, a cancel is decided in  *)
(* its MaxRounds rounds, and its answer is not undone (cancelJob).         *)
(***************************************************************************)
CancelHolds == CancelNeverExhausted /\ CancelTold

(***************************************************************************)
(* Every call ends: no poll or cancel goes round for ever.                 *)
(***************************************************************************)
CallsEnd ==
  \A c \in Call : call[c].at = "begin" ~> call[c].at \in {"idle", "answered"}
=============================================================================
