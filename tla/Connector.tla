------------------------------ MODULE Connector ------------------------------
(***************************************************************************)
(* One device's connector daemon (connector/src): the durable files it     *)
(* keeps, the job server it talks to, the Orca runtime it drives, and the  *)
(* crashes it must survive.  The server is JobStore, one step per call.    *)
(*                                                                         *)
(* A call and the file write that applies its answer are one step here.    *)
(* What can come between the two is a lost answer or the end of the        *)
(* process, and both are disjuncts: the call took effect and nothing was   *)
(* written.  A sequence of writes is cut short by a crash after any        *)
(* prefix.  Every fault is drawn from a budget.                            *)
(***************************************************************************)
EXTENDS JobStore, Naturals

CONSTANTS
  Self,          \* this device, with its claim tokens
  Faults,        \* how many of each fault: crash, lost, orca
  Executors,     \* "logical": worker-start; "command": a terminal and a send
  ResultTargets, \* the result targets jobs are submitted with
  Receipts,      \* the receipts of the terminal closes of an attempt, in turn
  MayCancel,     \* do operators cancel jobs?
  MayReconcile   \* do project commands converge a cancelled attempt?

\* What the outcome of an attempt may say to the server.
ExecutionReport ==
  [execution_status : {"COMPLETED", "FAILED", "TIMED_OUT", "BLOCKED"},
   task_dispatched  : BOOLEAN,
   receipt          : {"retained"} \cup {Receipts[i] : i \in 1..Len(Receipts)}]

ASSUME ConnectorAssumption ==
  /\ Self \in Device
  /\ Faults \in [{"crash", "lost", "orca"} -> Nat]
  /\ Executors \subseteq {"logical", "command"}
  /\ ResultTargets \subseteq {"none", "resource"}
  /\ Receipts \in Seq(STRING) /\ Len(Receipts) > Faults["crash"]
  /\ ExecutionReport \subseteq Report /\ Payload # {}
  /\ MayCancel \in BOOLEAN /\ MayReconcile \in BOOLEAN

(***************************************************************************)
(* ActiveAttempt with its AttemptExecutorState: "request" and "terminal"   *)
(* say whether dispatch_request_id and terminal_id are set, "turnSent" is  *)
(* dispatch_turn_started, "turnSeen" turn_started_observed, "structured"   *)
(* structured_lifecycle_observed, "last" last_dispatch_outcome.            *)
(***************************************************************************)
AttemptPhase ==
  {"ClaimIntent", "Claimed", "PrepareIntent", "Prepared", "DispatchIntent",
   "Dispatched", "StartIntent", "Started", "Waiting", "OutcomeRecorded",
   "FinalizedLocal", "RecoveryRequired"}

OutcomeKind ==
  {"none", "not_started", "managed_result", "agent_done", "tui_idle",
   "interrupted", "timed_out"}

OutcomeError ==
  {"none", "DISPATCH_REJECTED", "RESULT_MISSING", "TERMINAL_EXITED",
   "EXECUTION_TIMEOUT", "RECOVERY_TERMINALIZED"}

ActiveAttempt ==
  [job : JobId, attempt : AttemptId, phase : AttemptPhase,
   result_target : {"none", "resource"}, deadline : {"unset", "set", "passed"},
   terminal : BOOLEAN, request : BOOLEAN, turnSent : BOOLEAN,
   turnSeen : BOOLEAN, structured : BOOLEAN, sends : 0..2,
   last : {"none", "known_rejected", "ambiguous"},
   kind : OutcomeKind, err : OutcomeError,
   digest : ExecutionReport \cup {None}]

OutboxRecord == [report : ExecutionReport, payload : Payload \cup {None}]

SanitizedHistoryRecord ==
  [status : {"completed", "timed_out", "failed", "cancelled"},
   digest : ExecutionReport \cup {OperatorReport(FALSE)}]

Delivery == [attempt : AttemptId, acked : BOOLEAN, from : {"drive", "flush"}]

ASSUME NoneIsNoFile ==
  None \notin ActiveAttempt \cup OutboxRecord \cup SanitizedHistoryRecord \cup Delivery

VARIABLES
  pc,         \* where the daemon is; "down" while it is not running
  delivery,   \* the outbox record being delivered
  active,     \* active-attempt.json
  outbox,     \* outbox/<job>.<attempt>.json
  history,    \* history/<job>.<attempt>.json
  receipt,    \* results/<job>.<attempt>.receipt.json
  used,       \* attempt ids already drawn
  executor,   \* the executor of the project's configuration
  orca,       \* what really happened in Orca to each attempt
  produced,   \* attempts with a valid managed-result.json, in the worker's
              \* directory or captured: redelivery takes either
  faults      \* the faults still to come

connVars == <<job, attempt, targetQueue, stream, requestKey, expired, fence,
              pc, delivery, active, outbox, history, receipt,
              used, executor, orca, produced, faults>>

NewActive(j, a) ==
  [job |-> j, attempt |-> a, phase |-> "ClaimIntent", result_target |-> "none",
   deadline |-> "unset", terminal |-> FALSE, request |-> FALSE,
   turnSent |-> FALSE, turnSeen |-> FALSE, structured |-> FALSE,
   sends |-> 0, last |-> "none", kind |-> "none", err |-> "none",
   digest |-> None]

\* Orca: the worker-start request, the agent in its terminal, the prompts it
\* accepted, whether its turn began, and the terminal closes so far.
Worker ==
  [request : {"absent", "pending", "completed"},
   agent : {"none", "idle", "working", "done", "gone"}, sent : Nat,
   turn : BOOLEAN, closes : Nat]

NoWorker ==
  [request |-> "absent", agent |-> "none", sent |-> 0, turn |-> FALSE,
   closes |-> 0]

ConnInit ==
  /\ Init
  /\ pc = "down" /\ delivery = None /\ active = None
  /\ outbox = [a \in AttemptId |-> None]
  /\ history = [a \in AttemptId |-> None]
  /\ receipt = {} /\ used = {} /\ produced = {}
  /\ executor \in Executors
  /\ orca = [a \in AttemptId |-> NoWorker]
  /\ faults = Faults

Spend(f) == faults[f] > 0 /\ faults' = [faults EXCEPT ![f] = @ - 1]

-----------------------------------------------------------------------------
\* A drive of the active attempt, and how it ends.
Drives(phase) ==
  /\ pc \in {"boot", "loop"} /\ delivery = None
  /\ active # None /\ active.phase = phase

\* Recovery drives once, flushes once, and enters the loop.
After == CASE pc = "boot" -> "flush" [] pc = "flush" -> "loop" [] OTHER -> pc

Ends == pc' = After
Exits == pc' = "down"
Keeps == UNCHANGED pc

\* Everything a drive that touches only active-attempt.json leaves alone.
OnlyActive ==
  UNCHANGED <<delivery, outbox, history, receipt, used, executor, produced>>

Advances(phase) == active' = [active EXCEPT !.phase = phase]

\* The server's device-scoped read of the job.
ServerCancelled(j) == job[j].status = "terminal" /\ job[j].cancel # None
ServerNames(j, a) == job[j].latest = a

CancelledHistory ==
  [status |-> "cancelled", digest |-> OperatorReport(FALSE)]

(***************************************************************************)
(* finalize_local_operator_cancelled: the history, then the marker.        *)
(***************************************************************************)
FinalizeCancelled ==
  /\ history' = [history EXCEPT ![active.attempt] = CancelledHistory]
  /\ \/ active' = None /\ Ends /\ UNCHANGED faults
     \/ UNCHANGED active /\ Exits /\ Spend("crash")
  /\ UNCHANGED <<delivery, outbox, receipt, used, executor, produced>>

-----------------------------------------------------------------------------
(***************************************************************************)
(* The polling loop.  Results left undelivered go first; then a candidate  *)
(* of the pending list is re-checked under the state lock, and the intent  *)
(* to claim it is on disk before the server hears of it.                   *)
(***************************************************************************)
Idle == pc = "loop" /\ delivery = None /\ active = None
NoOutbox == \A a \in AttemptId : outbox[a] = None

TheResult == CHOOSE p \in Payload : TRUE

UndeliveredNotFinished ==                  \* mutant
  {a \in produced \ receipt : outbox[a] = None /\ history[a] = None}

Undelivered == {a \in produced \ receipt : outbox[a] = None}

\* parseAttemptRecordV1 refuses to read a result back before the task ran.
Readable(a) ==
  attempt[a].result # None =>
    /\ attempt[a].phase # "claimed"
    /\ attempt[a].phase = "terminal" => attempt[a].report.task_dispatched

\* The server holds the result already, or takes it; an error is left for later.
SmartRedeliver(a) ==
  /\ Idle /\ NoOutbox /\ a \in Undelivered
  /\ \/ /\ Readable(a)
        /\ \/ RecordReplays(attempt[a].job, a, Self, TheResult) /\ UNCHANGED storeVars
           \/ RecordJobResult(attempt[a].job, a, Self, TheResult, "automatic")
        /\ \/ receipt' = receipt \cup {a} /\ UNCHANGED <<pc, faults>>
           \/ pc' = "poll" /\ Spend("lost") /\ UNCHANGED receipt
     \/ ~Readable(a) /\ pc' = "poll" /\ UNCHANGED <<storeVars, receipt, faults>>
  /\ UNCHANGED <<delivery, active, outbox, history, used, executor, orca, produced>>

ClaimBeforeIntent(j, a) ==                 \* mutant
  /\ pc = "poll" \/ (Idle /\ NoOutbox /\ Undelivered = {})
  /\ a \notin used
  /\ \E t \in Target : ClaimJob(j, t, Self, a)
  /\ \/ active' = NewActive(j, a) /\ pc' = "loop" /\ UNCHANGED faults
     \/ Exits /\ Spend("crash") /\ UNCHANGED active
  /\ used' = used \cup {a}
  /\ UNCHANGED <<delivery, outbox, history, receipt, executor, orca, produced>>

SaveClaimIntent(j, a) ==
  /\ pc = "poll" \/ (Idle /\ NoOutbox /\ Undelivered = {})
  /\ job[j].status = "queued" /\ j \notin expired
  /\ a \notin used /\ attempt[a].phase = "none"
  /\ active' = NewActive(j, a)
  /\ used' = used \cup {a}
  /\ pc' = "loop"
  /\ UNCHANGED <<storeVars, delivery, outbox, history, receipt, executor, orca,
                 produced, faults>>

\* No candidate, or none that this device may run now: the next iteration.
NothingPending ==
  /\ pc = "poll" \/ (Idle /\ NoOutbox)
  /\ pc' = "loop"
  /\ UNCHANGED <<storeVars, delivery, active, outbox, history, receipt, used,
                 executor, orca, produced, faults>>

-----------------------------------------------------------------------------
(***************************************************************************)
(* ClaimIntent.  A replayed claim answers like the first.  A resource job  *)
(* gets its redelivery metadata before the phase changes.                  *)
(***************************************************************************)
ClaimApplied ==
  \/ /\ active' = [active EXCEPT !.phase = "Claimed",
                     !.result_target = job[active.job].result_target]
     /\ Ends /\ UNCHANGED faults
  \/ UNCHANGED active /\ Ends /\ Spend("lost")
  \/ UNCHANGED active /\ Exits /\ Spend("crash")

ClaimNetwork ==
  LET j == active.job  a == active.attempt  t == job[j].target IN
  /\ Drives("ClaimIntent")
  /\ \/ ClaimJob(j, t, Self, a)
     \/ ClaimReplays(j, t, Self, a) /\ UNCHANGED storeVars
  /\ ClaimApplied
  /\ OnlyActive /\ UNCHANGED orca

\* JOB_ALREADY_CLAIMED, JOB_EXPIRED, JOB_FINISHED: nothing of ours is running.
ClaimIsLost ==
  LET j == active.job  a == active.attempt  t == job[j].target IN
  /\ Drives("ClaimIntent")
  /\ \/ ClaimTooLate(j, t, a)
     \/ /\ job[j].status # "queued" /\ ~ClaimReplays(j, t, Self, a)
        /\ UNCHANGED storeVars
  /\ active' = None
  /\ Ends
  /\ OnlyActive /\ UNCHANGED <<orca, faults>>

\* Phases that only move on.
NextPhase ==
  [Claimed |-> "PrepareIntent", Dispatched |-> "StartIntent", Started |-> "Waiting"]

MovesOn ==
  \E ph \in DOMAIN NextPhase :
    /\ Drives(ph)
    /\ Advances(NextPhase[ph])
    /\ Ends
    /\ OnlyActive /\ UNCHANGED <<storeVars, orca, faults>>

-----------------------------------------------------------------------------
(***************************************************************************)
(* PrepareIntent with a logical executor: the worker-start mutation, under *)
(* a request id derived from the attempt, in the run derived from it.      *)
(***************************************************************************)
WithDeadline(rec) == [rec EXCEPT !.deadline = IF @ = "unset" THEN "set" ELSE @]

Ready(rec) ==
  [WithDeadline(rec) EXCEPT !.phase = "StartIntent", !.terminal = TRUE,
     !.request = TRUE, !.turnSent = TRUE, !.turnSeen = TRUE]

Gives(rec) == active' = rec /\ Ends

FailsClosed(rec) == active' = [rec EXCEPT !.phase = "RecoveryRequired"] /\ Exits

PreparesLogical ==
  Drives("PrepareIntent") /\ executor = "logical" /\ active.deadline # "passed"

\* Orca starts a worker; a request that is still known is answered, not repeated.
WorkerStarted(rec) ==
  [rec EXCEPT !.request = "completed", !.agent = "working", !.sent = @ + 1,
              !.turn = TRUE]

LaunchUnlessKnown(a) ==                    \* mutant
  orca[a].request = "absent"

MayLaunch(a) ==
  orca[a].request = "absent" /\ orca[a].agent = "none"

\* worker-start, answered at once or left pending when the call times out.
LaunchWorker ==
  LET a == active.attempt IN
  /\ PreparesLogical /\ MayLaunch(a)
  /\ \/ /\ orca' = [orca EXCEPT ![a] = WorkerStarted(@)]
        /\ \/ Gives(Ready(active)) /\ UNCHANGED faults
           \/ active' = WithDeadline(active) /\ Exits /\ Spend("crash")
     \/ /\ orca' = [orca EXCEPT ![a].request = "pending"]
        /\ Gives(WithDeadline(active)) /\ Spend("orca")
  /\ OnlyActive /\ UNCHANGED storeVars

\* request-show of a worker-start made before.
AdoptWorker ==
  LET a == active.attempt IN
  /\ PreparesLogical
  /\ \/ orca[a].request = "completed" /\ Gives(Ready(active))
     \/ orca[a].request = "pending" /\ Gives(WithDeadline(active))
     \/ /\ orca[a].request = "absent" /\ ~MayLaunch(a)
        /\ FailsClosed(WithDeadline(active))
  /\ OnlyActive /\ UNCHANGED <<storeVars, orca, faults>>

\* The deadline, or an Orca answer that cannot be reconciled.
PrepareFails ==
  /\ Drives("PrepareIntent")
  /\ \/ executor = "logical" /\ active.deadline = "passed" /\ UNCHANGED faults
     \/ active.deadline # "passed" /\ Spend("orca")
  /\ FailsClosed(active)
  /\ OnlyActive /\ UNCHANGED <<storeVars, orca>>

-----------------------------------------------------------------------------
\* PrepareIntent with a command: the attempt's terminal, found by its title.
PrepareTerminal ==
  LET a == active.attempt IN
  /\ Drives("PrepareIntent") /\ executor = "command"
  /\ ~(orca[a].agent = "gone" /\ active.terminal)
  /\ orca' = [orca EXCEPT ![a].agent = IF @ \in {"none", "gone"} THEN "idle" ELSE @]
  /\ \/ Gives([active EXCEPT !.phase = "Prepared", !.terminal = TRUE])
        /\ UNCHANGED faults
     \/ Gives([active EXCEPT !.terminal = TRUE]) /\ Spend("orca")
     \/ UNCHANGED active /\ Exits /\ Spend("crash")
  /\ OnlyActive /\ UNCHANGED storeVars

TerminalVanished ==
  /\ Drives("PrepareIntent") /\ executor = "command"
  /\ orca[active.attempt].agent = "gone" /\ active.terminal
  /\ FailsClosed(active)
  /\ OnlyActive /\ UNCHANGED <<storeVars, orca, faults>>

Prepared ==
  /\ Drives("Prepared")
  /\ Gives([WithDeadline(active) EXCEPT !.phase = "DispatchIntent"])
  /\ OnlyActive /\ UNCHANGED <<storeVars, orca, faults>>

-----------------------------------------------------------------------------
(***************************************************************************)
(* DispatchIntent.  reconcile_dispatch looks at what the file remembers of *)
(* earlier sends; the count is on disk before a send, its outcome after.   *)
(***************************************************************************)
DefinitelyNotDispatched(rec) == rec.sends = 0 \/ rec.last = "known_rejected"

Counted(rec) == [rec EXCEPT !.sends = @ + 1]

Accepted(rec, turn) ==
  [Counted(rec) EXCEPT !.phase = "Dispatched", !.request = TRUE,
     !.turnSent = turn, !.last = "none"]

\* Orca takes the prompt; the agent's turn begins now or later.
Prompted(rec, turn) ==
  [rec EXCEPT !.sent = @ + 1, !.agent = IF turn THEN "working" ELSE @,
              !.turn = @ \/ turn]

MaySend ==
  Drives("DispatchIntent") /\ DefinitelyNotDispatched(active) /\ active.sends < 2

SendPrompt ==
  LET a == active.attempt IN
  /\ MaySend /\ orca[a].agent \notin {"none", "gone"}
  /\ \E turn \in BOOLEAN :
       /\ orca' = [orca EXCEPT ![a] = Prompted(@, turn)]
       /\ \/ Gives(Accepted(active, turn)) /\ UNCHANGED faults
          \/ Gives([Counted(active) EXCEPT !.last = "ambiguous"]) /\ Spend("orca")
          \/ active' = Counted(active) /\ Exits /\ Spend("crash")
  /\ OnlyActive /\ UNCHANGED storeVars

\* Nothing reached the agent, whatever the connector makes of it.
SendFails ==
  /\ MaySend
  /\ \/ /\ \/ Gives([Counted(active) EXCEPT !.last = "known_rejected"])
           \/ Gives([Counted(active) EXCEPT !.last = "ambiguous"])
           \/ FailsClosed(Counted(active))
        /\ IF orca[active.attempt].agent = "gone" THEN UNCHANGED faults ELSE Spend("orca")
     \/ active' = Counted(active) /\ Exits /\ Spend("crash")
  /\ OnlyActive /\ UNCHANGED <<storeVars, orca>>

Records(rec, kind, err) ==
  [rec EXCEPT !.phase = "OutcomeRecorded", !.kind = kind, !.err = err]

DispatchGivesUp ==
  /\ Drives("DispatchIntent")
  /\ \/ /\ DefinitelyNotDispatched(active) /\ active.sends >= 2
        /\ Gives(Records(active, "not_started", "DISPATCH_REJECTED"))
     \/ ~DefinitelyNotDispatched(active) /\ FailsClosed(active)
  /\ OnlyActive /\ UNCHANGED <<storeVars, orca, faults>>

-----------------------------------------------------------------------------
\* StartIntent: a refusal is a cancel, or it is not understood.
StartNetwork ==
  LET j == active.job  a == active.attempt IN
  /\ Drives("StartIntent")
  /\ \/ StartJob(j, a, Self)
     \/ /\ job[j].status = "active" /\ Owns(Self, j, a)
        /\ attempt[a].phase = "running" /\ UNCHANGED storeVars
  /\ \/ Gives([active EXCEPT !.phase = "Started"]) /\ UNCHANGED faults
     \/ UNCHANGED active /\ Ends /\ Spend("lost")
  /\ OnlyActive /\ UNCHANGED orca

StartRefused ==
  /\ Drives("StartIntent") /\ job[active.job].status # "active"
  /\ \/ ServerCancelled(active.job) /\ FinalizeCancelled
     \/ FailsClosed(active) /\ OnlyActive /\ Spend("lost")
  /\ UNCHANGED <<storeVars, orca>>

-----------------------------------------------------------------------------
(***************************************************************************)
(* Waiting: one tick of the loop.  The operator's cancel is looked for     *)
(* first (a failed poll is tolerated), then the managed result, then the   *)
(* agent; past the deadline the loop is over.                              *)
(***************************************************************************)
Wants == active.result_target = "resource"
Captured == Wants /\ active.attempt \in produced

WaitingCancelled ==
  /\ Drives("Waiting") /\ active.deadline = "set" /\ ServerCancelled(active.job)
  /\ FinalizeCancelled
  /\ UNCHANGED <<storeVars, orca>>

Ticks ==
  /\ Drives("Waiting") /\ active.deadline = "set"
  /\ IF ServerCancelled(active.job) THEN Spend("lost") ELSE UNCHANGED faults
  /\ OnlyActive /\ UNCHANGED <<storeVars, orca>>

ResultBarrier ==
  Ticks /\ Captured /\ Gives(Records(active, "managed_result", "none"))

\* A finished turn of a job that wants a result, and none was written.
Missing == IF Wants THEN "RESULT_MISSING" ELSE "none"

SeesWorking ==
  /\ Ticks /\ ~Captured /\ orca[active.attempt].agent = "working"
  /\ active' = [active EXCEPT !.turnSeen = TRUE, !.structured = TRUE] /\ Keeps

SeesAgent ==
  /\ Ticks /\ ~Captured /\ orca[active.attempt].agent # "gone"
  /\ active' = [active EXCEPT !.structured = TRUE] /\ Keeps

\* Orca may call an agent "done" before its turn has begun.
SeesDoneAtOnce ==                          \* mutant
  /\ Ticks /\ ~Captured /\ orca[active.attempt].agent \in {"idle", "done"}
  /\ Gives(Records(active, "agent_done", Missing))

SeesDone ==
  /\ Ticks /\ ~Captured /\ orca[active.attempt].agent \in {"idle", "done"}
  /\ IF active.turnSeen THEN Gives(Records(active, "agent_done", Missing))
     ELSE active' = [active EXCEPT !.structured = TRUE] /\ Keeps

\* Without a structured status the terminal's idleness stands for the end of
\* the turn: a guess, taken only when a turn is known to have begun.
SeesIdle ==
  /\ Ticks /\ ~Captured /\ orca[active.attempt].agent # "gone"
  /\ ~active.structured /\ (active.turnSent \/ active.turnSeen)
  /\ Gives(Records(active, "tui_idle", Missing))

SeesExit ==
  /\ Ticks /\ ~Captured /\ orca[active.attempt].agent \in {"gone", "done"}
  /\ Gives(Records(active, "interrupted", "TERMINAL_EXITED"))

WaitTimesOut ==
  /\ Drives("Waiting") /\ active.deadline = "passed"
  /\ Gives(Records(active, "timed_out", IF Captured THEN "none" ELSE "EXECUTION_TIMEOUT"))
  /\ OnlyActive /\ UNCHANGED <<storeVars, orca, faults>>

\* An error of the wait ends the process; the phase stays.
WaitFails ==
  /\ Drives("Waiting") /\ active.deadline = "set" /\ Spend("orca")
  /\ UNCHANGED active /\ Exits
  /\ OnlyActive /\ UNCHANGED <<storeVars, orca>>

WaitStep ==
  \/ WaitingCancelled \/ ResultBarrier \/ SeesWorking \/ SeesAgent \/ SeesDone
  \/ SeesIdle \/ SeesExit \/ WaitTimesOut \/ WaitFails

-----------------------------------------------------------------------------
(***************************************************************************)
(* OutcomeRecorded: the outcome becomes a report, with the receipt of the  *)
(* terminal's close when the task completed.  The outbox record is written *)
(* first, then the marker, and the outbox is flushed.                      *)
(***************************************************************************)
StatusOf(rec) ==
  CASE rec.kind \in {"managed_result", "agent_done", "tui_idle"} ->
         IF rec.err = "none" THEN "COMPLETED" ELSE "FAILED"
    [] rec.kind = "timed_out" -> IF Captured THEN "COMPLETED" ELSE "TIMED_OUT"
    [] rec.kind = "interrupted" -> "FAILED"
    [] OTHER -> "BLOCKED"

ReportOf(rec, rcpt) ==
  [execution_status |-> StatusOf(rec), task_dispatched |-> rec.request,
   receipt |-> rcpt]

Flushing(b) == [attempt |-> b, acked |-> FALSE, from |-> "flush"]

WritesOutcome(rep) ==
  LET a   == active.attempt
      box == [outbox EXCEPT ![a] =
                [report  |-> rep,
                 payload |-> IF Wants /\ rep.execution_status = "COMPLETED"
                             THEN TheResult ELSE None]]
  IN
  /\ outbox' = box
  /\ \/ /\ active' = [active EXCEPT !.phase = "FinalizedLocal", !.digest = rep]
        /\ \E b \in AttemptId : box[b] # None /\ delivery' = Flushing(b)
        /\ UNCHANGED <<pc, faults>>
     \/ UNCHANGED <<active, delivery>> /\ Exits /\ Spend("crash")
  /\ UNCHANGED <<storeVars, history, receipt, used, executor, produced>>

\* A terminal is closed only after COMPLETED, and each close has its own time.
CloseAndRecord ==
  LET a == active.attempt IN
  /\ Drives("OutcomeRecorded") /\ StatusOf(active) = "COMPLETED"
  /\ orca[a].closes < Len(Receipts)
  /\ orca' = [orca EXCEPT ![a].agent = "gone", ![a].closes = @ + 1]
  /\ WritesOutcome(ReportOf(active, Receipts[orca[a].closes + 1]))

\* Any other outcome keeps the terminal; so does a close that is not verified.
RetainAndRecord ==
  /\ Drives("OutcomeRecorded")
  /\ WritesOutcome(ReportOf(active, "retained"))
  /\ UNCHANGED orca

CloseRetryable ==
  /\ Drives("OutcomeRecorded") /\ StatusOf(active) = "COMPLETED" /\ Spend("orca")
  /\ UNCHANGED active /\ Ends
  /\ OnlyActive /\ UNCHANGED <<storeVars, orca>>

-----------------------------------------------------------------------------
(***************************************************************************)
(* deliver_outbox_record: the result, then the report, then the history    *)
(* and the removal of both files.  A delivery is driven by the attempt in  *)
(* FinalizedLocal, where a refusal ends the process, or by a flush, whose  *)
(* errors are swallowed.  A 503 with a JSON body is a refusal.             *)
(***************************************************************************)
Refused == delivery' = None /\ IF delivery.from = "drive" THEN Exits ELSE Ends

Unanswered == delivery' = None /\ (Ends \/ Refused) /\ Spend("lost")

DeliverResult ==
  LET a == delivery.attempt  j == attempt[a].job IN
  /\ delivery # None /\ outbox[a].payload # None /\ ~delivery.acked
  /\ \/ RecordReplays(j, a, Self, outbox[a].payload) /\ UNCHANGED storeVars
     \/ RecordJobResult(j, a, Self, outbox[a].payload, "automatic")
  /\ \/ /\ receipt' = receipt \cup {a} /\ delivery' = [delivery EXCEPT !.acked = TRUE]
        /\ UNCHANGED <<pc, faults>>
     \/ Unanswered /\ UNCHANGED receipt
  /\ UNCHANGED <<active, outbox, history, used, executor, orca, produced>>

CleansUpMarkerFirst(a, hist) ==            \* mutant
  /\ history' = [history EXCEPT ![a] = hist]
  /\ delivery' = None
  /\ \/ /\ outbox' = [outbox EXCEPT ![a] = None] /\ active' = None
        /\ Ends /\ UNCHANGED faults
     \/ active' = None /\ UNCHANGED outbox /\ Exits /\ Spend("crash")
     \/ UNCHANGED <<outbox, active>> /\ Exits /\ Spend("crash")

\* History, outbox, marker, in this order; a crash may leave any prefix.
CleansUp(a, hist) ==
  /\ history' = [history EXCEPT ![a] = hist]
  /\ delivery' = None
  /\ \/ /\ outbox' = [outbox EXCEPT ![a] = None] /\ active' = None
        /\ Ends /\ UNCHANGED faults
     \/ /\ outbox' = [outbox EXCEPT ![a] = None] /\ UNCHANGED active
        /\ Exits /\ Spend("crash")
     \/ UNCHANGED <<outbox, active>> /\ Exits /\ Spend("crash")

HistoryOf(rep) ==
  [status |-> CASE rep.execution_status = "COMPLETED" -> "completed"
                [] rep.execution_status = "TIMED_OUT" -> "timed_out"
                [] OTHER -> "failed",
   digest |-> rep]

MarkerMatches(a) ==
  /\ active # None /\ active.attempt = a
  /\ active.phase = "FinalizedLocal" /\ active.digest = outbox[a].report

ReadyToReport ==
  delivery # None /\ (outbox[delivery.attempt].payload = None \/ delivery.acked)

OnlyFiles == UNCHANGED <<receipt, used, executor, orca, produced>>

ReportDelivered ==
  LET a == delivery.attempt  j == attempt[a].job  rep == outbox[a].report IN
  /\ ReadyToReport
  /\ \/ ReportJob(j, a, Self, rep)
     \/ ReportReplays(j, a, Self, rep) /\ UNCHANGED storeVars
  /\ \/ MarkerMatches(a) /\ CleansUp(a, HistoryOf(rep))
     \/ ~MarkerMatches(a) /\ Refused /\ UNCHANGED <<active, outbox, history, faults>>
     \/ Unanswered /\ UNCHANGED <<active, outbox, history>>
  /\ OnlyFiles

ReportConflicts ==
  LET a == delivery.attempt  j == attempt[a].job  rep == outbox[a].report
      mine == active # None /\ active.attempt = a
  IN
  /\ ReadyToReport
  /\ ~ReportAccepts(j, a, Self, rep) /\ ~ReportReplays(j, a, Self, rep)
  /\ \/ mine /\ ServerCancelled(j) /\ CleansUp(a, CancelledHistory)
     \/ /\ Refused /\ UNCHANGED <<active, outbox, history>>
        /\ IF mine /\ ServerCancelled(j) THEN Spend("lost") ELSE UNCHANGED faults
  /\ OnlyFiles /\ UNCHANGED storeVars

DriveFinalizedByOutbox ==                  \* mutant
  LET a == active.attempt IN
  /\ Drives("FinalizedLocal")
  /\ \/ /\ outbox[a] # None
        /\ delivery' = [attempt |-> a, acked |-> FALSE, from |-> "drive"]
        /\ UNCHANGED pc
     \/ outbox[a] = None /\ Exits /\ UNCHANGED delivery
  /\ UNCHANGED <<storeVars, active, outbox, history, receipt, used, executor,
                 orca, produced, faults>>

\* FinalizedLocal: what is still there decides.
DriveFinalized ==
  LET a == active.attempt IN
  /\ Drives("FinalizedLocal")
  /\ \/ /\ outbox[a] # None
        /\ delivery' = [attempt |-> a, acked |-> FALSE, from |-> "drive"]
        /\ UNCHANGED <<pc, active>>
     \/ /\ outbox[a] = None /\ history[a] # None /\ history[a].digest = active.digest
        /\ active' = None /\ Ends /\ UNCHANGED delivery
     \/ /\ outbox[a] = None
        /\ history[a] = None \/ history[a].digest # active.digest
        /\ Exits /\ UNCHANGED <<active, delivery>>
  /\ UNCHANGED <<storeVars, outbox, history, receipt, used, executor, orca,
                 produced, faults>>

\* Startup's flush, and the loop's.
Flush ==
  /\ delivery = None
  /\ pc = "flush" \/ (pc = "loop" /\ active = None)
  /\ \E b \in AttemptId : outbox[b] # None /\ delivery' = Flushing(b)
  /\ UNCHANGED <<storeVars, pc, active, outbox, history, receipt, used, executor,
                 orca, produced, faults>>

\* Startup with nothing to recover, and nothing to flush.
BootMovesOn ==
  /\ delivery = None
  /\ (pc = "boot" /\ active = None) \/ (pc = "flush" /\ NoOutbox)
  /\ Ends
  /\ UNCHANGED <<storeVars, delivery, active, outbox, history, receipt, used,
                 executor, orca, produced, faults>>

-----------------------------------------------------------------------------
(***************************************************************************)
(* RecoveryRequired: one more look at the server.  A cancel is honoured; a *)
(* live job gets an outcome, so that the device is free again.             *)
(***************************************************************************)
Recovered(rec) ==
  IF attempt[rec.attempt].started
  THEN CASE rec.kind # "none" -> [rec EXCEPT !.phase = "OutcomeRecorded"]
         [] rec.kind = "none" /\ Captured -> Records(rec, "managed_result", "none")
         [] rec.kind = "none" /\ ~Captured ->
              Records(rec, IF rec.request THEN "interrupted" ELSE "not_started",
                      "RECOVERY_TERMINALIZED")
  ELSE [Records(rec, "not_started", "RECOVERY_TERMINALIZED") EXCEPT !.request = FALSE]

RecoveryStep ==
  LET j == active.job IN
  /\ Drives("RecoveryRequired")
  /\ \/ ServerCancelled(j) /\ ServerNames(j, active.attempt) /\ FinalizeCancelled
     \/ /\ job[j].status = "active" /\ ServerNames(j, active.attempt)
        /\ Gives(Recovered(active)) /\ OnlyActive /\ UNCHANGED faults
     \/ UNCHANGED active /\ Exits /\ OnlyActive /\ Spend("lost")
  /\ UNCHANGED <<storeVars, orca>>

-----------------------------------------------------------------------------
(***************************************************************************)
(* What happens around the daemon.                                         *)
(***************************************************************************)
LocalVars == <<pc, delivery, active, outbox, history, receipt, used, executor,
               produced>>

Submit(j) ==
  /\ \E r \in RequestId, t \in Target, dg \in Digest, rt \in ResultTargets :
       CreateJob(r, j, t, dg, rt)
  /\ UNCHANGED <<LocalVars, orca, faults>>

OtherClaims(j) ==
  /\ \E d \in Device \ {Self}, a \in AttemptId \ used, t \in Target :
       ClaimJob(j, t, d, a)
  /\ UNCHANGED <<LocalVars, orca, faults>>

OperatorCancels(j) ==
  /\ MayCancel
  /\ \E d \in Device : \/ CancelQueued(j, None, d)
                       \/ \E a \in AttemptId : CancelActive(j, a, d)
  /\ UNCHANGED <<LocalVars, orca, faults>>

QueueExpires(j) ==
  /\ job[j].status = "queued" /\ ClaimDeadlinePasses(j)
  /\ UNCHANGED <<LocalVars, orca, faults>>

ExecutionDeadlinePasses ==
  /\ active # None /\ active.deadline = "set"
  /\ active' = [active EXCEPT !.deadline = "passed"]
  /\ UNCHANGED <<storeVars, pc, delivery, outbox, history, receipt, used, executor,
                 produced, orca, faults>>

\* A worker-start left pending ends one way or the other.
StartResolves(a) ==
  /\ orca[a].request = "pending"
  /\ \/ orca' = [orca EXCEPT ![a] = WorkerStarted(@)]
     \/ orca' = [orca EXCEPT ![a].request = "absent"]
  /\ UNCHANGED <<storeVars, LocalVars, faults>>

\* Orca drops its record of a request and keeps the worker.
OrcaForgets(a) ==
  /\ orca[a].request = "completed" /\ Spend("orca")
  /\ orca' = [orca EXCEPT ![a].request = "absent"]
  /\ UNCHANGED <<storeVars, LocalVars>>

AgentTurn(a) ==
  /\ orca[a].agent = "idle" /\ orca[a].sent > 0
  /\ orca' = [orca EXCEPT ![a].agent = "working", ![a].turn = TRUE]
  /\ UNCHANGED <<storeVars, LocalVars, faults>>

AgentStops(a) ==
  /\ \/ orca[a].agent = "working" /\ orca' = [orca EXCEPT ![a].agent = "done"]
     \/ /\ orca[a].agent \in {"idle", "working", "done"}
        /\ orca' = [orca EXCEPT ![a].agent = "gone"]
  /\ UNCHANGED <<storeVars, LocalVars, faults>>

AgentProduces(a) ==
  /\ orca[a].agent = "working" /\ a \notin produced
  /\ job[attempt[a].job].result_target = "resource"
  /\ produced' = produced \cup {a}
  /\ UNCHANGED <<storeVars, pc, delivery, active, outbox, history, receipt, used,
                 executor, orca, faults>>

\* A project command converges a cancelled attempt, whatever the daemon is at.
ProjectReconciles ==
  /\ MayReconcile /\ active # None
  /\ ServerCancelled(active.job) /\ ServerNames(active.job, active.attempt)
  /\ history' = [history EXCEPT ![active.attempt] = CancelledHistory]
  /\ active' = None
  /\ UNCHANGED <<storeVars, pc, delivery, outbox, receipt, used, executor, orca,
                 produced, faults>>

Crash ==
  /\ pc # "down" /\ Spend("crash")
  /\ pc' = "down" /\ delivery' = None
  /\ UNCHANGED <<storeVars, active, outbox, history, receipt, used, executor, orca,
                 produced>>

Restart ==
  /\ pc = "down" /\ pc' = "boot"
  /\ UNCHANGED <<storeVars, delivery, active, outbox, history, receipt, used,
                 executor, orca, produced, faults>>

-----------------------------------------------------------------------------
DaemonStep ==
  \/ \E a \in AttemptId : SmartRedeliver(a)
  \/ \E j \in JobId, a \in AttemptId : SaveClaimIntent(j, a)
  \/ NothingPending \/ ClaimNetwork \/ ClaimIsLost \/ MovesOn
  \/ LaunchWorker \/ AdoptWorker \/ PrepareFails \/ PrepareTerminal
  \/ TerminalVanished \/ Prepared \/ SendPrompt \/ SendFails \/ DispatchGivesUp
  \/ StartNetwork \/ StartRefused \/ WaitStep
  \/ CloseAndRecord \/ RetainAndRecord \/ CloseRetryable
  \/ DeliverResult \/ ReportDelivered \/ ReportConflicts \/ DriveFinalized
  \/ Flush \/ BootMovesOn \/ RecoveryStep

ServerMoves(j) ==
  Submit(j) \/ OtherClaims(j) \/ OperatorCancels(j) \/ QueueExpires(j)

OrcaMoves(a) ==
  \/ StartResolves(a) \/ OrcaForgets(a) \/ AgentTurn(a) \/ AgentStops(a)
  \/ AgentProduces(a)

ConnNext ==
  \/ DaemonStep
  \/ \E j \in JobId : ServerMoves(j)
  \/ \E a \in AttemptId : OrcaMoves(a)
  \/ ExecutionDeadlinePasses \/ ProjectReconciles \/ Crash \/ Restart

ConnSpec == ConnInit /\ [][ConnNext]_connVars

(***************************************************************************)
(* The daemon's loop keeps running, a stopped daemon is started again, the *)
(* deadline arrives, and Orca settles a worker-start it has accepted.      *)
(***************************************************************************)
FairConnSpec ==
  /\ ConnSpec
  /\ WF_connVars(DaemonStep) /\ WF_connVars(Restart)
  /\ WF_connVars(ExecutionDeadlinePasses)
  /\ \A a \in AttemptId : WF_connVars(StartResolves(a))

-----------------------------------------------------------------------------
(***************************************************************************)
(* The files are well formed: the marker names an attempt this device drew *)
(* and a job the server has, and a delivery has its outbox record, so that *)
(* no file is removed under a delivery that still reads it.                *)
(***************************************************************************)
ConnTypeOK ==
  /\ TypeOK
  /\ pc \in {"down", "boot", "flush", "loop", "poll"}
  /\ delivery \in Delivery \cup {None} /\ active \in ActiveAttempt \cup {None}
  /\ outbox \in [AttemptId -> OutboxRecord \cup {None}]
  /\ history \in [AttemptId -> SanitizedHistoryRecord \cup {None}]
  /\ receipt \subseteq AttemptId /\ used \subseteq AttemptId
  /\ executor \in {"logical", "command"} /\ produced \subseteq AttemptId
  /\ orca \in [AttemptId -> Worker]
  /\ active # None => active.attempt \in used /\ job[active.job].status # "none"
  /\ delivery # None => outbox[delivery.attempt] # None

(***************************************************************************)
(* A task is handed to an agent at most once, whatever is lost or crashes  *)
(* between a send and the record of its outcome.                           *)
(***************************************************************************)
AtMostOnceDispatch == \A a \in AttemptId : orca[a].sent <= 1

(***************************************************************************)
(* A job this device holds on the server is always in its active-attempt   *)
(* file: no crash or lost answer of a claim leaves it with nobody.         *)
(***************************************************************************)
NoOrphanedClaim ==
  \A a \in AttemptId :
    attempt[a].device = Self /\ attempt[a].phase \in {"claimed", "running"} =>
      active # None /\ active.attempt = a

(***************************************************************************)
(* What the device keeps as history is how the server ended the attempt:   *)
(* "cancelled" exactly for an operator's cancel, else the very report that *)
(* was sent.                                                               *)
(***************************************************************************)
HistoryIsTruth ==
  \A a \in AttemptId : history[a] # None =>
    /\ attempt[a].phase = "terminal"
    /\ IF history[a].status = "cancelled"
       THEN job[attempt[a].job].cancel # None
       ELSE attempt[a].report = history[a].digest

(***************************************************************************)
(* The server says COMPLETED only of a task whose agent took a turn, and   *)
(* of a job that wants a result only when the agent produced one.          *)
(***************************************************************************)
CompletedWasWorked ==
  \A a \in AttemptId :
    attempt[a].device = Self /\ attempt[a].phase = "terminal"
    /\ attempt[a].report.execution_status = "COMPLETED" =>
      /\ orca[a].turn
      /\ job[attempt[a].job].result_target = "resource" =>
           attempt[a].result # None /\ a \in produced

(***************************************************************************)
(* The server never refuses a report in the outbox for its content: one    *)
(* that says "dispatched" is sent only for an attempt the server has       *)
(* started, one that does not says BLOCKED, and a completed resource job   *)
(* carries its result.                                                     *)
(***************************************************************************)
ReportsAcceptable ==
  \A a \in AttemptId : outbox[a] # None =>
    LET rep == outbox[a].report IN
    /\ rep.task_dispatched => attempt[a].started
    /\ ~rep.task_dispatched <=> rep.execution_status = "BLOCKED"
    /\ outbox[a].payload # None <=>
         /\ rep.execution_status = "COMPLETED"
         /\ job[attempt[a].job].result_target = "resource"

(***************************************************************************)
(* The marker, outbox and history files fit together after every crash: a  *)
(* report that waits in the outbox has its marker, which its delivery      *)
(* needs to clean up, and a finalized marker has its report or the history *)
(* of it.  An operator's cancel is exempt: two of the paths that converge  *)
(* a cancelled attempt leave files that do not match.                      *)
(***************************************************************************)
LocalFilesAgree ==
  \A a \in AttemptId :
    LET mine == active # None /\ active.attempt = a IN
    /\ outbox[a] # None => mine \/ ServerCancelled(attempt[a].job)
    /\ mine /\ active.phase = "FinalizedLocal" =>
         \/ outbox[a] # None
         \/ history[a] # None /\ history[a].digest = active.digest
         \/ ServerCancelled(attempt[a].job)

(***************************************************************************)
(* After every crash the device's files agree with each other and with the *)
(* server: nothing in them is wrong, unsendable or left over.              *)
(***************************************************************************)
LocalStateIsSound ==
  ConnTypeOK /\ HistoryIsTruth /\ ReportsAcceptable /\ LocalFilesAgree

(***************************************************************************)
(* A device is never stuck with an attempt: drive_active_attempt, run      *)
(* from whatever files a crash left, brings every attempt to the removal   *)
(* of its marker.                                                          *)
(***************************************************************************)
DeviceFreed == (active # None) ~> (active = None)

(***************************************************************************)
(* A managed result the worker wrote reaches the server: with the report,  *)
(* or by the smart redelivery of the polling loop.                         *)
(***************************************************************************)
ResultsArrive ==
  \A a \in AttemptId : (a \in produced) ~> (attempt[a].result # None)
=============================================================================
