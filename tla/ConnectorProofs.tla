--------------------------- MODULE ConnectorProofs ---------------------------
(***************************************************************************)
(* What Connector promises for every number of jobs, attempts, devices,    *)
(* targets and requests and every budget of crashes, lost answers and Orca *)
(* faults.                                                                 *)
(***************************************************************************)
EXTENDS Connector, JobStoreProofs

\* The phases before a task is handed over.
Early == {"ClaimIntent", "Claimed", "PrepareIntent", "Prepared", "DispatchIntent"}

\* No delete runs beside the connector here, and a job has its target.
StoreSide ==
  /\ \A t \in Target : ~fence[t].fresh
  /\ \A j \in JobId : job[j].status # "none" => job[j].target \in Target

\* An attempt of the store is this device's exactly if the device drew its id;
\* before the claim there is nothing of it anywhere.
Drawn(a) ==
  /\ attempt[a].phase # "none" => (attempt[a].device = Self <=> a \in used)
  /\ attempt[a].phase = "none" =>
       /\ ~attempt[a].started
       /\ orca[a] = NoWorker /\ outbox[a] = None /\ history[a] = None /\ a \notin produced
  /\ orca[a] # NoWorker \/ outbox[a] # None \/ history[a] # None \/ a \in produced =>
       a \in used

\* A worker's prompts: none while it has no agent or its start is undecided.
WorkerOK(w, exec, made) ==
  /\ w.sent <= 1
  /\ w.agent = "none" \/ w.request = "pending" => w.sent = 0
  /\ w.request # "absent" => exec = "logical"
  /\ w.request = "completed" \/ w.agent \in {"working", "done"} \/ made => w.turn

OrcaInv == \A a \in AttemptId : WorkerOK(orca[a], executor, a \in produced)

\* The marker names the job the attempt was claimed for.
MarkerInv ==
  active # None =>
    /\ attempt[active.attempt].phase # "none" => attempt[active.attempt].job = active.job
    /\ active.phase # "ClaimIntent" =>
         /\ attempt[active.attempt].phase # "none"
         /\ active.result_target = job[active.job].result_target
    /\ outbox[active.attempt] # None => active.phase \in {"OutcomeRecorded", "FinalizedLocal"}

\* How far the attempt is, and what its report will say of it.
PhaseOK(rec, started) ==
  /\ rec.phase \in Early => ~rec.request
  /\ rec.phase \in {"Dispatched", "StartIntent", "Started", "Waiting"} => rec.request
  /\ rec.phase \in {"Started", "Waiting"} => started
  /\ started => rec.request
  /\ rec.phase \in {"OutcomeRecorded", "FinalizedLocal"} <=> rec.kind # "none"
  /\ rec.kind # "none" => (rec.request <=> rec.kind # "not_started")
  /\ rec.kind # "none" /\ rec.request => started

\* What an outcome without an error stands for.
WorkOK(rec, turn, made) ==
  /\ rec.turnSent \/ rec.turnSeen => turn
  /\ rec.kind = "managed_result" => rec.result_target = "resource" /\ made
  /\ rec.kind \in {"agent_done", "tui_idle"} =>
       turn /\ (rec.result_target = "resource" => rec.err # "none")

\* What the file remembers of the sends: enough to rule out a second prompt.
DispatchOK(rec, exec, sent) ==
  /\ exec = "logical" => rec.phase \notin {"Prepared", "DispatchIntent", "Dispatched"}
  /\ exec = "command" /\ rec.phase \in Early \ {"DispatchIntent"} =>
       rec.sends = 0 /\ sent = 0
  /\ rec.sends = 0 => rec.last = "none"
  /\ rec.phase = "DispatchIntent" /\ sent > 0 =>
       rec.sends > 1 \/ ~DefinitelyNotDispatched(rec)

RecInv ==
  active # None =>
    /\ PhaseOK(active, attempt[active.attempt].started)
    /\ WorkOK(active, orca[active.attempt].turn, active.attempt \in produced)
    /\ DispatchOK(active, executor, orca[active.attempt].sent)

\* A report in the outbox is one the server can take, and true.
OutboxOK(a) ==
  outbox[a] # None =>
    /\ outbox[a].report.task_dispatched => attempt[a].started
    /\ ~outbox[a].report.task_dispatched <=> outbox[a].report.execution_status = "BLOCKED"
    /\ outbox[a].payload # None <=>
         /\ outbox[a].report.execution_status = "COMPLETED"
         /\ job[attempt[a].job].result_target = "resource"
    /\ outbox[a].payload # None => a \in produced
    /\ outbox[a].report.execution_status = "COMPLETED" => orca[a].turn

\* HistoryIsTruth, LocalFilesAgree, CompletedWasWorked and NoOrphanedClaim, of
\* one attempt.
HistoryOK(a) ==
  history[a] # None =>
    /\ attempt[a].phase = "terminal"
    /\ IF history[a].status = "cancelled"
       THEN job[attempt[a].job].cancel # None
       ELSE attempt[a].report = history[a].digest

Mine(a) == active # None /\ active.attempt = a

FilesOK(a) ==
  /\ outbox[a] # None => Mine(a) \/ ServerCancelled(attempt[a].job)
  /\ Mine(a) /\ active.phase = "FinalizedLocal" =>
       \/ outbox[a] # None
       \/ history[a] # None /\ history[a].digest = active.digest
       \/ ServerCancelled(attempt[a].job)

CompletedOK(a) ==
  attempt[a].device = Self /\ attempt[a].phase = "terminal"
  /\ attempt[a].report.execution_status = "COMPLETED" =>
    /\ orca[a].turn
    /\ job[attempt[a].job].result_target = "resource" =>
         attempt[a].result # None /\ a \in produced

Live(a) == attempt[a].device = Self /\ attempt[a].phase \in {"claimed", "running"}

AttemptOK(a) ==
  /\ Drawn(a) /\ OutboxOK(a) /\ HistoryOK(a) /\ FilesOK(a) /\ CompletedOK(a)
  /\ Live(a) => Mine(a)

\* Where the daemon is, and what a delivery has seen acknowledged.
DeliveryInv ==
  /\ pc = "poll" => active = None /\ delivery = None
  /\ pc = "down" => delivery = None
  /\ delivery # None /\ delivery.acked => attempt[delivery.attempt].result # None

ConnInv ==
  /\ StoreInv /\ StoreSide /\ ConnTypeOK
  /\ OrcaInv /\ MarkerInv /\ RecInv /\ DeliveryInv
  /\ \A a \in AttemptId : AttemptOK(a)

-----------------------------------------------------------------------------
(***************************************************************************)
(* What no script takes back.                                              *)
(***************************************************************************)
JobGrows(j) ==
  job[j].status # "none" =>
    /\ job'[j].status # "none"
    /\ job'[j].result_target = job[j].result_target
    /\ job'[j].target = job[j].target
    /\ job[j].status = "terminal" => job'[j] = job[j]

AttemptGrows(a) ==
  attempt[a].phase # "none" =>
    /\ attempt'[a].phase # "none"
    /\ attempt'[a].job = attempt[a].job
    /\ attempt'[a].device = attempt[a].device
    /\ attempt[a].started => attempt'[a].started
    /\ attempt[a].result # None => attempt'[a].result # None
    /\ attempt[a].phase = "terminal" =>
         attempt'[a].phase = "terminal" /\ attempt'[a].report = attempt[a].report

StoreGrows == (\A j \in JobId : JobGrows(j)) /\ (\A a \in AttemptId : AttemptGrows(a))

\* Only job j and attempt a change.
LEMMA GrowsAt ==
  ASSUME StoreInv, NEW j \in JobId, NEW a,
         \A i \in JobId \ {j} : job'[i] = job[i],
         \A b \in AttemptId : b # a => attempt'[b] = attempt[b],
         JobGrows(j), a \in AttemptId => AttemptGrows(a)
  PROVE  StoreGrows
<1>1. \A i \in JobId : JobGrows(i)
  BY DEF JobGrows
<1>2. \A b \in AttemptId : AttemptGrows(b)
  BY DEF AttemptGrows
<1> QED
  BY <1>1, <1>2 DEF StoreGrows

LEMMA SameStoreGrows ==
  ASSUME UNCHANGED <<job, attempt>>
  PROVE  StoreGrows
  BY DEF StoreGrows, JobGrows, AttemptGrows

\* The fields of the records that the scripts never write again.
LEMMA JobKept ==
  ASSUME NEW rec \in JobRecord, NEW x
  PROVE  /\ Activated(rec, x).result_target = rec.result_target
         /\ Cancelled(rec, x).result_target = rec.result_target
         /\ Ended(rec).result_target = rec.result_target
  BY DEF JobRecord, Activated, Cancelled, Ended

LEMMA AttemptKept ==
  ASSUME NEW att \in AttemptRecord, NEW x
  PROVE  Reported(att, x).result = att.result /\ WithResult(att, x).result = x
  BY DEF AttemptRecord, Reported, WithResult

LEMMA StartKept ==
  ASSUME NEW att \in AttemptRecord
  PROVE  Started(att).result = att.result
  BY DEF AttemptRecord, Started

LEMMA RecordsTyped ==
  ASSUME TypeOK
  PROVE  /\ \A j \in JobId : job[j] \in JobRecord
         /\ \A a \in AttemptId : attempt[a] \in AttemptRecord
  BY DEF TypeOK

LEMMA CreateGrows ==
  ASSUME StoreInv, NEW j \in JobId, NEW r \in RequestId, NEW t \in Target,
         NEW dg \in Digest, NEW rt \in {"none", "resource"}, CreateJob(r, j, t, dg, rt)
  PROVE  /\ StoreGrows /\ UNCHANGED <<attempt, fence>>
         /\ job'[j].target = t
         /\ \A i \in JobId \ {j} : job'[i] = job[i]
<1>1. /\ job'[j] = NewJob(r, t, dg, rt) /\ UNCHANGED <<attempt, fence>>
      /\ \A i \in JobId \ {j} : job'[i] = job[i]
      /\ job[j].status = "none"
  BY DEF CreateJob, CreateAccepts, StoreInv, TypeOK
<1>2. JobGrows(j)
  BY <1>1 DEF JobGrows
<1>3. StoreGrows
  BY <1>1, <1>2, NoneIsNew, GrowsAt
<1> QED
  BY <1>1, <1>3 DEF NewJob

LEMMA ClaimGrows ==
  ASSUME StoreInv, NEW j \in JobId, NEW t \in Target, NEW d \in Device,
         NEW a \in AttemptId, ClaimJob(j, t, d, a)
  PROVE  /\ StoreGrows /\ UNCHANGED fence
         /\ attempt'[a] = NewAttempt(j, d)
         /\ \A b \in AttemptId \ {a} : attempt'[b] = attempt[b]
         /\ \A i \in JobId : job'[i].status # "none" => job[i].status # "none"
<1>1. /\ job'[j] = Activated(job[j], a) /\ attempt'[a] = NewAttempt(j, d)
      /\ \A i \in JobId \ {j} : job'[i] = job[i]
      /\ \A b \in AttemptId \ {a} : attempt'[b] = attempt[b]
      /\ job[j].status = "queued" /\ attempt[a].phase = "none" /\ UNCHANGED fence
  BY DEF ClaimJob, ClaimAccepts, ClaimMayOwn, StoreInv, TypeOK
<1>2. JobGrows(j)
  BY <1>1, RecordsTyped, JobFields, JobKept DEF JobGrows, StoreInv
<1>3. AttemptGrows(a)
  BY <1>1 DEF AttemptGrows
<1>4. StoreGrows
  BY <1>1, <1>2, <1>3, GrowsAt
<1> QED
  BY <1>1, <1>4

LEMMA CancelQueuedGrows ==
  ASSUME StoreInv, NEW j \in JobId, NEW d \in Device, CancelQueued(j, None, d)
  PROVE  /\ StoreGrows /\ UNCHANGED <<attempt, fence>>
         /\ \A i \in JobId : job'[i].status # "none" => job[i].status # "none"
<1>1. /\ job'[j] = Cancelled(job[j], d) /\ UNCHANGED <<attempt, fence>>
      /\ \A i \in JobId \ {j} : job'[i] = job[i]
      /\ job[j].status = "queued"
  BY DEF CancelQueued, StoreInv, TypeOK
<1>2. JobGrows(j)
  BY <1>1, RecordsTyped, JobFields, JobKept DEF JobGrows, StoreInv
<1>3. StoreGrows
  BY <1>1, <1>2, NoneIsNew, GrowsAt
<1> QED
  BY <1>1, <1>3

LEMMA CancelActiveGrows ==
  ASSUME StoreInv, NEW j \in JobId, NEW a \in AttemptId, NEW d \in Device,
         CancelActive(j, a, d)
  PROVE  /\ StoreGrows /\ UNCHANGED fence
         /\ attempt'[a].report.execution_status = "CANCELLED" /\ attempt[a].phase # "none"
         /\ \A b \in AttemptId \ {a} : attempt'[b] = attempt[b]
         /\ \A i \in JobId : job'[i].status # "none" => job[i].status # "none"
<1> DEFINE rep == OperatorReport(attempt[a].phase = "running")
<1>1. /\ job'[j] = Cancelled(job[j], d) /\ attempt'[a] = Reported(attempt[a], rep)
      /\ \A i \in JobId \ {j} : job'[i] = job[i]
      /\ \A b \in AttemptId \ {a} : attempt'[b] = attempt[b]
      /\ job[j].status = "active" /\ attempt[a].phase \in {"claimed", "running"}
      /\ UNCHANGED fence
  BY DEF CancelActive, CancelReaches, StoreInv, TypeOK
<1>2. JobGrows(j)
  BY <1>1, RecordsTyped, JobFields, JobKept DEF JobGrows, StoreInv
<1>3. AttemptGrows(a) /\ attempt'[a].report = rep
  <2> HIDE DEF rep
  <2> QED
    BY <1>1, RecordsTyped, ReportedFields, AttemptKept DEF AttemptGrows, StoreInv
<1>4. StoreGrows
  BY <1>1, <1>2, <1>3, GrowsAt
<1>5. rep.execution_status = "CANCELLED"
  BY DEF OperatorReport
<1> QED
  BY <1>1, <1>3, <1>4, <1>5

LEMMA StartGrows ==
  ASSUME StoreInv, NEW j \in JobId, NEW a \in AttemptId, NEW d \in Device,
         StartJob(j, a, d)
  PROVE  /\ StoreGrows /\ UNCHANGED <<job, fence>>
         /\ attempt'[a].started /\ attempt'[a].phase = "running"
         /\ attempt[a].phase = "claimed"
         /\ \A b \in AttemptId \ {a} : attempt'[b] = attempt[b]
<1>1. /\ attempt'[a] = Started(attempt[a]) /\ UNCHANGED <<job, fence>>
      /\ \A b \in AttemptId \ {a} : attempt'[b] = attempt[b]
      /\ attempt[a].phase = "claimed"
  BY DEF StartJob, StoreInv, TypeOK
<1>2. /\ attempt'[a].phase = "running" /\ attempt'[a].job = attempt[a].job
      /\ attempt'[a].device = attempt[a].device
      /\ attempt'[a].started = TRUE /\ attempt'[a].result = attempt[a].result
  <2>1. attempt[a] \in AttemptRecord
    BY RecordsTyped DEF StoreInv
  <2> QED
    BY <1>1, <2>1, StartedFields, StartKept
<1>4. AttemptGrows(a)
  BY <1>1, <1>2 DEF AttemptGrows
<1>3. StoreGrows
  BY <1>1, <1>4, GrowsAt DEF JobGrows
<1> QED
  BY <1>1, <1>2, <1>3

LEMMA ReportGrows ==
  ASSUME StoreInv, NEW j \in JobId, NEW a \in AttemptId, NEW d \in Device,
         NEW rep \in Report, ReportJob(j, a, d, rep)
  PROVE  /\ StoreGrows /\ UNCHANGED fence
         /\ attempt'[a].phase = "terminal" /\ attempt'[a].report = rep
         /\ attempt[a].phase # "none" /\ attempt'[a].result = attempt[a].result
         /\ \A b \in AttemptId \ {a} : attempt'[b] = attempt[b]
         /\ \A i \in JobId : job'[i].status # "none" => job[i].status # "none"
<1>1. /\ job'[j] = Ended(job[j]) /\ attempt'[a] = Reported(attempt[a], rep)
      /\ \A i \in JobId \ {j} : job'[i] = job[i]
      /\ \A b \in AttemptId \ {a} : attempt'[b] = attempt[b]
      /\ job[j].status = "active" /\ attempt[a].phase \in {"claimed", "running"}
      /\ UNCHANGED fence
  BY DEF ReportJob, ReportAccepts, StoreInv, TypeOK
<1>2. JobGrows(j)
  BY <1>1, RecordsTyped, JobFields, JobKept DEF JobGrows, StoreInv
<1>3. /\ AttemptGrows(a) /\ attempt'[a].phase = "terminal" /\ attempt'[a].report = rep
      /\ attempt'[a].result = attempt[a].result
  BY <1>1, RecordsTyped, ReportedFields, AttemptKept DEF AttemptGrows, StoreInv
<1>4. StoreGrows
  BY <1>1, <1>2, <1>3, GrowsAt
<1> QED
  BY <1>1, <1>3, <1>4

LEMMA RecordGrows ==
  ASSUME StoreInv, NEW j \in JobId, NEW a \in AttemptId, NEW d \in Device,
         NEW p \in Payload, RecordJobResult(j, a, d, p, "automatic")
  PROVE  /\ StoreGrows /\ UNCHANGED <<job, fence>>
         /\ attempt'[a].result = p /\ attempt[a].phase # "none"
         /\ attempt'[a].phase = attempt[a].phase
         /\ attempt'[a].started = attempt[a].started
         /\ \A b \in AttemptId \ {a} : attempt'[b] = attempt[b]
<1>1. /\ attempt'[a] = WithResult(attempt[a], p) /\ UNCHANGED <<job, fence>>
      /\ \A b \in AttemptId \ {a} : attempt'[b] = attempt[b]
      /\ attempt[a].phase # "none"
  BY DEF RecordJobResult, Owns, StoreInv, TypeOK
<1>2. /\ AttemptGrows(a) /\ attempt'[a].result = p /\ attempt'[a].phase = attempt[a].phase
      /\ attempt'[a].started = attempt[a].started
  BY <1>1, RecordsTyped, WithResultFields, AttemptKept, NoneIsNew DEF AttemptGrows, StoreInv
<1>3. StoreGrows
  BY <1>1, <1>2, GrowsAt DEF JobGrows
<1> QED
  BY <1>1, <1>2, <1>3

-----------------------------------------------------------------------------
(***************************************************************************)
(* What the parts of the invariant survive.                                *)
(***************************************************************************)
\* An attempt of the store has its job, and they end together.
LEMMA Linked ==
  ASSUME StoreInv, NEW a \in AttemptId, attempt[a].phase # "none"
  PROVE  /\ attempt[a].job \in JobId
         /\ job[attempt[a].job].latest = a
         /\ job[attempt[a].job].status \in {"active", "terminal"}
         /\ job[attempt[a].job].status = "terminal" <=> attempt[a].phase = "terminal"
<1>1. attempt[a].job \in JobId /\ job[attempt[a].job].latest = a
  BY DEF StoreInv, OneAttemptPerJob, AttemptLinked
<1> QED
  BY <1>1, NoneIsNew DEF StoreInv, JobAttemptAgree, JobAgrees, NoJob, TypeOK, JobRecord

LEMMA JobOfAttemptKept ==
  ASSUME StoreInv, StoreGrows, NEW a \in AttemptId, attempt[a].phase # "none"
  PROVE  /\ attempt'[a].phase # "none" /\ attempt'[a].job = attempt[a].job
         /\ job'[attempt[a].job].result_target = job[attempt[a].job].result_target
         /\ job[attempt[a].job].status = "terminal" =>
              job'[attempt[a].job] = job[attempt[a].job]
<1>1. attempt[a].job \in JobId /\ job[attempt[a].job].status # "none"
  BY Linked
<1> QED
  BY <1>1 DEF StoreGrows, JobGrows, AttemptGrows

\* What happens in Orca to an attempt is never undone.
OrcaGrows ==
  /\ \A a \in AttemptId : orca[a].turn => orca'[a].turn
  /\ produced \subseteq produced'

LEMMA OutboxFrame ==
  ASSUME ConnInv, StoreGrows, OrcaGrows,
         NEW a \in AttemptId, outbox'[a] = outbox[a] \/ outbox'[a] = None
  PROVE  OutboxOK(a)'
<1> SUFFICES ASSUME outbox'[a] # None, outbox'[a] = outbox[a]
             PROVE  OutboxOK(a)'
  BY DEF OutboxOK
<1>1. attempt[a].phase # "none" /\ OutboxOK(a)
  BY DEF ConnInv, AttemptOK, Drawn
<1>2. attempt[a].started => attempt'[a].started
  BY <1>1 DEF StoreGrows, AttemptGrows
<1>3. /\ attempt'[a].job = attempt[a].job
      /\ job'[attempt[a].job].result_target = job[attempt[a].job].result_target
  BY <1>1, JobOfAttemptKept DEF ConnInv
<1> QED
  BY <1>1, <1>2, <1>3 DEF OutboxOK, OrcaGrows

LEMMA HistoryFrame ==
  ASSUME ConnInv, StoreGrows, NEW a \in AttemptId, history'[a] = history[a]
  PROVE  HistoryOK(a)'
<1> SUFFICES ASSUME history[a] # None PROVE HistoryOK(a)'
  BY DEF HistoryOK
<1>1. attempt[a].phase = "terminal" /\ HistoryOK(a)
  BY DEF ConnInv, AttemptOK, HistoryOK
<1>2. /\ attempt'[a].job = attempt[a].job
      /\ job'[attempt[a].job] = job[attempt[a].job]
  BY <1>1, Linked, JobOfAttemptKept DEF ConnInv
<1>3. attempt'[a].phase = "terminal" /\ attempt'[a].report = attempt[a].report
  BY <1>1 DEF StoreGrows, AttemptGrows
<1> QED
  BY <1>1, <1>2, <1>3 DEF HistoryOK

\* An operator's cancel of an attempt stays.
LEMMA CancelStays ==
  ASSUME StoreInv, StoreGrows, NEW a \in AttemptId, attempt[a].phase # "none",
         ServerCancelled(attempt[a].job)
  PROVE  ServerCancelled(attempt[a].job)'
<1>1. /\ attempt'[a].job = attempt[a].job
      /\ job'[attempt[a].job] = job[attempt[a].job]
  BY JobOfAttemptKept DEF ServerCancelled
<1> QED
  BY <1>1 DEF ServerCancelled

\* The marker stays on its attempt, or moves on without being finalized.
LEMMA FilesFrame ==
  ASSUME ConnInv, StoreGrows, NEW a \in AttemptId,
         outbox'[a] = outbox[a], history'[a] = history[a],
         outbox[a] # None /\ Mine(a) => Mine(a)',
         Mine(a)' /\ active'.phase = "FinalizedLocal" =>
           Mine(a) /\ active.phase = "FinalizedLocal" /\ active'.digest = active.digest
  PROVE  FilesOK(a)'
<1>1. FilesOK(a) /\ Drawn(a) /\ (Mine(a) /\ active.phase = "FinalizedLocal" => attempt[a].phase # "none")
  BY DEF ConnInv, AttemptOK, Mine, MarkerInv
<1>2. outbox[a] # None => attempt[a].phase # "none"
  BY <1>1 DEF Drawn
<1>3. attempt[a].phase # "none" /\ ServerCancelled(attempt[a].job) => ServerCancelled(attempt[a].job)'
  BY CancelStays DEF ConnInv
<1> QED
  BY <1>1, <1>2, <1>3 DEF FilesOK

\* An attempt that ends in the step does not end as COMPLETED.
LEMMA CompletedFrame ==
  ASSUME ConnInv, StoreGrows, OrcaGrows, NEW a \in AttemptId,
         attempt'[a].phase = "terminal" /\ attempt[a].phase # "terminal" =>
           attempt'[a].report.execution_status # "COMPLETED"
  PROVE  CompletedOK(a)'
<1> SUFFICES ASSUME attempt[a].phase = "terminal" PROVE CompletedOK(a)'
  BY DEF CompletedOK
<1>1. CompletedOK(a)
  BY DEF ConnInv, AttemptOK, CompletedOK
<1>2. /\ attempt'[a].job = attempt[a].job
      /\ job'[attempt[a].job].result_target = job[attempt[a].job].result_target
  BY JobOfAttemptKept DEF ConnInv
<1>3. /\ attempt'[a].device = attempt[a].device /\ attempt'[a].report = attempt[a].report
      /\ attempt[a].result # None => attempt'[a].result # None
  BY DEF StoreGrows, AttemptGrows
<1> QED
  BY <1>1, <1>2, <1>3 DEF CompletedOK, OrcaGrows

-----------------------------------------------------------------------------
(***************************************************************************)
(* A drive that moves the marker on: the files stay, and Orca has at most  *)
(* seen more.                                                              *)
(***************************************************************************)
Places == {"down", "boot", "flush", "loop", "poll"}

FilesStay == UNCHANGED <<delivery, outbox, history, receipt, used, executor, produced>>

\* The daemon is where it was, or its drive has ended.
MovesPlace == pc' = pc \/ (delivery = None /\ pc' \in Places \ {"poll"})

\* The marker keeps its attempt, and is not finalized by the step.
SameAttempt(rec) ==
  /\ rec \in ActiveAttempt
  /\ rec.job = active.job /\ rec.attempt = active.attempt /\ rec.digest = active.digest
  /\ \/ rec.phase = active.phase
     \/ /\ active.phase \notin {"OutcomeRecorded", "FinalizedLocal"}
        /\ rec.phase # "FinalizedLocal"

\* A worker that this attempt may have next.
WorkerGrows(a, w) == w \in Worker /\ (orca[a].turn => w.turn)

RecFits(rec, w, started) ==
  /\ PhaseOK(rec, started)
  /\ WorkOK(rec, w.turn, active.attempt \in produced)
  /\ DispatchOK(rec, executor, w.sent)

LEMMA MarkerType ==
  ASSUME ConnTypeOK, active # None
  PROVE  /\ active \in ActiveAttempt
         /\ active.job \in JobId /\ active.attempt \in AttemptId /\ active.attempt \in used
         /\ orca[active.attempt] \in Worker
         /\ job[active.job].status # "none"
<1>1. active \in ActiveAttempt /\ active.attempt \in used /\ job[active.job].status # "none"
  BY DEF ConnTypeOK
<1>2. active.job \in JobId /\ active.attempt \in AttemptId
  BY <1>1 DEF ActiveAttempt
<1> QED
  BY <1>1, <1>2 DEF ConnTypeOK

LEMMA MarkerMoves ==
  ASSUME ConnInv, StoreInv', StoreGrows, UNCHANGED fence, FilesStay, MovesPlace,
         active # None,
         NEW rec, SameAttempt(rec), active' = rec,
         NEW w, WorkerGrows(active.attempt, w),
         orca' = [orca EXCEPT ![active.attempt] = w],
         WorkerOK(w, executor, active.attempt \in produced),
         NEW started \in BOOLEAN, attempt'[active.attempt].started = started,
         RecFits(rec, w, started),
         rec.phase # "ClaimIntent" =>
           /\ attempt'[active.attempt].phase # "none"
           /\ rec.result_target = job[active.job].result_target,
         w # NoWorker /\ orca[active.attempt] = NoWorker =>
           attempt[active.attempt].phase # "none",
         \A j \in JobId : job'[j].status # "none" => job[j].status # "none",
         \A b \in AttemptId : b # active.attempt => attempt'[b] = attempt[b],
         attempt'[active.attempt].phase # "none" =>
           /\ attempt'[active.attempt].job = active.job
           /\ attempt'[active.attempt].device = Self,
         attempt'[active.attempt].phase = "terminal" =>
           attempt[active.attempt].phase = "terminal"
  PROVE  ConnInv'
<1> DEFINE a == active.attempt
<1>a. /\ active \in ActiveAttempt /\ a \in AttemptId /\ active.job \in JobId /\ a \in used
      /\ orca[a] \in Worker /\ job[active.job].status # "none"
  BY MarkerType DEF ConnInv
<1>b. rec \in ActiveAttempt /\ rec # None /\ rec.attempt = a /\ rec.job = active.job
  BY NoneIsNoFile DEF SameAttempt
<1>c. /\ orca'[a] = w /\ \A b \in AttemptId : b # a => orca'[b] = orca[b]
      /\ orca' \in [AttemptId -> Worker]
  BY <1>a DEF WorkerGrows, ConnInv, ConnTypeOK
<1>d. OrcaGrows
  BY <1>a, <1>c DEF OrcaGrows, WorkerGrows, FilesStay
<1>e. /\ job'[active.job].status # "none"
      /\ job'[active.job].result_target = job[active.job].result_target
  BY <1>a DEF StoreGrows, JobGrows
<1>f. UNCHANGED <<delivery, outbox, history, receipt, used, executor, produced>>
  BY DEF FilesStay
<1> HIDE DEF a
<1>1. StoreSide'
  <2>1. ASSUME NEW j \in JobId, job'[j].status # "none" PROVE job'[j].target \in Target
    BY <2>1 DEF StoreGrows, JobGrows, ConnInv, StoreSide
  <2> QED
    BY <2>1 DEF ConnInv, StoreSide
<1>2. ConnTypeOK'
  <2>1. TypeOK'
    BY DEF StoreInv
  <2>2. pc' \in Places
    BY DEF MovesPlace, ConnInv, ConnTypeOK, Places
  <2> QED
    BY <1>a, <1>b, <1>c, <1>e, <1>f, <2>1, <2>2 DEF ConnInv, ConnTypeOK, Places
<1>3. OrcaInv'
  BY <1>a, <1>c, <1>f DEF ConnInv, OrcaInv, a
<1>4. MarkerInv'
  <2>1. outbox[a] # None => rec.phase \in {"OutcomeRecorded", "FinalizedLocal"}
    BY DEF SameAttempt, ConnInv, MarkerInv, a
  <2> QED
    BY <1>b, <1>e, <1>f, <2>1 DEF MarkerInv, a
<1>5. RecInv'
  BY <1>b, <1>c, <1>f DEF RecInv, RecFits, a
<1>6. DeliveryInv'
  <2>1. delivery # None => delivery.attempt \in AttemptId
    BY DEF ConnInv, ConnTypeOK, Delivery
  <2>2. delivery # None /\ delivery.acked => attempt'[delivery.attempt].result # None
    <3> SUFFICES ASSUME delivery # None, delivery.acked
                 PROVE  attempt'[delivery.attempt].result # None
      OBVIOUS
    <3>1. outbox[delivery.attempt] # None /\ attempt[delivery.attempt].result # None
      BY DEF ConnInv, ConnTypeOK, DeliveryInv
    <3>2. attempt[delivery.attempt].phase # "none"
      BY <2>1, <3>1 DEF ConnInv, AttemptOK, Drawn
    <3> QED
      BY <2>1, <3>1, <3>2 DEF StoreGrows, AttemptGrows
  <2>3. pc # "poll" /\ (pc = "down" => delivery = None)
    BY DEF ConnInv, DeliveryInv
  <2> QED
    BY <1>f, <2>2, <2>3 DEF DeliveryInv, MovesPlace, Places
<1>7. ASSUME NEW b \in AttemptId
      PROVE  /\ Drawn(b)' /\ OutboxOK(b)' /\ HistoryOK(b)' /\ FilesOK(b)' /\ CompletedOK(b)'
             /\ Live(b)' => Mine(b)'
  <2>0. Drawn(b) /\ (Live(b) => Mine(b))
    BY DEF ConnInv, AttemptOK
  <2>1. Drawn(b)'
    <3>1. CASE b # a
      BY <1>c, <1>f, <2>0, <3>1 DEF Drawn, a
    <3>2. CASE b = a
      <4>1. attempt[a].phase # "none" => attempt'[a].phase # "none"
        BY <1>a DEF StoreGrows, AttemptGrows
      <4>2. attempt'[a].phase = "none" => ~attempt'[a].started
        <5>1. rec.phase = "ClaimIntent" => ~started
          BY DEF RecFits, PhaseOK, Early
        <5> QED
          BY <5>1 DEF a
      <4> QED
        BY <1>a, <1>c, <1>f, <2>0, <3>2, <4>1, <4>2 DEF Drawn, a
    <3> QED
      BY <3>1, <3>2
  <2>2. OutboxOK(b)'
    BY <1>d, <1>f, OutboxFrame
  <2>3. HistoryOK(b)'
    BY <1>f, HistoryFrame
  <2>4. FilesOK(b)'
    <3>1. Mine(b)' <=> Mine(b)
      BY <1>b DEF Mine, a
    <3>2. active'.phase = "FinalizedLocal" =>
            active.phase = "FinalizedLocal" /\ active'.digest = active.digest
      BY DEF SameAttempt
    <3> QED
      BY <1>f, <3>1, <3>2, FilesFrame
  <2>5. CompletedOK(b)'
    <3>1. attempt'[b].phase = "terminal" => attempt[b].phase = "terminal"
      BY DEF a
    <3> QED
      BY <1>d, <3>1, CompletedFrame
  <2>6. Live(b)' => Mine(b)'
    BY <1>b, <2>0 DEF Live, Mine, a
  <2> QED
    BY <2>1, <2>2, <2>3, <2>4, <2>5, <2>6
<1> QED
  BY <1>1, <1>2, <1>3, <1>4, <1>5, <1>6, <1>7 DEF ConnInv, AttemptOK

\* The same with the store as it was.
LEMMA DriveMoves ==
  ASSUME ConnInv, UNCHANGED storeVars, FilesStay, MovesPlace,
         active # None, active.phase # "ClaimIntent",
         NEW rec, SameAttempt(rec), active' = rec, rec.phase # "ClaimIntent",
         rec.result_target = active.result_target,
         NEW w, WorkerGrows(active.attempt, w),
         orca' = [orca EXCEPT ![active.attempt] = w],
         WorkerOK(w, executor, active.attempt \in produced),
         RecFits(rec, w, attempt[active.attempt].started)
  PROVE  ConnInv'
<1> DEFINE a == active.attempt
<1>a. /\ active \in ActiveAttempt /\ a \in AttemptId /\ active.job \in JobId /\ a \in used
  BY MarkerType DEF ConnInv
<1>1. UNCHANGED <<job, attempt, targetQueue, stream, requestKey, expired, fence>>
  BY DEF storeVars
<1>2. StoreInv'
  BY StoreInvStep DEF ConnInv
<1>3. StoreGrows
  BY <1>1, SameStoreGrows
<1>4. /\ attempt[a].phase # "none" /\ active.result_target = job[active.job].result_target
      /\ attempt[a].job = active.job
  BY DEF ConnInv, MarkerInv
<1>5. attempt[a].device = Self
  BY <1>a, <1>4 DEF ConnInv, AttemptOK, Drawn
<1>6. attempt[a].started \in BOOLEAN
  BY <1>a DEF ConnInv, ConnTypeOK, TypeOK, AttemptRecord
<1> DEFINE st == attempt[a].started
<1>7. st \in BOOLEAN /\ attempt'[active.attempt].started = st /\ RecFits(rec, w, st)
  BY <1>1, <1>6
<1> HIDE DEF st
<1> QED
  BY <1>1, <1>2, <1>3, <1>4, <1>5, <1>7, MarkerMoves

\* The same with Orca as it was, too.
LEMMA DriveAlone ==
  ASSUME ConnInv, UNCHANGED storeVars, UNCHANGED orca, FilesStay, MovesPlace,
         active # None, active.phase # "ClaimIntent",
         NEW rec, SameAttempt(rec), active' = rec, rec.phase # "ClaimIntent",
         rec.result_target = active.result_target,
         RecFits(rec, orca[active.attempt], attempt[active.attempt].started)
  PROVE  ConnInv'
<1> DEFINE w == orca[active.attempt]
<1>1. active.attempt \in AttemptId /\ w \in Worker
  BY MarkerType DEF ConnInv
<1>2. orca' = [orca EXCEPT ![active.attempt] = w]
  BY <1>1 DEF ConnInv, ConnTypeOK
<1>3. WorkerOK(w, executor, active.attempt \in produced) /\ WorkerGrows(active.attempt, w)
  BY <1>1 DEF ConnInv, OrcaInv, WorkerGrows
<1>4. RecFits(rec, w, attempt[active.attempt].started)
  OBVIOUS
<1> HIDE DEF w
<1> QED
  BY <1>2, <1>3, <1>4, DriveMoves

\* Where a drive leaves the daemon, whether it ends or exits.
LEMMA DriveEnds ==
  ASSUME ConnInv, NEW ph, Drives(ph)
  PROVE  /\ active # None /\ active.phase = ph /\ delivery = None
         /\ active \in ActiveAttempt
         /\ pc \in {"boot", "loop"}
         /\ Ends \/ Exits \/ Keeps => MovesPlace
         /\ OnlyActive => FilesStay
         /\ RecFits(active, orca[active.attempt], attempt[active.attempt].started)
<1>1. active # None /\ active.phase = ph /\ delivery = None /\ pc \in {"boot", "loop"}
  BY DEF Drives
<1>2. active \in ActiveAttempt
  BY <1>1, MarkerType DEF ConnInv
<1>3. Ends \/ Exits \/ Keeps => MovesPlace
  BY <1>1 DEF Ends, Exits, Keeps, MovesPlace, After, Places
<1> QED
  BY <1>1, <1>2, <1>3 DEF OnlyActive, FilesStay, ConnInv, RecInv, RecFits

\* What the updates of the marker leave in it.
Names(s, r) ==
  /\ s \in ActiveAttempt
  /\ s.job = r.job /\ s.attempt = r.attempt /\ s.digest = r.digest
  /\ s.result_target = r.result_target

Tells(s, r) ==
  /\ s.request = r.request /\ s.kind = r.kind /\ s.err = r.err
  /\ s.turnSent = r.turnSent /\ s.turnSeen = r.turnSeen

Counts(s, r) == s.sends = r.sends /\ s.last = r.last

LEMMA PhaseUpdate ==
  ASSUME NEW r \in ActiveAttempt, NEW ph \in AttemptPhase
  PROVE  LET s == [r EXCEPT !.phase = ph] IN
         Names(s, r) /\ Tells(s, r) /\ Counts(s, r) /\ s.phase = ph
  BY DEF ActiveAttempt, Names, Tells, Counts

LEMMA DeadlineUpdate ==
  ASSUME NEW r \in ActiveAttempt
  PROVE  LET s == WithDeadline(r) IN
         Names(s, r) /\ Tells(s, r) /\ Counts(s, r) /\ s.phase = r.phase
  BY DEF ActiveAttempt, WithDeadline, Names, Tells, Counts

LEMMA RecordsUpdate ==
  ASSUME NEW r \in ActiveAttempt,
         NEW kind \in OutcomeKind, NEW err \in OutcomeError
  PROVE  LET s == Records(r, kind, err) IN
         /\ Names(s, r) /\ Counts(s, r) /\ s.phase = "OutcomeRecorded"
         /\ s.kind = kind /\ s.err = err /\ s.request = r.request
         /\ s.turnSent = r.turnSent /\ s.turnSeen = r.turnSeen
<1> DEFINE s == Records(r, kind, err)
<1>1. s \in ActiveAttempt
  <2>1. "OutcomeRecorded" \in AttemptPhase
    BY DEF AttemptPhase
  <2> QED
    BY <2>1 DEF ActiveAttempt, Records
<1>2. /\ s.phase = "OutcomeRecorded" /\ s.kind = kind /\ s.err = err
      /\ s.request = r.request /\ s.turnSent = r.turnSent /\ s.turnSeen = r.turnSeen
  BY DEF ActiveAttempt, Records
<1>3. /\ s.job = r.job /\ s.attempt = r.attempt /\ s.digest = r.digest
      /\ s.result_target = r.result_target /\ s.sends = r.sends /\ s.last = r.last
  BY DEF ActiveAttempt, Records
<1> QED
  BY <1>1, <1>2, <1>3 DEF Names, Counts

\* A marker that only changed its phase, to one that asks no more of it.
LEMMA PhaseMoves ==
  ASSUME ConnInv, NEW ph, Drives(ph), ph \notin {"ClaimIntent", "OutcomeRecorded", "FinalizedLocal"},
         NEW rec, Names(rec, active), Tells(rec, active), Counts(rec, active),
         rec.phase \notin {"ClaimIntent", "OutcomeRecorded", "FinalizedLocal"},
         active' = rec, Ends \/ Exits \/ Keeps, OnlyActive, UNCHANGED <<storeVars, orca>>,
         RecFits(rec, orca[active.attempt], attempt[active.attempt].started)
  PROVE  ConnInv'
<1>1. SameAttempt(rec) /\ rec.result_target = active.result_target
  BY DriveEnds DEF SameAttempt, Names
<1> QED
  BY <1>1, DriveEnds, DriveAlone

\* An attempt given up for the recovery.
LEMMA FailsClosedKeeps ==
  ASSUME ConnInv, NEW ph, Drives(ph), ph \notin {"ClaimIntent", "OutcomeRecorded", "FinalizedLocal"},
         NEW r, Names(r, active), Tells(r, active),
         r.sends = 0 => r.last = "none",
         FailsClosed(r), OnlyActive, UNCHANGED <<storeVars, orca>>
  PROVE  ConnInv'
<1> DEFINE rec == [r EXCEPT !.phase = "RecoveryRequired"]
<1>1. r \in ActiveAttempt
  BY DEF Names
<1>2. /\ Names(rec, r) /\ Tells(rec, r) /\ Counts(rec, r) /\ rec.phase = "RecoveryRequired"
  BY <1>1, PhaseUpdate DEF AttemptPhase
<1>3. active' = rec /\ Exits
  BY DEF FailsClosed
<1> HIDE DEF rec
<1>4. Names(rec, active) /\ Tells(rec, active)
  BY <1>2 DEF Names, Tells
<1>5. active \in ActiveAttempt /\ active.phase = ph /\ active # None
      /\ RecFits(active, orca[active.attempt], attempt[active.attempt].started)
  BY DriveEnds
<1>6. RecFits(rec, orca[active.attempt], attempt[active.attempt].started)
  <2>1. PhaseOK(rec, attempt[active.attempt].started)
    BY <1>2, <1>4, <1>5 DEF RecFits, PhaseOK, Tells, Early
  <2>2. WorkOK(rec, orca[active.attempt].turn, active.attempt \in produced)
    BY <1>2, <1>4, <1>5 DEF RecFits, WorkOK, Tells, Names
  <2>3. DispatchOK(rec, executor, orca[active.attempt].sent)
    BY <1>2 DEF DispatchOK, Early, Counts
  <2> QED
    BY <2>1, <2>2, <2>3 DEF RecFits
<1>7. SameAttempt(rec) /\ rec.result_target = active.result_target /\ rec.phase # "ClaimIntent"
  BY <1>2, <1>4, <1>5 DEF SameAttempt, Names
<1> QED
  BY <1>3, <1>5, <1>6, <1>7, DriveEnds, DriveAlone

LEMMA MovesOnKeeps ==
  ASSUME ConnInv, MovesOn
  PROVE  ConnInv'
<1>1. PICK ph \in {"Claimed", "Dispatched", "Started"} :
        Drives(ph) /\ Advances(NextPhase[ph]) /\ Ends
        /\ OnlyActive /\ UNCHANGED <<storeVars, orca>>
  BY DEF MovesOn, NextPhase
<1>2. NextPhase[ph] \in {"PrepareIntent", "StartIntent", "Waiting"}
      /\ (ph = "Claimed" => NextPhase[ph] = "PrepareIntent")
      /\ (ph = "Dispatched" => NextPhase[ph] = "StartIntent")
      /\ (ph = "Started" => NextPhase[ph] = "Waiting")
  BY DEF NextPhase
<1> DEFINE next == NextPhase[ph]
           rec == [active EXCEPT !.phase = next]
<1>3. active \in ActiveAttempt /\ active.phase = ph
      /\ RecFits(active, orca[active.attempt], attempt[active.attempt].started)
  BY <1>1, DriveEnds
<1>4. Names(rec, active) /\ Tells(rec, active) /\ Counts(rec, active) /\ rec.phase = next
  <2> next \in AttemptPhase
    BY <1>2 DEF AttemptPhase
  <2> HIDE DEF next
  <2> QED
    BY <1>3, PhaseUpdate
<1>5. active' = rec
  BY <1>1 DEF Advances
<1> HIDE DEF rec
<1>6. RecFits(rec, orca[active.attempt], attempt[active.attempt].started)
  BY <1>2, <1>3, <1>4 DEF RecFits, PhaseOK, WorkOK, DispatchOK, Early, Names, Tells, Counts,
     DefinitelyNotDispatched
<1>7. rec.phase \notin {"ClaimIntent", "OutcomeRecorded", "FinalizedLocal"}
  BY <1>2, <1>4
<1> QED
  BY <1>1, <1>4, <1>5, <1>6, <1>7, PhaseMoves

LEMMA ReadyUpdate ==
  ASSUME NEW r \in ActiveAttempt
  PROVE  LET s == Ready(r) IN
         /\ Names(s, r) /\ Counts(s, r) /\ s.phase = "StartIntent"
         /\ s.request = TRUE /\ s.kind = r.kind
<1> DEFINE d == WithDeadline(r)
<1>1. Names(d, r) /\ Tells(d, r) /\ Counts(d, r) /\ d.phase = r.phase
  BY DeadlineUpdate
<1>2. d \in ActiveAttempt
  BY <1>1 DEF Names
<1> HIDE DEF d
<1> DEFINE s == [d EXCEPT !.phase = "StartIntent", !.terminal = TRUE,
                   !.request = TRUE, !.turnSent = TRUE, !.turnSeen = TRUE]
<1>3. Names(s, d) /\ Counts(s, d) /\ s.phase = "StartIntent"
      /\ s.request = TRUE /\ s.kind = d.kind
  <2>1. "StartIntent" \in AttemptPhase
    BY DEF AttemptPhase
  <2> QED
    BY <1>2, <2>1 DEF ActiveAttempt, Names, Counts
<1>4. s = Ready(r)
  BY DEF Ready, d
<1> HIDE DEF s
<1> QED
  BY <1>1, <1>3, <1>4 DEF Names, Counts, Tells

\* A started worker is an agent with its one prompt.
LEMMA WorkerStartedOK ==
  ASSUME NEW w \in Worker, w.sent = 0, NEW made, executor = "logical"
  PROVE  /\ WorkerStarted(w) \in Worker /\ WorkerStarted(w).turn = TRUE
         /\ WorkerStarted(w).sent = 1
         /\ WorkerOK(WorkerStarted(w), executor, made)
<1>1. w.sent + 1 = 1 /\ 1 \in Nat
  OBVIOUS
<1>2. WorkerStarted(w) \in Worker
  BY <1>1 DEF Worker, WorkerStarted
<1>3. /\ WorkerStarted(w).turn = TRUE
      /\ WorkerStarted(w).sent = 1 /\ WorkerStarted(w).request = "completed"
      /\ WorkerStarted(w).agent = "working"
  BY <1>1 DEF Worker, WorkerStarted
<1> QED
  BY <1>2, <1>3 DEF WorkerOK

\* A worker that has started lets the attempt go on to its start.
LEMMA ReadyFits ==
  ASSUME ConnInv, PreparesLogical, NEW w, w.turn = TRUE
  PROVE  RecFits(Ready(active), w, attempt[active.attempt].started)
<1>1. /\ active \in ActiveAttempt /\ active.phase = "PrepareIntent"
      /\ RecFits(active, orca[active.attempt], attempt[active.attempt].started)
      /\ executor = "logical"
  BY DriveEnds DEF PreparesLogical
<1>2. /\ Names(Ready(active), active) /\ Counts(Ready(active), active)
      /\ Ready(active).phase = "StartIntent"
      /\ Ready(active).request = TRUE /\ Ready(active).kind = active.kind
  BY <1>1, ReadyUpdate
<1>3. PhaseOK(Ready(active), attempt[active.attempt].started)
  BY <1>1, <1>2 DEF RecFits, PhaseOK, Early
<1>4. active.kind = "none"
  BY <1>1 DEF RecFits, PhaseOK
<1>5. WorkOK(Ready(active), w.turn, active.attempt \in produced)
  BY <1>2, <1>4 DEF WorkOK
<1>6. DispatchOK(Ready(active), executor, w.sent)
  BY <1>1, <1>2 DEF RecFits, DispatchOK, Counts, Early
<1> QED
  BY <1>3, <1>5, <1>6 DEF RecFits

LEMMA LaunchKeeps ==
  ASSUME ConnInv, LaunchWorker
  PROVE  ConnInv'
<1> DEFINE a == active.attempt
<1>1. Drives("PrepareIntent") /\ executor = "logical" /\ OnlyActive /\ UNCHANGED storeVars
      /\ PreparesLogical /\ MayLaunch(a)
  BY DEF LaunchWorker, PreparesLogical
<1>2. /\ active \in ActiveAttempt /\ active.phase = "PrepareIntent" /\ active # None
      /\ RecFits(active, orca[a], attempt[a].started) /\ FilesStay
      /\ a \in AttemptId /\ orca[a] \in Worker
  BY <1>1, DriveEnds, MarkerType DEF ConnInv
<1>3. WorkerOK(orca[a], executor, a \in produced) /\ orca[a].agent = "none" /\ orca[a].sent = 0
  BY <1>1, <1>2 DEF ConnInv, OrcaInv, WorkerOK, MayLaunch
<1>4. Names(WithDeadline(active), active) /\ Tells(WithDeadline(active), active)
      /\ Counts(WithDeadline(active), active) /\ WithDeadline(active).phase = active.phase
  BY <1>2, DeadlineUpdate
<1>5. ASSUME NEW w \in Worker, orca[a].turn => w.turn,
             RecFits(active, w, attempt[a].started)
      PROVE  RecFits(WithDeadline(active), w, attempt[a].started)
  BY <1>2, <1>4, <1>5 DEF RecFits, PhaseOK, WorkOK, DispatchOK, Early, Names, Tells, Counts,
     DefinitelyNotDispatched
<1>6. CASE /\ orca' = [orca EXCEPT ![a] = WorkerStarted(@)]
           /\ \/ Gives(Ready(active))
              \/ active' = WithDeadline(active) /\ Exits
  <2> DEFINE w == WorkerStarted(orca[a])
  <2>1. /\ w \in Worker /\ w.turn = TRUE /\ w.sent = 1
        /\ WorkerOK(w, executor, a \in produced)
    BY <1>1, <1>2, <1>3, WorkerStartedOK
  <2>2. orca' = [orca EXCEPT ![a] = w]
    BY <1>6, <1>2 DEF ConnInv, ConnTypeOK
  <2> HIDE DEF w
  <2>3. CASE Gives(Ready(active))
    <3> DEFINE rec == Ready(active)
    <3>1. RecFits(rec, w, attempt[a].started)
      BY <1>1, <2>1, ReadyFits
    <3>2. SameAttempt(rec) /\ rec.phase = "StartIntent" /\ rec.result_target = active.result_target
      BY <1>2, ReadyUpdate DEF SameAttempt, Names
    <3>3. active' = rec /\ Ends
      BY <2>3 DEF Gives
    <3> HIDE DEF rec
    <3> QED
      BY <1>1, <1>2, <2>1, <2>2, <3>1, <3>2, <3>3, DriveMoves, DriveEnds DEF WorkerGrows
  <2>4. CASE active' = WithDeadline(active) /\ Exits
    <3> DEFINE rec == WithDeadline(active)
    <3>1. RecFits(active, w, attempt[a].started)
      BY <1>1, <1>2, <2>1 DEF RecFits, WorkOK, DispatchOK
    <3>2. RecFits(rec, w, attempt[a].started)
      BY <1>5, <2>1, <3>1
    <3>3. SameAttempt(rec) /\ rec.phase = "PrepareIntent" /\ rec.result_target = active.result_target
      BY <1>2, <1>4 DEF SameAttempt, Names
    <3> HIDE DEF rec
    <3>4. active' = rec
      BY <2>4 DEF rec
    <3> QED
      BY <1>1, <1>2, <2>1, <2>2, <2>4, <3>2, <3>3, <3>4, DriveMoves, DriveEnds DEF WorkerGrows
  <2> QED
    BY <1>6, <2>3, <2>4
<1>7. CASE orca' = [orca EXCEPT ![a].request = "pending"] /\ Gives(WithDeadline(active))
  <2> DEFINE w == [orca[a] EXCEPT !.request = "pending"]
             rec == WithDeadline(active)
  <2>1. /\ w \in Worker /\ w.turn = orca[a].turn /\ w.sent = 0 /\ w.request = "pending"
        /\ w.agent = orca[a].agent
    BY <1>2, <1>3 DEF Worker
  <2>2. orca' = [orca EXCEPT ![a] = w]
    BY <1>7, <1>2 DEF ConnInv, ConnTypeOK
  <2> HIDE DEF w
  <2>3. WorkerOK(w, executor, a \in produced)
    BY <1>1, <1>3, <2>1 DEF WorkerOK
  <2>4. RecFits(active, w, attempt[a].started)
    BY <1>2, <1>3, <2>1 DEF RecFits
  <2>5. RecFits(rec, w, attempt[a].started)
    BY <1>5, <2>1, <2>4
  <2>6. SameAttempt(rec) /\ rec.phase = "PrepareIntent" /\ rec.result_target = active.result_target
    BY <1>2, <1>4 DEF SameAttempt, Names
  <2>7. active' = rec /\ Ends
    BY <1>7 DEF Gives
  <2> HIDE DEF rec
  <2> QED
    BY <1>1, <1>2, <2>1, <2>2, <2>3, <2>5, <2>6, <2>7, DriveMoves, DriveEnds DEF WorkerGrows
<1> QED
  BY <1>6, <1>7 DEF LaunchWorker

\* Setting the deadline leaves all that the invariant reads.
LEMMA DeadlineFits ==
  ASSUME NEW r \in ActiveAttempt, NEW w, NEW started, RecFits(r, w, started)
  PROVE  RecFits(WithDeadline(r), w, started)
<1>1. /\ Names(WithDeadline(r), r) /\ Tells(WithDeadline(r), r)
      /\ Counts(WithDeadline(r), r) /\ WithDeadline(r).phase = r.phase
  BY DeadlineUpdate
<1> QED
  BY <1>1 DEF RecFits, PhaseOK, WorkOK, DispatchOK, Early, Names, Tells, Counts,
     DefinitelyNotDispatched

LEMMA AdoptKeeps ==
  ASSUME ConnInv, AdoptWorker
  PROVE  ConnInv'
<1> DEFINE a == active.attempt
<1>1. Drives("PrepareIntent") /\ OnlyActive /\ UNCHANGED <<storeVars, orca>> /\ PreparesLogical
  BY DEF AdoptWorker, PreparesLogical
<1>2. /\ active \in ActiveAttempt /\ active.phase = "PrepareIntent" /\ active # None
      /\ RecFits(active, orca[a], attempt[a].started) /\ FilesStay
      /\ a \in AttemptId
  BY <1>1, DriveEnds, MarkerType DEF ConnInv
<1> DEFINE d == WithDeadline(active)
<1>3. Names(d, active) /\ Tells(d, active) /\ Counts(d, active) /\ d.phase = active.phase
      /\ RecFits(d, orca[a], attempt[a].started)
  BY <1>2, DeadlineUpdate, DeadlineFits
<1>4. CASE orca[a].request = "completed" /\ Gives(Ready(active))
  <2> DEFINE rec == Ready(active)
  <2>1. orca[a].turn = TRUE
    BY <1>2, <1>4 DEF ConnInv, OrcaInv, WorkerOK, ConnTypeOK, Worker
  <2>2. RecFits(rec, orca[a], attempt[a].started)
    BY <1>1, <2>1, ReadyFits
  <2>3. SameAttempt(rec) /\ rec.phase = "StartIntent" /\ rec.result_target = active.result_target
    BY <1>2, ReadyUpdate DEF SameAttempt, Names
  <2>4. active' = rec /\ Ends
    BY <1>4 DEF Gives
  <2> HIDE DEF rec
  <2> QED
    BY <1>1, <1>2, <2>2, <2>3, <2>4, DriveEnds, DriveAlone
<1>5. CASE Gives(WithDeadline(active))
  <2>1. active' = d /\ Ends
    BY <1>5 DEF Gives
  <2> HIDE DEF d
  <2> QED
    BY <1>1, <1>2, <1>3, <2>1, PhaseMoves
<1>6. CASE FailsClosed(WithDeadline(active))
  <2>1. FailsClosed(d)
    BY <1>6
  <2>2. d.sends = 0 => d.last = "none"
    BY <1>3 DEF RecFits, DispatchOK
  <2> HIDE DEF d
  <2> QED
    BY <1>1, <1>3, <2>1, <2>2, FailsClosedKeeps
<1> QED
  BY <1>4, <1>5, <1>6 DEF AdoptWorker

\* The phases from which an attempt may be given up as it is.
LEMMA FailsAsItIs ==
  ASSUME ConnInv, NEW ph, Drives(ph), ph \notin {"ClaimIntent", "OutcomeRecorded", "FinalizedLocal"},
         FailsClosed(active), OnlyActive, UNCHANGED <<storeVars, orca>>
  PROVE  ConnInv'
<1>1. active \in ActiveAttempt /\ RecFits(active, orca[active.attempt], attempt[active.attempt].started)
  BY DriveEnds
<1>2. Names(active, active) /\ Tells(active, active) /\ (active.sends = 0 => active.last = "none")
  BY <1>1 DEF Names, Tells, RecFits, DispatchOK
<1> QED
  BY <1>2, FailsClosedKeeps

LEMMA PrepareFailsKeeps ==
  ASSUME ConnInv, PrepareFails \/ TerminalVanished
  PROVE  ConnInv'
<1>1. /\ Drives("PrepareIntent") /\ FailsClosed(active) /\ OnlyActive
      /\ UNCHANGED <<storeVars, orca>>
  BY DEF PrepareFails, TerminalVanished
<1> QED
  BY <1>1, FailsAsItIs

\* A marker a step leaves as it was.
LEMMA MarkerAsItWas ==
  ASSUME NEW r \in ActiveAttempt
  PROVE  Names(r, r) /\ Tells(r, r) /\ Counts(r, r)
  BY DEF Names, Tells, Counts

LEMMA PrepareTerminalKeeps ==
  ASSUME ConnInv, PrepareTerminal
  PROVE  ConnInv'
<1> DEFINE a == active.attempt
           w == [orca[a] EXCEPT !.agent = IF @ \in {"none", "gone"} THEN "idle" ELSE @]
<1>1. Drives("PrepareIntent") /\ executor = "command" /\ OnlyActive /\ UNCHANGED storeVars
  BY DEF PrepareTerminal
<1>2. /\ active \in ActiveAttempt /\ active.phase = "PrepareIntent" /\ active # None
      /\ RecFits(active, orca[a], attempt[a].started) /\ FilesStay
      /\ a \in AttemptId /\ orca[a] \in Worker
  BY <1>1, DriveEnds, MarkerType DEF ConnInv
<1>3. /\ w \in Worker /\ w.sent = orca[a].sent /\ w.turn = orca[a].turn
      /\ w.request = orca[a].request
      /\ w.agent = (IF orca[a].agent \in {"none", "gone"} THEN "idle" ELSE orca[a].agent)
  BY <1>2 DEF Worker
<1>4. orca' = [orca EXCEPT ![a] = w]
  BY <1>2 DEF PrepareTerminal, ConnInv, ConnTypeOK
<1> HIDE DEF w
<1>5. WorkerOK(w, executor, a \in produced)
  <2>1. WorkerOK(orca[a], executor, a \in produced)
    BY <1>2 DEF ConnInv, OrcaInv
  <2> QED
    BY <1>3, <2>1 DEF WorkerOK
<1>6. active.sends = 0 /\ w.sent = 0
  BY <1>1, <1>2, <1>3 DEF RecFits, DispatchOK, Early
<1>7. PICK rec : /\ \/ rec = [active EXCEPT !.phase = "Prepared", !.terminal = TRUE]
                    \/ rec = [active EXCEPT !.terminal = TRUE]
                    \/ rec = active
                 /\ active' = rec /\ (Ends \/ Exits)
  BY DEF PrepareTerminal, Gives
<1>8. /\ Names(rec, active) /\ Tells(rec, active) /\ Counts(rec, active)
      /\ rec.phase \in {"Prepared", "PrepareIntent"}
  <2>1. "Prepared" \in AttemptPhase
    BY DEF AttemptPhase
  <2>2. CASE rec = [active EXCEPT !.phase = "Prepared", !.terminal = TRUE]
    BY <1>2, <2>1, <2>2 DEF ActiveAttempt, Names, Tells, Counts
  <2>3. CASE rec = [active EXCEPT !.terminal = TRUE]
    BY <1>2, <2>3 DEF ActiveAttempt, Names, Tells, Counts
  <2>4. CASE rec = active
    BY <1>2, <2>4, MarkerAsItWas
  <2> QED
    BY <1>7, <2>2, <2>3, <2>4
<1>9. RecFits(rec, w, attempt[a].started)
  <2>1. PhaseOK(rec, attempt[a].started)
    BY <1>2, <1>8 DEF RecFits, PhaseOK, Early, Tells
  <2>2. WorkOK(rec, w.turn, a \in produced)
    BY <1>2, <1>3, <1>8 DEF RecFits, WorkOK, Tells, Names
  <2>3. DispatchOK(rec, executor, w.sent)
    BY <1>1, <1>2, <1>6, <1>8 DEF RecFits, DispatchOK, Early, Counts
  <2> QED
    BY <2>1, <2>2, <2>3 DEF RecFits
<1>10. SameAttempt(rec) /\ rec.phase # "ClaimIntent" /\ rec.result_target = active.result_target
  BY <1>2, <1>8 DEF SameAttempt, Names
<1> QED
  BY <1>1, <1>2, <1>3, <1>4, <1>5, <1>7, <1>9, <1>10, DriveEnds, DriveMoves DEF WorkerGrows

LEMMA PreparedKeeps ==
  ASSUME ConnInv, Prepared
  PROVE  ConnInv'
<1> DEFINE a == active.attempt
           d == WithDeadline(active)
           rec == [d EXCEPT !.phase = "DispatchIntent"]
<1>1. Drives("Prepared") /\ OnlyActive /\ UNCHANGED <<storeVars, orca>> /\ active' = rec /\ Ends
  BY DEF Prepared, Gives
<1>2. /\ active \in ActiveAttempt /\ active.phase = "Prepared" /\ active # None
      /\ RecFits(active, orca[a], attempt[a].started)
      /\ executor \in {"logical", "command"}
  BY <1>1, DriveEnds DEF ConnInv, ConnTypeOK
<1>3. Names(d, active) /\ Tells(d, active) /\ Counts(d, active) /\ d \in ActiveAttempt
  BY <1>2, DeadlineUpdate DEF Names
<1> HIDE DEF d
<1>4. Names(rec, d) /\ Tells(rec, d) /\ Counts(rec, d) /\ rec.phase = "DispatchIntent"
  BY <1>3, PhaseUpdate DEF AttemptPhase
<1>5. active' = rec
  BY <1>1
<1> HIDE DEF rec
<1>6. Names(rec, active) /\ Tells(rec, active) /\ Counts(rec, active)
  BY <1>3, <1>4 DEF Names, Tells, Counts
<1>7. RecFits(rec, orca[a], attempt[a].started)
  <2>1. executor = "command" /\ active.sends = 0 /\ orca[a].sent = 0
    BY <1>2 DEF RecFits, DispatchOK, Early
  <2>2. PhaseOK(rec, attempt[a].started) /\ WorkOK(rec, orca[a].turn, a \in produced)
    BY <1>2, <1>4, <1>6 DEF RecFits, PhaseOK, WorkOK, Early, Tells, Names
  <2>3. DispatchOK(rec, executor, orca[a].sent)
    BY <1>2, <1>4, <1>6, <2>1 DEF RecFits, DispatchOK, Early, Counts
  <2> QED
    BY <2>2, <2>3 DEF RecFits
<1> QED
  BY <1>1, <1>4, <1>5, <1>6, <1>7, PhaseMoves

(***************************************************************************)
(* A send.  What the file remembers when a send is allowed rules out that  *)
(* an earlier one arrived.                                                 *)
(***************************************************************************)
LEMMA NothingSentYet ==
  ASSUME ConnInv, MaySend
  PROVE  /\ active # None /\ active \in ActiveAttempt /\ active.phase = "DispatchIntent"
         /\ executor = "command"
         /\ orca[active.attempt].sent = 0
         /\ active.sends \in {0, 1} /\ (active.sends = 0 => active.last = "none")
         /\ RecFits(active, orca[active.attempt], attempt[active.attempt].started)
         /\ ~active.request /\ active.kind = "none"
         /\ ~attempt[active.attempt].started
<1>1. /\ active # None /\ active \in ActiveAttempt /\ active.phase = "DispatchIntent"
      /\ RecFits(active, orca[active.attempt], attempt[active.attempt].started)
      /\ active.attempt \in AttemptId /\ orca[active.attempt] \in Worker
  BY DriveEnds, MarkerType DEF MaySend, ConnInv
<1>2. executor = "command"
  BY <1>1 DEF RecFits, DispatchOK, ConnInv, ConnTypeOK
<1>3. active.sends \in 0..2 /\ active.sends < 2 /\ DefinitelyNotDispatched(active)
  BY <1>1 DEF MaySend, ActiveAttempt
<1>4. active.sends \in {0, 1} /\ ~(active.sends > 1)
  BY <1>3
<1>5. orca[active.attempt].sent \in Nat
  BY <1>1 DEF Worker
<1>6. ~(orca[active.attempt].sent > 0)
  BY <1>1, <1>3, <1>4 DEF RecFits, DispatchOK
<1>7. active.sends = 0 => active.last = "none"
  BY <1>1 DEF RecFits, DispatchOK
<1>8. ~active.request /\ active.kind = "none" /\ ~attempt[active.attempt].started
  BY <1>1 DEF RecFits, PhaseOK, Early
<1> QED
  BY <1>1, <1>2, <1>4, <1>5, <1>6, <1>7, <1>8

LEMMA CountedUpdate ==
  ASSUME NEW r \in ActiveAttempt, r.sends \in {0, 1}
  PROVE  LET s == Counted(r) IN
         /\ Names(s, r) /\ Tells(s, r) /\ s.phase = r.phase
         /\ s.last = r.last /\ s.sends = r.sends + 1
<1>1. r.sends + 1 \in 0..2
  OBVIOUS
<1> QED
  BY <1>1 DEF ActiveAttempt, Counted, Names, Tells

\* The marker after a send that arrived, or may have.
LEMMA AcceptedUpdate ==
  ASSUME NEW r \in ActiveAttempt, r.sends \in {0, 1}, NEW turn \in BOOLEAN
  PROVE  LET s == Accepted(r, turn) IN
         /\ Names(s, r) /\ s.phase = "Dispatched" /\ s.request = TRUE
         /\ s.kind = r.kind /\ s.err = r.err /\ s.turnSent = turn /\ s.turnSeen = r.turnSeen
         /\ s.last = "none" /\ s.sends = r.sends + 1
<1> DEFINE c == Counted(r)
<1>1. Names(c, r) /\ Tells(c, r) /\ c.sends = r.sends + 1 /\ c \in ActiveAttempt
  BY CountedUpdate DEF Names
<1> HIDE DEF c
<1> DEFINE s == [c EXCEPT !.phase = "Dispatched", !.request = TRUE, !.turnSent = turn,
                   !.last = "none"]
<1>2. /\ Names(s, c) /\ s.phase = "Dispatched" /\ s.request = TRUE
      /\ s.kind = c.kind /\ s.err = c.err /\ s.turnSent = turn /\ s.turnSeen = c.turnSeen
      /\ s.last = "none" /\ s.sends = c.sends
  <2>1. "Dispatched" \in AttemptPhase
    BY DEF AttemptPhase
  <2> QED
    BY <1>1, <2>1 DEF ActiveAttempt, Names
<1>3. s = Accepted(r, turn)
  BY DEF Accepted, c
<1> HIDE DEF s
<1> QED
  BY <1>1, <1>2, <1>3 DEF Names, Tells

LEMMA MarksUpdate ==
  ASSUME NEW r \in ActiveAttempt, r.sends \in {0, 1},
         NEW last \in {"known_rejected", "ambiguous"}
  PROVE  LET s == [Counted(r) EXCEPT !.last = last] IN
         /\ Names(s, r) /\ Tells(s, r) /\ s.phase = r.phase
         /\ s.last = last /\ s.sends = r.sends + 1
<1> DEFINE c == Counted(r)
<1>1. Names(c, r) /\ Tells(c, r) /\ c.sends = r.sends + 1 /\ c \in ActiveAttempt
      /\ c.phase = r.phase
  BY CountedUpdate DEF Names
<1> HIDE DEF c
<1> DEFINE s == [c EXCEPT !.last = last]
<1>2. /\ Names(s, c) /\ Tells(s, c) /\ s.phase = c.phase /\ s.last = last /\ s.sends = c.sends
  BY <1>1 DEF ActiveAttempt, Names, Tells
<1>3. s = [Counted(r) EXCEPT !.last = last]
  BY DEF c
<1> HIDE DEF s
<1> QED
  BY <1>1, <1>2, <1>3 DEF Names, Tells

\* A marker in DispatchIntent after a send of which "sent" prompts arrived.
LEMMA SentFits ==
  ASSUME ConnInv, MaySend,
         NEW rec, Names(rec, active), Tells(rec, active), rec.phase = "DispatchIntent",
         rec.sends = active.sends + 1,
         NEW w, orca[active.attempt].turn => w.turn,
         w.sent = 0 \/ (w.sent = 1 /\ rec.last \in {"ambiguous", active.last})
  PROVE  RecFits(rec, w, attempt[active.attempt].started)
<1>1. /\ executor = "command" /\ active.sends \in {0, 1}
      /\ (active.sends = 0 => active.last = "none")
      /\ RecFits(active, orca[active.attempt], attempt[active.attempt].started)
      /\ active.phase = "DispatchIntent"
  BY NothingSentYet
<1>2. PhaseOK(rec, attempt[active.attempt].started)
  BY <1>1 DEF RecFits, PhaseOK, Tells
<1>3. WorkOK(rec, w.turn, active.attempt \in produced)
  BY <1>1 DEF RecFits, WorkOK, Tells, Names
<1>4. rec.sends \in {1, 2} /\ (active.sends = 1 => rec.sends > 1)
  BY <1>1
<1>5. DispatchOK(rec, executor, w.sent)
  BY <1>1, <1>4 DEF DispatchOK, DefinitelyNotDispatched, Early
<1> QED
  BY <1>2, <1>3, <1>5 DEF RecFits

LEMMA SendPromptKeeps ==
  ASSUME ConnInv, SendPrompt
  PROVE  ConnInv'
<1> DEFINE a == active.attempt
<1>1. Drives("DispatchIntent") /\ MaySend /\ OnlyActive /\ UNCHANGED storeVars
      /\ orca[a].agent \notin {"none", "gone"}
  BY DEF SendPrompt, MaySend
<1>2. /\ active \in ActiveAttempt /\ active.phase = "DispatchIntent" /\ active # None
      /\ FilesStay /\ a \in AttemptId /\ orca[a] \in Worker
  BY <1>1, DriveEnds, MarkerType DEF ConnInv
<1>3. /\ executor = "command" /\ orca[a].sent = 0 /\ active.sends \in {0, 1}
      /\ active.kind = "none" /\ ~attempt[a].started
  BY <1>1, NothingSentYet
<1>4. PICK turn \in BOOLEAN :
        /\ orca' = [orca EXCEPT ![a] = Prompted(@, turn)]
        /\ \/ Gives(Accepted(active, turn))
           \/ Gives([Counted(active) EXCEPT !.last = "ambiguous"])
           \/ active' = Counted(active) /\ Exits
  BY DEF SendPrompt
<1> DEFINE w == Prompted(orca[a], turn)
<1>5. w \in Worker /\ w.sent = 1 /\ (orca[a].turn => w.turn) /\ (turn => w.turn)
      /\ WorkerOK(w, executor, a \in produced)
  <2>1. WorkerOK(orca[a], executor, a \in produced)
    BY <1>2 DEF ConnInv, OrcaInv
  <2>2. orca[a].sent + 1 = 1 /\ 1 \in Nat
    BY <1>3
  <2>3. CASE turn = TRUE
    <3>1. /\ w \in Worker /\ w.sent = 1 /\ w.turn = TRUE /\ w.agent = "working"
          /\ w.request = orca[a].request
      BY <1>2, <2>2, <2>3 DEF Worker, Prompted
    <3> QED
      BY <1>1, <1>3, <2>1, <3>1 DEF WorkerOK, ConnInv, ConnTypeOK
  <2>4. CASE turn = FALSE
    <3>1. /\ w \in Worker /\ w.sent = 1 /\ w.turn = orca[a].turn /\ w.agent = orca[a].agent
          /\ w.request = orca[a].request
      BY <1>2, <2>2, <2>4 DEF Worker, Prompted
    <3> QED
      BY <1>1, <1>3, <2>1, <2>4, <3>1 DEF WorkerOK, ConnInv, ConnTypeOK
  <2> QED
    BY <2>3, <2>4
<1>6. orca' = [orca EXCEPT ![a] = w]
  BY <1>2, <1>4 DEF ConnInv, ConnTypeOK
<1> HIDE DEF w
<1>7. ASSUME NEW rec, Names(rec, active), rec.phase \in {"DispatchIntent", "Dispatched"},
             RecFits(rec, w, attempt[a].started), active' = rec, Ends \/ Exits
      PROVE  ConnInv'
  <2>1. SameAttempt(rec) /\ rec.phase # "ClaimIntent" /\ rec.result_target = active.result_target
    BY <1>2, <1>7 DEF SameAttempt, Names
  <2> QED
    BY <1>1, <1>2, <1>5, <1>6, <1>7, <2>1, DriveEnds, DriveMoves DEF WorkerGrows
<1>8. CASE Gives(Accepted(active, turn))
  <2> DEFINE rec == Accepted(active, turn)
  <2>1. /\ Names(rec, active) /\ rec.phase = "Dispatched" /\ rec.request = TRUE
        /\ rec.kind = active.kind /\ rec.turnSent = turn /\ rec.turnSeen = active.turnSeen
        /\ rec.last = "none" /\ rec.sends = active.sends + 1
    BY <1>2, <1>3, AcceptedUpdate
  <2>2. active' = rec /\ Ends
    BY <1>8 DEF Gives
  <2> HIDE DEF rec
  <2>3. RecFits(rec, w, attempt[a].started)
    <3>1. PhaseOK(rec, attempt[a].started)
      BY <1>3, <2>1 DEF PhaseOK, Early
    <3>2. active.turnSeen => orca[a].turn
      BY <1>1, NothingSentYet DEF RecFits, WorkOK
    <3>3. WorkOK(rec, w.turn, a \in produced)
      BY <1>3, <1>5, <2>1, <3>2 DEF WorkOK
    <3>4. DispatchOK(rec, executor, w.sent)
      BY <1>3, <2>1 DEF DispatchOK, Early
    <3> QED
      BY <3>1, <3>3, <3>4 DEF RecFits
  <2> QED
    BY <1>7, <2>1, <2>2, <2>3
<1>9. CASE Gives([Counted(active) EXCEPT !.last = "ambiguous"])
  <2> DEFINE rec == [Counted(active) EXCEPT !.last = "ambiguous"]
  <2>1. /\ Names(rec, active) /\ Tells(rec, active) /\ rec.phase = active.phase
        /\ rec.last = "ambiguous" /\ rec.sends = active.sends + 1
    BY <1>2, <1>3, MarksUpdate
  <2>2. active' = rec /\ Ends
    BY <1>9 DEF Gives
  <2> HIDE DEF rec
  <2>3. RecFits(rec, w, attempt[a].started)
    BY <1>1, <1>2, <1>5, <2>1, SentFits
  <2> QED
    BY <1>2, <1>7, <2>1, <2>2, <2>3
<1>10. CASE active' = Counted(active) /\ Exits
  <2> DEFINE rec == Counted(active)
  <2>1. /\ Names(rec, active) /\ Tells(rec, active) /\ rec.phase = active.phase
        /\ rec.last = active.last /\ rec.sends = active.sends + 1
    BY <1>2, <1>3, CountedUpdate
  <2>2. active' = rec
    BY <1>10
  <2> HIDE DEF rec
  <2>3. RecFits(rec, w, attempt[a].started)
    BY <1>1, <1>2, <1>5, <2>1, SentFits
  <2> QED
    BY <1>2, <1>7, <1>10, <2>1, <2>2, <2>3
<1> QED
  BY <1>4, <1>8, <1>9, <1>10

LEMMA SendFailsKeeps ==
  ASSUME ConnInv, SendFails
  PROVE  ConnInv'
<1> DEFINE a == active.attempt
<1>1. Drives("DispatchIntent") /\ MaySend /\ OnlyActive /\ UNCHANGED <<storeVars, orca>>
  BY DEF SendFails, MaySend
<1>2. /\ active \in ActiveAttempt /\ active.phase = "DispatchIntent" /\ active # None
      /\ orca[a].sent = 0 /\ active.sends \in {0, 1}
  BY <1>1, NothingSentYet
<1>3. ASSUME NEW rec, Names(rec, active), Tells(rec, active), rec.phase = active.phase,
             rec.sends = active.sends + 1, active' = rec, Ends \/ Exits
      PROVE  ConnInv'
  <2>1. RecFits(rec, orca[a], attempt[a].started)
    BY <1>1, <1>2, <1>3, SentFits
  <2>2. SameAttempt(rec) /\ rec.phase # "ClaimIntent" /\ rec.result_target = active.result_target
    BY <1>2, <1>3 DEF SameAttempt, Names
  <2> QED
    BY <1>1, <1>2, <1>3, <2>1, <2>2, DriveEnds, DriveAlone
<1>4. ASSUME NEW last \in {"known_rejected", "ambiguous"},
             Gives([Counted(active) EXCEPT !.last = last])
      PROVE  ConnInv'
  <2> DEFINE rec == [Counted(active) EXCEPT !.last = last]
  <2>1. /\ Names(rec, active) /\ Tells(rec, active) /\ rec.phase = active.phase
        /\ rec.sends = active.sends + 1
    BY <1>2, MarksUpdate
  <2>2. active' = rec /\ Ends
    BY <1>4 DEF Gives
  <2> HIDE DEF rec
  <2> QED
    BY <1>3, <2>1, <2>2
<1> DEFINE c == Counted(active)
<1>5. /\ Names(c, active) /\ Tells(c, active) /\ c.phase = active.phase
      /\ c.sends = active.sends + 1
  BY <1>2, CountedUpdate
<1>6. CASE FailsClosed(Counted(active))
  <2>1. FailsClosed(c)
    BY <1>6
  <2>2. c.sends # 0
    BY <1>2, <1>5
  <2> HIDE DEF c
  <2> QED
    BY <1>1, <1>5, <2>1, <2>2, FailsClosedKeeps
<1>7. CASE active' = Counted(active) /\ Exits
  <2>1. active' = c
    BY <1>7
  <2> HIDE DEF c
  <2> QED
    BY <1>3, <1>5, <1>7, <2>1
<1> QED
  BY <1>4, <1>6, <1>7 DEF SendFails

-----------------------------------------------------------------------------
\* An outcome that is what it says.
LEMMA OutcomeKeeps ==
  ASSUME ConnInv, NEW ph, Drives(ph), ph \notin {"ClaimIntent", "OutcomeRecorded", "FinalizedLocal"},
         NEW kind \in OutcomeKind \ {"none"}, NEW err \in OutcomeError,
         active' = Records(active, kind, err), Ends \/ Exits \/ Keeps,
         OnlyActive, UNCHANGED <<storeVars, orca>>,
         active.request <=> kind # "not_started",
         active.request => attempt[active.attempt].started,
         kind = "managed_result" => Captured,
         kind \in {"agent_done", "tui_idle"} =>
           orca[active.attempt].turn /\ (Wants => err # "none")
  PROVE  ConnInv'
<1> DEFINE a == active.attempt
           rec == Records(active, kind, err)
<1>1. /\ active \in ActiveAttempt /\ active.phase = ph /\ active # None
      /\ RecFits(active, orca[a], attempt[a].started)
  BY DriveEnds
<1>2. /\ Names(rec, active) /\ Counts(rec, active) /\ rec.phase = "OutcomeRecorded"
      /\ rec.kind = kind /\ rec.err = err /\ rec.request = active.request
      /\ rec.turnSent = active.turnSent /\ rec.turnSeen = active.turnSeen
  BY <1>1, RecordsUpdate
<1>3. active' = rec
  OBVIOUS
<1> HIDE DEF rec
<1>4. PhaseOK(rec, attempt[a].started)
  BY <1>1, <1>2 DEF RecFits, PhaseOK, Early
<1>5. WorkOK(rec, orca[a].turn, a \in produced)
  BY <1>1, <1>2 DEF RecFits, WorkOK, Names, Captured, Wants
<1>6. DispatchOK(rec, executor, orca[a].sent)
  BY <1>1, <1>2 DEF RecFits, DispatchOK, Early, Counts
<1>7. RecFits(rec, orca[a], attempt[a].started)
  BY <1>4, <1>5, <1>6 DEF RecFits
<1>8. SameAttempt(rec) /\ rec.result_target = active.result_target
  BY <1>1, <1>2 DEF SameAttempt, Names
<1> QED
  BY <1>1, <1>2, <1>3, <1>7, <1>8, DriveEnds, DriveAlone

LEMMA GivesUpKeeps ==
  ASSUME ConnInv, DispatchGivesUp
  PROVE  ConnInv'
<1>1. Drives("DispatchIntent") /\ OnlyActive /\ UNCHANGED <<storeVars, orca>>
  BY DEF DispatchGivesUp
<1>2. RecFits(active, orca[active.attempt], attempt[active.attempt].started)
      /\ active.phase = "DispatchIntent"
  BY <1>1, DriveEnds
<1>3. ~active.request
  BY <1>2 DEF RecFits, PhaseOK, Early
<1>4. CASE Gives(Records(active, "not_started", "DISPATCH_REJECTED"))
  <2>1. "not_started" \in OutcomeKind \ {"none"} /\ "DISPATCH_REJECTED" \in OutcomeError
    BY DEF OutcomeKind, OutcomeError
  <2> QED
    BY <1>1, <1>3, <1>4, <2>1, OutcomeKeeps DEF Gives
<1>5. CASE FailsClosed(active)
  BY <1>1, <1>5, FailsAsItIs
<1> QED
  BY <1>4, <1>5 DEF DispatchGivesUp

\* What a wait knows of its attempt.
LEMMA WaitingFacts ==
  ASSUME ConnInv, Drives("Waiting")
  PROVE  /\ active \in ActiveAttempt /\ active.phase = "Waiting" /\ active # None
         /\ active.request /\ attempt[active.attempt].started
         /\ active.attempt \in AttemptId
         /\ RecFits(active, orca[active.attempt], attempt[active.attempt].started)
         /\ active.turnSent \/ active.turnSeen => orca[active.attempt].turn
         /\ orca[active.attempt].agent = "working" => orca[active.attempt].turn
<1>1. /\ active \in ActiveAttempt /\ active.phase = "Waiting" /\ active # None
      /\ active.attempt \in AttemptId
      /\ RecFits(active, orca[active.attempt], attempt[active.attempt].started)
  BY DriveEnds, MarkerType DEF ConnInv
<1>2. /\ active.request /\ attempt[active.attempt].started
      /\ active.turnSent \/ active.turnSeen => orca[active.attempt].turn
  BY <1>1 DEF RecFits, PhaseOK, WorkOK
<1>3. orca[active.attempt].agent = "working" => orca[active.attempt].turn
  BY <1>1 DEF ConnInv, OrcaInv, WorkerOK
<1> QED
  BY <1>1, <1>2, <1>3

\* A wait that only looked.
LEMMA LooksKeeps ==
  ASSUME ConnInv, SeesWorking \/ SeesAgent \/ (SeesDone /\ ~active.turnSeen)
  PROVE  ConnInv'
<1> DEFINE a == active.attempt
<1>1. Drives("Waiting") /\ OnlyActive /\ UNCHANGED <<storeVars, orca>> /\ Keeps
  BY DEF SeesWorking, SeesAgent, SeesDone, Ticks
<1>2. /\ active \in ActiveAttempt /\ active.phase = "Waiting" /\ active # None
      /\ RecFits(active, orca[a], attempt[a].started)
      /\ orca[a].agent = "working" => orca[a].turn
  BY <1>1, WaitingFacts
<1>3. PICK rec : /\ \/ /\ rec = [active EXCEPT !.turnSeen = TRUE, !.structured = TRUE]
                       /\ orca[a].agent = "working"
                    \/ rec = [active EXCEPT !.structured = TRUE]
                 /\ active' = rec
  BY DEF SeesWorking, SeesAgent, SeesDone
<1>4. /\ Names(rec, active) /\ Counts(rec, active) /\ rec.phase = "Waiting"
      /\ rec.request = active.request /\ rec.kind = active.kind /\ rec.err = active.err
      /\ rec.turnSent = active.turnSent
      /\ rec.turnSeen = active.turnSeen \/ orca[a].turn
  <2>1. CASE /\ rec = [active EXCEPT !.turnSeen = TRUE, !.structured = TRUE]
             /\ orca[a].agent = "working"
    BY <1>2, <2>1 DEF ActiveAttempt, Names, Counts
  <2>2. CASE rec = [active EXCEPT !.structured = TRUE]
    BY <1>2, <2>2 DEF ActiveAttempt, Names, Counts
  <2> QED
    BY <1>3, <2>1, <2>2
<1>5. RecFits(rec, orca[a], attempt[a].started)
  <2>1. PhaseOK(rec, attempt[a].started)
    BY <1>2, <1>4 DEF RecFits, PhaseOK, Early
  <2>2. WorkOK(rec, orca[a].turn, a \in produced)
    BY <1>2, <1>4 DEF RecFits, WorkOK, Names
  <2>3. DispatchOK(rec, executor, orca[a].sent)
    BY <1>2, <1>4 DEF RecFits, DispatchOK, Early, Counts
  <2> QED
    BY <2>1, <2>2, <2>3 DEF RecFits
<1>6. SameAttempt(rec) /\ rec.result_target = active.result_target
  BY <1>2, <1>4 DEF SameAttempt, Names
<1> QED
  BY <1>1, <1>2, <1>3, <1>4, <1>5, <1>6, DriveEnds, DriveAlone

LEMMA WaitFailsKeeps ==
  ASSUME ConnInv, WaitFails
  PROVE  ConnInv'
<1>1. Drives("Waiting") /\ OnlyActive /\ UNCHANGED <<storeVars, orca>> /\ Exits
      /\ active' = active
  BY DEF WaitFails
<1>2. active \in ActiveAttempt /\ active.phase = "Waiting"
      /\ RecFits(active, orca[active.attempt], attempt[active.attempt].started)
  BY <1>1, WaitingFacts
<1> QED
  BY <1>1, <1>2, MarkerAsItWas, PhaseMoves

\* A wait that ended with an outcome.
LEMMA WaitEndsKeeps ==
  ASSUME ConnInv, Drives("Waiting"), OnlyActive, UNCHANGED <<storeVars, orca>>,
         NEW kind \in OutcomeKind \ {"none", "not_started"}, NEW err \in OutcomeError,
         Gives(Records(active, kind, err)),
         kind = "managed_result" => Captured,
         kind \in {"agent_done", "tui_idle"} =>
           (active.turnSent \/ active.turnSeen) /\ (Wants => err # "none")
  PROVE  ConnInv'
<1>1. active.request /\ attempt[active.attempt].started
      /\ (active.turnSent \/ active.turnSeen => orca[active.attempt].turn)
  BY WaitingFacts
<1>2. kind \in OutcomeKind \ {"none"} /\ kind # "not_started"
  OBVIOUS
<1> QED
  BY <1>1, <1>2, OutcomeKeeps DEF Gives

LEMMA WaitStepKeeps ==
  ASSUME ConnInv, WaitStep, ~WaitingCancelled
  PROVE  ConnInv'
<1>a. /\ {"managed_result", "agent_done", "tui_idle", "interrupted", "timed_out"}
           \subseteq OutcomeKind \ {"none", "not_started"}
      /\ OutcomeError = {"none", "DISPATCH_REJECTED", "RESULT_MISSING", "TERMINAL_EXITED",
                         "EXECUTION_TIMEOUT", "RECOVERY_TERMINALIZED"}
  BY DEF OutcomeKind, OutcomeError
<1>b. Missing \in OutcomeError /\ (Wants => Missing # "none")
  BY <1>a DEF Missing
<1>1. CASE ResultBarrier
  <2>1. /\ Drives("Waiting") /\ OnlyActive /\ UNCHANGED <<storeVars, orca>> /\ Captured
        /\ Gives(Records(active, "managed_result", "none"))
    BY <1>1 DEF ResultBarrier, Ticks
  <2> QED
    BY <1>a, <2>1, WaitEndsKeeps
<1>2. CASE SeesWorking \/ SeesAgent
  BY <1>2, LooksKeeps
<1>3. CASE SeesDone
  <2>1. /\ Drives("Waiting") /\ OnlyActive /\ UNCHANGED <<storeVars, orca>>
        /\ active.turnSeen => Gives(Records(active, "agent_done", Missing))
    BY <1>3 DEF SeesDone, Ticks
  <2>2. active.turnSeen => ConnInv'
    BY <1>a, <1>b, <2>1, WaitEndsKeeps
  <2> QED
    BY <1>3, <2>2, LooksKeeps
<1>4. CASE SeesIdle
  <2>1. /\ Drives("Waiting") /\ OnlyActive /\ UNCHANGED <<storeVars, orca>>
        /\ active.turnSent \/ active.turnSeen
        /\ Gives(Records(active, "tui_idle", Missing))
    BY <1>4 DEF SeesIdle, Ticks
  <2> QED
    BY <1>a, <1>b, <2>1, WaitEndsKeeps
<1>5. CASE SeesExit
  <2>1. /\ Drives("Waiting") /\ OnlyActive /\ UNCHANGED <<storeVars, orca>>
        /\ Gives(Records(active, "interrupted", "TERMINAL_EXITED"))
    BY <1>5 DEF SeesExit, Ticks
  <2> QED
    BY <1>a, <2>1, WaitEndsKeeps
<1>6. CASE WaitTimesOut
  <2> DEFINE err == IF Captured THEN "none" ELSE "EXECUTION_TIMEOUT"
  <2>1. /\ Drives("Waiting") /\ OnlyActive /\ UNCHANGED <<storeVars, orca>>
        /\ Gives(Records(active, "timed_out", err)) /\ err \in OutcomeError
    BY <1>6, <1>a DEF WaitTimesOut
  <2> HIDE DEF err
  <2> QED
    BY <1>a, <2>1, WaitEndsKeeps
<1>7. CASE WaitFails
  BY <1>7, WaitFailsKeeps
<1> QED
  BY <1>1, <1>2, <1>3, <1>4, <1>5, <1>6, <1>7 DEF WaitStep

LEMMA CloseRetryableKeeps ==
  ASSUME ConnInv, CloseRetryable
  PROVE  ConnInv'
<1>1. Drives("OutcomeRecorded") /\ OnlyActive /\ UNCHANGED <<storeVars, orca>> /\ Ends
      /\ active' = active
  BY DEF CloseRetryable
<1>2. active \in ActiveAttempt /\ active.phase = "OutcomeRecorded" /\ active # None
      /\ RecFits(active, orca[active.attempt], attempt[active.attempt].started)
  BY <1>1, DriveEnds
<1>3. SameAttempt(active)
  BY <1>2 DEF SameAttempt
<1> QED
  BY <1>1, <1>2, <1>3, DriveEnds, DriveAlone

LEMMA DeadlineKeeps ==
  ASSUME ConnInv, ExecutionDeadlinePasses
  PROVE  ConnInv'
<1> DEFINE rec == [active EXCEPT !.deadline = "passed"]
<1>1. /\ active # None /\ active.deadline = "set" /\ UNCHANGED <<storeVars, orca, pc>> /\ FilesStay
      /\ active' = rec
  BY DEF ExecutionDeadlinePasses, FilesStay
<1>2. active \in ActiveAttempt
  BY <1>1, MarkerType DEF ConnInv
<1>3. /\ Names(rec, active) /\ Tells(rec, active) /\ Counts(rec, active)
      /\ rec.phase = active.phase
  BY <1>2 DEF ActiveAttempt, Names, Tells, Counts
<1> HIDE DEF rec
<1>4. RecFits(rec, orca[active.attempt], attempt[active.attempt].started)
  <2>1. RecFits(active, orca[active.attempt], attempt[active.attempt].started)
    BY <1>1 DEF ConnInv, RecInv, RecFits
  <2> QED
    BY <1>3, <2>1 DEF RecFits, PhaseOK, WorkOK, DispatchOK, Early, Names, Tells, Counts,
       DefinitelyNotDispatched
<1>5. SameAttempt(rec) /\ rec.result_target = active.result_target /\ MovesPlace
  BY <1>1, <1>3 DEF SameAttempt, Names, MovesPlace
<1> DEFINE a == active.attempt
           w == orca[a]
           st == attempt[a].started
<1>6. a \in AttemptId /\ w \in Worker /\ a \in used
  BY <1>1, MarkerType DEF ConnInv
<1>7. orca' = [orca EXCEPT ![a] = w] /\ WorkerOK(w, executor, a \in produced)
      /\ WorkerGrows(a, w) /\ st \in BOOLEAN
  BY <1>1, <1>6 DEF ConnInv, ConnTypeOK, OrcaInv, WorkerGrows, TypeOK, AttemptRecord
<1>8. UNCHANGED <<job, attempt, fence>> /\ StoreGrows /\ StoreInv'
  BY <1>1, SameStoreGrows, StoreInvStep DEF storeVars, ConnInv
<1>9. /\ rec.phase # "ClaimIntent" =>
           attempt[a].phase # "none" /\ rec.result_target = job[active.job].result_target
      /\ attempt[a].phase # "none" => attempt[a].job = active.job /\ attempt[a].device = Self
  BY <1>1, <1>3, <1>5, <1>6 DEF ConnInv, MarkerInv, AttemptOK, Drawn
<1>10. RecFits(rec, w, st) /\ attempt'[a].started = st
  BY <1>4, <1>8
<1>11. w = orca[a]
  OBVIOUS
<1> HIDE DEF w, st
<1> QED
  BY <1>1, <1>5, <1>7, <1>8, <1>9, <1>10, <1>11, MarkerMoves

-----------------------------------------------------------------------------
(***************************************************************************)
(* The calls that change the job's records while the marker stays.         *)
(***************************************************************************)
LEMMA ClaimNetworkStep ==
  ASSUME ConnInv, ClaimNetwork
  PROVE  /\ [Next]_storeVars /\ StoreGrows /\ UNCHANGED fence
         /\ \A b \in AttemptId : b # active.attempt => attempt'[b] = attempt[b]
         /\ \A i \in JobId : job'[i].status # "none" => job[i].status # "none"
         /\ attempt'[active.attempt].phase \in {"claimed", "running"}
         /\ attempt'[active.attempt].job = active.job
         /\ attempt'[active.attempt].device = Self
         /\ attempt'[active.attempt].started = FALSE
<1> DEFINE j == active.job
           a == active.attempt
           t == job[j].target
<1>1. /\ active # None /\ active.phase = "ClaimIntent"
      /\ RecFits(active, orca[a], attempt[a].started)
      /\ j \in JobId /\ a \in AttemptId /\ t \in Target /\ Self \in Device
  <2>1. Drives("ClaimIntent")
    BY DEF ClaimNetwork
  <2> QED
    BY <2>1, DriveEnds, MarkerType, ConnectorAssumption DEF ConnInv, StoreSide
<1>2. CASE ClaimJob(j, t, Self, a)
  <2> DEFINE d == Self
             q == t
  <2>1. ClaimJob(j, q, d, a) /\ q \in Target /\ d \in Device
    BY <1>1, <1>2
  <2>2. Next
    <3> HIDE DEF d, q
    <3> QED
      BY <1>1, <2>1 DEF Next, JobStep
  <2>3. /\ StoreGrows /\ UNCHANGED fence /\ attempt'[a] = NewAttempt(j, d)
        /\ \A b \in AttemptId \ {a} : attempt'[b] = attempt[b]
        /\ \A i \in JobId : job'[i].status # "none" => job[i].status # "none"
    <3> HIDE DEF q
    <3> QED
      BY <1>1, <2>1, ClaimGrows DEF ConnInv
  <2> QED
    BY <2>2, <2>3 DEF NewAttempt
<1>3. CASE ClaimReplays(j, t, Self, a) /\ UNCHANGED storeVars
  <2>1. UNCHANGED <<job, attempt, fence>> /\ StoreGrows
    BY <1>3, SameStoreGrows DEF storeVars
  <2>2. attempt[a].started = FALSE
    <3>1. ~attempt[a].started /\ attempt[a].started \in BOOLEAN
      BY <1>1 DEF RecFits, PhaseOK, Early, ConnInv, ConnTypeOK, TypeOK, AttemptRecord
    <3> QED
      BY <3>1
  <2> QED
    BY <1>3, <2>1, <2>2 DEF ClaimReplays
<1> QED
  BY <1>2, <1>3 DEF ClaimNetwork

LEMMA ClaimNetworkKeeps ==
  ASSUME ConnInv, ClaimNetwork
  PROVE  ConnInv'
<1> DEFINE a == active.attempt
           w == orca[a]
           claimed == [active EXCEPT !.phase = "Claimed",
                         !.result_target = job[active.job].result_target]
<1>1. Drives("ClaimIntent") /\ OnlyActive /\ UNCHANGED orca
  BY DEF ClaimNetwork
<1>2. /\ active # None /\ active.phase = "ClaimIntent" /\ active \in ActiveAttempt
      /\ RecFits(active, orca[a], attempt[a].started) /\ FilesStay
      /\ active.job \in JobId /\ a \in AttemptId /\ w \in Worker
      /\ job[active.job].result_target \in {"none", "resource"}
  BY <1>1, DriveEnds, MarkerType DEF ConnInv, ConnTypeOK, TypeOK, JobRecord
<1>3. PICK rec : (rec = claimed \/ rec = active) /\ active' = rec /\ MovesPlace
  <2>1. Ends \/ Exits => MovesPlace
    BY <1>1, DriveEnds
  <2> QED
    BY <2>1 DEF ClaimNetwork, ClaimApplied
<1>4. /\ claimed \in ActiveAttempt /\ claimed.job = active.job /\ claimed.attempt = a
      /\ claimed.digest = active.digest /\ claimed.phase = "Claimed"
      /\ claimed.result_target = job[active.job].result_target
      /\ Tells(claimed, active) /\ Counts(claimed, active)
  <2>1. "Claimed" \in AttemptPhase
    BY DEF AttemptPhase
  <2> QED
    BY <1>2, <2>1 DEF ActiveAttempt, Tells, Counts
<1> HIDE DEF claimed
<1>5. SameAttempt(rec)
  BY <1>2, <1>3, <1>4 DEF SameAttempt
<1>6. RecFits(rec, w, FALSE)
  <2>1. RecFits(active, w, FALSE)
    BY <1>2 DEF RecFits, PhaseOK, Early
  <2>2. RecFits(claimed, w, FALSE)
    BY <1>2, <1>4, <2>1 DEF RecFits, PhaseOK, WorkOK, DispatchOK, Early, Tells, Counts
  <2> QED
    BY <1>3, <2>1, <2>2
<1>7. /\ orca' = [orca EXCEPT ![a] = w] /\ WorkerOK(w, executor, a \in produced)
      /\ WorkerGrows(a, w) /\ w = orca[a]
  BY <1>1, <1>2 DEF ConnInv, ConnTypeOK, OrcaInv, WorkerGrows
<1> HIDE DEF w
<1>8. StoreInv'
  BY ClaimNetworkStep, StoreInvStep DEF ConnInv
<1>9. rec.phase # "ClaimIntent" => rec.result_target = job[active.job].result_target
  BY <1>2, <1>3, <1>4
<1> QED
  BY <1>2, <1>3, <1>5, <1>6, <1>7, <1>8, <1>9, ClaimNetworkStep, MarkerMoves

LEMMA StartNetworkStep ==
  ASSUME ConnInv, StartNetwork
  PROVE  /\ [Next]_storeVars /\ StoreGrows /\ UNCHANGED <<job, fence>>
         /\ \A b \in AttemptId : b # active.attempt => attempt'[b] = attempt[b]
         /\ attempt'[active.attempt].phase = "running"
         /\ attempt'[active.attempt].job = active.job
         /\ attempt'[active.attempt].device = Self
         /\ attempt'[active.attempt].started = TRUE
<1> DEFINE j == active.job
           a == active.attempt
<1>1. /\ active # None /\ active.phase = "StartIntent"
      /\ j \in JobId /\ a \in AttemptId /\ Self \in Device
  <2>1. Drives("StartIntent")
    BY DEF StartNetwork
  <2> QED
    BY <2>1, DriveEnds, MarkerType, ConnectorAssumption DEF ConnInv
<1>2. CASE StartJob(j, a, Self)
  <2> DEFINE d == Self
  <2>1. StartJob(j, a, d) /\ d \in Device
    BY <1>1, <1>2
  <2>2. Next
    <3> HIDE DEF d
    <3> QED
      BY <1>1, <2>1 DEF Next, JobStep
  <2>3. /\ StoreGrows /\ UNCHANGED <<job, fence>>
        /\ attempt'[a].started /\ attempt'[a].phase = "running"
        /\ attempt[a].phase = "claimed"
        /\ \A b \in AttemptId \ {a} : attempt'[b] = attempt[b]
    <3> HIDE DEF d
    <3> QED
      BY <1>1, <2>1, StartGrows DEF ConnInv
  <2>4. attempt'[a].job = j /\ attempt'[a].device = Self
    BY <1>1, <1>2, <2>3 DEF StoreGrows, AttemptGrows, StartJob, Owns
  <2>5. attempt'[a].started \in BOOLEAN
    <3>1. TypeOK'
      BY <2>2, StoreInvStep DEF ConnInv, StoreInv
    <3> QED
      BY <1>1, <3>1 DEF TypeOK, AttemptRecord
  <2> QED
    BY <2>2, <2>3, <2>4, <2>5
<1>3. CASE /\ job[j].status = "active" /\ Owns(Self, j, a)
           /\ attempt[a].phase = "running" /\ UNCHANGED storeVars
  <2>1. UNCHANGED <<job, attempt, fence>> /\ StoreGrows
    BY <1>3, SameStoreGrows DEF storeVars
  <2>2. attempt[a].started /\ attempt[a].started \in BOOLEAN
    BY <1>1, <1>3 DEF ConnInv, StoreInv, ReportTellsTheTruth, ReportEarned, TypeOK, AttemptRecord
  <2> QED
    BY <1>3, <2>1, <2>2 DEF Owns
<1> QED
  BY <1>2, <1>3 DEF StartNetwork

LEMMA StartNetworkKeeps ==
  ASSUME ConnInv, StartNetwork
  PROVE  ConnInv'
<1> DEFINE a == active.attempt
           w == orca[a]
           begun == [active EXCEPT !.phase = "Started"]
<1>1. Drives("StartIntent") /\ OnlyActive /\ UNCHANGED orca
  BY DEF StartNetwork
<1>2. /\ active # None /\ active.phase = "StartIntent" /\ active \in ActiveAttempt
      /\ RecFits(active, orca[a], attempt[a].started) /\ FilesStay
      /\ active.job \in JobId /\ a \in AttemptId /\ w \in Worker
      /\ active.result_target = job[active.job].result_target
  BY <1>1, DriveEnds, MarkerType DEF ConnInv, MarkerInv
<1>3. PICK rec : (rec = begun \/ rec = active) /\ active' = rec /\ MovesPlace
  <2>1. Ends => MovesPlace
    BY <1>1, DriveEnds
  <2> QED
    BY <2>1 DEF StartNetwork, Gives
<1>4. Names(begun, active) /\ Tells(begun, active) /\ Counts(begun, active)
      /\ begun.phase = "Started"
  BY <1>2, PhaseUpdate DEF AttemptPhase
<1> HIDE DEF begun
<1>5. SameAttempt(rec) /\ rec.result_target = active.result_target
  BY <1>2, <1>3, <1>4 DEF SameAttempt, Names
<1>6. RecFits(rec, w, TRUE)
  <2>1. RecFits(active, w, TRUE)
    BY <1>2 DEF RecFits, PhaseOK, Early
  <2>2. RecFits(begun, w, TRUE)
    BY <1>2, <1>4, <2>1 DEF RecFits, PhaseOK, WorkOK, DispatchOK, Early, Tells, Counts, Names
  <2> QED
    BY <1>3, <2>1, <2>2
<1>7. /\ orca' = [orca EXCEPT ![a] = w] /\ WorkerOK(w, executor, a \in produced)
      /\ WorkerGrows(a, w) /\ w = orca[a]
  BY <1>1, <1>2 DEF ConnInv, ConnTypeOK, OrcaInv, WorkerGrows
<1> HIDE DEF w
<1>8. StoreInv'
  BY StartNetworkStep, StoreInvStep DEF ConnInv
<1> QED
  BY <1>2, <1>3, <1>5, <1>6, <1>7, <1>8, StartNetworkStep, MarkerMoves

-----------------------------------------------------------------------------
(***************************************************************************)
(* Steps that leave the jobs and the reports alone: at most the marker     *)
(* goes, with the history of a cancel, and a delivery begins or stops.     *)
(***************************************************************************)
\* A marker may go when the server does not wait for its attempt any more, and
\* no report still needs it.
MayGo(a) ==
  ~Live(a) /\ (outbox[a] # None => ServerCancelled(attempt[a].job))

DeliveryMoves ==
  \/ delivery' \in {delivery, None}
  \/ \E b \in AttemptId, from \in {"drive", "flush"} :
       outbox[b] # None /\ delivery' = [attempt |-> b, acked |-> FALSE, from |-> from]

PlaceOK ==
  /\ pc' \in Places
  /\ pc' = "poll" => active' = None /\ delivery' = None
  /\ pc' = "down" => delivery' = None

CancelNoted(a) ==
  /\ attempt[a].phase # "none" /\ ServerCancelled(attempt[a].job)
  /\ history' = [history EXCEPT ![a] = CancelledHistory]

LEMMA CancelledHistoryTyped ==
  /\ CancelledHistory \in SanitizedHistoryRecord
  /\ CancelledHistory.status = "cancelled" /\ CancelledHistory # None
<1>1. CancelledHistory \in SanitizedHistoryRecord
  BY DEF CancelledHistory, SanitizedHistoryRecord
<1> QED
  BY <1>1, NoneIsNoFile DEF CancelledHistory

LEMMA SettlesKeeps ==
  ASSUME ConnInv, StoreInv',
         UNCHANGED <<job, attempt, fence, outbox, receipt, used, executor, orca, produced>>,
         active' = active \/ (active # None /\ active' = None /\ MayGo(active.attempt)),
         history' = history \/ (active # None /\ CancelNoted(active.attempt)),
         DeliveryMoves, PlaceOK
  PROVE  ConnInv'
<1>a. active # None => active.attempt \in AttemptId
  BY MarkerType DEF ConnInv
<1>b. StoreGrows /\ OrcaGrows
  BY SameStoreGrows DEF OrcaGrows
<1>1. StoreSide' /\ OrcaInv' /\ MarkerInv' /\ RecInv'
  <2>1. StoreSide' /\ OrcaInv'
    BY DEF ConnInv, StoreSide, OrcaInv
  <2>2. MarkerInv' /\ RecInv'
    BY DEF ConnInv, MarkerInv, RecInv
  <2> QED
    BY <2>1, <2>2
<1>2. delivery' \in Delivery \cup {None} /\ (delivery' # None => outbox[delivery'.attempt] # None)
      /\ (delivery' # None /\ delivery'.acked => attempt[delivery'.attempt].result # None)
  <2>1. CASE delivery' \in {delivery, None}
    BY <2>1 DEF ConnInv, ConnTypeOK, DeliveryInv
  <2>2. CASE \E b \in AttemptId, from \in {"drive", "flush"} :
               /\ outbox[b] # None
               /\ delivery' = [attempt |-> b, acked |-> FALSE, from |-> from]
    BY <2>2 DEF Delivery
  <2> QED
    BY <2>1, <2>2 DEF DeliveryMoves
<1>3. history' \in [AttemptId -> SanitizedHistoryRecord \cup {None}]
  BY <1>a, CancelledHistoryTyped DEF ConnInv, ConnTypeOK, CancelNoted
<1>4. ConnTypeOK'
  <2>1. TypeOK'
    BY DEF StoreInv
  <2>2. active' \in ActiveAttempt \cup {None}
        /\ (active' # None => active'.attempt \in used /\ job[active'.job].status # "none")
    BY DEF ConnInv, ConnTypeOK
  <2>3. pc' \in Places
    BY DEF PlaceOK
  <2> QED
    BY <1>2, <1>3, <2>1, <2>2, <2>3 DEF ConnInv, ConnTypeOK, Places
<1>5. DeliveryInv'
  BY <1>2 DEF DeliveryInv, PlaceOK
<1>6. ASSUME NEW b \in AttemptId PROVE AttemptOK(b)'
  <2>1. AttemptOK(b)
    BY DEF ConnInv
  <2>2. OutboxOK(b)' /\ CompletedOK(b)'
    BY <1>b, OutboxFrame, CompletedFrame
  <2>3. CASE history'[b] = history[b]
    <3>1. Drawn(b)'
      BY <2>1, <2>3 DEF AttemptOK, Drawn
    <3>2. HistoryOK(b)'
      BY <1>b, <2>3, HistoryFrame
    <3>3. FilesOK(b)'
      BY <2>1, <2>3 DEF AttemptOK, FilesOK, Mine, MayGo, ServerCancelled
    <3>4. Live(b)' => Mine(b)'
      BY <2>1 DEF AttemptOK, Live, Mine, MayGo
    <3> QED
      BY <2>2, <3>1, <3>2, <3>3, <3>4 DEF AttemptOK
  <2>4. CASE history'[b] # history[b]
    <3>1. /\ b = active.attempt /\ active # None /\ attempt[b].phase # "none"
          /\ ServerCancelled(attempt[b].job) /\ history'[b] = CancelledHistory
      BY <1>a, <2>4 DEF CancelNoted, ConnInv, ConnTypeOK
    <3>2. b \in used
      BY <3>1 DEF ConnInv, ConnTypeOK
    <3>3. attempt[b].phase = "terminal"
      BY <3>1, Linked DEF ConnInv, ServerCancelled
    <3>4. Drawn(b)'
      BY <2>1, <3>1, <3>2 DEF AttemptOK, Drawn
    <3>5. HistoryOK(b)'
      BY <3>1, <3>3, CancelledHistoryTyped DEF HistoryOK, ServerCancelled
    <3>6. FilesOK(b)' /\ ~Live(b)'
      BY <3>1, <3>3 DEF FilesOK, ServerCancelled, Live
    <3> QED
      BY <2>2, <3>4, <3>5, <3>6 DEF AttemptOK
  <2> QED
    BY <2>3, <2>4
<1> QED
  BY <1>1, <1>4, <1>5, <1>6 DEF ConnInv

\* The server's answer for the marker's job is the answer for its attempt.
LEMMA CancelOfMarker ==
  ASSUME ConnInv, active # None, ServerCancelled(active.job),
         active.phase # "ClaimIntent" \/ ServerNames(active.job, active.attempt)
  PROVE  /\ attempt[active.attempt].phase = "terminal"
         /\ attempt[active.attempt].job = active.job
         /\ ServerCancelled(attempt[active.attempt].job) /\ MayGo(active.attempt)
<1>1. active.job \in JobId /\ active.attempt \in AttemptId
  BY MarkerType DEF ConnInv
<1>2. attempt[active.attempt].phase # "none"
  <2>1. CASE active.phase # "ClaimIntent"
    BY <2>1 DEF ConnInv, MarkerInv
  <2>2. CASE ServerNames(active.job, active.attempt)
    BY <1>1, <2>2, OwnedAlone DEF ConnInv, ServerNames
  <2> QED
    BY <2>1, <2>2
<1>3. attempt[active.attempt].job = active.job
  BY <1>2 DEF ConnInv, MarkerInv
<1>4. attempt[active.attempt].phase = "terminal"
  BY <1>1, <1>2, <1>3, Linked DEF ConnInv, ServerCancelled
<1> QED
  BY <1>3, <1>4 DEF MayGo, Live

LEMMA FinalizeCancelledKeeps ==
  ASSUME ConnInv, NEW ph, Drives(ph), ph # "ClaimIntent", ServerCancelled(active.job),
         FinalizeCancelled, UNCHANGED <<storeVars, orca>>
  PROVE  ConnInv'
<1>1. active # None /\ active.phase = ph /\ delivery = None /\ pc \in {"boot", "loop"}
  BY DriveEnds
<1>2. /\ attempt[active.attempt].phase = "terminal"
      /\ ServerCancelled(attempt[active.attempt].job) /\ MayGo(active.attempt)
  BY <1>1, CancelOfMarker
<1>3. CancelNoted(active.attempt)
  BY <1>2 DEF CancelNoted, FinalizeCancelled
<1>4. /\ UNCHANGED <<job, attempt, fence, outbox, receipt, used, executor, orca, produced>>
      /\ delivery' = delivery /\ StoreInv'
  BY StoreInvStep DEF FinalizeCancelled, storeVars, ConnInv
<1>5. PlaceOK
  BY <1>1, <1>4 DEF FinalizeCancelled, Ends, Exits, After, PlaceOK, Places
<1>6. active' = active \/ active' = None
  BY DEF FinalizeCancelled
<1> QED
  BY <1>1, <1>2, <1>3, <1>4, <1>5, <1>6, SettlesKeeps DEF DeliveryMoves

LEMMA StartRefusedKeeps ==
  ASSUME ConnInv, StartRefused
  PROVE  ConnInv'
<1>1. Drives("StartIntent") /\ UNCHANGED <<storeVars, orca>>
  BY DEF StartRefused
<1>2. CASE ServerCancelled(active.job) /\ FinalizeCancelled
  BY <1>1, <1>2, FinalizeCancelledKeeps
<1>3. CASE FailsClosed(active) /\ OnlyActive
  BY <1>1, <1>3, FailsAsItIs
<1> QED
  BY <1>2, <1>3 DEF StartRefused

LEMMA WaitingCancelledKeeps ==
  ASSUME ConnInv, WaitingCancelled
  PROVE  ConnInv'
<1>1. /\ Drives("Waiting") /\ UNCHANGED <<storeVars, orca>>
      /\ ServerCancelled(active.job) /\ FinalizeCancelled
  BY DEF WaitingCancelled
<1> QED
  BY <1>1, FinalizeCancelledKeeps

LEMMA ReconcileKeeps ==
  ASSUME ConnInv, ProjectReconciles
  PROVE  ConnInv'
<1>1. /\ active # None /\ ServerCancelled(active.job)
      /\ ServerNames(active.job, active.attempt) /\ active' = None
      /\ history' = [history EXCEPT ![active.attempt] = CancelledHistory]
      /\ UNCHANGED <<storeVars, pc, delivery, outbox, receipt, used, executor, orca, produced>>
  BY DEF ProjectReconciles
<1>2. /\ attempt[active.attempt].phase = "terminal"
      /\ ServerCancelled(attempt[active.attempt].job) /\ MayGo(active.attempt)
  BY <1>1, CancelOfMarker
<1>3. UNCHANGED <<job, attempt, fence>> /\ StoreInv'
  BY <1>1, StoreInvStep DEF storeVars, ConnInv
<1>4. PlaceOK
  BY <1>1 DEF PlaceOK, Places, ConnInv, ConnTypeOK, DeliveryInv
<1> QED
  BY <1>1, <1>2, <1>3, <1>4, SettlesKeeps DEF CancelNoted, DeliveryMoves

\* The job was never this device's: an attempt of it that still lived would have
\* been answered again.
LEMMA ClaimIsLostKeeps ==
  ASSUME ConnInv, ClaimIsLost
  PROVE  /\ ConnInv' /\ [Next]_storeVars
<1> DEFINE j == active.job
           a == active.attempt
           t == job[j].target
<1>1. /\ Drives("ClaimIntent") /\ active' = None /\ Ends /\ OnlyActive /\ UNCHANGED orca
  BY DEF ClaimIsLost
<1>2. /\ active # None /\ active.phase = "ClaimIntent" /\ pc \in {"boot", "loop"}
      /\ delivery = None
      /\ j \in JobId /\ a \in AttemptId /\ job[j].status # "none" /\ a \in used /\ t \in Target
  BY <1>1, DriveEnds, MarkerType DEF ConnInv, StoreSide
<1>3. /\ UNCHANGED <<job, attempt, fence>> /\ [Next]_storeVars
  <2>1. CASE ClaimTooLate(j, t, a)
    <3> DEFINE q == t
    <3>1. ClaimTooLate(j, q, a) /\ q \in Target
      BY <1>2, <2>1
    <3>2. Next
      <4> HIDE DEF q
      <4> QED
        BY <1>2, <3>1 DEF Next, JobStep
    <3> QED
      BY <2>1, <3>2 DEF ClaimTooLate
  <2>2. CASE UNCHANGED storeVars
    BY <2>2 DEF storeVars
  <2> QED
    BY <2>1, <2>2 DEF ClaimIsLost
<1>4. ~Live(a)
  <2> SUFFICES ASSUME Live(a) PROVE FALSE
    OBVIOUS
  <2>1. attempt[a].job = j /\ attempt[a].phase \in {"claimed", "running"} /\ attempt[a].device = Self
    BY <1>2 DEF Live, ConnInv, MarkerInv
  <2>2. job[j].latest = a /\ job[j].status # "queued"
    <3>1. attempt[a].phase # "none"
      BY <2>1
    <3>2. job[attempt[a].job].latest = a /\ job[attempt[a].job].status \in {"active", "terminal"}
      BY <1>2, <3>1, Linked DEF ConnInv
    <3> QED
      BY <2>1, <3>2
  <2>3. ClaimReplays(j, t, Self, a)
    BY <1>2, <2>1, <2>2 DEF ClaimReplays, ClaimReaches, ConnInv, StoreSide
  <2>4. ~ClaimTooLate(j, t, a)
    BY <2>2 DEF ClaimTooLate, ClaimMayOwn
  <2> QED
    BY <2>3, <2>4 DEF ClaimIsLost
<1>5. outbox[a] = None
  BY <1>2 DEF ConnInv, MarkerInv
<1>6. StoreInv'
  BY <1>3, StoreInvStep DEF ConnInv
<1>7. UNCHANGED <<delivery, outbox, history, receipt, used, executor, produced>>
  BY <1>1 DEF OnlyActive
<1>8. PlaceOK
  BY <1>1, <1>2, <1>7 DEF Ends, After, PlaceOK, Places
<1>9. ConnInv'
  BY <1>1, <1>2, <1>3, <1>4, <1>5, <1>6, <1>7, <1>8, SettlesKeeps DEF MayGo, DeliveryMoves
<1> QED
  BY <1>3, <1>9

LEMMA RecoveredUpdate ==
  ASSUME NEW r \in ActiveAttempt
  PROVE  LET s == [Records(r, "not_started", "RECOVERY_TERMINALIZED") EXCEPT !.request = FALSE] IN
         /\ Names(s, r) /\ Counts(s, r) /\ s.phase = "OutcomeRecorded"
         /\ s.kind = "not_started" /\ s.request = FALSE
         /\ s.turnSent = r.turnSent /\ s.turnSeen = r.turnSeen
<1> DEFINE o == Records(r, "not_started", "RECOVERY_TERMINALIZED")
<1>1. /\ Names(o, r) /\ Counts(o, r) /\ o.phase = "OutcomeRecorded"
      /\ o.kind = "not_started"
      /\ o.turnSent = r.turnSent /\ o.turnSeen = r.turnSeen
  BY RecordsUpdate DEF OutcomeKind, OutcomeError
<1>2. o \in ActiveAttempt
  BY <1>1 DEF Names
<1> HIDE DEF o
<1> DEFINE s == [o EXCEPT !.request = FALSE]
<1>3. /\ Names(s, o) /\ Counts(s, o) /\ s.phase = o.phase /\ s.kind = o.kind
      /\ s.request = FALSE /\ s.turnSent = o.turnSent /\ s.turnSeen = o.turnSeen
  BY <1>2 DEF ActiveAttempt, Names, Counts
<1>4. s = [Records(r, "not_started", "RECOVERY_TERMINALIZED") EXCEPT !.request = FALSE]
  BY DEF o
<1> HIDE DEF s
<1> QED
  BY <1>1, <1>3, <1>4 DEF Names, Counts

\* The recovery's outcome: what the server knows of the start decides.
LEMMA RecoveryKeeps ==
  ASSUME ConnInv, RecoveryStep
  PROVE  ConnInv'
<1> DEFINE a == active.attempt
<1>1. Drives("RecoveryRequired") /\ UNCHANGED <<storeVars, orca>>
  BY DEF RecoveryStep
<1>2. /\ active \in ActiveAttempt /\ active.phase = "RecoveryRequired" /\ active # None
      /\ RecFits(active, orca[a], attempt[a].started)
  BY <1>1, DriveEnds
<1>3. active.kind = "none" /\ (attempt[a].started => active.request)
  BY <1>2 DEF RecFits, PhaseOK
<1>4. CASE ServerCancelled(active.job) /\ FinalizeCancelled
  BY <1>1, <1>4, FinalizeCancelledKeeps
<1>5. CASE UNCHANGED active /\ Exits /\ OnlyActive
  BY <1>1, <1>2, <1>5, MarkerAsItWas, PhaseMoves
<1>6. CASE Gives(Recovered(active)) /\ OnlyActive
  <2>1. CASE attempt[a].started
    <3>1. CASE Captured
      <4>1. Gives(Records(active, "managed_result", "none"))
        BY <1>3, <1>6, <2>1, <3>1 DEF Recovered
      <4>2. "managed_result" \in OutcomeKind \ {"none"} /\ "none" \in OutcomeError
        BY DEF OutcomeKind, OutcomeError
      <4> QED
        BY <1>1, <1>3, <1>6, <2>1, <3>1, <4>1, <4>2, OutcomeKeeps DEF Gives
    <3>2. CASE ~Captured
      <4>1. Gives(Records(active, "interrupted", "RECOVERY_TERMINALIZED"))
        BY <1>3, <1>6, <2>1, <3>2 DEF Recovered
      <4>2. "interrupted" \in OutcomeKind \ {"none"} /\ "RECOVERY_TERMINALIZED" \in OutcomeError
        BY DEF OutcomeKind, OutcomeError
      <4> QED
        BY <1>1, <1>3, <1>6, <2>1, <4>1, <4>2, OutcomeKeeps DEF Gives
    <3> QED
      BY <3>1, <3>2
  <2>2. CASE ~attempt[a].started
    <3> DEFINE rec == [Records(active, "not_started", "RECOVERY_TERMINALIZED")
                         EXCEPT !.request = FALSE]
    <3>1. /\ Names(rec, active) /\ Counts(rec, active) /\ rec.phase = "OutcomeRecorded"
          /\ rec.kind = "not_started" /\ rec.request = FALSE
          /\ rec.turnSent = active.turnSent /\ rec.turnSeen = active.turnSeen
      BY <1>2, RecoveredUpdate
    <3>2. active' = rec /\ Ends
      BY <1>6, <2>2 DEF Gives, Recovered
    <3> HIDE DEF rec
    <3>3. PhaseOK(rec, attempt[a].started)
      BY <2>2, <3>1 DEF PhaseOK, Early
    <3>4. WorkOK(rec, orca[a].turn, a \in produced)
      BY <1>2, <3>1 DEF RecFits, WorkOK
    <3>5. DispatchOK(rec, executor, orca[a].sent)
      BY <1>2, <3>1 DEF RecFits, DispatchOK, Early, Counts
    <3>6. RecFits(rec, orca[a], attempt[a].started)
      BY <3>3, <3>4, <3>5 DEF RecFits
    <3>7. SameAttempt(rec) /\ rec.result_target = active.result_target
      BY <1>2, <3>1 DEF SameAttempt, Names
    <3> QED
      BY <1>1, <1>2, <1>6, <3>1, <3>2, <3>6, <3>7, DriveEnds, DriveAlone
  <2> QED
    BY <2>1, <2>2
<1> QED
  BY <1>4, <1>5, <1>6 DEF RecoveryStep

\* Steps that only choose what the daemon does next.
LEMMA ControlKeeps ==
  ASSUME ConnInv,
         NothingPending \/ DriveFinalized \/ Flush \/ BootMovesOn \/ Crash \/ Restart
  PROVE  ConnInv' /\ UNCHANGED storeVars
<1>1. /\ UNCHANGED <<storeVars, outbox, history, receipt, used, executor, orca, produced>>
  BY DEF NothingPending, DriveFinalized, Flush, BootMovesOn, Crash, Restart
<1>2. UNCHANGED <<job, attempt, fence>> /\ StoreInv'
  BY <1>1, StoreInvStep DEF storeVars, ConnInv
<1>3. pc \in Places /\ (pc = "poll" => active = None /\ delivery = None)
      /\ (pc = "down" => delivery = None)
  BY DEF ConnInv, ConnTypeOK, DeliveryInv, Places
<1>4. ASSUME active' = active, DeliveryMoves, PlaceOK PROVE ConnInv'
  BY <1>1, <1>2, <1>4, SettlesKeeps
<1>5. CASE NothingPending
  BY <1>3, <1>4, <1>5 DEF NothingPending, DeliveryMoves, PlaceOK, Places
<1>6. CASE DriveFinalized
  <2> DEFINE a == active.attempt
  <2>1. /\ active # None /\ active.phase = "FinalizedLocal" /\ delivery = None
        /\ pc \in {"boot", "loop"} /\ a \in AttemptId
    BY <1>6, DriveEnds, MarkerType DEF DriveFinalized, ConnInv
  <2>2. CASE /\ outbox[a] # None
             /\ delivery' = [attempt |-> a, acked |-> FALSE, from |-> "drive"]
             /\ UNCHANGED <<pc, active>>
    <3>1. DeliveryMoves
      BY <2>1, <2>2 DEF DeliveryMoves
    <3>2. PlaceOK /\ active' = active
      BY <2>1, <2>2 DEF PlaceOK, Places
    <3> QED
      BY <1>1, <1>4, <3>1, <3>2
  <2>3. CASE /\ outbox[a] = None /\ history[a] # None /\ active' = None /\ Ends
             /\ UNCHANGED delivery
    <3>1. MayGo(a)
      BY <2>1, <2>3 DEF MayGo, Live, ConnInv, AttemptOK, HistoryOK
    <3>2. PlaceOK
      BY <2>1, <2>3 DEF Ends, After, PlaceOK, Places
    <3> QED
      BY <1>1, <1>2, <2>1, <2>3, <3>1, <3>2, SettlesKeeps DEF DeliveryMoves
  <2>4. CASE Exits /\ UNCHANGED <<active, delivery>>
    <3>1. DeliveryMoves /\ PlaceOK /\ active' = active
      BY <2>1, <2>4 DEF DeliveryMoves, PlaceOK, Exits, Places
    <3> QED
      BY <1>1, <1>4, <3>1
  <2> QED
    BY <1>6, <2>2, <2>3, <2>4 DEF DriveFinalized
<1>7. CASE Flush
  <2>1. DeliveryMoves
    BY <1>7 DEF Flush, Flushing, DeliveryMoves
  <2>2. PlaceOK
    BY <1>3, <1>7 DEF Flush, PlaceOK
  <2> QED
    BY <1>4, <1>7, <2>1, <2>2 DEF Flush
<1>8. CASE BootMovesOn
  BY <1>3, <1>4, <1>8 DEF BootMovesOn, Ends, After, DeliveryMoves, PlaceOK, Places
<1>9. CASE Crash \/ Restart
  BY <1>3, <1>4, <1>9 DEF Crash, Restart, DeliveryMoves, PlaceOK, Places
<1> QED
  BY <1>1, <1>5, <1>6, <1>7, <1>8, <1>9

LEMMA ExpiresKeeps ==
  ASSUME ConnInv, NEW j \in JobId, QueueExpires(j)
  PROVE  ConnInv' /\ [Next]_storeVars
<1>1. ClaimDeadlinePasses(j)
      /\ UNCHANGED <<pc, delivery, active, outbox, history, receipt, used, executor,
                     produced, orca>>
  BY DEF QueueExpires, LocalVars
<1>2. Next /\ UNCHANGED <<job, attempt, fence>>
  BY <1>1 DEF Next, JobStep, ClaimDeadlinePasses
<1>3. StoreInv'
  BY <1>2, StoreInvStep DEF ConnInv
<1>4. DeliveryMoves /\ PlaceOK
  BY <1>1 DEF DeliveryMoves, PlaceOK, Places, ConnInv, ConnTypeOK, DeliveryInv
<1> QED
  BY <1>1, <1>2, <1>3, <1>4, SettlesKeeps

-----------------------------------------------------------------------------
\* The intent to claim is on disk under an id that nothing has used yet.
LEMMA NewActiveTyped ==
  ASSUME NEW j \in JobId, NEW a \in AttemptId
  PROVE  /\ NewActive(j, a) \in ActiveAttempt /\ NewActive(j, a) # None
         /\ NewActive(j, a).job = j /\ NewActive(j, a).attempt = a
         /\ NewActive(j, a).phase = "ClaimIntent"
         /\ \A w, exec, made : w = NoWorker =>
              /\ PhaseOK(NewActive(j, a), FALSE) /\ WorkOK(NewActive(j, a), w.turn, made)
              /\ DispatchOK(NewActive(j, a), exec, w.sent)
<1>1. NewActive(j, a) \in ActiveAttempt
  BY DEF NewActive, ActiveAttempt, AttemptPhase, OutcomeKind, OutcomeError
<1>2. /\ NewActive(j, a).job = j /\ NewActive(j, a).attempt = a
      /\ NewActive(j, a).phase = "ClaimIntent"
      /\ PhaseOK(NewActive(j, a), FALSE)
  BY DEF NewActive, PhaseOK, Early
<1>3. ASSUME NEW w, NEW exec, NEW made, w = NoWorker
      PROVE  /\ WorkOK(NewActive(j, a), w.turn, made)
             /\ DispatchOK(NewActive(j, a), exec, w.sent)
  BY <1>3 DEF NewActive, WorkOK, DispatchOK, NoWorker, Early
<1> QED
  BY <1>1, <1>2, <1>3, NoneIsNoFile

LEMMA ClaimIntentKeeps ==
  ASSUME ConnInv, NEW j \in JobId, NEW a \in AttemptId, SaveClaimIntent(j, a)
  PROVE  ConnInv' /\ UNCHANGED storeVars
<1>1. /\ active = None /\ delivery = None
      /\ job[j].status = "queued" /\ a \notin used /\ attempt[a].phase = "none"
      /\ active' = NewActive(j, a) /\ used' = used \cup {a} /\ pc' = "loop"
      /\ UNCHANGED <<storeVars, delivery, outbox, history, receipt, executor, orca, produced>>
  BY DEF SaveClaimIntent, Idle, ConnInv, DeliveryInv
<1>2. UNCHANGED <<job, attempt, fence>> /\ StoreInv' /\ StoreGrows /\ OrcaGrows
  BY <1>1, StoreInvStep, SameStoreGrows DEF storeVars, ConnInv, OrcaGrows
<1>3. /\ orca[a] = NoWorker /\ outbox[a] = None /\ history[a] = None /\ a \notin produced
      /\ attempt[a].started = FALSE
  BY <1>1 DEF ConnInv, AttemptOK, Drawn, ConnTypeOK, TypeOK, AttemptRecord
<1>4. /\ active' \in ActiveAttempt /\ active' # None /\ active'.attempt = a /\ active'.job = j
      /\ active'.phase = "ClaimIntent"
  BY <1>1, NewActiveTyped
<1>5. StoreSide' /\ OrcaInv' /\ DeliveryInv'
  BY <1>1, <1>2 DEF ConnInv, StoreSide, OrcaInv, DeliveryInv
<1>6. MarkerInv'
  BY <1>1, <1>2, <1>3, <1>4 DEF MarkerInv
<1>7. RecInv'
  <2> DEFINE rec == NewActive(j, a)
             w == orca[a]
  <2>1. /\ PhaseOK(rec, FALSE) /\ WorkOK(rec, w.turn, a \in produced)
        /\ DispatchOK(rec, executor, w.sent)
    BY <1>3, NewActiveTyped
  <2>2. active' = rec /\ rec.attempt = a /\ orca'[a] = w /\ attempt'[a].started = FALSE
    BY <1>1, <1>2, <1>3, NewActiveTyped
  <2> HIDE DEF rec, w
  <2> QED
    BY <1>1, <2>1, <2>2 DEF RecInv
<1>8. ConnTypeOK'
  <2>1. TypeOK'
    BY <1>2 DEF StoreInv
  <2>2. used' \subseteq AttemptId /\ a \in used' /\ job'[j].status # "none"
    BY <1>1, <1>2 DEF ConnInv, ConnTypeOK
  <2> QED
    BY <1>1, <1>4, <2>1, <2>2 DEF ConnInv, ConnTypeOK
<1>9. ASSUME NEW b \in AttemptId PROVE AttemptOK(b)'
  <2>1. AttemptOK(b)
    BY DEF ConnInv
  <2>2. OutboxOK(b)' /\ CompletedOK(b)' /\ HistoryOK(b)'
    BY <1>1, <1>2, OutboxFrame, CompletedFrame, HistoryFrame
  <2>3. Drawn(b)'
    BY <1>1, <1>2, <1>3, <2>1 DEF AttemptOK, Drawn
  <2>4. FilesOK(b)'
    BY <1>1, <1>2, <1>4, <2>1 DEF AttemptOK, FilesOK, Mine, ServerCancelled
  <2>5. Live(b)' => Mine(b)'
    BY <1>1, <1>2, <2>1 DEF AttemptOK, Live, Mine
  <2> QED
    BY <2>2, <2>3, <2>4, <2>5 DEF AttemptOK
<1> QED
  BY <1>1, <1>2, <1>5, <1>6, <1>7, <1>8, <1>9 DEF ConnInv

-----------------------------------------------------------------------------
\* What happens in Orca on its own.
LEMMA OrcaKeeps ==
  ASSUME ConnInv, NEW a \in AttemptId, NEW w \in Worker, orca[a] # NoWorker,
         orca' = [orca EXCEPT ![a] = w], orca[a].turn => w.turn,
         w.sent = orca[a].sent \/ executor = "logical",
         produced' = produced \/ produced' = produced \cup {a},
         WorkerOK(w, executor, a \in produced'),
         UNCHANGED <<storeVars, pc, delivery, active, outbox, history, receipt, used, executor>>
  PROVE  ConnInv'
<1>1. UNCHANGED <<job, attempt, fence>> /\ StoreInv' /\ StoreGrows
  BY StoreInvStep, SameStoreGrows DEF storeVars, ConnInv
<1>2. /\ orca'[a] = w /\ \A b \in AttemptId : b # a => orca'[b] = orca[b]
      /\ orca' \in [AttemptId -> Worker]
  BY DEF ConnInv, ConnTypeOK
<1>3. OrcaGrows /\ produced' \subseteq AttemptId
  BY <1>2 DEF OrcaGrows, ConnInv, ConnTypeOK
<1>4. a \in used /\ attempt[a].phase # "none"
  BY DEF ConnInv, AttemptOK, Drawn
<1>5. StoreSide' /\ DeliveryInv' /\ MarkerInv'
  BY <1>1 DEF ConnInv, StoreSide, DeliveryInv, MarkerInv
<1>6. OrcaInv'
  BY <1>2 DEF ConnInv, OrcaInv
<1>7. RecInv'
  <2> SUFFICES ASSUME active # None PROVE RecInv'
    BY DEF RecInv
  <2>1. active.attempt \in AttemptId
    BY MarkerType DEF ConnInv
  <2>2. /\ PhaseOK(active, attempt[active.attempt].started)
        /\ WorkOK(active, orca[active.attempt].turn, active.attempt \in produced)
        /\ DispatchOK(active, executor, orca[active.attempt].sent)
    BY DEF ConnInv, RecInv
  <2>3. WorkOK(active, orca'[active.attempt].turn, active.attempt \in produced')
    BY <1>3, <2>1, <2>2 DEF WorkOK, OrcaGrows
  <2>4. orca'[active.attempt].sent = orca[active.attempt].sent \/ executor = "logical"
    BY <1>2, <2>1
  <2>5. DispatchOK(active, executor, orca'[active.attempt].sent)
    BY <2>2, <2>4 DEF DispatchOK
  <2> QED
    BY <1>1, <2>2, <2>3, <2>5 DEF RecInv
<1>8. ConnTypeOK'
  <2>1. TypeOK'
    BY <1>1 DEF StoreInv
  <2> QED
    BY <1>1, <1>2, <1>3, <2>1 DEF ConnInv, ConnTypeOK
<1>9. ASSUME NEW b \in AttemptId PROVE AttemptOK(b)'
  <2>1. AttemptOK(b)
    BY DEF ConnInv
  <2>2. OutboxOK(b)' /\ CompletedOK(b)' /\ HistoryOK(b)'
    BY <1>1, <1>3, OutboxFrame, CompletedFrame, HistoryFrame
  <2>3. Drawn(b)'
    <3>1. CASE b = a
      BY <1>1, <1>4, <2>1, <3>1 DEF AttemptOK, Drawn
    <3>2. CASE b # a
      BY <1>1, <1>2, <2>1, <3>2 DEF AttemptOK, Drawn
    <3> QED
      BY <3>1, <3>2
  <2>4. FilesOK(b)' /\ (Live(b)' => Mine(b)')
    BY <1>1, <2>1 DEF AttemptOK, FilesOK, Mine, ServerCancelled, Live
  <2> QED
    BY <2>2, <2>3, <2>4 DEF AttemptOK
<1> QED
  BY <1>1, <1>5, <1>6, <1>7, <1>8, <1>9 DEF ConnInv

LEMMA OrcaMovesKeep ==
  ASSUME ConnInv, NEW a \in AttemptId, OrcaMoves(a)
  PROVE  ConnInv' /\ UNCHANGED storeVars
<1>1. orca[a] \in Worker /\ WorkerOK(orca[a], executor, a \in produced) /\ NoWorker.request = "absent"
      /\ NoWorker.agent = "none" /\ orca \in [AttemptId -> Worker]
  BY DEF ConnInv, ConnTypeOK, OrcaInv, NoWorker
<1>2. CASE StartResolves(a)
  <2>1. /\ orca[a].request = "pending"
        /\ UNCHANGED <<storeVars, pc, delivery, active, outbox, history, receipt, used, executor,
                       produced>>
    BY <1>2 DEF StartResolves, LocalVars
  <2>2. executor = "logical" /\ orca[a].sent = 0 /\ orca[a] # NoWorker
    BY <1>1, <2>1 DEF WorkerOK
  <2>3. CASE orca' = [orca EXCEPT ![a] = WorkerStarted(@)]
    <3> DEFINE w == WorkerStarted(orca[a])
    <3>1. w \in Worker /\ w.turn = TRUE /\ WorkerOK(w, executor, a \in produced)
      BY <1>1, <2>2, WorkerStartedOK
    <3>2. orca' = [orca EXCEPT ![a] = w]
      BY <1>1, <2>3
    <3> HIDE DEF w
    <3> QED
      BY <2>1, <2>2, <3>1, <3>2, OrcaKeeps
  <2>4. CASE orca' = [orca EXCEPT ![a].request = "absent"]
    <3> DEFINE w == [orca[a] EXCEPT !.request = "absent"]
    <3>1. /\ w \in Worker /\ w.turn = orca[a].turn /\ w.sent = orca[a].sent
          /\ w.agent = orca[a].agent /\ w.request = "absent"
      BY <1>1 DEF Worker
    <3>2. orca' = [orca EXCEPT ![a] = w]
      BY <1>1, <2>4
    <3> HIDE DEF w
    <3>3. WorkerOK(w, executor, a \in produced)
      BY <1>1, <3>1 DEF WorkerOK
    <3> QED
      BY <2>1, <2>2, <3>1, <3>2, <3>3, OrcaKeeps
  <2> QED
    BY <1>2, <2>3, <2>4 DEF StartResolves
<1>3. CASE OrcaForgets(a)
  <2> DEFINE w == [orca[a] EXCEPT !.request = "absent"]
  <2>1. /\ orca[a].request = "completed"
        /\ UNCHANGED <<storeVars, pc, delivery, active, outbox, history, receipt, used, executor,
                       produced>>
        /\ orca' = [orca EXCEPT ![a].request = "absent"]
    BY <1>3 DEF OrcaForgets, LocalVars
  <2>2. /\ w \in Worker /\ w.turn = orca[a].turn /\ w.sent = orca[a].sent
        /\ w.agent = orca[a].agent /\ w.request = "absent"
    BY <1>1 DEF Worker
  <2>3. orca' = [orca EXCEPT ![a] = w]
    BY <1>1, <2>1
  <2> HIDE DEF w
  <2>4. WorkerOK(w, executor, a \in produced) /\ orca[a] # NoWorker
    BY <1>1, <2>1, <2>2 DEF WorkerOK
  <2> QED
    BY <2>1, <2>2, <2>3, <2>4, OrcaKeeps
<1>4. CASE AgentTurn(a)
  <2> DEFINE w == [orca[a] EXCEPT !.agent = "working", !.turn = TRUE]
  <2>1. /\ orca[a].agent = "idle"
        /\ UNCHANGED <<storeVars, pc, delivery, active, outbox, history, receipt, used, executor,
                       produced>>
        /\ orca' = [orca EXCEPT ![a].agent = "working", ![a].turn = TRUE]
    BY <1>4 DEF AgentTurn, LocalVars
  <2>2. /\ w \in Worker /\ w.turn = TRUE /\ w.sent = orca[a].sent
        /\ w.agent = "working" /\ w.request = orca[a].request
    BY <1>1 DEF Worker
  <2>3. orca' = [orca EXCEPT ![a] = w]
    BY <1>1, <2>1
  <2> HIDE DEF w
  <2>4. WorkerOK(w, executor, a \in produced) /\ orca[a] # NoWorker
    BY <1>1, <2>1, <2>2 DEF WorkerOK
  <2> QED
    BY <2>1, <2>2, <2>3, <2>4, OrcaKeeps
<1>5. CASE AgentStops(a)
  <2>1. PICK to \in {"done", "gone"} :
          /\ orca' = [orca EXCEPT ![a].agent = to]
          /\ orca[a].agent \in {"idle", "working", "done"}
          /\ to = "done" => orca[a].agent = "working"
          /\ UNCHANGED <<storeVars, pc, delivery, active, outbox, history, receipt, used, executor,
                         produced>>
    BY <1>5 DEF AgentStops, LocalVars
  <2> DEFINE w == [orca[a] EXCEPT !.agent = to]
  <2>2. /\ w \in Worker /\ w.turn = orca[a].turn /\ w.sent = orca[a].sent
        /\ w.agent = to /\ w.request = orca[a].request
    BY <1>1 DEF Worker
  <2>3. orca' = [orca EXCEPT ![a] = w]
    BY <1>1, <2>1
  <2> HIDE DEF w
  <2>4. WorkerOK(w, executor, a \in produced) /\ orca[a] # NoWorker
    BY <1>1, <2>1, <2>2 DEF WorkerOK
  <2> QED
    BY <2>1, <2>2, <2>3, <2>4, OrcaKeeps
<1>6. CASE AgentProduces(a)
  <2> DEFINE w == orca[a]
  <2>1. /\ orca[a].agent = "working" /\ produced' = produced \cup {a}
        /\ UNCHANGED <<storeVars, pc, delivery, active, outbox, history, receipt, used, executor,
                       orca>>
    BY <1>6 DEF AgentProduces
  <2>2. orca' = [orca EXCEPT ![a] = w] /\ w \in Worker /\ orca[a] # NoWorker
        /\ w.sent = orca[a].sent /\ (orca[a].turn => w.turn)
    BY <1>1, <2>1
  <2>3. WorkerOK(w, executor, a \in produced')
    BY <1>1, <2>1 DEF WorkerOK
  <2> HIDE DEF w
  <2> QED
    BY <2>1, <2>2, <2>3, OrcaKeeps
<1> QED
  BY <1>2, <1>3, <1>4, <1>5, <1>6 DEF OrcaMoves

-----------------------------------------------------------------------------
(***************************************************************************)
(* What others do to the server's records, and the calls that leave the    *)
(* marker and the reports alone: an attempt that ends in the step ends     *)
(* truthfully.                                                             *)
(***************************************************************************)
LEMMA CallKeeps ==
  ASSUME ConnInv, StoreInv', StoreGrows, UNCHANGED fence,
         UNCHANGED <<active, outbox, history, used, executor, orca, produced>>,
         receipt' \subseteq AttemptId, PlaceOK, delivery' \in Delivery \cup {None},
         delivery' # None =>
           /\ outbox[delivery'.attempt] # None
           /\ delivery'.acked => attempt'[delivery'.attempt].result # None,
         \A j \in JobId : job'[j].status # "none" =>
           job[j].status # "none" \/ job'[j].target \in Target,
         \A a \in AttemptId : attempt'[a].phase = "none" => attempt'[a].started = attempt[a].started,
         \A a \in AttemptId : attempt[a].phase = "none" /\ attempt'[a].phase # "none" =>
           a \notin used /\ attempt'[a].device # Self,
         \A a \in AttemptId : attempt[a].phase # "none" =>
           /\ attempt'[a].started = attempt[a].started
           /\ attempt'[a].phase \in {attempt[a].phase, "terminal"},
         \A a \in AttemptId : attempt'[a].phase = "terminal" /\ attempt[a].phase # "terminal" =>
           CompletedOK(a)'
  PROVE  ConnInv'
<1>1. OrcaGrows
  BY DEF OrcaGrows
<1>2. StoreSide'
  <2>1. ASSUME NEW j \in JobId, job'[j].status # "none" PROVE job'[j].target \in Target
    BY <2>1 DEF StoreGrows, JobGrows, ConnInv, StoreSide
  <2> QED
    BY <2>1 DEF ConnInv, StoreSide
<1>3. OrcaInv'
  BY DEF ConnInv, OrcaInv
<1>4. active # None =>
        /\ active.job \in JobId /\ active.attempt \in AttemptId /\ active.attempt \in used
        /\ job[active.job].status # "none" /\ job'[active.job].status # "none"
        /\ job'[active.job].result_target = job[active.job].result_target
        /\ attempt[active.attempt].phase = "none" <=> attempt'[active.attempt].phase = "none"
        /\ attempt[active.attempt].phase # "none" =>
             attempt'[active.attempt].job = attempt[active.attempt].job
        /\ attempt'[active.attempt].started = attempt[active.attempt].started
  <2> SUFFICES ASSUME active # None
               PROVE  /\ active.job \in JobId /\ active.attempt \in AttemptId /\ active.attempt \in used
                      /\ job[active.job].status # "none" /\ job'[active.job].status # "none"
                      /\ job'[active.job].result_target = job[active.job].result_target
                      /\ attempt[active.attempt].phase = "none" <=> attempt'[active.attempt].phase = "none"
                      /\ attempt[active.attempt].phase # "none" =>
                           attempt'[active.attempt].job = attempt[active.attempt].job
                      /\ attempt'[active.attempt].started = attempt[active.attempt].started
    OBVIOUS
  <2>1. active.job \in JobId /\ active.attempt \in AttemptId /\ active.attempt \in used
        /\ job[active.job].status # "none"
    BY MarkerType DEF ConnInv
  <2> QED
    BY <2>1 DEF StoreGrows, JobGrows, AttemptGrows
<1>5. MarkerInv'
  BY <1>4 DEF ConnInv, MarkerInv
<1>6. RecInv'
  BY <1>4 DEF ConnInv, RecInv
<1>7. ConnTypeOK'
  <2>1. TypeOK'
    BY DEF StoreInv
  <2>2. pc' \in Places
    BY DEF PlaceOK
  <2> QED
    BY <1>4, <2>1, <2>2 DEF ConnInv, ConnTypeOK, Places
<1>8. DeliveryInv'
  BY DEF DeliveryInv, PlaceOK
<1>9. ASSUME NEW b \in AttemptId PROVE AttemptOK(b)'
  <2>1. AttemptOK(b)
    BY DEF ConnInv
  <2>2. OutboxOK(b)' /\ HistoryOK(b)'
    BY <1>1, OutboxFrame, HistoryFrame
  <2>8. CompletedOK(b)'
    <3>1. CASE attempt'[b].phase = "terminal" /\ attempt[b].phase # "terminal"
      BY <3>1
    <3>2. CASE ~(attempt'[b].phase = "terminal" /\ attempt[b].phase # "terminal")
      BY <1>1, <3>2, CompletedFrame
    <3> QED
      BY <3>1, <3>2
  <2>3. attempt[b].phase # "none" =>
          attempt'[b].phase # "none" /\ attempt'[b].device = attempt[b].device
    BY DEF StoreGrows, AttemptGrows
  <2>4. Drawn(b)'
    BY <2>1, <2>3 DEF AttemptOK, Drawn
  <2>5. Mine(b)' <=> Mine(b)
    BY DEF Mine
  <2>6. FilesOK(b)'
    BY <2>5, FilesFrame
  <2>7. Live(b)' => Mine(b)'
    BY <2>1, <2>3, <2>5 DEF AttemptOK, Live
  <2> QED
    BY <2>2, <2>4, <2>6, <2>7, <2>8 DEF AttemptOK
<1> QED
  BY <1>2, <1>3, <1>5, <1>6, <1>7, <1>8, <1>9 DEF ConnInv

\* The daemon's own state, when it has not moved.
LEMMA DaemonStill ==
  ASSUME ConnInv, StoreGrows,
         UNCHANGED <<pc, delivery, active, outbox, history, receipt, used, executor, orca, produced>>
  PROVE  /\ receipt' \subseteq AttemptId /\ PlaceOK /\ delivery' \in Delivery \cup {None}
         /\ delivery' # None =>
              /\ outbox[delivery'.attempt] # None
              /\ delivery'.acked => attempt'[delivery'.attempt].result # None
<1>1. receipt' \subseteq AttemptId /\ PlaceOK /\ delivery' \in Delivery \cup {None}
  BY DEF PlaceOK, Places, ConnInv, ConnTypeOK, DeliveryInv
<1>2. delivery # None => outbox[delivery.attempt] # None /\ delivery.attempt \in AttemptId
  BY DEF ConnInv, ConnTypeOK, Delivery
<1>3. delivery # None => attempt[delivery.attempt].phase # "none"
  BY <1>2 DEF ConnInv, AttemptOK, Drawn
<1>4. delivery # None /\ delivery.acked => attempt[delivery.attempt].result # None
  BY DEF ConnInv, DeliveryInv
<1> QED
  BY <1>1, <1>2, <1>3, <1>4 DEF StoreGrows, AttemptGrows

LEMMA SubmitKeeps ==
  ASSUME ConnInv, NEW j \in JobId, Submit(j)
  PROVE  ConnInv' /\ [Next]_storeVars
<1>1. PICK r \in RequestId, t \in Target, dg \in Digest, rt \in {"none", "resource"} :
        CreateJob(r, j, t, dg, rt)
  BY ConnectorAssumption DEF Submit
<1>2. UNCHANGED <<pc, delivery, active, outbox, history, receipt, used, executor, produced, orca>>
  BY DEF Submit, LocalVars
<1>3. /\ StoreGrows /\ UNCHANGED <<attempt, fence>> /\ job'[j].target = t
      /\ \A i \in JobId \ {j} : job'[i] = job[i]
  BY <1>1, CreateGrows DEF ConnInv
<1>4. Next
  BY <1>1 DEF Next, JobStep
<1>5. StoreInv'
  BY <1>4, StoreInvStep DEF ConnInv
<1>6. /\ \A i \in JobId : job'[i].status # "none" =>
            job[i].status # "none" \/ job'[i].target \in Target
  BY <1>3
<1>7. ConnInv'
  BY <1>2, <1>3, <1>5, <1>6, DaemonStill, CallKeeps
<1> QED
  BY <1>4, <1>7

LEMMA OtherClaimsKeep ==
  ASSUME ConnInv, NEW j \in JobId, OtherClaims(j)
  PROVE  ConnInv' /\ [Next]_storeVars
<1>1. PICK d \in Device \ {Self}, a \in AttemptId \ used, t \in Target : ClaimJob(j, t, d, a)
  BY DEF OtherClaims
<1>2. UNCHANGED <<pc, delivery, active, outbox, history, receipt, used, executor, produced, orca>>
  BY DEF OtherClaims, LocalVars
<1>3. /\ StoreGrows /\ UNCHANGED fence
      /\ attempt'[a] = NewAttempt(j, d)
      /\ \A b \in AttemptId \ {a} : attempt'[b] = attempt[b]
      /\ \A i \in JobId : job'[i].status # "none" => job[i].status # "none"
  BY <1>1, ClaimGrows DEF ConnInv
<1>4. Next
  BY <1>1 DEF Next, JobStep
<1>5. StoreInv'
  BY <1>4, StoreInvStep DEF ConnInv
<1>6. attempt'[a].phase = "claimed" /\ attempt'[a].device = d /\ attempt[a].phase = "none"
  BY <1>1, <1>3 DEF NewAttempt, ClaimJob, ClaimAccepts
<1>7. ConnInv'
  BY <1>1, <1>2, <1>3, <1>5, <1>6, DaemonStill, CallKeeps
<1> QED
  BY <1>4, <1>7

LEMMA CancelsKeep ==
  ASSUME ConnInv, NEW j \in JobId, OperatorCancels(j)
  PROVE  ConnInv' /\ [Next]_storeVars
<1>1. UNCHANGED <<pc, delivery, active, outbox, history, receipt, used, executor, produced, orca>>
  BY DEF OperatorCancels, LocalVars
<1>2. PICK d \in Device : CancelQueued(j, None, d) \/ \E a \in AttemptId : CancelActive(j, a, d)
  BY DEF OperatorCancels
<1>3. CASE CancelQueued(j, None, d)
  <2>1. /\ StoreGrows /\ UNCHANGED <<attempt, fence>>
        /\ \A i \in JobId : job'[i].status # "none" => job[i].status # "none"
    BY <1>3, CancelQueuedGrows DEF ConnInv
  <2>2. Next
    BY <1>3 DEF Next, JobStep
  <2>3. StoreInv'
    BY <2>2, StoreInvStep DEF ConnInv
  <2>4. ConnInv'
    BY <1>1, <2>1, <2>3, DaemonStill, CallKeeps
  <2> QED
    BY <2>2, <2>4
<1>4. ASSUME NEW a \in AttemptId, CancelActive(j, a, d)
      PROVE  ConnInv' /\ [Next]_storeVars
  <2>1. /\ StoreGrows /\ UNCHANGED fence
        /\ attempt'[a].report.execution_status = "CANCELLED" /\ attempt[a].phase # "none"
        /\ \A b \in AttemptId \ {a} : attempt'[b] = attempt[b]
        /\ \A i \in JobId : job'[i].status # "none" => job[i].status # "none"
    BY <1>4, CancelActiveGrows DEF ConnInv
  <2>2. Next
    BY <1>4 DEF Next, JobStep
  <2>3. StoreInv'
    BY <2>2, StoreInvStep DEF ConnInv
  <2>4. attempt'[a].phase = "terminal" /\ attempt'[a].started = attempt[a].started
    <3> DEFINE rep == OperatorReport(attempt[a].phase = "running")
    <3>1. attempt'[a] = Reported(attempt[a], rep) /\ attempt[a] \in AttemptRecord
      BY <1>4 DEF CancelActive, ConnInv, StoreInv, TypeOK
    <3> HIDE DEF rep
    <3> QED
      BY <3>1, ReportedFields
  <2>5. CompletedOK(a)'
    BY <2>1 DEF CompletedOK
  <2>6. ConnInv'
    BY <1>1, <2>1, <2>3, <2>4, <2>5, DaemonStill, CallKeeps
  <2> QED
    BY <2>2, <2>6
<1> QED
  BY <1>2, <1>3, <1>4

-----------------------------------------------------------------------------
\* A result reaches the server, for the first time or again.
LEMMA ResultCall ==
  ASSUME ConnInv, NEW a \in AttemptId, attempt[a].phase # "none", NEW p \in Payload,
         \/ RecordReplays(attempt[a].job, a, Self, p) /\ UNCHANGED storeVars
         \/ RecordJobResult(attempt[a].job, a, Self, p, "automatic")
  PROVE  /\ [Next]_storeVars /\ StoreInv' /\ StoreGrows /\ UNCHANGED <<job, fence>>
         /\ attempt'[a].result = p
         /\ \A b \in AttemptId : /\ attempt'[b].phase = attempt[b].phase
                                 /\ attempt'[b].started = attempt[b].started
<1> DEFINE j == attempt[a].job
           d == Self
<1>1. j \in JobId /\ d \in Device
  BY Linked, ConnectorAssumption DEF ConnInv
<1>2. CASE RecordReplays(j, a, Self, p) /\ UNCHANGED storeVars
  <2>1. UNCHANGED <<job, attempt, fence>> /\ StoreGrows
    BY <1>2, SameStoreGrows DEF storeVars
  <2>2. StoreInv'
    BY <1>2, StoreInvStep DEF ConnInv
  <2> QED
    BY <1>2, <2>1, <2>2 DEF RecordReplays
<1>3. CASE RecordJobResult(j, a, Self, p, "automatic")
  <2> DEFINE i == j
  <2>1. RecordJobResult(i, a, d, p, "automatic") /\ i \in JobId
    BY <1>1, <1>3
  <2> HIDE DEF i, d
  <2>2. Next
    BY <1>1, <2>1 DEF Next, JobStep
  <2>3. /\ StoreGrows /\ UNCHANGED <<job, fence>>
        /\ attempt'[a].result = p /\ attempt'[a].phase = attempt[a].phase
        /\ attempt'[a].started = attempt[a].started
        /\ \A b \in AttemptId \ {a} : attempt'[b] = attempt[b]
    BY <1>1, <2>1, RecordGrows DEF ConnInv
  <2>4. StoreInv'
    BY <2>2, StoreInvStep DEF ConnInv
  <2> QED
    BY <2>2, <2>3, <2>4
<1> QED
  BY <1>2, <1>3

LEMMA RedeliverKeeps ==
  ASSUME ConnInv, NEW a \in AttemptId, SmartRedeliver(a)
  PROVE  ConnInv' /\ [Next]_storeVars
<1>1. /\ pc = "loop" /\ delivery = None /\ active = None /\ a \in produced
      /\ UNCHANGED <<delivery, active, outbox, history, used, executor, orca, produced>>
  BY DEF SmartRedeliver, Idle, Undelivered
<1>2. pc' \in {"loop", "poll"} /\ receipt' \in {receipt, receipt \cup {a}}
  BY <1>1 DEF SmartRedeliver
<1>3. PlaceOK /\ receipt' \subseteq AttemptId /\ delivery' = None
  BY <1>1, <1>2 DEF PlaceOK, Places, ConnInv, ConnTypeOK
<1>4. attempt[a].phase # "none" /\ TheResult \in Payload
  BY <1>1, ConnectorAssumption DEF ConnInv, AttemptOK, Drawn, TheResult
<1>5. /\ [Next]_storeVars /\ StoreInv' /\ StoreGrows /\ UNCHANGED <<job, fence>>
      /\ \A b \in AttemptId : /\ attempt'[b].phase = attempt[b].phase
                              /\ attempt'[b].started = attempt[b].started
  <2>1. CASE UNCHANGED storeVars
    <3>1. UNCHANGED <<job, attempt, fence>> /\ StoreGrows
      BY <2>1, SameStoreGrows DEF storeVars
    <3>2. StoreInv'
      BY <2>1, StoreInvStep DEF ConnInv
    <3> QED
      BY <2>1, <3>1, <3>2
  <2>2. CASE RecordJobResult(attempt[a].job, a, Self, TheResult, "automatic")
    BY <1>4, <2>2, ResultCall
  <2> QED
    BY <2>1, <2>2 DEF SmartRedeliver
<1>6. ConnInv'
  BY <1>1, <1>3, <1>5, CallKeeps
<1> QED
  BY <1>5, <1>6

\* What a delivery works on.
LEMMA DeliveryFacts ==
  ASSUME ConnInv, delivery # None
  PROVE  /\ delivery \in Delivery /\ delivery.attempt \in AttemptId
         /\ outbox[delivery.attempt] \in OutboxRecord /\ outbox[delivery.attempt] # None
         /\ attempt[delivery.attempt].phase # "none" /\ delivery.attempt \in used
         /\ attempt[delivery.attempt].device = Self
         /\ OutboxOK(delivery.attempt)
         /\ pc \in {"boot", "flush", "loop"}
         /\ Ends \/ Exits => pc' \in Places \ {"poll"}
<1>1. delivery \in Delivery /\ delivery.attempt \in AttemptId /\ outbox[delivery.attempt] # None
  BY DEF ConnInv, ConnTypeOK, Delivery
<1>2. outbox[delivery.attempt] \in OutboxRecord
  BY <1>1 DEF ConnInv, ConnTypeOK
<1>3. /\ attempt[delivery.attempt].phase # "none" /\ delivery.attempt \in used
      /\ attempt[delivery.attempt].device = Self /\ OutboxOK(delivery.attempt)
  BY <1>1 DEF ConnInv, AttemptOK, Drawn
<1>4. pc \in {"boot", "flush", "loop"}
  BY DEF ConnInv, ConnTypeOK, DeliveryInv
<1> QED
  BY <1>1, <1>2, <1>3, <1>4 DEF Ends, Exits, After, Places

LEMMA DeliverResultKeeps ==
  ASSUME ConnInv, DeliverResult
  PROVE  ConnInv' /\ [Next]_storeVars
<1> DEFINE a == delivery.attempt
           p == outbox[a].payload
<1>1. /\ delivery # None /\ p # None /\ ~delivery.acked
      /\ UNCHANGED <<active, outbox, history, used, executor, orca, produced>>
      /\ \/ RecordReplays(attempt[a].job, a, Self, p) /\ UNCHANGED storeVars
         \/ RecordJobResult(attempt[a].job, a, Self, p, "automatic")
  BY DEF DeliverResult
<1>2. /\ delivery \in Delivery /\ a \in AttemptId /\ outbox[a] \in OutboxRecord
      /\ outbox[a] # None /\ attempt[a].phase # "none" /\ pc \in {"boot", "flush", "loop"}
      /\ Ends \/ Exits => pc' \in Places \ {"poll"}
  BY <1>1, DeliveryFacts
<1>3. p \in Payload
  BY <1>1, <1>2 DEF OutboxRecord
<1>4. /\ [Next]_storeVars /\ StoreInv' /\ StoreGrows /\ UNCHANGED <<job, fence>>
      /\ attempt'[a].result = p
      /\ \A b \in AttemptId : /\ attempt'[b].phase = attempt[b].phase
                              /\ attempt'[b].started = attempt[b].started
  <2> HIDE DEF a, p
  <2> QED
    BY <1>1, <1>2, <1>3, ResultCall
<1>5. CASE /\ receipt' = receipt \cup {a} /\ delivery' = [delivery EXCEPT !.acked = TRUE]
           /\ UNCHANGED <<pc, faults>>
  <2>1. delivery' \in Delivery /\ delivery'.attempt = a
    BY <1>2, <1>5 DEF Delivery
  <2>2. PlaceOK /\ receipt' \subseteq AttemptId
    BY <1>2, <1>5 DEF PlaceOK, Places, ConnInv, ConnTypeOK
  <2>3. ConnInv'
    BY <1>1, <1>2, <1>4, <2>1, <2>2, CallKeeps
  <2> QED
    BY <1>4, <2>3
<1>6. CASE Unanswered /\ UNCHANGED receipt
  <2>1. delivery' = None /\ pc' \in Places \ {"poll"}
    BY <1>2, <1>6 DEF Unanswered, Refused
  <2>2. PlaceOK /\ receipt' \subseteq AttemptId
    BY <1>6, <2>1 DEF PlaceOK, ConnInv, ConnTypeOK
  <2>3. ConnInv'
    BY <1>1, <1>4, <2>1, <2>2, CallKeeps
  <2> QED
    BY <1>4, <2>3
<1> QED
  BY <1>5, <1>6 DEF DeliverResult

-----------------------------------------------------------------------------
(***************************************************************************)
(* A report reaches the server, and the files are cleaned up.              *)
(***************************************************************************)
LEMMA ReportCall ==
  ASSUME ConnInv, ReadyToReport, OnlyFiles,
         NEW a, a = delivery.attempt, NEW rep, rep = outbox[a].report,
         \/ ReportJob(attempt[a].job, a, Self, rep)
         \/ ReportReplays(attempt[a].job, a, Self, rep) /\ UNCHANGED storeVars
  PROVE  /\ [Next]_storeVars /\ StoreInv' /\ StoreGrows /\ UNCHANGED fence
         /\ rep \in ExecutionReport
         /\ attempt'[a].phase = "terminal" /\ attempt'[a].report = rep
         /\ \A b \in AttemptId : attempt[b].phase # "none" =>
              /\ attempt'[b].started = attempt[b].started
              /\ attempt'[b].phase \in {attempt[b].phase, "terminal"}
         /\ \A b \in AttemptId : attempt[b].phase = "none" =>
              attempt'[b].phase = "none" /\ attempt'[b].started = attempt[b].started
         /\ \A b \in AttemptId : b # a => attempt'[b].phase = attempt[b].phase
         /\ \A i \in JobId : job'[i].status # "none" => job[i].status # "none"
         /\ CompletedOK(a)'
<1>1. delivery # None /\ (outbox[a].payload = None \/ delivery.acked)
  BY DEF ReadyToReport
<1>2. /\ a \in AttemptId /\ outbox[a] \in OutboxRecord /\ outbox[a] # None
      /\ attempt[a].phase # "none" /\ attempt[a].device = Self /\ OutboxOK(a)
  BY <1>1, DeliveryFacts
<1>3. rep \in ExecutionReport /\ rep \in Report
  BY <1>2, ConnectorAssumption DEF OutboxRecord
<1> DEFINE j == attempt[a].job
           d == Self
<1>4. j \in JobId /\ d \in Device
  BY <1>2, Linked, ConnectorAssumption DEF ConnInv
<1>5. /\ [Next]_storeVars /\ StoreGrows /\ UNCHANGED fence
      /\ attempt'[a].phase = "terminal" /\ attempt'[a].report = rep
      /\ attempt'[a].result = attempt[a].result /\ attempt'[a].started = attempt[a].started
      /\ \A b \in AttemptId \ {a} : attempt'[b] = attempt[b]
      /\ \A i \in JobId : job'[i].status # "none" => job[i].status # "none"
  <2>1. CASE ReportReplays(j, a, Self, rep) /\ UNCHANGED storeVars
    <3>1. UNCHANGED <<job, attempt, fence>> /\ StoreGrows
      BY <2>1, SameStoreGrows DEF storeVars
    <3> QED
      BY <2>1, <3>1 DEF ReportReplays
  <2>2. CASE ReportJob(j, a, Self, rep)
    <3> DEFINE i == j
    <3>1. ReportJob(i, a, d, rep) /\ i \in JobId
      BY <1>4, <2>2
    <3>2. attempt'[a].started = attempt[a].started
      <4>1. attempt'[a] = Reported(attempt[a], rep) /\ attempt[a] \in AttemptRecord
        BY <1>2, <2>2 DEF ReportJob, ConnInv, StoreInv, TypeOK
      <4> QED
        BY <4>1, ReportedFields
    <3> HIDE DEF i, d
    <3>3. Next
      BY <1>2, <1>3, <1>4, <3>1 DEF Next, JobStep
    <3> QED
      BY <1>2, <1>3, <1>4, <3>1, <3>2, <3>3, ReportGrows DEF ConnInv
  <2> QED
    BY <2>1, <2>2
<1>6. StoreInv'
  BY <1>5, StoreInvStep DEF ConnInv
<1>7. CompletedOK(a)'
  <2>1. /\ attempt'[a].job = attempt[a].job
        /\ job'[attempt[a].job].result_target = job[attempt[a].job].result_target
    BY <1>2, <1>5, JobOfAttemptKept DEF ConnInv
  <2>2. delivery.acked => attempt[a].result # None
    BY <1>1 DEF ConnInv, DeliveryInv
  <2>3. UNCHANGED <<orca, produced>>
    BY DEF OnlyFiles
  <2> QED
    BY <1>1, <1>2, <1>5, <2>1, <2>2, <2>3 DEF CompletedOK, OutboxOK
<1> QED
  BY <1>2, <1>3, <1>5, <1>6, <1>7

\* The history of a report is never that of a cancel.
LEMMA HistoryOfTyped ==
  ASSUME NEW rep \in ExecutionReport
  PROVE  /\ HistoryOf(rep) \in SanitizedHistoryRecord /\ HistoryOf(rep) # None
         /\ HistoryOf(rep).status # "cancelled" /\ HistoryOf(rep).digest = rep
<1>1. /\ HistoryOf(rep) \in SanitizedHistoryRecord
      /\ HistoryOf(rep).status # "cancelled" /\ HistoryOf(rep).digest = rep
  BY DEF HistoryOf, SanitizedHistoryRecord
<1> QED
  BY <1>1, NoneIsNoFile

(***************************************************************************)
(* Cleaning up after an attempt that has ended on the server: whatever     *)
(* prefix of the three writes is made, what stays is accounted for.        *)
(***************************************************************************)
LEMMA CleansUpKeeps ==
  ASSUME ConnInv, StoreInv', StoreGrows, UNCHANGED fence, OnlyFiles,
         NEW a \in AttemptId, delivery # None, delivery.attempt = a,
         active # None, active.attempt = a,
         NEW hist \in SanitizedHistoryRecord, CleansUp(a, hist),
         attempt'[a].phase = "terminal",
         IF hist.status = "cancelled" THEN ServerCancelled(attempt[a].job)
         ELSE attempt'[a].report = hist.digest /\ active.digest = hist.digest,
         \A b \in AttemptId : attempt[b].phase # "none" =>
           /\ attempt'[b].started = attempt[b].started
           /\ attempt'[b].phase \in {attempt[b].phase, "terminal"},
         \A b \in AttemptId : attempt[b].phase = "none" =>
           attempt'[b].phase = "none" /\ attempt'[b].started = attempt[b].started,
         \A b \in AttemptId : b # a => attempt'[b].phase = attempt[b].phase,
         \A i \in JobId : job'[i].status # "none" => job[i].status # "none",
         CompletedOK(a)'
  PROVE  ConnInv'
<1>1. /\ history' = [history EXCEPT ![a] = hist] /\ delivery' = None
      /\ outbox' \in {outbox, [outbox EXCEPT ![a] = None]}
      /\ active' \in {active, None}
      /\ active' = None => outbox' = [outbox EXCEPT ![a] = None]
      /\ Ends \/ Exits
      /\ UNCHANGED <<receipt, used, executor, orca, produced>>
  BY DEF CleansUp, OnlyFiles
<1>2. /\ history' \in [AttemptId -> SanitizedHistoryRecord \cup {None}]
      /\ outbox' \in [AttemptId -> OutboxRecord \cup {None}]
      /\ history'[a] = hist /\ hist # None
      /\ outbox'[a] \in {outbox[a], None}
      /\ active' = None => outbox'[a] = None
      /\ \A b \in AttemptId : b # a => history'[b] = history[b] /\ outbox'[b] = outbox[b]
  BY <1>1, NoneIsNoFile DEF ConnInv, ConnTypeOK
<1>3. OrcaGrows /\ a \in used /\ attempt[a].phase # "none" /\ attempt[a].device = Self
      /\ pc' \in Places \ {"poll"}
  BY <1>1, DeliveryFacts DEF OrcaGrows
<1>4. StoreSide' /\ OrcaInv' /\ DeliveryInv'
  <2>1. ASSUME NEW j \in JobId, job'[j].status # "none" PROVE job'[j].target \in Target
    BY <2>1 DEF StoreGrows, JobGrows, ConnInv, StoreSide
  <2> QED
    BY <1>1, <1>3, <2>1 DEF ConnInv, StoreSide, OrcaInv, DeliveryInv
<1>5. /\ active.job \in JobId /\ job[active.job].status # "none"
      /\ job'[active.job].status # "none"
      /\ job'[active.job].result_target = job[active.job].result_target
      /\ attempt'[a].job = attempt[a].job /\ attempt'[a].started = attempt[a].started
  <2>1. active.job \in JobId /\ job[active.job].status # "none"
    BY MarkerType DEF ConnInv
  <2> QED
    BY <1>3, <2>1 DEF StoreGrows, JobGrows, AttemptGrows
<1>6. MarkerInv'
  BY <1>1, <1>2, <1>3, <1>5 DEF ConnInv, MarkerInv
<1>7. RecInv'
  BY <1>1, <1>5 DEF ConnInv, RecInv
<1>8. ConnTypeOK'
  <2>1. TypeOK' /\ pc' \in Places
    BY <1>3 DEF StoreInv
  <2> QED
    BY <1>1, <1>2, <1>5, <2>1 DEF ConnInv, ConnTypeOK, Places
<1>9. ASSUME NEW b \in AttemptId, b # a PROVE AttemptOK(b)'
  <2>1. AttemptOK(b) /\ ~Mine(b) /\ ~Mine(b)'
    BY <1>1, <1>9 DEF ConnInv, Mine
  <2>2. outbox'[b] = outbox[b] /\ history'[b] = history[b] /\ attempt'[b].phase = attempt[b].phase
        /\ attempt'[b].started = attempt[b].started
    BY <1>2, <1>9
  <2>3. OutboxOK(b)' /\ CompletedOK(b)' /\ HistoryOK(b)'
    BY <1>3, <2>2, OutboxFrame, CompletedFrame, HistoryFrame
  <2>4. attempt[b].phase # "none" => attempt'[b].device = attempt[b].device
    BY DEF StoreGrows, AttemptGrows
  <2>5. Drawn(b)'
    BY <1>1, <2>1, <2>2, <2>4 DEF AttemptOK, Drawn
  <2>6. FilesOK(b)'
    BY <2>1, <2>2, FilesFrame
  <2>7. Live(b)' => Mine(b)'
    BY <2>1, <2>2, <2>4 DEF AttemptOK, Live, Mine
  <2> QED
    BY <2>3, <2>5, <2>6, <2>7 DEF AttemptOK
<1>10. AttemptOK(a)'
  <2>1. AttemptOK(a)
    BY DEF ConnInv
  <2>2. OutboxOK(a)'
    BY <1>2, <1>3, OutboxFrame
  <2>3. attempt'[a].device = Self
    BY <1>3 DEF StoreGrows, AttemptGrows
  <2>4. Drawn(a)'
    BY <1>1, <1>3, <2>3 DEF Drawn
  <2>5. ServerCancelled(attempt[a].job) => ServerCancelled(attempt[a].job)'
    BY <1>3, CancelStays DEF ConnInv
  <2>6. HistoryOK(a)'
    BY <1>2, <2>5 DEF HistoryOK, ServerCancelled
  <2>7. FilesOK(a)'
    <3>1. CASE hist.status = "cancelled"
      BY <2>5, <3>1 DEF FilesOK
    <3>2. CASE hist.status # "cancelled"
      BY <1>1, <1>2, <3>2 DEF FilesOK, Mine
    <3> QED
      BY <3>1, <3>2
  <2>8. ~Live(a)'
    BY DEF Live
  <2> QED
    BY <2>2, <2>4, <2>6, <2>7, <2>8 DEF AttemptOK
<1> QED
  BY <1>4, <1>6, <1>7, <1>8, <1>9, <1>10 DEF ConnInv

LEMMA ReportDeliveredKeeps ==
  ASSUME ConnInv, ReportDelivered
  PROVE  ConnInv' /\ [Next]_storeVars
<1> SUFFICES ASSUME NEW a, a = delivery.attempt, NEW rep, rep = outbox[a].report
             PROVE  ConnInv' /\ [Next]_storeVars
  OBVIOUS
<1>1. /\ ReadyToReport /\ OnlyFiles
      /\ \/ ReportJob(attempt[a].job, a, Self, rep)
         \/ ReportReplays(attempt[a].job, a, Self, rep) /\ UNCHANGED storeVars
  BY DEF ReportDelivered
<1>2. /\ delivery # None /\ a \in AttemptId
      /\ Ends \/ Exits => pc' \in Places \ {"poll"}
  BY <1>1, DeliveryFacts DEF ReadyToReport
<1>3. /\ [Next]_storeVars /\ StoreInv' /\ StoreGrows /\ UNCHANGED fence
      /\ rep \in ExecutionReport
      /\ attempt'[a].phase = "terminal" /\ attempt'[a].report = rep
      /\ \A b \in AttemptId : attempt[b].phase # "none" =>
           /\ attempt'[b].started = attempt[b].started
           /\ attempt'[b].phase \in {attempt[b].phase, "terminal"}
      /\ \A b \in AttemptId : attempt[b].phase = "none" =>
           attempt'[b].phase = "none" /\ attempt'[b].started = attempt[b].started
      /\ \A b \in AttemptId : b # a => attempt'[b].phase = attempt[b].phase
      /\ \A i \in JobId : job'[i].status # "none" => job[i].status # "none"
      /\ CompletedOK(a)'
  BY <1>1, ReportCall
<1>4. CASE MarkerMatches(a) /\ CleansUp(a, HistoryOf(rep))
  <2>1. ASSUME NEW hist, hist = HistoryOf(rep) PROVE ConnInv'
    <3>1. /\ hist \in SanitizedHistoryRecord /\ hist.status # "cancelled" /\ hist.digest = rep
      BY <1>3, <2>1, HistoryOfTyped
    <3>2. active # None /\ active.attempt = a /\ active.digest = rep
      BY <1>4 DEF MarkerMatches
    <3>3. CleansUp(a, hist)
      BY <1>4, <2>1
    <3>4. IF hist.status = "cancelled" THEN ServerCancelled(attempt[a].job)
          ELSE attempt'[a].report = hist.digest /\ active.digest = hist.digest
      BY <1>3, <3>1, <3>2
    <3> QED
      BY <1>1, <1>2, <1>3, <3>1, <3>2, <3>3, <3>4, CleansUpKeeps
  <2> QED
    BY <1>3, <2>1
<1>5. CASE (Refused \/ Unanswered) /\ UNCHANGED <<active, outbox, history>>
  <2>1. delivery' = None /\ pc' \in Places \ {"poll"}
    BY <1>2, <1>5 DEF Unanswered, Refused
  <2>2. PlaceOK /\ receipt' \subseteq AttemptId
        /\ UNCHANGED <<active, outbox, history, used, executor, orca, produced>>
    BY <1>1, <1>5, <2>1 DEF PlaceOK, ConnInv, ConnTypeOK, OnlyFiles
  <2>3. \A b \in AttemptId : attempt'[b].phase = "none" => attempt'[b].started = attempt[b].started
    BY <1>3
  <2>4. \A b \in AttemptId : attempt[b].phase = "none" /\ attempt'[b].phase # "none" =>
          b \notin used /\ attempt'[b].device # Self
    BY <1>3
  <2>5. \A b \in AttemptId : attempt'[b].phase = "terminal" /\ attempt[b].phase # "terminal" =>
          CompletedOK(b)'
    BY <1>3
  <2>6. ConnInv'
    BY <1>3, <2>1, <2>2, <2>3, <2>4, <2>5, CallKeeps
  <2> QED
    BY <1>3, <2>6
<1> QED
  BY <1>4, <1>5 DEF ReportDelivered

LEMMA ReportConflictsKeeps ==
  ASSUME ConnInv, ReportConflicts
  PROVE  ConnInv' /\ UNCHANGED storeVars
<1> SUFFICES ASSUME NEW a, a = delivery.attempt
             PROVE  ConnInv' /\ UNCHANGED storeVars
  OBVIOUS
<1>1. ReadyToReport /\ OnlyFiles /\ UNCHANGED storeVars
  BY DEF ReportConflicts
<1>2. /\ delivery # None /\ a \in AttemptId /\ attempt[a].phase # "none"
      /\ Ends \/ Exits => pc' \in Places \ {"poll"}
  BY <1>1, DeliveryFacts DEF ReadyToReport
<1>3. UNCHANGED <<job, attempt, fence>> /\ StoreGrows /\ StoreInv'
  BY <1>1, SameStoreGrows, StoreInvStep DEF storeVars, ConnInv
<1>4. CASE /\ active # None /\ active.attempt = a /\ ServerCancelled(attempt[a].job)
           /\ CleansUp(a, CancelledHistory)
  <2>1. ASSUME NEW hist, hist = CancelledHistory PROVE ConnInv'
    <3>1. hist \in SanitizedHistoryRecord /\ hist.status = "cancelled" /\ CleansUp(a, hist)
      BY <1>4, <2>1, CancelledHistoryTyped
    <3>2. attempt[a].phase = "terminal"
      BY <1>2, <1>4, Linked DEF ConnInv, ServerCancelled
    <3>3. CompletedOK(a)'
      <4>1. CompletedOK(a) /\ UNCHANGED <<orca, produced>>
        BY <1>1, <1>2 DEF OnlyFiles, ConnInv, AttemptOK
      <4> QED
        BY <1>3, <4>1 DEF CompletedOK
    <3>4. IF hist.status = "cancelled" THEN ServerCancelled(attempt[a].job)
          ELSE attempt'[a].report = hist.digest /\ active.digest = hist.digest
      BY <1>4, <3>1
    <3>5. attempt'[a].phase = "terminal"
      BY <1>3, <3>2
    <3> QED
      BY <1>1, <1>2, <1>3, <1>4, <3>1, <3>3, <3>4, <3>5, CleansUpKeeps
  <2> QED
    BY <1>1, <2>1
<1>5. CASE Refused /\ UNCHANGED <<active, outbox, history>>
  <2>1. delivery' = None /\ pc' \in Places \ {"poll"}
    BY <1>2, <1>5 DEF Refused
  <2>2. PlaceOK /\ receipt' \subseteq AttemptId
        /\ UNCHANGED <<active, outbox, history, used, executor, orca, produced>>
    BY <1>1, <1>5, <2>1 DEF PlaceOK, ConnInv, ConnTypeOK, OnlyFiles
  <2>3. ConnInv'
    BY <1>3, <2>1, <2>2, CallKeeps
  <2> QED
    BY <1>1, <2>3
<1> QED
  BY <1>4, <1>5 DEF ReportConflicts

-----------------------------------------------------------------------------
(***************************************************************************)
(* OutcomeRecorded.  The report is true of the attempt and of what Orca    *)
(* did, so the server will take it.                                        *)
(***************************************************************************)
LEMMA ReportOfTyped ==
  ASSUME NEW rec \in ActiveAttempt,
         NEW rcpt \in {"retained"} \cup {Receipts[i] : i \in 1..Len(Receipts)}
  PROVE  /\ ReportOf(rec, rcpt) \in ExecutionReport
         /\ ReportOf(rec, rcpt).execution_status = StatusOf(rec)
         /\ ReportOf(rec, rcpt).task_dispatched = rec.request
<1>1. rec.request \in BOOLEAN
  BY DEF ActiveAttempt
<1>2. StatusOf(rec) \in {"COMPLETED", "FAILED", "TIMED_OUT", "BLOCKED"}
  BY DEF StatusOf
<1> QED
  BY <1>1, <1>2 DEF ReportOf, ExecutionReport

LEMMA ReportOfTrue ==
  ASSUME ConnInv, Drives("OutcomeRecorded")
  PROVE  /\ active.request => attempt[active.attempt].started
         /\ ~active.request <=> StatusOf(active) = "BLOCKED"
         /\ StatusOf(active) = "COMPLETED" => orca[active.attempt].turn
         /\ StatusOf(active) = "COMPLETED" /\ Wants => active.attempt \in produced
         /\ Wants <=> job[active.job].result_target = "resource"
         /\ attempt[active.attempt].phase # "none"
         /\ attempt[active.attempt].job = active.job
<1>1. /\ active # None /\ active \in ActiveAttempt /\ active.phase = "OutcomeRecorded"
      /\ RecFits(active, orca[active.attempt], attempt[active.attempt].started)
  BY DriveEnds
<1>2. active.attempt \in AttemptId
  BY <1>1, MarkerType DEF ConnInv
<1>3. WorkerOK(orca[active.attempt], executor, active.attempt \in produced)
  BY <1>2 DEF ConnInv, OrcaInv
<1>4. active.kind \in OutcomeKind /\ active.request \in BOOLEAN
  BY <1>1 DEF ActiveAttempt
<1>5. /\ active.kind # "none"
      /\ active.kind # "not_started" <=> active.request
      /\ active.request => attempt[active.attempt].started
  BY <1>1, <1>4 DEF RecFits, PhaseOK
<1>6. active.attempt \in produced => orca[active.attempt].turn
  BY <1>3 DEF WorkerOK
<1>7. /\ StatusOf(active) = "COMPLETED" => orca[active.attempt].turn
      /\ StatusOf(active) = "COMPLETED" /\ Wants => active.attempt \in produced
  BY <1>1, <1>4, <1>5, <1>6 DEF RecFits, WorkOK, StatusOf, Wants, Captured, OutcomeKind
<1>8. ~active.request <=> StatusOf(active) = "BLOCKED"
  BY <1>4, <1>5 DEF StatusOf, OutcomeKind
<1> QED
  BY <1>1, <1>5, <1>7, <1>8 DEF ConnInv, MarkerInv, Wants

\* The marker of a report that waits in the outbox.
Finalizes(rec, rep) == [rec EXCEPT !.phase = "FinalizedLocal", !.digest = rep]

LEMMA FinalizesUpdate ==
  ASSUME NEW rec \in ActiveAttempt, rec.phase = "OutcomeRecorded",
         NEW rep \in ExecutionReport, NEW started, NEW turn, NEW made, NEW exec, NEW sent,
         PhaseOK(rec, started), WorkOK(rec, turn, made), DispatchOK(rec, exec, sent)
  PROVE  /\ Finalizes(rec, rep) \in ActiveAttempt
         /\ Finalizes(rec, rep).attempt = rec.attempt /\ Finalizes(rec, rep).job = rec.job
         /\ Finalizes(rec, rep).result_target = rec.result_target
         /\ Finalizes(rec, rep).phase = "FinalizedLocal"
         /\ Finalizes(rec, rep).digest = rep
         /\ PhaseOK(Finalizes(rec, rep), started) /\ WorkOK(Finalizes(rec, rep), turn, made)
         /\ DispatchOK(Finalizes(rec, rep), exec, sent)
<1> DEFINE s == Finalizes(rec, rep)
<1>1. "FinalizedLocal" \in AttemptPhase
  BY DEF AttemptPhase
<1>2. s \in ActiveAttempt
  BY <1>1 DEF Finalizes, ActiveAttempt
<1>3. /\ s.attempt = rec.attempt /\ s.job = rec.job /\ s.result_target = rec.result_target
      /\ s.phase = "FinalizedLocal" /\ s.digest = rep
      /\ s.request = rec.request /\ s.kind = rec.kind /\ s.err = rec.err
      /\ s.turnSent = rec.turnSent /\ s.turnSeen = rec.turnSeen
      /\ s.sends = rec.sends /\ s.last = rec.last
  BY <1>1 DEF Finalizes, ActiveAttempt
<1> HIDE DEF s
<1>4. PhaseOK(s, started)
  BY <1>3 DEF PhaseOK, Early
<1>5. WorkOK(s, turn, made) /\ DispatchOK(s, exec, sent)
  BY <1>3 DEF WorkOK, DispatchOK, Early
<1> QED
  BY <1>2, <1>3, <1>4, <1>5 DEF s

\* The outbox record is written, then the marker and the flush, or a crash.
LEMMA WritesOutcomeKeeps ==
  ASSUME ConnInv, Drives("OutcomeRecorded"),
         NEW rcpt \in {"retained"} \cup {Receipts[i] : i \in 1..Len(Receipts)},
         WritesOutcome(ReportOf(active, rcpt)),
         NEW w, WorkerGrows(active.attempt, w), w.sent = orca[active.attempt].sent,
         orca' = [orca EXCEPT ![active.attempt] = w],
         WorkerOK(w, executor, active.attempt \in produced)
  PROVE  ConnInv'
<1> SUFFICES ASSUME NEW a, a = active.attempt, NEW rep, rep = ReportOf(active, rcpt),
                    NEW box, box = [report  |-> rep,
                                    payload |-> IF Wants /\ rep.execution_status = "COMPLETED"
                                                THEN TheResult ELSE None]
             PROVE  ConnInv'
  OBVIOUS
<1>1. /\ active # None /\ active.phase = "OutcomeRecorded" /\ delivery = None
      /\ active \in ActiveAttempt /\ pc \in {"boot", "loop"}
      /\ RecFits(active, orca[a], attempt[a].started)
  BY DriveEnds
<1>2. /\ a \in AttemptId /\ a \in used /\ active.job \in JobId /\ orca[a] \in Worker
      /\ job[active.job].status # "none"
  BY <1>1, MarkerType DEF ConnInv
<1>3. /\ rep \in ExecutionReport /\ rep.execution_status = StatusOf(active)
      /\ rep.task_dispatched = active.request
  BY <1>1, ReportOfTyped
<1>4. /\ box \in OutboxRecord /\ box # None /\ box.report = rep
      /\ box.payload # None <=> Wants /\ rep.execution_status = "COMPLETED"
  <2>1. TheResult \in Payload /\ TheResult # None
    BY ConnectorAssumption, NoneAssumption DEF TheResult
  <2>2. /\ box \in OutboxRecord /\ box.report = rep
        /\ box.payload # None <=> Wants /\ rep.execution_status = "COMPLETED"
    BY <1>3, <2>1 DEF OutboxRecord
  <2> QED
    BY <2>2, NoneIsNoFile
<1>5. /\ outbox' = [outbox EXCEPT ![a] = box]
      /\ UNCHANGED <<history, receipt, used, executor, produced>> /\ UNCHANGED storeVars
      /\ \/ /\ active' = Finalizes(active, rep)
            /\ \E b \in AttemptId : outbox'[b] # None /\ delivery' = Flushing(b)
            /\ UNCHANGED pc
         \/ UNCHANGED <<active, delivery>> /\ Exits
  BY DEF WritesOutcome, Finalizes
<1>6. /\ outbox'[a] = box /\ \A b \in AttemptId : b # a => outbox'[b] = outbox[b]
      /\ outbox' \in [AttemptId -> OutboxRecord \cup {None}]
      /\ orca'[a] = w /\ \A b \in AttemptId : b # a => orca'[b] = orca[b]
      /\ orca' \in [AttemptId -> Worker]
  BY <1>2, <1>4, <1>5 DEF ConnInv, ConnTypeOK, WorkerGrows
<1>7. /\ active' # None /\ active' \in ActiveAttempt /\ active'.attempt = a
      /\ active'.job = active.job /\ active'.result_target = active.result_target
      /\ active'.phase \in {"OutcomeRecorded", "FinalizedLocal"}
      /\ PhaseOK(active', attempt[a].started) /\ WorkOK(active', orca[a].turn, a \in produced)
      /\ DispatchOK(active', executor, orca[a].sent)
  <2>1. PhaseOK(active, attempt[a].started) /\ WorkOK(active, orca[a].turn, a \in produced)
        /\ DispatchOK(active, executor, orca[a].sent)
    BY <1>1 DEF RecFits
  <2>2. CASE active' = Finalizes(active, rep)
    BY <1>1, <1>3, <2>1, <2>2, FinalizesUpdate, NoneIsNoFile
  <2>3. CASE active' = active
    BY <1>1, <2>1, <2>3
  <2> QED
    BY <1>5, <2>2, <2>3
<1>8. /\ delivery' \in Delivery \cup {None} /\ pc' \in Places \ {"poll"}
      /\ pc' = "down" => delivery' = None
      /\ delivery' # None => outbox'[delivery'.attempt] # None /\ delivery'.acked = FALSE
  <2>1. CASE (\E b \in AttemptId : outbox'[b] # None /\ delivery' = Flushing(b)) /\ UNCHANGED pc
    <3>1. PICK b \in AttemptId : outbox'[b] # None /\ delivery' = Flushing(b)
      BY <2>1
    <3>2. Flushing(b) \in Delivery /\ Flushing(b).attempt = b /\ Flushing(b).acked = FALSE
      BY DEF Flushing, Delivery
    <3> QED
      BY <1>1, <2>1, <3>1, <3>2 DEF Places
  <2>2. CASE UNCHANGED <<active, delivery>> /\ Exits
    BY <1>1, <2>2 DEF Exits, Places
  <2> QED
    BY <1>5, <2>1, <2>2
<1>9. UNCHANGED <<job, attempt, fence>> /\ StoreInv' /\ StoreGrows
  BY <1>5, SameStoreGrows, StoreInvStep DEF storeVars, ConnInv
<1>10. OrcaGrows /\ w.turn \in BOOLEAN
  BY <1>2, <1>5, <1>6 DEF OrcaGrows, WorkerGrows, Worker
<1>11. StoreSide' /\ OrcaInv' /\ DeliveryInv'
  BY <1>2, <1>5, <1>6, <1>8, <1>9 DEF ConnInv, StoreSide, OrcaInv, DeliveryInv
<1>12. /\ attempt[a].phase # "none" /\ attempt[a].job = active.job
       /\ Wants <=> job[active.job].result_target = "resource"
       /\ active.result_target = job[active.job].result_target
  BY <1>1, ReportOfTrue DEF ConnInv, MarkerInv
<1>13. MarkerInv'
  BY <1>7, <1>9, <1>12 DEF MarkerInv
<1>14. RecInv'
  <2>1. orca[a].turn => w.turn
    BY DEF WorkerGrows
  <2>2. WorkOK(active', w.turn, a \in produced)
    BY <1>7, <2>1 DEF WorkOK
  <2> QED
    BY <1>5, <1>6, <1>7, <1>9, <2>2 DEF RecInv
<1>15. ConnTypeOK'
  <2>1. TypeOK' /\ pc' \in {"down", "boot", "flush", "loop", "poll"}
    BY <1>8, <1>9 DEF StoreInv, Places
  <2> QED
    BY <1>2, <1>5, <1>6, <1>7, <1>8, <1>9, <2>1 DEF ConnInv, ConnTypeOK
<1>16. ASSUME NEW b \in AttemptId PROVE AttemptOK(b)'
  <2>1. AttemptOK(b) /\ (Mine(b)' <=> b = a) /\ (Mine(b) <=> b = a)
    BY <1>1, <1>7 DEF ConnInv, Mine
  <2>2. HistoryOK(b)' /\ CompletedOK(b)'
    BY <1>5, <1>9, <1>10, HistoryFrame, CompletedFrame
  <2>3. Drawn(b)'
    <3>1. CASE b = a
      <4>1. attempt[b].device = Self
        BY <1>2, <1>12, <2>1, <3>1 DEF AttemptOK, Drawn
      <4> QED
        BY <1>2, <1>5, <1>9, <1>12, <3>1, <4>1 DEF Drawn
    <3>2. CASE b # a
      BY <1>5, <1>6, <1>9, <2>1, <3>2 DEF AttemptOK, Drawn
    <3> QED
      BY <3>1, <3>2
  <2>4. OutboxOK(b)'
    <3>1. CASE b = a
      <4>1. /\ rep.task_dispatched => attempt[a].started
            /\ ~rep.task_dispatched <=> rep.execution_status = "BLOCKED"
            /\ rep.execution_status = "COMPLETED" => w.turn
            /\ rep.execution_status = "COMPLETED" /\ Wants => a \in produced
        BY <1>3, ReportOfTrue DEF WorkerGrows
      <4>2. box.payload # None <=>
              /\ rep.execution_status = "COMPLETED"
              /\ job[attempt[a].job].result_target = "resource"
        BY <1>4, <1>12
      <4> QED
        BY <1>4, <1>5, <1>6, <1>9, <3>1, <4>1, <4>2 DEF OutboxOK
    <3>2. CASE b # a
      BY <1>6, <1>9, <1>10, <3>2, OutboxFrame
    <3> QED
      BY <3>1, <3>2
  <2>5. FilesOK(b)'
    <3>1. CASE b = a
      BY <1>4, <1>6, <2>1, <3>1 DEF FilesOK
    <3>2. CASE b # a
      BY <1>5, <1>6, <1>9, <2>1, <3>2, FilesFrame
    <3> QED
      BY <3>1, <3>2
  <2>6. Live(b)' => Mine(b)'
    BY <1>9, <2>1 DEF AttemptOK, Live
  <2> QED
    BY <2>2, <2>3, <2>4, <2>5, <2>6 DEF AttemptOK
<1> QED
  BY <1>9, <1>11, <1>13, <1>14, <1>15, <1>16 DEF ConnInv

\* A terminal is closed before its report: the worker has only lost its agent.
LEMMA CloseKeeps ==
  ASSUME ConnInv, CloseAndRecord
  PROVE  ConnInv' /\ UNCHANGED storeVars
<1> SUFFICES ASSUME NEW a, a = active.attempt, NEW w,
                    w = [orca[a] EXCEPT !.agent = "gone", !.closes = @ + 1],
                    NEW rcpt, rcpt = Receipts[orca[a].closes + 1]
             PROVE  ConnInv' /\ UNCHANGED storeVars
  OBVIOUS
<1>1. /\ Drives("OutcomeRecorded") /\ StatusOf(active) = "COMPLETED"
      /\ orca[a].closes < Len(Receipts) /\ WritesOutcome(ReportOf(active, rcpt))
      /\ orca' = [orca EXCEPT ![a].agent = "gone", ![a].closes = @ + 1]
  BY DEF CloseAndRecord
<1>2. a \in AttemptId /\ orca[a] \in Worker /\ orca \in [AttemptId -> Worker]
  BY <1>1, MarkerType DEF Drives, ConnInv, ConnTypeOK
<1>3. orca' = [orca EXCEPT ![a] = w]
  BY <1>1, <1>2
<1>4. /\ w \in Worker /\ w.agent = "gone" /\ w.sent = orca[a].sent
      /\ w.turn = orca[a].turn /\ w.request = orca[a].request
  <2> SUFFICES ASSUME NEW v, v = orca[a], NEW n, n = orca[a].closes + 1
               PROVE  /\ w \in Worker /\ w.agent = "gone" /\ w.sent = v.sent
                      /\ w.turn = v.turn /\ w.request = v.request
    OBVIOUS
  <2>1. v \in Worker /\ n \in Nat
    BY <1>2 DEF Worker
  <2>2. w = [v EXCEPT !.agent = "gone", !.closes = n]
    BY <1>2 DEF Worker
  <2> QED
    BY <2>1, <2>2 DEF Worker
<1>5. rcpt \in {"retained"} \cup {Receipts[i] : i \in 1..Len(Receipts)}
  <2>1. orca[a].closes + 1 \in 1..Len(Receipts)
    BY <1>1, <1>2, ConnectorAssumption DEF Worker
  <2> QED
    BY <2>1
<1>6. WorkerOK(w, executor, a \in produced)
  BY <1>2, <1>4 DEF ConnInv, OrcaInv, WorkerOK
<1>7. ConnInv'
  BY <1>1, <1>3, <1>4, <1>5, <1>6, WritesOutcomeKeeps DEF WorkerGrows
<1> QED
  BY <1>1, <1>7 DEF WritesOutcome

LEMMA RetainKeeps ==
  ASSUME ConnInv, RetainAndRecord
  PROVE  ConnInv' /\ UNCHANGED storeVars
<1> SUFFICES ASSUME NEW a, a = active.attempt, NEW w, w = orca[a]
             PROVE  ConnInv' /\ UNCHANGED storeVars
  OBVIOUS
<1>1. /\ Drives("OutcomeRecorded") /\ UNCHANGED orca
      /\ WritesOutcome(ReportOf(active, "retained"))
  BY DEF RetainAndRecord
<1>2. a \in AttemptId /\ orca[a] \in Worker /\ orca \in [AttemptId -> Worker]
  BY <1>1, MarkerType DEF Drives, ConnInv, ConnTypeOK
<1>3. orca' = [orca EXCEPT ![a] = w] /\ WorkerGrows(a, w)
  BY <1>1, <1>2 DEF WorkerGrows
<1>4. WorkerOK(w, executor, a \in produced)
  BY <1>2 DEF ConnInv, OrcaInv
<1>5. ConnInv'
  BY <1>1, <1>3, <1>4, WritesOutcomeKeeps
<1> QED
  BY <1>1, <1>5 DEF WritesOutcome

-----------------------------------------------------------------------------
(***************************************************************************)
(* The inductive invariant, and the promises it carries.                   *)
(***************************************************************************)
LEMMA ConnInitOK == ConnInit => ConnInv
<1> SUFFICES ASSUME ConnInit PROVE ConnInv
  OBVIOUS
<1>1. StoreInv
  BY StoreInvInit DEF ConnInit
<1>2. /\ \A j \in JobId : job[j].status = "none"
      /\ \A a \in AttemptId : attempt[a].phase = "none" /\ ~attempt[a].started
      /\ \A t \in Target : ~fence[t].fresh
  BY DEF ConnInit, Init, NoJob, NoAttempt, NoFence
<1>3. NoWorker \in Worker /\ NoWorker.agent = "none" /\ NoWorker.sent = 0
      /\ NoWorker.request = "absent" /\ NoWorker.turn = FALSE
  BY DEF NoWorker, Worker
<1>4. StoreSide /\ OrcaInv /\ MarkerInv /\ RecInv /\ DeliveryInv
  BY <1>2, <1>3 DEF ConnInit, StoreSide, OrcaInv, WorkerOK, MarkerInv, RecInv, DeliveryInv
<1>5. ConnTypeOK
  BY <1>1, <1>3, ConnectorAssumption DEF ConnInit, StoreInv, ConnTypeOK
<1>6. ASSUME NEW a \in AttemptId PROVE AttemptOK(a)
  BY <1>2, <1>3 DEF ConnInit, AttemptOK, Drawn, OutboxOK, HistoryOK, FilesOK, CompletedOK,
                    Mine, Live
<1> QED
  BY <1>1, <1>4, <1>5, <1>6 DEF ConnInv

\* The drives that do not call the server.
LEMMA DriveKeeps ==
  ASSUME ConnInv,
         \/ MovesOn \/ LaunchWorker \/ AdoptWorker \/ PrepareFails \/ PrepareTerminal
         \/ TerminalVanished \/ Prepared \/ SendPrompt \/ SendFails \/ DispatchGivesUp
         \/ StartRefused \/ WaitStep \/ CloseRetryable \/ RecoveryStep
  PROVE  ConnInv' /\ UNCHANGED storeVars
<1>1. CASE MovesOn \/ LaunchWorker \/ AdoptWorker \/ PrepareFails \/ TerminalVanished
  <2>1. UNCHANGED storeVars
    BY <1>1 DEF MovesOn, LaunchWorker, AdoptWorker, PrepareFails, TerminalVanished
  <2> QED
    BY <1>1, <2>1, MovesOnKeeps, LaunchKeeps, AdoptKeeps, PrepareFailsKeeps
<1>2. CASE PrepareTerminal \/ Prepared \/ SendPrompt \/ SendFails \/ DispatchGivesUp
  <2>1. UNCHANGED storeVars
    BY <1>2 DEF PrepareTerminal, Prepared, SendPrompt, SendFails, DispatchGivesUp
  <2> QED
    BY <1>2, <2>1, PrepareTerminalKeeps, PreparedKeeps, SendPromptKeeps, SendFailsKeeps,
       GivesUpKeeps
<1>3. CASE StartRefused \/ CloseRetryable \/ RecoveryStep
  <2>1. UNCHANGED storeVars
    BY <1>3 DEF StartRefused, CloseRetryable, RecoveryStep
  <2> QED
    BY <1>3, <2>1, StartRefusedKeeps, CloseRetryableKeeps, RecoveryKeeps
<1>4. CASE WaitStep
  <2>1. UNCHANGED storeVars
    BY <1>4 DEF WaitStep, WaitingCancelled, ResultBarrier, SeesWorking, SeesAgent, SeesDone,
                SeesIdle, SeesExit, WaitTimesOut, WaitFails, Ticks
  <2> QED
    BY <1>4, <2>1, WaitStepKeeps, WaitingCancelledKeeps
<1> QED
  BY <1>1, <1>2, <1>3, <1>4

LEMMA DaemonKeeps ==
  ASSUME ConnInv, DaemonStep
  PROVE  ConnInv' /\ [Next]_storeVars
<1>1. CASE \/ MovesOn \/ LaunchWorker \/ AdoptWorker \/ PrepareFails \/ PrepareTerminal
           \/ TerminalVanished \/ Prepared \/ SendPrompt \/ SendFails \/ DispatchGivesUp
           \/ StartRefused \/ WaitStep \/ CloseRetryable \/ RecoveryStep
  BY <1>1, DriveKeeps
<1>2. CASE NothingPending \/ DriveFinalized \/ Flush \/ BootMovesOn
  BY <1>2, ControlKeeps
<1>3. CASE CloseAndRecord \/ RetainAndRecord \/ ReportConflicts
  BY <1>3, CloseKeeps, RetainKeeps, ReportConflictsKeeps
<1>4. CASE \E a \in AttemptId : SmartRedeliver(a)
  BY <1>4, RedeliverKeeps
<1>5. CASE \E j \in JobId, a \in AttemptId : SaveClaimIntent(j, a)
  BY <1>5, ClaimIntentKeeps
<1>6. CASE ClaimNetwork \/ StartNetwork
  BY <1>6, ClaimNetworkStep, ClaimNetworkKeeps, StartNetworkStep, StartNetworkKeeps
<1>7. CASE ClaimIsLost \/ DeliverResult \/ ReportDelivered
  BY <1>7, ClaimIsLostKeeps, DeliverResultKeeps, ReportDeliveredKeeps
<1> QED
  BY <1>1, <1>2, <1>3, <1>4, <1>5, <1>6, <1>7 DEF DaemonStep

\* A stuttering step.
LEMMA StutterKeeps ==
  ASSUME ConnInv, UNCHANGED connVars
  PROVE  ConnInv' /\ UNCHANGED storeVars
<1>1. /\ UNCHANGED <<job, attempt, targetQueue, stream, requestKey, expired, fence>>
      /\ UNCHANGED <<pc, delivery, active, outbox, history, receipt, used, executor, orca,
                     produced>>
  BY DEF connVars
<1>2. UNCHANGED storeVars
  BY <1>1 DEF storeVars
<1>3. StoreInv' /\ StoreGrows
  BY <1>1, <1>2, StoreInvStep, SameStoreGrows DEF ConnInv
<1>4. ConnInv'
  <2>1. /\ receipt' \subseteq AttemptId /\ PlaceOK /\ delivery' \in Delivery \cup {None}
        /\ delivery' # None =>
             /\ outbox[delivery'.attempt] # None
             /\ delivery'.acked => attempt'[delivery'.attempt].result # None
    BY <1>1, <1>3, DaemonStill
  <2> QED
    BY <1>1, <1>3, <2>1, CallKeeps
<1> QED
  BY <1>2, <1>4

LEMMA ConnStep ==
  ASSUME ConnInv, [ConnNext]_connVars
  PROVE  ConnInv' /\ [Next]_storeVars
<1>1. CASE DaemonStep
  BY <1>1, DaemonKeeps
<1>2. CASE \E j \in JobId : ServerMoves(j)
  BY <1>2, SubmitKeeps, OtherClaimsKeep, CancelsKeep, ExpiresKeeps DEF ServerMoves
<1>3. CASE \E a \in AttemptId : OrcaMoves(a)
  BY <1>3, OrcaMovesKeep
<1>4. CASE ExecutionDeadlinePasses \/ ProjectReconciles
  <2>1. UNCHANGED storeVars
    BY <1>4 DEF ExecutionDeadlinePasses, ProjectReconciles
  <2> QED
    BY <1>4, <2>1, DeadlineKeeps, ReconcileKeeps
<1>5. CASE Crash \/ Restart
  BY <1>5, ControlKeeps
<1>6. CASE UNCHANGED connVars
  BY <1>6, StutterKeeps
<1> QED
  BY <1>1, <1>2, <1>3, <1>4, <1>5, <1>6 DEF ConnNext

(***************************************************************************)
(* Whatever crashes, answers lost on the way and faults of Orca come in    *)
(* whatever order, the daemon's files, the server's records of its         *)
(* attempts and what Orca really did are in the relation ConnInv.          *)
(***************************************************************************)
THEOREM ConnInvariant == ConnSpec => []ConnInv
<1>1. ConnInv /\ [ConnNext]_connVars => ConnInv'
  BY ConnStep
<1> QED
  BY <1>1, ConnInitOK, PTL DEF ConnSpec

(***************************************************************************)
(* The daemon uses the server only through the job store's scripts: every  *)
(* behaviour of the connector beside other devices and operators is one of *)
(* JobStore, so all that is proved of the store holds here.                *)
(***************************************************************************)
THEOREM ConnImplementsStore == ConnSpec => Spec
<1>1. ConnInit => Init
  BY DEF ConnInit
<1>2. ConnInv /\ [ConnNext]_connVars => [Next]_storeVars
  BY ConnStep
<1> QED
  BY <1>1, <1>2, ConnInvariant, PTL DEF ConnSpec, Spec

(***************************************************************************)
(* AtMostOnceDispatch: a prompt is given to Orca at most once for an       *)
(* attempt.  DispatchOK is why: the count of sends is on disk before a     *)
(* send and its outcome after, so a file that rules a send out is right.   *)
(***************************************************************************)
THEOREM DispatchTheorem == ConnSpec => []AtMostOnceDispatch
<1>1. ConnInv => AtMostOnceDispatch
  BY DEF ConnInv, OrcaInv, WorkerOK, AtMostOnceDispatch
<1> QED
  BY <1>1, ConnInvariant, PTL

(***************************************************************************)
(* NoOrphanedClaim: the intent is on disk before the claim, and the marker *)
(* goes only when the server has ended the attempt or never began it.      *)
(***************************************************************************)
THEOREM NoOrphanTheorem == ConnSpec => []NoOrphanedClaim
<1>1. ConnInv => NoOrphanedClaim
  BY DEF ConnInv, AttemptOK, Live, Mine, NoOrphanedClaim
<1> QED
  BY <1>1, ConnInvariant, PTL

(***************************************************************************)
(* CompletedWasWorked: COMPLETED reaches the server only of an agent that  *)
(* took its turn, and with the result when the job wants one.              *)
(***************************************************************************)
THEOREM WorkedTheorem == ConnSpec => []CompletedWasWorked
<1>1. ConnInv => CompletedWasWorked
  BY DEF ConnInv, AttemptOK, CompletedOK, CompletedWasWorked
<1> QED
  BY <1>1, ConnInvariant, PTL

(***************************************************************************)
(* LocalStateIsSound: after every prefix of writes a crash can leave, the  *)
(* marker, outbox and history agree with each other and with the server.   *)
(***************************************************************************)
THEOREM LocalFilesTheorem == ConnSpec => []LocalStateIsSound
<1>1. ConnInv => ConnTypeOK /\ HistoryIsTruth
  BY DEF ConnInv, AttemptOK, HistoryOK, HistoryIsTruth
<1>2. ConnInv => ReportsAcceptable
  BY DEF ConnInv, AttemptOK, OutboxOK, ReportsAcceptable
<1>3. ConnInv => LocalFilesAgree
  BY DEF ConnInv, AttemptOK, FilesOK, Mine, LocalFilesAgree
<1> QED
  BY <1>1, <1>2, <1>3, ConnInvariant, PTL DEF LocalStateIsSound

=============================================================================
