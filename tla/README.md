# Verification of Chief Everything Officer

TLA+ models of the parts of Chief Everything Officer that are hard to test: the
durable job queue, the service in front of it, the deletion of a project, the
connector daemon that runs jobs on a user's machine, the control store with the
enrollment of devices, the workspace's Git transaction, the bootstrap of a
repository, onboarding, and the OAuth server. TLC checks the models on small
instances; TLAPS proves their safety properties for every size.

Paths below are relative to `src/`; `server/` stands for
`services/server/src/`, `connector/` for `connector/src/`.

## 1. The system

    AI client  <-- MCP -->  server  <-- Git -->  workspace repository
                              |
                     Redis (jobs)   SQLite (identity, targets, OAuth)
                              |
                        HTTP  |
                              v
               connector daemon  -->  Orca  -->  worker agent
               (one per device)

A host (an AI client) submits a job for a *target* (a project). A device bound to
the target polls, claims the job under an attempt id it drew, hands the task to an
agent through Orca, tells the server that the task started, waits, and reports.
A job that wants a *managed result* has the worker's result committed to the
workspace before the report counts. An operator may cancel at any time, and a
project may be deleted.

### Inventory

| Component | State | Operations | Talks to | What is hard | What makes it correct |
|---|---|---|---|---|---|
| Redis job store, `server/jobs/v2-assignment-script.ts`, `v2-store.ts`, `v2-schema.ts` | job, attempt, request keys, target queues, the stream, delete fences | Lua scripts create, claim, start, report, cancel, record result, touch fence; plain prune and fence commands | called by the coordinator and by deletes | any order of scripts of any callers, retries, deadlines | one attempt per job; job and attempt agree; a finished job is final; a queue offers exactly what can be claimed |
| Job coordinator, `server/jobs/v2-service.ts`, router and tools | nothing durable: what a call has read | submit, poll, claim, start, result, report, cancel, get, list | store, control store, resource service | a check and the script that relies on it are awaits apart; lost calls | whatever was read, each write is one the store allows; answers are true |
| Project delete, `server/jobs/target-delete.ts` | the fence token, a scan position | delete | store, control store | scan one job at a time beside submissions; death of the process; takeover | the row goes only when the project is quiet; the fence lifts |
| Control store, `server/connector/control-store.ts`, `router.ts`, `device-auth.ts` | SQLite: devices, credentials, targets, bindings, defaults | register, attach, bind, unbind, rename, default, disable, enable, delete, revoke | coordinator, delete, router | long mixes of operations of two tenants; read here, used after an await | bindings stay inside a tenant; the readings of eligibility agree; the database opens again |
| Connector daemon, `connector/daemon.rs`, `scheduler.rs`, `outbox.rs`, `attempt_convergence.rs` | `active-attempt.json`, outbox, history, receipts, config | drive the attempt phase by phase, flush, poll, recover | server over HTTP, Orca over its CLI, project commands over files | a crash between any two writes, lost answers, an Orca that forgets | at most one dispatch; no claim without an owner; the server hears the truth; the device gets free |
| Orca adapter, `connector/orca/` | none of its own | prepare, dispatch, wait, close | Orca | timeouts of calls that took effect | an unclear outcome is never repeated |
| Redelivery, `connector/redelivery.rs`, `managed_result.rs` | results and receipts on disk | smart and explicit redelivery | server | results after a timeout, a cancel or a crash | a written result arrives once |
| Enrollment, `server/connector/enrollment-store.ts`, `connector/enrollment.rs` | codes in memory, at most 1024, ten minutes each; a pending login and a credential on disk | start, consent, approve, deny, poll, resume | router, control store, browsers | expiry against approval, a full table, lost answers, a login that dies | a device was approved by its user in the form shown; logins end |
| Workspace and Git, `server/workspace.ts`, `git.ts` | a clone, worktrees, `pending.json`, outcomes, a lock | read, transact, recover | GitHub | a commit that was not verified as pushed; a remote that moved; a crash between any two files | a request is applied once; outcomes are true; what was not pushed is kept and settles |
| Resource service, `server/resource/` | files of the workspace | acquire, update, apply result | workspace | retries of a committed transaction | idempotent commits |
| OAuth, `server/oauth/`, `server/auth/` | sessions, clients, requests, codes, token families | sign in, register, authorize, decide, exchange, refresh, revoke | identity store, onboarding | two processes on one database; replayed codes, pages and tokens | a decision is final; one line of tokens per authorization; a revoked family stays dead |
| GitHub integration, `server/github/` | installations, bindings, bootstrap rows | install, authorize, create, import, bootstrap | GitHub, identity | remote steps fail one by one, answers are lost, the owner pushes | READY was verified; nothing of the owner's is lost or injected |
| Onboarding, `server/onboarding/` | flows | the pages and their healing on reload | GitHub, identity, bootstrap | two tabs, partial creations, restarts | one workspace each; a flow is ready only when its workspace is |
| Identity store, `server/identity/` | users, workspaces, memberships, bindings, bootstraps | SQLite transactions | everything | each transaction is atomic; what spans several is in the services | no row a restart refuses |
| Runtime registry, `server/runtime/registry.ts` | opened workspace runtimes, never evicted | get | workspace | a failed initialize beside callers that wait for it | a failed one is made again |
| Redis runner, MCP surface, policy, write modes, audit | processes and configuration | | | no state the others depend on | |
| Setup, projects, doctor, upgrade, completion (`connector/`), `services/url-resolver`, `web` | files and screens | interactive | | I/O | |

`PROJECT.json` lists the components with what is modelled of each, and the hazards
at their lines.

## 2. Modules

| Module | Models | State | Actions |
|---|---|---|---|
| `JobLifecycle` | the promise: what a reader of a job may learn | `life` | submit, claim, start, finish, withdraw |
| `JobStore` | the Redis store | `job`, `attempt`, `targetQueue`, `stream`, `requestKey`, `expired`, `fence` | one per script or command |
| `JobCoordinator` | `v2-service.ts` on top of `JobStore` | `call`, `row`, `binding`, `ledger` | one per await of each call |
| `TargetDelete` | `target-delete.ts` beside the calls of `JobCoordinator` | `del`, `lapsed`, `unguarded` | one per await of a delete |
| `Connector` | a daemon, its files, Orca, and `JobStore` as its server | `pc`, `delivery`, `active`, `outbox`, `history`, `receipt`, `used`, `executor`, `orca`, `produced`, `faults` | one per phase outcome |
| `ControlStore` | `control-store.ts` and the routes that call it | `active`, `fullName`, `device`, `target`, `binding`, `default` | one per route |
| `Enrollment` | login, enrollment table and consent, on `ControlStore` | `enrollment`, `old`, `session`, `page`, `machine` | one per request, form or file write |
| `Workspace` | `workspace.ts`, `runtime/registry.ts` | `commits`, `remote`, `head`, `dirty`, `wt`, `pending`, `completed`, `lock`, `runtime`, `state`, `op` | one per Git command or file write of an operation |
| `Bootstrap` | `bootstrap-service.ts` and its row | `row`, `log`, `head`, `others`, `run` | one per request to GitHub or transaction |
| `Onboarding` | flows, installation and repository services | `flows`, `ws`, `linked`, `pending`, `grants`, `call`, `created` | one per route up to and from each wait for GitHub |
| `HostOAuth` | sign-in, clients, consent, tokens | `identity`, `disabled`, `session`, `login`, `clients`, `req`, `page`, `tok`, `reading` | one per route; a refresh in two |
| `MC...` | instances for TLC | | |
| `...Proofs` | theorems about the module they are named after, for every size; `JobCoordinatorProofs` also about `TargetDelete`, `DeviceProofs` about `ControlStore` and `Enrollment` | | |

`JobCoordinator` and `Connector` extend `JobStore` and use its actions as the
server's steps, so a call that changes Redis is the same formula in every module.

**JobStore.** A Lua script is atomic, so it is one action; its error answers change
nothing and are the negation of its guard. Claims that are too late write (they
drop the queue entry), and are an action too. Records keep the fields that scripts
or readers test. A device stands for a device with its claim token. Time is a set of
jobs past their claim deadline (`expired`) and the freshness of a fence.

**JobCoordinator.** A call is a record with its operation, its place and what it has
read. The synchronous code between two awaits belongs to the step of the first.
`row` and `binding` are SQLite, read without an await. `ledger` is what the
workspace has committed: `applyManagedJobResult` is one idempotent step.
`CallLost` ends a call at any await.

**TargetDelete.** A delete is named by its fence token. The scan reads the stream in
batches, loads each job by itself, touches the fence after each batch, prunes dead
entries, removes the row and releases the fence. `DeleteDies` ends it at any step.
`lapsed` and `unguarded` are history: the deletes between their scan and the removal of
the row that have lost their fence, and the targets whose row such a delete removed. What
a delete promises, it promises under its fence, and the properties say so with them.

**Connector.** `active` is `active-attempt.json`, with the fields of
`AttemptExecutorState` that decide something. A call and the write that applies its
answer are one step; what can come in between is a disjunct: the answer is lost, or
the process ends, and the call has taken effect. A sequence of writes (history,
outbox, marker) is cut by a crash after any prefix. `pc` is `down`, `boot` (the one
drive of startup), `flush`, `loop`, and `poll` after a redelivery that failed.
`orca` is what really happened, which the daemon sees through the adapter's answers
only. Faults come from a budget: crashes, lost answers, Orca faults.

**ControlStore.** A route is synchronous code around one SQLite transaction and is
one action; a refused request changes nothing. Names are their normal forms. The
queries that decide eligibility are operators, compared with each other and with
`validateData`'s connector part.

**Enrollment** extends it with what is in memory (table, browser sessions, forms) and
dies with the server, and with the machine's two files, which survive a login that
dies. A lost answer is a step of the server that leaves the machine polling. Owners
revoke devices, and an operator disables users and enables them again; `returned` keeps,
for the property, the devices whose user came back.

**Workspace.** `op` is the operation that holds the lock and where it is; the
operations of one workspace exclude each other and each begins with recovery. A commit
is an index with its ancestors and its request, so "is an ancestor" and "fast forward"
are what Git computes. `wt` has what Git knows of a worktree apart from whether its
directory is there, since `worktree add` looks at both. `FinalizeThrows` follows the
three `catch` blocks an error in `finalizePending` can land in. The edits of a
transaction are refused, change nothing, or change something; `published`, `shown`,
`told`, `back`, `misfiled` and `overtaken` are history for the properties. `told` has
every `STALE_REVISION` the code throws: for a recorded outcome, for a branch that is not
the base, and after a transaction that was archived. It is kept by commit, those the
request had when its caller was told, so that a retry that is told stale and one that
later succeeds are two things.

**Bootstrap.** Two pods overlap in a deployment. A tree says what is at the two anchor
paths and at one path of the owner's, and a commit carries its whole history (`past`), as
what a commit hash names does. Answers of GitHub may be lost after they took effect; the
size it reports may lag.

**Onboarding.** A request that waits for GitHub is a `call` with what it has read; what
GitHub answers about the installation is a free choice at the step that asks.

**HostOAuth.** Two server processes share `oauth.sqlite`; a refresh reads and checks in
one step and rotates in another. Any request ever sent may be repeated. Registration is
modelled by what normalisation, storage and re-reading do to the fields that count.

## 3. Runs

| Run | Instance | Question | Properties |
|---|---|---|---|
| `job_store` | 2 jobs, 2 attempts, 2 devices, 2 requests, 2 payloads, 1 target and fence; symmetric | do scripts in every order keep the records right? | `TypeOK`, `JobAttemptAgree`, `OneAttemptPerJob`, `QueueOffersClaimable`, `OneJobPerRequest`, `ReportTellsTheTruth`, `TerminalIsFinal`, `ImplementsLifecycle` |
| `coord_submit` | 2 calls, 1 request with 2 contents, 2 devices, a project that may be disabled | are submissions idempotent, claim answers true, and does every call end? | `AnswersHold`, `ImplementsStore`, `CallsEnd` |
| `coord_run` | 2 calls over claim, start, result, report, cancel, get | do stale reads of a call ever do harm? | `ResultsAreReal`, `CancelHolds` |
| `delete` | 2 deletes, 1 call, 2 jobs, batches of 1 | does a delete remove only a quiet project, and never block it for good? | `NothingRunsOnDeleted`, `DeletesOnlyQuiet`, `FenceHeals` |
| `connector` | 1 job, 2 attempts, 2 devices; 1 crash, 1 lost answer, 2 Orca faults; both executors, both result targets; cancels and project commands | is a task dispatched once, and does the server hear the truth? | `AtMostOnceDispatch`, `NoOrphanedClaim`, `CompletedWasWorked`, `LocalStateIsSound` |
| `connector_live` | 1 job, 1 crash, 1 lost answer, no cancel | does the device get free, and does a result arrive? | `DeviceFreed`, `ResultsArrive` |
| `control_store` | 2 users with a workspace each, one of them bound; 2 devices, targets, aliases, repository names | do the routes keep tenants apart and the database loadable? | `Reopens`, `EligibilityAgrees`, `NoWayBack` |
| `enrollment` | 2 users at a browser each, one of whom may be disabled and enabled; 1 machine, 2 enrollments, a table of 1 | who ends up with a device, and do logins end? | `DeviceWasApproved`, `LocalStateConsistent`, `LoginsEnd` |
| `workspace` | 2 requests, 4 commits, 2 moves of the owner, 1 network failure, 1 crash | are writes applied once, told truly, kept and settled? | `AppliedOnce`, `OutcomeIsTrue`, `PendingIsKept`, `PendingSettles` |
| `bootstrap` | 2 pods, 3 attempts, 4 commits; empty, filled and foreign repositories | is READY true, and is the owner's content left alone? | `RowIsTrue`, `OwnersWorkIsKept` |
| `onboarding` | 1 user with 2 calls in flight, 2 flows, repositories and workspaces, 1 pending OAuth state | do tabs and retries race to a wrong workspace? | `OneWorkspaceEach`, `PartialIsRemembered`, `StepsInOrder` |
| `oauth` | 1 person, 2 users, browsers and clients, 1 request with 2 pages, 3 tokens, 2 processes | what do repeated and racing requests get? | `LookupsResolve`, `TokensAreSound`, `DecisionIsFinal` |

Most properties are conjunctions of named parts, which the modules state one by one
with the code they are about:

| Property | Parts |
|---|---|
| `AnswersHold` | `SubmitNamesOwnJob`, `ClaimAnswersOwnership` |
| `ResultsAreReal` | `CompletedHasResult`, `RecordedWasCommitted` |
| `CancelHolds` | `CancelNeverExhausted`, `CancelTold` |
| `LocalStateIsSound` | `ConnTypeOK`, `HistoryIsTruth`, `ReportsAcceptable`, `LocalFilesAgree` |
| `Reopens` | `ControlTypeOK`, `ValidateConnectorData`, unique aliases |
| `EligibilityAgrees` | `BindingsStayInside`, the agreement of the queries |
| `NoWayBack` | `RevokedStaysOut`, `IdentityIsKept` |
| `LocalStateConsistent` | `EnrollTypeOK`, the machine's files against the server's rows |
| `OutcomeIsTrue` | `RecordedIsSo`, `ReadsOwnWrites` |
| `PendingIsKept` | `WsTypeOK`, `PendingIsPushable`, `PushPendingIsKept` |
| `RowIsTrue` | `BootTypeOK`, `RowLoads`, `ReadyWasVerified`, `FreshIsWhole` |
| `OwnersWorkIsKept` | `NeverInjected`, `PushesKept` |
| `StepsInOrder` | `OnbTypeOK`, `RestrictedBeforeWritten`, `ReadyFlowIsReady` |
| `LookupsResolve` | `OAuthTypeOK`, `OneUserPerPerson`, `RegisteredResolves` |
| `TokensAreSound` | `OneLineOfTokens`, `RevokedStaysDead` |

*Why these bounds.* A job's records mention one attempt, one target and one
request, and scripts compare ids for equality only; two of each are needed for two
claims of a job, for one attempt id used for two jobs, and for a request that meets
a job of another. Two calls are enough for every race between a read and a script,
since each property relates a call to one other write; the store's own properties,
which the calls rest on, are proved for every size. In `connector` two attempts let
the device try again after a lost claim, one crash reaches every prefix of every
write sequence, and two Orca faults allow a rejection followed by an unclear send.
A second job on the device is serial with the first (a device has one active
attempt) and multiplies the states beyond what one run can hold; redelivery of the
first job's result while the second runs is the case it leaves out.
Two deletes show a takeover, and every race of one delete with calls. In this instance no
delete outlives its fence (`SlowDeletes = {}`): with one that may, and the liveness
property, the states are more than a run can hold. The safety properties and the
invariant of the proof were checked with slow deletes as well, of one delete (1.4 million
states) and of both (5.3 million), and are proved for any number of either.
`MaxRounds` is the code's 3; `PollLimit` and `ScanBatch` are 1 so that their limits
are reached.

In `control_store` two tenants are needed for a binding that reaches across, and two
targets, aliases and names for every conflict of a registration; an operator may disable
one of the two users (`MaySuspend`). `enrollment` has a
table of one entry so that it is full, and two enrollments so that a dead one is
followed by another; one of its users may be disabled and enabled, at any time and any
number of times, the other is there to approve what is not theirs. In `workspace` one request may be pending while the other begins;
four commits allow both requests to commit beside an owner who pushes or rewrites, and
two moves allow a rewind after a push. One failure and one crash reach every step; a
push that landed unheard followed by a failing fetch is reached through the crash.
`bootstrap` has three attempts so that a stale one meets one that finished; four
commits are the bootstrap's two, a lost one and the owner's. `onboarding` has two
requests of one user in flight, since every race is between a flow's row and one
request that waits; two users meet only in a repository's binding, which two flows and
two workspaces of one user reach as well. `oauth` has three tokens, for a rotation of
a rotation, and one request with two pages.

*Symmetry* is used where only safety is checked and ids are only compared.

*Deadlock* is checked except in `bootstrap`, `onboarding` and `oauth`, which stop when
their commits, repositories or tokens are used up and everything is settled.

*Fairness.* `FairCoordSpec`: the event loop resumes each call, weakly fair for each
call; Redis answers or fails, and both are steps. `FairDeleteSpec`: the same for
each delete alive, and a fence whose delete is gone ages; one whose delete goes on may
but need not. `FairConnSpec`: the daemon's loop runs; a stopped
daemon is started again; the execution deadline arrives; Orca settles an accepted
worker-start. The restart is an assumption on the user: nothing in the repository
restarts the daemon, and a fail-closed exit waits for someone to run it. No fairness
is asked of agents: a worker may hang, and the deadline ends the attempt.
`FairEnrollSpec`: a login that runs goes on and an enrollment's ten minutes pass; no
user has to decide and every answer may be lost. `FairWsSpec`: an operation that holds
the lock goes on, and some caller asks again, which makes the runtime or the status;
the faults are finitely many.

## 4. Proofs

TLAPS checks these for any sets of jobs, devices, users, requests and the like, any
number of steps and any order of them. `Spec` is the specification of the module.

| Module | Theorem | States |
|---|---|---|
| `JobStoreProofs` | `TypeCorrect` | `[]TypeOK` |
| | `JobAttemptAgreement` | `[]JobAttemptAgree` |
| | `SingleAttempt` | `[]OneAttemptPerJob` |
| | `QueueIsExact` | `[]QueueOffersClaimable` |
| | `SubmissionIsIdempotent` | `[]OneJobPerRequest` |
| | `ReportsAreTrue` | `[]ReportTellsTheTruth` |
| | `FinishedStaysFinished` | `TerminalIsFinal` |
| | `StoreImplementsLifecycle` | `ImplementsLifecycle` |
| `JobCoordinatorProofs` | `CoordInvariant` | `[]CoordInv` |
| | `CoordImplementsStore` | `ImplementsStore`: the calls use Redis only by the scripts |
| | `AnswersTheorem` | `[]AnswersHold` |
| | `ResultsTheorem` | `[]ResultsAreReal` |
| | `CancelTheorem` | `[]CancelHolds` |
| | `DeleteImplementsStore` | `ImplementsStore`, with deletes beside the calls |
| | `PromisesSurviveDeletes` | the three properties of the calls, with deletes beside them |
| | `DeleteInvariant` | `[]GuardedInv` |
| | `DeletedStayQuiet` | `[]NothingRunsOnDeleted` |
| | `DeletesAreQuiet` | `DeletesOnlyQuiet` |
| `ConnectorProofs` | `ConnInvariant` | `[]ConnInv` |
| | `ConnImplementsStore` | every behaviour of the daemon is one of `JobStore` |
| | `DispatchTheorem` | `[]AtMostOnceDispatch` |
| | `NoOrphanTheorem` | `[]NoOrphanedClaim` |
| | `WorkedTheorem` | `[]CompletedWasWorked` |
| | `LocalFilesTheorem` | `[]LocalStateIsSound` |
| `DeviceProofs` | `ControlInvariant` | `[]ControlInv` |
| | `ReopensTheorem` | `[]Reopens` |
| | `EligibilityTheorem` | `[]EligibilityAgrees` |
| | `NoWayBackTheorem` | `NoWayBack` |
| | `EnrollInvariant` | `[]EnrollInv` |
| | `EnrollImplementsControl` | every behaviour of enrollment is one of `ControlStore` |
| | `ApprovalTheorem` | `[]DeviceWasApproved` |
| | `LocalStateTheorem` | `[]LocalStateConsistent` |
| `OnboardingProofs` | `OnboardingInvariant` | `[]OnbInv` |
| | `OneWorkspaceTheorem` | `[]OneWorkspaceEach` |
| | `PartialTheorem` | `[]PartialIsRemembered` |
| | `StepsTheorem` | `[]StepsInOrder` |
| `WorkspaceProofs` | `WsInvariant` | `[]WsInv` |
| | `AppliedOnceTheorem` | `[]AppliedOnce` |
| | `PendingIsKeptTheorem` | `[]PendingIsKept` |
| | `ToldInvariant` | `[](WsInv /\ ToldInv)` |
| | `OutcomeTheorem` | `[]OutcomeIsTrue` |
| `BootstrapProofs` | `BootstrapInvariant` | `[]BootInv` |
| | `RowIsTrueTheorem` | `[]RowIsTrue` |
| | `OwnersWorkTheorem` | `OwnersWorkIsKept` |
| `HostOAuthProofs` | `OAuthInvariant` | `[]OAuthInv` |
| | `TokensTheorem` | `[]TokensAreSound` |
| | `LookupsTheorem` | `[]LookupsResolve` |
| | `DecisionTheorem` | `DecisionIsFinal` |

*Assumptions.* Each module names what it asks of its constants, and TLC evaluates all of
them. They say three kinds of things. Null is not an id, a payload, a report or a record
(`NoneAssumption`, `NoneIsNoFile`, `NoneIsNoRecord`, and the parts about `None` of the
others), and no repository has the name of one of the two special kinds of identity
(`ControlAssumption`: a name has a slash in it). An input has passed the checks in front
of the model: `ReportAssumption`, a runner's report is valid and is not the operator's;
`SubmissionAssumption`, a digest covers the target and the result target. And numbers
that have to be positive are: `RoundsAssumption`, since one round of
`JOB_CANCEL_MAX_RACE_RETRIES` would not be enough; `ConnectorAssumption`, where each
close of a terminal has a receipt of its own.

*JobStore.* `StoreInv`, the conjunction of the type invariant and the five state
invariants, is inductive; most of the five are not inductive alone. That an active job's
attempt is claimed or running survives a report only because no other job points at
that attempt (`OneAttemptPerJob`); that a queue offers only queued jobs survives a
claim only because a job is in no queue but its target's. Each invariant is a
conjunction over single jobs or attempts, and `OneJobChanges` is the frame lemma: a
step that touches one job and one attempt that no other job names keeps them all if
it keeps that job's and that attempt's. One lemma per action supplies the local facts.
The refinement maps a job to the state a reader derives (`LifeOf`, after
`deriveHostJobState`); each script is one lifecycle step or, like the recording of a
result, none.

*JobCoordinator.* `CoordInv` says of each call, by its operation and place, what is still
true of what it has read (`SubmitOK`, `ClaimOK`, `ResultOK`, `ReportOK`, `CancelOK`):
a read goes stale, but the part of it the next script relies on is never taken back.
`Forward` is that part of a step of the store (the linkage of a job is set once, a
deadline stays passed, a recorded result stays), proved once for every script, so that a
step of one call leaves what is known of the others. A cancel is never exhausted because a
job is linked to an attempt once: a cancel that was overtaken reads the linkage that stays.
Deletes only remove queue entries and rows, so the invariant carries over to `DeleteSpec`.

*TargetDelete.* A delete reads the jobs one by one, so what it has seen may be old when it
removes the row. `GuardInv`, inductive beside `DeleteInv`, says what of it is still so. A job is `Dead` when it is
finished, or queued past its deadline; no script takes that back (`DeadStays`, from
`StoreJobsMove`: only a claimable job becomes active). While its fence holds, a delete that
is not blocked has passed only dead jobs of its target (`QuietUpTo` its cursor), and a job
that comes after them in the stream is not of its target, since the create script looks at
the fence (`NoneComes`); the short batch that ends a scan left nothing after it
(`NoneAfter`). `StreamInv`, that the stream holds the jobs there are, makes of the two that
the target is quiet at the removal (`RemovedQuietly`). The other half is a claim that has
seen the target enabled and waits for its script: `ClaimSafe` says that its job is on the
target it has checked, and dead if the target went meanwhile. The row goes only while the
target is quiet, so the job is dead then and the script refuses it.

*Connector.* `ConnInv` relates four things that a crash separates: the marker
(`MarkerInv`, and `RecInv` by phase), the outbox, history and delivery
(`DeliveryInv`), the server's record of the attempt, and what happened in Orca
(`OrcaInv`). The file is written before the act and after it, so the invariant says for
each phase which of the two the file may be behind by. `AtMostOnceDispatch` is not inductive
without it: a second send is ruled out by the count of sends and the last outcome in the
file, and those are right because they are on disk before the send. `StoreInv` is a
conjunct of `ConnInv`: each action is shown to be a step of the store and to keep the rest,
which gives the refinement and uses what is proved of the store at once.

*ControlStore* and *Enrollment.* `Reopens` and `EligibilityAgrees` need that every
reference is to a live row of the same workspace (`RefsResolve`), which `NoWayBack` is
proved from as well. `EnrollInv` adds, for each id, that table, forms and device row are
at the same point (`EntryInv`), and for each machine that its two files name what the
server has given out (`MachineOK`). That a login beside a working credential does not
happen rests on when a credential may begin to work: only when its user is enabled
again (`AccessIsTraced`), and then the device is in `returned`.

*Onboarding.* `OnbInv` says what a request that waits for GitHub may still rely on when the
answer arrives (`CallOK`), and which requests exclude each other (`Apart`: one creation for
each user, one attempt for each workspace). `PartialIsRemembered` alone is not inductive,
because a creation in flight has told its flow nothing yet: `Remembered` speaks of the
repositories no creation is busy with, and `Settled` says that a flow whose creation is in
flight has no other repository that could be overwritten. `Grows` is the frame: users,
owners, bindings and READY are never taken back.

*Workspace.* `WsInv` has the graph of commits (a commit's ancestors are older and closed
under ancestry; a request is in a line of commits once), what the files say of it
(`RecOK`, `DataForward`), and for each place of the operation that holds the lock what it
relies on (`TxnOK`, `StageOK`, `CloseOK`). It holds after a crash at every place, which is
what `PendingIsKept` and `AppliedOnce` are about. `OutcomeIsTrue` also speaks of what was
said long ago. `ToldInv`, inductive beside `WsInv`, says that it stays true: a commit that
was told stale is pushed by nobody, since if it is still pending its record says stale too
(`ToldForward`); and that a request whose transaction finds its commit on the branch has an
outcome that this very call recorded (`FirstOutcome`), which makes it `overtaken`.

*Bootstrap.* `RowIsTrue` speaks of READY and of what a verification saw, and is not
inductive alone: two pods may overlap, and each acts on reads from before the other's
writes. `BootInv` has for each place of an attempt what it still relies on (`RunOK`), that
the attempt number of the row fences the two pods off each other (`FenceInv`), that a
commit's history is closed (`GraphInv`), and what a history only the bootstrap wrote looks
like (`ShapeInv`): the README first, then both anchors, never fewer. An imported repository
has none of the commits that initialize one (`ImportInv`), which is why nothing is injected
into it. A step only adds commits and keeps what is on the branch (`Grows`), so what one
pod has read the other does not undo.

*HostOAuth.* `TokenInv` says that a token belongs to a request whose code was used, that
a family has one token not yet rotated (`OneLive`) and that a killed family's tokens are all
revoked (`KilledOK`); a refresh that read before another one rotated is stopped by the
second check, in its transaction. The check of the workspace's membership in a refresh is
left out: no code removes a membership.

*Only model-checked.* Liveness: `CallsEnd`, `FenceHeals`, `DeviceFreed`, `ResultsArrive`,
`LoginsEnd` and `PendingSettles`, which the prover does not do. Every safety property that
a run checks has a theorem.

## 5. What the checks show

The store does what its readers expect. The coordinator's reads go stale, and its
scripts catch it. A connector that crashes, loses an answer and meets an Orca that
forgets never dispatches a task twice and never leaves a claim without an owner.

The routes of the control store leave a database that opens again and keep tenants
apart. A workspace applies a request once and keeps a commit it could not push, through
every crash. A bootstrap marks READY only what it read back, and never takes a commit
off a branch. A consent is decided once, and a rotated or revoked token stays so across
two processes.

Where the code does less than its own words say, the models follow the code; the
properties above are stated so that they hold of it, and exempt exactly these cases:

- *A landed commit archived as stale.* `recoverPending` calls `finalizePending` inside
  the `try` that asks whether the pending commit is an ancestor of the branch
  (`server/workspace.ts:1025`). A fetch that fails there, or a dirty working copy, is
  taken for "no": the transaction is recorded as `STALE_REVISION` with the reason
  `REMOTE_HISTORY_REWRITTEN` although its commit is on the branch, and a caller that
  follows the answer writes it twice. The test "recovers and finalizes when
  pending.commit is ancestor of remote" (`services/server/test/workspace-git-recovery.test.ts:256`)
  has no failure in it. `OutcomeIsTrue` exempts it by `misfiled`.
- *A landed commit told stale.* The outcome of a request is read before recovery and not
  after it (`server/workspace.ts:629`), so a retry whose own recovery (line 643) finalizes
  the commit of the first try finds that the branch is not its base and is told
  `STALE_REVISION` (line 648), the answer that line 632 gives for a request that was not
  applied. The next retry is told of the commit. `OutcomeIsTrue` exempts it by
  `overtaken`, and requires that the outcome is on record.
- *A working credential beside another login.* A user is disabled, the machine logs in
  anew, and the user is enabled again: the credential works and `enrollment.json` is about
  another device, which `login` refuses to untangle (`connector/enrollment.rs:220`), or
  the login that runs replaces the credential. `LocalStateConsistent` exempts the devices
  of a user who was enabled again (`returned`).
- *A stranded job.* A whole project delete fits between a submission's check of the row
  (`server/jobs/v2-service.ts:583`) and its create script, which looks at the fence
  only; `server/jobs/target-delete.ts:23` says the fence closes that race. The job stays
  queued on a project that is gone; `NothingRunsOnDeleted` says that nobody runs it.
- *A finalized marker without its report.* A crash between the last two removals of
  the cancel-wins cleanup (`connector/outbox.rs:344`) leaves a marker whose digest no
  file matches; every later start stops there, until a project command clears it.
- *An orphaned outbox record.* A project command that converges a cancelled attempt
  (`connector/attempt_convergence.rs:89`) leaves its outbox record, which no flush can
  deliver or drop, and the loop flushes before it polls. `LocalFilesAgree` exempts this
  and the marker above: both need an operator's cancel.
- *A rejection that is not proven.* The outcome of the first send is read as the
  second's (`connector/daemon.rs:1307`); a task an agent has is reported as "proven
  rejected before acceptance".
- *An unreadable attempt.* The result script stores a result on an undispatched attempt
  (`server/jobs/v2-assignment-script.ts:757`) that `parseAttemptRecordV1` refuses to
  read. It takes a cancel between worker-start and start, and no fault. `CancelTold` is
  about the job's record, which a Host cannot read then.
- *Two targets of one repository.* A registration whose identity is not taken from a
  remote URL skips the reuse of a target (`server/connector/control-store.ts:1366`), so
  "duplicate active Targets for the same repository identity are prevented" (line 1363)
  holds of that path only.

Observed while modelling:

- A cancel whose script finds the job finished by a report answers
  `already_cancelled` (`server/jobs/v2-service.ts:1061`), which the interface keeps
  for cancelled jobs.
- A host's read takes the job and the attempt in two reads
  (`server/jobs/v2-service.ts:1119`); a report in between makes a healthy job look
  corrupt, once.
- A delete that pauses for longer than the fence's 60 seconds between two touches
  loses it without noticing: it does not look at the answer of a touch
  (`server/jobs/target-delete.ts:280`), another delete takes over (line 190), a submission
  and a claim may come in, and it removes the row all the same. The release, called
  compare-and-delete, is a read and a delete (`server/jobs/v2-store.ts:752`).
- *Three deletes.* The takeover of a stale fence (`server/jobs/v2-store.ts:706`, "Takeover
  path for a STALE fence") is a `SET XX` that overwrites whatever fence is there, also a
  fresh one. A delete dies and leaves its fence; two others both read it as stale or gone;
  one arms its fence and scans; the takeover of the other replaces that fence, and this one
  ends or dies; a submission and a claim come in; the first of the two removes the row of a
  project with a running job. None of the three has to be slow, and two are too few; each
  is a request of its own within a minute or so. `unguarded` exempts from
  `DeletesOnlyQuiet` and `NothingRunsOnDeleted` the removals by a delete that has lost its
  fence since it began to scan, in this way, by a pause, or by the overdue `DEL` of another
  delete's release; the theorems show that there is no other.
- A crash after the outbox record of an outcome is written, followed by an
  unverified close of the terminal: the old report is delivered by the startup flush
  and the new one conflicts with it. The device then needs an operator. This is why
  `connector_live` has no Orca fault.
- The comment `5xx / 429: retryable` (`connector/outbox.rs:355`) does not hold of a
  503 with a JSON body, which the client turns into a refusal; `Unanswered` has both.
- Workspace: a retry whose recovery finalizes its own commit is run again if its base is
  the branch once more (after a rewind by the owner; hence `back`). A lock whose dead owner's pid is in use again,
  which a container's restart makes likely, is never reclaimed (line 1335). A crash
  amid `reset --hard` leaves the copy dirty for good; the state `BLOCKED` that would say
  so is never assigned. The lock's in-memory registration ends before its directory is
  removed (line 1242), so a contender in between may reclaim it, and the removal then
  deletes the contender's lock; the model takes operations to exclude each other.
  `PUSH_PENDING` told to the caller of another request is about someone else's commit.
  `worktree add` refuses a path Git still knows (line 656), so a request that crashed
  mid-way fails until something prunes.
- Enrollment: the decision route does not look at what `approve` returns
  (`server/connector/router.ts:1205`). A lost grant followed by a restart of the server
  leaves a device row nobody has the credential of.
- Onboarding: a flow in `RECOVERY_REQUIRED` with a repository and no workspace has no
  page that leads on; `submitRepositoryChoice` looks at no state; `GET
  /onboarding/complete` says ready unchecked; two verifications at once can move a
  completed flow back to `PROVISIONING`; an expired flow is given up while its creation
  is in flight (`server/onboarding/store.ts:60`), and `lost` exempts it; "NEVER call
  createRepository again" (`server/onboarding/service.ts:138`) can be broken by an import
  through the API.
- Bootstrap: the status is read and the attempt begun in two transactions; a README
  may land on a branch the owner has just pushed.
- OAuth: revoking a family leaves its access tokens valid until they expire; a consent
  page is not bound to the user it was rendered for; the loser of two concurrent
  refreshes gets `invalid_grant`, and a client that lost the answer of a rotation loses
  the family when it retries; the exchange of a code does not look at whether the user
  was disabled since.

## 6. Not modelled

Of the modelled components: `listJobsForHost`; the explicit redelivery of the command
line on the device's side; pause and resume; phases written by older versions of the
daemon (`LegacyRunning`); the `Accepted` answer of `reconcile_dispatch` and the
`NotReady` answer of `prepare`, which the adapter never gives; a change of executor
during an attempt, which `TARGET_IN_USE` forbids; runtime directories and redelivery
metadata; the rules of admission that choose among pending candidates; the wording of
errors and the encoding of requests. Of the workspace: the protocol of the lock itself,
the rules on paths, operations and diffs, searches and listings. Of the identity store:
schema migrations and the operator's command line. Of OAuth: access tokens, redirect
URIs and code verifiers, which are functions of the request.

Not planned: the Redis runner, write modes, the MCP surface, interactive setup,
diagnostics and upgrade, the URL resolver and the web client, which are I/O or pure
functions of configuration without a protocol.

## 7. Plan

1. Done: `JobStore`, `JobCoordinator`, `TargetDelete`, `Connector`, `ControlStore`,
   `Enrollment`, `Workspace`, `Bootstrap`, `Onboarding`, `HostOAuth`, and the proofs of
   section 4.
2. The lock of a workspace as a module of its own, with the operations of `Workspace`
   abstracted to a critical section.
