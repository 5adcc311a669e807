----------------------------- MODULE Workspace ------------------------------
(***************************************************************************)
(* The transaction of a workspace: CeoWorkspace (workspace.ts) edits a     *)
(* detached worktree, commits, records pending.json, pushes, and turns the *)
(* pending record into completed/<request>.json.  Every operation holds    *)
(* the lock write.lock and starts by recovering what an earlier one left.  *)
(* The runtime registry (runtime/registry.ts) makes the workspace object,  *)
(* again after a failed initialize.                                        *)
(*                                                                         *)
(* Each step of an operation is a step of the model: the server may crash  *)
(* between any two, the network may fail a fetch or a push, also after the *)
(* push has landed, and the owner of the repository may push, rewrite or   *)
(* rewind the branch.  The operations of one workspace exclude each other: *)
(* an operation that finds the lock taken fails at once.                   *)
(***************************************************************************)
EXTENDS Naturals, Sequences, FiniteSets

CONSTANTS Request, None,
          MaxCommits,   \* commits ever made
          MaxMoves,     \* pushes, rewrites and rewinds by the owner
          MaxNet,       \* fetches and pushes that fail
          MaxCrashes    \* crashes of the server

ASSUME WorkspaceAssumption ==
  /\ None \notin Request
  /\ MaxCommits \in Nat \ {0} /\ MaxMoves \in Nat /\ MaxNet \in Nat /\ MaxCrashes \in Nat

VARIABLES
  commits,     \* the commits of both repositories: ancestors (with itself), request
  remote,      \* the branch on GitHub
  published,   \* what was ever on it (for the properties)
  head,        \* HEAD of the main working copy, 0 before the clone
  dirty,       \* does git status print anything there?
  shown,       \* where HEAD has been: the commits callers may have read files at
  wt,          \* the worktree of a request: known to git, and the commit it is at
  pending,     \* pending.json
  completed,   \* completed/<request>.json
  lock,        \* write.lock, as the next operation finds it
  runtime,     \* WorkspaceRuntimeRegistry.runtimes
  state,       \* CeoWorkspace.state
  op,          \* the operation that holds the lock
  told,        \* the requests that were told PUSH_PENDING, and the commits whose
               \* request was told STALE_REVISION (for the properties)
  back,        \* has the owner moved the branch back? (for the properties)
  misfiled,    \* the requests archived as stale on the branch (for the properties)
  overtaken,   \* the requests told STALE_REVISION by a call whose own recovery had
               \* just finished their commit (for the properties)
  left         \* the faults and the owner's moves still to come

ghostVars == <<back, misfiled, overtaken>>
headVars == <<head, shown>>
gitVars  == <<commits, remote, published>>
fileVars == <<wt, pending, completed>>
wsVars   == <<gitVars, headVars, dirty, fileVars, lock, runtime, state, op, told, ghostVars, left>>

Commit == 1..MaxCommits
WorkspaceState == {"RECOVERING", "READY", "PUSH_PENDING"}   \* nothing assigns the others
PendingTransaction == [req : Request, base : Commit, commit : Commit]
ASSUME NoneIsNoRecord == None \notin PendingTransaction
CompletedTransaction == [out : {"none", "NOOP", "COMMITTED", "STALE_REVISION"},
                         commit : {0} \cup Commit]
NoWt   == [reg |-> FALSE, at |-> 0]
NoOp   == [pc |-> "idle", kind |-> "none", req |-> None, base |-> 0, rec |-> None,
           own |-> FALSE, seen |-> 0, out |-> "none", step |-> 0]

Anc(c)   == commits[c].anc
Spend(f) == left[f] > 0 /\ left' = [left EXCEPT ![f] = @ - 1]

-----------------------------------------------------------------------------
(* Steps and ends of an operation.                                         *)

Goes(pc) == op' = [op EXCEPT !.pc = pc]

\* The commits made for a request, wherever they are.
Made(r) == {c \in 1..Len(commits) : commits[c].req = r}

\* The callers of r are told.
Hears(what, r) ==
  CASE what = "PUSH_PENDING"   -> [told EXCEPT !.PUSH_PENDING = @ \cup {r}]
    [] what = "STALE_REVISION" -> [told EXCEPT !.STALE_REVISION = @ \cup Made(r)]
    [] OTHER                   -> told

\* The operation throws or returns, and the lock is released; an initialize that
\* failed leaves the registry without a runtime.
Ends(ok, what) ==
  /\ op' = NoOp
  /\ runtime' = IF op.kind # "init" THEN runtime ELSE IF ok THEN "ready" ELSE "none"
  /\ told' = Hears(what, op.req)

ResetsTo(c) == head' = c /\ shown' = shown \cup {c}

\* A fetch or a push that fails.
NetFails == Spend("net")

\* git worktree prune forgets the worktrees whose directory is gone.
Pruned(w) == [r \in Request |-> IF w[r].at = 0 THEN NoWt ELSE w[r]]
discardWorktree(r) == wt' = Pruned([wt EXCEPT ![r] = NoWt])

-----------------------------------------------------------------------------
(* Beginning an operation.                                                 *)

\* captureReadSnapshot: reads take no lock, and look at one commit.
Readable == runtime = "ready" /\ state = "READY" /\ head # 0

\* The lock of a process that is gone is reclaimed, unless its pid is in use
\* again: then it looks alive.
inspectStaleLock == lock # "masked"

\* An operation begins: the lock is free or reclaimed.
Acquires == op = NoOp /\ inspectStaleLock /\ lock' = "free"

\* WORKSPACE_BUSY: nothing changes.
FailsBusy == op = NoOp /\ ~inspectStaleLock /\ UNCHANGED wsVars

\* registry.get for a workspace without a runtime: initialize.
GetRuntime ==
  /\ runtime = "none" /\ Acquires
  /\ runtime' = "init" /\ state' = "RECOVERING"
  /\ op' = [NoOp EXCEPT !.pc = "ensure", !.kind = "init"]
  /\ UNCHANGED <<gitVars, headVars, dirty, fileVars, told, ghostVars, left>>

\* Clone what is not there yet.
EnsureRepository ==
  /\ op.pc = "ensure"
  /\ \/ head = 0 /\ NetFails /\ Ends(FALSE, "error") /\ UNCHANGED headVars
     \/ /\ IF head = 0 THEN ResetsTo(remote) ELSE UNCHANGED headVars
        /\ Goes("recover") /\ UNCHANGED <<runtime, told, left>>
  /\ UNCHANGED <<gitVars, dirty, fileVars, lock, state, ghostVars>>

\* workspaceStatus and withReadyWorkspace.
WorkspaceStatus ==
  /\ runtime = "ready" /\ Acquires
  /\ op' = [NoOp EXCEPT !.pc = "recover", !.kind = "status"]
  /\ UNCHANGED <<gitVars, headVars, dirty, fileVars, runtime, state, told, ghostVars, left>>

\* mutant
ForgetsOutcome(r) == FALSE

\* The request has an outcome, which its callers are given again.
AlreadyDone(r) == completed[r].out # "none"

\* applyChangeSet, and every resource operation that writes: a request with the
\* commit its caller has read.
ApplyChangeSet(r, b) ==
  /\ runtime = "ready" /\ Acquires
  /\ IF AlreadyDone(r)
       THEN told' = Hears(completed[r].out, r) /\ UNCHANGED op
       ELSE /\ op' = [NoOp EXCEPT !.pc = "recover", !.kind = "txn", !.req = r, !.base = b]
            /\ UNCHANGED told
  /\ UNCHANGED <<gitVars, headVars, dirty, fileVars, runtime, state, ghostVars, left>>

-----------------------------------------------------------------------------
(* recoverPending.                                                         *)

RecoverPending ==
  /\ op.pc = "recover"
  /\ \/ /\ pending = None
        /\ Goes("sync") /\ UNCHANGED <<state, runtime, told, left>>
     \/ /\ pending # None /\ NetFails
        /\ state' = "PUSH_PENDING" /\ Ends(FALSE, "error")
     \/ /\ pending # None
        /\ state' = "RECOVERING"
        /\ op' = [op EXCEPT !.pc = "classify", !.seen = remote, !.rec = pending]
        /\ UNCHANGED <<runtime, told, left>>
  /\ UNCHANGED <<gitVars, headVars, dirty, fileVars, lock, ghostVars>>

\* mutant
LandedOnBase(c) == op.rec.base \in Anc(c)

\* The branch at c holds the pending commit.
Landed(c) == op.rec.commit \in Anc(c)

\* mutant
NeverDiverged(c) == FALSE

\* The branch is neither where the pending commit starts nor where it ends.
Diverged(c) == c # op.rec.base

Classify ==
  /\ op.pc = "classify"
  /\ op' = IF Landed(op.seen) THEN [op EXCEPT !.pc = "finalize"]
           ELSE IF Diverged(op.seen)
             THEN [op EXCEPT !.pc = "close", !.out = "STALE_REVISION", !.step = 1]
             ELSE [op EXCEPT !.pc = "push"]
  /\ UNCHANGED <<gitVars, headVars, dirty, fileVars, lock, runtime, state, told, ghostVars, left>>

-----------------------------------------------------------------------------
(* The push, in a transaction and in its recovery, and what follows it.    *)

\* A push that is not forced lands when it only adds to the branch.
PushLands == remote \in Anc(op.rec.commit)

\* PUSH_PENDING; to the caller of another operation it is about someone's commit.
PushFails ==
  state' = "PUSH_PENDING" /\ Ends(FALSE, IF op.own THEN "PUSH_PENDING" ELSE "error")

GitPush ==
  /\ op.pc = "push"
  /\ IF PushLands
       THEN \/ /\ remote' = op.rec.commit
               /\ published' = published \cup Anc(op.rec.commit)
               /\ \/ Goes("finalize") /\ UNCHANGED <<state, runtime, told, left>>
                  \/ NetFails /\ PushFails
            \/ /\ NetFails /\ PushFails
               /\ UNCHANGED <<remote, published>>
       ELSE /\ PushFails
            /\ UNCHANGED <<remote, published, left>>
  /\ UNCHANGED <<commits, headVars, dirty, fileVars, lock, ghostVars>>

\* What the main working copy is reset to: the branch in which recovery saw the
\* commit, or the branch as it is now.
ResetTarget ==
  IF op.seen # op.rec.commit /\ op.seen # 0 /\ Landed(op.seen) THEN op.seen ELSE remote

\* An error in finalizePending: recoverPending takes one of its first call for
\* "not an ancestor" and goes on to archive the transaction as stale, and one of
\* its last call for a push that failed.
FinalizeThrows ==
  CASE ~op.own /\ Landed(op.seen) /\ op.seen # op.rec.commit ->
         /\ op' = [op EXCEPT !.pc = "close", !.out = "STALE_REVISION", !.step = 1]
         /\ misfiled' = misfiled \cup {op.rec.req}
         /\ UNCHANGED <<state, runtime, told>>
    [] ~op.own /\ ~Landed(op.seen) -> PushFails /\ UNCHANGED misfiled
    [] OTHER -> Ends(FALSE, "error") /\ UNCHANGED <<state, misfiled>>

\* finalizePending up to the reset: a fetch that may fail, and the working copy
\* must be clean.
FinalizePending ==
  /\ op.pc = "finalize"
  /\ \/ NetFails /\ FinalizeThrows /\ UNCHANGED headVars
     \/ dirty /\ FinalizeThrows /\ UNCHANGED <<headVars, left>>
     \/ /\ ~dirty /\ ResetsTo(ResetTarget)
        /\ op' = [op EXCEPT !.pc = "close", !.out = "COMMITTED", !.step = 1]
        /\ UNCHANGED <<state, runtime, told, misfiled, left>>
  /\ UNCHANGED <<gitVars, dirty, fileVars, lock, back, overtaken>>

\* mutant
UnlinksFirst == <<"unlink", "record", "discard">>

\* How finalizePending and archiveStalePending end a pending transaction: the
\* outcome is recorded, pending.json is removed, then the worktree.
Closing == <<"record", "unlink", "discard">>

\* The last step: a transaction that has just pushed is done, one that came too
\* late is synchronised first, and a recovery goes on.
Closed ==
  IF op.own /\ op.out = "COMMITTED"
    THEN state' = "READY" /\ Ends(TRUE, "COMMITTED")
    ELSE Goes("sync") /\ state' = (IF op.out = "COMMITTED" THEN "READY" ELSE state)
         /\ UNCHANGED <<runtime, told>>

ClosePending ==
  LET r == op.rec.req
  IN  /\ op.pc = "close"
      /\ CASE Closing[op.step] = "record" ->
                 /\ completed' = [completed EXCEPT ![r] = [out |-> op.out, commit |-> op.rec.commit]]
                 /\ UNCHANGED <<pending, wt>>
           [] Closing[op.step] = "unlink"  -> pending' = None /\ UNCHANGED <<completed, wt>>
           [] Closing[op.step] = "discard" -> discardWorktree(r) /\ UNCHANGED <<completed, pending>>
      /\ IF op.step < 3 THEN op' = [op EXCEPT !.step = @ + 1] /\ UNCHANGED <<state, runtime, told>>
                        ELSE Closed
      /\ UNCHANGED <<gitVars, headVars, dirty, lock, ghostVars, left>>

-----------------------------------------------------------------------------
(* syncCleanWorkspace, and the transaction.                                *)

SyncClean ==
  /\ ~dirty
  /\ ResetsTo(remote) /\ state' = "READY"
  /\ wt' = IF head = remote THEN wt ELSE Pruned(wt)

\* The recovery of this call has just finished the commit of its own request.
FinishedOwn == op.out = "COMMITTED" /\ op.rec.req = op.req

\* A transaction is told STALE_REVISION when it came too late or its caller has
\* not read the branch; whether its request has an outcome is not asked again.
SyncCleanWorkspace ==
  /\ op.pc = "sync"
  /\ \/ /\ \/ dirty /\ UNCHANGED left
           \/ NetFails
        /\ Ends(FALSE, "error") /\ UNCHANGED <<headVars, state, wt, overtaken>>
     \/ /\ SyncClean /\ UNCHANGED left
        /\ IF op.kind # "txn" THEN Ends(TRUE, "ok") /\ UNCHANGED overtaken
           ELSE IF op.own THEN Ends(FALSE, "STALE_REVISION") /\ UNCHANGED overtaken
           ELSE IF remote # op.base
             THEN /\ Ends(FALSE, "STALE_REVISION")
                  /\ overtaken' = IF FinishedOwn THEN overtaken \cup {op.req} ELSE overtaken
           ELSE Goes("worktree") /\ UNCHANGED <<runtime, told, overtaken>>
  /\ UNCHANGED <<gitVars, dirty, pending, completed, lock, back, misfiled>>

\* rm and git worktree add, which refuses a path it still knows.  An unreadable
\* .ceoignore leaves the worktree behind.
AddWorktree ==
  /\ op.pc = "worktree"
  /\ IF wt[op.req].reg
       THEN wt' = [wt EXCEPT ![op.req].at = 0] /\ Ends(FALSE, "error")
       ELSE /\ wt' = [wt EXCEPT ![op.req] = [reg |-> TRUE, at |-> op.base]]
            /\ \/ Goes("edit") /\ UNCHANGED <<runtime, told>>
               \/ Ends(FALSE, "error")
  /\ UNCHANGED <<gitVars, headVars, dirty, pending, completed, lock, state, ghostVars, left>>

\* The operations are refused, change nothing or change something.
validateDiff == {"throws", "noop", "changes"}

NextCommit(r, base) == [anc |-> Anc(base) \cup {Len(commits) + 1}, req |-> r]

\* The edits and the commit; an error or no change discards the worktree.
EditAndCommit ==
  LET r == op.req
  IN  /\ op.pc = "edit"
      /\ \E e \in validateDiff :
           CASE e = "throws" -> /\ discardWorktree(r) /\ Ends(FALSE, "error")
                                /\ UNCHANGED <<completed, commits>>
             [] e = "noop"   -> /\ discardWorktree(r) /\ Ends(TRUE, "NOOP")
                                /\ completed' = [completed EXCEPT ![r] =
                                                   [out |-> "NOOP", commit |-> op.base]]
                                /\ UNCHANGED commits
             [] e = "changes" ->
                  /\ Len(commits) < MaxCommits
                  /\ commits' = Append(commits, NextCommit(r, op.base))
                  /\ wt' = [wt EXCEPT ![r].at = Len(commits) + 1]
                  /\ op' = [op EXCEPT !.pc = "pend", !.own = TRUE,
                               !.rec = [req |-> r, base |-> op.base, commit |-> Len(commits) + 1]]
                  /\ UNCHANGED <<completed, runtime, told>>
      /\ UNCHANGED <<remote, published, headVars, dirty, pending, lock, state, ghostVars, left>>

WritePending ==
  /\ op.pc = "pend"
  /\ pending' = op.rec /\ Goes("recheck")
  /\ UNCHANGED <<gitVars, headVars, dirty, wt, completed, lock, runtime, state, told, ghostVars, left>>

\* The branch is fetched once more before the push.
Recheck ==
  /\ op.pc = "recheck"
  /\ \/ NetFails /\ Ends(FALSE, "error")
     \/ /\ op' = IF remote # op.base
                  THEN [op EXCEPT !.pc = "close", !.out = "STALE_REVISION", !.step = 1]
                  ELSE [op EXCEPT !.pc = "push"]
        /\ UNCHANGED <<runtime, told, left>>
  /\ UNCHANGED <<gitVars, headVars, dirty, fileVars, lock, state, ghostVars>>

-----------------------------------------------------------------------------
(* The owner of the repository, and crashes.                               *)

\* The owner pushes a commit, on the branch or on an earlier commit of it, or
\* moves the branch back.
OwnerMoves ==
  /\ Spend("move")
  /\ \E c \in Anc(remote) :
       /\ \/ /\ Len(commits) < MaxCommits
             /\ commits' = Append(commits, NextCommit(None, c))
             /\ remote' = Len(commits) + 1
          \/ c # remote /\ remote' = c /\ UNCHANGED commits
       /\ back' = (back \/ c # remote)
  /\ published' = published \cup {remote'}
  /\ UNCHANGED <<headVars, dirty, fileVars, lock, runtime, state, op, told, misfiled, overtaken>>

\* A reset --hard that changes the working copy may be under way.
Resetting ==
  \/ op.pc = "finalize" /\ head # ResetTarget
  \/ op.pc = "sync" /\ head # remote

\* The process dies; a reset that was under way leaves the working copy dirty,
\* and the lock stays with the pid of the dead process.
Crash ==
  /\ Spend("crash")
  /\ op' = NoOp /\ runtime' = "none" /\ state' = "RECOVERING"
  /\ IF Resetting THEN dirty' \in BOOLEAN ELSE UNCHANGED dirty
  /\ IF op = NoOp /\ lock = "free" THEN UNCHANGED lock ELSE lock' \in {"dead", "masked"}
  /\ UNCHANGED <<gitVars, headVars, fileVars, told, ghostVars>>

WsInit ==
  /\ commits = <<[anc |-> {1}, req |-> None]>> /\ remote = 1 /\ published = {1}
  /\ head = 0 /\ dirty = FALSE /\ shown = {}
  /\ wt = [r \in Request |-> NoWt] /\ pending = None
  /\ completed = [r \in Request |-> [out |-> "none", commit |-> 0]]
  /\ lock = "free" /\ runtime = "none" /\ state = "RECOVERING" /\ op = NoOp
  /\ told = [PUSH_PENDING |-> {}, STALE_REVISION |-> {}]
  /\ back = FALSE /\ misfiled = {} /\ overtaken = {}
  /\ left = [net |-> MaxNet, crash |-> MaxCrashes, move |-> MaxMoves]

OpStep ==
  \/ EnsureRepository \/ RecoverPending \/ Classify \/ GitPush \/ FinalizePending
  \/ ClosePending \/ SyncCleanWorkspace \/ AddWorktree \/ EditAndCommit
  \/ WritePending \/ Recheck

WsNext ==
  \/ OpStep \/ GetRuntime \/ WorkspaceStatus
  \/ \E r \in Request, b \in shown : ApplyChangeSet(r, b)
  \/ FailsBusy \/ OwnerMoves \/ Crash

WsSpec == WsInit /\ [][WsNext]_wsVars

\* An operation that has begun goes on, and Hosts keep calling: there is always a
\* next call that makes the runtime or asks for the status.
FairWsSpec ==
  WsSpec /\ WF_wsVars(OpStep) /\ WF_wsVars(GetRuntime) /\ WF_wsVars(WorkspaceStatus)

-----------------------------------------------------------------------------
(* Properties.                                                             *)

\* The commits of a request on the branch.
Of(r) == {c \in Anc(remote) : commits[c].req = r}

\* The files, the branch and the operation have their types (PendingTransaction,
\* CompletedTransaction, WorkspaceState).
WsTypeOK ==
  /\ commits \in Seq([anc : SUBSET Commit, req : Request \cup {None}])
  /\ remote \in 1..Len(commits) /\ published \subseteq 1..Len(commits)
  /\ head \in 0..Len(commits) /\ dirty \in BOOLEAN /\ shown \subseteq 1..Len(commits)
  /\ \A r \in Request : wt[r] \in [reg : BOOLEAN, at : 0..Len(commits)]
  /\ pending \in PendingTransaction \cup {None}
  /\ completed \in [Request -> CompletedTransaction]
  /\ lock \in {"free", "dead", "masked"} /\ runtime \in {"none", "init", "ready"}
  /\ state \in WorkspaceState

\* A request is applied at most once, whatever was lost or repeated: the branch
\* never has two commits of it (withAtomicWorkspaceTransaction).
AppliedOnce == \A r \in Request : Cardinality(Of(r)) <= 1

\* A commit recorded as committed has been on the branch, and one whose request
\* was told stale is never on it, with three exceptions: the owner moved the branch
\* back; recoverPending swallowed an error of finalizePending; or the call that was
\* told so had itself just finished the commit, and then it is on record as
\* committed for the next call.
RecordedIsSo ==
  /\ \A r \in Request : completed[r].out = "COMMITTED" => completed[r].commit \in published
  /\ \A c \in told.STALE_REVISION :
       \/ c \notin Anc(remote) \/ back \/ commits[c].req \in misfiled
       \/ commits[c].req \in overtaken /\ completed[commits[c].req].out = "COMMITTED"

\* A pending transaction can still be pushed: its worktree is there, at its
\* commit, after every crash (writePending, finalizePending, archiveStalePending).
PendingIsPushable ==
  pending # None => wt[pending.req] = [reg |-> TRUE, at |-> pending.commit]

\* A change that was committed and could not be pushed is not lost: while its
\* caller knows no more, it is pending or has an outcome (PUSH_PENDING).
PushPendingIsKept ==
  \A r \in told.PUSH_PENDING :
    completed[r].out # "none" \/ (pending # None /\ pending.req = r)

\* A caller reads what it wrote: where files may be read, HEAD holds every commit
\* recorded as committed, unless the owner moved the branch back
\* (captureReadSnapshot, finalizePending, syncCleanWorkspace).
ReadsOwnWrites ==
  Readable => \A r \in Request :
    completed[r].out = "COMMITTED" => completed[r].commit \in Anc(head) \/ back

\* An outcome is true, for those who are told and for those who read, after any
\* crash or lost answer (finalizePending, recoverPending, archiveStalePending).
OutcomeIsTrue == RecordedIsSo /\ ReadsOwnWrites

\* A change that was committed and could not be pushed is kept, in a form from
\* which it can be pushed, until it has an outcome.
PendingIsKept == WsTypeOK /\ PendingIsPushable /\ PushPendingIsKept

\* A pending transaction is settled once the network is back, unless a crash
\* amid a reset left the working copy dirty or the lock's pid is in use again
\* (recoverPending).
PendingSettles == (pending # None) ~> (pending = None \/ dirty \/ lock = "masked")
=============================================================================
