----------------------------- MODULE Bootstrap ------------------------------
(***************************************************************************)
(* The bootstrap of a workspace's repository: github/bootstrap-service.ts  *)
(* over the workspace_bootstraps row of identity/store.ts.  An attempt     *)
(* reads the repository on GitHub, adds the files that are missing, reads  *)
(* it again and records READY.  Every request is a step of its own: the    *)
(* owner pushes in between, answers are lost, processes die.  A pod keeps  *)
(* only its running attempt; the row and the repository survive it.  There *)
(* are two pods while a deployment replaces one by another: the guard      *)
(* against concurrent attempts is in a pod's memory, the fence between     *)
(* attempts is in the row.                                                 *)
(*                                                                         *)
(* A commit is an index into log; a tree says what is at each of the paths *)
(* the bootstrap looks at and at one path of the owner's.  Objects are     *)
(* immutable, so a commit and its tree are read in the step that learns    *)
(* their name.                                                             *)
(***************************************************************************)
EXTENDS Integers, Sequences, FiniteSets

CONSTANTS
  Pod,
  MaxAttempts, \* bound on attempt_count
  MaxCommits   \* bound on the commits of the repository

ASSUME BootstrapAssumption == MaxAttempts \in Nat \ {0} /\ MaxCommits \in Nat \ {0}

VARIABLES
  row,         \* the workspace_bootstraps row
  log,         \* the commits of the repository, referenced or not
  head,        \* the bound branch: a commit, 0 when there is no such branch
  others,      \* the repository has branches besides the bound one
  run,         \* the attempt each pod is running
  seen         \* the commit each attempt verified (for the properties)

bootVars == <<row, log, head, others, run, seen>>

Anchor == {"README.md", ".ceoignore"}
Path   == Anchor \cup {"notes"}
Object == {"none", "file", "other"}     \* "other": a directory, a link, a submodule
Tree   == [Path -> Object]
Empty  == [p \in Path |-> "none"]

BOOTSTRAP_MANIFEST_V1 == {"README.md"}
buildFreshWorkspaceManifest == Anchor

Attempt == 1..MaxAttempts
Commit  == 1..MaxCommits
CommitRow == [tree : Tree, parent : 0..MaxCommits, past : SUBSET Commit,
              init : BOOLEAN, by : {"ceo", "owner", "import"}]
Idle == [at |-> "idle", attempt |-> 0, zero |-> FALSE, head |-> 0,
         manifest |-> {}, made |-> 0]

BootstrapRow == [state : {"PENDING", "APPLYING", "READY", "RETRYABLE_FAILURE",
                          "MANUAL_RECOVERY"},
                 attempt : 0..MaxAttempts, ready : 0..MaxCommits,
                 error : {"none", "retryable", "manual"}]
RunState == [at : {"idle", "checked", "repository", "ref", "missing", "put",
                   "reconcile", "update", "verify", "mark"},
             attempt : 0..MaxAttempts, zero : BOOLEAN, head : 0..MaxCommits,
             manifest : SUBSET Anchor, made : 0..MaxCommits]

\* The bootstrap row and the repository have their types: in particular the
\* state is one of those the schema lists (workspace_bootstraps).
BootTypeOK ==
  /\ row \in BootstrapRow
  /\ log \in Seq(CommitRow)
  /\ Len(log) <= MaxCommits
  /\ head \in 0..Len(log)
  /\ others \in BOOLEAN
  /\ run \in [Pod -> RunState]
  /\ seen \in [Attempt -> 0..MaxCommits]

-----------------------------------------------------------------------------
(* The workspace_bootstraps row (identity/store.ts).                       *)

\* The row createWorkspaceWithRepositoryBinding inserts.
PendingRow == [state |-> "PENDING", attempt |-> 0, ready |-> 0, error |-> "none"]

beginWorkspaceBootstrapAttempt(r) ==
  [state |-> "APPLYING", attempt |-> r.attempt + 1, ready |-> 0, error |-> "none"]

\* mutant
AnyAttemptIsCurrent(r, a) == TRUE

\* Only the attempt the row names may decide it, and only once.
IsCurrent(r, a) == r.attempt = a /\ r.state = "APPLYING"

markWorkspaceBootstrapReady(r, a, c) ==
  IF IsCurrent(r, a) THEN [r EXCEPT !.state = "READY", !.ready = c, !.error = "none"]
                     ELSE r

markWorkspaceBootstrapRetryableFailure(r, a) ==
  IF IsCurrent(r, a)
    THEN [r EXCEPT !.state = "RETRYABLE_FAILURE", !.ready = 0, !.error = "retryable"]
    ELSE r

markWorkspaceBootstrapManualRecovery(r, a) ==
  IF IsCurrent(r, a)
    THEN [r EXCEPT !.state = "MANUAL_RECOVERY", !.ready = 0, !.error = "manual"]
    ELSE r

\* What validateData asks of the row when the server opens its database.
ValidRow(r) ==
  CASE r.state = "READY" -> r.ready # 0 /\ r.error = "none"
    [] r.state \in {"PENDING", "APPLYING"} -> r.ready = 0 /\ r.error = "none"
    [] r.state = "RETRYABLE_FAILURE" -> r.ready = 0 /\ r.error = "retryable"
    [] r.state = "MANUAL_RECOVERY" -> r.ready = 0 /\ r.error = "manual"

-----------------------------------------------------------------------------
(* The repository on GitHub.                                               *)

\* The history of a commit, itself included; a commit carries it, as the name
\* of a commit in Git stands for all that is before it.
History(l, c) == IF c = 0 THEN {} ELSE l[c].past

Room == Len(log) < MaxCommits
New  == Len(log) + 1

\* A commit on top of another one, or of nothing.
MakeCommit(tree, parent, init, by) ==
  [tree |-> tree, parent |-> parent, past |-> History(log, parent) \cup {New},
   init |-> init, by |-> by]
HeadTree == IF head = 0 THEN Empty ELSE log[head].tree

\* The contents API writes a file to a branch, creating the branch when the
\* repository is empty; it refuses a path that exists.
CanPut(path) == HeadTree[path] = "none"
PutCommit(path) ==
  MakeCommit([HeadTree EXCEPT ![path] = "file"], head, TRUE, "ceo")

\* A ref update without force is refused unless it is a fast-forward.
IsFastForward(c) == head \in History(log, c)

-----------------------------------------------------------------------------
(* A pod's attempt (github/bootstrap-service.ts).                          *)

BootInit ==
  /\ row = PendingRow
  /\ others \in BOOLEAN
  /\ \/ log = <<>> /\ head = 0
     \/ \E t \in {[Empty EXCEPT !["notes"] = "file"],
                  [Empty EXCEPT !["README.md"] = "file"],
                  [Empty EXCEPT !["README.md"] = "other"]} :
          /\ log = <<[tree |-> t, parent |-> 0, past |-> {1}, init |-> FALSE,
                      by |-> "import"]>>
          /\ head = 1
  /\ run = [p \in Pod |-> Idle]
  /\ seen = [a \in Attempt |-> 0]

Go(p, at) == run' = [run EXCEPT ![p].at = at]

Failed(p, mark(_, _)) ==
  /\ row' = mark(row, run[p].attempt)
  /\ run' = [run EXCEPT ![p] = Idle]
  /\ UNCHANGED <<others, seen>>

Retryable(p) == Failed(p, markWorkspaceBootstrapRetryableFailure)
Manual(p)    == Failed(p, markWorkspaceBootstrapManualRecovery)

\* A request is refused or not answered: which of the two failures it is
\* follows from the status.
classifyGitHubResponseError(p) == Retryable(p) \/ Manual(p)

\* Another, a public, an archived or a disabled repository, and an answer that
\* is not one, are for the owner to put right.
validateLiveRepositoryMetadata(p) == Manual(p)

\* bootstrapWorkspace: the guard in memory, then the row; a READY row is the
\* answer.  The row is written in a later transaction than it is read in.
CheckStatus(p) ==
  /\ run[p].at = "idle"
  /\ row.state # "READY"
  /\ row.attempt < MaxAttempts
  /\ Go(p, "checked")
  /\ UNCHANGED <<row, log, head, others, seen>>

\* The attempt begins before the owner and the installation are looked up; if
\* one of them is gone it has failed at once.
BeginAttempt(p) ==
  LET r == beginWorkspaceBootstrapAttempt(row)
  IN  /\ run[p].at = "checked"
      /\ row.attempt < MaxAttempts
      /\ \/ /\ row' = r
            /\ run' = [run EXCEPT ![p] = [Idle EXCEPT !.at = "repository",
                                                      !.attempt = r.attempt]]
         \/ /\ row' = markWorkspaceBootstrapManualRecovery(r, r.attempt)
            /\ run' = [run EXCEPT ![p] = Idle]
      /\ UNCHANGED <<log, head, others, seen>>

\* The installation, a token and the repository.  The size GitHub reports may
\* lag behind the content.
ReadRepository(p) ==
  /\ run[p].at = "repository"
  /\ UNCHANGED <<log, head>>
  /\ \/ \E zero \in IF log = <<>> THEN {TRUE} ELSE BOOLEAN :
          /\ run' = [run EXCEPT ![p].at = "ref", ![p].zero = zero]
          /\ UNCHANGED <<row, others, seen>>
     \/ validateLiveRepositoryMetadata(p)
     \/ classifyGitHubResponseError(p)

ResolveRef(p) ==
  /\ run[p].at = "ref"
  /\ UNCHANGED <<log, head>>
  /\ \/ /\ run' = IF head = 0 THEN [run EXCEPT ![p].at = "missing"]
                  ELSE [run EXCEPT ![p].at = "reconcile", ![p].head = head]
        /\ UNCHANGED <<row, others, seen>>
     \/ classifyGitHubResponseError(p)

handleMissingBoundBranch(p) ==
  /\ run[p].at = "missing"
  /\ UNCHANGED <<log, head>>
  /\ \/ head # 0 /\ Retryable(p)
     \/ head = 0 /\ (others \/ ~run[p].zero) /\ Manual(p)
     \/ /\ head = 0 /\ ~others /\ run[p].zero
        /\ Go(p, "put") /\ UNCHANGED <<row, others, seen>>
     \/ classifyGitHubResponseError(p)

\* The README is written; the answer may be lost although it was, and the
\* name of the commit may be missing from it (head 0: read the branch).
bootstrapEmptyRepository(p) ==
  /\ run[p].at = "put"
  /\ \/ /\ CanPut("README.md") /\ Room
        /\ log' = Append(log, PutCommit("README.md")) /\ head' = New
        /\ \/ \E h \in {New, 0} :
                /\ run' = [run EXCEPT ![p].at = "reconcile", ![p].head = h,
                                      ![p].manifest = buildFreshWorkspaceManifest]
                /\ UNCHANGED <<row, others, seen>>
           \/ Retryable(p)
     \/ ~CanPut("README.md") /\ Retryable(p) /\ UNCHANGED <<log, head>>
     \/ classifyGitHubResponseError(p) /\ UNCHANGED <<log, head>>

\* An earlier attempt wrote the README to an empty repository and no more.
isPartialFreshBootstrap(c) ==
  c.init /\ c.tree = [Empty EXCEPT !["README.md"] = c.tree["README.md"]]
         /\ c.tree["README.md"] # "none"

effectiveManifest(p, c) ==
  IF run[p].manifest # {} THEN run[p].manifest
  ELSE IF isPartialFreshBootstrap(c) THEN buildFreshWorkspaceManifest
  ELSE BOOTSTRAP_MANIFEST_V1

\* Only what is missing is added, in a commit on top of the head that was read.
AnchorCommit(h, missing) ==
  MakeCommit([a \in Path |-> IF a \in missing THEN "file" ELSE log[h].tree[a]],
             h, FALSE, "ceo")

reconcileFromBranchHead(p) ==
  LET h == IF run[p].head = 0 THEN head ELSE run[p].head
      t == log[h].tree
      m == effectiveManifest(p, log[h])
      missing == {a \in m : t[a] = "none"}
  IN  /\ run[p].at = "reconcile"
      /\ UNCHANGED head
      /\ \/ /\ \E a \in m : t[a] = "other"
            /\ Manual(p) /\ UNCHANGED log
         \/ /\ \A a \in m : t[a] = "file"
            /\ run' = [run EXCEPT ![p].at = "verify", ![p].manifest = m]
            /\ UNCHANGED <<row, log, others, seen>>
         \/ /\ \A a \in m : t[a] # "other"
            /\ missing # {} /\ Room
            /\ log' = Append(log, AnchorCommit(h, missing))
            /\ run' = [run EXCEPT ![p].at = "update", ![p].manifest = m,
                                  ![p].made = New]
            /\ UNCHANGED <<row, others, seen>>
         \/ classifyGitHubResponseError(p) /\ UNCHANGED log

\* mutant
ForcedUpdate(p) == TRUE

MayUpdate(p) == IsFastForward(run[p].made)

UpdateRef(p) ==
  /\ run[p].at = "update"
  /\ UNCHANGED log
  /\ \/ /\ MayUpdate(p) /\ head' = run[p].made
        /\ \/ Go(p, "verify") /\ UNCHANGED <<row, others, seen>>
           \/ Retryable(p)
     \/ ~MayUpdate(p) /\ Retryable(p) /\ UNCHANGED head
     \/ classifyGitHubResponseError(p) /\ UNCHANGED head

AnchorsPresent(p, t) == \A a \in run[p].manifest : t[a] = "file"

\* verifyLiveStateAndMarkReady reads the branch again, whoever wrote it last.
VerifyLiveState(p) ==
  /\ run[p].at = "verify"
  /\ UNCHANGED <<log, head>>
  /\ \/ /\ head # 0 /\ AnchorsPresent(p, log[head].tree)
        /\ run' = [run EXCEPT ![p].at = "mark", ![p].head = head]
        /\ seen' = [seen EXCEPT ![run[p].attempt] = head]
        /\ UNCHANGED <<row, others>>
     \/ /\ head # 0 /\ ~AnchorsPresent(p, log[head].tree)
        /\ \/ \E a \in run[p].manifest : log[head].tree[a] = "none" /\ Retryable(p)
           \/ \E a \in run[p].manifest : log[head].tree[a] = "other" /\ Manual(p)
     \/ validateLiveRepositoryMetadata(p)
     \/ classifyGitHubResponseError(p)

\* A stale attempt finds the row taken over, and its failure is refused too.
MarkReady(p) ==
  /\ run[p].at = "mark"
  /\ row' = markWorkspaceBootstrapReady(row, run[p].attempt, run[p].head)
  /\ run' = [run EXCEPT ![p] = Idle]
  /\ UNCHANGED <<log, head, others, seen>>

Crash(p) ==
  /\ run[p].at # "idle"
  /\ run' = [run EXCEPT ![p] = Idle]
  /\ UNCHANGED <<row, log, head, others, seen>>

\* The owner pushes to the bound branch, or to another one of an empty
\* repository, while the bootstrap is under way.
OwnerPush ==
  /\ Room
  /\ \E t \in {[HeadTree EXCEPT !["notes"] = "file"],
               [HeadTree EXCEPT !["README.md"] = "none"],
               [HeadTree EXCEPT !["README.md"] = "other"]} \ {HeadTree} :
       log' = Append(log, MakeCommit(t, head, FALSE, "owner"))
  /\ head' = New
  /\ UNCHANGED <<row, others, run, seen>>

OwnerBranch ==
  /\ ~others
  /\ others' = TRUE
  /\ UNCHANGED <<row, log, head, run, seen>>

BootNext ==
  \/ \E p \in Pod :
       \/ CheckStatus(p) \/ BeginAttempt(p) \/ ReadRepository(p) \/ ResolveRef(p)
       \/ handleMissingBoundBranch(p) \/ bootstrapEmptyRepository(p)
       \/ reconcileFromBranchHead(p) \/ UpdateRef(p) \/ VerifyLiveState(p)
       \/ MarkReady(p) \/ Crash(p)
  \/ OwnerPush \/ OwnerBranch

BootSpec == BootInit /\ [][BootNext]_bootVars

-----------------------------------------------------------------------------
\* READY is never guessed: the commit in a READY row is one that the attempt
\* named in the row itself read from the live branch, and it holds the anchor
\* file.  A stale attempt, of this pod or of the one it replaced, cannot put
\* its commit into a row that a later attempt has begun, and what the owner
\* pushed between the write and the second reading is looked at
\* (verifyLiveStateAndMarkReady, markWorkspaceBootstrapReady).
ReadyWasVerified ==
  row.state = "READY" =>
    /\ row.ready = seen[row.attempt]
    /\ log[row.ready].tree["README.md"] = "file"

\* A repository that only the bootstrap ever wrote to is complete when it is
\* READY, also when an attempt died, or lost its answer, between the README
\* and the rest and another one finished (isPartialFreshBootstrap).
FreshIsWhole ==
  /\ row.state = "READY"
  /\ \A c \in History(log, row.ready) : log[c].by = "ceo"
  => log[row.ready].tree[".ceoignore"] = "file"

\* No attempt adds .ceoignore to a repository the owner had filled before it was
\* bound, whatever failed before (reconcileFromBranchHead: "so we never inject
\* .ceoignore into a user's pre-existing repository").
NeverInjected ==
  (log # <<>> /\ log[1].by = "import") =>
    \A c \in 1..Len(log) :
      log[c].by = "ceo" => log[c].tree[".ceoignore"] = log[log[c].parent].tree[".ceoignore"]

\* No step takes a commit off the branch: what the owner pushed between the
\* reading of the head and the update of the ref stays in its history (the
\* update is not forced).
PushesKept == [][History(log, head) \subseteq History(log', head')]_bootVars

\* The row can always be loaded: a server that is restarted at any point opens
\* its database (validateData refuses a row whose fields disagree with its
\* state, and with it the whole database).
RowLoads == ValidRow(row)

\* The bootstrap's row can be believed, at any moment and after any restart.
RowIsTrue == BootTypeOK /\ RowLoads /\ ReadyWasVerified /\ FreshIsWhole

\* The bootstrap takes nothing of the owner's away and adds nothing to what the
\* owner had before, whatever it found, lost or did twice.
OwnersWorkIsKept == []NeverInjected /\ PushesKept
=============================================================================
