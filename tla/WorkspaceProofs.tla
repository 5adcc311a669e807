-------------------------- MODULE WorkspaceProofs ---------------------------
(***************************************************************************)
(* What the transaction of a workspace promises for every number of        *)
(* requests, commits, crashes, failures of the network and moves of the    *)
(* owner.                                                                  *)
(***************************************************************************)
EXTENDS Workspace, FiniteSetTheorems, TLAPS

N == Len(commits)

CommitRow == [anc : SUBSET Commit, req : Request \cup {None}]

(***************************************************************************)
(* The commits.  Ancestors are closed and older, and no history holds two  *)
(* commits of one request, on the branch or off it.                        *)
(***************************************************************************)
GraphOK ==
  /\ commits \in Seq(CommitRow) /\ N \in Commit
  /\ \A c \in 1..N : /\ c \in Anc(c) /\ Anc(c) \subseteq 1..c
                     /\ \A d \in Anc(c) : Anc(d) \subseteq Anc(c)

OnceEach ==
  \A x \in 1..N : \A c, d \in Anc(x) :
    commits[c].req = commits[d].req /\ commits[c].req # None => c = d

\* What was on the branch is closed, HEAD has only been there, and the branch
\* only grows until the owner moves it back.
BranchOK ==
  /\ published \subseteq 1..N /\ remote \in published /\ shown \subseteq published
  /\ \A c \in published : Anc(c) \subseteq published
  /\ head \in {0} \cup shown /\ back \in BOOLEAN
  /\ ~back => published \subseteq Anc(remote)

ToldRow == [PUSH_PENDING : SUBSET Request, STALE_REVISION : SUBSET Nat]

FilesOK ==
  /\ wt \in [Request -> [reg : BOOLEAN, at : 0..N]]
  /\ pending \in PendingTransaction \cup {None}
  /\ completed \in [Request -> CompletedTransaction]
  /\ dirty \in BOOLEAN /\ lock \in {"free", "dead", "masked"}
  /\ runtime \in {"none", "init", "ready"} /\ state \in WorkspaceState
  /\ told \in ToldRow /\ misfiled \subseteq Request

\* Before the clone nobody has asked for anything.
Fresh ==
  head = 0 => /\ shown = {} /\ pending = None
              /\ \A c \in 1..N : commits[c].req = None
              /\ \A r \in Request : completed[r].out = "none"

\* A pending record is about a commit of its request, on a published base.
RecOK(p) ==
  /\ p \in PendingTransaction
  /\ p.base \in published /\ p.commit \in 1..N /\ p.base < p.commit
  /\ commits[p.commit].req = p.req /\ Anc(p.commit) = Anc(p.base) \cup {p.commit}

PendingOK == pending # None => RecOK(pending) /\ PendingIsPushable

\* What was published has an outcome or is pending.
Recorded ==
  /\ \A r \in Request : completed[r].out = "COMMITTED" => completed[r].commit \in published
  /\ \A c \in published : commits[c].req # None /\ completed[commits[c].req].out = "none" =>
       pending # None /\ pending.commit = c
  /\ PushPendingIsKept

Beyond(b) == \E x \in published : x \notin Anc(b)

\* While the branch only grows: HEAD holds what was committed, a request that is
\* on record as stale was never published, and a pending record was recorded, if
\* at all, for the commit it is about.
DataForward ==
  ~back =>
    /\ \A r \in Request : completed[r].out = "COMMITTED" => completed[r].commit \in Anc(head)
    /\ \A r \in Request \ misfiled :
         completed[r].out = "STALE_REVISION" => \A c \in published : commits[c].req # r
    /\ pending # None =>
         \/ completed[pending.req].out = "none"
         \/ /\ completed[pending.req].out \in {"COMMITTED", "STALE_REVISION"}
            /\ completed[pending.req].commit = pending.commit
            /\ \/ completed[pending.req].out = "COMMITTED" \/ pending.req \in misfiled
               \/ Beyond(pending.base)

DataInv == GraphOK /\ OnceEach /\ BranchOK /\ FilesOK /\ Fresh /\ PendingOK /\ Recorded
             /\ DataForward

-----------------------------------------------------------------------------
(***************************************************************************)
(* The operation that holds the lock.                                      *)
(***************************************************************************)
Pc == {"idle", "ensure", "recover", "classify", "push", "finalize", "close", "sync",
       "worktree", "edit", "pend", "recheck"}
OpRow == [pc : Pc, kind : {"none", "init", "status", "txn"}, req : Request \cup {None},
          base : {0} \cup Commit, rec : PendingTransaction \cup {None}, own : BOOLEAN,
          seen : {0} \cup Commit, out : {"none", "COMMITTED", "STALE_REVISION"}, step : 0..3]

\* The base of a transaction does not hold its request, and it owns the pending
\* record from its commit on.
TxnOK ==
  /\ op.kind = "txn" => /\ op.req \in Request /\ op.base \in shown
                        /\ \A c \in Anc(op.base) : commits[c].req # op.req
  /\ op.own => /\ op.kind = "txn" /\ op.seen < op.rec.commit
               /\ op.rec.req = op.req /\ op.rec.base = op.base
  /\ op.seen \in {0} \cup published
  /\ op.pc \in {"idle", "ensure", "recover", "worktree", "edit", "classify"} => ~op.own
  /\ op.pc \in {"worktree", "edit"} => op.kind = "txn"

\* What is pending at each step, and what the step is about.
StageOK ==
  /\ op.pc \in {"sync", "worktree", "edit", "pend"} => pending = None
  /\ op.pc \in {"classify", "recheck", "push", "finalize"} => pending # None /\ pending = op.rec
  /\ op.pc \in {"pend", "recheck"} => op.own /\ op.rec.commit \notin published
  /\ op.pc = "pend" => /\ RecOK(op.rec)
                       /\ wt[op.rec.req] = [reg |-> TRUE, at |-> op.rec.commit]
  /\ op.pc = "edit" => wt[op.req].reg = TRUE
  /\ op.pc = "classify" => op.seen \in published
  /\ op.pc \in {"push", "finalize", "close"} /\ ~op.own => op.seen \in published
  /\ op.pc = "finalize" => op.rec.commit \in published
  /\ op.pc = "sync" /\ op.own => completed[op.req].out = "STALE_REVISION"

CloseOK ==
  op.pc = "close" =>
    /\ RecOK(op.rec) /\ op.step \in 1..3 /\ op.out # "none"
    /\ op.out = "COMMITTED" => op.rec.commit \in published
    /\ op.step < 3 => pending # None /\ pending = op.rec
    /\ op.step > 1 => completed[op.rec.req].out = op.out
                        /\ completed[op.rec.req].commit = op.rec.commit
    /\ op.step = 3 => pending = None

\* Callers of a ready workspace have not seen a commit that is pending without
\* an outcome.
Unseen ==
  runtime = "ready" /\ op.pc # "close" /\ pending # None =>
    /\ completed[pending.req].out = "none" => \A b \in shown : pending.commit \notin Anc(b)
    /\ ~back => shown \subseteq Anc(pending.base)

\* While the branch only grows: a transaction that goes on is the first of its
\* request, and what the recovery has seen is at least what was read.
OpForward ==
  ~back =>
    /\ (op.own /\ op.pc \notin {"close", "sync"}) \/ op.pc \in {"worktree", "edit"} =>
         completed[op.req].out = "none"
    /\ op.pc = "classify" =>
         /\ op.rec.base \in Anc(op.seen)
         /\ op.rec.commit \in published => op.rec.commit \in Anc(op.seen)
         /\ completed[op.rec.req].out = "STALE_REVISION" /\ op.rec.req \notin misfiled =>
              op.seen # op.rec.base
    /\ op.pc \in {"classify", "push", "finalize"} /\ ~op.own => head \in Anc(op.seen)
    /\ op.pc = "push" => completed[op.rec.req].out # "STALE_REVISION" \/ op.rec.req \in misfiled
    /\ op.pc = "close" /\ op.out = "COMMITTED" => op.rec.commit \in Anc(head)
    /\ op.pc = "close" /\ op.out = "STALE_REVISION" =>
         \/ op.rec.commit \in published /\ op.rec.req \in misfiled
         \/ op.rec.commit \notin published /\ Beyond(op.rec.base)
    /\ op.kind = "txn" /\ ~op.own /\ completed[op.req].out # "none" => Beyond(op.base)
    /\ op.kind = "txn" /\ ~op.own /\ pending # None => op.base \in Anc(pending.base)
    /\ op.pc \in {"worktree", "edit", "pend"} => shown \subseteq Anc(op.base)

OpInv == op \in OpRow /\ TxnOK /\ StageOK /\ CloseOK /\ OpForward

WsInv == DataInv /\ OpInv /\ Unseen

-----------------------------------------------------------------------------
(***************************************************************************)
(* Facts about ancestors and rows.                                         *)
(***************************************************************************)
LEMMA Older ==
  ASSUME GraphOK, NEW c \in 1..N, NEW d \in Anc(c)
  PROVE  d \in 1..N /\ d <= c /\ d \in Nat /\ Anc(d) \subseteq Anc(c)
<1>1. N \in Nat
  BY DEF GraphOK, Commit
<1> QED
  BY <1>1 DEF GraphOK

LEMMA SameCommit ==
  ASSUME GraphOK, NEW c \in 1..N, NEW d \in 1..N, c \in Anc(d), d \in Anc(c)
  PROVE  c = d
  BY Older

LEMMA Published ==
  ASSUME GraphOK, BranchOK
  PROVE  /\ \A c \in published : c \in 1..N /\ c \in Anc(c)
         /\ \A c \in shown : c \in published
         /\ N \in Nat \ {0} /\ N <= MaxCommits /\ remote \in 1..N /\ remote # 0
         /\ head # 0 => head \in shown
         /\ published \subseteq Commit /\ shown \subseteq Commit /\ remote \in Commit
  BY WorkspaceAssumption DEF GraphOK, BranchOK, Commit

LEMMA CommitTypes ==
  ASSUME GraphOK, BranchOK
  PROVE  \A c \in published : commits[c].req \in Request \cup {None}
<1>1. \A c \in 1..N : commits[c] \in CommitRow
  BY DEF GraphOK, N
<1>2. \A c \in CommitRow : c.req \in Request \cup {None}
  BY DEF CommitRow
<1> QED
  BY <1>1, <1>2, Published

LEMMA NoOpRow == NoOp \in OpRow
  BY DEF NoOp, OpRow, Pc

LEMMA NoOpFields ==
  /\ NoOp.pc = "idle" /\ NoOp.kind = "none" /\ NoOp.own = FALSE /\ NoOp.seen = 0
  /\ NoOp.req = None /\ NoOp.base = 0 /\ NoOp.rec = None /\ NoOp.out = "none"
  BY DEF NoOp

LEMMA IdleInv ==
  ASSUME op' = NoOp
  PROVE  OpInv'
  BY NoOpRow, NoOpFields DEF OpInv, TxnOK, StageOK, CloseOK, OpForward

LEMMA GoesFields ==
  ASSUME op \in OpRow, NEW p \in Pc, Goes(p)
  PROVE  /\ op' \in OpRow /\ op'.pc = p /\ op'.kind = op.kind /\ op'.req = op.req
         /\ op'.base = op.base /\ op'.rec = op.rec /\ op'.own = op.own
         /\ op'.seen = op.seen /\ op'.out = op.out /\ op'.step = op.step
  BY DEF Goes, OpRow

LEMMA CloseFields ==
  ASSUME op \in OpRow, NEW o \in {"COMMITTED", "STALE_REVISION"},
         op' = [op EXCEPT !.pc = "close", !.out = o, !.step = 1]
  PROVE  /\ op' \in OpRow /\ op'.pc = "close" /\ op'.kind = op.kind /\ op'.req = op.req
         /\ op'.base = op.base /\ op'.rec = op.rec /\ op'.own = op.own
         /\ op'.seen = op.seen /\ op'.out = o /\ op'.step = 1
<1>1. op' \in OpRow
  <2>1. "close" \in Pc /\ o \in {"none", "COMMITTED", "STALE_REVISION"} /\ 1 \in 0..3
    BY DEF Pc
  <2> QED
    BY <2>1 DEF OpRow
<1>2. /\ op'.pc = "close" /\ op'.kind = op.kind /\ op'.req = op.req
      /\ op'.base = op.base /\ op'.rec = op.rec /\ op'.own = op.own
      /\ op'.seen = op.seen /\ op'.out = o /\ op'.step = 1
  BY DEF OpRow
<1> QED
  BY <1>1, <1>2

-----------------------------------------------------------------------------
LEMMA InitInv == WsInit => WsInv
<1> SUFFICES ASSUME WsInit PROVE WsInv
  OBVIOUS
<1> USE DEF WsInit
<1>1. /\ N = 1 /\ commits[1].anc = {1} /\ commits[1].req = None
      /\ commits \in Seq(CommitRow)
  <2>1. [anc |-> {1}, req |-> None] \in CommitRow
    BY WorkspaceAssumption DEF CommitRow, Commit
  <2> QED
    BY <2>1 DEF N
<1>2. 1..N = {1} /\ Anc(1) = {1} /\ 1 \in Commit
  BY <1>1, WorkspaceAssumption DEF Anc, Commit
<1>3. GraphOK /\ OnceEach
  BY <1>1, <1>2 DEF GraphOK, OnceEach
<1>4. BranchOK /\ FilesOK
  <2>1. NoWt \in [reg : BOOLEAN, at : 0..N]
    BY <1>1 DEF NoWt
  <2>2. [out |-> "none", commit |-> 0] \in CompletedTransaction
    BY DEF CompletedTransaction
  <2> QED
    BY <1>1, <1>2, <2>1, <2>2 DEF BranchOK, FilesOK, WorkspaceState, ToldRow
<1>5. Fresh /\ PendingOK /\ Recorded /\ DataForward
  BY <1>1 DEF Fresh, PendingOK, Recorded, DataForward, PushPendingIsKept
<1>6. OpInv
  BY NoOpRow, NoOpFields DEF OpInv, TxnOK, StageOK, CloseOK, OpForward
<1> QED
  BY <1>3, <1>4, <1>5, <1>6 DEF WsInv, DataInv, Unseen

(***************************************************************************)
(* Steps that change neither the commits nor the files.                    *)
(***************************************************************************)
dataVars == <<commits, remote, published, head, shown, wt, pending, completed, misfiled, back>>

Typed ==
  /\ dirty \in BOOLEAN /\ lock \in {"free", "dead", "masked"}
  /\ runtime \in {"none", "init", "ready"} /\ state \in WorkspaceState

LEMMA DataFrame ==
  ASSUME DataInv, UNCHANGED dataVars, Typed',
         told' \in ToldRow, PushPendingIsKept'
  PROVE  DataInv'
<1> USE DEF dataVars
<1>1. GraphOK' /\ OnceEach' /\ BranchOK' /\ Fresh'
  BY DEF DataInv, GraphOK, OnceEach, BranchOK, Fresh, N, Anc
<1>2. FilesOK' /\ PendingOK'
  BY DEF DataInv, FilesOK, PendingOK, PendingIsPushable, RecOK, Typed, N, Anc
<1>3. Recorded' /\ DataForward'
  BY DEF DataInv, Recorded, DataForward, Beyond, Anc
<1> QED
  BY <1>1, <1>2, <1>3 DEF DataInv

LEMMA DataSame ==
  ASSUME DataInv, UNCHANGED <<dataVars, told>>, Typed'
  PROVE  DataInv'
<1>1. PushPendingIsKept'
  BY DEF dataVars, DataInv, Recorded, PushPendingIsKept
<1> QED
  BY <1>1, DataFrame DEF DataInv, FilesOK

\* What the callers of a request are told is added to what they were told.
Heard == {"PUSH_PENDING", "STALE_REVISION"}

LEMMA HearsFacts ==
  ASSUME told \in ToldRow, NEW what, NEW r \in Request
  PROVE  /\ Hears(what, r) \in ToldRow
         /\ what # "PUSH_PENDING" => Hears(what, r).PUSH_PENDING = told.PUSH_PENDING
         /\ what = "PUSH_PENDING" =>
              /\ Hears(what, r).PUSH_PENDING = told.PUSH_PENDING \cup {r}
              /\ Hears(what, r).STALE_REVISION = told.STALE_REVISION
         /\ what = "STALE_REVISION" =>
              Hears(what, r).STALE_REVISION = told.STALE_REVISION \cup Made(r)
         /\ what \notin Heard => Hears(what, r) = told
<1>1. Made(r) \subseteq Nat
  BY DEF Made
<1> HIDE DEF Made
<1>2. CASE what = "PUSH_PENDING"
  BY <1>2 DEF Hears, Heard, ToldRow
<1>3. CASE what = "STALE_REVISION"
  BY <1>1, <1>3 DEF Hears, Heard, ToldRow
<1>4. CASE what \notin Heard
  BY <1>4 DEF Hears, Heard
<1> QED
  BY <1>2, <1>3, <1>4 DEF Heard

LEMMA EndsFacts ==
  ASSUME FilesOK, NEW ok \in BOOLEAN, NEW what, Ends(ok, what)
  PROVE  /\ op' = NoOp /\ runtime' \in {"none", "init", "ready"}
         /\ runtime' = "ready" => runtime = "ready" \/ ok
         /\ what \notin Heard => told' = told
  BY DEF Ends, FilesOK, Hears, Heard

\* An operation that ends without having changed a file.
LEMMA EndsKeeps ==
  ASSUME WsInv, NEW ok \in BOOLEAN, NEW what, Ends(ok, what), what \notin Heard,
         UNCHANGED <<dataVars, dirty, lock>>, state' \in WorkspaceState,
         op.pc # "close", ok => pending = None
  PROVE  WsInv'
<1>1. /\ op' = NoOp /\ runtime' \in {"none", "init", "ready"}
      /\ runtime' = "ready" => runtime = "ready" \/ ok
      /\ told' = told
  BY EndsFacts DEF WsInv, DataInv
<1>2. DataInv'
  BY <1>1, DataSame DEF WsInv, DataInv, FilesOK, Typed
<1>3. Unseen'
  BY <1>1, NoOpFields DEF WsInv, Unseen, dataVars, Anc
<1> QED
  BY <1>1, <1>2, <1>3, IdleInv DEF WsInv

LEMMA NotHeard == "error" \notin Heard /\ "ok" \notin Heard /\ "NOOP" \notin Heard
                    /\ "COMMITTED" \notin Heard
  BY DEF Heard

\* An operation that begins: its row, with nothing seen yet.
LEMMA BeginsKeeps ==
  ASSUME WsInv, UNCHANGED <<dataVars, told>>, Typed',
         op' \in OpRow, op'.pc \in {"ensure", "recover"}, ~op'.own, op'.seen = 0,
         op'.kind # "txn", runtime' = "ready" => runtime = "ready", op = NoOp
  PROVE  WsInv'
<1>1. DataInv'
  BY DataSame DEF WsInv
<1>2. OpInv'
  BY DEF OpInv, TxnOK, StageOK, CloseOK, OpForward
<1>3. Unseen'
  BY NoOpFields DEF WsInv, Unseen, dataVars, Anc
<1> QED
  BY <1>1, <1>2, <1>3 DEF WsInv

LEMMA GetRuntimeKeeps ==
  ASSUME WsInv, GetRuntime
  PROVE  WsInv'
<1> DEFINE row == [NoOp EXCEPT !.pc = "ensure", !.kind = "init"]
<1>1. row \in OpRow /\ row.pc = "ensure" /\ row.kind = "init" /\ ~row.own /\ row.seen = 0
  BY NoOpRow, NoOpFields DEF OpRow, Pc
<1>2. op' = row /\ op = NoOp /\ runtime' = "init"
  BY DEF GetRuntime, Acquires
<1> HIDE DEF row
<1>3. UNCHANGED <<dataVars, told>> /\ Typed'
  BY DEF GetRuntime, Acquires, dataVars, gitVars, headVars, fileVars, ghostVars, Typed, WsInv,
     DataInv, FilesOK, WorkspaceState
<1> QED
  BY <1>1, <1>2, <1>3, BeginsKeeps

LEMMA StatusKeeps ==
  ASSUME WsInv, WorkspaceStatus
  PROVE  WsInv'
<1> DEFINE row == [NoOp EXCEPT !.pc = "recover", !.kind = "status"]
<1>1. row \in OpRow /\ row.pc = "recover" /\ row.kind = "status" /\ ~row.own /\ row.seen = 0
  BY NoOpRow, NoOpFields DEF OpRow, Pc
<1>2. op' = row /\ op = NoOp /\ runtime' = runtime
  BY DEF WorkspaceStatus, Acquires
<1> HIDE DEF row
<1>3. UNCHANGED <<dataVars, told>> /\ Typed'
  BY DEF WorkspaceStatus, Acquires, dataVars, gitVars, headVars, fileVars, ghostVars, Typed,
     WsInv, DataInv, FilesOK, WorkspaceState
<1> QED
  BY <1>1, <1>2, <1>3, BeginsKeeps

\* A request without an outcome is not in any history its caller may have read.
LEMMA BaseIsFree ==
  ASSUME WsInv, runtime = "ready", op = NoOp, NEW r \in Request, NEW b \in shown,
         completed[r].out = "none"
  PROVE  \A c \in Anc(b) : commits[c].req # r
<1> SUFFICES ASSUME NEW c \in Anc(b), commits[c].req = r PROVE FALSE
  OBVIOUS
<1>1. c \in published
  BY DEF WsInv, DataInv, BranchOK
<1>2. pending # None /\ pending.commit = c
  BY <1>1, WorkspaceAssumption DEF WsInv, DataInv, Recorded
<1>3. pending.req = r
  BY <1>2 DEF WsInv, DataInv, PendingOK, RecOK
<1> QED
  BY <1>2, <1>3, NoOpFields DEF WsInv, Unseen

LEMMA ApplyKeeps ==
  ASSUME WsInv, NEW r \in Request, NEW b \in shown, ApplyChangeSet(r, b)
  PROVE  WsInv'
<1>1. /\ UNCHANGED dataVars /\ Typed' /\ op = NoOp /\ runtime = "ready"
      /\ runtime' = runtime
  BY DEF ApplyChangeSet, Acquires, dataVars, gitVars, headVars, fileVars, ghostVars, Typed,
     WsInv, DataInv, FilesOK
<1>2. b \in Commit
  BY Published DEF WsInv, DataInv
<1>3. CASE AlreadyDone(r)
  <2>1. PICK what : what = completed[r].out
    OBVIOUS
  <2>2. UNCHANGED op /\ told' = Hears(what, r) /\ what # "PUSH_PENDING"
    BY <1>3, <2>1 DEF ApplyChangeSet, WsInv, DataInv, FilesOK, CompletedTransaction
  <2>3. told' \in ToldRow /\ told'.PUSH_PENDING = told.PUSH_PENDING
    BY <2>2, HearsFacts DEF WsInv, DataInv, FilesOK
  <2>4. PushPendingIsKept'
    BY <1>1, <2>3 DEF dataVars, WsInv, DataInv, Recorded, PushPendingIsKept
  <2>5. DataInv'
    BY <1>1, <2>3, <2>4, DataFrame DEF WsInv
  <2>6. Unseen'
    BY <1>1, <2>2 DEF WsInv, Unseen, dataVars, Anc
  <2> QED
    BY <1>1, <2>2, <2>5, <2>6, IdleInv DEF WsInv
<1>4. CASE ~AlreadyDone(r)
  <2> DEFINE row == [NoOp EXCEPT !.pc = "recover", !.kind = "txn", !.req = r, !.base = b]
  <2>1. /\ row \in OpRow /\ row.pc = "recover" /\ row.kind = "txn" /\ ~row.own
        /\ row.seen = 0 /\ row.req = r /\ row.base = b
    <3>1. "recover" \in Pc
      BY DEF Pc
    <3> QED
      BY <1>2, <3>1, NoOpRow, NoOpFields DEF OpRow
  <2>2. op' = row /\ told' = told
    BY <1>4 DEF ApplyChangeSet
  <2> HIDE DEF row
  <2>3. DataInv'
    BY <1>1, <2>2, DataSame DEF WsInv
  <2>4. completed[r].out = "none" /\ \A c \in Anc(b) : commits[c].req # r
    BY <1>1, <1>4, BaseIsFree DEF AlreadyDone
  <2>5. ~back /\ pending # None => b \in Anc(pending.base)
    BY <1>1, NoOpFields DEF WsInv, Unseen
  <2>6. OpInv'
    BY <1>1, <2>1, <2>2, <2>4, <2>5
       DEF dataVars, OpInv, TxnOK, StageOK, CloseOK, OpForward, Anc
  <2>7. Unseen'
    BY <1>1, NoOpFields DEF WsInv, Unseen, dataVars, Anc
  <2> QED
    BY <2>3, <2>6, <2>7 DEF WsInv
<1> QED
  BY <1>3, <1>4

\* A crash keeps the files; the runtime must be made, and recovered, again.
LEMMA CrashKeeps ==
  ASSUME WsInv, Crash
  PROVE  WsInv'
<1>1. /\ UNCHANGED <<dataVars, told>> /\ Typed' /\ op' = NoOp /\ runtime' = "none"
  BY DEF Crash, dataVars, gitVars, headVars, fileVars, ghostVars, Typed, WsInv, DataInv,
     FilesOK, WorkspaceState
<1> QED
  BY <1>1, DataSame, IdleInv DEF WsInv, Unseen

-----------------------------------------------------------------------------
(***************************************************************************)
(* recoverPending.                                                         *)
(***************************************************************************)
\* A step of the operation that changes its row only.
LEMMA RowKeeps ==
  ASSUME WsInv, UNCHANGED <<dataVars, told, dirty, lock, runtime>>, state' \in WorkspaceState,
         OpInv', op'.pc # "close" => op.pc # "close"
  PROVE  WsInv'
<1>1. DataInv'
  BY DataSame DEF WsInv, DataInv, FilesOK, Typed
<1>2. Unseen'
  BY DEF WsInv, Unseen, dataVars, Anc
<1> QED
  BY <1>1, <1>2 DEF WsInv

LEMMA RecoverKeeps ==
  ASSUME WsInv, RecoverPending
  PROVE  WsInv'
<1>1. /\ UNCHANGED <<dataVars, dirty, lock>> /\ op.pc = "recover" /\ op \in OpRow
      /\ ~op.own
  BY DEF RecoverPending, dataVars, gitVars, headVars, fileVars, ghostVars, WsInv, OpInv, TxnOK
<1>2. CASE pending = None /\ Goes("sync") /\ UNCHANGED <<state, runtime, told, left>>
  <2>1. /\ op' \in OpRow /\ op'.pc = "sync" /\ op'.kind = op.kind /\ op'.req = op.req
        /\ op'.base = op.base /\ op'.own = op.own /\ op'.seen = op.seen
    BY <1>1, <1>2, GoesFields DEF Pc
  <2>2. OpInv'
    BY <1>1, <1>2, <2>1 DEF dataVars, WsInv, OpInv, TxnOK, StageOK, CloseOK, OpForward, Beyond,
       Anc
  <2> QED
    BY <1>1, <1>2, <2>1, <2>2, RowKeeps DEF WsInv, DataInv, FilesOK
<1>3. CASE state' = "PUSH_PENDING" /\ Ends(FALSE, "error")
  BY <1>1, <1>3, EndsKeeps, NotHeard DEF WorkspaceState
<1>4. CASE /\ pending # None /\ state' = "RECOVERING"
           /\ op' = [op EXCEPT !.pc = "classify", !.seen = remote, !.rec = pending]
           /\ UNCHANGED <<runtime, told, left>>
  <2>1. /\ "classify" \in Pc /\ remote \in Commit /\ pending \in PendingTransaction
        /\ remote \in published
    BY <1>4, Published DEF Pc, WsInv, DataInv, FilesOK, BranchOK
  <2>2. op' \in OpRow
    BY <1>1, <1>4, <2>1 DEF OpRow
  <2>3. /\ op'.pc = "classify" /\ op'.kind = op.kind /\ op'.req = op.req
        /\ op'.base = op.base /\ op'.own = op.own /\ op'.seen = remote /\ op'.rec = pending
    BY <1>1, <1>4 DEF OpRow
  <2>4. /\ pending.base \in published /\ pending.commit \in 1..N
        /\ commits[pending.commit].req = pending.req
    BY <1>4 DEF WsInv, DataInv, PendingOK, RecOK
  <2>5. ~back => /\ pending.base \in Anc(remote)
                 /\ pending.commit \in published => pending.commit \in Anc(remote)
                 /\ completed[pending.req].out = "STALE_REVISION" /\ pending.req \notin misfiled
                      => remote # pending.base
                 /\ head \in Anc(remote)
    <3> SUFFICES ASSUME ~back
                 PROVE  /\ pending.base \in Anc(remote)
                        /\ pending.commit \in published => pending.commit \in Anc(remote)
                        /\ completed[pending.req].out = "STALE_REVISION"
                             /\ pending.req \notin misfiled => remote # pending.base
                        /\ head \in Anc(remote)
      OBVIOUS
    <3>1. published \subseteq Anc(remote)
      BY DEF WsInv, DataInv, BranchOK
    <3>2. head \in published
      BY <1>4 DEF WsInv, DataInv, BranchOK, Fresh
    <3>3. completed[pending.req].out = "STALE_REVISION" /\ pending.req \notin misfiled
            => Beyond(pending.base)
      BY <1>4 DEF WsInv, DataInv, DataForward
    <3> QED
      BY <2>4, <3>1, <3>2, <3>3 DEF Beyond
  <2>6. OpInv'
    <3>1. TxnOK' /\ StageOK' /\ CloseOK'
      BY <1>1, <1>4, <2>1, <2>3 DEF dataVars, WsInv, OpInv, TxnOK, StageOK, CloseOK, Anc
    <3>2. OpForward'
      BY <1>1, <1>4, <2>3, <2>5 DEF dataVars, WsInv, OpInv, OpForward, Beyond, Anc
    <3> QED
      BY <2>2, <3>1, <3>2 DEF OpInv
  <2> QED
    BY <1>1, <1>4, <2>3, <2>6, RowKeeps DEF WorkspaceState
<1> QED
  BY <1>2, <1>3, <1>4 DEF RecoverPending

LEMMA ClassifyKeeps ==
  ASSUME WsInv, Classify
  PROVE  WsInv'
<1>1. /\ UNCHANGED <<dataVars, told, dirty, lock, runtime>> /\ state' \in WorkspaceState
      /\ op.pc = "classify" /\ op \in OpRow /\ ~op.own
      /\ pending # None /\ pending = op.rec /\ op.seen \in published
  BY DEF Classify, dataVars, gitVars, headVars, fileVars, ghostVars, WsInv, DataInv, FilesOK,
     OpInv, TxnOK, StageOK
<1>2. RecOK(op.rec)
  BY <1>1 DEF WsInv, DataInv, PendingOK
<1>3. CASE Landed(op.seen)
  <2>1. /\ op' \in OpRow /\ op'.pc = "finalize" /\ op'.kind = op.kind /\ op'.req = op.req
        /\ op'.base = op.base /\ op'.own = op.own /\ op'.seen = op.seen /\ op'.rec = op.rec
    <3>1. Goes("finalize")
      BY <1>3 DEF Classify, Goes
    <3> QED
      BY <1>1, <3>1, GoesFields DEF Pc
  <2>2. op.rec.commit \in published
    BY <1>1, <1>3 DEF Landed, WsInv, DataInv, BranchOK
  <2>3. TxnOK' /\ StageOK' /\ CloseOK'
    BY <1>1, <2>1, <2>2 DEF dataVars, WsInv, OpInv, TxnOK, StageOK, CloseOK, Anc
  <2>4. OpForward'
    BY <1>1, <2>1 DEF dataVars, WsInv, OpInv, OpForward, Beyond, Anc
  <2> QED
    BY <1>1, <2>1, <2>3, <2>4, RowKeeps DEF OpInv
<1>4. CASE ~Landed(op.seen) /\ Diverged(op.seen)
  <2>1. op' = [op EXCEPT !.pc = "close", !.out = "STALE_REVISION", !.step = 1]
    BY <1>4 DEF Classify
  <2>2. /\ op' \in OpRow /\ op'.pc = "close" /\ op'.kind = op.kind /\ op'.req = op.req
        /\ op'.base = op.base /\ op'.rec = op.rec /\ op'.own = op.own
        /\ op'.seen = op.seen /\ op'.out = "STALE_REVISION" /\ op'.step = 1
    BY <1>1, <2>1, CloseFields
  <2>3. ~back => op.rec.commit \notin published /\ Beyond(op.rec.base)
    <3> SUFFICES ASSUME ~back PROVE op.rec.commit \notin published /\ Beyond(op.rec.base)
      OBVIOUS
    <3>1. /\ op.rec.base \in Anc(op.seen) /\ op.seen # op.rec.base
          /\ op.rec.commit \notin published
      BY <1>1, <1>4 DEF Landed, Diverged, WsInv, OpInv, OpForward
    <3>2. op.seen \notin Anc(op.rec.base)
      BY <1>1, <1>2, <3>1, SameCommit, Published DEF RecOK, WsInv, DataInv
    <3> QED
      BY <1>1, <3>1, <3>2 DEF Beyond
  <2>4. TxnOK' /\ StageOK'
    BY <1>1, <2>2 DEF dataVars, WsInv, OpInv, TxnOK, StageOK, Anc
  <2>5. CloseOK'
    BY <1>1, <1>2, <2>2 DEF dataVars, CloseOK, RecOK, Anc, N
  <2>6. OpForward'
    BY <1>1, <2>2, <2>3 DEF dataVars, WsInv, OpInv, OpForward, Beyond, Anc
  <2> QED
    BY <1>1, <2>2, <2>4, <2>5, <2>6, RowKeeps DEF OpInv
<1>5. CASE ~Landed(op.seen) /\ ~Diverged(op.seen)
  <2>1. /\ op' \in OpRow /\ op'.pc = "push" /\ op'.kind = op.kind /\ op'.req = op.req
        /\ op'.base = op.base /\ op'.own = op.own /\ op'.seen = op.seen /\ op'.rec = op.rec
    BY <1>1, <1>5, GoesFields DEF Classify, Goes, Pc
  <2>2. ~back => completed[op.rec.req].out # "STALE_REVISION" \/ op.rec.req \in misfiled
    BY <1>1, <1>5 DEF Diverged, WsInv, OpInv, OpForward
  <2>3. TxnOK' /\ StageOK' /\ CloseOK'
    BY <1>1, <2>1 DEF dataVars, WsInv, OpInv, TxnOK, StageOK, CloseOK, Anc
  <2>4. OpForward'
    BY <1>1, <2>1, <2>2 DEF dataVars, WsInv, OpInv, OpForward, Beyond, Anc
  <2> QED
    BY <1>1, <2>1, <2>3, <2>4, RowKeeps DEF OpInv
<1> QED
  BY <1>3, <1>4, <1>5

LEMMA RecheckKeeps ==
  ASSUME WsInv, Recheck
  PROVE  WsInv'
<1>1. /\ UNCHANGED <<dataVars, dirty, lock>> /\ state' \in WorkspaceState
      /\ op.pc = "recheck" /\ op \in OpRow /\ op.own /\ op.kind = "txn"
      /\ pending # None /\ pending = op.rec /\ op.rec.commit \notin published
      /\ op.rec.req = op.req /\ op.rec.base = op.base
  BY DEF Recheck, dataVars, gitVars, headVars, fileVars, ghostVars, WsInv, DataInv, FilesOK,
     OpInv, TxnOK, StageOK
<1>2. RecOK(op.rec)
  BY <1>1 DEF WsInv, DataInv, PendingOK
<1>3. CASE Ends(FALSE, "error")
  BY <1>1, <1>3, EndsKeeps, NotHeard
<1>4. CASE /\ remote # op.base /\ UNCHANGED <<runtime, told>>
           /\ op' = [op EXCEPT !.pc = "close", !.out = "STALE_REVISION", !.step = 1]
  <2>1. /\ op' \in OpRow /\ op'.pc = "close" /\ op'.kind = op.kind /\ op'.req = op.req
        /\ op'.base = op.base /\ op'.rec = op.rec /\ op'.own = op.own
        /\ op'.seen = op.seen /\ op'.out = "STALE_REVISION" /\ op'.step = 1
    BY <1>1, <1>4, CloseFields
  <2>2. ~back => Beyond(op.rec.base)
    <3> SUFFICES ASSUME ~back PROVE Beyond(op.rec.base)
      OBVIOUS
    <3>1. op.rec.base \in Anc(remote) /\ op.rec.base \in 1..N /\ remote \in published
      BY <1>2, Published DEF RecOK, WsInv, DataInv, BranchOK
    <3>2. remote \notin Anc(op.rec.base)
      BY <1>1, <1>4, <3>1, SameCommit, Published DEF WsInv, DataInv
    <3> QED
      BY <3>1, <3>2 DEF Beyond
  <2>3. TxnOK' /\ StageOK'
    BY <1>1, <2>1 DEF dataVars, WsInv, OpInv, TxnOK, StageOK, Anc
  <2>4. CloseOK'
    BY <1>1, <1>2, <2>1 DEF dataVars, CloseOK, RecOK, Anc, N
  <2>5. OpForward'
    BY <1>1, <2>1, <2>2 DEF dataVars, WsInv, OpInv, OpForward, Beyond, Anc
  <2> QED
    BY <1>1, <1>4, <2>1, <2>3, <2>4, <2>5, RowKeeps DEF OpInv
<1>5. CASE op' = [op EXCEPT !.pc = "push"] /\ UNCHANGED <<runtime, told>>
  <2>1. /\ op' \in OpRow /\ op'.pc = "push" /\ op'.kind = op.kind /\ op'.req = op.req
        /\ op'.base = op.base /\ op'.own = op.own /\ op'.seen = op.seen /\ op'.rec = op.rec
    BY <1>1, <1>5, GoesFields DEF Goes, Pc
  <2>2. TxnOK' /\ StageOK' /\ CloseOK'
    BY <1>1, <2>1 DEF dataVars, WsInv, OpInv, TxnOK, StageOK, CloseOK, Anc
  <2>3. OpForward'
    BY <1>1, <2>1 DEF dataVars, WsInv, OpInv, OpForward, Beyond, Anc
  <2> QED
    BY <1>1, <1>5, <2>1, <2>2, <2>3, RowKeeps DEF OpInv
<1> QED
  BY <1>3, <1>4, <1>5 DEF Recheck

-----------------------------------------------------------------------------
(***************************************************************************)
(* Steps that write files or move HEAD.                                    *)
(***************************************************************************)
LEMMA WritePendingKeeps ==
  ASSUME WsInv, WritePending
  PROVE  WsInv'
<1>1. /\ UNCHANGED <<commits, remote, published, head, shown, wt, completed, misfiled, back,
                     told, dirty, lock, runtime, state>>
      /\ op.pc = "pend" /\ pending = None /\ pending' = op.rec /\ Goes("recheck")
      /\ op \in OpRow /\ op.own /\ op.kind = "txn" /\ op.rec.commit \notin published
      /\ op.rec.req = op.req /\ op.rec.base = op.base
      /\ RecOK(op.rec) /\ wt[op.rec.req] = [reg |-> TRUE, at |-> op.rec.commit]
  BY DEF WritePending, gitVars, headVars, ghostVars, WsInv, OpInv, TxnOK, StageOK
<1>2. /\ op' \in OpRow /\ op'.pc = "recheck" /\ op'.kind = op.kind /\ op'.req = op.req
      /\ op'.base = op.base /\ op'.own = op.own /\ op'.seen = op.seen /\ op'.rec = op.rec
  BY <1>1, GoesFields DEF Pc
<1>3. op.rec \in PendingTransaction /\ op.rec # None
  BY <1>1, NoneIsNoRecord DEF RecOK
<1>4. GraphOK' /\ OnceEach' /\ BranchOK'
  BY <1>1 DEF WsInv, DataInv, GraphOK, OnceEach, BranchOK, N, Anc
<1>5. FilesOK' /\ PendingOK'
  BY <1>1, <1>3 DEF WsInv, DataInv, FilesOK, PendingOK, PendingIsPushable, RecOK, N, Anc
<1>6. Fresh'
  BY <1>1 DEF WsInv, DataInv, Fresh, OpInv, TxnOK, N
<1>7. Recorded'
  BY <1>1 DEF WsInv, DataInv, Recorded, PushPendingIsKept
<1>8. DataForward'
  BY <1>1 DEF WsInv, DataInv, DataForward, OpInv, OpForward, Anc
<1>9. OpInv'
  <2>1. TxnOK' /\ StageOK' /\ CloseOK'
    BY <1>1, <1>2, <1>3 DEF WsInv, OpInv, TxnOK, StageOK, CloseOK, Anc
  <2>2. OpForward'
    BY <1>1, <1>2 DEF WsInv, OpInv, OpForward, Beyond, Anc
  <2> QED
    BY <1>2, <2>1, <2>2 DEF OpInv
<1>10. Unseen'
  <2>1. \A b \in shown : op.rec.commit \notin Anc(b)
    BY <1>1 DEF WsInv, DataInv, BranchOK
  <2>2. ~back => shown \subseteq Anc(op.rec.base)
    BY <1>1 DEF WsInv, OpInv, OpForward
  <2> QED
    BY <1>1, <2>1, <2>2 DEF Unseen, Anc
<1> QED
  BY <1>4, <1>5, <1>6, <1>7, <1>8, <1>9, <1>10 DEF WsInv, DataInv

\* The main working copy is reset to a commit that was on the branch.
LEMMA HeadMoves ==
  ASSUME DataInv, NEW c \in published, ResetsTo(c),
         UNCHANGED <<commits, remote, published, pending, completed, misfiled, back>>,
         FilesOK', PendingOK', PushPendingIsKept', ~back /\ head # 0 => head \in Anc(c)
  PROVE  DataInv'
<1>1. head' = c /\ shown' = shown \cup {c}
  BY DEF ResetsTo
<1>2. c \in 1..N /\ c # 0
  BY Published DEF DataInv
<1>3. GraphOK' /\ OnceEach' /\ BranchOK' /\ Fresh'
  BY <1>1, <1>2 DEF DataInv, GraphOK, OnceEach, BranchOK, Fresh, N, Anc
<1>4. Recorded'
  BY DEF DataInv, Recorded
<1>5. ~back => \A r \in Request : completed[r].out = "COMMITTED" => completed[r].commit \in Anc(c)
  <2> SUFFICES ASSUME ~back, NEW r \in Request, completed[r].out = "COMMITTED"
               PROVE  completed[r].commit \in Anc(c)
    OBVIOUS
  <2>1. head # 0 /\ completed[r].commit \in Anc(head)
    BY DEF DataInv, DataForward, Fresh
  <2>2. Anc(head) \subseteq Anc(c)
    BY <1>2, <2>1, Older DEF DataInv
  <2> QED
    BY <2>1, <2>2
<1>6. DataForward'
  BY <1>1, <1>5 DEF DataInv, DataForward, Beyond, Anc
<1> QED
  BY <1>3, <1>4, <1>6 DEF DataInv

LEMMA EnsureKeeps ==
  ASSUME WsInv, EnsureRepository
  PROVE  WsInv'
<1>1. /\ UNCHANGED <<commits, remote, published, wt, pending, completed, misfiled, back, dirty,
                     lock, state>>
      /\ op.pc = "ensure" /\ op \in OpRow /\ ~op.own
  BY DEF EnsureRepository, gitVars, fileVars, ghostVars, WsInv, OpInv, TxnOK
<1>2. CASE Ends(FALSE, "error") /\ UNCHANGED headVars
  <2>1. UNCHANGED <<dataVars, dirty, lock>> /\ state' \in WorkspaceState
    BY <1>1, <1>2 DEF dataVars, headVars, WsInv, DataInv, FilesOK
  <2> QED
    BY <1>1, <1>2, <2>1, EndsKeeps, NotHeard
<1>3. CASE /\ IF head = 0 THEN ResetsTo(remote) ELSE UNCHANGED headVars
           /\ Goes("recover") /\ UNCHANGED <<runtime, told, left>>
  <2>1. /\ op' \in OpRow /\ op'.pc = "recover" /\ op'.kind = op.kind /\ op'.req = op.req
        /\ op'.base = op.base /\ op'.own = op.own /\ op'.seen = op.seen
    BY <1>1, <1>3, GoesFields DEF Pc
  <2>2. shown \subseteq shown'
    BY <1>3 DEF ResetsTo, headVars
  <2>3. OpInv'
    BY <1>1, <1>3, <2>1, <2>2
       DEF WsInv, OpInv, TxnOK, StageOK, CloseOK, OpForward, Beyond, Anc
  <2>4. CASE head = 0
    <3>1. pending = None /\ remote \in published
      BY <2>4 DEF WsInv, DataInv, Fresh, BranchOK
    <3>2. FilesOK' /\ PendingOK' /\ PushPendingIsKept'
      BY <1>1, <1>3, <3>1
         DEF WsInv, DataInv, FilesOK, PendingOK, Recorded, PushPendingIsKept, N
    <3>3. DataInv'
      BY <1>1, <1>3, <2>4, <3>1, <3>2, HeadMoves DEF WsInv
    <3> QED
      BY <1>1, <2>3, <3>1, <3>3 DEF WsInv, Unseen
  <2>5. CASE head # 0
    BY <1>1, <1>3, <2>1, <2>3, <2>5, RowKeeps
       DEF dataVars, headVars, WsInv, DataInv, FilesOK
  <2> QED
    BY <2>4, <2>5
<1> QED
  BY <1>2, <1>3 DEF EnsureRepository

\* The commit of a pending record that recovery has seen on the branch, or that
\* was just pushed, is on what HEAD is reset to.
LEMMA FinalizeKeeps ==
  ASSUME WsInv, FinalizePending
  PROVE  WsInv'
<1>1. /\ UNCHANGED <<commits, remote, published, wt, pending, completed, back, dirty, lock>>
      /\ op.pc = "finalize" /\ op \in OpRow
      /\ pending # None /\ pending = op.rec /\ op.rec.commit \in published
      /\ RecOK(op.rec)
  BY DEF FinalizePending, gitVars, fileVars, WsInv, DataInv, PendingOK, OpInv, StageOK
<1>2. CASE FinalizeThrows /\ UNCHANGED headVars
  <2>1. CASE /\ op' = [op EXCEPT !.pc = "close", !.out = "STALE_REVISION", !.step = 1]
             /\ misfiled' = misfiled \cup {op.rec.req}
             /\ UNCHANGED <<state, runtime, told>>
    <3>1. /\ op' \in OpRow /\ op'.pc = "close" /\ op'.kind = op.kind /\ op'.req = op.req
          /\ op'.base = op.base /\ op'.rec = op.rec /\ op'.own = op.own
          /\ op'.seen = op.seen /\ op'.out = "STALE_REVISION" /\ op'.step = 1
      BY <1>1, <2>1, CloseFields
    <3>2. UNCHANGED <<head, shown>> /\ op.rec.req \in Request
      BY <1>1, <1>2 DEF headVars, RecOK, PendingTransaction
    <3>3. GraphOK' /\ OnceEach' /\ BranchOK' /\ Fresh'
      BY <1>1, <3>2 DEF WsInv, DataInv, GraphOK, OnceEach, BranchOK, Fresh, N, Anc
    <3>4. FilesOK' /\ PendingOK' /\ Recorded'
      BY <1>1, <2>1, <3>2 DEF WsInv, DataInv, FilesOK, PendingOK, PendingIsPushable, Recorded,
         PushPendingIsKept, RecOK, N, Anc
    <3>5. DataForward'
      BY <1>1, <2>1, <3>2 DEF WsInv, DataInv, DataForward, Beyond, Anc
    <3>6. TxnOK' /\ StageOK'
      BY <1>1, <3>1, <3>2 DEF WsInv, OpInv, TxnOK, StageOK, Anc
    <3>7. CloseOK'
      BY <1>1, <3>1 DEF CloseOK, RecOK, Anc, N
    <3>8. OpForward'
      BY <1>1, <2>1, <3>1, <3>2 DEF WsInv, OpInv, OpForward, Beyond, Anc
    <3> QED
      BY <3>1, <3>3, <3>4, <3>5, <3>6, <3>7, <3>8 DEF WsInv, DataInv, OpInv, Unseen
  <2>2. CASE UNCHANGED misfiled /\ ~op.own /\ PushFails
    <3>1. Ends(FALSE, "error") /\ state' \in WorkspaceState
      BY <2>2 DEF PushFails, WorkspaceState
    <3>2. UNCHANGED <<dataVars, dirty, lock>>
      BY <1>1, <1>2, <2>2 DEF dataVars, headVars
    <3> QED
      BY <1>1, <3>1, <3>2, EndsKeeps, NotHeard
  <2>3. CASE Ends(FALSE, "error") /\ UNCHANGED <<state, misfiled>>
    <3>1. UNCHANGED <<dataVars, dirty, lock>> /\ state' \in WorkspaceState
      BY <1>1, <1>2, <2>3 DEF dataVars, headVars, WsInv, DataInv, FilesOK
    <3> QED
      BY <1>1, <2>3, <3>1, EndsKeeps, NotHeard
  <2> QED
    BY <1>2, <2>1, <2>2, <2>3 DEF FinalizeThrows
<1>3. CASE /\ ResetsTo(ResetTarget) /\ UNCHANGED <<state, runtime, told, misfiled, left>>
           /\ op' = [op EXCEPT !.pc = "close", !.out = "COMMITTED", !.step = 1]
  <2> DEFINE t == ResetTarget
  <2>1. /\ op' \in OpRow /\ op'.pc = "close" /\ op'.kind = op.kind /\ op'.req = op.req
        /\ op'.base = op.base /\ op'.rec = op.rec /\ op'.own = op.own
        /\ op'.seen = op.seen /\ op'.out = "COMMITTED" /\ op'.step = 1
    BY <1>1, <1>3, CloseFields
  <2>2. t \in published
    BY DEF ResetTarget, WsInv, DataInv, BranchOK, OpInv, TxnOK
  <2>3. op.own /\ op.seen # 0 => ~Landed(op.seen)
    <3> SUFFICES ASSUME op.own, op.seen # 0, Landed(op.seen) PROVE FALSE
      OBVIOUS
    <3>1. op.seen \in 1..N /\ op.rec.commit \in Anc(op.seen) /\ op.seen < op.rec.commit
      BY Published DEF Landed, WsInv, DataInv, OpInv, TxnOK
    <3>2. op.rec.commit <= op.seen /\ op.rec.commit \in Nat
      BY <3>1, Older DEF WsInv, DataInv
    <3> QED
      BY <3>1, <3>2
  <2>4. ~back => op.rec.commit \in Anc(t) /\ head \in Anc(t)
    <3> SUFFICES ASSUME ~back PROVE op.rec.commit \in Anc(t) /\ head \in Anc(t)
      OBVIOUS
    <3>1. CASE op.seen # op.rec.commit /\ op.seen # 0 /\ Landed(op.seen)
      BY <1>1, <2>3, <3>1 DEF ResetTarget, Landed, WsInv, OpInv, OpForward
    <3>2. CASE ~(op.seen # op.rec.commit /\ op.seen # 0 /\ Landed(op.seen))
      <4>1. t = remote
        BY <3>2 DEF ResetTarget
      <4>2. head \in published /\ published \subseteq Anc(remote)
        BY <1>1 DEF WsInv, DataInv, BranchOK, Fresh
      <4> QED
        BY <1>1, <4>1, <4>2
    <3> QED
      BY <3>1, <3>2
  <2>5. head' = t /\ shown' = shown \cup {t}
    BY <1>3 DEF ResetsTo
  <2> HIDE DEF t
  <2>6. FilesOK' /\ PendingOK' /\ PushPendingIsKept'
    BY <1>1, <1>3 DEF WsInv, DataInv, FilesOK, PendingOK, PendingIsPushable, Recorded,
       PushPendingIsKept, RecOK, N, Anc
  <2>7. DataInv'
    BY <1>1, <1>3, <2>2, <2>4, <2>5, <2>6, HeadMoves DEF WsInv, ResetsTo
  <2>8. TxnOK' /\ StageOK'
    BY <1>1, <2>1, <2>5 DEF WsInv, OpInv, TxnOK, StageOK, Anc
  <2>9. CloseOK'
    BY <1>1, <2>1 DEF CloseOK, RecOK, Anc, N
  <2>10. OpForward'
    BY <1>1, <1>3, <2>1, <2>4, <2>5 DEF WsInv, OpInv, OpForward, Beyond, Anc
  <2> QED
    BY <2>1, <2>7, <2>8, <2>9, <2>10 DEF WsInv, OpInv, Unseen
<1> QED
  BY <1>2, <1>3 DEF FinalizePending

-----------------------------------------------------------------------------
(***************************************************************************)
(* Ending a pending transaction: record, unlink, discard.                  *)
(***************************************************************************)
LEMMA PrunedType ==
  ASSUME FilesOK, N \in Nat, NEW r \in Request
  PROVE  /\ Pruned(wt) \in [Request -> [reg : BOOLEAN, at : 0..N]]
         /\ Pruned([wt EXCEPT ![r] = NoWt]) \in [Request -> [reg : BOOLEAN, at : 0..N]]
<1>1. NoWt \in [reg : BOOLEAN, at : 0..N]
  BY DEF NoWt
<1>2. [wt EXCEPT ![r] = NoWt] \in [Request -> [reg : BOOLEAN, at : 0..N]]
  BY <1>1 DEF FilesOK
<1> QED
  BY <1>1, <1>2 DEF Pruned, FilesOK

\* A worktree that is not the one of a pending record.
LEMMA WtMoves ==
  ASSUME DataInv, pending = None, wt' \in [Request -> [reg : BOOLEAN, at : 0..N]], Typed',
         UNCHANGED <<commits, remote, published, head, shown, pending, completed, misfiled, back,
                     told>>
  PROVE  DataInv'
<1>1. GraphOK' /\ OnceEach' /\ BranchOK' /\ Fresh'
  BY DEF DataInv, GraphOK, OnceEach, BranchOK, Fresh, N, Anc
<1>2. FilesOK' /\ PendingOK'
  BY DEF DataInv, FilesOK, PendingOK, Typed, N
<1>3. Recorded' /\ DataForward'
  BY DEF DataInv, Recorded, PushPendingIsKept, DataForward, Beyond, Anc
<1> QED
  BY <1>1, <1>2, <1>3 DEF DataInv

\* What is recorded of a request that was recorded before is the same.
LEMMA RecordKeeps ==
  ASSUME WsInv, op.pc = "close", op.step = 1,
         completed' = [completed EXCEPT ![op.rec.req] = [out |-> op.out, commit |-> op.rec.commit]],
         UNCHANGED <<commits, remote, published, head, shown, wt, pending, misfiled, back, told,
                     dirty, lock, runtime, state>>
  PROVE  DataInv'
<1> DEFINE r == op.rec.req
<1>1. /\ RecOK(op.rec) /\ op.out \in {"COMMITTED", "STALE_REVISION"}
      /\ op.out = "COMMITTED" => op.rec.commit \in published
      /\ pending # None /\ pending = op.rec
  BY DEF WsInv, OpInv, CloseOK, OpRow
<1>2. r \in Request /\ op.rec.commit \in 1..N /\ op.rec.commit \in Commit
  BY <1>1 DEF RecOK, PendingTransaction
<1>3. commits[op.rec.commit].req = r
  BY <1>1 DEF RecOK
<1> DEFINE row == [out |-> op.out, commit |-> op.rec.commit]
<1>4. row \in CompletedTransaction /\ row.out = op.out /\ row.commit = op.rec.commit
  BY <1>1, <1>2 DEF CompletedTransaction
<1> HIDE DEF row
<1>5. /\ completed'[r] = row
      /\ \A q \in Request : q # r => completed'[q] = completed[q]
      /\ completed' \in [Request -> CompletedTransaction]
  BY <1>2, <1>4 DEF row, WsInv, DataInv, FilesOK
<1>6. GraphOK' /\ OnceEach' /\ BranchOK' /\ Fresh'
  BY <1>1 DEF WsInv, DataInv, GraphOK, OnceEach, BranchOK, Fresh, N, Anc
<1>7. FilesOK' /\ PendingOK'
  BY <1>5 DEF WsInv, DataInv, FilesOK, PendingOK, PendingIsPushable, RecOK, N, Anc
<1>8. Recorded'
  <2>1. \A q \in Request : completed'[q].out = "COMMITTED" => completed'[q].commit \in published
    BY <1>1, <1>4, <1>5 DEF WsInv, DataInv, Recorded
  <2>2. \A q \in Request : completed'[q].out = "none" => completed[q].out = "none"
    BY <1>1, <1>4, <1>5
  <2>3. \A c \in published : commits[c].req \in Request \cup {None}
    BY CommitTypes DEF WsInv, DataInv
  <2>4. PushPendingIsKept'
    BY <2>2 DEF PushPendingIsKept, WsInv, DataInv, Recorded, FilesOK
  <2> QED
    BY <2>1, <2>2, <2>3, <2>4 DEF Recorded, WsInv, DataInv
<1>9. DataForward'
  <2> SUFFICES ASSUME ~back
               PROVE  DataForward'
    BY DEF DataForward
  <2>1. \A q \in Request : completed'[q].out = "COMMITTED" => completed'[q].commit \in Anc(head)
    BY <1>4, <1>5 DEF WsInv, DataInv, DataForward, OpInv, OpForward
  <2>2. r \notin misfiled /\ completed[r].out = "STALE_REVISION" => op.out = "STALE_REVISION"
    BY <1>1, <1>2, <1>3 DEF WsInv, DataInv, DataForward
  <2>3. r \notin misfiled /\ op.out = "STALE_REVISION" => \A c \in published : commits[c].req # r
    <3> SUFFICES ASSUME r \notin misfiled, op.out = "STALE_REVISION",
                        NEW c \in published, commits[c].req = r
                 PROVE  FALSE
      OBVIOUS
    <3>1. op.rec.commit \notin published
      BY DEF WsInv, OpInv, OpForward
    <3>2. r # None
      BY <1>2, WorkspaceAssumption
    <3>3. completed[r].out # "none"
      BY <1>1, <3>1, <3>2 DEF WsInv, DataInv, Recorded
    <3>4. /\ completed[r].out \in {"COMMITTED", "STALE_REVISION"}
          /\ completed[r].commit = op.rec.commit
      BY <1>1, <3>3 DEF WsInv, DataInv, DataForward
    <3>5. completed[r].out # "COMMITTED"
      BY <1>2, <3>1, <3>4 DEF WsInv, DataInv, Recorded
    <3> QED
      BY <1>2, <3>4, <3>5 DEF WsInv, DataInv, DataForward
  <2>4. \A q \in Request \ misfiled :
          completed'[q].out = "STALE_REVISION" => \A c \in published : commits[c].req # q
    BY <1>4, <1>5, <2>2, <2>3 DEF WsInv, DataInv, DataForward
  <2>5. op.out = "COMMITTED" \/ r \in misfiled \/ Beyond(op.rec.base)
    BY <1>1 DEF WsInv, OpInv, OpForward
  <2> QED
    BY <1>1, <1>4, <1>5, <2>1, <2>4, <2>5 DEF DataForward, Beyond, Anc
<1> QED
  BY <1>6, <1>7, <1>8, <1>9 DEF DataInv

LEMMA StepFields ==
  ASSUME op \in OpRow, op.step \in 1..2, op' = [op EXCEPT !.step = @ + 1]
  PROVE  /\ op' \in OpRow /\ op'.pc = op.pc /\ op'.kind = op.kind /\ op'.req = op.req
         /\ op'.base = op.base /\ op'.rec = op.rec /\ op'.own = op.own
         /\ op'.seen = op.seen /\ op'.out = op.out /\ op'.step = op.step + 1
<1>1. op.step + 1 \in 0..3
  OBVIOUS
<1>2. op' \in OpRow
  BY <1>1 DEF OpRow
<1>3. /\ op'.pc = op.pc /\ op'.kind = op.kind /\ op'.req = op.req
      /\ op'.base = op.base /\ op'.rec = op.rec /\ op'.own = op.own
      /\ op'.seen = op.seen /\ op'.out = op.out /\ op'.step = op.step + 1
  BY DEF OpRow
<1> QED
  BY <1>2, <1>3

LEMMA CloseKeeps ==
  ASSUME WsInv, ClosePending
  PROVE  WsInv'
<1> DEFINE r == op.rec.req
<1>1. /\ UNCHANGED <<commits, remote, published, head, shown, dirty, lock, misfiled, back>>
      /\ op.pc = "close" /\ op \in OpRow /\ op.step \in 1..3 /\ RecOK(op.rec)
      /\ op.out \in {"COMMITTED", "STALE_REVISION"}
  BY DEF ClosePending, gitVars, headVars, ghostVars, WsInv, OpInv, CloseOK, OpRow
<1>2. r \in Request /\ op.rec.commit \in Commit
  BY <1>1 DEF RecOK, PendingTransaction
<1>3. CASE op.step = 1
  <2>1. /\ completed' = [completed EXCEPT ![r] = [out |-> op.out, commit |-> op.rec.commit]]
        /\ UNCHANGED <<pending, wt, state, runtime, told>>
        /\ op' = [op EXCEPT !.step = @ + 1]
    BY <1>3 DEF ClosePending, Closing
  <2>2. /\ op' \in OpRow /\ op'.pc = op.pc /\ op'.kind = op.kind /\ op'.req = op.req
        /\ op'.base = op.base /\ op'.rec = op.rec /\ op'.own = op.own
        /\ op'.seen = op.seen /\ op'.out = op.out /\ op'.step = 2
    BY <1>1, <1>3, <2>1, StepFields
  <2>3. DataInv'
    BY <1>1, <1>3, <2>1, RecordKeeps
  <2>4. /\ completed'[r].out = op.out /\ completed'[r].commit = op.rec.commit
        /\ \A q \in Request : q # r => completed'[q] = completed[q]
    BY <1>2, <2>1 DEF WsInv, DataInv, FilesOK
  <2>5. pending # None /\ pending = op.rec
    BY <1>1, <1>3 DEF WsInv, OpInv, CloseOK
  <2>6. TxnOK' /\ StageOK'
    BY <1>1, <2>1, <2>2 DEF WsInv, OpInv, TxnOK, StageOK, Anc
  <2>7. CloseOK'
    BY <1>1, <2>1, <2>2, <2>4, <2>5 DEF WsInv, OpInv, CloseOK, RecOK, Anc, N
  <2>8. ~back /\ op.kind = "txn" /\ ~op.own /\ completed'[op.req].out # "none" => Beyond(op.base)
    <3> SUFFICES ASSUME ~back, op.kind = "txn", ~op.own, completed'[op.req].out # "none"
                 PROVE  Beyond(op.base)
      OBVIOUS
    <3>1. op.req \in Request /\ \A c \in Anc(op.base) : commits[c].req # op.req
      BY DEF WsInv, OpInv, TxnOK
    <3>2. CASE op.req # r
      BY <2>4, <3>1, <3>2 DEF WsInv, OpInv, OpForward
    <3>3. CASE op.req = r /\ op.rec.commit \in published
      <4>1. commits[op.rec.commit].req = r
        BY <1>1 DEF RecOK
      <4> QED
        BY <3>1, <3>3, <4>1 DEF Beyond
    <3>4. CASE Beyond(op.rec.base)
      <4>1. op.base \in Anc(op.rec.base) /\ op.rec.base \in 1..N
        BY <1>1, <2>5, Published DEF WsInv, DataInv, OpInv, OpForward, RecOK
      <4>2. Anc(op.base) \subseteq Anc(op.rec.base)
        BY <4>1, Older DEF WsInv, DataInv
      <4> QED
        BY <3>4, <4>2 DEF Beyond
    <3>5. op.rec.commit \in published \/ Beyond(op.rec.base)
      BY <1>1 DEF WsInv, OpInv, CloseOK, OpForward
    <3> QED
      BY <3>2, <3>3, <3>4, <3>5
  <2>9. OpForward'
    BY <1>1, <2>1, <2>2, <2>8 DEF WsInv, OpInv, OpForward, Beyond, Anc
  <2> QED
    BY <1>1, <2>2, <2>3, <2>6, <2>7, <2>9 DEF WsInv, OpInv, Unseen
<1>4. CASE op.step = 2
  <2>1. /\ pending' = None
        /\ UNCHANGED <<completed, wt, state, runtime, told>>
        /\ op' = [op EXCEPT !.step = @ + 1]
    BY <1>4 DEF ClosePending, Closing
  <2>2. /\ op' \in OpRow /\ op'.pc = op.pc /\ op'.kind = op.kind /\ op'.req = op.req
        /\ op'.base = op.base /\ op'.rec = op.rec /\ op'.own = op.own
        /\ op'.seen = op.seen /\ op'.out = op.out /\ op'.step = 3
    BY <1>1, <1>4, <2>1, StepFields
  <2>3. /\ pending # None /\ pending = op.rec /\ completed[r].out = op.out
        /\ commits[pending.commit].req = r
    BY <1>1, <1>4 DEF WsInv, OpInv, CloseOK, RecOK
  <2>4. GraphOK' /\ OnceEach' /\ BranchOK' /\ Fresh'
    BY <1>1, <2>1 DEF WsInv, DataInv, GraphOK, OnceEach, BranchOK, Fresh, N, Anc
  <2>5. FilesOK' /\ PendingOK'
    BY <1>1, <2>1 DEF WsInv, DataInv, FilesOK, PendingOK, N
  <2>6. Recorded'
    BY <1>1, <2>1, <2>3 DEF WsInv, DataInv, Recorded, PushPendingIsKept
  <2>7. DataForward'
    BY <1>1, <2>1 DEF WsInv, DataInv, DataForward, Anc
  <2>8. TxnOK' /\ StageOK'
    BY <1>1, <2>1, <2>2 DEF WsInv, OpInv, TxnOK, StageOK, Anc
  <2>9. CloseOK'
    BY <1>1, <1>4, <2>1, <2>2 DEF WsInv, OpInv, CloseOK, RecOK, Anc, N
  <2>10. OpForward'
    BY <1>1, <2>1, <2>2 DEF WsInv, OpInv, OpForward, Beyond, Anc
  <2> QED
    BY <2>1, <2>2, <2>4, <2>5, <2>6, <2>7, <2>8, <2>9, <2>10
       DEF WsInv, DataInv, OpInv, Unseen
<1>5. CASE op.step = 3
  <2>1. discardWorktree(r) /\ UNCHANGED <<completed, pending>> /\ Closed
    BY <1>5 DEF ClosePending, Closing
  <2>2. /\ pending = None /\ pending' = None /\ completed[r].out = op.out
        /\ wt' \in [Request -> [reg : BOOLEAN, at : 0..N]]
    <3>1. N \in Nat /\ FilesOK
      BY Published DEF WsInv, DataInv
    <3>2. wt' = Pruned([wt EXCEPT ![r] = NoWt])
      BY <2>1 DEF discardWorktree
    <3>3. wt' \in [Request -> [reg : BOOLEAN, at : 0..N]]
      BY <1>2, <3>1, <3>2, PrunedType
    <3> QED
      BY <1>1, <1>5, <2>1, <3>3 DEF WsInv, OpInv, CloseOK
  <2>3. CASE op.own /\ op.out = "COMMITTED"
    <3>1. state' = "READY" /\ Ends(TRUE, "COMMITTED")
      BY <2>1, <2>3 DEF Closed
    <3>2. op' = NoOp /\ runtime' \in {"none", "init", "ready"} /\ told' = told
      BY <3>1, EndsFacts, NotHeard DEF WsInv, DataInv
    <3>3. DataInv'
      BY <1>1, <2>1, <2>2, <3>1, <3>2, WtMoves
         DEF WsInv, DataInv, FilesOK, Typed, WorkspaceState
    <3> QED
      BY <2>2, <3>2, <3>3, IdleInv DEF WsInv, Unseen
  <2>4. CASE ~(op.own /\ op.out = "COMMITTED")
    <3>1. Goes("sync") /\ UNCHANGED <<runtime, told>> /\ state' \in WorkspaceState
      BY <2>1, <2>4 DEF Closed, WsInv, DataInv, FilesOK, WorkspaceState
    <3>2. /\ op' \in OpRow /\ op'.pc = "sync" /\ op'.kind = op.kind /\ op'.req = op.req
          /\ op'.base = op.base /\ op'.rec = op.rec /\ op'.own = op.own
          /\ op'.seen = op.seen /\ op'.out = op.out
      BY <1>1, <3>1, GoesFields DEF Pc
    <3>3. DataInv'
      BY <1>1, <2>1, <2>2, <3>1, WtMoves DEF WsInv, DataInv, FilesOK, Typed
    <3>4. TxnOK' /\ CloseOK'
      BY <1>1, <2>2, <3>2 DEF WsInv, OpInv, TxnOK, CloseOK, Anc
    <3>5. StageOK'
      BY <1>1, <2>1, <2>2, <2>4, <3>2 DEF WsInv, OpInv, TxnOK, StageOK
    <3>6. OpForward'
      BY <1>1, <2>1, <2>2, <3>2 DEF WsInv, OpInv, OpForward, Beyond, Anc
    <3> QED
      BY <2>2, <3>2, <3>3, <3>4, <3>5, <3>6 DEF WsInv, OpInv, Unseen
  <2> QED
    BY <2>3, <2>4
<1> QED
  BY <1>1, <1>3, <1>4, <1>5

-----------------------------------------------------------------------------
(***************************************************************************)
(* syncCleanWorkspace, the worktree and the commit.                        *)
(***************************************************************************)
\* A transaction goes on only from the branch as it is: HEAD has been nowhere
\* beyond its base, and no one has settled its request.
LEMMA SyncKeeps ==
  ASSUME WsInv, SyncCleanWorkspace
  PROVE  WsInv'
<1>1. /\ UNCHANGED <<commits, remote, published, pending, completed, dirty, lock, misfiled, back>>
      /\ op.pc = "sync" /\ op \in OpRow /\ pending = None
      /\ op.own => completed[op.req].out = "STALE_REVISION" /\ op.req \in Request
  BY DEF SyncCleanWorkspace, gitVars, ghostVars, WsInv, OpInv, StageOK, TxnOK
<1>2. CASE Ends(FALSE, "error") /\ UNCHANGED <<headVars, state, wt>>
  <2>1. UNCHANGED <<dataVars, dirty, lock>> /\ state' \in WorkspaceState
    BY <1>1, <1>2 DEF dataVars, headVars, WsInv, DataInv, FilesOK
  <2> QED
    BY <1>1, <1>2, <2>1, EndsKeeps, NotHeard
<1>3. CASE /\ SyncClean
           /\ IF op.kind # "txn" THEN Ends(TRUE, "ok")
              ELSE IF op.own \/ remote # op.base THEN Ends(FALSE, "STALE_REVISION")
              ELSE Goes("worktree") /\ UNCHANGED <<runtime, told>>
  <2>1. /\ ResetsTo(remote) /\ state' = "READY" /\ head' = remote
        /\ shown' = shown \cup {remote}
    BY <1>3 DEF SyncClean, ResetsTo
  <2>2. wt' \in [Request -> [reg : BOOLEAN, at : 0..N]]
    <3>1. N \in Nat /\ FilesOK
      BY Published DEF WsInv, DataInv
    <3>2. \A r \in Request : Pruned(wt) \in [Request -> [reg : BOOLEAN, at : 0..N]]
      BY <3>1, PrunedType
    <3>3. Request = {} => Pruned(wt) = wt
      BY <3>1 DEF Pruned, FilesOK
    <3>4. wt' = wt \/ wt' = Pruned(wt)
      BY <1>3 DEF SyncClean
    <3>5. wt \in [Request -> [reg : BOOLEAN, at : 0..N]]
      BY <3>1 DEF FilesOK
    <3> QED
      BY <3>2, <3>3, <3>4, <3>5
  <2>3. ASSUME runtime' \in {"none", "init", "ready"}, told' \in ToldRow,
               told'.PUSH_PENDING = told.PUSH_PENDING
        PROVE  DataInv' /\ Unseen'
    <3>1. FilesOK'
      BY <1>1, <2>1, <2>2, <2>3 DEF WsInv, DataInv, FilesOK, WorkspaceState, N
    <3>2. PendingOK' /\ PushPendingIsKept' /\ Unseen'
      BY <1>1, <2>3 DEF PendingOK, WsInv, DataInv, Recorded, PushPendingIsKept, Unseen
    <3>3. remote \in published /\ (~back /\ head # 0 => head \in Anc(remote))
      BY Published DEF WsInv, DataInv, BranchOK
    <3> QED
      BY <1>1, <2>1, <2>3, <3>1, <3>2, <3>3, HeadMoves DEF WsInv
  <2>4. /\ told \in ToldRow
        /\ FilesOK /\ runtime \in {"none", "init", "ready"}
    BY DEF WsInv, DataInv, FilesOK
  <2>5. CASE Ends(TRUE, "ok")
    <3>1. op' = NoOp /\ runtime' \in {"none", "init", "ready"} /\ told' = told
      BY <2>4, <2>5, EndsFacts, NotHeard
    <3> QED
      BY <2>3, <2>4, <3>1, IdleInv DEF WsInv
  <2>6. CASE op.kind = "txn" /\ Ends(FALSE, "STALE_REVISION")
    <3>1. op' = NoOp /\ runtime' \in {"none", "init", "ready"}
      BY <2>4, <2>6, EndsFacts
    <3>2. PICK what : what = "STALE_REVISION"
      OBVIOUS
    <3>3. told' = Hears(what, op.req) /\ op.req \in Request
      BY <2>6, <3>2 DEF Ends, WsInv, OpInv, TxnOK
    <3>4. told' \in ToldRow /\ told'.PUSH_PENDING = told.PUSH_PENDING
      BY <2>4, <3>2, <3>3, HearsFacts
    <3> QED
      BY <2>3, <3>1, <3>4, IdleInv DEF WsInv
  <2>7. CASE /\ op.kind = "txn" /\ ~op.own /\ remote = op.base /\ Goes("worktree")
             /\ UNCHANGED <<runtime, told>>
    <3>1. /\ op' \in OpRow /\ op'.pc = "worktree" /\ op'.kind = op.kind /\ op'.req = op.req
          /\ op'.base = op.base /\ op'.rec = op.rec /\ op'.own = op.own
          /\ op'.seen = op.seen
      BY <1>1, <2>7, GoesFields DEF Pc
    <3>2. TxnOK' /\ StageOK' /\ CloseOK'
      BY <1>1, <2>1, <2>7, <3>1 DEF WsInv, OpInv, TxnOK, StageOK, CloseOK, Anc
    <3>3. ~back => completed[op.req].out = "none" /\ shown' \subseteq Anc(op.base)
      BY <2>1, <2>7, Published DEF Beyond, WsInv, DataInv, BranchOK, OpInv, OpForward
    <3>4. OpForward'
      BY <1>1, <2>7, <3>1, <3>3 DEF WsInv, OpInv, OpForward, Beyond, Anc
    <3> QED
      BY <2>3, <2>4, <2>7, <3>1, <3>2, <3>4 DEF WsInv, OpInv
  <2> QED
    BY <1>3, <2>5, <2>6, <2>7
<1> QED
  BY <1>1, <1>2, <1>3 DEF SyncCleanWorkspace

LEMMA AddWorktreeKeeps ==
  ASSUME WsInv, AddWorktree
  PROVE  WsInv'
<1>1. /\ UNCHANGED <<commits, remote, published, head, shown, pending, completed, dirty, lock,
                     state, misfiled, back>>
      /\ op.pc = "worktree" /\ op \in OpRow /\ pending = None /\ ~op.own
      /\ op.kind = "txn" /\ op.req \in Request /\ op.base \in shown
  BY DEF AddWorktree, gitVars, headVars, ghostVars, WsInv, OpInv, StageOK, TxnOK
<1>2. wt' \in [Request -> [reg : BOOLEAN, at : 0..N]]
  <2>1. N \in Nat /\ wt \in [Request -> [reg : BOOLEAN, at : 0..N]] /\ op.base \in 0..N
    BY <1>1, Published DEF WsInv, DataInv, FilesOK
  <2>2. [wt[op.req] EXCEPT !.at = 0] \in [reg : BOOLEAN, at : 0..N]
    BY <1>1, <2>1
  <2>3. [reg |-> TRUE, at |-> op.base] \in [reg : BOOLEAN, at : 0..N]
    BY <2>1
  <2>4. \/ wt' = [wt EXCEPT ![op.req].at = 0]
        \/ wt' = [wt EXCEPT ![op.req] = [reg |-> TRUE, at |-> op.base]]
    BY DEF AddWorktree
  <2> QED
    BY <1>1, <2>1, <2>2, <2>3, <2>4
<1>3. CASE Ends(FALSE, "error")
  <2>1. op' = NoOp /\ runtime' \in {"none", "init", "ready"} /\ told' = told
    BY <1>3, EndsFacts, NotHeard DEF WsInv, DataInv
  <2>2. DataInv'
    BY <1>1, <1>2, <2>1, WtMoves DEF WsInv, DataInv, FilesOK, Typed
  <2> QED
    BY <1>1, <2>1, <2>2, IdleInv DEF WsInv, Unseen
<1>4. CASE Goes("edit") /\ UNCHANGED <<runtime, told>> /\ wt'[op.req].reg = TRUE
  <2>1. /\ op' \in OpRow /\ op'.pc = "edit" /\ op'.kind = op.kind /\ op'.req = op.req
        /\ op'.base = op.base /\ op'.rec = op.rec /\ op'.own = op.own
        /\ op'.seen = op.seen
    BY <1>1, <1>4, GoesFields DEF Pc
  <2>2. DataInv'
    BY <1>1, <1>2, <1>4, WtMoves DEF WsInv, DataInv, FilesOK, Typed
  <2>3. TxnOK' /\ StageOK' /\ CloseOK'
    BY <1>1, <1>4, <2>1 DEF WsInv, OpInv, TxnOK, StageOK, CloseOK, Anc
  <2>4. OpForward'
    BY <1>1, <2>1 DEF WsInv, OpInv, OpForward, Beyond, Anc
  <2> QED
    BY <1>1, <2>1, <2>2, <2>3, <2>4 DEF WsInv, OpInv, Unseen
<1>5. ~wt[op.req].reg => wt'[op.req].reg = TRUE
  BY <1>1 DEF AddWorktree, WsInv, DataInv, FilesOK
<1> QED
  BY <1>3, <1>4, <1>5 DEF AddWorktree

\* A commit is made on a base whose history does not hold its request.
LEMMA NewCommit ==
  ASSUME GraphOK, OnceEach, NEW q \in Request \cup {None}, NEW b \in 1..N, N < MaxCommits,
         commits' = Append(commits, NextCommit(q, b)),
         q = None \/ \A c \in Anc(b) : commits[c].req # q
  PROVE  /\ N' = N + 1 /\ GraphOK' /\ OnceEach'
         /\ \A c \in 1..N : commits'[c] = commits[c]
         /\ commits'[N + 1].anc = Anc(b) \cup {N + 1} /\ commits'[N + 1].req = q
<1>1. N \in Nat \ {0} /\ N + 1 \in Commit /\ commits \in Seq(CommitRow) /\ MaxCommits \in Nat
  BY WorkspaceAssumption DEF GraphOK, Commit
<1> DEFINE k == N + 1
<1> DEFINE new == NextCommit(q, b)
<1>2. Anc(b) \subseteq 1..b /\ b \in Anc(b) /\ \A d \in Anc(b) : Anc(d) \subseteq Anc(b)
  BY DEF GraphOK
<1>3. /\ new \in CommitRow /\ new.anc = Anc(b) \cup {k} /\ new.req = q
  BY <1>1, <1>2 DEF NextCommit, CommitRow, Commit, N
<1> HIDE DEF new
<1>4. commits' = Append(commits, new)
  BY DEF new
<1>5. /\ N' = k /\ commits' \in Seq(CommitRow) /\ commits'[k] = new
      /\ \A c \in 1..N : commits'[c] = commits[c]
  BY <1>1, <1>3, <1>4 DEF N
<1>6. \A c \in 1..N' : c \in 1..N \/ c = k
  BY <1>1, <1>5
<1>7. /\ \A c \in 1..N : commits'[c].anc = Anc(c) /\ Anc(c) \subseteq 1..N
      /\ commits'[k].anc = Anc(b) \cup {k} /\ k \notin 1..N
  <2>1. \A c \in 1..N : commits'[c].anc = Anc(c)
    BY <1>5 DEF Anc
  <2>2. \A c \in 1..N : \A d \in Anc(c) : d \in 1..N
    BY Older
  <2>3. k \notin 1..N
    BY <1>1
  <2> HIDE DEF k
  <2> QED
    BY <1>3, <1>5, <2>1, <2>2, <2>3
<1>8. GraphOK'
  <2>1. \A c \in 1..N' : c \in commits'[c].anc /\ commits'[c].anc \subseteq 1..c
    <3>1. \A c \in 1..N : c \in Anc(c) /\ Anc(c) \subseteq 1..c
      BY DEF GraphOK
    <3>2. Anc(b) \cup {k} \subseteq 1..k
      BY <1>1, <1>2
    <3>3. ASSUME NEW c \in 1..N' PROVE c \in commits'[c].anc /\ commits'[c].anc \subseteq 1..c
      <4> HIDE DEF k
      <4>1. CASE c \in 1..N
        BY <1>7, <3>1, <4>1
      <4>2. CASE c = k
        BY <1>7, <3>2, <4>2
      <4> QED
        BY <1>6, <4>1, <4>2
    <3> QED
      BY <3>3
  <2>2. ASSUME NEW c \in 1..N', NEW d \in commits'[c].anc
        PROVE  commits'[d].anc \subseteq commits'[c].anc
    <3> HIDE DEF k
    <3>1. CASE c \in 1..N
      <4>1. d \in Anc(c) /\ d \in 1..N /\ Anc(d) \subseteq Anc(c)
        BY <1>7, <2>2, <3>1, Older
      <4> QED
        BY <1>7, <3>1, <4>1
    <3>2. CASE c = k
      <4>1. d \in Anc(b) \/ d = k
        BY <1>7, <2>2, <3>2
      <4>2. d \in Anc(b) => d \in 1..N /\ Anc(d) \subseteq Anc(b)
        BY <1>2, <1>7
      <4> QED
        BY <1>7, <3>2, <4>1, <4>2
    <3> QED
      BY <1>6, <3>1, <3>2
  <2> QED
    BY <1>1, <1>5, <2>1, <2>2 DEF GraphOK, Anc
<1>9. OnceEach'
  <2>1. ASSUME NEW x \in 1..N', NEW c \in commits'[x].anc, NEW d \in commits'[x].anc,
               commits'[c].req = commits'[d].req, commits'[c].req # None
        PROVE  c = d
    <3>1. CASE x \in 1..N
      <4>1. c \in 1..N /\ d \in 1..N /\ c \in Anc(x) /\ d \in Anc(x)
        BY <1>7, <2>1, <3>1
      <4> QED
        BY <1>5, <2>1, <3>1, <4>1 DEF OnceEach
    <3>2. CASE x = k
      <4>1. (c \in Anc(b) \/ c = k) /\ (d \in Anc(b) \/ d = k)
        BY <1>7, <2>1, <3>2
      <4>2. CASE c \in Anc(b) /\ d \in Anc(b)
        BY <1>5, <1>7, <2>1, <4>2 DEF OnceEach
      <4>3. \A e \in Anc(b) : commits'[e].req # q \/ q = None
        BY <1>5, <1>7
      <4> QED
        BY <1>3, <1>5, <2>1, <4>1, <4>2, <4>3
    <3> QED
      BY <1>6, <3>1, <3>2
  <2> QED
    BY <2>1 DEF OnceEach, Anc
<1> QED
  BY <1>3, <1>5, <1>8, <1>9

\* Files and records as they were, in a repository with one more commit.
LEMMA Grown ==
  ASSUME DataInv, N' = N + 1, \A c \in 1..N : commits'[c] = commits[c]
  PROVE  /\ \A c \in 1..N : commits'[c].anc = Anc(c) /\ Anc(c) \subseteq 1..N
         /\ 1..N \subseteq 1..N' /\ N + 1 \in 1..N' /\ N + 1 \notin 1..N
         /\ 0..N \subseteq 0..N' /\ N \in Nat
<1>1. N \in Nat
  BY DEF DataInv, GraphOK, Commit
<1>2. \A c \in 1..N : \A d \in Anc(c) : d \in 1..N
  BY Older DEF DataInv
<1> QED
  BY <1>1, <1>2 DEF Anc

LEMMA EditKeeps ==
  ASSUME WsInv, EditAndCommit
  PROVE  WsInv'
<1> DEFINE r == op.req
<1>1. /\ UNCHANGED <<remote, published, head, shown, pending, dirty, lock, state, misfiled, back>>
      /\ op.pc = "edit" /\ op \in OpRow /\ pending = None /\ ~op.own
      /\ op.kind = "txn" /\ op.req \in Request /\ op.base \in shown
      /\ \A c \in Anc(op.base) : commits[c].req # op.req
  BY DEF EditAndCommit, headVars, ghostVars, WsInv, OpInv, StageOK, TxnOK
<1>2. /\ op.base \in published /\ op.base \in 1..N /\ op.base \in Commit /\ N \in Nat \ {0}
      /\ FilesOK /\ head # 0
  BY <1>1, Published DEF WsInv, DataInv, Fresh
<1>3. ASSUME discardWorktree(r)
      PROVE  wt' \in [Request -> [reg : BOOLEAN, at : 0..N]]
  BY <1>1, <1>2, <1>3, PrunedType DEF discardWorktree
<1>4. CASE discardWorktree(r) /\ Ends(FALSE, "error") /\ UNCHANGED <<completed, commits>>
  <2>1. op' = NoOp /\ runtime' \in {"none", "init", "ready"} /\ told' = told
    BY <1>2, <1>4, EndsFacts, NotHeard
  <2>2. DataInv'
    BY <1>1, <1>3, <1>4, <2>1, WtMoves DEF WsInv, DataInv, FilesOK, Typed
  <2> QED
    BY <1>1, <2>1, <2>2, IdleInv DEF WsInv, Unseen
<1>5. CASE /\ discardWorktree(r) /\ Ends(TRUE, "NOOP") /\ UNCHANGED commits
           /\ completed' = [completed EXCEPT ![r] = [out |-> "NOOP", commit |-> op.base]]
  <2>1. op' = NoOp /\ runtime' \in {"none", "init", "ready"} /\ told' = told
    BY <1>2, <1>5, EndsFacts, NotHeard
  <2> DEFINE row == [out |-> "NOOP", commit |-> op.base]
  <2>2. row \in CompletedTransaction /\ row.out = "NOOP"
    BY <1>2 DEF CompletedTransaction
  <2> HIDE DEF row
  <2>3. /\ completed' \in [Request -> CompletedTransaction] /\ completed'[r] = row
        /\ \A q \in Request : q # r => completed'[q] = completed[q]
    BY <1>1, <1>2, <1>5, <2>2 DEF row, FilesOK
  <2>4. GraphOK' /\ OnceEach' /\ BranchOK' /\ Fresh'
    BY <1>1, <1>2, <1>5 DEF WsInv, DataInv, GraphOK, OnceEach, BranchOK, Fresh, N, Anc
  <2>5. FilesOK' /\ PendingOK'
    BY <1>1, <1>2, <1>3, <1>5, <2>1, <2>3 DEF FilesOK, PendingOK, N
  <2>6. Recorded'
    <3>1. \A q \in Request : completed'[q].out = "none" => completed[q].out = "none"
      BY <2>2, <2>3
    <3>2. \A c \in published : commits[c].req \in Request \cup {None}
      BY CommitTypes DEF WsInv, DataInv
    <3>3. PushPendingIsKept'
      <4>1. told.PUSH_PENDING \subseteq Request
        BY DEF WsInv, DataInv, FilesOK, ToldRow
      <4>2. PushPendingIsKept
        BY DEF WsInv, DataInv, Recorded
      <4> QED
        BY <1>1, <2>1, <3>1, <4>1, <4>2 DEF PushPendingIsKept
    <3>4. \A q \in Request : completed'[q].out = "COMMITTED" => completed'[q].commit \in published
      BY <2>2, <2>3 DEF WsInv, DataInv, Recorded
    <3> QED
      BY <1>1, <1>5, <3>1, <3>2, <3>3, <3>4 DEF WsInv, DataInv, Recorded
  <2>7. DataForward'
    <3>1. ~back => completed[r].out = "none"
      BY <1>1 DEF WsInv, OpInv, OpForward
    <3> QED
      BY <1>1, <1>5, <2>1, <2>2, <2>3, <3>1 DEF WsInv, DataInv, DataForward, Anc
  <2> QED
    BY <1>1, <2>1, <2>4, <2>5, <2>6, <2>7, IdleInv DEF WsInv, DataInv, Unseen
<1>6. CASE /\ N < MaxCommits /\ commits' = Append(commits, NextCommit(r, op.base))
           /\ wt' = [wt EXCEPT ![r].at = N + 1]
           /\ op' = [op EXCEPT !.pc = "pend", !.own = TRUE,
                        !.rec = [req |-> r, base |-> op.base, commit |-> N + 1]]
           /\ UNCHANGED <<completed, runtime, told>>
  <2> DEFINE k == N + 1
  <2> DEFINE rec == [req |-> r, base |-> op.base, commit |-> k]
  <2>1. /\ N' = k /\ GraphOK' /\ OnceEach'
        /\ \A c \in 1..N : commits'[c] = commits[c]
        /\ commits'[k].anc = Anc(op.base) \cup {k} /\ commits'[k].req = r
    BY <1>1, <1>2, <1>6, NewCommit DEF WsInv, DataInv
  <2>2. /\ \A c \in 1..N : commits'[c].anc = Anc(c) /\ Anc(c) \subseteq 1..N
        /\ 1..N \subseteq 1..N' /\ k \in 1..N' /\ k \notin 1..N
        /\ 0..N \subseteq 0..N'
    BY <1>1, <1>2, <2>1, Grown DEF WsInv
  <2>3. k \in Commit /\ op.base < k /\ op.seen < k /\ k \notin published
    BY <1>2, <1>6, <2>2, Published, WorkspaceAssumption
       DEF Commit, WsInv, DataInv, OpInv, TxnOK
  <2>4. rec \in PendingTransaction /\ rec.req = r /\ rec.base = op.base /\ rec.commit = k
    BY <1>1, <1>2, <2>3 DEF PendingTransaction
  <2>5. k \in 0..N'
    BY <1>2, <2>1
  <2>6. op' = [op EXCEPT !.pc = "pend", !.own = TRUE, !.rec = rec]
    BY <1>6
  <2> HIDE DEF k, rec
  <2>7. /\ op' \in OpRow /\ op'.pc = "pend" /\ op'.kind = op.kind /\ op'.req = op.req
        /\ op'.base = op.base /\ op'.own = TRUE /\ op'.seen = op.seen /\ op'.rec = rec
    <3>1. "pend" \in Pc
      BY DEF Pc
    <3> QED
      BY <1>1, <2>4, <2>6, <3>1 DEF OpRow
  <2>8. BranchOK' /\ Fresh'
    <3>1. /\ published \subseteq 1..N /\ remote \in 1..N /\ published' = published
          /\ \A c \in published : commits'[c].anc = Anc(c)
      BY <1>1, <2>2, Published DEF WsInv, DataInv
    <3> QED
      BY <1>1, <1>2, <2>2, <3>1 DEF WsInv, DataInv, BranchOK, Fresh, Anc
  <2>9. /\ wt' \in [Request -> [reg : BOOLEAN, at : 0..N']]
    <3>1. wt \in [Request -> [reg : BOOLEAN, at : 0..N']]
      BY <1>2, <2>2 DEF FilesOK
    <3> QED
      BY <1>6, <2>5, <3>1 DEF k
  <2>10. FilesOK' /\ PendingOK'
    BY <1>1, <1>2, <1>6, <2>9 DEF FilesOK, PendingOK
  <2>11. \A c \in published : commits'[c] = commits[c] /\ commits'[c].anc = Anc(c)
    BY <2>1, <2>2, Published DEF WsInv, DataInv
  <2>12. Recorded'
    BY <1>1, <1>6, <2>11 DEF WsInv, DataInv, Recorded, PushPendingIsKept
  <2>13. head \in published /\ commits'[head].anc = Anc(head)
    BY <1>2, <2>11 DEF WsInv, DataInv, BranchOK
  <2>14. DataForward'
    <3>2. ~back =>
            /\ \A q \in Request : completed[q].out = "COMMITTED" =>
                 completed[q].commit \in commits'[head].anc
            /\ \A q \in Request \ misfiled :
                 completed[q].out = "STALE_REVISION" =>
                      \A c \in published : commits'[c].req # q
      BY <2>11, <2>13 DEF WsInv, DataInv, DataForward
    <3> QED
      BY <1>1, <1>6, <2>13, <3>2 DEF DataForward, Anc
  <2>15. TxnOK'
    <3>1. commits'[op.base].anc = Anc(op.base) /\ \A c \in Anc(op.base) : commits'[c] = commits[c]
      BY <1>2, <2>1, <2>2
    <3> QED
      BY <1>1, <2>3, <2>4, <2>7, <3>1 DEF WsInv, OpInv, TxnOK, Anc
  <2>16. RecOK(op.rec)'
    <3>1. commits'[op.base].anc = Anc(op.base)
      BY <1>2, <2>2
    <3> QED
      BY <1>1, <1>2, <2>1, <2>2, <2>3, <2>4, <2>7, <3>1 DEF RecOK, Anc, k
  <2>17. wt'[r] = [reg |-> TRUE, at |-> k]
    <3>1. wt[r].reg = TRUE /\ wt \in [Request -> [reg : BOOLEAN, at : 0..N]]
      BY <1>1, <1>2 DEF WsInv, OpInv, StageOK, FilesOK
    <3>2. wt'[r] = [wt[r] EXCEPT !.at = k]
      BY <1>1, <1>6, <3>1 DEF k
    <3> QED
      BY <1>1, <3>1, <3>2
  <2>18. StageOK' /\ CloseOK'
    BY <1>1, <2>3, <2>4, <2>7, <2>16, <2>17 DEF StageOK, CloseOK
  <2>19. OpForward'
    <3>1. commits'[op.base].anc = Anc(op.base)
      BY <1>2, <2>2
    <3> QED
      BY <1>1, <1>6, <2>7, <3>1 DEF WsInv, OpInv, OpForward, Anc
  <2> QED
    BY <1>1, <2>1, <2>7, <2>8, <2>10, <2>12, <2>14, <2>15, <2>18, <2>19
       DEF WsInv, DataInv, OpInv, Unseen
<1> QED
  BY <1>4, <1>5, <1>6 DEF EditAndCommit, validateDiff, N

-----------------------------------------------------------------------------
(***************************************************************************)
(* The push.                                                               *)
(***************************************************************************)
\* A push that lands adds the pending commit to the branch and nothing else.
LEMMA PushLanded ==
  ASSUME WsInv, op.pc = "push", PushLands, remote' = op.rec.commit,
         published' = published \cup Anc(op.rec.commit),
         UNCHANGED <<commits, head, shown, wt, pending, completed, misfiled, back>>,
         Typed', told' \in ToldRow, PushPendingIsKept'
  PROVE  DataInv' /\ published' = published \cup {op.rec.commit}
<1> DEFINE k == op.rec.commit
<1>1. /\ pending # None /\ pending = op.rec /\ RecOK(op.rec)
  BY DEF WsInv, DataInv, PendingOK, OpInv, StageOK
<1>2. /\ k \in 1..N /\ Anc(k) = Anc(op.rec.base) \cup {k} /\ op.rec.base \in published
      /\ commits[k].req = op.rec.req /\ op.rec.req \in Request
  BY <1>1 DEF RecOK, PendingTransaction
<1>3. Anc(op.rec.base) \subseteq published
  BY <1>2 DEF WsInv, DataInv, BranchOK
<1>4. published' = published \cup {k}
  BY <1>2, <1>3
<1>5. ~back => published' \subseteq Anc(k)
  <2> SUFFICES ASSUME ~back PROVE published' \subseteq Anc(k)
    OBVIOUS
  <2>1. published \subseteq Anc(remote)
    BY DEF WsInv, DataInv, BranchOK
  <2>2. Anc(remote) \subseteq Anc(k)
    BY <1>2, Older DEF PushLands, WsInv, DataInv
  <2> QED
    BY <2>1, <2>2
<1>6. GraphOK' /\ OnceEach'
  BY DEF WsInv, DataInv, GraphOK, OnceEach, N, Anc
<1>7. BranchOK'
  <2>1. \A c \in published' : Anc(c) \subseteq published'
    BY <1>2, <1>3, <1>4 DEF WsInv, DataInv, BranchOK
  <2>2. published' \subseteq 1..N
    BY <1>2, <1>4 DEF WsInv, DataInv, BranchOK
  <2> HIDE DEF k
  <2>3. remote' \in published' /\ remote' = k
    BY <1>4 DEF k
  <2>4. shown \subseteq published' /\ head \in {0} \cup shown /\ back \in BOOLEAN
    BY <1>4 DEF WsInv, DataInv, BranchOK
  <2> QED
    BY <1>5, <2>1, <2>2, <2>3, <2>4 DEF BranchOK, N, Anc
<1>8. Fresh'
  BY <1>1 DEF WsInv, DataInv, Fresh
<1>9. FilesOK' /\ PendingOK'
  BY <1>4 DEF WsInv, DataInv, FilesOK, Typed, PendingOK, PendingIsPushable, RecOK, N, Anc
<1>10. Recorded'
  BY <1>1, <1>4 DEF WsInv, DataInv, Recorded
<1>11. DataForward'
  <2> SUFFICES ASSUME ~back PROVE DataForward'
    BY DEF DataForward
  <2>1. completed[op.rec.req].out # "STALE_REVISION" \/ op.rec.req \in misfiled
    BY DEF WsInv, OpInv, OpForward
  <2>2. \A q \in Request \ misfiled :
          completed[q].out = "STALE_REVISION" => \A c \in published' : commits[c].req # q
    BY <1>2, <1>4, <2>1 DEF WsInv, DataInv, DataForward
  <2>3. Beyond(pending.base) => (Beyond(pending.base))'
    BY <1>4 DEF Beyond, Anc
  <2> QED
    BY <2>2, <2>3 DEF WsInv, DataInv, DataForward, Anc
<1> QED
  BY <1>4, <1>6, <1>7, <1>8, <1>9, <1>10, <1>11 DEF DataInv

LEMMA PushFailsFacts ==
  ASSUME WsInv, op.pc = "push", PushFails, UNCHANGED <<pending, completed>>
  PROVE  /\ op' = NoOp /\ runtime' \in {"none", "init", "ready"}
         /\ runtime' = "ready" => runtime = "ready"
         /\ state' = "PUSH_PENDING" /\ told' \in ToldRow
         /\ told'.STALE_REVISION = told.STALE_REVISION /\ PushPendingIsKept'
<1> DEFINE what == IF op.own THEN "PUSH_PENDING" ELSE "error"
<1>1. Ends(FALSE, what) /\ state' = "PUSH_PENDING"
  BY DEF PushFails
<1>2. FilesOK /\ told \in ToldRow /\ PushPendingIsKept
  BY DEF WsInv, DataInv, FilesOK, Recorded
<1>3. /\ op' = NoOp /\ runtime' \in {"none", "init", "ready"}
      /\ runtime' = "ready" => runtime = "ready"
  BY <1>1, <1>2, EndsFacts
<1>4. CASE ~op.own
  <2>1. told' = told
    BY <1>1, <1>2, <1>4, EndsFacts, NotHeard
  <2> QED
    BY <1>1, <1>2, <1>3, <2>1 DEF PushPendingIsKept
<1>5. CASE op.own
  <2>1. op.req \in Request /\ pending # None /\ pending.req = op.req
    BY <1>5 DEF WsInv, OpInv, TxnOK, StageOK
  <2>2. PICK w : w = "PUSH_PENDING"
    OBVIOUS
  <2>3. told' = Hears(w, op.req)
    BY <1>1, <1>5, <2>2 DEF Ends
  <2>4. /\ told' \in ToldRow /\ told'.STALE_REVISION = told.STALE_REVISION
        /\ told'.PUSH_PENDING = told.PUSH_PENDING \cup {op.req}
    BY <1>2, <2>1, <2>2, <2>3, HearsFacts
  <2> QED
    BY <1>1, <1>2, <1>3, <2>1, <2>4 DEF PushPendingIsKept
<1> QED
  BY <1>4, <1>5

LEMMA PushKeeps ==
  ASSUME WsInv, GitPush
  PROVE  WsInv'
<1>1. /\ UNCHANGED <<commits, head, shown, wt, pending, completed, misfiled, back, dirty, lock>>
      /\ op.pc = "push" /\ op \in OpRow /\ pending # None /\ pending = op.rec
  BY DEF GitPush, headVars, fileVars, ghostVars, WsInv, OpInv, StageOK
<1>2. CASE PushFails
  <2>1. /\ op' = NoOp /\ runtime' \in {"none", "init", "ready"}
        /\ runtime' = "ready" => runtime = "ready"
        /\ state' = "PUSH_PENDING" /\ told' \in ToldRow /\ PushPendingIsKept'
    BY <1>1, <1>2, PushFailsFacts
  <2>2. Typed'
    BY <1>1, <2>1 DEF Typed, WorkspaceState, WsInv, DataInv, FilesOK
  <2>3. DataInv'
    <3>1. CASE UNCHANGED <<remote, published>>
      BY <1>1, <2>1, <2>2, <3>1, DataFrame DEF dataVars, WsInv
    <3>2. CASE /\ PushLands /\ remote' = op.rec.commit
               /\ published' = published \cup Anc(op.rec.commit)
      BY <1>1, <2>1, <2>2, <3>2, PushLanded
    <3> QED
      BY <3>1, <3>2 DEF GitPush
  <2>4. Unseen'
    BY <1>1, <2>1 DEF WsInv, Unseen, Anc
  <2> QED
    BY <2>1, <2>3, <2>4, IdleInv DEF WsInv
<1>3. CASE /\ PushLands /\ remote' = op.rec.commit
           /\ published' = published \cup Anc(op.rec.commit)
           /\ Goes("finalize") /\ UNCHANGED <<state, runtime, told, left>>
  <2>1. /\ op' \in OpRow /\ op'.pc = "finalize" /\ op'.kind = op.kind /\ op'.req = op.req
        /\ op'.base = op.base /\ op'.rec = op.rec /\ op'.own = op.own
        /\ op'.seen = op.seen
    BY <1>1, <1>3, GoesFields DEF Pc
  <2>2. PushPendingIsKept' /\ Typed' /\ told' \in ToldRow
    BY <1>1, <1>3 DEF WsInv, DataInv, FilesOK, Recorded, PushPendingIsKept, Typed
  <2>3. DataInv' /\ published' = published \cup {op.rec.commit}
    BY <1>1, <1>3, <2>2, PushLanded
  <2>4. TxnOK' /\ StageOK' /\ CloseOK'
    BY <1>1, <1>3, <2>1, <2>3 DEF WsInv, OpInv, TxnOK, StageOK, CloseOK, Anc
  <2>5. OpForward'
    BY <1>1, <2>1, <2>3 DEF WsInv, OpInv, OpForward, Beyond, Anc
  <2>6. Unseen'
    BY <1>1, <1>3, <2>1 DEF WsInv, Unseen, Anc
  <2> QED
    BY <2>1, <2>3, <2>4, <2>5, <2>6 DEF WsInv, OpInv
<1> QED
  BY <1>2, <1>3 DEF GitPush

-----------------------------------------------------------------------------
(***************************************************************************)
(* The owner.                                                              *)
(***************************************************************************)
\* Records are as good, and the branch is as far, with one more commit on it.
LEMMA RecordsGrow ==
  ASSUME DataInv, N' = N + 1, \A c \in 1..N : commits'[c] = commits[c],
         published' = published \cup {N + 1}
  PROVE  /\ \A p : RecOK(p) =>
              /\ p \in PendingTransaction /\ p.base \in published' /\ p.commit \in 1..N'
              /\ p.base < p.commit /\ commits'[p.commit].req = p.req
              /\ commits'[p.commit].anc = commits'[p.base].anc \cup {p.commit}
              /\ p.commit \in published' => p.commit \in published
         /\ \A b \in published : Beyond(b) => \E x \in published' : x \notin commits'[b].anc
<1>1. /\ \A c \in 1..N : commits'[c].anc = Anc(c) /\ Anc(c) \subseteq 1..N
      /\ 1..N \subseteq 1..N' /\ N + 1 \in 1..N' /\ N + 1 \notin 1..N
  BY Grown
<1>2. \A c \in published : c \in 1..N
  BY Published DEF DataInv
<1> DEFINE k == N + 1
<1> HIDE DEF k
<1>3. /\ published' = published \cup {k} /\ k \notin 1..N
  BY <1>1 DEF k
<1>4. ASSUME NEW p, RecOK(p)
      PROVE  /\ p \in PendingTransaction /\ p.base \in published' /\ p.commit \in 1..N'
             /\ p.base < p.commit /\ commits'[p.commit].req = p.req
             /\ commits'[p.commit].anc = commits'[p.base].anc \cup {p.commit}
             /\ p.commit \in published' => p.commit \in published
  <2>1. /\ p.base \in published /\ p.commit \in 1..N /\ p.base \in 1..N
        /\ p \in PendingTransaction /\ p.base < p.commit
        /\ commits[p.commit].req = p.req /\ Anc(p.commit) = Anc(p.base) \cup {p.commit}
    BY <1>2, <1>4 DEF RecOK
  <2> QED
    BY <1>1, <1>3, <2>1
<1>5. ASSUME NEW b \in published, Beyond(b)
      PROVE  \E x \in published' : x \notin commits'[b].anc
  BY <1>1, <1>2, <1>3, <1>5 DEF Beyond
<1> QED
  BY <1>4, <1>5

LEMMA OwnerPushes ==
  ASSUME WsInv, NEW c \in Anc(remote), N < MaxCommits,
         commits' = Append(commits, NextCommit(None, c)), remote' = N + 1,
         back' = (back \/ c # remote), published' = published \cup {remote'},
         UNCHANGED <<head, shown, dirty, wt, pending, completed, lock, runtime, state, op, told,
                     misfiled>>
  PROVE  WsInv'
<1>1. /\ c \in published /\ c \in 1..N /\ remote \in 1..N /\ N \in Nat
  BY Published DEF WsInv, DataInv, BranchOK
<1>2. /\ N' = N + 1 /\ GraphOK' /\ OnceEach'
      /\ \A d \in 1..N : commits'[d] = commits[d]
      /\ commits'[N + 1].anc = Anc(c) \cup {N + 1} /\ commits'[N + 1].req = None
  BY <1>1, NewCommit DEF WsInv, DataInv
<1>3. /\ \A d \in 1..N : commits'[d].anc = Anc(d) /\ Anc(d) \subseteq 1..N
      /\ 1..N \subseteq 1..N' /\ N + 1 \in 1..N' /\ N + 1 \notin 1..N
      /\ 0..N \subseteq 0..N'
  BY <1>2, Grown DEF WsInv
<1>4. /\ \A p : RecOK(p) =>
           /\ p \in PendingTransaction /\ p.base \in published' /\ p.commit \in 1..N'
           /\ p.base < p.commit /\ commits'[p.commit].req = p.req
           /\ commits'[p.commit].anc = commits'[p.base].anc \cup {p.commit}
           /\ p.commit \in published' => p.commit \in published
      /\ \A b \in published : Beyond(b) => \E x \in published' : x \notin commits'[b].anc
  BY <1>2, RecordsGrow DEF WsInv
<1> DEFINE k == N + 1
<1>5. /\ remote' = k /\ published' = published \cup {k} /\ k \in 1..N' /\ k \notin 1..N
      /\ commits'[k].anc = Anc(c) \cup {k} /\ commits'[k].req = None
      /\ \A d \in 1..N' : d \in 1..N \/ d = k
  BY <1>1, <1>2, <1>3
<1> HIDE DEF k
<1>6. \A d \in published : /\ d \in 1..N /\ commits'[d].anc = Anc(d) /\ commits'[d] = commits[d]
                           /\ Anc(d) \subseteq published
  BY <1>2, <1>3, Published DEF WsInv, DataInv, BranchOK
<1>7. ~back' => ~back /\ c = remote
  BY DEF WsInv, DataInv, BranchOK
<1>8. BranchOK'
  <2>1. \A d \in published' : commits'[d].anc \subseteq published'
    BY <1>1, <1>5, <1>6
  <2>2. published' \subseteq 1..N' /\ remote' \in published' /\ shown \subseteq published'
    BY <1>3, <1>5, <1>6 DEF WsInv, DataInv, BranchOK
  <2>3. ~back' => published' \subseteq commits'[remote'].anc
    BY <1>5, <1>7 DEF WsInv, DataInv, BranchOK
  <2>4. head \in {0} \cup shown /\ back' \in BOOLEAN
    BY DEF WsInv, DataInv, BranchOK
  <2> QED
    BY <2>1, <2>2, <2>3, <2>4 DEF BranchOK, Anc
<1>9. FilesOK'
  <2>1. wt \in [Request -> [reg : BOOLEAN, at : 0..N']]
    BY <1>3 DEF WsInv, DataInv, FilesOK
  <2> QED
    BY <2>1 DEF WsInv, DataInv, FilesOK
<1>10. Fresh'
  BY <1>2, <1>5 DEF WsInv, DataInv, Fresh
<1>11. PendingOK'
  <2>1. pending # None => RecOK(pending) /\ PendingIsPushable
    BY DEF WsInv, DataInv, PendingOK
  <2> QED
    BY <1>4, <2>1 DEF PendingOK, RecOK, PendingIsPushable, Anc
<1>12. Recorded'
  BY <1>5, <1>6 DEF WsInv, DataInv, Recorded, PushPendingIsKept
<1>13. DataForward'
  <2> SUFFICES ASSUME ~back' PROVE DataForward'
    BY DEF DataForward
  <2>1. \A r \in Request : completed[r].out = "COMMITTED" =>
          completed[r].commit \in commits'[head].anc
    <3> SUFFICES ASSUME NEW r \in Request, completed[r].out = "COMMITTED"
                 PROVE  completed[r].commit \in commits'[head].anc
      OBVIOUS
    <3>1. head # 0 /\ completed[r].commit \in Anc(head)
      BY <1>7 DEF WsInv, DataInv, DataForward, Fresh
    <3>2. head \in published
      BY <3>1 DEF WsInv, DataInv, BranchOK
    <3> QED
      BY <1>6, <3>1, <3>2
  <2>2. None \notin Request
    BY WorkspaceAssumption
  <2>3. \A r \in Request \ misfiled :
          completed[r].out = "STALE_REVISION" => \A d \in published' : commits'[d].req # r
    <3> SUFFICES ASSUME NEW r \in Request \ misfiled, completed[r].out = "STALE_REVISION"
                 PROVE  \A d \in published' : commits'[d].req # r
      OBVIOUS
    <3>1. \A d \in published : commits[d].req # r
      BY <1>7 DEF WsInv, DataInv, DataForward
    <3> QED
      BY <1>5, <1>6, <2>2, <3>1
  <2>4. pending # None /\ Beyond(pending.base) =>
          \E x \in published' : x \notin commits'[pending.base].anc
    BY <1>4 DEF WsInv, DataInv, PendingOK, RecOK
  <2> QED
    BY <1>7, <2>1, <2>3, <2>4 DEF WsInv, DataInv, DataForward, Beyond, Anc
<1>14. DataInv'
  BY <1>2, <1>8, <1>9, <1>10, <1>11, <1>12, <1>13 DEF DataInv
<1>15. op.kind = "txn" => op.base \in published
  BY DEF WsInv, DataInv, BranchOK, OpInv, TxnOK
<1>16. TxnOK'
  <2>1. op.kind = "txn" => \A d \in commits'[op.base].anc : commits'[d].req # op.req
    BY <1>6, <1>15 DEF WsInv, OpInv, TxnOK
  <2> QED
    BY <1>5, <2>1 DEF WsInv, OpInv, TxnOK, Anc
<1>17. StageOK'
  <2>1. op.pc \in {"pend", "recheck"} => op.rec.commit \notin published'
    BY <1>4 DEF WsInv, OpInv, StageOK, DataInv, PendingOK
  <2>2. op.pc = "pend" => RecOK(op.rec)'
    BY <1>4 DEF WsInv, OpInv, StageOK, RecOK, Anc
  <2> QED
    BY <1>5, <2>1, <2>2 DEF WsInv, OpInv, StageOK
<1>18. CloseOK'
  <2>1. op.pc = "close" => RecOK(op.rec)'
    BY <1>4 DEF WsInv, OpInv, CloseOK, RecOK, Anc
  <2> QED
    BY <1>5, <2>1 DEF WsInv, OpInv, CloseOK
<1>19. OpForward'
  <2> SUFFICES ASSUME ~back' PROVE OpForward'
    BY DEF OpForward
  <2>1. op.pc \in {"classify", "close"} => RecOK(op.rec)
    BY DEF WsInv, DataInv, PendingOK, OpInv, StageOK, CloseOK
  <2>2. op.pc = "classify" =>
          /\ op.rec.base \in commits'[op.seen].anc
          /\ op.rec.commit \in published' => op.rec.commit \in commits'[op.seen].anc
    BY <1>4, <1>6, <1>7, <2>1 DEF WsInv, OpInv, StageOK, OpForward
  <2>3. op.pc \in {"classify", "push", "finalize"} /\ ~op.own => head \in commits'[op.seen].anc
    BY <1>6, <1>7 DEF WsInv, OpInv, StageOK, OpForward
  <2>4. op.pc = "close" => op.rec.base \in published /\ head \in published
    BY <2>1 DEF RecOK, WsInv, DataInv, BranchOK, Fresh, OpInv, CloseOK
  <2>5. op.pc = "close" /\ op.out = "COMMITTED" => op.rec.commit \in commits'[head].anc
    BY <1>6, <1>7, <2>4 DEF WsInv, OpInv, OpForward
  <2>6. op.pc = "close" /\ op.out = "STALE_REVISION" =>
          \/ op.rec.commit \in published' /\ op.rec.req \in misfiled
          \/ /\ op.rec.commit \notin published'
             /\ \E x \in published' : x \notin commits'[op.rec.base].anc
    <3> SUFFICES ASSUME op.pc = "close", op.out = "STALE_REVISION"
                 PROVE  \/ op.rec.commit \in published' /\ op.rec.req \in misfiled
                        \/ /\ op.rec.commit \notin published'
                           /\ \E x \in published' : x \notin commits'[op.rec.base].anc
      OBVIOUS
    <3>1. \/ op.rec.commit \in published /\ op.rec.req \in misfiled
          \/ op.rec.commit \notin published /\ Beyond(op.rec.base)
      BY <1>7 DEF WsInv, OpInv, OpForward
    <3>2. op.rec.commit \in published' => op.rec.commit \in published
      BY <1>4, <2>1
    <3> QED
      BY <1>4, <1>5, <2>4, <3>1, <3>2
  <2>7. op.kind = "txn" /\ ~op.own /\ completed[op.req].out # "none" =>
          \E x \in published' : x \notin commits'[op.base].anc
    BY <1>4, <1>7, <1>15 DEF WsInv, OpInv, OpForward
  <2>8. op.kind = "txn" /\ ~op.own /\ pending # None => op.base \in commits'[pending.base].anc
    <3>1. pending # None => pending.base \in published
      BY DEF WsInv, DataInv, PendingOK, RecOK
    <3> QED
      BY <1>6, <1>7, <3>1 DEF WsInv, OpInv, OpForward
  <2>9. op.pc \in {"worktree", "edit", "pend"} => shown \subseteq commits'[op.base].anc
    <3>1. op.pc \in {"worktree", "edit", "pend"} => op.kind = "txn"
      BY DEF WsInv, OpInv, TxnOK, StageOK
    <3>2. op.pc \in {"worktree", "edit", "pend"} => shown \subseteq Anc(op.base)
      BY <1>7 DEF WsInv, OpInv, OpForward
    <3> QED
      BY <1>6, <1>15, <3>1, <3>2
  <2>10. /\ (op.own /\ op.pc \notin {"close", "sync"}) \/ op.pc \in {"worktree", "edit"} =>
              completed[op.req].out = "none"
         /\ op.pc = "classify" /\ completed[op.rec.req].out = "STALE_REVISION"
              /\ op.rec.req \notin misfiled => op.seen # op.rec.base
         /\ op.pc = "push" =>
              completed[op.rec.req].out # "STALE_REVISION" \/ op.rec.req \in misfiled
    BY <1>7 DEF WsInv, OpInv, OpForward
  <2> QED
    BY <2>2, <2>3, <2>5, <2>6, <2>7, <2>8, <2>9, <2>10 DEF OpForward, Beyond, Anc
<1>20. Unseen'
  <2>1. pending # None => pending.base \in published
    BY DEF WsInv, DataInv, PendingOK, RecOK
  <2>2. \A b \in shown : commits'[b].anc = Anc(b)
    BY <1>6, Published DEF WsInv, DataInv
  <2> QED
    BY <1>6, <1>7, <2>1, <2>2 DEF WsInv, Unseen, Anc
<1> QED
  BY <1>14, <1>16, <1>17, <1>18, <1>19, <1>20 DEF WsInv, OpInv

LEMMA OwnerKeeps ==
  ASSUME WsInv, OwnerMoves
  PROVE  WsInv'
<1>1. UNCHANGED <<head, shown, dirty, wt, pending, completed, lock, runtime, state, op, told,
                  misfiled>>
  BY DEF OwnerMoves, headVars, fileVars
<1>2. PICK c \in Anc(remote) :
        /\ \/ /\ N < MaxCommits /\ commits' = Append(commits, NextCommit(None, c))
              /\ remote' = N + 1
           \/ c # remote /\ remote' = c /\ UNCHANGED commits
        /\ back' = (back \/ c # remote) /\ published' = published \cup {remote'}
  BY DEF OwnerMoves, N
<1>3. CASE /\ N < MaxCommits /\ commits' = Append(commits, NextCommit(None, c))
           /\ remote' = N + 1
  BY <1>1, <1>2, <1>3, OwnerPushes
<1>4. CASE c # remote /\ remote' = c /\ UNCHANGED commits
  <2>1. c \in published /\ published' = published /\ back' = TRUE
    BY <1>2, <1>4 DEF WsInv, DataInv, BranchOK
  <2>2. GraphOK' /\ OnceEach' /\ BranchOK' /\ Fresh'
    BY <1>1, <1>4, <2>1 DEF WsInv, DataInv, GraphOK, OnceEach, BranchOK, Fresh, N, Anc
  <2>3. FilesOK' /\ PendingOK'
    BY <1>1, <1>4, <2>1
       DEF WsInv, DataInv, FilesOK, PendingOK, PendingIsPushable, RecOK, N, Anc
  <2>4. Recorded' /\ DataForward'
    BY <1>1, <1>4, <2>1 DEF WsInv, DataInv, Recorded, PushPendingIsKept, DataForward
  <2>5. TxnOK' /\ StageOK'
    BY <1>1, <1>4, <2>1 DEF WsInv, OpInv, TxnOK, StageOK, RecOK, N, Anc
  <2>6. CloseOK' /\ OpForward' /\ Unseen'
    BY <1>1, <1>4, <2>1 DEF WsInv, OpInv, CloseOK, RecOK, OpForward, Unseen, N, Anc
  <2> QED
    BY <1>1, <2>2, <2>3, <2>4, <2>5, <2>6 DEF WsInv, DataInv, OpInv
<1> QED
  BY <1>2, <1>3, <1>4

-----------------------------------------------------------------------------
LEMMA StepKeeps == WsInv /\ [WsNext]_wsVars => WsInv'
<1> SUFFICES ASSUME WsInv, [WsNext]_wsVars PROVE WsInv'
  OBVIOUS
<1>1. CASE UNCHANGED wsVars
  <2>1. UNCHANGED <<dataVars, told, dirty, lock, runtime, state, op>>
    BY <1>1 DEF wsVars, dataVars, gitVars, headVars, fileVars, ghostVars
  <2>2. DataInv'
    BY <2>1, DataSame DEF WsInv, DataInv, FilesOK, Typed
  <2>3. TxnOK' /\ StageOK' /\ CloseOK'
    BY <2>1 DEF dataVars, WsInv, OpInv, TxnOK, StageOK, CloseOK, RecOK, N, Anc
  <2>4. OpForward' /\ Unseen'
    BY <2>1 DEF dataVars, WsInv, OpInv, OpForward, Unseen, Beyond, Anc
  <2> QED
    BY <2>1, <2>2, <2>3, <2>4 DEF WsInv, OpInv
<1>2. CASE OpStep
  BY <1>2, EnsureKeeps, RecoverKeeps, ClassifyKeeps, PushKeeps, FinalizeKeeps, CloseKeeps,
     SyncKeeps, AddWorktreeKeeps, EditKeeps, WritePendingKeeps, RecheckKeeps DEF OpStep
<1>3. CASE GetRuntime
  BY <1>3, GetRuntimeKeeps
<1>4. CASE WorkspaceStatus
  BY <1>4, StatusKeeps
<1>5. CASE \E r \in Request, b \in shown : ApplyChangeSet(r, b)
  BY <1>5, ApplyKeeps
<1>6. CASE OwnerMoves
  BY <1>6, OwnerKeeps
<1>7. CASE Crash
  BY <1>7, CrashKeeps
<1> QED
  BY <1>1, <1>2, <1>3, <1>4, <1>5, <1>6, <1>7 DEF WsNext, FailsBusy

(***************************************************************************)
(* THEOREM. The invariant of the repository, the files and the operation   *)
(* holds in every state (CeoWorkspace, withAtomicWorkspaceTransaction).    *)
(***************************************************************************)
THEOREM WsInvariant == WsSpec => []WsInv
<1>1. WsInit => WsInv
  BY InitInv
<1>2. WsInv /\ [WsNext]_wsVars => WsInv'
  BY StepKeeps
<1> QED
  BY <1>1, <1>2, PTL DEF WsSpec

(***************************************************************************)
(* THEOREM. A request is applied at most once (AppliedOnce): whatever was  *)
(* lost, repeated or crashed, and whatever the owner did, the branch never *)
(* holds two commits of it.                                                *)
(***************************************************************************)
THEOREM AppliedOnceTheorem == WsSpec => []AppliedOnce
<1>1. WsInv => AppliedOnce
  <2> SUFFICES ASSUME WsInv, NEW r \in Request PROVE Cardinality(Of(r)) <= 1
    BY DEF AppliedOnce
  <2>1. remote \in 1..N /\ r # None
    BY Published, WorkspaceAssumption DEF WsInv, DataInv
  <2>2. \A c, d \in Of(r) : c = d
    BY <2>1 DEF Of, WsInv, DataInv, OnceEach
  <2>3. CASE Of(r) = {}
    BY <2>3, FS_EmptySet
  <2>4. CASE Of(r) # {}
    <3>1. PICK c \in Of(r) : TRUE
      BY <2>4
    <3>2. Of(r) = {c}
      BY <2>2, <3>1
    <3>3. Cardinality({c}) = 1
      BY FS_Singleton
    <3> QED
      BY <3>2, <3>3
  <2> QED
    BY <2>3, <2>4
<1> QED
  BY <1>1, WsInvariant, PTL

(***************************************************************************)
(* THEOREM. A change that was committed and could not be pushed is kept    *)
(* (PendingIsKept): pending.json and its worktree survive every crash      *)
(* until the request has an outcome.                                       *)
(***************************************************************************)
THEOREM PendingIsKeptTheorem == WsSpec => []PendingIsKept
<1>1. WsInv => WsTypeOK
  <2> SUFFICES ASSUME WsInv PROVE WsTypeOK
    OBVIOUS
  <2>1. remote \in 1..N /\ published \subseteq 1..N /\ shown \subseteq 1..N /\ head \in 0..N
    BY Published DEF WsInv, DataInv, BranchOK
  <2> QED
    BY <2>1 DEF WsTypeOK, WsInv, DataInv, GraphOK, FilesOK, CommitRow, N
<1>2. WsInv => PendingIsPushable /\ PushPendingIsKept
  BY DEF WsInv, DataInv, PendingOK, Recorded, PendingIsPushable
<1> QED
  BY <1>1, <1>2, WsInvariant, PTL DEF PendingIsKept

-----------------------------------------------------------------------------
(***************************************************************************)
(* What was told.  The commits of a request that was told STALE_REVISION   *)
(* are off the branch, and stay off it, up to the two other exceptions of  *)
(* RecordedIsSo.                                                           *)
(***************************************************************************)
RuledOut(c) ==
  \/ c \notin published \/ commits[c].req \in misfiled
  \/ commits[c].req \in overtaken /\ completed[commits[c].req].out = "COMMITTED"

ToldOfCommits == \A c \in told.STALE_REVISION : c \in 1..N /\ commits[c].req \in Request

\* The outcome of a request that a transaction still works on can only be the one
\* that its own recovery has just recorded.
FirstOutcome ==
  op.kind = "txn" /\ ~op.own =>
    \/ completed[op.req].out = "none"
    \/ /\ op.pc \in {"sync", "worktree", "edit"} \/ (op.pc = "close" /\ op.step > 1)
       /\ op.rec.req = op.req /\ completed[op.req].out = op.out

\* A commit that was told stale and is pending is on record as stale.
ToldForward ==
  ~back =>
    /\ \A c \in told.STALE_REVISION : RuledOut(c)
    /\ pending # None /\ pending.commit \in told.STALE_REVISION =>
         completed[pending.req].out = "STALE_REVISION" \/ pending.req \in misfiled

NewIsUntold == op.pc = "pend" => op.rec.commit \notin told.STALE_REVISION

ToldInv == ToldOfCommits /\ FirstOutcome /\ ToldForward /\ NewIsUntold

LEMMA IdleTold ==
  ASSUME op' = NoOp
  PROVE  FirstOutcome' /\ NewIsUntold'
  BY NoOpFields DEF FirstOutcome, NewIsUntold

\* Steps that tell nobody STALE_REVISION.
LEMMA ToldSame ==
  ASSUME ToldInv, UNCHANGED <<commits, published, pending, completed, back>>,
         told'.STALE_REVISION = told.STALE_REVISION,
         misfiled \subseteq misfiled', overtaken \subseteq overtaken',
         FirstOutcome', NewIsUntold'
  PROVE  ToldInv'
<1>1. ToldOfCommits'
  BY DEF ToldInv, ToldOfCommits, N
<1>2. ToldForward'
  BY DEF ToldInv, ToldForward, RuledOut
<1> QED
  BY <1>1, <1>2 DEF ToldInv

LEMMA EndsUntold ==
  ASSUME WsInv, NEW ok \in BOOLEAN, NEW what, Ends(ok, what), what # "STALE_REVISION",
         what = "PUSH_PENDING" => op.req \in Request
  PROVE  op' = NoOp /\ told'.STALE_REVISION = told.STALE_REVISION
<1>1. told \in ToldRow
  BY DEF WsInv, DataInv, FilesOK
<1>2. op' = NoOp /\ told' = Hears(what, op.req)
  BY DEF Ends
<1>3. CASE what = "PUSH_PENDING"
  BY <1>1, <1>2, <1>3, HearsFacts
<1>4. CASE what # "PUSH_PENDING"
  <2>1. Hears(what, op.req) = told
    BY <1>4 DEF Hears
  <2> QED
    BY <1>2, <2>1
<1> QED
  BY <1>3, <1>4

\* An operation that ends and tells nobody STALE_REVISION.
LEMMA EndsTold ==
  ASSUME WsInv, ToldInv, NEW ok \in BOOLEAN, NEW what, Ends(ok, what),
         what \in {"error", "ok", "COMMITTED"},
         UNCHANGED <<commits, published, pending, completed, back, overtaken>>,
         misfiled \subseteq misfiled'
  PROVE  ToldInv'
  BY EndsUntold, IdleTold, ToldSame

\* The callers of a request are told STALE_REVISION: what was published of it is
\* misfiled, or is the commit that this call has finished.
LEMMA TellsStale ==
  ASSUME WsInv, ToldInv, NEW r \in Request,
         UNCHANGED <<commits, published, pending, completed, back, misfiled>>,
         told'.STALE_REVISION = told.STALE_REVISION \cup Made(r),
         overtaken \subseteq overtaken', op' = NoOp,
         ~back => \A c \in published : commits[c].req = r =>
                    r \in misfiled \/ (r \in overtaken' /\ completed[r].out = "COMMITTED"),
         pending # None /\ pending.req = r => completed[r].out = "STALE_REVISION"
  PROVE  ToldInv'
<1>1. \A c \in Made(r) : c \in 1..N /\ commits[c].req = r
  BY DEF Made, N
<1>2. ToldOfCommits'
  BY <1>1 DEF ToldInv, ToldOfCommits, N
<1>3. ToldForward'
  <2> SUFFICES ASSUME ~back PROVE ToldForward'
    BY DEF ToldForward
  <2>1. \A c \in told.STALE_REVISION : RuledOut(c)'
    BY DEF ToldInv, ToldForward, RuledOut
  <2>2. \A c \in Made(r) : RuledOut(c)'
    BY <1>1 DEF RuledOut
  <2>3. pending # None => commits[pending.commit].req = pending.req
    BY DEF WsInv, DataInv, PendingOK, RecOK
  <2>4. pending # None /\ pending.commit \in told'.STALE_REVISION =>
          completed[pending.req].out = "STALE_REVISION" \/ pending.req \in misfiled
    BY <1>1, <2>3 DEF ToldInv, ToldForward
  <2> QED
    BY <2>1, <2>2, <2>4 DEF ToldForward
<1> QED
  BY <1>2, <1>3, IdleTold DEF ToldInv

\* What is on record as stale was never published, or is misfiled.
LEMMA StaleIsOff ==
  ASSUME WsInv, ~back, NEW r \in Request, completed[r].out = "STALE_REVISION",
         NEW c \in published, commits[c].req = r
  PROVE  r \in misfiled
  BY DEF WsInv, DataInv, DataForward

LEMMA ApplyTold ==
  ASSUME WsInv, ToldInv, NEW r \in Request, NEW b \in shown, ApplyChangeSet(r, b)
  PROVE  ToldInv'
<1>1. /\ UNCHANGED <<commits, published, pending, completed, back, misfiled, overtaken>>
      /\ op = NoOp
  BY DEF ApplyChangeSet, Acquires, gitVars, fileVars, ghostVars
<1>2. CASE AlreadyDone(r)
  <2>1. PICK what : what = completed[r].out
    OBVIOUS
  <2>2. op' = NoOp /\ told' = Hears(what, r) /\ what # "PUSH_PENDING" /\ told \in ToldRow
    BY <1>1, <1>2, <2>1
       DEF ApplyChangeSet, WsInv, DataInv, FilesOK, CompletedTransaction
  <2>3. CASE what = "STALE_REVISION"
    <3>1. told'.STALE_REVISION = told.STALE_REVISION \cup Made(r)
      BY <2>2, <2>3, HearsFacts
    <3>2. ~back => \A c \in published : commits[c].req = r => r \in misfiled
      BY <2>1, <2>3, StaleIsOff
    <3> QED
      BY <1>1, <2>1, <2>2, <2>3, <3>1, <3>2, TellsStale
  <2>4. CASE what # "STALE_REVISION"
    <3>1. told' = told
      BY <2>2, <2>4 DEF Hears
    <3> QED
      BY <1>1, <2>2, <3>1, IdleTold, ToldSame
  <2> QED
    BY <2>3, <2>4
<1>3. CASE ~AlreadyDone(r)
  <2> DEFINE row == [NoOp EXCEPT !.pc = "recover", !.kind = "txn", !.req = r, !.base = b]
  <2>1. row.pc = "recover" /\ row.req = r
    BY DEF NoOp
  <2>2. op' = row /\ told' = told /\ completed[r].out = "none"
    BY <1>3 DEF ApplyChangeSet, AlreadyDone
  <2> HIDE DEF row
  <2>3. FirstOutcome' /\ NewIsUntold'
    BY <1>1, <2>1, <2>2 DEF FirstOutcome, NewIsUntold
  <2> QED
    BY <1>1, <2>2, <2>3, ToldSame
<1> QED
  BY <1>2, <1>3

\* The steps at which an operation looks, fetches or resets.
LEMMA QuietTold ==
  ASSUME WsInv, ToldInv,
         \/ EnsureRepository \/ RecoverPending \/ Classify \/ AddWorktree \/ Recheck
         \/ GetRuntime \/ WorkspaceStatus \/ Crash
  PROVE  ToldInv'
<1>1. UNCHANGED <<commits, published, pending, completed, back, misfiled, overtaken>>
  BY DEF EnsureRepository, RecoverPending, Classify, AddWorktree, Recheck, GetRuntime,
     WorkspaceStatus, Crash, gitVars, fileVars, ghostVars
<1>2. op \in OpRow /\ FirstOutcome
  BY DEF WsInv, OpInv, ToldInv
<1>3. CASE Ends(FALSE, "error")
  BY <1>1, <1>3, EndsTold
<1>4. CASE told' = told /\ op' = NoOp
  BY <1>1, <1>4, IdleTold, ToldSame
<1>5. CASE /\ told' = told /\ op'.pc \in {"recover", "classify", "finalize", "push"}
           /\ op'.kind = op.kind /\ op'.req = op.req /\ op'.own = op.own
           /\ op.pc \in {"ensure", "recover", "classify", "recheck"}
  BY <1>1, <1>2, <1>5, ToldSame DEF FirstOutcome, NewIsUntold
<1>6. CASE /\ told' = told /\ op'.pc \in {"sync", "edit", "close"}
           /\ op'.kind = op.kind /\ op'.req = op.req /\ op'.own = op.own
           /\ op'.rec = op.rec /\ op'.out = op.out
           /\ op.pc \in {"recover", "worktree"}
           /\ op'.pc = "close" => op.pc # "worktree"
  BY <1>1, <1>2, <1>6, ToldSame DEF FirstOutcome, NewIsUntold
<1>7. CASE /\ told' = told /\ op'.pc = "close"
           /\ op'.kind = op.kind /\ op'.req = op.req /\ op'.own = op.own
           /\ op.pc \in {"classify", "recheck"}
  BY <1>1, <1>2, <1>7, ToldSame DEF FirstOutcome, NewIsUntold
<1>8. CASE told' = told /\ op'.pc \in {"ensure", "recover"} /\ op'.kind # "txn"
  BY <1>1, <1>8, ToldSame DEF FirstOutcome, NewIsUntold
<1>9. CASE EnsureRepository
  <2>1. Goes("recover") /\ told' = told =>
          /\ op'.pc = "recover" /\ op'.kind = op.kind /\ op'.req = op.req /\ op'.own = op.own
    BY <1>2, GoesFields DEF Pc
  <2> QED
    BY <1>3, <1>5, <1>9, <2>1 DEF EnsureRepository
<1>10. CASE RecoverPending
  <2>1. Goes("sync") => /\ op'.pc = "sync" /\ op'.kind = op.kind /\ op'.req = op.req
                        /\ op'.own = op.own /\ op'.rec = op.rec /\ op'.out = op.out
    BY <1>2, GoesFields DEF Pc
  <2>2. op' = [op EXCEPT !.pc = "classify", !.seen = remote, !.rec = pending] =>
          /\ op'.pc = "classify" /\ op'.kind = op.kind /\ op'.req = op.req /\ op'.own = op.own
    BY <1>2 DEF OpRow
  <2> QED
    BY <1>3, <1>5, <1>6, <1>10, <2>1, <2>2 DEF RecoverPending
<1>11. CASE Classify \/ Recheck
  <2>1. /\ op.pc \in {"classify", "recheck"}
        /\ \/ op' = [op EXCEPT !.pc = "finalize"]
           \/ op' = [op EXCEPT !.pc = "close", !.out = "STALE_REVISION", !.step = 1]
           \/ op' = [op EXCEPT !.pc = "push"]
           \/ Ends(FALSE, "error")
        /\ told' = told \/ Ends(FALSE, "error")
    BY <1>11 DEF Classify, Recheck
  <2>2. CASE op' = [op EXCEPT !.pc = "finalize"] \/ op' = [op EXCEPT !.pc = "push"]
    <3>1. /\ op'.pc \in {"finalize", "push"} /\ op'.kind = op.kind /\ op'.req = op.req
          /\ op'.own = op.own
      BY <1>2, <2>2 DEF OpRow
    <3> QED
      BY <1>3, <1>5, <2>1, <3>1
  <2>3. CASE op' = [op EXCEPT !.pc = "close", !.out = "STALE_REVISION", !.step = 1]
    <3>1. op'.pc = "close" /\ op'.kind = op.kind /\ op'.req = op.req /\ op'.own = op.own
      BY <1>2, <2>3 DEF OpRow
    <3> QED
      BY <1>3, <1>7, <2>1, <3>1
  <2> QED
    BY <1>3, <2>1, <2>2, <2>3
<1>12. CASE AddWorktree
  <2>1. Goes("edit") => /\ op'.pc = "edit" /\ op'.kind = op.kind /\ op'.req = op.req
                        /\ op'.own = op.own /\ op'.rec = op.rec /\ op'.out = op.out
    BY <1>2, GoesFields DEF Pc
  <2> QED
    BY <1>3, <1>6, <1>12, <2>1 DEF AddWorktree
<1>13. CASE GetRuntime
  <2>1. op'.pc = "ensure" /\ op'.kind = "init"
    BY <1>13, NoOpRow DEF GetRuntime, OpRow, NoOp
  <2> QED
    BY <1>8, <1>13, <2>1 DEF GetRuntime
<1>14. CASE WorkspaceStatus
  <2>1. op'.pc = "recover" /\ op'.kind = "status"
    BY <1>14, NoOpRow DEF WorkspaceStatus, OpRow, NoOp
  <2> QED
    BY <1>8, <1>14, <2>1 DEF WorkspaceStatus
<1>15. CASE Crash
  BY <1>4, <1>15 DEF Crash
<1> QED
  BY <1>9, <1>10, <1>11, <1>12, <1>13, <1>14, <1>15

LEMMA SyncTold ==
  ASSUME WsInv, ToldInv, SyncCleanWorkspace
  PROVE  ToldInv'
<1>1. /\ UNCHANGED <<commits, published, pending, completed, back, misfiled>>
      /\ overtaken \subseteq overtaken' /\ op.pc = "sync" /\ pending = None /\ op \in OpRow
  BY DEF SyncCleanWorkspace, gitVars, ghostVars, WsInv, OpInv, StageOK
<1>2. CASE Ends(FALSE, "error") \/ Ends(TRUE, "ok")
  <2>1. op' = NoOp /\ told' = told
    BY <1>2, EndsFacts, NotHeard DEF WsInv, DataInv
  <2> QED
    BY <1>1, <2>1, IdleTold, ToldSame
<1>3. CASE Goes("worktree") /\ told' = told
  <2>1. /\ op'.pc = "worktree" /\ op'.kind = op.kind /\ op'.req = op.req
        /\ op'.own = op.own /\ op'.rec = op.rec /\ op'.out = op.out
    BY <1>1, <1>3, GoesFields DEF Pc
  <2>2. FirstOutcome' /\ NewIsUntold'
    BY <1>1, <2>1 DEF ToldInv, FirstOutcome, NewIsUntold
  <2> QED
    BY <1>1, <1>3, <2>2, ToldSame
<1>4. CASE /\ op.kind = "txn" /\ Ends(FALSE, "STALE_REVISION")
           /\ ~op.own /\ FinishedOwn => op.req \in overtaken'
  <2> DEFINE r == op.req
  <2>1. r \in Request /\ op' = NoOp /\ told \in ToldRow
    BY <1>4 DEF WsInv, DataInv, FilesOK, OpInv, TxnOK, Ends
  <2>2. PICK what : what = "STALE_REVISION"
    OBVIOUS
  <2>3. told' = Hears(what, r)
    BY <1>4, <2>2 DEF Ends
  <2>4. told'.STALE_REVISION = told.STALE_REVISION \cup Made(r)
    BY <2>1, <2>2, <2>3, HearsFacts
  <2>5. ASSUME ~back, NEW c \in published, commits[c].req = r
        PROVE  r \in misfiled \/ (r \in overtaken' /\ completed[r].out = "COMMITTED")
    <3>1. completed[r].out # "none"
      BY <1>1, <2>1, <2>5, WorkspaceAssumption DEF WsInv, DataInv, Recorded
    <3>2. completed[r].out = "STALE_REVISION" => r \in misfiled
      BY <2>1, <2>5, StaleIsOff
    <3>3. op.own => completed[r].out = "STALE_REVISION"
      BY <1>1 DEF WsInv, OpInv, StageOK
    <3>4. ~op.own => completed[r].out = op.out /\ op.rec.req = r
      BY <1>1, <1>4, <3>1 DEF ToldInv, FirstOutcome
    <3>5. op.out \in {"none", "COMMITTED", "STALE_REVISION"}
      BY <1>1 DEF OpRow
    <3> QED
      BY <1>4, <3>1, <3>2, <3>3, <3>4, <3>5 DEF FinishedOwn
  <2> QED
    BY <1>1, <2>1, <2>4, <2>5, TellsStale
<1> QED
  BY <1>2, <1>3, <1>4 DEF SyncCleanWorkspace

LEMMA FinalizeTold ==
  ASSUME WsInv, ToldInv, FinalizePending
  PROVE  ToldInv'
<1>1. /\ UNCHANGED <<commits, published, pending, completed, back, overtaken>>
      /\ misfiled \subseteq misfiled' /\ op.pc = "finalize" /\ op \in OpRow
  BY DEF FinalizePending, FinalizeThrows, gitVars, fileVars, WsInv, OpInv
<1>2. CASE Ends(FALSE, "error")
  BY <1>1, <1>2, EndsTold
<1>3. CASE ~op.own /\ PushFails
  <2>1. Ends(FALSE, "error")
    BY <1>3 DEF PushFails
  <2> QED
    BY <1>2, <2>1
<1>4. ASSUME NEW o \in {"COMMITTED", "STALE_REVISION"}, told' = told,
             op' = [op EXCEPT !.pc = "close", !.out = o, !.step = 1]
      PROVE  ToldInv'
  <2>1. op'.pc = "close" /\ op'.kind = op.kind /\ op'.req = op.req /\ op'.own = op.own
    BY <1>1, <1>4, CloseFields
  <2>2. FirstOutcome' /\ NewIsUntold'
    BY <1>1, <2>1 DEF ToldInv, FirstOutcome, NewIsUntold
  <2> QED
    BY <1>1, <1>4, <2>2, ToldSame
<1> QED
  BY <1>2, <1>3, <1>4 DEF FinalizePending, FinalizeThrows

\* A record that is made again says what it said: a commit that was told stale is
\* recorded as stale, and one that is overtaken as committed.
LEMMA CloseTold ==
  ASSUME WsInv, ToldInv, ClosePending
  PROVE  ToldInv'
<1> DEFINE r == op.rec.req
<1>1. /\ UNCHANGED <<commits, published, back, misfiled, overtaken>>
      /\ op.pc = "close" /\ op \in OpRow /\ op.step \in 1..3 /\ RecOK(op.rec)
      /\ op.out \in {"COMMITTED", "STALE_REVISION"}
  BY DEF ClosePending, gitVars, ghostVars, WsInv, OpInv, CloseOK, OpRow
<1>2. r \in Request /\ completed \in [Request -> CompletedTransaction]
  BY <1>1 DEF RecOK, PendingTransaction, WsInv, DataInv, FilesOK
<1>3. CASE op.step = 1
  <2>1. /\ completed' = [completed EXCEPT ![r] = [out |-> op.out, commit |-> op.rec.commit]]
        /\ pending' = pending /\ told' = told /\ op' = [op EXCEPT !.step = @ + 1]
    BY <1>3 DEF ClosePending, Closing
  <2>2. /\ op'.pc = "close" /\ op'.kind = op.kind /\ op'.req = op.req /\ op'.own = op.own
        /\ op'.rec = op.rec /\ op'.out = op.out /\ op'.step = 2
    BY <1>1, <1>3, <2>1, StepFields
  <2>3. /\ completed'[r].out = op.out
        /\ \A q \in Request : q # r => completed'[q] = completed[q]
    BY <1>2, <2>1
  <2>4. pending # None /\ pending = op.rec /\ commits[op.rec.commit].req = r
    BY <1>1, <1>3 DEF WsInv, OpInv, CloseOK, RecOK
  <2>5. ToldOfCommits' /\ NewIsUntold'
    BY <1>1, <2>1, <2>2 DEF ToldInv, ToldOfCommits, NewIsUntold, N
  <2>6. FirstOutcome'
    <3>1. op.kind = "txn" => op.req \in Request
      BY DEF WsInv, OpInv, TxnOK
    <3> QED
      BY <1>1, <1>3, <2>2, <2>3, <3>1 DEF ToldInv, FirstOutcome
  <2>7. ASSUME ~back, NEW c \in told.STALE_REVISION PROVE RuledOut(c)'
    <3>1. RuledOut(c) /\ commits[c].req \in Request
      BY <2>7 DEF ToldInv, ToldForward, ToldOfCommits
    <3>2. CASE c \notin published \/ commits[c].req \in misfiled
      BY <1>1, <3>2 DEF RuledOut
    <3>3. CASE commits[c].req \in overtaken /\ completed[commits[c].req].out = "COMMITTED"
      <4>1. ASSUME commits[c].req = r, op.out = "STALE_REVISION" PROVE r \in misfiled
        <5>1. completed[r].commit = op.rec.commit
          BY <1>1, <2>4, <2>7, <3>3, <4>1 DEF WsInv, DataInv, DataForward
        <5>2. op.rec.commit \in published
          BY <1>2, <3>3, <4>1, <5>1 DEF WsInv, DataInv, Recorded
        <5> QED
          BY <1>1, <2>7, <4>1, <5>2 DEF WsInv, OpInv, OpForward
      <4> QED
        BY <1>1, <2>3, <3>1, <3>3, <4>1 DEF RuledOut
    <3> QED
      BY <3>1, <3>2, <3>3 DEF RuledOut
  <2>8. ASSUME ~back, op.rec.commit \in told.STALE_REVISION
        PROVE  op.out = "STALE_REVISION" \/ r \in misfiled
    <3>1. completed[r].out = "STALE_REVISION" \/ r \in misfiled
      BY <2>4, <2>8 DEF ToldInv, ToldForward
    <3>2. op.out = "COMMITTED" => op.rec.commit \in published
      BY <1>1 DEF WsInv, OpInv, CloseOK
    <3> QED
      BY <1>1, <1>2, <2>4, <2>8, <3>1, <3>2, StaleIsOff
  <2>9. ToldForward'
    BY <1>1, <2>1, <2>3, <2>4, <2>7, <2>8 DEF ToldForward
  <2> QED
    BY <2>5, <2>6, <2>9 DEF ToldInv
<1>4. CASE op.step = 2
  <2>1. /\ pending' = None /\ completed' = completed /\ told' = told
        /\ op' = [op EXCEPT !.step = @ + 1]
    BY <1>4 DEF ClosePending, Closing
  <2>2. /\ op'.pc = "close" /\ op'.kind = op.kind /\ op'.req = op.req /\ op'.own = op.own
        /\ op'.rec = op.rec /\ op'.out = op.out /\ op'.step = 3
    BY <1>1, <1>4, <2>1, StepFields
  <2>3. FirstOutcome' /\ NewIsUntold' /\ ToldOfCommits'
    BY <1>1, <1>4, <2>1, <2>2
       DEF ToldInv, ToldOfCommits, FirstOutcome, NewIsUntold, N
  <2>4. ToldForward'
    BY <1>1, <2>1 DEF ToldInv, ToldForward, RuledOut
  <2> QED
    BY <2>3, <2>4 DEF ToldInv
<1>5. CASE op.step = 3
  <2>1. UNCHANGED <<completed, pending>> /\ Closed
    BY <1>5 DEF ClosePending, Closing
  <2>2. CASE Ends(TRUE, "COMMITTED")
    BY <1>1, <2>1, <2>2, EndsTold
  <2>3. CASE Goes("sync") /\ told' = told
    <3>1. /\ op'.pc = "sync" /\ op'.kind = op.kind /\ op'.req = op.req
          /\ op'.own = op.own /\ op'.rec = op.rec /\ op'.out = op.out
      BY <1>1, <2>3, GoesFields DEF Pc
    <3>2. FirstOutcome' /\ NewIsUntold'
      BY <1>1, <2>1, <3>1 DEF ToldInv, FirstOutcome, NewIsUntold
    <3> QED
      BY <1>1, <2>1, <2>3, <3>2, ToldSame
  <2> QED
    BY <2>1, <2>2, <2>3 DEF Closed
<1> QED
  BY <1>1, <1>3, <1>4, <1>5

\* A push adds the pending commit only, which is not told stale unless misfiled.
LEMMA PushTold ==
  ASSUME WsInv, ToldInv, GitPush
  PROVE  ToldInv'
<1>1. /\ UNCHANGED <<commits, pending, completed, back, misfiled, overtaken>>
      /\ op.pc = "push" /\ op \in OpRow /\ pending # None /\ pending = op.rec
      /\ RecOK(op.rec)
  BY DEF GitPush, headVars, fileVars, ghostVars, WsInv, DataInv, PendingOK, OpInv, StageOK
<1>2. told'.STALE_REVISION = told.STALE_REVISION /\ FirstOutcome' /\ NewIsUntold'
  <2>1. CASE PushFails
    BY <1>1, <2>1, PushFailsFacts, IdleTold
  <2>2. CASE Goes("finalize") /\ told' = told
    <3>1. /\ op'.pc = "finalize" /\ op'.kind = op.kind /\ op'.req = op.req /\ op'.own = op.own
      BY <1>1, <2>2, GoesFields DEF Pc
    <3> QED
      BY <1>1, <2>2, <3>1 DEF ToldInv, FirstOutcome, NewIsUntold
  <2> QED
    BY <2>1, <2>2 DEF GitPush
<1>3. published' \subseteq published \cup {op.rec.commit}
  <2>1. Anc(op.rec.commit) \subseteq published \cup {op.rec.commit}
    BY <1>1 DEF RecOK, WsInv, DataInv, BranchOK
  <2> QED
    BY <2>1 DEF GitPush
<1>4. ToldForward'
  <2> SUFFICES ASSUME ~back PROVE ToldForward'
    BY <1>1 DEF ToldForward
  <2>1. completed[op.rec.req].out # "STALE_REVISION" \/ op.rec.req \in misfiled
    BY <1>1 DEF WsInv, OpInv, OpForward
  <2>2. ASSUME NEW c \in told.STALE_REVISION PROVE RuledOut(c)'
    <3>1. RuledOut(c)
      BY DEF ToldInv, ToldForward
    <3>2. CASE c = op.rec.commit
      BY <1>1, <2>1, <3>2 DEF ToldInv, ToldForward, RuledOut, RecOK
    <3>3. CASE c # op.rec.commit
      BY <1>1, <1>3, <3>1, <3>3 DEF RuledOut
    <3> QED
      BY <3>2, <3>3
  <2> QED
    BY <1>1, <1>2, <2>2 DEF ToldInv, ToldForward
<1>5. ToldOfCommits'
  BY <1>1, <1>2 DEF ToldInv, ToldOfCommits, N
<1> QED
  BY <1>2, <1>4, <1>5 DEF ToldInv

\* What an operation on one request adds to the history is not told stale.
LEMMA EditTold ==
  ASSUME WsInv, ToldInv, EditAndCommit
  PROVE  ToldInv'
<1> DEFINE r == op.req
<1>1. /\ UNCHANGED <<published, pending, back, misfiled, overtaken>>
      /\ op.pc = "edit" /\ op \in OpRow /\ ~op.own /\ op.kind = "txn" /\ r \in Request
      /\ pending = None /\ completed \in [Request -> CompletedTransaction]
      /\ N \in Nat \ {0} /\ ToldOfCommits
  BY Published DEF EditAndCommit, ghostVars, WsInv, DataInv, FilesOK, OpInv, StageOK, TxnOK,
     ToldInv
<1>2. CASE Ends(FALSE, "error") /\ UNCHANGED <<completed, commits>>
  BY <1>1, <1>2, EndsTold
<1>3. CASE /\ Ends(TRUE, "NOOP") /\ UNCHANGED commits
           /\ completed' = [completed EXCEPT ![r] = [out |-> "NOOP", commit |-> op.base]]
  <2>1. op' = NoOp /\ told' = told
    BY <1>3, EndsFacts, NotHeard DEF WsInv, DataInv
  <2>2. \A q \in Request : q # r => completed'[q] = completed[q]
    BY <1>1, <1>3
  <2>3. ~back => completed[r].out = "none"
    BY <1>1 DEF WsInv, OpInv, OpForward
  <2>4. ToldForward'
    BY <1>1, <1>3, <2>1, <2>2, <2>3 DEF ToldInv, ToldForward, ToldOfCommits, RuledOut
  <2>5. ToldOfCommits'
    BY <1>1, <1>3, <2>1 DEF ToldOfCommits, N
  <2> QED
    BY <2>1, <2>4, <2>5, IdleTold DEF ToldInv
<1>4. CASE /\ commits' = Append(commits, NextCommit(r, op.base))
           /\ op' = [op EXCEPT !.pc = "pend", !.own = TRUE,
                        !.rec = [req |-> r, base |-> op.base, commit |-> N + 1]]
           /\ UNCHANGED <<completed, runtime, told>>
  <2> DEFINE rec == [req |-> r, base |-> op.base, commit |-> N + 1]
  <2>1. rec.commit = N + 1 /\ op' = [op EXCEPT !.pc = "pend", !.own = TRUE, !.rec = rec]
    BY <1>4
  <2> HIDE DEF rec
  <2>2. op'.rec.commit = N + 1 /\ op'.own
    BY <1>1, <2>1 DEF OpRow
  <2>3. N' = N + 1 /\ \A c \in 1..N : commits'[c] = commits[c]
    BY <1>1, <1>4 DEF N, WsInv, DataInv, GraphOK
  <2>4. ToldOfCommits' /\ FirstOutcome' /\ NewIsUntold'
    <3>1. ToldOfCommits'
      <4>1. told' = told /\ 1..N \subseteq 1..N'
        BY <1>1, <1>4, <2>3
      <4> QED
        BY <1>1, <2>3, <4>1 DEF ToldOfCommits
    <3>2. N + 1 \notin told.STALE_REVISION
      BY <1>1 DEF ToldOfCommits
    <3> QED
      BY <1>4, <2>2, <3>1, <3>2 DEF FirstOutcome, NewIsUntold
  <2>5. ToldForward'
    BY <1>1, <1>4, <2>3 DEF ToldInv, ToldForward, ToldOfCommits, RuledOut
  <2> QED
    BY <2>4, <2>5 DEF ToldInv
<1> QED
  BY <1>2, <1>3, <1>4 DEF EditAndCommit, validateDiff, N

LEMMA WritePendingTold ==
  ASSUME WsInv, ToldInv, WritePending
  PROVE  ToldInv'
<1>1. /\ UNCHANGED <<commits, published, completed, back, misfiled, overtaken, told>>
      /\ op.pc = "pend" /\ op \in OpRow /\ pending' = op.rec /\ Goes("recheck") /\ op.own
  BY DEF WritePending, gitVars, ghostVars, WsInv, OpInv, StageOK
<1>2. op'.pc = "recheck" /\ op'.own = op.own
  BY <1>1, GoesFields DEF Pc
<1>3. ToldOfCommits' /\ FirstOutcome' /\ NewIsUntold'
  BY <1>1, <1>2 DEF ToldInv, ToldOfCommits, FirstOutcome, NewIsUntold, N
<1>4. ToldForward'
  BY <1>1 DEF ToldInv, ToldForward, NewIsUntold, RuledOut
<1> QED
  BY <1>3, <1>4 DEF ToldInv

LEMMA OwnerTold ==
  ASSUME WsInv, ToldInv, OwnerMoves
  PROVE  ToldInv'
<1>1. /\ UNCHANGED <<pending, completed, op, told, misfiled, overtaken>>
      /\ N \in Nat \ {0} /\ ToldOfCommits
  BY Published DEF OwnerMoves, fileVars, WsInv, DataInv, ToldInv
<1>2. PICK c \in Anc(remote) :
        /\ \/ commits' = Append(commits, NextCommit(None, c)) /\ remote' = N + 1
           \/ c # remote /\ remote' = c /\ UNCHANGED commits
        /\ back' = (back \/ c # remote) /\ published' = published \cup {remote'}
  BY DEF OwnerMoves, N
<1>3. FirstOutcome' /\ NewIsUntold'
  BY <1>1 DEF ToldInv, FirstOutcome, NewIsUntold
<1>4. CASE commits' = Append(commits, NextCommit(None, c)) /\ remote' = N + 1
  <2>1. N' = N + 1 /\ \A d \in 1..N : commits'[d] = commits[d]
    BY <1>1, <1>4 DEF N, WsInv, DataInv, GraphOK
  <2>2. ToldOfCommits'
    BY <1>1, <2>1 DEF ToldOfCommits
  <2>3. ToldForward'
    <3>1. \A d \in told.STALE_REVISION : d \in 1..N /\ d # N + 1
      BY <1>1 DEF ToldOfCommits
    <3>2. \A d \in told.STALE_REVISION : RuledOut(d) => RuledOut(d)'
      BY <1>1, <1>2, <1>4, <2>1, <3>1 DEF RuledOut
    <3> QED
      BY <1>1, <1>2, <3>2 DEF ToldInv, ToldForward
  <2> QED
    BY <1>3, <2>2, <2>3 DEF ToldInv
<1>5. CASE c # remote /\ UNCHANGED commits
  BY <1>1, <1>2, <1>3, <1>5 DEF ToldInv, ToldOfCommits, ToldForward, N
<1> QED
  BY <1>2, <1>4, <1>5

LEMMA StepTold == WsInv /\ ToldInv /\ [WsNext]_wsVars => ToldInv'
<1> SUFFICES ASSUME WsInv, ToldInv, [WsNext]_wsVars PROVE ToldInv'
  OBVIOUS
<1>1. CASE UNCHANGED wsVars
  <2>1. UNCHANGED <<commits, published, pending, completed, back, misfiled, overtaken, told, op>>
    BY <1>1 DEF wsVars, gitVars, fileVars, ghostVars
  <2>2. FirstOutcome' /\ NewIsUntold'
    BY <2>1 DEF ToldInv, FirstOutcome, NewIsUntold
  <2> QED
    BY <2>1, <2>2, ToldSame
<1>2. CASE OpStep
  BY <1>2, QuietTold, PushTold, FinalizeTold, CloseTold, SyncTold, EditTold, WritePendingTold
     DEF OpStep
<1>3. CASE GetRuntime \/ WorkspaceStatus \/ Crash
  BY <1>3, QuietTold
<1>4. CASE \E r \in Request, b \in shown : ApplyChangeSet(r, b)
  BY <1>4, ApplyTold
<1>5. CASE OwnerMoves
  BY <1>5, OwnerTold
<1> QED
  BY <1>1, <1>2, <1>3, <1>4, <1>5 DEF WsNext, FailsBusy

(***************************************************************************)
(* THEOREM. What was told stays true: a commit whose request was told      *)
(* STALE_REVISION is off the branch and never pushed again, unless it was  *)
(* misfiled, or finished by the very call that was told so and then on     *)
(* record as committed (ToldInv, while the owner does not move the branch  *)
(* back; recoverPending, syncCleanWorkspace, archiveStalePending).         *)
(***************************************************************************)
THEOREM ToldInvariant == WsSpec => [](WsInv /\ ToldInv)
<1>1. WsInit => WsInv /\ ToldInv
  <2>1. ASSUME WsInit PROVE ToldInv
    BY <2>1, NoOpFields
       DEF WsInit, ToldInv, ToldOfCommits, FirstOutcome, ToldForward, NewIsUntold
  <2> QED
    BY <2>1, InitInv
<1>2. (WsInv /\ ToldInv) /\ [WsNext]_wsVars => (WsInv /\ ToldInv)'
  BY StepKeeps, StepTold
<1> QED
  BY <1>1, <1>2, PTL DEF WsSpec

(***************************************************************************)
(* THEOREM. An outcome is true (OutcomeIsTrue): what is recorded as        *)
(* committed has been on the branch and is in what callers read, and what  *)
(* was told stale is not on the branch, up to the exceptions RecordedIsSo  *)
(* and ReadsOwnWrites name.                                                *)
(***************************************************************************)
THEOREM OutcomeTheorem == WsSpec => []OutcomeIsTrue
<1>1. WsInv /\ ToldInv => RecordedIsSo
  <2> SUFFICES ASSUME WsInv, ToldInv PROVE RecordedIsSo
    OBVIOUS
  <2>1. \A r \in Request : completed[r].out = "COMMITTED" => completed[r].commit \in published
    BY DEF WsInv, DataInv, Recorded
  <2>2. ASSUME NEW c \in told.STALE_REVISION
        PROVE  \/ c \notin Anc(remote) \/ back \/ commits[c].req \in misfiled
               \/ commits[c].req \in overtaken /\ completed[commits[c].req].out = "COMMITTED"
    <3>1. Anc(remote) \subseteq published
      BY DEF WsInv, DataInv, BranchOK
    <3> QED
      BY <3>1 DEF ToldInv, ToldForward, RuledOut
  <2> QED
    BY <2>1, <2>2 DEF RecordedIsSo
<1>2. WsInv => ReadsOwnWrites
  BY DEF WsInv, DataInv, DataForward, ReadsOwnWrites
<1> QED
  BY <1>1, <1>2, ToldInvariant, PTL DEF OutcomeIsTrue
=============================================================================
