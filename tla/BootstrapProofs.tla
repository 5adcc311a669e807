-------------------------- MODULE BootstrapProofs ---------------------------
(***************************************************************************)
(* What Bootstrap promises for every number of pods, attempts and commits: *)
(* the bootstrap's row can be believed, and the owner's work is kept.      *)
(***************************************************************************)
EXTENDS Bootstrap, SequenceTheorems, TLAPS

\* Nobody but the bootstrap wrote the commit or one before it; it has the second
\* anchor; and the two together: a repository of the bootstrap's alone is whole.
OursAlone(c) == \A d \in History(log, c) : log[d].by = "ceo"
Ignores(c)   == log[c].tree[".ceoignore"] = "file"
Whole(c)     == OursAlone(c) => Ignores(c)

\* The repository had content when it was bound.
Imported == log # <<>> /\ log[1].by = "import"

\* A commit's history is its parent's and itself, all of it older, and closed.
GraphInv ==
  \A c \in 1..Len(log) :
    /\ log[c].parent < c
    /\ log[c].past \subseteq 1..c /\ c \in log[c].past
    /\ log[c].past \ {c} \subseteq History(log, log[c].parent)
    /\ \A d \in log[c].past : log[d].past \subseteq log[c].past

\* What the bootstrap writes alone starts with the README and nothing else, then
\* has both anchors, and keeps them.
ShapeInv ==
  \A c \in 1..Len(log) : OursAlone(c) =>
    /\ isPartialFreshBootstrap(log[c]) \/ Ignores(c)
    /\ \A d \in log[c].past : Ignores(d) => Ignores(c)

\* In an imported repository no commit initializes, so none looks like a partial
\* bootstrap, and the branch is there.
ImportInv ==
  /\ head = 0 <=> log = <<>>
  /\ NeverInjected
  /\ Imported => \A c \in 1..Len(log) :
       ~log[c].init /\ (log[c].by = "ceo" => log[c].parent # 0)

\* What an attempt relies on at each place.
RunOK(p) ==
  /\ run[p].at \in {"idle", "checked"} => run[p].attempt = 0
  /\ run[p].at \notin {"idle", "checked"} => run[p].attempt \in 1..row.attempt
  /\ run[p].at \in {"idle", "checked", "repository", "ref", "missing", "put"} =>
       run[p].manifest = {}
  /\ Imported => run[p].at \notin {"missing", "put"} /\ ".ceoignore" \notin run[p].manifest
  /\ run[p].at = "reconcile" =>
       /\ run[p].head \in History(log, head) \cup {0}
       /\ run[p].manifest \in {{}, Anchor}
  /\ run[p].at \in {"reconcile", "update", "verify", "mark"} => head # 0
  /\ run[p].at \in {"update", "verify", "mark"} => "README.md" \in run[p].manifest
  /\ run[p].at = "update" =>
       /\ run[p].made \in 1..Len(log)
       /\ ".ceoignore" \in run[p].manifest \/ Whole(run[p].made)
  /\ run[p].at = "verify" => ".ceoignore" \in run[p].manifest \/ Whole(head)
  /\ run[p].at = "mark" =>
       /\ run[p].head \in 1..Len(log) /\ Whole(run[p].head)
       /\ log[run[p].head].tree["README.md"] = "file"
       /\ seen[run[p].attempt] = run[p].head

\* No two pods run one attempt, and the row's attempt runs only while the row
\* says so.
FenceInv ==
  /\ \A p, q \in Pod : run[p].attempt = run[q].attempt /\ run[p].attempt # 0 => p = q
  /\ row.state # "APPLYING" =>
       \A p \in Pod : run[p].attempt # 0 => run[p].attempt # row.attempt

ReadyInv ==
  row.state = "READY" =>
    /\ row.ready \in 1..Len(log) /\ Whole(row.ready)
    /\ row.attempt \in Attempt

BootInv ==
  /\ BootTypeOK /\ RowLoads /\ ReadyWasVerified /\ ReadyInv
  /\ GraphInv /\ ShapeInv /\ ImportInv /\ FenceInv
  /\ \A p \in Pod : RunOK(p)

\* What a step leaves of the repository: commits stay, and so does what is on the
\* branch; an imported repository was one before.
Grows ==
  /\ Len(log) <= Len(log')
  /\ \A c \in 1..Len(log) : log'[c] = log[c]
  /\ History(log, head) \subseteq History(log', head')
  /\ Imported' => Imported

LogStep ==
  /\ log' \in Seq(CommitRow) /\ Len(log') <= MaxCommits /\ head' \in 0..Len(log')
  /\ Grows /\ GraphInv' /\ ShapeInv' /\ ImportInv'

-----------------------------------------------------------------------------
(* The repository.                                                         *)

\* A commit's history is of commits that are there, and ends with it.
LEMMA HistoryIsThere ==
  ASSUME BootTypeOK, GraphInv, NEW c \in 0..Len(log)
  PROVE  /\ History(log, c) \subseteq 1..c
         /\ c # 0 => c \in History(log, c) /\ History(log, c) = log[c].past
         /\ \A d \in History(log, c) : History(log, d) \subseteq History(log, c)
BY DEF BootTypeOK, GraphInv, History

\* Commits are immutable: what is true of one stays true.
LEMMA CommitsStay ==
  ASSUME BootTypeOK, GraphInv, Len(log) <= Len(log'),
         \A c \in 1..Len(log) : log'[c] = log[c],
         NEW c \in 0..Len(log)
  PROVE  /\ History(log', c) = History(log, c)
         /\ OursAlone(c)' <=> OursAlone(c)
         /\ c # 0 => (Ignores(c)' <=> Ignores(c)) /\ (Whole(c)' <=> Whole(c))
<1>1. History(log', c) = History(log, c)
  BY DEF History, BootTypeOK
<1>2. \A d \in History(log, c) : log'[d] = log[d]
  BY HistoryIsThere DEF BootTypeOK
<1>3. OursAlone(c)' <=> OursAlone(c)
  BY <1>1, <1>2 DEF OursAlone
<1>4. c # 0 => (Ignores(c)' <=> Ignores(c))
  BY DEF Ignores, BootTypeOK
<1>. QED  BY <1>1, <1>3, <1>4 DEF Whole

LEMMA CommitFields ==
  ASSUME NEW t, NEW par, NEW i, NEW by, NEW x, x = MakeCommit(t, par, i, by)
  PROVE  x.tree = t /\ x.parent = par /\ x.init = i /\ x.by = by
BY Zenon DEF MakeCommit

LEMMA Appended ==
  ASSUME BootTypeOK, NEW x, log' = Append(log, x)
  PROVE  /\ Len(log') = New /\ log'[New] = x /\ log' # <<>>
         /\ \A c \in 1..Len(log) : log'[c] = log[c]
BY DEF BootTypeOK, New

\* A new commit is fit to be one of the bootstrap's own.
Fits(t, par, x) ==
  OursAlone(par) =>
    /\ isPartialFreshBootstrap(x) \/ t[".ceoignore"] = "file"
    /\ par # 0 /\ Ignores(par) => t[".ceoignore"] = "file"

LEMMA GraphGrows ==
  ASSUME BootTypeOK, GraphInv, ShapeInv, NEW t \in Tree, NEW par \in 0..Len(log),
         NEW i \in BOOLEAN, NEW by \in {"ceo", "owner"}, Room, NEW n, n = New,
         by = "ceo" => Fits(t, par, MakeCommit(t, par, i, by)),
         log' = Append(log, MakeCommit(t, par, i, by))
  PROVE  /\ log' \in Seq(CommitRow) /\ Len(log') <= MaxCommits
         /\ GraphInv' /\ ShapeInv'
         /\ Len(log') = n /\ History(log', n) = History(log, par) \cup {n}
         /\ OursAlone(n)' => by = "ceo" /\ OursAlone(par)
         /\ Imported' => Imported
<1>. DEFINE x == MakeCommit(t, par, i, by)
<1>1. /\ Len(log') = n /\ log'[n] = x /\ log' # <<>>
      /\ \A c \in 1..Len(log) : log'[c] = log[c]
  BY Appended
<1>2. /\ History(log, par) \subseteq 1..par
      /\ \A d \in History(log, par) : History(log, d) \subseteq History(log, par)
  BY HistoryIsThere
<1>3. n \in Commit /\ n \notin History(log, par) /\ par < n /\ Len(log) \in Nat
  BY <1>2, BootstrapAssumption DEF Room, New, Commit, BootTypeOK
<1>4. x \in CommitRow
  BY <1>2, <1>3, BootstrapAssumption DEF MakeCommit, CommitRow, Commit, BootTypeOK, New
<1>5. log' \in Seq(CommitRow) /\ Len(log') <= MaxCommits
  BY <1>1, <1>3, <1>4 DEF BootTypeOK, Commit
<1>6. History(log', n) = History(log, par) \cup {n}
  BY <1>1, <1>3 DEF History, MakeCommit, Commit
<1>7. \A c \in 0..Len(log) : History(log', c) = History(log, c) /\ (OursAlone(c)' <=> OursAlone(c))
  BY <1>1, <1>3, CommitsStay DEF New
<1>8. GraphInv'
  <2>. SUFFICES ASSUME NEW c \in 1..Len(log')
       PROVE /\ log'[c].parent < c
             /\ log'[c].past \subseteq 1..c /\ c \in log'[c].past
             /\ log'[c].past \ {c} \subseteq History(log', log'[c].parent)
             /\ \A d \in log'[c].past : log'[d].past \subseteq log'[c].past
    BY DEF GraphInv
  <2>1. CASE c = n
    <3>1. log'[c].parent = par /\ log'[c].past = History(log, par) \cup {n}
      BY <2>1, <1>1 DEF MakeCommit
    <3>2. \A d \in History(log, par) : d \in 1..Len(log) /\ log'[d].past \subseteq History(log, par)
      BY <1>1, <1>2, <1>3 DEF History
    <3>. QED  BY <2>1, <3>1, <3>2, <1>1, <1>2, <1>3, <1>7 DEF New
  <2>2. CASE c \in 1..Len(log)
    <3>1. /\ log[c].parent < c
          /\ log[c].past \subseteq 1..c /\ c \in log[c].past
          /\ log[c].past \ {c} \subseteq History(log, log[c].parent)
          /\ \A d \in log[c].past : log[d].past \subseteq log[c].past
      BY <2>2 DEF GraphInv
    <3>2. log[c].parent \in 0..Len(log)
      <4>1. log[c] \in CommitRow
        BY <2>2 DEF BootTypeOK
      <4>2. log[c].parent \in Nat
        BY <4>1, BootstrapAssumption DEF CommitRow
      <4>. QED  BY <2>2, <3>1, <4>2, <1>3
    <3>3. \A d \in log[c].past : log'[d] = log[d]
      BY <2>2, <3>1, <1>1, <1>3
    <3>. QED  BY <2>2, <3>1, <3>2, <3>3, <1>1, <1>7
  <2>. QED  BY <2>1, <2>2, <1>1, <1>3 DEF New
<1>9. OursAlone(n)' => by = "ceo" /\ OursAlone(par)
  <2>1. \A d \in History(log, par) : d \in 1..Len(log) /\ log'[d] = log[d]
    BY <1>1, <1>2, <1>3
  <2>2. log'[n].by = by
    BY <1>1 DEF MakeCommit
  <2>. QED  BY <2>1, <2>2, <1>6 DEF OursAlone
<1>10. ShapeInv'
  <2>. SUFFICES ASSUME NEW c \in 1..Len(log'), OursAlone(c)'
       PROVE /\ isPartialFreshBootstrap(log'[c]) \/ Ignores(c)'
             /\ \A d \in log'[c].past : Ignores(d)' => Ignores(c)'
    BY DEF ShapeInv
  <2>1. CASE c = n
    <3>1. by = "ceo" /\ OursAlone(par) /\ log'[c] = x /\ x.tree = t
      BY <2>1, <1>1, <1>9 DEF MakeCommit
    <3>2. isPartialFreshBootstrap(x) \/ t[".ceoignore"] = "file"
      BY <3>1 DEF Fits
    <3>3. ASSUME NEW d \in log'[c].past, Ignores(d)'  PROVE Ignores(c)'
      <4>1. CASE d = n
        BY <4>1, <3>3, <2>1
      <4>2. CASE d # n
        <5>1. d \in History(log, par) /\ par # 0 /\ d \in 1..Len(log)
          BY <4>2, <3>3, <3>1, <1>2, <1>3 DEF History, MakeCommit
        <5>2. Ignores(d)
          BY <5>1, <3>3, <1>1 DEF Ignores
        <5>3. Ignores(par)
          BY <5>1, <5>2, <3>1, <1>3 DEF ShapeInv, History
        <5>. QED  BY <5>1, <5>3, <3>1 DEF Fits, Ignores
      <4>. QED  BY <4>1, <4>2
    <3>. QED  BY <3>1, <3>2, <3>3 DEF Ignores
  <2>2. CASE c \in 1..Len(log)
    <3>1. OursAlone(c) /\ log'[c] = log[c]
      BY <2>2, <1>1, <1>7
    <3>2. log[c].past \subseteq 1..Len(log)
      BY <2>2, <1>3 DEF GraphInv
    <3>. QED  BY <2>2, <3>1, <3>2, <1>1 DEF ShapeInv, Ignores
  <2>. QED  BY <2>1, <2>2, <1>1, <1>3 DEF New
<1>11. Imported' => Imported
  <2>1. CASE log = <<>>
    BY <2>1, <1>1 DEF Imported, MakeCommit, New
  <2>2. CASE log # <<>>
    BY <2>2, <1>1, <1>3 DEF Imported, BootTypeOK
  <2>. QED  BY <2>1, <2>2
<1>. QED  BY <1>1, <1>5, <1>6, <1>8, <1>9, <1>10, <1>11

\* A step that leaves the repository alone.
LEMMA LogStays ==
  ASSUME BootInv, UNCHANGED <<log, head>>
  PROVE  LogStep
<1>1. Grows
  BY DEF Grows, BootInv, BootTypeOK, Imported
<1>2. GraphInv' /\ ShapeInv' /\ ImportInv'
  BY DEF BootInv, GraphInv, ShapeInv, ImportInv, NeverInjected, Imported, OursAlone, Ignores,
         History
<1>. QED  BY <1>1, <1>2 DEF LogStep, BootInv, BootTypeOK

\* A commit known to be whole stays so, and the branch moves on from a whole
\* commit to whole commits only.
LEMMA WholeStays ==
  ASSUME BootInv, LogStep
  PROVE  /\ \A c \in 1..Len(log) : c \in 1..Len(log') /\ (Whole(c)' <=> Whole(c))
         /\ head # 0 => head' # 0 /\ (Whole(head) => Whole(head)')
<1>. USE DEF LogStep, BootInv
<1>1. Len(log) \in Nat /\ Len(log') \in Nat /\ Len(log) <= Len(log')
  BY DEF Grows, BootTypeOK
<1>2. \A c \in 1..Len(log) : c \in 1..Len(log') /\ log'[c] = log[c]
  BY <1>1 DEF Grows
<1>3. \A c \in 1..Len(log) : (Whole(c)' <=> Whole(c)) /\ (Ignores(c)' <=> Ignores(c))
                              /\ (OursAlone(c)' <=> OursAlone(c))
  BY <1>1, <1>2, CommitsStay
<1>4. ASSUME head # 0  PROVE head' # 0 /\ (Whole(head) => Whole(head)')
  <2>1. head \in 1..Len(log) /\ head \in History(log, head)
    BY <1>4, HistoryIsThere DEF BootTypeOK
  <2>2. head \in History(log', head')
    BY <2>1 DEF Grows
  <2>3. head' # 0 /\ head' \in 1..Len(log') /\ History(log', head') = log'[head'].past
    BY <2>2, <1>1 DEF History
  <2>4. ASSUME Whole(head), OursAlone(head)'  PROVE Ignores(head)'
    <3>1. \A d \in log'[head].past : d \in log'[head'].past
      BY <2>2, <2>3 DEF GraphInv
    <3>2. History(log', head) = log'[head].past
      BY <1>4 DEF History
    <3>3. OursAlone(head)
      <4>1. \A d \in History(log', head) : log'[d].by = "ceo"
        BY <2>3, <2>4, <3>1, <3>2 DEF OursAlone
      <4>2. /\ History(log', head) = History(log, head)
            /\ \A d \in History(log, head) : d \in 1..Len(log)
        BY <1>1, <1>2, <2>1, HistoryIsThere DEF History
      <4>. QED  BY <4>1, <4>2, <1>2 DEF OursAlone
    <3>4. log'[head].tree[".ceoignore"] = "file"
      BY <3>3, <2>4, <2>1, <1>2 DEF Whole, Ignores
    <3>. QED  BY <3>4, <2>2, <2>3, <2>4 DEF ShapeInv, Ignores
  <2>. QED  BY <2>3, <2>4 DEF Whole
<1>. QED  BY <1>2, <1>3, <1>4

\* An attempt may still rely on what it did when others do something.
LEMMA OthersGoOn ==
  ASSUME BootInv, LogStep, NEW q \in Pod, run'[q] = run[q],
         row.attempt <= row'.attempt, row'.attempt \in Nat,
         run[q].attempt # 0 => seen'[run[q].attempt] = seen[run[q].attempt]
  PROVE  RunOK(q)'
<1>. USE DEF BootInv
<1>1. RunOK(q)
  OBVIOUS
<1>2. row.attempt \in Nat /\ run[q].attempt \in Nat /\ run[q] \in RunState
  BY BootstrapAssumption DEF BootTypeOK, BootstrapRow, RunState
<1>3. run[q].at \notin {"idle", "checked"} => run[q].attempt # 0
  BY <1>1, <1>2 DEF RunOK
<1>4. /\ \A c \in 1..Len(log) : c \in 1..Len(log') /\ (Whole(c)' <=> Whole(c))
      /\ head # 0 => head' # 0 /\ (Whole(head) => Whole(head)')
  BY WholeStays
<1>5. /\ \A c \in 1..Len(log) : log'[c] = log[c]
      /\ History(log, head) \subseteq History(log', head')
      /\ Imported' => Imported
  BY DEF LogStep, Grows
<1>. DEFINE r == run[q]
<1>6. /\ r.at \in {"idle", "checked"} => r.attempt = 0
      /\ r.at \notin {"idle", "checked"} => r.attempt \in 1..row'.attempt
      /\ r.at \in {"idle", "checked", "repository", "ref", "missing", "put"} => r.manifest = {}
      /\ Imported' => r.at \notin {"missing", "put"} /\ ".ceoignore" \notin r.manifest
  BY <1>1, <1>2, <1>5 DEF RunOK
<1>7. /\ r.at = "reconcile" =>
           r.head \in History(log', head') \cup {0} /\ r.manifest \in {{}, Anchor}
      /\ r.at \in {"reconcile", "update", "verify", "mark"} => head' # 0
      /\ r.at \in {"update", "verify", "mark"} => "README.md" \in r.manifest
      /\ r.at = "verify" => ".ceoignore" \in r.manifest \/ Whole(head)'
  BY <1>1, <1>4, <1>5 DEF RunOK
<1>8. r.at = "update" =>
        r.made \in 1..Len(log') /\ (".ceoignore" \in r.manifest \/ Whole(r.made)')
  BY <1>1, <1>4 DEF RunOK
<1>9. r.at = "mark" =>
         /\ r.head \in 1..Len(log') /\ Whole(r.head)'
         /\ log'[r.head].tree["README.md"] = "file"
         /\ seen'[r.attempt] = r.head
  BY <1>1, <1>3, <1>4, <1>5 DEF RunOK
<1>. QED  BY <1>6, <1>7, <1>8, <1>9 DEF RunOK, Whole, OursAlone, Ignores

\* What validateData accepts, state by state.
LEMMA FitToLoad ==
  ASSUME NEW r
  PROVE  /\ r.state = "APPLYING" /\ r.ready = 0 /\ r.error = "none" => ValidRow(r)
         /\ r.state = "RETRYABLE_FAILURE" /\ r.ready = 0 /\ r.error = "retryable" => ValidRow(r)
         /\ r.state = "MANUAL_RECOVERY" /\ r.ready = 0 /\ r.error = "manual" => ValidRow(r)
         /\ r.state = "READY" /\ r.ready # 0 /\ r.error = "none" => ValidRow(r)
<1>1. ASSUME r.state = "APPLYING", r.ready = 0, r.error = "none"  PROVE ValidRow(r)
  BY <1>1 DEF ValidRow
<1>2. ASSUME r.state = "RETRYABLE_FAILURE", r.ready = 0, r.error = "retryable"  PROVE ValidRow(r)
  BY <1>2 DEF ValidRow
<1>3. ASSUME r.state = "MANUAL_RECOVERY", r.ready = 0, r.error = "manual"  PROVE ValidRow(r)
  BY <1>3 DEF ValidRow
<1>4. ASSUME r.state = "READY", r.ready # 0, r.error = "none"  PROVE ValidRow(r)
  BY <1>4 DEF ValidRow
<1>. QED  BY <1>1, <1>2, <1>3, <1>4

\* The attempt ends in a failure, recorded unless the row has gone on, or with the
\* process.
LEMMA AttemptEnds ==
  ASSUME BootInv, LogStep, NEW p \in Pod,
         \/ Retryable(p) \/ Manual(p)
         \/ run' = [run EXCEPT ![p] = Idle] /\ UNCHANGED <<row, others, seen>>
  PROVE  BootInv'
<1>. USE DEF BootInv
<1>1. row.attempt \in Nat /\ row \in BootstrapRow
  BY BootstrapAssumption DEF BootTypeOK, BootstrapRow
<1>2. /\ run' = [run EXCEPT ![p] = Idle] /\ UNCHANGED <<others, seen>>
      /\ \/ row' = row
         \/ /\ IsCurrent(row, run[p].attempt)
            /\ \/ row' = [row EXCEPT !.state = "RETRYABLE_FAILURE", !.ready = 0, !.error = "retryable"]
               \/ row' = [row EXCEPT !.state = "MANUAL_RECOVERY", !.ready = 0, !.error = "manual"]
  BY DEF Retryable, Manual, Failed, markWorkspaceBootstrapRetryableFailure,
         markWorkspaceBootstrapManualRecovery
<1>3. row' \in BootstrapRow /\ row'.attempt = row.attempt /\ RowLoads'
  <2>1. CASE row' = row
    BY <2>1, <1>1 DEF RowLoads
  <2>2. CASE row' = [row EXCEPT !.state = "RETRYABLE_FAILURE", !.ready = 0, !.error = "retryable"]
    <3>1. row' = [state |-> "RETRYABLE_FAILURE", attempt |-> row.attempt, ready |-> 0,
                  error |-> "retryable"]
      BY <2>2, <1>1 DEF BootstrapRow
    <3>2. row.attempt \in 0..MaxAttempts /\ 0 \in 0..MaxCommits
      BY <1>1, BootstrapAssumption DEF BootstrapRow
    <3>3. row' \in BootstrapRow
      BY <3>1, <3>2 DEF BootstrapRow
    <3>. QED  BY <3>1, <3>3, FitToLoad DEF RowLoads
  <2>3. CASE row' = [row EXCEPT !.state = "MANUAL_RECOVERY", !.ready = 0, !.error = "manual"]
    <3>1. row' = [state |-> "MANUAL_RECOVERY", attempt |-> row.attempt, ready |-> 0,
                  error |-> "manual"]
      BY <2>3, <1>1 DEF BootstrapRow
    <3>2. row.attempt \in 0..MaxAttempts /\ 0 \in 0..MaxCommits
      BY <1>1, BootstrapAssumption DEF BootstrapRow
    <3>3. row' \in BootstrapRow
      BY <3>1, <3>2 DEF BootstrapRow
    <3>. QED  BY <3>1, <3>3, FitToLoad DEF RowLoads
  <2>. QED  BY <2>1, <2>2, <2>3, <1>2
<1>4. row'.state = "READY" => row' = row
  BY <1>1, <1>2 DEF BootstrapRow
<1>5. BootTypeOK'
  BY <1>2, <1>3, BootstrapAssumption DEF BootTypeOK, LogStep, RunState, Idle, Attempt
<1>6. ReadyWasVerified' /\ ReadyInv'
  <2>. SUFFICES ASSUME row'.state = "READY"  PROVE ReadyWasVerified' /\ ReadyInv'
    BY DEF ReadyWasVerified, ReadyInv
  <2>1. row' = row /\ row.ready \in 1..Len(log) /\ Whole(row.ready)
    BY <1>4 DEF ReadyInv
  <2>2. row.ready \in 1..Len(log') /\ log'[row.ready] = log[row.ready]
        /\ \A c \in 1..Len(log) : Whole(c)' <=> Whole(c)
    BY <2>1, WholeStays DEF LogStep, Grows
  <2>3. Whole(row.ready)'
    BY <2>1, <2>2
  <2>. QED  BY <2>1, <2>2, <2>3, <1>2 DEF ReadyWasVerified, ReadyInv
<1>7. FenceInv'
  BY <1>1, <1>2, <1>3 DEF FenceInv, IsCurrent, BootTypeOK, Idle
<1>8. RunOK(p)'
  BY <1>2 DEF RunOK, Idle, BootTypeOK
<1>9. ASSUME NEW q \in Pod, q # p  PROVE RunOK(q)'
  <2>1. run'[q] = run[q]
    BY <1>2, <1>9 DEF BootTypeOK
  <2>. QED  BY <2>1, <1>1, <1>2, <1>3, OthersGoOn
<1>. QED  BY <1>3, <1>5, <1>6, <1>7, <1>8, <1>9 DEF LogStep

\* The attempt goes on, and nothing of the row changes.
LEMMA AttemptGoesOn ==
  ASSUME BootInv, LogStep, NEW p \in Pod, NEW x \in RunState,
         run' = [run EXCEPT ![p] = x], x.attempt = run[p].attempt,
         row' = row, others' \in BOOLEAN,
         \/ seen' = seen
         \/ \E c \in 0..MaxCommits : seen' = [seen EXCEPT ![x.attempt] = c] /\ run[p].attempt # 0,
         RunOK(p)'
  PROVE  BootInv'
<1>. USE DEF BootInv
<1>1. /\ row.attempt \in Nat /\ row \in BootstrapRow /\ x.attempt \in Nat
      /\ run \in [Pod -> RunState] /\ seen \in [Attempt -> 0..MaxCommits]
  BY BootstrapAssumption DEF BootTypeOK, BootstrapRow, RunState
<1>2. /\ seen' \in [Attempt -> 0..MaxCommits]
      /\ \A a \in Attempt : a # run[p].attempt \/ run[p].attempt = 0 => seen'[a] = seen[a]
  BY <1>1 DEF Attempt
<1>3. BootTypeOK'
  BY <1>1, <1>2 DEF BootTypeOK, LogStep
<1>4. RowLoads'
  BY DEF RowLoads
<1>5. ReadyWasVerified' /\ ReadyInv'
  <2>. SUFFICES ASSUME row.state = "READY"  PROVE ReadyWasVerified' /\ ReadyInv'
    BY DEF ReadyWasVerified, ReadyInv
  <2>1. row.ready \in 1..Len(log) /\ Whole(row.ready) /\ row.attempt \in Attempt
    BY DEF ReadyInv
  <2>2. row.ready \in 1..Len(log') /\ log'[row.ready] = log[row.ready]
        /\ \A c \in 1..Len(log) : Whole(c)' <=> Whole(c)
    BY <2>1, WholeStays DEF LogStep, Grows
  <2>3. Whole(row.ready)'
    BY <2>1, <2>2
  <2>4. seen'[row.attempt] = seen[row.attempt]
    BY <1>2, <2>1 DEF FenceInv
  <2>. QED  BY <2>1, <2>2, <2>3, <2>4 DEF ReadyWasVerified, ReadyInv
<1>6. \A q \in Pod : run'[q].attempt = run[q].attempt
  BY <1>1
<1>7. FenceInv'
  BY <1>6 DEF FenceInv
<1>8. ASSUME NEW q \in Pod, q # p  PROVE RunOK(q)'
  <2>1. run'[q] = run[q]
    BY <1>8 DEF BootTypeOK
  <2>2. run[q].attempt # 0 => run[q].attempt \in Attempt /\ run[q].attempt # run[p].attempt
    BY <1>1, <1>8 DEF FenceInv, RunState, Attempt
  <2>. QED  BY <2>1, <2>2, <1>1, <1>2, OthersGoOn
<1>. QED  BY <1>3, <1>4, <1>5, <1>7, <1>8 DEF LogStep

-----------------------------------------------------------------------------
(* The steps of an attempt.                                                *)

\* The initial rows and repositories.
LEMMA BootInitOK == BootInit => BootInv
<1>. SUFFICES ASSUME BootInit  PROVE BootInv
  OBVIOUS
<1>1. /\ row = PendingRow /\ others \in BOOLEAN /\ run = [p \in Pod |-> Idle]
      /\ seen = [a \in Attempt |-> 0]
  BY DEF BootInit
<1>2. BootTypeOK /\ GraphInv /\ ShapeInv /\ ImportInv
  <2>1. CASE log = <<>> /\ head = 0
    <3>1. Len(log) = 0 /\ log \in Seq(CommitRow)
      BY <2>1
    <3>2. BootTypeOK
      BY <2>1, <3>1, <1>1, BootstrapAssumption
      DEF BootTypeOK, PendingRow, BootstrapRow, Idle, RunState, Anchor, Attempt
    <3>. QED  BY <2>1, <3>1, <3>2 DEF GraphInv, ShapeInv, ImportInv, NeverInjected, Imported
  <2>2. ASSUME NEW t \in Tree, head = 1,
               log = <<[tree |-> t, parent |-> 0, past |-> {1}, init |-> FALSE, by |-> "import"]>>
        PROVE  BootTypeOK /\ GraphInv /\ ShapeInv /\ ImportInv
    <3>. DEFINE c == [tree |-> t, parent |-> 0, past |-> {1}, init |-> FALSE, by |-> "import"]
    <3>1. c \in CommitRow
      BY BootstrapAssumption DEF CommitRow, Commit
    <3>2. Len(log) = 1 /\ log \in Seq(CommitRow) /\ log[1] = c /\ log # <<>>
      BY <2>2, <3>1
    <3>3. BootTypeOK
      BY <2>2, <3>2, <1>1, BootstrapAssumption
      DEF BootTypeOK, PendingRow, BootstrapRow, Idle, RunState, Anchor, Attempt
    <3>4. History(log, 1) = {1} /\ 1..Len(log) = {1}
      BY <3>2 DEF History
    <3>5. ~OursAlone(1)
      BY <3>2, <3>4 DEF OursAlone
    <3>6. GraphInv
      BY <3>2, <3>4 DEF GraphInv, History
    <3>7. ShapeInv
      BY <3>4, <3>5 DEF ShapeInv
    <3>8. ImportInv
      BY <2>2, <3>2, <3>4 DEF ImportInv, NeverInjected
    <3>. QED  BY <3>3, <3>6, <3>7, <3>8
  <2>3. \A t \in {[Empty EXCEPT !["notes"] = "file"], [Empty EXCEPT !["README.md"] = "file"],
                  [Empty EXCEPT !["README.md"] = "other"]} : t \in Tree
    BY DEF Empty, Tree, Path, Anchor, Object
  <2>. QED  BY <2>1, <2>2, <2>3 DEF BootInit
<1>3. RowLoads /\ ReadyWasVerified /\ ReadyInv
  BY <1>1 DEF PendingRow, RowLoads, ValidRow, ReadyWasVerified, ReadyInv
<1>4. FenceInv
  BY <1>1 DEF FenceInv, Idle
<1>5. \A p \in Pod : RunOK(p)
  BY <1>1 DEF RunOK, Idle
<1>. QED  BY <1>2, <1>3, <1>4, <1>5 DEF BootInv

LEMMA CheckStatusOK ==
  ASSUME BootInv, NEW p \in Pod, CheckStatus(p)
  PROVE  BootInv'
<1>. DEFINE x == [run[p] EXCEPT !.at = "checked"]
<1>1. LogStep
  BY LogStays DEF CheckStatus
<1>2. x \in RunState /\ x.attempt = run[p].attempt /\ run' = [run EXCEPT ![p] = x]
      /\ others' \in BOOLEAN /\ run'[p] = x
  BY DEF CheckStatus, Go, BootInv, BootTypeOK, RunState
<1>3. RunOK(p)'
  BY <1>2 DEF CheckStatus, BootInv, RunOK, BootTypeOK, RunState, Imported
<1>. QED  BY <1>1, <1>2, <1>3, AttemptGoesOn DEF CheckStatus

LEMMA FreshAttempt ==
  ASSUME NEW n \in Int, NEW s, s = [Idle EXCEPT !.at = "repository", !.attempt = n]
  PROVE  s = [at |-> "repository", attempt |-> n, zero |-> FALSE, head |-> 0,
              manifest |-> {}, made |-> 0]
BY DEF Idle

\* A new attempt is the row's, and no pod has run it.
LEMMA BeginAttemptOK ==
  ASSUME BootInv, NEW p \in Pod, BeginAttempt(p)
  PROVE  BootInv'
<1>. USE DEF BootInv
<1>. DEFINE n == row.attempt + 1
<1>1. row \in BootstrapRow /\ row.attempt \in Nat /\ n \in Attempt /\ run \in [Pod -> RunState]
      /\ UNCHANGED <<log, head, others, seen>>
  BY BootstrapAssumption DEF BeginAttempt, BootTypeOK, BootstrapRow, Attempt
<1>2. LogStep
  BY <1>1, LogStays
<1>3. \A q \in Pod : run[q].attempt \in 0..row.attempt
  <2>. SUFFICES ASSUME NEW q \in Pod  PROVE run[q].attempt \in 0..row.attempt
    OBVIOUS
  <2>. QED  BY <1>1 DEF RunOK
<1>4. \/ /\ row' = [state |-> "APPLYING", attempt |-> n, ready |-> 0, error |-> "none"]
         /\ run' = [run EXCEPT ![p] = [Idle EXCEPT !.at = "repository", !.attempt = n]]
      \/ /\ row' = [state |-> "MANUAL_RECOVERY", attempt |-> n, ready |-> 0, error |-> "manual"]
         /\ run' = [run EXCEPT ![p] = Idle]
  BY DEF BeginAttempt, beginWorkspaceBootstrapAttempt, markWorkspaceBootstrapManualRecovery,
         IsCurrent
<1>5. row' \in BootstrapRow /\ row'.attempt = n /\ row'.state # "READY"
  BY <1>1, <1>4, BootstrapAssumption DEF BootstrapRow, Attempt
<1>6. RowLoads'
  BY <1>4, FitToLoad DEF RowLoads
<1>7. /\ run'[p] \in RunState /\ run' = [run EXCEPT ![p] = run'[p]]
      /\ \/ run'[p] = Idle
         \/ /\ row'.state = "APPLYING"
            /\ run'[p] = [at |-> "repository", attempt |-> n, zero |-> FALSE, head |-> 0,
                          manifest |-> {}, made |-> 0]
  <2>1. CASE run' = [run EXCEPT ![p] = Idle]
    BY <2>1, <1>1, BootstrapAssumption DEF RunState, Idle
  <2>2. CASE /\ run' = [run EXCEPT ![p] = [Idle EXCEPT !.at = "repository", !.attempt = n]]
             /\ row'.state = "APPLYING"
    <3>. DEFINE x == [at |-> "repository", attempt |-> n, zero |-> FALSE, head |-> 0,
                      manifest |-> {}, made |-> 0]
    <3>. HIDE DEF x
    <3>1. run'[p] = [Idle EXCEPT !.at = "repository", !.attempt = n]
          /\ run' = [run EXCEPT ![p] = run'[p]]
      BY <2>2, <1>1
    <3>2. n \in Int
      BY <1>1
    <3>3. run'[p] = x
      BY <3>1, <3>2, FreshAttempt DEF x
    <3>4. x \in RunState
      BY <1>1, BootstrapAssumption DEF RunState, Attempt, x
    <3>. QED  BY <3>1, <3>3, <3>4, <2>2 DEF x
  <2>. QED  BY <2>1, <2>2, <1>4
<1>8. BootTypeOK'
  BY <1>1, <1>5, <1>7 DEF BootTypeOK
<1>9. ASSUME NEW q \in Pod, q # p  PROVE run'[q] = run[q]
  BY <1>1, <1>7, <1>9
<1>10. run'[p].attempt = 0 \/ (run'[p].attempt = n /\ row'.state = "APPLYING")
  BY <1>7 DEF Idle
<1>11. FenceInv'
  BY <1>1, <1>3, <1>5, <1>9, <1>10 DEF FenceInv
<1>12. RunOK(p)'
  <2>1. CASE run'[p] = Idle
    BY <2>1 DEF RunOK, Idle
  <2>2. CASE run'[p].at = "repository" /\ run'[p].attempt = n /\ run'[p].manifest = {}
    BY <2>2, <1>1, <1>5 DEF RunOK
  <2>. QED  BY <2>1, <2>2, <1>7
<1>13. ASSUME NEW q \in Pod, q # p  PROVE RunOK(q)'
  BY <1>1, <1>2, <1>5, <1>9, <1>13, OthersGoOn
<1>. QED  BY <1>2, <1>5, <1>6, <1>8, <1>11, <1>12, <1>13 DEF LogStep, ReadyWasVerified, ReadyInv

LEMMA FailureOK ==
  ASSUME BootInv, LogStep, NEW p \in Pod,
         classifyGitHubResponseError(p) \/ validateLiveRepositoryMetadata(p)
  PROVE  BootInv'
BY AttemptEnds DEF classifyGitHubResponseError, validateLiveRepositoryMetadata

LEMMA ReadRepositoryOK ==
  ASSUME BootInv, NEW p \in Pod, ReadRepository(p)
  PROVE  BootInv'
<1>1. LogStep /\ run[p].at = "repository"
  BY LogStays DEF ReadRepository
<1>2. ASSUME NEW zero \in BOOLEAN, run' = [run EXCEPT ![p].at = "ref", ![p].zero = zero],
             UNCHANGED <<log, head, row, others, seen>>
      PROVE  BootInv'
  <2>. DEFINE x == [run[p] EXCEPT !.at = "ref", !.zero = zero]
  <2>1. x \in RunState /\ x.attempt = run[p].attempt /\ run' = [run EXCEPT ![p] = x]
        /\ others' \in BOOLEAN /\ run'[p] = x
    BY <1>2 DEF BootInv, BootTypeOK, RunState
  <2>2. RunOK(p)'
    BY <1>1, <1>2, <2>1 DEF BootInv, RunOK, BootTypeOK, RunState, Imported
  <2>. QED  BY <1>1, <1>2, <2>1, <2>2, AttemptGoesOn
<1>3. CASE classifyGitHubResponseError(p) \/ validateLiveRepositoryMetadata(p)
  BY <1>1, <1>3, FailureOK
<1>. QED  BY <1>1, <1>2, <1>3 DEF ReadRepository

LEMMA ResolveRefOK ==
  ASSUME BootInv, NEW p \in Pod, ResolveRef(p)
  PROVE  BootInv'
<1>1. LogStep /\ run[p].at = "ref" /\ UNCHANGED <<log, head>>
  BY LogStays DEF ResolveRef
<1>2. ASSUME UNCHANGED <<row, others, seen>>,
             run' = IF head = 0 THEN [run EXCEPT ![p].at = "missing"]
                    ELSE [run EXCEPT ![p].at = "reconcile", ![p].head = head]
      PROVE  BootInv'
  <2>. DEFINE x == IF head = 0 THEN [run[p] EXCEPT !.at = "missing"]
                   ELSE [run[p] EXCEPT !.at = "reconcile", !.head = head]
  <2>1. /\ head \in 0..MaxCommits /\ run[p] \in RunState /\ run \in [Pod -> RunState]
        /\ others' \in BOOLEAN
    BY <1>2, BootstrapAssumption DEF BootInv, BootTypeOK
  <2>2. x \in RunState /\ x.attempt = run[p].attempt /\ run' = [run EXCEPT ![p] = x]
        /\ run'[p] = x
    BY <1>2, <2>1 DEF RunState
  <2>3. x.manifest = run[p].manifest /\ x.attempt = run[p].attempt
    BY <2>1 DEF RunState
  <2>4. x.at = IF head = 0 THEN "missing" ELSE "reconcile"
    BY <2>1 DEF RunState
  <2>5. head # 0 => x.head = head
    BY <2>1 DEF RunState
  <2>6. RunOK(p) /\ row.attempt' = row.attempt
    BY <1>2 DEF BootInv
  <2>7. head # 0 => head \in History(log, head)
    BY HistoryIsThere DEF BootInv, BootTypeOK
  <2>8. Imported => head # 0
    BY DEF BootInv, ImportInv, Imported
  <2>. HIDE DEF x
  <2>9. RunOK(p)'
    BY <1>1, <1>2, <2>2, <2>3, <2>4, <2>5, <2>6, <2>7, <2>8 DEF RunOK, Imported
  <2>. QED  BY <1>1, <1>2, <2>1, <2>2, <2>9, AttemptGoesOn
<1>. QED  BY <1>1, <1>2, FailureOK DEF ResolveRef

LEMMA HandleMissingOK ==
  ASSUME BootInv, NEW p \in Pod, handleMissingBoundBranch(p)
  PROVE  BootInv'
<1>1. LogStep /\ run[p].at = "missing" /\ UNCHANGED <<log, head>>
  BY LogStays DEF handleMissingBoundBranch
<1>2. ASSUME Go(p, "put"), UNCHANGED <<row, others, seen>>
      PROVE  BootInv'
  <2>. DEFINE x == [run[p] EXCEPT !.at = "put"]
  <2>1. x \in RunState /\ x.attempt = run[p].attempt /\ run' = [run EXCEPT ![p] = x]
        /\ others' \in BOOLEAN /\ run'[p] = x
    BY <1>2 DEF Go, BootInv, BootTypeOK, RunState
  <2>2. RunOK(p)'
    BY <1>1, <1>2, <2>1 DEF BootInv, RunOK, BootTypeOK, RunState, Imported
  <2>. QED  BY <1>1, <1>2, <2>1, <2>2, AttemptGoesOn
<1>. QED  BY <1>1, <1>2, FailureOK, AttemptEnds DEF handleMissingBoundBranch

\* A commit on the head of the branch.
LEMMA HeadMoves ==
  ASSUME BootInv, Room, NEW t \in Tree, NEW i \in BOOLEAN, NEW by \in {"ceo", "owner"},
         by = "ceo" => ~Imported /\ Fits(t, head, MakeCommit(t, head, i, by)),
         by = "owner" => ~i,
         log' = Append(log, MakeCommit(t, head, i, by)), head' = New
  PROVE  LogStep /\ head' \in History(log', head')
<1>. USE DEF BootInv
<1>1. PICK n : n = New
  OBVIOUS
<1>2. /\ log' \in Seq(CommitRow) /\ Len(log') <= MaxCommits
      /\ GraphInv' /\ ShapeInv'
      /\ Len(log') = n /\ History(log', n) = History(log, head) \cup {n}
      /\ Imported' => Imported
  BY <1>1, GraphGrows DEF BootTypeOK
<1>3. /\ log'[n] = MakeCommit(t, head, i, by) /\ log' # <<>>
      /\ \A c \in 1..Len(log) : log'[c] = log[c]
  BY <1>1, Appended
<1>4. Len(log) \in Nat /\ n = Len(log) + 1 /\ head' = n
  BY <1>1 DEF New, BootTypeOK
<1>5. Grows
  BY <1>2, <1>3, <1>4 DEF Grows
<1>6. ImportInv'
  <2>1. head' # 0 /\ log' # <<>>
    BY <1>3, <1>4
  <2>. SUFFICES ASSUME Imported'
       PROVE /\ NeverInjected'
             /\ \A c \in 1..Len(log') : ~log'[c].init /\ (log'[c].by = "ceo" => log'[c].parent # 0)
    BY <2>1 DEF ImportInv, NeverInjected, Imported
  <2>2. Imported /\ by = "owner"
    BY <1>2
  <2>3. log'[n].by = "owner" /\ ~log'[n].init
    <3>1. log'[n].by = by /\ log'[n].init = i
      <4>1. log'[n] = MakeCommit(t, head, i, by)
        BY <1>3
      <4>. QED  BY <4>1, CommitFields
    <3>2. ~i
      BY <2>2
    <3>. QED  BY <3>1, <3>2, <2>2, Zenon
  <2>4. ASSUME NEW c \in 1..Len(log)
        PROVE  /\ ~log'[c].init /\ (log'[c].by = "ceo" => log'[c].parent # 0)
               /\ log'[c].by = "ceo" =>
                    log'[c].tree[".ceoignore"] = log'[log'[c].parent].tree[".ceoignore"]
    <3>1. log[c] \in CommitRow /\ log'[c] = log[c] /\ log[c].parent < c
      BY <1>3 DEF BootTypeOK, GraphInv
    <3>2. log[c].parent \in Nat
      BY <3>1, BootstrapAssumption DEF CommitRow
    <3>3. ~log[c].init /\ (log[c].by = "ceo" => log[c].parent # 0)
      BY <2>2 DEF ImportInv
    <3>4. log[c].by = "ceo" => log'[log[c].parent] = log[log[c].parent]
      BY <1>3, <1>4, <3>1, <3>2, <3>3
    <3>5. log[c].by = "ceo" =>
            log[c].tree[".ceoignore"] = log[log[c].parent].tree[".ceoignore"]
      BY <2>2 DEF ImportInv, NeverInjected, Imported
    <3>. QED  BY <3>1, <3>3, <3>4, <3>5
  <2>5. 1..Len(log') = 1..Len(log) \cup {n}
    BY <1>2, <1>4
  <2>. QED  BY <2>3, <2>4, <2>5 DEF NeverInjected
<1>. QED  BY <1>2, <1>4, <1>5, <1>6 DEF LogStep

LEMMA BootstrapEmptyOK ==
  ASSUME BootInv, NEW p \in Pod, bootstrapEmptyRepository(p)
  PROVE  BootInv'
<1>. USE DEF BootInv
<1>1. run[p].at = "put" /\ RunOK(p) /\ run[p] \in RunState /\ run \in [Pod -> RunState]
  BY DEF bootstrapEmptyRepository, BootTypeOK
<1>2. ~Imported /\ run[p].attempt \in 1..row.attempt
  BY <1>1 DEF RunOK
<1>3. ASSUME CanPut("README.md"), Room,
             log' = Append(log, PutCommit("README.md")), head' = New
      PROVE  LogStep /\ New \in History(log', head') /\ New \in Commit
    <2>. DEFINE t == [HeadTree EXCEPT !["README.md"] = "file"]
    <2>1. HeadTree \in Tree
      <3>1. head # 0 => log[head] \in CommitRow
        BY DEF BootTypeOK
      <3>. QED  BY <3>1 DEF HeadTree, Empty, Tree, Object, CommitRow
    <2>2. /\ t \in Tree /\ t["README.md"] = "file" /\ HeadTree["README.md"] = "none"
          /\ t[".ceoignore"] = HeadTree[".ceoignore"]
      BY <2>1, <1>3 DEF Tree, Path, Anchor, Object, CanPut
    <2>3. Fits(t, head, MakeCommit(t, head, TRUE, "ceo"))
      <3>. SUFFICES ASSUME OursAlone(head)
           PROVE  /\ isPartialFreshBootstrap(MakeCommit(t, head, TRUE, "ceo"))
                     \/ t[".ceoignore"] = "file"
                  /\ head # 0 /\ Ignores(head) => t[".ceoignore"] = "file"
        BY DEF Fits
      <3>1. CASE head = 0
        <4>1. t = [Empty EXCEPT !["README.md"] = t["README.md"]] /\ t["README.md"] # "none"
          BY <3>1, <2>2 DEF HeadTree, Empty, Path, Anchor
        <4>2. MakeCommit(t, head, TRUE, "ceo").tree = t /\ MakeCommit(t, head, TRUE, "ceo").init
          BY DEF MakeCommit
        <4>. QED  BY <3>1, <4>1, <4>2 DEF isPartialFreshBootstrap
      <3>2. CASE head # 0
        <4>1. HeadTree = log[head].tree /\ head \in 1..Len(log)
          BY <3>2 DEF HeadTree, BootTypeOK
        <4>2. isPartialFreshBootstrap(log[head]) \/ Ignores(head)
          BY <4>1 DEF ShapeInv
        <4>3. ~isPartialFreshBootstrap(log[head])
          BY <4>1, <2>2 DEF isPartialFreshBootstrap
        <4>. QED  BY <4>1, <4>2, <4>3, <2>2 DEF Ignores
      <3>. QED  BY <3>1, <3>2
    <2>4. LogStep /\ head' \in History(log', head')
      BY <1>2, <1>3, <2>2, <2>3, HeadMoves DEF PutCommit
    <2>5. New \in Commit
      BY <1>3, BootstrapAssumption DEF Room, New, Commit, BootTypeOK
    <2>. QED  BY <2>4, <2>5, <1>3
<1>4. ASSUME CanPut("README.md"), Room,
             log' = Append(log, PutCommit("README.md")), head' = New,
             NEW h \in {New, 0},
             run' = [run EXCEPT ![p].at = "reconcile", ![p].head = h,
                                ![p].manifest = buildFreshWorkspaceManifest],
             UNCHANGED <<row, others, seen>>
      PROVE  BootInv'
  <2>1. LogStep /\ New \in History(log', head') /\ New \in Commit
    BY <1>3, <1>4
  <2>2. h \in 0..MaxCommits /\ h \in History(log', head') \cup {0}
    BY <2>1, BootstrapAssumption DEF Commit
  <2>. DEFINE x == [run[p] EXCEPT !.at = "reconcile", !.head = h, !.manifest = Anchor]
  <2>3. /\ x \in RunState /\ x.attempt = run[p].attempt /\ run' = [run EXCEPT ![p] = x]
        /\ run'[p] = x /\ x.at = "reconcile" /\ x.head = h /\ x.manifest = Anchor
        /\ others' \in BOOLEAN
    BY <1>1, <1>4, <2>2 DEF RunState, buildFreshWorkspaceManifest, BootTypeOK
  <2>4. head' # 0 /\ ~Imported'
    BY <1>2, <1>4, <2>1 DEF New, LogStep, Grows, BootTypeOK
  <2>. HIDE DEF x
  <2>5. RunOK(p)'
    BY <1>2, <1>4, <2>2, <2>3, <2>4 DEF RunOK
  <2>. QED  BY <1>4, <2>1, <2>3, <2>5, AttemptGoesOn
<1>5. CASE UNCHANGED <<log, head>>
  <2>1. LogStep
    BY <1>5, LogStays
  <2>. QED  BY <1>3, <2>1, <1>5, FailureOK, AttemptEnds DEF bootstrapEmptyRepository, New, BootTypeOK
<1>. QED  BY <1>3, <1>4, <1>5, FailureOK, AttemptEnds DEF bootstrapEmptyRepository

\* A commit beside the branch, on top of one that is there.
LEMMA CommitIsMade ==
  ASSUME BootInv, Room, NEW t \in Tree, NEW h, h \in 1..Len(log),
         NEW i \in BOOLEAN, ~i, NEW by \in {"ceo"}, UNCHANGED head,
         Fits(t, h, MakeCommit(t, h, i, by)),
         Imported => t[".ceoignore"] = log[h].tree[".ceoignore"],
         log' = Append(log, MakeCommit(t, h, i, by)),
         NEW n, n = New
  PROVE  /\ LogStep /\ n \in 1..Len(log') /\ n \in Commit
         /\ log'[n].tree = t /\ (OursAlone(n)' => OursAlone(h))
<1>. USE DEF BootInv
<1>1. Len(log) \in Nat /\ n = Len(log) + 1 /\ head \in 0..Len(log) /\ n \in Commit
  BY BootstrapAssumption DEF New, BootTypeOK, Room, Commit
<1>2. /\ log' \in Seq(CommitRow) /\ Len(log') <= MaxCommits
      /\ GraphInv' /\ ShapeInv' /\ Len(log') = n
      /\ OursAlone(n)' => OursAlone(h)
      /\ Imported' => Imported
  BY <1>1, GraphGrows
<1>3. /\ log'[n] = MakeCommit(t, h, i, by) /\ log' # <<>>
      /\ \A c \in 1..Len(log) : log'[c] = log[c]
  BY Appended
<1>4. log'[n].tree = t /\ log'[n].parent = h /\ log'[n].by = by /\ log'[n].init = i
  <2>1. log'[n] = MakeCommit(t, h, i, by)
    BY <1>3
  <2>. HIDE DEF BootInv
  <2>. QED  BY <2>1, CommitFields
<1>5. Grows
  <2>1. head # 0 => log'[head] = log[head]
    BY <1>1, <1>3
  <2>. QED  BY <1>1, <1>2, <1>3, <2>1 DEF Grows, History
<1>6. ImportInv'
  <2>1. head # 0 /\ head' # 0 /\ log' # <<>>
    BY <1>1, <1>3 DEF ImportInv
  <2>. SUFFICES ASSUME Imported'
       PROVE /\ NeverInjected'
             /\ \A c \in 1..Len(log') : ~log'[c].init /\ (log'[c].by = "ceo" => log'[c].parent # 0)
    BY <2>1 DEF ImportInv, NeverInjected, Imported
  <2>2. Imported
    BY <1>2
  <2>3. /\ ~log'[n].init /\ log'[n].parent # 0
        /\ log'[n].tree[".ceoignore"] = log'[log'[n].parent].tree[".ceoignore"]
    BY <1>1, <1>3, <1>4, <2>2
  <2>4. ASSUME NEW c \in 1..Len(log)
        PROVE  /\ ~log'[c].init /\ (log'[c].by = "ceo" => log'[c].parent # 0)
               /\ log'[c].by = "ceo" =>
                    log'[c].tree[".ceoignore"] = log'[log'[c].parent].tree[".ceoignore"]
    <3>1. log[c] \in CommitRow /\ log'[c] = log[c] /\ log[c].parent < c
      BY <1>3 DEF BootTypeOK, GraphInv
    <3>2. log[c].parent \in Nat
      BY <3>1, BootstrapAssumption DEF CommitRow
    <3>3. ~log[c].init /\ (log[c].by = "ceo" => log[c].parent # 0)
      BY <2>2 DEF ImportInv
    <3>4. log[c].by = "ceo" => log'[log[c].parent] = log[log[c].parent]
      BY <1>1, <1>3, <3>1, <3>2, <3>3
    <3>5. log[c].by = "ceo" =>
            log[c].tree[".ceoignore"] = log[log[c].parent].tree[".ceoignore"]
      BY <2>2 DEF ImportInv, NeverInjected, Imported
    <3>. QED  BY <3>1, <3>3, <3>4, <3>5
  <2>5. 1..Len(log') = 1..Len(log) \cup {n}
    BY <1>1, <1>2
  <2>. QED  BY <2>3, <2>4, <2>5 DEF NeverInjected
<1>. QED  BY <1>1, <1>2, <1>4, <1>5, <1>6 DEF LogStep

\* What is missing is added to the head that was read, or nothing is.
LEMMA ReconcileOK ==
  ASSUME BootInv, NEW p \in Pod, reconcileFromBranchHead(p)
  PROVE  BootInv'
<1>. USE DEF BootInv
<1>. DEFINE h == IF run[p].head = 0 THEN head ELSE run[p].head
            t == log[h].tree
            m == effectiveManifest(p, log[h])
            missing == {a \in m : t[a] = "none"}
<1>1. /\ run[p].at = "reconcile" /\ RunOK(p) /\ run[p] \in RunState /\ run \in [Pod -> RunState]
      /\ UNCHANGED head /\ Len(log) \in Nat /\ head \in 0..Len(log)
  <2>1. run[p].at = "reconcile" /\ UNCHANGED head
    BY Zenon DEF reconcileFromBranchHead
  <2>. QED  BY <2>1 DEF BootTypeOK
<1>2. /\ run[p].attempt \in 1..row.attempt /\ run[p].manifest \in {{}, Anchor} /\ head # 0
      /\ run[p].head \in History(log, head) \cup {0}
      /\ Imported => run[p].manifest = {}
  BY <1>1 DEF RunOK, Anchor
<1>3. h \in History(log, head) /\ h \in 1..Len(log)
  BY <1>1, <1>2, HistoryIsThere
<1>. HIDE DEF h
<1>4. log[h] \in CommitRow /\ t \in Tree
  <2>1. log[h] \in CommitRow
    BY <1>3 DEF BootTypeOK
  <2>. QED  BY <2>1 DEF CommitRow
<1>5. \/ m = Anchor /\ (run[p].manifest = Anchor \/ isPartialFreshBootstrap(log[h]))
      \/ m = {"README.md"} /\ ~isPartialFreshBootstrap(log[h])
  BY <1>2 DEF effectiveManifest, BOOTSTRAP_MANIFEST_V1, buildFreshWorkspaceManifest, Anchor
<1>6. m \subseteq Anchor /\ "README.md" \in m
  BY <1>5 DEF Anchor
<1>7. ".ceoignore" \in m => ~Imported
  <2>1. Imported => ~isPartialFreshBootstrap(log[h])
    BY <1>3 DEF ImportInv, isPartialFreshBootstrap
  <2>2. run[p].manifest = Anchor => ~Imported
    BY <1>2 DEF Anchor
  <2>. QED  BY <1>5, <2>1, <2>2
<1>8. ".ceoignore" \notin m /\ OursAlone(h) => Ignores(h)
  BY <1>3, <1>5 DEF ShapeInv, Anchor
<1>9. ".ceoignore" \notin m => Whole(head)
  <2>. SUFFICES ASSUME ".ceoignore" \notin m, OursAlone(head)  PROVE Ignores(head)
    BY DEF Whole
  <2>1. History(log, h) \subseteq History(log, head) /\ History(log, head) = log[head].past
    BY <1>1, <1>2, <1>3, HistoryIsThere
  <2>2. OursAlone(h)
    BY <2>1 DEF OursAlone
  <2>. QED  BY <1>1, <1>2, <1>3, <1>8, <2>1, <2>2 DEF ShapeInv
<1>. HIDE DEF m
<1>10. ASSUME UNCHANGED <<log, row, others, seen>>,
              run' = [run EXCEPT ![p].at = "verify", ![p].manifest = m]
       PROVE  BootInv'
  <2>. DEFINE x == [run[p] EXCEPT !.at = "verify", !.manifest = m]
  <2>1. LogStep
    BY <1>1, <1>10, LogStays
  <2>2. /\ x \in RunState /\ x.attempt = run[p].attempt /\ run' = [run EXCEPT ![p] = x]
        /\ run'[p] = x /\ x.at = "verify" /\ x.manifest = m /\ others' \in BOOLEAN
    BY <1>1, <1>6, <1>10 DEF RunState, BootTypeOK
  <2>. HIDE DEF x
  <2>3. Whole(head)' <=> Whole(head)
    BY <1>1, <1>10 DEF Whole, OursAlone, Ignores, History
  <2>4. RunOK(p)'
    BY <1>1, <1>2, <1>6, <1>7, <1>9, <1>10, <2>2, <2>3 DEF RunOK, Imported
  <2>. QED  BY <1>10, <2>1, <2>2, <2>4, AttemptGoesOn
<1>11. ASSUME \A a \in m : t[a] # "other", Room,
              log' = Append(log, AnchorCommit(h, missing)), UNCHANGED <<row, others, seen>>,
              run' = [run EXCEPT ![p].at = "update", ![p].manifest = m, ![p].made = New]
       PROVE  BootInv'
  <2>. DEFINE u == [a \in Path |-> IF a \in missing THEN "file" ELSE log[h].tree[a]]
  <2>0. PICK i \in BOOLEAN : i = FALSE
    OBVIOUS
  <2>1. AnchorCommit(h, missing) = MakeCommit(u, h, i, "ceo")
    BY <2>0, Zenon DEF AnchorCommit
  <2>2. /\ u \in Tree /\ ".ceoignore" \in Path /\ t[".ceoignore"] \in Object
        /\ u[".ceoignore"] = IF ".ceoignore" \in missing THEN "file" ELSE t[".ceoignore"]
    BY <1>4 DEF Tree, Object, Path, Anchor
  <2>3. ".ceoignore" \in m => u[".ceoignore"] = "file"
    BY <1>11, <2>2 DEF Object
  <2>4. ".ceoignore" \notin m => u[".ceoignore"] = t[".ceoignore"]
    BY <2>2
  <2>. HIDE DEF u
  <2>5. Fits(u, h, MakeCommit(u, h, i, "ceo"))
    BY <1>8, <2>3, <2>4 DEF Fits, Ignores
  <2>6. Imported => u[".ceoignore"] = log[h].tree[".ceoignore"]
    BY <1>7, <2>4
  <2>7. PICK n : n = New
    OBVIOUS
  <2>8. /\ LogStep /\ n \in 1..Len(log') /\ n \in Commit /\ log'[n].tree = u
        /\ OursAlone(n)' => OursAlone(h)
    BY <1>1, <1>3, <1>11, <2>0, <2>1, <2>2, <2>5, <2>6, <2>7, CommitIsMade
  <2>9. ".ceoignore" \notin m => Whole(n)'
    BY <1>8, <2>4, <2>8 DEF Whole, Ignores
  <2>. DEFINE x == [run[p] EXCEPT !.at = "update", !.manifest = m, !.made = n]
  <2>10. /\ x \in RunState /\ x.attempt = run[p].attempt /\ run' = [run EXCEPT ![p] = x]
         /\ run'[p] = x /\ x.at = "update" /\ x.manifest = m /\ x.made = n /\ others' \in BOOLEAN
    <3>1. run' = [run EXCEPT ![p].at = "update", ![p].manifest = m, ![p].made = n]
          /\ others' = others
      BY <1>11, <2>7
    <3>2. n \in 0..MaxCommits /\ m \in SUBSET Anchor
      BY <1>6, <2>8, BootstrapAssumption DEF Commit
    <3>. QED  BY <1>1, <3>1, <3>2 DEF RunState, BootTypeOK
  <2>. HIDE DEF x
  <2>11. Imported' => Imported
    BY <2>8 DEF LogStep, Grows
  <2>12. RunOK(p)'
    <3>1. run'[p].made = n /\ run'[p].manifest = m
      BY <2>10
    <3>2. ".ceoignore" \notin m => Whole(run[p].made)'
      BY <2>9, <3>1 DEF Whole, OursAlone, Ignores
    <3>. QED  BY <1>1, <1>2, <1>6, <1>7, <1>11, <2>8, <2>10, <2>11, <3>1, <3>2 DEF RunOK
  <2>. QED  BY <1>11, <2>8, <2>10, <2>12, AttemptGoesOn
<1>12. CASE UNCHANGED log /\ (Manual(p) \/ classifyGitHubResponseError(p))
  BY <1>1, <1>12, LogStays, AttemptEnds, FailureOK
<1>. QED  BY <1>10, <1>11, <1>12 DEF reconcileFromBranchHead, h, m

\* The branch goes on to the commit that was made, and nothing falls off it.
LEMMA UpdateRefOK ==
  ASSUME BootInv, NEW p \in Pod, UpdateRef(p)
  PROVE  BootInv'
<1>. USE DEF BootInv
<1>. DEFINE c == run[p].made
<1>1. /\ run[p].at = "update" /\ RunOK(p) /\ run[p] \in RunState /\ run \in [Pod -> RunState]
      /\ UNCHANGED log /\ Len(log) \in Nat
  <2>1. run[p].at = "update" /\ UNCHANGED log
    BY DEF UpdateRef
  <2>. QED  BY <2>1 DEF BootTypeOK
<1>2. /\ c \in 1..Len(log) /\ (".ceoignore" \in run[p].manifest \/ Whole(c))
      /\ "README.md" \in run[p].manifest /\ run[p].attempt \in 1..row.attempt
      /\ Imported => ".ceoignore" \notin run[p].manifest
  BY <1>1 DEF RunOK
<1>3. ASSUME MayUpdate(p), head' = c
      PROVE  LogStep
  <2>1. head \in log[c].past /\ head' \in 1..Len(log)
    BY <1>2, <1>3 DEF MayUpdate, IsFastForward, History
  <2>2. History(log, head) \subseteq History(log, c)
    BY <1>2, <2>1 DEF GraphInv, History
  <2>3. Grows
    BY <1>1, <1>3, <2>2 DEF Grows, Imported
  <2>4. GraphInv' /\ ShapeInv'
    BY <1>1 DEF GraphInv, ShapeInv, OursAlone, Ignores, History
  <2>5. ImportInv'
    <3>1. log # <<>> /\ head' # 0
      BY <1>1, <1>2, <2>1
    <3>. QED  BY <1>1, <3>1 DEF ImportInv, NeverInjected, Imported
  <2>. QED  BY <1>1, <2>1, <2>3, <2>4, <2>5 DEF LogStep, BootTypeOK
<1>4. ASSUME MayUpdate(p), head' = c, Go(p, "verify"), UNCHANGED <<row, others, seen>>
      PROVE  BootInv'
  <2>. DEFINE x == [run[p] EXCEPT !.at = "verify"]
  <2>1. /\ x \in RunState /\ x.attempt = run[p].attempt /\ run' = [run EXCEPT ![p] = x]
        /\ run'[p] = x /\ x.at = "verify" /\ x.manifest = run[p].manifest /\ others' \in BOOLEAN
    BY <1>1, <1>4 DEF Go, RunState, BootTypeOK
  <2>. HIDE DEF x
  <2>2. Whole(head)' <=> Whole(c)
    BY <1>1, <1>4 DEF Whole, OursAlone, Ignores, History
  <2>3. RunOK(p)'
    BY <1>1, <1>2, <1>4, <2>1, <2>2 DEF RunOK, Imported
  <2>. QED  BY <1>3, <1>4, <2>1, <2>3, AttemptGoesOn
<1>5. CASE UNCHANGED head /\ (Retryable(p) \/ classifyGitHubResponseError(p))
  BY <1>1, <1>5, LogStays, AttemptEnds, FailureOK
<1>. QED  BY <1>1, <1>3, <1>4, <1>5, AttemptEnds DEF UpdateRef

\* What the branch holds is looked at, whoever wrote it last.
LEMMA VerifyOK ==
  ASSUME BootInv, NEW p \in Pod, VerifyLiveState(p)
  PROVE  BootInv'
<1>. USE DEF BootInv
<1>1. /\ run[p].at = "verify" /\ RunOK(p) /\ run[p] \in RunState /\ run \in [Pod -> RunState]
      /\ UNCHANGED <<log, head>> /\ Len(log) \in Nat /\ head \in 0..Len(log) /\ LogStep
  <2>1. run[p].at = "verify" /\ UNCHANGED <<log, head>>
    BY DEF VerifyLiveState
  <2>. QED  BY <2>1, LogStays DEF BootTypeOK
<1>2. /\ run[p].attempt \in 1..row.attempt /\ "README.md" \in run[p].manifest
      /\ Imported => ".ceoignore" \notin run[p].manifest
      /\ ".ceoignore" \in run[p].manifest \/ Whole(head)
  BY <1>1 DEF RunOK
<1>3. ASSUME head # 0, AnchorsPresent(p, log[head].tree),
             run' = [run EXCEPT ![p].at = "mark", ![p].head = head],
             seen' = [seen EXCEPT ![run[p].attempt] = head],
             UNCHANGED <<row, others>>
      PROVE  BootInv'
  <2>. DEFINE x == [run[p] EXCEPT !.at = "mark", !.head = head]
  <2>1. head \in 0..MaxCommits
    BY <1>1, BootstrapAssumption DEF BootTypeOK
  <2>2. /\ x \in RunState /\ x.attempt = run[p].attempt /\ run' = [run EXCEPT ![p] = x]
        /\ run'[p] = x /\ x.at = "mark" /\ x.manifest = run[p].manifest /\ x.head = head
        /\ others' \in BOOLEAN
    BY <1>1, <1>3, <2>1 DEF RunState, BootTypeOK
  <2>. HIDE DEF x
  <2>3. log[head].tree["README.md"] = "file" /\ Whole(head)
    BY <1>2, <1>3 DEF AnchorsPresent, Whole, Ignores
  <2>4. run[p].attempt # 0 /\ run[p].attempt \in Attempt
    BY <1>1, <1>2, BootstrapAssumption DEF RunState, Attempt
  <2>5. seen'[run[p].attempt] = head
    BY <1>3, <2>4 DEF BootTypeOK
  <2>6. Whole(run[p].head)'
    BY <1>1, <2>2, <2>3 DEF Whole, OursAlone, Ignores, History
  <2>7. RunOK(p)'
    BY <1>1, <1>2, <1>3, <2>2, <2>3, <2>4, <2>5, <2>6 DEF RunOK, Imported
  <2>. QED  BY <1>1, <1>3, <2>1, <2>2, <2>4, <2>7, AttemptGoesOn
<1>. QED  BY <1>1, <1>3, AttemptEnds, FailureOK DEF VerifyLiveState

\* A row becomes READY with the commit its own attempt verified.
LEMMA MarkReadyOK ==
  ASSUME BootInv, NEW p \in Pod, MarkReady(p)
  PROVE  BootInv'
<1>. USE DEF BootInv
<1>. DEFINE a == run[p].attempt
            c == run[p].head
<1>1. /\ run[p].at = "mark" /\ RunOK(p) /\ run[p] \in RunState /\ run \in [Pod -> RunState]
      /\ UNCHANGED <<log, head, others, seen>> /\ run' = [run EXCEPT ![p] = Idle]
      /\ row \in BootstrapRow /\ LogStep
  <2>1. /\ run[p].at = "mark" /\ UNCHANGED <<log, head, others, seen>>
        /\ run' = [run EXCEPT ![p] = Idle]
    BY DEF MarkReady
  <2>. QED  BY <2>1, LogStays DEF BootTypeOK
<1>2. CASE ~IsCurrent(row, a)
  <2>1. row' = row
    BY <1>2 DEF MarkReady, markWorkspaceBootstrapReady
  <2>. QED  BY <1>1, <2>1, AttemptEnds
<1>3. CASE IsCurrent(row, a)
  <2>1. /\ a \in 1..row.attempt /\ c \in 1..Len(log) /\ Whole(c)
        /\ log[c].tree["README.md"] = "file" /\ seen[a] = c
    BY <1>1 DEF RunOK
  <2>2. row.attempt = a /\ row.state = "APPLYING" /\ row.error = "none"
    BY <1>3 DEF IsCurrent, RowLoads, ValidRow
  <2>3. c \in 0..MaxCommits /\ c # 0 /\ a \in Attempt /\ row.attempt \in Nat
    BY <1>1, <2>1, BootstrapAssumption DEF RunState, Attempt, BootstrapRow
  <2>4. row' = [row EXCEPT !.state = "READY", !.ready = c, !.error = "none"]
    BY <1>3 DEF MarkReady, markWorkspaceBootstrapReady
  <2>5. /\ row' \in BootstrapRow /\ row'.state = "READY" /\ row'.ready = c
        /\ row'.attempt = a /\ row'.error = "none"
    BY <1>1, <2>2, <2>3, <2>4 DEF BootstrapRow
  <2>6. RowLoads'
    BY <2>3, <2>5, FitToLoad DEF RowLoads
  <2>7. run'[p] = Idle /\ \A q \in Pod : q # p => run'[q] = run[q]
    BY <1>1
  <2>8. BootTypeOK'
    BY <1>1, <2>5, BootstrapAssumption DEF BootTypeOK, RunState, Idle
  <2>9. FenceInv'
    BY <1>1, <2>2, <2>3, <2>5, <2>7 DEF FenceInv, Idle
  <2>10. ReadyWasVerified'
    BY <1>1, <2>1, <2>5 DEF ReadyWasVerified
  <2>11. ReadyInv'
    <3>1. Whole(row.ready)'
      BY <1>1, <2>1, <2>5 DEF Whole, OursAlone, Ignores, History
    <3>. QED  BY <1>1, <2>1, <2>3, <2>5, <3>1 DEF ReadyInv
  <2>12. RunOK(p)'
    BY <2>7 DEF RunOK, Idle
  <2>13. ASSUME NEW q \in Pod, q # p  PROVE RunOK(q)'
    BY <1>1, <2>2, <2>3, <2>5, <2>7, <2>13, OthersGoOn
  <2>. QED  BY <1>1, <2>6, <2>8, <2>9, <2>10, <2>11, <2>12, <2>13 DEF LogStep
<1>. QED  BY <1>2, <1>3

\* The process dies; the row stays where it was.
LEMMA CrashOK ==
  ASSUME BootInv, NEW p \in Pod, Crash(p)
  PROVE  BootInv'
<1>1. LogStep
  BY LogStays DEF Crash
<1>. QED  BY <1>1, AttemptEnds DEF Crash

\* Steps of the owner's: no attempt and no row changes.
LEMMA OwnerOK ==
  ASSUME BootInv, LogStep, UNCHANGED <<row, run, seen>>, others' \in BOOLEAN
  PROVE  BootInv'
<1>. USE DEF BootInv
<1>1. row \in BootstrapRow /\ row.attempt \in Nat
  BY BootstrapAssumption DEF BootTypeOK, BootstrapRow
<1>2. BootTypeOK'
  BY DEF BootTypeOK, LogStep
<1>3. ReadyWasVerified' /\ ReadyInv'
  <2>. SUFFICES ASSUME row.state = "READY"  PROVE ReadyWasVerified' /\ ReadyInv'
    BY DEF ReadyWasVerified, ReadyInv
  <2>1. row.ready \in 1..Len(log) /\ Whole(row.ready)
    BY DEF ReadyInv
  <2>2. row.ready \in 1..Len(log') /\ log'[row.ready] = log[row.ready]
        /\ \A c \in 1..Len(log) : Whole(c)' <=> Whole(c)
    BY <2>1, WholeStays DEF LogStep, Grows
  <2>3. Whole(row.ready)'
    BY <2>1, <2>2
  <2>. QED  BY <2>1, <2>2, <2>3 DEF ReadyWasVerified, ReadyInv
<1>4. RowLoads' /\ FenceInv'
  BY DEF RowLoads, FenceInv
<1>5. ASSUME NEW q \in Pod  PROVE RunOK(q)'
  BY <1>1, OthersGoOn
<1>. QED  BY <1>2, <1>3, <1>4, <1>5 DEF LogStep

LEMMA OwnerPushOK ==
  ASSUME BootInv, OwnerPush
  PROVE  BootInv'
<1>0. PICK i \in BOOLEAN : i = FALSE
  OBVIOUS
<1>1. PICK t \in {[HeadTree EXCEPT !["notes"] = "file"],
                  [HeadTree EXCEPT !["README.md"] = "none"],
                  [HeadTree EXCEPT !["README.md"] = "other"]} :
        log' = Append(log, MakeCommit(t, head, i, "owner"))
  BY <1>0, Zenon DEF OwnerPush
<1>2. HeadTree \in Tree
  <2>1. head # 0 => log[head] \in CommitRow
    BY DEF BootInv, BootTypeOK
  <2>. QED  BY <2>1 DEF HeadTree, Empty, Tree, Object, CommitRow
<1>3. t \in Tree
  BY <1>1, <1>2 DEF Tree, Object
<1>4. Room /\ head' = New /\ UNCHANGED <<row, others, run, seen>>
  BY DEF OwnerPush
<1>5. ASSUME NEW by \in {"ceo", "owner"}, by = "owner"  PROVE LogStep
  <2>1. by # "ceo" /\ log' = Append(log, MakeCommit(t, head, i, by))
    BY <1>1, <1>5
  <2>. QED  BY <1>0, <1>3, <1>4, <2>1, HeadMoves
<1>6. LogStep
  BY <1>5
<1>7. others' \in BOOLEAN
  BY <1>4 DEF BootInv, BootTypeOK
<1>. QED  BY <1>4, <1>6, <1>7, OwnerOK

LEMMA BootNextOK ==
  ASSUME BootInv, [BootNext]_bootVars
  PROVE  BootInv'
<1>1. CASE OwnerPush
  BY <1>1, OwnerPushOK
<1>2. CASE OwnerBranch
  BY <1>2, LogStays, OwnerOK DEF OwnerBranch
<1>3. CASE UNCHANGED bootVars
  <2>1. LogStep /\ others' \in BOOLEAN
    BY <1>3, LogStays DEF bootVars, BootInv, BootTypeOK
  <2>. QED  BY <1>3, <2>1, OwnerOK DEF bootVars
<1>4. ASSUME NEW p \in Pod,
             \/ CheckStatus(p) \/ BeginAttempt(p) \/ ReadRepository(p) \/ ResolveRef(p)
             \/ handleMissingBoundBranch(p) \/ bootstrapEmptyRepository(p)
             \/ reconcileFromBranchHead(p) \/ UpdateRef(p) \/ VerifyLiveState(p)
             \/ MarkReady(p) \/ Crash(p)
      PROVE  BootInv'
  BY <1>4, CheckStatusOK, BeginAttemptOK, ReadRepositoryOK, ResolveRefOK, HandleMissingOK,
     BootstrapEmptyOK, ReconcileOK, UpdateRefOK, VerifyOK, MarkReadyOK, CrashOK
<1>. QED  BY <1>1, <1>2, <1>3, <1>4 DEF BootNext

\* Whoever writes, no commit leaves the branch's history.
LEMMA NothingFallsOff ==
  ASSUME BootInv, [BootNext]_bootVars
  PROVE  History(log, head) \subseteq History(log', head')
<1>. USE DEF BootInv
<1>0. Len(log) \in Nat /\ head \in 0..Len(log)
  BY DEF BootTypeOK
<1>1. CASE UNCHANGED <<log, head>>
  BY <1>1
<1>2. ASSUME NEW x, log' = Append(log, x), UNCHANGED head
      PROVE  History(log, head) \subseteq History(log', head')
  BY <1>0, <1>2, Appended DEF History
<1>3. ASSUME NEW x, log' = Append(log, x), head' = New, History(log, head) \subseteq x.past
      PROVE  History(log, head) \subseteq History(log', head')
  BY <1>0, <1>3, Appended DEF History, New
<1>4. \A t, i, by : History(log, head) \subseteq MakeCommit(t, head, i, by).past
  BY DEF MakeCommit
<1>5. ASSUME NEW p \in Pod, UpdateRef(p)
      PROVE  History(log, head) \subseteq History(log', head')
  <2>1. CASE UNCHANGED head
    BY <1>1, <1>5, <2>1 DEF UpdateRef
  <2>2. CASE MayUpdate(p) /\ head' = run[p].made
    <3>1. run[p].made \in 1..Len(log) /\ log' = log
      BY <1>5 DEF UpdateRef, RunOK
    <3>. QED  BY <2>2, <3>1 DEF MayUpdate, IsFastForward, GraphInv, History
  <2>. QED  BY <1>5, <2>1, <2>2 DEF UpdateRef
<1>6. ASSUME NEW p \in Pod, reconcileFromBranchHead(p)
      PROVE  History(log, head) \subseteq History(log', head')
  BY <1>1, <1>2, <1>6 DEF reconcileFromBranchHead
<1>7. ASSUME NEW p \in Pod, bootstrapEmptyRepository(p)
      PROVE  History(log, head) \subseteq History(log', head')
  BY <1>1, <1>3, <1>4, <1>7 DEF bootstrapEmptyRepository, PutCommit
<1>8. ASSUME OwnerPush
      PROVE  History(log, head) \subseteq History(log', head')
  BY <1>3, <1>4, <1>8 DEF OwnerPush
<1>. QED  BY <1>1, <1>5, <1>6, <1>7, <1>8 DEF BootNext, bootVars, CheckStatus, BeginAttempt,
             ReadRepository, ResolveRef, handleMissingBoundBranch, VerifyLiveState, MarkReady,
             Crash, OwnerBranch

-----------------------------------------------------------------------------
(* The promises.                                                           *)

\* What the row, the repository and the attempts keep between them, whatever
\* the pods, the owner and GitHub do in whatever order (bootstrapWorkspace).
THEOREM BootstrapInvariant == BootSpec => []BootInv
<1>1. BootInit => BootInv
  BY BootInitOK
<1>2. BootInv /\ [BootNext]_bootVars => BootInv'
  BY BootNextOK
<1>. QED  BY <1>1, <1>2, PTL DEF BootSpec

\* The row always loads; READY names a commit that its own attempt read from the
\* branch with the README in it; and a repository that only the bootstrap wrote
\* to has .ceoignore too (verifyLiveStateAndMarkReady, validateData).
THEOREM RowIsTrueTheorem == BootSpec => []RowIsTrue
<1>1. BootInv => RowIsTrue
  <2>. SUFFICES ASSUME BootInv  PROVE FreshIsWhole
    BY DEF BootInv, RowIsTrue
  <2>. QED  BY DEF BootInv, ReadyInv, FreshIsWhole, Whole, OursAlone, Ignores
<1>. QED  BY <1>1, BootstrapInvariant, PTL

\* No commit leaves the branch, and no commit of the bootstrap's changes
\* .ceoignore in a repository that had content when it was bound (the ref is
\* updated without force; effectiveManifest).
THEOREM OwnersWorkTheorem == BootSpec => OwnersWorkIsKept
<1>1. BootInv => NeverInjected
  BY DEF BootInv, ImportInv
<1>2. BootInv /\ [BootNext]_bootVars =>
        [History(log, head) \subseteq History(log', head')]_bootVars
  BY NothingFallsOff
<1>. QED  BY <1>1, <1>2, BootstrapInvariant, PTL DEF BootSpec, OwnersWorkIsKept, PushesKept
=============================================================================
