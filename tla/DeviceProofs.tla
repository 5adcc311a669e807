---------------------------- MODULE DeviceProofs ----------------------------
(***************************************************************************)
(* What ControlStore and Enrollment promise for every number of users,     *)
(* workspaces, devices, targets, aliases, repositories, machines and       *)
(* browsers.  First ControlStore alone: what its tables keep.  Then        *)
(* enrollment on top of it: a login is a legal use of the control store, a *)
(* device is somebody's only when that user approved it, and a machine's   *)
(* files agree with the server's tables.                                   *)
(***************************************************************************)
EXTENDS Enrollment, FiniteSetTheorems, TLAPS

\* The alias names one target of a workspace.
AliasesUnique ==
  \A s, t \in Target :
    Live(s) /\ Live(t) /\ target[s].ws = target[t].ws
      /\ target[s].alias = target[t].alias => s = t

\* A row that refers to a target or a device refers to one that is there, in
\* the workspace it is about, and a repository identity is whole or absent.
RefsResolve ==
  /\ \A w \in Workspace : default[w] # None =>
       Live(default[w]) /\ target[default[w]].ws = w
  /\ \A d \in Device, t \in Target : binding[d][t] # "none" =>
       Enrolled(d) /\ Live(t) /\ Member(d, target[t].ws)

ControlInv == ControlTypeOK /\ AliasesUnique /\ RefsResolve

-----------------------------------------------------------------------------
\* Rows that are live are whole rows; the others are empty.
LEMMA LiveRows ==
  ASSUME ControlTypeOK, NEW t \in Target
  PROVE  /\ Live(t) => target[t] \in TargetRow
         /\ ~Live(t) => target[t] \in {NoTarget, GoneTarget}
         /\ Enabled(t) => Live(t)
  BY ControlAssumption DEF ControlTypeOK, Live, Enabled, TargetRow, NoTarget, GoneTarget

LEMMA DeviceRows ==
  ASSUME ControlTypeOK, NEW d \in Device
  PROVE  /\ Enrolled(d) => device[d] \in DeviceRow
         /\ ~Enrolled(d) => device[d] = NoDevice
  BY ControlAssumption DEF ControlTypeOK, Enrolled, DeviceRow, NoDevice

\* What a registration may store as the identity of a repository.
LEMMA ResolvedIdentity ==
  ASSUME ControlTypeOK, NEW w \in Workspace,
         NEW s \in RepoName \cup {"none", "workspace_repository"},
         s = "workspace_repository" => w \in Linked
  PROVE  ResolveRepository(w, s) \in Identity \cup {NoRepo}
  BY ControlAssumption DEF ControlTypeOK, ResolveRepository, Identity, NoRepo

\* Setting one target's row.
LEMMA OneTarget ==
  ASSUME ControlTypeOK, NEW t \in Target, NEW r,
         r \in TargetRow \cup {NoTarget, GoneTarget},
         target' = [target EXCEPT ![t] = r]
  PROVE  /\ target' \in [Target -> TargetRow \cup {NoTarget, GoneTarget}]
         /\ target'[t] = r
         /\ \A s \in Target \ {t} : target'[s] = target[s]
  BY DEF ControlTypeOK

-----------------------------------------------------------------------------
LEMMA InitInv == ControlInit => ControlInv
  BY ControlAssumption
     DEF ControlInit, ControlInv, ControlTypeOK, AliasesUnique, RefsResolve, Live, NoTarget

(***************************************************************************)
(* Steps that change devices and users only: nobody who is enrolled loses  *)
(* the row or its owner.                                                   *)
(***************************************************************************)
LEMMA DeviceFrame ==
  ASSUME ControlInv, UNCHANGED <<fullName, target, binding, default>>,
         active' \subseteq User,
         device' \in [Device -> DeviceRow \cup {NoDevice}],
         \A d \in Device : Enrolled(d) => device'[d].owner = device[d].owner
  PROVE  ControlInv'
  BY DEF ControlInv, ControlTypeOK, AliasesUnique, RefsResolve, Live, Enrolled, Member

LEMMA FinalizeKeeps ==
  ASSUME ControlInv, NEW d \in Device, NEW u \in User, FinalizeDeviceEnrollment(d, u)
  PROVE  ControlInv'
<1>1. [owner |-> u, revoked |-> FALSE, credential |-> "valid"] \in DeviceRow
  BY DEF DeviceRow
<1>2. device' \in [Device -> DeviceRow \cup {NoDevice}]
  BY <1>1 DEF FinalizeDeviceEnrollment, ControlInv, ControlTypeOK
<1>3. \A e \in Device : Enrolled(e) => device'[e].owner = device[e].owner
  BY DEF FinalizeDeviceEnrollment, ControlInv, ControlTypeOK, Enrolled
<1> QED
  BY <1>2, <1>3, DeviceFrame DEF FinalizeDeviceEnrollment, ControlInv, ControlTypeOK

LEMMA RevokeKeeps ==
  ASSUME ControlInv, NEW d \in Device, RevokeDevice(d)
  PROVE  ControlInv'
<1>1. device[d] \in DeviceRow
  BY DeviceRows DEF RevokeDevice, ControlInv
<1>2. device' \in [Device -> DeviceRow \cup {NoDevice}]
  BY <1>1 DEF RevokeDevice, ControlInv, ControlTypeOK, DeviceRow
<1>3. \A e \in Device : Enrolled(e) => device'[e].owner = device[e].owner
  BY <1>1 DEF RevokeDevice, ControlInv, ControlTypeOK, Enrolled, DeviceRow
<1> QED
  BY <1>2, <1>3, DeviceFrame DEF RevokeDevice, ControlInv, ControlTypeOK

LEMMA ExpiryKeeps ==
  ASSUME ControlInv, NEW d \in Device, CredentialExpires(d)
  PROVE  ControlInv'
<1>1. device[d] \in DeviceRow
  BY DeviceRows DEF CredentialExpires, ControlInv, NoDevice
<1>2. device' \in [Device -> DeviceRow \cup {NoDevice}]
  BY <1>1 DEF CredentialExpires, ControlInv, ControlTypeOK, DeviceRow
<1>3. \A e \in Device : Enrolled(e) => device'[e].owner = device[e].owner
  BY <1>1 DEF CredentialExpires, ControlInv, ControlTypeOK, Enrolled, DeviceRow
<1> QED
  BY <1>2, <1>3, DeviceFrame DEF CredentialExpires, ControlInv, ControlTypeOK

LEMMA SuspendKeeps ==
  ASSUME ControlInv, NEW u \in MaySuspend, SetUserActive(u)
  PROVE  ControlInv'
<1>1. active' \subseteq User
  BY ControlAssumption DEF SetUserActive, ControlInv, ControlTypeOK
<1> QED
  BY <1>1, DeviceFrame DEF SetUserActive, ControlInv, ControlTypeOK

-----------------------------------------------------------------------------
(***************************************************************************)
(* Steps that change targets, bindings and defaults: a live target stays   *)
(* live in its workspace, and a reference that is new is a good one.       *)
(***************************************************************************)
LEMMA TargetFrame ==
  ASSUME ControlInv, UNCHANGED <<active, device>>,
         fullName' \in [Linked -> RepoName],
         target' \in [Target -> TargetRow \cup {NoTarget, GoneTarget}],
         binding' \in [Device -> [Target -> {"none", "enabled", "disabled"}]],
         default' \in [Workspace -> Target \cup {None}],
         \A t \in Target : Live(t) => Live(t)' /\ target'[t].ws = target[t].ws,
         \A d \in Device, t \in Target : binding'[d][t] # "none" =>
           \/ binding[d][t] # "none"
           \/ Enrolled(d) /\ Live(t)' /\ device[d].owner = Owner[target'[t].ws],
         \A w \in Workspace : default'[w] # None =>
           \/ default'[w] = default[w]
           \/ (Live(default[w]) /\ target[default[w]].ws = w)',
         AliasesUnique'
  PROVE  ControlInv'
<1>1. ControlTypeOK'
  BY DEF ControlInv, ControlTypeOK
<1>2. \A w \in Workspace : default'[w] # None =>
        (Live(default[w]) /\ target[default[w]].ws = w)'
  BY DEF ControlInv, ControlTypeOK, RefsResolve, Live
<1>3. \A d \in Device, t \in Target : binding'[d][t] # "none" =>
        Enrolled(d)' /\ Live(t)' /\ Member(d, target[t].ws)'
  BY DEF ControlInv, RefsResolve, Enrolled, Member
<1> QED
  BY <1>1, <1>2, <1>3 DEF ControlInv, RefsResolve, Live

\* Rows that keep workspace and alias keep the alias unique.
LEMMA SameAliases ==
  ASSUME AliasesUnique,
         \A t \in Target : Live(t)' =>
           /\ Live(t) /\ target'[t].ws = target[t].ws
           /\ target'[t].alias = target[t].alias
  PROVE  AliasesUnique'
  BY DEF AliasesUnique

\* A binding that is set for a member of the workspace of a target that is live
\* after the step.
LEMMA BindingFrame ==
  ASSUME ControlInv, NEW d \in Device, NEW t \in Target,
         NEW b \in {"enabled", "disabled"}, Enrolled(d),
         binding' = [binding EXCEPT ![d] = [@ EXCEPT ![t] = b]],
         UNCHANGED <<active, fullName, device, default>>,
         target' \in [Target -> TargetRow \cup {NoTarget, GoneTarget}],
         \A s \in Target : Live(s) => Live(s)' /\ target'[s].ws = target[s].ws,
         Live(t)', device[d].owner = Owner[target'[t].ws], AliasesUnique'
  PROVE  ControlInv'
<1>1. /\ binding' \in [Device -> [Target -> {"none", "enabled", "disabled"}]]
      /\ \A e \in Device, s \in Target :
           e # d \/ s # t => binding'[e][s] = binding[e][s]
  BY DEF ControlInv, ControlTypeOK
<1>2. \A e \in Device, s \in Target : binding'[e][s] # "none" =>
        \/ binding[e][s] # "none"
        \/ Enrolled(e) /\ Live(s)' /\ device[e].owner = Owner[target'[s].ws]
  BY <1>1
<1> QED
  BY <1>1, <1>2, TargetFrame DEF ControlInv, ControlTypeOK

LEMMA BindingKeeps ==
  ASSUME ControlInv, NEW d \in Device, NEW t \in Target,
         NEW b \in {"enabled", "disabled"},
         Enrolled(d), Live(t), Member(d, target[t].ws),
         binding' = [binding EXCEPT ![d] = [@ EXCEPT ![t] = b]],
         UNCHANGED <<active, fullName, device, target, default>>
  PROVE  ControlInv'
<1>1. AliasesUnique' /\ Live(t)'
  BY SameAliases DEF ControlInv, Live
<1> QED
  BY <1>1, BindingFrame DEF ControlInv, ControlTypeOK, Live, Member

LEMMA EnrolledMember ==
  ASSUME NEW d \in Device, NEW w \in Workspace, Member(d, w)
  PROVE  Enrolled(d)
  BY ControlAssumption DEF Member, Enrolled

LEMMA BindKeeps ==
  ASSUME ControlInv, NEW d \in Device, NEW t \in Target, PostBind(d, t)
  PROVE  ControlInv'
  BY BindingKeeps, LiveRows
     DEF PostBind, BindTargetForDevice, EnsureDeviceBinding, DeviceActive, ControlInv

LEMMA UnbindKeeps ==
  ASSUME ControlInv, NEW d \in Device, NEW t \in Target, PostUnbind(d, t)
  PROVE  ControlInv'
<1>1. Live(t) /\ Member(d, target[t].ws)
  BY DEF PostUnbind, UnbindTargetForDevice
<1>2. Enrolled(d)
  BY <1>1, LiveRows, EnrolledMember DEF ControlInv, TargetRow
<1> QED
  BY <1>1, <1>2, BindingKeeps DEF PostUnbind, UnbindTargetForDevice

LEMMA DefaultKeeps ==
  ASSUME ControlInv, NEW d \in Device, NEW t \in Target, PostDefaultRuntime(d, t)
  PROVE  ControlInv'
<1>1. Live(t) /\ target[t].ws \in Workspace
  BY LiveRows DEF PostDefaultRuntime, ControlInv, TargetRow
<1>2. /\ default' = [default EXCEPT ![target[t].ws] = t]
      /\ UNCHANGED <<active, fullName, device, target, binding>>
  BY DEF PostDefaultRuntime, SetDefaultAgentRuntimeTarget
<1>3. AliasesUnique' /\ Live(t)'
  BY <1>1, <1>2, SameAliases DEF ControlInv, Live
<1>4. /\ default' \in [Workspace -> Target \cup {None}]
      /\ \A w \in Workspace : default'[w] # None =>
           \/ default'[w] = default[w]
           \/ (Live(default[w]) /\ target[default[w]].ws = w)'
  BY <1>1, <1>2, <1>3 DEF ControlInv, ControlTypeOK
<1> QED
  BY <1>2, <1>3, <1>4, TargetFrame DEF ControlInv, ControlTypeOK, Live

\* One live target's row is written again, for the same workspace.
LEMMA RowKeeps ==
  ASSUME ControlInv, NEW t \in Target, NEW r \in TargetRow,
         Live(t), r.ws = target[t].ws,
         target' = [target EXCEPT ![t] = r], AliasesUnique',
         UNCHANGED <<active, fullName, device, binding, default>>
  PROVE  ControlInv'
<1>1. /\ target' \in [Target -> TargetRow \cup {NoTarget, GoneTarget}]
      /\ \A s \in Target : Live(s) => Live(s)' /\ target'[s].ws = target[s].ws
  BY DEF ControlInv, ControlTypeOK, Live, TargetRow
<1> QED
  BY <1>1, TargetFrame DEF ControlInv, ControlTypeOK

\* The same, with its alias kept too.
LEMMA AliasKept ==
  ASSUME ControlInv, NEW t \in Target, NEW r \in TargetRow,
         Live(t), r.ws = target[t].ws, r.alias = target[t].alias,
         target' = [target EXCEPT ![t] = r]
  PROVE  /\ AliasesUnique' /\ Live(t)'
         /\ target' \in [Target -> TargetRow \cup {NoTarget, GoneTarget}]
         /\ \A s \in Target : Live(s) => Live(s)' /\ target'[s].ws = target[s].ws
<1>1. \A s \in Target : Live(s)' =>
        /\ Live(s) /\ target'[s].ws = target[s].ws
        /\ target'[s].alias = target[s].alias
  BY DEF ControlInv, ControlTypeOK, Live
<1> QED
  BY <1>1, SameAliases DEF ControlInv, ControlTypeOK, Live, TargetRow

LEMMA AttachKeeps ==
  ASSUME ControlInv, NEW d \in Device, NEW t \in Target, NEW n \in RepoName,
         PostAttachRepository(d, t, n)
  PROVE  ControlInv'
<1> DEFINE repo == ResolveRepository(target[t].ws, n)
           row  == [target[t] EXCEPT !.repo = repo]
<1>1. Live(t) /\ target[t] \in TargetRow
  BY LiveRows DEF PostAttachRepository, AttachRepositoryIdentity, ControlInv
<1>2. repo \in Identity \cup {NoRepo}
  BY <1>1, ControlAssumption DEF ResolveRepository, Identity, NoRepo, TargetRow,
     ControlInv, ControlTypeOK
<1>3. row \in TargetRow /\ row.ws = target[t].ws /\ row.alias = target[t].alias
  BY <1>1, <1>2 DEF TargetRow
<1>4. target' = [target EXCEPT ![t] = row]
  BY DEF PostAttachRepository, AttachRepositoryIdentity
<1>5. AliasesUnique'
  BY <1>1, <1>3, <1>4, AliasKept
<1> QED
  BY <1>1, <1>3, <1>4, <1>5, RowKeeps DEF PostAttachRepository, AttachRepositoryIdentity

LEMMA RenameKeeps ==
  ASSUME ControlInv, NEW d \in Device, NEW t \in Target, NEW a \in Alias,
         PostRename(d, t, a)
  PROVE  ControlInv'
<1> DEFINE row == [target[t] EXCEPT !.alias = a]
<1>1. Live(t) /\ target[t] \in TargetRow
  BY LiveRows DEF PostRename, RenameExecutionTarget, ControlInv
<1>2. row \in TargetRow /\ row.ws = target[t].ws /\ row.alias = a
  BY <1>1 DEF TargetRow
<1>3. target' = [target EXCEPT ![t] = row]
  BY DEF PostRename, RenameExecutionTarget
<1>4. \A s \in Target : Live(s) /\ target[s].ws = target[t].ws /\ target[s].alias = a
                          => s = t
  BY DEF PostRename, RenameExecutionTarget, AliasTargets
<1>5. AliasesUnique'
  BY <1>1, <1>2, <1>3, <1>4 DEF AliasesUnique, ControlInv, ControlTypeOK, Live
<1> QED
  BY <1>1, <1>2, <1>3, <1>5, RowKeeps DEF PostRename, RenameExecutionTarget

LEMMA DisableKeeps ==
  ASSUME ControlInv, NEW u \in User, NEW t \in Target, PostDisable(u, t)
  PROVE  ControlInv'
<1> DEFINE row == [target[t] EXCEPT !.row = "disabled"]
<1>1. Live(t) /\ target[t] \in TargetRow
  BY LiveRows DEF PostDisable, DisableExecutionTarget, ControlInv
<1>2. row \in TargetRow /\ row.ws = target[t].ws /\ row.alias = target[t].alias
  BY <1>1 DEF TargetRow
<1>3. target' = [target EXCEPT ![t] = row]
  BY DEF PostDisable, DisableExecutionTarget
<1> QED
  BY <1>1, <1>2, <1>3, AliasKept, RowKeeps DEF PostDisable, DisableExecutionTarget

LEMMA EnableKeeps ==
  ASSUME ControlInv, NEW u \in User, NEW t \in Target, PostEnable(u, t)
  PROVE  ControlInv'
<1> DEFINE row == [target[t] EXCEPT !.row = "enabled"]
<1>1. Live(t) /\ target[t] \in TargetRow
  BY LiveRows DEF PostEnable, EnableExecutionTarget, ControlInv, Live
<1>2. row \in TargetRow /\ row.ws = target[t].ws /\ row.alias = target[t].alias
  BY <1>1 DEF TargetRow
<1>3. target' = [target EXCEPT ![t] = row]
  BY DEF PostEnable, EnableExecutionTarget
<1> QED
  BY <1>1, <1>2, <1>3, AliasKept, RowKeeps DEF PostEnable, EnableExecutionTarget

LEMMA RegisterKeeps ==
  ASSUME ControlInv, NEW d \in Device, NEW w \in Workspace, NEW a \in Alias,
         NEW k \in Kind, NEW s \in RepoName \cup {"none", "workspace_repository"},
         PostRegister(d, w, a, k, s)
  PROVE  ControlInv'
<1> DEFINE repo == ResolveRepository(w, s)
<1>1. /\ Enrolled(d) /\ device[d].owner = Owner[w]
      /\ repo \in Identity \cup {NoRepo}
  BY ResolvedIdentity DEF PostRegister, RegisterExecutionTarget, DeviceActive, Member,
     ControlInv
<1>2. CASE RegisterReused(d, w, k, s)
  <2>1. PICK t \in RepositoryTargets(w, repo) : EnsureDeviceBinding(d, t)
    BY <1>2 DEF RegisterReused, ReusableTargets
  <2>2. t \in Target /\ Live(t) /\ Member(d, target[t].ws)
    BY <1>1, LiveRows DEF RepositoryTargets, Member, ControlInv
  <2> QED
    BY <1>1, <1>2, <2>1, <2>2, BindingKeeps DEF RegisterReused, EnsureDeviceBinding
<1>3. CASE RegisterExisting(d, w, a, k, s)
  <2>1. PICK t \in AliasTargets(w, a) :
          /\ target' = [target EXCEPT ![t] = [@ EXCEPT !.repo = repo]]
          /\ EnsureDeviceBinding(d, t)
    BY <1>3 DEF RegisterExisting
  <2> DEFINE row == [target[t] EXCEPT !.repo = repo]
  <2>2. t \in Target /\ Live(t) /\ target[t] \in TargetRow /\ target[t].ws = w
    BY LiveRows DEF AliasTargets, ControlInv
  <2>3. row \in TargetRow /\ row.ws = w /\ row.alias = target[t].alias
    BY <1>1, <2>2 DEF TargetRow
  <2>4. target' = [target EXCEPT ![t] = row]
    BY <2>1
  <2>5. /\ AliasesUnique' /\ Live(t)'
        /\ target' \in [Target -> TargetRow \cup {NoTarget, GoneTarget}]
        /\ \A x \in Target : Live(x) => Live(x)' /\ target'[x].ws = target[x].ws
    BY <2>2, <2>3, <2>4, AliasKept
  <2>6. target'[t].ws = w
    BY <2>2, <2>5
  <2> QED
    BY <1>1, <1>3, <2>1, <2>2, <2>5, <2>6, BindingFrame
       DEF RegisterExisting, EnsureDeviceBinding
<1>4. CASE RegisterNew(d, w, a, k, s)
  <2> DEFINE row == [row |-> "enabled", ws |-> w, alias |-> a, kind |-> k, repo |-> repo]
  <2>1. PICK t \in Target : /\ target[t] = NoTarget
                            /\ target' = [target EXCEPT ![t] = row]
                            /\ EnsureDeviceBinding(d, t)
    BY <1>4 DEF RegisterNew
  <2>2. row \in TargetRow /\ row.ws = w /\ row.alias = a
    BY <1>1 DEF TargetRow
  <2>3. /\ target' \in [Target -> TargetRow \cup {NoTarget, GoneTarget}]
        /\ target'[t] = row
        /\ \A x \in Target \ {t} : target'[x] = target[x]
    BY <2>1, <2>2, OneTarget DEF ControlInv
  <2>4. ~Live(t) /\ Live(t)'
    BY <2>1, <2>3 DEF Live, NoTarget
  <2>5. \A x \in Target : Live(x) => target[x].ws # w \/ target[x].alias # a
    BY <1>4 DEF RegisterNew, AliasTargets
  <2>6. AliasesUnique'
    BY <2>2, <2>3, <2>4, <2>5 DEF AliasesUnique, ControlInv, Live
  <2>7. \A x \in Target : Live(x) => Live(x)' /\ target'[x].ws = target[x].ws
    BY <2>3, <2>4 DEF Live
  <2> QED
    BY <1>1, <1>4, <2>1, <2>2, <2>3, <2>4, <2>6, <2>7, BindingFrame
       DEF RegisterNew, EnsureDeviceBinding
<1> QED
  BY <1>2, <1>3, <1>4 DEF PostRegister, RegisterExecutionTarget

\* The delete takes every row that refers to the target with it.
LEMMA DeleteKeeps ==
  ASSUME ControlInv, NEW d \in Device, NEW t \in Target, PostDelete(d, t)
  PROVE  ControlInv'
<1>1. /\ UNCHANGED <<active, fullName, device>>
      /\ target' = [target EXCEPT ![t] = GoneTarget]
      /\ binding' = [e \in Device |-> [binding[e] EXCEPT ![t] = "none"]]
      /\ default' = [w \in Workspace |-> IF default[w] = t THEN None ELSE default[w]]
  BY DEF PostDelete, DeleteExecutionTargetRow
<1>2. /\ target' \in [Target -> TargetRow \cup {NoTarget, GoneTarget}]
      /\ target'[t] = GoneTarget
      /\ \A s \in Target \ {t} : target'[s] = target[s]
  BY <1>1, OneTarget DEF ControlInv
<1>3. /\ ~Live(t)'
      /\ \A s \in Target \ {t} : Live(s)' <=> Live(s)
  BY <1>2 DEF Live, GoneTarget, NoTarget
<1>4. ControlTypeOK'
  BY <1>1, <1>2 DEF ControlInv, ControlTypeOK
<1>5. AliasesUnique'
  BY <1>2, <1>3, SameAliases DEF ControlInv
<1>6. \A w \in Workspace : default'[w] # None =>
        default'[w] = default[w] /\ default[w] \in Target \ {t}
  BY <1>1 DEF ControlInv, ControlTypeOK
<1>7. \A w \in Workspace : default'[w] # None =>
        (Live(default[w]) /\ target[default[w]].ws = w)'
  BY <1>2, <1>6 DEF ControlInv, RefsResolve, Live
<1>8. \A e \in Device, s \in Target : binding'[e][s] # "none" =>
        s # t /\ binding'[e][s] = binding[e][s]
  BY <1>1 DEF ControlInv, ControlTypeOK
<1>9. \A e \in Device, s \in Target : binding'[e][s] # "none" =>
        (Enrolled(e) /\ Live(s) /\ Member(e, target[s].ws))'
  BY <1>1, <1>2, <1>3, <1>8 DEF ControlInv, RefsResolve, Enrolled, Member
<1> QED
  BY <1>4, <1>5, <1>7, <1>9 DEF ControlInv, RefsResolve

LEMMA ReconcileKeeps ==
  ASSUME ControlInv, NEW w \in Linked, NEW n \in RepoName, ReconcileRepository(w, n)
  PROVE  ControlInv'
<1> DEFINE identity == [ext |-> w, name |-> n]
<1>1. identity \in Identity
  BY ControlAssumption DEF Identity
<1>2. \A t \in Target : target[t].repo.ext = w =>
        target[t] \in TargetRow
  BY ControlAssumption DEF ControlInv, ControlTypeOK, NoTarget, GoneTarget, NoRepo
<1>3. \A t \in Target :
        /\ target'[t] \in TargetRow \cup {NoTarget, GoneTarget}
        /\ target'[t].row = target[t].row /\ target'[t].ws = target[t].ws
        /\ target'[t].alias = target[t].alias
  BY <1>1, <1>2 DEF ReconcileRepository, ControlInv, ControlTypeOK, TargetRow
<1>4. target' \in [Target -> TargetRow \cup {NoTarget, GoneTarget}]
  BY <1>3 DEF ReconcileRepository
<1>5. \A t \in Target : Live(t)' <=> Live(t)
  BY <1>3 DEF Live
<1>6. AliasesUnique'
  BY <1>3, <1>5, SameAliases DEF ControlInv
<1> QED
  BY <1>3, <1>4, <1>5, <1>6, TargetFrame DEF ReconcileRepository, ControlInv, ControlTypeOK

-----------------------------------------------------------------------------
LEMMA StepKeeps ==
  ASSUME ControlInv, [ControlNext]_controlVars
  PROVE  ControlInv'
<1>1. ASSUME NEW d \in Device, NEW u \in User, FinalizeDeviceEnrollment(d, u)
      PROVE  ControlInv'
  BY <1>1, FinalizeKeeps
<1>2. ASSUME DeviceStep
      PROVE  ControlInv'
  BY <1>2, RevokeKeeps, ExpiryKeeps, SuspendKeeps
     DEF DeviceStep, PostDeviceRevoke, PostUserRevoke
<1>3. ASSUME TargetStep
      PROVE  ControlInv'
  BY <1>3, RegisterKeeps, BindKeeps, UnbindKeeps, DefaultKeeps, AttachKeeps, RenameKeeps,
     DisableKeeps, EnableKeeps, DeleteKeeps, ReconcileKeeps DEF TargetStep
<1>4. ASSUME UNCHANGED controlVars
      PROVE  ControlInv'
  BY <1>4 DEF controlVars, ControlInv, ControlTypeOK, AliasesUnique, RefsResolve, Live,
     Enrolled, Member
<1> QED
  BY <1>1, <1>2, <1>3, <1>4 DEF ControlNext

\* In every reachable state the rows are typed, an alias names one target of its
\* workspace, and every default and binding refers to live rows of one tenant,
\* whatever register, bind, rename, disable, delete and revoke did before.
THEOREM ControlInvariant == ControlSpec => []ControlInv
  BY InitInv, StepKeeps, PTL DEF ControlSpec

\* Whatever the routes did, the database is one that validateData accepts, so
\* IdentityStore.open starts again: no dangling default or binding, no half of a
\* repository identity, no alias used twice.
THEOREM ReopensTheorem == ControlSpec => []Reopens
<1>1. ASSUME ControlInv
      PROVE  Reopens
  <2>1. \A t \in Target : Live(t) =>
          (target[t].repo.ext = None <=> target[t].repo.name = None)
    <3> SUFFICES ASSUME NEW t \in Target, Live(t)
                 PROVE  target[t].repo.ext = None <=> target[t].repo.name = None
      OBVIOUS
    <3>1. target[t].repo \in Identity \cup {NoRepo}
      BY <1>1, LiveRows DEF ControlInv, TargetRow
    <3> QED
      BY <3>1, ControlAssumption DEF Identity, NoRepo
  <2> QED
    BY <1>1, <2>1 DEF Reopens, ValidateConnectorData, ControlInv, AliasesUnique, RefsResolve
<1> QED
  BY <1>1, ControlInvariant, PTL

\* The list a claim starts from, the check it repeats before it assigns, and the
\* two counts of devices a host is shown agree, because a binding never leaves
\* the workspaces of the device's user.
THEOREM EligibilityTheorem == ControlSpec => []EligibilityAgrees
<1>1. ASSUME ControlInv
      PROVE  EligibilityAgrees
  <2>1. BindingsStayInside
    BY <1>1 DEF ControlInv, RefsResolve, BindingsStayInside
  <2>2. ASSUME NEW d \in Device, NEW t \in Target, binding[d][t] = "enabled"
        PROVE  /\ target[t].ws \in Workspace /\ Enrolled(d)
               /\ device[d].owner = Owner[target[t].ws]
    <3>1. Live(t) /\ Enrolled(d) /\ Member(d, target[t].ws)
      BY <1>1, <2>2 DEF ControlInv, RefsResolve
    <3> QED
      BY <1>1, <3>1, LiveRows DEF ControlInv, TargetRow, Member
  <2>3. \A d \in Device :
          ListEligibleTargetIds(d) = {t \in Target : ResolveEligibleBinding(d, t)}
    BY <2>2 DEF ListEligibleTargetIds, ResolveEligibleBinding, Member
  <2>4. ASSUME NEW t \in Target
        PROVE  LET able == Cardinality({d \in Device : ResolveEligibleBinding(d, t)}) IN
               ActiveBindingCount(t) = able /\ UserBindingCount(t) = able
    <3> DEFINE able == {d \in Device : ResolveEligibleBinding(d, t)}
    <3>1. able = {d \in Device : /\ Enabled(t) /\ binding[d][t] = "enabled"
                                 /\ Owner[target[t].ws] = device[d].owner
                                 /\ ~device[d].revoked /\ device[d].owner \in active}
      BY <2>2 DEF ResolveEligibleBinding, Member
    <3>2. CASE Enabled(t)
      <4>1. able = {d \in Device : /\ binding[d][t] = "enabled"
                                   /\ device[d].owner = Owner[target[t].ws]
                                   /\ ~device[d].revoked /\ device[d].owner \in active}
        BY <3>1, <3>2
      <4> QED
        BY <3>1, <3>2, <4>1 DEF ActiveBindingCount, UserBindingCount
    <3>3. CASE ~Enabled(t)
      <4>1. able = {}
        BY <3>1, <3>3
      <4> QED
        BY <3>1, <3>3, <4>1, FS_EmptySet DEF ActiveBindingCount, UserBindingCount
    <3> QED
      BY <3>2, <3>3
  <2> QED
    BY <2>1, <2>3, <2>4 DEF EligibilityAgrees
<1> QED
  BY <1>1, ControlInvariant, PTL

-----------------------------------------------------------------------------
(***************************************************************************)
(* What a step may never do.                                               *)
(***************************************************************************)
DeviceStaysOut(d) ==
  device[d].revoked =>
    /\ device'[d].revoked
    /\ \A t \in Target : binding'[d][t] = "enabled" => binding[d][t] = "enabled"

IdentityKept(t) ==
  /\ target[t].repo # NoRepo /\ Live(t)' => target'[t].repo.ext = target[t].repo.ext
  /\ target[t].row = "deleted" => ~Live(t)'

\* Only a device that may still act has a binding of its own written.
LEMMA OtherBindings ==
  ASSUME ControlInv, NEW d \in Device, NEW e \in Device, NEW t \in Target,
         EnsureDeviceBinding(d, t), ~device[d].revoked, UNCHANGED device
  PROVE  DeviceStaysOut(e)
<1>1. e # d => \A s \in Target : binding'[e][s] = binding[e][s]
  BY DEF EnsureDeviceBinding, ControlInv, ControlTypeOK
<1> QED
  BY <1>1 DEF DeviceStaysOut

LEMMA RegisterParts ==
  ASSUME ControlInv, NEW d \in Device, NEW w \in Workspace, NEW a \in Alias,
         NEW k \in Kind, NEW s \in RepoName \cup {"none", "workspace_repository"},
         PostRegister(d, w, a, k, s)
  PROVE  /\ ~device[d].revoked /\ UNCHANGED device
         /\ \E t \in Target : EnsureDeviceBinding(d, t)
         /\ \A t \in Target : IdentityKept(t)
<1>1. CASE RegisterReused(d, w, k, s)
  BY <1>1 DEF RegisterReused, ReusableTargets, RepositoryTargets, PostRegister, DeviceAuth,
     IdentityKept, Live
<1>2. CASE RegisterExisting(d, w, a, k, s)
  <2> DEFINE repo == ResolveRepository(w, s)
  <2>1. PICK t \in AliasTargets(w, a) :
          /\ target[t].repo.ext = repo.ext /\ Enabled(t)
          /\ target' = [target EXCEPT ![t] = [@ EXCEPT !.repo = repo]]
          /\ EnsureDeviceBinding(d, t)
    BY <1>2 DEF RegisterExisting
  <2>2. t \in Target /\ target[t] \in TargetRow
    BY <2>1, LiveRows DEF AliasTargets, ControlInv
  <2>3. target'[t].repo = repo /\ \A x \in Target \ {t} : target'[x] = target[x]
    BY <2>1, <2>2 DEF ControlInv, ControlTypeOK, TargetRow
  <2>4. \A x \in Target : IdentityKept(x)
    BY <2>1, <2>2, <2>3 DEF IdentityKept, Live, Enabled
  <2> QED
    BY <1>2, <2>1, <2>2, <2>4 DEF RegisterExisting, PostRegister, DeviceAuth
<1>3. CASE RegisterNew(d, w, a, k, s)
  BY <1>3 DEF RegisterNew, PostRegister, DeviceAuth, IdentityKept, Live, NoTarget,
     ControlInv, ControlTypeOK
<1> QED
  BY <1>1, <1>2, <1>3 DEF PostRegister, RegisterExecutionTarget

LEMMA StepKeepsOut ==
  ASSUME ControlInv, [ControlNext]_controlVars, NEW e \in Device
  PROVE  DeviceStaysOut(e)
<1>1. ASSUME NEW d \in Device, NEW u \in User, FinalizeDeviceEnrollment(d, u)
      PROVE  DeviceStaysOut(e)
  <2>1. ~Enrolled(d) => ~device[d].revoked
    BY DeviceRows DEF ControlInv, NoDevice
  <2> QED
    BY <1>1, <2>1 DEF FinalizeDeviceEnrollment, DeviceStaysOut, ControlInv, ControlTypeOK
<1>2. ASSUME NEW d \in Device, RevokeDevice(d)
      PROVE  DeviceStaysOut(e)
  BY <1>2, DeviceRows DEF RevokeDevice, DeviceStaysOut, ControlInv, ControlTypeOK, DeviceRow
<1>3. ASSUME NEW d \in Device, CredentialExpires(d)
      PROVE  DeviceStaysOut(e)
  <2>1. device[d] \in DeviceRow
    BY <1>3, DeviceRows DEF CredentialExpires, ControlInv, NoDevice
  <2> QED
    BY <1>3, <2>1 DEF CredentialExpires, DeviceStaysOut, ControlInv, ControlTypeOK, DeviceRow
<1>4. ASSUME UNCHANGED <<device, binding>>
      PROVE  DeviceStaysOut(e)
  BY <1>4 DEF DeviceStaysOut
<1>5. ASSUME NEW d \in Device, NEW w \in Workspace, NEW a \in Alias, NEW k \in Kind,
             NEW s \in RepoName \cup {"none", "workspace_repository"},
             PostRegister(d, w, a, k, s)
      PROVE  DeviceStaysOut(e)
  BY <1>5, RegisterParts, OtherBindings
<1>6. ASSUME NEW d \in Device, NEW t \in Target, PostBind(d, t)
      PROVE  DeviceStaysOut(e)
  BY <1>6, OtherBindings DEF PostBind, BindTargetForDevice, DeviceActive
<1>7. ASSUME NEW d \in Device, NEW t \in Target, PostUnbind(d, t)
      PROVE  DeviceStaysOut(e)
  BY <1>7 DEF PostUnbind, UnbindTargetForDevice, DeviceStaysOut, ControlInv, ControlTypeOK
<1>8. ASSUME NEW d \in Device, NEW t \in Target, PostDelete(d, t)
      PROVE  DeviceStaysOut(e)
  BY <1>8 DEF PostDelete, DeleteExecutionTargetRow, DeviceStaysOut, ControlInv, ControlTypeOK
<1>9. ASSUME DeviceStep
      PROVE  DeviceStaysOut(e)
  BY <1>9, <1>2, <1>3, <1>4 DEF DeviceStep, PostDeviceRevoke, PostUserRevoke, SetUserActive
<1>10. ASSUME TargetStep
       PROVE  DeviceStaysOut(e)
  <2>1. \/ UNCHANGED <<device, binding>>
        \/ \E d \in Device, w \in Workspace, a \in Alias, k \in Kind,
              s \in RepoName \cup {"none", "workspace_repository"} : PostRegister(d, w, a, k, s)
        \/ \E d \in Device, t \in Target :
             PostBind(d, t) \/ PostUnbind(d, t) \/ PostDelete(d, t)
    BY <1>10 DEF TargetStep, PostDefaultRuntime, SetDefaultAgentRuntimeTarget,
       PostAttachRepository, AttachRepositoryIdentity, PostRename, RenameExecutionTarget,
       PostDisable, DisableExecutionTarget, PostEnable, EnableExecutionTarget,
       ReconcileRepository
  <2> QED
    BY <2>1, <1>4, <1>5, <1>6, <1>7, <1>8
<1> QED
  BY <1>1, <1>4, <1>9, <1>10 DEF ControlNext, controlVars

\* A row that is written again with its identity, or with its first one.
LEMMA RowKeepsIdentity ==
  ASSUME ControlInv, NEW t \in Target, NEW r, NEW x \in Target,
         target' = [target EXCEPT ![t] = r], target[t].row # "deleted",
         target[t].repo = NoRepo \/ r.repo = target[t].repo
           \/ r.row \notin {"enabled", "disabled"}
  PROVE  IdentityKept(x)
  BY DEF ControlInv, ControlTypeOK, IdentityKept, Live

LEMMA StepKeepsIdentity ==
  ASSUME ControlInv, [ControlNext]_controlVars, NEW x \in Target
  PROVE  IdentityKept(x)
<1>1. ASSUME UNCHANGED target
      PROVE  IdentityKept(x)
  BY <1>1 DEF IdentityKept, Live
<1>2. ASSUME NEW d \in Device, NEW w \in Workspace, NEW a \in Alias, NEW k \in Kind,
             NEW s \in RepoName \cup {"none", "workspace_repository"},
             PostRegister(d, w, a, k, s)
      PROVE  IdentityKept(x)
  BY <1>2, RegisterParts
<1>3. ASSUME NEW d \in Device, NEW t \in Target, NEW n \in RepoName,
             PostAttachRepository(d, t, n)
      PROVE  IdentityKept(x)
  BY <1>3, RowKeepsIdentity
     DEF PostAttachRepository, AttachRepositoryIdentity, Enabled
<1>4. ASSUME NEW d \in Device, NEW t \in Target, NEW a \in Alias, PostRename(d, t, a)
      PROVE  IdentityKept(x)
  <2>1. Live(t) /\ target[t] \in TargetRow
    BY <1>4, LiveRows DEF PostRename, RenameExecutionTarget, ControlInv
  <2>2. [target[t] EXCEPT !.alias = a].repo = target[t].repo
    BY <2>1 DEF TargetRow
  <2> QED
    BY <1>4, <2>1, <2>2, RowKeepsIdentity DEF PostRename, RenameExecutionTarget, Live
<1>5. ASSUME NEW u \in User, NEW t \in Target, PostDisable(u, t)
      PROVE  IdentityKept(x)
  <2>1. Enabled(t) /\ target[t] \in TargetRow
    BY <1>5, LiveRows DEF PostDisable, DisableExecutionTarget, ControlInv
  <2>2. [target[t] EXCEPT !.row = "disabled"].repo = target[t].repo
    BY <2>1 DEF TargetRow
  <2> QED
    BY <1>5, <2>1, <2>2, RowKeepsIdentity DEF PostDisable, DisableExecutionTarget, Enabled
<1>6. ASSUME NEW u \in User, NEW t \in Target, PostEnable(u, t)
      PROVE  IdentityKept(x)
  <2>1. target[t].row = "disabled" /\ target[t] \in TargetRow
    BY <1>6, LiveRows DEF PostEnable, EnableExecutionTarget, ControlInv, Live
  <2>2. [target[t] EXCEPT !.row = "enabled"].repo = target[t].repo
    BY <2>1 DEF TargetRow
  <2> QED
    BY <1>6, <2>1, <2>2, RowKeepsIdentity DEF PostEnable, EnableExecutionTarget
<1>7. ASSUME NEW d \in Device, NEW t \in Target, PostDelete(d, t)
      PROVE  IdentityKept(x)
  BY <1>7, RowKeepsIdentity
     DEF PostDelete, DeleteExecutionTargetRow, Live, GoneTarget, NoTarget
<1>8. ASSUME NEW w \in Linked, NEW n \in RepoName, ReconcileRepository(w, n)
      PROVE  IdentityKept(x)
  <2>1. target[x].repo.ext = w => target[x] \in TargetRow
    BY ControlAssumption DEF ControlInv, ControlTypeOK, NoTarget, GoneTarget, NoRepo
  <2> QED
    BY <1>8, <2>1 DEF ReconcileRepository, IdentityKept, Live, TargetRow
<1>9. ASSUME TargetStep
      PROVE  IdentityKept(x)
  <2>1. \/ UNCHANGED target
        \/ \E d \in Device, w \in Workspace, a \in Alias, k \in Kind,
              s \in RepoName \cup {"none", "workspace_repository"} : PostRegister(d, w, a, k, s)
        \/ \E d \in Device, t \in Target :
             \/ \E n \in RepoName : PostAttachRepository(d, t, n)
             \/ \E a \in Alias : PostRename(d, t, a)
             \/ PostDelete(d, t)
        \/ \E u \in User, t \in Target : PostDisable(u, t) \/ PostEnable(u, t)
        \/ \E w \in Linked, n \in RepoName : ReconcileRepository(w, n)
    BY <1>9 DEF TargetStep, PostBind, BindTargetForDevice, PostUnbind,
       UnbindTargetForDevice, PostDefaultRuntime, SetDefaultAgentRuntimeTarget
  <2> QED
    BY <2>1, <1>1, <1>2, <1>3, <1>4, <1>5, <1>6, <1>7, <1>8
<1>10. ASSUME DeviceStep \/ \E d \in Device, u \in User : FinalizeDeviceEnrollment(d, u)
       PROVE  IdentityKept(x)
  BY <1>1, <1>10 DEF DeviceStep, PostDeviceRevoke, PostUserRevoke, RevokeDevice,
     CredentialExpires, SetUserActive, FinalizeDeviceEnrollment
<1> QED
  BY <1>1, <1>9, <1>10 DEF ControlNext, controlVars

\* A revoked device stays revoked and no binding of it is enabled again, through
\* replayed enrollments and registrations; a target keeps its repository identity
\* through renames, registrations and backfills, and a deleted one stays deleted.
THEOREM NoWayBackTheorem == ControlSpec => NoWayBack
<1>1. ControlInv /\ [ControlNext]_controlVars => \A d \in Device : DeviceStaysOut(d)
  BY StepKeepsOut
<1>2. ControlInv /\ [ControlNext]_controlVars => \A t \in Target : IdentityKept(t)
  BY StepKeepsIdentity
<1> QED
  BY <1>1, <1>2, ControlInvariant, PTL
     DEF ControlSpec, NoWayBack, RevokedStaysOut, IdentityIsKept, DeviceStaysOut, IdentityKept

-----------------------------------------------------------------------------
(* Enrollment.                                                             *)

\* An id nobody has yet stands for nothing; an undecided or denied enrollment
\* has no device; the user an approval names is the one who gave it.
EntryInv ==
  \A d \in Device :
    /\ d \in fresh => enrollment[d] = NoEntry /\ ~Enrolled(d)
    /\ enrollment[d].state \in {"pending", "approved", "denied"} => ~Enrolled(d)
    /\ enrollment[d].state = "approved" => enrollment[d].user = approval[d]
    /\ Enrolled(d) => device[d].owner = approval[d]

\* A login that polls knows what it polls for, and a machine whose credential
\* works, and did not stop working meanwhile, has no other login under way.
MachineOK(m) ==
  LET cred == machine[m].credential IN
  /\ machine[m].at \in {"polling", "granted", "saved"} => machine[m].file # None
  /\ machine[m].at = "granted" => Enrolled(machine[m].file)
  /\ cred # None =>
       /\ Enrolled(cred)
       /\ DeviceAuth(cred) /\ cred \notin returned =>
            machine[m].file \in {None, cred} /\ machine[m].at \in {"idle", "saved"}

MachineInv == \A m \in Machine : MachineOK(m)

EnrollInv == ControlInv /\ EnrollTypeOK /\ EntryInv /\ MachineInv

MachineRow == [at : {"idle", "begin", "polling", "granted", "saved"},
               file : Device \cup {None}, credential : Device \cup {None}]

-----------------------------------------------------------------------------
(***************************************************************************)
(* The steps use the control store by its operations.                      *)
(***************************************************************************)
LEMMA EntryShape ==
  ASSUME EnrollTypeOK, NEW d \in Device
  PROVE  /\ enrollment[d].state \in {"absent", "pending", "approved", "denied", "consumed"}
         /\ enrollment[d].nonce \in Browser \cup {None}
         /\ enrollment[d].user \in User \cup {None}
         /\ enrollment[d].state = "absent" <=> enrollment[d] = NoEntry
  BY DEF EnrollTypeOK, Entry, NoEntry

LEMMA ApprovedIsControl ==
  ASSUME EnrollTypeOK, NEW m \in Machine, PollApproved(m), machine[m].file # None
  PROVE  \E d \in Device, u \in User :
           /\ d = machine[m].file /\ u = enrollment[d].user
           /\ FinalizeDeviceEnrollment(d, u)
<1> DEFINE d == machine[m].file
<1>1. d \in Device
  BY DEF EnrollTypeOK
<1>2. enrollment[d].user \in active
  BY DEF PollApproved, FinalizeDeviceEnrollment
<1>3. enrollment[d].user \in User
  BY <1>2 DEF EnrollTypeOK, ControlTypeOK
<1> QED
  BY <1>1, <1>3 DEF PollApproved

LEMMA AccessIsControl ==
  RevokeAccess \/ SwitchAccess => DeviceStep
  BY DEF RevokeAccess, SwitchAccess, DeviceStep

\* What every step of a login leaves alone, the finalization apart.
LEMMA EnrollIsControl ==
  ASSUME EnrollTypeOK, MachineInv, [EnrollNext]_allEnrollVars
  PROVE  \/ \E m \in Machine : PollApproved(m) /\ machine[m].file # None
         \/ RevokeAccess \/ SwitchAccess
         \/ UNCHANGED controlVars /\ returned' = returned
<1>1. ASSUME NEW m \in Machine, Login(m) \/ LoginCrashes(m)
      PROVE  (PollApproved(m) /\ machine[m].file # None)
                \/ (UNCHANGED controlVars /\ returned' = returned)
  <2>1. PollApproved(m) => machine[m].file # None
    BY DEF PollApproved, MachineInv, MachineOK
  <2> QED
    BY <1>1, <2>1 DEF Login, StartLogin, BeginEnrollment, LoginExpires, PollRefused,
       PollConsumed, CheckIdentity, RemoveSession, LoginCrashes
<1>2. ASSUME NEW b \in Browser, SignOut(b) \/ \E u \in User : SignIn(b, u)
      PROVE  UNCHANGED controlVars /\ returned' = returned
  BY <1>2 DEF SignOut, SignIn
<1>3. ASSUME NEW b \in Browser, NEW d \in Device,
             OpenConsent(b, d) \/ \E s \in {"approved", "denied"} : Decide(b, d, s)
      PROVE  UNCHANGED controlVars /\ returned' = returned
  BY <1>3 DEF OpenConsent, Decide
<1>4. ASSUME NEW d \in Device, Expire(d)
      PROVE  UNCHANGED controlVars /\ returned' = returned
  BY <1>4 DEF Expire
<1>5. RestartServer => UNCHANGED controlVars /\ returned' = returned
  BY DEF RestartServer
<1> QED
  BY <1>1, <1>2, <1>3, <1>4, <1>5 DEF EnrollNext, allEnrollVars, enrollVars

LEMMA EnrollStepIsControl ==
  ASSUME EnrollTypeOK, MachineInv, [EnrollNext]_allEnrollVars
  PROVE  [ControlNext]_controlVars
  BY EnrollIsControl, ApprovedIsControl, AccessIsControl DEF ControlNext

\* Nobody who is enrolled stops being so or changes hands, and a credential
\* that does not work begins to only when its user is enabled again.
AccessTraced ==
  /\ returned \subseteq returned'
  /\ \A d \in Device : Enrolled(d) =>
       /\ Enrolled(d)' /\ device'[d].owner = device[d].owner
       /\ DeviceAuth(d)' => DeviceAuth(d) \/ d \in returned'

LEMMA AccessIsTraced ==
  ASSUME ControlInv, EnrollTypeOK, MachineInv, [EnrollNext]_allEnrollVars
  PROVE  AccessTraced
<1>1. ASSUME NEW m \in Machine, PollApproved(m), machine[m].file # None
      PROVE  AccessTraced
  <2>1. PICK d \in Device : d = machine[m].file
    BY <1>1 DEF EnrollTypeOK
  <2>2. FinalizeDeviceEnrollment(d, enrollment[d].user) /\ returned' = returned
    BY <1>1, <2>1 DEF PollApproved
  <2> QED
    BY <2>2 DEF FinalizeDeviceEnrollment, AccessTraced, Enrolled, DeviceAuth, ControlInv,
       ControlTypeOK
<1>2. ASSUME NEW d \in Device, RevokeDevice(d), returned' = returned
      PROVE  AccessTraced
  <2>1. device[d] \in DeviceRow
    BY <1>2, DeviceRows DEF RevokeDevice, ControlInv
  <2> QED
    BY <1>2, <2>1 DEF RevokeDevice, AccessTraced, Enrolled, DeviceAuth, ControlInv,
       ControlTypeOK, DeviceRow
<1>3. ASSUME NEW u \in MaySuspend, SetUserActive(u),
             returned' = IF u \in active THEN returned
                         ELSE returned \cup {d \in Device : device[d].owner = u}
      PROVE  AccessTraced
  <2>1. device' = device /\ returned \subseteq returned'
    BY <1>3 DEF SetUserActive
  <2>2. CASE u \in active
    <3>1. active' \subseteq active
      BY <1>3, <2>2 DEF SetUserActive
    <3> QED
      BY <2>1, <3>1 DEF AccessTraced, Enrolled, DeviceAuth
  <2>3. CASE u \notin active
    <3>1. active' \subseteq active \cup {u}
      BY <1>3 DEF SetUserActive
    <3>2. \A d \in Device : device[d].owner = u => d \in returned'
      BY <1>3, <2>3
    <3> QED
      BY <2>1, <3>1, <3>2 DEF AccessTraced, Enrolled, DeviceAuth
  <2> QED
    BY <2>2, <2>3
<1>4. ASSUME UNCHANGED controlVars, returned' = returned
      PROVE  AccessTraced
  BY <1>4 DEF AccessTraced, Enrolled, DeviceAuth, controlVars
<1>5. RevokeAccess => AccessTraced
  BY <1>2 DEF RevokeAccess, PostUserRevoke, enrollVars
<1>6. SwitchAccess => AccessTraced
  BY <1>3 DEF SwitchAccess
<1> QED
  BY <1>1, <1>4, <1>5, <1>6, EnrollIsControl

-----------------------------------------------------------------------------
(***************************************************************************)
(* The machine.                                                            *)
(***************************************************************************)
LEMMA MachineShape ==
  ASSUME EnrollTypeOK, NEW m \in Machine
  PROVE  /\ machine[m] \in MachineRow
         /\ machine[m].file \in Device \cup {None}
         /\ machine[m].credential \in Device \cup {None}
  BY DEF EnrollTypeOK, MachineRow

LEMMA MachineSets ==
  ASSUME EnrollTypeOK, NEW m \in Machine, NEW row \in MachineRow,
         machine' = [machine EXCEPT ![m] = row]
  PROVE  /\ machine' \in [Machine -> MachineRow]
         /\ machine'[m] = row
         /\ \A n \in Machine \ {m} : machine'[n] = machine[n]
  BY DEF EnrollTypeOK, MachineRow

LEMMA GoesSets ==
  ASSUME EnrollTypeOK, NEW m \in Machine,
         NEW pc \in {"idle", "begin", "polling", "granted", "saved"}, Goes(m, pc)
  PROVE  /\ machine' \in [Machine -> MachineRow]
         /\ machine'[m].at = pc
         /\ machine'[m].file = machine[m].file
         /\ machine'[m].credential = machine[m].credential
         /\ \A n \in Machine \ {m} : machine'[n] = machine[n]
<1> DEFINE row == [machine[m] EXCEPT !.at = pc]
<1>1. /\ row \in MachineRow /\ row.at = pc
      /\ row.file = machine[m].file /\ row.credential = machine[m].credential
  BY MachineShape DEF MachineRow
<1>2. machine' = [machine EXCEPT ![m] = row]
  BY DEF Goes
<1> HIDE DEF row
<1> QED
  BY <1>1, <1>2, MachineSets

LEMMA EndsCleanSets ==
  ASSUME EnrollTypeOK, NEW m \in Machine, EndsClean(m)
  PROVE  /\ machine' \in [Machine -> MachineRow]
         /\ machine'[m].at = "idle" /\ machine'[m].file = None
         /\ machine'[m].credential = machine[m].credential
         /\ \A n \in Machine \ {m} : machine'[n] = machine[n]
<1> DEFINE row == [machine[m] EXCEPT !.at = "idle", !.file = None]
<1>1. /\ row \in MachineRow /\ row.at = "idle"
      /\ row.file = None /\ row.credential = machine[m].credential
  BY MachineShape DEF MachineRow
<1>2. machine' = [machine EXCEPT ![m] = row]
  BY DEF EndsClean
<1> HIDE DEF row
<1> QED
  BY <1>1, <1>2, MachineSets

\* A login that begins anew forgets the last one; one that has its id on disk
\* polls for it; one whose credential works keeps it.
LEMMA LoginSets ==
  ASSUME EnrollTypeOK, NEW m \in Machine,
         NEW pc \in {"idle", "begin", "polling", "granted", "saved"},
         NEW f \in Device \cup {None}
  PROVE  /\ machine' = [machine EXCEPT ![m] = [@ EXCEPT !.at = pc, !.file = f]] =>
              /\ machine' \in [Machine -> MachineRow]
              /\ machine'[m].at = pc /\ machine'[m].file = f
              /\ machine'[m].credential = machine[m].credential
              /\ \A n \in Machine \ {m} : machine'[n] = machine[n]
         /\ machine' = [machine EXCEPT ![m] = [@ EXCEPT !.at = pc, !.credential = f]] =>
              /\ machine' \in [Machine -> MachineRow]
              /\ machine'[m].at = pc /\ machine'[m].file = machine[m].file
              /\ machine'[m].credential = f
              /\ \A n \in Machine \ {m} : machine'[n] = machine[n]
<1> DEFINE filed == [machine[m] EXCEPT !.at = pc, !.file = f]
           saved == [machine[m] EXCEPT !.at = pc, !.credential = f]
<1>1. /\ filed \in MachineRow /\ filed.at = pc
      /\ filed.file = f /\ filed.credential = machine[m].credential
  BY MachineShape DEF MachineRow
<1>2. /\ saved \in MachineRow /\ saved.at = pc
      /\ saved.file = machine[m].file /\ saved.credential = f
  BY MachineShape DEF MachineRow
<1>3. /\ machine' = [machine EXCEPT ![m] = [@ EXCEPT !.at = pc, !.file = f]]
           => machine' = [machine EXCEPT ![m] = filed]
      /\ machine' = [machine EXCEPT ![m] = [@ EXCEPT !.at = pc, !.credential = f]]
           => machine' = [machine EXCEPT ![m] = saved]
  OBVIOUS
<1> HIDE DEF filed, saved
<1> QED
  BY <1>1, <1>2, <1>3, MachineSets

\* Access that is lost, or that comes back to a user, disturbs no machine.
LEMMA MachineFrame ==
  ASSUME EnrollTypeOK, MachineInv, AccessTraced, NEW n \in Machine,
         machine'[n] = machine[n]
  PROVE  MachineOK(n)'
<1>1. machine[n].credential \in Device \cup {None} /\ machine[n].file \in Device \cup {None}
  BY MachineShape
<1>2. MachineOK(n)
  BY DEF MachineInv
<1> QED
  BY <1>1, <1>2 DEF MachineOK, AccessTraced, Enrolled, DeviceAuth

\* A login that keeps its credential, and the id it has on disk or none.
LEMMA MachineStep ==
  ASSUME EnrollTypeOK, MachineInv, AccessTraced, NEW m \in Machine,
         \A n \in Machine \ {m} : machine'[n] = machine[n],
         machine'[m].credential = machine[m].credential,
         machine'[m].file \in {machine[m].file, None},
         machine'[m].at \in {"polling", "granted", "saved"} => machine'[m].file # None,
         machine'[m].at = "granted" => device'[machine'[m].file].owner # None,
         machine'[m].at \notin {"idle", "saved"} =>
           \/ machine[m].credential \in {None} \cup returned
           \/ ~DeviceAuth(machine[m].credential)
  PROVE  MachineInv'
<1>1. machine[m].credential \in Device \cup {None} /\ machine[m].file \in Device \cup {None}
  BY MachineShape
<1>2. MachineOK(m)
  BY DEF MachineInv
<1>3. MachineOK(m)'
  BY <1>1, <1>2 DEF MachineOK, AccessTraced, Enrolled, DeviceAuth
<1>4. \A n \in Machine \ {m} : MachineOK(n)'
  BY MachineFrame
<1> QED
  BY <1>3, <1>4 DEF MachineInv

LEMMA EndsKeeps ==
  ASSUME EnrollTypeOK, MachineInv, AccessTraced, NEW m \in Machine,
         Ends(m) \/ EndsClean(m)
  PROVE  MachineInv' /\ machine' \in [Machine -> MachineRow]
<1>1. CASE Ends(m)
  BY <1>1, GoesSets, MachineStep DEF Ends
<1>2. CASE EndsClean(m)
  BY <1>2, EndsCleanSets, MachineStep
<1> QED
  BY <1>1, <1>2

LEMMA StartKeeps ==
  ASSUME EnrollTypeOK, MachineInv, AccessTraced, NEW m \in Machine, StartLogin(m)
  PROVE  MachineInv' /\ machine' \in [Machine -> MachineRow]
<1> DEFINE cred == machine[m].credential
           works == cred # None /\ DeviceAuth(cred)
<1>1. CASE works
  BY <1>1, EndsKeeps DEF StartLogin
<1>2. CASE ~works /\ machine[m].file # None /\ Goes(m, "polling")
  BY <1>2, GoesSets, MachineStep
<1>3. CASE ~works /\ machine' = [machine EXCEPT ![m] = [@ EXCEPT !.at = "begin", !.file = None]]
  BY <1>3, LoginSets, MachineStep
<1> QED
  BY <1>1, <1>2, <1>3 DEF StartLogin

\* An id that is new on disk: the machine's credential did not work when this
\* login began, and still does not or has come back since.
LEMMA BeginKeeps ==
  ASSUME EnrollTypeOK, MachineInv, AccessTraced, NEW m \in Machine, BeginEnrollment(m)
  PROVE  MachineInv' /\ machine' \in [Machine -> MachineRow]
<1>1. CASE Ends(m)
  BY <1>1, EndsKeeps
<1>2. ASSUME NEW d \in Device,
             machine' = [machine EXCEPT ![m] = [@ EXCEPT !.at = "polling", !.file = d]]
      PROVE  MachineInv' /\ machine' \in [Machine -> MachineRow]
  <2>1. /\ machine' \in [Machine -> MachineRow]
        /\ machine'[m].at = "polling" /\ machine'[m].file = d
        /\ machine'[m].credential = machine[m].credential
        /\ \A n \in Machine \ {m} : machine'[n] = machine[n]
    BY <1>2, LoginSets
  <2>2. machine[m].credential \in Device \cup {None}
    BY MachineShape
  <2>3. machine[m].at = "begin" /\ MachineOK(m)
    BY DEF BeginEnrollment, MachineInv
  <2>4. d # None
    BY EnrollmentAssumption
  <2>5. MachineOK(m)'
    BY <2>1, <2>2, <2>3, <2>4 DEF MachineOK, AccessTraced, Enrolled, DeviceAuth
  <2> QED
    BY <2>1, <2>5, MachineFrame DEF MachineInv
<1> QED
  BY <1>1, <1>2 DEF BeginEnrollment, EnrollTypeOK

LEMMA AnsweredKeeps ==
  ASSUME EnrollTypeOK, MachineInv, AccessTraced, NEW m \in Machine,
         machine[m].at = "polling", Answered(m),
         device'[machine[m].file].owner # None
  PROVE  MachineInv' /\ machine' \in [Machine -> MachineRow]
<1>1. /\ machine[m].file # None
      /\ \/ machine[m].credential \in {None} \cup returned
         \/ ~DeviceAuth(machine[m].credential)
  BY DEF MachineInv, MachineOK
<1>2. CASE Goes(m, "granted")
  BY <1>1, <1>2, GoesSets, MachineStep
<1>3. CASE Goes(m, "polling")
  BY <1>1, <1>3, GoesSets, MachineStep
<1> QED
  BY <1>2, <1>3 DEF Answered

\* The credential the machine keeps is the device the server just confirmed.
LEMMA IdentityKeeps ==
  ASSUME EnrollTypeOK, MachineInv, AccessTraced, NEW m \in Machine, CheckIdentity(m)
  PROVE  MachineInv' /\ machine' \in [Machine -> MachineRow]
<1> DEFINE d == machine[m].file
<1>1. d \in Device /\ Enrolled(d)
  BY MachineShape DEF CheckIdentity, MachineInv, MachineOK
<1>2. CASE Ends(m)
  BY <1>2, EndsKeeps
<1>3. CASE machine' = [machine EXCEPT ![m] = [@ EXCEPT !.at = "saved", !.credential = d]]
  <2>1. /\ machine' \in [Machine -> MachineRow]
        /\ machine'[m].at = "saved" /\ machine'[m].file = d
        /\ machine'[m].credential = d
        /\ \A n \in Machine \ {m} : machine'[n] = machine[n]
    BY <1>1, <1>3, LoginSets
  <2>2. d # None
    BY <1>1, EnrollmentAssumption
  <2>3. MachineOK(m)'
    BY <1>1, <2>1, <2>2 DEF MachineOK, AccessTraced, Enrolled
  <2> QED
    BY <2>1, <2>3, MachineFrame DEF MachineInv
<1> QED
  BY <1>2, <1>3 DEF CheckIdentity

LEMMA StepKeepsMachines ==
  ASSUME ControlInv, EnrollTypeOK, MachineInv, [EnrollNext]_allEnrollVars
  PROVE  MachineInv' /\ machine' \in [Machine -> MachineRow]
<1>1. AccessTraced
  BY AccessIsTraced
<1>2. ASSUME NEW m \in Machine, Login(m) \/ LoginCrashes(m)
      PROVE  MachineInv' /\ machine' \in [Machine -> MachineRow]
  <2>1. CASE StartLogin(m)
    BY <1>1, <2>1, StartKeeps
  <2>2. CASE BeginEnrollment(m)
    BY <1>1, <2>2, BeginKeeps
  <2>3. CASE LoginExpires(m) \/ PollRefused(m) \/ RemoveSession(m) \/ LoginCrashes(m)
    BY <1>1, <2>3, EndsKeeps DEF LoginExpires, PollRefused, RemoveSession, LoginCrashes
  <2>4. CASE PollApproved(m)
    <3>1. machine[m].file \in Device /\ machine[m].file # None
      BY <2>4, MachineShape DEF PollApproved, MachineInv, MachineOK
    <3>2. enrollment[machine[m].file].user \in User
      BY <2>4 DEF PollApproved, FinalizeDeviceEnrollment, EnrollTypeOK, ControlTypeOK
    <3>3. device'[machine[m].file].owner # None
      BY <2>4, <3>1, <3>2, ControlAssumption
         DEF PollApproved, FinalizeDeviceEnrollment, Enrolled, ControlInv, ControlTypeOK
    <3> QED
      BY <1>1, <2>4, <3>3, AnsweredKeeps DEF PollApproved
  <2>5. CASE PollConsumed(m)
    <3>1. device'[machine[m].file].owner # None
      BY <2>5 DEF PollConsumed, Enrolled, controlVars
    <3> QED
      BY <1>1, <2>5, <3>1, AnsweredKeeps DEF PollConsumed, Answered
  <2>6. CASE CheckIdentity(m)
    BY <1>1, <2>6, IdentityKeeps
  <2> QED
    BY <1>2, <2>1, <2>2, <2>3, <2>4, <2>5, <2>6 DEF Login
<1>3. ASSUME machine' = machine
      PROVE  MachineInv' /\ machine' \in [Machine -> MachineRow]
  BY <1>1, <1>3, MachineFrame DEF MachineInv, EnrollTypeOK, MachineRow
<1>4. (\E m \in Machine : Login(m) \/ LoginCrashes(m)) \/ machine' = machine
  BY DEF EnrollNext, allEnrollVars, enrollVars, SignOut, SignIn, OpenConsent, Decide,
     Expire, RestartServer, RevokeAccess, SwitchAccess
<1> QED
  BY <1>2, <1>3, <1>4

-----------------------------------------------------------------------------
(***************************************************************************)
(* The table of enrollments.                                               *)
(***************************************************************************)
TablesOK ==
  /\ fresh \subseteq Device
  /\ enrollment \in [Device -> Entry \cup {NoEntry}]
  /\ approval \in [Device -> User \cup {None}]

\* Nobody becomes a device and no device changes hands.
OwnersStay == \A d \in Device : device'[d].owner = device[d].owner

\* An entry that is gone, or the same, is still right when its device is.
LEMMA EntryFrame ==
  ASSUME TablesOK, EntryInv, OwnersStay, UNCHANGED <<fresh, approval>>,
         enrollment' \in [Device -> Entry \cup {NoEntry}],
         \A d \in Device : enrollment'[d] \in {enrollment[d], NoEntry}
  PROVE  EntryInv' /\ TablesOK'
<1>1. TablesOK'
  BY DEF TablesOK
<1>2. NoEntry.state = "absent"
  BY DEF NoEntry
<1>3. EntryInv'
  BY <1>2 DEF EntryInv, OwnersStay, Enrolled
<1> QED
  BY <1>1, <1>3

LEMMA PurgedTable ==
  ASSUME TablesOK
  PROVE  /\ PurgeExpired \in [Device -> Entry \cup {NoEntry}]
         /\ \A d \in Device : PurgeExpired[d] \in {enrollment[d], NoEntry}
  BY DEF TablesOK, PurgeExpired

LEMMA BeginKeepsTable ==
  ASSUME TablesOK, EntryInv, NEW m \in Machine, BeginEnrollment(m)
  PROVE  EntryInv' /\ TablesOK'
<1>1. UNCHANGED <<device, approval>>
  BY DEF BeginEnrollment, controlVars
<1>2. CASE enrollment' = PurgeExpired /\ UNCHANGED fresh
  BY <1>1, <1>2, PurgedTable, EntryFrame DEF OwnersStay
<1>3. ASSUME NEW d \in fresh, CreateEnrollment(d)
      PROVE  EntryInv' /\ TablesOK'
  <2> DEFINE new == [state |-> "pending", nonce |-> None, user |-> None]
  <2>1. d \in Device /\ ~Enrolled(d)
    BY DEF TablesOK, EntryInv
  <2>2. new \in Entry /\ new.state = "pending"
    BY DEF Entry
  <2>3. /\ enrollment' \in [Device -> Entry \cup {NoEntry}]
        /\ enrollment'[d] = new
        /\ \A e \in Device \ {d} : enrollment'[e] \in {enrollment[e], NoEntry}
    <3> HIDE DEF new
    <3>1. enrollment' = [PurgeExpired EXCEPT ![d] = new]
      BY <1>3 DEF CreateEnrollment, new
    <3> QED
      BY <2>1, <2>2, <3>1, PurgedTable
  <2>4. fresh' = fresh \ {d}
    BY <1>3 DEF CreateEnrollment
  <2>5. TablesOK'
    BY <1>1, <2>3, <2>4 DEF TablesOK
  <2>6. NoEntry.state = "absent"
    BY DEF NoEntry
  <2>7. EntryInv'
    <3> HIDE DEF new
    <3> QED
      BY <1>1, <2>1, <2>2, <2>3, <2>4, <2>6 DEF EntryInv, Enrolled
  <2> QED
    BY <2>5, <2>7
<1> QED
  BY <1>2, <1>3 DEF BeginEnrollment

\* One entry is written again.
LEMMA OneEntry ==
  ASSUME TablesOK, NEW d \in Device, NEW e \in Entry,
         enrollment' = [enrollment EXCEPT ![d] = e]
  PROVE  /\ enrollment' \in [Device -> Entry \cup {NoEntry}]
         /\ enrollment'[d] = e
         /\ \A x \in Device \ {d} : enrollment'[x] = enrollment[x]
  BY DEF TablesOK

\* The device is the user's whose approval the entry holds.
LEMMA ApprovedKeepsTable ==
  ASSUME ControlInv, TablesOK, EntryInv, NEW m \in Machine, machine[m].file \in Device,
         PollApproved(m)
  PROVE  EntryInv' /\ TablesOK'
<1> DEFINE d == machine[m].file
           row == [enrollment[d] EXCEPT !.state = "consumed"]
<1>1. enrollment[d] \in Entry /\ enrollment[d].state = "approved"
  BY DEF PollApproved, TablesOK, NoEntry
<1>2. row \in Entry /\ row.state = "consumed"
  BY <1>1 DEF Entry
<1>3. enrollment' = [enrollment EXCEPT ![d] = row]
  BY DEF PollApproved
<1>4. /\ UNCHANGED <<fresh, approval>>
      /\ FinalizeDeviceEnrollment(d, enrollment[d].user)
  BY DEF PollApproved
<1>5. ~Enrolled(d) /\ enrollment[d].user = approval[d] /\ d \notin fresh
  BY <1>1 DEF EntryInv, NoEntry
<1>6. /\ device'[d].owner = approval[d]
      /\ \A x \in Device \ {d} : device'[x] = device[x]
  BY <1>4, <1>5 DEF FinalizeDeviceEnrollment, ControlInv, ControlTypeOK
<1> HIDE DEF row
<1>7. /\ enrollment' \in [Device -> Entry \cup {NoEntry}]
      /\ enrollment'[d] = row
      /\ \A x \in Device \ {d} : enrollment'[x] = enrollment[x]
  BY <1>2, <1>3, OneEntry
<1>8. TablesOK'
  BY <1>4, <1>7 DEF TablesOK
<1>9. EntryInv'
  BY <1>2, <1>4, <1>5, <1>6, <1>7 DEF EntryInv, Enrolled
<1> QED
  BY <1>8, <1>9

LEMMA ConsentKeepsTable ==
  ASSUME TablesOK, EntryInv, NEW b \in Browser, NEW d \in Device, OpenConsent(b, d)
  PROVE  EntryInv' /\ TablesOK'
<1> DEFINE row == [enrollment[d] EXCEPT !.nonce = b]
<1>1. enrollment[d] \in Entry /\ enrollment[d].state = "pending"
  BY DEF OpenConsent, TablesOK, NoEntry
<1>2. row \in Entry /\ row.state = "pending"
  BY <1>1 DEF Entry
<1>3. /\ enrollment' = [enrollment EXCEPT ![d] = row]
      /\ UNCHANGED <<fresh, device, approval>>
  BY DEF OpenConsent, controlVars
<1>4. d \notin fresh
  BY <1>1 DEF EntryInv, NoEntry
<1> HIDE DEF row
<1>5. /\ enrollment' \in [Device -> Entry \cup {NoEntry}]
      /\ enrollment'[d] = row
      /\ \A x \in Device \ {d} : enrollment'[x] = enrollment[x]
  BY <1>2, <1>3, OneEntry
<1>6. TablesOK'
  BY <1>3, <1>5 DEF TablesOK
<1>7. EntryInv'
  BY <1>1, <1>2, <1>3, <1>4, <1>5 DEF EntryInv, Enrolled
<1> QED
  BY <1>6, <1>7

LEMMA DecideKeepsTable ==
  ASSUME TablesOK, EntryInv, active \subseteq User, NEW b \in Browser, NEW d \in Device,
         NEW s \in {"approved", "denied"}, Decide(b, d, s)
  PROVE  EntryInv' /\ TablesOK'
<1> DEFINE u == IF s = "approved" THEN session[b] ELSE None
           row == [enrollment[d] EXCEPT !.state = s, !.user = u]
<1>1. enrollment[d] \in Entry /\ enrollment[d].state = "pending"
  BY DEF Decide, TablesOK, NoEntry
<1>2. u \in User \cup {None}
  BY DEF Decide
<1>3. row \in Entry /\ row.state = s /\ row.user = u
  BY <1>1, <1>2 DEF Entry
<1>4. /\ enrollment' = [enrollment EXCEPT ![d] = row]
      /\ approval' = [approval EXCEPT ![d] = u]
      /\ UNCHANGED <<fresh, device>>
  BY DEF Decide, Settle, controlVars
<1>5. d \notin fresh /\ ~Enrolled(d)
  BY <1>1 DEF EntryInv, NoEntry
<1> HIDE DEF row, u
<1>6. /\ enrollment' \in [Device -> Entry \cup {NoEntry}]
      /\ enrollment'[d] = row
      /\ \A x \in Device \ {d} : enrollment'[x] = enrollment[x]
  BY <1>3, <1>4, OneEntry
<1>7. /\ approval' \in [Device -> User \cup {None}]
      /\ approval'[d] = u
      /\ \A x \in Device \ {d} : approval'[x] = approval[x]
  BY <1>2, <1>4 DEF TablesOK
<1>8. TablesOK'
  BY <1>4, <1>6, <1>7 DEF TablesOK
<1>9. EntryInv'
  BY <1>1, <1>3, <1>4, <1>5, <1>6, <1>7 DEF EntryInv, Enrolled
<1> QED
  BY <1>8, <1>9

LEMMA StepKeepsTable ==
  ASSUME ControlInv, EnrollTypeOK, EntryInv, MachineInv, [EnrollNext]_allEnrollVars
  PROVE  EntryInv' /\ TablesOK'
<1>1. TablesOK /\ active \subseteq User
  BY DEF EnrollTypeOK, TablesOK, ControlTypeOK
<1>2. ASSUME OwnersStay, UNCHANGED <<fresh, enrollment, approval>>
      PROVE  EntryInv' /\ TablesOK'
  BY <1>1, <1>2, EntryFrame DEF TablesOK
<1>3. ASSUME NEW m \in Machine, Login(m) \/ LoginCrashes(m)
      PROVE  EntryInv' /\ TablesOK'
  <2>1. CASE BeginEnrollment(m)
    BY <1>1, <2>1, BeginKeepsTable
  <2>2. CASE PollApproved(m)
    <3>1. machine[m].file \in Device
      BY <2>2, MachineShape DEF PollApproved, MachineInv, MachineOK
    <3> QED
      BY <1>1, <2>2, <3>1, ApprovedKeepsTable
  <2>3. CASE UNCHANGED <<fresh, controlVars, enrollment, approval>>
    BY <1>2, <2>3 DEF OwnersStay, controlVars
  <2> QED
    BY <1>3, <2>1, <2>2, <2>3 DEF Login, StartLogin, LoginExpires, PollRefused,
       PollConsumed, CheckIdentity, RemoveSession, LoginCrashes
<1>4. ASSUME NEW b \in Browser, SignOut(b) \/ \E u \in User : SignIn(b, u)
      PROVE  EntryInv' /\ TablesOK'
  BY <1>2, <1>4 DEF SignOut, SignIn, OwnersStay, controlVars
<1>5. ASSUME NEW b \in Browser, NEW d \in Device,
             OpenConsent(b, d) \/ \E s \in {"approved", "denied"} : Decide(b, d, s)
      PROVE  EntryInv' /\ TablesOK'
  BY <1>1, <1>5, ConsentKeepsTable, DecideKeepsTable
<1>6. ASSUME NEW d \in Device, Expire(d)
      PROVE  EntryInv' /\ TablesOK'
  BY <1>2, <1>6 DEF Expire, OwnersStay, controlVars
<1>7. CASE RestartServer
  BY <1>1, <1>7, EntryFrame DEF RestartServer, OwnersStay, controlVars
<1>8. CASE RevokeAccess \/ SwitchAccess
  <2>1. OwnersStay
    <3>1. ASSUME NEW u \in User, NEW d \in Device, PostUserRevoke(u, d)
          PROVE  OwnersStay
      <4>1. device[d] \in DeviceRow
        BY <3>1, DeviceRows DEF PostUserRevoke, RevokeDevice, ControlInv
      <4> QED
        BY <3>1, <4>1 DEF PostUserRevoke, RevokeDevice, OwnersStay, ControlInv,
           ControlTypeOK, DeviceRow
    <3> QED
      BY <1>8, <3>1 DEF RevokeAccess, SwitchAccess, SetUserActive, OwnersStay
  <2> QED
    BY <1>2, <1>8, <2>1 DEF RevokeAccess, SwitchAccess, enrollVars
<1>9. CASE UNCHANGED allEnrollVars
  BY <1>2, <1>9 DEF allEnrollVars, enrollVars, controlVars, OwnersStay
<1> QED
  BY <1>3, <1>4, <1>5, <1>6, <1>7, <1>8, <1>9 DEF EnrollNext

-----------------------------------------------------------------------------
LEMMA EnrollInitInv == EnrollInit => EnrollInv
<1> SUFFICES ASSUME EnrollInit PROVE EnrollInv
  OBVIOUS
<1>1. ControlInv /\ ControlTypeOK
  BY InitInv DEF EnrollInit, ControlInv
<1>2. EnrollTypeOK
  BY <1>1 DEF EnrollInit, EnrollTypeOK
<1>3. EntryInv
  BY ControlAssumption DEF EnrollInit, EntryInv, ControlInit, Enrolled, NoDevice, NoEntry
<1>4. MachineInv
  BY DEF EnrollInit, MachineInv, MachineOK
<1> QED
  BY <1>1, <1>2, <1>3, <1>4 DEF EnrollInv

\* The browsers' and the clock's part of the type.
LEMMA StepKeepsBrowsers ==
  ASSUME EnrollTypeOK, [EnrollNext]_allEnrollVars
  PROVE  /\ old' \subseteq Device /\ returned' \subseteq Device
         /\ session' \in [Browser -> User \cup {None}]
         /\ page' \in [Browser -> Device \cup {None}]
<1>1. ASSUME NEW m \in Machine, Login(m) \/ LoginCrashes(m)
      PROVE  UNCHANGED <<old, session, page, returned>>
  BY <1>1 DEF Login, StartLogin, BeginEnrollment, LoginExpires, PollRefused, PollApproved,
     PollConsumed, CheckIdentity, RemoveSession, LoginCrashes
<1>2. ASSUME NEW b \in Browser, NEW d \in Device,
             OpenConsent(b, d) \/ \E s \in {"approved", "denied"} : Decide(b, d, s)
      PROVE  UNCHANGED <<old, session, returned>> /\ page' \in [Browser -> Device \cup {None}]
  BY <1>2 DEF OpenConsent, Decide, EnrollTypeOK
<1>3. ASSUME NEW b \in Browser, SignOut(b) \/ \E u \in User : SignIn(b, u)
      PROVE  UNCHANGED <<old, page, returned>> /\ session' \in [Browser -> User \cup {None}]
  BY <1>3 DEF SignOut, SignIn, EnrollTypeOK
<1>4. ASSUME NEW d \in Device, Expire(d)
      PROVE  UNCHANGED <<session, page, returned>> /\ old' \subseteq Device
  BY <1>4 DEF Expire, EnrollTypeOK
<1>5. RestartServer =>
        UNCHANGED <<old, page, returned>> /\ session' \in [Browser -> User \cup {None}]
  BY DEF RestartServer
<1>6. RevokeAccess \/ SwitchAccess \/ UNCHANGED allEnrollVars
        => UNCHANGED <<old, session, page>> /\ returned' \subseteq returned \cup Device
  BY DEF RevokeAccess, SwitchAccess, allEnrollVars, enrollVars
<1> QED
  BY <1>1, <1>2, <1>3, <1>4, <1>5, <1>6 DEF EnrollNext, EnrollTypeOK

LEMMA EnrollStepInv == EnrollInv /\ [EnrollNext]_allEnrollVars => EnrollInv'
<1> SUFFICES ASSUME EnrollInv, [EnrollNext]_allEnrollVars PROVE EnrollInv'
  OBVIOUS
<1>1. ControlInv' /\ ControlTypeOK'
  BY EnrollStepIsControl, StepKeeps DEF EnrollInv, ControlInv
<1>2. EntryInv' /\ TablesOK'
  BY StepKeepsTable DEF EnrollInv
<1>3. MachineInv' /\ machine' \in [Machine -> MachineRow]
  BY StepKeepsMachines DEF EnrollInv
<1>4. EnrollTypeOK'
  BY <1>1, <1>2, <1>3, StepKeepsBrowsers DEF EnrollInv, EnrollTypeOK, TablesOK, MachineRow
<1> QED
  BY <1>1, <1>2, <1>3, <1>4 DEF EnrollInv

\* The tables, the browsers and the files of every machine keep their types and
\* agree (login_flow of enrollment.rs, EnrollmentStore, finalizeDeviceEnrollment).
THEOREM EnrollInvariant == EnrollSpec => []EnrollInv
  BY EnrollInitInv, EnrollStepInv, PTL DEF EnrollSpec

\* Logins, approvals and restarts use the control store only by its operations:
\* whatever ControlStore promises (Reopens, EligibilityAgrees, NoWayBack) holds
\* under them (POST /enrollments/token calls finalizeDeviceEnrollment).
THEOREM EnrollImplementsControl == EnrollSpec => ControlSpec
<1>1. EnrollInit => ControlInit
  BY DEF EnrollInit
<1>2. EnrollInv /\ [EnrollNext]_allEnrollVars => [ControlNext]_controlVars
  BY EnrollStepIsControl DEF EnrollInv
<1> QED
  BY <1>1, <1>2, EnrollInvariant, PTL DEF EnrollSpec, ControlSpec

\* A device exists only for an enrollment its owner approved in the form shown
\* to that browser, however the login is resumed, replayed or interrupted
\* (router.ts POST /connector/enroll/decision and POST /enrollments/token).
THEOREM ApprovalTheorem == EnrollSpec => []DeviceWasApproved
<1>1. EnrollInv => DeviceWasApproved
  BY DEF EnrollInv, EntryInv, DeviceWasApproved
<1> QED
  BY <1>1, EnrollInvariant, PTL

\* A stored credential is an enrolled device, and while it works, and never came
\* back with its user, no pending enrollment of another device lies beside it and
\* no login replaces it (login_flow, enrollment.json).
THEOREM LocalStateTheorem == EnrollSpec => []LocalStateConsistent
<1>1. EnrollInv => LocalStateConsistent
  BY DEF EnrollInv, MachineInv, MachineOK, LocalStateConsistent
<1> QED
  BY <1>1, EnrollInvariant, PTL
=============================================================================
