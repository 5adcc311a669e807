---------------------------- MODULE ControlStore ----------------------------
(***************************************************************************)
(* The devices, execution targets, device bindings and runtime defaults of *)
(* the control-plane database: connector/control-store.ts, with the routes *)
(* that call it (connector/router.ts behind connector/device-auth.ts, and  *)
(* auth/user-router.ts).  Every route is synchronous JavaScript around one *)
(* SQLite transaction, so it is one action; a request the code refuses     *)
(* changes nothing and is a stuttering step.  Names are compared after     *)
(* normalisation, so a name stands for its normal form; the display name   *)
(* and the repository's provider are left out.                             *)
(***************************************************************************)
EXTENDS Naturals, FiniteSets

CONSTANTS
  User, Workspace, Device, Target, Alias, RepoName,
  Owner,      \* the only member a workspace has
  Linked,     \* the workspaces with a github_repository_bindings row
  FirstName,  \* the full_name those rows start with
  MaySuspend, \* bound: the users an operator may disable
  None

ASSUME ControlAssumption ==
  /\ Owner \in [Workspace -> User]
  /\ Linked \subseteq Workspace
  /\ FirstName \in [Linked -> RepoName]
  /\ MaySuspend \subseteq User
  /\ None \notin RepoName /\ None \notin User /\ None \notin Target
  /\ None \notin Workspace /\ None \notin Alias
  /\ RepoName \cap Workspace = {}
  /\ RepoName \cap {"none", "workspace_repository"} = {}  \* "owner/name"

VARIABLES
  active,     \* the users with disabled_at NULL
  fullName,   \* full_name of a workspace's repository binding
  device,     \* devices and device_credentials
  target,     \* execution_targets
  binding,    \* device_target_bindings
  default     \* workspace_execution_defaults

controlVars == <<active, fullName, device, target, binding, default>>

(***************************************************************************)
(* A repository identity is its external id with its full name.  The       *)
(* external id is the numeric GitHub id of a workspace's own repository,   *)
(* for which the workspace stands, or else the name itself.                *)
(***************************************************************************)
Kind     == {"general_automation", "coding"}
Identity == [ext : RepoName \cup Workspace, name : RepoName]
NoRepo   == [ext |-> None, name |-> None]

NoDevice   == [owner |-> None, revoked |-> FALSE, credential |-> "none"]
DeviceRow  == [owner : User, revoked : BOOLEAN, credential : {"valid", "expired"}]
NoTarget   == [row |-> "unused", ws |-> None, alias |-> None, kind |-> "none",
               repo |-> NoRepo]
GoneTarget == [NoTarget EXCEPT !.row = "deleted"]
TargetRow  == [row : {"enabled", "disabled"}, ws : Workspace, alias : Alias,
               kind : Kind, repo : Identity \cup {NoRepo}]

\* The tables and what their columns hold.
ControlTypeOK ==
  /\ active \subseteq User
  /\ fullName \in [Linked -> RepoName]
  /\ device \in [Device -> DeviceRow \cup {NoDevice}]
  /\ target \in [Target -> TargetRow \cup {NoTarget, GoneTarget}]
  /\ binding \in [Device -> [Target -> {"none", "enabled", "disabled"}]]
  /\ default \in [Workspace -> Target \cup {None}]

ControlInit ==
  /\ active = User
  /\ fullName = FirstName
  /\ device = [d \in Device |-> NoDevice]
  /\ target = [t \in Target |-> NoTarget]
  /\ binding = [d \in Device |-> [t \in Target |-> "none"]]
  /\ default = [w \in Workspace |-> None]

Enrolled(d) == device[d].owner # None
Live(t)     == target[t].row \in {"enabled", "disabled"}
Enabled(t)  == target[t].row = "enabled"
Member(d, w) == device[d].owner = Owner[w]

-----------------------------------------------------------------------------
\* deviceAuth: the checks every device route makes before anything else.
DeviceAuth(d) ==
  /\ device[d].credential = "valid" /\ ~device[d].revoked
  /\ device[d].owner \in active

\* mutant: a replay writes the rows again
FinalizeRewrites(d, u) ==
  /\ u \in active
  /\ device' = [device EXCEPT ![d] =
                  [owner |-> u, revoked |-> FALSE, credential |-> "valid"]]
  /\ UNCHANGED <<active, fullName, target, binding, default>>

\* The device checks the store's operations make themselves.
DeviceActive(d) == Enrolled(d) /\ ~device[d].revoked /\ device[d].owner \in active

\* finalizeDeviceEnrollment: a new pair of rows, the replay of an exact match,
\* or a refusal.  Ids are reserved per enrollment, so rows under them are its.
FinalizeDeviceEnrollment(d, u) ==
  /\ u \in active
  /\ \/ /\ ~Enrolled(d)
        /\ device' = [device EXCEPT ![d] =
                        [owner |-> u, revoked |-> FALSE, credential |-> "valid"]]
     \/ Enrolled(d) /\ device[d].owner = u /\ UNCHANGED device
  /\ UNCHANGED <<active, fullName, target, binding, default>>

RevokeDevice(d) ==
  /\ Enrolled(d)
  /\ device' = [device EXCEPT ![d].revoked = TRUE]
  /\ UNCHANGED <<active, fullName, target, binding, default>>

\* POST /device/revoke, by the device itself, and /api/user/devices/:id/revoke,
\* from a signed-in browser.
PostDeviceRevoke(d)  == DeviceAuth(d) /\ RevokeDevice(d)
PostUserRevoke(u, d) == u \in active /\ device[d].owner = u /\ RevokeDevice(d)

\* Time: DEVICE_CREDENTIAL_TTL_MS is over.
CredentialExpires(d) ==
  /\ device[d].credential = "valid"
  /\ device' = [device EXCEPT ![d].credential = "expired"]
  /\ UNCHANGED <<active, fullName, target, binding, default>>

\* An operator sets or clears disabled_at in the database; no route does.
SetUserActive(u) ==
  /\ active' \in {active \ {u}, active \cup {u}} \ {active}
  /\ UNCHANGED <<fullName, device, target, binding, default>>

-----------------------------------------------------------------------------
\* A binding is created or enabled again: ensureDeviceBindingAndReturn.
EnsureDeviceBinding(d, t) ==
  binding' = [binding EXCEPT ![d] = [@ EXCEPT ![t] = "enabled"]]

\* parseRegisterTargetInput: only a coding target may name a repository.
ParseRegisterTargetInput(kind, source) ==
  kind = "general_automation" => source = "none"

\* Where a registration's repository identity comes from.
ResolveRepository(w, source) ==
  CASE source = "none" -> NoRepo
    [] source = "workspace_repository" -> [ext |-> w, name |-> fullName[w]]
    [] OTHER -> [ext |-> IF w \in Linked /\ fullName[w] = source THEN w ELSE source,
                 name |-> source]

\* The enabled targets of a workspace under a repository's external id.
RepositoryTargets(w, repo) ==
  {t \in Target : Enabled(t) /\ target[t].ws = w /\ target[t].repo.ext = repo.ext}

\* A remote's targets, whatever their alias; other sources look up none.
ReusableTargets(w, source, repo) ==
  IF source \in RepoName THEN RepositoryTargets(w, repo) ELSE {}

AliasTargets(w, alias) ==
  {t \in Target : Live(t) /\ target[t].ws = w /\ target[t].alias = alias}

\* registerExecutionTargetForDevice: the target that already has the
\* repository, else the one that already has the alias, else a new one.
RegisterReused(d, w, kind, source) ==
  LET repo == ResolveRepository(w, source)
      same == ReusableTargets(w, source, repo) IN
  /\ Cardinality(same) = 1
  /\ \E t \in same : target[t].kind = kind /\ EnsureDeviceBinding(d, t)
  /\ UNCHANGED <<active, fullName, device, target, default>>

RegisterExisting(d, w, alias, kind, source) ==
  LET repo == ResolveRepository(w, source) IN
  /\ ReusableTargets(w, source, repo) = {}
  /\ \E t \in AliasTargets(w, alias) :
       /\ Enabled(t) /\ target[t].kind = kind /\ target[t].repo.ext = repo.ext
       /\ target' = [target EXCEPT ![t] = [@ EXCEPT !.repo = repo]]
       /\ EnsureDeviceBinding(d, t)
  /\ UNCHANGED <<active, fullName, device, default>>

RegisterNew(d, w, alias, kind, source) ==
  LET repo == ResolveRepository(w, source) IN
  /\ ReusableTargets(w, source, repo) = {} /\ AliasTargets(w, alias) = {}
  /\ \E t \in Target :
       /\ target[t] = NoTarget
       /\ target' = [target EXCEPT ![t] =
            [row |-> "enabled", ws |-> w, alias |-> alias, kind |-> kind, repo |-> repo]]
       /\ EnsureDeviceBinding(d, t)
  /\ UNCHANGED <<active, fullName, device, default>>

RegisterExecutionTarget(d, w, alias, kind, source) ==
  /\ DeviceActive(d) /\ Member(d, w)
  /\ source = "workspace_repository" => w \in Linked
  /\ \/ RegisterReused(d, w, kind, source)
     \/ RegisterExisting(d, w, alias, kind, source)
     \/ RegisterNew(d, w, alias, kind, source)

\* POST /targets/register
PostRegister(d, w, alias, kind, source) ==
  /\ DeviceAuth(d) /\ ParseRegisterTargetInput(kind, source)
  /\ RegisterExecutionTarget(d, w, alias, kind, source)

-----------------------------------------------------------------------------
\* The other enabled targets that own the repository under either id form.
RepositoryOwners(w, t, repo) ==
  {o \in Target \ {t} : /\ Enabled(o) /\ target[o].ws = w
                        /\ \/ target[o].repo.ext \in {repo.ext, repo.name}
                           \/ target[o].repo.name = repo.name}

\* attachRepositoryIdentityToTarget, the backfill of a target without one.
AttachRepositoryIdentity(d, t, name) ==
  LET repo == ResolveRepository(target[t].ws, name) IN
  /\ DeviceActive(d) /\ Enabled(t) /\ Member(d, target[t].ws)
  /\ target[t].kind = "coding" /\ binding[d][t] = "enabled"
  /\ target[t].repo = NoRepo /\ RepositoryOwners(target[t].ws, t, repo) = {}
  /\ target' = [target EXCEPT ![t] = [@ EXCEPT !.repo = repo]]
  /\ UNCHANGED <<active, fullName, device, binding, default>>

\* POST /targets/:id/attach-repository
PostAttachRepository(d, t, name) == DeviceAuth(d) /\ AttachRepositoryIdentity(d, t, name)

\* bindTargetForDevice
BindTargetForDevice(d, t) ==
  /\ DeviceActive(d) /\ Enabled(t) /\ Member(d, target[t].ws)
  /\ EnsureDeviceBinding(d, t)
  /\ UNCHANGED <<active, fullName, device, target, default>>

\* unbindTargetForDevice; a disabled target may be unbound.
UnbindTargetForDevice(d, t) ==
  /\ ~device[d].revoked /\ Live(t) /\ Member(d, target[t].ws)
  /\ binding[d][t] = "enabled"
  /\ binding' = [binding EXCEPT ![d] = [@ EXCEPT ![t] = "disabled"]]
  /\ UNCHANGED <<active, fullName, device, target, default>>

\* POST /targets/:id/bind and /targets/:id/unbind
PostBind(d, t)   == DeviceAuth(d) /\ BindTargetForDevice(d, t)
PostUnbind(d, t) == DeviceAuth(d) /\ UnbindTargetForDevice(d, t)

\* setDefaultAgentRuntimeTarget
SetDefaultAgentRuntimeTarget(u, w, t) ==
  /\ Enabled(t) /\ target[t].ws = w /\ u = Owner[w]
  /\ default' = [default EXCEPT ![w] = t]
  /\ UNCHANGED <<active, fullName, device, target, binding>>

\* POST /targets/:id/default-runtime, for the target's own workspace.
PostDefaultRuntime(d, t) ==
  /\ DeviceAuth(d) /\ Live(t)
  /\ SetDefaultAgentRuntimeTarget(device[d].owner, target[t].ws, t)

\* renameExecutionTarget
RenameExecutionTarget(u, t, alias) ==
  /\ Live(t) /\ u = Owner[target[t].ws]
  /\ AliasTargets(target[t].ws, alias) \subseteq {t}
  /\ target' = [target EXCEPT ![t] = [@ EXCEPT !.alias = alias]]
  /\ UNCHANGED <<active, fullName, device, binding, default>>

\* POST /targets/:id/rename
PostRename(d, t, alias) == DeviceAuth(d) /\ RenameExecutionTarget(device[d].owner, t, alias)

\* disableExecutionTarget and enableExecutionTarget
DisableExecutionTarget(t) ==
  /\ Enabled(t)
  /\ target' = [target EXCEPT ![t] = [@ EXCEPT !.row = "disabled"]]
  /\ UNCHANGED <<active, fullName, device, binding, default>>

EnableExecutionTarget(t) ==
  /\ target[t].row = "disabled"
  /\ target' = [target EXCEPT ![t] = [@ EXCEPT !.row = "enabled"]]
  /\ UNCHANGED <<active, fullName, device, binding, default>>

\* POST /api/user/targets/:id/disable and /enable, from the owner's browser.
PostDisable(u, t) == u \in active /\ DisableExecutionTarget(t) /\ u = Owner[target[t].ws]
PostEnable(u, t)  == u \in active /\ EnableExecutionTarget(t) /\ u = Owner[target[t].ws]

\* mutant: the rows that refer to the target stay
DeleteWithoutCascade(t) ==
  /\ Live(t)
  /\ target' = [target EXCEPT ![t] = GoneTarget]
  /\ UNCHANGED <<active, fullName, device, binding, default>>

\* deleteExecutionTargetRow, the last step of TargetDelete, with its cascades.
DeleteExecutionTargetRow(t) ==
  /\ Live(t)
  /\ target' = [target EXCEPT ![t] = GoneTarget]
  /\ binding' = [d \in Device |-> [binding[d] EXCEPT ![t] = "none"]]
  /\ default' = [w \in Workspace |-> IF default[w] = t THEN None ELSE default[w]]
  /\ UNCHANGED <<active, fullName, device>>

\* POST /targets/:id/delete; the fence and the scan for live jobs that precede
\* the row's removal are TargetDelete's.
PostDelete(d, t) ==
  DeviceAuth(d) /\ Live(t) /\ Member(d, target[t].ws) /\ DeleteExecutionTargetRow(t)

\* reconcileRepositoryMetadataById: GitHub renamed the workspace's repository.
ReconcileRepository(w, name) ==
  /\ w \in Linked /\ fullName[w] # name
  /\ fullName' = [fullName EXCEPT ![w] = name]
  /\ target' = [t \in Target |->
       IF target[t].repo.ext = w THEN [target[t] EXCEPT !.repo = [ext |-> w, name |-> name]]
       ELSE target[t]]
  /\ UNCHANGED <<active, device, binding, default>>

TargetStep ==
  \/ \E d \in Device, w \in Workspace, a \in Alias, k \in Kind,
        s \in RepoName \cup {"none", "workspace_repository"} : PostRegister(d, w, a, k, s)
  \/ \E d \in Device, t \in Target :
       \/ PostBind(d, t) \/ PostUnbind(d, t) \/ PostDefaultRuntime(d, t)
       \/ \E n \in RepoName : PostAttachRepository(d, t, n)
       \/ \E a \in Alias : PostRename(d, t, a)
  \/ \E u \in User, t \in Target : PostDisable(u, t) \/ PostEnable(u, t)
  \/ \E d \in Device, t \in Target : PostDelete(d, t)
  \/ \E w \in Linked, n \in RepoName : ReconcileRepository(w, n)

DeviceStep ==
  \/ \E d \in Device : PostDeviceRevoke(d) \/ CredentialExpires(d)
  \/ \E u \in User, d \in Device : PostUserRevoke(u, d)
  \/ \E u \in MaySuspend : SetUserActive(u)

ControlNext ==
  \/ \E d \in Device, u \in User : FinalizeDeviceEnrollment(d, u)
  \/ DeviceStep \/ TargetStep

ControlSpec == ControlInit /\ [][ControlNext]_controlVars

-----------------------------------------------------------------------------
\* mutant: a revoked device is not left out
EligibleUnlessRevoked(d, t) ==
  /\ Enrolled(d) /\ device[d].owner \in active
  /\ Enabled(t) /\ binding[d][t] = "enabled" /\ Member(d, target[t].ws)

\* resolveEligibleBinding: asked again for the job a claim is about to assign.
ResolveEligibleBinding(d, t) ==
  /\ Enrolled(d) /\ ~device[d].revoked /\ device[d].owner \in active
  /\ Enabled(t) /\ binding[d][t] = "enabled" /\ Member(d, target[t].ws)

\* listEligibleTargetIdsForDevice: the join a claim starts from.
ListEligibleTargetIds(d) ==
  {t \in {x \in Target : binding[d][x] = "enabled"} :
     /\ \E w \in Workspace : Owner[w] = device[d].owner /\ target[t].ws = w
     /\ ~device[d].revoked /\ device[d].owner \in active /\ Enabled(t)}

\* activeBindingCount of listTargetsVisibleToDevice
ActiveBindingCount(t) ==
  IF ~Enabled(t) THEN 0
  ELSE Cardinality({d \in Device : /\ binding[d][t] = "enabled"
                                   /\ device[d].owner = Owner[target[t].ws]
                                   /\ ~device[d].revoked /\ device[d].owner \in active})

\* The same count for the owner's own list: listTargetsForUser.
UserBindingCount(t) ==
  Cardinality({d \in Device : /\ Enabled(t) /\ binding[d][t] = "enabled"
                              /\ Owner[target[t].ws] = device[d].owner
                              /\ ~device[d].revoked /\ device[d].owner \in active})

\* The connector's part of validateData, run whenever the database is opened.
ValidateConnectorData ==
  /\ \A t \in Target : Live(t) =>
       (target[t].repo.ext = None <=> target[t].repo.name = None)
  /\ \A w \in Workspace : default[w] # None =>
       Live(default[w]) /\ target[default[w]].ws = w
  /\ \A d \in Device, t \in Target : binding[d][t] # "none" => Enrolled(d) /\ Live(t)

\* Every state the operations leave behind is one IdentityStore.open accepts:
\* references resolve inside their workspace, deletes cascade, an alias names
\* one target of a workspace.  Otherwise the server would not start again.
Reopens ==
  /\ ControlTypeOK /\ ValidateConnectorData
  /\ \A s, t \in Target :
       Live(s) /\ Live(t) /\ target[s].ws = target[t].ws
         /\ target[s].alias = target[t].alias => s = t

\* No device is ever bound to a target of a workspace its user is not a member
\* of, so none is offered another tenant's jobs (register, bind, rename).
BindingsStayInside ==
  \A d \in Device, t \in Target :
    binding[d][t] # "none" => Member(d, target[t].ws)

\* The readings of "this device may work on this target" agree: the list a claim
\* starts from, the check before the assignment, the number of devices a host is
\* shown as able to claim, and behind them the bindings themselves.
EligibilityAgrees ==
  /\ BindingsStayInside
  /\ \A d \in Device :
       ListEligibleTargetIds(d) = {t \in Target : ResolveEligibleBinding(d, t)}
  /\ \A t \in Target :
       LET able == Cardinality({d \in Device : ResolveEligibleBinding(d, t)}) IN
       ActiveBindingCount(t) = able /\ UserBindingCount(t) = able

\* A target keeps the repository identity it once got, through renames of the
\* repository, registrations and backfills, and a deleted one stays deleted.
IdentityIsKept ==
  [][\A t \in Target :
       /\ target[t].repo # NoRepo /\ Live(t)' => target'[t].repo.ext = target[t].repo.ext
       /\ target[t].row = "deleted" => ~Live(t)']_controlVars

\* A revoked device is out for good: no replayed enrollment brings it back, and
\* nothing it sends enables a binding.
RevokedStaysOut ==
  [][\A d \in Device : device[d].revoked =>
       /\ device'[d].revoked
       /\ \A t \in Target : binding'[d][t] = "enabled" => binding[d][t] = "enabled"]_controlVars

\* What was taken away does not come back, by any of the operations that write
\* the same row again: an enrollment that is replayed, a registration of a name
\* that is in use, a backfill (finalizeDeviceEnrollment,
\* registerExecutionTargetForDevice, attachRepositoryIdentityToTarget).
NoWayBack == RevokedStaysOut /\ IdentityIsKept
=============================================================================
