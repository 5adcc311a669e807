----------------------------- MODULE Onboarding -----------------------------
(***************************************************************************)
(* From a signed-in user to a workspace: the onboarding flow               *)
(* (onboarding/store.ts, service.ts, router.ts), the GitHub App's          *)
(* installation and the user's authorizations (github/router.ts,           *)
(* installation-service.ts, repository-service.ts) and the workspace rows  *)
(* they end in (identity/store.ts).  A request that waits for GitHub holds *)
(* what it has read so far in call; any other request, of the same user in *)
(* another tab or of another user, runs in between, and a restart forgets  *)
(* every call, pending OAuth state and grant.  The bootstrap is taken from *)
(* module Bootstrap as begin and outcome.  Each user has one installation. *)
(* The user may install, uninstall and restrict the app at any moment, so  *)
(* what GitHub answers about it is a free choice at the step that asks.    *)
(***************************************************************************)
EXTENDS Naturals, FiniteSets

CONSTANTS User, Flow, Repo, Workspace, Call, None,
          MaxPending   \* OAuth states pending at one time

ASSUME OnboardingAssumption ==
  None \notin User \cup Flow \cup Repo \cup Workspace

VARIABLES
  flows,       \* onboarding_flows
  ws,          \* workspaces, their owner, binding and bootstrap rows
  linked,      \* github_installation_users: the users whose link is stored
  pending,     \* pendingInstallStates, pendingOAuthStates, pendingStates
  grants,      \* the users who hold a grant for the repository API
  call,        \* the requests waiting for GitHub
  created,     \* GitHub: the repositories that exist
  origin,      \* the flow a repository was created for (for the properties)
  lost,        \* repositories whose creation no flow heard of (likewise)
  unverified   \* workspaces a flow bound whose scope was never verified (likewise)

dbVars    == <<flows, ws, linked>>
ghostVars == <<origin, lost, unverified>>
onbVars   == <<dbVars, pending, grants, call, created, ghostVars>>

Active == {"AWAITING_REPOSITORY_CHOICE", "AWAITING_GITHUB_ACCESS", "PROVISIONING",
           "AWAITING_REPOSITORY_RESTRICTION", "READY_TO_RESUME", "RECOVERY_REQUIRED"}
BootState == {"PENDING", "APPLYING", "READY", "RETRYABLE_FAILURE", "MANUAL_RECOVERY"}

NoFlow  == [user |-> None, state |-> "none", repo |-> None, ws |-> None, old |-> FALSE]
NewFlow(u) == [NoFlow EXCEPT !.user = u, !.state = "AWAITING_GITHUB_ACCESS"]
NoWs    == [owner |-> None, repo |-> None, boot |-> "PENDING", scoped |-> FALSE]
Idle    == [at |-> "idle", user |-> None, flow |-> None, repo |-> None, ws |-> None]

\* The rows and the requests in flight have their types: in particular a flow is
\* never in a state the schema does not list (onboarding_flows).
OnbTypeOK ==
  /\ flows \in [Flow -> [user : User \cup {None},
                         state : Active \cup {"COMPLETED", "none"},
                         repo : Repo \cup {None}, ws : Workspace \cup {None},
                         old : BOOLEAN]]
  /\ ws \in [Workspace -> [owner : User \cup {None}, repo : Repo \cup {None},
                           boot : BootState, scoped : BOOLEAN]]
  /\ linked \subseteq User /\ grants \subseteq User
  /\ pending \subseteq [kind : {"install", "setup", "repo"}, user : User,
                        flow : Flow \cup {None}]
  /\ call \in [Call -> [at : {"idle", "resolve", "setup", "repo", "post", "bind",
                              "import", "scope", "verify", "retry", "boot"},
                        user : User \cup {None}, flow : Flow \cup {None},
                        repo : Repo \cup {None}, ws : Workspace \cup {None}]]
  /\ created \subseteq Repo /\ lost \subseteq Repo /\ unverified \subseteq Workspace
  /\ origin \in [Repo -> Flow \cup {None}]

OnbInit ==
  /\ flows = [f \in Flow |-> NoFlow]
  /\ ws = [w \in Workspace |-> NoWs]
  /\ linked = {} /\ pending = {} /\ grants = {}
  /\ call = [c \in Call |-> Idle]
  /\ created = {} /\ lost = {} /\ unverified = {}
  /\ origin = [r \in Repo |-> None]

-----------------------------------------------------------------------------
(* The tables.                                                             *)

ActiveFlows(u) == {f \in Flow : flows[f].user = u /\ flows[f].state \in Active}
Owned(u)  == {w \in Workspace : ws[w].owner = u}
Bound(r)  == {w \in Workspace : ws[w].owner # None /\ ws[w].repo = r}
FreeWs    == {w \in Workspace : ws[w].owner = None}

\* idx_onboarding_one_active_per_user: a write that would leave a user with two
\* active flows fails.
MayUpdate(f, new) ==
  new.state \in Active => ActiveFlows(new.user) \subseteq {f}

updateFlow(f, new) ==
  IF MayUpdate(f, new) THEN [flows EXCEPT ![f] = new] ELSE flows

WithState(f, st) == [flows[f] EXCEPT !.state = st]

\* The flow of a request was pruned and the user has another one by now.
GivenUp(f) == IF f = None THEN FALSE ELSE ~MayUpdate(f, WithState(f, "RECOVERY_REQUIRED"))

\* mutant
BindUnchecked(u, r) == FreeWs # {}

\* The checks createWorkspaceWithRepositoryBinding makes in its transaction.
CanBind(u, r) == u \in linked /\ Owned(u) = {} /\ Bound(r) = {} /\ FreeWs # {}

createWorkspaceWithRepositoryBinding(u, r, w, boot) ==
  ws' = [ws EXCEPT ![w] = [NoWs EXCEPT !.owner = u, !.repo = r, !.boot = boot]]

\* markRepositoryBindingScopeVerified and clearRepositoryBindingScopeVerified.
ScopeMarked(w, verified) == [ws EXCEPT ![w].scoped = verified]

isWorkspaceReadyForHost(w) == ws[w].scoped /\ ws[w].boot = "READY"

-----------------------------------------------------------------------------
(* Calls in flight.                                                        *)

activeCreations  == {call[c].user : c \in {d \in Call : call[d].at \in {"post", "bind"}}}
activeBootstraps == {call[c].ws : c \in {d \in Call :
                                           call[d].at \in {"verify", "retry", "boot"}}}

Start(c, at, u, f) == call' = [call EXCEPT ![c] = [Idle EXCEPT !.at = at, !.user = u,
                                                               !.flow = f]]
End(c)  == call' = [call EXCEPT ![c] = Idle]
Free(c) == call[c].at = "idle"

\* A state is minted for a redirect to GitHub.
Mint(kind, u, f) ==
  /\ Cardinality(pending) < MaxPending
  /\ pending' = pending \cup {[kind |-> kind, user |-> u, flow |-> f]}

\* bootstrapWorkspace at its start: another attempt is running, or the row is
\* READY, and its status is the answer; otherwise an attempt begins.
Begins(w) == w \notin activeBootstraps /\ ws[w].boot # "READY"
BootBegin(c, w, then, u, f) ==
  /\ ws' = [ws EXCEPT ![w].boot = "APPLYING"]
  /\ call' = [call EXCEPT ![c] = [Idle EXCEPT !.at = then, !.user = u, !.flow = f,
                                              !.ws = w]]

\* What the two callers of the bootstrap make of its status for their flow.
AfterVerify(f, boot) ==
  updateFlow(f, WithState(f, IF boot = "READY" THEN "READY_TO_RESUME"
                                               ELSE "RECOVERY_REQUIRED"))
AfterRetry(f, boot) ==
  IF boot = "READY" THEN updateFlow(f, WithState(f, "READY_TO_RESUME")) ELSE flows

-----------------------------------------------------------------------------
(* GET /onboarding.                                                        *)

\* Only an expired flow without side effects is given up.
Pruned(f) == flows[f].old /\ flows[f].repo = None /\ flows[f].ws = None

\* mutant
HealedUnchecked(fl) == [fl EXCEPT !.state = IF fl.ws # None THEN "READY_TO_RESUME"
                                            ELSE "RECOVERY_REQUIRED"]

\* The states a PROVISIONING flow found on the way in is sent on to.
Healed(fl) ==
  [fl EXCEPT !.state =
     IF fl.ws # None /\ ~ws[fl.ws].scoped THEN "AWAITING_REPOSITORY_RESTRICTION"
     ELSE IF fl.ws # None /\ isWorkspaceReadyForHost(fl.ws) THEN "READY_TO_RESUME"
     ELSE "RECOVERY_REQUIRED"]

\* The workspace of a flow that was interrupted before it noted it.
Adopted(f) ==
  LET w == CHOOSE w \in Owned(flows[f].user) : TRUE
  IN  IF flows[f].ws = None /\ Owned(flows[f].user) # {}
        THEN [flows[f] EXCEPT !.ws = w, !.repo = ws[w].repo]
        ELSE flows[f]

ResumeFlow(u, f) ==
  /\ f \in ActiveFlows(u) /\ ~Pruned(f)
  /\ flows[f].state = "PROVISIONING"
  /\ flows' = updateFlow(f, Healed(Adopted(f)))
  /\ UNCHANGED <<ws, linked, pending, grants, call, created, ghostVars>>

\* A flow that waits for GitHub is taken there; the others are shown their page.
ContinueFlow(u, f, c) ==
  /\ f \in ActiveFlows(u) /\ ~Pruned(f)
  /\ flows[f].state \in {"AWAITING_REPOSITORY_CHOICE", "AWAITING_GITHUB_ACCESS"}
  /\ Free(c) /\ Start(c, "resolve", u, f)
  /\ UNCHANGED <<dbVars, pending, grants, created, ghostVars>>

\* getOrCreateActiveFlowInTx: without an active flow, or with one that is given
\* up, a new one.
getOrCreateActiveFlowInTx(u, f, c) ==
  /\ \A g \in ActiveFlows(u) : Pruned(g)
  /\ flows[f] = NoFlow
  /\ flows' = [g \in Flow |-> IF g = f THEN NewFlow(u)
                              ELSE IF g \in ActiveFlows(u) THEN WithState(g, "COMPLETED")
                              ELSE flows[g]]
  /\ Free(c) /\ Start(c, "resolve", u, f)
  /\ UNCHANGED <<ws, linked, pending, grants, created, ghostVars>>

\* The choice of a name, whatever state the flow is in.
submitRepositoryChoice(u, f) ==
  LET new == WithState(f, "AWAITING_GITHUB_ACCESS")
  IN  flows[f].user = u /\ MayUpdate(f, new) /\ flows' = updateFlow(f, new)

\* POST /onboarding/repository-choice, from whatever tab still shows the form.
PostRepositoryChoice(u, f, c) ==
  /\ submitRepositoryChoice(u, f)
  /\ Free(c) /\ Start(c, "resolve", u, f)
  /\ UNCHANGED <<ws, linked, pending, grants, created, ghostVars>>

\* With a stored installation that is live the user is sent to authorize,
\* without one to install.
resolveInstallationState(c) ==
  LET u == call[c].user
  IN  /\ call[c].at = "resolve"
      /\ \E kind \in {"install"} \cup (IF u \in linked THEN {"repo"} ELSE {}) :
           Mint(kind, u, call[c].flow)
      /\ End(c)
      /\ UNCHANGED <<dbVars, grants, created, ghostVars>>

-----------------------------------------------------------------------------
(* Installation and authorization on GitHub.                               *)

\* GET /auth/github-app/install and POST /api/github/repository-authorizations.
createInstallRedirect(u) ==
  /\ Mint("install", u, None)
  /\ UNCHANGED <<dbVars, grants, call, created, ghostVars>>

createAuthorizationRedirect(u) ==
  /\ u \in linked
  /\ Mint("repo", u, None)
  /\ UNCHANGED <<dbVars, grants, call, created, ghostVars>>

\* GET /auth/github-app/setup: the install state is spent for an OAuth state.
startSetupOAuth(s) ==
  /\ s \in pending /\ s.kind = "install"
  /\ pending' = (pending \ {s}) \cup {[s EXCEPT !.kind = "setup"]}
  /\ UNCHANGED <<dbVars, grants, call, created, ghostVars>>

\* The callbacks spend their state before they ask GitHub anything.
ConsumeOAuthState(s, c) ==
  /\ s \in pending /\ s.kind = "setup"
  /\ pending' = pending \ {s}
  /\ Free(c) /\ Start(c, "setup", s.user, s.flow)
  /\ UNCHANGED <<dbVars, grants, created, ghostVars>>

ConsumeAuthorizationState(s, c) ==
  /\ s \in pending /\ s.kind = "repo"
  /\ pending' = pending \ {s}
  /\ Free(c) /\ Start(c, "repo", s.user, s.flow)
  /\ UNCHANGED <<dbVars, grants, created, ghostVars>>

\* The rows of the installation and of its link to the user.
upsertGitHubInstallationWithUser(u) == linked' = linked \cup {u}

\* provisionWorkspace up to its first request: a flow with a workspace is
\* refused, one with a repository recovers it, any other creates one, once at
\* a time for each user.
CreationStarts(u) == u \notin activeCreations /\ Owned(u) = {}

\* The repository a flow remembers is imported.
recoverPartialCreation(c, f) ==
  LET u == call[c].user
      r == flows[f].repo
  IN  IF Owned(u) = {} /\ Bound(r) = {}
        THEN call' = [call EXCEPT ![c] = [Idle EXCEPT !.at = "import", !.user = u,
                                            !.flow = f, !.repo = r]]
        ELSE End(c)

provisionWorkspace(c, f) ==
  LET u == call[c].user
      fl == flows[f]
  IN  \/ fl.ws # None /\ End(c) /\ UNCHANGED flows
      \/ /\ fl.ws = None /\ fl.repo # None
         /\ recoverPartialCreation(c, f) /\ UNCHANGED flows
      \/ /\ fl.ws = None /\ fl.repo = None
         /\ IF ~MayUpdate(f, WithState(f, "PROVISIONING")) THEN End(c) /\ UNCHANGED flows
            ELSE IF CreationStarts(u)
              THEN /\ flows' = updateFlow(f, WithState(f, "PROVISIONING"))
                   /\ Start(c, "post", u, f)
              ELSE /\ flows' = updateFlow(f, WithState(f, "RECOVERY_REQUIRED"))
                   /\ End(c)

\* handleOAuthCallback of the installation: a code, a profile or an installation
\* that is not the user's ends the request, otherwise the link is stored.
LinkInstallation(c, linkStored) ==
  IF linkStored THEN upsertGitHubInstallationWithUser(call[c].user) ELSE UNCHANGED linked

\* GET /auth/github-app/callback: with the link stored a flow goes on.
SetupCallback(c) ==
  LET f == call[c].flow
  IN  /\ call[c].at = "setup"
      /\ \E linkStored \in BOOLEAN :
           /\ LinkInstallation(c, linkStored)
           /\ IF linkStored /\ f # None THEN provisionWorkspace(c, f)
                                       ELSE End(c) /\ UNCHANGED flows
      /\ UNCHANGED <<ws, pending, grants, created, ghostVars>>

\* handleOAuthCallback of an authorization, likewise; a grant that belongs to a
\* flow is used at once, any other is handed to the client.
GrantAuthorization(c, granted) ==
  grants' = IF granted /\ call[c].flow = None THEN grants \cup {call[c].user} ELSE grants

\* GET /auth/github-app/repository/callback.
RepositoryCallback(c) ==
  LET f == call[c].flow
      goesOn == IF f = None THEN FALSE ELSE flows[f].ws = None
  IN  /\ call[c].at = "repo"
      /\ \E granted \in BOOLEAN :
           /\ GrantAuthorization(c, granted)
           /\ IF granted /\ goesOn THEN provisionWorkspace(c, f)
                                  ELSE End(c) /\ UNCHANGED flows
      /\ UNCHANGED <<ws, linked, pending, created, ghostVars>>

-----------------------------------------------------------------------------
(* Creating and importing a repository.                                    *)

getValidGrant(u) == u \in grants /\ u \in linked

createRepository(u, c) == CreationStarts(u) /\ Start(c, "post", u, None)

importRepository(u, c) ==
  \E r \in created :
    /\ Owned(u) = {} /\ Bound(r) = {}
    /\ call' = [call EXCEPT ![c] = [Idle EXCEPT !.at = "import", !.user = u, !.repo = r]]

\* POST /api/github/repository-authorizations/:grant/workspace, in its two modes.
PostWorkspace(u, c) ==
  /\ getValidGrant(u) /\ Free(c)
  /\ createRepository(u, c) \/ importRepository(u, c)
  /\ UNCHANGED <<dbVars, pending, grants, created, ghostVars>>

\* How a creation that failed is noted in its flow, if it has one.
NoteFailure(c, st, r) ==
  flows' = IF call[c].flow = None THEN flows
           ELSE updateFlow(call[c].flow, [flows[call[c].flow] EXCEPT
                                            !.state = st, !.repo = r])

\* createRepositoryAndBind, the POST: refused, refused for its name, answered, or
\* done and not (or not legibly) answered.
PostRepository(c) ==
  LET f == call[c].flow
      noted == IF f = None THEN None ELSE flows[f].repo
  IN  /\ call[c].at = "post"
      /\ \/ /\ NoteFailure(c, "RECOVERY_REQUIRED", noted) /\ End(c)
            /\ UNCHANGED <<created, origin, lost>>
         \/ /\ NoteFailure(c, "AWAITING_REPOSITORY_CHOICE", noted) /\ End(c)
            /\ UNCHANGED <<created, origin, lost>>
         \/ \E r \in Repo \ created :
              /\ created' = created \cup {r}
              /\ origin' = [origin EXCEPT ![r] = f]
              /\ \/ /\ call' = [call EXCEPT ![c].at = "bind", ![c].repo = r]
                    /\ UNCHANGED <<flows, lost>>
                 \/ /\ lost' = lost \cup {r}
                    /\ \E n \in {noted, None} : NoteFailure(c, "RECOVERY_REQUIRED", n)
                    /\ End(c)
      /\ UNCHANGED <<ws, linked, pending, grants, unverified>>

\* mutant
DropsPartial(c) == NoteFailure(c, "RECOVERY_REQUIRED", None)

\* GitHubPartialCreationError: the repository exists and is not bound.
NotePartial(c) == NoteFailure(c, "RECOVERY_REQUIRED", call[c].repo)

\* A flow learns of its workspace; a call of the API goes on to the bootstrap.
NoteWorkspace(c, w, r) ==
  LET f == call[c].flow
  IN  IF f = None
        THEN /\ call' = [call EXCEPT ![c].at = "boot", ![c].ws = w]
             /\ UNCHANGED flows
        ELSE /\ flows' = updateFlow(f, [flows[f] EXCEPT !.ws = w, !.repo = r,
                                          !.state = "AWAITING_REPOSITORY_RESTRICTION"])
             /\ End(c)

FirstBoot(c) == IF call[c].flow = None THEN "APPLYING" ELSE "PENDING"

\* createRepositoryAndBind, from the verification of what was created: the rest
\* is one transaction.
createRepositoryAndBind(c) ==
  LET u == call[c].user
      r == call[c].repo
  IN  /\ call[c].at = "bind"
      /\ \/ /\ CanBind(u, r)
            /\ \E w \in FreeWs :
                 /\ createWorkspaceWithRepositoryBinding(u, r, w, FirstBoot(c))
                 /\ NoteWorkspace(c, w, r)
                 /\ unverified' = IF call[c].flow = None THEN unverified
                                  ELSE unverified \cup {w}
            /\ grants' = grants \ {u}
            /\ UNCHANGED lost
         \/ /\ NotePartial(c) /\ End(c)
            /\ lost' = IF GivenUp(call[c].flow) THEN lost \cup {r} ELSE lost
            /\ UNCHANGED <<ws, grants, unverified>>
      /\ UNCHANGED <<linked, pending, created, origin>>

\* importRepositoryAndBind, for the API and for recoverPartialCreation.
importRepositoryAndBind(c) ==
  LET u == call[c].user
      r == call[c].repo
  IN  /\ call[c].at = "import"
      /\ \/ /\ CanBind(u, r)
            /\ \E w \in FreeWs :
                 /\ createWorkspaceWithRepositoryBinding(u, r, w, FirstBoot(c))
                 /\ NoteWorkspace(c, w, r)
                 /\ unverified' = IF call[c].flow = None THEN unverified
                                  ELSE unverified \cup {w}
            /\ grants' = grants \ {u}
         \/ End(c) /\ UNCHANGED <<flows, ws, grants, unverified>>
      /\ UNCHANGED <<linked, pending, created, origin, lost>>

-----------------------------------------------------------------------------
(* The restriction to one repository, and the bootstrap.                   *)

\* POST /onboarding/verify-repository-access.
StartVerification(u, f, c) ==
  /\ flows[f].user = u /\ flows[f].ws # None
  /\ flows[f].state = "AWAITING_REPOSITORY_RESTRICTION"
  /\ Free(c) /\ Start(c, "scope", u, f)
  /\ UNCHANGED <<dbVars, pending, grants, created, ghostVars>>

\* What the live installation may say: the user may change it at any moment,
\* and every answer that is not the one expected is a refusal.
verifyLiveInstallationScope(w) == IF ws[w].owner \in linked THEN BOOLEAN ELSE {FALSE}

\* verifyRepositoryAccessAndBootstrap, once GitHub has answered.
ScopeVerified(c, f, w) ==
  /\ unverified' = unverified \ {w}
  /\ IF ~MayUpdate(f, WithState(f, "PROVISIONING"))
       THEN ws' = ScopeMarked(w, TRUE) /\ End(c) /\ UNCHANGED flows
     ELSE IF Begins(w)
       THEN /\ flows' = updateFlow(f, WithState(f, "PROVISIONING"))
            /\ ws' = [ScopeMarked(w, TRUE) EXCEPT ![w].boot = "APPLYING"]
            /\ call' = [call EXCEPT ![c].at = "verify", ![c].ws = w]
     ELSE /\ flows' = AfterVerify(f, ws[w].boot)
          /\ ws' = ScopeMarked(w, TRUE) /\ End(c)

ScopeRefused(c, w) ==
  ws' = ScopeMarked(w, FALSE) /\ End(c) /\ UNCHANGED <<flows, unverified>>

verifyRepositoryAccessAndBootstrap(c) ==
  LET f == call[c].flow
      w == flows[f].ws
  IN  /\ call[c].at = "scope"
      /\ \E ok \in verifyLiveInstallationScope(w) :
           IF ok THEN ScopeVerified(c, f, w) ELSE ScopeRefused(c, w)
      /\ UNCHANGED <<linked, pending, grants, created, origin, lost>>

\* A retry is refused while the restriction has not been verified.
RetryAllowed(w) == ws[w].scoped

retryBootstrap(f, c) ==
  LET w == flows[f].ws
  IN  /\ flows[f].state = "RECOVERY_REQUIRED" /\ RetryAllowed(w)
      /\ IF Begins(w) THEN BootBegin(c, w, "retry", flows[f].user, f) /\ UNCHANGED flows
                      ELSE flows' = AfterRetry(f, ws[w].boot) /\ UNCHANGED <<ws, call>>

\* POST /onboarding/retry with a flow.
RetryFlow(u, f, c) ==
  /\ flows[f].user = u /\ flows[f].ws # None /\ Free(c)
  /\ retryBootstrap(f, c)
  /\ UNCHANGED <<linked, pending, grants, created, ghostVars>>

\* POST /onboarding/retry with a workspace, POST .../bootstrap/retry.
RetryWorkspace(u, w, c) ==
  /\ ws[w].owner = u /\ RetryAllowed(w) /\ Begins(w)
  /\ Free(c) /\ BootBegin(c, w, "boot", u, None)
  /\ UNCHANGED <<flows, linked, pending, grants, created, ghostVars>>

BootstrapEnds(c, boot) ==
  LET f == call[c].flow
  IN  /\ call[c].at \in {"verify", "retry", "boot"}
      /\ ws' = [ws EXCEPT ![call[c].ws].boot = boot]
      /\ flows' = CASE call[c].at = "verify" -> AfterVerify(f, boot)
                    [] call[c].at = "retry" -> AfterRetry(f, boot)
                    [] OTHER -> flows
      /\ End(c)
      /\ UNCHANGED <<linked, pending, grants, created, ghostVars>>

\* GET /onboarding/complete.
CompleteFlow(u, f) ==
  /\ flows[f].user = u /\ flows[f].state = "READY_TO_RESUME"
  /\ flows' = updateFlow(f, WithState(f, "COMPLETED"))
  /\ UNCHANGED <<ws, linked, pending, grants, call, created, ghostVars>>

-----------------------------------------------------------------------------
(* Time and failure.                                                       *)

Restart ==
  /\ call' = [c \in Call |-> Idle]
  /\ pending' = {} /\ grants' = {}
  /\ lost' = lost \cup
       {call[c].repo : c \in {d \in Call : call[d].at = "bind"}}
  /\ UNCHANGED <<dbVars, created, origin, unverified>>

FlowExpires(f) ==
  /\ flows[f].state \in Active /\ ~flows[f].old
  /\ flows' = [flows EXCEPT ![f].old = TRUE]
  /\ UNCHANGED <<ws, linked, pending, grants, call, created, ghostVars>>

cleanup(s) ==
  /\ s \in pending
  /\ pending' = pending \ {s}
  /\ UNCHANGED <<dbVars, grants, call, created, ghostVars>>

OnbNext ==
  \/ \E u \in User :
       \/ createInstallRedirect(u) \/ createAuthorizationRedirect(u)
       \/ \E f \in Flow : ResumeFlow(u, f) \/ CompleteFlow(u, f)
  \/ \E u \in User, c \in Call :
       \/ PostWorkspace(u, c)
       \/ \E w \in Workspace : RetryWorkspace(u, w, c)
       \/ \E f \in Flow : ContinueFlow(u, f, c) \/ getOrCreateActiveFlowInTx(u, f, c)
                       \/ PostRepositoryChoice(u, f, c) \/ StartVerification(u, f, c)
                       \/ RetryFlow(u, f, c)
  \/ \E c \in Call :
       \/ resolveInstallationState(c) \/ SetupCallback(c) \/ RepositoryCallback(c)
       \/ PostRepository(c) \/ createRepositoryAndBind(c) \/ importRepositoryAndBind(c)
       \/ verifyRepositoryAccessAndBootstrap(c)
       \/ \E b \in {"READY", "RETRYABLE_FAILURE", "MANUAL_RECOVERY"} : BootstrapEnds(c, b)
       \/ \E s \in pending : ConsumeOAuthState(s, c) \/ ConsumeAuthorizationState(s, c)
  \/ \E s \in pending : startSetupOAuth(s) \/ cleanup(s)
  \/ Restart
  \/ \E f \in Flow : FlowExpires(f)

OnbSpec == OnbInit /\ [][OnbNext]_onbVars

-----------------------------------------------------------------------------
\* However the tabs of a user race, on the pages and on the API, no user
\* gets two workspaces and no repository two: the checks made before the
\* requests to GitHub are repeated in the transaction that binds
\* (createWorkspaceWithRepositoryBinding).
OneWorkspaceEach ==
  \A v, w \in Workspace :
    v # w /\ ws[v].owner # None => ws[v].owner # ws[w].owner /\ ws[v].repo # ws[w].repo

\* A repository that was created for a flow and could not be bound is not
\* forgotten: the flow names it until it is bound, whatever else happens to the
\* flow, so that the next try imports it instead of creating another one
\* (GitHubPartialCreationError, provisionWorkspace, the pruning of flows).  A
\* creation is lost when its answer did not arrive, or when the flow expired and
\* was given up while it waited.
PartialIsRemembered ==
  \A r \in created \ lost :
    /\ origin[r] # None /\ Bound(r) = {}
    /\ \A c \in Call : call[c].repo # r
    => flows[origin[r]].repo = r

\* A flow says that the user may go on, or that it is done with a workspace, only
\* when the workspace is the user's and its bootstrap is READY: also with the
\* same page open twice, and after an interruption at any request.
ReadyFlowIsReady ==
  \A f \in Flow :
    flows[f].state = "READY_TO_RESUME" \/ (flows[f].state = "COMPLETED" /\ flows[f].ws # None)
      => /\ flows[f].ws # None
         /\ ws[flows[f].ws].owner = flows[f].user
         /\ ws[flows[f].ws].boot = "READY"

\* Nothing is written to a repository that onboarding bound before the app was
\* seen to be restricted to it, by no path that leads to a bootstrap
\* (verifyRepositoryAccessAndBootstrap, and the guards of the three retries).
RestrictedBeforeWritten ==
  \A w \in unverified : ws[w].boot = "PENDING"

\* The steps of onboarding happen in their order on every path, also when a page
\* is open twice: restricted, then written, then READY, then resumed.
StepsInOrder == OnbTypeOK /\ RestrictedBeforeWritten /\ ReadyFlowIsReady
=============================================================================
