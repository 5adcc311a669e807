-------------------------- MODULE OnboardingProofs --------------------------
(***************************************************************************)
(* What Onboarding promises for every number of users, flows, tabs and     *)
(* repositories, and every order of their requests, GitHub's answers,      *)
(* expiries and restarts.                                                  *)
(***************************************************************************)
EXTENDS Onboarding, TLAPS

\* The rows, by name.
FlowRow ==
  [user : User \cup {None}, state : Active \cup {"COMPLETED", "none"},
   repo : Repo \cup {None}, ws : Workspace \cup {None}, old : BOOLEAN]

WsRow ==
  [owner : User \cup {None}, repo : Repo \cup {None}, boot : BootState, scoped : BOOLEAN]

Place ==
  {"idle", "resolve", "setup", "repo", "post", "bind", "import", "scope", "verify", "retry",
   "boot"}

Request ==
  [at : Place, user : User \cup {None}, flow : Flow \cup {None}, repo : Repo \cup {None},
   ws : Workspace \cup {None}]

State == [kind : {"install", "setup", "repo"}, user : User, flow : Flow \cup {None}]

RowsOK ==
  /\ flows \in [Flow -> FlowRow] /\ ws \in [Workspace -> WsRow]
  /\ linked \subseteq User /\ grants \subseteq User
  /\ pending \subseteq State /\ call \in [Call -> Request]
  /\ created \subseteq Repo /\ lost \subseteq Repo /\ unverified \subseteq Workspace
  /\ origin \in [Repo -> Flow \cup {None}]

-----------------------------------------------------------------------------
(***************************************************************************)
(* The inductive invariant.                                                *)
(***************************************************************************)
Creating == {"post", "bind"}
Booting == {"verify", "retry", "boot"}

IsBound(r) == \E w \in Workspace : ws[w].owner # None /\ ws[w].repo = r

\* The flow remembers no repository that is still to be bound.
Settled(f) == flows[f].repo = None \/ IsBound(flows[f].repo)

FlowOK(f) ==
  /\ flows[f].ws # None =>
       flows[f].user # None /\ ws[flows[f].ws].owner = flows[f].user
  /\ flows[f].state = "PROVISIONING" /\ flows[f].ws = None => Settled(f)
  /\ flows[f].state = "READY_TO_RESUME" => flows[f].ws # None
  /\ flows[f].state \in {"READY_TO_RESUME", "COMPLETED"} /\ flows[f].ws # None =>
       ws[flows[f].ws].boot = "READY"

WsOK(w) ==
  /\ ws[w].owner = None => ws[w] = NoWs /\ w \notin unverified
  /\ ws[w].owner # None => ws[w].repo # None
  /\ w \in unverified => ~ws[w].scoped /\ ws[w].boot = "PENDING"

\* What a request still knows is true when GitHub's answer arrives.
CallOK(k) ==
  /\ k.at # "idle" => k.user # None
  /\ k.flow # None => flows[k.flow].user = k.user /\ k.user # None
  /\ k.at \in {"bind", "import"} => k.repo # None
  /\ k.at = "bind" => k.repo \in created /\ origin[k.repo] = k.flow
  /\ k.at \in Creating /\ k.flow # None => Settled(k.flow)
  /\ k.at = "import" /\ k.flow # None =>
       flows[k.flow].repo = k.repo \/ IsBound(flows[k.flow].repo)
  /\ k.at = "scope" => k.flow # None /\ flows[k.flow].ws # None
  /\ k.at \in {"verify", "retry"} => k.flow # None /\ flows[k.flow].ws = k.ws
  /\ k.at \in Booting =>
       /\ k.ws # None /\ ws[k.ws].owner # None
       /\ ws[k.ws].boot = "APPLYING" /\ k.ws \notin unverified

\* Two requests that may be in flight together.
Apart(k, l) ==
  /\ k.at \in Creating /\ l.at \in Creating => k.user # l.user
  /\ k.at = "bind" /\ l.at = "bind" => k.repo # l.repo
  /\ k.at \in Booting /\ l.at \in Booting => k.ws # l.ws
  /\ k.at = "import" /\ l.at \in Creating => k.flow # l.flow \/ k.flow = None

CallsOK ==
  /\ \A c \in Call : CallOK(call[c])
  /\ \A c, d \in Call : c # d => Apart(call[c], call[d])

PendingOK == \A s \in pending : s.flow # None => flows[s.flow].user = s.user

\* PartialIsRemembered, of every repository no creation is still busy with.
Remembered ==
  \A r \in created \ lost :
    origin[r] # None /\ ~IsBound(r) /\ (\A c \in Call : call[c].at = "bind" => call[c].repo # r)
    => flows[origin[r]].repo = r

OnbInv ==
  /\ RowsOK /\ OneWorkspaceEach /\ PendingOK /\ Remembered /\ CallsOK
  /\ \A f \in Flow : FlowOK(f)
  /\ \A w \in Workspace : WsOK(w)

LEMMA RowsAreTypes == OnbTypeOK <=> RowsOK
  BY DEF OnbTypeOK, RowsOK, FlowRow, WsRow, Request, Place, State

LEMMA BoundIs ==
  ASSUME NEW r
  PROVE  Bound(r) = {} <=> ~IsBound(r)
  BY DEF Bound, IsBound

-----------------------------------------------------------------------------
(***************************************************************************)
(* What no step takes back: the user and the workspace of a flow, the      *)
(* owner and the binding of a workspace, its READY, and what exists.       *)
(***************************************************************************)
Grows ==
  /\ \A f \in Flow : flows[f].user # None => flows'[f].user = flows[f].user
  /\ \A f \in Flow : flows[f].ws # None => flows'[f].ws = flows[f].ws
  /\ \A w \in Workspace : ws[w].owner # None =>
       /\ ws'[w].owner = ws[w].owner /\ ws'[w].repo = ws[w].repo
       /\ ws[w].boot = "READY" => ws'[w].boot = "READY"
  /\ created \subseteq created' /\ \A r \in created : origin'[r] = origin[r]

\* A repository that is bound after the step.
BoundNow(r) == \E w \in Workspace : ws'[w].owner # None /\ ws'[w].repo = r

\* The step leaves alone what request k works on.
Undisturbed(k) ==
  /\ k.at \in Creating \cup {"import"} /\ k.flow # None =>
       flows'[k.flow].repo = flows[k.flow].repo \/ BoundNow(flows'[k.flow].repo)
  /\ k.at \in Booting => ws'[k.ws].boot = ws[k.ws].boot /\ k.ws \notin unverified'

\* A flow no step writes.
LEMMA FlowStays ==
  ASSUME OnbInv, Grows, NEW f \in Flow, flows'[f] = flows[f]
  PROVE  FlowOK(f)'
<1>1. FlowOK(f) /\ flows[f] \in FlowRow
  BY DEF OnbInv, RowsOK
<1>2. Settled(f) => Settled(f)'
  BY DEF Settled, IsBound, Grows
<1>3. flows[f].ws # None => flows[f].ws \in Workspace
  BY <1>1 DEF FlowRow
<1> QED
  BY <1>1, <1>2, <1>3 DEF FlowOK, Grows

\* A request no step moves.
LEMMA CallStays ==
  ASSUME OnbInv, Grows, NEW k \in Request, CallOK(k), Undisturbed(k)
  PROVE  CallOK(k)'
<1>1. /\ k.flow # None => k.flow \in Flow
      /\ k.ws # None => k.ws \in Workspace
      /\ k.repo # None => k.repo \in Repo
  BY DEF Request
<1>2. k.at # "idle" => k.user # None
  BY DEF CallOK
<1>3. k.flow # None => flows'[k.flow].user = k.user /\ k.user # None
  BY <1>1 DEF CallOK, Grows
<1>4. /\ k.at \in {"bind", "import"} => k.repo # None
      /\ k.at = "bind" => k.repo \in created' /\ origin'[k.repo] = k.flow
  BY DEF CallOK, Grows
<1>5. k.at \in Creating /\ k.flow # None => Settled(k.flow)'
  BY DEF CallOK, Settled, IsBound, Grows, Undisturbed, BoundNow
<1>6. k.at = "import" /\ k.flow # None =>
        flows'[k.flow].repo = k.repo \/ IsBound(flows[k.flow].repo)'
  BY DEF CallOK, IsBound, Grows, Undisturbed, BoundNow
<1>7. /\ k.at = "scope" => k.flow # None /\ flows'[k.flow].ws # None
      /\ k.at \in {"verify", "retry"} => k.flow # None /\ flows'[k.flow].ws = k.ws
  BY <1>1 DEF CallOK, Grows, Booting
<1>8. k.at \in Booting =>
        /\ k.ws # None /\ ws'[k.ws].owner # None
        /\ ws'[k.ws].boot = "APPLYING" /\ k.ws \notin unverified'
  BY <1>1 DEF CallOK, Grows, Undisturbed
<1> QED
  BY <1>2, <1>3, <1>4, <1>5, <1>6, <1>7, <1>8 DEF CallOK

\* One request gets further, the others stay where they are.
LEMMA OneCall ==
  ASSUME OnbInv, Grows, NEW c \in Call, NEW k \in Request, call' = [call EXCEPT ![c] = k],
         CallOK(k)',
         \A d \in Call \ {c} : /\ Apart(k, call[d]) /\ Apart(call[d], k)
                               /\ Undisturbed(call[d])
  PROVE  CallsOK'
<1>1. call'[c] = k /\ \A d \in Call \ {c} : call'[d] = call[d]
  BY DEF OnbInv, RowsOK
<1>2. ASSUME NEW d \in Call PROVE CallOK(call[d])'
  <2>1. CASE d = c
    <3>1. ASSUME NEW l, l = call'[d] PROVE CallOK(l)'
      BY <1>1, <2>1, <3>1
    <3> QED
      BY <3>1 DEF CallOK
  <2>2. CASE d # c
    <3>1. ASSUME NEW l, l = call[d] PROVE CallOK(l)'
      BY <2>2, <3>1, CallStays DEF OnbInv, RowsOK, CallsOK
    <3> QED
      BY <1>1, <2>2, <3>1 DEF CallOK
  <2> QED
    BY <2>1, <2>2
<1>3. ASSUME NEW d \in Call, NEW e \in Call, d # e PROVE Apart(call[d], call[e])'
  <2>1. Apart(call'[d], call'[e])
    BY <1>1, <1>3 DEF OnbInv, CallsOK
  <2> QED
    BY <2>1 DEF Apart
<1> QED
  BY <1>2, <1>3 DEF CallsOK

\* No request gets further.
LEMMA NoCall ==
  ASSUME OnbInv, Grows, UNCHANGED call, \A d \in Call : Undisturbed(call[d])
  PROVE  CallsOK'
<1>1. ASSUME NEW d \in Call PROVE CallOK(call[d])'
  <2>1. ASSUME NEW l, l = call[d] PROVE CallOK(l)'
    BY <2>1, CallStays DEF OnbInv, RowsOK, CallsOK
  <2> QED
    BY <2>1 DEF CallOK
<1>2. \A d, e \in Call : d # e => Apart(call[d], call[e])'
  BY DEF OnbInv, CallsOK, Apart
<1> QED
  BY <1>1, <1>2 DEF CallsOK

\* A repository that was created for a flow stays remembered: what the flow
\* forgets is bound, and a creation ends with a note in its flow.
LEMMA RememberedKeeps ==
  ASSUME OnbInv, RowsOK', Grows,
         \A f \in Flow : flows[f].repo # None =>
           flows'[f].repo = flows[f].repo \/ BoundNow(flows[f].repo),
         \A r \in created' \ lost' :
           \/ r \in created \ lost
           \/ \E c \in Call : call'[c].at = "bind" /\ call'[c].repo = r,
         \A c \in Call : call[c].at = "bind" =>
           \/ call'[c].at = "bind" /\ call'[c].repo = call[c].repo
           \/ call[c].repo \in lost' \/ BoundNow(call[c].repo)
           \/ call[c].flow = None \/ flows'[call[c].flow].repo = call[c].repo
  PROVE  Remembered'
<1> SUFFICES ASSUME NEW r \in created' \ lost', origin'[r] # None, ~BoundNow(r),
                    \A c \in Call : call'[c].at = "bind" => call'[c].repo # r
             PROVE  flows'[origin'[r]].repo = r
  BY DEF Remembered, IsBound, BoundNow
<1>1. r \in created \ lost /\ origin'[r] = origin[r] /\ origin[r] \in Flow /\ r # None
  BY OnboardingAssumption DEF Grows, RowsOK, OnbInv
<1>2. CASE \E c \in Call : call[c].at = "bind" /\ call[c].repo = r
  <2>1. PICK c \in Call : call[c].at = "bind" /\ call[c].repo = r
    BY <1>2
  <2>2. origin[r] = call[c].flow
    BY <2>1 DEF OnbInv, CallsOK, CallOK
  <2> QED
    BY <1>1, <2>1, <2>2
<1>3. CASE \A c \in Call : call[c].at = "bind" => call[c].repo # r
  <2>1. ~IsBound(r)
    BY DEF Grows, IsBound, BoundNow
  <2>2. flows[origin[r]].repo = r
    BY <1>1, <1>3, <2>1 DEF OnbInv, Remembered
  <2> QED
    BY <1>1, <2>2
<1> QED
  BY <1>2, <1>3

\* A step that gives no workspace an owner and no flow a repository.
LEMMA PlainStep ==
  ASSUME OnbInv, RowsOK',
         \A f \in Flow : /\ flows'[f].user = flows[f].user /\ flows'[f].ws = flows[f].ws
                         /\ flows'[f].repo = flows[f].repo,
         \A w \in Workspace : /\ ws'[w].owner = ws[w].owner /\ ws'[w].repo = ws[w].repo
                              /\ ws[w].boot = "READY" => ws'[w].boot = "READY",
         UNCHANGED <<created, origin>>, lost \subseteq lost', unverified' \subseteq unverified,
         \A s \in pending' : s \in pending \/ s.flow = None \/ flows[s.flow].user = s.user,
         \A f \in Flow : flows'[f] = flows[f] \/ FlowOK(f)',
         \A w \in Workspace : ws'[w] = ws[w] \/ WsOK(w)',
         \A c \in Call : call[c].at = "bind" =>
           call'[c] = call[c] \/ call[c].repo \in lost',
         Grows => CallsOK'
  PROVE  OnbInv'
<1>1. Grows
  BY DEF Grows
<1>2. OneWorkspaceEach'
  BY DEF OnbInv, OneWorkspaceEach
<1>3. PendingOK'
  <2>1. \A s \in pending' : s.flow # None => s.flow \in Flow
    BY DEF RowsOK, State
  <2> QED
    BY <2>1 DEF PendingOK, OnbInv
<1>4. Remembered'
  BY <1>1, RememberedKeeps
<1>5. ASSUME NEW f \in Flow PROVE FlowOK(f)'
  BY <1>1, FlowStays
<1>6. ASSUME NEW w \in Workspace PROVE WsOK(w)'
  BY DEF OnbInv, WsOK
<1> QED
  BY <1>1, <1>2, <1>3, <1>4, <1>5, <1>6 DEF OnbInv

-----------------------------------------------------------------------------
(***************************************************************************)
(* The shapes of the updates.                                              *)
(***************************************************************************)
Is(k, at, u, f, r, w) ==
  /\ k \in Request /\ k.at = at /\ k.user = u /\ k.flow = f /\ k.repo = r /\ k.ws = w

LEMMA IdleIs == Is(Idle, "idle", None, None, None, None)
  BY DEF Idle, Is, Request, Place

LEMMA RequestShapes ==
  ASSUME NEW at \in Place, NEW u \in User \cup {None}, NEW f \in Flow \cup {None},
         NEW r \in Repo \cup {None}, NEW w \in Workspace \cup {None}
  PROVE  /\ Is([Idle EXCEPT !.at = at, !.user = u, !.flow = f], at, u, f, None, None)
         /\ Is([Idle EXCEPT !.at = at, !.user = u, !.repo = r], at, u, None, r, None)
         /\ Is([Idle EXCEPT !.at = at, !.user = u, !.flow = f, !.repo = r], at, u, f, r, None)
         /\ Is([Idle EXCEPT !.at = at, !.user = u, !.flow = f, !.ws = w], at, u, f, None, w)
<1>1. Is([Idle EXCEPT !.at = at, !.user = u, !.flow = f], at, u, f, None, None)
  BY IdleIs DEF Is, Request
<1>2. Is([Idle EXCEPT !.at = at, !.user = u, !.repo = r], at, u, None, r, None)
  BY IdleIs DEF Is, Request
<1>3. Is([Idle EXCEPT !.at = at, !.user = u, !.flow = f, !.repo = r], at, u, f, r, None)
  BY IdleIs DEF Is, Request
<1>4. Is([Idle EXCEPT !.at = at, !.user = u, !.flow = f, !.ws = w], at, u, f, None, w)
  BY IdleIs DEF Is, Request
<1> QED
  BY <1>1, <1>2, <1>3, <1>4

\* A request at one of these places holds nothing another one could take.
Quiet == {"idle", "resolve", "setup", "repo", "scope"}

LEMMA QuietApart ==
  ASSUME NEW k, NEW l, k.at \in Quiet
  PROVE  Apart(k, l) /\ Apart(l, k)
  BY DEF Quiet, Apart, Creating, Booting

LEMMA NoneIsNothing ==
  /\ None \notin User /\ None \notin Flow /\ None \notin Repo /\ None \notin Workspace
  BY OnboardingAssumption

\* Only requests, states and grants change.
LEMMA AsksKeeps ==
  ASSUME OnbInv, UNCHANGED <<flows, ws, created, ghostVars>>,
         linked' \subseteq User, grants' \subseteq User, pending' \subseteq State,
         \A s \in pending' : s \in pending \/ s.flow = None \/ flows[s.flow].user = s.user,
         \/ UNCHANGED call
         \/ \E c \in Call : \E k \in Request :
              /\ call' = [call EXCEPT ![c] = k] /\ CallOK(k) /\ call[c].at # "bind"
              /\ \A d \in Call \ {c} : Apart(k, call[d]) /\ Apart(call[d], k)
  PROVE  OnbInv'
<1>1. UNCHANGED <<flows, ws, created, origin, lost, unverified>>
  BY DEF ghostVars
<1>2. RowsOK'
  BY <1>1 DEF OnbInv, RowsOK
<1>3. \A d \in Call : Undisturbed(call[d])
  BY <1>1 DEF OnbInv, CallsOK, CallOK, Undisturbed
<1>4. Grows => CallsOK'
  <2>1. CASE UNCHANGED call
    BY <1>3, <2>1, NoCall
  <2>2. CASE \E c \in Call : \E k \in Request :
               /\ call' = [call EXCEPT ![c] = k] /\ CallOK(k)
               /\ \A d \in Call \ {c} : Apart(k, call[d]) /\ Apart(call[d], k)
    <3>1. PICK c \in Call, k \in Request :
               /\ call' = [call EXCEPT ![c] = k] /\ CallOK(k)
               /\ \A d \in Call \ {c} : Apart(k, call[d]) /\ Apart(call[d], k)
      BY <2>2
    <3>2. CallOK(k)'
      BY <1>1, <3>1 DEF CallOK, Settled, IsBound
    <3> QED
      BY <1>3, <3>1, <3>2, OneCall
  <2> QED
    BY <2>1, <2>2
<1>5. \A c \in Call : call[c].at = "bind" => call'[c] = call[c] \/ call[c].repo \in lost'
  BY DEF OnbInv, RowsOK
<1> QED
  BY <1>1, <1>2, <1>4, <1>5, PlainStep

LEMMA IdleOK == CallOK(Idle) /\ Idle.at \in Quiet /\ Idle \in Request
  BY IdleIs DEF Is, CallOK, Quiet, Creating, Booting

Waits(at, u, f) == [Idle EXCEPT !.at = at, !.user = u, !.flow = f]

\* A request that waits for GitHub with nothing but its user and its flow.
LEMMA QuietOK ==
  ASSUME NEW u \in User, NEW f \in Flow \cup {None}, f # None => flows[f].user = u,
         NEW at \in {"resolve", "setup", "repo", "scope"},
         at = "scope" => f # None /\ flows[f].ws # None,
         NEW k, k = Waits(at, u, f)
  PROVE  CallOK(k) /\ k.at \in Quiet /\ k \in Request /\ k.at = at /\ k.flow = f /\ k.user = u
<1>1. Is(k, at, u, f, None, None)
  BY IdleIs DEF Is, Request, Place, Waits
<1>2. k.at \in Quiet /\ k.at \notin Creating \cup Booting \cup {"idle", "import", "verify", "retry"}
  BY <1>1 DEF Is, Quiet, Creating, Booting
<1> QED
  BY <1>1, <1>2, NoneIsNothing DEF Is, CallOK, Creating

-----------------------------------------------------------------------------
(***************************************************************************)
(* The pages and redirects: nothing but requests, states and grants.       *)
(***************************************************************************)
LEMMA StartsQuiet ==
  ASSUME OnbInv, UNCHANGED <<flows, ws, created, ghostVars, linked, grants>>,
         pending' \subseteq pending,
         NEW c \in Call, call[c].at # "bind",
         NEW u \in User, NEW f \in Flow \cup {None}, f # None => flows[f].user = u,
         NEW at \in {"resolve", "setup", "repo", "scope"},
         at = "scope" => f # None /\ flows[f].ws # None,
         Start(c, at, u, f)
  PROVE  OnbInv'
<1> SUFFICES ASSUME NEW k, k = Waits(at, u, f)
             PROVE  OnbInv'
  OBVIOUS
<1>1. CallOK(k) /\ k.at \in Quiet /\ k \in Request
  BY QuietOK
<1>2. call' = [call EXCEPT ![c] = k]
  BY DEF Start, Waits
<1>3. \A d \in Call \ {c} : Apart(k, call[d]) /\ Apart(call[d], k)
  BY <1>1, QuietApart
<1>4. linked' \subseteq User /\ grants' \subseteq User /\ pending' \subseteq State
  BY DEF OnbInv, RowsOK
<1> QED
  BY <1>1, <1>2, <1>3, <1>4, AsksKeeps

LEMMA RedirectsKeep ==
  ASSUME OnbInv,
         \/ \E u \in User : createInstallRedirect(u) \/ createAuthorizationRedirect(u)
         \/ \E s \in pending : startSetupOAuth(s) \/ cleanup(s)
  PROVE  OnbInv'
<1>1. /\ UNCHANGED <<flows, ws, linked, grants, call, created, ghostVars>>
      /\ linked \subseteq User /\ grants \subseteq User /\ pending \subseteq State
  BY DEF createInstallRedirect, createAuthorizationRedirect, startSetupOAuth, cleanup, dbVars,
         OnbInv, RowsOK
<1>2. ASSUME NEW u \in User, NEW kind \in {"install", "repo"}, Mint(kind, u, None)
      PROVE  OnbInv'
  <2>1. pending' = pending \cup {[kind |-> kind, user |-> u, flow |-> None]}
    BY <1>2 DEF Mint
  <2>2. [kind |-> kind, user |-> u, flow |-> None] \in State
    BY DEF State
  <2> QED
    BY <1>1, <2>1, <2>2, AsksKeeps
<1>3. CASE \E u \in User : createInstallRedirect(u) \/ createAuthorizationRedirect(u)
  BY <1>2, <1>3 DEF createInstallRedirect, createAuthorizationRedirect
<1>4. CASE \E s \in pending : startSetupOAuth(s)
  <2>1. PICK s \in pending : pending' = (pending \ {s}) \cup {[s EXCEPT !.kind = "setup"]}
    BY <1>4 DEF startSetupOAuth
  <2>2. /\ [s EXCEPT !.kind = "setup"] \in State
        /\ [s EXCEPT !.kind = "setup"].user = s.user /\ [s EXCEPT !.kind = "setup"].flow = s.flow
    BY <1>1 DEF State
  <2>3. s.flow = None \/ flows[s.flow].user = s.user
    BY DEF OnbInv, PendingOK
  <2> QED
    BY <1>1, <2>1, <2>2, <2>3, AsksKeeps
<1>5. CASE \E s \in pending : cleanup(s)
  <2>1. pending' \subseteq pending
    BY <1>5 DEF cleanup
  <2> QED
    BY <1>1, <2>1, AsksKeeps
<1> QED
  BY <1>3, <1>4, <1>5

\* The callbacks, until GitHub has answered.
LEMMA ConsumesKeep ==
  ASSUME OnbInv, NEW c \in Call, NEW s \in pending,
         ConsumeOAuthState(s, c) \/ ConsumeAuthorizationState(s, c)
  PROVE  OnbInv'
<1>1. /\ pending' = pending \ {s} /\ Free(c) /\ UNCHANGED <<dbVars, grants, created, ghostVars>>
      /\ Start(c, "setup", s.user, s.flow) \/ Start(c, "repo", s.user, s.flow)
  BY DEF ConsumeOAuthState, ConsumeAuthorizationState
<1>2. /\ s.user \in User /\ s.flow \in Flow \cup {None}
      /\ s.flow # None => flows[s.flow].user = s.user
  BY DEF OnbInv, RowsOK, State, PendingOK
<1>3. ASSUME NEW u, u = s.user, NEW f, f = s.flow PROVE OnbInv'
  <2>1. \E at \in {"setup", "repo"} : Start(c, at, u, f)
    BY <1>1, <1>3
  <2> QED
    BY <1>1, <1>2, <1>3, <2>1, StartsQuiet DEF Free, dbVars
<1> QED
  BY <1>3

LEMMA PagesKeep ==
  ASSUME OnbInv, NEW u \in User, NEW f \in Flow, NEW c \in Call,
         ContinueFlow(u, f, c) \/ StartVerification(u, f, c)
  PROVE  OnbInv'
<1>1. /\ flows[f].user = u /\ Free(c) /\ UNCHANGED <<dbVars, pending, grants, created, ghostVars>>
      /\ \/ Start(c, "resolve", u, f)
         \/ Start(c, "scope", u, f) /\ flows[f].ws # None
  BY DEF ContinueFlow, StartVerification, ActiveFlows
<1> QED
  BY <1>1, NoneIsNothing, StartsQuiet DEF Free, dbVars

LEMMA ResolvesKeep ==
  ASSUME OnbInv, NEW c \in Call, resolveInstallationState(c)
  PROVE  OnbInv'
<1>1. /\ call[c].at = "resolve" /\ UNCHANGED <<flows, ws, linked, grants, created, ghostVars>>
      /\ call' = [call EXCEPT ![c] = Idle]
      /\ \E kind \in {"install", "repo"} : Mint(kind, call[c].user, call[c].flow)
  BY DEF resolveInstallationState, End, dbVars
<1>2. /\ call[c].user \in User /\ call[c].flow \in Flow \cup {None}
      /\ call[c].flow # None => flows[call[c].flow].user = call[c].user
  BY <1>1 DEF OnbInv, RowsOK, Request, CallsOK, CallOK
<1>3. PICK kind \in {"install", "repo"} : Mint(kind, call[c].user, call[c].flow)
  BY <1>1
<1>4. ASSUME NEW s, s = [kind |-> kind, user |-> call[c].user, flow |-> call[c].flow]
      PROVE  OnbInv'
  <2>1. /\ pending' = pending \cup {s} /\ s \in State
        /\ s.flow = None \/ flows[s.flow].user = s.user
    BY <1>2, <1>3, <1>4 DEF Mint, State
  <2>2. linked' \subseteq User /\ grants' \subseteq User /\ pending' \subseteq State
    BY <1>1, <2>1 DEF OnbInv, RowsOK
  <2>3. \A d \in Call \ {c} : Apart(Idle, call[d]) /\ Apart(call[d], Idle)
    BY IdleOK, QuietApart
  <2> QED
    BY <1>1, <2>1, <2>2, <2>3, IdleOK, AsksKeeps
<1> QED
  BY <1>4

-----------------------------------------------------------------------------
(***************************************************************************)
(* Steps that move the state of a flow.                                    *)
(***************************************************************************)
LEMMA StateWritten ==
  ASSUME OnbInv, NEW f \in Flow, NEW st \in Active \cup {"COMPLETED"}
  PROVE  /\ WithState(f, st) \in FlowRow
         /\ WithState(f, st).user = flows[f].user /\ WithState(f, st).ws = flows[f].ws
         /\ WithState(f, st).repo = flows[f].repo /\ WithState(f, st).state = st
<1>1. flows[f] \in FlowRow
  BY DEF OnbInv, RowsOK
<1>2. ASSUME NEW fl \in FlowRow, NEW n, n = [fl EXCEPT !.state = st]
      PROVE  /\ n \in FlowRow /\ n.user = fl.user /\ n.ws = fl.ws /\ n.repo = fl.repo
             /\ n.state = st
  BY <1>2 DEF FlowRow
<1> QED
  BY <1>1, <1>2 DEF WithState

LEMMA UpdateIs ==
  ASSUME NEW f, NEW new, NEW db, db = updateFlow(f, new)
  PROVE  db = flows \/ db = [flows EXCEPT ![f] = new]
  BY DEF updateFlow

\* The state a flow may be written with: what FlowOK asks of it.
MayEnter(f, st) ==
  /\ st = "PROVISIONING" /\ flows[f].ws = None => Settled(f)
  /\ st = "READY_TO_RESUME" => flows[f].ws # None
  /\ st \in {"READY_TO_RESUME", "COMPLETED"} /\ flows[f].ws # None =>
       ws'[flows[f].ws].boot = "READY"

LEMMA StateStep ==
  ASSUME OnbInv, UNCHANGED <<created, origin, lost>>, unverified' \subseteq unverified,
         linked' \subseteq User, grants' \subseteq User, pending' \subseteq pending,
         \/ UNCHANGED flows
         \/ \E f \in Flow : \E st \in Active \cup {"COMPLETED"} :
              MayEnter(f, st) /\ flows' = [flows EXCEPT ![f] = WithState(f, st)],
         ws' \in [Workspace -> WsRow],
         \A w \in Workspace :
           /\ ws'[w].owner = ws[w].owner /\ ws'[w].repo = ws[w].repo
           /\ ws[w].boot = "READY" => ws'[w].boot = "READY"
           /\ ws'[w] = ws[w] \/ WsOK(w)',
         \/ /\ UNCHANGED call
            /\ \A d \in Call : call[d].at \in Booting =>
                 ws'[call[d].ws].boot = ws[call[d].ws].boot
         \/ \E c \in Call : \E k \in Request :
              /\ call' = [call EXCEPT ![c] = k] /\ CallOK(k)' /\ call[c].at # "bind"
              /\ \A d \in Call \ {c} :
                   /\ Apart(k, call[d]) /\ Apart(call[d], k)
                   /\ call[d].at \in Booting => ws'[call[d].ws].boot = ws[call[d].ws].boot
  PROVE  OnbInv'
<1>1. /\ flows' \in [Flow -> FlowRow]
      /\ \A f \in Flow : /\ flows'[f].user = flows[f].user /\ flows'[f].ws = flows[f].ws
                         /\ flows'[f].repo = flows[f].repo
      /\ \A f \in Flow : \/ flows'[f] = flows[f]
                         \/ \E st \in Active \cup {"COMPLETED"} :
                              MayEnter(f, st) /\ flows'[f].state = st
  <2>1. CASE UNCHANGED flows
    BY <2>1 DEF OnbInv, RowsOK
  <2>2. ASSUME NEW f \in Flow, NEW st \in Active \cup {"COMPLETED"}, MayEnter(f, st),
               flows' = [flows EXCEPT ![f] = WithState(f, st)],
               NEW new, new = WithState(f, st)
        PROVE  /\ flows' \in [Flow -> FlowRow]
               /\ \A g \in Flow : /\ flows'[g].user = flows[g].user /\ flows'[g].ws = flows[g].ws
                                  /\ flows'[g].repo = flows[g].repo
               /\ \A g \in Flow : flows'[g] = flows[g] \/ (g = f /\ flows'[g].state = st)
    <3>1. /\ new \in FlowRow /\ new.user = flows[f].user /\ new.ws = flows[f].ws
          /\ new.repo = flows[f].repo /\ new.state = st
      BY <2>2, StateWritten
    <3>2. flows' = [flows EXCEPT ![f] = new] /\ flows \in [Flow -> FlowRow]
      BY <2>2 DEF OnbInv, RowsOK
    <3> QED
      BY <2>2, <3>1, <3>2
  <2> QED
    BY <2>1, <2>2
<1>2. RowsOK'
  <2>1. pending' \subseteq State /\ unverified' \subseteq Workspace /\ call' \in [Call -> Request]
    BY DEF OnbInv, RowsOK
  <2> QED
    BY <1>1, <2>1 DEF OnbInv, RowsOK
<1>3. \A w \in Workspace : IsBound(ws[w].repo) => BoundNow(ws[w].repo)
  BY DEF IsBound, BoundNow
<1>4. \A d \in Call :
        (call[d].at \in Booting => ws'[call[d].ws].boot = ws[call[d].ws].boot)
        => Undisturbed(call[d])
  <2>1. \A d \in Call : /\ call[d].flow # None => call[d].flow \in Flow
                        /\ call[d].at \in Booting => call[d].ws \notin unverified
    BY DEF OnbInv, RowsOK, Request, CallsOK, CallOK
  <2> QED
    BY <1>1, <2>1 DEF Undisturbed
<1>5. ASSUME Grows PROVE CallsOK'
  <2>1. CASE /\ UNCHANGED call
             /\ \A d \in Call : call[d].at \in Booting =>
                  ws'[call[d].ws].boot = ws[call[d].ws].boot
    BY <1>4, <1>5, <2>1, NoCall
  <2>2. ASSUME NEW c \in Call, NEW k \in Request,
               call' = [call EXCEPT ![c] = k], CallOK(k)',
               \A d \in Call \ {c} :
                 /\ Apart(k, call[d]) /\ Apart(call[d], k)
                 /\ call[d].at \in Booting => ws'[call[d].ws].boot = ws[call[d].ws].boot
        PROVE  CallsOK'
    BY <1>4, <1>5, <2>2, OneCall
  <2> QED
    BY <2>1, <2>2
<1>6. \A f \in Flow : flows'[f] = flows[f] \/ FlowOK(f)'
  <2>1. ASSUME NEW f \in Flow, NEW st, MayEnter(f, st), flows'[f].state = st
        PROVE  FlowOK(f)'
    <3>1. FlowOK(f) /\ (flows[f].ws # None => flows[f].ws \in Workspace)
      BY DEF OnbInv, RowsOK, FlowRow
    <3>2. Settled(f) => Settled(f)'
      BY <1>1 DEF Settled, IsBound
    <3> QED
      BY <1>1, <2>1, <3>1, <3>2 DEF FlowOK, MayEnter
  <2> QED
    BY <1>1, <2>1
<1>7. \A c \in Call : call[c].at = "bind" => call'[c] = call[c] \/ call[c].repo \in lost'
  BY DEF OnbInv, RowsOK
<1> QED
  BY <1>1, <1>2, <1>5, <1>6, <1>7, PlainStep

-----------------------------------------------------------------------------
(***************************************************************************)
(* provisionWorkspace, and the callbacks that reach it.                    *)
(***************************************************************************)
LEMMA PostOK ==
  ASSUME OnbInv, NEW u \in User, NEW f \in Flow \cup {None}, CreationStarts(u),
         f # None => flows[f].user = u /\ flows[f].repo = None,
         NEW k, k = Waits("post", u, f)
  PROVE  /\ k \in Request /\ CallOK(k) /\ k.flow = f
         /\ \A d \in Call : Apart(k, call[d]) /\ Apart(call[d], k)
<1>1. Is(k, "post", u, f, None, None)
  BY IdleIs DEF Is, Request, Place, Waits
<1>2. CallOK(k)
  BY <1>1, NoneIsNothing DEF Is, CallOK, Creating, Booting, Settled
<1>3. ASSUME NEW d \in Call PROVE Apart(k, call[d]) /\ Apart(call[d], k)
  <2>1. call[d].at \in Creating => call[d].user # u
    BY DEF CreationStarts, activeCreations, Creating
  <2>2. call[d].at = "import" /\ call[d].flow # None => call[d].flow # f
    <3> SUFFICES ASSUME call[d].at = "import", call[d].flow = f, f # None PROVE FALSE
      OBVIOUS
    <3>1. call[d].repo # None /\ (flows[f].repo = call[d].repo \/ IsBound(flows[f].repo))
      BY DEF OnbInv, CallsOK, CallOK
    <3>2. ~IsBound(None)
      BY DEF IsBound, OnbInv, WsOK
    <3> QED
      BY <3>1, <3>2
  <2> QED
    BY <1>1, <2>1, <2>2 DEF Is, Apart, Creating, Booting
<1> QED
  BY <1>1, <1>2, <1>3 DEF Is

Imports(u, f, r) == [Idle EXCEPT !.at = "import", !.user = u, !.flow = f, !.repo = r]

LEMMA ImportOK ==
  ASSUME OnbInv, NEW u \in User, NEW f \in Flow \cup {None}, NEW r \in Repo,
         f # None => flows[f].user = u /\ flows[f].repo = r /\ ~IsBound(r),
         NEW k, k = Imports(u, f, r)
  PROVE  /\ k \in Request /\ CallOK(k)
         /\ \A d \in Call : Apart(k, call[d]) /\ Apart(call[d], k)
<1>1. Is(k, "import", u, f, r, None)
  BY IdleIs DEF Is, Request, Place, Imports
<1>2. CallOK(k)
  BY <1>1, NoneIsNothing DEF Is, CallOK, Creating, Booting
<1>3. ASSUME NEW d \in Call PROVE Apart(k, call[d]) /\ Apart(call[d], k)
  <2>1. call[d].at \in Creating /\ call[d].flow # None => call[d].flow # f
    BY NoneIsNothing DEF OnbInv, CallsOK, CallOK, Settled
  <2> QED
    BY <1>1, <2>1 DEF Is, Apart, Creating, Booting
<1> QED
  BY <1>1, <1>2, <1>3 DEF Is

LEMMA PostWorkspaceKeeps ==
  ASSUME OnbInv, NEW u \in User, NEW c \in Call, PostWorkspace(u, c)
  PROVE  OnbInv'
<1>1. /\ call[c].at = "idle" /\ UNCHANGED <<flows, ws, linked, pending, grants, created, ghostVars>>
      /\ linked' \subseteq User /\ grants' \subseteq User /\ pending' \subseteq State
  BY DEF PostWorkspace, Free, dbVars, OnbInv, RowsOK
<1>2. CASE createRepository(u, c)
  <2>1. ASSUME NEW k, k = Waits("post", u, None) PROVE OnbInv'
    <3>1. k \in Request /\ CallOK(k) /\ \A d \in Call : Apart(k, call[d]) /\ Apart(call[d], k)
      BY <1>2, <2>1, PostOK DEF createRepository
    <3>2. call' = [call EXCEPT ![c] = k]
      BY <1>2, <2>1 DEF createRepository, Start, Waits
    <3> QED
      BY <1>1, <3>1, <3>2, AsksKeeps
  <2> QED
    BY <2>1
<1>3. CASE importRepository(u, c)
  <2>1. PICK r \in created :
          call' = [call EXCEPT ![c] = [Idle EXCEPT !.at = "import", !.user = u, !.repo = r]]
    BY <1>3 DEF importRepository
  <2>2. ASSUME NEW k, k = [Idle EXCEPT !.at = "import", !.user = u, !.repo = r] PROVE OnbInv'
    <3>1. r \in Repo
      BY DEF OnbInv, RowsOK
    <3>2. Is(k, "import", u, None, r, None)
      BY <2>2, <3>1, IdleIs DEF Is, Request, Place
    <3>3. Is(Imports(u, None, r), "import", u, None, r, None)
      BY <3>1, IdleIs DEF Is, Request, Place, Imports
    <3>4. k = Imports(u, None, r)
      BY <3>2, <3>3 DEF Is, Request
    <3>5. k \in Request /\ CallOK(k) /\ \A d \in Call : Apart(k, call[d]) /\ Apart(call[d], k)
      BY <3>1, <3>4, ImportOK
    <3> QED
      BY <1>1, <2>1, <2>2, <3>5, AsksKeeps
  <2> QED
    BY <2>2
<1> QED
  BY <1>2, <1>3 DEF PostWorkspace

LEMMA ProvisionKeeps ==
  ASSUME OnbInv, UNCHANGED <<ws, pending, created, ghostVars>>,
         linked' \subseteq User, grants' \subseteq User,
         NEW c \in Call, call[c].at \in {"setup", "repo"},
         NEW f \in Flow, call[c].flow = f, provisionWorkspace(c, f)
  PROVE  OnbInv'
<1> SUFFICES ASSUME NEW u, u = call[c].user, NEW r, r = flows[f].repo
             PROVE  OnbInv'
  OBVIOUS
<1>1. u \in User /\ flows[f].user = u /\ r \in Repo \cup {None} /\ pending' \subseteq State
      /\ UNCHANGED <<origin, lost, unverified>>
  BY NoneIsNothing DEF OnbInv, RowsOK, FlowRow, Request, CallsOK, CallOK, ghostVars
<1>2. /\ ws' \in [Workspace -> WsRow]
      /\ \A d \in Call : call[d].at \in Booting =>
           ws'[call[d].ws].boot = ws[call[d].ws].boot
      /\ \A w \in Workspace : ws'[w] = ws[w]
  BY DEF OnbInv, RowsOK
<1>3. CASE End(c) /\ UNCHANGED flows
  <2>1. \A d \in Call \ {c} : Apart(Idle, call[d]) /\ Apart(call[d], Idle)
    BY IdleOK, QuietApart
  <2> QED
    BY <1>1, <1>3, <2>1, IdleOK, AsksKeeps DEF End
<1>4. CASE r # None /\ recoverPartialCreation(c, f) /\ UNCHANGED flows
  <2>1. CASE Bound(r) = {} /\ call' = [call EXCEPT ![c] = Imports(u, f, r)]
    <3>1. ~IsBound(r)
      BY <2>1, BoundIs
    <3>2. ASSUME NEW k, k = Imports(u, f, r) PROVE OnbInv'
      <4>1. k \in Request /\ CallOK(k) /\ \A d \in Call : Apart(k, call[d]) /\ Apart(call[d], k)
        BY <1>1, <1>4, <3>1, <3>2, ImportOK
      <4> QED
        BY <1>1, <1>4, <2>1, <3>2, <4>1, AsksKeeps
    <3> QED
      BY <3>2
  <2> QED
    BY <1>3, <1>4, <2>1 DEF recoverPartialCreation, Imports
<1>5. CASE /\ r = None /\ CreationStarts(u)
           /\ flows' = updateFlow(f, WithState(f, "PROVISIONING")) /\ Start(c, "post", u, f)
  <2>1. ASSUME NEW k, k = Waits("post", u, f) PROVE OnbInv'
    <3>1. /\ k \in Request /\ CallOK(k) /\ k.flow = f
          /\ \A d \in Call : Apart(k, call[d]) /\ Apart(call[d], k)
      BY <1>1, <1>5, <2>1, PostOK
    <3>2. call' = [call EXCEPT ![c] = k]
      BY <1>5, <2>1 DEF Start, Waits
    <3>3. MayEnter(f, "PROVISIONING") /\ "PROVISIONING" \in Active \cup {"COMPLETED"}
      BY <1>5 DEF MayEnter, Settled, Active
    <3>4. flows' = flows \/ flows' = [flows EXCEPT ![f] = WithState(f, "PROVISIONING")]
      BY <1>5, UpdateIs
    <3>5. flows'[f].repo = None /\ flows'[f].user = u
      <4>1. ASSUME NEW new, new = WithState(f, "PROVISIONING")
            PROVE  flows'[f].repo = None /\ flows'[f].user = u
        <5>1. new.repo = None /\ new.user = u
          BY <1>1, <1>5, <3>3, <4>1, StateWritten
        <5> QED
          BY <1>1, <1>5, <3>4, <4>1, <5>1 DEF OnbInv, RowsOK
      <4> QED
        BY <4>1
    <3>6. k.at = "post" /\ k.user = u
      BY <1>1, <2>1, IdleIs DEF Is, Request, Place, Waits
    <3>7. CallOK(k)'
      BY <1>1, <3>1, <3>5, <3>6, NoneIsNothing DEF CallOK, Settled, Creating, Booting
    <3> QED
      BY <1>1, <1>2, <3>1, <3>2, <3>3, <3>4, <3>7, StateStep
  <2> QED
    BY <2>1
<1>6. CASE flows' = updateFlow(f, WithState(f, "RECOVERY_REQUIRED")) /\ End(c)
  <2>1. MayEnter(f, "RECOVERY_REQUIRED") /\ "RECOVERY_REQUIRED" \in Active \cup {"COMPLETED"}
    BY DEF MayEnter, Active
  <2>2. flows' = flows \/ flows' = [flows EXCEPT ![f] = WithState(f, "RECOVERY_REQUIRED")]
    BY <1>6, UpdateIs
  <2>3. /\ \A d \in Call \ {c} : Apart(Idle, call[d]) /\ Apart(call[d], Idle)
        /\ CallOK(Idle)' /\ Idle \in Request
    BY IdleOK, IdleIs, QuietApart DEF Is, CallOK, Creating, Booting
  <2> QED
    BY <1>1, <1>2, <1>6, <2>1, <2>2, <2>3, StateStep DEF End
<1> QED
  BY <1>3, <1>4, <1>5, <1>6 DEF provisionWorkspace

LEMMA CallbacksKeep ==
  ASSUME OnbInv, NEW c \in Call, SetupCallback(c) \/ RepositoryCallback(c)
  PROVE  OnbInv'
<1> SUFFICES ASSUME NEW f, f = call[c].flow PROVE OnbInv'
  OBVIOUS
<1>1. /\ call[c].at \in {"setup", "repo"} /\ UNCHANGED <<ws, pending, created, ghostVars>>
      /\ \/ f \in Flow /\ provisionWorkspace(c, f)
         \/ End(c) /\ UNCHANGED flows
  <2>1. f # None => f \in Flow
    BY DEF OnbInv, RowsOK, Request
  <2>2. CASE SetupCallback(c)
    BY <2>1, <2>2 DEF SetupCallback
  <2>3. CASE RepositoryCallback(c)
    BY <2>1, <2>3 DEF RepositoryCallback
  <2> QED
    BY <2>2, <2>3
<1>2. linked' \subseteq User /\ grants' \subseteq User /\ pending' \subseteq State
  <2>1. call[c].user \in User
    BY <1>1 DEF OnbInv, RowsOK, Request, CallsOK, CallOK
  <2>2. linked' \in {linked, linked \cup {call[c].user}}
    BY DEF SetupCallback, LinkInstallation, upsertGitHubInstallationWithUser, RepositoryCallback
  <2>3. grants' \in {grants, grants \cup {call[c].user}}
    BY DEF SetupCallback, RepositoryCallback, GrantAuthorization
  <2> QED
    BY <1>1, <2>1, <2>2, <2>3 DEF OnbInv, RowsOK
<1>3. CASE f \in Flow /\ provisionWorkspace(c, f)
  BY <1>1, <1>2, <1>3, ProvisionKeeps
<1>4. CASE End(c) /\ UNCHANGED flows
  <2>1. \A d \in Call \ {c} : Apart(Idle, call[d]) /\ Apart(call[d], Idle)
    BY IdleOK, QuietApart
  <2> QED
    BY <1>1, <1>2, <1>4, <2>1, IdleOK, AsksKeeps DEF End
<1> QED
  BY <1>1, <1>3, <1>4

-----------------------------------------------------------------------------
(***************************************************************************)
(* A flow's other steps that only move its state.                          *)
(***************************************************************************)
LEMMA CompletesKeep ==
  ASSUME OnbInv, NEW u \in User, NEW f \in Flow, CompleteFlow(u, f)
  PROVE  OnbInv'
<1>1. /\ flows[f].state = "READY_TO_RESUME"
      /\ flows' = updateFlow(f, WithState(f, "COMPLETED"))
      /\ UNCHANGED <<ws, linked, pending, grants, call, created, ghostVars>>
  BY DEF CompleteFlow
<1>2. MayEnter(f, "COMPLETED")
  BY <1>1 DEF MayEnter, OnbInv, FlowOK
<1>3. flows' = flows \/ flows' = [flows EXCEPT ![f] = WithState(f, "COMPLETED")]
  BY <1>1, UpdateIs
<1>4. /\ ws' \in [Workspace -> WsRow] /\ linked' \subseteq User /\ grants' \subseteq User
      /\ UNCHANGED <<origin, lost, unverified>>
  BY <1>1 DEF OnbInv, RowsOK, ghostVars
<1> QED
  BY <1>1, <1>2, <1>3, <1>4, StateStep

LEMMA ChoicesKeep ==
  ASSUME OnbInv, NEW u \in User, NEW f \in Flow, NEW c \in Call, PostRepositoryChoice(u, f, c)
  PROVE  OnbInv'
<1> SUFFICES ASSUME NEW st, st = "AWAITING_GITHUB_ACCESS", NEW k, k = Waits("resolve", u, f)
             PROVE  OnbInv'
  OBVIOUS
<1>1. /\ flows[f].user = u /\ flows' = updateFlow(f, WithState(f, st))
      /\ call[c].at = "idle" /\ call' = [call EXCEPT ![c] = k]
      /\ UNCHANGED <<ws, linked, pending, grants, created, ghostVars>>
  BY DEF PostRepositoryChoice, submitRepositoryChoice, Free, Start, Waits
<1>2. MayEnter(f, st) /\ st \in Active \cup {"COMPLETED"}
  BY DEF MayEnter, Active
<1>3. flows' = flows \/ flows' = [flows EXCEPT ![f] = WithState(f, st)]
  BY <1>1, UpdateIs
<1>4. /\ ws' \in [Workspace -> WsRow] /\ linked' \subseteq User /\ grants' \subseteq User
      /\ UNCHANGED <<origin, lost, unverified>>
  BY <1>1 DEF OnbInv, RowsOK, ghostVars
<1>5. Is(k, "resolve", u, f, None, None)
  BY IdleIs DEF Is, Request, Place, Waits
<1>6. flows'[f].user = u
  <2>1. ASSUME NEW new, new = WithState(f, st) PROVE flows'[f].user = u
    <3>1. new.user = u
      BY <1>1, <1>2, <2>1, StateWritten
    <3> QED
      BY <1>1, <1>3, <2>1, <3>1 DEF OnbInv, RowsOK
  <2> QED
    BY <2>1
<1>7. CallOK(k)'
  BY <1>5, <1>6, NoneIsNothing DEF Is, CallOK, Creating, Booting
<1>8. \A d \in Call \ {c} : Apart(k, call[d]) /\ Apart(call[d], k)
  BY <1>5, QuietApart DEF Is, Quiet
<1> QED
  BY <1>1, <1>2, <1>3, <1>4, <1>5, <1>7, <1>8, StateStep DEF Is

-----------------------------------------------------------------------------
(***************************************************************************)
(* The restriction and the bootstrap: one row of the workspaces moves.     *)
(***************************************************************************)
LEMMA WsWritten ==
  ASSUME OnbInv, NEW w \in Workspace, NEW row \in WsRow, ws' = [ws EXCEPT ![w] = row],
         row.owner = ws[w].owner, row.repo = ws[w].repo, ws[w].owner # None,
         ws[w].boot = "READY" => row.boot = "READY",
         w \in unverified' => ~row.scoped /\ row.boot = "PENDING"
  PROVE  /\ ws' \in [Workspace -> WsRow] /\ ws'[w] = row
         /\ \A v \in Workspace : v # w => ws'[v] = ws[v]
         /\ \A v \in Workspace :
              /\ ws'[v].owner = ws[v].owner /\ ws'[v].repo = ws[v].repo
              /\ ws[v].boot = "READY" => ws'[v].boot = "READY"
              /\ ws'[v] = ws[v] \/ WsOK(v)'
<1>1. /\ ws' \in [Workspace -> WsRow] /\ ws'[w] = row
      /\ \A v \in Workspace : v # w => ws'[v] = ws[v]
  BY DEF OnbInv, RowsOK
<1>2. WsOK(w)'
  BY <1>1 DEF OnbInv, WsOK
<1> QED
  BY <1>1, <1>2

\* An attempt of the bootstrap begins: nobody else is at this workspace.
LEMMA BootCallOK ==
  ASSUME OnbInv, NEW w \in Workspace, w \notin activeBootstraps, ws[w].owner # None,
         w \notin unverified',
         ws'[w].boot = "APPLYING", ws'[w].owner # None,
         \A v \in Workspace : v # w => ws'[v] = ws[v],
         NEW u \in User, NEW f \in Flow \cup {None},
         NEW at \in Booting, at \in {"verify", "retry"} => f # None,
         f # None => flows'[f].user = u /\ flows'[f].ws = w,
         NEW r, NEW k, Is(k, at, u, f, r, w)
  PROVE  /\ CallOK(k)'
         /\ \A d \in Call : /\ Apart(k, call[d]) /\ Apart(call[d], k)
                            /\ call[d].at \in Booting =>
                                 ws'[call[d].ws].boot = ws[call[d].ws].boot
<1>1. k.at \in Booting /\ k.at \notin Creating \cup {"idle", "import", "scope"}
  BY DEF Is, Booting, Creating
<1>2. CallOK(k)'
  BY <1>1, NoneIsNothing DEF Is, CallOK, Creating
<1>3. ASSUME NEW d \in Call, call[d].at \in Booting
      PROVE  call[d].ws # w /\ call[d].ws \in Workspace
  BY <1>3 DEF activeBootstraps, Booting, OnbInv, RowsOK, Request, CallsOK, CallOK
<1> QED
  BY <1>1, <1>2, <1>3 DEF Is, Apart, Creating

LEMMA BootBegins ==
  ASSUME OnbInv, NEW w \in Workspace, RetryAllowed(w), Begins(w),
         NEW c \in Call, call[c].at \notin {"bind"},
         NEW u \in User, NEW f \in Flow \cup {None},
         NEW at \in {"retry", "boot"}, at = "retry" => f # None,
         f # None => flows[f].user = u /\ flows[f].ws = w,
         BootBegin(c, w, at, u, f),
         UNCHANGED <<flows, linked, pending, grants, created, ghostVars>>
  PROVE  OnbInv'
<1> SUFFICES ASSUME NEW k, k = [Idle EXCEPT !.at = at, !.user = u, !.flow = f, !.ws = w],
                    NEW row, row = [ws[w] EXCEPT !.boot = "APPLYING"]
             PROVE  OnbInv'
  OBVIOUS
<1>1. /\ ws' = [ws EXCEPT ![w] = row] /\ call' = [call EXCEPT ![c] = k]
      /\ UNCHANGED <<origin, lost, unverified>>
      /\ linked' \subseteq User /\ grants' \subseteq User
  BY DEF BootBegin, ghostVars, OnbInv, RowsOK
<1>2. ws[w] \in WsRow /\ "APPLYING" \in BootState
  BY DEF OnbInv, RowsOK, BootState
<1>3. row \in WsRow /\ row.owner = ws[w].owner /\ row.repo = ws[w].repo /\ row.boot = "APPLYING"
  <2>1. ASSUME NEW old \in WsRow, row = [old EXCEPT !.boot = "APPLYING"]
        PROVE  /\ row \in WsRow /\ row.owner = old.owner /\ row.repo = old.repo
               /\ row.boot = "APPLYING"
    BY <1>2, <2>1 DEF WsRow
  <2> QED
    BY <1>2, <2>1
<1>4. ws[w].owner # None /\ w \notin unverified /\ ws[w].boot # "READY"
  <2>1. ~NoWs.scoped
    BY DEF NoWs
  <2> QED
    BY <2>1 DEF RetryAllowed, Begins, OnbInv, WsOK
<1>5. /\ ws' \in [Workspace -> WsRow] /\ ws'[w] = row
      /\ \A v \in Workspace : v # w => ws'[v] = ws[v]
      /\ \A v \in Workspace :
           /\ ws'[v].owner = ws[v].owner /\ ws'[v].repo = ws[v].repo
           /\ ws[v].boot = "READY" => ws'[v].boot = "READY"
           /\ ws'[v] = ws[v] \/ WsOK(v)'
  BY <1>1, <1>3, <1>4, WsWritten
<1>6. Is(k, at, u, f, None, w)
  BY IdleIs DEF Is, Request, Place
<1>7. at \in Booting /\ w \notin activeBootstraps
  BY DEF Booting, Begins
<1>8. /\ CallOK(k)'
      /\ \A d \in Call : /\ Apart(k, call[d]) /\ Apart(call[d], k)
                         /\ call[d].at \in Booting =>
                              ws'[call[d].ws].boot = ws[call[d].ws].boot
  <2>1. /\ w \notin unverified' /\ ws'[w].boot = "APPLYING" /\ ws'[w].owner # None
        /\ f # None => flows'[f].user = u /\ flows'[f].ws = w
        /\ at \in {"verify", "retry"} => f # None
    BY <1>1, <1>3, <1>4, <1>5
  <2> QED
    BY <1>4, <1>5, <1>6, <1>7, <2>1, BootCallOK
<1>9. \E e \in Call : \E l \in Request :
        /\ call' = [call EXCEPT ![e] = l] /\ CallOK(l)' /\ call[e].at # "bind"
        /\ \A d \in Call \ {e} :
             /\ Apart(l, call[d]) /\ Apart(call[d], l)
             /\ call[d].at \in Booting => ws'[call[d].ws].boot = ws[call[d].ws].boot
  <2>1. k \in Request
    BY <1>6 DEF Is
  <2> QED
    BY <1>1, <1>8, <2>1
<1> QED
  BY <1>1, <1>5, <1>9, StateStep

LEMMA RetriesKeep ==
  ASSUME OnbInv, NEW u \in User, NEW c \in Call,
         \/ \E w \in Workspace : RetryWorkspace(u, w, c)
         \/ \E f \in Flow : RetryFlow(u, f, c)
  PROVE  OnbInv'
<1>1. ASSUME NEW w \in Workspace, RetryWorkspace(u, w, c) PROVE OnbInv'
  BY <1>1, NoneIsNothing, BootBegins DEF RetryWorkspace, Free
<1>2. ASSUME NEW f \in Flow, RetryFlow(u, f, c), NEW w, w = flows[f].ws PROVE OnbInv'
  <2>1. /\ w \in Workspace /\ flows[f].user = u /\ call[c].at = "idle" /\ RetryAllowed(w)
        /\ UNCHANGED <<linked, pending, grants, created, ghostVars>>
    BY <1>2 DEF RetryFlow, retryBootstrap, Free, OnbInv, RowsOK, FlowRow
  <2>2. CASE Begins(w) /\ BootBegin(c, w, "retry", u, f) /\ UNCHANGED flows
    BY <1>2, <2>1, <2>2, NoneIsNothing, BootBegins
  <2>3. CASE flows' = AfterRetry(f, ws[w].boot) /\ UNCHANGED <<ws, call>>
    <3>1. /\ \/ flows' = flows
             \/ flows' = [flows EXCEPT ![f] = WithState(f, "READY_TO_RESUME")]
                /\ ws[w].boot = "READY"
      BY <2>3, UpdateIs DEF AfterRetry
    <3>2. /\ ws' \in [Workspace -> WsRow] /\ linked' \subseteq User /\ grants' \subseteq User
          /\ UNCHANGED <<origin, lost, unverified>> /\ "READY_TO_RESUME" \in Active
      BY <2>1, <2>3 DEF OnbInv, RowsOK, ghostVars, Active
    <3>3. ws[w].boot = "READY" => MayEnter(f, "READY_TO_RESUME")
      BY <1>2, <2>1, <2>3, NoneIsNothing DEF MayEnter
    <3> QED
      BY <2>1, <2>3, <3>1, <3>2, <3>3, StateStep
  <2> QED
    BY <1>2, <2>1, <2>2, <2>3 DEF RetryFlow, retryBootstrap
<1> QED
  BY <1>1, <1>2

LEMMA BootEndsKeep ==
  ASSUME OnbInv, NEW c \in Call,
         NEW b \in {"READY", "RETRYABLE_FAILURE", "MANUAL_RECOVERY"}, BootstrapEnds(c, b)
  PROVE  OnbInv'
<1> SUFFICES ASSUME NEW w, w = call[c].ws, NEW f, f = call[c].flow,
                    NEW row, row = [ws[w] EXCEPT !.boot = b]
             PROVE  OnbInv'
  OBVIOUS
<1>1. /\ call[c].at \in Booting /\ ws' = [ws EXCEPT ![w] = row]
      /\ call' = [call EXCEPT ![c] = Idle]
      /\ UNCHANGED <<linked, pending, grants, created, origin, lost, unverified>>
      /\ linked' \subseteq User /\ grants' \subseteq User
  BY DEF BootstrapEnds, Booting, End, ghostVars, OnbInv, RowsOK
<1>2. /\ w \in Workspace /\ ws[w] \in WsRow /\ ws[w].owner # None /\ ws[w].boot = "APPLYING"
      /\ w \notin unverified
      /\ call[c].at \in {"verify", "retry"} => f \in Flow /\ flows[f].ws = w
  BY <1>1, NoneIsNothing DEF OnbInv, RowsOK, Request, CallsOK, CallOK
<1>3. row \in WsRow /\ row.owner = ws[w].owner /\ row.repo = ws[w].repo /\ row.boot = b
  <2>1. ASSUME NEW old \in WsRow, row = [old EXCEPT !.boot = b]
        PROVE  /\ row \in WsRow /\ row.owner = old.owner /\ row.repo = old.repo
               /\ row.boot = b
    BY <2>1 DEF WsRow, BootState
  <2> QED
    BY <1>2, <2>1
<1>4. /\ ws' \in [Workspace -> WsRow] /\ ws'[w] = row
      /\ \A v \in Workspace : v # w => ws'[v] = ws[v]
      /\ \A v \in Workspace :
           /\ ws'[v].owner = ws[v].owner /\ ws'[v].repo = ws[v].repo
           /\ ws[v].boot = "READY" => ws'[v].boot = "READY"
           /\ ws'[v] = ws[v] \/ WsOK(v)'
  BY <1>1, <1>2, <1>3, WsWritten
<1>5. \A d \in Call \ {c} :
        /\ Apart(Idle, call[d]) /\ Apart(call[d], Idle)
        /\ call[d].at \in Booting => ws'[call[d].ws].boot = ws[call[d].ws].boot
  <2>1. \A d \in Call \ {c} : call[d].at \in Booting => call[d].ws \in Workspace \ {w}
    BY <1>1, <1>2 DEF OnbInv, RowsOK, Request, CallsOK, CallOK, Apart
  <2> QED
    BY <1>4, <2>1, IdleOK, QuietApart
<1>6. \E e \in Call : \E l \in Request :
        /\ call' = [call EXCEPT ![e] = l] /\ CallOK(l)' /\ call[e].at # "bind"
        /\ \A d \in Call \ {e} :
             /\ Apart(l, call[d]) /\ Apart(call[d], l)
             /\ call[d].at \in Booting => ws'[call[d].ws].boot = ws[call[d].ws].boot
  <2>1. Idle \in Request /\ CallOK(Idle)' /\ call[c].at # "bind"
    BY <1>1, IdleIs DEF Is, CallOK, Creating, Booting
  <2> QED
    BY <1>1, <1>5, <2>1
<1>7. \/ UNCHANGED flows
      \/ \E g \in Flow : \E st \in Active \cup {"COMPLETED"} :
           MayEnter(g, st) /\ flows' = [flows EXCEPT ![g] = WithState(g, st)]
  <2>1. CASE call[c].at = "boot"
    BY <2>1 DEF BootstrapEnds
  <2>2. CASE call[c].at \in {"verify", "retry"}
    <3>1. f \in Flow /\ flows[f].ws = w
      BY <1>2, <2>2
    <3>2. \/ flows' = flows
          \/ flows' = updateFlow(f, WithState(f, "RECOVERY_REQUIRED"))
          \/ flows' = updateFlow(f, WithState(f, "READY_TO_RESUME")) /\ b = "READY"
      BY <2>2 DEF BootstrapEnds, AfterVerify, AfterRetry
    <3>3. MayEnter(f, "RECOVERY_REQUIRED") /\ {"RECOVERY_REQUIRED", "READY_TO_RESUME"} \subseteq Active
      BY DEF MayEnter, Active
    <3>4. b = "READY" => MayEnter(f, "READY_TO_RESUME")
      BY <1>2, <1>3, <1>4, <3>1, NoneIsNothing DEF MayEnter
    <3>5. flows' # flows =>
            \/ flows' = [flows EXCEPT ![f] = WithState(f, "RECOVERY_REQUIRED")]
            \/ flows' = [flows EXCEPT ![f] = WithState(f, "READY_TO_RESUME")] /\ b = "READY"
      BY <3>2, UpdateIs
    <3> QED
      BY <3>1, <3>3, <3>4, <3>5
  <2> QED
    BY <1>1, <2>1, <2>2 DEF Booting
<1> QED
  BY <1>1, <1>4, <1>6, <1>7, StateStep

\* The restriction of the app is verified, or refused.
LEMMA VerifiesKeep ==
  ASSUME OnbInv, NEW c \in Call, verifyRepositoryAccessAndBootstrap(c)
  PROVE  OnbInv'
<1> SUFFICES ASSUME NEW f, f = call[c].flow, NEW w, w = flows[f].ws PROVE OnbInv'
  OBVIOUS
<1>1. /\ call[c].at = "scope"
      /\ ScopeVerified(c, f, w) \/ ScopeRefused(c, w)
      /\ UNCHANGED <<linked, pending, grants, created, origin, lost>>
      /\ linked' \subseteq User /\ grants' \subseteq User
  BY DEF verifyRepositoryAccessAndBootstrap, OnbInv, RowsOK
<1>2. /\ f \in Flow /\ w \in Workspace /\ ws[w] \in WsRow /\ flows[f].user = call[c].user
      /\ call[c].user \in User /\ ws[w].owner # None
  <2>1. f \in Flow /\ flows[f].user = call[c].user /\ call[c].user \in User /\ w # None
    BY <1>1 DEF OnbInv, RowsOK, Request, CallsOK, CallOK
  <2>2. w \in Workspace /\ ws[w].owner = flows[f].user
    BY <2>1 DEF OnbInv, RowsOK, FlowRow, FlowOK
  <2> QED
    BY <2>1, <2>2, NoneIsNothing DEF OnbInv, RowsOK
<1>3. /\ MayEnter(f, "RECOVERY_REQUIRED") /\ MayEnter(f, "PROVISIONING")
      /\ {"RECOVERY_REQUIRED", "READY_TO_RESUME", "PROVISIONING"} \subseteq Active
  BY <1>2, NoneIsNothing DEF MayEnter, Active
<1>4. CASE End(c)
  <2>1. ASSUME NEW row, row = ws'[w] PROVE OnbInv'
    <3>1. /\ ws' = [ws EXCEPT ![w] = row] /\ row.owner = ws[w].owner /\ row.repo = ws[w].repo
          /\ row.boot = ws[w].boot /\ row \in WsRow
          /\ \/ unverified' = unverified \ {w}
             \/ unverified' = unverified /\ row.scoped = FALSE
      <4>1. \E sc \in BOOLEAN : /\ ws' = [ws EXCEPT ![w].scoped = sc]
                                /\ \/ unverified' = unverified \ {w}
                                   \/ unverified' = unverified /\ sc = FALSE
        <5>1. CASE ScopeRefused(c, w)
          BY <5>1 DEF ScopeRefused, ScopeMarked
        <5>2. CASE ScopeVerified(c, f, w) /\ ws' = ScopeMarked(w, TRUE)
          BY <5>2 DEF ScopeVerified, ScopeMarked
        <5>3. CASE ScopeVerified(c, f, w) /\ ws' # ScopeMarked(w, TRUE)
          <6>1. call' = [call EXCEPT ![c].at = "verify", ![c].ws = w]
            BY <5>3 DEF ScopeVerified
          <6>2. call'[c].at = "verify" /\ call'[c].at = "idle"
            BY <1>4, <6>1, IdleIs DEF End, Is, OnbInv, RowsOK, Request
          <6> QED
            BY <6>2
        <5> QED
          BY <1>1, <5>1, <5>2, <5>3
      <4>2. PICK sc \in BOOLEAN : /\ ws' = [ws EXCEPT ![w].scoped = sc]
                                  /\ \/ unverified' = unverified \ {w}
                                     \/ unverified' = unverified /\ sc = FALSE
        BY <4>1
      <4>3. ASSUME NEW old \in WsRow, NEW n, n = [old EXCEPT !.scoped = sc]
            PROVE  /\ n \in WsRow /\ n.owner = old.owner /\ n.repo = old.repo
                   /\ n.boot = old.boot /\ n.scoped = sc
        BY <4>3 DEF WsRow
      <4>4. ws' = [ws EXCEPT ![w] = row] /\ row = [ws[w] EXCEPT !.scoped = sc]
        BY <1>2, <2>1, <4>2 DEF OnbInv, RowsOK
      <4> QED
        BY <1>2, <4>2, <4>3, <4>4
    <3>2. w \in unverified' => ~row.scoped /\ row.boot = "PENDING"
      BY <1>2, <3>1 DEF OnbInv, WsOK
    <3>3. /\ ws' \in [Workspace -> WsRow] /\ ws'[w] = row
          /\ \A v \in Workspace : v # w => ws'[v] = ws[v]
          /\ \A v \in Workspace :
               /\ ws'[v].owner = ws[v].owner /\ ws'[v].repo = ws[v].repo
               /\ ws[v].boot = "READY" => ws'[v].boot = "READY"
               /\ ws'[v] = ws[v] \/ WsOK(v)'
      BY <1>2, <3>1, <3>2, WsWritten
    <3>4. \E e \in Call : \E l \in Request :
            /\ call' = [call EXCEPT ![e] = l] /\ CallOK(l)' /\ call[e].at # "bind"
            /\ \A d \in Call \ {e} :
                 /\ Apart(l, call[d]) /\ Apart(call[d], l)
                 /\ call[d].at \in Booting => ws'[call[d].ws].boot = ws[call[d].ws].boot
      <4>1. Idle \in Request /\ CallOK(Idle)' /\ call[c].at # "bind"
        BY <1>1, IdleIs DEF Is, CallOK, Creating, Booting
      <4>2. \A d \in Call : call[d].at \in Booting => call[d].ws \in Workspace
        BY DEF OnbInv, RowsOK, Request, CallsOK, CallOK
      <4>3. \A d \in Call \ {c} : call[d].at \in Booting =>
              ws'[call[d].ws].boot = ws[call[d].ws].boot
        BY <3>1, <3>3, <4>2
      <4> QED
        BY <1>4, <4>1, <4>3, IdleOK, QuietApart DEF End
    <3>5. \/ UNCHANGED flows
          \/ \E g \in Flow : \E st \in Active \cup {"COMPLETED"} :
               MayEnter(g, st) /\ flows' = [flows EXCEPT ![g] = WithState(g, st)]
      <4>1. \/ flows' = flows
            \/ flows' = updateFlow(f, WithState(f, "PROVISIONING"))
            \/ flows' = updateFlow(f, WithState(f, "RECOVERY_REQUIRED"))
            \/ flows' = updateFlow(f, WithState(f, "READY_TO_RESUME")) /\ ws[w].boot = "READY"
        BY <1>1 DEF ScopeVerified, ScopeRefused, AfterVerify
      <4>2. ws[w].boot = "READY" => MayEnter(f, "READY_TO_RESUME")
        BY <1>2, <3>3, NoneIsNothing DEF MayEnter
      <4>3. flows' # flows =>
              \/ flows' = [flows EXCEPT ![f] = WithState(f, "PROVISIONING")]
              \/ flows' = [flows EXCEPT ![f] = WithState(f, "RECOVERY_REQUIRED")]
              \/ flows' = [flows EXCEPT ![f] = WithState(f, "READY_TO_RESUME")]
                 /\ ws[w].boot = "READY"
        BY <4>1, UpdateIs
      <4> QED
        BY <1>2, <1>3, <4>2, <4>3
    <3> QED
      BY <1>1, <3>1, <3>3, <3>4, <3>5, StateStep
  <2> QED
    BY <2>1
<1>5. CASE /\ Begins(w) /\ unverified' = unverified \ {w}
           /\ flows' = updateFlow(f, WithState(f, "PROVISIONING"))
           /\ ws' = [ScopeMarked(w, TRUE) EXCEPT ![w].boot = "APPLYING"]
           /\ call' = [call EXCEPT ![c].at = "verify", ![c].ws = w]
  <2>1. ASSUME NEW row, row = [ws[w] EXCEPT !.scoped = TRUE, !.boot = "APPLYING"],
               NEW k, k = [call[c] EXCEPT !.at = "verify", !.ws = w],
               NEW u, u = call[c].user
        PROVE  OnbInv'
    <3>1. /\ row \in WsRow /\ row.owner = ws[w].owner /\ row.repo = ws[w].repo
          /\ row.boot = "APPLYING"
      <4>1. ASSUME NEW old \in WsRow, row = [old EXCEPT !.scoped = TRUE, !.boot = "APPLYING"]
            PROVE  /\ row \in WsRow /\ row.owner = old.owner /\ row.repo = old.repo
                   /\ row.boot = "APPLYING"
        BY <4>1 DEF WsRow, BootState
      <4> QED
        BY <1>2, <2>1, <4>1
    <3>2. ws' = [ws EXCEPT ![w] = row]
      BY <1>2, <1>5, <2>1 DEF ScopeMarked, OnbInv, RowsOK
    <3>3. call' = [call EXCEPT ![c] = k] /\ call[c] \in Request
      BY <1>5, <2>1 DEF OnbInv, RowsOK
    <3>4. /\ ws' \in [Workspace -> WsRow] /\ ws'[w] = row
          /\ \A v \in Workspace : v # w => ws'[v] = ws[v]
          /\ \A v \in Workspace :
               /\ ws'[v].owner = ws[v].owner /\ ws'[v].repo = ws[v].repo
               /\ ws[v].boot = "READY" => ws'[v].boot = "READY"
               /\ ws'[v] = ws[v] \/ WsOK(v)'
      BY <1>2, <1>5, <3>1, <3>2, WsWritten DEF Begins
    <3>5. /\ k \in Request /\ k.at = "verify" /\ k.user = u /\ k.flow = f /\ k.ws = w
          /\ k.repo = call[c].repo
      BY <1>2, <2>1, <3>3 DEF Request, Place
    <3>6. flows' = flows \/ flows' = [flows EXCEPT ![f] = WithState(f, "PROVISIONING")]
      BY <1>5, UpdateIs
    <3>7. flows'[f].user = u /\ flows'[f].ws = w
      <4>1. ASSUME NEW new, new = WithState(f, "PROVISIONING")
            PROVE  flows'[f].user = u /\ flows'[f].ws = w
        <5>1. new.user = u /\ new.ws = w
          BY <1>2, <1>3, <2>1, <4>1, StateWritten
        <5> QED
          BY <1>2, <2>1, <3>6, <4>1, <5>1 DEF OnbInv, RowsOK
      <4> QED
        BY <4>1
    <3>8. /\ CallOK(k)'
          /\ \A d \in Call : /\ Apart(k, call[d]) /\ Apart(call[d], k)
                             /\ call[d].at \in Booting =>
                                  ws'[call[d].ws].boot = ws[call[d].ws].boot
      <4>1. /\ w \notin activeBootstraps /\ w \notin unverified'
            /\ ws'[w].boot = "APPLYING" /\ ws'[w].owner # None
            /\ u \in User /\ f \in Flow \cup {None}
            /\ f # None => flows'[f].user = u /\ flows'[f].ws = w
            /\ "verify" \in Booting /\ f # None
        BY <1>2, <1>5, <2>1, <3>1, <3>4, <3>7, NoneIsNothing DEF Begins, Booting
      <4>2. Is(k, "verify", u, f, call[c].repo, w)
        BY <3>5 DEF Is
      <4> QED
        BY <1>2, <3>4, <4>1, <4>2, BootCallOK
    <3>10. \E e \in Call : \E l \in Request :
             /\ call' = [call EXCEPT ![e] = l] /\ CallOK(l)' /\ call[e].at # "bind"
             /\ \A d \in Call \ {e} :
                  /\ Apart(l, call[d]) /\ Apart(call[d], l)
                  /\ call[d].at \in Booting => ws'[call[d].ws].boot = ws[call[d].ws].boot
      <4>1. call[c].at # "bind"
        BY <1>1
      <4> QED
        BY <3>3, <3>5, <3>8, <4>1
    <3>11. unverified' \subseteq unverified
      BY <1>5
    <3>12. \/ UNCHANGED flows
           \/ \E g \in Flow : \E st \in Active \cup {"COMPLETED"} :
                MayEnter(g, st) /\ flows' = [flows EXCEPT ![g] = WithState(g, st)]
      BY <1>2, <1>3, <3>6
    <3> QED
      BY <1>1, <3>4, <3>10, <3>11, <3>12, StateStep
  <2> QED
    BY <2>1
<1> QED
  BY <1>1, <1>4, <1>5 DEF ScopeVerified, ScopeRefused

-----------------------------------------------------------------------------
(***************************************************************************)
(* The steps that give a flow its user, its repository or its workspace.   *)
(***************************************************************************)
LEMMA GrowStep ==
  ASSUME OnbInv, RowsOK', Grows, OneWorkspaceEach', CallsOK',
         \A f \in Flow : flows[f].repo # None =>
           flows'[f].repo = flows[f].repo \/ BoundNow(flows[f].repo),
         \A r \in created' \ lost' :
           \/ r \in created \ lost
           \/ \E c \in Call : call'[c].at = "bind" /\ call'[c].repo = r,
         \A c \in Call : call[c].at = "bind" =>
           \/ call'[c].at = "bind" /\ call'[c].repo = call[c].repo
           \/ call[c].repo \in lost' \/ BoundNow(call[c].repo)
           \/ call[c].flow = None \/ flows'[call[c].flow].repo = call[c].repo,
         pending' \subseteq pending,
         \A f \in Flow : flows'[f] = flows[f] \/ FlowOK(f)',
         \A w \in Workspace :
           WsOK(w)' \/ (ws'[w] = ws[w] /\ (w \in unverified' => w \in unverified))
  PROVE  OnbInv'
<1>1. PendingOK'
  <2>1. \A s \in pending : s.flow # None =>
          s.flow \in Flow /\ flows[s.flow].user = s.user /\ s.user # None
    BY NoneIsNothing DEF OnbInv, RowsOK, State, PendingOK
  <2> QED
    BY <2>1 DEF PendingOK, Grows
<1>2. Remembered'
  BY RememberedKeeps
<1>3. ASSUME NEW f \in Flow PROVE FlowOK(f)'
  BY FlowStays
<1>4. ASSUME NEW w \in Workspace PROVE WsOK(w)'
  BY DEF OnbInv, WsOK
<1> QED
  BY <1>1, <1>2, <1>3, <1>4 DEF OnbInv

\* GET /onboarding without an active flow, or with one that is given up.
LEMMA CreatesKeep ==
  ASSUME OnbInv, NEW u \in User, NEW f \in Flow, NEW c \in Call,
         getOrCreateActiveFlowInTx(u, f, c)
  PROVE  OnbInv'
<1> SUFFICES ASSUME NEW k, k = Waits("resolve", u, f) PROVE OnbInv'
  OBVIOUS
<1>1. /\ call[c].at = "idle" /\ call' = [call EXCEPT ![c] = k]
      /\ flows[f].user = None /\ flows[f].ws = None /\ flows[f].repo = None
      /\ UNCHANGED <<ws, linked, pending, grants, created, origin, lost, unverified>>
  BY DEF getOrCreateActiveFlowInTx, Free, Start, Waits, NoFlow, ghostVars
<1>2. /\ flows'[f] \in FlowRow /\ flows'[f].user = u /\ flows'[f].repo = None
      /\ flows'[f].ws = None /\ flows'[f].state = "AWAITING_GITHUB_ACCESS"
  <2>1. ASSUME NEW n, n = NewFlow(u)
        PROVE  /\ n \in FlowRow /\ n.user = u /\ n.repo = None /\ n.ws = None
               /\ n.state = "AWAITING_GITHUB_ACCESS"
    BY <2>1 DEF NewFlow, NoFlow, FlowRow, Active
  <2>2. flows'[f] = NewFlow(u)
    BY DEF getOrCreateActiveFlowInTx
  <2> QED
    BY <2>1, <2>2
<1>3. ASSUME NEW g \in Flow, g # f
      PROVE  \/ flows'[g] = flows[g]
             \/ /\ flows'[g] \in FlowRow /\ flows'[g].user = flows[g].user
                /\ flows'[g].repo = flows[g].repo /\ flows'[g].ws = flows[g].ws
                /\ flows[g].ws = None /\ flows'[g].state = "COMPLETED"
  <2>1. flows'[g] = flows[g] \/ (Pruned(g) /\ flows'[g] = WithState(g, "COMPLETED"))
    BY <1>3 DEF getOrCreateActiveFlowInTx
  <2>2. ASSUME NEW n, n = WithState(g, "COMPLETED")
        PROVE  /\ n \in FlowRow /\ n.user = flows[g].user /\ n.repo = flows[g].repo
               /\ n.ws = flows[g].ws /\ n.state = "COMPLETED"
    BY <2>2, StateWritten
  <2> QED
    BY <2>1, <2>2 DEF Pruned
<1>4. /\ k \in Request /\ Is(k, "resolve", u, f, None, None)
  BY IdleIs DEF Is, Request, Place, Waits
<1>5. RowsOK'
  <2>1. flows' \in [Flow -> FlowRow]
    <3>1. \A g \in Flow : flows'[g] \in FlowRow
      BY <1>2, <1>3 DEF OnbInv, RowsOK
    <3>2. \E F : flows' = [g \in Flow |-> F[g]]
      <4>1. flows' = [g \in Flow |-> flows'[g]]
        BY DEF getOrCreateActiveFlowInTx
      <4> QED
        BY <4>1
    <3> QED
      BY <3>1, <3>2
  <2>2. call' \in [Call -> Request]
    BY <1>1, <1>4 DEF OnbInv, RowsOK
  <2> QED
    BY <1>1, <2>1, <2>2 DEF OnbInv, RowsOK
<1>6. Grows /\ OneWorkspaceEach'
  BY <1>1, <1>2, <1>3 DEF Grows, OnbInv, OneWorkspaceEach
<1>7. \A g \in Flow : flows'[g].repo = flows[g].repo
  BY <1>1, <1>2, <1>3
<1>8. CallsOK'
  <2>1. CallOK(k)'
    BY <1>2, <1>4, NoneIsNothing DEF Is, CallOK, Creating, Booting
  <2>2. \A d \in Call \ {c} : Apart(k, call[d]) /\ Apart(call[d], k)
    BY <1>4, QuietApart DEF Is, Quiet
  <2>3. \A d \in Call : Undisturbed(call[d])
    <3>1. \A d \in Call : /\ call[d].flow # None => call[d].flow \in Flow
                          /\ call[d].at \in Booting => call[d].ws \notin unverified
      BY DEF OnbInv, RowsOK, Request, CallsOK, CallOK
    <3> QED
      BY <1>1, <1>7, <3>1 DEF Undisturbed
  <2> QED
    BY <1>1, <1>4, <1>6, <2>1, <2>2, <2>3, OneCall
<1>9. \A g \in Flow : flows'[g] = flows[g] \/ FlowOK(g)'
  BY <1>2, <1>3 DEF FlowOK
<1>10. \A d \in Call : call[d].at = "bind" =>
         call'[d].at = "bind" /\ call'[d].repo = call[d].repo
  BY <1>1 DEF OnbInv, RowsOK
<1> QED
  BY <1>1, <1>5, <1>6, <1>7, <1>8, <1>9, <1>10, GrowStep

\* What ResumeFlow makes of a flow.
LEMMA HealedIs ==
  ASSUME OnbInv, NEW f \in Flow, flows[f].user # None, NEW h, h = Healed(Adopted(f))
  PROVE  /\ h \in FlowRow /\ h.user = flows[f].user
         /\ \/ h.ws = flows[f].ws /\ h.repo = flows[f].repo
            \/ /\ flows[f].ws = None /\ h.ws \in Workspace
               /\ ws[h.ws].owner = flows[f].user /\ h.repo = ws[h.ws].repo
         /\ h.state \in {"AWAITING_REPOSITORY_RESTRICTION", "READY_TO_RESUME",
                         "RECOVERY_REQUIRED"}
         /\ h.state = "READY_TO_RESUME" => h.ws # None /\ ws[h.ws].boot = "READY"
<1> SUFFICES ASSUME NEW a, a = Adopted(f)
             PROVE  /\ h \in FlowRow /\ h.user = flows[f].user
                    /\ \/ h.ws = flows[f].ws /\ h.repo = flows[f].repo
                       \/ /\ flows[f].ws = None /\ h.ws \in Workspace
                          /\ ws[h.ws].owner = flows[f].user /\ h.repo = ws[h.ws].repo
                    /\ h.state \in {"AWAITING_REPOSITORY_RESTRICTION", "READY_TO_RESUME",
                                    "RECOVERY_REQUIRED"}
                    /\ h.state = "READY_TO_RESUME" => h.ws # None /\ ws[h.ws].boot = "READY"
  OBVIOUS
<1>1. /\ a \in FlowRow /\ a.user = flows[f].user
      /\ \/ a.ws = flows[f].ws /\ a.repo = flows[f].repo
         \/ /\ flows[f].ws = None /\ a.ws \in Workspace
            /\ ws[a.ws].owner = flows[f].user /\ a.repo = ws[a.ws].repo
  <2>1. flows[f] \in FlowRow
    BY DEF OnbInv, RowsOK
  <2>2. CASE a = flows[f]
    BY <2>1, <2>2
  <2>3. CASE flows[f].ws = None /\ Owned(flows[f].user) # {}
    <3>1. PICK w \in Owned(flows[f].user) : a = [flows[f] EXCEPT !.ws = w, !.repo = ws[w].repo]
      BY <2>3 DEF Adopted
    <3>2. w \in Workspace /\ ws[w].owner = flows[f].user /\ ws[w].repo \in Repo \cup {None}
      BY <3>1 DEF Owned, OnbInv, RowsOK, WsRow
    <3>3. ASSUME NEW old \in FlowRow, NEW r \in Repo \cup {None},
                 a = [old EXCEPT !.ws = w, !.repo = r]
          PROVE  a \in FlowRow /\ a.user = old.user /\ a.ws = w /\ a.repo = r
      BY <3>2, <3>3 DEF FlowRow
    <3>4. a \in FlowRow /\ a.user = flows[f].user /\ a.ws = w /\ a.repo = ws[w].repo
      BY <2>1, <3>1, <3>2, <3>3
    <3> QED
      BY <2>3, <3>2, <3>4
  <2> QED
    BY <2>2, <2>3 DEF Adopted
<1>2. PICK st \in {"AWAITING_REPOSITORY_RESTRICTION", "READY_TO_RESUME", "RECOVERY_REQUIRED"} :
        /\ h = [a EXCEPT !.state = st]
        /\ st = "READY_TO_RESUME" => a.ws # None /\ ws[a.ws].boot = "READY"
  BY DEF Healed, isWorkspaceReadyForHost
<1>3. h \in FlowRow /\ h.user = a.user /\ h.ws = a.ws /\ h.repo = a.repo /\ h.state = st
  BY <1>1, <1>2 DEF FlowRow, Active
<1> QED
  BY <1>1, <1>2, <1>3

\* Nobody but the flow's own creation or import is busy for it.
LEMMA AloneAtFlow ==
  ASSUME OnbInv, NEW c \in Call, call[c].at \in Creating, call[c].flow # None,
         NEW d \in Call \ {c}, call[d].at \in Creating \cup {"import"}
  PROVE  call[d].flow # call[c].flow
<1>1. Apart(call[d], call[c]) /\ CallOK(call[c]) /\ CallOK(call[d])
  BY DEF OnbInv, CallsOK
<1> QED
  BY <1>1 DEF Apart, CallOK

LEMMA ResumesKeep ==
  ASSUME OnbInv, NEW u \in User, NEW f \in Flow, ResumeFlow(u, f)
  PROVE  OnbInv'
<1> SUFFICES ASSUME NEW h, h = Healed(Adopted(f)) PROVE OnbInv'
  OBVIOUS
<1>1. /\ flows[f].user = u /\ flows[f].state = "PROVISIONING"
      /\ flows' = flows \/ flows' = [flows EXCEPT ![f] = h]
      /\ UNCHANGED <<ws, linked, pending, grants, call, created, origin, lost, unverified>>
  BY UpdateIs DEF ResumeFlow, ActiveFlows, ghostVars
<1>2. CASE flows' = flows
  BY <1>1, <1>2, AsksKeeps DEF OnbInv, RowsOK, ghostVars
<1>3. CASE flows' = [flows EXCEPT ![f] = h]
  <2>1. /\ h \in FlowRow /\ h.user = flows[f].user
        /\ \/ h.ws = flows[f].ws /\ h.repo = flows[f].repo
           \/ /\ flows[f].ws = None /\ h.ws \in Workspace
              /\ ws[h.ws].owner = flows[f].user /\ h.repo = ws[h.ws].repo
        /\ h.state \in {"AWAITING_REPOSITORY_RESTRICTION", "READY_TO_RESUME",
                        "RECOVERY_REQUIRED"}
        /\ h.state = "READY_TO_RESUME" => h.ws # None /\ ws[h.ws].boot = "READY"
    BY <1>1, NoneIsNothing, HealedIs
  <2>2. flows'[f] = h /\ \A g \in Flow : g # f => flows'[g] = flows[g]
    BY <1>3 DEF OnbInv, RowsOK
  <2>3. RowsOK'
    BY <1>1, <1>3, <2>1 DEF OnbInv, RowsOK
  <2>4. Grows /\ OneWorkspaceEach'
    BY <1>1, <2>1, <2>2 DEF Grows, OnbInv, OneWorkspaceEach
  <2>5. h.repo = flows[f].repo \/ BoundNow(h.repo)
    BY <1>1, <2>1, NoneIsNothing DEF BoundNow
  <2>6. flows[f].repo # None => h.repo = flows[f].repo \/ BoundNow(flows[f].repo)
    BY <1>1, <2>1 DEF OnbInv, FlowOK, Settled, IsBound, BoundNow
  <2>7. CallsOK'
    <3>1. \A d \in Call : Undisturbed(call[d])
      <4>1. \A d \in Call : /\ call[d].flow # None => call[d].flow \in Flow
                            /\ call[d].at \in Booting => call[d].ws \notin unverified
        BY DEF OnbInv, RowsOK, Request, CallsOK, CallOK
      <4> QED
        BY <1>1, <2>2, <2>5, <4>1 DEF Undisturbed
    <3> QED
      BY <1>1, <2>4, <3>1, NoCall
  <2>8. FlowOK(f)'
    <3>1. FlowOK(f)
      BY DEF OnbInv
    <3> QED
      BY <1>1, <2>1, <2>2, <3>1, NoneIsNothing DEF FlowOK
  <2>9. /\ \A g \in Flow : flows'[g] = flows[g] \/ FlowOK(g)'
        /\ \A g \in Flow : flows[g].repo # None =>
             flows'[g].repo = flows[g].repo \/ BoundNow(flows[g].repo)
    BY <2>2, <2>6, <2>8
  <2> QED
    BY <1>1, <2>3, <2>4, <2>7, <2>9, GrowStep
<1> QED
  BY <1>1, <1>2, <1>3

-----------------------------------------------------------------------------
(***************************************************************************)
(* Creating, binding and importing a repository.                           *)
(***************************************************************************)

\* How a creation notes in its flow how it ended: other requests for the flow
\* are not disturbed.
LEMMA NoteIs ==
  ASSUME OnbInv, NEW c \in Call, call[c].at \in Creating,
         NEW st \in {"RECOVERY_REQUIRED", "AWAITING_REPOSITORY_CHOICE"},
         NEW r \in Repo \cup {None}, NoteFailure(c, st, r),
         UNCHANGED ws, unverified' = unverified
  PROVE  /\ flows' \in [Flow -> FlowRow]
         /\ \A f \in Flow : /\ flows'[f].user = flows[f].user /\ flows'[f].ws = flows[f].ws
                            /\ f # call[c].flow => flows'[f] = flows[f]
                            /\ flows[f].repo # None =>
                                 flows'[f].repo = flows[f].repo \/ BoundNow(flows[f].repo)
                            /\ flows'[f] = flows[f] \/ FlowOK(f)'
         /\ \A d \in Call \ {c} : Undisturbed(call[d])
         /\ call[c].flow # None /\ ~GivenUp(call[c].flow) => flows'[call[c].flow].repo = r
<1> SUFFICES ASSUME NEW f, f = call[c].flow,
                    NEW n, n = [flows[f] EXCEPT !.state = st, !.repo = r]
             PROVE  /\ flows' \in [Flow -> FlowRow]
                    /\ \A g \in Flow :
                         /\ flows'[g].user = flows[g].user /\ flows'[g].ws = flows[g].ws
                         /\ g # f => flows'[g] = flows[g]
                         /\ flows[g].repo # None =>
                              flows'[g].repo = flows[g].repo \/ BoundNow(flows[g].repo)
                         /\ flows'[g] = flows[g] \/ FlowOK(g)'
                    /\ \A d \in Call \ {c} : Undisturbed(call[d])
                    /\ f # None /\ ~GivenUp(f) => flows'[f].repo = r
  OBVIOUS
<1>1. \A d \in Call : /\ call[d].flow # None => call[d].flow \in Flow
                      /\ call[d].at \in Booting => call[d].ws \notin unverified
  BY DEF OnbInv, RowsOK, Request, CallsOK, CallOK
<1>2. CASE f = None
  <2>1. flows' = flows
    BY <1>2 DEF NoteFailure
  <2> QED
    BY <1>1, <1>2, <2>1 DEF Undisturbed, OnbInv, RowsOK
<1>3. CASE f # None
  <2>1. f \in Flow /\ flows[f] \in FlowRow /\ FlowOK(f) /\ Settled(f)
    BY <1>1, <1>3 DEF OnbInv, RowsOK, CallsOK, CallOK
  <2>2. /\ n \in FlowRow /\ n.user = flows[f].user /\ n.ws = flows[f].ws
        /\ n.repo = r /\ n.state = st
    <3>1. ASSUME NEW old \in FlowRow, n = [old EXCEPT !.state = st, !.repo = r]
          PROVE  /\ n \in FlowRow /\ n.user = old.user /\ n.ws = old.ws
                 /\ n.repo = r /\ n.state = st
      BY <3>1 DEF FlowRow, Active
    <3> QED
      BY <2>1, <3>1
  <2>3. flows' = updateFlow(f, n)
    BY <1>3 DEF NoteFailure
  <2>4. flows' = flows \/ flows' = [flows EXCEPT ![f] = n]
    BY <2>3, UpdateIs
  <2>5. /\ flows' \in [Flow -> FlowRow]
        /\ \A g \in Flow : g # f => flows'[g] = flows[g]
        /\ flows'[f] = flows[f] \/ flows'[f] = n
    BY <2>1, <2>2, <2>4 DEF OnbInv, RowsOK
  <2>6. flows[f].repo # None => BoundNow(flows[f].repo)
    BY <2>1 DEF Settled, IsBound, BoundNow
  <2>7. flows'[f] = flows[f] \/ FlowOK(f)'
    BY <2>1, <2>2, <2>5 DEF FlowOK
  <2>8. \A d \in Call \ {c} : Undisturbed(call[d])
    BY <1>1, <1>3, <2>5, AloneAtFlow DEF Undisturbed
  <2>9. ~GivenUp(f) => flows'[f].repo = r
    <3>1. ASSUME NEW m, m = WithState(f, "RECOVERY_REQUIRED") PROVE MayUpdate(f, m) => MayUpdate(f, n)
      <4>1. m.user = flows[f].user /\ m.state = "RECOVERY_REQUIRED" /\ m.state \in Active
        BY <2>1, <3>1, StateWritten DEF Active
      <4> QED
        BY <2>2, <4>1 DEF MayUpdate
    <3>2. ~GivenUp(f) => MayUpdate(f, WithState(f, "RECOVERY_REQUIRED"))
      BY <1>3 DEF GivenUp
    <3>3. ~GivenUp(f) => flows' = [flows EXCEPT ![f] = n]
      BY <2>3, <3>1, <3>2 DEF updateFlow
    <3> QED
      BY <2>1, <2>2, <3>3 DEF OnbInv, RowsOK
  <2> QED
    BY <2>1, <2>2, <2>5, <2>6, <2>7, <2>8, <2>9
<1> QED
  BY <1>2, <1>3

\* A creation ends without a workspace: every repository it made is noted in its
\* flow, or nobody heard of it.
LEMMA NoteKeeps ==
  ASSUME OnbInv, NEW c \in Call, call[c].at \in Creating,
         NEW st \in {"RECOVERY_REQUIRED", "AWAITING_REPOSITORY_CHOICE"},
         NEW r \in Repo \cup {None}, NoteFailure(c, st, r), End(c),
         UNCHANGED <<ws, linked, pending, grants, unverified>>,
         created \subseteq created', created' \subseteq Repo,
         lost \subseteq lost', lost' \subseteq Repo,
         origin' \in [Repo -> Flow \cup {None}],
         \A q \in created : origin'[q] = origin[q],
         created' \ lost' \subseteq created \ lost,
         call[c].at = "bind" => r = call[c].repo /\ (GivenUp(call[c].flow) => r \in lost')
  PROVE  OnbInv'
<1>1. /\ flows' \in [Flow -> FlowRow]
      /\ \A f \in Flow : /\ flows'[f].user = flows[f].user /\ flows'[f].ws = flows[f].ws
                         /\ f # call[c].flow => flows'[f] = flows[f]
                         /\ flows[f].repo # None =>
                              flows'[f].repo = flows[f].repo \/ BoundNow(flows[f].repo)
                         /\ flows'[f] = flows[f] \/ FlowOK(f)'
      /\ \A d \in Call \ {c} : Undisturbed(call[d])
      /\ call[c].flow # None /\ ~GivenUp(call[c].flow) => flows'[call[c].flow].repo = r
  BY NoteIs
<1>2. call' = [call EXCEPT ![c] = Idle] /\ Idle \in Request /\ CallOK(Idle)'
  BY IdleIs DEF End, Is, CallOK, Creating, Booting
<1>3. RowsOK'
  BY <1>1, <1>2 DEF OnbInv, RowsOK
<1>4. Grows /\ OneWorkspaceEach'
  BY <1>1 DEF Grows, OnbInv, OneWorkspaceEach
<1>5. CallsOK'
  <2>1. \A d \in Call \ {c} : Apart(Idle, call[d]) /\ Apart(call[d], Idle)
    BY IdleOK, QuietApart
  <2> QED
    BY <1>1, <1>2, <1>4, <2>1, OneCall
<1>6. \A d \in Call : call[d].at = "bind" =>
        \/ call'[d].at = "bind" /\ call'[d].repo = call[d].repo
        \/ call[d].repo \in lost' \/ BoundNow(call[d].repo)
        \/ call[d].flow = None \/ flows'[call[d].flow].repo = call[d].repo
  <2>1. \A d \in Call \ {c} : call'[d] = call[d]
    BY <1>2 DEF OnbInv, RowsOK
  <2> QED
    BY <1>1, <2>1
<1> QED
  BY <1>1, <1>3, <1>4, <1>5, <1>6, GrowStep

LEMMA PostsKeep ==
  ASSUME OnbInv, NEW c \in Call, PostRepository(c)
  PROVE  OnbInv'
<1> SUFFICES ASSUME NEW f, f = call[c].flow,
                    NEW noted, noted = IF f = None THEN None ELSE flows[f].repo
             PROVE  OnbInv'
  OBVIOUS
<1>1. /\ call[c].at = "post" /\ call[c].at \in Creating /\ call[c] \in Request
      /\ f \in Flow \cup {None} /\ noted \in Repo \cup {None}
      /\ UNCHANGED <<ws, linked, pending, grants, unverified>>
  BY DEF PostRepository, Creating, OnbInv, RowsOK, Request, FlowRow
<1>2. /\ created \subseteq Repo /\ lost \subseteq Repo
      /\ origin \in [Repo -> Flow \cup {None}]
  BY DEF OnbInv, RowsOK
<1>3. ASSUME NEW st \in {"RECOVERY_REQUIRED", "AWAITING_REPOSITORY_CHOICE"},
             NoteFailure(c, st, noted), End(c), UNCHANGED <<created, origin, lost>>
      PROVE  OnbInv'
  BY <1>1, <1>2, <1>3, NoteKeeps
<1>4. ASSUME NEW r \in Repo \ created, created' = created \cup {r},
             origin' = [origin EXCEPT ![r] = f]
      PROVE  /\ created' \subseteq Repo /\ origin' \in [Repo -> Flow \cup {None}]
             /\ origin'[r] = f /\ \A q \in created : origin'[q] = origin[q]
  BY <1>1, <1>2, <1>4
<1>5. ASSUME NEW r \in Repo \ created, created' = created \cup {r},
             origin' = [origin EXCEPT ![r] = f], lost' = lost \cup {r},
             NEW n \in {noted, None}, NoteFailure(c, "RECOVERY_REQUIRED", n), End(c)
      PROVE  OnbInv'
  <2>1. /\ created \subseteq created' /\ lost \subseteq lost' /\ lost' \subseteq Repo
        /\ created' \ lost' \subseteq created \ lost /\ n \in Repo \cup {None}
    BY <1>1, <1>2, <1>5
  <2>2. /\ created' \subseteq Repo /\ origin' \in [Repo -> Flow \cup {None}]
        /\ \A q \in created : origin'[q] = origin[q]
    BY <1>4, <1>5
  <2> QED
    BY <1>1, <1>5, <2>1, <2>2, NoteKeeps
<1>6. ASSUME NEW r \in Repo \ created, created' = created \cup {r},
             origin' = [origin EXCEPT ![r] = f],
             call' = [call EXCEPT ![c].at = "bind", ![c].repo = r],
             UNCHANGED <<flows, lost>>,
             NEW k, k = [call[c] EXCEPT !.at = "bind", !.repo = r]
      PROVE  OnbInv'
  <2>1. /\ created' \subseteq Repo /\ origin' \in [Repo -> Flow \cup {None}]
        /\ origin'[r] = f /\ \A q \in created : origin'[q] = origin[q]
    BY <1>4, <1>6
  <2>2. /\ k \in Request /\ k.at = "bind" /\ k.repo = r /\ k.flow = f /\ k.user = call[c].user
    <3>1. ASSUME NEW old \in Request, k = [old EXCEPT !.at = "bind", !.repo = r]
          PROVE  /\ k \in Request /\ k.at = "bind" /\ k.repo = r /\ k.flow = old.flow
                 /\ k.user = old.user
      BY <1>6, <3>1 DEF Request, Place
    <3> QED
      BY <1>1, <1>6, <3>1
  <2>3. call' = [call EXCEPT ![c] = k]
    BY <1>6 DEF OnbInv, RowsOK
  <2>4. RowsOK'
    BY <1>1, <1>6, <2>1, <2>2, <2>3 DEF OnbInv, RowsOK
  <2>5. Grows /\ OneWorkspaceEach'
    BY <1>1, <1>6, <2>1 DEF Grows, OnbInv, OneWorkspaceEach
  <2>6. CallOK(k)'
    <3>1. /\ k.user # None /\ k.flow # None => flows[k.flow].user = k.user /\ Settled(k.flow)
      BY <1>1, <2>2 DEF OnbInv, CallsOK, CallOK
    <3>2. k.user # None
      BY <1>1, <2>2 DEF OnbInv, CallsOK, CallOK
    <3> QED
      BY <1>1, <1>6, <2>1, <2>2, <3>1, <3>2, NoneIsNothing DEF CallOK, Booting, Settled, IsBound
  <2>7. ASSUME NEW d \in Call \ {c}
        PROVE  Apart(k, call[d]) /\ Apart(call[d], k) /\ Undisturbed(call[d])
    <3>1. /\ Apart(call[c], call[d]) /\ Apart(call[d], call[c]) /\ CallOK(call[d])
      BY <2>7 DEF OnbInv, CallsOK
    <3>2. Apart(k, call[d]) /\ Apart(call[d], k)
      BY <1>1, <1>6, <2>2, <3>1 DEF Apart, CallOK, Creating, Booting
    <3>3. Undisturbed(call[d])
      BY <1>1, <1>6, <3>1 DEF Undisturbed, CallOK
    <3> QED
      BY <3>2, <3>3
  <2>8. CallsOK'
    BY <2>2, <2>3, <2>5, <2>6, <2>7, OneCall
  <2>9. /\ call'[c].at = "bind" /\ call'[c].repo = r
        /\ \A d \in Call : call[d].at = "bind" => call'[d] = call[d]
    BY <1>1, <2>2, <2>3 DEF OnbInv, RowsOK
  <2>10. \A q \in created' \ lost' :
           q \in created \ lost \/ \E d \in Call : call'[d].at = "bind" /\ call'[d].repo = q
    BY <1>6, <2>9
  <2> QED
    BY <1>1, <1>6, <2>4, <2>5, <2>8, <2>9, <2>10, GrowStep
<1>7. CASE \E st \in {"RECOVERY_REQUIRED", "AWAITING_REPOSITORY_CHOICE"} :
             NoteFailure(c, st, noted) /\ End(c) /\ UNCHANGED <<created, origin, lost>>
  BY <1>3, <1>7
<1>8. CASE \E r \in Repo \ created :
             /\ created' = created \cup {r}
             /\ origin' = [origin EXCEPT ![r] = f]
             /\ \/ /\ call' = [call EXCEPT ![c].at = "bind", ![c].repo = r]
                   /\ UNCHANGED <<flows, lost>>
                \/ /\ lost' = lost \cup {r}
                   /\ \E n \in {noted, None} : NoteFailure(c, "RECOVERY_REQUIRED", n)
                   /\ End(c)
  BY <1>5, <1>6, <1>8
<1> QED
  BY <1>7, <1>8 DEF PostRepository

\* The transaction that gives a user the workspace of a repository.
Binds(c, w) ==
  /\ CanBind(call[c].user, call[c].repo) /\ w \in FreeWs
  /\ createWorkspaceWithRepositoryBinding(call[c].user, call[c].repo, w, FirstBoot(c))
  /\ NoteWorkspace(c, w, call[c].repo)
  /\ unverified' = IF call[c].flow = None THEN unverified ELSE unverified \cup {w}
  /\ grants' = grants \ {call[c].user}
  /\ UNCHANGED <<linked, pending, created, origin, lost>>

LEMMA RowBound ==
  ASSUME OnbInv, NEW u \in User, NEW r \in Repo, CanBind(u, r), NEW w \in FreeWs,
         NEW boot \in {"APPLYING", "PENDING"},
         createWorkspaceWithRepositoryBinding(u, r, w, boot)
  PROVE  /\ w \in Workspace /\ ws' \in [Workspace -> WsRow]
         /\ ws'[w].owner = u /\ ws'[w].repo = r /\ ws'[w].boot = boot /\ ~ws'[w].scoped
         /\ \A v \in Workspace : v # w => ws'[v] = ws[v]
         /\ \A v \in Workspace : ws[v].owner # None => ws'[v] = ws[v] /\ v # w
         /\ OneWorkspaceEach'
<1> SUFFICES ASSUME NEW row, row = [NoWs EXCEPT !.owner = u, !.repo = r, !.boot = boot]
             PROVE  /\ w \in Workspace /\ ws' \in [Workspace -> WsRow]
                    /\ ws'[w].owner = u /\ ws'[w].repo = r /\ ws'[w].boot = boot
                    /\ ~ws'[w].scoped
                    /\ \A v \in Workspace : v # w => ws'[v] = ws[v]
                    /\ \A v \in Workspace : ws[v].owner # None => ws'[v] = ws[v] /\ v # w
                    /\ OneWorkspaceEach'
  OBVIOUS
<1>1. w \in Workspace /\ ws[w].owner = None
  BY DEF FreeWs
<1>2. row \in WsRow /\ row.owner = u /\ row.repo = r /\ row.boot = boot /\ ~row.scoped
  BY DEF NoWs, WsRow, BootState
<1>3. /\ ws' \in [Workspace -> WsRow] /\ ws'[w] = row
      /\ \A v \in Workspace : v # w => ws'[v] = ws[v]
  BY <1>1, <1>2 DEF createWorkspaceWithRepositoryBinding, OnbInv, RowsOK
<1>4. ASSUME NEW v \in Workspace, v # w
      PROVE  ws'[v].owner # u /\ ws'[v].repo # r
  <2>1. ws[v].owner = None => ws[v].repo = None
    BY DEF OnbInv, WsOK, NoWs
  <2>2. ws[v].owner # u
    BY <1>4 DEF CanBind, Owned
  <2>3. ws[v].owner # None => ws[v].repo # r
    BY <1>4 DEF CanBind, Bound
  <2> QED
    BY <1>3, <1>4, <2>1, <2>2, <2>3, NoneIsNothing
<1>5. OneWorkspaceEach'
  <2> SUFFICES ASSUME NEW v \in Workspace, NEW x \in Workspace, v # x, ws'[v].owner # None
               PROVE  ws'[v].owner # ws'[x].owner /\ ws'[v].repo # ws'[x].repo
    BY DEF OneWorkspaceEach
  <2>1. CASE v = w
    BY <1>2, <1>3, <1>4, <2>1
  <2>2. CASE x = w
    BY <1>2, <1>3, <1>4, <2>2
  <2>3. CASE v # w /\ x # w
    BY <1>3, <2>3 DEF OnbInv, OneWorkspaceEach
  <2> QED
    BY <2>1, <2>2, <2>3
<1> QED
  BY <1>1, <1>2, <1>3, <1>5

LEMMA BindsKeep ==
  ASSUME OnbInv, NEW c \in Call, call[c].at \in {"bind", "import"},
         NEW w \in Workspace, Binds(c, w)
  PROVE  OnbInv'
<1> SUFFICES ASSUME NEW f, f = call[c].flow, NEW u, u = call[c].user,
                    NEW r, r = call[c].repo
             PROVE  OnbInv'
  OBVIOUS
<1>1. /\ u \in User /\ r \in Repo /\ f \in Flow \cup {None} /\ call[c] \in Request
      /\ f # None => flows[f].user = u
      /\ f # None => flows[f].repo \in {None, r} \/ IsBound(flows[f].repo)
  BY NoneIsNothing DEF OnbInv, RowsOK, Request, CallsOK, CallOK, Creating, Settled
<1>2. /\ w \in Workspace /\ ws' \in [Workspace -> WsRow]
      /\ ws'[w].owner = u /\ ws'[w].repo = r /\ ws'[w].boot = FirstBoot(c) /\ ~ws'[w].scoped
      /\ \A v \in Workspace : v # w => ws'[v] = ws[v]
      /\ \A v \in Workspace : ws[v].owner # None => ws'[v] = ws[v] /\ v # w
      /\ OneWorkspaceEach'
  <2>1. ASSUME NEW boot \in {"APPLYING", "PENDING"}, boot = FirstBoot(c)
        PROVE  /\ w \in Workspace /\ ws' \in [Workspace -> WsRow]
               /\ ws'[w].owner = u /\ ws'[w].repo = r /\ ws'[w].boot = boot /\ ~ws'[w].scoped
               /\ \A v \in Workspace : v # w => ws'[v] = ws[v]
               /\ \A v \in Workspace : ws[v].owner # None => ws'[v] = ws[v] /\ v # w
               /\ OneWorkspaceEach'
    BY <1>1, <2>1, RowBound DEF Binds
  <2>2. FirstBoot(c) \in {"APPLYING", "PENDING"}
    BY DEF FirstBoot
  <2> QED
    BY <2>1, <2>2
<1>3. /\ ws[w].owner = None /\ Owned(u) = {} /\ w \notin unverified
      /\ UNCHANGED <<linked, pending, created, origin, lost>>
      /\ grants' \subseteq User /\ unverified' \subseteq unverified \cup {w}
      /\ f = None => unverified' = unverified
  BY DEF Binds, CanBind, FreeWs, OnbInv, WsOK, RowsOK
<1>4. BoundNow(r) /\ \A q : IsBound(q) => BoundNow(q)
  BY <1>1, <1>2, NoneIsNothing DEF BoundNow, IsBound
<1>5. \A d \in Call :
        /\ call[d].flow # None => call[d].flow \in Flow
        /\ call[d].at \in Booting =>
             /\ call[d].ws \in Workspace \ {w} /\ call[d].ws \notin unverified
             /\ ws'[call[d].ws] = ws[call[d].ws]
  BY <1>2 DEF OnbInv, RowsOK, Request, CallsOK, CallOK
<1>6. WsOK(w)'
  BY <1>1, <1>2, <1>3, NoneIsNothing DEF WsOK, FirstBoot
<1>7. \A v \in Workspace :
        WsOK(v)' \/ (ws'[v] = ws[v] /\ (v \in unverified' => v \in unverified))
  BY <1>2, <1>3, <1>6
<1>8. CASE f = None
  <2>1. ASSUME NEW k, k = [call[c] EXCEPT !.at = "boot", !.ws = w] PROVE OnbInv'
    <3>1. UNCHANGED flows /\ call' = [call EXCEPT ![c] = k]
      BY <1>1, <1>8, <2>1 DEF Binds, NoteWorkspace, OnbInv, RowsOK
    <3>2. k \in Request /\ Is(k, "boot", u, None, r, w)
      <4>1. ASSUME NEW old \in Request, k = [old EXCEPT !.at = "boot", !.ws = w]
            PROVE  Is(k, "boot", old.user, old.flow, old.repo, w)
        BY <4>1 DEF Is, Request, Place
      <4> QED
        BY <1>1, <1>8, <2>1, <4>1 DEF Is
    <3>3. RowsOK'
      BY <1>2, <1>3, <3>1, <3>2 DEF OnbInv, RowsOK
    <3>4. Grows
      BY <1>2, <1>3, <3>1 DEF Grows
    <3>5. CallOK(k)'
      BY <1>1, <1>2, <1>3, <1>8, <3>2, NoneIsNothing DEF Is, CallOK, Creating, Booting, FirstBoot
    <3>6. ASSUME NEW d \in Call \ {c}
          PROVE  Apart(k, call[d]) /\ Apart(call[d], k) /\ Undisturbed(call[d])
      <4>1. Apart(k, call[d]) /\ Apart(call[d], k)
        BY <1>5, <3>2 DEF Is, Apart, Creating, Booting
      <4>2. Undisturbed(call[d])
        BY <1>3, <1>5, <1>8, <3>1 DEF Undisturbed
      <4> QED
        BY <4>1, <4>2
    <3>7. CallsOK'
      BY <3>1, <3>2, <3>4, <3>5, <3>6, OneCall
    <3>8. \A d \in Call : call[d].at = "bind" =>
            BoundNow(call[d].repo) \/ (call'[d].at = "bind" /\ call'[d].repo = call[d].repo)
      BY <1>4, <3>1 DEF OnbInv, RowsOK
    <3> QED
      BY <1>2, <1>3, <1>7, <3>1, <3>3, <3>4, <3>7, <3>8, GrowStep
  <2> QED
    BY <2>1
<1>9. CASE f # None
  <2>1. ASSUME NEW n, n = [flows[f] EXCEPT !.ws = w, !.repo = r,
                                          !.state = "AWAITING_REPOSITORY_RESTRICTION"]
        PROVE  OnbInv'
    <3>1. /\ flows' = updateFlow(f, n) /\ call' = [call EXCEPT ![c] = Idle]
          /\ f \in Flow /\ flows[f] \in FlowRow /\ flows[f].user = u
      BY <1>1, <1>9, <2>1 DEF Binds, NoteWorkspace, End, OnbInv, RowsOK
    <3>2. /\ n \in FlowRow /\ n.user = u /\ n.ws = w /\ n.repo = r
          /\ n.state = "AWAITING_REPOSITORY_RESTRICTION"
      <4>1. ASSUME NEW old \in FlowRow,
                   n = [old EXCEPT !.ws = w, !.repo = r,
                                   !.state = "AWAITING_REPOSITORY_RESTRICTION"]
            PROVE  /\ n \in FlowRow /\ n.user = old.user /\ n.ws = w /\ n.repo = r
                   /\ n.state = "AWAITING_REPOSITORY_RESTRICTION"
        BY <1>1, <4>1 DEF FlowRow, Active
      <4> QED
        BY <2>1, <3>1, <4>1
    <3>3. /\ flows' \in [Flow -> FlowRow]
          /\ \A g \in Flow : g # f => flows'[g] = flows[g]
          /\ flows'[f] = flows[f] \/ flows'[f] = n
      <4>1. flows' = flows \/ flows' = [flows EXCEPT ![f] = n]
        BY <3>1, UpdateIs
      <4> QED
        BY <3>1, <3>2, <4>1 DEF OnbInv, RowsOK
    <3>4. flows[f].ws = None
      <4>1. flows[f].ws # None =>
              flows[f].ws \in Workspace /\ ws[flows[f].ws].owner = u
        BY <3>1 DEF OnbInv, FlowOK, FlowRow
      <4> QED
        BY <1>3, <4>1 DEF Owned
    <3>5. RowsOK'
      <4>1. call' \in [Call -> Request]
        BY <3>1, IdleOK DEF OnbInv, RowsOK
      <4>2. unverified' \subseteq Workspace
        BY <1>3 DEF OnbInv, RowsOK
      <4> QED
        BY <1>2, <1>3, <3>3, <4>1, <4>2 DEF OnbInv, RowsOK
    <3>6. Grows
      BY <1>2, <1>3, <3>1, <3>2, <3>3, <3>4 DEF Grows
    <3>7. CallsOK'
      <4>1. \A d \in Call \ {c} : Undisturbed(call[d])
        BY <1>3, <1>4, <1>5, <3>2, <3>3 DEF Undisturbed
      <4>2. CallOK(Idle)' /\ Idle \in Request
        BY IdleIs DEF Is, CallOK, Creating, Booting
      <4>3. \A d \in Call \ {c} : Apart(Idle, call[d]) /\ Apart(call[d], Idle)
        BY IdleOK, QuietApart
      <4> QED
        BY <3>1, <3>6, <4>1, <4>2, <4>3, OneCall
    <3>8. \A d \in Call : call[d].at = "bind" =>
            BoundNow(call[d].repo) \/ (call'[d].at = "bind" /\ call'[d].repo = call[d].repo)
      BY <1>4, <3>1 DEF OnbInv, RowsOK
    <3>9. \A g \in Flow : flows[g].repo # None =>
            flows'[g].repo = flows[g].repo \/ BoundNow(flows[g].repo)
      BY <1>1, <1>4, <1>9, <3>2, <3>3
    <3>10. flows'[f] = flows[f] \/ FlowOK(f)'
      BY <1>1, <1>2, <3>2, <3>3, NoneIsNothing DEF FlowOK
    <3> QED
      BY <1>2, <1>3, <1>7, <3>3, <3>5, <3>6, <3>7, <3>8, <3>9, <3>10, GrowStep
  <2> QED
    BY <2>1
<1> QED
  BY <1>8, <1>9

LEMMA CreationsKeep ==
  ASSUME OnbInv, NEW c \in Call, createRepositoryAndBind(c) \/ importRepositoryAndBind(c)
  PROVE  OnbInv'
<1>1. ASSUME createRepositoryAndBind(c) PROVE OnbInv'
  <2>1. /\ call[c].at = "bind" /\ call[c].at \in Creating /\ call[c].repo \in Repo
        /\ UNCHANGED <<linked, pending, created, origin>>
    BY <1>1 DEF createRepositoryAndBind, Creating, OnbInv, RowsOK, Request, CallsOK, CallOK
  <2>2. CASE \E w \in Workspace : Binds(c, w)
    BY <2>1, <2>2, BindsKeep
  <2>3. CASE /\ NotePartial(c) /\ End(c)
             /\ lost' = IF GivenUp(call[c].flow) THEN lost \cup {call[c].repo} ELSE lost
             /\ UNCHANGED <<ws, grants, unverified>>
    <3>1. NoteFailure(c, "RECOVERY_REQUIRED", call[c].repo)
      BY <2>3 DEF NotePartial
    <3>2. /\ created \subseteq created' /\ created' \subseteq Repo
          /\ lost \subseteq lost' /\ lost' \subseteq Repo
          /\ origin' \in [Repo -> Flow \cup {None}]
          /\ \A q \in created : origin'[q] = origin[q]
          /\ created' \ lost' \subseteq created \ lost
          /\ GivenUp(call[c].flow) => call[c].repo \in lost'
      BY <2>1, <2>3 DEF OnbInv, RowsOK
    <3>3. ASSUME NEW r, r = call[c].repo PROVE OnbInv'
      BY <2>1, <2>3, <3>1, <3>2, <3>3, NoteKeeps
    <3> QED
      BY <3>3
  <2> QED
    BY <1>1, <2>1, <2>2, <2>3 DEF createRepositoryAndBind, Binds, FreeWs
<1>2. ASSUME importRepositoryAndBind(c) PROVE OnbInv'
  <2>1. call[c].at = "import" /\ UNCHANGED <<linked, pending, created, origin, lost>>
    BY <1>2 DEF importRepositoryAndBind
  <2>2. CASE \E w \in Workspace : Binds(c, w)
    BY <2>1, <2>2, BindsKeep
  <2>3. CASE End(c) /\ UNCHANGED <<flows, ws, grants, unverified>>
    <3>1. \A d \in Call \ {c} : Apart(Idle, call[d]) /\ Apart(call[d], Idle)
      BY IdleOK, QuietApart
    <3>2. linked' \subseteq User /\ grants' \subseteq User /\ pending' \subseteq State
      BY <2>1, <2>3 DEF OnbInv, RowsOK
    <3> QED
      BY <2>1, <2>3, <3>1, <3>2, IdleOK, AsksKeeps DEF End, ghostVars
  <2> QED
    BY <1>2, <2>1, <2>2, <2>3 DEF importRepositoryAndBind, Binds, FreeWs
<1> QED
  BY <1>1, <1>2

-----------------------------------------------------------------------------
(***************************************************************************)
(* Time, failure, and the specification.                                   *)
(***************************************************************************)
LEMMA RestartKeeps ==
  ASSUME OnbInv, Restart
  PROVE  OnbInv'
<1>1. /\ \A c \in Call : call'[c] = Idle
      /\ call' \in [Call -> Request] /\ pending' = {} /\ grants' = {}
      /\ UNCHANGED <<flows, ws, linked, created, origin, unverified>>
      /\ lost \subseteq lost'
      /\ \A c \in Call : call[c].at = "bind" => call[c].repo \in lost'
  BY IdleOK DEF Restart, dbVars
<1>2. lost' \subseteq Repo
  <2>1. \A c \in Call : call[c].at = "bind" => call[c].repo \in Repo
    BY DEF OnbInv, RowsOK, Request, CallsOK, CallOK
  <2> QED
    BY <2>1 DEF Restart, OnbInv, RowsOK
<1>3. RowsOK'
  BY <1>1, <1>2 DEF OnbInv, RowsOK
<1>4. CallsOK'
  <2>1. ASSUME NEW c \in Call PROVE CallOK(call[c])'
    <3>1. ASSUME NEW k, k = call'[c] PROVE CallOK(k)'
      BY <1>1, <3>1, IdleIs DEF Is, CallOK, Creating, Booting
    <3> QED
      BY <3>1 DEF CallOK
  <2>2. ASSUME NEW c \in Call, NEW d \in Call PROVE Apart(call[c], call[d])'
    <3>1. Apart(call'[c], call'[d])
      BY <1>1, IdleOK, QuietApart
    <3> QED
      BY <3>1 DEF Apart
  <2> QED
    BY <2>1, <2>2 DEF CallsOK
<1> QED
  BY <1>1, <1>3, <1>4, PlainStep

LEMMA ExpiresKeep ==
  ASSUME OnbInv, NEW f \in Flow, FlowExpires(f)
  PROVE  OnbInv'
<1> SUFFICES ASSUME NEW n, n = [flows[f] EXCEPT !.old = TRUE] PROVE OnbInv'
  OBVIOUS
<1>1. /\ n \in FlowRow /\ n.user = flows[f].user /\ n.ws = flows[f].ws
      /\ n.repo = flows[f].repo /\ n.state = flows[f].state
  <2>1. ASSUME NEW old \in FlowRow, n = [old EXCEPT !.old = TRUE]
        PROVE  /\ n \in FlowRow /\ n.user = old.user /\ n.ws = old.ws
               /\ n.repo = old.repo /\ n.state = old.state
    BY <2>1 DEF FlowRow
  <2> QED
    BY <2>1 DEF OnbInv, RowsOK
<1>2. /\ flows' \in [Flow -> FlowRow] /\ flows'[f] = n
      /\ \A g \in Flow : g # f => flows'[g] = flows[g]
      /\ UNCHANGED <<ws, linked, pending, grants, call, created, origin, lost, unverified>>
  BY <1>1 DEF FlowExpires, ghostVars, OnbInv, RowsOK
<1>3. RowsOK'
  BY <1>2 DEF OnbInv, RowsOK
<1>4. FlowOK(f)'
  <2>1. FlowOK(f)
    BY DEF OnbInv
  <2> QED
    BY <1>1, <1>2, <2>1 DEF FlowOK, Settled, IsBound
<1>5. Grows => CallsOK'
  <2>1. \A d \in Call : Undisturbed(call[d])
    <3>1. \A d \in Call : /\ call[d].flow # None => call[d].flow \in Flow
                          /\ call[d].at \in Booting => call[d].ws \notin unverified
      BY DEF OnbInv, RowsOK, Request, CallsOK, CallOK
    <3> QED
      BY <1>1, <1>2, <3>1 DEF Undisturbed
  <2> QED
    BY <1>2, <2>1, NoCall
<1> QED
  BY <1>1, <1>2, <1>3, <1>4, <1>5, PlainStep

LEMMA OnbStart == OnbInit => OnbInv
<1> SUFFICES ASSUME OnbInit PROVE OnbInv
  OBVIOUS
<1>1. NoFlow \in FlowRow /\ NoWs \in WsRow
  BY DEF NoFlow, NoWs, FlowRow, WsRow, BootState
<1>2. RowsOK
  BY <1>1, IdleOK DEF OnbInit, RowsOK
<1>3. OneWorkspaceEach /\ PendingOK /\ Remembered
  BY DEF OnbInit, OneWorkspaceEach, PendingOK, Remembered, NoWs
<1>4. CallsOK
  <2>1. \A c \in Call : call[c] = Idle
    BY DEF OnbInit
  <2> QED
    BY <2>1, IdleOK, QuietApart DEF CallsOK
<1>5. \A f \in Flow : FlowOK(f)
  BY DEF OnbInit, FlowOK, NoFlow, Settled
<1>6. \A w \in Workspace : WsOK(w)
  BY DEF OnbInit, WsOK, NoWs
<1> QED
  BY <1>2, <1>3, <1>4, <1>5, <1>6 DEF OnbInv

LEMMA OnbStep == OnbInv /\ [OnbNext]_onbVars => OnbInv'
<1> SUFFICES ASSUME OnbInv, [OnbNext]_onbVars PROVE OnbInv'
  OBVIOUS
<1>1. CASE UNCHANGED onbVars
  BY <1>1, AsksKeeps DEF onbVars, dbVars, ghostVars, OnbInv, RowsOK
<1>2. ASSUME NEW u \in User,
             \/ createInstallRedirect(u) \/ createAuthorizationRedirect(u)
             \/ \E f \in Flow : ResumeFlow(u, f) \/ CompleteFlow(u, f)
      PROVE  OnbInv'
  BY <1>2, RedirectsKeep, ResumesKeep, CompletesKeep
<1>3. ASSUME NEW u \in User, NEW c \in Call,
             \/ PostWorkspace(u, c)
             \/ \E w \in Workspace : RetryWorkspace(u, w, c)
             \/ \E f \in Flow : ContinueFlow(u, f, c) \/ getOrCreateActiveFlowInTx(u, f, c)
                             \/ PostRepositoryChoice(u, f, c) \/ StartVerification(u, f, c)
                             \/ RetryFlow(u, f, c)
      PROVE  OnbInv'
  BY <1>3, PostWorkspaceKeeps, RetriesKeep, PagesKeep, CreatesKeep, ChoicesKeep
<1>4. ASSUME NEW c \in Call,
             \/ resolveInstallationState(c) \/ SetupCallback(c) \/ RepositoryCallback(c)
             \/ PostRepository(c) \/ createRepositoryAndBind(c) \/ importRepositoryAndBind(c)
             \/ verifyRepositoryAccessAndBootstrap(c)
             \/ \E b \in {"READY", "RETRYABLE_FAILURE", "MANUAL_RECOVERY"} : BootstrapEnds(c, b)
             \/ \E s \in pending : ConsumeOAuthState(s, c) \/ ConsumeAuthorizationState(s, c)
      PROVE  OnbInv'
  BY <1>4, ResolvesKeep, CallbacksKeep, PostsKeep, CreationsKeep, VerifiesKeep, BootEndsKeep,
     ConsumesKeep
<1>5. ASSUME NEW s \in pending, startSetupOAuth(s) \/ cleanup(s) PROVE OnbInv'
  BY <1>5, RedirectsKeep
<1>6. CASE Restart
  BY <1>6, RestartKeeps
<1>7. ASSUME NEW f \in Flow, FlowExpires(f) PROVE OnbInv'
  BY <1>7, ExpiresKeep
<1> QED
  BY <1>1, <1>2, <1>3, <1>4, <1>5, <1>6, <1>7 DEF OnbNext

\* The tables, the requests in flight and what GitHub holds agree: a request
\* that waits for GitHub may go on with what it read before it asked
\* (onboarding/service.ts, github/repository-service.ts).
THEOREM OnboardingInvariant == OnbSpec => []OnbInv
<1> QED
  BY OnbStart, OnbStep, PTL DEF OnbSpec

\* No user gets two workspaces and no repository two, with any number of tabs
\* and of users (createWorkspaceWithRepositoryBinding).
THEOREM OneWorkspaceTheorem == OnbSpec => []OneWorkspaceEach
<1>1. OnbInv => OneWorkspaceEach
  BY DEF OnbInv
<1> QED
  BY <1>1, OnboardingInvariant, PTL

\* A repository that was created for a flow is named by the flow until it is
\* bound, unless nobody heard of its creation (GitHubPartialCreationError,
\* provisionWorkspace).
THEOREM PartialTheorem == OnbSpec => []PartialIsRemembered
<1>1. OnbInv => PartialIsRemembered
  BY BoundIs DEF OnbInv, Remembered, PartialIsRemembered
<1> QED
  BY <1>1, OnboardingInvariant, PTL

\* Restricted, then written, then READY, then resumed: on every path, and for
\* every number of pages open at once (verifyRepositoryAccessAndBootstrap, the
\* guards of the retries, GET /onboarding/complete).
THEOREM StepsTheorem == OnbSpec => []StepsInOrder
<1>1. OnbInv => OnbTypeOK
  BY RowsAreTypes DEF OnbInv
<1>2. OnbInv => RestrictedBeforeWritten
  BY DEF OnbInv, RowsOK, WsOK, RestrictedBeforeWritten
<1>3. OnbInv => ReadyFlowIsReady
  BY DEF OnbInv, FlowOK, ReadyFlowIsReady
<1> QED
  BY <1>1, <1>2, <1>3, OnboardingInvariant, PTL DEF StepsInOrder
=============================================================================
