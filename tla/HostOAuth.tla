----------------------------- MODULE HostOAuth ------------------------------
(***************************************************************************)
(* How a Host gets at /mcp: people sign in with GitHub (auth/github.ts,    *)
(* user-session.ts, resolveOrCreateExternalUser), a client registers or is *)
(* resolved (oauth/dcr, client-resolver.ts), asks for authorization, the   *)
(* user decides on the consent page (oauth/router.ts), and the client      *)
(* trades the code for tokens and the tokens for new ones                  *)
(* (oauth/service.ts, oauth/store.ts).  The codes and tokens are those of  *)
(* oauth.sqlite, which a server process and the one replacing it share:    *)
(* a refresh reads the token and the user first and rotates it in a later  *)
(* transaction.  Clients and browsers may repeat any request they ever     *)
(* sent.  Whether the user's workspace is ready changes at any moment      *)
(* (modules Onboarding and Bootstrap): each check of it is a free choice.  *)
(***************************************************************************)
EXTENDS Naturals, FiniteSets

CONSTANTS Person, User, Browser, Client, Request, Token, Process, None,
          DcrClient,   \* the clients that register dynamically
          MaxPages     \* consent pages rendered for one request

ASSUME HostOAuthAssumption ==
  /\ None \notin Person \cup User \cup Client \cup Request \cup Token
  /\ DcrClient \subseteq Client /\ MaxPages \in Nat

VARIABLES
  identity,    \* external_identities: the person a user is
  disabled,    \* the users with disabled_at set
  session,     \* UserSessionManager.sessions
  login,       \* the sign-in of a browser: pendingStates, then the callback
  clients,     \* dynamic_clients: the stored metadata
  req,         \* oauth_authorization_requests and oauth_authorization_codes
  page,        \* the consent page of a browser
  tok,         \* oauth_refresh_tokens
  reading,     \* the token a process has checked and is about to rotate
  killed       \* the families that were revoked (for the properties)

userVars  == <<identity, disabled>>
loginVars == <<session, login>>
tokenVars == <<tok, reading, killed>>
oauthVars == <<userVars, loginVars, clients, req, page, tokenVars>>

NoLogin  == [at |-> "none", person |-> None, next |-> None]
NoReq    == [st |-> "none", client |-> None, nonce |-> 0, user |-> None, code |-> "none"]
NoPage   == [at |-> "none", req |-> None, nonce |-> 0]
NoTok    == [st |-> "none", revoked |-> FALSE, family |-> None, req |-> None]

-----------------------------------------------------------------------------
(* Dynamic client registration.  Of a registration the fields count whose  *)
(* handling differs: absent, good and bad values, an unsupported field.    *)

Registration == [uris : {"good", "bad"}, grants : {"absent", "code", "other"},
                 scope : {"blank", "other"}, extra : {"none", "client_id"}]

normalizeGrantTypes(raw) == IF raw = "absent" THEN "code" ELSE raw
normalizeScope(raw) == IF raw = "blank" THEN "absent" ELSE raw

\* A registration that is refused, whatever is wrong with it.
Refused(m) ==
  m.extra # "none" \/ m.uris = "bad" \/ m.grants = "other" \/ m.scope = "other"

normalizeMetadata(m) ==
  [m EXCEPT !.grants = normalizeGrantTypes(m.grants),
            !.scope = normalizeScope(m.scope)]

\* What register stores.
StoredMetadata(m) == normalizeMetadata(m)

register(c, m) ==
  /\ c \in DcrClient /\ clients[c] = None /\ ~Refused(m)
  /\ clients' = [clients EXCEPT ![c] = StoredMetadata(m)]
  /\ UNCHANGED <<userVars, loginVars, req, page, tokenVars>>

\* What a stored row is read as: it passes the same checks again.
parseStoredMetadata(c) ==
  IF Refused(clients[c]) THEN None ELSE normalizeMetadata(clients[c])

\* A client document that cannot be fetched or fails a check is refused.
resolveClientMetadata(c) == BOOLEAN

\* Whether a client may be resolved, by the kind of its identifier.
Resolves(c) ==
  IF c \notin DcrClient THEN resolveClientMetadata(c)
  ELSE IF clients[c] = None THEN {FALSE} ELSE {parseStoredMetadata(c) # None}

-----------------------------------------------------------------------------
(* Signing in.                                                             *)

isUserActive(u) == identity[u] # None /\ u \notin disabled

UsersOf(p) == {u \in User : identity[u] = p}
FreshUsers == {u \in User : identity[u] = None}

\* GET /auth/github, with the request the browser comes from.  A sign-in that
\* comes from nowhere goes on like one whose request is unknown by then.
BeginLogin(b, q) ==
  /\ login[b] = NoLogin
  /\ login' = [login EXCEPT ![b] = [NoLogin EXCEPT !.at = "github", !.next = q]]
  /\ UNCHANGED <<userVars, session, clients, req, page, tokenVars>>

\* GET /auth/github/callback: the state is spent, and GitHub is asked who it is.
LoginCallback(b) ==
  /\ login[b].at = "github"
  /\ \/ login' = [login EXCEPT ![b] = NoLogin]
     \/ \E p \in Person : login' = [login EXCEPT ![b].at = "profile", ![b].person = p]
  /\ UNCHANGED <<userVars, session, clients, req, page, tokenVars>>

\* mutant
CreatesAlways(p) == FreshUsers

\* resolveOrCreateExternalUser: the users a sign-in may end as, in one
\* transaction; none when the account is disabled.
resolveOrCreateExternalUser(p) ==
  IF UsersOf(p) = {} THEN FreshUsers ELSE UsersOf(p) \ disabled

createSession(b, u) == session' = [session EXCEPT ![b] = u]

\* The rest of the callback: user, session, and back to where the browser came
\* from.
FinishLogin(b) ==
  LET l == login[b]
  IN  /\ l.at = "profile"
      /\ login' = [login EXCEPT ![b] = NoLogin]
      /\ IF resolveOrCreateExternalUser(l.person) = {}
           THEN UNCHANGED <<identity, session, page>>
           ELSE \E u \in resolveOrCreateExternalUser(l.person) :
                  /\ identity' = [identity EXCEPT ![u] = l.person]
                  /\ createSession(b, u)
                  /\ page' = [page EXCEPT ![b] = [NoPage EXCEPT !.at = "resume",
                                                                !.req = l.next]]
      /\ UNCHANGED <<disabled, clients, req, tokenVars>>

\* POST /api/user/session/logout, the expiry of a session, and GET session of a
\* disabled user.
destroySession(b) ==
  /\ session[b] # None
  /\ session' = [session EXCEPT ![b] = None]
  /\ UNCHANGED <<userVars, login, clients, req, page, tokenVars>>

-----------------------------------------------------------------------------
(* The authorization request and the consent page.                         *)

Open(q) == req[q].st = "open"

\* GET /authorize up to the stored request; initiateAuthorizationRequest waits
\* for the client first.
initiateAuthorizationRequest(b, c, q) ==
  /\ req[q] = NoReq /\ TRUE \in Resolves(c)
  /\ req' = [req EXCEPT ![q] = [NoReq EXCEPT !.st = "open", !.client = c]]
  /\ page' = [page EXCEPT ![b] = [NoPage EXCEPT !.at = "resume", !.req = q]]
  /\ UNCHANGED <<userVars, loginVars, clients, tokenVars>>

\* The rest of GET /authorize, and GET /authorize/resume: without a session to
\* the sign-in; otherwise the live scope is asked for.
ResumeAuthorization(b) ==
  LET q == page[b].req
  IN  /\ page[b].at = "resume"
      /\ IF session[b] = None
           THEN /\ page' = [page EXCEPT ![b] = NoPage]
                /\ login' = [login EXCEPT ![b] =
                     IF @ = NoLogin THEN [NoLogin EXCEPT !.at = "github", !.next = q] ELSE @]
           ELSE /\ \E at \in {"none", "verify"} : page' = [page EXCEPT ![b].at = at]
                /\ UNCHANGED login
      /\ UNCHANGED <<userVars, session, clients, req, tokenVars>>

\* setConsentNonceDigest: each rendering replaces the nonce of the one before.
createConsentNonce(q) == req' = [req EXCEPT ![q].nonce = @ + 1]

\* The scope was verified, or not, while anything else happened; the page is
\* rendered when the request is still undecided.
RenderConsent(b) ==
  LET q == page[b].req
  IN  /\ page[b].at = "verify"
      /\ \/ /\ Open(q) /\ req[q].nonce < MaxPages
            /\ createConsentNonce(q)
            /\ page' = [page EXCEPT ![b].at = "shown", ![b].nonce = req[q].nonce + 1]
         \/ page' = [page EXCEPT ![b] = NoPage] /\ UNCHANGED req
      /\ UNCHANGED <<userVars, loginVars, clients, tokenVars>>

\* mutant
AnyPageDecides(b) == page[b].nonce > 0

\* The page whose decision counts: the request is undecided and no page was
\* rendered for it since.
MayDecide(b) == Open(page[b].req) /\ req[page[b].req].nonce = page[b].nonce

\* approveConsent: the user is whoever is signed in by now.
approveConsent(b) ==
  LET u == session[b]
      q == page[b].req
  IN  /\ u # None /\ isUserActive(u) /\ MayDecide(b)
      /\ req' = [req EXCEPT ![q] = [@ EXCEPT !.st = "approved", !.user = u, !.code = "live"]]

denyConsent(b) ==
  /\ session[b] # None /\ MayDecide(b)
  /\ req' = [req EXCEPT ![page[b].req].st = "denied"]

\* POST /authorize/decision; the page stays in the browser and may be sent again.
PostDecision(b) ==
  /\ page[b].at = "shown"
  /\ approveConsent(b) \/ denyConsent(b)
  /\ UNCHANGED <<userVars, loginVars, clients, page, tokenVars>>

-----------------------------------------------------------------------------
(* The token endpoint.                                                     *)

Usable(t)   == tok[t].st = "live" /\ ~tok[t].revoked
FreshTokens == {t \in Token : tok[t] = NoTok}
Family(f)   == {t \in Token : tok[t].family = f}

\* The checks of consumeCodeAndIssueTokens; the redirect URI, the resource and
\* the code verifier belong to the client.
CodeIsGood(q, c) == req[q].code = "live" /\ req[q].client = c

exchangeAuthorizationCode(q, c) ==
  /\ CodeIsGood(q, c)
  /\ req' = [req EXCEPT ![q].code = "used"]
  /\ \E t \in FreshTokens :
       tok' = [tok EXCEPT ![t] = [NoTok EXCEPT !.st = "live", !.family = t, !.req = q]]
  /\ UNCHANGED <<userVars, loginVars, clients, page, reading, killed>>

revokeRefreshTokenFamily(f) ==
  /\ tok' = [t \in Token |-> [tok[t] EXCEPT !.revoked = @ \/ t \in Family(f)]]
  /\ killed' = killed \cup {f}

\* refreshTokens up to the rotation: a used token, or one of a user who may not
\* use it any more, costs the family.  hasWorkspaceAccess is checked with the user:
\* memberships are only ever added, so it holds of every token that was issued.
refreshTokens(a, t) ==
  LET r == tok[t]
  IN  /\ reading[a] = None
      /\ \/ /\ r.st = "used" \/ (Usable(t) /\ ~isUserActive(req[r.req].user))
            /\ revokeRefreshTokenFamily(r.family)
            /\ UNCHANGED reading
         \/ /\ Usable(t) /\ isUserActive(req[r.req].user)
            /\ reading' = [reading EXCEPT ![a] = t]
            /\ UNCHANGED <<tok, killed>>
      /\ UNCHANGED <<userVars, loginVars, clients, req, page>>

\* mutant
TrustsTheRead(t) == tok[t].st = "live"

\* The checks the rotation repeats in its transaction.
MayRotate(t) == Usable(t)

rotateRefreshTokenAndIssueTokens(a) ==
  LET t == reading[a]
  IN  /\ t # None
      /\ reading' = [reading EXCEPT ![a] = None]
      /\ IF MayRotate(t)
           THEN \E n \in FreshTokens :
                  tok' = [tok EXCEPT ![t].st = "used",
                                     ![n] = [NoTok EXCEPT !.st = "live", !.req = tok[t].req,
                                                          !.family = tok[t].family]]
           ELSE UNCHANGED tok
      /\ UNCHANGED <<userVars, loginVars, clients, req, page, killed>>

\* POST /token.
PostToken ==
  \/ \E q \in Request, c \in Client : exchangeAuthorizationCode(q, c)
  \/ \E a \in Process, t \in Token : refreshTokens(a, t)

-----------------------------------------------------------------------------
(* Time, operators and failure.                                            *)

\* A request, a code or a token expires.
Expire ==
  /\ \/ \E q \in Request : /\ Open(q) /\ req' = [req EXCEPT ![q].st = "expired"]
                           /\ UNCHANGED tok
     \/ \E q \in Request : /\ req[q].code = "live"
                           /\ req' = [req EXCEPT ![q].code = "expired"]
                           /\ UNCHANGED tok
     \/ \E t \in Token : /\ tok[t].st = "live" /\ tok' = [tok EXCEPT ![t].st = "expired"]
                         /\ UNCHANGED req
  /\ UNCHANGED <<userVars, loginVars, clients, page, reading, killed>>

\* An operator disables or enables a user.
SetDisabled(u) ==
  /\ identity[u] # None
  /\ disabled' = IF u \in disabled THEN disabled \ {u} ELSE disabled \cup {u}
  /\ UNCHANGED <<identity, loginVars, clients, req, page, tokenVars>>

Restart ==
  /\ session' = [b \in Browser |-> None]
  /\ login' = [b \in Browser |-> NoLogin]
  /\ reading' = [a \in Process |-> None]
  /\ UNCHANGED <<userVars, clients, req, page, tok, killed>>

OAuthInit ==
  /\ identity = [u \in User |-> None] /\ disabled = {}
  /\ session = [b \in Browser |-> None] /\ login = [b \in Browser |-> NoLogin]
  /\ clients = [c \in Client |-> None]
  /\ req = [q \in Request |-> NoReq] /\ page = [b \in Browser |-> NoPage]
  /\ tok = [t \in Token |-> NoTok] /\ reading = [a \in Process |-> None]
  /\ killed = {}

OAuthNext ==
  \/ \E c \in Client, m \in Registration : register(c, m)
  \/ \E b \in Browser :
       \/ \E q \in Request : BeginLogin(b, q)
       \/ LoginCallback(b) \/ FinishLogin(b) \/ destroySession(b)
       \/ \E c \in Client, q \in Request : initiateAuthorizationRequest(b, c, q)
       \/ ResumeAuthorization(b) \/ RenderConsent(b) \/ PostDecision(b)
  \/ PostToken
  \/ \E a \in Process : rotateRefreshTokenAndIssueTokens(a)
  \/ \E u \in User : SetDisabled(u)
  \/ Expire \/ Restart

OAuthSpec == OAuthInit /\ [][OAuthNext]_oauthVars

-----------------------------------------------------------------------------
(* Properties.                                                             *)

\* Every table and every in-memory map has its type: in particular a session is
\* a user's, never an external identity's (createSession).
OAuthTypeOK ==
  /\ identity \in [User -> Person \cup {None}]
  /\ disabled \subseteq User
  /\ session \in [Browser -> User \cup {None}]
  /\ login \in [Browser -> [at : {"none", "github", "profile"}, person : Person \cup {None},
                            next : Request \cup {None}]]
  /\ clients \in [Client -> [uris : {"good"}, grants : {"code"}, scope : {"absent"},
                             extra : {"none"}] \cup {None}]
  /\ req \in [Request -> [st : {"none", "open", "approved", "denied", "expired"},
                          client : Client \cup {None}, nonce : 0..MaxPages,
                          user : User \cup {None},
                          code : {"none", "live", "used", "expired"}]]
  /\ page \in [Browser -> [at : {"none", "resume", "verify", "shown"},
                           req : Request \cup {None}, nonce : 0..MaxPages]]
  /\ tok \in [Token -> [st : {"none", "live", "used", "expired"}, revoked : BOOLEAN,
                        family : Token \cup {None}, req : Request \cup {None}]]
  /\ reading \in [Process -> Token \cup {None}] /\ killed \subseteq Token

\* A person is one user, however many sign-ins of a first visit race
\* (resolveOrCreateExternalUser looks and inserts in one transaction).
OneUserPerPerson == \A p \in Person : Cardinality(UsersOf(p)) <= 1

\* What registers resolves: the stored metadata passes the checks of a fresh
\* registration when it is read back, and means the same (register,
\* parseStoredMetadata).
RegisteredResolves ==
  \A c \in DcrClient :
    clients[c] # None => parseStoredMetadata(c) = clients[c]

\* A decision is final: two pages for one request, in two browsers, never decide
\* it twice or after it expired, and what it was decided to stays, with the user
\* who decided (approveConsentAndIssueCode, denyConsent).
DecisionIsFinal ==
  [][\A q \in Request :
       req[q].st \in {"approved", "denied", "expired"} =>
         req'[q].st = req[q].st /\ req'[q].user = req[q].user]_oauthVars

\* One authorization is worth one line of tokens: whatever the client repeats,
\* a code opens at most one family, and a family never has two tokens that can
\* be used (consumeCodeAndIssueTokens, rotateRefreshTokenAndIssueTokens).
OneLineOfTokens ==
  \A s, t \in Token :
    s # t /\ Usable(s) /\ Usable(t) => tok[s].req # tok[t].req

\* A family that was revoked stays dead: no rotation that another process had
\* already checked, and no user who is enabled again, brings a usable token of
\* it back (revokeRefreshTokenFamily, rotateRefreshTokenAndIssueTokens).
RevokedStaysDead == \A t \in Token : tok[t].family \in killed => ~Usable(t)

\* What is looked up is what was stored: a person leads to one user, a client to
\* the metadata it registered.
LookupsResolve == OAuthTypeOK /\ OneUserPerPerson /\ RegisteredResolves

\* Of the tokens of one authorization at most one can be used, and none once the
\* family was revoked, whichever requests raced or were repeated.
TokensAreSound == OneLineOfTokens /\ RevokedStaysDead
=============================================================================
