-------------------------- MODULE HostOAuthProofs ---------------------------
(***************************************************************************)
(* What the sign-in, the consent page and the token endpoint promise for   *)
(* every number of people, browsers, clients, requests, tokens and server  *)
(* processes.                                                              *)
(***************************************************************************)
EXTENDS HostOAuth, FiniteSetTheorems, TLAPS

(***************************************************************************)
(* The rows, more exactly than OAuthTypeOK has them: a sign-in on its way  *)
(* knows where it came from and who came back, a page is about a request,  *)
(* a code is that of an approved request, a token has a request and a      *)
(* family.                                                                 *)
(***************************************************************************)
LoginRow == {NoLogin} \cup [at : {"github"}, person : {None}, next : Request]
                      \cup [at : {"profile"}, person : Person, next : Request]
PageRow  == [at : {"none"}, req : Request \cup {None}, nonce : 0..MaxPages]
              \cup [at : {"resume", "verify", "shown"}, req : Request, nonce : 0..MaxPages]
ReqRow   == [st : {"none", "open", "denied", "expired"}, client : Client \cup {None},
             nonce : 0..MaxPages, user : User \cup {None}, code : {"none"}]
              \cup [st : {"approved"}, client : Client \cup {None}, nonce : 0..MaxPages,
                    user : User \cup {None}, code : {"live", "used", "expired"}]
IssuedTok == [st : {"live", "used", "expired"}, revoked : BOOLEAN, family : Token,
              req : Request]

\* What registerDynamicClient leaves in a row.
StoredRow == [uris |-> "good", grants |-> "code", scope |-> "absent", extra |-> "none"]

UsersOK   == /\ identity \in [User -> Person \cup {None}]
             /\ disabled \subseteq User /\ session \in [Browser -> User \cup {None}]
LoginsOK  == login \in [Browser -> LoginRow]
PagesOK   == page \in [Browser -> PageRow]
ClientsOK == clients \in [Client -> {None, StoredRow}]
RequestsOK == req \in [Request -> ReqRow]
TokTypes  == /\ tok \in [Token -> IssuedTok \cup {NoTok}]
             /\ reading \in [Process -> Token \cup {None}] /\ killed \subseteq Token

\* A person's identity belongs to one user.
IdentityUnique ==
  \A u, v \in User : identity[u] = identity[v] /\ identity[u] # None => u = v

Issued(t) == tok[t].st # "none"

\* A token belongs to a code that was spent for it and to a family whose first
\* token exists.
RowsOK ==
  \A t \in Token : Issued(t) =>
    req[tok[t].req].code = "used" /\ Issued(tok[t].family)

\* At most one token of an authorization has not been rotated, revoked or not.
OneLive ==
  \A s, t \in Token :
    s # t /\ tok[s].st = "live" /\ tok[t].st = "live" => tok[s].req # tok[t].req

\* A revocation reached every token of the family, and no family is killed
\* before it exists.
KilledOK ==
  /\ \A f \in killed : Issued(f)
  /\ \A t \in Token : tok[t].family \in killed => tok[t].revoked

WhoInv   == UsersOK /\ IdentityUnique /\ LoginsOK /\ PagesOK /\ ClientsOK
TokenInv == RequestsOK /\ TokTypes /\ RowsOK /\ OneLive /\ KilledOK
OAuthInv == WhoInv /\ TokenInv

-----------------------------------------------------------------------------
(***************************************************************************)
(* What the handlers write is again a row.                                 *)
(***************************************************************************)
LEMMA FirstRows ==
  /\ NoLogin \in LoginRow
  /\ NoPage \in PageRow
  /\ NoReq \in ReqRow
  BY HostOAuthAssumption DEF NoLogin, LoginRow, NoPage, PageRow, NoReq, ReqRow

LEMMA LoginWritten ==
  ASSUME NEW q \in Request
  PROVE  [NoLogin EXCEPT !.at = "github", !.next = q] \in LoginRow
  BY DEF NoLogin, LoginRow

LEMMA LoginReturned ==
  ASSUME NEW l \in LoginRow, l.at = "github", NEW p \in Person
  PROVE  [l EXCEPT !.at = "profile", !.person = p] \in LoginRow
<1>1. l \in [at : {"github"}, person : {None}, next : Request]
  BY DEF NoLogin, LoginRow
<1>2. [l EXCEPT !.at = "profile", !.person = p]
        \in [at : {"profile"}, person : Person, next : Request]
  BY <1>1
<1> QED
  BY <1>2 DEF LoginRow

LEMMA LoginRead ==
  ASSUME NEW l \in LoginRow, l.at = "profile"
  PROVE  l.person \in Person /\ l.next \in Request
  BY DEF NoLogin, LoginRow

LEMMA PageWritten ==
  ASSUME NEW q \in Request
  PROVE  [NoPage EXCEPT !.at = "resume", !.req = q] \in PageRow
<1>1. 0 \in 0..MaxPages
  BY HostOAuthAssumption
<1>2. [NoPage EXCEPT !.at = "resume", !.req = q]
        \in [at : {"resume"}, req : Request, nonce : {0}]
  BY DEF NoPage
<1> QED
  BY <1>1, <1>2 DEF PageRow

LEMMA PageMoves ==
  ASSUME NEW g \in PageRow, g.at # "none", NEW at \in {"none", "verify"}
  PROVE  g.req \in Request /\ [g EXCEPT !.at = at] \in PageRow
  BY DEF PageRow

LEMMA PageShown ==
  ASSUME NEW g \in PageRow, g.at # "none", NEW n \in 0..MaxPages
  PROVE  [g EXCEPT !.at = "shown", !.nonce = n] \in PageRow
  BY DEF PageRow

LEMMA StoredIsNormal ==
  ASSUME NEW m \in Registration, ~Refused(m)
  PROVE  StoredMetadata(m) = StoredRow
<1>1. /\ m.uris = "good" /\ m.extra = "none"
      /\ m.grants \in {"absent", "code"} /\ m.scope = "blank"
  BY DEF Refused, Registration
<1>2. /\ normalizeGrantTypes(m.grants) = "code"
      /\ normalizeScope(m.scope) = "absent"
  BY <1>1 DEF normalizeGrantTypes, normalizeScope
<1> DEFINE r == StoredMetadata(m)
<1>3. r \in [uris : {"good"}, grants : {"code"}, scope : {"absent"}, extra : {"none"}]
  BY <1>1, <1>2 DEF StoredMetadata, normalizeMetadata, Registration
<1> HIDE DEF r
<1>4. r = StoredRow
  BY <1>3 DEF StoredRow
<1> QED
  BY <1>4 DEF r

LEMMA InitInv == OAuthInit => OAuthInv
<1> SUFFICES ASSUME OAuthInit PROVE OAuthInv
  OBVIOUS
<1>1. WhoInv
  BY FirstRows DEF OAuthInit, WhoInv, UsersOK, LoginsOK, PagesOK, ClientsOK, IdentityUnique
<1>2. TokenInv
  BY FirstRows, HostOAuthAssumption
     DEF OAuthInit, TokenInv, RequestsOK, TokTypes, RowsOK, OneLive, KilledOK, Issued, NoTok
<1> QED
  BY <1>1, <1>2 DEF OAuthInv

-----------------------------------------------------------------------------
(***************************************************************************)
(* Signing in and registering: everything but requests and tokens.         *)
(***************************************************************************)
LEMMA TokensUntouched ==
  ASSUME TokenInv, UNCHANGED <<req, tok, killed>>,
         reading' \in [Process -> Token \cup {None}]
  PROVE  TokenInv'
  BY DEF TokenInv, RequestsOK, TokTypes, RowsOK, OneLive, KilledOK, Issued

LEMMA RegisterKeeps ==
  ASSUME OAuthInv, NEW c \in Client, NEW m \in Registration, register(c, m)
  PROVE  OAuthInv'
<1>1. UNCHANGED <<identity, disabled, session, login, req, page, tok, reading, killed>>
  BY DEF register, userVars, loginVars, tokenVars
<1>2. ClientsOK'
  BY StoredIsNormal DEF register, ClientsOK, OAuthInv, WhoInv
<1> QED
  BY <1>1, <1>2, TokensUntouched
     DEF OAuthInv, WhoInv, UsersOK, IdentityUnique, LoginsOK, PagesOK, TokenInv, TokTypes

LEMMA BeginLoginKeeps ==
  ASSUME OAuthInv, NEW b \in Browser, NEW q \in Request, BeginLogin(b, q)
  PROVE  OAuthInv'
<1>1. UNCHANGED <<identity, disabled, session, clients, req, page, tok, reading, killed>>
  BY DEF BeginLogin, userVars, tokenVars
<1>2. LoginsOK'
  BY LoginWritten DEF BeginLogin, LoginsOK, OAuthInv, WhoInv
<1> QED
  BY <1>1, <1>2, TokensUntouched
     DEF OAuthInv, WhoInv, UsersOK, IdentityUnique, PagesOK, ClientsOK, TokenInv, TokTypes

LEMMA LoginCallbackKeeps ==
  ASSUME OAuthInv, NEW b \in Browser, LoginCallback(b)
  PROVE  OAuthInv'
<1>1. UNCHANGED <<identity, disabled, session, clients, req, page, tok, reading, killed>>
  BY DEF LoginCallback, userVars, tokenVars
<1>2. login[b] \in LoginRow /\ login[b].at = "github"
  BY DEF LoginCallback, LoginsOK, OAuthInv, WhoInv
<1>3. ASSUME NEW p \in Person,
             login' = [login EXCEPT ![b].at = "profile", ![b].person = p]
      PROVE  LoginsOK'
  <2>1. login' = [login EXCEPT ![b] = [@ EXCEPT !.at = "profile", !.person = p]]
    BY <1>3 DEF LoginsOK, OAuthInv, WhoInv
  <2> QED
    BY <1>2, <2>1, LoginReturned DEF LoginsOK, OAuthInv, WhoInv
<1>4. ASSUME login' = [login EXCEPT ![b] = NoLogin]
      PROVE  LoginsOK'
  BY <1>4, FirstRows DEF LoginsOK, OAuthInv, WhoInv
<1>5. LoginsOK'
  BY <1>3, <1>4 DEF LoginCallback
<1> QED
  BY <1>1, <1>5, TokensUntouched
     DEF OAuthInv, WhoInv, UsersOK, IdentityUnique, PagesOK, ClientsOK, TokenInv, TokTypes

\* The user a sign-in ends as is the person's only user afterwards.
LEMMA FinishLoginKeeps ==
  ASSUME OAuthInv, NEW b \in Browser, FinishLogin(b)
  PROVE  OAuthInv'
<1> DEFINE p == login[b].person
<1>1. /\ UNCHANGED <<disabled, clients, req, tok, reading, killed>>
      /\ login' = [login EXCEPT ![b] = NoLogin]
  BY DEF FinishLogin, tokenVars
<1>2. p \in Person /\ login[b].next \in Request
  BY LoginRead DEF FinishLogin, OAuthInv, WhoInv, LoginsOK
<1>3. LoginsOK'
  BY <1>1, FirstRows DEF LoginsOK, OAuthInv, WhoInv
<1>4. TokenInv'
  BY <1>1, TokensUntouched DEF OAuthInv, TokenInv, TokTypes
<1>5. CASE UNCHANGED <<identity, session, page>>
  BY <1>1, <1>3, <1>4, <1>5
     DEF OAuthInv, WhoInv, UsersOK, IdentityUnique, PagesOK, ClientsOK
<1>6. ASSUME NEW u \in resolveOrCreateExternalUser(p),
             identity' = [identity EXCEPT ![u] = p], createSession(b, u),
             page' = [page EXCEPT ![b] = [NoPage EXCEPT !.at = "resume",
                                                        !.req = login[b].next]]
      PROVE  OAuthInv'
  <2>1. u \in User
    BY DEF resolveOrCreateExternalUser, UsersOf, FreshUsers
  <2>2. ASSUME NEW v \in User, identity[v] = p
        PROVE  v = u
    <3>1. v \in UsersOf(p)
      BY <2>2 DEF UsersOf
    <3>2. identity[u] = p
      BY <3>1 DEF resolveOrCreateExternalUser, UsersOf
    <3> QED
      BY <1>2, <2>1, <2>2, <3>2, HostOAuthAssumption DEF OAuthInv, WhoInv, IdentityUnique
  <2>3. UsersOK'
    BY <1>1, <1>2, <1>6, <2>1 DEF createSession, UsersOK, OAuthInv, WhoInv
  <2>4. PagesOK'
    BY <1>2, <1>6, PageWritten DEF PagesOK, OAuthInv, WhoInv
  <2>5. IdentityUnique'
    BY <1>6, <2>1, <2>2 DEF OAuthInv, WhoInv, UsersOK, IdentityUnique
  <2> QED
    BY <1>1, <1>3, <1>4, <2>3, <2>4, <2>5 DEF OAuthInv, WhoInv, ClientsOK
<1> QED
  BY <1>5, <1>6 DEF FinishLogin

LEMMA DestroySessionKeeps ==
  ASSUME OAuthInv, NEW b \in Browser, destroySession(b)
  PROVE  OAuthInv'
<1>1. /\ UNCHANGED <<identity, disabled, login, clients, req, page, tok, reading, killed>>
      /\ session' = [session EXCEPT ![b] = None]
  BY DEF destroySession, userVars, tokenVars
<1> QED
  BY <1>1, TokensUntouched DEF OAuthInv, WhoInv, UsersOK, IdentityUnique, LoginsOK, PagesOK,
     ClientsOK, TokenInv, TokTypes

LEMMA SetDisabledKeeps ==
  ASSUME OAuthInv, NEW u \in User, SetDisabled(u)
  PROVE  OAuthInv'
<1>1. /\ UNCHANGED <<identity, session, login, clients, req, page, tok, reading, killed>>
      /\ disabled' \subseteq User
  BY DEF SetDisabled, loginVars, tokenVars, OAuthInv, WhoInv, UsersOK
<1> QED
  BY <1>1, TokensUntouched DEF OAuthInv, WhoInv, UsersOK, IdentityUnique, LoginsOK, PagesOK,
     ClientsOK, TokenInv, TokTypes

LEMMA RestartKeeps ==
  ASSUME OAuthInv, Restart
  PROVE  OAuthInv'
<1>1. UNCHANGED <<identity, disabled, clients, req, page, tok, killed>>
  BY DEF Restart, userVars
<1>2. /\ session' \in [Browser -> User \cup {None}]
      /\ reading' \in [Process -> Token \cup {None}] /\ LoginsOK'
  BY FirstRows DEF Restart, LoginsOK
<1> QED
  BY <1>1, <1>2, TokensUntouched DEF OAuthInv, WhoInv, UsersOK, IdentityUnique, PagesOK,
     ClientsOK

-----------------------------------------------------------------------------
(***************************************************************************)
(* The request and the consent page.                                       *)
(***************************************************************************)
\* A step that leaves the tokens alone, and every code that was spent spent.
LEMMA SpentStaysSpent ==
  ASSUME TokenInv, UNCHANGED <<tok, reading, killed>>, RequestsOK',
         \A q \in Request : req[q].code = "used" => req'[q].code = "used"
  PROVE  TokenInv'
<1>1. \A t \in Token : Issued(t) => tok[t].req \in Request
  BY DEF TokenInv, TokTypes, Issued, IssuedTok, NoTok
<1>2. RowsOK'
  BY <1>1 DEF TokenInv, RowsOK, Issued
<1> QED
  BY <1>2 DEF TokenInv, TokTypes, OneLive, KilledOK, Issued

LEMMA InitiateKeeps ==
  ASSUME OAuthInv, NEW b \in Browser, NEW c \in Client, NEW q \in Request,
         initiateAuthorizationRequest(b, c, q)
  PROVE  OAuthInv'
<1> DEFINE row == [NoReq EXCEPT !.st = "open", !.client = c]
<1>1. UNCHANGED <<identity, disabled, session, login, clients, tok, reading, killed>>
  BY DEF initiateAuthorizationRequest, userVars, loginVars, tokenVars
<1>2. row \in ReqRow /\ req[q].code = "none"
  <2>1. 0 \in 0..MaxPages
    BY HostOAuthAssumption
  <2>2. row \in [st : {"open"}, client : Client, nonce : {0}, user : {None}, code : {"none"}]
    BY DEF NoReq
  <2>3. row \in ReqRow
    BY <2>1, <2>2 DEF ReqRow
  <2> QED
    BY <2>3 DEF initiateAuthorizationRequest, NoReq
<1> HIDE DEF row
<1>3. req' = [req EXCEPT ![q] = row]
  BY DEF initiateAuthorizationRequest, row
<1>4. RequestsOK' /\ \A x \in Request : req[x].code = "used" => req'[x].code = "used"
  BY <1>2, <1>3 DEF OAuthInv, TokenInv, RequestsOK
<1>5. PagesOK'
  BY PageWritten DEF initiateAuthorizationRequest, PagesOK, OAuthInv, WhoInv
<1> QED
  BY <1>1, <1>4, <1>5, SpentStaysSpent
     DEF OAuthInv, WhoInv, UsersOK, IdentityUnique, LoginsOK, ClientsOK

LEMMA ResumeKeeps ==
  ASSUME OAuthInv, NEW b \in Browser, ResumeAuthorization(b)
  PROVE  OAuthInv'
<1> DEFINE q == page[b].req
<1>1. UNCHANGED <<identity, disabled, session, clients, req, tok, reading, killed>>
  BY DEF ResumeAuthorization, userVars, tokenVars
<1>2. page[b] \in PageRow /\ page[b].at # "none" /\ q \in Request
  BY PageMoves DEF ResumeAuthorization, PagesOK, OAuthInv, WhoInv
<1>3. LoginsOK'
  <2>1. CASE UNCHANGED login
    BY <2>1 DEF LoginsOK, OAuthInv, WhoInv
  <2>2. CASE login' = [login EXCEPT ![b] = [NoLogin EXCEPT !.at = "github", !.next = q]]
    BY <1>2, <2>2, LoginWritten DEF LoginsOK, OAuthInv, WhoInv
  <2>3. CASE login' = [login EXCEPT ![b] = login[b]]
    BY <2>3 DEF LoginsOK, OAuthInv, WhoInv
  <2> QED
    BY <2>1, <2>2, <2>3 DEF ResumeAuthorization
<1>4. PagesOK'
  <2>1. CASE page' = [page EXCEPT ![b] = NoPage]
    BY <2>1, FirstRows DEF PagesOK, OAuthInv, WhoInv
  <2>2. ASSUME NEW at \in {"none", "verify"}, page' = [page EXCEPT ![b].at = at]
        PROVE  PagesOK'
    BY <1>2, <2>2, PageMoves DEF PagesOK, OAuthInv, WhoInv
  <2> QED
    BY <2>1, <2>2 DEF ResumeAuthorization
<1> QED
  BY <1>1, <1>3, <1>4, TokensUntouched
     DEF OAuthInv, WhoInv, UsersOK, IdentityUnique, ClientsOK, TokenInv, TokTypes

LEMMA RenderKeeps ==
  ASSUME OAuthInv, NEW b \in Browser, RenderConsent(b)
  PROVE  OAuthInv'
<1> DEFINE q == page[b].req
<1>1. UNCHANGED <<identity, disabled, session, login, clients, tok, reading, killed>>
  BY DEF RenderConsent, userVars, loginVars, tokenVars
<1>2. page[b] \in PageRow /\ page[b].at # "none" /\ q \in Request
  BY PageMoves DEF RenderConsent, PagesOK, OAuthInv, WhoInv
<1>3. CASE page' = [page EXCEPT ![b] = NoPage] /\ UNCHANGED req
  <2>1. PagesOK'
    BY <1>3, FirstRows DEF PagesOK, OAuthInv, WhoInv
  <2> QED
    BY <1>1, <1>3, <2>1, TokensUntouched DEF OAuthInv, WhoInv, UsersOK, IdentityUnique,
       LoginsOK, ClientsOK, TokenInv, TokTypes
<1>4. CASE /\ req[q].nonce < MaxPages /\ createConsentNonce(q)
           /\ page' = [page EXCEPT ![b].at = "shown", ![b].nonce = req[q].nonce + 1]
  <2> DEFINE n == req[q].nonce + 1
             row == [req[q] EXCEPT !.nonce = n]
  <2>1. req[q] \in ReqRow
    BY <1>2 DEF OAuthInv, TokenInv, RequestsOK
  <2>2. n \in 0..MaxPages
    <3>1. req[q].nonce \in 0..MaxPages
      BY <2>1 DEF ReqRow
    <3> QED
      BY <1>4, <3>1, HostOAuthAssumption
  <2>3. req' = [req EXCEPT ![q] = row]
    BY <1>4 DEF createConsentNonce
  <2>4. page' = [page EXCEPT ![b] = [@ EXCEPT !.at = "shown", !.nonce = n]]
    BY <1>4 DEF PagesOK, OAuthInv, WhoInv
  <2> HIDE DEF n
  <2>5. row \in ReqRow /\ row.code = req[q].code
    BY <2>1, <2>2 DEF ReqRow
  <2> HIDE DEF row
  <2>6. RequestsOK' /\ \A x \in Request : req[x].code = "used" => req'[x].code = "used"
    BY <1>2, <2>3, <2>5 DEF OAuthInv, TokenInv, RequestsOK
  <2>7. PagesOK'
    BY <1>2, <2>2, <2>4, PageShown DEF PagesOK, OAuthInv, WhoInv
  <2> QED
    BY <1>1, <2>6, <2>7, SpentStaysSpent
       DEF OAuthInv, WhoInv, UsersOK, IdentityUnique, LoginsOK, ClientsOK
<1> QED
  BY <1>3, <1>4 DEF RenderConsent

\* Only an undecided request is decided, and it has no code to lose.
LEMMA DecisionKeeps ==
  ASSUME OAuthInv, NEW b \in Browser, PostDecision(b)
  PROVE  OAuthInv'
<1> DEFINE q == page[b].req
<1>1. UNCHANGED <<identity, disabled, session, login, clients, page, tok, reading, killed>>
  BY DEF PostDecision, userVars, loginVars, tokenVars
<1>2. page[b] \in PageRow /\ page[b].at # "none" /\ q \in Request
  BY PageMoves DEF PostDecision, PagesOK, OAuthInv, WhoInv
<1>3. req[q] \in ReqRow /\ req[q].st = "open"
  BY <1>2 DEF PostDecision, approveConsent, denyConsent, MayDecide, Open, OAuthInv, TokenInv,
     RequestsOK
<1>4. req[q].code # "used"
  BY <1>3 DEF ReqRow
<1>5. ASSUME NEW row \in ReqRow, req' = [req EXCEPT ![q] = row]
      PROVE  OAuthInv'
  <2>1. RequestsOK' /\ \A x \in Request : req[x].code = "used" => req'[x].code = "used"
    BY <1>2, <1>4, <1>5 DEF OAuthInv, TokenInv, RequestsOK
  <2> QED
    BY <1>1, <2>1, SpentStaysSpent
       DEF OAuthInv, WhoInv, UsersOK, IdentityUnique, LoginsOK, PagesOK, ClientsOK
<1>6. CASE approveConsent(b)
  <2> DEFINE row == [req[q] EXCEPT !.st = "approved", !.user = session[b], !.code = "live"]
  <2>1. session[b] \in User
    BY <1>6 DEF approveConsent, OAuthInv, WhoInv, UsersOK
  <2>2. row \in ReqRow
    BY <1>3, <2>1 DEF ReqRow
  <2> QED
    BY <1>5, <1>6, <2>2 DEF approveConsent
<1>7. CASE denyConsent(b)
  <2> DEFINE row == [req[q] EXCEPT !.st = "denied"]
  <2>1. row \in ReqRow
    BY <1>3 DEF ReqRow
  <2> QED
    BY <1>5, <1>7, <2>1 DEF denyConsent
<1> QED
  BY <1>6, <1>7 DEF PostDecision

-----------------------------------------------------------------------------
(***************************************************************************)
(* The token endpoint.                                                     *)
(***************************************************************************)
LEMMA TokRows ==
  ASSUME TokTypes, NEW t \in Token
  PROVE  /\ Issued(t) => /\ tok[t] \in IssuedTok /\ tok[t].req \in Request
                         /\ tok[t].family \in Token
         /\ ~Issued(t) => tok[t] = NoTok
  BY DEF TokTypes, Issued, IssuedTok, NoTok

LEMMA TokWritten ==
  ASSUME NEW f \in Token, NEW q \in Request, NEW n,
         n \in [st : {"live"}, revoked : {FALSE}, family : {f}, req : {q}]
  PROVE  /\ n \in IssuedTok /\ n.st = "live" /\ ~n.revoked
         /\ n.family = f /\ n.req = q
  BY DEF IssuedTok

LEMMA WhoUntouched ==
  ASSUME WhoInv, UNCHANGED <<userVars, loginVars, clients, page>>
  PROVE  WhoInv'
  BY DEF WhoInv, UsersOK, IdentityUnique, LoginsOK, PagesOK, ClientsOK, userVars, loginVars

\* The code is spent with the first token of a family that is new.
LEMMA ExchangeKeeps ==
  ASSUME OAuthInv, NEW q \in Request, NEW c \in Client, exchangeAuthorizationCode(q, c)
  PROVE  OAuthInv'
<1>1. PICK t \in FreshTokens :
        tok' = [tok EXCEPT ![t] = [NoTok EXCEPT !.st = "live", !.family = t, !.req = q]]
  BY DEF exchangeAuthorizationCode
<1> DEFINE n   == [NoTok EXCEPT !.st = "live", !.family = t, !.req = q]
           row == [req[q] EXCEPT !.code = "used"]
<1>2. t \in Token /\ tok[t] = NoTok /\ ~Issued(t)
  BY DEF FreshTokens, Issued, NoTok
<1>3. n \in IssuedTok /\ n.st = "live" /\ n.family = t /\ n.req = q
  <2>1. n \in [st : {"live"}, revoked : {FALSE}, family : {t}, req : {q}]
    BY DEF NoTok
  <2> HIDE DEF n
  <2> QED
    BY <1>2, <2>1, TokWritten
<1>4. req[q] \in ReqRow /\ req[q].code = "live"
  BY DEF exchangeAuthorizationCode, CodeIsGood, OAuthInv, TokenInv, RequestsOK
<1>5. row \in ReqRow /\ row.code = "used"
  BY <1>4 DEF ReqRow
<1>6. /\ req' = [req EXCEPT ![q] = row] /\ tok' = [tok EXCEPT ![t] = n]
      /\ UNCHANGED <<userVars, loginVars, clients, page, reading, killed>>
  BY <1>1 DEF exchangeAuthorizationCode
<1> HIDE DEF n, row
<1>7. /\ RequestsOK' /\ TokTypes' /\ req'[q].code = "used" /\ tok'[t] = n
      /\ \A x \in Request : req[x].code = "used" => req'[x].code = "used"
      /\ \A x \in Token \ {t} : tok'[x] = tok[x]
  BY <1>2, <1>3, <1>5, <1>6 DEF OAuthInv, TokenInv, RequestsOK, TokTypes
<1>8. \A x \in Token : Issued(x) =>
        /\ x # t /\ tok[x].req \in Request /\ tok[x].req # q /\ tok[x].family \in Token
        /\ tok[x].family # t
  BY <1>2, <1>4, TokRows DEF OAuthInv, TokenInv, RowsOK
<1>9. \A x \in Token \ {t} : Issued(x)' <=> Issued(x)
  BY <1>7 DEF Issued
<1>10. RowsOK'
  BY <1>2, <1>3, <1>7, <1>8, <1>9 DEF OAuthInv, TokenInv, RowsOK, Issued
<1>11. OneLive'
  BY <1>2, <1>3, <1>7, <1>8 DEF OAuthInv, TokenInv, OneLive, Issued
<1>12. t \notin killed
  BY <1>2 DEF OAuthInv, TokenInv, KilledOK
<1>13. KilledOK'
  BY <1>3, <1>6, <1>7, <1>12 DEF OAuthInv, TokenInv, TokTypes, KilledOK, Issued
<1> QED
  BY <1>6, <1>7, <1>10, <1>11, <1>13, WhoUntouched DEF OAuthInv, TokenInv

LEMMA RevokeKeeps ==
  ASSUME OAuthInv, NEW f \in Token, Issued(f), revokeRefreshTokenFamily(f),
         UNCHANGED <<userVars, loginVars, clients, req, page, reading>>
  PROVE  OAuthInv'
<1>1. \A t \in Token :
        tok'[t] = [tok[t] EXCEPT !.revoked = tok[t].revoked \/ t \in Family(f)]
  BY DEF revokeRefreshTokenFamily
<1>2. ASSUME NEW t \in Token, Issued(t)
      PROVE  /\ tok'[t] \in IssuedTok /\ tok'[t].st = tok[t].st
             /\ tok'[t].family = tok[t].family /\ tok'[t].req = tok[t].req
             /\ tok'[t].revoked <=> (tok[t].revoked \/ t \in Family(f))
  <2> DEFINE v == tok[t].revoked \/ t \in Family(f)
  <2>1. tok[t] \in IssuedTok
    BY <1>2, TokRows DEF OAuthInv, TokenInv
  <2>2. v \in BOOLEAN /\ tok'[t] = [tok[t] EXCEPT !.revoked = v]
    BY <1>1
  <2> HIDE DEF v
  <2>3. /\ tok'[t] \in IssuedTok /\ tok'[t].st = tok[t].st /\ tok'[t].revoked = v
        /\ tok'[t].family = tok[t].family /\ tok'[t].req = tok[t].req
    BY <2>1, <2>2 DEF IssuedTok
  <2> QED
    BY <2>3 DEF v
<1>3. ASSUME NEW t \in Token, ~Issued(t)
      PROVE  tok'[t] = NoTok /\ tok[t] = NoTok
  <2>1. tok[t] = NoTok
    BY <1>3, TokRows DEF OAuthInv, TokenInv
  <2>2. t \notin Family(f)
    BY <2>1, HostOAuthAssumption DEF Family, NoTok
  <2> DEFINE v == tok[t].revoked \/ t \in Family(f)
             r == tok'[t]
  <2>3. v = FALSE /\ r = [tok[t] EXCEPT !.revoked = v]
    BY <1>1, <2>1, <2>2 DEF NoTok
  <2> HIDE DEF v
  <2>4. r \in [st : {"none"}, revoked : {FALSE}, family : {None}, req : {None}]
    <3>1. NoTok \in [st : {"none"}, revoked : {FALSE}, family : {None}, req : {None}]
      BY DEF NoTok
    <3> QED
      BY <2>1, <2>3, <3>1
  <2> HIDE DEF r
  <2>5. r = NoTok
    BY <2>4 DEF NoTok
  <2> QED
    BY <2>1, <2>5 DEF r
<1>4. \A t \in Token : Issued(t)' <=> Issued(t)
  BY <1>2, <1>3 DEF Issued, NoTok
<1>5. tok' \in [Token -> IssuedTok \cup {NoTok}] /\ killed' = killed \cup {f}
  <2>1. DOMAIN tok' = Token /\ tok' = [t \in Token |-> tok'[t]]
    BY DEF revokeRefreshTokenFamily
  <2>2. \A t \in Token : tok'[t] \in IssuedTok \cup {NoTok}
    BY <1>2, <1>3
  <2> QED
    BY <2>1, <2>2 DEF revokeRefreshTokenFamily
<1>6. RequestsOK' /\ TokTypes'
  BY <1>5 DEF OAuthInv, TokenInv, RequestsOK, TokTypes
<1>7. \A t \in Token : tok'[t].st = tok[t].st /\ tok'[t].req = tok[t].req
                         /\ tok'[t].family = tok[t].family
  BY <1>2, <1>3
<1>8. RowsOK' /\ OneLive'
  BY <1>4, <1>7, TokRows DEF OAuthInv, TokenInv, RowsOK, OneLive
<1>9. ASSUME NEW t \in Token, tok'[t].family \in killed'
      PROVE  tok'[t].revoked
  <2>1. Issued(t)
    BY <1>5, <1>3, <1>9, HostOAuthAssumption DEF NoTok, OAuthInv, TokenInv, TokTypes
  <2>2. tok[t].family \in killed \/ t \in Family(f)
    BY <1>5, <1>7, <1>9 DEF Family
  <2> QED
    BY <1>2, <2>1, <2>2 DEF OAuthInv, TokenInv, KilledOK
<1>10. KilledOK'
  BY <1>4, <1>5, <1>9 DEF OAuthInv, TokenInv, KilledOK, TokTypes
<1> QED
  BY <1>6, <1>8, <1>10, WhoUntouched DEF OAuthInv, TokenInv

LEMMA RefreshKeeps ==
  ASSUME OAuthInv, NEW a \in Process, NEW t \in Token, refreshTokens(a, t)
  PROVE  OAuthInv'
<1>1. CASE revokeRefreshTokenFamily(tok[t].family) /\ UNCHANGED reading /\ Issued(t)
  <2>1. tok[t].family \in Token /\ Issued(tok[t].family)
    BY <1>1, TokRows DEF OAuthInv, TokenInv, RowsOK
  <2> QED
    BY <1>1, <2>1, RevokeKeeps DEF refreshTokens
<1>2. CASE reading' = [reading EXCEPT ![a] = t] /\ UNCHANGED <<tok, killed>>
  <2>1. UNCHANGED <<userVars, loginVars, clients, req, page>>
    BY DEF refreshTokens
  <2>2. reading' \in [Process -> Token \cup {None}]
    BY <1>2 DEF OAuthInv, TokenInv, TokTypes
  <2> QED
    BY <1>2, <2>1, <2>2, TokensUntouched, WhoUntouched DEF OAuthInv
<1> QED
  BY <1>1, <1>2 DEF refreshTokens, Usable, Issued

\* The rotation retires the token it replaces in the same transaction.
LEMMA RotateKeeps ==
  ASSUME OAuthInv, NEW a \in Process, rotateRefreshTokenAndIssueTokens(a)
  PROVE  OAuthInv'
<1> DEFINE t == reading[a]
<1>1. /\ UNCHANGED <<userVars, loginVars, clients, req, page, killed>>
      /\ reading' \in [Process -> Token \cup {None}] /\ t \in Token
  BY DEF rotateRefreshTokenAndIssueTokens, OAuthInv, TokenInv, TokTypes
<1>2. CASE UNCHANGED tok
  BY <1>1, <1>2, TokensUntouched, WhoUntouched DEF OAuthInv
<1>3. ASSUME Usable(t), NEW n \in FreshTokens,
             tok' = [tok EXCEPT ![t].st = "used",
                                ![n] = [NoTok EXCEPT !.st = "live", !.req = tok[t].req,
                                                     !.family = tok[t].family]]
      PROVE  OAuthInv'
  <2> DEFINE old == [tok[t] EXCEPT !.st = "used"]
             new == [NoTok EXCEPT !.st = "live", !.req = tok[t].req, !.family = tok[t].family]
  <2>1. n \in Token /\ tok[n] = NoTok /\ ~Issued(n)
    BY DEF FreshTokens, Issued, NoTok
  <2>2. /\ tok[t].st = "live" /\ Issued(t) /\ n # t /\ tok[t] \in IssuedTok
        /\ tok[t].req \in Request /\ tok[t].family \in Token /\ tok[t].family \notin killed
        /\ tok[t].family # n
    BY <1>1, <1>3, <2>1, TokRows
       DEF Usable, Issued, OAuthInv, TokenInv, RowsOK, KilledOK
  <2>3. old \in IssuedTok /\ old.st = "used" /\ old.req = tok[t].req
          /\ old.family = tok[t].family
    BY <2>2 DEF IssuedTok
  <2>4. new \in IssuedTok /\ new.st = "live" /\ new.req = tok[t].req
          /\ new.family = tok[t].family
    <3>1. new \in [st : {"live"}, revoked : {FALSE}, family : {tok[t].family},
                   req : {tok[t].req}]
      BY DEF NoTok
    <3> HIDE DEF new
    <3> QED
      BY <2>2, <3>1, TokWritten
  <2>5. tok' = [tok EXCEPT ![t] = old, ![n] = new]
    BY <1>1, <1>3, <2>1, <2>2
  <2> HIDE DEF old, new
  <2>6. /\ TokTypes' /\ tok'[t] = old /\ tok'[n] = new
        /\ \A x \in Token \ {t, n} : tok'[x] = tok[x]
    BY <1>1, <2>1, <2>2, <2>3, <2>4, <2>5 DEF OAuthInv, TokenInv, TokTypes
  <2>7. \A x \in Token \ {n} : Issued(x)' <=> Issued(x)
    BY <2>2, <2>3, <2>6 DEF Issued
  <2>8. Issued(n)'
    BY <2>4, <2>6 DEF Issued
  <2>9. RowsOK'
    <3> SUFFICES ASSUME NEW x \in Token, Issued(x)'
                 PROVE  (req[tok[x].req].code = "used" /\ Issued(tok[x].family))'
      BY DEF RowsOK
    <3>1. PICK y \in Token : /\ Issued(y) /\ tok'[x].req = tok[y].req
                             /\ tok'[x].family = tok[y].family
      BY <1>1, <2>2, <2>3, <2>4, <2>6, <2>7
    <3>2. req[tok[y].req].code = "used" /\ Issued(tok[y].family) /\ tok[y].family \in Token
      BY <3>1, TokRows DEF OAuthInv, TokenInv, RowsOK
    <3>3. tok[y].family \in Token \ {n}
      BY <2>1, <3>2
    <3> QED
      BY <1>1, <2>7, <3>1, <3>2, <3>3 DEF Issued
  <2>10. OneLive'
    BY <1>1, <2>1, <2>2, <2>3, <2>4, <2>6 DEF OAuthInv, TokenInv, OneLive
  <2>11. KilledOK'
    <3>1. \A f \in killed' : Issued(f)'
      BY <1>1, <2>7, <2>8 DEF OAuthInv, TokenInv, KilledOK, TokTypes
    <3>2. \A x \in Token : tok'[x].family \in killed' => tok'[x].revoked
      BY <1>1, <2>2, <2>3, <2>4, <2>6 DEF OAuthInv, TokenInv, KilledOK
    <3> QED
      BY <3>1, <3>2 DEF KilledOK
  <2>12. RequestsOK'
    BY <1>1 DEF OAuthInv, TokenInv, RequestsOK
  <2> QED
    BY <1>1, <2>6, <2>9, <2>10, <2>11, <2>12, WhoUntouched DEF OAuthInv, TokenInv
<1> QED
  BY <1>2, <1>3 DEF rotateRefreshTokenAndIssueTokens, MayRotate

LEMMA ExpireKeeps ==
  ASSUME OAuthInv, Expire
  PROVE  OAuthInv'
<1>1. WhoInv' /\ UNCHANGED <<reading, killed>>
  BY WhoUntouched DEF Expire, OAuthInv
<1>2. ASSUME NEW q \in Request, NEW row \in ReqRow, UNCHANGED tok,
             req' = [req EXCEPT ![q] = row], req[q].code # "used"
      PROVE  OAuthInv'
  <2>1. RequestsOK' /\ \A x \in Request : req[x].code = "used" => req'[x].code = "used"
    BY <1>2 DEF OAuthInv, TokenInv, RequestsOK
  <2> QED
    BY <1>1, <1>2, <2>1, SpentStaysSpent DEF OAuthInv
<1>3. ASSUME NEW q \in Request, Open(q), req' = [req EXCEPT ![q].st = "expired"],
             UNCHANGED tok
      PROVE  OAuthInv'
  <2>1. req[q] \in ReqRow
    BY DEF OAuthInv, TokenInv, RequestsOK
  <2>2. [req[q] EXCEPT !.st = "expired"] \in ReqRow /\ req[q].code # "used"
    BY <1>3, <2>1 DEF Open, ReqRow
  <2> QED
    BY <1>2, <1>3, <2>2
<1>4. ASSUME NEW q \in Request, req[q].code = "live",
             req' = [req EXCEPT ![q].code = "expired"], UNCHANGED tok
      PROVE  OAuthInv'
  <2>1. req[q] \in ReqRow
    BY DEF OAuthInv, TokenInv, RequestsOK
  <2>2. [req[q] EXCEPT !.code = "expired"] \in ReqRow
    BY <1>4, <2>1 DEF ReqRow
  <2> QED
    BY <1>2, <1>4, <2>2
<1>5. ASSUME NEW t \in Token, tok[t].st = "live", tok' = [tok EXCEPT ![t].st = "expired"],
             UNCHANGED req
      PROVE  OAuthInv'
  <2> DEFINE row == [tok[t] EXCEPT !.st = "expired"]
  <2>1. tok[t] \in IssuedTok
    BY <1>5, TokRows DEF Issued, OAuthInv, TokenInv
  <2>2. /\ row \in IssuedTok /\ row.st = "expired" /\ row.revoked = tok[t].revoked
        /\ row.req = tok[t].req /\ row.family = tok[t].family
    BY <2>1 DEF IssuedTok
  <2>3. tok' = [tok EXCEPT ![t] = row]
    BY <1>5
  <2> HIDE DEF row
  <2>4. /\ TokTypes' /\ tok'[t] = row /\ \A x \in Token \ {t} : tok'[x] = tok[x]
    BY <1>1, <2>2, <2>3 DEF OAuthInv, TokenInv, TokTypes
  <2>5. \A x \in Token : Issued(x)' <=> Issued(x)
    BY <1>5, <2>2, <2>4 DEF Issued
  <2>6. \A x \in Token : tok'[x].req = tok[x].req /\ tok'[x].family = tok[x].family
                           /\ tok'[x].revoked = tok[x].revoked
    BY <2>2, <2>4
  <2>7. RowsOK'
    BY <1>5, <2>5, <2>6, TokRows DEF OAuthInv, TokenInv, RowsOK
  <2>8. OneLive'
    BY <2>2, <2>4, <2>6 DEF OAuthInv, TokenInv, OneLive
  <2>9. KilledOK'
    BY <1>1, <2>5, <2>6 DEF OAuthInv, TokenInv, KilledOK, TokTypes
  <2> QED
    BY <1>1, <1>5, <2>4, <2>7, <2>8, <2>9 DEF OAuthInv, TokenInv, RequestsOK
<1> QED
  BY <1>3, <1>4, <1>5 DEF Expire

-----------------------------------------------------------------------------
LEMMA StepKeeps ==
  ASSUME OAuthInv, [OAuthNext]_oauthVars
  PROVE  OAuthInv'
<1>1. CASE UNCHANGED oauthVars
  BY <1>1, WhoUntouched, TokensUntouched DEF oauthVars, tokenVars, OAuthInv, TokenInv, TokTypes
<1>2. CASE PostToken
  BY <1>2, ExchangeKeeps, RefreshKeeps DEF PostToken
<1>3. CASE \E b \in Browser :
             \/ \E q \in Request : BeginLogin(b, q)
             \/ LoginCallback(b) \/ FinishLogin(b) \/ destroySession(b)
             \/ \E c \in Client, q \in Request : initiateAuthorizationRequest(b, c, q)
             \/ ResumeAuthorization(b) \/ RenderConsent(b) \/ PostDecision(b)
  BY <1>3, BeginLoginKeeps, LoginCallbackKeeps, FinishLoginKeeps, DestroySessionKeeps,
     InitiateKeeps, ResumeKeeps, RenderKeeps, DecisionKeeps
<1>4. CASE \/ \E c \in Client, m \in Registration : register(c, m)
           \/ \E a \in Process : rotateRefreshTokenAndIssueTokens(a)
           \/ \E u \in User : SetDisabled(u)
           \/ Expire \/ Restart
  BY <1>4, RegisterKeeps, RotateKeeps, SetDisabledKeeps, ExpireKeeps, RestartKeeps
<1> QED
  BY <1>1, <1>2, <1>3, <1>4 DEF OAuthNext

\* In every reachable state the tables are typed, a token belongs to a code that
\* was spent for it and to a family that exists, at most one token of an
\* authorization is not rotated, and a revocation reached its whole family.
THEOREM OAuthInvariant == OAuthSpec => []OAuthInv
  BY InitInv, StepKeeps, PTL DEF OAuthSpec

\* However a client repeats the exchange or the refresh, and whichever server
\* processes race, at most one token of an authorization can be used, and none
\* of a family that was revoked (oauth/store.ts).
THEOREM TokensTheorem == OAuthSpec => []TokensAreSound
<1>1. ASSUME OAuthInv
      PROVE  TokensAreSound
  BY <1>1 DEF OAuthInv, TokenInv, OneLive, KilledOK, TokensAreSound, OneLineOfTokens,
     RevokedStaysDead, Usable
<1> QED
  BY <1>1, OAuthInvariant, PTL

\* The rows are typed, a person has one user however many first sign-ins race,
\* and a stored registration passes the checks it passed when it came in
\* (resolveOrCreateExternalUser, parseStoredMetadata).
THEOREM LookupsTheorem == OAuthSpec => []LookupsResolve
<1>1. ASSUME OAuthInv
      PROVE  LookupsResolve
  <2>1. OAuthTypeOK
    <3>1. LoginRow \subseteq [at : {"none", "github", "profile"}, person : Person \cup {None},
                              next : Request \cup {None}]
      BY DEF LoginRow, NoLogin
    <3>2. PageRow \subseteq [at : {"none", "resume", "verify", "shown"},
                             req : Request \cup {None}, nonce : 0..MaxPages]
      BY DEF PageRow
    <3>3. ReqRow \subseteq [st : {"none", "open", "approved", "denied", "expired"},
                            client : Client \cup {None}, nonce : 0..MaxPages,
                            user : User \cup {None},
                            code : {"none", "live", "used", "expired"}]
      BY DEF ReqRow
    <3>4. IssuedTok \cup {NoTok}
            \subseteq [st : {"none", "live", "used", "expired"}, revoked : BOOLEAN,
                       family : Token \cup {None}, req : Request \cup {None}]
      <4> DEFINE Tok == [st : {"none", "live", "used", "expired"}, revoked : BOOLEAN,
                         family : Token \cup {None}, req : Request \cup {None}]
      <4>1. NoTok \in Tok
        BY DEF NoTok
      <4>2. IssuedTok \subseteq Tok
        BY DEF IssuedTok
      <4> QED
        BY <4>1, <4>2
    <3>5. clients \in [Client -> [uris : {"good"}, grants : {"code"}, scope : {"absent"},
                                 extra : {"none"}] \cup {None}]
      BY <1>1 DEF OAuthInv, WhoInv, ClientsOK, StoredRow
    <3> QED
      BY <1>1, <3>1, <3>2, <3>3, <3>4, <3>5 DEF OAuthInv, WhoInv, UsersOK, LoginsOK, PagesOK,
         TokenInv, RequestsOK, TokTypes, OAuthTypeOK
  <2>2. OneUserPerPerson
    <3> SUFFICES ASSUME NEW p \in Person PROVE Cardinality(UsersOf(p)) <= 1
      BY DEF OneUserPerPerson
    <3>1. CASE UsersOf(p) = {}
      BY <3>1, FS_EmptySet
    <3>2. ASSUME NEW u \in UsersOf(p)
          PROVE  Cardinality(UsersOf(p)) <= 1
      <4>1. UsersOf(p) = {u}
        BY <1>1, HostOAuthAssumption DEF UsersOf, OAuthInv, WhoInv, IdentityUnique
      <4>2. Cardinality({u}) = 1
        BY FS_Singleton
      <4> QED
        BY <4>1, <4>2
    <3> QED
      BY <3>1, <3>2
  <2>3. RegisteredResolves
    <3> SUFFICES ASSUME NEW c \in DcrClient, clients[c] # None
                 PROVE  parseStoredMetadata(c) = clients[c]
      BY DEF RegisteredResolves
    <3>1. clients[c] = StoredRow
      BY <1>1, HostOAuthAssumption DEF OAuthInv, WhoInv, ClientsOK
    <3> DEFINE r == normalizeMetadata(StoredRow)
    <3>2. r \in [uris : {"good"}, grants : {"code"}, scope : {"absent"}, extra : {"none"}]
      BY DEF normalizeMetadata, normalizeGrantTypes, normalizeScope, StoredRow
    <3> HIDE DEF r
    <3>3. r = StoredRow
      BY <3>2 DEF StoredRow
    <3>4. ~Refused(StoredRow)
      BY DEF Refused, StoredRow
    <3> QED
      BY <3>1, <3>3, <3>4 DEF parseStoredMetadata, r
  <2> QED
    BY <2>1, <2>2, <2>3 DEF LookupsResolve
<1> QED
  BY <1>1, OAuthInvariant, PTL

-----------------------------------------------------------------------------
Decided(q) ==
  req[q].st \in {"approved", "denied", "expired"} =>
    req'[q].st = req[q].st /\ req'[q].user = req[q].user

\* A step that writes one request: an undecided one, or its code or nonce.
LEMMA OneDecision ==
  ASSUME OAuthInv, NEW q \in Request, NEW x \in Request, NEW row,
         req' = [req EXCEPT ![q] = row],
         \/ req[q].st \in {"none", "open"}
         \/ row.st = req[q].st /\ row.user = req[q].user
  PROVE  Decided(x)
  BY DEF OAuthInv, TokenInv, RequestsOK, Decided

LEMMA StepDecides ==
  ASSUME OAuthInv, [OAuthNext]_oauthVars, NEW x \in Request
  PROVE  Decided(x)
<1>1. CASE UNCHANGED req
  BY <1>1 DEF Decided
<1>2. ASSUME NEW b \in Browser, NEW c \in Client, NEW q \in Request,
             initiateAuthorizationRequest(b, c, q)
      PROVE  Decided(x)
  <2> DEFINE row == [NoReq EXCEPT !.st = "open", !.client = c]
  <2>1. req[q].st = "none" /\ req' = [req EXCEPT ![q] = row]
    BY <1>2 DEF initiateAuthorizationRequest, NoReq
  <2> HIDE DEF row
  <2> QED
    BY <2>1, OneDecision
<1>3. ASSUME NEW b \in Browser, RenderConsent(b), createConsentNonce(page[b].req)
      PROVE  Decided(x)
  <2>1. page[b].req \in Request
    BY <1>3, PageMoves DEF RenderConsent, PagesOK, OAuthInv, WhoInv
  <2>2. req[page[b].req] \in ReqRow
    BY <2>1 DEF OAuthInv, TokenInv, RequestsOK
  <2> DEFINE n == req[page[b].req].nonce + 1
             row == [req[page[b].req] EXCEPT !.nonce = n]
  <2>3. row.st = req[page[b].req].st /\ row.user = req[page[b].req].user
    BY <2>2 DEF ReqRow
  <2> QED
    BY <1>3, <2>1, <2>3, OneDecision DEF createConsentNonce
<1>4. ASSUME NEW b \in Browser, PostDecision(b)
      PROVE  Decided(x)
  <2>1. page[b].req \in Request /\ Open(page[b].req)
    BY <1>4, PageMoves
       DEF PostDecision, approveConsent, denyConsent, MayDecide, PagesOK, OAuthInv, WhoInv
  <2> QED
    BY <1>4, <2>1, OneDecision DEF PostDecision, approveConsent, denyConsent, Open
<1>5. ASSUME NEW q \in Request, NEW code, req' = [req EXCEPT ![q].code = code]
      PROVE  Decided(x)
  <2>1. req[q] \in ReqRow
    BY DEF OAuthInv, TokenInv, RequestsOK
  <2> DEFINE row == [req[q] EXCEPT !.code = code]
  <2>2. row.st = req[q].st /\ row.user = req[q].user
    BY <2>1 DEF ReqRow
  <2> QED
    BY <1>5, <2>2, OneDecision
<1>6. CASE PostToken
  BY <1>1, <1>5, <1>6 DEF PostToken, exchangeAuthorizationCode, refreshTokens
<1>7. CASE Expire
  <2>1. ASSUME NEW q \in Request, Open(q), req' = [req EXCEPT ![q].st = "expired"]
        PROVE  Decided(x)
    BY <2>1, OneDecision DEF Open
  <2> QED
    BY <1>1, <1>5, <1>7, <2>1 DEF Expire
<1>8. CASE \E b \in Browser :
             \/ \E q \in Request : BeginLogin(b, q)
             \/ LoginCallback(b) \/ FinishLogin(b) \/ destroySession(b)
             \/ \E c \in Client, q \in Request : initiateAuthorizationRequest(b, c, q)
             \/ ResumeAuthorization(b) \/ RenderConsent(b) \/ PostDecision(b)
  BY <1>1, <1>2, <1>3, <1>4, <1>8 DEF BeginLogin, LoginCallback, FinishLogin,
     destroySession, ResumeAuthorization, RenderConsent
<1>9. CASE \/ \E c \in Client, m \in Registration : register(c, m)
           \/ \E a \in Process : rotateRefreshTokenAndIssueTokens(a)
           \/ \E u \in User : SetDisabled(u)
           \/ Restart
  BY <1>1, <1>9 DEF register, rotateRefreshTokenAndIssueTokens, SetDisabled, Restart
<1>10. CASE UNCHANGED oauthVars
  BY <1>1, <1>10 DEF oauthVars
<1> QED
  BY <1>6, <1>7, <1>8, <1>9, <1>10 DEF OAuthNext

\* However many pages of however many browsers show a request, it is decided
\* once, by one user, and never after it expired (approveConsentAndIssueCode,
\* denyConsent).
THEOREM DecisionTheorem == OAuthSpec => DecisionIsFinal
<1>1. OAuthInv /\ [OAuthNext]_oauthVars => \A q \in Request : Decided(q)
  BY StepDecides
<1> QED
  BY <1>1, OAuthInvariant, PTL DEF OAuthSpec, DecisionIsFinal, Decided
=============================================================================
