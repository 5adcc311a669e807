----------------------------- MODULE Enrollment -----------------------------
(***************************************************************************)
(* How a machine becomes a device: the login of the connector              *)
(* (connector/src/enrollment.rs), the server's table of enrollments        *)
(* (connector/enrollment-store.ts) behind its routes (connector/router.ts) *)
(* and the browsers in which users approve.  The table and the browser     *)
(* sessions live in memory and die with the server; the machine's two      *)
(* files and the database survive.  An enrollment, the device id and the   *)
(* credential id it reserves are one name.                                 *)
(***************************************************************************)
EXTENDS ControlStore

CONSTANTS
  Machine, Browser,
  MaxActive    \* MAX_ACTIVE_ENROLLMENTS

ASSUME EnrollmentAssumption == MaxActive \in Nat \ {0} /\ None \notin Device

VARIABLES
  fresh,       \* the ids not handed out yet (a bound on the number of logins)
  enrollment,  \* the table: state and consent nonce of each enrollment
  old,         \* the enrollments whose ten minutes are over
  session,     \* the user each browser is signed in as
  page,        \* the enrollment whose consent form a browser shows
  machine,     \* files and running login of each machine
  approval,    \* the user who approved an enrollment (for the properties)
  returned     \* the devices whose user was enabled again (for the properties)

enrollVars == <<fresh, enrollment, old, session, page, machine, approval, returned>>
allEnrollVars == <<controlVars, enrollVars>>

NoEntry   == [state |-> "absent", nonce |-> None, user |-> None]
Entry     == [state : {"pending", "approved", "denied", "consumed"},
              nonce : Browser \cup {None}, user : User \cup {None}]

\* The enrollment table, the browsers and the local files have their types
\* (EnrollmentStore, enrollment.rs).
EnrollTypeOK ==
  /\ ControlTypeOK
  /\ fresh \subseteq Device
  /\ enrollment \in [Device -> Entry \cup {NoEntry}]
  /\ old \subseteq Device
  /\ session \in [Browser -> User \cup {None}]
  /\ page \in [Browser -> Device \cup {None}]
  /\ machine \in [Machine ->
       [at : {"idle", "begin", "polling", "granted", "saved"},
        file : Device \cup {None}, credential : Device \cup {None}]]
  /\ approval \in [Device -> User \cup {None}]
  /\ returned \subseteq Device

EnrollInit ==
  /\ ControlInit
  /\ fresh = Device
  /\ enrollment = [d \in Device |-> NoEntry]
  /\ old = {}
  /\ session = [b \in Browser |-> None]
  /\ page = [b \in Browser |-> None]
  /\ machine = [m \in Machine |-> [at |-> "idle", file |-> None, credential |-> None]]
  /\ approval = [d \in Device |-> None]
  /\ returned = {}

InTable == {d \in Device : enrollment[d] # NoEntry}

\* The login of m goes on at pc, or ends; it may have removed enrollment.json.
Goes(m, pc)  == machine' = [machine EXCEPT ![m] = [@ EXCEPT !.at = pc]]
Ends(m)      == Goes(m, "idle")
EndsClean(m) == machine' = [machine EXCEPT ![m] = [@ EXCEPT !.at = "idle", !.file = None]]

-----------------------------------------------------------------------------
(***************************************************************************)
(* The connector: login_flow.                                              *)
(***************************************************************************)

\* mutant: a login never asks whether the credential still works
StartAnyway(m) ==
  /\ machine[m].at = "idle"
  /\ IF machine[m].file # None /\ machine[m].file \notin old THEN Goes(m, "polling")
     ELSE fresh # {} /\ machine' = [machine EXCEPT ![m] = [@ EXCEPT !.at = "begin", !.file = None]]
  /\ UNCHANGED <<fresh, controlVars, enrollment, old, session, page, approval, returned>>

\* A login begins: it is over at once when the credential still works, with an
\* error when enrollment.json is about another device.  The pending enrollment is
\* resumed unless its time is over.
StartLogin(m) ==
  LET cred == machine[m].credential
      file == machine[m].file
      works == cred # None /\ DeviceAuth(cred) IN
  /\ machine[m].at = "idle"
  /\ IF works
       THEN IF file = cred THEN EndsClean(m) ELSE Ends(m)
       ELSE IF file # None /\ file \notin old THEN Goes(m, "polling")
            ELSE fresh # {} /\ machine' = [machine EXCEPT ![m] = [@ EXCEPT !.at = "begin", !.file = None]]
  /\ UNCHANGED <<fresh, controlVars, enrollment, old, session, page, approval, returned>>

\* purgeExpired
PurgeExpired == [d \in Device |-> IF d \in old THEN NoEntry ELSE enrollment[d]]

\* createEnrollment, under an id nobody has yet.
CreateEnrollment(d) ==
  /\ d \in fresh /\ fresh' = fresh \ {d}
  /\ enrollment' = [PurgeExpired EXCEPT ![d] =
                      [state |-> "pending", nonce |-> None, user |-> None]]

\* POST /enrollments: the purge, then a place in the table; the answer may be lost,
\* or the machine stop before enrollment.json is on disk.
BeginEnrollment(m) ==
  LET kept == {d \in Device : PurgeExpired[d] # NoEntry} IN
  /\ machine[m].at = "begin"
  /\ \/ /\ Cardinality(kept) >= MaxActive
        /\ enrollment' = PurgeExpired /\ Ends(m) /\ UNCHANGED fresh
     \/ /\ Cardinality(kept) < MaxActive
        /\ \E d \in fresh :
             /\ CreateEnrollment(d)
             /\ \/ Ends(m)
                \/ machine' = [machine EXCEPT ![m] = [@ EXCEPT !.at = "polling", !.file = d]]
  /\ UNCHANGED <<controlVars, old, session, page, approval, returned>>

\* mutant: only the server's table says when a login is over
LoginWaitsForTable(m) ==
  /\ machine[m].at = "polling" /\ machine[m].file \in old \cap InTable
  /\ EndsClean(m)
  /\ UNCHANGED <<fresh, controlVars, enrollment, old, session, page, approval, returned>>

\* The loop's own look at the clock.
LoginExpires(m) ==
  /\ machine[m].at = "polling" /\ machine[m].file \in old
  /\ EndsClean(m)
  /\ UNCHANGED <<fresh, controlVars, enrollment, old, session, page, approval, returned>>

-----------------------------------------------------------------------------
(***************************************************************************)
(* POST /enrollments/token.  An answer that gets lost, and slow_down,      *)
(* leave the machine polling.                                              *)
(***************************************************************************)
Answered(m) == Goes(m, "granted") \/ Goes(m, "polling")

\* enrollment_not_found, expired_token, access_denied and invalid_grant.
PollRefused(m) ==
  LET d == machine[m].file IN
  /\ machine[m].at = "polling"
  /\ \/ enrollment[d] = NoEntry \/ d \in old \/ enrollment[d].state = "denied"
     \/ enrollment[d].state = "consumed" /\ ~Enrolled(d)
  /\ EndsClean(m)
  /\ UNCHANGED <<fresh, controlVars, enrollment, old, session, page, approval, returned>>

\* mutant: an undecided enrollment is granted to whoever opened its form
PollTooEarly(m) ==
  LET d == machine[m].file IN
  /\ machine[m].at = "polling" /\ d \notin old
  /\ enrollment[d].state \in {"pending", "approved"} /\ enrollment[d].nonce # None
  /\ session[enrollment[d].nonce] # None
  /\ FinalizeDeviceEnrollment(d, session[enrollment[d].nonce])
  /\ enrollment' = [enrollment EXCEPT ![d] = [@ EXCEPT !.state = "consumed"]]
  /\ Answered(m)
  /\ UNCHANGED <<fresh, old, session, page, approval, returned>>

\* approved: the rows are written and the enrollment is consumed.
PollApproved(m) ==
  LET d == machine[m].file IN
  /\ machine[m].at = "polling" /\ d \notin old /\ enrollment[d].state = "approved"
  /\ FinalizeDeviceEnrollment(d, enrollment[d].user)
  /\ enrollment' = [enrollment EXCEPT ![d] = [@ EXCEPT !.state = "consumed"]]
  /\ Answered(m)
  /\ UNCHANGED <<fresh, old, session, page, approval, returned>>

\* consumed: an earlier answer was lost and is given again.
PollConsumed(m) ==
  LET d == machine[m].file IN
  /\ machine[m].at = "polling" /\ d \notin old
  /\ enrollment[d].state = "consumed" /\ Enrolled(d)
  /\ Goes(m, "granted")
  /\ UNCHANGED <<fresh, controlVars, enrollment, old, session, page, approval, returned>>

\* The machine asks GET /identity with the new credential before it keeps it.
\* When that fails the login ends and enrollment.json stays.
CheckIdentity(m) ==
  LET d == machine[m].file IN
  /\ machine[m].at = "granted"
  /\ \/ /\ DeviceAuth(d)
        /\ machine' = [machine EXCEPT ![m] = [@ EXCEPT !.at = "saved", !.credential = d]]
     \/ Ends(m)
  /\ UNCHANGED <<fresh, controlVars, enrollment, old, session, page, approval, returned>>

RemoveSession(m) ==
  /\ machine[m].at = "saved" /\ EndsClean(m)
  /\ UNCHANGED <<fresh, controlVars, enrollment, old, session, page, approval, returned>>

\* The login's process dies; the files stay.
LoginCrashes(m) ==
  /\ machine[m].at # "idle" /\ Ends(m)
  /\ UNCHANGED <<fresh, controlVars, enrollment, old, session, page, approval, returned>>

-----------------------------------------------------------------------------
(***************************************************************************)
(* The browsers.                                                           *)
(***************************************************************************)
\* createSession and destroySession of auth/user-session.ts.
SignIn(b, u) ==
  /\ session[b] = None /\ u \in active
  /\ session' = [session EXCEPT ![b] = u]
  /\ UNCHANGED <<fresh, controlVars, enrollment, old, page, machine, approval, returned>>

SignOut(b) ==
  /\ session[b] # None
  /\ session' = [session EXCEPT ![b] = None]
  /\ UNCHANGED <<fresh, controlVars, enrollment, old, page, machine, approval, returned>>

\* GET /connector/enroll: the form carries a nonce that replaces the last one.
OpenConsent(b, d) ==
  /\ session[b] \in active
  /\ enrollment[d].state = "pending" /\ d \notin old
  /\ enrollment' = [enrollment EXCEPT ![d] = [@ EXCEPT !.nonce = b]]
  /\ page' = [page EXCEPT ![b] = d]
  /\ UNCHANGED <<fresh, controlVars, old, session, machine, approval, returned>>

\* approve and deny of the table
Settle(d, state, u) ==
  enrollment' = [enrollment EXCEPT ![d] =
    [@ EXCEPT !.state = state, !.user = IF state = "approved" THEN u ELSE None]]

\* POST /connector/enroll/decision with the nonce of the form: approve or deny.
Decide(b, d, state) ==
  /\ session[b] \in active /\ enrollment[d].state = "pending" /\ d \notin old
  /\ page[b] = d /\ enrollment[d].nonce = b
  /\ Settle(d, state, session[b])
  /\ approval' = [approval EXCEPT ![d] = IF state = "approved" THEN session[b] ELSE None]
  /\ page' = [page EXCEPT ![b] = None]
  /\ UNCHANGED <<fresh, controlVars, old, session, machine, returned>>

-----------------------------------------------------------------------------
\* Time: an enrollment's ten minutes are over.
Expire(d) ==
  /\ enrollment[d] # NoEntry \/ \E m \in Machine : machine[m].file = d
  /\ d \notin old /\ old' = old \cup {d}
  /\ UNCHANGED <<fresh, controlVars, enrollment, session, page, machine, approval, returned>>

\* The server starts again: its maps are empty.
RestartServer ==
  /\ enrollment' = [d \in Device |-> NoEntry]
  /\ session' = [b \in Browser |-> None]
  /\ UNCHANGED <<fresh, controlVars, old, page, machine, approval, returned>>

\* The owner revokes a device.
RevokeAccess ==
  /\ \E u \in User, d \in Device : PostUserRevoke(u, d)
  /\ UNCHANGED enrollVars

\* An operator disables a user, or enables one again.
SwitchAccess ==
  /\ \E u \in MaySuspend :
       /\ SetUserActive(u)
       /\ returned' = IF u \in active THEN returned
                      ELSE returned \cup {d \in Device : device[d].owner = u}
  /\ UNCHANGED <<fresh, enrollment, old, session, page, machine, approval>>

Login(m) ==
  \/ StartLogin(m) \/ BeginEnrollment(m) \/ LoginExpires(m) \/ PollRefused(m)
  \/ PollApproved(m) \/ PollConsumed(m) \/ CheckIdentity(m) \/ RemoveSession(m)

EnrollNext ==
  \/ \E m \in Machine : Login(m) \/ LoginCrashes(m)
  \/ \E b \in Browser : SignOut(b) \/ \E u \in User : SignIn(b, u)
  \/ \E b \in Browser, d \in Device :
       OpenConsent(b, d) \/ \E s \in {"approved", "denied"} : Decide(b, d, s)
  \/ \E d \in Device : Expire(d)
  \/ RestartServer \/ RevokeAccess \/ SwitchAccess

EnrollSpec == EnrollInit /\ [][EnrollNext]_allEnrollVars

(***************************************************************************)
(* A login that has begun goes on, and time passes.  Users need not        *)
(* decide, and every answer of the server may be lost.                     *)
(***************************************************************************)
FairEnrollSpec ==
  /\ EnrollSpec
  /\ \A m \in Machine :
       /\ WF_allEnrollVars(BeginEnrollment(m)) /\ WF_allEnrollVars(LoginExpires(m))
       /\ WF_allEnrollVars(CheckIdentity(m)) /\ WF_allEnrollVars(RemoveSession(m))
  /\ \A d \in Device : WF_allEnrollVars(Expire(d))

-----------------------------------------------------------------------------
\* A device exists only for an enrollment one user approved, in the form shown
\* to that browser, and it is that user's: consumed, replayed or resumed after
\* a restart of either side (router.ts, finalizeDeviceEnrollment).
DeviceWasApproved ==
  \A d \in Device : Enrolled(d) =>
    /\ device[d].owner = approval[d]
    /\ enrollment[d].state \notin {"pending", "denied"}

\* What a machine keeps on disk is what the server has: a stored credential is
\* an enrolled device, and beside one that works lies no pending enrollment of
\* another device, which login would refuse to untangle, nor does a login run
\* that would replace it.  That is lost, as login_flow provides for, only to
\* a user who was disabled and enabled again.
LocalStateConsistent ==
  /\ EnrollTypeOK
  /\ \A m \in Machine :
       LET cred == machine[m].credential IN
       cred # None =>
         /\ Enrolled(cred)
         /\ DeviceAuth(cred) /\ cred \notin returned =>
              machine[m].file \in {None, cred} /\ machine[m].at \in {"idle", "saved"}

\* Every login ends, whatever the user and the network do: the loop of
\* login_flow is bounded by the enrollment's expiry.
LoginsEnd == \A m \in Machine : machine[m].at # "idle" ~> machine[m].at = "idle"
=============================================================================
