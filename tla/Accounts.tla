------------------------------ MODULE Accounts ------------------------------
(***************************************************************************)
(* Customer accounts: the requests of accounts/api.py over the customer    *)
(* rows and the sessions.  A request reads without a lock, then writes in  *)
(* a transaction of its own; each of the two is a step, so requests        *)
(* interleave on what they read, and may end in between.  A verification   *)
(* token is signed and leaves no row, so any customer may present one at   *)
(* any time (OneTimeCodes says how it is obtained).                        *)
(***************************************************************************)
EXTENDS AuthSessions

CONSTANT Requests

VARIABLES
    outdated,  \* history: sessions that existed when a reset looked for those to
               \* end, for the resets that have committed
    request    \* per request: what it does next, for whom, and what it has read

accountVars == <<customer, sessionVars, outdated, request>>

Idle == [work |-> "idle"]
RequestStates ==
    {Idle}
    \cup [work : {"register", "reset_password"}, customer : Customers, row : CustomerRows]
    \cup [work : {"log_in"}, customer : Customers]
    \cup [work : {"replace"}, customer : Customers, found : SUBSET Sessions, older : SUBSET Sessions]
    \cup [work : {"expire", "touch", "inside"}, session : Sessions]

AccountsTypeOK ==
    /\ customer \in [Customers -> CustomerRows]
    /\ SessionsTypeOK
    /\ outdated \subseteq Sessions
    /\ request \in [Requests -> RequestStates]

AccountsInit ==
    /\ CustomersInit /\ SessionsInit
    /\ outdated = {}
    /\ request = [r \in Requests |-> Idle]

\* The customer row is locked from the reset's first statement to its commit.
\* Whatever ends a session locks it together with its customer, so it waits for
\* that; a new session only refers to the customer, and waits much less.
Resetting(c) == \E r \in Requests : request[r].work = "replace" /\ request[r].customer = c

IsIdle(r) == request[r] = Idle
GoOn(r, next) == request' = [request EXCEPT ![r] = next]
Finish(r) == GoOn(r, Idle)

tables == <<customer, sessionVars, outdated>>

\* The connection or the process ends before the next statement.
RequestDies(r) ==
    /\ ~IsIdle(r)
    /\ Finish(r)
    /\ UNCHANGED tables

(***************************************************************************)
(* CompleteRegistrationView.post                                           *)
(***************************************************************************)
\* The token, then the customer, without a lock.
StartRegistration(r, c) ==
    /\ IsIdle(r)
    /\ ~customer[c].password
    /\ GoOn(r, [work |-> "register", customer |-> c, row |-> customer[c]])
    /\ UNCHANGED tables

\* The whole row is saved from the copy; a row that has appeared meanwhile
\* violates the unique identifier, and an inactive one gets no session: both
\* roll back.
Register(r) ==
    LET c == request[r].customer  row == request[r].row IN
    /\ request[r].work = "register"
    /\ row.exists \/ ~customer[c].exists
    /\ row.active /\ ~Resetting(c)
    /\ customer' = [customer EXCEPT ![c] =
                       [row EXCEPT !.exists = TRUE, !.password = TRUE]]
    /\ \E s \in Sessions : CreateSession(s, c, "registered")
    /\ Finish(r)
    /\ UNCHANGED outdated

RegistrationFails(r) ==
    LET c == request[r].customer  row == request[r].row IN
    /\ request[r].work = "register"
    /\ ~row.active \/ (~row.exists /\ customer[c].exists)
    /\ Finish(r)
    /\ UNCHANGED tables

(***************************************************************************)
(* LoginView.post                                                          *)
(***************************************************************************)
\* The password is compared with, and is_active taken from, the row read here.
\* A failed login leaves an event that belongs to no session.
CheckPassword(r, c) ==
    /\ IsIdle(r)
    /\ customer[c].password /\ customer[c].active
    /\ GoOn(r, [work |-> "log_in", customer |-> c])
    /\ UNCHANGED tables

\* issue_tokens_for_customer.  The guest cart is merged after this commit, so a
\* merge that fails leaves the session without a client that knows it.
LogIn(r) ==
    LET c == request[r].customer IN
    /\ request[r].work = "log_in"
    /\ \E s \in Sessions : CreateSession(s, c, "login_success")
    /\ Finish(r)
    /\ UNCHANGED <<customer, outdated>>

(***************************************************************************)
(* ResetPasswordView.post                                                  *)
(***************************************************************************)
StartReset(r, c) ==
    /\ IsIdle(r)
    /\ customer[c].exists
    /\ GoOn(r, [work |-> "reset_password", customer |-> c, row |-> customer[c]])
    /\ UNCHANGED tables

\* revoke_all_customer_sessions looks for the sessions to end, once the password
\* column is saved.
LookForSessions(r) ==
    LET c == request[r].customer IN
    /\ request[r].work = "reset_password"
    /\ request[r].row.active
    /\ ~Resetting(c)
    /\ GoOn(r, [work |-> "replace", customer |-> c,
                found |-> ActiveOf(c), older |-> SessionsOf(c)])
    /\ UNCHANGED tables

\* The sessions found are locked with their customer, for which logins under way
\* are waited for; nothing is locked when none was found.  So a login may commit
\* after the look, and its session is not among those revoked.  From the locks
\* to the commit nobody else reaches these rows: the two are one step here.
ResetPassword(r) ==
    LET c == request[r].customer IN
    /\ request[r].work = "replace"
    /\ customer' = [customer EXCEPT ![c].password = TRUE]
    /\ outdated' = outdated \cup request[r].older
    /\ \E s \in Sessions : ReplaceSessions(s, c, request[r].found)
    /\ Finish(r)

\* An account that was inactive when it was read gets no session, and the
\* transaction is rolled back as a whole.
ResetFails(r) ==
    /\ request[r].work = "reset_password" /\ ~request[r].row.active
    /\ Finish(r)
    /\ UNCHANGED tables

(***************************************************************************)
(* A request with a token, access or refresh, bound to session s: the      *)
(* customer and then the session are read without a lock.                  *)
(***************************************************************************)
Authenticate(r, s) ==
    LET c == session[s].owner IN
    /\ IsIdle(r)
    /\ Exists(s) /\ customer[c].active /\ session[s].active
    /\ GoOn(r, [work |-> IF IsValid(s, c) THEN "touch" ELSE "expire", session |-> s])
    /\ UNCHANGED tables

Expire(r) ==
    /\ request[r].work = "expire" /\ ~Resetting(session[request[r].session].owner)
    /\ ExpireSession(request[r].session)
    /\ Finish(r)
    /\ UNCHANGED <<customer, outdated>>

Touch(r) ==
    /\ request[r].work = "touch"
    /\ TouchSession
    /\ GoOn(r, [work |-> "inside", session |-> request[r].session])
    /\ UNCHANGED <<customer, outdated>>

Inside(r) == request[r].work = "inside"
Caller(r) == session[request[r].session].owner
MayEnd(r) == Inside(r) /\ ~Resetting(Caller(r))

\* LogoutView.post for a refresh token of the same session
LogOut(r) ==
    LET s == request[r].session IN
    /\ MayEnd(r)
    /\ RevokeSession(s, session[s].owner, "logout", "logout")
    /\ Finish(r)
    /\ UNCHANGED <<customer, outdated>>

\* CustomerSessionRevokeView.post; a session of somebody else is not found.
RevokeOne(r) ==
    /\ MayEnd(r)
    /\ \E s \in Sessions : RevokeSession(s, Caller(r), "security", "session_revoked")
    /\ Finish(r)
    /\ UNCHANGED <<customer, outdated>>

\* CustomerSessionRevokeAllView.post, the caller's own session included
RevokeAll(r) ==
    /\ MayEnd(r)
    /\ RevokeAllSessions(Caller(r), "revoke_all")
    /\ Finish(r)
    /\ UNCHANGED <<customer, outdated>>

\* CustomerTokenRefreshSerializer.validate mints tokens for the session it read,
\* and no table of the shop changes.
RefreshToken(r) ==
    /\ Inside(r)
    /\ Finish(r)
    /\ UNCHANGED tables

\* AdminCustomerSessionRevokeView.post, AdminCustomerRevokeAllSessionsView.post
AdminRevokes(c) ==
    /\ customer[c].exists /\ ~Resetting(c)
    /\ \/ \E s \in Sessions : RevokeSession(s, c, "security", "session_revoked")
       \/ RevokeAllSessions(c, "security")
    /\ UNCHANGED <<customer, outdated, request>>

\* CustomerAdmin
AdminEdits(c) ==
    /\ ~Resetting(c) /\ \E active \in BOOLEAN : SetActive(c, active)
    /\ UNCHANGED <<sessionVars, outdated, request>>

CredentialStep(r) ==
    \/ \E c \in Customers : StartRegistration(r, c) \/ CheckPassword(r, c) \/ StartReset(r, c)
    \/ Register(r) \/ RegistrationFails(r) \/ LogIn(r)
    \/ LookForSessions(r) \/ ResetPassword(r) \/ ResetFails(r)

SessionStep(r) ==
    \/ \E s \in Sessions : Authenticate(r, s)
    \/ Expire(r) \/ Touch(r)
    \/ LogOut(r) \/ RevokeOne(r) \/ RevokeAll(r) \/ RefreshToken(r)

AccountsNext ==
    \/ \E r \in Requests :
          CredentialStep(r) \/ SessionStep(r) \/ RequestDies(r)
    \/ \E c \in Customers : AdminRevokes(c) \/ AdminEdits(c)
    \/ SessionTimePasses /\ UNCHANGED <<customer, outdated, request>>

AccountsSpec == AccountsInit /\ [][AccountsNext]_accountVars

(***************************************************************************)
(* Properties.                                                             *)
(***************************************************************************)
\* The audit trail tells the life of every session: one event that opened it
\* and, once it has ended, exactly one more, whatever logouts, revocations and
\* expiries overlap ("to prevent two simultaneous requests from generating
\* duplicate expiry transitions/events").
ClosingOf(reason) ==
    CASE reason = "logout" -> "logout"
      [] reason = "expired" -> "session_expired"
      [] OTHER -> "session_revoked"

AuditTellsTheStory ==
    \A s \in Sessions : Exists(s) =>
        LET row == session[s] IN
        /\ audit[s] # <<>> /\ audit[s][1] \in OpeningEvents
        /\ Tail(audit[s]) = IF row.active THEN <<>> ELSE <<ClosingOf(row.reason)>>

\* "Password reset is a security boundary": once a reset has committed, no session
\* is active that existed when it looked for the sessions to end, whatever
\* logouts, expiries, other resets and requests with such a session overlap it.
\* (The session of a login that commits between the look and the reset's commit
\* is older than the reset's own and stays active: see ResetPassword.)
NoSessionOutlivesReset == \A s \in outdated : ~session[s].active

\* A session that has ended never comes back, and keeps the reason it ended for,
\* although requests that read it while it was active go on to end or renew it.
EndedSessionsStayEnded ==
    [][\A s \in Sessions : Exists(s) /\ ~session[s].active => session'[s] = session[s]]_session
=============================================================================
