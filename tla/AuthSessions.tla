---------------------------- MODULE AuthSessions ----------------------------
(***************************************************************************)
(* Server-side sessions and their audit trail (accounts/auth_audit.py):    *)
(* the tables, what one transaction does to them, and the clock.           *)
(***************************************************************************)
EXTENDS CustomerTable

CONSTANTS
    MaxSessions,  \* most sessions ever created
    NoOwner

ASSUME SessionsAssumption == MaxSessions \in Nat /\ NoOwner \notin Customers

Sessions == 1..MaxSessions

VARIABLES
    session,   \* CustomerAuthSession row, with owner NoOwner before it exists
    audit,     \* CustomerAuthEvent rows of a session, in order
    lapsed     \* sessions past expires_at

sessionVars == <<session, audit, lapsed>>

OpeningEvents == {"registered", "login_success", "password_reset"}
ClosingEvents == {"logout", "session_revoked", "session_expired"}
Reasons == {"", "logout", "password_reset", "security", "revoke_all", "expired"}

SessionRows == [owner : Customers \cup {NoOwner}, active : BOOLEAN, reason : Reasons]
NoSession == [owner |-> NoOwner, active |-> FALSE, reason |-> ""]

SessionsTypeOK ==
    /\ session \in [Sessions -> SessionRows]
    /\ audit \in [Sessions -> Seq(OpeningEvents \cup ClosingEvents)]
    /\ lapsed \subseteq Sessions

SessionsInit ==
    /\ session = [s \in Sessions |-> NoSession]
    /\ audit = [s \in Sessions |-> <<>>]
    /\ lapsed = {}

Exists(s) == session[s].owner # NoOwner
OwnedBy(s, c) == session[s].owner = c
SessionsOf(c) == {s \in Sessions : OwnedBy(s, c)}
ActiveOf(c) == {s \in SessionsOf(c) : session[s].active}
NextSession(s) == ~Exists(s) /\ \A r \in 1..s - 1 : Exists(r)

\* validate_auth_session, the part that reads: ownership, active, not expired.
IsValid(s, c) == OwnedBy(s, c) /\ session[s].active /\ s \notin lapsed

(***************************************************************************)
(* Rows and events change together, in one transaction.                    *)
(***************************************************************************)
Opened(c) == [owner |-> c, active |-> TRUE, reason |-> ""]
Ended(row, reason) == [row EXCEPT !.active = FALSE, !.reason = reason]

\* create_auth_session with its event
CreateSession(s, c, event) ==
    /\ NextSession(s)
    /\ session' = [session EXCEPT ![s] = Opened(c)]
    /\ audit' = [audit EXCEPT ![s] = <<event>>]
    /\ UNCHANGED lapsed

End(ended, reason, event) ==
    /\ session' = [s \in Sessions |-> IF s \in ended THEN Ended(session[s], reason) ELSE session[s]]
    /\ audit' = [s \in Sessions |-> IF s \in ended THEN Append(audit[s], event) ELSE audit[s]]
    /\ UNCHANGED lapsed

\* Mutation of ExpireSession: it relies on what the caller read before the lock.
ExpireUnchecked(s) == End({s}, "expired", "session_expired")

\* expire_auth_session looks again under the lock.
ExpireSession(s) ==
    End(IF session[s].active /\ s \in lapsed THEN {s} ELSE {}, "expired", "session_expired")

\* revoke_auth_session: a session of the customer, and only while it is active.
RevokeSession(s, c, reason, event) ==
    /\ OwnedBy(s, c)
    /\ End(IF session[s].active THEN {s} ELSE {}, reason, event)

\* revoke_all_customer_sessions
RevokeAllSessions(c, reason) == End(ActiveOf(c), reason, "session_revoked")

\* Mutation of ReplaceSessions: the sessions found survive.
AddSession(s, c, found) == found \subseteq Sessions /\ CreateSession(s, c, "password_reset")

\* What a password reset commits: the sessions it found and locked are revoked,
\* those still active at least, and one is created.
ReplaceSessions(s, c, found) ==
    LET ended == found \cap ActiveOf(c) IN
    /\ NextSession(s)
    /\ session' = [r \in Sessions |->
          IF r = s THEN Opened(c)
          ELSE IF r \in ended THEN Ended(session[r], "password_reset") ELSE session[r]]
    /\ audit' = [r \in Sessions |->
          IF r = s THEN <<"password_reset">>
          ELSE IF r \in ended THEN Append(audit[r], "session_revoked") ELSE audit[r]]
    /\ UNCHANGED lapsed

\* touch_auth_session: one UPDATE, of the activity column only, which is shown to
\* the administration and decides nothing.
TouchSession == UNCHANGED sessionVars

(***************************************************************************)
(* Time.                                                                   *)
(***************************************************************************)
SessionLapses(s) ==
    /\ session[s].active /\ s \notin lapsed
    /\ lapsed' = lapsed \cup {s}
    /\ UNCHANGED <<session, audit>>

SessionTimePasses == \E s \in Sessions : SessionLapses(s)
=============================================================================
