-------------------------- MODULE Accounts_proofs ---------------------------
(***************************************************************************)
(* Proofs about the accounts: the sessions of customers (Accounts) and the *)
(* codes that are sent to them (OneTimeCodes).                             *)
(***************************************************************************)
EXTENDS Accounts, OneTimeCodes, SequenceTheorems, SetLemmas

-----------------------------------------------------------------------------
(***************************************************************************)
(* Proofs about Accounts for any customers, requests and sessions.  Every  *)
(* step leaves the sessions alone, opens one that did not exist, ends some *)
(* that were active, or does the last two at once (a password reset), and  *)
(* the invariant about the tables is shown to survive each of the four.    *)
(***************************************************************************)

\* A session that is active has an owner.
ActiveHaveOwners == \A s \in Sessions : session[s].active => Exists(s)

\* A session that a reset has left behind was one.
OutdatedExist == \A s \in outdated : Exists(s)

SessionInv ==
    /\ SessionsTypeOK /\ outdated \subseteq Sessions
    /\ ActiveHaveOwners /\ AuditTellsTheStory
    /\ OutdatedExist /\ NoSessionOutlivesReset

\* The sessions that a reset saw are its customer's, and those still active are
\* the ones it goes on to end.
LooksHold ==
    \A r \in Requests : request[r].work = "replace" =>
        \A s \in request[r].older : /\ OwnedBy(s, request[r].customer)
                                    /\ session[s].active => s \in request[r].found

AccountsInv == AccountsTypeOK /\ SessionInv /\ LooksHold

\* What an ended session is may not change any more, nor whose a session is.
EndedStay == \A s \in Sessions : Exists(s) /\ ~session[s].active => session'[s] = session[s]
OwnersStay == \A s \in Sessions : Exists(s) => session'[s].owner = session[s].owner
RowsGoOn == EndedStay /\ OwnersStay

LEMMA NoOwnerIsNone == NoOwner \notin Customers
BY SessionsAssumption

LEMMA AccountsInvInit == AccountsInit => AccountsInv
<1> SUFFICES ASSUME AccountsInit PROVE AccountsInv
  OBVIOUS
<1>1. SessionsTypeOK
  <2>1. NoSession \in SessionRows
    BY DEF NoSession, SessionRows, Reasons
  <2>2. <<>> \in Seq(OpeningEvents \cup ClosingEvents)
    OBVIOUS
  <2> QED
    BY <2>1, <2>2 DEF AccountsInit, SessionsInit, SessionsTypeOK
<1>2. customer \in [Customers -> CustomerRows]
  <2>1. NoCustomer \in CustomerRows /\ \A password \in BOOLEAN : KnownCustomer(password) \in CustomerRows
    BY DEF NoCustomer, KnownCustomer, CustomerRows
  <2> QED
    BY <2>1 DEF AccountsInit, CustomersInit
<1>3. outdated = {} /\ request \in [Requests -> RequestStates] /\ LooksHold
  BY DEF AccountsInit, RequestStates, LooksHold, Idle
<1>4. ActiveHaveOwners /\ AuditTellsTheStory /\ OutdatedExist /\ NoSessionOutlivesReset
  BY <1>3 DEF AccountsInit, SessionsInit, NoSession, ActiveHaveOwners, AuditTellsTheStory,
         OutdatedExist, NoSessionOutlivesReset, Exists
<1> QED
  BY <1>1, <1>2, <1>3, <1>4 DEF AccountsInv, AccountsTypeOK, SessionInv

-----------------------------------------------------------------------------
(***************************************************************************)
(* What a step may do to the sessions.                                     *)
(***************************************************************************)
LEMMA SessionsRest ==
    ASSUME SessionInv, UNCHANGED <<session, audit, outdated>>, lapsed' \subseteq Sessions
    PROVE  SessionInv' /\ RowsGoOn
BY DEF SessionInv, SessionsTypeOK, ActiveHaveOwners, AuditTellsTheStory, OutdatedExist,
       NoSessionOutlivesReset, Exists, ClosingOf, RowsGoOn, EndedStay, OwnersStay

LEMMA SessionOpens ==
    ASSUME SessionInv, NEW s \in Sessions, NEW c \in Customers, NEW event \in OpeningEvents,
           CreateSession(s, c, event), UNCHANGED outdated
    PROVE  SessionInv' /\ RowsGoOn
<1>1. ~Exists(s) /\ session' = [session EXCEPT ![s] = Opened(c)]
      /\ audit' = [audit EXCEPT ![s] = <<event>>]
  BY DEF CreateSession, NextSession
<1>2. Opened(c) \in SessionRows
  BY DEF Opened, SessionRows, Reasons
<1>3. <<event>> \in Seq(OpeningEvents \cup ClosingEvents) /\ <<event>>[1] = event
      /\ Tail(<<event>>) = <<>> /\ <<event>> # <<>>
  OBVIOUS
<1>4. SessionsTypeOK'
  BY <1>1, <1>2, <1>3 DEF SessionInv, SessionsTypeOK, CreateSession
<1>5. ActiveHaveOwners' /\ OutdatedExist' /\ NoSessionOutlivesReset'
  BY <1>1, NoOwnerIsNone DEF SessionInv, SessionsTypeOK, ActiveHaveOwners,
     OutdatedExist, NoSessionOutlivesReset, Opened, Exists
<1>6. AuditTellsTheStory'
  <2> SUFFICES ASSUME NEW r \in Sessions, Exists(r)'
               PROVE  /\ audit'[r] # <<>> /\ audit'[r][1] \in OpeningEvents
                      /\ Tail(audit'[r]) = IF session'[r].active THEN <<>>
                                           ELSE <<ClosingOf(session'[r].reason)>>
    BY DEF AuditTellsTheStory, ClosingOf
  <2>1. CASE r = s
    BY <2>1, <1>1, <1>3 DEF SessionInv, SessionsTypeOK, Opened
  <2>2. CASE r # s
    BY <2>2, <1>1 DEF SessionInv, SessionsTypeOK, AuditTellsTheStory, Exists
  <2> QED
    BY <2>1, <2>2
<1>7. RowsGoOn
  BY <1>1 DEF SessionInv, SessionsTypeOK, RowsGoOn, EndedStay, OwnersStay
<1> QED
  BY <1>4, <1>5, <1>6, <1>7 DEF SessionInv

\* One more event after an opening one.
LEMMA ClosedTrail ==
    ASSUME NEW E, NEW trail \in Seq(E), trail # <<>>, Tail(trail) = <<>>, NEW event \in E
    PROVE  /\ Append(trail, event) \in Seq(E) /\ Append(trail, event) # <<>>
           /\ Append(trail, event)[1] = trail[1]
           /\ Tail(Append(trail, event)) = <<event>>
<1>1. Len(trail) = 1
  <2>1. Len(Tail(trail)) = 0 /\ Len(trail) \in Nat
    BY EmptySeq, LenProperties
  <2> QED
    BY <2>1, HeadTailProperties
<1>2. Append(trail, event)[1] = trail[1]
  BY <1>1, AppendProperties
<1>3. Tail(Append(trail, event)) = Append(<<>>, event)
  BY HeadTailAppend
<1>4. Append(<<>>, event) = <<event>>
  OBVIOUS
<1> QED
  BY <1>2, <1>3, <1>4, AppendProperties

\* Sessions that are ended at once, and for one reason.
LEMMA SessionsEnd ==
    ASSUME SessionInv, NEW ended \in SUBSET Sessions, \A s \in ended : session[s].active,
           NEW reason \in Reasons, NEW event \in ClosingEvents, event = ClosingOf(reason),
           End(ended, reason, event), UNCHANGED outdated
    PROVE  SessionInv' /\ RowsGoOn
<1> USE DEF SessionInv, SessionsTypeOK
<1>1. \A s \in Sessions \ ended : session'[s] = session[s] /\ audit'[s] = audit[s]
  BY DEF End
<1>2. \A s \in ended : /\ session'[s] = Ended(session[s], reason)
                       /\ audit'[s] = Append(audit[s], event)
                       /\ Exists(s)
  BY DEF End, ActiveHaveOwners
<1>3. \A s \in ended : session'[s] \in SessionRows /\ session'[s].owner = session[s].owner
                       /\ ~session'[s].active /\ session'[s].reason = reason
  <2> SUFFICES ASSUME NEW s \in ended
               PROVE  session'[s] \in SessionRows /\ session'[s].owner = session[s].owner
                      /\ ~session'[s].active /\ session'[s].reason = reason
    OBVIOUS
  <2>1. session[s] \in SessionRows
    OBVIOUS
  <2>2. session'[s] = [session[s] EXCEPT !.active = FALSE, !.reason = reason]
    BY <1>2 DEF Ended
  <2> QED
    BY <2>1, <2>2 DEF SessionRows
<1>4. \A s \in ended : audit'[s] \in Seq(OpeningEvents \cup ClosingEvents)
                       /\ audit'[s] # <<>> /\ audit'[s][1] \in OpeningEvents
                       /\ Tail(audit'[s]) = <<event>>
  <2> SUFFICES ASSUME NEW s \in ended
               PROVE  audit'[s] \in Seq(OpeningEvents \cup ClosingEvents)
                      /\ audit'[s] # <<>> /\ audit'[s][1] \in OpeningEvents
                      /\ Tail(audit'[s]) = <<event>>
    OBVIOUS
  <2>1. audit[s] # <<>> /\ audit[s][1] \in OpeningEvents /\ Tail(audit[s]) = <<>>
    BY <1>2 DEF AuditTellsTheStory
  <2>2. audit[s] \in Seq(OpeningEvents \cup ClosingEvents)
        /\ event \in OpeningEvents \cup ClosingEvents
    OBVIOUS
  <2>3. audit'[s] = Append(audit[s], event)
    BY <1>2
  <2> HIDE DEF SessionInv, SessionsTypeOK
  <2> QED
    BY <2>1, <2>2, <2>3, ClosedTrail
<1>5. SessionsTypeOK'
  BY <1>1, <1>3, <1>4 DEF End
<1>6. ActiveHaveOwners' /\ OutdatedExist' /\ NoSessionOutlivesReset'
  BY <1>1, <1>2, <1>3 DEF ActiveHaveOwners, OutdatedExist, NoSessionOutlivesReset, Exists
<1>7. AuditTellsTheStory'
  <2> SUFFICES ASSUME NEW r \in Sessions, Exists(r)'
               PROVE  /\ audit'[r] # <<>> /\ audit'[r][1] \in OpeningEvents
                      /\ Tail(audit'[r]) = IF session'[r].active THEN <<>>
                                           ELSE <<ClosingOf(session'[r].reason)>>
    BY DEF AuditTellsTheStory, ClosingOf
  <2>1. CASE r \in ended
    BY <2>1, <1>3, <1>4
  <2>2. CASE r \notin ended
    BY <2>2, <1>1 DEF AuditTellsTheStory, Exists
  <2> QED
    BY <2>1, <2>2
<1>8. RowsGoOn
  BY <1>1, <1>3 DEF RowsGoOn, EndedStay, OwnersStay
<1> QED
  BY <1>5, <1>6, <1>7, <1>8

\* A password reset: the sessions found end, one is opened.
LEMMA SessionsReplaced ==
    ASSUME SessionInv, NEW s \in Sessions, NEW c \in Customers,
           NEW found \in SUBSET Sessions, ReplaceSessions(s, c, found),
           NEW older \in SUBSET SessionsOf(c), \A q \in older : session[q].active => q \in found,
           outdated' = outdated \cup older
    PROVE  SessionInv' /\ RowsGoOn
<1>0. PICK gone \in SUBSET Sessions : gone = found \cap ActiveOf(c)
  OBVIOUS
<1> USE DEF SessionInv, SessionsTypeOK
<1>1. ~Exists(s) /\ s \notin gone
  BY <1>0, NoOwnerIsNone DEF ReplaceSessions, NextSession, ActiveOf, SessionsOf, OwnedBy, Exists
<1>2. session'[s] = Opened(c) /\ audit'[s] = <<"password_reset">>
      /\ session'[s].owner = c /\ session'[s].active
  <2>1. session'[s] = Opened(c) /\ audit'[s] = <<"password_reset">>
    BY DEF ReplaceSessions
  <2>2. Opened(c).owner = c /\ Opened(c).active
    BY DEF Opened
  <2> HIDE DEF SessionInv, SessionsTypeOK
  <2> QED
    BY <2>1, <2>2
<1>3. \A r \in gone : /\ session'[r] = Ended(session[r], "password_reset")
                      /\ audit'[r] = Append(audit[r], "session_revoked")
                      /\ session[r].active
  BY <1>0, <1>1 DEF ReplaceSessions, ActiveOf
<1>4. \A r \in Sessions \ ({s} \cup gone) : session'[r] = session[r] /\ audit'[r] = audit[r]
  BY <1>0 DEF ReplaceSessions
<1>5. \A r \in gone : session'[r] \in SessionRows /\ session'[r].owner = session[r].owner
                             /\ ~session'[r].active /\ session'[r].reason = "password_reset"
  <2> HIDE DEF SessionInv
  <2>1. session \in [Sessions -> SessionRows] 
    BY DEF SessionInv
  <2>2. \A r \in gone : session'[r] = Ended(session[r], "password_reset")
    BY <1>3
  <2>3. \A row \in SessionRows : LET ended == Ended(row, "password_reset") IN
            /\ ended \in SessionRows /\ ended.owner = row.owner
            /\ ~ended.active /\ ended.reason = "password_reset"
    BY DEF Ended, SessionRows, Reasons
  <2> HIDE DEF SessionsTypeOK
  <2> QED
    BY <2>1, <2>2, <2>3
<1>6. \A r \in gone : audit'[r] \in Seq(OpeningEvents \cup ClosingEvents)
                             /\ audit'[r] # <<>> /\ audit'[r][1] \in OpeningEvents
                             /\ Tail(audit'[r]) = <<"session_revoked">>
  <2> SUFFICES ASSUME NEW r \in gone
               PROVE  audit'[r] \in Seq(OpeningEvents \cup ClosingEvents)
                      /\ audit'[r] # <<>> /\ audit'[r][1] \in OpeningEvents
                      /\ Tail(audit'[r]) = <<"session_revoked">>
    OBVIOUS
  <2>1. audit[r] # <<>> /\ audit[r][1] \in OpeningEvents /\ Tail(audit[r]) = <<>>
    BY <1>3 DEF ActiveHaveOwners, AuditTellsTheStory
  <2>2. audit[r] \in Seq(OpeningEvents \cup ClosingEvents)
        /\ "session_revoked" \in OpeningEvents \cup ClosingEvents
    BY DEF ClosingEvents
  <2>3. audit'[r] = Append(audit[r], "session_revoked")
    BY <1>3
  <2> HIDE DEF SessionInv, SessionsTypeOK
  <2> QED
    BY <2>1, <2>2, <2>3, ClosedTrail
<1>7. Opened(c) \in SessionRows
  BY DEF Opened, SessionRows, Reasons
<1>8. <<"password_reset">> \in Seq(OpeningEvents \cup ClosingEvents)
      /\ <<"password_reset">>[1] \in OpeningEvents
      /\ Tail(<<"password_reset">>) = <<>> /\ <<"password_reset">> # <<>>
  BY DEF OpeningEvents
<1>9. SessionsTypeOK'
  <2>1. \A r \in Sessions : session'[r] \in SessionRows
                            /\ audit'[r] \in Seq(OpeningEvents \cup ClosingEvents)
    BY <1>2, <1>4, <1>5, <1>6, <1>7, <1>8
  <2> QED
    BY <2>1, <1>0, <1>7 DEF ReplaceSessions
<1>10. ActiveHaveOwners'
  BY <1>2, <1>4, <1>5, NoOwnerIsNone DEF ActiveHaveOwners, Exists
<1>12. RowsGoOn
  BY <1>1, <1>3, <1>4, <1>5 DEF RowsGoOn, EndedStay, OwnersStay
<1>13. outdated' \subseteq Sessions /\ OutdatedExist' /\ NoSessionOutlivesReset'
  <2>1. \A r \in outdated' : r \in Sessions /\ Exists(r)
    BY NoOwnerIsNone DEF OutdatedExist, SessionsOf, OwnedBy, Exists
  <2>2. \A r \in outdated' : Exists(r)'
    BY <2>1, <1>12 DEF RowsGoOn, OwnersStay, Exists
  <2>3. ASSUME NEW r \in outdated' PROVE ~session'[r].active
    <3>1. CASE ~session[r].active
      BY <2>1, <3>1, <1>12 DEF RowsGoOn, EndedStay
    <3>2. CASE session[r].active
      <4>1. r \in gone
        BY <3>2, <1>0 DEF NoSessionOutlivesReset, ActiveOf
      <4> QED
        BY <4>1, <1>5
    <3> QED
      BY <3>1, <3>2
  <2> QED
    BY <2>1, <2>2, <2>3 DEF OutdatedExist, NoSessionOutlivesReset
<1>11. AuditTellsTheStory'
  <2> SUFFICES ASSUME NEW r \in Sessions, Exists(r)'
               PROVE  /\ audit'[r] # <<>> /\ audit'[r][1] \in OpeningEvents
                      /\ Tail(audit'[r]) = IF session'[r].active THEN <<>>
                                           ELSE <<ClosingOf(session'[r].reason)>>
    BY DEF AuditTellsTheStory, ClosingOf
  <2>1. CASE r = s
    BY <2>1, <1>2, <1>8
  <2>2. CASE r \in gone
    BY <2>2, <1>5, <1>6 DEF ClosingOf
  <2>3. CASE r \notin {s} \cup gone
    BY <2>3, <1>4 DEF AuditTellsTheStory, Exists
  <2> QED
    BY <2>1, <2>2, <2>3
<1> QED
  BY <1>9, <1>10, <1>11, <1>12, <1>13

-----------------------------------------------------------------------------
(***************************************************************************)
(* What each step does.                                                    *)
(***************************************************************************)
\* What a request that is under way carries.
LEMMA Carries ==
    ASSUME AccountsTypeOK, NEW r \in Requests
    PROVE  /\ request[r].work \in {"register", "reset_password"} =>
                 request[r].customer \in Customers /\ request[r].row \in CustomerRows
           /\ request[r].work = "log_in" => request[r].customer \in Customers
           /\ request[r].work = "replace" =>
                 /\ request[r].customer \in Customers
                 /\ request[r].found \in SUBSET Sessions /\ request[r].older \in SUBSET Sessions
           /\ request[r].work \in {"expire", "touch", "inside"} => request[r].session \in Sessions
<1>1. request[r] \in RequestStates
  BY DEF AccountsTypeOK
<1> QED
  BY <1>1 DEF RequestStates, Idle

LEMMA GoesOn ==
    ASSUME AccountsTypeOK, NEW r \in Requests, NEW next \in RequestStates, GoOn(r, next)
    PROVE  request' \in [Requests -> RequestStates]
BY DEF AccountsTypeOK, GoOn

LEMMA Finishes ==
    ASSUME AccountsTypeOK, NEW r \in Requests, Finish(r)
    PROVE  request' \in [Requests -> RequestStates]
<1>1. Idle \in RequestStates
  BY DEF RequestStates
<1> QED
  BY <1>1, GoesOn DEF Finish

\* One session of a customer is ended, if it is active.
LEMMA OneEnds ==
    ASSUME SessionInv, NEW s \in Sessions, NEW reason \in Reasons, NEW event \in ClosingEvents,
           event = ClosingOf(reason), NEW needed \in BOOLEAN,
           End(IF session[s].active /\ needed THEN {s} ELSE {}, reason, event), UNCHANGED outdated
    PROVE  SessionInv' /\ RowsGoOn
<1> DEFINE ended == IF session[s].active /\ needed THEN {s} ELSE {}
<1>1. ended \in SUBSET Sessions /\ \A q \in ended : session[q].active
  OBVIOUS
<1>2. End(ended, reason, event)
  OBVIOUS
<1> HIDE DEF ended
<1> QED
  BY <1>1, <1>2, SessionsEnd

LEMMA Revoked ==
    ASSUME SessionInv, NEW s \in Sessions, NEW c, NEW reason \in {"logout", "security"},
           RevokeSession(s, c, reason, ClosingOf(reason)), UNCHANGED outdated
    PROVE  SessionInv' /\ RowsGoOn
<1>1. reason \in Reasons /\ ClosingOf(reason) \in ClosingEvents
  BY DEF Reasons, ClosingOf, ClosingEvents
<1>2. End(IF session[s].active /\ TRUE THEN {s} ELSE {}, reason, ClosingOf(reason))
  BY DEF RevokeSession
<1> QED
  BY <1>1, <1>2, OneEnds

LEMMA AllRevoked ==
    ASSUME SessionInv, NEW c, NEW reason \in {"revoke_all", "security"},
           RevokeAllSessions(c, reason), UNCHANGED outdated
    PROVE  SessionInv' /\ RowsGoOn
<1>1. reason \in Reasons /\ "session_revoked" = ClosingOf(reason)
      /\ "session_revoked" \in ClosingEvents
  BY DEF Reasons, ClosingOf, ClosingEvents
<1>2. ActiveOf(c) \in SUBSET Sessions /\ \A s \in ActiveOf(c) : session[s].active
  BY DEF ActiveOf, SessionsOf
<1>3. End(ActiveOf(c), reason, "session_revoked")
  BY DEF RevokeAllSessions
<1> QED
  BY <1>1, <1>2, <1>3, SessionsEnd

LEMMA SessionsKept == AccountsInv /\ AccountsNext => SessionInv' /\ RowsGoOn
<1> SUFFICES ASSUME AccountsInv, AccountsNext
             PROVE  SessionInv' /\ RowsGoOn
  OBVIOUS
<1>0. SessionInv /\ AccountsTypeOK /\ lapsed \subseteq Sessions
  BY DEF AccountsInv, SessionInv, SessionsTypeOK
<1>1. ASSUME NEW r \in Requests,
             \/ \E c \in Customers : StartRegistration(r, c) \/ CheckPassword(r, c) \/ StartReset(r, c)
             \/ RegistrationFails(r) \/ ResetFails(r)
             \/ \E s \in Sessions : Authenticate(r, s)
             \/ LookForSessions(r) \/ RefreshToken(r) \/ RequestDies(r)
      PROVE  SessionInv' /\ RowsGoOn
  <2>1. UNCHANGED <<session, audit, outdated, lapsed>>
    BY <1>1 DEF StartRegistration, CheckPassword, StartReset, RegistrationFails, ResetFails,
       Authenticate, LookForSessions, RefreshToken, RequestDies, tables, sessionVars
  <2> QED
    BY <2>1, <1>0, SessionsRest
<1>2. ASSUME NEW r \in Requests, Register(r) PROVE SessionInv' /\ RowsGoOn
  <2>1. request[r].customer \in Customers
    BY <1>0, <1>2, Carries DEF Register
  <2>2. "registered" \in OpeningEvents
    BY DEF OpeningEvents
  <2> QED
    BY <1>0, <1>2, <2>1, <2>2, SessionOpens DEF Register
<1>3. ASSUME NEW r \in Requests, LogIn(r) PROVE SessionInv' /\ RowsGoOn
  <2>1. request[r].customer \in Customers
    BY <1>0, <1>3, Carries DEF LogIn
  <2>2. "login_success" \in OpeningEvents
    BY DEF OpeningEvents
  <2> QED
    BY <1>0, <1>3, <2>1, <2>2, SessionOpens DEF LogIn
<1>4. ASSUME NEW r \in Requests, ResetPassword(r) PROVE SessionInv' /\ RowsGoOn
  <2>1. PICK c \in Customers, found \in SUBSET Sessions, older \in SUBSET Sessions :
              /\ request[r].work = "replace" /\ request[r].customer = c
              /\ request[r].found = found /\ request[r].older = older
    BY <1>0, <1>4, Carries DEF ResetPassword
  <2>2. older \in SUBSET SessionsOf(c) /\ \A q \in older : session[q].active => q \in found
    BY <2>1 DEF AccountsInv, LooksHold, SessionsOf
  <2>3. PICK s \in Sessions : ReplaceSessions(s, c, found)
    BY <1>4, <2>1 DEF ResetPassword
  <2>4. outdated' = outdated \cup older
    BY <1>4, <2>1 DEF ResetPassword
  <2> QED
    BY <1>0, <2>2, <2>3, <2>4, SessionsReplaced
<1>5. ASSUME NEW r \in Requests, Expire(r) PROVE SessionInv' /\ RowsGoOn
  <2>1. request[r].session \in Sessions
    BY <1>0, <1>5, Carries DEF Expire
  <2>2. PICK s \in Sessions : ExpireSession(s)
    BY <1>5, <2>1 DEF Expire
  <2>3. "expired" \in Reasons /\ "session_expired" \in ClosingEvents
        /\ "session_expired" = ClosingOf("expired")
    BY DEF Reasons, ClosingEvents, ClosingOf
  <2>4. UNCHANGED outdated
    BY <1>5 DEF Expire
  <2>5. PICK needed \in BOOLEAN : needed <=> s \in lapsed
    OBVIOUS
  <2>6. End(IF session[s].active /\ needed THEN {s} ELSE {}, "expired", "session_expired")
    BY <2>2, <2>5 DEF ExpireSession
  <2> QED
    BY <1>0, <2>3, <2>4, <2>6, OneEnds
<1>6. ASSUME NEW r \in Requests, Touch(r) PROVE SessionInv' /\ RowsGoOn
  <2>1. UNCHANGED <<session, audit, outdated, lapsed>>
    BY <1>0, <1>6 DEF Touch, TouchSession, sessionVars
  <2> QED
    BY <1>0, <2>1, SessionsRest
<1>7. ASSUME NEW r \in Requests, LogOut(r) \/ RevokeOne(r) PROVE SessionInv' /\ RowsGoOn
  <2>1. UNCHANGED outdated
    BY <1>7 DEF LogOut, RevokeOne
  <2>2. PICK s \in Sessions, c \in {session[s2].owner : s2 \in Sessions} :
              \/ RevokeSession(s, c, "logout", "logout")
              \/ RevokeSession(s, c, "security", "session_revoked")
    BY <1>0, <1>7, Carries DEF LogOut, RevokeOne, MayEnd, Inside, Caller
  <2>3. ClosingOf("logout") = "logout" /\ ClosingOf("security") = "session_revoked"
    BY DEF ClosingOf
  <2>4. CASE RevokeSession(s, c, "logout", "logout")
    BY <1>0, <2>1, <2>3, <2>4, Revoked
  <2>5. CASE RevokeSession(s, c, "security", "session_revoked")
    BY <1>0, <2>1, <2>3, <2>5, Revoked
  <2> QED
    BY <2>2, <2>4, <2>5
<1>8. ASSUME NEW r \in Requests, RevokeAll(r) PROVE SessionInv' /\ RowsGoOn
  BY <1>0, <1>8, AllRevoked DEF RevokeAll
<1>9. ASSUME NEW c \in Customers, AdminRevokes(c) PROVE SessionInv' /\ RowsGoOn
  <2>1. UNCHANGED outdated
    BY <1>9 DEF AdminRevokes
  <2>2. ClosingOf("security") = "session_revoked"
    BY DEF ClosingOf
  <2>3. CASE \E s \in Sessions : RevokeSession(s, c, "security", "session_revoked")
    BY <1>0, <2>1, <2>2, <2>3, Revoked
  <2>4. CASE RevokeAllSessions(c, "security")
    BY <1>0, <2>1, <2>4, AllRevoked
  <2> QED
    BY <1>9, <2>3, <2>4 DEF AdminRevokes
<1>10. ASSUME NEW c \in Customers, AdminEdits(c) PROVE SessionInv' /\ RowsGoOn
  BY <1>0, <1>10, SessionsRest DEF AdminEdits, sessionVars
<1>11. ASSUME SessionTimePasses, UNCHANGED <<customer, outdated, request>>
       PROVE  SessionInv' /\ RowsGoOn
  BY <1>0, <1>11, SessionsRest DEF SessionTimePasses, SessionLapses
<1> QED
  BY <1>1, <1>2, <1>3, <1>4, <1>5, <1>6, <1>7, <1>8, <1>9, <1>10, <1>11
  DEF AccountsNext, CredentialStep, SessionStep

\* The customer rows and the requests keep their types.
LEMMA RowsKept ==
    AccountsInv /\ AccountsNext =>
        customer' \in [Customers -> CustomerRows] /\ request' \in [Requests -> RequestStates]
<1> SUFFICES ASSUME AccountsInv, AccountsNext
             PROVE  customer' \in [Customers -> CustomerRows]
                    /\ request' \in [Requests -> RequestStates]
  OBVIOUS
<1> DEFINE Kept == customer' \in [Customers -> CustomerRows]
                   /\ request' \in [Requests -> RequestStates]
<1>0. /\ AccountsTypeOK
      /\ customer \in [Customers -> CustomerRows] /\ request \in [Requests -> RequestStates]
      /\ session \in [Sessions -> SessionRows]
  BY DEF AccountsInv, AccountsTypeOK, SessionsTypeOK
<1>1. ASSUME NEW r \in Requests, NEW c \in Customers,
             StartRegistration(r, c) \/ CheckPassword(r, c) \/ StartReset(r, c)
      PROVE  Kept
  <2>1. PICK next \in RequestStates : GoOn(r, next)
    BY <1>0, <1>1 DEF StartRegistration, CheckPassword, StartReset, RequestStates
  <2> QED
    BY <1>0, <1>1, <2>1, GoesOn DEF StartRegistration, CheckPassword, StartReset, tables
<1>2. ASSUME NEW r \in Requests, Register(r) PROVE Kept
  <2>1. request[r].customer \in Customers /\ request[r].row \in CustomerRows
    BY <1>0, <1>2, Carries DEF Register
  <2>2. [request[r].row EXCEPT !.exists = TRUE, !.password = TRUE] \in CustomerRows
    BY <2>1 DEF CustomerRows
  <2>3. customer' \in [Customers -> CustomerRows]
    BY <1>0, <1>2, <2>1, <2>2 DEF Register
  <2> QED
    BY <1>0, <1>2, <2>3, Finishes DEF Register
<1>3. ASSUME NEW r \in Requests, ResetPassword(r) PROVE Kept
  <2>1. PICK c \in Customers : c = request[r].customer
    BY <1>0, <1>3, Carries DEF ResetPassword
  <2>2. [customer[c] EXCEPT !.password = TRUE] \in CustomerRows
    BY <1>0 DEF CustomerRows
  <2>3. customer' = [customer EXCEPT ![c] = [customer[c] EXCEPT !.password = TRUE]]
    BY <1>3, <2>1 DEF ResetPassword
  <2> QED
    BY <1>0, <1>3, <2>2, <2>3, Finishes DEF ResetPassword
<1>10. ASSUME NEW r \in Requests, LookForSessions(r) PROVE Kept
  <2>1. PICK c \in Customers : c = request[r].customer
    BY <1>0, <1>10, Carries DEF LookForSessions
  <2>2. [work |-> "replace", customer |-> c, found |-> ActiveOf(c), older |-> SessionsOf(c)]
            \in RequestStates
    BY DEF RequestStates, ActiveOf, SessionsOf
  <2>3. GoOn(r, [work |-> "replace", customer |-> c,
                 found |-> ActiveOf(c), older |-> SessionsOf(c)])
    BY <1>10, <2>1 DEF LookForSessions
  <2> QED
    BY <1>0, <1>10, <2>2, <2>3, GoesOn DEF LookForSessions, tables
<1>4. ASSUME NEW r \in Requests,
             \/ RegistrationFails(r) \/ LogIn(r) \/ ResetFails(r) \/ Expire(r) \/ LogOut(r)
             \/ RevokeOne(r) \/ RevokeAll(r) \/ RefreshToken(r) \/ RequestDies(r)
      PROVE  Kept
  <2>1. Finish(r) /\ UNCHANGED customer
    BY <1>4 DEF RegistrationFails, LogIn, ResetFails, Expire, LogOut, RevokeOne, RevokeAll,
       RefreshToken, RequestDies, tables
  <2> QED
    BY <1>0, <2>1, Finishes
<1>5. ASSUME NEW r \in Requests, NEW s \in Sessions, Authenticate(r, s) PROVE Kept
  <2>1. PICK work \in {"expire", "touch"} :
              GoOn(r, [work |-> work, session |-> s])
    BY <1>5 DEF Authenticate
  <2>2. [work |-> work, session |-> s] \in RequestStates
    BY <1>0 DEF RequestStates
  <2> QED
    BY <1>0, <1>5, <2>1, <2>2, GoesOn DEF Authenticate, tables
<1>6. ASSUME NEW r \in Requests, Touch(r) PROVE Kept
  <2>1. request[r].session \in Sessions
    BY <1>0, <1>6, Carries DEF Touch
  <2>2. [work |-> "inside", session |-> request[r].session] \in RequestStates
    BY <2>1 DEF RequestStates
  <2> QED
    BY <1>0, <1>6, <2>2, GoesOn DEF Touch
<1>7. ASSUME NEW c \in Customers, AdminRevokes(c) PROVE Kept
  BY <1>0, <1>7 DEF AdminRevokes
<1>8. ASSUME NEW c \in Customers, AdminEdits(c) PROVE Kept
  <2>1. PICK active \in BOOLEAN : SetActive(c, active)
    BY <1>8 DEF AdminEdits
  <2>2. [customer[c] EXCEPT !.active = active] \in CustomerRows
    BY <1>0 DEF CustomerRows
  <2>3. customer' = [customer EXCEPT ![c] = [customer[c] EXCEPT !.active = active]]
    BY <2>1 DEF SetActive
  <2> QED
    BY <1>0, <1>8, <2>2, <2>3 DEF AdminEdits
<1>9. ASSUME UNCHANGED <<customer, outdated, request>> PROVE Kept
  BY <1>0, <1>9
<1> HIDE DEF Kept
<1>11. Kept
  BY <1>1, <1>2, <1>3, <1>4, <1>5, <1>6, <1>7, <1>8, <1>9, <1>10
  DEF AccountsNext, CredentialStep, SessionStep
<1> QED
  BY <1>11 DEF Kept

\* What a reset has seen stays true of the sessions until it commits.
LEMMA LooksGoOn ==
    ASSUME AccountsInv, RowsGoOn,
           \A r \in Requests : request'[r].work = "replace" => request'[r] = request[r]
    PROVE  LooksHold'
<1> SUFFICES ASSUME NEW r \in Requests, request'[r].work = "replace",
                    NEW s \in request'[r].older
             PROVE  session'[s].owner = request'[r].customer
                    /\ (session'[s].active => s \in request'[r].found)
  BY DEF LooksHold, OwnedBy
<1>1. request'[r] = request[r] /\ request[r].customer \in Customers
      /\ request[r].older \in SUBSET Sessions
  BY Carries DEF AccountsInv
<1>2. session[s].owner = request[r].customer /\ (session[s].active => s \in request[r].found)
  BY <1>1 DEF AccountsInv, LooksHold, OwnedBy
<1>3. s \in Sessions /\ Exists(s)
  BY <1>1, <1>2, NoOwnerIsNone DEF Exists
<1>4. session'[s].owner = session[s].owner /\ (session'[s].active => session[s].active)
  BY <1>3 DEF RowsGoOn, EndedStay, OwnersStay
<1> QED
  BY <1>1, <1>2, <1>4

LEMMA LooksKept == AccountsInv /\ AccountsNext => LooksHold'
<1> SUFFICES ASSUME AccountsInv, AccountsNext PROVE LooksHold'
  OBVIOUS
<1>0. request \in [Requests -> RequestStates] /\ AccountsTypeOK /\ RowsGoOn
  BY SessionsKept DEF AccountsInv, AccountsTypeOK
<1> DEFINE Same == \A r \in Requests : request'[r].work = "replace" => request'[r] = request[r]
<1>1. ASSUME NEW r \in Requests, NEW next, next.work # "replace", GoOn(r, next) PROVE Same
  BY <1>0, <1>1 DEF GoOn
<1>2. ASSUME NEW r \in Requests, Finish(r) PROVE Same
  BY <1>1, <1>2 DEF Finish, Idle
<1>3. ASSUME NEW r \in Requests, NEW c \in Customers,
             StartRegistration(r, c) \/ CheckPassword(r, c) \/ StartReset(r, c)
      PROVE  Same
  <2>1. PICK next : next.work # "replace" /\ GoOn(r, next)
    BY <1>3 DEF StartRegistration, CheckPassword, StartReset
  <2> QED
    BY <1>1, <2>1
<1>4. ASSUME NEW r \in Requests,
             \/ Register(r) \/ RegistrationFails(r) \/ LogIn(r) \/ ResetPassword(r) \/ ResetFails(r)
             \/ Expire(r) \/ LogOut(r) \/ RevokeOne(r) \/ RevokeAll(r) \/ RefreshToken(r)
             \/ RequestDies(r)
      PROVE  Same
  <2>1. Finish(r)
    BY <1>4 DEF Register, RegistrationFails, LogIn, ResetPassword, ResetFails, Expire, LogOut,
       RevokeOne, RevokeAll, RefreshToken, RequestDies
  <2> QED
    BY <1>2, <2>1
<1>5. ASSUME NEW r \in Requests, NEW s \in Sessions, Authenticate(r, s) PROVE Same
  <2>1. PICK next : next.work # "replace" /\ GoOn(r, next)
    BY <1>5 DEF Authenticate
  <2> QED
    BY <1>1, <2>1
<1>6. ASSUME NEW r \in Requests, Touch(r) PROVE Same
  <2>1. PICK next : next.work # "replace" /\ GoOn(r, next)
    BY <1>6 DEF Touch
  <2> QED
    BY <1>1, <2>1
<1>7. ASSUME UNCHANGED request PROVE Same
  BY <1>7
<1>8. ASSUME NEW r \in Requests, LookForSessions(r) PROVE LooksHold'
  <2>1. PICK c \in Customers : c = request[r].customer
    BY <1>0, <1>8, Carries DEF LookForSessions
  <2>2. request'[r] = [work |-> "replace", customer |-> c,
                       found |-> ActiveOf(c), older |-> SessionsOf(c)]
        /\ \A q \in Requests : q # r => request'[q] = request[q]
    BY <1>0, <1>8, <2>1 DEF LookForSessions, GoOn
  <2>3. UNCHANGED session
    BY <1>8 DEF LookForSessions, tables, sessionVars
  <2>4. \A s \in SessionsOf(c) : session[s].owner = c /\ (session[s].active => s \in ActiveOf(c))
    BY DEF SessionsOf, ActiveOf, OwnedBy
  <2>5. request'[r].customer = c /\ request'[r].found = ActiveOf(c)
        /\ request'[r].older = SessionsOf(c)
    BY <2>2
  <2> SUFFICES ASSUME NEW q \in Requests, request'[q].work = "replace", NEW s \in request'[q].older
               PROVE  session[s].owner = request'[q].customer
                      /\ (session[s].active => s \in request'[q].found)
    BY <2>3 DEF LooksHold, OwnedBy
  <2>6. CASE q = r
    BY <2>4, <2>5, <2>6
  <2>7. CASE q # r
    BY <2>2, <2>7 DEF AccountsInv, LooksHold, OwnedBy
  <2> QED
    BY <2>6, <2>7
<1>9. Same => LooksHold'
  BY <1>0, LooksGoOn
<1> HIDE DEF Same
<1>10. CASE \E r \in Requests : CredentialStep(r) \/ SessionStep(r) \/ RequestDies(r)
  BY <1>3, <1>4, <1>5, <1>6, <1>8, <1>9, <1>10 DEF CredentialStep, SessionStep
<1>11. CASE \E c \in Customers : AdminRevokes(c) \/ AdminEdits(c)
  BY <1>7, <1>9, <1>11 DEF AdminRevokes, AdminEdits
<1>12. CASE SessionTimePasses /\ UNCHANGED <<customer, outdated, request>>
  BY <1>7, <1>9, <1>12
<1> QED
  BY <1>10, <1>11, <1>12 DEF AccountsNext

LEMMA AccountsStep ==
    AccountsInv /\ [AccountsNext]_accountVars => AccountsInv' /\ RowsGoOn
<1> SUFFICES ASSUME AccountsInv, [AccountsNext]_accountVars
             PROVE  AccountsInv' /\ RowsGoOn
  OBVIOUS
<1>1. CASE AccountsNext
  BY <1>1, SessionsKept, RowsKept, LooksKept DEF AccountsInv, AccountsTypeOK, SessionInv
<1>2. CASE UNCHANGED accountVars
  <2>1. UNCHANGED <<session, audit, outdated>> /\ lapsed' \subseteq Sessions
        /\ UNCHANGED <<customer, request>>
    BY <1>2 DEF AccountsInv, SessionInv, SessionsTypeOK, accountVars, sessionVars
  <2>2. SessionInv' /\ RowsGoOn
    BY <2>1, SessionsRest DEF AccountsInv
  <2>3. LooksHold'
    BY <2>1, <2>2, LooksGoOn
  <2> QED
    BY <2>1, <2>2, <2>3 DEF AccountsInv, AccountsTypeOK, SessionInv
<1> QED
  BY <1>1, <1>2

-----------------------------------------------------------------------------
LEMMA AccountsInvariant == AccountsSpec => []AccountsInv
BY AccountsInvInit, AccountsStep, PTL DEF AccountsSpec

\* Every row and every request keeps its type, whatever overlaps.
THEOREM AccountsTypes == AccountsSpec => []AccountsTypeOK
<1>1. AccountsInv => AccountsTypeOK
  BY DEF AccountsInv
<1> QED
  BY <1>1, AccountsInvariant, PTL

\* The audit trail of every session is one opening event and, once it has ended,
\* one closing event that names why (auth_audit.py).
THEOREM AuditIsTrue == AccountsSpec => []AuditTellsTheStory
<1>1. AccountsInv => AuditTellsTheStory
  BY DEF AccountsInv, SessionInv
<1> QED
  BY <1>1, AccountsInvariant, PTL

\* Once a password reset has committed, the sessions that existed when it looked
\* for the ones to end have all ended (ResetPasswordView).
THEOREM ResetIsABoundary == AccountsSpec => []NoSessionOutlivesReset
<1>1. AccountsInv => NoSessionOutlivesReset
  BY DEF AccountsInv, SessionInv
<1> QED
  BY <1>1, AccountsInvariant, PTL

\* Nothing writes a session row any more once the session has ended.
THEOREM SessionsEndForGood == AccountsSpec => EndedSessionsStayEnded
<1>1. AccountsInv /\ [AccountsNext]_accountVars
        => [\A s \in Sessions : Exists(s) /\ ~session[s].active => session'[s] = session[s]]_session
  BY AccountsStep DEF RowsGoOn, EndedStay
<1> QED
  BY <1>1, AccountsInvariant, PTL DEF AccountsSpec, EndedSessionsStayEnded

-----------------------------------------------------------------------------
(***************************************************************************)
(* Proofs about OneTimeCodes for any customers, purposes and requests.     *)
(* That the cooldown bounds a burst of codes rests on three facts: codes   *)
(* are made in the order of their numbers; the recent ones are the last    *)
(* ones made, so the newest unused code is recent if any unused one is;    *)
(* and a request that has passed the lookup is one that has not yet made   *)
(* its code.                                                               *)
(***************************************************************************)

MadeInOrder ==
    \A c \in Customers, p \in Purposes : \A m, n \in 1..MaxCodes :
        otp[<<c, p, n>>].made /\ m <= n => otp[<<c, p, m>>].made

RecentAreLast ==
    /\ \A k \in recent : otp[k].made
    /\ \A c \in Customers, p \in Purposes : \A m, n \in 1..MaxCodes :
           <<c, p, m>> \in recent /\ m <= n /\ otp[<<c, p, n>>].made => <<c, p, n>> \in recent

RecentUnused(c, p) == recent \cap Unused(c, p)
AboutToCreate(c, p) ==
    {r \in Senders : sender[r].at = "create" /\ sender[r].customer = c /\ sender[r].purpose = p}

BurstInv ==
    \A c \in Customers, p \in Purposes :
        Cardinality(RecentUnused(c, p)) + Cardinality(AboutToCreate(c, p)) <= Cardinality(Senders)

\* The counter of a code counts its use and nothing else: the wrong codes that
\* verify_otp counts before it raises are rolled back with their transaction.
OnlyUseIsCounted ==
    \A k \in Codes : otp[k].attempts = IF otp[k].used THEN 1 ELSE 0

CodesInv == CodesTypeOK /\ OnlyUseIsCounted /\ MadeInOrder /\ RecentAreLast

-----------------------------------------------------------------------------
LEMMA CodeParts ==
    ASSUME NEW k \in Codes
    PROVE  k[1] \in Customers /\ k[2] \in Purposes /\ k[3] \in 1..MaxCodes
           /\ k = <<k[1], k[2], k[3]>>
BY DEF Codes

\* If an unused code is recent, the newest one is.
LEMMA NewestIsRecent ==
    ASSUME CodesInv, NEW c \in Customers, NEW p \in Purposes, ~CoolingDown(c, p)
    PROVE  RecentUnused(c, p) = {}
<1> SUFFICES ASSUME NEW k \in RecentUnused(c, p) PROVE FALSE
  OBVIOUS
<1> DEFINE T == {n \in 1..MaxCodes : <<c, p, n>> \in Unused(c, p)}
<1>1. k \in Codes /\ k \in recent /\ k \in Unused(c, p) /\ k[1] = c /\ k[2] = p
  BY DEF RecentUnused, Unused
<1>2. k = <<c, p, k[3]>> /\ k[3] \in T
  BY <1>1, CodeParts
<1>3. PICK n \in T : \A m \in T : m <= n
  <2>1. MaxCodes \in Nat
    BY CodesAssumption
  <2>2. T \in SUBSET (1..MaxCodes) /\ T # {}
    BY <1>2
  <2> HIDE DEF T
  <2> QED
    BY <2>1, <2>2, Greatest
<1>4. \A j \in Unused(c, p) : j[3] \in T
  <2> SUFFICES ASSUME NEW j \in Unused(c, p) PROVE j[3] \in T
    OBVIOUS
  <2>1. j \in Codes /\ j[1] = c /\ j[2] = p
    BY DEF Unused
  <2> QED
    BY <2>1, CodeParts
<1>5. IsNewest(<<c, p, n>>, c, p)
  BY <1>3, <1>4 DEF IsNewest
<1>6. <<c, p, n>> \in recent
  <2>1. otp[<<c, p, n>>].made
    BY DEF Unused
  <2> QED
    BY <1>1, <1>2, <1>3, <2>1 DEF CodesInv, RecentAreLast
<1> QED
  BY <1>5, <1>6 DEF CoolingDown

-----------------------------------------------------------------------------
(***************************************************************************)
(* The rows, one step at a time.                                           *)
(***************************************************************************)
LEMMA CodesInvInit == CodesInit => CodesInv
<1> SUFFICES ASSUME CodesInit PROVE CodesInv
  OBVIOUS
<1>1. NoCode \in CodeRows /\ Resting \in SenderStates
  BY CodesAssumption DEF NoCode, CodeRows, Resting, SenderStates
<1>2. CodesTypeOK
  <2>1. 0 \in 0..MaxAttempts
    BY CodesAssumption
  <2> QED
    BY <1>1, <2>1 DEF CodesInit, CodesTypeOK
<1>3. OnlyUseIsCounted /\ RecentAreLast
  BY DEF CodesInit, NoCode, OnlyUseIsCounted, RecentAreLast
<1>4. MadeInOrder
  <2>1. \A c \in Customers, p \in Purposes : \A n \in 1..MaxCodes : ~otp[<<c, p, n>>].made
    BY DEF CodesInit, NoCode, Codes
  <2> QED
    BY <2>1 DEF MadeInOrder
<1> QED
  BY <1>2, <1>3, <1>4 DEF CodesInv

\* What does not touch the rows and only ends cooldowns in order.
LEMMA RowsRest ==
    ASSUME CodesInv, UNCHANGED <<otp, recent>>, CodesTypeOK'
    PROVE  CodesInv'
BY DEF CodesInv, OnlyUseIsCounted, MadeInOrder, RecentAreLast

LEMMA SenderGoes ==
    ASSUME CodesTypeOK, NEW r \in Senders, NEW next \in SenderStates, Goes(r, next)
    PROVE  sender' \in [Senders -> SenderStates]
BY DEF CodesTypeOK, Goes

\* A code is made, with the next number.
LEMMA RowMade ==
    ASSUME CodesInv, NEW r \in Senders, NEW k \in Codes, NextCode(k),
           otp' = [otp EXCEPT ![k].made = TRUE], recent' = recent \cup {k},
           Goes(r, [at |-> "send", code |-> k]), UNCHANGED <<expired, received, misses, proofs>>
    PROVE  CodesInv'
<1> USE DEF CodesInv, CodesTypeOK
<1> DEFINE made == [otp[k] EXCEPT !.made = TRUE]
<1>1. otp' = [otp EXCEPT ![k] = made]
  OBVIOUS
<1>2. made \in CodeRows /\ made.made /\ made.used = otp[k].used /\ made.attempts = otp[k].attempts
  BY DEF CodeRows
<1>3. otp' \in [Codes -> CodeRows] /\ otp'[k] = made /\ \A j \in Codes : j # k => otp'[j] = otp[j]
  <2> HIDE DEF made
  <2> QED
    BY <1>1, <1>2
<1> HIDE DEF made
<1>4. CodesTypeOK'
  <2>1. [at |-> "send", code |-> k] \in SenderStates
    BY DEF SenderStates
  <2> QED
    BY <1>3, <2>1, SenderGoes
<1>5. OnlyUseIsCounted'
  BY <1>2, <1>3 DEF OnlyUseIsCounted
<1>6. \A c \in Customers, p \in Purposes : \A n \in 1..MaxCodes : <<c, p, n>> \in Codes
  BY DEF Codes
<1>7. MadeInOrder'
  <2> SUFFICES ASSUME NEW c \in Customers, NEW p \in Purposes,
                      NEW m \in 1..MaxCodes, NEW n \in 1..MaxCodes,
                      otp'[<<c, p, n>>].made, m <= n
               PROVE  otp'[<<c, p, m>>].made
    BY DEF MadeInOrder
  <2>0. <<c, p, m>> \in Codes /\ <<c, p, n>> \in Codes
    BY <1>6
  <2>1. CASE <<c, p, m>> = k
    BY <2>1, <1>2, <1>3
  <2>2. CASE <<c, p, n>> = k /\ m < n
    <3>1. otp[<<c, p, m>>].made
      BY <2>2 DEF NextCode
    <3> QED
      BY <2>0, <3>1, <1>2, <1>3
  <2>3. CASE <<c, p, n>> # k /\ <<c, p, m>> # k
    BY <2>0, <2>3, <1>3 DEF MadeInOrder
  <2> QED
    BY <2>1, <2>2, <2>3
<1>8. RecentAreLast'
  <2>1. \A j \in recent' : otp'[j].made
    BY <1>2, <1>3 DEF RecentAreLast
  <2>2. ASSUME NEW c \in Customers, NEW p \in Purposes,
               NEW m \in 1..MaxCodes, NEW n \in 1..MaxCodes,
               <<c, p, m>> \in recent', m <= n, otp'[<<c, p, n>>].made
        PROVE  <<c, p, n>> \in recent'
    <3>0. <<c, p, m>> \in Codes /\ <<c, p, n>> \in Codes
      BY <1>6
    <3>1. CASE <<c, p, n>> = k
      BY <3>1
    <3>2. CASE <<c, p, n>> # k /\ <<c, p, m>> # k
      BY <2>2, <3>0, <3>2, <1>3 DEF RecentAreLast
    <3>3. CASE <<c, p, n>> # k /\ <<c, p, m>> = k
      <4>1. otp[<<c, p, n>>].made /\ ~otp[k].made
        BY <2>2, <3>0, <3>3, <1>3 DEF NextCode
      <4> QED
        BY <4>1, <3>3, <2>2 DEF MadeInOrder
    <3> QED
      BY <3>1, <3>2, <3>3
  <2> QED
    BY <2>1, <2>2 DEF RecentAreLast
<1> QED
  BY <1>4, <1>5, <1>7, <1>8

\* An unused code is used.
LEMMA RowUsed ==
    ASSUME CodesInv, NEW k \in Codes, ~otp[k].used, UseCode(k),
           proofs' \subseteq Customers \X Purposes, UNCHANGED <<recent, expired, received, misses, sender>>
    PROVE  /\ CodesInv'
           /\ \A c \in Customers, p \in Purposes : Unused(c, p)' \subseteq Unused(c, p)
<1> USE DEF CodesInv, CodesTypeOK
<1> DEFINE used == [otp[k] EXCEPT !.attempts = @ + 1, !.used = TRUE]
<1>1. otp' = [otp EXCEPT ![k] = used]
  BY DEF UseCode
<1>2. used \in CodeRows /\ used.made = otp[k].made /\ used.used /\ used.attempts = 1
  <2>1. otp[k].attempts = 0 /\ otp[k] \in CodeRows
    BY DEF OnlyUseIsCounted
  <2>2. 1 \in 0..MaxAttempts
    BY CodesAssumption
  <2>3. used = [otp[k] EXCEPT !.attempts = 1, !.used = TRUE]
    BY <2>1
  <2> QED
    BY <2>1, <2>2, <2>3 DEF CodeRows
<1>3. otp' \in [Codes -> CodeRows] /\ otp'[k] = used /\ \A j \in Codes : j # k => otp'[j] = otp[j]
  <2> HIDE DEF used
  <2> QED
    BY <1>1, <1>2
<1> HIDE DEF used
<1>4. \A j \in Codes : otp'[j].made = otp[j].made
  BY <1>2, <1>3
<1>5. \A c \in Customers, p \in Purposes : \A n \in 1..MaxCodes : <<c, p, n>> \in Codes
  BY DEF Codes
<1>6. CodesTypeOK'
  BY <1>3
<1>7. OnlyUseIsCounted'
  BY <1>2, <1>3 DEF OnlyUseIsCounted
<1>8. MadeInOrder' /\ RecentAreLast'
  BY <1>4, <1>5 DEF MadeInOrder, RecentAreLast
<1>9. \A c \in Customers, p \in Purposes : Unused(c, p)' \subseteq Unused(c, p)
  BY <1>2, <1>3 DEF Unused
<1> QED
  BY <1>6, <1>7, <1>8, <1>9

\* The first recent code cools down.
LEMMA RowCools ==
    ASSUME CodesInv, NEW k \in Codes, CooldownEnds(k)
    PROVE  CodesInv'
<1> USE DEF CodesInv, CodesTypeOK
<1>1. UNCHANGED otp /\ recent' = recent \ {k} /\ Earlier(k) \cap recent = {}
  BY DEF CooldownEnds
<1>2. CodesTypeOK' /\ OnlyUseIsCounted' /\ MadeInOrder'
  BY <1>1 DEF CooldownEnds, OnlyUseIsCounted, MadeInOrder
<1>3. RecentAreLast'
  <2>1. \A j \in recent' : otp'[j].made
    BY <1>1 DEF RecentAreLast
  <2>2. ASSUME NEW c \in Customers, NEW p \in Purposes,
               NEW m \in 1..MaxCodes, NEW n \in 1..MaxCodes,
               <<c, p, m>> \in recent', m <= n, otp'[<<c, p, n>>].made
        PROVE  <<c, p, n>> \in recent'
    <3>1. <<c, p, n>> \in recent
      BY <2>2, <1>1 DEF RecentAreLast
    <3>2. <<c, p, n>> # k
      <4> SUFFICES ASSUME <<c, p, n>> = k PROVE FALSE
        OBVIOUS
      <4>1. m < n /\ m \in 1..n - 1
        BY <2>2, <1>1
      <4>2. <<c, p, m>> \in Earlier(k)
        BY <4>1 DEF Earlier
      <4> QED
        BY <4>2, <2>2, <1>1
    <3> QED
      BY <3>1, <3>2, <1>1
  <2> QED
    BY <2>1, <2>2 DEF RecentAreLast
<1> QED
  BY <1>2, <1>3

LEMMA CodesStep == CodesInv /\ CodesNext => CodesInv'
<1> SUFFICES ASSUME CodesInv, CodesNext PROVE CodesInv'
  OBVIOUS
<1>0. CodesTypeOK
  BY DEF CodesInv
<1>1. ASSUME NEW r \in Senders, NEW c \in Customers, NEW p \in Purposes, RequestCode(r, c, p)
      PROVE  CodesInv'
  <2>1. [at |-> "create", customer |-> c, purpose |-> p] \in SenderStates
    BY DEF SenderStates
  <2>2. CodesTypeOK'
    BY <1>0, <1>1, <2>1, SenderGoes DEF RequestCode, CodesTypeOK
  <2> QED
    BY <1>1, <2>2, RowsRest DEF RequestCode
<1>2. ASSUME NEW r \in Senders, CreateCode(r) PROVE CodesInv'
  BY <1>2, RowMade DEF CreateCode
<1>3. ASSUME NEW r \in Senders, SendCode(r) \/ SenderDies(r) PROVE CodesInv'
  <2>1. Resting \in SenderStates /\ sender[r] \in SenderStates
    BY <1>0 DEF Resting, SenderStates, CodesTypeOK
  <2>2. sender' \in [Senders -> SenderStates]
    BY <1>0, <1>3, <2>1, SenderGoes DEF SendCode, SenderDies
  <2>3. received' \subseteq Codes
    <3>1. CASE SendCode(r)
      <4>1. sender[r].code \in Codes
        BY <2>1, <3>1 DEF SendCode, SenderStates
      <4> QED
        BY <1>0, <3>1, <4>1 DEF SendCode, CodesTypeOK
    <3>2. CASE SenderDies(r)
      BY <1>0, <3>2 DEF SenderDies, CodesTypeOK
    <3> QED
      BY <1>3, <3>1, <3>2
  <2>4. UNCHANGED <<otp, recent, expired, misses, proofs>>
    BY <1>3 DEF SendCode, SenderDies
  <2>5. CodesTypeOK'
    BY <1>0, <2>2, <2>3, <2>4 DEF CodesTypeOK
  <2> QED
    BY <2>4, <2>5, RowsRest
<1>4. ASSUME NEW c \in Customers, NEW p \in Purposes, VerifyCode(c, p) PROVE CodesInv'
  <2>1. PICK k \in received : Comparable(k, c, p) /\ UseCode(k)
    BY <1>4 DEF VerifyCode
  <2>2. k \in Codes /\ ~otp[k].used
    BY <2>1 DEF Comparable, IsNewest, Unused
  <2>3. proofs' \subseteq Customers \X Purposes
    BY <1>0, <1>4 DEF VerifyCode, CodesTypeOK
  <2> QED
    BY <1>4, <2>1, <2>2, <2>3, RowUsed DEF VerifyCode
<1>5. ASSUME NEW c \in Customers, NEW p \in Purposes, WrongCode(c, p) PROVE CodesInv'
  <2>1. PICK k \in Codes : misses[k] < MaxAttempts /\ misses' = [misses EXCEPT ![k] = @ + 1]
    BY <1>5 DEF WrongCode, CountWrongCode
  <2>2. UNCHANGED <<otp, recent, expired, received, proofs, sender>>
    BY <1>5 DEF WrongCode, CountWrongCode
  <2>3. misses' \in [Codes -> 0..MaxAttempts]
    <3>1. misses[k] \in 0..MaxAttempts /\ misses[k] < MaxAttempts /\ MaxAttempts \in Nat
      BY <1>0, <2>1, CodesAssumption DEF CodesTypeOK
    <3>2. PICK n \in 0..MaxAttempts : n = misses[k] + 1
      BY <3>1
    <3>3. misses' = [misses EXCEPT ![k] = n]
      BY <2>1, <3>2
    <3> QED
      BY <1>0, <3>3 DEF CodesTypeOK
  <2>4. CodesTypeOK'
    BY <1>0, <2>2, <2>3 DEF CodesTypeOK
  <2> QED
    BY <2>2, <2>4, RowsRest
<1>6. ASSUME NEW k \in Codes, CooldownEnds(k) PROVE CodesInv'
  BY <1>6, RowCools
<1>7. ASSUME NEW k \in Codes, CodeExpires(k) PROVE CodesInv'
  <2>1. CodesTypeOK'
    BY <1>0, <1>7 DEF CodeExpires, CodesTypeOK
  <2> QED
    BY <1>7, <2>1, RowsRest DEF CodeExpires
<1>8. ASSUME NEW t \in proofs, ProofExpires(t) PROVE CodesInv'
  <2>1. CodesTypeOK'
    BY <1>0, <1>8 DEF ProofExpires, CodesTypeOK
  <2> QED
    BY <1>8, <2>1, RowsRest DEF ProofExpires
<1> QED
  BY <1>1, <1>2, <1>3, <1>4, <1>5, <1>6, <1>7, <1>8 DEF CodesNext

-----------------------------------------------------------------------------
(***************************************************************************)
(* The burst.                                                              *)
(***************************************************************************)
LEMMA Finite ==
    ASSUME CodesTypeOK, NEW c \in Customers, NEW p \in Purposes
    PROVE  /\ IsFiniteSet(RecentUnused(c, p)) /\ IsFiniteSet(AboutToCreate(c, p))
           /\ Cardinality(RecentUnused(c, p)) \in Nat /\ Cardinality(AboutToCreate(c, p)) \in Nat
           /\ Cardinality(AboutToCreate(c, p)) <= Cardinality(Senders)
           /\ Cardinality(Senders) \in Nat
<1> DEFINE Numbered == {k \in Codes : k[1] = c /\ k[2] = p}
           code == [n \in 1..MaxCodes |-> <<c, p, n>>]
<1>1. code \in Surjection(1..MaxCodes, Numbered)
  <2>1. \A n \in 1..MaxCodes : <<c, p, n>> \in Numbered
    BY DEF Codes
  <2>2. ASSUME NEW k \in Numbered PROVE \E n \in 1..MaxCodes : code[n] = k
    <3>1. k[3] \in 1..MaxCodes /\ k = <<c, p, k[3]>>
      BY CodeParts
    <3> QED
      BY <3>1
  <2> HIDE DEF Numbered
  <2>3. code \in [1..MaxCodes -> Numbered]
    BY <2>1
  <2> HIDE DEF code
  <2> QED
    BY <2>2, <2>3 DEF Surjection
<1>2. IsFiniteSet(1..MaxCodes)
  BY CodesAssumption, FS_Interval
<1>3. IsFiniteSet(Numbered)
  <2> HIDE DEF Numbered, code
  <2> QED
    BY <1>1, <1>2, FS_Surjection
<1>4. RecentUnused(c, p) \in SUBSET Numbered /\ AboutToCreate(c, p) \in SUBSET Senders
  BY DEF RecentUnused, Unused, AboutToCreate
<1>5. IsFiniteSet(Senders)
  BY CodesAssumption
<1> HIDE DEF Numbered, code
<1> QED
  BY <1>3, <1>4, <1>5, FS_Subset, FS_CardinalityType

LEMMA BurstInvInit == CodesInit => BurstInv
<1> SUFFICES ASSUME CodesInit, NEW c \in Customers, NEW p \in Purposes
             PROVE  Cardinality(RecentUnused(c, p)) + Cardinality(AboutToCreate(c, p))
                        <= Cardinality(Senders)
  BY DEF BurstInv
<1>1. CodesTypeOK
  BY CodesInvInit DEF CodesInv
<1>2. RecentUnused(c, p) = {}
  BY DEF CodesInit, RecentUnused
<1> QED
  BY <1>1, <1>2, Finite, FS_EmptySet

\* Fewer codes and fewer requests about to create one.
LEMMA BurstShrinks ==
    ASSUME CodesTypeOK, CodesTypeOK', BurstInv,
           \A c \in Customers, p \in Purposes : /\ RecentUnused(c, p)' \subseteq RecentUnused(c, p)
                                                /\ AboutToCreate(c, p)' \subseteq AboutToCreate(c, p)
    PROVE  BurstInv'
<1> SUFFICES ASSUME NEW c \in Customers, NEW p \in Purposes
             PROVE  Cardinality(RecentUnused(c, p)') + Cardinality(AboutToCreate(c, p)')
                        <= Cardinality(Senders)
  BY DEF BurstInv
<1> DEFINE R == RecentUnused(c, p)  A == AboutToCreate(c, p)
<1>1. PICK R2 \in SUBSET R : R2 = RecentUnused(c, p)'
  OBVIOUS
<1>2. PICK A2 \in SUBSET A : A2 = AboutToCreate(c, p)'
  OBVIOUS
<1>3. IsFiniteSet(R) /\ IsFiniteSet(A) /\ Cardinality(R) \in Nat /\ Cardinality(A) \in Nat
      /\ Cardinality(Senders) \in Nat
  BY Finite
<1>4. Cardinality(R) + Cardinality(A) <= Cardinality(Senders)
  BY DEF BurstInv
<1> HIDE DEF R, A
<1>5. Cardinality(R2) <= Cardinality(R) /\ Cardinality(A2) <= Cardinality(A)
      /\ Cardinality(R2) \in Nat /\ Cardinality(A2) \in Nat
  BY <1>3, FS_Subset, FS_CardinalityType
<1>6. Cardinality(R2) + Cardinality(A2) <= Cardinality(Senders)
  BY <1>3, <1>4, <1>5
<1> QED
  BY <1>1, <1>2, <1>6

\* A request that passes the lookup is the only cause to expect a code.
LEMMA BurstBegins ==
    ASSUME CodesInv, CodesTypeOK', BurstInv,
           NEW r \in Senders, NEW c \in Customers, NEW p \in Purposes, RequestCode(r, c, p)
    PROVE  BurstInv'
<1> SUFFICES ASSUME NEW d \in Customers, NEW q \in Purposes
             PROVE  Cardinality(RecentUnused(d, q)') + Cardinality(AboutToCreate(d, q)')
                        <= Cardinality(Senders)
  BY DEF BurstInv
<1>0. CodesTypeOK
  BY DEF CodesInv
<1>1. RecentUnused(d, q)' = RecentUnused(d, q)
  BY DEF RequestCode, RecentUnused, Unused
<1>2. PICK A \in SUBSET Senders : A = AboutToCreate(d, q)'
  BY DEF AboutToCreate
<1>3. IsFiniteSet(Senders) /\ Cardinality(Senders) \in Nat
      /\ Cardinality(A) \in Nat /\ Cardinality(A) <= Cardinality(Senders)
  BY CodesAssumption, FS_Subset, FS_CardinalityType
<1>4. CASE c = d /\ p = q
  <2>1. RecentUnused(d, q) = {}
    BY <1>4, NewestIsRecent DEF RequestCode
  <2> QED
    BY <1>1, <1>2, <1>3, <2>1, FS_EmptySet
<1>5. CASE ~(c = d /\ p = q)
  <2>1. A \in SUBSET AboutToCreate(d, q)
    <3> SUFFICES ASSUME NEW s \in A PROVE s \in AboutToCreate(d, q)
      OBVIOUS
    <3>1. s \in Senders /\ sender'[s].at = "create"
          /\ sender'[s].customer = d /\ sender'[s].purpose = q
      BY <1>2 DEF AboutToCreate
    <3>2. sender'[r] = [at |-> "create", customer |-> c, purpose |-> p]
          /\ \A s2 \in Senders : s2 # r => sender'[s2] = sender[s2]
      BY <1>0 DEF CodesTypeOK, RequestCode, Goes
    <3>3. s # r
      BY <1>5, <3>1, <3>2
    <3> QED
      BY <3>1, <3>2, <3>3 DEF AboutToCreate
  <2>2. Cardinality(A) <= Cardinality(AboutToCreate(d, q))
    BY <1>0, <2>1, Finite, FS_Subset
  <2>3. Cardinality(RecentUnused(d, q)) + Cardinality(AboutToCreate(d, q)) <= Cardinality(Senders)
    BY DEF BurstInv
  <2>4. Cardinality(RecentUnused(d, q)) \in Nat /\ Cardinality(AboutToCreate(d, q)) \in Nat
    BY <1>0, Finite
  <2> QED
    BY <1>1, <1>2, <1>3, <2>2, <2>3, <2>4
<1> QED
  BY <1>4, <1>5

\* The code that a request was about to create is created.
LEMMA BurstGoesOn ==
    ASSUME CodesInv, CodesTypeOK', BurstInv, NEW r \in Senders, CreateCode(r)
    PROVE  BurstInv'
<1> SUFFICES ASSUME NEW d \in Customers, NEW q \in Purposes
             PROVE  Cardinality(RecentUnused(d, q)') + Cardinality(AboutToCreate(d, q)')
                        <= Cardinality(Senders)
  BY DEF BurstInv
<1>0. CodesTypeOK
  BY DEF CodesInv
<1>1. PICK k \in Codes :
          /\ sender[r].at = "create" /\ k[1] = sender[r].customer /\ k[2] = sender[r].purpose
          /\ otp' = [otp EXCEPT ![k].made = TRUE] /\ recent' = recent \cup {k}
          /\ Goes(r, [at |-> "send", code |-> k])
  BY DEF CreateCode
<1> DEFINE R == RecentUnused(d, q)  A == AboutToCreate(d, q)
<1>2. \A j \in Codes : j # k => otp'[j] = otp[j]
  BY <1>0, <1>1 DEF CodesTypeOK
<1>3. sender'[r].at = "send" /\ \A s \in Senders : s # r => sender'[s] = sender[s]
  BY <1>0, <1>1 DEF CodesTypeOK, Goes
<1>4. PICK R2 \in SUBSET (R \cup {k}) : R2 = RecentUnused(d, q)'
  BY <1>1, <1>2 DEF RecentUnused, Unused
<1>5. PICK A2 \in SUBSET (A \ {r}) : A2 = AboutToCreate(d, q)'
  BY <1>3 DEF AboutToCreate
<1>6. /\ IsFiniteSet(R) /\ IsFiniteSet(A) /\ Cardinality(R) \in Nat /\ Cardinality(A) \in Nat
      /\ Cardinality(Senders) \in Nat
      /\ Cardinality(R) + Cardinality(A) <= Cardinality(Senders)
  BY <1>0, Finite DEF BurstInv
<1>7. CASE k[1] = d /\ k[2] = q
  <2>1. r \in A
    BY <1>1, <1>7 DEF AboutToCreate
  <2> HIDE DEF R, A
  <2>2. /\ IsFiniteSet(R \cup {k}) /\ Cardinality(R \cup {k}) <= Cardinality(R) + 1
        /\ IsFiniteSet(A \ {r}) /\ Cardinality(A \ {r}) = Cardinality(A) - 1
    <3>1. /\ IsFiniteSet(R \cup {k})
          /\ Cardinality(R \cup {k}) = IF k \in R THEN Cardinality(R) ELSE Cardinality(R) + 1
      BY <1>6, FS_AddElement
    <3>2. IsFiniteSet(A \ {r}) /\ Cardinality(A \ {r}) = Cardinality(A) - 1
      BY <1>6, <2>1, FS_RemoveElement
    <3> QED
      BY <1>6, <3>1, <3>2
  <2>3. /\ Cardinality(R2) <= Cardinality(R) + 1 /\ Cardinality(A2) <= Cardinality(A) - 1
        /\ Cardinality(R2) \in Nat /\ Cardinality(A2) \in Nat
    <3>1. /\ IsFiniteSet(R2) /\ Cardinality(R2) <= Cardinality(R \cup {k})
          /\ IsFiniteSet(A2) /\ Cardinality(A2) <= Cardinality(A \ {r})
      BY <2>2, FS_Subset
    <3>2. /\ Cardinality(R2) \in Nat /\ Cardinality(A2) \in Nat
          /\ Cardinality(R \cup {k}) \in Nat /\ Cardinality(A \ {r}) \in Nat
      BY <2>2, <3>1, FS_CardinalityType
    <3> QED
      BY <1>6, <2>2, <3>1, <3>2
  <2> QED
    BY <1>4, <1>5, <1>6, <2>3
<1>8. CASE ~(k[1] = d /\ k[2] = q)
  <2>1. R2 \in SUBSET R /\ A2 \in SUBSET A
    <3>1. k \notin RecentUnused(d, q)'
      BY <1>8 DEF RecentUnused, Unused
    <3> QED
      BY <1>4, <1>5, <3>1
  <2> HIDE DEF R, A
  <2>2. /\ IsFiniteSet(R2) /\ Cardinality(R2) <= Cardinality(R)
        /\ IsFiniteSet(A2) /\ Cardinality(A2) <= Cardinality(A)
    BY <1>6, <2>1, FS_Subset
  <2>3. Cardinality(R2) \in Nat /\ Cardinality(A2) \in Nat
    BY <2>2, FS_CardinalityType
  <2> QED
    BY <1>4, <1>5, <1>6, <2>2, <2>3
<1> QED
  BY <1>7, <1>8

LEMMA BurstStep == CodesInv /\ BurstInv /\ CodesNext => BurstInv'
<1> SUFFICES ASSUME CodesInv, BurstInv, CodesNext PROVE BurstInv'
  OBVIOUS
<1>0. CodesTypeOK /\ CodesTypeOK'
  BY CodesStep DEF CodesInv
<1> DEFINE Shrinks ==
      \A c \in Customers, p \in Purposes : /\ RecentUnused(c, p)' \subseteq RecentUnused(c, p)
                                           /\ AboutToCreate(c, p)' \subseteq AboutToCreate(c, p)
<1>1. ASSUME NEW r \in Senders, NEW c \in Customers, NEW p \in Purposes, RequestCode(r, c, p)
      PROVE  BurstInv'
  BY <1>0, <1>1, BurstBegins
<1>2. ASSUME NEW r \in Senders, CreateCode(r) PROVE BurstInv'
  BY <1>0, <1>2, BurstGoesOn
<1>3. ASSUME NEW r \in Senders, SendCode(r) \/ SenderDies(r) PROVE Shrinks
  <2>1. Goes(r, Resting) /\ UNCHANGED <<otp, recent>>
    BY <1>3 DEF SendCode, SenderDies
  <2>2. sender'[r].at = "rest" /\ \A s \in Senders : s # r => sender'[s] = sender[s]
    BY <1>0, <2>1 DEF CodesTypeOK, Goes, Resting
  <2> QED
    BY <2>1, <2>2 DEF RecentUnused, Unused, AboutToCreate
<1>4. ASSUME NEW c \in Customers, NEW p \in Purposes, VerifyCode(c, p) PROVE Shrinks
  <2>1. PICK k \in received : Comparable(k, c, p) /\ UseCode(k)
    BY <1>4 DEF VerifyCode
  <2>2. k \in Codes /\ ~otp[k].used
    BY <2>1 DEF Comparable, IsNewest, Unused
  <2>3. proofs' \subseteq Customers \X Purposes /\ UNCHANGED <<recent, expired, received, misses, sender>>
    BY <1>0, <1>4 DEF VerifyCode, CodesTypeOK
  <2>4. \A d \in Customers, q \in Purposes : Unused(d, q)' \subseteq Unused(d, q)
    BY <2>1, <2>2, <2>3, RowUsed
  <2> QED
    BY <2>3, <2>4 DEF RecentUnused, AboutToCreate
<1>5. ASSUME NEW c \in Customers, NEW p \in Purposes, WrongCode(c, p) PROVE Shrinks
  BY <1>5 DEF WrongCode, CountWrongCode, RecentUnused, Unused, AboutToCreate
<1>6. ASSUME NEW k \in Codes, CooldownEnds(k) \/ CodeExpires(k) PROVE Shrinks
  BY <1>6 DEF CooldownEnds, CodeExpires, RecentUnused, Unused, AboutToCreate
<1>7. ASSUME NEW t \in proofs, ProofExpires(t) PROVE Shrinks
  BY <1>7 DEF ProofExpires, RecentUnused, Unused, AboutToCreate
<1>8. ASSUME Shrinks PROVE BurstInv'
  BY <1>0, <1>8, BurstShrinks
<1> HIDE DEF Shrinks
<1> QED
  BY <1>1, <1>2, <1>3, <1>4, <1>5, <1>6, <1>7, <1>8 DEF CodesNext

-----------------------------------------------------------------------------
LEMMA CodesInvariant == CodesSpec => [](CodesInv /\ BurstInv)
<1>1. CodesInit => CodesInv /\ BurstInv
  BY CodesInvInit, BurstInvInit
<1>2. CodesInv /\ BurstInv /\ [CodesNext]_<<customer, codeVars>> => (CodesInv /\ BurstInv)'
  <2> SUFFICES ASSUME CodesInv, BurstInv, [CodesNext]_<<customer, codeVars>>
               PROVE  (CodesInv /\ BurstInv)'
    OBVIOUS
  <2>1. CASE CodesNext
    BY <2>1, CodesStep, BurstStep
  <2>2. CASE UNCHANGED <<customer, codeVars>>
    <3>1. UNCHANGED <<otp, recent, expired, received, misses, proofs, sender>>
      BY <2>2 DEF codeVars
    <3>2. CodesTypeOK'
      BY <3>1 DEF CodesInv, CodesTypeOK
    <3>3. CodesInv'
      BY <3>1, <3>2, RowsRest
    <3>4. BurstInv'
      BY <3>1 DEF BurstInv, RecentUnused, Unused, AboutToCreate
    <3> QED
      BY <3>3, <3>4
  <2> QED
    BY <2>1, <2>2
<1> QED
  BY <1>1, <1>2, PTL DEF CodesSpec

\* The rows of codes, their messages and tokens and the requests keep their types.
THEOREM CodesTypes == CodesSpec => []CodesTypeOK
<1>1. CodesInv => CodesTypeOK
  BY DEF CodesInv
<1> QED
  BY <1>1, CodesInvariant, PTL

\* request_otp's lookup of the cooldown, made without a lock, still bounds the
\* codes that can be sent within one cooldown by the requests that overlap.
THEOREM CooldownBoundsBurst == CodesSpec => []BurstIsBounded
<1>1. CodesInv /\ BurstInv => BurstIsBounded
  <2> SUFFICES ASSUME CodesInv, BurstInv, NEW c \in Customers, NEW p \in Purposes
               PROVE  Cardinality(recent \cap Unused(c, p)) <= Cardinality(Senders)
    BY DEF BurstIsBounded
  <2>1. CodesTypeOK
    BY DEF CodesInv
  <2>2. Cardinality(RecentUnused(c, p)) + Cardinality(AboutToCreate(c, p)) <= Cardinality(Senders)
    BY DEF BurstInv
  <2>3. Cardinality(RecentUnused(c, p)) \in Nat /\ Cardinality(AboutToCreate(c, p)) \in Nat
        /\ Cardinality(Senders) \in Nat
    BY <2>1, Finite
  <2>4. Cardinality(RecentUnused(c, p)) <= Cardinality(Senders)
    BY <2>2, <2>3
  <2> QED
    BY <2>4 DEF RecentUnused
<1> QED
  BY <1>1, CodesInvariant, PTL
=============================================================================
