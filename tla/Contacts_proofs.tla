-------------------------- MODULE Contacts_proofs ---------------------------
(***************************************************************************)
(* Proofs about what the shop knows of its visitors: the messages they     *)
(* exchange with it (Inbox), the leads that staff work on (Leads), and the *)
(* sessions and events that analytics records (Analytics).                 *)
(***************************************************************************)
EXTENDS Inbox, Leads, Analytics, SequenceTheorems, SetLemmas

-----------------------------------------------------------------------------
(***************************************************************************)
(* Proofs about Inbox for any messages, webhook requests and replies.      *)
(* Beside the properties the invariant says what a request in progress     *)
(* knows: a webhook request that has stored its event finds the message    *)
(* in the inbox, and a reply that was sent is one the provider took.       *)
(***************************************************************************)

CallsKnow == \A k \in Calls : call[k].stored => call[k].event \in inbound
RepliesKnow == \A r \in Replies : reply[r] = "sent" => r \in accepted

InboxInv ==
    /\ InboxTypeOK /\ CallsKnow /\ RepliesKnow
    /\ UnreadIsCounted /\ AcknowledgedIsStored /\ RowTellsOneMessage

CallStates ==
    [event : InboxEvents \cup {NoMessage}, attempt : 0..StoreAttempts, stored : BOOLEAN]
ConversationRows ==
    [exists : BOOLEAN, unread : 0..Cardinality(Messages),
     last : Messages \cup Replies \cup {NoMessage},
     lastInbound : Messages \cup {NoMessage}, expiry : Dated \cup {NoMessage}]

-----------------------------------------------------------------------------
LEMMA MessagesCount ==
    ASSUME NEW M \in SUBSET Messages
    PROVE  IsFiniteSet(M) /\ Cardinality(M) \in 0..Cardinality(Messages)
<1>1. IsFiniteSet(Messages) /\ Cardinality(Messages) \in Nat
  BY InboxAssumption, FS_CardinalityType
<1>2. IsFiniteSet(M) /\ Cardinality(M) <= Cardinality(Messages)
  BY <1>1, FS_Subset
<1>3. Cardinality(M) \in Nat
  BY <1>2, FS_CardinalityType
<1> QED
  BY <1>1, <1>2, <1>3

LEMMA WaitingTyped == Waiting \in CallStates
BY InboxAssumption DEF Waiting, CallStates

LEMMA InboxInvInit == InboxInit => InboxInv
<1> SUFFICES ASSUME InboxInit PROVE InboxInv
  OBVIOUS
<1>1. Cardinality({}) = 0 /\ 0 \in 0..Cardinality(Messages)
  BY FS_EmptySet, MessagesCount
<1>2. InboxTypeOK
  <2>1. NoConversation \in ConversationRows
    BY <1>1 DEF NoConversation, ConversationRows
  <2> QED
    BY <2>1, WaitingTyped DEF InboxInit, InboxTypeOK, CallStates, ConversationRows
<1>3. CallsKnow /\ RepliesKnow /\ AcknowledgedIsStored
  BY DEF InboxInit, Waiting, CallsKnow, RepliesKnow, AcknowledgedIsStored
<1>4. UnreadIsCounted
  BY <1>1 DEF InboxInit, NoConversation, UnreadIsCounted
<1>5. RowTellsOneMessage
  BY DEF InboxInit, NoConversation, RowTellsOneMessage, SessionOf
<1> QED
  BY <1>2, <1>3, <1>4, <1>5 DEF InboxInv

-----------------------------------------------------------------------------
(***************************************************************************)
(* The webhook.                                                            *)
(***************************************************************************)
\* A request goes from state to state without storing.
LEMMA CallGoes ==
    ASSUME InboxInv, NEW k \in Calls, NEW next \in CallStates,
           next.stored => next.event \in inbound,
           call' = [call EXCEPT ![k] = next], UNCHANGED <<rowVars, sessionsOver, accepted, seen, reply>>,
           acknowledged' \subseteq InboxEvents, acknowledged' \cap Messages \subseteq inbound
    PROVE  InboxInv'
<1>0. UNCHANGED <<conversation, inbound, outbound>>
  BY DEF rowVars
<1>1. InboxTypeOK'
  BY <1>0 DEF InboxInv, InboxTypeOK, CallStates
<1>2. CallsKnow'
  BY <1>0 DEF InboxInv, InboxTypeOK, CallsKnow
<1>3. RepliesKnow' /\ UnreadIsCounted' /\ AcknowledgedIsStored' /\ RowTellsOneMessage'
  BY <1>0 DEF InboxInv, RepliesKnow, UnreadIsCounted, AcknowledgedIsStored, RowTellsOneMessage,
     SessionOf
<1> QED
  BY <1>1, <1>2, <1>3 DEF InboxInv

LEMMA MessageStored ==
    ASSUME InboxInv, NEW k \in Calls, StoreEvent(k)
    PROVE  InboxInv'
<1> DEFINE m == call[k].event
<1>0. m \in Messages /\ inbound' = inbound \cup {m}
      /\ UNCHANGED <<outbound, acknowledged, sessionsOver, accepted, seen, reply>>
  BY DEF StoreEvent, providerVars
<1>1. call' \in [Calls -> CallStates] /\ CallsKnow'
  <2>1. call[k] \in CallStates
    BY DEF InboxInv, InboxTypeOK, CallStates
  <2>2. call' = [call EXCEPT ![k] = [call[k] EXCEPT !.stored = TRUE]]
    BY DEF StoreEvent
  <2>3. [call[k] EXCEPT !.stored = TRUE] \in CallStates
        /\ [call[k] EXCEPT !.stored = TRUE].event = m
    BY <2>1 DEF CallStates
  <2> QED
    BY <1>0, <2>2, <2>3 DEF InboxInv, InboxTypeOK, CallsKnow, CallStates
<1>2. conversation \in ConversationRows /\ inbound \subseteq Messages /\ seen \subseteq inbound
      /\ conversation.unread = Cardinality(inbound \ seen)
  BY DEF InboxInv, InboxTypeOK, ConversationRows, UnreadIsCounted
<1>3. RepliesKnow' /\ AcknowledgedIsStored'
  BY <1>0 DEF InboxInv, RepliesKnow, AcknowledgedIsStored
<1>4. CASE m \in inbound
  <2>1. UNCHANGED <<conversation, inbound>>
    BY <1>0, <1>4 DEF StoreEvent
  <2>2. UnreadIsCounted' /\ RowTellsOneMessage'
    BY <1>0, <2>1 DEF InboxInv, UnreadIsCounted, RowTellsOneMessage, SessionOf
  <2>3. InboxTypeOK'
    BY <1>0, <1>1, <2>1 DEF InboxInv, InboxTypeOK, CallStates
  <2> QED
    BY <1>1, <1>3, <2>2, <2>3 DEF InboxInv
<1>5. CASE m \notin inbound
  <2> DEFINE unread == conversation.unread + 1
             expiry == IF m \in Dated THEN m ELSE NoMessage
  <2>1. conversation' = [conversation EXCEPT !.exists = TRUE, !.unread = unread, !.last = m,
                                             !.lastInbound = m, !.expiry = expiry]
    BY <1>5 DEF StoreEvent, RecordInbound
  <2>2. unread = Cardinality(inbound' \ seen') /\ unread \in 0..Cardinality(Messages)
    <3>1. PICK news \in SUBSET Messages : news = inbound \ seen
      BY <1>2
    <3>2. IsFiniteSet(news) /\ m \notin news
      BY <1>5, <3>1, MessagesCount
    <3>3. inbound' \ seen' = news \cup {m}
      BY <1>0, <1>2, <1>5, <3>1
    <3>4. Cardinality(news \cup {m}) = Cardinality(news) + 1
      BY <3>2, FS_AddElement
    <3>5. Cardinality(news \cup {m}) \in 0..Cardinality(Messages)
      <4>1. news \cup {m} \in SUBSET Messages
        BY <1>0
      <4> QED
        BY <4>1, MessagesCount
    <3> QED
      BY <1>2, <3>1, <3>3, <3>4, <3>5
  <2> HIDE DEF unread
  <2>3. expiry \in Dated \cup {NoMessage} /\ (expiry # NoMessage => expiry = m)
    OBVIOUS
  <2> HIDE DEF expiry, m
  <2>4. /\ conversation' \in ConversationRows /\ conversation'.unread = unread
        /\ conversation'.last = m /\ conversation'.lastInbound = m /\ conversation'.expiry = expiry
    BY <1>0, <1>2, <2>1, <2>2, <2>3 DEF ConversationRows
  <2>5. UnreadIsCounted'
    BY <2>2, <2>4 DEF UnreadIsCounted
  <2>6. RowTellsOneMessage'
    BY <1>0, <2>3, <2>4 DEF InboxInv, RowTellsOneMessage, SessionOf
  <2>7. InboxTypeOK'
    BY <1>0, <1>1, <2>4 DEF InboxInv, InboxTypeOK, CallStates, ConversationRows
  <2> QED
    BY <1>1, <1>3, <2>5, <2>6, <2>7 DEF InboxInv
<1> QED
  BY <1>4, <1>5

LEMMA WebhookStep ==
    ASSUME InboxInv, NEW k \in Calls,
           \/ \E e \in InboxEvents : Deliver(k, e)
           \/ IgnoreEcho(k) \/ StoreEvent(k) \/ AttemptFails(k) \/ AnswerEvent(k) \/ CallDies(k)
    PROVE  InboxInv'
<1>0. /\ call[k] \in CallStates /\ acknowledged \subseteq InboxEvents
      /\ acknowledged \cap Messages \subseteq inbound
      /\ call[k].stored => call[k].event \in inbound
      /\ inbound \subseteq Messages /\ Messages \cap Echoes = {}
  BY InboxAssumption DEF InboxInv, InboxTypeOK, CallStates, AcknowledgedIsStored, CallsKnow
<1>1. ASSUME NEW e \in InboxEvents, Deliver(k, e) PROVE InboxInv'
  <2>1. [event |-> e, attempt |-> 1, stored |-> FALSE] \in CallStates
    BY InboxAssumption DEF CallStates
  <2> QED
    BY <1>0, <1>1, <2>1, CallGoes DEF Deliver, providerVars
<1>2. CASE IgnoreEcho(k)
  <2>1. acknowledged' \subseteq InboxEvents /\ acknowledged' \cap Messages \subseteq inbound
    BY <1>0, <1>2 DEF IgnoreEcho, InboxEvents
  <2> QED
    BY <1>2, <2>1, WaitingTyped, CallGoes DEF IgnoreEcho, Waiting
<1>3. CASE StoreEvent(k)
  BY <1>3, MessageStored
<1>4. CASE AttemptFails(k)
  <2>1. CASE call[k].attempt < StoreAttempts
    <3>0. PICK n \in 0..StoreAttempts : n = call[k].attempt + 1
      <4>1. call[k].attempt \in 0..StoreAttempts
        BY <1>0 DEF CallStates
      <4>2. call[k].attempt + 1 \in 0..StoreAttempts
        BY <2>1, <4>1, InboxAssumption
      <4> QED
        BY <4>2
    <3> DEFINE again == [call[k] EXCEPT !.attempt = n]
    <3>1. again \in CallStates /\ again.stored = call[k].stored /\ again.event = call[k].event
      BY <1>0 DEF CallStates
    <3>2. call' = [call EXCEPT ![k] = again]
      BY <1>4, <2>1, <3>0 DEF AttemptFails
    <3> HIDE DEF again
    <3> QED
      BY <1>0, <1>4, <3>1, <3>2, CallGoes DEF AttemptFails, providerVars
  <2>2. CASE ~(call[k].attempt < StoreAttempts)
    <3>1. call' = [call EXCEPT ![k] = Waiting]
      BY <1>4, <2>2 DEF AttemptFails
    <3> QED
      BY <1>0, <1>4, <3>1, WaitingTyped, CallGoes DEF AttemptFails, providerVars, Waiting
  <2> QED
    BY <2>1, <2>2
<1>5. CASE AnswerEvent(k)
  <2>1. call[k].event \in inbound
    BY <1>0, <1>5 DEF AnswerEvent
  <2>2. acknowledged' \subseteq InboxEvents /\ acknowledged' \cap Messages \subseteq inbound
    BY <1>0, <1>5, <2>1 DEF AnswerEvent, InboxEvents
  <2> QED
    BY <1>5, <2>2, WaitingTyped, CallGoes DEF AnswerEvent, Waiting
<1>6. CASE CallDies(k)
  BY <1>0, <1>6, WaitingTyped, CallGoes DEF CallDies, providerVars, Waiting
<1> QED
  BY <1>1, <1>2, <1>3, <1>4, <1>5, <1>6

-----------------------------------------------------------------------------
(***************************************************************************)
(* The administrators, the replies and the time.                           *)
(***************************************************************************)
LEMMA Read == ASSUME InboxInv, MarkRead PROVE InboxInv'
<1>0. /\ conversation \in ConversationRows /\ 0 \in 0..Cardinality(Messages)
      /\ conversation' = [conversation EXCEPT !.unread = 0] /\ seen' = inbound
      /\ UNCHANGED <<inbound, outbound, acknowledged, sessionsOver, accepted, call, reply>>
  BY MessagesCount, FS_EmptySet
  DEF InboxInv, InboxTypeOK, ConversationRows, MarkRead, providerVars
<1>1. conversation' \in ConversationRows /\ conversation'.unread = 0
      /\ \A f \in {"exists", "last", "lastInbound", "expiry"} : conversation'[f] = conversation[f]
  BY <1>0 DEF ConversationRows
<1>2. InboxTypeOK'
  BY <1>0, <1>1 DEF InboxInv, InboxTypeOK, ConversationRows
<1>3. UnreadIsCounted'
  BY <1>0, <1>1, FS_EmptySet DEF UnreadIsCounted
<1>4. CallsKnow' /\ RepliesKnow' /\ AcknowledgedIsStored' /\ RowTellsOneMessage'
  BY <1>0, <1>1 DEF InboxInv, CallsKnow, RepliesKnow, AcknowledgedIsStored, RowTellsOneMessage,
     SessionOf
<1> QED
  BY <1>2, <1>3, <1>4 DEF InboxInv

\* A reply goes on, and at most the provider takes it.
LEMMA ReplyGoes ==
    ASSUME InboxInv, NEW r \in Replies, NEW next \in {"unsent", "sending", "sent", "over"},
           reply' = [reply EXCEPT ![r] = next], accepted' \in {accepted, accepted \cup {r}},
           next = "sent" => r \in accepted',
           UNCHANGED <<rowVars, acknowledged, sessionsOver, seen, call>>
    PROVE  InboxInv'
<1>0. UNCHANGED <<conversation, inbound, outbound>>
  BY DEF rowVars
<1>1. InboxTypeOK'
  BY <1>0 DEF InboxInv, InboxTypeOK
<1>2. RepliesKnow'
  BY DEF InboxInv, InboxTypeOK, RepliesKnow
<1>3. CallsKnow' /\ UnreadIsCounted' /\ AcknowledgedIsStored' /\ RowTellsOneMessage'
  BY <1>0 DEF InboxInv, CallsKnow, UnreadIsCounted, AcknowledgedIsStored, RowTellsOneMessage,
     SessionOf
<1> QED
  BY <1>1, <1>2, <1>3 DEF InboxInv

LEMMA ReplyStored == ASSUME InboxInv, NEW r \in Replies, StoreReply(r) PROVE InboxInv'
<1>0. /\ conversation \in ConversationRows /\ r \in accepted
      /\ conversation' = [conversation EXCEPT !.last = r] /\ outbound' = outbound \cup {r}
      /\ reply' = [reply EXCEPT ![r] = "over"]
      /\ UNCHANGED <<inbound, acknowledged, sessionsOver, accepted, seen, call>>
  BY DEF InboxInv, InboxTypeOK, ConversationRows, StoreReply, RepliesKnow, providerVars
<1>1. conversation' \in ConversationRows /\ conversation'.last = r
      /\ \A f \in {"exists", "unread", "lastInbound", "expiry"} : conversation'[f] = conversation[f]
  BY <1>0 DEF ConversationRows
<1>2. InboxTypeOK'
  BY <1>0, <1>1 DEF InboxInv, InboxTypeOK, ConversationRows
<1>3. RepliesKnow'
  BY <1>0 DEF InboxInv, InboxTypeOK, RepliesKnow
<1>4. RowTellsOneMessage'
  BY <1>0, <1>1 DEF InboxInv, RowTellsOneMessage, SessionOf
<1>5. CallsKnow' /\ UnreadIsCounted' /\ AcknowledgedIsStored'
  BY <1>0, <1>1 DEF InboxInv, CallsKnow, UnreadIsCounted, AcknowledgedIsStored
<1> QED
  BY <1>2, <1>3, <1>4, <1>5 DEF InboxInv

LEMMA TimePasses ==
    ASSUME InboxInv, sessionsOver' \subseteq Messages,
           UNCHANGED <<rowVars, acknowledged, accepted, seen, call, reply>>
    PROVE  InboxInv'
BY DEF rowVars, InboxInv, InboxTypeOK, CallsKnow, RepliesKnow, UnreadIsCounted,
       AcknowledgedIsStored, RowTellsOneMessage, SessionOf

LEMMA InboxStep == InboxInv /\ [InboxNext]_inboxVars => InboxInv'
<1> SUFFICES ASSUME InboxInv, [InboxNext]_inboxVars PROVE InboxInv'
  OBVIOUS
<1>1. ASSUME NEW k \in Calls,
             \/ \E e \in InboxEvents : Deliver(k, e)
             \/ IgnoreEcho(k) \/ StoreEvent(k) \/ AttemptFails(k) \/ AnswerEvent(k) \/ CallDies(k)
      PROVE  InboxInv'
  BY <1>1, WebhookStep
<1>2. CASE MarkRead
  BY <1>2, Read
<1>3. ASSUME NEW r \in Replies, StartReply(r) PROVE InboxInv'
  BY <1>3, ReplyGoes DEF StartReply, providerVars
<1>4. ASSUME NEW r \in Replies, SendReply(r) PROVE InboxInv'
  BY <1>4, ReplyGoes DEF SendReply
<1>5. ASSUME NEW r \in Replies, StoreReply(r) PROVE InboxInv'
  BY <1>5, ReplyStored
<1>6. ASSUME NEW r \in Replies, ReplyEnds(r) PROVE InboxInv'
  BY <1>6, ReplyGoes DEF ReplyEnds, providerVars
<1>7. ASSUME NEW m \in Messages, SessionEnds(m) PROVE InboxInv'
  <2>1. sessionsOver' \subseteq Messages
    BY <1>7 DEF SessionEnds, InboxInv, InboxTypeOK
  <2> QED
    BY <1>7, <2>1, TimePasses DEF SessionEnds
<1>8. CASE UNCHANGED inboxVars
  <2>1. sessionsOver' \subseteq Messages
    BY <1>8 DEF inboxVars, providerVars, InboxInv, InboxTypeOK
  <2> QED
    BY <1>8, <2>1, TimePasses DEF inboxVars, providerVars
<1> QED
  BY <1>1, <1>2, <1>3, <1>4, <1>5, <1>6, <1>7, <1>8 DEF InboxNext

-----------------------------------------------------------------------------
LEMMA InboxInvariant == InboxSpec => []InboxInv
BY InboxInvInit, InboxStep, PTL DEF InboxSpec

\* The rows, the requests and what the provider knows keep their types.
THEOREM InboxTypes == InboxSpec => []InboxTypeOK
<1>1. InboxInv => InboxTypeOK
  BY DEF InboxInv
<1> QED
  BY <1>1, InboxInvariant, PTL

\* A message whose event was answered with 200 is stored, and the counter of the
\* conversation is the number of messages stored since it was marked read,
\* under any repetition and overlap of deliveries (_store_whatsapp_event).
THEOREM MessagesCountOnce == InboxSpec => []EachMessageCounts
<1>1. InboxInv => EachMessageCounts
  BY DEF InboxInv, EachMessageCounts
<1> QED
  BY <1>1, InboxInvariant, PTL

\* The conversation row speaks of one inbound message, and its preview of that
\* message or of a stored reply, which the provider took.
THEOREM RowIsCoherent == InboxSpec => []RowTellsOneMessage
<1>1. InboxInv => RowTellsOneMessage
  BY DEF InboxInv
<1> QED
  BY <1>1, InboxInvariant, PTL

-----------------------------------------------------------------------------
(***************************************************************************)
(* Proofs about Leads for any leads, staff and messages. Until an          *)
(* administrator edits a lead's row, its timeline tells the row: replaying *)
(* the changes of the activities gives each field the value it has         *)
(* (Story). An operation that changes one field appends the activity that  *)
(* tells of it in the same transaction, and those that change none append  *)
(* activities that tell of none (Tells), so the story goes on by one       *)
(* activity or two.                                                        *)
(*                                                                         *)
(* A message is recorded after the provider has taken it, by the request   *)
(* that sent it: what is recorded and what is still due to be recorded are *)
(* together no more than what was taken.                                   *)
(***************************************************************************)

FieldValues == AllStatuses \cup Staff \cup Times \cup {Nothing}
FieldChanges == [field : Fields, from : FieldValues, to : FieldValues]
Events == {"created", "status_changed", "quote_sent", "approved", "rejected", "assigned",
           "rescheduled", "internal_note", "follow_up_set", "contacted", "messaged"}
Activities == [event : Events, changes : SUBSET FieldChanges]

\* The operators of the properties, of a timeline tl.
Reports(e, field) == \E c \in e.changes : c.field = field
MentionsIn(tl, field) == {i \in DOMAIN tl : Reports(tl[i], field)}
ChangeOf(e, field) == CHOOSE c \in e.changes : c.field = field
ValueIn(tl, kind, field, i) ==
    LET earlier == {j \in MentionsIn(tl, field) : j < i} IN
    IF earlier = {} THEN NewLead(kind)[field] ELSE ChangeOf(tl[Max(earlier)], field).to
ReachedIn(tl, status) ==
    \E i \in MentionsIn(tl, "status") : tl[i].event = "status_changed"
                                        /\ ChangeOf(tl[i], "status").to = status
ContactedIn(tl) == \E i \in DOMAIN tl : tl[i].event \in {"contacted", "messaged"}

FieldsExplained(tl, row) ==
    \A field \in Fields :
        /\ \A i \in MentionsIn(tl, field) :
              ChangeOf(tl[i], field).from = ValueIn(tl, row.kind, field, i)
        /\ row[field] = ValueIn(tl, row.kind, field, Len(tl) + 1)
StampsExplained(tl, row) ==
    \A status \in Stamped(row.kind) \cup {"contacted"} :
        status \in row.stamps <=> \/ ReachedIn(tl, status)
                                  \/ status = "contacted" /\ ContactedIn(tl)

\* more is tl, of n activities, and e.
OneMore(tl, more, e, n) ==
    /\ n \in Nat /\ DOMAIN tl = 1 .. n /\ DOMAIN more = 1 .. n + 1
    /\ \A j \in 1 .. n : more[j] = tl[j]
    /\ more[n + 1] = e

OneMoreIsTold(tl, more, e, n, kind, field) ==
    /\ \A i \in 1 .. n + 1 : ValueIn(more, kind, field, i) = ValueIn(tl, kind, field, i)
    /\ ValueIn(more, kind, field, n + 2)
         = IF Reports(e, field) THEN ChangeOf(e, field).to ELSE ValueIn(tl, kind, field, n + 1)
    /\ MentionsIn(more, field)
         = MentionsIn(tl, field) \cup IF Reports(e, field) THEN {n + 1} ELSE {}

\* e tells how the row became row2.
Tells(e, row, row2) ==
    /\ row2.kind = row.kind
    /\ \A field \in Fields :
          IF Reports(e, field)
          THEN ChangeOf(e, field).from = row[field] /\ ChangeOf(e, field).to = row2[field]
          ELSE row2[field] = row[field]
    /\ \A status \in Stamped(row.kind) \cup {"contacted"} :
          status \in row2.stamps <=>
              \/ status \in row.stamps
              \/ /\ e.event = "status_changed" /\ Reports(e, "status")
                 /\ ChangeOf(e, "status").to = status
              \/ status = "contacted" /\ e.event \in {"contacted", "messaged"}

-----------------------------------------------------------------------------
\* One activity more.
LEMMA TimelineGrows ==
    ASSUME NEW tl, NEW more, NEW e, NEW n, NEW kind, NEW field, OneMore(tl, more, e, n)
    PROVE  OneMoreIsTold(tl, more, e, n, kind, field)
<1>1. /\ n \in Nat /\ DOMAIN tl = 1 .. n /\ DOMAIN more = 1 .. n + 1
      /\ \A j \in 1 .. n : more[j] = tl[j]
      /\ more[n + 1] = e
  BY DEF OneMore
<1>2. MentionsIn(more, field)
        = MentionsIn(tl, field) \cup
          IF Reports(e, field) THEN {n + 1} ELSE {}
  BY <1>1 DEF MentionsIn
<1>3. ASSUME NEW i \in 1 .. n + 1
      PROVE  ValueIn(more, kind, field, i) = ValueIn(tl, kind, field, i)
  <2> DEFINE earlier == {j \in MentionsIn(tl, field) : j < i}
  <2>1. {j \in MentionsIn(more, field) : j < i} = earlier
    BY <1>1, <1>2, <1>3 DEF MentionsIn
  <2>2. CASE earlier = {}
    BY <2>1, <2>2 DEF ValueIn
  <2>3. CASE earlier # {}
    <3>1. Max(earlier) \in earlier
      <4>1. earlier \subseteq 1 .. n
        BY <1>1 DEF MentionsIn
      <4>2. PICK m \in earlier : \A k \in earlier : k <= m
        BY <1>1, <2>3, <4>1, Greatest
      <4> QED
        BY <4>1, <4>2, MaxIsLast
    <3>2. more[Max(earlier)] = tl[Max(earlier)]
      BY <1>1, <3>1 DEF MentionsIn
    <3> QED
      BY <2>1, <2>3, <3>2 DEF ValueIn
  <2> QED
    BY <2>2, <2>3
<1>4. ValueIn(more, kind, field, n + 2)
        = IF Reports(e, field) THEN ChangeOf(e, field).to
          ELSE ValueIn(tl, kind, field, n + 1)
  <2>1. MentionsIn(tl, field) \subseteq 1 .. n
    BY <1>1 DEF MentionsIn
  <2>2. CASE Reports(e, field)
    <3> DEFINE earlier == {j \in MentionsIn(more, field) : j < n + 2}
    <3>1. n + 1 \in earlier /\ earlier \in SUBSET Int /\ \A m \in earlier : m <= n + 1
      BY <1>1, <1>2, <2>1, <2>2
    <3>2. Max(earlier) = n + 1
      BY <1>1, <3>1, MaxIsLast
    <3> QED
      BY <1>1, <2>2, <3>1, <3>2 DEF ValueIn
  <2>3. CASE ~Reports(e, field)
    <3>1. {j \in MentionsIn(more, field) : j < n + 2} = {j \in MentionsIn(tl, field) : j < n + 1}
      BY <1>1, <1>2, <2>1, <2>3
    <3> DEFINE earlier == {j \in MentionsIn(tl, field) : j < n + 1}
    <3>2. CASE earlier = {}
      BY <2>3, <3>1, <3>2 DEF ValueIn
    <3>3. CASE earlier # {}
      <4>1. earlier \subseteq 1 .. n
        BY <2>1
      <4>2. PICK m \in earlier : \A k \in earlier : k <= m
        BY <1>1, <3>3, <4>1, Greatest
      <4>3. Max(earlier) \in 1 .. n
        BY <4>1, <4>2, MaxIsLast
      <4> QED
        BY <1>1, <2>3, <3>1, <3>3, <4>3 DEF ValueIn
    <3> QED
      BY <3>2, <3>3
  <2> QED
    BY <2>2, <2>3
<1> QED
  BY <1>2, <1>3, <1>4 DEF OneMoreIsTold

\* An activity that tells how the row became row2 keeps the story whole.
LEMMA StoryGoesOn ==
    ASSUME NEW tl \in Seq(Activities), NEW e \in Activities, NEW row, NEW row2,
           FieldsExplained(tl, row), StampsExplained(tl, row), Tells(e, row, row2)
    PROVE  /\ tl \o <<e>> \in Seq(Activities)
           /\ FieldsExplained(tl \o <<e>>, row2) /\ StampsExplained(tl \o <<e>>, row2)
<1>0. PICK more : more = tl \o <<e>>
  OBVIOUS
<1> DEFINE n == Len(tl)
<1>1. /\ n \in Nat /\ DOMAIN tl = 1 .. n /\ DOMAIN more = 1 .. n + 1
      /\ \A j \in 1 .. n : more[j] = tl[j]
      /\ more[n + 1] = e /\ Len(more) = n + 1 /\ more \in Seq(Activities)
  BY <1>0
<1> HIDE DEF n
<1>2. ASSUME NEW field
      PROVE  /\ \A i \in 1 .. n + 1 :
                   ValueIn(more, row.kind, field, i) = ValueIn(tl, row.kind, field, i)
             /\ ValueIn(more, row.kind, field, n + 2)
                  = IF Reports(e, field) THEN ChangeOf(e, field).to
                    ELSE ValueIn(tl, row.kind, field, n + 1)
             /\ MentionsIn(more, field)
                  = MentionsIn(tl, field) \cup IF Reports(e, field) THEN {n + 1} ELSE {}
             /\ MentionsIn(tl, field) \subseteq 1 .. n
  <2>1. MentionsIn(tl, field) \subseteq 1 .. n
    BY <1>1 DEF MentionsIn
  <2>2. OneMore(tl, more, e, n)
    BY <1>1 DEF OneMore
  <2>3. OneMoreIsTold(tl, more, e, n, row.kind, field)
    BY <2>2, TimelineGrows
  <2> QED
    BY <2>1, <2>3 DEF OneMoreIsTold
<1>3. FieldsExplained(more, row2)
  <2> SUFFICES ASSUME NEW field \in Fields
               PROVE  /\ \A i \in MentionsIn(more, field) :
                            ChangeOf(more[i], field).from = ValueIn(more, row.kind, field, i)
                      /\ row2[field] = ValueIn(more, row.kind, field, Len(more) + 1)
    BY DEF FieldsExplained, Tells
  <2>1. /\ \A i \in MentionsIn(tl, field) :
              ChangeOf(tl[i], field).from = ValueIn(tl, row.kind, field, i)
        /\ row[field] = ValueIn(tl, row.kind, field, n + 1)
    BY DEF FieldsExplained, n
  <2>2. IF Reports(e, field)
        THEN ChangeOf(e, field).from = row[field] /\ ChangeOf(e, field).to = row2[field]
        ELSE row2[field] = row[field]
    BY DEF Tells
  <2>3. ASSUME NEW i \in MentionsIn(more, field)
        PROVE  ChangeOf(more[i], field).from = ValueIn(more, row.kind, field, i)
    <3>1. CASE i \in MentionsIn(tl, field)
      <4>1. i \in 1 .. n /\ i \in 1 .. n + 1 /\ more[i] = tl[i]
        BY <1>1, <1>2, <3>1
      <4> QED
        BY <1>2, <2>1, <3>1, <4>1
    <3>2. CASE Reports(e, field) /\ i = n + 1
      <4>1. i \in 1 .. n + 1 /\ more[i] = e
        BY <1>1, <3>2
      <4> QED
        BY <1>2, <2>1, <2>2, <3>2, <4>1
    <3> QED
      BY <1>2, <2>3, <3>1, <3>2
  <2>4. Len(more) + 1 = n + 2
    BY <1>1
  <2> QED
    BY <1>2, <2>1, <2>2, <2>3, <2>4
<1>4. StampsExplained(more, row2)
  <2>1. ASSUME NEW status
        PROVE  ReachedIn(more, status) <=>
                  \/ ReachedIn(tl, status)
                  \/ /\ e.event = "status_changed" /\ Reports(e, "status")
                     /\ ChangeOf(e, "status").to = status
    <3>1. \A i \in MentionsIn(tl, "status") : more[i] = tl[i] /\ i \in MentionsIn(more, "status")
      BY <1>1, <1>2
    <3>2. Reports(e, "status") => n + 1 \in MentionsIn(more, "status")
      BY <1>2
    <3>3. \A i \in MentionsIn(more, "status") :
              i \in MentionsIn(tl, "status") \/ (Reports(e, "status") /\ i = n + 1)
      BY <1>2
    <3> QED
      BY <1>1, <3>1, <3>2, <3>3 DEF ReachedIn
  <2>2. ContactedIn(more) <=> ContactedIn(tl) \/ e.event \in {"contacted", "messaged"}
    BY <1>1 DEF ContactedIn
  <2>3. ASSUME NEW status \in Stamped(row2.kind) \cup {"contacted"}
        PROVE  status \in row2.stamps <=> \/ ReachedIn(more, status)
                                          \/ status = "contacted" /\ ContactedIn(more)
    <3>1. /\ row2.kind = row.kind
          /\ status \in row2.stamps <=>
              \/ status \in row.stamps
              \/ /\ e.event = "status_changed" /\ Reports(e, "status")
                 /\ ChangeOf(e, "status").to = status
              \/ status = "contacted" /\ e.event \in {"contacted", "messaged"}
      BY <2>3 DEF Tells
    <3>2. status \in row.stamps <=> \/ ReachedIn(tl, status)
                                    \/ status = "contacted" /\ ContactedIn(tl)
      BY <2>3, <3>1 DEF StampsExplained
    <3> QED
      BY <2>1, <2>2, <3>1, <3>2
  <2> QED
    BY <2>3 DEF StampsExplained
<1> QED
  BY <1>0, <1>1, <1>3, <1>4

\* An activity without changes, of a row that stays.
LEMMA PlainTellsNothing ==
    ASSUME NEW row, NEW what, what \notin {"contacted", "messaged"}
    PROVE  Tells(Plain(what), row, row)
BY DEF Tells, Plain, Activity, Reports

\* The change of a field that an activity tells.
LEMMA OneChange ==
    ASSUME NEW what, NEW field, NEW from, NEW to
    PROVE  LET e == Activity(what, {Change(field, from, to)}) IN
           /\ e.event = what
           /\ \A f : Reports(e, f) <=> f = field
           /\ ChangeOf(e, field).from = from /\ ChangeOf(e, field).to = to
<1> DEFINE e == Activity(what, {Change(field, from, to)})
           k == Change(field, from, to)
<1>1. e.event = what /\ e.changes = {k} /\ k.field = field /\ k.from = from /\ k.to = to
  BY DEF Activity, Change
<1>2. ChangeOf(e, field) = k
  <2> HIDE DEF e, k
  <2> QED
    BY <1>1 DEF ChangeOf
<1> HIDE DEF e, k
<1> QED
  BY <1>1, <1>2 DEF e, Reports

-----------------------------------------------------------------------------
MessagesIn(tl) == {i \in DOMAIN tl : tl[i].event = "messaged"}
MessagesDue == {a \in Admins : task[a].at = "record"}

Story == LeadExists /\ ~edited => FieldsExplained(timeline, lead) /\ StampsExplained(timeline, lead)
TimelineTyped == timeline \in Seq(Activities) /\ (~LeadExists => timeline = <<>>)
TasksAreOfALead ==
    \A a \in Admins : /\ task[a] # NoTask => LeadExists
                      /\ task[a].at = "save" => task[a].row.kind = "quote"
MessagesWereTaken == Cardinality(MessagesIn(timeline)) + Cardinality(MessagesDue) <= taken

LeadsInv == LeadsTypeOK /\ TimelineTyped /\ TasksAreOfALead /\ Story /\ MessagesWereTaken

LEMMA CountsAreNumbers ==
    ASSUME NEW tl \in Seq(Activities)
    PROVE  /\ IsFiniteSet(MessagesIn(tl)) /\ Cardinality(MessagesIn(tl)) \in Nat
           /\ IsFiniteSet(MessagesDue) /\ Cardinality(MessagesDue) \in Nat
<1>1. IsFiniteSet(DOMAIN tl)
  <2>1. Len(tl) \in Nat /\ DOMAIN tl = 1 .. Len(tl)
    OBVIOUS
  <2> QED
    BY <2>1, FS_Interval
<1>2. MessagesIn(tl) \subseteq DOMAIN tl /\ MessagesDue \subseteq Admins
  BY DEF MessagesIn, MessagesDue
<1> QED
  BY <1>1, <1>2, FS_Subset, FS_CardinalityType, LeadsAssumption

\* One more activity is one message more, or none.
LEMMA MessagesGrow ==
    ASSUME NEW tl \in Seq(Activities), NEW e \in Activities
    PROVE  Cardinality(MessagesIn(tl \o <<e>>))
             = Cardinality(MessagesIn(tl)) + IF e.event = "messaged" THEN 1 ELSE 0
<1>0. PICK more : more = tl \o <<e>>
  OBVIOUS
<1>1. PICK n \in Nat :
        /\ n = Len(tl) /\ DOMAIN tl = 1 .. n /\ DOMAIN more = 1 .. n + 1
        /\ \A j \in 1 .. n : more[j] = tl[j]
        /\ more[n + 1] = e
  BY <1>0
<1>2. /\ MessagesIn(more) = MessagesIn(tl) \cup IF e.event = "messaged" THEN {n + 1} ELSE {}
      /\ n + 1 \notin MessagesIn(tl)
  BY <1>1 DEF MessagesIn
<1>3. IsFiniteSet(MessagesIn(tl)) /\ Cardinality(MessagesIn(tl)) \in Nat
  BY CountsAreNumbers
<1>4. CASE e.event = "messaged"
  <2>1. Cardinality(MessagesIn(tl) \cup {n + 1}) = Cardinality(MessagesIn(tl)) + 1
    BY <1>2, <1>3, FS_AddElement
  <2> QED
    BY <1>0, <1>2, <1>4, <2>1
<1>5. CASE e.event # "messaged"
  <2>1. MessagesIn(more) = MessagesIn(tl)
    BY <1>2, <1>5
  <2>2. Cardinality(MessagesIn(more)) = Cardinality(MessagesIn(tl)) + 0
    BY <1>3, <2>1
  <2> QED
    BY <1>0, <1>5, <2>2
<1> QED
  BY <1>4, <1>5

\* The lead changes as one activity tells.
LEMMA LoggedOnce ==
    ASSUME LeadsInv, LeadExists, NEW e \in Activities, Log(<<e>>),
           lead' \in LeadRows, Tells(e, lead, lead'), edited' = edited
    PROVE  /\ TimelineTyped' /\ Story' /\ LeadExists'
           /\ Cardinality(MessagesIn(timeline'))
                = Cardinality(MessagesIn(timeline)) + IF e.event = "messaged" THEN 1 ELSE 0
           /\ Len(timeline') <= MaxActivities
<1>1. timeline \in Seq(Activities) /\ timeline' = timeline \o <<e>>
  BY DEF LeadsInv, TimelineTyped, Log
<1>2. LeadExists' /\ timeline' \in Seq(Activities)
  BY <1>1 DEF Tells, LeadExists
<1>3. Story'
  BY <1>1, StoryGoesOn DEF LeadsInv, Story
<1>4. Len(timeline') <= MaxActivities
  BY <1>1 DEF Log
<1> QED
  BY <1>1, <1>2, <1>3, <1>4, MessagesGrow DEF TimelineTyped

\* The lead changes as two activities tell, one after the other.
LEMMA LoggedTwice ==
    ASSUME LeadsInv, LeadExists, NEW d \in Activities, NEW e \in Activities, Log(<<d>> \o <<e>>),
           NEW row, Tells(d, lead, row), Tells(e, row, lead'),
           d.event # "messaged", lead' \in LeadRows, edited' = edited
    PROVE  /\ TimelineTyped' /\ Story' /\ LeadExists'
           /\ Cardinality(MessagesIn(timeline'))
                = Cardinality(MessagesIn(timeline)) + IF e.event = "messaged" THEN 1 ELSE 0
           /\ Len(timeline') <= MaxActivities
<1>0. timeline \in Seq(Activities)
  BY DEF LeadsInv, TimelineTyped
<1>1. PICK tl : tl = timeline \o <<d>>
  OBVIOUS
<1>2. tl \in Seq(Activities) /\ timeline' = tl \o <<e>>
  BY <1>0, <1>1 DEF Log
<1>3. LeadExists' /\ timeline' \in Seq(Activities)
  BY <1>2 DEF Tells, LeadExists
<1>4. Story'
  <2> SUFFICES ASSUME ~edited
               PROVE  FieldsExplained(timeline', lead') /\ StampsExplained(timeline', lead')
    BY DEF Story
  <2>1. FieldsExplained(tl, row) /\ StampsExplained(tl, row)
    BY <1>0, <1>1, StoryGoesOn DEF LeadsInv, Story
  <2> QED
    BY <1>2, <2>1, StoryGoesOn
<1>5. Len(timeline') <= MaxActivities
  BY <1>0, <1>1, <1>2 DEF Log
<1>6. Cardinality(MessagesIn(tl)) = Cardinality(MessagesIn(timeline))
  <2>1. Cardinality(MessagesIn(tl)) = Cardinality(MessagesIn(timeline)) + 0
    BY <1>0, <1>1, MessagesGrow
  <2> QED
    BY <1>0, <2>1, CountsAreNumbers
<1>7. Cardinality(MessagesIn(timeline'))
        = Cardinality(MessagesIn(tl)) + IF e.event = "messaged" THEN 1 ELSE 0
  BY <1>2, MessagesGrow
<1> QED
  BY <1>3, <1>4, <1>5, <1>6, <1>7 DEF TimelineTyped

-----------------------------------------------------------------------------
LEMMA Rows ==
    ASSUME LeadsInv, LeadExists
    PROVE  /\ lead \in LeadRows /\ lead.kind \in Kinds
           /\ lead.kind = "quote" \/ lead.kind = "consultation"
           /\ \A status \in Statuses(lead.kind) : status \in AllStatuses
<1>1. lead \in LeadRows /\ lead.kind \in Kinds
  BY DEF LeadsInv, LeadsTypeOK, LeadRows, LeadExists
<1> QED
  BY <1>1, LeadsAssumption DEF AllStatuses

LEMMA ChangeIsActivity ==
    ASSUME NEW what \in Events, NEW field \in Fields, NEW from \in FieldValues,
           NEW to \in FieldValues
    PROVE  /\ Activity(what, {Change(field, from, to)}) \in Activities
           /\ Activity(what, {Change(field, from, to)}).event = what
<1>1. Change(field, from, to) \in FieldChanges
  BY DEF Change, FieldChanges
<1> QED
  BY <1>1 DEF Activity, Activities

\* An activity of one field tells how that field changed, and stamps what it is of.
LEMMA OneFieldTells ==
    ASSUME NEW row \in LeadRows, NEW row2 \in LeadRows, NEW what, NEW field \in Fields, NEW to,
           what \notin {"contacted", "messaged"},
           row2.kind = row.kind, row2[field] = to,
           \A f \in Fields \ {field} : row2[f] = row[f],
           \A status \in Stamped(row.kind) \cup {"contacted"} :
               status \in row2.stamps <=>
                   \/ status \in row.stamps
                   \/ what = "status_changed" /\ field = "status" /\ to = status
    PROVE  Tells(Activity(what, {Change(field, row[field], to)}), row, row2)
<1>1. PICK e : e = Activity(what, {Change(field, row[field], to)})
  OBVIOUS
<1>2. /\ e.event = what
      /\ \A f : Reports(e, f) <=> f = field
      /\ ChangeOf(e, field).from = row[field] /\ ChangeOf(e, field).to = to
  BY <1>1, OneChange
<1>3. Tells(e, row, row2)
  BY <1>2 DEF Tells
<1> QED
  BY <1>1, <1>3

\* Steps that leave the messages due as they are.
LEMMA MessagesStayTaken ==
    ASSUME LeadsInv, TimelineTyped', Cardinality(MessagesIn(timeline')) = Cardinality(MessagesIn(timeline)),
           UNCHANGED <<taken, task>>
    PROVE  MessagesWereTaken'
BY DEF LeadsInv, MessagesWereTaken, MessagesDue

\* An operation of the staff, told by one activity.
LEMMA OperationOnce ==
    ASSUME LeadsInv, LeadExists, NEW e \in Activities, Log(<<e>>), e.event # "messaged",
           lead' \in LeadRows, Tells(e, lead, lead'), UNCHANGED <<taken, edited, task>>
    PROVE  LeadsInv'
<1>1. /\ TimelineTyped' /\ Story' /\ LeadExists'
      /\ Cardinality(MessagesIn(timeline')) = Cardinality(MessagesIn(timeline)) + 0
      /\ Len(timeline') <= MaxActivities
  BY LoggedOnce
<1>2. Cardinality(MessagesIn(timeline)) \in Nat
  BY CountsAreNumbers DEF LeadsInv, TimelineTyped
<1>3. MessagesWereTaken'
  BY <1>1, <1>2, MessagesStayTaken
<1>4. LeadsTypeOK' /\ TasksAreOfALead'
  BY <1>1 DEF LeadsInv, LeadsTypeOK, TasksAreOfALead
<1> QED
  BY <1>1, <1>3, <1>4 DEF LeadsInv

LEMMA OperationTwice ==
    ASSUME LeadsInv, LeadExists, NEW d \in Activities, NEW e \in Activities, Log(<<d>> \o <<e>>),
           NEW row, Tells(d, lead, row), Tells(e, row, lead'),
           d.event # "messaged", e.event # "messaged", lead' \in LeadRows,
           UNCHANGED <<taken, edited, task>>
    PROVE  LeadsInv'
<1>1. /\ TimelineTyped' /\ Story' /\ LeadExists'
      /\ Cardinality(MessagesIn(timeline')) = Cardinality(MessagesIn(timeline)) + 0
      /\ Len(timeline') <= MaxActivities
  BY LoggedTwice
<1>2. Cardinality(MessagesIn(timeline)) \in Nat
  BY CountsAreNumbers DEF LeadsInv, TimelineTyped
<1>3. MessagesWereTaken'
  BY <1>1, <1>2, MessagesStayTaken
<1>4. LeadsTypeOK' /\ TasksAreOfALead'
  BY <1>1 DEF LeadsInv, LeadsTypeOK, TasksAreOfALead
<1> QED
  BY <1>1, <1>3, <1>4 DEF LeadsInv

-----------------------------------------------------------------------------
LEMMA LeadsInvInit == LeadsInit => LeadsInv
<1> SUFFICES ASSUME LeadsInit PROVE LeadsInv
  OBVIOUS
<1>1. lead \in LeadRows /\ lead.kind = Nothing
  BY DEF LeadsInit, NoLead, LeadRows
<1>2. LeadsTypeOK
  <2>1. Len(timeline) = 0 /\ edited \in BOOLEAN /\ taken = 0
    BY DEF LeadsInit
  <2>2. 0 <= MaxActivities /\ 0 \in 0 .. MaxMessages
    BY LeadsAssumption
  <2>3. task \in [Admins -> {NoTask} \cup [at : {"send", "record", "save"}, row : LeadRows]]
    BY DEF LeadsInit
  <2> QED
    BY <1>1, <2>1, <2>2, <2>3 DEF LeadsTypeOK
<1>3. TimelineTyped /\ TasksAreOfALead /\ Story
  BY <1>1 DEF LeadsInit, TimelineTyped, TasksAreOfALead, Story, LeadExists, NoTask
<1>4. MessagesWereTaken
  <2>1. MessagesIn(timeline) = {} /\ MessagesDue = {}
    BY DEF LeadsInit, MessagesIn, MessagesDue, NoTask
  <2> QED
    BY <2>1, FS_EmptySet DEF MessagesWereTaken, LeadsInit
<1> QED
  BY <1>2, <1>3, <1>4 DEF LeadsInv

LEMMA CreateLeadKeeps == ASSUME LeadsInv, NEW kind \in Kinds, CreateLead(kind) PROVE LeadsInv'
<1>1. /\ timeline = <<>> /\ lead' = NewLead(kind) /\ timeline' = timeline \o <<Plain("created")>>
      /\ Len(timeline) + Len(<<Plain("created")>>) <= MaxActivities
      /\ UNCHANGED <<taken, edited, task>>
  BY DEF LeadsInv, TimelineTyped, CreateLead, Log
<1>2. kind = "quote" \/ kind = "consultation"
  BY LeadsAssumption
<1>3. FirstStatus(kind) \in AllStatuses
  BY <1>2 DEF FirstStatus, AllStatuses, Statuses
<1>4. /\ NewLead(kind) \in LeadRows /\ NewLead(kind).kind = kind /\ NewLead(kind).stamps = {}
      /\ kind # Nothing
  BY <1>2, <1>3 DEF NewLead, NoLead, LeadRows, Nothing
<1>5. FieldsExplained(timeline, NewLead(kind)) /\ StampsExplained(timeline, NewLead(kind))
  <2>1. \A field : MentionsIn(timeline, field) = {}
    BY <1>1 DEF MentionsIn
  <2>2. \A field, i : ValueIn(timeline, kind, field, i) = NewLead(kind)[field]
    BY <2>1 DEF ValueIn
  <2>3. \A status : ~ReachedIn(timeline, status)
    BY <2>1 DEF ReachedIn
  <2>4. ~ContactedIn(timeline)
    BY <1>1 DEF ContactedIn
  <2>5. FieldsExplained(timeline, NewLead(kind))
    BY <1>4, <2>1, <2>2 DEF FieldsExplained
  <2> QED
    BY <1>4, <2>3, <2>4, <2>5 DEF StampsExplained
<1>6. Plain("created") \in Activities /\ Plain("created").event = "created"
  BY DEF Plain, Activity, Activities, Events
<1>7. Tells(Plain("created"), NewLead(kind), NewLead(kind))
  BY PlainTellsNothing
<1>8. timeline \in Seq(Activities)
  BY DEF LeadsInv, TimelineTyped
<1>9. /\ timeline' \in Seq(Activities)
      /\ FieldsExplained(timeline', lead') /\ StampsExplained(timeline', lead')
  BY <1>1, <1>5, <1>6, <1>7, <1>8, StoryGoesOn
<1>10. Cardinality(MessagesIn(timeline')) = Cardinality(MessagesIn(timeline))
  <2>1. Cardinality(MessagesIn(timeline')) = Cardinality(MessagesIn(timeline)) + 0
    BY <1>1, <1>6, <1>8, MessagesGrow
  <2> QED
    BY <1>8, <2>1, CountsAreNumbers
<1>11. LeadExists' /\ TimelineTyped' /\ Story'
  BY <1>1, <1>4, <1>9 DEF LeadExists, TimelineTyped, Story
<1>12. Len(timeline') <= MaxActivities
  BY <1>1, <1>6, <1>8
<1>13. LeadsTypeOK' /\ TasksAreOfALead'
  BY <1>1, <1>4, <1>11, <1>12 DEF LeadsInv, LeadsTypeOK, TasksAreOfALead
<1>14. MessagesWereTaken'
  BY <1>1, <1>10, <1>11, MessagesStayTaken
<1> QED
  BY <1>11, <1>13, <1>14 DEF LeadsInv

LEMMA ChangeStatusKeeps ==
    ASSUME LeadsInv, NEW status \in AllStatuses, ChangeStatus(status) PROVE LeadsInv'
<1>1. /\ LeadExists /\ status \in Statuses(lead.kind)
      /\ lead' = LET row == [lead EXCEPT !.status = status]
                 IN  [row EXCEPT !.stamps = row.stamps \cup Stamp(row)]
      /\ Log(<<Activity("status_changed", {Change("status", lead.status, status)})>>
             \o ResultEvents(lead.kind, status))
      /\ UNCHANGED <<taken, edited, task>>
  BY DEF ChangeStatus
<1>2. /\ lead \in LeadRows /\ lead.kind \in Kinds
      /\ lead.kind = "quote" \/ lead.kind = "consultation"
  BY <1>1, Rows
<1>3. PICK d : d = Activity("status_changed", {Change("status", lead.status, status)})
  OBVIOUS
<1>4. d \in Activities /\ d.event = "status_changed"
  <2>1. lead.status \in FieldValues /\ status \in FieldValues /\ "status" \in Fields
    BY <1>2 DEF LeadRows, FieldValues, Fields
  <2> QED
    BY <1>3, <2>1, ChangeIsActivity DEF Events
<1>5. PICK stamps : stamps = lead.stamps \cup IF status \in Stamped(lead.kind) THEN {status} ELSE {}
  OBVIOUS
<1>6. lead' = [lead EXCEPT !.status = status, !.stamps = stamps]
  BY <1>1, <1>2, <1>5 DEF Stamp, LeadRows
<1>7. /\ lead' \in LeadRows /\ lead'.kind = lead.kind /\ lead'["status"] = status
      /\ \A f \in Fields \ {"status"} : lead'[f] = lead[f]
      /\ lead'.stamps = stamps
  <2>1. stamps \in SUBSET (AllStatuses \cup {"contacted"})
    BY <1>2, <1>5 DEF LeadRows
  <2> QED
    BY <1>2, <1>6, <2>1 DEF LeadRows, Fields
<1>8. \A s \in Stamped(lead.kind) \cup {"contacted"} :
          s \in lead'.stamps <=> s \in lead.stamps \/ s = status
  <2>1. lead.kind = "quote" => status # "contacted"
    BY <1>1 DEF Statuses
  <2>2. lead.kind = "consultation" => "contacted" \in Stamped(lead.kind)
    BY DEF Stamped
  <2> QED
    BY <1>2, <1>5, <1>7, <2>1, <2>2
<1>9. Tells(d, lead, lead')
  <2>1. "status" \in Fields /\ lead["status"] = lead.status
    BY DEF Fields
  <2>2. Tells(Activity("status_changed", {Change("status", lead["status"], status)}), lead, lead')
    BY <1>2, <1>7, <1>8, <2>1, OneFieldTells
  <2> QED
    BY <1>3, <2>1, <2>2
<1>10. CASE ResultEvents(lead.kind, status) = <<>>
  <2>1. Log(<<d>>)
    BY <1>1, <1>3, <1>10
  <2> QED
    BY <1>1, <1>4, <1>7, <1>9, <2>1, OperationOnce
<1>11. ASSUME NEW what \in {"quote_sent", "approved", "rejected"},
              ResultEvents(lead.kind, status) = <<Plain(what)>>
       PROVE  LeadsInv'
  <2>1. Plain(what) \in Activities /\ Plain(what).event = what
    BY DEF Plain, Activity, Activities, Events
  <2>2. Tells(Plain(what), lead', lead')
    BY PlainTellsNothing
  <2>3. Log(<<d>> \o <<Plain(what)>>)
    BY <1>1, <1>3, <1>11
  <2> QED
    BY <1>1, <1>4, <1>7, <1>9, <2>1, <2>2, <2>3, OperationTwice
<1> QED
  BY <1>10, <1>11 DEF ResultEvents

LEMMA OperationsKeep ==
    ASSUME LeadsInv,
           \/ \E user \in Staff \cup {Nothing} : Assign(user)
           \/ \E time \in Times : Schedule(time)
           \/ \E time \in Times \cup {Nothing} : SetFollowUp(time)
           \/ AddNote
    PROVE  LeadsInv'
<1>0. \A f \in Fields : f \in {"status", "assigned_to", "scheduled_for", "next_follow_up_at"}
  BY DEF Fields
<1>1. ASSUME NEW field \in {"assigned_to", "next_follow_up_at"}, NEW to \in FieldValues,
             NEW what \in {"assigned", "follow_up_set"}, LeadExists,
             lead' \in LeadRows, lead'.kind = lead.kind, lead'[field] = to,
             \A f \in Fields \ {field} : lead'[f] = lead[f], lead'.stamps = lead.stamps,
             Log(<<Activity(what, {Change(field, lead[field], to)})>>),
             UNCHANGED <<taken, edited, task>>
      PROVE  LeadsInv'
  <2>1. PICK e : e = Activity(what, {Change(field, lead[field], to)})
    OBVIOUS
  <2>2. lead \in LeadRows /\ field \in Fields
    BY <1>1, Rows DEF Fields
  <2>3. lead[field] \in FieldValues
    BY <1>1, <2>2 DEF LeadRows, FieldValues
  <2>4. e \in Activities /\ e.event = what
    BY <2>1, <2>2, <2>3, ChangeIsActivity DEF Events
  <2>5. Tells(e, lead, lead')
    BY <1>1, <2>1, <2>2, OneFieldTells
  <2> QED
    BY <1>1, <2>1, <2>4, <2>5, OperationOnce
<1>2. ASSUME NEW user \in Staff \cup {Nothing}, Assign(user) PROVE LeadsInv'
  <2>1. LeadExists /\ lead' = [lead EXCEPT !.assigned_to = user] /\ user \in FieldValues
        /\ Log(<<Activity("assigned", {Change("assigned_to", lead["assigned_to"], user)})>>)
        /\ UNCHANGED <<taken, edited, task>>
    BY <1>2 DEF Assign, FieldValues
  <2>2. /\ lead' \in LeadRows /\ lead'.kind = lead.kind /\ lead'["assigned_to"] = user
        /\ \A f \in Fields \ {"assigned_to"} : lead'[f] = lead[f]
        /\ lead'.stamps = lead.stamps
    BY <1>0, <2>1, Rows DEF LeadRows
  <2> QED
    BY <1>1, <2>1, <2>2
<1>3. ASSUME NEW time \in Times \cup {Nothing}, SetFollowUp(time) PROVE LeadsInv'
  <2>1. LeadExists /\ lead' = [lead EXCEPT !.next_follow_up_at = time] /\ time \in FieldValues
        /\ Log(<<Activity("follow_up_set",
                          {Change("next_follow_up_at", lead["next_follow_up_at"], time)})>>)
        /\ UNCHANGED <<taken, edited, task>>
    BY <1>3 DEF SetFollowUp, FieldValues
  <2>2. /\ lead' \in LeadRows /\ lead'.kind = lead.kind /\ lead'["next_follow_up_at"] = time
        /\ \A f \in Fields \ {"next_follow_up_at"} : lead'[f] = lead[f]
        /\ lead'.stamps = lead.stamps
    BY <1>0, <2>1, Rows DEF LeadRows
  <2> QED
    BY <1>1, <2>1, <2>2
<1>4. ASSUME AddNote PROVE LeadsInv'
  <2>1. LeadExists /\ lead' = lead /\ Log(<<Plain("internal_note")>>)
        /\ UNCHANGED <<taken, edited, task>>
    BY <1>4 DEF AddNote
  <2>2. Plain("internal_note") \in Activities /\ Plain("internal_note").event = "internal_note"
    BY DEF Plain, Activity, Activities, Events
  <2>3. Tells(Plain("internal_note"), lead, lead')
    BY <2>1, PlainTellsNothing
  <2> QED
    BY <2>1, <2>2, <2>3, Rows, OperationOnce
<1>5. ASSUME NEW time \in Times, Schedule(time) PROVE LeadsInv'
  <2>1. /\ LeadExists /\ lead.kind = "consultation"
        /\ lead' = [lead EXCEPT !.scheduled_for = time, !.status = "scheduled"]
        /\ Log(<<Activity("rescheduled",
                          {Change("status", lead.status, "scheduled"),
                           Change("scheduled_for", lead.scheduled_for, time)})>>)
        /\ UNCHANGED <<taken, edited, task>>
    BY <1>5 DEF Schedule, LeadExists, Nothing
  <2>2. lead \in LeadRows /\ lead.kind \in Kinds
    BY <2>1, Rows
  <2>3. "scheduled" \in AllStatuses
    BY <2>1, <2>2 DEF AllStatuses, Statuses
  <2>4. /\ lead' \in LeadRows /\ lead'.kind = lead.kind
        /\ lead'.status = "scheduled" /\ lead'.scheduled_for = time
        /\ lead'.assigned_to = lead.assigned_to
        /\ lead'.next_follow_up_at = lead.next_follow_up_at
        /\ lead'.stamps = lead.stamps
    BY <2>1, <2>2, <2>3 DEF LeadRows
  <2>5. PICK c, d : c = Change("status", lead.status, "scheduled")
                    /\ d = Change("scheduled_for", lead.scheduled_for, time)
    OBVIOUS
  <2>6. PICK e : e = Activity("rescheduled", {c, d})
    OBVIOUS
  <2>7. /\ c.field = "status" /\ c.from = lead.status /\ c.to = "scheduled"
        /\ d.field = "scheduled_for" /\ d.from = lead.scheduled_for /\ d.to = time
        /\ e.event = "rescheduled" /\ e.changes = {c, d}
    BY <2>5, <2>6 DEF Change, Activity
  <2>8. e \in Activities
    <3>1. c \in FieldChanges /\ d \in FieldChanges
      BY <2>2, <2>3, <2>5 DEF Change, FieldChanges, FieldValues, LeadRows, Fields
    <3> QED
      BY <2>6, <3>1 DEF Activity, Activities, Events
  <2>9. /\ Reports(e, "status") /\ Reports(e, "scheduled_for")
        /\ ~Reports(e, "assigned_to") /\ ~Reports(e, "next_follow_up_at")
        /\ ChangeOf(e, "status") = c /\ ChangeOf(e, "scheduled_for") = d
    BY <2>7 DEF Reports, ChangeOf
  <2>10. Tells(e, lead, lead')
    <3>1. ASSUME NEW f \in Fields
          PROVE  IF Reports(e, f)
                 THEN ChangeOf(e, f).from = lead[f] /\ ChangeOf(e, f).to = lead'[f]
                 ELSE lead'[f] = lead[f]
      BY <1>0, <2>4, <2>7, <2>9
    <3> QED
      BY <2>4, <2>7, <3>1 DEF Tells
  <2> QED
    BY <2>1, <2>4, <2>5, <2>6, <2>7, <2>8, <2>10, OperationOnce
<1> QED
  BY <1>2, <1>3, <1>4, <1>5

-----------------------------------------------------------------------------
\* A contact is told, with the status it leads to.
LEMMA ContactIsTold ==
    ASSUME LeadsInv, LeadExists, NEW what \in {"contacted", "messaged"},
           RecordContact(lead, what), edited' = edited
    PROVE  /\ TimelineTyped' /\ Story' /\ LeadExists'
           /\ Cardinality(MessagesIn(timeline'))
                = Cardinality(MessagesIn(timeline)) + IF what = "messaged" THEN 1 ELSE 0
           /\ Len(timeline') <= MaxActivities
           /\ lead' \in LeadRows
<1>1. PICK status : status = AfterContact(lead.kind, lead.status)
  OBVIOUS
<1>2. /\ lead' = [lead EXCEPT !.status = status, !.stamps = lead.stamps \cup {"contacted"}]
      /\ Log((IF status = lead.status THEN <<>>
              ELSE <<Activity("status_changed", {Change("status", lead.status, status)})>>)
             \o <<Plain(what)>>)
  BY <1>1 DEF RecordContact
<1>3. /\ lead \in LeadRows /\ lead.kind \in Kinds
      /\ lead.kind = "quote" \/ lead.kind = "consultation"
  BY Rows
<1>4. status \in AllStatuses \cup {Nothing}
      /\ (status # lead.status =>
             /\ status \in {"reviewing", "contacted"}
             /\ lead.kind = "quote" => status = "reviewing")
  BY <1>1, <1>3 DEF AfterContact, AllStatuses, Statuses, LeadRows
<1>5. PICK row : row = [lead EXCEPT !.status = status]
  OBVIOUS
<1>6. /\ row \in LeadRows /\ lead' \in LeadRows /\ row.kind = lead.kind /\ lead'.kind = lead.kind
      /\ row["status"] = status /\ \A f \in Fields \ {"status"} : row[f] = lead[f]
      /\ \A f \in Fields : lead'[f] = row[f]
      /\ row.stamps = lead.stamps /\ lead'.stamps = lead.stamps \cup {"contacted"}
  BY <1>2, <1>3, <1>4, <1>5 DEF LeadRows, Fields
<1>7. Plain(what) \in Activities /\ Plain(what).event = what
      /\ \A f : ~Reports(Plain(what), f)
  BY DEF Plain, Activity, Activities, Events, Reports
<1>8. CASE status = lead.status
  <2>1. Log(<<Plain(what)>>)
    BY <1>2, <1>8
  <2>2. Tells(Plain(what), lead, lead')
    <3>1. \A f \in Fields : lead'[f] = lead[f]
      BY <1>6, <1>8
    <3> QED
      BY <1>6, <1>7, <3>1 DEF Tells
  <2> QED
    BY <1>6, <1>7, <2>1, <2>2, LoggedOnce
<1>9. CASE status # lead.status
  <2>1. PICK d : d = Activity("status_changed", {Change("status", lead["status"], status)})
    OBVIOUS
  <2>2. Log(<<d>> \o <<Plain(what)>>)
    BY <1>2, <1>9, <2>1
  <2>3. d \in Activities /\ d.event = "status_changed"
    <3>1. lead["status"] \in FieldValues /\ status \in FieldValues /\ "status" \in Fields
      BY <1>3, <1>4 DEF LeadRows, FieldValues, Fields
    <3> QED
      BY <2>1, <3>1, ChangeIsActivity DEF Events
\* The new status of a consultation stamps contacted_at, as the contact does.
  <2> DEFINE between == [row EXCEPT !.stamps =
                            row.stamps \cup IF status = "contacted" THEN {"contacted"} ELSE {}]
  <2>4. /\ between \in LeadRows /\ between.kind = lead.kind
        /\ between["status"] = status /\ \A f \in Fields \ {"status"} : between[f] = lead[f]
        /\ \A f \in Fields : lead'[f] = between[f]
        /\ \A s : s \in between.stamps <=> s \in lead.stamps \/ (s = status /\ s = "contacted")
    BY <1>6 DEF LeadRows, Fields
  <2> HIDE DEF between
  <2>5. \A s \in Stamped(lead.kind) \cup {"contacted"} :
            s \in between.stamps <=> s \in lead.stamps \/ s = status
    BY <1>3, <1>4, <1>9, <2>4 DEF Stamped
  <2>6. Tells(d, lead, between)
    BY <1>3, <2>1, <2>4, <2>5, OneFieldTells DEF Fields
  <2>7. Tells(Plain(what), between, lead')
    BY <1>6, <1>7, <2>4 DEF Tells
  <2> QED
    BY <1>6, <1>7, <2>2, <2>3, <2>6, <2>7, LoggedTwice
<1> QED
  BY <1>6, <1>8, <1>9

LEMMA MarkContactedKeeps == ASSUME LeadsInv, MarkContacted PROVE LeadsInv'
<1>1. LeadExists /\ RecordContact(lead, "contacted") /\ UNCHANGED <<taken, edited, task>>
  BY DEF MarkContacted
<1>2. /\ TimelineTyped' /\ Story' /\ LeadExists' /\ lead' \in LeadRows
      /\ Cardinality(MessagesIn(timeline')) = Cardinality(MessagesIn(timeline)) + 0
      /\ Len(timeline') <= MaxActivities
  BY <1>1, ContactIsTold
<1>3. Cardinality(MessagesIn(timeline)) \in Nat
  BY CountsAreNumbers DEF LeadsInv, TimelineTyped
<1>4. MessagesWereTaken'
  BY <1>1, <1>2, <1>3, MessagesStayTaken
<1>5. LeadsTypeOK' /\ TasksAreOfALead'
  BY <1>1, <1>2 DEF LeadsInv, LeadsTypeOK, TasksAreOfALead
<1> QED
  BY <1>2, <1>4, <1>5 DEF LeadsInv

\* The tasks that record, after one of them goes on.
LEMMA DueChanges ==
    ASSUME LeadsInv, NEW a \in Admins, NEW w, task' = [task EXCEPT ![a] = w]
    PROVE  /\ MessagesDue' = IF w.at = "record" THEN MessagesDue \cup {a} ELSE MessagesDue \ {a}
           /\ Cardinality(MessagesDue) \in Nat /\ Cardinality(MessagesDue') \in Nat
           /\ a \notin MessagesDue /\ w.at = "record" =>
                 Cardinality(MessagesDue') = Cardinality(MessagesDue) + 1
           /\ a \in MessagesDue /\ w.at # "record" =>
                 Cardinality(MessagesDue') = Cardinality(MessagesDue) - 1
           /\ w.at # "record" => Cardinality(MessagesDue') <= Cardinality(MessagesDue)
<1>1. \A b \in Admins : task'[b] = IF b = a THEN w ELSE task[b]
  BY DEF LeadsInv, LeadsTypeOK
<1>2. MessagesDue' = IF w.at = "record" THEN MessagesDue \cup {a} ELSE MessagesDue \ {a}
  BY <1>1 DEF MessagesDue
<1>3. IsFiniteSet(MessagesDue) /\ Cardinality(MessagesDue) \in Nat
  BY CountsAreNumbers DEF LeadsInv, TimelineTyped
<1>4. Cardinality(MessagesDue \cup {a})
        = IF a \in MessagesDue THEN Cardinality(MessagesDue) ELSE Cardinality(MessagesDue) + 1
  BY <1>3, FS_AddElement
<1>5. Cardinality(MessagesDue \ {a})
        = IF a \in MessagesDue THEN Cardinality(MessagesDue) - 1 ELSE Cardinality(MessagesDue)
  BY <1>3, FS_RemoveElement
<1>6. a \in MessagesDue => Cardinality(MessagesDue) > 0
  BY <1>3, FS_EmptySet
<1> QED
  BY <1>2, <1>3, <1>4, <1>5, <1>6

LEMMA LeadsInvStep == LeadsInv /\ [LeadsNext]_leadVars => LeadsInv'
<1> SUFFICES ASSUME LeadsInv, [LeadsNext]_leadVars PROVE LeadsInv'
  OBVIOUS
<1>0. /\ lead \in LeadRows /\ taken \in 0 .. MaxMessages /\ taken \in Nat
      /\ task \in [Admins -> {NoTask} \cup [at : {"send", "record", "save"}, row : LeadRows]]
      /\ timeline \in Seq(Activities) /\ Cardinality(MessagesIn(timeline)) \in Nat
      /\ Cardinality(MessagesIn(timeline)) + Cardinality(MessagesDue) <= taken
      /\ MaxMessages \in Nat
  BY CountsAreNumbers, LeadsAssumption
     DEF LeadsInv, LeadsTypeOK, TimelineTyped, MessagesWereTaken
\* A task goes on, and the lead and its timeline stay.
<1>1. ASSUME NEW a \in Admins, NEW w \in {NoTask} \cup [at : {"send", "record", "save"}, row : LeadRows],
             task' = [task EXCEPT ![a] = w], UNCHANGED <<lead, timeline, edited>>, LeadExists,
             w.at = "save" => w.row.kind = "quote",
             taken' \in 0 .. MaxMessages,
             taken' = IF w.at = "record" THEN taken + 1 ELSE taken,
             w.at = "record" => a \notin MessagesDue
      PROVE  LeadsInv'
  <2>1. LeadsTypeOK' /\ TimelineTyped' /\ TasksAreOfALead' /\ Story'
    <3>1. \A b \in Admins : task'[b] = IF b = a THEN w ELSE task[b]
      BY <1>0, <1>1
    <3>2. task' \in [Admins -> {NoTask} \cup [at : {"send", "record", "save"}, row : LeadRows]]
      BY <1>0, <1>1
    <3>3. TasksAreOfALead'
      BY <1>1, <3>1 DEF LeadsInv, TasksAreOfALead, LeadExists
    <3> QED
      BY <1>0, <1>1, <3>2, <3>3 DEF LeadsInv, LeadsTypeOK, TimelineTyped, Story, LeadExists
  <2>2. MessagesWereTaken'
    <3>1. /\ Cardinality(MessagesDue) \in Nat /\ Cardinality(MessagesDue') \in Nat
          /\ w.at = "record" => Cardinality(MessagesDue') = Cardinality(MessagesDue) + 1
          /\ w.at # "record" => Cardinality(MessagesDue') <= Cardinality(MessagesDue)
      BY <1>1, DueChanges
    <3>2. Cardinality(MessagesIn(timeline')) = Cardinality(MessagesIn(timeline))
      BY <1>1
    <3> HIDE DEF MessagesDue
    <3> QED
      BY <1>0, <1>1, <3>1, <3>2 DEF MessagesWereTaken
  <2> QED
    BY <2>1, <2>2 DEF LeadsInv
<1>2. ASSUME NEW a \in Admins, ComposeMessage(a) PROVE LeadsInv'
  <2>1. [at |-> "send", row |-> lead] \in [at : {"send", "record", "save"}, row : LeadRows]
    BY <1>0
  <2> QED
    BY <1>0, <1>1, <1>2, <2>1 DEF ComposeMessage, TaskAt
<1>3. ASSUME NEW a \in Admins, SendMessage(a) PROVE LeadsInv'
  <2>1. task[a].at = "send" /\ UNCHANGED <<lead, timeline, edited>>
    BY <1>3 DEF SendMessage
  <2>2. task[a] # NoTask /\ LeadExists /\ a \notin MessagesDue
    BY <2>1 DEF NoTask, LeadsInv, TasksAreOfALead, MessagesDue
  <2>3. CASE taken < MaxMessages /\ taken' = taken + 1 /\ TaskAt(a, "record", task[a].row)
    <3>1. task[a].row \in LeadRows
      BY <1>0, <2>2
    <3>2. [at |-> "record", row |-> task[a].row]
            \in [at : {"send", "record", "save"}, row : LeadRows]
      BY <3>1
    <3>3. taken + 1 \in 0 .. MaxMessages
      BY <1>0, <2>3
    <3> QED
      BY <1>1, <2>1, <2>2, <2>3, <3>2, <3>3 DEF TaskAt
  <2>4. CASE UNCHANGED taken /\ EndTask(a)
    BY <1>0, <1>1, <2>1, <2>2, <2>4 DEF EndTask, NoTask
  <2> QED
    BY <1>3, <2>3, <2>4 DEF SendMessage
<1>4. ASSUME NEW a \in Admins, TaskDies(a) PROVE LeadsInv'
  BY <1>0, <1>1, <1>4 DEF TaskDies, EndTask, NoTask, LeadsInv, TasksAreOfALead
<1>5. ASSUME NEW a \in Admins, LoadForm(a) PROVE LeadsInv'
  <2>1. [at |-> "save", row |-> lead] \in [at : {"send", "record", "save"}, row : LeadRows]
    BY <1>0
  <2> QED
    BY <1>0, <1>1, <1>5, <2>1 DEF LoadForm, TaskAt, LeadExists, Nothing
<1>6. ASSUME NEW a \in Admins, RecordMessage(a) PROVE LeadsInv'
  <2>1. task[a].at = "record" /\ RecordContact(lead, "messaged") /\ EndTask(a)
        /\ UNCHANGED <<taken, edited>>
    BY <1>6 DEF RecordMessage
  <2>2. LeadExists /\ a \in MessagesDue
    BY <2>1 DEF NoTask, LeadsInv, TasksAreOfALead, MessagesDue
  <2>3. /\ TimelineTyped' /\ Story' /\ LeadExists' /\ lead' \in LeadRows
        /\ Cardinality(MessagesIn(timeline')) = Cardinality(MessagesIn(timeline)) + 1
        /\ Len(timeline') <= MaxActivities
    BY <2>1, <2>2, ContactIsTold
  <2>4. /\ Cardinality(MessagesDue) \in Nat /\ Cardinality(MessagesDue') \in Nat
        /\ Cardinality(MessagesDue') = Cardinality(MessagesDue) - 1
    <3>1. PICK w : w = NoTask
      OBVIOUS
    <3>2. w.at # "record" /\ task' = [task EXCEPT ![a] = w]
      BY <2>1, <3>1 DEF EndTask, NoTask
    <3> QED
      BY <2>2, <3>2, DueChanges
  <2>5. MessagesWereTaken'
    <3> HIDE DEF MessagesDue
    <3> QED
      BY <1>0, <2>1, <2>3, <2>4 DEF MessagesWereTaken
  <2>6. /\ \A b \in Admins : task'[b] = IF b = a THEN NoTask ELSE task[b]
        /\ task' \in [Admins -> {NoTask} \cup [at : {"send", "record", "save"}, row : LeadRows]]
    BY <1>0, <2>1 DEF EndTask
  <2>7. LeadsTypeOK' /\ TasksAreOfALead'
    <3>1. TasksAreOfALead'
      BY <2>3, <2>6 DEF LeadsInv, TasksAreOfALead, NoTask
    <3> QED
      BY <2>1, <2>3, <2>6, <3>1 DEF LeadsInv, LeadsTypeOK
  <2> QED
    BY <2>3, <2>5, <2>7 DEF LeadsInv
<1>7. ASSUME NEW a \in Admins, NEW status \in Statuses("quote"), SaveForm(a, status) PROVE LeadsInv'
  <2>1. /\ task[a].at = "save" /\ lead' = [task[a].row EXCEPT !.status = status]
        /\ edited' = TRUE /\ EndTask(a) /\ UNCHANGED <<timeline, taken>>
    BY <1>7 DEF SaveForm
  <2>2. task[a].row \in LeadRows /\ task[a].row.kind = "quote"
    BY <1>0, <2>1 DEF NoTask, LeadsInv, TasksAreOfALead
  <2>3. "quote" \in Kinds
    BY <2>2 DEF LeadRows, Nothing
  <2>4. lead' \in LeadRows /\ lead'.kind = "quote"
    <3>1. status \in AllStatuses
      BY <2>3 DEF AllStatuses
    <3> QED
      BY <2>1, <2>2, <3>1 DEF LeadRows
  <2>5. LeadExists' /\ Story' /\ TimelineTyped'
    BY <1>0, <2>1, <2>4 DEF LeadExists, Nothing, Story, TimelineTyped
  <2>6. /\ \A b \in Admins : task'[b] = IF b = a THEN NoTask ELSE task[b]
        /\ task' \in [Admins -> {NoTask} \cup [at : {"send", "record", "save"}, row : LeadRows]]
    BY <1>0, <2>1 DEF EndTask
  <2>7. LeadsTypeOK' /\ TasksAreOfALead'
    <3>1. TasksAreOfALead'
      BY <2>5, <2>6 DEF LeadsInv, TasksAreOfALead, NoTask
    <3> QED
      BY <2>1, <2>4, <2>6, <3>1 DEF LeadsInv, LeadsTypeOK
  <2>8. MessagesWereTaken'
    <3>1. /\ Cardinality(MessagesDue) \in Nat /\ Cardinality(MessagesDue') \in Nat
          /\ Cardinality(MessagesDue') <= Cardinality(MessagesDue)
      <4>1. PICK w : w = NoTask
        OBVIOUS
      <4>2. w.at # "record" /\ task' = [task EXCEPT ![a] = w]
        BY <2>1, <4>1 DEF EndTask, NoTask
      <4> QED
        BY <4>2, DueChanges
    <3>2. Cardinality(MessagesIn(timeline')) = Cardinality(MessagesIn(timeline))
      BY <2>1
    <3> HIDE DEF MessagesDue
    <3> QED
      BY <1>0, <2>1, <3>1, <3>2 DEF MessagesWereTaken
  <2> QED
    BY <2>5, <2>7, <2>8 DEF LeadsInv
<1>8. CASE UNCHANGED leadVars
  BY <1>8 DEF leadVars, LeadsInv, LeadsTypeOK, TimelineTyped, TasksAreOfALead, Story, LeadExists,
              MessagesWereTaken, MessagesDue
<1> QED
  BY <1>2, <1>3, <1>4, <1>5, <1>6, <1>7, <1>8, CreateLeadKeeps, ChangeStatusKeeps, OperationsKeep,
     MarkContactedKeeps DEF LeadsNext

-----------------------------------------------------------------------------
\* The timeline tells the whole story of a lead that the Django admin's form has
\* not saved: every value its row has, and every time it is stamped with, comes
\* from the activities (catalog/crm_views.py, crm_message_views.py).
THEOREM TimelineTells == LeadsSpec => []TimelineExplainsLead
<1>1. LeadsInv => TimelineExplainsLead
  <2> SUFFICES ASSUME LeadsInv, LeadExists, ~edited PROVE TimelineExplainsLead
    BY DEF TimelineExplainsLead
  <2>1. FieldsExplained(timeline, lead) /\ StampsExplained(timeline, lead)
    BY DEF LeadsInv, Story
  <2>2. \A field : Mentions(field) = MentionsIn(timeline, field)
    BY DEF Mentions, MentionsIn, Reports
  <2>3. \A field, i : ChangeAt(i, field) = ChangeOf(timeline[i], field)
    BY DEF ChangeAt, ChangeOf
  <2>4. \A field, i : ValueBefore(field, i) = ValueIn(timeline, lead.kind, field, i)
    BY <2>2, <2>3 DEF ValueBefore, ValueIn
  <2>5. \A status : ReachedBefore(status) <=> ReachedIn(timeline, status)
    BY <2>2, <2>3 DEF ReachedBefore, ReachedIn
  <2>6. ContactedIn(timeline) <=> Happened("contacted") \/ Happened("messaged")
    BY DEF ContactedIn, Happened
  <2> QED
    BY <2>1, <2>2, <2>3, <2>4, <2>5, <2>6
       DEF TimelineExplainsLead, FieldsExplained, StampsExplained
<1> QED
  BY <1>1, LeadsInvInit, LeadsInvStep, PTL DEF LeadsSpec

\* The timeline shows no more messages than the providers took, although a
\* request sends first and records later, under a new lock.
THEOREM OnlySentMessagesAreRecorded == LeadsSpec => []RecordedMessagesWereSent
<1>1. LeadsInv => RecordedMessagesWereSent
  <2> SUFFICES ASSUME LeadsInv PROVE RecordedMessagesWereSent
    OBVIOUS
  <2>1. /\ Cardinality(MessagesIn(timeline)) \in Nat /\ Cardinality(MessagesDue) \in Nat
        /\ taken \in Nat
    BY CountsAreNumbers, LeadsAssumption DEF LeadsInv, TimelineTyped, LeadsTypeOK
  <2>2. Cardinality(MessagesIn(timeline)) <= taken
    <3> HIDE DEF MessagesDue, MessagesIn
    <3> QED
      BY <2>1 DEF LeadsInv, MessagesWereTaken
  <2> QED
    BY <2>2 DEF RecordedMessagesWereSent, MessagesIn
<1> QED
  BY <1>1, LeadsInvInit, LeadsInvStep, PTL DEF LeadsSpec

-----------------------------------------------------------------------------
(***************************************************************************)
(* Proofs about Analytics for any sessions, customers and requests.  What  *)
(* a request knows of a session, by its copy of the row, the row knows as  *)
(* well; so the fields that a save writes, those that differ from the      *)
(* copy, never replace something known by nothing.                         *)
(***************************************************************************)

Learned == {"customer", "guest", "agent"}
KnowsAll(row, copy) == \A f \in Learned : copy[f] # Unknown => row[f] # Unknown

UnderWay ==
    [at : {"enrich", "record"}, visit : Visits \cup {Unknown}, asker : Askers,
     copy : VisitRows \cup {NoVisit}]

RowsKnowCopies ==
    \A h \in Hits : hit[h] # NoHit /\ hit[h].visit # Unknown =>
        /\ visit[hit[h].visit] # NoVisit /\ hit[h].copy \in VisitRows
        /\ KnowsAll(visit[hit[h].visit], hit[h].copy)

EnrichersHaveVisits == \A h \in Hits : hit[h] # NoHit /\ hit[h].at = "enrich" => hit[h].visit # Unknown

AnalyticsInv == AnalyticsTypeOK /\ RowsKnowCopies /\ EnrichersHaveVisits

\* What a step may do to the rows.
NothingForgotten ==
    \A s \in Visits : visit[s] # NoVisit =>
        /\ visit'[s] # NoVisit /\ KnowsAll(visit'[s], visit[s])

-----------------------------------------------------------------------------
LEMMA RowIsRow == NoVisit \notin VisitRows
<1>1. DOMAIN NoVisit = {"customer"}
  BY DEF NoVisit
<1>2. \A row \in VisitRows : "guest" \in DOMAIN row
  BY DEF VisitRows
<1> QED
  BY <1>1, <1>2

LEMMA HitIsHit == \A t \in UnderWay : t # NoHit
<1>1. NoHit.at = "idle" /\ \A t \in UnderWay : t.at \in {"enrich", "record"}
  BY DEF NoHit, UnderWay
<1> QED
  BY <1>1

\* Stitching and enriching add to a copy.
LEMMA Added ==
    ASSUME NEW copy \in VisitRows, NEW asker \in Askers,
           NEW new, new = Stitched(copy, asker) \/ new = Enriched(copy, asker)
    PROVE  new \in VisitRows /\ KnowsAll(new, copy)
<1>1. Stitched(copy, asker) \in VisitRows /\ KnowsAll(Stitched(copy, asker), copy)
  BY DEF Stitched, VisitRows, Askers, KnowsAll, Learned
<1>2. Enriched(copy, asker) \in VisitRows /\ KnowsAll(Enriched(copy, asker), copy)
  BY DEF Enriched, Stitched, VisitRows, Askers, KnowsAll, Learned
<1> QED
  BY <1>1, <1>2

\* A save of what was added keeps what the row knows, and makes it know the copy.
LEMMA SaveKeeps ==
    ASSUME NEW row \in VisitRows, NEW copy \in VisitRows, NEW new \in VisitRows,
           KnowsAll(row, copy), KnowsAll(new, copy)
    PROVE  /\ Saved(row, copy, new) \in VisitRows
           /\ KnowsAll(Saved(row, copy, new), row) /\ KnowsAll(Saved(row, copy, new), new)
<1>1. DOMAIN new = Learned
  BY DEF VisitRows, Learned
<1>2. Saved(row, copy, new) = [f \in Learned |-> IF new[f] # copy[f] THEN new[f] ELSE row[f]]
  BY <1>1 DEF Saved
<1>3. Saved(row, copy, new) \in VisitRows
  BY <1>2 DEF VisitRows, Learned
<1>4. \A f \in Learned : Saved(row, copy, new)[f] = IF new[f] # copy[f] THEN new[f] ELSE row[f]
  BY <1>2
<1> QED
  BY <1>3, <1>4 DEF KnowsAll

-----------------------------------------------------------------------------
(***************************************************************************)
(* The steps.                                                              *)
(***************************************************************************)
LEMMA AnalyticsInvInit == AnalyticsInit => AnalyticsInv
<1> SUFFICES ASSUME AnalyticsInit PROVE AnalyticsInv
  OBVIOUS
<1>1. AnalyticsTypeOK
  BY DEF AnalyticsInit, AnalyticsTypeOK
<1>2. RowsKnowCopies /\ EnrichersHaveVisits
  BY DEF AnalyticsInit, RowsKnowCopies, EnrichersHaveVisits
<1> QED
  BY <1>1, <1>2 DEF AnalyticsInv

\* One request goes on while no row forgets anything.
LEMMA GoesOn ==
    ASSUME AnalyticsInv, NEW h \in Hits, NEW next \in {NoHit} \cup UnderWay,
           hit' = [hit EXCEPT ![h] = next],
           visit' \in [Visits -> VisitRows \cup {NoVisit}], NothingForgotten,
           next # NoHit /\ next.visit # Unknown =>
               /\ visit'[next.visit] # NoVisit /\ next.copy \in VisitRows
               /\ KnowsAll(visit'[next.visit], next.copy),
           next # NoHit /\ next.at = "enrich" => next.visit # Unknown,
           event' \in Seq([told : Tellings, visit : Visits \cup {Unknown},
                           customer : Visitors \cup {Unknown}, time : Nat])
    PROVE  AnalyticsInv'
<1>0. hit \in [Hits -> {NoHit} \cup UnderWay]
  BY DEF AnalyticsInv, AnalyticsTypeOK, UnderWay
<1>1. hit' \in [Hits -> {NoHit} \cup UnderWay] /\ hit'[h] = next
      /\ \A g \in Hits : g # h => hit'[g] = hit[g]
  BY <1>0
<1>2. AnalyticsTypeOK'
  BY <1>1 DEF AnalyticsTypeOK, UnderWay
<1>3. EnrichersHaveVisits'
  BY <1>1 DEF AnalyticsInv, EnrichersHaveVisits
<1>4. RowsKnowCopies'
  <2> SUFFICES ASSUME NEW g \in Hits, hit'[g] # NoHit, hit'[g].visit # Unknown
               PROVE  /\ visit'[hit'[g].visit] # NoVisit /\ hit'[g].copy \in VisitRows
                      /\ KnowsAll(visit'[hit'[g].visit], hit'[g].copy)
    BY DEF RowsKnowCopies
  <2>1. CASE g = h
    BY <2>1, <1>1
  <2>2. CASE g # h
    <3>1. PICK s \in Visits, copy \in VisitRows :
              /\ s = hit[g].visit /\ copy = hit[g].copy
              /\ visit[s] # NoVisit /\ KnowsAll(visit[s], copy)
      <4>1. hit[g] \in UnderWay /\ hit[g].visit # Unknown
        BY <1>0, <1>1, <2>2
      <4>2. hit[g].visit \in Visits
        BY <4>1 DEF UnderWay
      <4> QED
        BY <1>1, <2>2, <4>1, <4>2 DEF AnalyticsInv, RowsKnowCopies
    <3>2. visit'[s] # NoVisit /\ KnowsAll(visit'[s], visit[s])
      BY <3>1 DEF NothingForgotten
    <3> QED
      BY <1>1, <2>2, <3>1, <3>2 DEF KnowsAll
  <2> QED
    BY <2>1, <2>2
<1> QED
  BY <1>2, <1>3, <1>4 DEF AnalyticsInv

LEMMA RowsRest ==
    ASSUME UNCHANGED visit
    PROVE  NothingForgotten
BY DEF NothingForgotten, KnowsAll

\* One row is replaced by a row that knows as much.
LEMMA RowGrows ==
    ASSUME AnalyticsInv, NEW s \in Visits, NEW row \in VisitRows,
           visit[s] # NoVisit => KnowsAll(row, visit[s]), visit' = [visit EXCEPT ![s] = row]
    PROVE  visit' \in [Visits -> VisitRows \cup {NoVisit}] /\ visit'[s] = row /\ NothingForgotten
<1>1. visit' \in [Visits -> VisitRows \cup {NoVisit}] /\ visit'[s] = row
      /\ \A t \in Visits : t # s => visit'[t] = visit[t]
  BY DEF AnalyticsInv, AnalyticsTypeOK
<1>2. NothingForgotten
  BY <1>1, RowIsRow DEF NothingForgotten, KnowsAll
<1> QED
  BY <1>1, <1>2

LEMMA Resolves ==
    ASSUME AnalyticsInv, NEW h \in Hits, NEW s \in Visits, NEW asker \in Askers,
           ResolveVisit(h, s, asker)
    PROVE  AnalyticsInv' /\ NothingForgotten
<1>0. visit \in [Visits -> VisitRows \cup {NoVisit}] /\ asker \in VisitRows /\ s # Unknown
      /\ event' \in Seq([told : Tellings, visit : Visits \cup {Unknown},
                         customer : Visitors \cup {Unknown}, time : Nat])
  BY AnalyticsAssumption DEF AnalyticsInv, AnalyticsTypeOK, ResolveVisit, Askers
<1>1. CASE visit[s] = NoVisit
  <2> DEFINE next == [at |-> "record", visit |-> s, asker |-> asker, copy |-> asker]
  <2>1. next \in UnderWay /\ next.visit = s /\ next.copy = asker /\ next.at = "record"
    BY <1>0 DEF UnderWay
  <2>2. hit' = [hit EXCEPT ![h] = next] /\ visit' = [visit EXCEPT ![s] = asker]
    BY <1>1 DEF ResolveVisit, HitGoes
  <2> HIDE DEF next
  <2>3. visit' \in [Visits -> VisitRows \cup {NoVisit}] /\ visit'[s] = asker /\ NothingForgotten
    BY <1>0, <1>1, <2>2, RowGrows
  <2>4. visit'[s] # NoVisit /\ KnowsAll(visit'[s], asker)
    BY <1>0, <2>3, RowIsRow DEF KnowsAll
  <2> QED
    BY <1>0, <2>1, <2>2, <2>3, <2>4, GoesOn
<1>2. CASE visit[s] # NoVisit
  <2> DEFINE next == [at |-> "enrich", visit |-> s, asker |-> asker, copy |-> visit[s]]
  <2>1. next \in UnderWay /\ next.visit = s /\ next.copy = visit[s]
    BY <1>0 DEF UnderWay
  <2>2. hit' = [hit EXCEPT ![h] = next] /\ UNCHANGED visit
    BY <1>2 DEF ResolveVisit, HitGoes
  <2> HIDE DEF next
  <2>3. NothingForgotten
    BY <2>2, RowsRest
  <2>4. visit'[s] # NoVisit /\ visit[s] \in VisitRows /\ KnowsAll(visit'[s], visit[s])
    BY <1>0, <1>2, <2>2 DEF KnowsAll
  <2> QED
    BY <1>0, <2>1, <2>2, <2>3, <2>4, GoesOn
<1> QED
  BY <1>1, <1>2

LEMMA Identifies ==
    ASSUME AnalyticsInv, NEW h \in Hits, NEW s \in Visits, NEW asker \in Askers,
           IdentifyVisit(h, s, asker)
    PROVE  AnalyticsInv' /\ NothingForgotten
<1>0. visit \in [Visits -> VisitRows \cup {NoVisit}] /\ s # Unknown
      /\ event' \in Seq([told : Tellings, visit : Visits \cup {Unknown},
                         customer : Visitors \cup {Unknown}, time : Nat])
  BY AnalyticsAssumption DEF AnalyticsInv, AnalyticsTypeOK, IdentifyVisit
<1>1. CASE visit[s] = NoVisit
  <2> DEFINE next == [at |-> "record", visit |-> Unknown, asker |-> asker, copy |-> NoVisit]
  <2>1. next \in UnderWay /\ next.visit = Unknown /\ next.at = "record"
    BY DEF UnderWay
  <2>2. hit' = [hit EXCEPT ![h] = next] /\ UNCHANGED visit
    BY <1>1 DEF IdentifyVisit, HitGoes
  <2> HIDE DEF next
  <2> QED
    BY <1>0, <2>1, <2>2, RowsRest, GoesOn
<1>2. CASE visit[s] # NoVisit
  <2>1. PICK new \in VisitRows : new = Stitched(visit[s], asker) /\ KnowsAll(new, visit[s])
    BY <1>0, <1>2, Added
  <2> DEFINE next == [at |-> "record", visit |-> s, asker |-> asker, copy |-> new]
  <2>2. next \in UnderWay /\ next.visit = s /\ next.copy = new /\ next.at = "record"
    BY DEF UnderWay
  <2>3. hit' = [hit EXCEPT ![h] = next] /\ visit' = [visit EXCEPT ![s] = new]
    BY <1>2, <2>1 DEF IdentifyVisit, HitGoes
  <2> HIDE DEF next
  <2>4. visit' \in [Visits -> VisitRows \cup {NoVisit}] /\ visit'[s] = new /\ NothingForgotten
    BY <2>1, <2>3, RowGrows
  <2>5. visit'[s] # NoVisit /\ KnowsAll(visit'[s], new)
    BY <2>4, RowIsRow DEF KnowsAll
  <2> QED
    BY <1>0, <2>2, <2>3, <2>4, <2>5, GoesOn
<1> QED
  BY <1>1, <1>2

\* What a request that is under way with a session has.
LEMMA HasCopy ==
    ASSUME AnalyticsInv, NEW h \in Hits, hit[h] # NoHit, hit[h].visit # Unknown
    PROVE  /\ hit[h].visit \in Visits /\ hit[h].asker \in Askers /\ hit[h].copy \in VisitRows
           /\ visit[hit[h].visit] \in VisitRows /\ visit[hit[h].visit] # NoVisit
           /\ KnowsAll(visit[hit[h].visit], hit[h].copy)
<1>1. hit[h] \in UnderWay
  BY DEF AnalyticsInv, AnalyticsTypeOK, UnderWay
<1>2. hit[h].visit \in Visits /\ hit[h].asker \in Askers
  BY <1>1 DEF UnderWay
<1> QED
  BY <1>2 DEF AnalyticsInv, AnalyticsTypeOK, RowsKnowCopies

LEMMA Enriches ==
    ASSUME AnalyticsInv, NEW h \in Hits, EnrichVisit(h)
    PROVE  AnalyticsInv' /\ NothingForgotten
<1>1. hit[h] # NoHit /\ hit[h].at = "enrich" /\ hit[h].visit # Unknown
  BY DEF EnrichVisit, AnalyticsInv, EnrichersHaveVisits, NoHit
<1>2. PICK s \in Visits, asker \in Askers, copy \in VisitRows :
          /\ s = hit[h].visit /\ asker = hit[h].asker /\ copy = hit[h].copy
          /\ visit[s] \in VisitRows /\ visit[s] # NoVisit /\ KnowsAll(visit[s], copy)
  BY <1>1, HasCopy
<1>3. PICK new \in VisitRows : new = Enriched(copy, asker) /\ KnowsAll(new, copy)
  BY Added
<1>4. PICK row \in VisitRows : row = Saved(visit[s], copy, new)
                               /\ KnowsAll(row, visit[s]) /\ KnowsAll(row, new)
  BY <1>2, <1>3, SaveKeeps
<1> DEFINE next == [at |-> "record", visit |-> s, asker |-> asker, copy |-> new]
<1>5. next \in UnderWay /\ next.visit = s /\ next.copy = new /\ next.at = "record"
  BY DEF UnderWay
<1>6. hit' = [hit EXCEPT ![h] = next] /\ visit' = [visit EXCEPT ![s] = row] /\ UNCHANGED event
  BY <1>2, <1>3, <1>4 DEF EnrichVisit, HitGoes
<1> HIDE DEF next
<1>7. visit' \in [Visits -> VisitRows \cup {NoVisit}] /\ visit'[s] = row /\ NothingForgotten
  BY <1>4, <1>6, RowGrows
<1>8. event' \in Seq([told : Tellings, visit : Visits \cup {Unknown},
                      customer : Visitors \cup {Unknown}, time : Nat])
  BY <1>6 DEF AnalyticsInv, AnalyticsTypeOK
<1> QED
  BY <1>4, <1>5, <1>6, <1>7, <1>8, RowIsRow, GoesOn

LEMMA Tracks ==
    ASSUME AnalyticsInv, NEW h \in Hits, NEW told \in Tellings, TrackEvent(h, told)
    PROVE  AnalyticsInv' /\ NothingForgotten
<1>1. hit[h] # NoHit /\ hit[h] \in UnderWay
  BY DEF TrackEvent, AnalyticsInv, AnalyticsTypeOK, UnderWay, NoHit
<1>2. hit' = [hit EXCEPT ![h] = NoHit]
  BY DEF TrackEvent, HitEnds
<1>3. event' \in Seq([told : Tellings, visit : Visits \cup {Unknown},
                      customer : Visitors \cup {Unknown}, time : Nat])
  <2>1. PICK time \in Nat : time = Clock[Len(event) + 1]
    <3>1. Len(event) + 1 \in 1..Len(Clock)
      BY AnalyticsAssumption DEF TrackEvent, AnalyticsInv, AnalyticsTypeOK
    <3> QED
      BY <3>1, AnalyticsAssumption
  <2>2. [told |-> told, visit |-> hit[h].visit, customer |-> hit[h].asker.customer, time |-> time]
            \in [told : Tellings, visit : Visits \cup {Unknown},
                 customer : Visitors \cup {Unknown}, time : Nat]
    BY <1>1 DEF UnderWay, Askers, VisitRows
  <2> QED
    BY <2>1, <2>2 DEF TrackEvent, AnalyticsInv, AnalyticsTypeOK
<1>4. visit' \in [Visits -> VisitRows \cup {NoVisit}] /\ NothingForgotten
  <2>1. CASE hit[h].visit = Unknown
    BY <2>1, RowsRest DEF TrackEvent, AnalyticsInv, AnalyticsTypeOK
  <2>2. CASE hit[h].visit # Unknown
    <3>1. PICK s \in Visits, asker \in Askers, copy \in VisitRows :
              /\ s = hit[h].visit /\ asker = hit[h].asker /\ copy = hit[h].copy
              /\ visit[s] \in VisitRows /\ KnowsAll(visit[s], copy)
      BY <1>1, <2>2, HasCopy
    <3>2. PICK new \in VisitRows : new = Stitched(copy, asker) /\ KnowsAll(new, copy)
      BY Added
    <3>3. PICK row \in VisitRows : row = Saved(visit[s], copy, new) /\ KnowsAll(row, visit[s])
      BY <3>1, <3>2, SaveKeeps
    <3>4. visit' = [visit EXCEPT ![s] = row]
      BY <2>2, <3>1, <3>2, <3>3 DEF TrackEvent
    <3> QED
      BY <3>3, <3>4, RowGrows
  <2> QED
    BY <2>1, <2>2
<1> QED
  BY <1>2, <1>3, <1>4, GoesOn

LEMMA AnalyticsStep ==
    AnalyticsInv /\ [AnalyticsNext]_analyticsVars => AnalyticsInv' /\ NothingForgotten
<1> SUFFICES ASSUME AnalyticsInv, [AnalyticsNext]_analyticsVars
             PROVE  AnalyticsInv' /\ NothingForgotten
  OBVIOUS
<1>1. ASSUME NEW h \in Hits, NEW s \in Visits, NEW asker \in Askers,
             ResolveVisit(h, s, asker) \/ IdentifyVisit(h, s, asker)
      PROVE  AnalyticsInv' /\ NothingForgotten
  BY <1>1, Resolves, Identifies
<1>2. ASSUME NEW h \in Hits, EnrichVisit(h) PROVE AnalyticsInv' /\ NothingForgotten
  BY <1>2, Enriches
<1>3. ASSUME NEW h \in Hits, HitFails(h) PROVE AnalyticsInv' /\ NothingForgotten
  <2>1. hit' = [hit EXCEPT ![h] = NoHit] /\ UNCHANGED <<visit, event>>
    BY <1>3 DEF HitFails, HitEnds
  <2>2. visit' \in [Visits -> VisitRows \cup {NoVisit}]
        /\ event' \in Seq([told : Tellings, visit : Visits \cup {Unknown},
                           customer : Visitors \cup {Unknown}, time : Nat])
    BY <2>1 DEF AnalyticsInv, AnalyticsTypeOK
  <2> QED
    BY <2>1, <2>2, RowsRest, GoesOn
<1>4. ASSUME NEW h \in Hits, NEW told \in Tellings, TrackEvent(h, told)
      PROVE  AnalyticsInv' /\ NothingForgotten
  BY <1>4, Tracks
<1>5. CASE UNCHANGED analyticsVars
  <2>1. UNCHANGED <<visit, event, hit>>
    BY <1>5 DEF analyticsVars
  <2> QED
    BY <2>1, RowsRest DEF AnalyticsInv, AnalyticsTypeOK, RowsKnowCopies, EnrichersHaveVisits,
       KnowsAll
<1> QED
  BY <1>1, <1>2, <1>3, <1>4, <1>5 DEF AnalyticsNext

-----------------------------------------------------------------------------
LEMMA AnalyticsInvariant == AnalyticsSpec => []AnalyticsInv
BY AnalyticsInvInit, AnalyticsStep, PTL DEF AnalyticsSpec

\* Rows, events and requests keep their types.
THEOREM AnalyticsTypes == AnalyticsSpec => []AnalyticsTypeOK
<1>1. AnalyticsInv => AnalyticsTypeOK
  BY DEF AnalyticsInv
<1> QED
  BY <1>1, AnalyticsInvariant, PTL

\* "Never overwrite a known customer with anonymous data" (analytics/services.py):
\* no save of a stale copy, and no login, makes a session forget its customer,
\* its guest id or its browser.
THEOREM IdentityIsKept == AnalyticsSpec => SessionKeepsIdentity
<1>1. AnalyticsInv /\ [AnalyticsNext]_analyticsVars
        => [\A s \in Visits : visit[s] # NoVisit =>
               \A f \in DOMAIN visit[s] : visit[s][f] # Unknown => visit'[s][f] # Unknown]_visit
  <2> SUFFICES ASSUME AnalyticsInv, [AnalyticsNext]_analyticsVars,
                      NEW s \in Visits, visit[s] # NoVisit,
                      NEW f \in DOMAIN visit[s], visit[s][f] # Unknown
               PROVE  visit'[s][f] # Unknown
    OBVIOUS
  <2>1. DOMAIN visit[s] = Learned
    BY DEF AnalyticsInv, AnalyticsTypeOK, VisitRows, Learned
  <2>2. KnowsAll(visit'[s], visit[s])
    BY AnalyticsStep DEF NothingForgotten
  <2> QED
    BY <2>1, <2>2 DEF KnowsAll
<1> QED
  BY <1>1, AnalyticsInvariant, PTL DEF AnalyticsSpec, SessionKeepsIdentity

-----------------------------------------------------------------------------
(***************************************************************************)
(* The reports.                                                            *)
(***************************************************************************)
TellsOf(window, p, name) ==
    {i \in Within(window) : event[i].told.product = p /\ event[i].told.name = name}
EventOf(metric) == IF metric = "views" THEN "product_viewed" ELSE "cart_item_added"
Visited(window, p) == {event[i].visit : i \in TellsOf(window, p, "product_viewed")} \ {Unknown}

LEMMA EventsAreRows ==
    ASSUME AnalyticsTypeOK, NEW i \in DOMAIN event
    PROVE  /\ event[i].time \in Nat
           /\ event[i].customer \in Everyone /\ event[i].visit \in Visits \cup {Unknown}
<1>1. PICK Each : Each = [told : Tellings, visit : Visits \cup {Unknown},
                          customer : Visitors \cup {Unknown}, time : Nat]
  OBVIOUS
<1>2. event \in Seq(Each)
  BY <1>1 DEF AnalyticsTypeOK
<1>3. event[i] \in Each
  BY <1>2
<1> QED
  BY <1>1, <1>3 DEF Everyone

LEMMA WindowsAreFinite ==
    ASSUME AnalyticsTypeOK, NEW window
    PROVE  /\ IsFiniteSet(Within(window)) /\ IsFiniteSet(Reported(window))
           /\ \A p, name : IsFiniteSet(TellsOf(window, p, name))
<1>1. IsFiniteSet(Within(window))
  <2>1. PICK n \in Nat : DOMAIN event = 1..n
    BY DEF AnalyticsTypeOK
  <2>2. IsFiniteSet(1..n)
    BY FS_Interval
  <2>3. Within(window) \subseteq 1..n
    BY <2>1 DEF Within
  <2> QED
    BY <2>2, <2>3, FS_Subset
<1>2. IsFiniteSet(Reported(window))
  <2> DEFINE product == [i \in Within(window) |-> event[i].told.product]
  <2>1. Reported(window) \subseteq ImageOf(product, Within(window))
    BY DEF Reported, ImageOf
  <2> HIDE DEF product
  <2>2. IsFiniteSet(ImageOf(product, Within(window)))
    BY <1>1, FiniteImage
  <2> QED
    BY <2>1, <2>2, FS_Subset
<1>3. \A p, name : TellsOf(window, p, name) \subseteq Within(window)
  BY DEF TellsOf
<1> QED
  BY <1>1, <1>2, <1>3, FS_Subset

LEMMA VisitedIsFinite ==
    ASSUME AnalyticsTypeOK, NEW window, NEW p
    PROVE  IsFiniteSet(Visited(window, p))
<1> DEFINE of == [i \in TellsOf(window, p, "product_viewed") |-> event[i].visit]
<1>1. Visited(window, p) \subseteq ImageOf(of, TellsOf(window, p, "product_viewed"))
  BY DEF Visited, ImageOf
<1> HIDE DEF of
<1>2. IsFiniteSet(ImageOf(of, TellsOf(window, p, "product_viewed")))
  BY WindowsAreFinite, FiniteImage
<1> QED
  BY <1>1, <1>2, FS_Subset

\* A total is the sum, over the products reported, of what tells of each.
LEMMA TotalCounts ==
    ASSUME NEW window, NEW metric \in {"views", "add_to_cart"}
    PROVE  Total(window, metric)
             = SumFunctionOnSet([p \in Reported(window) |->
                                    Cardinality(TellsOf(window, p, EventOf(metric)))],
                                Reported(window))
<1>1. ASSUME NEW p
      PROVE  Metrics(window, p)[metric] = Cardinality(TellsOf(window, p, EventOf(metric)))
  <2>1. /\ Metrics(window, p)["views"] = Cardinality(TellsOf(window, p, "product_viewed"))
        /\ Metrics(window, p)["add_to_cart"] = Cardinality(TellsOf(window, p, "cart_item_added"))
    BY DEF Metrics, TellsOf
  <2>2. CASE metric = "views"
    BY <2>1, <2>2 DEF EventOf
  <2>3. CASE metric = "add_to_cart"
    BY <2>1, <2>3 DEF EventOf
  <2> QED
    BY <2>2, <2>3
<1> QED
  BY <1>1 DEF Total, SumFunction

LEMMA TotalVisited ==
    ASSUME NEW window
    PROVE  Total(window, "unique_sessions")
             = SumFunctionOnSet([p \in Reported(window) |-> Cardinality(Visited(window, p))],
                                Reported(window))
<1>1. \A p : Metrics(window, p)["unique_sessions"] = Cardinality(Visited(window, p))
  BY DEF Metrics, TellsOf, Visited
<1> QED
  BY <1>1 DEF Total, SumFunction

\* Two windows that are one after the other, and the one they make up.
Adjoin(one, next, both) ==
    /\ one.start = both.start /\ one.end = next.start /\ next.end = both.end
    /\ one.start \in Int /\ one.end \in Int /\ next.end \in Int
    /\ one.start <= one.end /\ one.end <= next.end

LEMMA NoEventTwice ==
    ASSUME AnalyticsTypeOK, NEW one, NEW next, NEW both, Adjoin(one, next, both)
    PROVE  /\ Within(both) = Within(one) \union Within(next)
           /\ Within(one) \intersect Within(next) = {}
<1>1. \A i \in DOMAIN event : event[i].time \in Int
  BY EventsAreRows
<1> QED
  BY <1>1 DEF Adjoin, Within

LEMMA TotalsAdd ==
    ASSUME AnalyticsTypeOK, NEW one, NEW next, NEW both, Adjoin(one, next, both),
           NEW metric \in {"views", "add_to_cart"}
    PROVE  Total(both, metric) = Total(one, metric) + Total(next, metric)
<1> DEFINE name == EventOf(metric)
           products == Reported(both)
           first == [p \in products |-> Cardinality(TellsOf(one, p, name))]
           second == [p \in products |-> Cardinality(TellsOf(next, p, name))]
           all == [p \in products |-> Cardinality(TellsOf(both, p, name))]
<1>1. IsFiniteSet(products)
  BY WindowsAreFinite
<1>2. Reported(one) \in SUBSET products /\ Reported(next) \in SUBSET products
  BY NoEventTwice DEF Reported
<1>3. \A p \in products : first[p] \in Int /\ second[p] \in Int /\ all[p] = first[p] + second[p]
  <2> SUFFICES ASSUME NEW p \in products
               PROVE  /\ Cardinality(TellsOf(one, p, name)) \in Int
                      /\ Cardinality(TellsOf(next, p, name)) \in Int
                      /\ Cardinality(TellsOf(both, p, name))
                           = Cardinality(TellsOf(one, p, name)) + Cardinality(TellsOf(next, p, name))
    OBVIOUS
  <2> HIDE DEF name, products
  <2>1. PICK X, Y : X = TellsOf(one, p, name) /\ Y = TellsOf(next, p, name)
    OBVIOUS
  <2>2. TellsOf(both, p, name) = X \union Y /\ X \intersect Y = {}
    BY <2>1, NoEventTwice DEF TellsOf
  <2>3. IsFiniteSet(X) /\ IsFiniteSet(Y)
    BY <2>1, WindowsAreFinite
  <2>4. Cardinality(X) \in Nat /\ Cardinality(Y) \in Nat /\ Cardinality({}) = 0
    BY <2>3, FS_CardinalityType, FS_EmptySet
  <2>5. Cardinality(X \union Y) = Cardinality(X) + Cardinality(Y) - Cardinality(X \intersect Y)
    BY <2>3, FS_Union
  <2>6. Cardinality(X \union Y) = Cardinality(X) + Cardinality(Y)
    <3>1. Cardinality(X \intersect Y) = 0
      BY <2>2, <2>4
    <3> QED
      BY <2>4, <2>5, <3>1
  <2> QED
    BY <2>1, <2>2, <2>4, <2>6
<1>4. ASSUME NEW window \in {one, next}, NEW p \in products \ Reported(window)
      PROVE  Cardinality(TellsOf(window, p, name)) = 0
  <2>1. p # Unknown
    BY DEF Reported
  <2>2. TellsOf(window, p, name) = {}
    BY <1>4, <2>1 DEF TellsOf, Reported
  <2> QED
    BY <2>2, FS_EmptySet
<1>5. /\ \A p \in products \ Reported(one) : first[p] = 0
      /\ \A p \in products \ Reported(next) : second[p] = 0
  BY <1>4
<1>6. /\ \A p \in Reported(one) : first[p] = Cardinality(TellsOf(one, p, name))
      /\ \A p \in Reported(next) : second[p] = Cardinality(TellsOf(next, p, name))
  BY <1>2
<1>7. Total(both, metric) = SumFunctionOnSet(all, products)
  BY TotalCounts
<1> HIDE DEF first, second, all, products
<1>8. SumFunctionOnSet(all, products)
        = SumFunctionOnSet(first, products) + SumFunctionOnSet(second, products)
  BY <1>1, <1>3, SumsAdd
<1>9. SumFunctionOnSet(first, products) = SumFunctionOnSet(first, Reported(one))
  BY <1>1, <1>2, <1>3, <1>5, SumOnPart
<1>10. SumFunctionOnSet(second, products) = SumFunctionOnSet(second, Reported(next))
  BY <1>1, <1>2, <1>3, <1>5, SumOnPart
<1>11. SumFunctionOnSet(first, Reported(one)) = Total(one, metric)
  <2> DEFINE told == [p \in Reported(one) |-> Cardinality(TellsOf(one, p, name))]
  <2>1. \A p \in Reported(one) : first[p] = told[p]
    BY <1>6
  <2>2. Total(one, metric) = SumFunctionOnSet(told, Reported(one))
    BY TotalCounts
  <2> HIDE DEF told
  <2> QED
    BY <2>1, <2>2, WindowsAreFinite, SumsEqual
<1>12. SumFunctionOnSet(second, Reported(next)) = Total(next, metric)
  <2> DEFINE told == [p \in Reported(next) |-> Cardinality(TellsOf(next, p, name))]
  <2>1. \A p \in Reported(next) : second[p] = told[p]
    BY <1>6
  <2>2. Total(next, metric) = SumFunctionOnSet(told, Reported(next))
    BY TotalCounts
  <2> HIDE DEF told
  <2> QED
    BY <2>1, <2>2, WindowsAreFinite, SumsEqual
<1> QED
  BY <1>7, <1>8, <1>9, <1>10, <1>11, <1>12

\* The views in the feed that name a product.
Viewed(window) ==
    {i \in FeedOf(window, "product_viewed") : event[i].told.product # Unknown}

LEMMA ViewsAreInTheFeed ==
    ASSUME AnalyticsTypeOK, NEW window
    PROVE  /\ FeedSummary(Viewed(window)).total = Total(window, "views")
           /\ FeedSummary(Viewed(window)).sessions <= Total(window, "unique_sessions")
<1> DEFINE products == Reported(window)
           part == [p \in products |-> TellsOf(window, p, "product_viewed")]
           visitors == [p \in products |-> Visited(window, p)]
           views == [p \in products |-> Cardinality(TellsOf(window, p, "product_viewed"))]
           visits == [p \in products |-> Cardinality(Visited(window, p))]
<1>1. IsFiniteSet(products)
  BY WindowsAreFinite
<1>2. \A p \in products : IsFiniteSet(part[p]) /\ views[p] = Cardinality(part[p])
  BY WindowsAreFinite
<1>3. \A p \in products : IsFiniteSet(visitors[p]) /\ visits[p] = Cardinality(visitors[p])
  BY VisitedIsFinite
<1>4. \A p \in products, r \in products : p # r => part[p] \intersect part[r] = {}
  BY DEF TellsOf
<1>5. \A i \in DOMAIN event : event[i].customer \in Everyone /\ event[i].visit \in Visits \cup {Unknown}
  BY EventsAreRows
<1>6. Viewed(window) = {i \in Within(window) : event[i].told.name = "product_viewed"
                                              /\ event[i].told.product # Unknown}
  BY <1>5 DEF Viewed, FeedOf, Feed, Within
<1>7. \A i \in Within(window) : event[i].told.product # Unknown => event[i].told.product \in products
  BY DEF Reported
<1>8. Joined(part, products) = Viewed(window)
  <2>1. \A p \in products : part[p] \subseteq Viewed(window)
    BY <1>6 DEF TellsOf, Reported
  <2>2. ASSUME NEW i \in Viewed(window) PROVE i \in part[event[i].told.product]
                                              /\ event[i].told.product \in products
    BY <1>6, <1>7 DEF TellsOf
  <2> HIDE DEF part, products
  <2> QED
    BY <2>1, <2>2 DEF Joined
<1>9. Joined(visitors, products) = {event[i].visit : i \in Viewed(window)} \ {Unknown}
  <2>1. \A p \in products : visitors[p] = {event[i].visit : i \in part[p]} \ {Unknown}
    BY DEF Visited
  <2> HIDE DEF visitors, part, products
  <2> QED
    BY <1>8, <2>1 DEF Joined
<1>10. Total(window, "views") = SumFunctionOnSet(views, products)
  BY TotalCounts DEF EventOf
<1>11. Total(window, "unique_sessions") = SumFunctionOnSet(visits, products)
  BY TotalVisited
<1> HIDE DEF part, visitors, views, visits, products
<1>12. Cardinality(Joined(part, products)) = SumFunctionOnSet(views, products)
  BY <1>1, <1>2, <1>4, CountOfParts
<1>13. Cardinality(Joined(visitors, products)) <= SumFunctionOnSet(visits, products)
  BY <1>1, <1>3, CountOfParts
<1> QED
  BY <1>8, <1>9, <1>10, <1>11, <1>12, <1>13 DEF FeedSummary

\* The windows between three midnights, which the limit admits.
LEMMA DaysAdjoin ==
    ASSUME NEW d \in 0..MaxReportDays - 2
    PROVE  LET one == Window(Day(d), Day(d + 1))  next == Window(Day(d + 1), Day(d + 2))
               both == Window(Day(d), Day(d + 2))
           IN  Adjoin(one, next, both) /\ both # Refused
               /\ both = WindowOfDays(2, (d + 2) * DayLength)
<1>0. d \in Nat /\ MaxReportDays \in Nat /\ d + 2 <= MaxReportDays /\ DayLength \in Nat \ {0}
  BY AnalyticsAssumption
<1>1. PICK a \in Nat, l \in Nat \ {0}, max \in Nat :
          a = DayLength * d /\ l = DayLength /\ max = MaxReportDays * DayLength
  BY <1>0
<1>2. DayLength * (d + 1) = a + l /\ DayLength * (d + 2) = a + l + l
  BY <1>0, <1>1
<1>3. l + l <= max
  <2>1. PICK more \in Nat : MaxReportDays = 2 + more
    BY <1>0
  <2>2. max = l + l + more * l
    BY <1>1, <2>1
  <2>3. more * l \in Nat
    BY <2>1
  <2> QED
    BY <1>1, <2>2, <2>3
<1>4. (d + 2) * DayLength = a + l + l /\ 2 * DayLength = l + l
  BY <1>0, <1>1
<1>5. InstantOf(Day(d)) = a /\ InstantOf(Day(d + 1)) = a + l /\ InstantOf(Day(d + 2)) = a + l + l
  BY <1>1, <1>2 DEF InstantOf, Day
<1>6. Window(Day(d), Day(d + 1)) = [start |-> a, end |-> a + l]
  <2>1. ~(a >= a + l) /\ ~((a + l) - a > max)
    BY <1>1, <1>3
  <2> QED
    BY <1>1, <1>5, <2>1 DEF Window
<1>7. Window(Day(d + 1), Day(d + 2)) = [start |-> a + l, end |-> a + l + l]
  <2>1. ~(a + l >= a + l + l) /\ ~((a + l + l) - (a + l) > max)
    BY <1>1, <1>3
  <2> QED
    BY <1>1, <1>5, <2>1 DEF Window
<1>8. Window(Day(d), Day(d + 2)) = [start |-> a, end |-> a + l + l]
  <2>1. ~(a >= a + l + l) /\ ~((a + l + l) - a > max)
    BY <1>1, <1>3
  <2> QED
    BY <1>1, <1>5, <2>1 DEF Window
<1>9. WindowOfDays(2, (d + 2) * DayLength) = [start |-> a, end |-> a + l + l]
  <2>1. 2 \in 1..MaxReportDays
    BY <1>0
  <2>2. (a + l + l) - (l + l) = a
    BY <1>1
  <2> QED
    BY <1>4, <2>1, <2>2 DEF WindowOfDays
<1>10. [start |-> a, end |-> a + l + l] # Refused
  BY <1>1 DEF Refused
<1> QED
  BY <1>1, <1>6, <1>7, <1>8, <1>9, <1>10 DEF Adjoin

\* The reports from one midnight to the next add up, the totals by product are
\* those of the feed, and counting the sessions of each product never loses one
\* (analytics/views.py): whatever the events, the days and the length of a day.
THEOREM ReportsTellTheSame == AnalyticsSpec => []ReportsAgree
<1>1. ASSUME AnalyticsTypeOK PROVE ReportsAgree
  <2> SUFFICES ASSUME NEW d \in 0..MaxReportDays - 2, NEW one, NEW next, NEW both,
                      one = Window(Day(d), Day(d + 1)), next = Window(Day(d + 1), Day(d + 2)),
                      both = Window(Day(d), Day(d + 2))
               PROVE  /\ \A metric \in {"views", "add_to_cart"} :
                            Total(both, metric) = Total(one, metric) + Total(next, metric)
                      /\ Total(both, "views") = FeedSummary(Viewed(both)).total
                      /\ FeedSummary(Viewed(both)).sessions <= Total(both, "unique_sessions")
                      /\ both = WindowOfDays(2, (d + 2) * DayLength) /\ both # Refused
    BY DEF ReportsAgree, Viewed
  <2>1. /\ Adjoin(one, next, both) /\ both # Refused
        /\ both = WindowOfDays(2, (d + 2) * DayLength)
    BY DaysAdjoin
  <2>2. \A metric \in {"views", "add_to_cart"} :
            Total(both, metric) = Total(one, metric) + Total(next, metric)
    BY <1>1, <2>1, TotalsAdd
  <2>3. /\ FeedSummary(Viewed(both)).total = Total(both, "views")
        /\ FeedSummary(Viewed(both)).sessions <= Total(both, "unique_sessions")
    BY <1>1, ViewsAreInTheFeed
  <2> QED
    BY <2>1, <2>2, <2>3
<1> QED
  BY <1>1, AnalyticsTypes, PTL
=============================================================================
