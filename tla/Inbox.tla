------------------------------- MODULE Inbox -------------------------------
(***************************************************************************)
(* The WhatsApp inbox (catalog/whatsapp_webhook.py, whatsapp_views.py): one *)
(* customer's conversation.  The provider delivers an event until the      *)
(* webhook answers 200, so events are repeated, overlap and overtake each  *)
(* other; an administrator's reply is sent before it is stored.            *)
(***************************************************************************)
EXTENDS Naturals, FiniteSets, SequencesExt

CONSTANTS
    Messages,      \* the customer's messages
    Dated,         \* those whose event carries the end of the session
    Echoes,        \* events about messages of the business itself
    Calls,         \* webhook requests that may be in progress together
    Replies,       \* requests for a reply
    StoreAttempts    \* _STORAGE_MAX_ATTEMPTS

ASSUME InboxAssumption ==
    /\ Dated \subseteq Messages /\ Messages \cap Echoes = {}
    /\ IsFiniteSet(Messages) /\ StoreAttempts \in Nat \ {0}

VARIABLES
    conversation,  \* the WhatsAppConversation row
    inbound,       \* the WhatsAppMessage rows of the customer's messages
    outbound,      \* the WhatsAppMessage rows of replies
    acknowledged,  \* events answered with 200: the provider delivers no more
    sessionsOver,  \* messages whose session has ended
    accepted,      \* history: replies the provider took
    seen,          \* history: messages stored when the inbox was last marked read
    call,          \* per webhook request: its event and the attempt at storing
    reply          \* per reply: how far its request has come

providerVars == <<acknowledged, sessionsOver, accepted>>
rowVars == <<conversation, inbound, outbound>>
inboxVars == <<rowVars, providerVars, seen, call, reply>>

InboxEvents == Messages \cup Echoes
NoMessage == "none"
NoConversation ==
    [exists |-> FALSE, unread |-> 0, last |-> NoMessage,
     lastInbound |-> NoMessage, expiry |-> NoMessage]
Waiting == [event |-> NoMessage, attempt |-> 0, stored |-> FALSE]

\* A message stands for its time and preview, and for the session it opens.
InboxTypeOK ==
    /\ conversation \in
           [exists : BOOLEAN, unread : 0..Cardinality(Messages),
            last : Messages \cup Replies \cup {NoMessage},
            lastInbound : Messages \cup {NoMessage}, expiry : Dated \cup {NoMessage}]
    /\ inbound \subseteq Messages /\ outbound \subseteq Replies
    /\ acknowledged \subseteq InboxEvents /\ sessionsOver \subseteq Messages
    /\ accepted \subseteq Replies /\ seen \subseteq inbound
    /\ call \in [Calls -> [event : InboxEvents \cup {NoMessage},
                           attempt : 0..StoreAttempts, stored : BOOLEAN]]
    /\ reply \in [Replies -> {"unsent", "sending", "sent", "over"}]

InboxInit ==
    /\ conversation = NoConversation
    /\ inbound = {} /\ outbound = {} /\ seen = {}
    /\ acknowledged = {} /\ sessionsOver = {} /\ accepted = {}
    /\ call = [k \in Calls |-> Waiting]
    /\ reply = [r \in Replies |-> "unsent"]

(***************************************************************************)
(* msg91_whatsapp_inbound_webhook                                          *)
(***************************************************************************)
\* The guards of the webhook pass: the secret, the size, the JSON object, the
\* integrated number and the customer's number.  An event that fails one is
\* answered with an error and leaves nothing, like one that never arrived.
Deliver(k, e) ==
    /\ call[k] = Waiting /\ e \notin acknowledged
    /\ call' = [call EXCEPT ![k] = [event |-> e, attempt |-> 1, stored |-> FALSE]]
    /\ UNCHANGED <<rowVars, providerVars, seen, reply>>

\* Other directions than 0: answered without being stored.
IgnoreEcho(k) ==
    /\ call[k].event \in Echoes
    /\ acknowledged' = acknowledged \cup {call[k].event}
    /\ call' = [call EXCEPT ![k] = Waiting]
    /\ UNCHANGED <<rowVars, sessionsOver, accepted, seen, reply>>

\* Mutation of RecordInbound: an expiry the event does not carry is left alone.
KeepOldExpiry(row, m) ==
    [row EXCEPT !.exists = TRUE, !.unread = @ + 1, !.last = m, !.lastInbound = m,
                !.expiry = IF m \in Dated THEN m ELSE @]

\* The saved fields of the conversation, for a message that was not there:
\* whatever came before, even a message sent later, is replaced.
RecordInbound(row, m) ==
    [row EXCEPT !.exists = TRUE, !.unread = @ + 1, !.last = m, !.lastInbound = m,
                !.expiry = IF m \in Dated THEN m ELSE NoMessage]

\* Mutation of StoreEvent: a message that is there already counts as unread.
StoreAgain(k) ==
    LET m == call[k].event IN
    /\ m \in Messages /\ ~call[k].stored
    /\ inbound' = inbound \cup {m}
    /\ conversation' = RecordInbound(conversation, m)
    /\ call' = [call EXCEPT ![k].stored = TRUE]
    /\ UNCHANGED <<outbound, providerVars, seen, reply>>

\* One attempt of _store_whatsapp_event commits: conversation and message are
\* found or created under the conversation's lock.
StoreEvent(k) ==
    LET m == call[k].event IN
    /\ m \in Messages /\ ~call[k].stored
    /\ inbound' = inbound \cup {m}
    /\ conversation' = IF m \in inbound THEN conversation
                       ELSE RecordInbound(conversation, m)
    /\ call' = [call EXCEPT ![k].stored = TRUE]
    /\ UNCHANGED <<outbound, providerVars, seen, reply>>

\* Mutation of AttemptFails: the last failure is answered with 200.
AnswerFailure(k) ==
    /\ call[k].event \in Messages /\ ~call[k].stored
    /\ \/ /\ call[k].attempt < StoreAttempts
          /\ call' = [call EXCEPT ![k].attempt = @ + 1]
       \/ /\ call[k].attempt = StoreAttempts
          /\ call' = [call EXCEPT ![k].stored = TRUE]
    /\ UNCHANGED <<rowVars, providerVars, seen, reply>>

\* The attempt rolls back (connection lost, or the row of another delivery
\* won the unique index); after the last the exception leaves the webhook.
AttemptFails(k) ==
    /\ call[k].event \in Messages /\ ~call[k].stored
    /\ call' = [call EXCEPT ![k] = IF call[k].attempt < StoreAttempts
                                   THEN [call[k] EXCEPT !.attempt = @ + 1] ELSE Waiting]
    /\ UNCHANGED <<rowVars, providerVars, seen, reply>>

\* 200, whether the message was new or a duplicate.
AnswerEvent(k) ==
    /\ call[k].stored
    /\ acknowledged' = acknowledged \cup {call[k].event}
    /\ call' = [call EXCEPT ![k] = Waiting]
    /\ UNCHANGED <<rowVars, sessionsOver, accepted, seen, reply>>

\* The process dies, or its answer does not reach the provider.
CallDies(k) ==
    /\ call[k] # Waiting
    /\ call' = [call EXCEPT ![k] = Waiting]
    /\ UNCHANGED <<rowVars, providerVars, seen, reply>>

(***************************************************************************)
(* AdminWhatsAppConversationReadAPIView.post                               *)
(***************************************************************************)
MarkRead ==
    /\ conversation.exists /\ seen # inbound
    /\ conversation' = [conversation EXCEPT !.unread = 0]
    /\ seen' = inbound
    /\ UNCHANGED <<inbound, outbound, providerVars, call, reply>>

(***************************************************************************)
(* AdminWhatsAppConversationReplyAPIView.post                              *)
(***************************************************************************)
\* _get_session_expiry: the expiry of the event, or 24 hours from the message.
SessionOf(row) == IF row.expiry # NoMessage THEN row.expiry ELSE row.lastInbound

\* The conversation is read without a lock.  Nothing in the program closes one.
StartReply(r) ==
    /\ reply[r] = "unsent"
    /\ conversation.exists
    /\ SessionOf(conversation) \in Messages \ sessionsOver
    /\ reply' = [reply EXCEPT ![r] = "sending"]
    /\ UNCHANGED <<rowVars, providerVars, seen, call>>

\* send_whatsapp_session_message
SendReply(r) ==
    /\ reply[r] = "sending"
    /\ accepted' = accepted \cup {r}
    /\ reply' = [reply EXCEPT ![r] = "sent"]
    /\ UNCHANGED <<rowVars, acknowledged, sessionsOver, seen, call>>

\* Mutation of StoreReply: the row is written before the provider is asked.
StoreUnsent(r) ==
    /\ reply[r] = "sending"
    /\ outbound' = outbound \cup {r}
    /\ conversation' = [conversation EXCEPT !.last = r]
    /\ UNCHANGED <<inbound, providerVars, seen, call, reply>>

\* Three fields are saved, from a conversation read before the provider was
\* asked: a message that came in between keeps its count and its session, and
\* loses its preview.
StoreReply(r) ==
    /\ reply[r] = "sent"
    /\ outbound' = outbound \cup {r}
    /\ conversation' = [conversation EXCEPT !.last = r]
    /\ reply' = [reply EXCEPT ![r] = "over"]
    /\ UNCHANGED <<inbound, providerVars, seen, call>>

\* The provider refuses or cannot be reached, the rows cannot be stored (an id
\* the provider has given before), or the process dies: a reply that was sent
\* may leave no row.
ReplyEnds(r) ==
    /\ reply[r] \in {"sending", "sent"}
    /\ reply' = [reply EXCEPT ![r] = "over"]
    /\ UNCHANGED <<rowVars, providerVars, seen, call>>

SessionEnds(m) ==
    /\ m \notin sessionsOver
    /\ sessionsOver' = sessionsOver \cup {m}
    /\ UNCHANGED <<rowVars, acknowledged, accepted, seen, call, reply>>

InboxNext ==
    \/ \E k \in Calls :
          \/ \E e \in InboxEvents : Deliver(k, e)
          \/ IgnoreEcho(k) \/ StoreEvent(k) \/ AttemptFails(k)
          \/ AnswerEvent(k) \/ CallDies(k)
    \/ MarkRead
    \/ \E r \in Replies : StartReply(r) \/ SendReply(r) \/ StoreReply(r) \/ ReplyEnds(r)
    \/ \E m \in Messages : SessionEnds(m)

InboxSpec == InboxInit /\ [][InboxNext]_inboxVars

(***************************************************************************)
(* Properties.                                                             *)
(***************************************************************************)
\* Every message is unread once, from when it is first stored until the inbox
\* is marked read, however often and however simultaneously it is delivered
\* and whatever replies are saved in between.
UnreadIsCounted == conversation.unread = Cardinality(inbound \ seen)

\* An event answered with 200 is not delivered again, so its message is stored:
\* "MSG91 must see the failure so it can retry the event".
AcknowledgedIsStored == acknowledged \cap Messages \subseteq inbound

\* A message that MSG91 considers delivered is in the inbox, and each one there
\* counts once.
EachMessageCounts == UnreadIsCounted /\ AcknowledgedIsStored

\* Messages stored in any order leave a row that speaks of one of them: the
\* session that decides about replies is that of the last inbound message, and
\* the preview is that message's or a stored reply's, which was sent.
RowTellsOneMessage ==
    /\ SessionOf(conversation) = conversation.lastInbound
    /\ conversation.exists => conversation.lastInbound \in inbound
    /\ conversation.last \in {conversation.lastInbound} \cup outbound
    /\ outbound \subseteq accepted
=============================================================================
