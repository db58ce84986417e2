---------------------------- MODULE DirectOrders ----------------------------
(***************************************************************************)
(* Orders that an administrator writes by hand and the customer pays       *)
(* through a Razorpay payment link (orders/direct_order_service.py,        *)
(* orders/payment_link_service.py, and the link webhooks of                *)
(* orders/payment_service.py).  Such an order takes no stock and has one   *)
(* payment row, which is captured or still open: no attempt carries a      *)
(* gateway order id of the row, so no failure ever finds it, and the       *)
(* expiry worker has no reservation to find it by.                         *)
(*                                                                         *)
(* The request for a link reads the order without a lock, looks for an     *)
(* open link, locks the payment row, and keeps it locked while the gateway *)
(* creates the link.                                                       *)
(***************************************************************************)
EXTENDS Naturals

CONSTANTS
    Orders,
    MaxLinks,      \* most links the gateway creates for one order
    Admins,        \* requests for a payment link
    PaymentNews,   \* event types that announce a payment without naming its link
    MaxHandlers,   \* most overlapping deliveries of one event
    NoLink

Links == Orders \X (1..MaxLinks)
OrderOf(l) == l[1]

LinkNews == {"payment_link.expired", "payment_link.cancelled"}
PaidNews == PaymentNews \cup {"payment_link.paid"}
EventTypes == PaidNews \cup LinkNews
Events == EventTypes \X Links

ASSUME DirectAssumption ==
    /\ MaxLinks \in Nat
    /\ MaxHandlers \in Nat \ {0}
    /\ PaymentNews \subseteq {"payment.captured", "order.paid"}
    /\ NoLink \notin Links

VARIABLES
    orderStatus,   \* Order.status, "absent" before the order is created
    paidBy,        \* the link whose payment captured the payment row: NoLink while
                   \*   the row is open and the order's payment_status pending
    linkStatus,    \* PaymentLink.status, "absent" without a committed row
    opened,        \* gateway: links that exist
    closed,        \* gateway: event type that closed a link, or "none"
    paid,          \* gateway: links with a captured payment (at most one each)
    processed,     \* PaymentEvent rows marked processed
    handling,      \* deliveries past the duplicate check and not yet processed
    request        \* per administrator request: its phase, order and new link

directVars == <<orderStatus, paidBy, linkStatus, opened, closed, paid,
                processed, handling, request>>
tables == <<orderStatus, paidBy, linkStatus>>
gateway == <<opened, closed, paid>>
eventTable == <<processed, handling>>

LinkStatuses == {"absent", "created", "paid", "expired", "cancelled"}
Phases == {"idle", "read", "unlinked", "holding", "created"}
Requests == [phase : Phases, order : Orders, link : Links \cup {NoLink}]

DirectTypeOK ==
    /\ orderStatus \in [Orders -> {"absent", "pending_payment", "confirmed"}]
    /\ paidBy \in [Orders -> Links \cup {NoLink}]
    /\ linkStatus \in [Links -> LinkStatuses]
    /\ opened \subseteq Links
    /\ closed \in [Links -> LinkNews \cup {"none"}]
    /\ paid \subseteq Links
    /\ processed \subseteq Events
    /\ handling \in [Events -> 0..MaxHandlers]
    /\ request \in [Admins -> Requests]

DirectInit ==
    /\ orderStatus = [o \in Orders |-> "absent"]
    /\ paidBy = [o \in Orders |-> NoLink]
    /\ linkStatus = [l \in Links |-> "absent"]
    /\ opened = {} /\ paid = {}
    /\ closed = [l \in Links |-> "none"]
    /\ processed = {}
    /\ handling = [e \in Events |-> 0]
    /\ request \in [Admins -> [phase : {"idle"}, order : Orders, link : {NoLink}]]

(***************************************************************************)
(* create_direct_order: the order, its items and its payment row.  The     *)
(* idempotency key is the order's identity; a repeated request finds it.   *)
(***************************************************************************)
CreateDirectOrder(o) ==
    /\ orderStatus[o] = "absent"
    /\ orderStatus' = [orderStatus EXCEPT ![o] = "pending_payment"]
    /\ UNCHANGED <<paidBy, linkStatus, gateway, eventTable, request>>

(***************************************************************************)
(* create_razorpay_payment_link, called with an order read unlocked.       *)
(***************************************************************************)
\* The request that has the payment row of o locked, at the gateway or back.
Holds(a, o) == request[a].phase \in {"holding", "created"} /\ request[a].order = o
RowLocked(o) == \E a \in Admins : Holds(a, o)

\* A link that a second request would reuse.
OpenLinks(o) == {l \in Links : OrderOf(l) = o /\ linkStatus[l] = "created"}

SetRequest(a, phase, link) ==
    request' = [request EXCEPT ![a].phase = phase, ![a].link = link]

\* The view reads the order; a paid order is refused on the spot.
ReadOrder(a, o) ==
    /\ request[a].phase = "idle"
    /\ orderStatus[o] # "absent" /\ paidBy[o] = NoLink
    /\ request' = [request EXCEPT ![a] = [phase |-> "read", order |-> o, link |-> NoLink]]
    /\ UNCHANGED <<tables, gateway, eventTable>>

\* The query for an open link locks the link and, through its join, the
\* payment row; it locks nothing when it finds nothing.
FindOpenLink(a) ==
    LET o == request[a].order IN
    /\ request[a].phase = "read"
    /\ \/ OpenLinks(o) # {} /\ ~RowLocked(o) /\ SetRequest(a, "idle", NoLink)
       \/ OpenLinks(o) = {} /\ SetRequest(a, "unlinked", NoLink)
    /\ UNCHANGED <<tables, gateway, eventTable>>

LockPayment(a) ==
    /\ request[a].phase = "unlinked"
    /\ ~RowLocked(request[a].order)
    /\ SetRequest(a, "holding", NoLink)
    /\ UNCHANGED <<tables, gateway, eventTable>>

\* The gateway numbers the links of an order as it creates them.
NextLink(l) == l \notin opened /\ \A k \in 1..l[2] - 1 : <<l[1], k>> \in opened

GatewayCreatesLink(a) ==
    \E l \in Links :
        /\ request[a].phase = "holding" /\ OrderOf(l) = request[a].order
        /\ NextLink(l)
        /\ opened' = opened \cup {l}
        /\ SetRequest(a, "created", l)
        /\ UNCHANGED <<tables, closed, paid, eventTable>>

CommitLink(a) ==
    /\ request[a].phase = "created"
    /\ linkStatus' = [linkStatus EXCEPT ![request[a].link] = "created"]
    /\ SetRequest(a, "idle", NoLink)
    /\ UNCHANGED <<orderStatus, paidBy, gateway, eventTable>>

\* A gateway error, an answer that does not match the order, or the end of the
\* process: the transaction rolls back, a link the gateway made stays behind.
RequestFails(a) ==
    /\ request[a].phase # "idle"
    /\ SetRequest(a, "idle", NoLink)
    /\ UNCHANGED <<tables, gateway, eventTable>>

LinkRequestStep(a) ==
    \/ \E o \in Orders : ReadOrder(a, o)
    \/ FindOpenLink(a) \/ LockPayment(a)
    \/ GatewayCreatesLink(a) \/ CommitLink(a) \/ RequestFails(a)

(***************************************************************************)
(* The gateway.  The administrator passes on the links the service         *)
(* returned, so only those are paid, in full; a payment that was begun     *)
(* before the link closed may still be captured.                           *)
(***************************************************************************)
PayLink(l) ==
    /\ linkStatus[l] # "absent" /\ l \notin paid
    /\ paid' = paid \cup {l}
    /\ UNCHANGED <<tables, opened, closed, eventTable, request>>

CloseLink(l, news) ==
    /\ l \in opened \ paid /\ closed[l] = "none"
    /\ closed' = [closed EXCEPT ![l] = news]
    /\ UNCHANGED <<tables, opened, paid, eventTable, request>>

LinkMoves(l) == PayLink(l) \/ \E news \in LinkNews : CloseLink(l, news)

Announced(e) == IF e[1] \in PaidNews THEN e[2] \in paid ELSE closed[e[2]] = e[1]

(***************************************************************************)
(* Webhooks.  A link's own events find it by its id, the payment's events  *)
(* find the payment row by the note the service put on the link.           *)
(***************************************************************************)
RecordEvent(e) ==
    /\ Announced(e) /\ e \notin processed /\ handling[e] < MaxHandlers
    /\ handling' = [handling EXCEPT ![e] = @ + 1]
    /\ UNCHANGED <<tables, gateway, processed, request>>

\* Mutation of SettlementRefused: a second payment replaces the first.
NothingRefused(l) == l \notin Links

\* Mutation of SettlementRefused: a link that has closed is refused as well.
ClosedLinkRefused(l) ==
    paidBy[OrderOf(l)] \notin {NoLink, l} \/ linkStatus[l] \in {"expired", "cancelled"}

\* _settle_payment_success on a row that another payment has captured:
\* "Payment record conflict."
SettlementRefused(l) == paidBy[OrderOf(l)] \notin {NoLink, l}

\* Row captured with this payment, order paid and confirmed, no stock to
\* consume; the same payment once more changes nothing.
SettleBy(l) ==
    /\ paidBy' = [paidBy EXCEPT ![OrderOf(l)] = l]
    /\ orderStatus' = [orderStatus EXCEPT ![OrderOf(l)] = "confirmed"]

FinishEvent(e) ==
    /\ processed' = processed \cup {e}
    /\ handling' = [handling EXCEPT ![e] = @ - 1]

\* Mutation of ProcessLinkPaid: the link is marked before the settlement, in a
\* transaction of its own.
MarkLinkPaidFirst(l) ==
    LET e == <<"payment_link.paid", l>> IN
    /\ handling[e] > 0 /\ linkStatus[l] # "absent"
    /\ ~RowLocked(OrderOf(l))
    /\ IF SettlementRefused(l) THEN UNCHANGED <<orderStatus, paidBy>> ELSE SettleBy(l)
    /\ linkStatus' = [linkStatus EXCEPT ![l] = "paid"]
    /\ FinishEvent(e)
    /\ UNCHANGED <<gateway, request>>

\* process_payment_link_paid_webhook
ProcessLinkPaid(l) ==
    LET e == <<"payment_link.paid", l>> IN
    /\ handling[e] > 0 /\ linkStatus[l] # "absent"
    /\ ~RowLocked(OrderOf(l)) /\ ~SettlementRefused(l)
    /\ SettleBy(l)
    /\ linkStatus' = [linkStatus EXCEPT ![l] = "paid"]
    /\ FinishEvent(e)
    /\ UNCHANGED <<gateway, request>>

\* process_payment_captured_webhook, process_order_paid_webhook
ProcessPaymentNews(type, l) ==
    LET e == <<type, l>> IN
    /\ handling[e] > 0 /\ type \in PaymentNews
    /\ ~RowLocked(OrderOf(l)) /\ ~SettlementRefused(l)
    /\ SettleBy(l)
    /\ FinishEvent(e)
    /\ UNCHANGED <<linkStatus, gateway, request>>

\* "A paid link is never downgraded".
ClosedStatus(type, l) ==
    IF linkStatus[l] = "paid" THEN "paid"
    ELSE IF type = "payment_link.expired" THEN "expired" ELSE "cancelled"

\* process_payment_link_expired_webhook, process_payment_link_cancelled_webhook
ProcessLinkClosed(type, l) ==
    LET e == <<type, l>> IN
    /\ handling[e] > 0 /\ type \in LinkNews /\ linkStatus[l] # "absent"
    /\ linkStatus' = [linkStatus EXCEPT ![l] = ClosedStatus(type, l)]
    /\ FinishEvent(e)
    /\ UNCHANGED <<orderStatus, paidBy, gateway, request>>

\* The handler raised (no such link, another payment settled the row) or its
\* process died: nothing is committed and the gateway delivers again.
HandlerEndsInVain(e) ==
    /\ handling[e] > 0
    /\ handling' = [handling EXCEPT ![e] = @ - 1]
    /\ UNCHANGED <<tables, gateway, processed, request>>

Settles(l) == ProcessLinkPaid(l) \/ \E type \in PaymentNews : ProcessPaymentNews(type, l)
=============================================================================
