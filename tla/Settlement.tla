----------------------------- MODULE Settlement -----------------------------
(***************************************************************************)
(* How an order gets paid (orders/payment_service.py): the single          *)
(* settlement path _settle_payment_success, the verified webhooks that     *)
(* lead to it, and the failure webhook.  A webhook is handled in two       *)
(* transactions: the event row is recorded first, the event is processed   *)
(* next.  The provider redelivers until it gets a 200, so a handler can    *)
(* die between the two, deliveries of one event overlap, and events arrive *)
(* in any order.                                                           *)
(***************************************************************************)
EXTENDS Gateway

CONSTANT MaxHandlers   \* most overlapping deliveries of one event

ASSUME HandlersAssumption == MaxHandlers \in Nat \ {0}

VARIABLES
    ledger,    \* PaymentEvent.processing_status, "none" before the row exists
    handling   \* deliveries past the duplicate check and not yet processed

eventTable == <<ledger, handling>>

SettlementTypeOK ==
    /\ ledger \in [Events -> {"none", "received", "processed"}]
    /\ handling \in [Events -> 0..MaxHandlers]

SettlementInit ==
    /\ ledger = [e \in Events |-> "none"]
    /\ handling = [e \in Events |-> 0]

(***************************************************************************)
(* _settle_payment_success.  The attempt belongs to the row by             *)
(* construction (provider_order_id is unique), so no other row can hold    *)
(* its gateway payment id.                                                 *)
(***************************************************************************)
\* "Payment record conflict."
BoundToOther(p, a) == providerPayment[p] \notin {NoAttempt, a}

\* Mutation of AnotherCaptured: other rows are not looked at.
NoOtherRowChecked(p) == p \notin Rows

\* "Another payment has already settled this order."
AnotherCaptured(p) ==
    \E q \in Rows : q # p /\ OrderOf(q) = OrderOf(p) /\ rowStatus[q] = "captured"

\* Mutation of SettleReplays: a capture for an order that another row has
\* settled is taken for a replay.
SettledOrderReplays(p, a) ==
    \/ rowStatus[p] = "captured" /\ ~BoundToOther(p, a)
    \/ AnotherCaptured(p)

\* Already captured with this payment: an idempotent replay.
SettleReplays(p, a) == rowStatus[p] = "captured" /\ ~BoundToOther(p, a)

SettleRefused(p, a) ==
    BoundToOther(p, a) \/ (rowStatus[p] # "captured" /\ AnotherCaptured(p))

\* Mutation of ConsumeReservations: the reservations stay ACTIVE.
LeaveReserved(o, p) ==
    /\ reconcile' = [reconcile EXCEPT ![p] = @ \/ ActiveReservations(o) = {}]
    /\ UNCHANGED reservation

\* Mutation of ConsumeReservations: expired reservations are sold as well.
ResurrectExpired(o, p) ==
    /\ reservation' = [r \in Orders \X Variants |->
                          IF r[1] = o /\ reservation[r] # "none" THEN "consumed" ELSE reservation[r]]
    /\ reconcile' = [reconcile EXCEPT ![p] = @ \/ ActiveReservations(o) = {}]

\* ACTIVE -> CONSUMED for what is still reserved, the reconciliation mark if
\* nothing is.
ConsumeReservations(o, p) ==
    /\ reservation' = [r \in Orders \X Variants |->
                          IF r \in ActiveReservations(o) THEN "consumed" ELSE reservation[r]]
    /\ reconcile' = [reconcile EXCEPT ![p] = @ \/ ActiveReservations(o) = {}]

SettlePayment(p, a) ==
    LET o == OrderOf(p) IN
    /\ rowStatus[p] # "captured"
    /\ ~SettleRefused(p, a)
    /\ providerPayment' = [providerPayment EXCEPT ![p] = a]
    /\ rowStatus' = [rowStatus EXCEPT ![p] = "captured"]
    /\ paymentStatus' = [paymentStatus EXCEPT ![o] = "paid"]
    /\ orderStatus' = [orderStatus EXCEPT ![o] = "confirmed"]
    /\ ConsumeReservations(o, p)
    /\ UNCHANGED <<cart, paymentMethod, items, stock, lapsed, providerOrder, lease>>

(***************************************************************************)
(* A failed attempt: the row and the order's payment_status become failed  *)
(* unless this row is already captured.  process_payment_failed_webhook    *)
(* and the failed branch of confirm_checkout_payment do the same.          *)
(***************************************************************************)
\* Mutation of FailPayment: a captured row is downgraded as well.
FailAnyPayment(p) ==
    /\ rowStatus' = [rowStatus EXCEPT ![p] = "failed"]
    /\ paymentStatus' = [paymentStatus EXCEPT ![OrderOf(p)] = "failed"]
    /\ UNCHANGED <<cart, orderStatus, paymentMethod, items, stockTable,
                   providerOrder, providerPayment, lease, reconcile>>

FailPayment(p) ==
    /\ rowStatus[p] # "captured"
    /\ rowStatus' = [rowStatus EXCEPT ![p] = "failed"]
    /\ paymentStatus' = [paymentStatus EXCEPT ![OrderOf(p)] = "failed"]
    /\ UNCHANGED <<cart, orderStatus, paymentMethod, items, stockTable,
                   providerOrder, providerPayment, lease, reconcile>>

(***************************************************************************)
(* Webhook deliveries.                                                     *)
(***************************************************************************)
\* Mutation of NotFinished: any event that is already recorded is a duplicate.
NotRecorded(e) == ledger[e] = "none"

NotFinished(e) == ledger[e] # "processed"

\* Mutation of RecordEvent: the event row is born PROCESSED.
RecordAsProcessed(e) ==
    /\ e \in emitted
    /\ handling[e] < MaxHandlers
    /\ NotFinished(e)
    /\ ledger' = [ledger EXCEPT ![e] = "processed"]
    /\ handling' = [handling EXCEPT ![e] = @ + 1]
    /\ UNCHANGED tables

\* record_webhook_event: create the event row, or find it; a delivery of an
\* event that is already PROCESSED is answered 200 and does nothing more.
RecordEvent(e) ==
    /\ e \in emitted
    /\ handling[e] < MaxHandlers
    /\ NotFinished(e)
    /\ ledger' = [ledger EXCEPT ![e] = "received"]
    /\ handling' = [handling EXCEPT ![e] = @ + 1]
    /\ UNCHANGED tables

\* _find_payment_for_webhook: the row whose provider_order_id the event names.
Matches(p, a) ==
    p = RowOf(a) /\ rowStatus[p] # "absent" /\ providerOrder[p] = CallOf(a)

HandlerEnds(e) == handling' = [handling EXCEPT ![e] = @ - 1]

MarkProcessed(e) == ledger' = [ledger EXCEPT ![e] = "processed"]

\* process_payment_captured_webhook, process_order_paid_webhook
ProcessSuccess(e) ==
    /\ handling[e] > 0
    /\ e[1] \in SuccessEvents
    /\ \E p \in Rows :
        /\ Matches(p, e[2])
        /\ \/ SettlePayment(p, e[2])
           \/ SettleReplays(p, e[2]) /\ UNCHANGED tables
    /\ MarkProcessed(e)
    /\ HandlerEnds(e)

\* process_payment_failed_webhook
ProcessFailure(e) ==
    /\ handling[e] > 0
    /\ e[1] = "payment.failed"
    /\ \E p \in Rows :
        /\ Matches(p, e[2])
        /\ \/ FailPayment(p)
           \/ rowStatus[p] = "captured" /\ UNCHANGED tables
    /\ MarkProcessed(e)
    /\ HandlerEnds(e)

\* An exception rolls the transaction back and answers 500: the event row
\* stays RECEIVED and the provider delivers it again.
ProcessRefused(e) ==
    /\ handling[e] > 0
    /\ \/ \A p \in Rows : ~Matches(p, e[2])
       \/ e[1] \in SuccessEvents /\ \E p \in Rows : Matches(p, e[2]) /\ SettleRefused(p, e[2])
    /\ HandlerEnds(e)
    /\ UNCHANGED <<ledger, tables>>

\* The web worker dies after recording the event.
HandlerDies(e) ==
    /\ handling[e] > 0
    /\ HandlerEnds(e)
    /\ UNCHANGED <<ledger, tables>>

ProcessEvent(e) == ProcessSuccess(e) \/ ProcessFailure(e) \/ ProcessRefused(e)

WebhookStep ==
    /\ \E e \in Events : RecordEvent(e) \/ ProcessEvent(e) \/ HandlerDies(e)
    /\ UNCHANGED gatewayVars
=============================================================================
