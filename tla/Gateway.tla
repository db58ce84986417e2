------------------------------- MODULE Gateway -------------------------------
(***************************************************************************)
(* Razorpay, as the payment service uses it: it creates gateway orders on  *)
(* request, customers make payment attempts against the gateway order the  *)
(* checkout page was given, attempts are authorized, captured or fail (a   *)
(* failed attempt may still be authorized late), and each outcome is       *)
(* announced by webhook events.  One gateway order has at most one attempt *)
(* authorized or captured at a time; two gateway orders of one shop order  *)
(* know nothing of each other.                                             *)
(***************************************************************************)
EXTENDS OrderTables

CONSTANT SuccessEvents   \* event types that announce a capture

ASSUME SuccessAssumption == SuccessEvents \subseteq {"payment.captured", "order.paid"}

VARIABLES
    gwOrders,   \* how many gateway orders exist for each payment row
    attempt,    \* status of each payment attempt at the gateway
    emitted     \* webhook events the gateway has sent at least once

gatewayVars == <<gwOrders, attempt, emitted>>

\* "reversed" is an attempt the gateway calls failed after having authorized
\* it: the customer's browser already holds a valid checkout signature for it.
AttemptStatuses == {"none", "authorized", "captured", "failed", "reversed"}
EventTypes == SuccessEvents \cup {"payment.failed"}
Events == EventTypes \X Attempts

GatewayTypeOK ==
    /\ gwOrders \in [Rows -> 0..MaxCalls]
    /\ attempt \in [Attempts -> AttemptStatuses]
    /\ emitted \subseteq Events

GatewayInit ==
    /\ gwOrders = [p \in Rows |-> 0]
    /\ attempt = [a \in Attempts |-> "none"]
    /\ emitted = {}

SameGatewayOrder(a, b) == RowOf(a) = RowOf(b) /\ CallOf(a) = CallOf(b)

Signed(a) == attempt[a] \in {"authorized", "captured", "reversed"}

\* The page pays against the provider_order_id the service returned, and
\* makes its k-th attempt after the attempts before it.
CanStart(a) ==
    /\ attempt[a] = "none"
    /\ rowStatus[RowOf(a)] # "absent"
    /\ providerOrder[RowOf(a)] = CallOf(a)
    /\ \A b \in Attempts : SameGatewayOrder(a, b) /\ b[4] < a[4] => attempt[b] # "none"

NoOtherLive(a) ==
    \A b \in Attempts : SameGatewayOrder(a, b) /\ b # a
                          => attempt[b] \notin {"authorized", "captured"}

Authorize(a) ==
    /\ CanStart(a) \/ attempt[a] = "failed"
    /\ NoOtherLive(a)
    /\ attempt' = [attempt EXCEPT ![a] = "authorized"]
    /\ UNCHANGED <<gwOrders, emitted>>

Capture(a) ==
    /\ attempt[a] = "authorized"
    /\ attempt' = [attempt EXCEPT ![a] = "captured"]
    /\ emitted' = emitted \cup (SuccessEvents \X {a})
    /\ UNCHANGED gwOrders

Fail(a) ==
    /\ CanStart(a) /\ NoOtherLive(a)
    /\ attempt' = [attempt EXCEPT ![a] = "failed"]
    /\ emitted' = emitted \cup {<<"payment.failed", a>>}
    /\ UNCHANGED gwOrders

Reverse(a) ==
    /\ attempt[a] = "authorized"
    /\ attempt' = [attempt EXCEPT ![a] = "reversed"]
    /\ emitted' = emitted \cup {<<"payment.failed", a>>}
    /\ UNCHANGED gwOrders

GatewayStep ==
    /\ \E a \in Attempts : Authorize(a) \/ Capture(a) \/ Fail(a) \/ Reverse(a)
    /\ UNCHANGED tables
=============================================================================
