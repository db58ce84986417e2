--------------------------- MODULE OrderLifecycle ---------------------------
(***************************************************************************)
(* The life of a storefront order: checkout, reservation expiry, payment   *)
(* requests and webhooks, all acting on the same tables, with the gateway  *)
(* and the clock as environment.                                           *)
(***************************************************************************)
EXTENDS Checkout, ReservationExpiry, PaymentRequests

vars == <<tables, gatewayVars, eventTable, requestVars>>

TypeOK ==
    /\ TablesTypeOK
    /\ GatewayTypeOK
    /\ SettlementTypeOK
    /\ PaymentRequestsTypeOK

Init ==
    /\ TablesInit
    /\ GatewayInit
    /\ SettlementInit
    /\ PaymentRequestsInit

PlaceOrder ==
    /\ \E o \in Orders, m \in PaymentMethods : CreateOrder(o, m)
    /\ UNCHANGED <<gatewayVars, eventTable, requestVars>>

TimePasses ==
    /\ \E r \in Orders \X Variants : ReservationLapses(r)
    /\ UNCHANGED <<gatewayVars, eventTable, requestVars>>

RunWorker ==
    /\ \E batch \in SUBSET Expired : ReleaseExpired(batch)
    /\ UNCHANGED <<gatewayVars, eventTable, requestVars>>

GatewayMoves == GatewayStep /\ UNCHANGED <<eventTable, requestVars>>

WebhookArrives == WebhookStep /\ UNCHANGED requestVars

InitializePayment ==
    \/ \E r \in Initializers :
        \/ \E o \in Orders, p \in Rows : InitLease(r, o, p)
        \/ InitGatewayAnswers(r)
        \/ InitGatewayRaises(r)
        \/ InitAttach(r)
        \/ InitAttachRefused(r)
        \/ InitDies(r)
    \/ \E p \in Rows : LeaseGoesStale(p)

ConfirmPayment ==
    \E r \in Confirmers :
        \/ \E a \in Attempts : ConfirmAuthorize(r, a)
        \/ ConfirmFetch(r)
        \/ ConfirmSettle(r)
        \/ ConfirmFailed(r)
        \/ ConfirmDies(r)

Next ==
    \/ PlaceOrder
    \/ TimePasses
    \/ RunWorker
    \/ GatewayMoves
    \/ WebhookArrives
    \/ InitializePayment
    \/ ConfirmPayment

Spec == Init /\ [][Next]_vars

(***************************************************************************)
(* Fairness.  The expiry command is run again and again, time passes, and  *)
(* Razorpay redelivers an event until it is answered 200, so a handler     *)
(* that can finish infinitely often is not killed every single time.       *)
(* Customers, the gateway's decisions and the payment requests owe nothing.*)
(***************************************************************************)
DeliverEvent(e) == RecordEvent(e) /\ UNCHANGED <<gatewayVars, requestVars>>
HandleEvent(e)  == ProcessEvent(e) /\ UNCHANGED <<gatewayVars, requestVars>>

Fairness ==
    /\ WF_vars(TimePasses)
    /\ WF_vars(RunWorker)
    /\ \A e \in Events : WF_vars(DeliverEvent(e)) /\ SF_vars(HandleEvent(e))

FairSpec == Spec /\ Fairness

-----------------------------------------------------------------------------
(***************************************************************************)
(* Stock.                                                                  *)
(***************************************************************************)
\* Reservations that still keep their units away from other customers.
Held == {r \in Orders \X Variants : reservation[r] \in {"active", "consumed"}}

\* Whatever checkouts, expiry runs and settlements happen in whatever order,
\* each unit of a variant is either on the shelf or held by exactly one
\* reservation: nothing is sold twice, released twice or lost.
StockConserved ==
    \A v \in Variants : stock[v] + Cardinality(UnitsOf(Held, v)) = InitialStock[v]

\* An order that was placed and never paid either still holds an ACTIVE
\* reservation or has been cancelled: expiring its reservations in several
\* batches leaves no order open without stock behind it.
OpenOrderHoldsStock ==
    \A o \in Orders :
        orderStatus[o] # "absent" /\ ~Captured(o)
            => (orderStatus[o] = "cancelled" <=> ActiveReservations(o) = {})

\* The worker never takes a unit back from an order whose payment is captured,
\* nor cancels it, even while a late failure event has marked the order's
\* payment failed.
PaidOrderKeepsItsStock ==
    [][\A o \in Orders : Captured(o) =>
          /\ orderStatus'[o] = "confirmed"
          /\ \A v \in Variants : reservation'[<<o, v>>] = "expired"
                                    => reservation[<<o, v>>] = "expired"]_vars

(***************************************************************************)
(* Payments.                                                               *)
(***************************************************************************)
\* Of all the rows and attempts of an order at most one is ever captured, and
\* it is one the gateway did capture.
OneCapturePerOrder ==
    /\ \A p, q \in Rows : OrderOf(p) = OrderOf(q) /\ rowStatus[p] = "captured"
                             /\ rowStatus[q] = "captured" => p = q
    /\ \A p \in Rows : rowStatus[p] = "captured" =>
           providerPayment[p] # NoAttempt /\ attempt[providerPayment[p]] = "captured"

\* A captured row is final: neither a late failure event, nor a confirmation
\* that read the gateway earlier, nor the worker changes it or its payment.
CaptureIsFinal ==
    [][\A p \in Rows : rowStatus[p] = "captured" =>
          rowStatus'[p] = "captured" /\ providerPayment'[p] = providerPayment[p]]_vars

\* An order shown as paid, and every unit that left as sold, has a captured
\* payment of that order behind it, for as long as the order exists.
PaidMeansCaptured ==
    \A o \in Orders :
        \/ Captured(o)
        \/ /\ paymentStatus[o] # "paid"
           /\ \A v \in Variants : reservation[<<o, v>>] # "consumed"

\* Once an event that announces a capture is marked processed, the row it
\* belongs to is captured with that very attempt, however often and in
\* whatever company the event was delivered.
ProcessedMeansSettled ==
    \A e \in Events : e[1] \in SuccessEvents /\ ledger[e] = "processed" =>
        rowStatus[RowOf(e[2])] = "captured" /\ providerPayment[RowOf(e[2])] = e[2]

\* The gateway order id a row once got is never replaced, so every attempt a
\* customer could start is found again by the webhooks.
AttemptsAreMatched ==
    \A a \in Attempts : attempt[a] # "none" => Matches(RowOf(a), a)

\* A request that comes back from the gateway attaches nothing to an order
\* that was cancelled or paid while it was away.
NoLateAttachment ==
    [][\A p \in Rows : providerOrder'[p] # providerOrder[p] =>
          /\ orderStatus[OrderOf(p)] # "cancelled"
          /\ ~(paymentStatus[OrderOf(p)] = "paid")]_vars

\* The creation lease: at most one request at a time asks the gateway for an
\* order on behalf of one payment row.
OneCallPerRow ==
    \A r, s \in Initializers, p \in Rows : InFlight(r, p) /\ InFlight(s, p) => r = s

(***************************************************************************)
(* The inductive invariant behind the safety properties: what each step    *)
(* relies on having been established by the steps before it.               *)
(***************************************************************************)
\* Rows and reservations exist only for orders that were placed, and whatever
\* names an attempt names one that was made, for the row it belongs to.
RowsBelongToOrders ==
    /\ \A r \in Orders \X Variants : orderStatus[r[1]] = "absent" => reservation[r] = "none"
    /\ \A p \in Rows : rowStatus[p] # "absent" => orderStatus[p[1]] # "absent"
    /\ \A p \in Rows : providerPayment[p] # NoAttempt =>
           RowOf(providerPayment[p]) = p /\ attempt[providerPayment[p]] # "none"
    /\ \A r \in Confirmers : confirmReq[r] # Idle => attempt[confirmReq[r].att] # "none"

\* News of a capture, on its way or being handled, is news of a real one.
CaptureNewsIsTrue ==
    /\ \A e \in Events : handling[e] > 0 \/ ledger[e] # "none" => e \in emitted
    /\ \A e \in emitted : e[1] \in SuccessEvents => attempt[e[2]] = "captured"
    /\ \A r \in Confirmers : confirmReq[r].pc = "fetched" /\ confirmReq[r].result = "captured"
           => attempt[confirmReq[r].att] = "captured"

\* A captured order is confirmed and has nothing left to expire.
CapturedIsClosed ==
    \A o \in Orders : Captured(o) => orderStatus[o] = "confirmed" /\ ActiveReservations(o) = {}

\* A request on its way to the gateway holds the creation lease of its row.
LeaseIsHeld ==
    \A r \in Initializers, p \in Rows : InFlight(r, p) => lease[p] = "in_progress"

IInv ==
    /\ TypeOK
    /\ RowsBelongToOrders
    /\ AttemptsAreMatched
    /\ CaptureNewsIsTrue
    /\ CapturedIsClosed
    /\ OpenOrderHoldsStock
    /\ OneCapturePerOrder
    /\ PaidMeansCaptured
    /\ StockConserved

(***************************************************************************)
(* What the comments and tests of the repository say, and the code lets    *)
(* happen otherwise.                                                       *)
(***************************************************************************)
\* "Never downgrade a successful payment because of a late/stale failure
\* webhook": an order once paid stays paid.
PaidStaysPaid ==
    [][\A o \in Orders : paymentStatus[o] = "paid" => paymentStatus'[o] = "paid"]_vars

\* "Payment captured after the inventory reservation was no longer ACTIVE":
\* a paid order has all its units, or is marked for stock reconciliation.
PaidIsStockedOrMarked ==
    \A o \in Orders : Captured(o) =>
        \/ \E p \in Rows : OrderOf(p) = o /\ reconcile[p]
        \/ \A v \in Variants : reservation[<<o, v>>] # "expired"

(***************************************************************************)
(* Liveness.                                                               *)
(***************************************************************************)
\* Stock does not stay reserved for ever: every reservation is eventually sold
\* or returned.
ReservationsEnd ==
    \A r \in Orders \X Variants : reservation[r] = "active" ~> reservation[r] # "active"

\* Money the gateway captured for a row that is not bound to another gateway
\* payment is eventually recorded, unless the row gets bound to another one
\* first or another row has settled the order.
CapturesAreRecorded ==
    \A a \in Attempts :
        attempt[a] = "captured" ~> Captured(OrderOf(a)) \/ BoundToOther(RowOf(a), a)

(***************************************************************************)
(* The tables keep the promise of OrderPromise.                            *)
(***************************************************************************)
Outcome(o) ==
    IF Captured(o) THEN "paid"
    ELSE IF orderStatus[o] = "absent" THEN "none"
    ELSE IF orderStatus[o] = "cancelled" THEN "cancelled" ELSE "open"

Payer(o) ==
    IF Captured(o)
    THEN providerPayment[CHOOSE p \in Rows : OrderOf(p) = o /\ rowStatus[p] = "captured"]
    ELSE NoAttempt

Promise == INSTANCE OrderPromise WITH
    shelf   <- stock,
    wanted  <- items,
    hold    <- reservation,
    outcome <- [o \in Orders |-> Outcome(o)],
    payer   <- [o \in Orders |-> Payer(o)]

\* Every step of the services is a step of the promise or invisible to it:
\* an order is paid once and finally, by a payment of its own, and its units
\* are sold with it or put back exactly once.
KeepsPromise == Promise!Spec
=============================================================================
