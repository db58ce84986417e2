-------------------------- MODULE PaymentRequests --------------------------
(***************************************************************************)
(* The two customer requests of orders/payment_service.py that leave the   *)
(* database for the gateway and come back: the creation of a gateway order *)
(* (create_razorpay_order_for_customer) and the confirmation of a checkout *)
(* (confirm_checkout_payment).  Each is a transaction, a gateway call with *)
(* no lock held, and a second transaction; everything else runs between.   *)
(***************************************************************************)
EXTENDS Settlement

CONSTANTS Initializers,   \* concurrent gateway-order requests
          Confirmers      \* concurrent confirmation requests

VARIABLES
    initReq,      \* the state of each gateway-order request
    confirmReq    \* the state of each confirmation request

requestVars == <<initReq, confirmReq>>

Idle == [pc |-> "idle"]

PaymentRequestsTypeOK ==
    /\ initReq \in [Initializers -> {Idle} \cup [pc : {"calling"}, row : Rows]
                                      \cup [pc : {"created"}, row : Rows, call : Calls]]
    /\ confirmReq \in [Confirmers -> {Idle} \cup [pc : {"fetching"}, att : Attempts]
                          \cup [pc : {"fetched"}, att : Attempts, result : {"captured", "failed"}]]

PaymentRequestsInit ==
    /\ initReq = [r \in Initializers |-> Idle]
    /\ confirmReq = [r \in Confirmers |-> Idle]

\* _assert_online_payment_allowed
PaymentAllowed(o) ==
    /\ paymentMethod[o] = "online"
    /\ orderStatus[o] \notin {"absent", "cancelled"}
    /\ paymentStatus[o] # "paid"

(***************************************************************************)
(* create_razorpay_order_for_customer                                      *)
(***************************************************************************)
InFlight(r, p) == initReq[r] # Idle /\ initReq[r].row = p

\* _get_or_create_gateway_payment: the latest row that is not FAILED or
\* CANCELLED, or else a new one.
LiveRows(o) == {p \in RazorpayRows(o) : rowStatus[p] \notin {"failed", "cancelled"}}

NextRow(o, p) == p[1] = o /\ rowStatus[p] = "absent" /\ \A q \in EarlierRows(p) : rowStatus[q] # "absent"

GatewayPayment(o, p) ==
    \/ IsLatest(p, LiveRows(o)) /\ UNCHANGED rowStatus
    \/ /\ LiveRows(o) = {} /\ NextRow(o, p)
       /\ rowStatus' = [rowStatus EXCEPT ![p] = "created"]

Unattached(p) == providerOrder[p] = 0

\* Mutation of LeaseFree: the lease of another request is not respected.
LeaseIgnored(p) == p \in Rows

LeaseFree(p) == lease[p] # "in_progress"

\* Phase 1: take the creation lease of the row.  A row that already has its
\* gateway order is answered at once, one whose lease is fresh is refused:
\* neither changes anything.
InitLease(r, o, p) ==
    /\ initReq[r] = Idle
    /\ PaymentAllowed(o)
    /\ GatewayPayment(o, p)
    /\ Unattached(p)
    /\ LeaseFree(p)
    /\ lease' = [lease EXCEPT ![p] = "in_progress"]
    /\ initReq' = [initReq EXCEPT ![r] = [pc |-> "calling", row |-> p]]
    /\ UNCHANGED <<cart, orderTable, stockTable, providerOrder, providerPayment,
                   reconcile, gwOrders, attempt, emitted, eventTable, confirmReq>>

\* Phase 2: the gateway creates the order and answers ...
InitGatewayAnswers(r) ==
    /\ initReq[r].pc = "calling"
    /\ LET p == initReq[r].row IN
        /\ gwOrders[p] < MaxCalls
        /\ gwOrders' = [gwOrders EXCEPT ![p] = @ + 1]
        /\ initReq' = [initReq EXCEPT ![r] =
                          [pc |-> "created", row |-> p, call |-> gwOrders[p] + 1]]
    /\ UNCHANGED <<tables, attempt, emitted, eventTable, confirmReq>>

\* ... or the call raises, with or without a gateway order behind it, and the
\* lease is given back.
InitGatewayRaises(r) ==
    /\ initReq[r].pc = "calling"
    /\ LET p == initReq[r].row IN
        /\ gwOrders' \in {gwOrders, [gwOrders EXCEPT ![p] = @ + 1]}
        /\ gwOrders'[p] <= MaxCalls
        /\ lease' = [lease EXCEPT ![p] = IF Unattached(p) THEN "none" ELSE @]
    /\ initReq' = [initReq EXCEPT ![r] = Idle]
    /\ UNCHANGED <<cart, orderTable, stockTable, rowStatus, providerOrder,
                   providerPayment, reconcile, attempt, emitted, eventTable, confirmReq>>

\* Mutation of StillPayable: the order is not checked again.
PayableWhenAsked(p) == p \in Rows

StillPayable(p) == PaymentAllowed(OrderOf(p))

\* Phase 3: check the order again, keep a gateway order attached meanwhile,
\* attach this one otherwise.
InitAttach(r) ==
    /\ initReq[r].pc = "created"
    /\ LET p == initReq[r].row IN
        /\ StillPayable(p)
        /\ Unattached(p)
        /\ providerOrder' = [providerOrder EXCEPT ![p] = initReq[r].call]
        /\ rowStatus' = [rowStatus EXCEPT ![p] = "pending"]
        /\ lease' = [lease EXCEPT ![p] = "none"]
    /\ initReq' = [initReq EXCEPT ![r] = Idle]
    /\ UNCHANGED <<cart, orderTable, stockTable, providerPayment, reconcile,
                   gatewayVars, eventTable, confirmReq>>

InitAttachRefused(r) ==
    /\ initReq[r].pc = "created"
    /\ ~StillPayable(initReq[r].row) \/ ~Unattached(initReq[r].row)
    /\ initReq' = [initReq EXCEPT ![r] = Idle]
    /\ UNCHANGED <<tables, gatewayVars, eventTable, confirmReq>>

\* The worker process dies, or the gateway's answer is unusable: the lease stays.
InitDies(r) ==
    /\ initReq[r] # Idle
    /\ initReq' = [initReq EXCEPT ![r] = Idle]
    /\ UNCHANGED <<tables, gatewayVars, eventTable, confirmReq>>

\* _payment_initialization_is_active: after 120 s a lease no longer counts.
\* The web server kills a request after 60 s, so its owner is gone by then.
LeaseGoesStale(p) ==
    /\ lease[p] = "in_progress"
    /\ \A r \in Initializers : ~InFlight(r, p)
    /\ lease' = [lease EXCEPT ![p] = "stale"]
    /\ UNCHANGED <<cart, orderTable, stockTable, rowStatus, providerOrder, providerPayment,
                   reconcile, gatewayVars, eventTable, requestVars>>

(***************************************************************************)
(* confirm_checkout_payment                                                *)
(***************************************************************************)
\* First transaction: the latest row must carry the gateway order the
\* signature is for; the row is marked AUTHORIZED whatever it was before.  A
\* captured or otherwise bound row is answered without a change.
ConfirmAuthorize(r, a) ==
    LET p == RowOf(a) IN
    /\ confirmReq[r] = Idle
    /\ Signed(a)
    /\ IsLatest(p, RazorpayRows(OrderOf(a)))
    /\ providerOrder[p] = CallOf(a)
    /\ rowStatus[p] # "captured"
    /\ ~BoundToOther(p, a)
    /\ rowStatus' = [rowStatus EXCEPT ![p] = "authorized"]
    /\ providerPayment' = [providerPayment EXCEPT ![p] = a]
    /\ confirmReq' = [confirmReq EXCEPT ![r] = [pc |-> "fetching", att |-> a]]
    /\ UNCHANGED <<cart, orderTable, stockTable, providerOrder, lease, reconcile,
                   gatewayVars, eventTable, initReq>>

\* The gateway reports the attempt; only captured and failed lead further.
FetchResult(a) ==
    IF attempt[a] = "captured" THEN [pc |-> "fetched", att |-> a, result |-> "captured"]
    ELSE IF attempt[a] = "reversed" THEN [pc |-> "fetched", att |-> a, result |-> "failed"]
    ELSE Idle

ConfirmFetch(r) ==
    /\ confirmReq[r].pc = "fetching"
    /\ confirmReq' = [confirmReq EXCEPT ![r] = FetchResult(confirmReq[r].att)]
    /\ UNCHANGED <<tables, gatewayVars, eventTable, initReq>>

ConfirmEnds(r) ==
    /\ confirmReq' = [confirmReq EXCEPT ![r] = Idle]
    /\ UNCHANGED <<gatewayVars, eventTable, initReq>>

\* Second transaction: settle, or record the failure.
ConfirmSettle(r) ==
    /\ confirmReq[r].pc = "fetched" /\ confirmReq[r].result = "captured"
    /\ LET a == confirmReq[r].att IN
        \/ SettlePayment(RowOf(a), a)
        \/ (SettleReplays(RowOf(a), a) \/ SettleRefused(RowOf(a), a)) /\ UNCHANGED tables
    /\ ConfirmEnds(r)

ConfirmFailed(r) ==
    /\ confirmReq[r].pc = "fetched" /\ confirmReq[r].result = "failed"
    /\ LET p == RowOf(confirmReq[r].att) IN
        \/ FailPayment(p)
        \/ rowStatus[p] = "captured" /\ UNCHANGED tables
    /\ ConfirmEnds(r)

ConfirmDies(r) ==
    /\ confirmReq[r] # Idle
    /\ UNCHANGED tables
    /\ ConfirmEnds(r)
=============================================================================
