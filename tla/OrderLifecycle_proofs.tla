----------------------- MODULE OrderLifecycle_proofs ------------------------
(***************************************************************************)
(* Proofs about OrderLifecycle for every number of orders, variants, rows, *)
(* attempts and requests: type correctness, the inductive invariant and    *)
(* the safety properties that follow from it; and that it implements       *)
(* OrderPromise.                                                           *)
(***************************************************************************)
EXTENDS OrderLifecycle, FiniteSetTheorems, TLAPS

-----------------------------------------------------------------------------
(***************************************************************************)
(* The inductive invariant and the safety properties.                      *)
(***************************************************************************)

USE DEF Calls, Rows, Attempts, OrderOf, RowOf, CallOf

\* The units behind any set of reservations can be counted.
LEMMA UnitsFinite ==
    ASSUME NEW S, NEW v
    PROVE  /\ IsFiniteSet(UnitsOf(S, v))
           /\ Cardinality(UnitsOf(S, v)) \in Nat
<1>1. IsFiniteSet(1..MaxQty)
  BY FS_Interval, StockAssumption
<1>2. IsFiniteSet(Units)
  BY <1>1, OrdersAssumption, FS_Product DEF Units
<1>3. UnitsOf(S, v) \in SUBSET Units
  BY DEF UnitsOf
<1> QED
  BY <1>2, <1>3, FS_Subset, FS_CardinalityType

-----------------------------------------------------------------------------
(***************************************************************************)
(* Type correctness, one lemma per group of actions.                       *)
(***************************************************************************)
\* The tables keep their types when no action touches them, and so on.
LEMMA TablesUnchanged ==
    TablesTypeOK /\ UNCHANGED tables => TablesTypeOK'
BY DEF TablesTypeOK, tables, orderTable, stockTable, rowTable

LEMMA OthersUnchanged ==
    /\ GatewayTypeOK /\ UNCHANGED gatewayVars => GatewayTypeOK'
    /\ SettlementTypeOK /\ UNCHANGED eventTable => SettlementTypeOK'
    /\ PaymentRequestsTypeOK /\ UNCHANGED requestVars => PaymentRequestsTypeOK'
BY DEF GatewayTypeOK, SettlementTypeOK, PaymentRequestsTypeOK, gatewayVars, eventTable, requestVars

LEMMA TypeInit == Init => TypeOK
<1> SUFFICES ASSUME Init PROVE TypeOK
  OBVIOUS
<1>1. TablesTypeOK
  BY StockAssumption, NoAttemptAssumption, BoundsAssumption
     DEF Init, TablesInit, TablesTypeOK, EmptyCart, OrderStatuses, PaymentStatuses,
         ReservationStatuses, RowStatuses, LeaseStates
<1>2. GatewayTypeOK /\ SettlementTypeOK
  BY BoundsAssumption, HandlersAssumption
     DEF Init, GatewayInit, GatewayTypeOK, SettlementInit, SettlementTypeOK, AttemptStatuses
<1>3. PaymentRequestsTypeOK
  BY DEF Init, PaymentRequestsInit, PaymentRequestsTypeOK, Idle
<1> QED
  BY <1>1, <1>2, <1>3 DEF TypeOK

LEMMA TypePlaceOrder == TypeOK /\ PlaceOrder => TypeOK'
<1> SUFFICES ASSUME TypeOK, NEW o \in Orders, NEW m \in PaymentMethods, CreateOrder(o, m),
                    UNCHANGED <<gatewayVars, eventTable, requestVars>>
             PROVE  TypeOK'
  BY DEF PlaceOrder
<1> USE DEF TypeOK, CreateOrder, TablesTypeOK
<1>1. stock' \in [Variants -> Nat]
  BY DEF ReserveInventory, StockSuffices
<1>2. reservation' \in [Orders \X Variants -> ReservationStatuses]
  BY DEF ReserveInventory, ReservationStatuses
<1>3. orderStatus' \in [Orders -> OrderStatuses]
  BY DEF InitialOrderStatus, OrderStatuses
<1>4. rowStatus' \in [Rows -> RowStatuses]
  BY DEF CreatePaymentRecord, InitialRowStatus, RowStatuses
<1>5. /\ items' \in [Orders -> [Variants -> 0..MaxQty]]
      /\ paymentMethod' \in [Orders -> PaymentMethods \cup {"none"}]
  OBVIOUS
<1>6. cart' \in [Orders -> [Variants -> 0..MaxQty]]
  BY StockAssumption DEF EmptyCart
<1> QED
  BY <1>1, <1>2, <1>3, <1>4, <1>5, <1>6, OthersUnchanged

LEMMA TypeTimePasses == TypeOK /\ TimePasses => TypeOK'
<1> SUFFICES ASSUME TypeOK, NEW r \in Orders \X Variants, ReservationLapses(r),
                    UNCHANGED <<gatewayVars, eventTable, requestVars>>
             PROVE  TypeOK'
  BY DEF TimePasses
<1> QED
  BY OthersUnchanged DEF TypeOK, TablesTypeOK, ReservationLapses, orderTable, rowTable

LEMMA TypeRunWorker == TypeOK /\ RunWorker => TypeOK'
<1> SUFFICES ASSUME TypeOK, NEW batch \in SUBSET Expired, ReleaseExpired(batch),
                    UNCHANGED <<gatewayVars, eventTable, requestVars>>
             PROVE  TypeOK'
  BY DEF RunWorker
<1> USE DEF TypeOK, ReleaseExpired, TablesTypeOK
<1>1. stock' \in [Variants -> Nat]
  BY UnitsFinite
<1>2. reservation' \in [Orders \X Variants -> ReservationStatuses]
  BY DEF ReservationStatuses
<1>3. orderStatus' \in [Orders -> OrderStatuses] /\ paymentStatus' \in [Orders -> PaymentStatuses]
  BY DEF OrderStatuses, PaymentStatuses
<1>4. rowStatus' \in [Rows -> RowStatuses]
  BY DEF RowStatuses
<1> QED
  BY <1>1, <1>2, <1>3, <1>4, OthersUnchanged

LEMMA TypeGatewayMoves == TypeOK /\ GatewayMoves => TypeOK'
<1> SUFFICES ASSUME TypeOK, NEW a \in Attempts,
                    Authorize(a) \/ Capture(a) \/ Fail(a) \/ Reverse(a),
                    UNCHANGED <<tables, eventTable, requestVars>>
             PROVE  TypeOK'
  BY DEF GatewayMoves, GatewayStep
<1>1. GatewayTypeOK'
  BY DEF TypeOK, GatewayTypeOK, Authorize, Capture, Fail, Reverse, AttemptStatuses, Events, EventTypes
<1> QED
  BY <1>1, TablesUnchanged, OthersUnchanged DEF TypeOK

\* The settlement path and the failure path keep the tables well typed.
LEMMA TypeSettle ==
    ASSUME TypeOK, NEW p \in Rows, NEW a \in Attempts, SettlePayment(p, a) \/ FailPayment(p)
    PROVE  TablesTypeOK'
<1>1. CASE SettlePayment(p, a)
  <2> USE <1>1 DEF TypeOK, TablesTypeOK, SettlePayment, ConsumeReservations
  <2>1. reservation' \in [Orders \X Variants -> ReservationStatuses]
    BY DEF ReservationStatuses
  <2>2. reconcile' \in [Rows -> BOOLEAN]
    OBVIOUS
  <2>3. /\ rowStatus' \in [Rows -> RowStatuses]
        /\ providerPayment' \in [Rows -> Attempts \cup {NoAttempt}]
    BY DEF RowStatuses
  <2>4. orderStatus' \in [Orders -> OrderStatuses] /\ paymentStatus' \in [Orders -> PaymentStatuses]
    BY DEF OrderStatuses, PaymentStatuses
  <2> QED
    BY <2>1, <2>2, <2>3, <2>4
<1>2. CASE FailPayment(p)
  BY <1>2 DEF TypeOK, TablesTypeOK, FailPayment, RowStatuses, PaymentStatuses, stockTable
<1> QED
  BY <1>1, <1>2

LEMMA TypeWebhookArrives == TypeOK /\ WebhookArrives => TypeOK'
<1> SUFFICES ASSUME TypeOK, NEW e \in Events, RecordEvent(e) \/ ProcessEvent(e) \/ HandlerDies(e),
                    UNCHANGED <<gatewayVars, requestVars>>
             PROVE  TypeOK'
  BY DEF WebhookArrives, WebhookStep
<1> USE DEF TypeOK
<1>a. e[2] \in Attempts
  BY DEF Events
<1>1. SettlementTypeOK'
  BY HandlersAssumption
     DEF SettlementTypeOK, RecordEvent, ProcessEvent, ProcessSuccess, ProcessFailure,
         ProcessRefused, HandlerDies, HandlerEnds, MarkProcessed
<1>2. TablesTypeOK'
  <2>1. CASE ProcessSuccess(e) \/ ProcessFailure(e)
    BY <2>1, <1>a, TypeSettle, TablesUnchanged DEF ProcessSuccess, ProcessFailure
  <2>2. CASE RecordEvent(e) \/ ProcessRefused(e) \/ HandlerDies(e)
    BY <2>2, TablesUnchanged DEF RecordEvent, ProcessRefused, HandlerDies
  <2> QED
    BY <2>1, <2>2 DEF ProcessEvent
<1> QED
  BY <1>1, <1>2, OthersUnchanged

LEMMA TypeInitializePayment == TypeOK /\ InitializePayment => TypeOK'
<1> SUFFICES ASSUME TypeOK, InitializePayment PROVE TypeOK'
  OBVIOUS
<1> USE DEF TypeOK
<1>1. ASSUME NEW r \in Initializers, NEW o \in Orders, NEW p \in Rows, InitLease(r, o, p)
      PROVE  TypeOK'
  <2>1. TablesTypeOK'
    BY <1>1 DEF InitLease, GatewayPayment, TablesTypeOK, RowStatuses, LeaseStates, orderTable, stockTable
  <2>2. PaymentRequestsTypeOK'
    BY <1>1 DEF InitLease, PaymentRequestsTypeOK
  <2> QED
    BY <1>1, <2>1, <2>2, OthersUnchanged DEF InitLease, gatewayVars
<1>2. ASSUME NEW r \in Initializers, InitGatewayAnswers(r)
      PROVE  TypeOK'
  <2>1. initReq[r].row \in Rows /\ initReq[r].pc = "calling"
    BY <1>2 DEF PaymentRequestsTypeOK, InitGatewayAnswers, Idle
  <2>2. GatewayTypeOK'
    BY <1>2, <2>1, BoundsAssumption DEF InitGatewayAnswers, GatewayTypeOK
  <2>3. PaymentRequestsTypeOK'
    BY <1>2, <2>1, BoundsAssumption DEF InitGatewayAnswers, PaymentRequestsTypeOK, GatewayTypeOK
  <2> QED
    BY <1>2, <2>2, <2>3, OthersUnchanged, TablesUnchanged DEF InitGatewayAnswers
<1>3. ASSUME NEW r \in Initializers, InitGatewayRaises(r)
      PROVE  TypeOK'
  <2>1. initReq[r].row \in Rows
    BY <1>3 DEF PaymentRequestsTypeOK, InitGatewayRaises, Idle
  <2>2. GatewayTypeOK'
    BY <1>3, <2>1, BoundsAssumption DEF InitGatewayRaises, GatewayTypeOK
  <2>3. PaymentRequestsTypeOK'
    BY <1>3 DEF InitGatewayRaises, PaymentRequestsTypeOK, Idle
  <2>4. TablesTypeOK'
    BY <1>3, <2>1 DEF InitGatewayRaises, TablesTypeOK, LeaseStates, orderTable, stockTable
  <2> QED
    BY <1>3, <2>2, <2>3, <2>4, OthersUnchanged DEF InitGatewayRaises
<1>4. ASSUME NEW r \in Initializers, InitAttach(r)
      PROVE  TypeOK'
  <2>1. initReq[r].row \in Rows /\ initReq[r].call \in Calls
    BY <1>4 DEF PaymentRequestsTypeOK, InitAttach, Idle
  <2>2. PaymentRequestsTypeOK'
    BY <1>4 DEF InitAttach, PaymentRequestsTypeOK, Idle
  <2>3. TablesTypeOK'
    BY <1>4, <2>1, BoundsAssumption
       DEF InitAttach, TablesTypeOK, RowStatuses, LeaseStates, orderTable, stockTable
  <2> QED
    BY <1>4, <2>2, <2>3, OthersUnchanged DEF InitAttach
<1>5. ASSUME NEW r \in Initializers, InitAttachRefused(r) \/ InitDies(r)
      PROVE  TypeOK'
  <2>1. PaymentRequestsTypeOK'
    BY <1>5 DEF InitAttachRefused, InitDies, PaymentRequestsTypeOK, Idle
  <2> QED
    BY <1>5, <2>1, OthersUnchanged, TablesUnchanged DEF InitAttachRefused, InitDies
<1>6. ASSUME NEW p \in Rows, LeaseGoesStale(p)
      PROVE  TypeOK'
  BY <1>6, OthersUnchanged DEF LeaseGoesStale, TablesTypeOK, LeaseStates, orderTable, stockTable
<1> QED
  BY <1>1, <1>2, <1>3, <1>4, <1>5, <1>6 DEF InitializePayment

LEMMA TypeConfirmPayment == TypeOK /\ ConfirmPayment => TypeOK'
<1> SUFFICES ASSUME TypeOK, NEW r \in Confirmers,
                    \/ \E a \in Attempts : ConfirmAuthorize(r, a)
                    \/ ConfirmFetch(r) \/ ConfirmSettle(r) \/ ConfirmFailed(r) \/ ConfirmDies(r)
             PROVE  TypeOK'
  BY DEF ConfirmPayment
<1> USE DEF TypeOK
<1>1. ASSUME NEW a \in Attempts, ConfirmAuthorize(r, a)
      PROVE  TypeOK'
  <2>1. TablesTypeOK'
    BY <1>1 DEF ConfirmAuthorize, TablesTypeOK, RowStatuses, orderTable, stockTable
  <2>2. PaymentRequestsTypeOK'
    BY <1>1 DEF ConfirmAuthorize, PaymentRequestsTypeOK
  <2> QED
    BY <1>1, <2>1, <2>2, OthersUnchanged DEF ConfirmAuthorize
<1>2. CASE ConfirmFetch(r)
  <2>1. confirmReq[r].att \in Attempts
    BY <1>2 DEF ConfirmFetch, PaymentRequestsTypeOK, Idle
  <2>2. PaymentRequestsTypeOK'
    BY <1>2, <2>1 DEF ConfirmFetch, FetchResult, PaymentRequestsTypeOK, Idle
  <2> QED
    BY <1>2, <2>2, OthersUnchanged, TablesUnchanged DEF ConfirmFetch
<1>3. CASE ConfirmSettle(r) \/ ConfirmFailed(r)
  <2>1. confirmReq[r].att \in Attempts /\ RowOf(confirmReq[r].att) \in Rows
    BY <1>3 DEF ConfirmSettle, ConfirmFailed, PaymentRequestsTypeOK, Idle
  <2>2. PaymentRequestsTypeOK'
    BY <1>3 DEF ConfirmSettle, ConfirmFailed, ConfirmEnds, PaymentRequestsTypeOK, Idle
  <2>3. TablesTypeOK'
    BY <1>3, <2>1, TypeSettle, TablesUnchanged DEF ConfirmSettle, ConfirmFailed
  <2> QED
    BY <1>3, <2>2, <2>3, OthersUnchanged DEF ConfirmSettle, ConfirmFailed, ConfirmEnds
<1>4. CASE ConfirmDies(r)
  <2>1. PaymentRequestsTypeOK'
    BY <1>4 DEF ConfirmDies, ConfirmEnds, PaymentRequestsTypeOK, Idle
  <2> QED
    BY <1>4, <2>1, OthersUnchanged, TablesUnchanged DEF ConfirmDies, ConfirmEnds
<1> QED
  BY <1>1, <1>2, <1>3, <1>4

LEMMA TypeStep == TypeOK /\ [Next]_vars => TypeOK'
<1>1. TypeOK /\ UNCHANGED vars => TypeOK'
  BY TablesUnchanged, OthersUnchanged DEF TypeOK, vars
<1> QED
  BY <1>1, TypePlaceOrder, TypeTimePasses, TypeRunWorker, TypeGatewayMoves, TypeWebhookArrives,
     TypeInitializePayment, TypeConfirmPayment DEF Next

\* Every reachable state is well typed; in particular stock is never negative.
THEOREM TypeCorrect == Spec => []TypeOK
BY TypeInit, TypeStep, PTL DEF Spec

-----------------------------------------------------------------------------
(***************************************************************************)
(* The inductive invariant.  Seen from orders, stock and captures, every   *)
(* step places an order, releases a batch, settles a row with an attempt   *)
(* the gateway captured, fails a row, or changes none of these.            *)
(***************************************************************************)
Quiet ==
    /\ UNCHANGED <<orderTable, stock, reservation>>
    /\ \A p \in Rows :
        /\ rowStatus'[p] = "captured" <=> rowStatus[p] = "captured"
        /\ rowStatus[p] = "captured" => providerPayment'[p] = providerPayment[p]
        /\ rowStatus[p] # "absent" => rowStatus'[p] # "absent"
        /\ rowStatus[p] = "absent" /\ rowStatus'[p] # "absent" => orderStatus[p[1]] # "absent"
        /\ providerPayment'[p] # providerPayment[p] =>
               /\ RowOf(providerPayment'[p]) = p
               /\ attempt[providerPayment'[p]] # "none"

Settling ==
    \E p \in Rows, a \in Attempts :
        /\ SettlePayment(p, a)
        /\ RowOf(a) = p /\ rowStatus[p] # "absent" /\ attempt[a] = "captured"

Failing == \E p \in Rows : FailPayment(p) /\ rowStatus[p] # "absent"

Placing == \E o \in Orders, m \in PaymentMethods : CreateOrder(o, m)

Releasing == \E batch \in SUBSET Expired : ReleaseExpired(batch)

\* The row a request or an event speaks of is a row of the table.
LEMMA RowOfAttempt == \A a \in Attempts : RowOf(a) \in Rows
OBVIOUS

\* A captured row carries the gateway order of its attempt.
LEMMA CapturedIsAttached ==
    ASSUME IInv, NEW p \in Rows, rowStatus[p] = "captured"
    PROVE  providerOrder[p] # 0
<1>1. providerPayment[p] \in Attempts /\ RowOf(providerPayment[p]) = p
      /\ attempt[providerPayment[p]] # "none"
  BY DEF IInv, OneCapturePerOrder, RowsBelongToOrders, TypeOK, TablesTypeOK
<1>2. providerOrder[p] = CallOf(providerPayment[p])
  BY <1>1 DEF IInv, AttemptsAreMatched, Matches
<1> QED
  BY <1>1, <1>2

LEMMA StepCases ==
    ASSUME IInv, [Next]_vars
    PROVE  Placing \/ Releasing \/ Settling \/ Failing \/ Quiet
<1> USE DEF IInv
<1>1. CASE PlaceOrder
  BY <1>1 DEF PlaceOrder, Placing
<1>2. CASE TimePasses
  BY <1>2 DEF TimePasses, ReservationLapses, Quiet, orderTable, rowTable
<1>3. CASE RunWorker
  BY <1>3 DEF RunWorker, Releasing
<1>4. CASE GatewayMoves
  BY <1>4 DEF GatewayMoves, GatewayStep, Quiet, tables, orderTable, stockTable, rowTable
<1>5. CASE WebhookArrives
  <2> PICK e \in Events : RecordEvent(e) \/ ProcessEvent(e) \/ HandlerDies(e)
    BY <1>5 DEF WebhookArrives, WebhookStep
  <2>0. e[2] \in Attempts
    BY DEF Events
  <2>1. CASE UNCHANGED tables
    BY <2>1 DEF Quiet, tables, orderTable, stockTable, rowTable
  <2>2. CASE ProcessSuccess(e)
    <3>1. attempt[e[2]] = "captured"
      BY <2>2 DEF ProcessSuccess, CaptureNewsIsTrue
    <3> QED
      BY <2>0, <2>1, <2>2, <3>1 DEF ProcessSuccess, Matches, Settling
  <2>3. CASE ProcessFailure(e)
    BY <2>0, <2>1, <2>3 DEF ProcessFailure, Matches, Failing
  <2> QED
    BY <2>1, <2>2, <2>3 DEF ProcessEvent, RecordEvent, ProcessRefused, HandlerDies
<1>6. CASE InitializePayment
  <2> USE DEF Quiet, tables, orderTable, stockTable, rowTable
  <2>1. ASSUME NEW r \in Initializers, NEW o \in Orders, NEW p \in Rows, InitLease(r, o, p)
        PROVE  Quiet
    BY <2>1 DEF InitLease, GatewayPayment, NextRow, PaymentAllowed, TypeOK, TablesTypeOK
  <2>2. ASSUME NEW r \in Initializers, InitAttach(r)
        PROVE  Quiet
    <3>1. initReq[r].row \in Rows
      BY <2>2 DEF InitAttach, TypeOK, PaymentRequestsTypeOK, Idle
    <3>2. rowStatus[initReq[r].row] # "captured"
      BY <2>2, <3>1, CapturedIsAttached DEF InitAttach, Unattached
    <3> QED
      BY <2>2, <3>1, <3>2 DEF InitAttach, StillPayable, PaymentAllowed, TypeOK, TablesTypeOK
  <2>3. ASSUME NEW r \in Initializers,
               InitGatewayAnswers(r) \/ InitGatewayRaises(r) \/ InitAttachRefused(r) \/ InitDies(r)
        PROVE  Quiet
    BY <2>3 DEF InitGatewayAnswers, InitGatewayRaises, InitAttachRefused, InitDies
  <2>4. ASSUME NEW p \in Rows, LeaseGoesStale(p)
        PROVE  Quiet
    BY <2>4 DEF LeaseGoesStale
  <2> QED
    BY <1>6, <2>1, <2>2, <2>3, <2>4 DEF InitializePayment
<1>7. CASE ConfirmPayment
  <2> USE DEF Quiet, tables, orderTable, stockTable, rowTable
  <2> PICK r \in Confirmers :
           \/ \E a \in Attempts : ConfirmAuthorize(r, a)
           \/ ConfirmFetch(r) \/ ConfirmSettle(r) \/ ConfirmFailed(r) \/ ConfirmDies(r)
    BY <1>7 DEF ConfirmPayment
  <2>1. ASSUME NEW a \in Attempts, ConfirmAuthorize(r, a)
        PROVE  Quiet
    BY <2>1 DEF ConfirmAuthorize, Signed, RazorpayRows, IsLatest, TypeOK, TablesTypeOK
  <2>2. CASE ConfirmFetch(r) \/ ConfirmDies(r)
    BY <2>2 DEF ConfirmFetch, ConfirmDies
  <2>3. CASE ConfirmSettle(r) \/ ConfirmFailed(r)
    <3>1. confirmReq[r].att \in Attempts /\ rowStatus[RowOf(confirmReq[r].att)] # "absent"
      BY <2>3 DEF ConfirmSettle, ConfirmFailed, TypeOK, PaymentRequestsTypeOK, RowsBelongToOrders,
                  AttemptsAreMatched, Matches, Idle
    <3>2. CASE UNCHANGED tables
      BY <3>2
    <3>3. CASE ConfirmSettle(r)
      <4>1. attempt[confirmReq[r].att] = "captured"
        BY <3>3 DEF ConfirmSettle, CaptureNewsIsTrue
      <4> QED
        BY <3>1, <3>2, <3>3, <4>1 DEF ConfirmSettle, Settling
    <3>4. CASE ConfirmFailed(r)
      BY <3>1, <3>2, <3>4 DEF ConfirmFailed, Failing
    <3> QED
      BY <2>3, <3>3, <3>4
  <2> QED
    BY <2>1, <2>2, <2>3
<1>8. CASE UNCHANGED vars
  BY <1>8 DEF vars, Quiet, tables, orderTable, stockTable, rowTable
<1> QED
  BY <1>1, <1>2, <1>3, <1>4, <1>5, <1>6, <1>7, <1>8 DEF Next

\* The actions of the gateway are the only ones that change an attempt; what
\* it captured stays captured, and an attempt that was made stays made.
LEMMA AttemptStable ==
    ASSUME IInv, [Next]_vars
    PROVE  /\ UNCHANGED attempt \/ GatewayMoves
           /\ \A a \in Attempts :
                /\ attempt[a] = "captured" => attempt'[a] = "captured"
                /\ attempt[a] # "none" => attempt'[a] # "none"
<1>1. UNCHANGED attempt \/ GatewayMoves
  <2> USE DEF gatewayVars
  <2>1. CASE PlaceOrder \/ TimePasses \/ RunWorker \/ WebhookArrives \/ UNCHANGED vars
    BY <2>1 DEF PlaceOrder, TimePasses, RunWorker, WebhookArrives, WebhookStep, vars
  <2>2. CASE InitializePayment
    BY <2>2 DEF InitializePayment, InitLease, InitGatewayAnswers, InitGatewayRaises, InitAttach,
                InitAttachRefused, InitDies, LeaseGoesStale
  <2>3. CASE ConfirmPayment
    BY <2>3 DEF ConfirmPayment, ConfirmAuthorize, ConfirmFetch, ConfirmSettle, ConfirmFailed,
                ConfirmDies, ConfirmEnds
  <2> QED
    BY <2>1, <2>2, <2>3 DEF Next
<1>2. CASE GatewayMoves
  BY <1>2 DEF GatewayMoves, GatewayStep, Authorize, Capture, Fail, Reverse, CanStart,
              IInv, TypeOK, GatewayTypeOK
<1> QED
  BY <1>1, <1>2

\* A gateway order id, once written, is not replaced; rows and orders stay.
LEMMA RowStable ==
    ASSUME IInv, [Next]_vars
    PROVE  /\ \A p \in Rows : providerOrder[p] # 0 => providerOrder'[p] = providerOrder[p]
           /\ \A p \in Rows : rowStatus[p] # "absent" => rowStatus'[p] # "absent"
           /\ \A o \in Orders : orderStatus[o] # "absent" => orderStatus'[o] # "absent"
<1>1. \A p \in Rows : providerOrder[p] # 0 => providerOrder'[p] = providerOrder[p]
  <2> USE DEF tables, rowTable
  <2>1. CASE PlaceOrder \/ TimePasses \/ RunWorker \/ GatewayMoves \/ UNCHANGED vars
    BY <2>1 DEF PlaceOrder, CreateOrder, TimePasses, ReservationLapses, RunWorker, ReleaseExpired,
                GatewayMoves, GatewayStep, vars
  <2>2. CASE WebhookArrives
    BY <2>2 DEF WebhookArrives, WebhookStep, RecordEvent, ProcessEvent, ProcessSuccess,
                ProcessFailure, ProcessRefused, HandlerDies, SettlePayment, FailPayment
  <2>3. CASE InitializePayment
    BY <2>3 DEF InitializePayment, InitLease, InitGatewayAnswers, InitGatewayRaises, InitAttach,
                InitAttachRefused, InitDies, LeaseGoesStale, Unattached, IInv, TypeOK, TablesTypeOK
  <2>4. CASE ConfirmPayment
    BY <2>4 DEF ConfirmPayment, ConfirmAuthorize, ConfirmFetch, ConfirmSettle, ConfirmFailed,
                ConfirmDies, ConfirmEnds, SettlePayment, FailPayment
  <2> QED
    BY <2>1, <2>2, <2>3, <2>4 DEF Next
<1>2. /\ \A p \in Rows : rowStatus[p] # "absent" => rowStatus'[p] # "absent"
      /\ \A o \in Orders : orderStatus[o] # "absent" => orderStatus'[o] # "absent"
  <2> USE DEF IInv, TypeOK, TablesTypeOK
  <2>1. CASE Placing
    BY <2>1 DEF Placing, CreateOrder, CreatePaymentRecord, InitialRowStatus, InitialOrderStatus
  <2>2. CASE Releasing
    BY <2>2 DEF Releasing, ReleaseExpired
  <2>3. CASE Settling
    BY <2>3 DEF Settling, SettlePayment
  <2>4. CASE Failing
    BY <2>4 DEF Failing, FailPayment
  <2>5. CASE Quiet
    BY <2>5 DEF Quiet, orderTable
  <2> QED
    BY <2>1, <2>2, <2>3, <2>4, <2>5, StepCases
<1> QED
  BY <1>1, <1>2

LEMMA KeepsAttemptsMatched ==
    ASSUME IInv, [Next]_vars
    PROVE  AttemptsAreMatched'
<1> SUFFICES ASSUME NEW a \in Attempts, attempt'[a] # "none"
             PROVE  rowStatus'[RowOf(a)] # "absent" /\ providerOrder'[RowOf(a)] = CallOf(a)
  BY DEF AttemptsAreMatched, Matches
<1>1. rowStatus[RowOf(a)] # "absent" /\ providerOrder[RowOf(a)] = CallOf(a)
  <2>1. CASE attempt[a] # "none"
    BY <2>1 DEF IInv, AttemptsAreMatched, Matches
  <2>2. CASE attempt[a] = "none" /\ GatewayMoves
    BY <2>2 DEF GatewayMoves, GatewayStep, Authorize, Capture, Fail, Reverse, CanStart,
                IInv, TypeOK, GatewayTypeOK
  <2> QED
    BY <2>1, <2>2, AttemptStable
<1>2. CallOf(a) # 0
  OBVIOUS
<1> QED
  BY <1>1, <1>2, RowStable, RowOfAttempt

\* How a confirmation request changes: it starts, it fetches, or it ends.
LEMMA ConfirmRequestChanges ==
    ASSUME IInv, [Next]_vars, NEW r \in Confirmers, confirmReq'[r] # confirmReq[r]
    PROVE  \/ \E a \in Attempts : ConfirmAuthorize(r, a)
                                    /\ confirmReq'[r] = [pc |-> "fetching", att |-> a]
           \/ ConfirmFetch(r)
           \/ confirmReq'[r] = Idle
<1> USE DEF IInv, TypeOK, PaymentRequestsTypeOK
<1>1. ConfirmPayment
  BY DEF Next, PlaceOrder, TimePasses, RunWorker, GatewayMoves, WebhookArrives, vars, requestVars,
         InitializePayment, InitLease, InitGatewayAnswers, InitGatewayRaises, InitAttach,
         InitAttachRefused, InitDies, LeaseGoesStale
<1>2. PICK s \in Confirmers :
         \/ \E a \in Attempts : ConfirmAuthorize(s, a)
         \/ ConfirmFetch(s) \/ ConfirmSettle(s) \/ ConfirmFailed(s) \/ ConfirmDies(s)
  BY <1>1 DEF ConfirmPayment
<1>3. ASSUME NEW a \in Attempts, ConfirmAuthorize(s, a)
      PROVE  s = r /\ confirmReq'[r] = [pc |-> "fetching", att |-> a]
  BY <1>3 DEF ConfirmAuthorize
<1>4. CASE ConfirmFetch(s)
  BY <1>4 DEF ConfirmFetch, FetchResult
<1>5. CASE ConfirmSettle(s) \/ ConfirmFailed(s) \/ ConfirmDies(s)
  BY <1>5 DEF ConfirmSettle, ConfirmFailed, ConfirmDies, ConfirmEnds
<1> QED
  BY <1>2, <1>3, <1>4, <1>5

LEMMA KeepsRowsBelongToOrders ==
    ASSUME IInv, [Next]_vars
    PROVE  RowsBelongToOrders'
<1> USE DEF IInv, TypeOK, TablesTypeOK, RowsBelongToOrders
<1>1. \A r \in Orders \X Variants : orderStatus'[r[1]] = "absent" => reservation'[r] = "none"
  <2>1. CASE Placing
    BY <2>1 DEF Placing, CreateOrder, ReserveInventory, InitialOrderStatus
  <2>2. CASE Releasing
    BY <2>2 DEF Releasing, ReleaseExpired, Expired
  <2>3. CASE Settling
    BY <2>3 DEF Settling, SettlePayment, ConsumeReservations, ActiveReservations
  <2>4. CASE Failing \/ Quiet
    BY <2>4 DEF Failing, FailPayment, Quiet, orderTable, stockTable
  <2> QED
    BY <2>1, <2>2, <2>3, <2>4, StepCases
<1>2. \A p \in Rows : rowStatus'[p] # "absent" => orderStatus'[p[1]] # "absent"
  <2>1. CASE Placing
    BY <2>1 DEF Placing, CreateOrder, CreatePaymentRecord, InitialOrderStatus
  <2>2. CASE Releasing
    BY <2>2 DEF Releasing, ReleaseExpired
  <2>3. CASE Settling \/ Failing
    BY <2>3 DEF Settling, SettlePayment, Failing, FailPayment
  <2>4. CASE Quiet
    BY <2>4 DEF Quiet, orderTable
  <2> QED
    BY <2>1, <2>2, <2>3, <2>4, StepCases
<1>3. ASSUME NEW p \in Rows, providerPayment'[p] # NoAttempt
      PROVE  RowOf(providerPayment'[p]) = p /\ attempt[providerPayment'[p]] # "none"
  <2>1. CASE providerPayment'[p] = providerPayment[p]
    BY <1>3, <2>1
  <2>2. CASE providerPayment'[p] # providerPayment[p] /\ Settling
    BY <2>2 DEF Settling, SettlePayment
  <2>3. CASE providerPayment'[p] # providerPayment[p] /\ Quiet
    BY <2>3 DEF Quiet
  <2>4. Placing \/ Releasing \/ Failing => providerPayment' = providerPayment
    BY DEF Placing, CreateOrder, Releasing, ReleaseExpired, Failing, FailPayment
  <2> QED
    BY <2>1, <2>2, <2>3, <2>4, StepCases
<1>4. ASSUME NEW r \in Confirmers, confirmReq'[r] # Idle
      PROVE  attempt[confirmReq'[r].att] # "none" /\ confirmReq'[r].att \in Attempts
  <2>1. confirmReq'[r] = confirmReq[r] => attempt[confirmReq'[r].att] # "none" /\ confirmReq'[r].att \in Attempts
    BY <1>4 DEF PaymentRequestsTypeOK
  <2>2. CASE \E a \in Attempts : ConfirmAuthorize(r, a) /\ confirmReq'[r] = [pc |-> "fetching", att |-> a]
    BY <2>2 DEF ConfirmAuthorize, Signed
  <2>3. CASE ConfirmFetch(r) /\ confirmReq'[r] # confirmReq[r]
    <3>1. confirmReq[r] # Idle /\ confirmReq[r].att \in Attempts
      BY <2>3 DEF ConfirmFetch, PaymentRequestsTypeOK, Idle
    <3>2. confirmReq'[r].att = confirmReq[r].att
      BY <1>4, <2>3 DEF ConfirmFetch, FetchResult, PaymentRequestsTypeOK, Idle
    <3> QED
      BY <3>1, <3>2
  <2> QED
    BY <1>4, <2>1, <2>2, <2>3, ConfirmRequestChanges
<1>5. \A p \in Rows : providerPayment'[p] # NoAttempt => providerPayment'[p] \in Attempts
  BY TypeStep
<1> QED
  BY <1>1, <1>2, <1>3, <1>4, <1>5, AttemptStable

\* News of a capture stays true: the gateway announces a capture when it makes
\* it, deliveries carry what was announced, and a fetch reads the gateway.
LEMMA KeepsCaptureNews ==
    ASSUME IInv, [Next]_vars
    PROVE  CaptureNewsIsTrue'
<1> USE DEF IInv, TypeOK, GatewayTypeOK, SettlementTypeOK
<1>1. ASSUME NEW e \in Events, handling'[e] > 0 \/ ledger'[e] # "none"
      PROVE  e \in emitted
  <2>1. CASE WebhookArrives
    BY <1>1, <2>1 DEF WebhookArrives, WebhookStep, RecordEvent, ProcessEvent, ProcessSuccess, NotFinished,
                ProcessFailure, ProcessRefused, HandlerDies, HandlerEnds, MarkProcessed, CaptureNewsIsTrue
  <2>2. CASE ~WebhookArrives
    <3>1. UNCHANGED eventTable
      BY <2>2 DEF Next, PlaceOrder, TimePasses, RunWorker, GatewayMoves, vars,
                  InitializePayment, InitLease, InitGatewayAnswers, InitGatewayRaises, InitAttach,
                  InitAttachRefused, InitDies, LeaseGoesStale, ConfirmPayment, ConfirmAuthorize,
                  ConfirmFetch, ConfirmSettle, ConfirmFailed, ConfirmDies, ConfirmEnds
    <3> QED
      BY <1>1, <3>1 DEF eventTable, CaptureNewsIsTrue
  <2> QED
    BY <2>1, <2>2
<1>2. emitted \subseteq emitted' /\ \A e \in emitted' : e[1] \in SuccessEvents => attempt'[e[2]] = "captured"
  <2>1. CASE GatewayMoves
    <3> PICK a \in Attempts : Authorize(a) \/ Capture(a) \/ Fail(a) \/ Reverse(a)
      BY <2>1 DEF GatewayMoves, GatewayStep
    <3>1. \A e \in emitted : e[1] \in SuccessEvents => attempt'[e[2]] = "captured"
      BY AttemptStable DEF CaptureNewsIsTrue, Events
    <3>2. \A e \in emitted' \ emitted : e[1] \in SuccessEvents => attempt'[e[2]] = "captured"
      BY SuccessAssumption DEF Authorize, Capture, Fail, Reverse
    <3> QED
      BY <3>1, <3>2 DEF Authorize, Capture, Fail, Reverse
  <2>2. CASE ~GatewayMoves
    <3>1. UNCHANGED <<attempt, emitted>>
      BY <2>2 DEF Next, PlaceOrder, TimePasses, RunWorker, WebhookArrives, WebhookStep, vars, gatewayVars,
                  InitializePayment, InitLease, InitGatewayAnswers, InitGatewayRaises, InitAttach,
                  InitAttachRefused, InitDies, LeaseGoesStale, ConfirmPayment, ConfirmAuthorize,
                  ConfirmFetch, ConfirmSettle, ConfirmFailed, ConfirmDies, ConfirmEnds
    <3> QED
      BY <3>1 DEF CaptureNewsIsTrue
  <2> QED
    BY <2>1, <2>2
<1>3. ASSUME NEW r \in Confirmers, confirmReq'[r].pc = "fetched", confirmReq'[r].result = "captured"
      PROVE  attempt'[confirmReq'[r].att] = "captured"
  <2>1. CASE confirmReq'[r] = confirmReq[r]
    <3>1. confirmReq[r].att \in Attempts
      BY <1>3, <2>1 DEF PaymentRequestsTypeOK, Idle
    <3> QED
      BY <1>3, <2>1, <3>1, AttemptStable DEF CaptureNewsIsTrue
  <2>2. CASE confirmReq'[r] # confirmReq[r]
    <3>1. ConfirmFetch(r)
      <4>1. confirmReq'[r] # Idle /\ \A a \in Attempts : confirmReq'[r] # [pc |-> "fetching", att |-> a]
        BY <1>3 DEF Idle
      <4> QED
        BY <2>2, <4>1, ConfirmRequestChanges, Zenon
    <3>2. confirmReq[r].att \in Attempts /\ UNCHANGED attempt
      BY <3>1 DEF ConfirmFetch, PaymentRequestsTypeOK, Idle, gatewayVars
    <3>3. confirmReq'[r] = FetchResult(confirmReq[r].att)
      BY <3>1 DEF ConfirmFetch, PaymentRequestsTypeOK
    <3> QED
      BY <1>3, <3>2, <3>3 DEF FetchResult, Idle
  <2> QED
    BY <2>1, <2>2
<1> QED
  BY <1>1, <1>2, <1>3 DEF CaptureNewsIsTrue

-----------------------------------------------------------------------------
(***************************************************************************)
(* What each kind of step does to an order's captures and reservations.    *)
(***************************************************************************)
\* A captured row stays captured with the same gateway payment.
LEMMA CapturedRowStays ==
    ASSUME IInv, [Next]_vars, NEW p \in Rows, rowStatus[p] = "captured"
    PROVE  rowStatus'[p] = "captured" /\ providerPayment'[p] = providerPayment[p]
<1> USE DEF IInv, TypeOK, TablesTypeOK
<1>1. CASE Placing
  <2>1. orderStatus[p[1]] # "absent"
    BY DEF RowsBelongToOrders
  <2>2. PICK o \in Orders, m \in PaymentMethods : CreateOrder(o, m)
    BY <1>1 DEF Placing
  <2>3. p # <<o, 1>>
    BY <2>1, <2>2 DEF CreateOrder
  <2> QED
    BY <2>2, <2>3 DEF CreateOrder, CreatePaymentRecord
<1>2. CASE Releasing
  BY <1>2 DEF Releasing, ReleaseExpired
<1>3. CASE Settling
  BY <1>3 DEF Settling, SettlePayment
<1>4. CASE Failing
  BY <1>4 DEF Failing, FailPayment
<1>5. CASE Quiet
  BY <1>5 DEF Quiet
<1> QED
  BY <1>1, <1>2, <1>3, <1>4, <1>5, StepCases

\* Only a settlement captures a row.
LEMMA CapturedRowIsOld ==
    ASSUME IInv, Placing \/ Releasing \/ Failing \/ Quiet,
           NEW p \in Rows, rowStatus'[p] = "captured"
    PROVE  rowStatus[p] = "captured"
<1> USE DEF IInv, TypeOK, TablesTypeOK
<1>1. CASE Placing
  BY <1>1 DEF Placing, CreateOrder, CreatePaymentRecord, InitialRowStatus
<1>2. CASE Releasing
  BY <1>2 DEF Releasing, ReleaseExpired
<1>3. CASE Failing
  BY <1>3 DEF Failing, FailPayment
<1>4. CASE Quiet
  BY <1>4 DEF Quiet
<1> QED
  BY <1>1, <1>2, <1>3, <1>4

\* So the captured orders change by a settlement only, and then by one order.
LEMMA CapturedOrders ==
    ASSUME IInv, [Next]_vars, NEW o \in Orders
    PROVE  /\ Captured(o) => Captured(o)'
           /\ Placing \/ Releasing \/ Failing \/ Quiet => (Captured(o)' <=> Captured(o))
           /\ \A p \in Rows, a \in Attempts :
                  SettlePayment(p, a) => (Captured(o)' <=> Captured(o) \/ o = p[1])
<1>1. Captured(o) => Captured(o)'
  BY CapturedRowStays DEF Captured
<1>2. Placing \/ Releasing \/ Failing \/ Quiet => (Captured(o)' => Captured(o))
  BY CapturedRowIsOld DEF Captured
<1>3. ASSUME NEW p \in Rows, NEW a \in Attempts, SettlePayment(p, a)
      PROVE  Captured(o)' <=> Captured(o) \/ o = p[1]
  BY <1>1, <1>3 DEF SettlePayment, Captured, IInv, TypeOK, TablesTypeOK
<1> QED
  BY <1>1, <1>2, <1>3

LEMMA KeepsOneCapture ==
    ASSUME IInv, [Next]_vars
    PROVE  OneCapturePerOrder'
<1> USE DEF OneCapturePerOrder
<1>1. CASE Placing \/ Releasing \/ Failing \/ Quiet
  <2>1. \A p \in Rows : rowStatus'[p] = "captured" =>
            rowStatus[p] = "captured" /\ providerPayment'[p] = providerPayment[p]
    BY <1>1, CapturedRowIsOld, CapturedRowStays
  <2>2. \A p \in Rows : rowStatus[p] = "captured" => providerPayment[p] \in Attempts
    BY DEF IInv, TypeOK, TablesTypeOK
  <2> QED
    BY <2>1, <2>2, AttemptStable DEF IInv
<1>2. ASSUME NEW p \in Rows, NEW a \in Attempts, SettlePayment(p, a), attempt[a] = "captured"
      PROVE  OneCapturePerOrder'
  <2>1. \A q \in Rows : rowStatus'[q] = "captured" => rowStatus[q] = "captured" \/ q = p
    BY <1>2 DEF SettlePayment, IInv, TypeOK, TablesTypeOK
  <2>2. \A q \in Rows : q[1] = p[1] => rowStatus[q] # "captured"
    BY <1>2 DEF SettlePayment, SettleRefused, AnotherCaptured
  <2>3. \A q, t \in Rows : /\ OrderOf(q) = OrderOf(t)
                            /\ rowStatus'[q] = "captured" /\ rowStatus'[t] = "captured" => q = t
    BY <2>1, <2>2 DEF IInv
  <2>4. \A q \in Rows : rowStatus'[q] = "captured" =>
            providerPayment'[q] # NoAttempt /\ attempt'[providerPayment'[q]] = "captured"
    <3>1. providerPayment'[p] = a /\ a # NoAttempt /\ attempt'[a] = "captured"
      BY <1>2, AttemptStable, NoAttemptAssumption DEF SettlePayment, IInv, TypeOK, TablesTypeOK
    <3>2. \A q \in Rows : rowStatus[q] = "captured" =>
              providerPayment'[q] # NoAttempt /\ attempt'[providerPayment'[q]] = "captured"
      BY AttemptStable, CapturedRowStays DEF IInv, TypeOK, TablesTypeOK
    <3> QED
      BY <2>1, <3>1, <3>2
  <2> QED
    BY <2>3, <2>4
<1> QED
  BY <1>1, <1>2, StepCases DEF Settling

LEMMA KeepsCapturedClosed ==
    ASSUME IInv, [Next]_vars
    PROVE  CapturedIsClosed'
<1> SUFFICES ASSUME NEW o \in Orders, Captured(o)'
             PROVE  orderStatus'[o] = "confirmed" /\ ActiveReservations(o)' = {}
  BY DEF CapturedIsClosed
<1> USE DEF IInv, TypeOK, TablesTypeOK, ActiveReservations
<1>1. CASE (Placing \/ Releasing \/ Failing \/ Quiet)
  <2>1. Captured(o)
    BY <1>1, CapturedOrders
  <2>2. orderStatus[o] = "confirmed" /\ \A v \in Variants : reservation[<<o, v>>] # "active"
    BY <2>1 DEF CapturedIsClosed
  <2>3. CASE Placing
    BY <2>2, <2>3 DEF Placing, CreateOrder, ReserveInventory
  <2>4. CASE Releasing
    BY <2>2, <2>4 DEF Releasing, ReleaseExpired, Exhausted, Expired
  <2>5. CASE Failing \/ Quiet
    BY <2>2, <2>5 DEF Failing, FailPayment, Quiet, orderTable, stockTable
  <2> QED
    BY <1>1, <2>3, <2>4, <2>5
<1>2. ASSUME NEW p \in Rows, NEW a \in Attempts, SettlePayment(p, a)
      PROVE  orderStatus'[o] = "confirmed" /\ ActiveReservations(o)' = {}
  <2>1. Captured(o) \/ o = p[1]
    BY <1>2, CapturedOrders
  <2> QED
    BY <1>2, <2>1 DEF SettlePayment, ConsumeReservations, CapturedIsClosed
<1> QED
  BY <1>1, <1>2, StepCases DEF Settling

LEMMA KeepsOpenOrderHoldsStock ==
    ASSUME IInv, [Next]_vars
    PROVE  OpenOrderHoldsStock'
<1> SUFFICES ASSUME NEW o \in Orders, orderStatus'[o] # "absent", ~Captured(o)'
             PROVE  orderStatus'[o] = "cancelled" <=> ActiveReservations(o)' = {}
  BY DEF OpenOrderHoldsStock
<1>0. ~Captured(o)
  BY CapturedOrders
<1>a. orderStatus[o] # "absent" => (orderStatus[o] = "cancelled" <=> ActiveReservations(o) = {})
  BY <1>0 DEF IInv, OpenOrderHoldsStock
<1>b. paymentStatus[o] # "paid"
  BY <1>0 DEF IInv, PaidMeansCaptured
<1> USE DEF IInv, TypeOK, TablesTypeOK, ActiveReservations
<1>1. ASSUME NEW u \in Orders, NEW m \in PaymentMethods, CreateOrder(u, m)
      PROVE  orderStatus'[o] = "cancelled" <=> ActiveReservations(o)' = {}
  <2>1. CASE u = o
    <3>1. PICK v \in Variants : cart[o][v] > 0
      BY <1>1, <2>1 DEF CreateOrder, EmptyCart
    <3>2. <<o, v>> \in ActiveReservations(o)'
      BY <1>1, <2>1, <3>1 DEF CreateOrder, ReserveInventory
    <3> QED
      BY <1>1, <2>1, <3>2 DEF CreateOrder, InitialOrderStatus
  <2>2. CASE u # o
    BY <1>1, <1>a, <2>2 DEF CreateOrder, ReserveInventory
  <2> QED
    BY <2>1, <2>2
<1>2. ASSUME NEW batch \in SUBSET Expired, ReleaseExpired(batch)
      PROVE  orderStatus'[o] = "cancelled" <=> ActiveReservations(o)' = {}
  <2>1. ActiveReservations(o)' = ActiveReservations(o) \ batch
    BY <1>2 DEF ReleaseExpired
  <2>2. o \in Exhausted(batch) <=>
            /\ \E r \in batch : r[1] = o
            /\ orderStatus[o] # "cancelled"
            /\ ActiveReservations(o) \subseteq batch
    BY <1>b DEF Exhausted
  <2>3. \A r \in batch : r[1] = o => r \in ActiveReservations(o)
    BY DEF Expired
  <2>4. orderStatus'[o] = "cancelled" <=> orderStatus[o] = "cancelled" \/ o \in Exhausted(batch)
    BY <1>2 DEF ReleaseExpired
  <2>5. orderStatus[o] # "absent"
    BY <1>2 DEF ReleaseExpired, Exhausted, Expired, RowsBelongToOrders
  <2> HIDE DEF ActiveReservations
  <2>6. CASE orderStatus[o] = "cancelled"
    BY <1>a, <2>1, <2>4, <2>5, <2>6
  <2>7. CASE orderStatus[o] # "cancelled"
    <3>1. PICK r \in ActiveReservations(o) : TRUE
      BY <1>a, <2>5, <2>7
    <3>2. r[1] = o
      BY <3>1 DEF ActiveReservations
    <3> QED
      BY <2>1, <2>2, <2>4, <2>7, <3>1, <3>2
  <2> QED
    BY <2>6, <2>7
<1>3. ASSUME NEW p \in Rows, NEW a \in Attempts, SettlePayment(p, a)
      PROVE  orderStatus'[o] = "cancelled" <=> ActiveReservations(o)' = {}
  <2>1. o # p[1]
    BY <1>3, CapturedOrders
  <2> QED
    BY <1>3, <1>a, <2>1 DEF SettlePayment, ConsumeReservations
<1>4. CASE Failing \/ Quiet
  BY <1>4, <1>a DEF Failing, FailPayment, Quiet, orderTable, stockTable
<1> QED
  BY <1>1, <1>2, <1>3, <1>4, StepCases DEF Placing, Releasing, Settling

LEMMA KeepsPaidMeansCaptured ==
    ASSUME IInv, [Next]_vars
    PROVE  PaidMeansCaptured'
<1> SUFFICES ASSUME NEW o \in Orders, ~Captured(o)'
             PROVE  /\ paymentStatus'[o] # "paid"
                    /\ \A v \in Variants : reservation'[<<o, v>>] # "consumed"
  BY DEF PaidMeansCaptured
<1>0. paymentStatus[o] # "paid" /\ \A v \in Variants : reservation[<<o, v>>] # "consumed"
  BY CapturedOrders DEF IInv, PaidMeansCaptured
<1> USE DEF IInv, TypeOK, TablesTypeOK
<1>1. CASE Placing
  BY <1>0, <1>1 DEF Placing, CreateOrder, ReserveInventory
<1>2. CASE Releasing
  BY <1>0, <1>2 DEF Releasing, ReleaseExpired
<1>3. ASSUME NEW p \in Rows, NEW a \in Attempts, SettlePayment(p, a)
      PROVE  /\ paymentStatus'[o] # "paid"
             /\ \A v \in Variants : reservation'[<<o, v>>] # "consumed"
  <2>1. o # p[1]
    BY <1>3, CapturedOrders
  <2> QED
    BY <1>0, <1>3, <2>1 DEF SettlePayment, ConsumeReservations, ActiveReservations
<1>4. CASE Failing \/ Quiet
  BY <1>0, <1>4 DEF Failing, FailPayment, Quiet, orderTable, stockTable
<1> QED
  BY <1>1, <1>2, <1>3, <1>4, StepCases DEF Settling

-----------------------------------------------------------------------------
(***************************************************************************)
(* Counting units.                                                         *)
(***************************************************************************)
\* Reservations taken out of a set take exactly their own units with them.
LEMMA UnitsWithout ==
    ASSUME NEW S, NEW T \in SUBSET S, NEW v
    PROVE  Cardinality(UnitsOf(S, v)) =
               Cardinality(UnitsOf(S \ T, v)) + Cardinality(UnitsOf(T, v))
<1>1. UnitsOf(S \ T, v) = UnitsOf(S, v) \ UnitsOf(T, v)
  BY DEF UnitsOf
<1>2. UnitsOf(S, v) \cap UnitsOf(T, v) = UnitsOf(T, v)
  BY DEF UnitsOf
<1>3. Cardinality(UnitsOf(S \ T, v)) = Cardinality(UnitsOf(S, v)) - Cardinality(UnitsOf(T, v))
  BY <1>1, <1>2, UnitsFinite, FS_Difference
<1> QED
  BY <1>3, UnitsFinite

\* A pile of n units of one order counts n.
LEMMA PileCounts ==
    ASSUME NEW o, NEW n \in Nat
    PROVE  IsFiniteSet({o} \X (1..n)) /\ Cardinality({o} \X (1..n)) = n
<1>1. IsFiniteSet({o}) /\ Cardinality({o}) = 1
  BY FS_Singleton
<1>2. IsFiniteSet(1..n) /\ Cardinality(1..n) = n
  BY FS_Interval
<1>3. /\ IsFiniteSet({o} \X (1..n))
      /\ Cardinality({o} \X (1..n)) = Cardinality({o}) * Cardinality(1..n)
  BY <1>1, <1>2, FS_Product
<1> QED
  BY <1>1, <1>2, <1>3

\* Disjoint piles add up.
LEMMA PilesAddUp ==
    ASSUME NEW S, IsFiniteSet(S), NEW T, IsFiniteSet(T), S \cap T = {}
    PROVE  Cardinality(S \cup T) = Cardinality(S) + Cardinality(T)
<1>1. Cardinality(S \cup T) = Cardinality(S) + Cardinality(T) - Cardinality(S \cap T)
  BY FS_Union
<1>2. Cardinality(S \cap T) = 0
  BY FS_EmptySet
<1> QED
  BY <1>1, <1>2, FS_CardinalityType

LEMMA KeepsStockConserved ==
    ASSUME IInv, [Next]_vars
    PROVE  StockConserved'
<1> SUFFICES ASSUME NEW v \in Variants
             PROVE  stock'[v] + Cardinality(UnitsOf(Held, v)') = InitialStock[v]
  BY DEF StockConserved
<1>0. /\ stock[v] + Cardinality(UnitsOf(Held, v)) = InitialStock[v]
      /\ stock[v] \in Int /\ InitialStock[v] \in Int
  BY StockAssumption DEF IInv, StockConserved, TypeOK, TablesTypeOK
<1>1. ASSUME NEW o \in Orders, NEW m \in PaymentMethods, CreateOrder(o, m)
      PROVE  stock'[v] + Cardinality(UnitsOf(Held, v)') = InitialStock[v]
  <2> DEFINE n == cart[o][v]
  <2> USE DEF IInv, TypeOK, TablesTypeOK
  <2>1. n \in Nat /\ n \in 0..MaxQty
    BY StockAssumption
  <2>2. \A w \in Variants : reservation[<<o, w>>] = "none"
    BY <1>1 DEF CreateOrder, RowsBelongToOrders
  <2>3. UnitsOf(Held, v)' = UnitsOf(Held, v) \cup ({o} \X (1..n))
    <3>1. Held' = Held \cup {r \in Orders \X Variants : r[1] = o /\ cart[o][r[2]] > 0}
      BY <1>1 DEF CreateOrder, ReserveInventory, Held
    <3>2. \A u \in Units : u[1] # o => (u \in UnitsOf(Held, v)' <=> u \in UnitsOf(Held, v))
      BY <1>1, <3>1 DEF CreateOrder, UnitsOf, Units
    <3>3. \A u \in Units : u[1] = o => (u \in UnitsOf(Held, v)' <=> u[2] \in 1..n)
      BY <1>1, <2>1, <3>1 DEF CreateOrder, UnitsOf, Units
    <3>4. \A u \in Units : u[1] = o => u \notin UnitsOf(Held, v)
      BY <2>2 DEF UnitsOf, Held
    <3>5. {o} \X (1..n) \subseteq Units
      BY <2>1, StockAssumption DEF Units
    <3>6. UnitsOf(Held, v)' \subseteq Units /\ UnitsOf(Held, v) \subseteq Units
      BY DEF UnitsOf, Units
    <3>7. \A u \in Units : u \in {o} \X (1..n) <=> u[1] = o /\ u[2] \in 1..n
      BY DEF Units
    <3> QED
      BY <3>2, <3>3, <3>4, <3>5, <3>6, <3>7
  <2>4. UnitsOf(Held, v) \cap ({o} \X (1..n)) = {}
    BY <2>2 DEF UnitsOf, Held
  <2>5. Cardinality(UnitsOf(Held, v)') = Cardinality(UnitsOf(Held, v)) + n
    <3>1. Cardinality(UnitsOf(Held, v)') = Cardinality(UnitsOf(Held, v)) + Cardinality({o} \X (1..n))
      <4>1. IsFiniteSet(UnitsOf(Held, v)) /\ IsFiniteSet({o} \X (1..n))
        BY <2>1, UnitsFinite, PileCounts
      <4>2. Cardinality(UnitsOf(Held, v) \cup ({o} \X (1..n)))
                = Cardinality(UnitsOf(Held, v)) + Cardinality({o} \X (1..n))
        BY <2>4, <4>1, PilesAddUp
      <4> QED
        BY <2>3, <4>2
    <3> QED
      BY <2>1, <3>1, PileCounts
  <2>6. stock'[v] = stock[v] - n
    BY <1>1 DEF CreateOrder, ReserveInventory
  <2> QED
    BY <1>0, <2>1, <2>5, <2>6, UnitsFinite
<1>2. ASSUME NEW batch \in SUBSET Expired, ReleaseExpired(batch)
      PROVE  stock'[v] + Cardinality(UnitsOf(Held, v)') = InitialStock[v]
  <2> USE DEF IInv, TypeOK, TablesTypeOK
  <2>1. batch \in SUBSET Held
    BY DEF Expired, Held
  <2>2. Held' = Held \ batch /\ items' = items
    BY <1>2 DEF ReleaseExpired, Held
  <2>3. UnitsOf(Held, v)' = UnitsOf(Held \ batch, v)
    BY <2>2 DEF UnitsOf
  <2>4. stock'[v] = stock[v] + Cardinality(UnitsOf(batch, v))
    BY <1>2 DEF ReleaseExpired
  <2> QED
    <3>1. Cardinality(UnitsOf(Held, v)) =
              Cardinality(UnitsOf(Held \ batch, v)) + Cardinality(UnitsOf(batch, v))
      BY <2>1, UnitsWithout
    <3>2. Cardinality(UnitsOf(Held \ batch, v)) \in Nat /\ Cardinality(UnitsOf(batch, v)) \in Nat
      BY UnitsFinite
    <3> QED
      BY <1>0, <2>3, <2>4, <3>1, <3>2
<1>3. CASE Settling \/ Failing \/ Quiet
  <2>1. Held' = Held /\ items' = items /\ stock' = stock
    BY <1>3 DEF Settling, SettlePayment, ConsumeReservations, ActiveReservations, Failing, FailPayment,
                Quiet, Held, orderTable, stockTable, IInv, TypeOK, TablesTypeOK
  <2>2. UnitsOf(Held, v)' = UnitsOf(Held, v)
    BY <2>1 DEF UnitsOf
  <2> QED
    BY <1>0, <2>1, <2>2
<1> QED
  BY <1>1, <1>2, <1>3, StepCases DEF Placing, Releasing

-----------------------------------------------------------------------------
LEMMA InvariantInit == Init => IInv
<1> SUFFICES ASSUME Init PROVE IInv
  OBVIOUS
<1>1. TypeOK
  BY TypeInit
<1>a. \A o \in Orders : ~Captured(o) /\ ActiveReservations(o) = {}
  BY DEF Init, TablesInit, Captured, ActiveReservations
<1>2. RowsBelongToOrders /\ AttemptsAreMatched /\ CaptureNewsIsTrue
  BY DEF Init, TablesInit, GatewayInit, SettlementInit, PaymentRequestsInit, Events, Idle,
         RowsBelongToOrders, AttemptsAreMatched, CaptureNewsIsTrue
<1>3. CapturedIsClosed /\ OpenOrderHoldsStock /\ OneCapturePerOrder /\ PaidMeansCaptured
  BY <1>a DEF Init, TablesInit,
         CapturedIsClosed, OpenOrderHoldsStock, OneCapturePerOrder, PaidMeansCaptured
<1>4. StockConserved
  <2> SUFFICES ASSUME NEW v \in Variants
               PROVE  stock[v] + Cardinality(UnitsOf(Held, v)) = InitialStock[v]
    BY DEF StockConserved
  <2>1. UnitsOf(Held, v) = {}
    BY DEF Init, TablesInit, Held, UnitsOf
  <2> QED
    BY <2>1, FS_EmptySet, StockAssumption DEF Init, TablesInit
<1> QED
  BY <1>1, <1>2, <1>3, <1>4 DEF IInv

LEMMA InvariantStep == IInv /\ [Next]_vars => IInv'
<1> SUFFICES ASSUME IInv, [Next]_vars PROVE IInv'
  OBVIOUS
<1>1. TypeOK'
  BY TypeStep DEF IInv
<1> QED
  BY <1>1, KeepsRowsBelongToOrders, KeepsAttemptsMatched, KeepsCaptureNews, KeepsCapturedClosed,
     KeepsOpenOrderHoldsStock, KeepsOneCapture, KeepsPaidMeansCaptured, KeepsStockConserved DEF IInv

\* Everything the safety properties rest on holds in every reachable state.
THEOREM InvariantHolds == Spec => []IInv
BY InvariantInit, InvariantStep, PTL DEF Spec

\* No unit is sold twice, released twice or lost, for any stock and any number
\* of orders, workers' batches, payments and deliveries.
THEOREM StockIsConserved == Spec => []StockConserved
<1>1. IInv => StockConserved
  BY DEF IInv
<1> QED
  BY <1>1, InvariantHolds, PTL

\* An unpaid order is cancelled exactly when its last reservation is gone,
\* however its reservations are spread over the worker's batches.
THEOREM OpenOrdersHoldStock == Spec => []OpenOrderHoldsStock
<1>1. IInv => OpenOrderHoldsStock
  BY DEF IInv
<1> QED
  BY <1>1, InvariantHolds, PTL

\* At most one payment row of an order is ever captured, and truthfully.
THEOREM OrdersArePaidOnce == Spec => []OneCapturePerOrder
<1>1. IInv => OneCapturePerOrder
  BY DEF IInv
<1> QED
  BY <1>1, InvariantHolds, PTL

\* An order shown as paid, and every unit sold, has a captured payment.
THEOREM PaidOrdersAreCaptured == Spec => []PaidMeansCaptured
<1>1. IInv => PaidMeansCaptured
  BY DEF IInv
<1> QED
  BY <1>1, InvariantHolds, PTL

\* Webhooks find the row of every attempt a customer could start.
THEOREM AttemptsStayMatched == Spec => []AttemptsAreMatched
<1>1. IInv => AttemptsAreMatched
  BY DEF IInv
<1> QED
  BY <1>1, InvariantHolds, PTL

-----------------------------------------------------------------------------
\* Nothing takes a captured row back or rebinds it.
THEOREM CapturesAreFinal == Spec => CaptureIsFinal
<1>1. ASSUME IInv, [Next]_vars
      PROVE  \A p \in Rows : rowStatus[p] = "captured" =>
                 rowStatus'[p] = "captured" /\ providerPayment'[p] = providerPayment[p]
  BY <1>1, CapturedRowStays
<1> QED
  BY <1>1, InvariantHolds, PTL DEF Spec, CaptureIsFinal

\* Nothing cancels an order whose payment is captured or takes its units back.
THEOREM PaidOrdersKeepTheirStock == Spec => PaidOrderKeepsItsStock
<1>1. ASSUME IInv, [Next]_vars
      PROVE  \A o \in Orders : Captured(o) =>
                 /\ orderStatus'[o] = "confirmed"
                 /\ \A v \in Variants : reservation'[<<o, v>>] = "expired"
                                            => reservation[<<o, v>>] = "expired"
  <2> SUFFICES ASSUME NEW o \in Orders, Captured(o)
               PROVE  /\ orderStatus'[o] = "confirmed"
                      /\ \A v \in Variants : reservation'[<<o, v>>] = "expired"
                                                 => reservation[<<o, v>>] = "expired"
    OBVIOUS
  <2>1. orderStatus'[o] = "confirmed"
    BY <1>1, CapturedOrders, KeepsCapturedClosed DEF CapturedIsClosed
  <2>2. \A v \in Variants : reservation[<<o, v>>] # "active"
    BY <1>1 DEF IInv, CapturedIsClosed, ActiveReservations
  <2> USE DEF IInv, TypeOK, TablesTypeOK
  <2>3. CASE Placing
    BY <2>1, <2>3 DEF Placing, CreateOrder, ReserveInventory
  <2>4. CASE Releasing
    BY <2>1, <2>2, <2>4 DEF Releasing, ReleaseExpired, Expired
  <2>5. CASE Settling \/ Failing \/ Quiet
    BY <2>1, <2>5 DEF Settling, SettlePayment, ConsumeReservations, Failing, FailPayment, Quiet,
                orderTable, stockTable
  <2> QED
    BY <1>1, <2>1, <2>3, <2>4, <2>5, StepCases
<1> QED
  BY <1>1, InvariantHolds, PTL DEF Spec, PaidOrderKeepsItsStock

\* A gateway order is attached to a row only while its order can be paid.
THEOREM AttachmentsAreTimely == Spec => NoLateAttachment
<1>1. ASSUME IInv, [Next]_vars
      PROVE  \A p \in Rows : providerOrder'[p] # providerOrder[p] =>
                 /\ orderStatus[OrderOf(p)] # "cancelled"
                 /\ ~(paymentStatus[OrderOf(p)] = "paid")
  <2> SUFFICES ASSUME NEW p \in Rows, providerOrder'[p] # providerOrder[p]
               PROVE  orderStatus[OrderOf(p)] # "cancelled" /\ ~(paymentStatus[OrderOf(p)] = "paid")
    OBVIOUS
  <2>1. PICK r \in Initializers : InitAttach(r)
    <3> USE <1>1 DEF tables, rowTable
    <3>1. CASE PlaceOrder \/ TimePasses \/ RunWorker \/ GatewayMoves \/ UNCHANGED vars
      BY <3>1 DEF PlaceOrder, CreateOrder, TimePasses, ReservationLapses, RunWorker, ReleaseExpired,
                  GatewayMoves, GatewayStep, vars
    <3>2. CASE WebhookArrives
      BY <3>2 DEF WebhookArrives, WebhookStep, RecordEvent, ProcessEvent, ProcessSuccess,
                  ProcessFailure, ProcessRefused, HandlerDies, SettlePayment, FailPayment
    <3>3. CASE InitializePayment
      BY <3>3 DEF InitializePayment, InitLease, InitGatewayAnswers, InitGatewayRaises,
                  InitAttachRefused, InitDies, LeaseGoesStale
    <3>4. CASE ConfirmPayment
      BY <3>4 DEF ConfirmPayment, ConfirmAuthorize, ConfirmFetch, ConfirmSettle, ConfirmFailed,
                  ConfirmDies, ConfirmEnds, SettlePayment, FailPayment
    <3> QED
      BY <3>1, <3>2, <3>3, <3>4 DEF Next
  <2>2. p = initReq[r].row
    BY <1>1, <2>1 DEF InitAttach, IInv, TypeOK, TablesTypeOK
  <2> QED
    BY <2>1, <2>2 DEF InitAttach, StillPayable, PaymentAllowed
<1> QED
  BY <1>1, InvariantHolds, PTL DEF Spec, NoLateAttachment

-----------------------------------------------------------------------------
(***************************************************************************)
(* The creation lease.                                                     *)
(***************************************************************************)
\* Requests change one at a time: a request that is out for a row took the
\* lease of the row in this step, or was out for it before.
LEMMA RequestsOut ==
    ASSUME TypeOK, [Next]_vars, NEW r \in Initializers, NEW p \in Rows, InFlight(r, p)'
    PROVE  \/ \E o \in Orders : InitLease(r, o, p)
           \/ InFlight(r, p)
<1> USE DEF TypeOK, PaymentRequestsTypeOK, InFlight
<1>1. CASE initReq'[r] = initReq[r]
  BY <1>1 DEF Idle
<1>2. CASE initReq'[r] # initReq[r]
  <2>1. InitializePayment
    BY <1>2 DEF Next, PlaceOrder, TimePasses, RunWorker, GatewayMoves, WebhookArrives, vars, requestVars,
                ConfirmPayment, ConfirmAuthorize, ConfirmFetch, ConfirmSettle, ConfirmFailed,
                ConfirmDies, ConfirmEnds
  <2>2. ASSUME NEW s \in Initializers, NEW o \in Orders, NEW q \in Rows, InitLease(s, o, q)
        PROVE  s = r /\ q = p
    BY <1>2, <2>2 DEF InitLease, Idle
  <2>3. ASSUME NEW s \in Initializers, InitGatewayAnswers(s)
        PROVE  InFlight(r, p)
    BY <1>2, <2>3 DEF InitGatewayAnswers, Idle
  <2>4. ASSUME NEW s \in Initializers,
               InitGatewayRaises(s) \/ InitAttach(s) \/ InitAttachRefused(s) \/ InitDies(s)
        PROVE  FALSE
    BY <1>2, <2>4 DEF InitGatewayRaises, InitAttach, InitAttachRefused, InitDies
  <2>5. ASSUME NEW q \in Rows, LeaseGoesStale(q)
        PROVE  FALSE
    BY <1>2, <2>5 DEF LeaseGoesStale, requestVars
  <2> QED
    BY <2>1, <2>2, <2>3, <2>4, <2>5 DEF InitializePayment
<1> QED
  BY <1>1, <1>2

\* When one request is out for a row, its lease is in progress: the actions
\* that end a lease belong to the one request that holds it.
LEMMA KeepsLease ==
    ASSUME TypeOK, LeaseIsHeld, OneCallPerRow, [Next]_vars
    PROVE  LeaseIsHeld' /\ OneCallPerRow'
<1>0. \A r \in Initializers, o \in Orders, p \in Rows :
         InitLease(r, o, p) => lease[p] # "in_progress" /\ lease'[p] = "in_progress"
  BY DEF InitLease, LeaseFree, TypeOK, TablesTypeOK
<1>1. ASSUME NEW r \in Initializers, NEW p \in Rows, InFlight(r, p)'
      PROVE  lease'[p] = "in_progress"
  <2>1. CASE \E o \in Orders : InitLease(r, o, p)
    BY <1>0, <2>1
  <2>2. CASE InFlight(r, p)
    <3>1. lease[p] = "in_progress"
      BY <2>2 DEF LeaseIsHeld
    <3> USE DEF TypeOK, TablesTypeOK, tables, rowTable
    <3>2. CASE PlaceOrder \/ TimePasses \/ RunWorker \/ GatewayMoves \/ UNCHANGED vars
      BY <3>1, <3>2 DEF PlaceOrder, CreateOrder, TimePasses, ReservationLapses, RunWorker,
                        ReleaseExpired, GatewayMoves, GatewayStep, vars
    <3>3. CASE WebhookArrives
      BY <3>1, <3>3 DEF WebhookArrives, WebhookStep, RecordEvent, ProcessEvent, ProcessSuccess,
                        ProcessFailure, ProcessRefused, HandlerDies, SettlePayment, FailPayment
    <3>4. CASE ConfirmPayment
      BY <3>1, <3>4 DEF ConfirmPayment, ConfirmAuthorize, ConfirmFetch, ConfirmSettle,
                        ConfirmFailed, ConfirmDies, ConfirmEnds, SettlePayment, FailPayment
    <3>5. ASSUME NEW s \in Initializers, InitAttach(s) \/ InitGatewayRaises(s)
          PROVE  lease'[p] = "in_progress"
      <4>1. CASE s = r
        BY <1>1, <3>5, <4>1 DEF InitAttach, InitGatewayRaises, InFlight, PaymentRequestsTypeOK
      <4>2. CASE s # r
        <5>1. initReq[s] # Idle /\ initReq[s].row \in Rows
          BY <3>5 DEF InitAttach, InitGatewayRaises, PaymentRequestsTypeOK, Idle
        <5>2. initReq[s].row # p
          BY <2>2, <4>2, <5>1 DEF OneCallPerRow, InFlight
        <5> QED
          BY <3>1, <3>5, <5>1, <5>2 DEF InitAttach, InitGatewayRaises
      <4> QED
        BY <4>1, <4>2
    <3>6. ASSUME NEW q \in Rows, LeaseGoesStale(q)
          PROVE  lease'[p] = "in_progress"
      BY <2>2, <3>1, <3>6 DEF LeaseGoesStale
    <3>7. ASSUME NEW s \in Initializers,
                 \/ \E o \in Orders, q \in Rows : InitLease(s, o, q)
                 \/ InitGatewayAnswers(s) \/ InitAttachRefused(s) \/ InitDies(s)
          PROVE  lease'[p] = "in_progress"
      BY <3>1, <3>7 DEF InitLease, InitGatewayAnswers, InitAttachRefused, InitDies
    <3> QED
      BY <3>2, <3>3, <3>4, <3>5, <3>6, <3>7 DEF Next, InitializePayment
  <2> QED
    BY <1>1, <2>1, <2>2, RequestsOut
<1>2. ASSUME NEW r \in Initializers, NEW s \in Initializers, NEW p \in Rows,
             InFlight(r, p)', InFlight(s, p)'
      PROVE  r = s
  <2>1. CASE InFlight(r, p) /\ InFlight(s, p)
    BY <2>1 DEF OneCallPerRow
  <2>2. ASSUME NEW t \in Initializers, NEW u \in Initializers, NEW o \in Orders, InitLease(t, o, p)
        PROVE  ~InFlight(u, p) /\ (InFlight(u, p)' => u = t)
    <3>1. ~InFlight(u, p)
      BY <1>0, <2>2 DEF LeaseIsHeld
    <3>2. CASE u # t
      <4>1. initReq'[u] = initReq[u]
        BY <2>2, <3>2 DEF InitLease, TypeOK, PaymentRequestsTypeOK
      <4> QED
        BY <3>1, <4>1 DEF InFlight, Idle
    <3> QED
      BY <3>1, <3>2
  <2> QED
    BY <1>2, <2>1, <2>2, RequestsOut
<1> QED
  BY <1>1, <1>2 DEF LeaseIsHeld, OneCallPerRow

\* At most one request at a time asks the gateway for an order for one row,
\* however many customers' requests run and whichever of them die.
THEOREM LeaseExcludes == Spec => []OneCallPerRow
<1> DEFINE Inv == TypeOK /\ LeaseIsHeld /\ OneCallPerRow
<1>1. Init => Inv
  BY TypeInit DEF Init, PaymentRequestsInit, LeaseIsHeld, OneCallPerRow, InFlight
<1>2. Inv /\ [Next]_vars => Inv'
  BY KeepsLease, TypeStep
<1>3. Inv => OneCallPerRow
  OBVIOUS
<1> QED
  BY <1>1, <1>2, <1>3, PTL DEF Spec

-----------------------------------------------------------------------------
\* An event announcing a capture is only marked processed with its row
\* captured by that very attempt, and the row never leaves that state again.
LEMMA KeepsProcessed ==
    ASSUME IInv, ProcessedMeansSettled, [Next]_vars
    PROVE  ProcessedMeansSettled'
<1> SUFFICES ASSUME NEW e \in Events, e[1] \in SuccessEvents, ledger'[e] = "processed"
             PROVE  rowStatus'[RowOf(e[2])] = "captured" /\ providerPayment'[RowOf(e[2])] = e[2]
  BY DEF ProcessedMeansSettled
<1>0. e[2] \in Attempts /\ RowOf(e[2]) \in Rows
  BY DEF Events
<1>1. CASE ledger[e] = "processed"
  <2>1. rowStatus[RowOf(e[2])] = "captured" /\ providerPayment[RowOf(e[2])] = e[2]
    BY <1>1 DEF ProcessedMeansSettled
  <2> QED
    BY <1>0, <2>1, CapturedRowStays
<1>2. CASE ledger[e] # "processed"
  <2>1. WebhookArrives
    BY <1>2 DEF Next, PlaceOrder, TimePasses, RunWorker, GatewayMoves, vars, eventTable,
                InitializePayment, InitLease, InitGatewayAnswers, InitGatewayRaises, InitAttach,
                InitAttachRefused, InitDies, LeaseGoesStale, ConfirmPayment, ConfirmAuthorize,
                ConfirmFetch, ConfirmSettle, ConfirmFailed, ConfirmDies, ConfirmEnds
  <2>2. ProcessSuccess(e)
    BY <1>2, <2>1, SuccessAssumption
       DEF WebhookArrives, WebhookStep, RecordEvent, ProcessEvent, ProcessSuccess, ProcessFailure,
           ProcessRefused, HandlerDies, MarkProcessed, IInv, TypeOK, SettlementTypeOK
  <2>3. CASE SettlePayment(RowOf(e[2]), e[2])
    BY <1>0, <2>3 DEF SettlePayment, IInv, TypeOK, TablesTypeOK
  <2>4. CASE SettleReplays(RowOf(e[2]), e[2]) /\ UNCHANGED tables
    BY <1>0, <2>4 DEF SettleReplays, BoundToOther, IInv, OneCapturePerOrder, tables, rowTable
  <2> QED
    BY <2>2, <2>3, <2>4 DEF ProcessSuccess, Matches
<1> QED
  BY <1>1, <1>2

\* A success event is marked processed only once its row is captured by it,
\* in whatever order and however often events are delivered.
THEOREM ProcessedEventsAreSettled == Spec => []ProcessedMeansSettled
<1> DEFINE Inv == IInv /\ ProcessedMeansSettled
<1>1. Init => Inv
  BY InvariantInit DEF Init, SettlementInit, ProcessedMeansSettled
<1>2. Inv /\ [Next]_vars => Inv'
  BY KeepsProcessed, InvariantStep
<1>3. Inv => ProcessedMeansSettled
  OBVIOUS
<1> QED
  BY <1>1, <1>2, <1>3, PTL DEF Spec

-----------------------------------------------------------------------------
(***************************************************************************)
(* OrderLifecycle implements OrderPromise: under the mapping of            *)
(* OrderLifecycle the initial states are initial states of the promise,    *)
(* and each of the five kinds of steps is a step of the promise or is      *)
(* invisible to it.                                                        *)
(***************************************************************************)

USE DEF Calls, Rows, Attempts, OrderOf, RowOf, CallOf

\* The payer of an order is the gateway payment of its one captured row.
LEMMA PayerOfCaptured ==
    IInv => \A p \in Rows : rowStatus[p] = "captured" => Payer(p[1]) = providerPayment[p]
<1> SUFFICES ASSUME IInv, NEW p \in Rows, rowStatus[p] = "captured"
             PROVE  Payer(p[1]) = providerPayment[p]
  OBVIOUS
<1> DEFINE q == CHOOSE t \in Rows : OrderOf(t) = p[1] /\ rowStatus[t] = "captured"
<1>1. Captured(p[1])
  BY DEF Captured
<1>2. Payer(p[1]) = providerPayment[q]
  BY <1>1 DEF Payer
<1>3. q \in Rows /\ OrderOf(q) = p[1] /\ rowStatus[q] = "captured"
  <2>1. \E t \in Rows : OrderOf(t) = p[1] /\ rowStatus[t] = "captured"
    OBVIOUS
  <2> QED
    BY <2>1
<1> HIDE DEF q
<1>4. q = p
  BY <1>3 DEF IInv, OneCapturePerOrder
<1> QED
  BY <1>2, <1>4

LEMMA PayerOfCapturedNext ==
    IInv /\ [Next]_vars =>
        \A p \in Rows : rowStatus'[p] = "captured" => Payer(p[1])' = providerPayment'[p]
<1> SUFFICES ASSUME IInv, [Next]_vars
             PROVE  (\A p \in Rows : rowStatus[p] = "captured" => Payer(p[1]) = providerPayment[p])'
  OBVIOUS
<1>1. IInv'
  BY InvariantStep
<1> QED
  BY <1>1, PayerOfCaptured, PTL

\* An order keeps its outcome and payer when its captures and status stay.
LEMMA SameOutcome ==
    ASSUME IInv, [Next]_vars, NEW o \in Orders, Captured(o)' <=> Captured(o)
    PROVE  /\ Payer(o)' = Payer(o)
           /\ Captured(o) \/ orderStatus'[o] = orderStatus[o] => Outcome(o)' = Outcome(o)
<1>0. \A p \in Rows : rowStatus'[p] = "captured" => Payer(p[1])' = providerPayment'[p]
  BY PayerOfCapturedNext
<1>1. CASE Captured(o)
  <2> PICK p \in Rows : p[1] = o /\ rowStatus[p] = "captured"
    BY <1>1 DEF Captured
  <2>1. rowStatus'[p] = "captured" /\ providerPayment'[p] = providerPayment[p]
    BY CapturedRowStays
  <2>2. Payer(o) = providerPayment[p]
    BY PayerOfCaptured
  <2>3. Payer(o)' = providerPayment'[p]
    BY <1>0, <2>1
  <2> QED
    BY <1>1, <2>1, <2>2, <2>3 DEF Outcome
<1>2. CASE ~Captured(o)
  BY <1>2 DEF Payer, Outcome
<1> QED
  BY <1>1, <1>2

LEMMA PromiseInit == Init => Promise!Init
<1> SUFFICES ASSUME Init PROVE Promise!Init
  OBVIOUS
<1>1. \A o \in Orders : ~Captured(o)
  BY DEF Init, TablesInit, Captured
<1>2. \A o \in Orders : Outcome(o) = "none" /\ Payer(o) = NoAttempt
  BY <1>1 DEF Init, TablesInit, Outcome, Payer
<1> QED
  BY <1>2 DEF Promise!Init, Init, TablesInit, EmptyCart

LEMMA PromisePlace ==
    ASSUME IInv, [Next]_vars, NEW o \in Orders, NEW m \in PaymentMethods, CreateOrder(o, m)
    PROVE  Promise!Place(o, cart[o])
<1> USE DEF IInv, TypeOK, TablesTypeOK
<1>0. Placing
  BY DEF Placing
<1>1. \A u \in Orders : Captured(u)' <=> Captured(u)
  BY <1>0, CapturedOrders
<1>2. ~Captured(o)
  BY DEF Captured, CreateOrder, RowsBelongToOrders
<1>3. Outcome(o) = "none" /\ Outcome(o)' = "open"
  BY <1>1, <1>2 DEF Outcome, CreateOrder, InitialOrderStatus
<1>4. \A u \in Orders : u # o => orderStatus'[u] = orderStatus[u]
  BY DEF CreateOrder
<1>5. \A u \in Orders : Payer(u)' = Payer(u) /\ (u # o => Outcome(u)' = Outcome(u))
  BY <1>1, <1>4, SameOutcome
<1>6. \E v \in Variants : cart[o][v] > 0
  BY DEF CreateOrder, EmptyCart
<1>7. [u \in Orders |-> Outcome(u)]' = [[u \in Orders |-> Outcome(u)] EXCEPT ![o] = "open"]
  BY <1>3, <1>5
<1>8. [u \in Orders |-> Payer(u)]' = [u \in Orders |-> Payer(u)]
  BY <1>5
<1> QED
  BY <1>3, <1>6, <1>7, <1>8 DEF Promise!Place, CreateOrder, ReserveInventory, StockSuffices

\* The promise counts as the services do.
LEMMA SameCount == \A S : Promise!Cardinality(S) = Cardinality(S)
BY DEF Promise!Cardinality, Cardinality

LEMMA PromiseRelease ==
    ASSUME IInv, [Next]_vars, NEW batch \in SUBSET Expired, ReleaseExpired(batch)
    PROVE  Promise!PutBack(batch)
<1> USE DEF IInv, TypeOK, TablesTypeOK
<1>1. \A u \in Orders : Captured(u)' <=> Captured(u)
  BY CapturedOrders DEF Releasing
<1>2. batch \subseteq Orders \X Variants /\ \A r \in batch : reservation[r] = "active"
  BY DEF Expired
<1>3. ASSUME NEW r \in batch
      PROVE  Outcome(r[1]) = "open" /\ ~Captured(r[1]) /\ paymentStatus[r[1]] # "paid"
             /\ orderStatus[r[1]] \notin {"absent", "cancelled"}
  <2>1. r \in ActiveReservations(r[1]) /\ r[1] \in Orders
    BY <1>2 DEF ActiveReservations
  <2>2. ~Captured(r[1])
    BY <2>1 DEF CapturedIsClosed
  <2>3. orderStatus[r[1]] # "absent"
    BY <1>2 DEF RowsBelongToOrders
  <2>4. orderStatus[r[1]] # "cancelled"
    BY <2>1, <2>2, <2>3 DEF OpenOrderHoldsStock
  <2>5. paymentStatus[r[1]] # "paid"
    BY <2>1, <2>2 DEF PaidMeansCaptured
  <2> QED
    BY <2>2, <2>3, <2>4, <2>5 DEF Outcome
<1>4. ASSUME NEW o \in Orders
      PROVE  Outcome(o)' = IF (\E r \in batch : r[1] = o) /\ ActiveReservations(o) \subseteq batch
                           THEN "cancelled" ELSE Outcome(o)
  <2>1. o \in Exhausted(batch) <=> (\E r \in batch : r[1] = o) /\ ActiveReservations(o) \subseteq batch
    BY <1>3 DEF Exhausted
  <2>2. CASE o \in Exhausted(batch)
    <3>1. ~Captured(o) /\ orderStatus'[o] = "cancelled"
      BY <1>3, <2>1, <2>2 DEF ReleaseExpired
    <3> QED
      BY <1>1, <2>1, <2>2, <3>1 DEF Outcome
  <2>3. CASE o \notin Exhausted(batch)
    <3>1. orderStatus'[o] = orderStatus[o]
      BY <2>3 DEF ReleaseExpired
    <3> QED
      BY <1>1, <2>1, <2>3, <3>1, SameOutcome
  <2> QED
    BY <2>2, <2>3
<1>5. [o \in Orders |-> Payer(o)]' = [o \in Orders |-> Payer(o)]
  BY <1>1, SameOutcome
<1>6. \A v \in Variants : Promise!UnitsOf(batch, v) = UnitsOf(batch, v)
  BY DEF Promise!UnitsOf, UnitsOf, Promise!Units, Units
<1>7. \A o \in Orders : Promise!Reserved(o) = ActiveReservations(o)
  BY DEF Promise!Reserved, ActiveReservations
<1>8. [o \in Orders |-> Outcome(o)]' =
          [o \in Orders |-> IF (\E r \in batch : r[1] = o) /\ Promise!Reserved(o) \subseteq batch
                            THEN "cancelled" ELSE [u \in Orders |-> Outcome(u)][o]]
  BY <1>4, <1>7
<1>9. \A r \in batch : reservation[r] = "active" /\ [u \in Orders |-> Outcome(u)][r[1]] = "open"
  BY <1>2, <1>3
<1>10. batch # {}
  BY DEF ReleaseExpired
<1>11. stock' = [v \in Variants |-> stock[v] + Promise!Cardinality(Promise!UnitsOf(batch, v))]
  BY <1>6, SameCount DEF ReleaseExpired
<1>12. /\ reservation' = [r \in Orders \X Variants |-> IF r \in batch THEN "expired" ELSE reservation[r]]
       /\ items' = items
  BY DEF ReleaseExpired
<1> QED
  BY <1>5, <1>8, <1>9, <1>10, <1>11, <1>12 DEF Promise!PutBack

LEMMA PromisePay ==
    ASSUME IInv, [Next]_vars, NEW p \in Rows, NEW a \in Attempts, SettlePayment(p, a),
           RowOf(a) = p, rowStatus[p] # "absent"
    PROVE  Promise!Pay(p[1], a)
<1> USE DEF IInv, TypeOK, TablesTypeOK
<1> DEFINE o == p[1]
<1>1. \A u \in Orders : Captured(u)' <=> Captured(u) \/ u = o
  BY CapturedOrders
<1>2. ~Captured(o)
  BY DEF SettlePayment, SettleRefused, AnotherCaptured, Captured
<1>3. Outcome(o) \in {"open", "cancelled"} /\ Outcome(o)' = "paid"
  BY <1>1, <1>2 DEF Outcome, RowsBelongToOrders
<1>4. Payer(o)' = a
  <2>1. rowStatus'[p] = "captured" /\ providerPayment'[p] = a
    BY DEF SettlePayment
  <2>2. \A q \in Rows : rowStatus'[q] = "captured" => Payer(q[1])' = providerPayment'[q]
    BY PayerOfCapturedNext
  <2> QED
    BY <2>1, <2>2
<1>5. \A u \in Orders : u # o => Outcome(u)' = Outcome(u) /\ Payer(u)' = Payer(u)
  BY <1>1, SameOutcome DEF SettlePayment
<1>6. /\ [u \in Orders |-> Outcome(u)]' = [[u \in Orders |-> Outcome(u)] EXCEPT ![o] = "paid"]
      /\ [u \in Orders |-> Payer(u)]' = [[u \in Orders |-> Payer(u)] EXCEPT ![o] = a]
  BY <1>3, <1>4, <1>5
<1>7. Promise!Reserved(o) = ActiveReservations(o)
  BY DEF Promise!Reserved, ActiveReservations
<1> QED
  BY <1>3, <1>6, <1>7 DEF Promise!Pay, SettlePayment, ConsumeReservations

LEMMA PromiseStep == IInv /\ [Next]_vars => [Promise!Next]_Promise!pvars
<1> SUFFICES ASSUME IInv, [Next]_vars PROVE Promise!Next \/ UNCHANGED Promise!pvars
  OBVIOUS
<1>1. CASE Placing
  <2> PICK o \in Orders, m \in PaymentMethods : CreateOrder(o, m)
    BY <1>1 DEF Placing
  <2>1. cart[o] \in [Variants -> 0..MaxQty]
    BY DEF IInv, TypeOK, TablesTypeOK
  <2> QED
    BY <2>1, PromisePlace DEF Promise!Next
<1>2. CASE Releasing
  <2> PICK batch \in SUBSET Expired : ReleaseExpired(batch)
    BY <1>2 DEF Releasing
  <2>1. batch \in SUBSET (Orders \X Variants)
    BY DEF Expired, IInv, TypeOK, TablesTypeOK
  <2> QED
    BY <2>1, PromiseRelease DEF Promise!Next
<1>3. CASE Settling
  <2> PICK p \in Rows, a \in Attempts : SettlePayment(p, a) /\ RowOf(a) = p /\ rowStatus[p] # "absent"
    BY <1>3 DEF Settling
  <2>1. Promise!Pay(p[1], a) /\ p[1] \in Orders
    BY PromisePay
  <2> QED
    BY <2>1 DEF Promise!Next
<1>4. CASE Failing \/ Quiet
  <2>1. \A o \in Orders : Outcome(o)' = Outcome(o) /\ Payer(o)' = Payer(o)
    <3>1. \A o \in Orders : orderStatus'[o] = orderStatus[o]
      BY <1>4 DEF Failing, FailPayment, Quiet, orderTable
    <3> QED
      BY <1>4, <3>1, CapturedOrders, SameOutcome
  <2>2. UNCHANGED <<stock, items, reservation>>
    BY <1>4 DEF Failing, FailPayment, Quiet, orderTable, stockTable
  <2> QED
    BY <2>1, <2>2 DEF Promise!pvars
<1> QED
  BY <1>1, <1>2, <1>3, <1>4, StepCases

\* The services keep the promise, for every number of orders, variants,
\* payment rows, attempts, workers' batches and requests.
THEOREM PromiseIsKept == Spec => KeepsPromise
<1>1. Init => Promise!Init
  BY PromiseInit
<1>2. IInv /\ [Next]_vars => [Promise!Next]_Promise!pvars
  BY PromiseStep
<1> QED
  BY <1>1, <1>2, InvariantHolds, PTL DEF Spec, KeepsPromise, Promise!Spec
=============================================================================
