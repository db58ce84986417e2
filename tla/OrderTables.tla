---------------------------- MODULE OrderTables ----------------------------
(***************************************************************************)
(* The PostgreSQL tables behind a storefront order (orders/models.py) and  *)
(* the vocabulary the order services share.  Every service that touches    *)
(* these rows does so inside one transaction holding their row locks, so   *)
(* one transaction is one step of the modules that extend this one.        *)
(*                                                                         *)
(* Immutable foreign keys live in the identities: payment row <<o, n>> is  *)
(* the n-th Payment created for order o, gateway order <<o, n, c>> is the  *)
(* c-th one Razorpay created for that row, attempt <<o, n, c, k>> is the   *)
(* k-th Razorpay payment a customer made against that gateway order.       *)
(* A reservation is identified by its order and variant <<o, v>>.          *)
(*                                                                         *)
(* Amounts are abstracted: Payment.amount equals the order's grand_total   *)
(* from creation on, and the gateway echoes the amount it was given.       *)
(***************************************************************************)
EXTENDS Integers, FiniteSets

CONSTANTS
    Orders,          \* checkouts, one idempotency key and one cart each
    Variants,        \* ProductVariant rows
    InitialStock,    \* [Variants -> Nat], the stock before any checkout
    MaxQty,          \* most units of a variant in one cart
    PaymentMethods,  \* the payment methods customers choose
    MaxRows,         \* most Payment rows per order
    MaxCalls,        \* most gateway orders per Payment row
    MaxTries,        \* most payment attempts per gateway order
    NoAttempt        \* an empty provider_payment_id

ASSUME OrdersAssumption   == IsFiniteSet(Orders)
ASSUME StockAssumption    == InitialStock \in [Variants -> Nat] /\ MaxQty \in Nat
ASSUME MethodAssumption   == PaymentMethods \subseteq {"online", "terms", "payment_link"}
ASSUME BoundsAssumption   == MaxRows \in Nat \ {0} /\ MaxCalls \in Nat /\ MaxTries \in Nat

Calls    == 1..MaxCalls
Rows     == Orders \X (1..MaxRows)
Attempts == Orders \X (1..MaxRows) \X Calls \X (1..MaxTries)
Units    == Orders \X (1..MaxQty)

ASSUME NoAttemptAssumption == NoAttempt \notin Attempts

OrderOf(x) == x[1]                \* of a row, an attempt or a reservation
RowOf(a)   == <<a[1], a[2]>>      \* the row an attempt is made for
CallOf(a)  == a[3]                \* the gateway order it is made against
EarlierRows(p) == {q \in Rows : q[1] = p[1] /\ q[2] < p[2]}

VARIABLES
    cart,             \* Cart + CartItem: the cart each checkout would consume
    orderStatus,      \* Order.status, "absent" before the row exists
    paymentStatus,    \* Order.payment_status
    paymentMethod,    \* Order.payment_method
    items,            \* OrderItem / InventoryReservation.quantity
    stock,            \* ProductVariant.stock
    reservation,      \* InventoryReservation.status, "none" before the row exists
    lapsed,           \* reservations whose expires_at has passed
    rowStatus,        \* Payment.status, "absent" before the row exists
    providerOrder,    \* Payment.provider_order_id: the c of <<o, n, c>>, 0 if empty
    providerPayment,  \* Payment.provider_payment_id
    lease,            \* Payment.raw_metadata["gateway_order_creation"]
    reconcile         \* Payment.raw_metadata["stock_reconciliation_required"]

orderTable  == <<orderStatus, paymentStatus, paymentMethod, items>>
stockTable  == <<stock, reservation, lapsed>>
rowTable    == <<rowStatus, providerOrder, providerPayment, lease, reconcile>>
tables      == <<cart, orderTable, stockTable, rowTable>>

OrderStatuses       == {"absent", "pending_payment", "confirmed", "cancelled"}
PaymentStatuses     == {"pending", "paid", "failed"}
ReservationStatuses == {"none", "active", "consumed", "expired"}
RowStatuses == {"absent", "created", "pending", "authorized", "captured",
                "failed", "cancelled"}
LeaseStates == {"none", "in_progress", "stale"}

TablesTypeOK ==
    /\ cart \in [Orders -> [Variants -> 0..MaxQty]]
    /\ orderStatus \in [Orders -> OrderStatuses]
    /\ paymentStatus \in [Orders -> PaymentStatuses]
    /\ paymentMethod \in [Orders -> PaymentMethods \cup {"none"}]
    /\ items \in [Orders -> [Variants -> 0..MaxQty]]
    /\ stock \in [Variants -> Nat]
    /\ reservation \in [Orders \X Variants -> ReservationStatuses]
    /\ lapsed \subseteq Orders \X Variants
    /\ rowStatus \in [Rows -> RowStatuses]
    /\ providerOrder \in [Rows -> 0..MaxCalls]
    /\ providerPayment \in [Rows -> Attempts \cup {NoAttempt}]
    /\ lease \in [Rows -> LeaseStates]
    /\ reconcile \in [Rows -> BOOLEAN]

EmptyCart == [v \in Variants |-> 0]

TablesInit ==
    /\ cart \in [Orders -> [Variants -> 0..MaxQty]]
    /\ orderStatus = [o \in Orders |-> "absent"]
    /\ paymentStatus = [o \in Orders |-> "pending"]
    /\ paymentMethod = [o \in Orders |-> "none"]
    /\ items = [o \in Orders |-> EmptyCart]
    /\ stock = InitialStock
    /\ reservation = [r \in Orders \X Variants |-> "none"]
    /\ lapsed = {}
    /\ rowStatus = [p \in Rows |-> "absent"]
    /\ providerOrder = [p \in Rows |-> 0]
    /\ providerPayment = [p \in Rows |-> NoAttempt]
    /\ lease = [p \in Rows |-> "none"]
    /\ reconcile = [p \in Rows |-> FALSE]

\* Payment.provider = "razorpay": every row of an order not on COD or CREDIT.
IsRazorpay(o) == paymentMethod[o] \in {"online", "payment_link"}

RazorpayRows(o) == {p \in Rows : p[1] = o /\ rowStatus[p] # "absent" /\ IsRazorpay(o)}

\* ... .order_by("-created_at").first() over a set of rows of one order
IsLatest(p, S) == p \in S /\ \A q \in S : q[2] <= p[2]

Captured(o) == \E p \in Rows : p[1] = o /\ rowStatus[p] = "captured"

ActiveReservations(o) ==
    {r \in Orders \X Variants : r[1] = o /\ reservation[r] = "active"}

\* The single units of variant v that the reservations in S stand for.
UnitsOf(S, v) == {u \in Units : <<u[1], v>> \in S /\ u[2] <= items[u[1]][v]}
=============================================================================
