------------------------------ MODULE Checkout ------------------------------
(***************************************************************************)
(* create_order_from_customer_cart (orders/services.py): one transaction   *)
(* that turns a locked cart into an order, its reservations and its first  *)
(* payment row, takes the stock, and deletes the cart.                     *)
(*                                                                         *)
(* Pricing, tax, delivery and address snapshots only produce columns that  *)
(* no later step of the lifecycle reads, and the checks on active          *)
(* variants and minimum quantities only refuse a cart: what is kept is     *)
(* the stock check and everything the transaction writes.  A repeat of     *)
(* the same idempotency key returns the existing order and changes no      *)
(* row, so it is a stuttering step here (CartCheckout models who gets that *)
(* answer, and when).                                                      *)
(***************************************************************************)
EXTENDS OrderTables

\* Cash on delivery and credit terms are confirmed without a payment.
InitialOrderStatus(m) == IF m = "terms" THEN "confirmed" ELSE "pending_payment"

InitialRowStatus(m) == IF m = "terms" THEN "pending" ELSE "created"

\* Mutation of StockSuffices: the stock check is missing.
StockUnchecked(q) == DOMAIN q = Variants

StockSuffices(q) == \A v \in Variants : q[v] <= stock[v]

\* _reserve_inventory: an ACTIVE reservation per cart line, and its quantity
\* off the stock in the same transaction.
ReserveInventory(o, q) ==
    /\ reservation' = [r \in Orders \X Variants |->
                          IF r[1] = o /\ q[r[2]] > 0 THEN "active" ELSE reservation[r]]
    /\ stock' = [v \in Variants |-> stock[v] - q[v]]

\* _create_payment_record: the order's first payment row.
CreatePaymentRecord(o, m) ==
    rowStatus' = [rowStatus EXCEPT ![<<o, 1>>] = InitialRowStatus(m)]

CreateOrder(o, m) ==
    /\ orderStatus[o] = "absent"
    /\ cart[o] # EmptyCart
    /\ StockSuffices(cart[o])
    /\ orderStatus' = [orderStatus EXCEPT ![o] = InitialOrderStatus(m)]
    /\ paymentMethod' = [paymentMethod EXCEPT ![o] = m]
    /\ items' = [items EXCEPT ![o] = cart[o]]
    /\ ReserveInventory(o, cart[o])
    /\ CreatePaymentRecord(o, m)
    /\ cart' = [cart EXCEPT ![o] = EmptyCart]
    /\ UNCHANGED <<paymentStatus, lapsed, providerOrder, providerPayment, lease, reconcile>>
=============================================================================
