---------------------------- MODULE CartCheckout ----------------------------
(***************************************************************************)
(* A customer's carts between the cart API (cart/api.py), the login merge  *)
(* (cart/services.py) and checkout (orders/views.py, orders/services.py).  *)
(* A cart request resolves its cart first and locks it in a transaction    *)
(* later; a checkout request reads the cart without a lock to price the    *)
(* delivery, looks for an order with its idempotency key, and only then    *)
(* locks the cart.  Any other request may run between these steps, and a   *)
(* client that got no answer sends its request again with the same key.    *)
(*                                                                         *)
(* Prices, stock and payment are not modelled here (OrderLifecycle has     *)
(* them); a delivery quote is the cart contents it was computed for.       *)
(***************************************************************************)
EXTENDS Integers, FiniteSets, Functions

CONSTANTS
    Variants,
    MaxItemQty,   \* MAX_CART_ITEM_QUANTITY
    AddKeys,      \* idempotency keys of POST /cart/items/
    AddVariant,   \* [AddKeys -> Variants], what each of them adds
    AddQty,       \* [AddKeys -> 1..MaxItemQty]
    CartRequests,      \* concurrent cart requests
    OrderKeys,    \* idempotency keys of checkouts
    Checkouts,    \* concurrent checkout requests
    MaxCarts      \* bound on the carts ever created

ASSUME AddAssumption ==
    /\ AddVariant \in [AddKeys -> Variants]
    /\ AddQty \in [AddKeys -> 1..MaxItemQty]
    /\ MaxCarts \in Nat /\ MaxItemQty \in Nat
    /\ IsFiniteSet(OrderKeys)

CartIds == 1..MaxCarts
NoCart == 0
NotOrdered == [items |-> "none"]
NoRequest == [pc |-> "idle"]

VARIABLES
    nextCart,    \* the next Cart primary key
    current,     \* current["customer"], current["guest"]: the Cart row of each scope
    contents,    \* CartItem.quantity of each cart and variant
    usedKeys,    \* CartItemIdempotencyKey rows of each cart
    applied,     \* how often each key incremented each cart
    reported,    \* units each variant gained by the deltas of the cart events
    orders,      \* the order created under each idempotency key
    cartRequest,      \* the state of each cart request
    checkout     \* the state of each checkout request

cartVars == <<nextCart, current, contents, usedKeys, applied, reported>>
cartCheckoutVars == <<cartVars, orders, cartRequest, checkout>>

CartScopes == {"customer", "guest"}
NoItems == [v \in Variants |-> 0]
Ops == [kind : {"add"}, key : AddKeys] \cup [kind : {"set"}, variant : Variants, qty : 1..MaxItemQty]
         \cup [kind : {"remove"}, variant : Variants]
Quantities == [Variants -> Nat]

CartTypeOK ==
    /\ nextCart \in 1..(MaxCarts + 1)
    /\ current \in [CartScopes -> 0..MaxCarts]
    /\ contents \in [CartIds -> Quantities]
    /\ usedKeys \in [CartIds -> SUBSET AddKeys]
    /\ applied \in [CartIds \X AddKeys -> Nat]
    /\ reported \in [Variants -> Nat]
    /\ orders \in [OrderKeys -> {NotOrdered} \cup [items : Quantities, quote : Quantities]]
    /\ cartRequest \in [CartRequests -> {NoRequest} \cup [pc : {"resolved"}, op : Ops, cart : CartIds]]
    /\ checkout \in [Checkouts ->
           {NoRequest} \cup [pc : {"quoted", "unseen"}, key : OrderKeys, quote : Quantities]
                  \cup [pc : {"answered"}, key : OrderKeys, answer : {"order", "empty_cart"}]]

CartInit ==
    /\ nextCart = 1
    /\ current = [s \in CartScopes |-> NoCart]
    /\ contents = [c \in CartIds |-> NoItems]
    /\ usedKeys = [c \in CartIds |-> {}]
    /\ applied = [ck \in CartIds \X AddKeys |-> 0]
    /\ reported = NoItems
    /\ orders = [k \in OrderKeys |-> NotOrdered]
    /\ cartRequest = [s \in CartRequests |-> NoRequest]
    /\ checkout = [r \in Checkouts |-> NoRequest]

CartExists(c) == \E s \in CartScopes : current[s] = c

(***************************************************************************)
(* Cart API.                                                               *)
(***************************************************************************)
\* _lock_cart finds the row of the cart that was resolved.
Locks(c) == CartExists(c)

\* resolve_cart: get or create the cart of the request's scope, committed at once.
ResolveCart(s, scope, op) ==
    /\ cartRequest[s] = NoRequest
    /\ \/ /\ current[scope] # NoCart
          /\ cartRequest' = [cartRequest EXCEPT ![s] = [pc |-> "resolved", op |-> op, cart |-> current[scope]]]
          /\ UNCHANGED <<nextCart, current>>
       \/ /\ current[scope] = NoCart
          /\ nextCart <= MaxCarts
          /\ current' = [current EXCEPT ![scope] = nextCart]
          /\ nextCart' = nextCart + 1
          /\ cartRequest' = [cartRequest EXCEPT ![s] = [pc |-> "resolved", op |-> op, cart |-> nextCart]]
    /\ UNCHANGED <<contents, usedKeys, applied, reported, orders, checkout>>

Resolved(s, kind) == cartRequest[s] # NoRequest /\ cartRequest[s].op.kind = kind

\* The locked part of a cart request; its answer ends the request.
Answer(s) ==
    /\ cartRequest' = [cartRequest EXCEPT ![s] = NoRequest]
    /\ UNCHANGED <<nextCart, current, orders, checkout>>

\* Mutation of ReplayedAdd: recorded keys are not looked up.
KeyNotLookedUp(c, k) == c \notin CartIds

\* POST: the key was used on this cart, or the item would exceed the maximum:
\* nothing changes.  Otherwise the item grows and the key is recorded.
ReplayedAdd(c, k) == k \in usedKeys[c]

FitsCart(c, k) == contents[c][AddVariant[k]] + AddQty[k] <= MaxItemQty

AddItem(s) ==
    /\ Resolved(s, "add")
    /\ LET c == cartRequest[s].cart
           k == cartRequest[s].op.key IN
        /\ Locks(c)
        /\ ~ReplayedAdd(c, k)
        /\ FitsCart(c, k)
        /\ contents' = [contents EXCEPT ![c][AddVariant[k]] = @ + AddQty[k]]
        /\ usedKeys' = [usedKeys EXCEPT ![c] = @ \cup {k}]
        /\ applied' = [applied EXCEPT ![<<c, k>>] = @ + 1]
        /\ reported' = [reported EXCEPT ![AddVariant[k]] = @ + AddQty[k]]
    /\ Answer(s)

AddChangesNothing(s) ==
    /\ Resolved(s, "add")
    /\ LET c == cartRequest[s].cart
           k == cartRequest[s].op.key IN Locks(c) /\ (ReplayedAdd(c, k) \/ ~FitsCart(c, k))
    /\ UNCHANGED <<contents, usedKeys, applied, reported>>
    /\ Answer(s)

\* PATCH: the item of this cart gets the requested quantity.  (An item is named
\* by its variant, which is unique within a cart.)
SetQuantity(s) ==
    /\ Resolved(s, "set")
    /\ LET c == cartRequest[s].cart
           v == cartRequest[s].op.variant
           q == cartRequest[s].op.qty IN
        /\ Locks(c)
        /\ contents[c][v] > 0
        /\ contents' = [contents EXCEPT ![c][v] = q]
        /\ reported' = [reported EXCEPT ![v] = @ + q - contents[c][v]]
    /\ UNCHANGED <<usedKeys, applied>>
    /\ Answer(s)

\* DELETE: the item goes.
RemoveItem(s) ==
    /\ Resolved(s, "remove")
    /\ LET c == cartRequest[s].cart
           v == cartRequest[s].op.variant IN
        /\ Locks(c)
        /\ contents[c][v] > 0
        /\ contents' = [contents EXCEPT ![c][v] = 0]
        /\ reported' = [reported EXCEPT ![v] = @ - contents[c][v]]
    /\ UNCHANGED <<usedKeys, applied>>
    /\ Answer(s)

\* The cart was deleted since it was resolved (_lock_cart raises), or the
\* item is gone (404).
CartRequestFails(s) ==
    /\ cartRequest[s] # NoRequest
    /\ \/ ~Locks(cartRequest[s].cart)
       \/ cartRequest[s].op.kind # "add" /\ contents[cartRequest[s].cart][cartRequest[s].op.variant] = 0
    /\ UNCHANGED <<contents, usedKeys, applied, reported>>
    /\ Answer(s)

(***************************************************************************)
(* merge_guest_cart_into_customer, at login: quantities of the same        *)
(* variant are summed, the guest cart and its keys are deleted.            *)
(***************************************************************************)
\* Mutation of MergedContents: the guest's quantity replaces the customer's.
GuestQuantityWins(g, c) ==
    [v \in Variants |-> IF contents[g][v] > 0 THEN contents[g][v] ELSE contents[c][v]]

MergedContents(g, c) == [v \in Variants |-> contents[c][v] + contents[g][v]]

MergeGuestCart ==
    /\ current["guest"] # NoCart
    /\ LET g == current["guest"]
           c == IF current["customer"] = NoCart THEN nextCart ELSE current["customer"] IN
        /\ c <= MaxCarts
        /\ nextCart' = IF c = nextCart THEN nextCart + 1 ELSE nextCart
        /\ contents' = [contents EXCEPT ![c] = MergedContents(g, c), ![g] = NoItems]
        /\ usedKeys' = [usedKeys EXCEPT ![g] = {}]
        /\ current' = [customer |-> c, guest |-> NoCart]
    /\ UNCHANGED <<applied, reported, orders, cartRequest, checkout>>

(***************************************************************************)
(* POST /orders/                                                           *)
(***************************************************************************)
\* The view reads the cart without a lock; an empty one is refused here.
QuoteDelivery(r, k) ==
    /\ checkout[r] = NoRequest
    /\ LET c == current["customer"] IN
        checkout' = [checkout EXCEPT ![r] =
            IF c = NoCart \/ (c # NoCart /\ contents[c] = NoItems)
            THEN [pc |-> "answered", key |-> k, answer |-> "empty_cart"]
            ELSE [pc |-> "quoted", key |-> k, quote |-> contents[c]]]
    /\ UNCHANGED <<cartVars, orders, cartRequest>>

AnswerCheckout(r, a) ==
    checkout' = [checkout EXCEPT ![r] = [pc |-> "answered", key |-> checkout[r].key, answer |-> a]]

\* create_order_from_customer_cart looks for an order with the key ...
FindReplay(r) ==
    /\ checkout[r].pc = "quoted"
    /\ IF orders[checkout[r].key] # NotOrdered
       THEN AnswerCheckout(r, "order")
       ELSE checkout' = [checkout EXCEPT ![r].pc = "unseen"]
    /\ UNCHANGED <<cartVars, orders, cartRequest>>

\* ... then locks the cart (another checkout may have taken it meanwhile) ...
CartTaken(r) ==
    /\ checkout[r].pc = "unseen"
    /\ \/ current["customer"] = NoCart
       \/ current["customer"] # NoCart /\ contents[current["customer"]] = NoItems
    /\ AnswerCheckout(r, "empty_cart")
    /\ UNCHANGED <<cartVars, orders, cartRequest>>

\* Mutation of TakeCart: the cart survives its order.
LeaveCart(c) == UNCHANGED <<contents, usedKeys, current>>

KeyIsFree(k) == orders[k] = NotOrdered

\* ... writes the order and deletes the cart ...
TakeCart(c) ==
    /\ contents' = [contents EXCEPT ![c] = NoItems]
    /\ usedKeys' = [usedKeys EXCEPT ![c] = {}]
    /\ current' = [current EXCEPT !["customer"] = NoCart]

PlaceOrder(r) ==
    /\ checkout[r].pc = "unseen"
    /\ LET c == current["customer"]
           k == checkout[r].key IN
        /\ c # NoCart /\ contents[c] # NoItems
        /\ KeyIsFree(k)
        /\ orders' = [orders EXCEPT ![k] = [items |-> contents[c], quote |-> checkout[r].quote]]
        /\ TakeCart(c)
    /\ AnswerCheckout(r, "order")
    /\ UNCHANGED <<nextCart, applied, reported, cartRequest>>

\* ... unless the unique key exists by now: create_order_safely answers with
\* the order that has it, and the cart stays.
LoseKeyRace(r) ==
    /\ checkout[r].pc = "unseen"
    /\ LET c == current["customer"] IN c # NoCart /\ contents[c] # NoItems
    /\ ~KeyIsFree(checkout[r].key)
    /\ AnswerCheckout(r, "order")
    /\ UNCHANGED <<cartVars, orders, cartRequest>>

\* The client receives the answer, or the connection or the worker dies first.
CheckoutEnds(r) ==
    /\ checkout[r] # NoRequest
    /\ checkout' = [checkout EXCEPT ![r] = NoRequest]
    /\ UNCHANGED <<cartVars, orders, cartRequest>>

CartNext ==
    \/ \E s \in CartRequests :
        \/ \E scope \in CartScopes, op \in Ops : ResolveCart(s, scope, op)
        \/ AddItem(s) \/ AddChangesNothing(s) \/ SetQuantity(s) \/ RemoveItem(s)
        \/ CartRequestFails(s)
    \/ MergeGuestCart
    \/ \E r \in Checkouts :
        \/ \E k \in OrderKeys : QuoteDelivery(r, k)
        \/ FindReplay(r) \/ CartTaken(r) \/ PlaceOrder(r) \/ LoseKeyRace(r)
        \/ CheckoutEnds(r)

CartSpec == CartInit /\ [][CartNext]_cartCheckoutVars

-----------------------------------------------------------------------------
InCart(scope, v) == IF current[scope] = NoCart THEN 0 ELSE contents[current[scope]][v]

Ordered(v) ==
    SumFunctionOnSet([k \in OrderKeys |-> IF orders[k] = NotOrdered THEN 0 ELSE orders[k].items[v]],
                     OrderKeys)

DeletedCartsHoldNothing == \A c \in CartIds : ~CartExists(c) => contents[c] = NoItems /\ usedKeys[c] = {}

\* Whatever adds, changes, merges and checkouts overlap, every unit the cart
\* events report is in exactly one place: a cart of the customer or one order.
\* Nothing is ordered twice and nothing vanishes between two carts, nor stays
\* behind in one that checkout or a merge has deleted.
UnitsAccounted ==
    /\ \A v \in Variants :
          reported[v] = InCart("customer", v) + InCart("guest", v) + Ordered(v)
    /\ DeletedCartsHoldNothing

\* "The same Idempotency-Key for the same cart and same request will not
\* increment the cart item twice", also when the two requests overlap.
KeyIncrementsOnce == \A ck \in CartIds \X AddKeys : applied[ck] <= 1

(***************************************************************************)
(* What the repository says, and the code lets happen otherwise.           *)
(***************************************************************************)
\* "Retry-safe entry point ... We then fetch the canonical order and return
\* it": a checkout that is answered after its key has an order gets the order.
RetryGetsTheOrder ==
    [][\A r \in Checkouts :
          checkout[r].pc = "unseen" /\ checkout'[r].pc = "answered" /\ orders[checkout[r].key] # NotOrdered
              => checkout'[r].answer = "order"]_cartCheckoutVars

\* "Delivery quote is server-generated and revalidated": the delivery of an
\* order was quoted for the items it contains.
QuotedForItsItems ==
    \A k \in OrderKeys : orders[k] # NotOrdered => orders[k].quote = orders[k].items
=============================================================================
