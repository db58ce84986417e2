------------------------ MODULE CartCheckout_proofs ------------------------
(***************************************************************************)
(* Proofs about CartCheckout for any variants, keys, requests and number   *)
(* of carts.  A key is looked up among the keys of the cart it is sent to, *)
(* and these go with the cart; so that it increments a cart at most once   *)
(* depends on carts being numbered afresh and never shared by two scopes:  *)
(* a cart that is gone does not come back under a request that found it.   *)
(* Units stay accounted for because each step moves them between the carts *)
(* and the orders, or in or out with an event.  SetLemmas says what the sum *)
(* over the orders becomes when one of them changes.                       *)
(***************************************************************************)
EXTENDS CartCheckout, SetLemmas

CartTypes ==
    /\ nextCart \in 1..(MaxCarts + 1)
    /\ current \in [CartScopes -> 0..MaxCarts]
    /\ contents \in [CartIds -> Quantities]
    /\ usedKeys \in [CartIds -> SUBSET AddKeys]
    /\ applied \in [CartIds \X AddKeys -> Nat]
    /\ cartRequest \in [CartRequests -> {NoRequest} \cup [pc : {"resolved"}, op : Ops, cart : CartIds]]

\* The carts in use have been numbered, each for one scope.
CartsAreApart ==
    /\ \A s \in CartScopes : current[s] < nextCart
    /\ current["customer"] = current["guest"] => current["customer"] = NoCart

\* A cart that exists knows the keys that were applied to it, and nothing was
\* applied to a cart that has yet to be numbered.
KeysAreKnown ==
    \A c \in CartIds, k \in AddKeys : applied[<<c, k>>] # 0 =>
        c < nextCart /\ (CartExists(c) => k \in usedKeys[c])

CartInv ==
    CartTypes /\ CartsAreApart /\ KeysAreKnown /\ DeletedCartsHoldNothing /\ KeyIncrementsOnce

-----------------------------------------------------------------------------
LEMMA NoItemsTyped == NoItems \in Quantities
BY DEF NoItems, Quantities

LEMMA CartInvInit == CartInit => CartInv
<1> SUFFICES ASSUME CartInit PROVE CartInv
  OBVIOUS
<1>1. CartTypes
  BY AddAssumption, NoItemsTyped DEF CartInit, CartTypes, NoCart
<1>2. CartsAreApart
  BY DEF CartInit, CartsAreApart, NoCart, CartScopes
<1>3. KeysAreKnown /\ DeletedCartsHoldNothing /\ KeyIncrementsOnce
  BY DEF CartInit, KeysAreKnown, DeletedCartsHoldNothing, KeyIncrementsOnce
<1> QED
  BY <1>1, <1>2, <1>3 DEF CartInv

\* A request in progress carries an operation on a cart.
LEMMA Carries ==
    ASSUME CartTypes, NEW s \in CartRequests, cartRequest[s] # NoRequest
    PROVE  /\ cartRequest[s].cart \in CartIds
           /\ cartRequest[s].op.kind = "add" => cartRequest[s].op.key \in AddKeys
           /\ cartRequest[s].op.kind = "set" =>
                 cartRequest[s].op.variant \in Variants /\ cartRequest[s].op.qty \in 1..MaxItemQty
           /\ cartRequest[s].op.kind = "remove" => cartRequest[s].op.variant \in Variants
<1>1. cartRequest[s] \in [pc : {"resolved"}, op : Ops, cart : CartIds]
  BY DEF CartTypes
<1>2. cartRequest[s].cart \in CartIds /\ cartRequest[s].op \in Ops
  BY <1>1
<1> QED
  BY <1>2 DEF Ops

-----------------------------------------------------------------------------
(***************************************************************************)
(* The cart API.                                                           *)
(***************************************************************************)
LEMMA Resolves ==
    ASSUME CartInv, NEW s \in CartRequests, NEW scope \in CartScopes, NEW op \in Ops, ResolveCart(s, scope, op)
    PROVE  CartInv'
<1>0. /\ nextCart \in 1..(MaxCarts + 1) /\ MaxCarts \in Nat
      /\ current \in [CartScopes -> 0..MaxCarts]
      /\ cartRequest \in [CartRequests -> {NoRequest} \cup [pc : {"resolved"}, op : Ops, cart : CartIds]]
      /\ UNCHANGED <<contents, usedKeys, applied>>
  BY AddAssumption DEF CartInv, CartTypes, ResolveCart
<1>1. CASE current[scope] # NoCart /\ UNCHANGED <<nextCart, current>>
           /\ cartRequest' = [cartRequest EXCEPT ![s] = [pc |-> "resolved", op |-> op, cart |-> current[scope]]]
  <2>1. current[scope] \in CartIds
    BY <1>0, <1>1 DEF NoCart, CartIds
  <2>2. CartTypes'
    BY <1>0, <1>1, <2>1 DEF CartInv, CartTypes
  <2> QED
    BY <1>0, <1>1, <2>2 DEF CartInv, CartsAreApart, KeysAreKnown, DeletedCartsHoldNothing,
       KeyIncrementsOnce, CartExists
<1>2. CASE /\ current[scope] = NoCart /\ nextCart <= MaxCarts
           /\ current' = [current EXCEPT ![scope] = nextCart] /\ nextCart' = nextCart + 1
           /\ cartRequest' = [cartRequest EXCEPT ![s] = [pc |-> "resolved", op |-> op, cart |-> nextCart]]
  <2>1. nextCart \in CartIds /\ nextCart' \in 1..(MaxCarts + 1)
    BY <1>0, <1>2 DEF CartIds
  <2>2. current' \in [CartScopes -> 0..MaxCarts] /\ current'[scope] = nextCart
        /\ \A t \in CartScopes : t # scope => current'[t] = current[t]
    BY <1>0, <1>2
  <2>3. CartTypes'
    BY <1>0, <1>2, <2>1, <2>2 DEF CartInv, CartTypes
  <2>4. CartsAreApart'
    BY <1>0, <1>2, <2>2 DEF CartInv, CartsAreApart, CartScopes, NoCart
  <2>5. \A c \in CartIds : CartExists(c)' <=> c = nextCart \/ CartExists(c)
    BY <1>0, <1>2, <2>2 DEF CartExists, NoCart, CartIds
  <2>6. KeysAreKnown'
    BY <1>0, <1>2, <2>1, <2>5 DEF CartInv, KeysAreKnown, CartIds
  <2>7. DeletedCartsHoldNothing' /\ KeyIncrementsOnce'
    BY <1>0, <2>5 DEF CartInv, DeletedCartsHoldNothing, KeyIncrementsOnce
  <2> QED
    BY <2>3, <2>4, <2>6, <2>7 DEF CartInv
<1> QED
  BY <1>1, <1>2 DEF ResolveCart

\* The contents of a cart that exists change, and none of its keys.
LEMMA ContentsChange ==
    ASSUME CartInv, NEW s \in CartRequests, NEW c \in CartIds, CartExists(c), NEW items \in Quantities,
           contents' = [contents EXCEPT ![c] = items], UNCHANGED <<usedKeys, applied>>, Answer(s)
    PROVE  CartInv'
<1>0. UNCHANGED <<nextCart, current>> /\ cartRequest' = [cartRequest EXCEPT ![s] = NoRequest]
  BY DEF Answer
<1>1. CartTypes'
  BY <1>0 DEF CartInv, CartTypes
<1>2. CartsAreApart' /\ KeysAreKnown' /\ KeyIncrementsOnce'
  BY <1>0 DEF CartInv, CartsAreApart, KeysAreKnown, KeyIncrementsOnce, CartExists
<1>3. DeletedCartsHoldNothing'
  BY <1>0 DEF CartInv, CartTypes, DeletedCartsHoldNothing, CartExists
<1> QED
  BY <1>1, <1>2, <1>3 DEF CartInv

LEMMA Adds == ASSUME CartInv, NEW s \in CartRequests, AddItem(s) PROVE CartInv'
<1>1. PICK c \in CartIds, k \in AddKeys : c = cartRequest[s].cart /\ k = cartRequest[s].op.key
  BY Carries DEF CartInv, AddItem, Resolved
<1>2. /\ CartExists(c) /\ k \notin usedKeys[c]
      /\ contents' = [contents EXCEPT ![c][AddVariant[k]] = @ + AddQty[k]]
      /\ usedKeys' = [usedKeys EXCEPT ![c] = @ \cup {k}]
      /\ applied' = [applied EXCEPT ![<<c, k>>] = @ + 1]
      /\ UNCHANGED <<nextCart, current>> /\ cartRequest' = [cartRequest EXCEPT ![s] = NoRequest]
  BY <1>1 DEF AddItem, Answer, Locks, ReplayedAdd
<1>3. applied[<<c, k>>] = 0
  BY <1>2 DEF CartInv, KeysAreKnown
<1>4. /\ applied' \in [CartIds \X AddKeys -> Nat] /\ applied'[<<c, k>>] = 1
      /\ \A d \in CartIds, j \in AddKeys : <<d, j>> # <<c, k>> => applied'[<<d, j>>] = applied[<<d, j>>]
  BY <1>2, <1>3 DEF CartInv, CartTypes
<1>5. usedKeys' \in [CartIds -> SUBSET AddKeys] /\ usedKeys'[c] = usedKeys[c] \cup {k}
      /\ \A d \in CartIds : d # c => usedKeys'[d] = usedKeys[d]
  BY <1>2 DEF CartInv, CartTypes
<1>6. contents' \in [CartIds -> Quantities] /\ \A d \in CartIds : d # c => contents'[d] = contents[d]
  <2> DEFINE items == [contents[c] EXCEPT ![AddVariant[k]] = @ + AddQty[k]]
  <2>1. AddVariant[k] \in Variants /\ AddQty[k] \in Nat /\ contents[c] \in [Variants -> Nat]
    BY AddAssumption DEF CartInv, CartTypes, Quantities
  <2>2. items \in Quantities
    BY <2>1 DEF Quantities
  <2>3. contents' = [contents EXCEPT ![c] = items]
    BY <1>2
  <2> HIDE DEF items
  <2> QED
    BY <2>2, <2>3 DEF CartInv, CartTypes
<1>7. CartTypes'
  BY <1>2, <1>4, <1>5, <1>6 DEF CartInv, CartTypes
<1>8. CartsAreApart' /\ DeletedCartsHoldNothing'
  BY <1>2, <1>5, <1>6 DEF CartInv, CartsAreApart, DeletedCartsHoldNothing, CartExists
<1>9. KeysAreKnown'
  <2>1. c < nextCart
    BY <1>2 DEF CartInv, CartsAreApart, CartExists
  <2> QED
    BY <1>2, <1>4, <1>5, <2>1 DEF CartInv, KeysAreKnown, CartExists
<1>10. KeyIncrementsOnce'
  BY <1>4 DEF CartInv, KeyIncrementsOnce
<1> QED
  BY <1>7, <1>8, <1>9, <1>10 DEF CartInv

LEMMA Sets == ASSUME CartInv, NEW s \in CartRequests, SetQuantity(s) PROVE CartInv'
<1>1. PICK c \in CartIds, v \in Variants, q \in 1..MaxItemQty :
          c = cartRequest[s].cart /\ v = cartRequest[s].op.variant /\ q = cartRequest[s].op.qty
  BY Carries DEF CartInv, SetQuantity, Resolved
<1> DEFINE items == [contents[c] EXCEPT ![v] = q]
<1>2. items \in Quantities
  BY DEF CartInv, CartTypes, Quantities
<1>3. /\ CartExists(c) /\ contents' = [contents EXCEPT ![c] = items]
      /\ UNCHANGED <<usedKeys, applied>> /\ Answer(s)
  BY <1>1 DEF SetQuantity, Locks
<1> HIDE DEF items
<1> QED
  BY <1>2, <1>3, ContentsChange

LEMMA Removes == ASSUME CartInv, NEW s \in CartRequests, RemoveItem(s) PROVE CartInv'
<1>1. PICK c \in CartIds, v \in Variants : c = cartRequest[s].cart /\ v = cartRequest[s].op.variant
  BY Carries DEF CartInv, RemoveItem, Resolved
<1> DEFINE items == [contents[c] EXCEPT ![v] = 0]
<1>2. items \in Quantities
  BY DEF CartInv, CartTypes, Quantities
<1>3. /\ CartExists(c) /\ contents' = [contents EXCEPT ![c] = items]
      /\ UNCHANGED <<usedKeys, applied>> /\ Answer(s)
  BY <1>1 DEF RemoveItem, Locks
<1> HIDE DEF items
<1> QED
  BY <1>2, <1>3, ContentsChange

\* Nothing but requests and orders changes.
LEMMA CartsRest ==
    ASSUME CartInv, UNCHANGED <<nextCart, current, contents, usedKeys, applied>>,
           cartRequest' \in [CartRequests -> {NoRequest} \cup [pc : {"resolved"}, op : Ops, cart : CartIds]]
    PROVE  CartInv'
BY DEF CartInv, CartTypes, CartsAreApart, KeysAreKnown, DeletedCartsHoldNothing,
       KeyIncrementsOnce, CartExists

-----------------------------------------------------------------------------
(***************************************************************************)
(* The login merge and the checkout.                                       *)
(***************************************************************************)
LEMMA Merges == ASSUME CartInv, MergeGuestCart PROVE CartInv'
<1> DEFINE g == current["guest"]
           c == IF current["customer"] = NoCart THEN nextCart ELSE current["customer"]
<1>0. /\ nextCart \in 1..(MaxCarts + 1) /\ MaxCarts \in Nat
      /\ current["guest"] \in 0..MaxCarts /\ current["customer"] \in 0..MaxCarts
      /\ current["guest"] < nextCart /\ current["customer"] < nextCart
      /\ contents \in [CartIds -> Quantities] /\ usedKeys \in [CartIds -> SUBSET AddKeys]
  BY AddAssumption DEF CartInv, CartTypes, CartsAreApart, CartScopes
<1>1. /\ g # NoCart /\ c <= MaxCarts
      /\ nextCart' = (IF c = nextCart THEN nextCart + 1 ELSE nextCart)
      /\ contents' = [contents EXCEPT ![c] = MergedContents(g, c), ![g] = NoItems]
      /\ usedKeys' = [usedKeys EXCEPT ![g] = {}]
      /\ current' = [customer |-> c, guest |-> NoCart]
      /\ UNCHANGED <<applied, cartRequest>>
  BY DEF MergeGuestCart
<1>2. g \in CartIds /\ c \in CartIds /\ c # g /\ c < nextCart'
      /\ nextCart' \in 1..(MaxCarts + 1) /\ nextCart <= nextCart'
  <2>1. g \in CartIds
    BY <1>0, <1>1 DEF CartIds, NoCart
  <2>2. CASE current["customer"] = NoCart
    <3>1. c = nextCart
      BY <2>2
    <3> QED
      BY <1>0, <1>1, <2>1, <3>1 DEF CartIds
  <2>3. CASE current["customer"] # NoCart
    <3>1. c = current["customer"] /\ c # g
      BY <2>3 DEF CartInv, CartsAreApart
    <3> QED
      BY <1>0, <1>1, <2>1, <2>3, <3>1 DEF CartIds, NoCart
  <2> QED
    BY <2>2, <2>3
<1>3. current["customer"] = NoCart \/ current["customer"] = c
  OBVIOUS
<1> HIDE DEF g, c
<1>4. MergedContents(g, c) \in Quantities
  <2>1. contents[c] \in [Variants -> Nat] /\ contents[g] \in [Variants -> Nat]
    BY <1>0, <1>2 DEF Quantities
  <2> QED
    BY <2>1 DEF MergedContents, Quantities
<1>5. /\ contents' \in [CartIds -> Quantities] /\ contents'[g] = NoItems
      /\ \A d \in CartIds : d # c /\ d # g => contents'[d] = contents[d]
  BY <1>0, <1>1, <1>2, <1>4, NoItemsTyped
<1>6. /\ usedKeys' \in [CartIds -> SUBSET AddKeys] /\ usedKeys'[g] = {}
      /\ \A d \in CartIds : d # g => usedKeys'[d] = usedKeys[d]
  BY <1>0, <1>1, <1>2
<1>7. \A d \in CartIds : CartExists(d)' <=> d = c
  BY <1>1, <1>2 DEF CartExists, CartScopes, CartIds, NoCart
<1>8. \A d \in CartIds : d # g /\ d # c => ~CartExists(d)
  BY <1>2, <1>3 DEF CartExists, CartScopes, g, NoCart, CartIds
<1>9. CartTypes'
  <2>1. current' \in [CartScopes -> 0..MaxCarts]
    BY <1>0, <1>1, <1>2 DEF CartScopes, NoCart, CartIds
  <2> QED
    BY <1>1, <1>2, <1>5, <1>6, <2>1 DEF CartInv, CartTypes
<1>10. CartsAreApart'
  BY <1>0, <1>1, <1>2 DEF CartsAreApart, CartScopes, NoCart, CartIds
<1>11. KeysAreKnown'
  <2> SUFFICES ASSUME NEW d \in CartIds, NEW k \in AddKeys, applied[<<d, k>>] # 0
               PROVE  d < nextCart' /\ (CartExists(d)' => k \in usedKeys'[d])
    BY <1>1 DEF KeysAreKnown
  <2>1. d < nextCart /\ (CartExists(d) => k \in usedKeys[d])
    BY DEF CartInv, KeysAreKnown
  <2>2. d < nextCart'
    BY <1>0, <1>2, <2>1 DEF CartIds
  <2>3. ASSUME CartExists(d)' PROVE k \in usedKeys'[d]
    <3>1. d = c /\ d # g
      BY <1>2, <1>7, <2>3
    <3>2. CartExists(d)
      <4>1. c # nextCart
        BY <1>0, <2>1, <3>1 DEF CartIds
      <4> QED
        BY <3>1, <4>1 DEF c, CartExists, CartScopes
    <3> QED
      BY <1>6, <2>1, <3>1, <3>2
  <2> QED
    BY <2>2, <2>3
<1>12. DeletedCartsHoldNothing'
  BY <1>5, <1>6, <1>7, <1>8 DEF CartInv, DeletedCartsHoldNothing, NoItems
<1>13. KeyIncrementsOnce'
  BY <1>1 DEF CartInv, KeyIncrementsOnce
<1> QED
  BY <1>9, <1>10, <1>11, <1>12, <1>13 DEF CartInv

LEMMA Takes == ASSUME CartInv, NEW r \in Checkouts, PlaceOrder(r) PROVE CartInv'
<1> DEFINE c == current["customer"]
<1>0. /\ current \in [CartScopes -> 0..MaxCarts] /\ c \in CartIds /\ c # current["guest"]
      /\ nextCart \in 1..(MaxCarts + 1) /\ MaxCarts \in Nat
  <2>1. current \in [CartScopes -> 0..MaxCarts] /\ MaxCarts \in Nat /\ nextCart \in 1..(MaxCarts + 1)
    BY AddAssumption DEF CartInv, CartTypes
  <2>2. c # NoCart
    BY DEF PlaceOrder
  <2> QED
    BY <2>1, <2>2 DEF CartScopes, CartIds, NoCart, CartInv, CartsAreApart
<1>1. /\ contents' = [contents EXCEPT ![c] = NoItems] /\ usedKeys' = [usedKeys EXCEPT ![c] = {}]
      /\ current' = [current EXCEPT !["customer"] = NoCart]
      /\ UNCHANGED <<nextCart, applied, cartRequest>>
  BY DEF PlaceOrder, TakeCart
<1>2. current'["customer"] = NoCart /\ current'["guest"] = current["guest"]
      /\ current' \in [CartScopes -> 0..MaxCarts]
  BY <1>0, <1>1 DEF CartScopes, NoCart
<1>3. \A d \in CartIds : CartExists(d)' <=> CartExists(d) /\ d # c
  BY <1>0, <1>2 DEF CartExists, CartScopes, NoCart, CartIds
<1> HIDE DEF c
<1>4. CartTypes'
  BY <1>0, <1>1, <1>2, NoItemsTyped DEF CartInv, CartTypes
<1>5. CartsAreApart'
  BY <1>0, <1>1, <1>2 DEF CartInv, CartsAreApart, CartScopes, NoCart
<1>6. KeysAreKnown' /\ DeletedCartsHoldNothing' /\ KeyIncrementsOnce'
  BY <1>0, <1>1, <1>3 DEF CartInv, CartTypes, KeysAreKnown, DeletedCartsHoldNothing,
     KeyIncrementsOnce, NoItems
<1> QED
  BY <1>4, <1>5, <1>6 DEF CartInv

LEMMA CartStep == CartInv /\ [CartNext]_cartCheckoutVars => CartInv'
<1> SUFFICES ASSUME CartInv, [CartNext]_cartCheckoutVars PROVE CartInv'
  OBVIOUS
<1>0. cartRequest \in [CartRequests -> {NoRequest} \cup [pc : {"resolved"}, op : Ops, cart : CartIds]]
  BY DEF CartInv, CartTypes
<1>1. ASSUME NEW s \in CartRequests, NEW scope \in CartScopes, NEW op \in Ops, ResolveCart(s, scope, op)
      PROVE  CartInv'
  BY <1>1, Resolves
<1>2. ASSUME NEW s \in CartRequests, AddItem(s) \/ SetQuantity(s) \/ RemoveItem(s) PROVE CartInv'
  BY <1>2, Adds, Sets, Removes
<1>3. ASSUME NEW s \in CartRequests, AddChangesNothing(s) \/ CartRequestFails(s) PROVE CartInv'
  BY <1>0, <1>3, CartsRest DEF AddChangesNothing, CartRequestFails, Answer
<1>4. CASE MergeGuestCart
  BY <1>4, Merges
<1>5. ASSUME NEW r \in Checkouts, PlaceOrder(r) PROVE CartInv'
  BY <1>5, Takes
<1>6. ASSUME NEW r \in Checkouts,
             \/ \E k \in OrderKeys : QuoteDelivery(r, k)
             \/ FindReplay(r) \/ CartTaken(r) \/ LoseKeyRace(r) \/ CheckoutEnds(r)
      PROVE  CartInv'
  <2>1. UNCHANGED <<nextCart, current, contents, usedKeys, applied, cartRequest>>
    BY <1>6 DEF QuoteDelivery, FindReplay, CartTaken, LoseKeyRace, CheckoutEnds, cartVars
  <2> QED
    BY <1>0, <2>1, CartsRest
<1>7. CASE UNCHANGED cartCheckoutVars
  <2>1. UNCHANGED <<nextCart, current, contents, usedKeys, applied, cartRequest>>
    BY <1>7 DEF cartCheckoutVars, cartVars
  <2> QED
    BY <1>0, <2>1, CartsRest
<1> QED
  BY <1>1, <1>2, <1>3, <1>4, <1>5, <1>6, <1>7 DEF CartNext

-----------------------------------------------------------------------------
LEMMA CartInvariant == CartSpec => []CartInv
BY CartInvInit, CartStep, PTL DEF CartSpec

\* "The same Idempotency-Key for the same cart and same request will not
\* increment the cart item twice" (cart/api.py), whatever adds, merges and
\* checkouts overlap the two requests.
THEOREM AddIsIdempotent == CartSpec => []KeyIncrementsOnce
<1>1. CartInv => KeyIncrementsOnce
  BY DEF CartInv
<1> QED
  BY <1>1, CartInvariant, PTL

\* Nothing is ever put into a cart that a checkout or a login merge has deleted.
THEOREM DeletedCartsStayEmpty == CartSpec => []DeletedCartsHoldNothing
<1>1. CartInv => DeletedCartsHoldNothing
  BY DEF CartInv
<1> QED
  BY <1>1, CartInvariant, PTL

-----------------------------------------------------------------------------
(***************************************************************************)
(* Where the units are.  The events add up to what the two carts and the   *)
(* orders hold; the sum over the orders grows by what the cart holds that  *)
(* an order takes, since its key had no order.                             *)
(***************************************************************************)
OrderTypes ==
    /\ orders \in [OrderKeys -> {NotOrdered} \cup [items : Quantities, quote : Quantities]]
    /\ checkout \in [Checkouts ->
           {NoRequest} \cup [pc : {"quoted", "unseen"}, key : OrderKeys, quote : Quantities]
                  \cup [pc : {"answered"}, key : OrderKeys, answer : {"order", "empty_cart"}]]

EachUnitHasAPlace ==
    /\ reported \in [Variants -> Int]
    /\ \A v \in Variants :
          reported[v] = InCart("customer", v) + InCart("guest", v) + Ordered(v)

UnitsInv == CartInv /\ OrderTypes /\ EachUnitHasAPlace

LEMMA CountsAreNatural ==
    ASSUME CartInv, OrderTypes, NEW v \in Variants
    PROVE  /\ \A scope \in CartScopes : InCart(scope, v) \in Nat
           /\ Ordered(v) \in Nat
<1>1. ASSUME NEW scope \in CartScopes PROVE InCart(scope, v) \in Nat
  <2>1. current[scope] \in 0..MaxCarts /\ contents \in [CartIds -> Quantities] /\ MaxCarts \in Nat
    BY AddAssumption DEF CartInv, CartTypes
  <2>2. current[scope] # NoCart => current[scope] \in CartIds
    BY <2>1 DEF CartIds, NoCart
  <2> QED
    BY <2>1, <2>2 DEF InCart, Quantities
<1>2. Ordered(v) \in Nat
  <2> DEFINE f == [k \in OrderKeys |-> IF orders[k] = NotOrdered THEN 0 ELSE orders[k].items[v]]
  <2>1. \A k \in OrderKeys : f[k] \in Nat
    BY DEF OrderTypes, Quantities
  <2>2. Ordered(v) = SumFunctionOnSet(f, OrderKeys)
    BY DEF Ordered
  <2> HIDE DEF f
  <2> QED
    BY <2>1, <2>2, SumInNat, AddAssumption
<1> QED
  BY <1>1, <1>2

LEMMA UnitsInvInit == CartInit => UnitsInv
<1> SUFFICES ASSUME CartInit PROVE UnitsInv
  OBVIOUS
<1>1. OrderTypes
  BY DEF CartInit, OrderTypes
<1>2. ASSUME NEW v \in Variants PROVE Ordered(v) = 0
  <2> DEFINE f == [k \in OrderKeys |-> IF orders[k] = NotOrdered THEN 0 ELSE orders[k].items[v]]
  <2>1. \A k \in OrderKeys : f[k] = 0
    BY DEF CartInit
  <2>2. Ordered(v) = SumFunctionOnSet(f, OrderKeys)
    BY DEF Ordered
  <2> HIDE DEF f
  <2> QED
    BY <2>1, <2>2, SumOfZeros, AddAssumption
<1>3. \A v \in Variants : InCart("customer", v) = 0 /\ InCart("guest", v) = 0
  BY DEF CartInit, InCart, CartScopes
<1>4. EachUnitHasAPlace
  BY <1>2, <1>3 DEF EachUnitHasAPlace, CartInit, NoItems
<1> QED
  BY <1>1, <1>4, CartInvInit DEF UnitsInv

-----------------------------------------------------------------------------
LEMMA ResolvingMovesNothing ==
    ASSUME UnitsInv, NEW s \in CartRequests, NEW scope \in CartScopes, NEW op \in Ops, ResolveCart(s, scope, op)
    PROVE  UnitsInv'
<1>0. UNCHANGED <<contents, reported, orders, checkout>>
  BY DEF ResolveCart
<1>1. OrderTypes' /\ \A v \in Variants : Ordered(v)' = Ordered(v)
  BY <1>0 DEF UnitsInv, OrderTypes, Ordered
<1>2. ASSUME NEW v \in Variants, NEW t \in CartScopes PROVE InCart(t, v)' = InCart(t, v)
  <2>1. CASE UNCHANGED current
    BY <1>0, <2>1 DEF InCart
  <2>2. CASE /\ current[scope] = NoCart /\ nextCart <= MaxCarts
             /\ current' = [current EXCEPT ![scope] = nextCart]
    <3>0. nextCart \in 1..(MaxCarts + 1) /\ MaxCarts \in Nat /\ current \in [CartScopes -> 0..MaxCarts]
      BY AddAssumption DEF UnitsInv, CartInv, CartTypes
    <3>1. nextCart \in CartIds /\ ~CartExists(nextCart)
      BY <2>2, <3>0 DEF CartIds, CartExists, UnitsInv, CartInv, CartsAreApart
    <3>2. contents[nextCart] = NoItems
      BY <3>1 DEF UnitsInv, CartInv, DeletedCartsHoldNothing
    <3>3. contents[nextCart][v] = 0
      BY <3>2 DEF NoItems
    <3>4. current'[scope] = nextCart /\ \A u \in CartScopes : u # scope => current'[u] = current[u]
      BY <2>2, <3>0
    <3> QED
      BY <1>0, <2>2, <3>3, <3>4 DEF InCart
  <2> QED
    BY <2>1, <2>2 DEF ResolveCart
<1>3. EachUnitHasAPlace'
  BY <1>0, <1>1, <1>2 DEF UnitsInv, EachUnitHasAPlace, CartScopes
<1>4. CartInv'
  BY Resolves DEF UnitsInv
<1> QED
  BY <1>1, <1>3, <1>4 DEF UnitsInv

\* A cart that exists changes, and its event reports by how much.
LEMMA ReportedChange ==
    ASSUME UnitsInv, NEW c \in CartIds, CartExists(c), NEW items \in Quantities,
           contents' = [contents EXCEPT ![c] = items], UNCHANGED <<current, orders, checkout>>,
           reported' \in [Variants -> Int],
           \A v \in Variants : reported'[v] = reported[v] + items[v] - contents[c][v],
           CartInv'
    PROVE  UnitsInv'
<1>0. c # NoCart /\ contents \in [CartIds -> [Variants -> Nat]] /\ items \in [Variants -> Nat]
  BY DEF CartIds, NoCart, UnitsInv, CartInv, CartTypes, Quantities
<1>1. OrderTypes' /\ \A v \in Variants : Ordered(v)' = Ordered(v)
  BY DEF UnitsInv, OrderTypes, Ordered
<1>2. PICK t \in CartScopes : current[t] = c /\ \A u \in CartScopes \ {t} : current[u] # c
  BY <1>0 DEF CartExists, UnitsInv, CartInv, CartsAreApart, CartScopes, NoCart
<1>3. ASSUME NEW v \in Variants
      PROVE  /\ InCart(t, v)' = InCart(t, v) + items[v] - contents[c][v]
             /\ \A u \in CartScopes \ {t} : InCart(u, v)' = InCart(u, v)
  <2>1. contents'[c][v] = items[v] /\ contents[c][v] \in Nat /\ items[v] \in Nat
    BY <1>0
  <2>2. InCart(t, v)' = items[v] /\ InCart(t, v) = contents[c][v]
    BY <1>0, <1>2, <2>1 DEF InCart
  <2>3. ASSUME NEW u \in CartScopes \ {t} PROVE InCart(u, v)' = InCart(u, v)
    <3>1. current[u] # NoCart => current[u] \in CartIds /\ current[u] # c
      BY <1>2, AddAssumption DEF UnitsInv, CartInv, CartTypes, CartIds, NoCart
    <3>2. current[u] # NoCart => contents'[current[u]] = contents[current[u]]
      BY <1>0, <3>1
    <3> QED
      BY <3>2 DEF InCart
  <2> QED
    BY <2>1, <2>2, <2>3
<1>4. ASSUME NEW v \in Variants
      PROVE  reported'[v] = InCart("customer", v)' + InCart("guest", v)' + Ordered(v)'
  <2>1. /\ InCart("customer", v) \in Nat /\ InCart("guest", v) \in Nat /\ Ordered(v) \in Nat
        /\ reported[v] = InCart("customer", v) + InCart("guest", v) + Ordered(v)
    BY CountsAreNatural DEF UnitsInv, EachUnitHasAPlace, CartScopes
  <2>2. contents[c][v] \in Nat /\ items[v] \in Nat
    BY <1>0
  <2>3. reported'[v] = reported[v] + items[v] - contents[c][v] /\ Ordered(v)' = Ordered(v)
    BY <1>1
  <2>4. CASE t = "customer"
    <3>1. InCart("guest", v)' = InCart("guest", v)
      BY <1>3, <2>4 DEF CartScopes
    <3>2. InCart("customer", v)' = InCart("customer", v) + items[v] - contents[c][v]
      BY <1>3, <2>4
    <3> QED
      BY <2>1, <2>2, <2>3, <3>1, <3>2
  <2>5. CASE t = "guest"
    <3>1. InCart("customer", v)' = InCart("customer", v)
      BY <1>3, <2>5 DEF CartScopes
    <3>2. InCart("guest", v)' = InCart("guest", v) + items[v] - contents[c][v]
      BY <1>3, <2>5
    <3> QED
      BY <2>1, <2>2, <2>3, <3>1, <3>2
  <2> QED
    BY <2>4, <2>5 DEF CartScopes
<1> QED
  BY <1>1, <1>4 DEF UnitsInv, EachUnitHasAPlace

LEMMA AddingIsReported == ASSUME UnitsInv, NEW s \in CartRequests, AddItem(s) PROVE UnitsInv'
<1>1. PICK c \in CartIds, k \in AddKeys : c = cartRequest[s].cart /\ k = cartRequest[s].op.key
  BY Carries DEF UnitsInv, CartInv, AddItem, Resolved
<1> DEFINE w == AddVariant[k]
           items == [contents[c] EXCEPT ![w] = @ + AddQty[k]]
<1>2. /\ CartExists(c)
      /\ contents' = [contents EXCEPT ![c] = items]
      /\ reported' = [reported EXCEPT ![w] = @ + AddQty[k]]
      /\ UNCHANGED <<current, orders, checkout>>
  BY <1>1 DEF AddItem, Answer, Locks
<1>3. w \in Variants /\ AddQty[k] \in Nat /\ contents[c] \in [Variants -> Nat]
      /\ reported \in [Variants -> Int]
  BY AddAssumption DEF UnitsInv, EachUnitHasAPlace, CartInv, CartTypes, Quantities
<1>4. items \in Quantities /\ \A v \in Variants :
          items[v] = IF v = w THEN contents[c][v] + AddQty[k] ELSE contents[c][v]
  BY <1>3 DEF Quantities
<1>5. reported' \in [Variants -> Int] /\ \A v \in Variants :
          reported'[v] = IF v = w THEN reported[v] + AddQty[k] ELSE reported[v]
  BY <1>2, <1>3
<1> HIDE DEF items, w
<1>6. \A v \in Variants : reported'[v] = reported[v] + items[v] - contents[c][v]
  BY <1>3, <1>4, <1>5
<1>7. CartInv'
  BY Adds DEF UnitsInv
<1> QED
  BY <1>2, <1>4, <1>5, <1>6, <1>7, ReportedChange

LEMMA SettingIsReported == ASSUME UnitsInv, NEW s \in CartRequests, SetQuantity(s) PROVE UnitsInv'
<1>1. PICK c \in CartIds, w \in Variants, q \in 1..MaxItemQty :
          c = cartRequest[s].cart /\ w = cartRequest[s].op.variant /\ q = cartRequest[s].op.qty
  BY Carries DEF UnitsInv, CartInv, SetQuantity, Resolved
<1> DEFINE items == [contents[c] EXCEPT ![w] = q]
<1>2. /\ CartExists(c)
      /\ contents' = [contents EXCEPT ![c] = items]
      /\ reported' = [reported EXCEPT ![w] = @ + q - contents[c][w]]
      /\ UNCHANGED <<current, orders, checkout>>
  BY <1>1 DEF SetQuantity, Answer, Locks
<1>3. q \in Nat /\ contents[c] \in [Variants -> Nat] /\ reported \in [Variants -> Int]
  BY AddAssumption DEF UnitsInv, EachUnitHasAPlace, CartInv, CartTypes, Quantities
<1>4. items \in Quantities /\ \A v \in Variants : items[v] = IF v = w THEN q ELSE contents[c][v]
  BY <1>3 DEF Quantities
<1>5. reported' \in [Variants -> Int] /\ \A v \in Variants :
          reported'[v] = IF v = w THEN reported[v] + q - contents[c][v] ELSE reported[v]
  BY <1>2, <1>3
<1> HIDE DEF items
<1>6. \A v \in Variants : reported'[v] = reported[v] + items[v] - contents[c][v]
  BY <1>3, <1>4, <1>5
<1>7. CartInv'
  BY Sets DEF UnitsInv
<1> QED
  BY <1>2, <1>4, <1>5, <1>6, <1>7, ReportedChange

LEMMA RemovingIsReported == ASSUME UnitsInv, NEW s \in CartRequests, RemoveItem(s) PROVE UnitsInv'
<1>1. PICK c \in CartIds, w \in Variants : c = cartRequest[s].cart /\ w = cartRequest[s].op.variant
  BY Carries DEF UnitsInv, CartInv, RemoveItem, Resolved
<1> DEFINE items == [contents[c] EXCEPT ![w] = 0]
<1>2. /\ CartExists(c)
      /\ contents' = [contents EXCEPT ![c] = items]
      /\ reported' = [reported EXCEPT ![w] = @ - contents[c][w]]
      /\ UNCHANGED <<current, orders, checkout>>
  BY <1>1 DEF RemoveItem, Answer, Locks
<1>3. contents[c] \in [Variants -> Nat] /\ reported \in [Variants -> Int]
  BY DEF UnitsInv, EachUnitHasAPlace, CartInv, CartTypes, Quantities
<1>4. items \in Quantities /\ \A v \in Variants : items[v] = IF v = w THEN 0 ELSE contents[c][v]
  BY <1>3 DEF Quantities
<1>5. reported' \in [Variants -> Int] /\ \A v \in Variants :
          reported'[v] = IF v = w THEN reported[v] - contents[c][v] ELSE reported[v]
  BY <1>2, <1>3
<1> HIDE DEF items
<1>6. \A v \in Variants : reported'[v] = reported[v] + items[v] - contents[c][v]
  BY <1>3, <1>4, <1>5
<1>7. CartInv'
  BY Removes DEF UnitsInv
<1> QED
  BY <1>2, <1>4, <1>5, <1>6, <1>7, ReportedChange

\* The login merge moves the guest's units to the customer's cart, which holds
\* nothing when it is new.
LEMMA MergingKeepsUnits == ASSUME UnitsInv, MergeGuestCart PROVE UnitsInv'
<1> DEFINE g == current["guest"]
           c == IF current["customer"] = NoCart THEN nextCart ELSE current["customer"]
<1>0. /\ nextCart \in 1..(MaxCarts + 1) /\ MaxCarts \in Nat
      /\ current["guest"] \in 0..MaxCarts /\ current["customer"] \in 0..MaxCarts
      /\ current["guest"] < nextCart /\ current["customer"] < nextCart
      /\ contents \in [CartIds -> [Variants -> Nat]]
  BY AddAssumption DEF UnitsInv, CartInv, CartTypes, CartsAreApart, CartScopes, Quantities
<1>1. /\ g # NoCart /\ c <= MaxCarts
      /\ contents' = [contents EXCEPT ![c] = MergedContents(g, c), ![g] = NoItems]
      /\ current' = [customer |-> c, guest |-> NoCart]
      /\ UNCHANGED <<reported, orders, checkout>>
  BY DEF MergeGuestCart
<1>2. g \in CartIds /\ c \in CartIds /\ c # g
  <2>1. g \in CartIds
    BY <1>0, <1>1 DEF CartIds, NoCart
  <2>2. CASE current["customer"] = NoCart
    BY <1>0, <1>1, <2>1, <2>2 DEF CartIds
  <2>3. CASE current["customer"] # NoCart
    BY <1>0, <1>1, <2>1, <2>3 DEF CartIds, NoCart, UnitsInv, CartInv, CartsAreApart
  <2> QED
    BY <2>2, <2>3
<1>3. OrderTypes' /\ \A v \in Variants : Ordered(v)' = Ordered(v)
  BY <1>1 DEF UnitsInv, OrderTypes, Ordered
<1>4. ASSUME NEW v \in Variants PROVE InCart("customer", v) = contents[c][v]
  <2>1. CASE current["customer"] = NoCart
    <3>1. ~CartExists(nextCart)
      BY <1>0 DEF CartExists, CartScopes
    <3>2. contents[c] = NoItems
      BY <1>2, <2>1, <3>1 DEF UnitsInv, CartInv, DeletedCartsHoldNothing
    <3> QED
      BY <2>1, <3>2 DEF InCart, NoItems
  <2>2. CASE current["customer"] # NoCart
    BY <2>2 DEF InCart
  <2> QED
    BY <2>1, <2>2
<1>5. ASSUME NEW v \in Variants PROVE InCart("guest", v) = contents[g][v]
  BY <1>1 DEF InCart
<1> HIDE DEF g, c
<1>6. c # NoCart
  BY <1>2 DEF CartIds, NoCart
<1>7. contents'[c] = MergedContents(g, c)
  BY <1>0, <1>1, <1>2
<1>8. ASSUME NEW v \in Variants
      PROVE  reported'[v] = InCart("customer", v)' + InCart("guest", v)' + Ordered(v)'
  <2>1. contents'[c][v] = contents[c][v] + contents[g][v]
    BY <1>7 DEF MergedContents
  <2>2. InCart("customer", v)' = contents[c][v] + contents[g][v] /\ InCart("guest", v)' = 0
    BY <1>1, <1>6, <2>1 DEF InCart
  <2>3. contents[c][v] \in Nat /\ contents[g][v] \in Nat /\ Ordered(v) \in Nat
    BY <1>0, <1>2, CountsAreNatural DEF UnitsInv
  <2>4. reported[v] = InCart("customer", v) + InCart("guest", v) + Ordered(v)
    BY DEF UnitsInv, EachUnitHasAPlace
  <2> QED
    BY <1>1, <1>3, <1>4, <1>5, <2>2, <2>3, <2>4
<1>9. EachUnitHasAPlace'
  BY <1>1, <1>8 DEF UnitsInv, EachUnitHasAPlace
<1>10. CartInv'
  BY Merges DEF UnitsInv
<1> QED
  BY <1>3, <1>9, <1>10 DEF UnitsInv

\* An order takes what the customer's cart holds, under a key that had no order.
LEMMA OrderingMovesUnits == ASSUME UnitsInv, NEW r \in Checkouts, PlaceOrder(r) PROVE UnitsInv'
<1> DEFINE c == current["customer"]
           k == checkout[r].key
           o == [items |-> contents[c], quote |-> checkout[r].quote]
<1>1. /\ checkout[r].pc = "unseen" /\ c # NoCart /\ orders[k] = NotOrdered
      /\ orders' = [orders EXCEPT ![k] = o]
      /\ contents' = [contents EXCEPT ![c] = NoItems]
      /\ current' = [current EXCEPT !["customer"] = NoCart]
      /\ checkout' = [checkout EXCEPT ![r] = [pc |-> "answered", key |-> k, answer |-> "order"]]
      /\ UNCHANGED reported
  BY DEF PlaceOrder, TakeCart, KeyIsFree, AnswerCheckout
<1>2. k \in OrderKeys /\ checkout[r].quote \in Quantities
  <2>1. checkout[r] \in {NoRequest}
            \cup [pc : {"quoted", "unseen"}, key : OrderKeys, quote : Quantities]
            \cup [pc : {"answered"}, key : OrderKeys, answer : {"order", "empty_cart"}]
    BY DEF UnitsInv, OrderTypes
  <2>2. checkout[r] \in [pc : {"quoted", "unseen"}, key : OrderKeys, quote : Quantities]
    BY <1>1, <2>1 DEF NoRequest
  <2> QED
    BY <2>2
<1>3. /\ current \in [CartScopes -> 0..MaxCarts] /\ c \in CartIds /\ c # current["guest"]
      /\ contents \in [CartIds -> Quantities]
  <2>1. current \in [CartScopes -> 0..MaxCarts] /\ MaxCarts \in Nat /\ contents \in [CartIds -> Quantities]
    BY AddAssumption DEF UnitsInv, CartInv, CartTypes
  <2> QED
    BY <1>1, <2>1 DEF CartScopes, CartIds, NoCart, UnitsInv, CartInv, CartsAreApart
<1>4. o \in [items : Quantities, quote : Quantities] /\ o.items = contents[c]
  BY <1>2, <1>3
<1>5. o # NotOrdered
  <2>1. "quote" \in DOMAIN o /\ "quote" \notin DOMAIN NotOrdered
    BY DEF NotOrdered
  <2> QED
    BY <2>1
<1> HIDE DEF o, k, c
<1>6. OrderTypes'
  <2>1. orders' \in [OrderKeys -> {NotOrdered} \cup [items : Quantities, quote : Quantities]]
    BY <1>1, <1>2, <1>4 DEF UnitsInv, OrderTypes
  <2>2. [pc |-> "answered", key |-> k, answer |-> "order"]
            \in [pc : {"answered"}, key : OrderKeys, answer : {"order", "empty_cart"}]
    BY <1>2
  <2>3. checkout' \in [Checkouts ->
           {NoRequest} \cup [pc : {"quoted", "unseen"}, key : OrderKeys, quote : Quantities]
                  \cup [pc : {"answered"}, key : OrderKeys, answer : {"order", "empty_cart"}]]
    BY <1>1, <2>2 DEF UnitsInv, OrderTypes
  <2> QED
    BY <2>1, <2>3 DEF OrderTypes
<1>7. ASSUME NEW v \in Variants PROVE Ordered(v)' = Ordered(v) + contents[c][v]
  <2> DEFINE f == [j \in OrderKeys |-> IF orders[j] = NotOrdered THEN 0 ELSE orders[j].items[v]]
             h == [j \in OrderKeys |-> IF orders'[j] = NotOrdered THEN 0 ELSE orders'[j].items[v]]
  <2>1. \A j \in OrderKeys : f[j] \in Int /\ h[j] \in Int
    BY <1>6 DEF UnitsInv, OrderTypes, Quantities
  <2>2. f[k] = 0 /\ h[k] = contents[c][v] /\ \A j \in OrderKeys \ {k} : f[j] = h[j]
    BY <1>1, <1>2, <1>4, <1>5 DEF UnitsInv, OrderTypes
  <2>3. Ordered(v) = SumFunctionOnSet(f, OrderKeys) /\ Ordered(v)' = SumFunctionOnSet(h, OrderKeys)
    BY DEF Ordered
  <2>4. contents[c][v] \in Int /\ Ordered(v) \in Int
    BY <1>3, CountsAreNatural DEF Quantities, UnitsInv
  <2> HIDE DEF f, h
  <2>5. SumFunctionOnSet(h, OrderKeys) = SumFunctionOnSet(f, OrderKeys) + h[k] - f[k]
    BY <1>2, <2>1, <2>2, SumChanges, AddAssumption
  <2> QED
    BY <2>2, <2>3, <2>4, <2>5
<1>8. ASSUME NEW v \in Variants
      PROVE  /\ InCart("customer", v) = contents[c][v] /\ InCart("customer", v)' = 0
             /\ InCart("guest", v)' = InCart("guest", v)
  <2>1. current'["customer"] = NoCart /\ current'["guest"] = current["guest"]
    BY <1>1, <1>3 DEF CartScopes
  <2>2. current["guest"] # NoCart => current["guest"] \in CartIds
    BY <1>3, AddAssumption DEF CartScopes, CartIds, NoCart
  <2>3. current["guest"] # NoCart => contents'[current["guest"]] = contents[current["guest"]]
    BY <1>1, <1>3, <2>2
  <2> QED
    BY <1>1, <2>1, <2>3 DEF InCart, c
<1>9. ASSUME NEW v \in Variants
      PROVE  reported'[v] = InCart("customer", v)' + InCart("guest", v)' + Ordered(v)'
  <2>1. InCart("customer", v) \in Nat /\ InCart("guest", v) \in Nat /\ Ordered(v) \in Nat
    BY CountsAreNatural DEF UnitsInv, CartScopes
  <2>2. reported[v] = InCart("customer", v) + InCart("guest", v) + Ordered(v)
    BY DEF UnitsInv, EachUnitHasAPlace
  <2>3. Ordered(v)' = Ordered(v) + InCart("customer", v)
    BY <1>7, <1>8
  <2> QED
    BY <1>1, <1>8, <2>1, <2>2, <2>3
<1>10. EachUnitHasAPlace'
  BY <1>1, <1>9 DEF UnitsInv, EachUnitHasAPlace
<1>11. CartInv'
  BY Takes DEF UnitsInv
<1> QED
  BY <1>6, <1>10, <1>11 DEF UnitsInv

\* No cart, order or report changes.
LEMMA UnitsRest ==
    ASSUME UnitsInv, UNCHANGED <<cartVars, orders>>, CartInv', OrderTypes'
    PROVE  UnitsInv'
BY DEF UnitsInv, EachUnitHasAPlace, InCart, Ordered, cartVars

LEMMA CheckoutKeepsTypes ==
    ASSUME UnitsInv, NEW r \in Checkouts, UNCHANGED <<cartVars, orders, cartRequest>>,
           \/ \E k \in OrderKeys : QuoteDelivery(r, k)
           \/ FindReplay(r) \/ CartTaken(r) \/ LoseKeyRace(r) \/ CheckoutEnds(r)
    PROVE  OrderTypes'
<1> DEFINE Reading == [pc : {"quoted", "unseen"}, key : OrderKeys, quote : Quantities]
           Answered == [pc : {"answered"}, key : OrderKeys, answer : {"order", "empty_cart"}]
<1>0. checkout \in [Checkouts -> {NoRequest} \cup Reading \cup Answered]
  BY DEF UnitsInv, OrderTypes
<1>1. ASSUME checkout[r].pc \in {"quoted", "unseen"} PROVE checkout[r] \in Reading
  BY <1>0, <1>1 DEF NoRequest
<1>2. SUFFICES \E next \in {NoRequest} \cup Reading \cup Answered : checkout' = [checkout EXCEPT ![r] = next]
  BY <1>0 DEF UnitsInv, OrderTypes
<1>3. ASSUME NEW k \in OrderKeys, QuoteDelivery(r, k)
      PROVE  \E next \in {NoRequest} \cup Reading \cup Answered : checkout' = [checkout EXCEPT ![r] = next]
  <2> DEFINE c == current["customer"]
  <2>1. CASE c = NoCart \/ (c # NoCart /\ contents[c] = NoItems)
    <3>1. [pc |-> "answered", key |-> k, answer |-> "empty_cart"] \in Answered
      OBVIOUS
    <3> QED
      BY <1>3, <2>1, <3>1 DEF QuoteDelivery
  <2>2. CASE c # NoCart /\ contents[c] # NoItems
    <3>1. c \in CartIds
      BY <2>2, AddAssumption DEF UnitsInv, CartInv, CartTypes, CartScopes, CartIds, NoCart
    <3>2. [pc |-> "quoted", key |-> k, quote |-> contents[c]] \in Reading
      BY <3>1 DEF UnitsInv, CartInv, CartTypes
    <3> QED
      BY <1>3, <2>2, <3>2 DEF QuoteDelivery
  <2> QED
    BY <2>1, <2>2
<1>4. ASSUME NEW a \in {"order", "empty_cart"}, AnswerCheckout(r, a),
             checkout[r].pc \in {"quoted", "unseen"}
      PROVE  \E next \in {NoRequest} \cup Reading \cup Answered : checkout' = [checkout EXCEPT ![r] = next]
  <2>1. [pc |-> "answered", key |-> checkout[r].key, answer |-> a] \in Answered
    BY <1>1, <1>4
  <2> QED
    BY <1>4, <2>1 DEF AnswerCheckout
<1>5. ASSUME checkout' = [checkout EXCEPT ![r].pc = "unseen"], checkout[r].pc = "quoted"
      PROVE  \E next \in {NoRequest} \cup Reading \cup Answered : checkout' = [checkout EXCEPT ![r] = next]
  <2>1. [checkout[r] EXCEPT !.pc = "unseen"] \in Reading
    BY <1>1, <1>5
  <2>2. checkout' = [checkout EXCEPT ![r] = [checkout[r] EXCEPT !.pc = "unseen"]]
    BY <1>5
  <2> QED
    BY <2>1, <2>2
<1>6. CASE FindReplay(r)
  BY <1>4, <1>5, <1>6 DEF FindReplay
<1>7. CASE CartTaken(r) \/ LoseKeyRace(r)
  BY <1>4, <1>7 DEF CartTaken, LoseKeyRace
<1>8. CASE CheckoutEnds(r)
  BY <1>8 DEF CheckoutEnds
<1> QED
  BY <1>3, <1>6, <1>7, <1>8

LEMMA UnitsStep == UnitsInv /\ [CartNext]_cartCheckoutVars => UnitsInv'
<1> SUFFICES ASSUME UnitsInv, [CartNext]_cartCheckoutVars PROVE UnitsInv'
  OBVIOUS
<1>0. CartInv'
  BY CartStep DEF UnitsInv
<1>1. ASSUME NEW s \in CartRequests, NEW scope \in CartScopes, NEW op \in Ops, ResolveCart(s, scope, op)
      PROVE  UnitsInv'
  BY <1>1, ResolvingMovesNothing
<1>2. ASSUME NEW s \in CartRequests, AddItem(s) \/ SetQuantity(s) \/ RemoveItem(s) PROVE UnitsInv'
  BY <1>2, AddingIsReported, SettingIsReported, RemovingIsReported
<1>3. ASSUME NEW s \in CartRequests, AddChangesNothing(s) \/ CartRequestFails(s) PROVE UnitsInv'
  <2>1. UNCHANGED <<cartVars, orders, checkout>>
    BY <1>3 DEF AddChangesNothing, CartRequestFails, Answer, cartVars
  <2> QED
    BY <1>0, <2>1, UnitsRest DEF UnitsInv, OrderTypes
<1>4. CASE MergeGuestCart
  BY <1>4, MergingKeepsUnits
<1>5. ASSUME NEW r \in Checkouts, PlaceOrder(r) PROVE UnitsInv'
  BY <1>5, OrderingMovesUnits
<1>6. ASSUME NEW r \in Checkouts,
             \/ \E k \in OrderKeys : QuoteDelivery(r, k)
             \/ FindReplay(r) \/ CartTaken(r) \/ LoseKeyRace(r) \/ CheckoutEnds(r)
      PROVE  UnitsInv'
  <2>1. UNCHANGED <<cartVars, orders, cartRequest>>
    BY <1>6 DEF QuoteDelivery, FindReplay, CartTaken, LoseKeyRace, CheckoutEnds
  <2>2. OrderTypes'
    BY <1>6, <2>1, CheckoutKeepsTypes
  <2> QED
    BY <1>0, <2>1, <2>2, UnitsRest
<1>7. CASE UNCHANGED cartCheckoutVars
  <2>1. UNCHANGED <<cartVars, orders, checkout>>
    BY <1>7 DEF cartCheckoutVars
  <2> QED
    BY <1>0, <2>1, UnitsRest DEF UnitsInv, OrderTypes
<1> QED
  BY <1>1, <1>2, <1>3, <1>4, <1>5, <1>6, <1>7 DEF CartNext

\* Whatever adds, changes, merges and checkouts overlap, every unit the cart
\* events report is in a cart of the customer or in one order: checkout and the
\* login merge neither lose a unit nor take it twice.
THEOREM NoUnitIsLost == CartSpec => []UnitsAccounted
<1>1. UnitsInv => UnitsAccounted
  BY DEF UnitsInv, CartInv, EachUnitHasAPlace, UnitsAccounted
<1> QED
  BY <1>1, UnitsInvInit, UnitsStep, PTL DEF CartSpec

\* Carts, orders and requests have their types; the units that the events of a
\* cart report are never negative, since carts and orders hold them.
THEOREM CartTypesHold == CartSpec => []CartTypeOK
<1>1. UnitsInv => CartTypeOK
  <2> SUFFICES ASSUME UnitsInv PROVE CartTypeOK
    OBVIOUS
  <2>1. ASSUME NEW v \in Variants PROVE reported[v] \in Nat
    <3>1. InCart("customer", v) \in Nat /\ InCart("guest", v) \in Nat /\ Ordered(v) \in Nat
      BY CountsAreNatural DEF UnitsInv, CartScopes
    <3> QED
      BY <3>1 DEF UnitsInv, EachUnitHasAPlace
  <2>2. reported \in [Variants -> Nat]
    BY <2>1 DEF UnitsInv, EachUnitHasAPlace
  <2> QED
    BY <2>2 DEF UnitsInv, CartInv, CartTypes, OrderTypes, CartTypeOK
<1> QED
  BY <1>1, UnitsInvInit, UnitsStep, PTL DEF CartSpec

=============================================================================
