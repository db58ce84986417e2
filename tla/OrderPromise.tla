---------------------------- MODULE OrderPromise ----------------------------
(***************************************************************************)
(* What the shop promises about an order, whatever machinery keeps it: the *)
(* units an order asks for leave the shelf when it is placed, each of them *)
(* is either sold with the order's payment or put back once, an order is   *)
(* paid at most once and for good, and only an unpaid order left without   *)
(* units is cancelled.  A payment may still arrive for a cancelled order:  *)
(* it pays the order, and sells whatever is still reserved for it.         *)
(***************************************************************************)
EXTENDS Integers, FiniteSets

CONSTANTS Orders, Variants, Attempts, NoAttempt, InitialStock, MaxQty

VARIABLES
    shelf,    \* units of each variant on the shelf
    wanted,   \* units each order asked for
    hold,     \* what became of the units of each order and variant
    outcome,  \* "none", "open", "cancelled" or "paid"
    payer     \* the gateway payment that paid the order

pvars == <<shelf, wanted, hold, outcome, payer>>

Units == Orders \X (1..MaxQty)

UnitsOf(S, v) == {u \in Units : <<u[1], v>> \in S /\ u[2] <= wanted[u[1]][v]}

Reserved(o) == {r \in Orders \X Variants : r[1] = o /\ hold[r] = "active"}

Init ==
    /\ shelf = InitialStock
    /\ wanted = [o \in Orders |-> [v \in Variants |-> 0]]
    /\ hold = [r \in Orders \X Variants |-> "none"]
    /\ outcome = [o \in Orders |-> "none"]
    /\ payer = [o \in Orders |-> NoAttempt]

Place(o, q) ==
    /\ outcome[o] = "none"
    /\ \E v \in Variants : q[v] > 0
    /\ \A v \in Variants : q[v] <= shelf[v]
    /\ shelf' = [v \in Variants |-> shelf[v] - q[v]]
    /\ wanted' = [wanted EXCEPT ![o] = q]
    /\ hold' = [r \in Orders \X Variants |->
                   IF r[1] = o /\ q[r[2]] > 0 THEN "active" ELSE hold[r]]
    /\ outcome' = [outcome EXCEPT ![o] = "open"]
    /\ UNCHANGED payer

\* Some reserved units go back; the unpaid orders left with none are cancelled.
PutBack(S) ==
    /\ S # {}
    /\ \A r \in S : hold[r] = "active" /\ outcome[r[1]] = "open"
    /\ shelf' = [v \in Variants |-> shelf[v] + Cardinality(UnitsOf(S, v))]
    /\ hold' = [r \in Orders \X Variants |-> IF r \in S THEN "expired" ELSE hold[r]]
    /\ outcome' = [o \in Orders |->
                      IF (\E r \in S : r[1] = o) /\ Reserved(o) \subseteq S
                      THEN "cancelled" ELSE outcome[o]]
    /\ UNCHANGED <<wanted, payer>>

Pay(o, a) ==
    /\ outcome[o] \in {"open", "cancelled"}
    /\ a[1] = o
    /\ outcome' = [outcome EXCEPT ![o] = "paid"]
    /\ payer' = [payer EXCEPT ![o] = a]
    /\ hold' = [r \in Orders \X Variants |-> IF r \in Reserved(o) THEN "consumed" ELSE hold[r]]
    /\ UNCHANGED <<shelf, wanted>>

Next ==
    \/ \E o \in Orders, q \in [Variants -> 0..MaxQty] : Place(o, q)
    \/ \E S \in SUBSET (Orders \X Variants) : PutBack(S)
    \/ \E o \in Orders, a \in Attempts : Pay(o, a)

Spec == Init /\ [][Next]_pvars
=============================================================================
