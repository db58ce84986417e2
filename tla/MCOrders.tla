------------------------------ MODULE MCOrders ------------------------------
(***************************************************************************)
(* Orders in two scenes, since what makes each interesting is too many     *)
(* states for one run.  "competing": two orders for the units of two       *)
(* variants, each paid by at most one attempt and one request.  "paying":  *)
(* one order of one unit, with requests, confirmations and deliveries that *)
(* overlap and are repeated.                                               *)
(***************************************************************************)
EXTENDS MCOrderLifecycle

VARIABLE scene

CartsOf(o, wanted, others) ==
    [c \in Orders |-> IF c = o THEN wanted ELSE others]

OneUnitCarts ==
    {CartsOf(o, [w \in Variants |-> IF w = v THEN 1 ELSE 0], EmptyCart) :
        o \in Orders, v \in Variants}

\* One order wants a unit of each variant, the other anything.
RivalCarts ==
    {CartsOf(o, [v \in Variants |-> 1], wanted) : o \in Orders, wanted \in [Variants -> 0..MaxQty]}

SceneInit ==
    /\ Init
    /\ \/ scene = "competing" /\ cart \in RivalCarts
       \/ scene = "paying" /\ cart \in OneUnitCarts

OneAttempt ==
    /\ \A r, s \in Initializers : initReq'[r] # Idle /\ initReq'[s] # Idle => r = s
    /\ \A p \in Rows : gwOrders'[p] <= 1
    /\ \A a \in Attempts : attempt'[a] # "none" => a[4] = 1
    /\ \A e \in Events : handling'[e] <= (IF e[1] = "order.paid" THEN 0 ELSE 1)
    /\ \A r \in Confirmers : confirmReq'[r] = Idle

SceneNext ==
    /\ Next
    /\ scene = "competing" => OneAttempt
    /\ scene = "paying" => \A o \in Orders : paymentMethod'[o] \in {"none", "online"}
    /\ UNCHANGED scene

SceneSpec == SceneInit /\ [][SceneNext]_<<vars, scene>>

SceneSymmetry ==
    Permutations(Orders) \cup Permutations(Variants) \cup Permutations(Initializers)
=============================================================================
