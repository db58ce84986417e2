--------------------------- MODULE MCCartCheckout ---------------------------
(***************************************************************************)
(* The smallest instances of CartCheckout; MCServices has a larger one.    *)
(***************************************************************************)
EXTENDS CartCheckout, TLC

CONSTANTS v1, k1, s1, x1, r1, r2

AddsOneVariant == [k \in AddKeys |-> v1]
AddsOneUnit    == [k \in AddKeys |-> 1]
=============================================================================
