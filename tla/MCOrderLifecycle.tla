-------------------------- MODULE MCOrderLifecycle --------------------------
(***************************************************************************)
(* Small instances of OrderLifecycle for TLC.                              *)
(***************************************************************************)
EXTENDS OrderLifecycle, TLC

CONSTANTS o1, o2, v1, v2, i1, i2, c1, c2

OneUnitEach == [v \in Variants |-> 1]
TwoUnitsEach == [v \in Variants |-> 2]
=============================================================================
