------------------------- MODULE ReservationExpiry -------------------------
(***************************************************************************)
(* release_expired_inventory_reservations (orders/services.py), run by     *)
(* the management command release_expired_reservations.  Workers may       *)
(* overlap; each takes up to BatchSize expired reservations and skips the  *)
(* rows another transaction has locked, so the batch it really gets is     *)
(* any set of expired reservations of at most that size.                   *)
(***************************************************************************)
EXTENDS OrderTables

CONSTANT BatchSize

ASSUME BatchAssumption == BatchSize \in Nat \ {0}

\* The clock passes expires_at.  Each reservation computes its own
\* now() + 15 minutes, so those of one order need not lapse together.
ReservationLapses(r) ==
    /\ reservation[r] = "active"
    /\ r \notin lapsed
    /\ lapsed' = lapsed \cup {r}
    /\ UNCHANGED <<cart, orderTable, stock, reservation, rowTable>>

\* Mutation of Expired: the filter on ACTIVE is missing.
LapsedOfAnyStatus == {r \in lapsed : reservation[r] # "none"}

\* Mutation of Expired: orders with a failed payment are left out.
LapsedAndPending == {r \in lapsed : reservation[r] = "active" /\ paymentStatus[r[1]] = "pending"}

\* The ACTIVE reservations whose expires_at has passed.
Expired == {r \in lapsed : reservation[r] = "active"}

\* Mutation of Exhausted: no check for reservations that are still ACTIVE.
UnpaidOfBatch(batch) ==
    {o \in {OrderOf(r) : r \in batch} :
        paymentStatus[o] # "paid" /\ orderStatus[o] # "cancelled"}

\* The order rows of the batch that the second half of the transaction
\* cancels: unpaid, not closed, and left without an ACTIVE reservation.
Exhausted(batch) ==
    {o \in {OrderOf(r) : r \in batch} :
        /\ paymentStatus[o] # "paid"
        /\ orderStatus[o] # "cancelled"
        /\ ActiveReservations(o) \subseteq batch}

ReleaseExpired(batch) ==
    /\ batch \subseteq Expired
    /\ batch # {}
    /\ Cardinality(batch) <= BatchSize
    /\ stock' = [v \in Variants |-> stock[v] + Cardinality(UnitsOf(batch, v))]
    /\ reservation' = [r \in Orders \X Variants |->
                          IF r \in batch THEN "expired" ELSE reservation[r]]
    /\ orderStatus' = [o \in Orders |->
                          IF o \in Exhausted(batch) THEN "cancelled" ELSE orderStatus[o]]
    /\ paymentStatus' = [o \in Orders |->
                          IF o \in Exhausted(batch) THEN "failed" ELSE paymentStatus[o]]
    /\ rowStatus' = [p \in Rows |->
                          IF /\ p[1] \in Exhausted(batch)
                             /\ IsRazorpay(p[1])
                             /\ rowStatus[p] \notin {"absent", "captured"}
                          THEN "cancelled" ELSE rowStatus[p]]
    /\ UNCHANGED <<cart, paymentMethod, items, lapsed,
                   providerOrder, providerPayment, lease, reconcile>>
=============================================================================
