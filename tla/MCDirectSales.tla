--------------------------- MODULE MCDirectSales ---------------------------
(***************************************************************************)
(* Small instances of DirectSales for TLC.  Two requests for links and two *)
(* invoice workers at once are too many states for one run, so the two     *)
(* meet in two scenes: "links" leaves the workers out (a process that dies *)
(* after its commit starts none), and "invoices" begins with the one link  *)
(* of the order paid and its event with a handler.                         *)
(***************************************************************************)
EXTENDS DirectSales, TLC

CONSTANTS o1, a1, a2, w1, w2

VARIABLE scene

LinksInit == Init /\ scene = "links"

FirstLink == <<o1, 1>>
InvoicesInit ==
    /\ orderStatus = [o \in Orders |-> "pending_payment"]
    /\ paidBy = [o \in Orders |-> NoLink]
    /\ linkStatus = [l \in Links |-> IF l = FirstLink THEN "created" ELSE "absent"]
    /\ opened = {FirstLink} /\ paid = {FirstLink}
    /\ closed = [l \in Links |-> "none"]
    /\ processed = {}
    /\ handling = [e \in Events |-> IF e = <<"payment_link.paid", FirstLink>> THEN 1 ELSE 0]
    /\ request = [a \in Admins |-> [phase |-> "idle", order |-> o1, link |-> NoLink]]
    /\ InvoiceInit
    /\ scene = "invoices"

SceneInit == LinksInit \/ InvoicesInit

SceneNext ==
    /\ Next
    /\ scene = "links" => UNCHANGED task
    /\ scene = "invoices" => UNCHANGED request
    /\ UNCHANGED scene

SceneSpec == SceneInit /\ [][SceneNext]_<<vars, scene>>
FairSceneSpec == SceneSpec /\ Fairness
=============================================================================
