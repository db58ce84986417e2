------------------------- MODULE DirectSales_proofs -------------------------
(***************************************************************************)
(* Proofs about DirectSales for every number of orders, links, requests    *)
(* and workers.  The invariant has two halves: DirectInv about orders,     *)
(* links and events, which no invoice step touches, and InvoiceInv, which  *)
(* relies on the first only for a settlement being final.                  *)
(***************************************************************************)
EXTENDS DirectSales, TLAPS

\* A link belongs to an order, an event to a link.
LEMMA LinkOrders ==
    /\ \A l \in Links : OrderOf(l) \in Orders /\ l # NoLink
    /\ \A e \in Events : e[1] \in EventTypes /\ e[2] \in Links
    /\ \A type \in EventTypes, l \in Links : <<type, l>> \in Events
BY DirectAssumption DEF Links, OrderOf, Events

\* An event that closes a link announces no payment.
LEMMA NewsDiffer ==
    /\ LinkNews \cap PaidNews = {}
    /\ LinkNews \subseteq EventTypes /\ PaymentNews \subseteq PaidNews
    /\ PaidNews \subseteq EventTypes /\ "payment_link.paid" \in PaidNews
BY DirectAssumption DEF LinkNews, PaidNews, EventTypes

LEMMA InvariantInit == Init => IInv
<1> SUFFICES ASSUME Init PROVE IInv
  OBVIOUS
<1>1. DirectTypeOK
  BY DirectAssumption DEF Init, DirectInit, DirectTypeOK, LinkStatuses, Requests, Phases
<1>2. InvoiceTypeOK
  <2>1. NoInvoice \in InvoiceRows
    BY DEF NoInvoice, InvoiceRows
  <2>2. [step : {"idle"}, order : Orders, copy : {NoInvoice}] \subseteq Tasks
    BY <2>1 DEF Tasks, Steps
  <2> QED
    BY <2>1, <2>2 DEF Init, InvoiceInit, InvoiceTypeOK
<1>3. SettledByPaidLink /\ PaidLinkPaidTheOrder /\ ProcessedMeansSettled
  BY LinkOrders DEF Init, DirectInit, SettledByPaidLink, PaidLinkPaidTheOrder, ProcessedMeansSettled
<1>4. InvoiceIsTruthful /\ StatusIsEarned
  BY DEF Init, InvoiceInit, NoInvoice, HasInvoice, InvoiceIsTruthful, StatusIsEarned
<1>5. CopiesAreOld
  BY <1>2 DEF Init, InvoiceInit, InvoiceTypeOK, NoInvoice, Tasks, CopiesAreOld, CopyIsOld
<1> QED
  BY <1>1, <1>2, <1>3, <1>4, <1>5 DEF IInv, DirectInv, InvoiceInv

-----------------------------------------------------------------------------
(***************************************************************************)
(* Orders, links and events.                                               *)
(***************************************************************************)
\* Requests for links and steps of the gateway leave settlements and events
\* alone, and make no link paid.
LEMMA QuietStep ==
    ASSUME DirectInv,
           UNCHANGED <<paidBy, processed>>, paid \subseteq paid', DirectTypeOK',
           \A o \in Orders : paidBy[o] # NoLink => orderStatus'[o] = orderStatus[o],
           \A l \in Links : linkStatus'[l] = "paid" => linkStatus[l] = "paid",
           \A e \in Events : e[1] \in PaidNews /\ handling'[e] > 0 =>
               handling[e] > 0 \/ e[2] \in paid
    PROVE  DirectInv'
<1>1. SettledByPaidLink'
  BY DEF DirectInv, SettledByPaidLink
<1>2. PaidLinkPaidTheOrder'
  BY DEF DirectInv, PaidLinkPaidTheOrder
<1>3. ProcessedMeansSettled'
  BY DEF DirectInv, ProcessedMeansSettled
<1> QED
  BY <1>1, <1>2, <1>3 DEF DirectInv

LEMMA KeepsPlaceOrder ==
    ASSUME DirectInv, NEW o \in Orders, CreateDirectOrder(o)
    PROVE  DirectInv'
<1>1. DirectTypeOK'
  BY DEF CreateDirectOrder, DirectInv, DirectTypeOK, gateway, eventTable
<1>2. \A q \in Orders : paidBy[q] # NoLink => orderStatus'[q] = orderStatus[q]
  BY DEF CreateDirectOrder, DirectInv, DirectTypeOK, SettledByPaidLink
<1> QED
  BY <1>1, <1>2, QuietStep DEF CreateDirectOrder, gateway, eventTable, DirectInv, SettledByPaidLink

LEMMA KeepsRequest ==
    ASSUME DirectInv, NEW a \in Admins, LinkRequestStep(a)
    PROVE  DirectInv'
<1> USE DEF tables, gateway, eventTable
<1>1. /\ UNCHANGED <<orderStatus, paidBy, closed, paid, processed, handling>>
      /\ opened' \subseteq Links /\ request' \in [Admins -> Requests]
      /\ \/ UNCHANGED linkStatus
         \/ linkStatus' = [linkStatus EXCEPT ![request[a].link] = "created"]
  BY DEF LinkRequestStep, ReadOrder, FindOpenLink, LockPayment, GatewayCreatesLink, CommitLink,
         RequestFails, SetRequest, DirectInv, DirectTypeOK, Requests, Phases
<1>2. DirectTypeOK'
  BY <1>1 DEF DirectInv, DirectTypeOK, LinkStatuses
<1>3. \A l \in Links : linkStatus'[l] = "paid" => linkStatus[l] = "paid"
  BY <1>1 DEF DirectInv, DirectTypeOK
<1> QED
  BY <1>1, <1>2, <1>3, QuietStep

LEMMA KeepsLinkMoves ==
    ASSUME DirectInv, NEW l \in Links, LinkMoves(l)
    PROVE  DirectInv'
<1> USE DEF tables, eventTable
<1>1. DirectTypeOK'
  BY DEF LinkMoves, PayLink, CloseLink, DirectInv, DirectTypeOK
<1>2. UNCHANGED <<tables, eventTable>> /\ paid \subseteq paid'
  BY DEF LinkMoves, PayLink, CloseLink
<1> QED
  BY <1>1, <1>2, QuietStep

LEMMA KeepsRecordEvent ==
    ASSUME DirectInv, NEW e \in Events, RecordEvent(e)
    PROVE  DirectInv'
<1> USE DEF tables, gateway, RecordEvent
<1>1. DirectTypeOK'
  BY DirectAssumption DEF DirectInv, DirectTypeOK
<1>2. \A f \in Events : f[1] \in PaidNews /\ handling'[f] > 0 => handling[f] > 0 \/ f[2] \in paid
  BY DEF DirectInv, DirectTypeOK, Announced
<1> QED
  BY <1>1, <1>2, QuietStep

\* A delivery that ends, in whatever way, was under way.
LEMMA DeliveryEnds ==
    ASSUME DirectTypeOK, NEW e \in Events, handling[e] > 0,
           handling' = [handling EXCEPT ![e] = @ - 1]
    PROVE  /\ handling' \in [Events -> 0..MaxHandlers]
           /\ \A f \in Events : handling'[f] > 0 => handling[f] > 0
BY DirectAssumption DEF DirectTypeOK

LEMMA KeepsHandlerEnds ==
    ASSUME DirectInv, NEW e \in Events, HandlerEndsInVain(e)
    PROVE  DirectInv'
<1> USE DEF tables, gateway, HandlerEndsInVain
<1>1. /\ handling' \in [Events -> 0..MaxHandlers]
      /\ \A f \in Events : handling'[f] > 0 => handling[f] > 0
  BY DeliveryEnds DEF DirectInv
<1>2. DirectTypeOK'
  BY <1>1 DEF DirectInv, DirectTypeOK
<1> QED
  BY <1>1, <1>2, QuietStep

LEMMA KeepsLinkClosed ==
    ASSUME DirectInv, NEW l \in Links, NEW type \in LinkNews, ProcessLinkClosed(type, l)
    PROVE  DirectInv'
<1> DEFINE e == <<type, l>>
<1> USE DEF gateway, FinishEvent
<1>0. e \in Events /\ e[1] \notin PaidNews
  BY LinkOrders, NewsDiffer
<1>1. /\ handling' \in [Events -> 0..MaxHandlers]
      /\ \A f \in Events : handling'[f] > 0 => handling[f] > 0
  BY <1>0, DeliveryEnds DEF DirectInv, ProcessLinkClosed
<1>2. DirectTypeOK'
  BY <1>0, <1>1 DEF DirectInv, DirectTypeOK, ProcessLinkClosed, ClosedStatus, LinkStatuses
<1>3. PaidLinkPaidTheOrder'
  BY DEF DirectInv, DirectTypeOK, PaidLinkPaidTheOrder, ProcessLinkClosed, ClosedStatus
<1>4. SettledByPaidLink'
  BY <1>1 DEF DirectInv, SettledByPaidLink, ProcessLinkClosed
<1>5. ProcessedMeansSettled'
  BY <1>0 DEF DirectInv, ProcessedMeansSettled, ProcessLinkClosed
<1> QED
  BY <1>2, <1>3, <1>4, <1>5 DEF DirectInv

\* A settlement comes from an event under way, for an open order or again by
\* the payment that settled it.
LEMMA SettlementFacts ==
    ASSUME DirectInv, NEW l \in Links, Settles(l)
    PROVE  \E e \in Events :
             /\ e[2] = l /\ e[1] \in PaidNews /\ handling[e] > 0
             /\ processed' = processed \cup {e}
             /\ handling' = [handling EXCEPT ![e] = @ - 1]
             /\ paidBy[OrderOf(l)] \in {NoLink, l}
             /\ SettleBy(l)
             /\ UNCHANGED <<opened, closed, paid, request>>
             /\ \/ UNCHANGED linkStatus
                \/ linkStatus' = [linkStatus EXCEPT ![l] = "paid"]
<1> USE DEF SettlementRefused, FinishEvent, gateway
<1>1. CASE ProcessLinkPaid(l)
  <2>1. <<"payment_link.paid", l>> \in Events
    BY LinkOrders, NewsDiffer
  <2> QED
    BY <1>1, <2>1, NewsDiffer DEF ProcessLinkPaid
<1>2. CASE \E type \in PaymentNews : ProcessPaymentNews(type, l)
  <2>1. PICK type \in PaymentNews : ProcessPaymentNews(type, l)
    BY <1>2
  <2>2. <<type, l>> \in Events
    BY LinkOrders, NewsDiffer
  <2> QED
    BY <2>1, <2>2, NewsDiffer DEF ProcessPaymentNews
<1> QED
  BY <1>1, <1>2 DEF Settles

LEMMA KeepsSettles ==
    ASSUME DirectInv, NEW l \in Links, Settles(l)
    PROVE  DirectInv'
<1>1. PICK e \in Events :
             /\ e[2] = l /\ e[1] \in PaidNews /\ handling[e] > 0
             /\ processed' = processed \cup {e}
             /\ handling' = [handling EXCEPT ![e] = @ - 1]
             /\ paidBy[OrderOf(l)] \in {NoLink, l}
             /\ SettleBy(l)
             /\ UNCHANGED <<opened, closed, paid, request>>
             /\ \/ UNCHANGED linkStatus
                \/ linkStatus' = [linkStatus EXCEPT ![l] = "paid"]
  BY SettlementFacts
<1>2. /\ handling' \in [Events -> 0..MaxHandlers]
      /\ \A f \in Events : handling'[f] > 0 => handling[f] > 0
  BY <1>1, DeliveryEnds DEF DirectInv
<1>3. OrderOf(l) \in Orders /\ l # NoLink /\ l \in paid
  BY <1>1, LinkOrders DEF DirectInv, SettledByPaidLink
<1>4. paidBy' = [paidBy EXCEPT ![OrderOf(l)] = l]
  BY <1>1 DEF SettleBy
<1>5. orderStatus' = [orderStatus EXCEPT ![OrderOf(l)] = "confirmed"]
  BY <1>1 DEF SettleBy
<1>6. DirectTypeOK'
  BY <1>1, <1>2, <1>3, <1>4, <1>5 DEF DirectInv, DirectTypeOK, LinkStatuses
<1>7. SettledByPaidLink'
  BY <1>1, <1>2, <1>3, <1>4, <1>5 DEF DirectInv, DirectTypeOK, SettledByPaidLink
<1>8. PaidLinkPaidTheOrder'
  BY <1>1, <1>3, <1>4, LinkOrders DEF DirectInv, DirectTypeOK, PaidLinkPaidTheOrder
<1>9. ProcessedMeansSettled'
  BY <1>1, <1>3, <1>4, LinkOrders DEF DirectInv, DirectTypeOK, ProcessedMeansSettled
<1> QED
  BY <1>6, <1>7, <1>8, <1>9 DEF DirectInv

\* What is settled stays settled by the same payment, in every step.
LEMMA SettlementStays ==
    ASSUME DirectInv, [Next]_vars, NEW o \in Orders, paidBy[o] # NoLink
    PROVE  paidBy'[o] = paidBy[o] /\ orderStatus'[o] = "confirmed"
<1> USE DEF directVars, tables, gateway, eventTable
<1>0. orderStatus[o] = "confirmed"
  BY DEF DirectInv, SettledByPaidLink
<1>1. CASE \E l \in Links : Settles(l)
  <2>1. PICK l \in Links : Settles(l)
    BY <1>1
  <2>2. paidBy[OrderOf(l)] \in {NoLink, l} /\ SettleBy(l)
    BY <2>1, SettlementFacts
  <2> QED
    BY <1>0, <2>2, LinkOrders DEF SettleBy, DirectInv, DirectTypeOK
<1>2. CASE \E q \in Orders : CreateDirectOrder(q)
  BY <1>0, <1>2 DEF CreateDirectOrder, DirectInv, DirectTypeOK
<1>3. CASE UNCHANGED <<paidBy, orderStatus>>
  BY <1>0, <1>3
<1> QED
  BY <1>1, <1>2, <1>3
     DEF Next, vars, PlaceOrder, RequestLink, LinkRequestStep, ReadOrder, FindOpenLink, LockPayment,
         GatewayCreatesLink, CommitLink, RequestFails, GatewayMoves, LinkMoves, PayLink, CloseLink,
         WebhookArrives, RecordEvent, HandlerEndsInVain, ProcessLinkClosed, SettleAndInvoice,
         InvoiceWork

LEMMA KeepsDirectInv ==
    ASSUME DirectInv, [Next]_vars
    PROVE  DirectInv'
<1>1. CASE UNCHANGED directVars
  BY <1>1 DEF directVars, DirectInv, DirectTypeOK, SettledByPaidLink, PaidLinkPaidTheOrder,
              ProcessedMeansSettled
<1>2. CASE PlaceOrder
  BY <1>2, KeepsPlaceOrder DEF PlaceOrder
<1>3. CASE RequestLink
  BY <1>3, KeepsRequest DEF RequestLink
<1>4. CASE GatewayMoves
  BY <1>4, KeepsLinkMoves DEF GatewayMoves
<1>5. CASE WebhookArrives
  BY <1>5, KeepsRecordEvent, KeepsHandlerEnds, KeepsLinkClosed, KeepsSettles
     DEF WebhookArrives, SettleAndInvoice
<1> QED
  BY <1>1, <1>2, <1>3, <1>4, <1>5 DEF Next, vars, InvoiceWork

-----------------------------------------------------------------------------
(***************************************************************************)
(* Invoices.                                                               *)
(***************************************************************************)
\* What the two ways of advancing a task do to it.
LEMMA GoOnFacts ==
    ASSUME InvoiceTypeOK, NEW w \in Workers, NEW s \in Steps, NEW c \in InvoiceRows, GoOn(w, s, c)
    PROVE  /\ task' \in [Workers -> Tasks]
           /\ task'[w].step = s /\ task'[w].copy = c /\ task'[w].order = task[w].order
           /\ \A v \in Workers : v # w => task'[v] = task[v]
BY DEF GoOn, InvoiceTypeOK, Tasks

LEMMA BlankRow == NoInvoice \in InvoiceRows
BY DEF NoInvoice, InvoiceRows

LEMMA FinishFacts ==
    ASSUME InvoiceTypeOK, NEW w \in Workers, Finish(w)
    PROVE  /\ task' \in [Workers -> Tasks]
           /\ task'[w].step = "idle" /\ task'[w].copy = NoInvoice
           /\ \A v \in Workers : v # w => task'[v] = task[v]
BY BlankRow DEF Finish, Resting, InvoiceTypeOK, Tasks, Steps

LEMMA TaskTypes ==
    ASSUME InvoiceTypeOK, NEW w \in Workers
    PROVE  task[w].order \in Orders /\ task[w].copy \in InvoiceRows
BY DEF InvoiceTypeOK, Tasks

\* A step of one worker that only adds to what is there leaves the copies of
\* the others as true as they were.
LEMMA OneWorkerMoves ==
    ASSUME InvoiceInv, InvoiceTypeOK', UNCHANGED paidBy, NEW w \in Workers,
           \A v \in Workers : v # w => task'[v] = task[v],
           \A o \in Orders : HasInvoice(o) => HasInvoice(o)' /\ (invoice[o].pdf => invoice'[o].pdf),
           stored \subseteq stored', mailed \subseteq mailed',
           CopyIsOld(w)', StatusIsEarned', InvoiceIsTruthful'
    PROVE  InvoiceInv'
<1>1. ASSUME NEW v \in Workers, v # w PROVE CopyIsOld(v)'
  BY <1>1, TaskTypes DEF InvoiceInv, CopiesAreOld, CopyIsOld
<1> QED
  BY <1>1 DEF InvoiceInv, CopiesAreOld

LEMMA KeepsCreateInvoice ==
    ASSUME InvoiceInv, UNCHANGED <<paidBy, orderStatus>>, DirectTypeOK,
           NEW w \in Workers, CreateInvoice(w)
    PROVE  InvoiceInv'
<1> DEFINE o == task[w].order
           row == Canonical(o)
<1>0. o \in Orders /\ InvoiceTypeOK
  BY TaskTypes DEF InvoiceInv
<1>1. CASE /\ HasInvoice(o) \/ Eligible(o)
           /\ invoice' = [invoice EXCEPT ![o] = row]
           /\ GoOn(w, IF row.pdf THEN "mark" ELSE "upload", row)
  <2>1. /\ row \in InvoiceRows /\ row.status # "none"
        /\ HasInvoice(o) => row = invoice[o]
        /\ ~HasInvoice(o) => /\ row.payment = paidBy[o] /\ paidBy[o] # NoLink
                             /\ ~row.pdf /\ row.email = "pending" /\ row.status = "pending"
    BY <1>0, <1>1 DEF Canonical, HasInvoice, NoInvoice, InvoiceTypeOK, InvoiceRows, DirectTypeOK, Eligible
  <2>2. /\ task' \in [Workers -> Tasks]
        /\ task'[w].step = (IF row.pdf THEN "mark" ELSE "upload")
        /\ task'[w].copy = row /\ task'[w].order = o
        /\ \A v \in Workers : v # w => task'[v] = task[v]
    BY <1>0, <1>1, <2>1, GoOnFacts DEF Steps
  <2>3. /\ invoice'[o] = row /\ \A q \in Orders : q # o => invoice'[q] = invoice[q]
        /\ invoice' \in [Orders -> InvoiceRows]
    BY <1>0, <1>1, <2>1 DEF InvoiceTypeOK
  <2>4. UNCHANGED <<stored, mailed>> /\ InvoiceTypeOK'
    BY <2>2, <2>3 DEF CreateInvoice, InvoiceInv, InvoiceTypeOK
  <2>5. StatusIsEarned' /\ InvoiceIsTruthful'
    BY <1>0, <2>1, <2>3, <2>4 DEF InvoiceInv, StatusIsEarned, InvoiceIsTruthful, HasInvoice
  <2>6. \A q \in Orders : HasInvoice(q) => HasInvoice(q)' /\ (invoice[q].pdf => invoice'[q].pdf)
    BY <1>0, <2>1, <2>3 DEF HasInvoice
  <2>7. CopyIsOld(w)'
    BY <1>0, <2>1, <2>2, <2>3, <2>4, <2>5 DEF CopyIsOld, HasInvoice, StatusIsEarned
  <2> QED
    BY <2>2, <2>4, <2>5, <2>6, <2>7, OneWorkerMoves
<1>2. CASE Finish(w) /\ UNCHANGED invoice
  <2>1. UNCHANGED <<stored, mailed>>
    BY DEF CreateInvoice
  <2> QED
    BY <1>0, <1>2, <2>1, FinishFacts, OneWorkerMoves
       DEF InvoiceInv, InvoiceTypeOK, StatusIsEarned, InvoiceIsTruthful, HasInvoice, CopyIsOld, NoInvoice
<1> QED
  BY <1>1, <1>2 DEF CreateInvoice

\* A task that ends without writing, by completion or death of its process.
LEMMA KeepsFinish ==
    ASSUME InvoiceInv, UNCHANGED <<paidBy, invoice, stored, mailed>>, NEW w \in Workers, Finish(w)
    PROVE  InvoiceInv'
BY FinishFacts, OneWorkerMoves
   DEF InvoiceInv, InvoiceTypeOK, StatusIsEarned, InvoiceIsTruthful, HasInvoice, CopyIsOld, NoInvoice

\* The workflow writes one field of a row that exists, or nothing.
LEMMA KeepsStorage ==
    ASSUME InvoiceInv, UNCHANGED paidBy, NEW w \in Workers,
           UploadPdf(w) \/ SavePdf(w) \/ Reload(w)
    PROVE  InvoiceInv'
<1> DEFINE o == task[w].order
<1>0. o \in Orders /\ task[w].copy \in InvoiceRows /\ invoice[o] \in InvoiceRows /\ InvoiceTypeOK
  BY TaskTypes DEF InvoiceInv, InvoiceTypeOK
<1>a. [task[w].copy EXCEPT !.pdf = TRUE] \in InvoiceRows
  BY <1>0 DEF InvoiceRows
<1>1. CASE UploadPdf(w)
  <2>1. /\ task' \in [Workers -> Tasks]
        /\ task'[w].step = "save_pdf" /\ task'[w].order = o
        /\ task'[w].copy = [task[w].copy EXCEPT !.pdf = TRUE]
        /\ \A v \in Workers : v # w => task'[v] = task[v]
    BY <1>0, <1>a, <1>1, GoOnFacts DEF UploadPdf, Steps
  <2>2. InvoiceTypeOK' /\ StatusIsEarned' /\ InvoiceIsTruthful'
    BY <1>0, <1>1, <2>1 DEF UploadPdf, InvoiceInv, InvoiceTypeOK, StatusIsEarned, InvoiceIsTruthful, HasInvoice
  <2>3. task'[w].copy.pdf /\ task'[w].copy.email = task[w].copy.email
    BY <1>0, <2>1 DEF InvoiceRows
  <2>4. CopyIsOld(w)'
    BY <1>0, <1>1, <2>1, <2>3 DEF UploadPdf, InvoiceInv, CopiesAreOld, CopyIsOld, HasInvoice
  <2> QED
    BY <1>1, <2>1, <2>2, <2>4, OneWorkerMoves DEF UploadPdf, HasInvoice
<1>2. CASE SavePdf(w)
  <2>1. /\ task' \in [Workers -> Tasks]
        /\ task'[w].step = "reload" /\ task'[w].order = o /\ task'[w].copy = task[w].copy
        /\ \A v \in Workers : v # w => task'[v] = task[v]
    BY <1>0, <1>2, GoOnFacts DEF SavePdf, Steps
  <2>2. /\ invoice' \in [Orders -> InvoiceRows]
        /\ invoice'[o].pdf /\ invoice'[o].status = invoice[o].status
        /\ invoice'[o].email = invoice[o].email /\ invoice'[o].payment = invoice[o].payment
        /\ \A q \in Orders : q # o => invoice'[q] = invoice[q]
    BY <1>0, <1>2 DEF SavePdf, InvoiceTypeOK, InvoiceRows
  <2>3. o \in stored /\ HasInvoice(o)
    BY <1>0, <1>2 DEF SavePdf, InvoiceInv, CopiesAreOld, CopyIsOld
  <2>4. InvoiceTypeOK' /\ StatusIsEarned' /\ InvoiceIsTruthful'
    BY <1>0, <1>2, <2>1, <2>2, <2>3
       DEF SavePdf, InvoiceInv, InvoiceTypeOK, StatusIsEarned, InvoiceIsTruthful, HasInvoice
  <2>5. CopyIsOld(w)'
    BY <1>0, <1>2, <2>1, <2>2, <2>3 DEF SavePdf, InvoiceInv, CopiesAreOld, CopyIsOld, HasInvoice
  <2>6. \A q \in Orders : HasInvoice(q) => HasInvoice(q)' /\ (invoice[q].pdf => invoice'[q].pdf)
    BY <2>2 DEF HasInvoice
  <2> QED
    BY <1>2, <2>1, <2>4, <2>5, <2>6, OneWorkerMoves DEF SavePdf
<1>3. CASE Reload(w)
  <2>1. /\ task' \in [Workers -> Tasks]
        /\ task'[w].step = "mark" /\ task'[w].order = o /\ task'[w].copy = invoice[o]
        /\ \A v \in Workers : v # w => task'[v] = task[v]
    BY <1>0, <1>3, GoOnFacts DEF Reload, Steps
  <2>2. InvoiceTypeOK' /\ StatusIsEarned' /\ InvoiceIsTruthful'
    BY <1>0, <1>3, <2>1 DEF Reload, InvoiceInv, InvoiceTypeOK, StatusIsEarned, InvoiceIsTruthful, HasInvoice
  <2>3. CopyIsOld(w)'
    BY <1>0, <1>3, <2>1 DEF Reload, InvoiceInv, CopiesAreOld, CopyIsOld, HasInvoice, StatusIsEarned
  <2> QED
    BY <1>3, <2>1, <2>2, <2>3, OneWorkerMoves DEF Reload, HasInvoice
<1> QED
  BY <1>1, <1>2, <1>3

\* Writing a status that is earned to a row that exists.
LEMMA KeepsStatusWrite ==
    ASSUME InvoiceInv, UNCHANGED <<paidBy, stored, mailed>>, NEW w \in Workers,
           NEW s \in {"pending", "generated", "sent", "failed"},
           HasInvoice(task[w].order),
           s = "generated" => invoice[task[w].order].pdf,
           s = "sent" => task[w].order \in mailed,
           invoice' = [invoice EXCEPT ![task[w].order].status = s],
           task' \in [Workers -> Tasks],
           \A v \in Workers : v # w => task'[v] = task[v],
           \/ task'[w].step = "idle" /\ task'[w].copy = NoInvoice
           \/ /\ task'[w].step = "refresh" /\ task'[w].order = task[w].order
              /\ task[w].step = "mark"
              /\ task'[w].copy.pdf = task[w].copy.pdf /\ task'[w].copy.email = task[w].copy.email
    PROVE  InvoiceInv'
<1> DEFINE o == task[w].order
<1>0. o \in Orders /\ InvoiceTypeOK
  BY TaskTypes DEF InvoiceInv
<1>1. /\ invoice' \in [Orders -> InvoiceRows]
      /\ invoice'[o].status = s /\ invoice'[o].pdf = invoice[o].pdf
      /\ invoice'[o].email = invoice[o].email /\ invoice'[o].payment = invoice[o].payment
      /\ \A q \in Orders : q # o => invoice'[q] = invoice[q]
  BY <1>0 DEF InvoiceTypeOK, InvoiceRows
<1>2. InvoiceTypeOK'
  BY <1>1 DEF InvoiceInv, InvoiceTypeOK
<1>3. \A q \in Orders : HasInvoice(q) => HasInvoice(q)' /\ (invoice[q].pdf => invoice'[q].pdf)
  BY <1>0, <1>1 DEF HasInvoice
<1>4. InvoiceIsTruthful'
  BY <1>0, <1>1 DEF InvoiceInv, InvoiceIsTruthful, HasInvoice
<1>5. StatusIsEarned'
  BY <1>0, <1>1 DEF InvoiceInv, StatusIsEarned
<1>6. CopyIsOld(w)'
  BY <1>0, <1>1, <1>3 DEF InvoiceInv, CopiesAreOld, CopyIsOld, NoInvoice
<1> QED
  BY <1>2, <1>3, <1>4, <1>5, <1>6, OneWorkerMoves

LEMMA KeepsStatus ==
    ASSUME InvoiceInv, UNCHANGED paidBy, NEW w \in Workers,
           MarkGenerated(w) \/ RefreshStatus(w) \/ WorkflowFails(w)
    PROVE  InvoiceInv'
<1> DEFINE o == task[w].order
           copy == task[w].copy
<1>0. o \in Orders /\ copy \in InvoiceRows /\ InvoiceTypeOK /\ CopyIsOld(w)
  BY TaskTypes DEF InvoiceInv, CopiesAreOld
<1>1. CASE MarkGenerated(w)
  <2>1. HasInvoice(o) /\ invoice[o].pdf /\ UNCHANGED <<stored, mailed>> /\ task[w].step = "mark"
    BY <1>0, <1>1 DEF MarkGenerated, CopyIsOld
  <2>2. CASE copy.status = "pending"
    <3>1. [copy EXCEPT !.status = "generated"] \in InvoiceRows
      BY <1>0 DEF InvoiceRows
    <3>2. /\ task' \in [Workers -> Tasks]
          /\ task'[w].step = "refresh" /\ task'[w].order = o
          /\ task'[w].copy = [copy EXCEPT !.status = "generated"]
          /\ \A v \in Workers : v # w => task'[v] = task[v]
      BY <1>0, <1>1, <2>2, <3>1, GoOnFacts DEF MarkGenerated, Steps
    <3>3. task'[w].copy.pdf = copy.pdf /\ task'[w].copy.email = copy.email
      BY <1>0, <3>2 DEF InvoiceRows
    <3>4. invoice' = [invoice EXCEPT ![o].status = "generated"]
      BY <1>1, <2>2 DEF MarkGenerated
    <3> QED
      BY <2>1, <3>2, <3>3, <3>4, KeepsStatusWrite
  <2>3. CASE copy.status # "pending"
    <3>1. /\ task' \in [Workers -> Tasks]
          /\ task'[w].step = "refresh" /\ task'[w].order = o /\ task'[w].copy = copy
          /\ \A v \in Workers : v # w => task'[v] = task[v]
      BY <1>0, <1>1, <2>3, GoOnFacts DEF MarkGenerated, Steps
    <3>2. UNCHANGED invoice
      BY <1>1, <2>3 DEF MarkGenerated
    <3>3. InvoiceTypeOK' /\ StatusIsEarned' /\ InvoiceIsTruthful'
      BY <2>1, <3>1, <3>2 DEF InvoiceInv, InvoiceTypeOK, StatusIsEarned, InvoiceIsTruthful, HasInvoice
    <3>4. CopyIsOld(w)'
      BY <1>0, <2>1, <3>1, <3>2 DEF CopyIsOld, HasInvoice
    <3> QED
      BY <2>1, <3>1, <3>2, <3>3, <3>4, OneWorkerMoves DEF HasInvoice
  <2> QED
    BY <2>2, <2>3
<1>2. CASE RefreshStatus(w)
  <2>1. UNCHANGED <<stored, mailed>> /\ task[w].step = "refresh" /\ HasInvoice(o) /\ Finish(w)
    BY <1>0, <1>2 DEF RefreshStatus, CopyIsOld
  <2>2. /\ StatusOf(copy) \in {"pending", "generated", "sent", "failed"}
        /\ StatusOf(copy) = "generated" => copy.pdf
        /\ StatusOf(copy) = "sent" => copy.email = "sent"
    BY <1>0 DEF StatusOf, InvoiceRows
  <2>3. invoice' = [invoice EXCEPT ![o].status = StatusOf(copy)]
    BY <1>2 DEF RefreshStatus
  <2>4. /\ StatusOf(copy) = "generated" => invoice[o].pdf
        /\ StatusOf(copy) = "sent" => o \in mailed
    BY <1>0, <2>1, <2>2 DEF CopyIsOld
  <2> QED
    BY <1>0, <2>1, <2>2, <2>3, <2>4, FinishFacts, KeepsStatusWrite
<1>3. CASE WorkflowFails(w)
  <2>1. UNCHANGED <<stored, mailed>> /\ HasInvoice(o) /\ Finish(w)
    BY <1>0, <1>3 DEF WorkflowFails, CopyIsOld
  <2>2. invoice' = [invoice EXCEPT ![o].status = "failed"]
    BY <1>3 DEF WorkflowFails
  <2> QED
    BY <1>0, <2>1, <2>2, FinishFacts, KeepsStatusWrite
<1> QED
  BY <1>1, <1>2, <1>3

LEMMA KeepsMail ==
    ASSUME InvoiceInv, UNCHANGED paidBy, NEW w \in Workers,
           (\E q \in Orders : ReadForMail(w, q)) \/ SendMail(w) \/ SaveMail(w)
    PROVE  InvoiceInv'
<1> DEFINE o == task[w].order
           copy == task[w].copy
<1>0. o \in Orders /\ copy \in InvoiceRows /\ InvoiceTypeOK /\ CopyIsOld(w)
  BY TaskTypes DEF InvoiceInv, CopiesAreOld
<1>1. ASSUME NEW q \in Orders, ReadForMail(w, q)
      PROVE  InvoiceInv'
  <2> DEFINE t == [step |-> "send", order |-> q, copy |-> invoice[q]]
  <2>1. t \in Tasks
    BY <1>0 DEF InvoiceTypeOK, Tasks, Steps
  <2>2. /\ task' \in [Workers -> Tasks] /\ task'[w] = t
        /\ \A v \in Workers : v # w => task'[v] = task[v]
    BY <1>0, <1>1, <2>1 DEF ReadForMail, InvoiceTypeOK
  <2>3. InvoiceTypeOK' /\ StatusIsEarned' /\ InvoiceIsTruthful'
    BY <1>0, <1>1, <2>2 DEF ReadForMail, InvoiceInv, InvoiceTypeOK, StatusIsEarned, InvoiceIsTruthful, HasInvoice
  <2>4. CopyIsOld(w)'
    BY <1>1, <2>2 DEF ReadForMail, InvoiceInv, StatusIsEarned, CopyIsOld, HasInvoice
  <2> QED
    BY <1>1, <2>2, <2>3, <2>4, OneWorkerMoves DEF ReadForMail, HasInvoice
<1>2. CASE SendMail(w)
  <2>1. PICK accepted \in BOOLEAN :
          /\ task[w].step = "send"
          /\ mailed' = IF accepted THEN mailed \cup {o} ELSE mailed
          /\ GoOn(w, "save_mail", [copy EXCEPT !.email = IF accepted THEN "sent" ELSE "failed"])
          /\ UNCHANGED <<invoice, stored>>
    BY <1>2 DEF SendMail
  <2> DEFINE row == [copy EXCEPT !.email = IF accepted THEN "sent" ELSE "failed"]
  <2>2. row \in InvoiceRows /\ row.pdf = copy.pdf /\ (row.email = "sent" => o \in mailed')
    BY <1>0, <2>1 DEF InvoiceRows
  <2>3. /\ task' \in [Workers -> Tasks]
        /\ task'[w].step = "save_mail" /\ task'[w].order = o /\ task'[w].copy = row
        /\ \A v \in Workers : v # w => task'[v] = task[v]
    BY <1>0, <2>1, <2>2, GoOnFacts DEF Steps
  <2>4. InvoiceTypeOK' /\ StatusIsEarned' /\ InvoiceIsTruthful'
    BY <1>0, <2>1, <2>3 DEF InvoiceInv, InvoiceTypeOK, StatusIsEarned, InvoiceIsTruthful, HasInvoice
  <2>5. CopyIsOld(w)'
    BY <1>0, <2>1, <2>2, <2>3 DEF CopyIsOld, HasInvoice
  <2> QED
    BY <2>1, <2>3, <2>4, <2>5, OneWorkerMoves DEF HasInvoice
<1>3. CASE SaveMail(w)
  <2>1. /\ task' \in [Workers -> Tasks]
        /\ task'[w].step = "refresh" /\ task'[w].order = o /\ task'[w].copy = copy
        /\ \A v \in Workers : v # w => task'[v] = task[v]
    BY <1>0, <1>3, GoOnFacts DEF SaveMail, Steps
  <2>2. HasInvoice(o) /\ (copy.email = "sent" => o \in mailed) /\ task[w].step = "save_mail"
    BY <1>0, <1>3 DEF SaveMail, CopyIsOld
  <2>3. /\ invoice' \in [Orders -> InvoiceRows]
        /\ invoice'[o].email = copy.email /\ invoice'[o].pdf = invoice[o].pdf
        /\ invoice'[o].status = invoice[o].status /\ invoice'[o].payment = invoice[o].payment
        /\ \A q \in Orders : q # o => invoice'[q] = invoice[q]
    BY <1>0, <1>3 DEF SaveMail, InvoiceTypeOK, InvoiceRows
  <2>4. UNCHANGED <<stored, mailed>>
    BY <1>3 DEF SaveMail
  <2>5. InvoiceTypeOK' /\ StatusIsEarned' /\ InvoiceIsTruthful'
    BY <1>0, <2>1, <2>2, <2>3, <2>4
       DEF InvoiceInv, InvoiceTypeOK, StatusIsEarned, InvoiceIsTruthful, HasInvoice
  <2>6. CopyIsOld(w)'
    BY <1>0, <2>1, <2>2, <2>3, <2>4 DEF CopyIsOld, HasInvoice
  <2>7. \A q \in Orders : HasInvoice(q) => HasInvoice(q)' /\ (invoice[q].pdf => invoice'[q].pdf)
    BY <2>3 DEF HasInvoice
  <2> QED
    BY <2>1, <2>4, <2>5, <2>6, <2>7, OneWorkerMoves
<1> QED
  BY <1>1, <1>2, <1>3

LEMMA KeepsInvoiceWork ==
    ASSUME DirectInv, InvoiceInv, InvoiceWork
    PROVE  InvoiceInv'
<1>1. PICK w \in Workers : InvoiceStep(w)
  BY DEF InvoiceWork
<1>2. UNCHANGED <<paidBy, orderStatus>> /\ DirectTypeOK
  BY DEF InvoiceWork, directVars, DirectInv
<1>3. CASE WorkerDies(w)
  BY <1>2, <1>3, KeepsFinish DEF WorkerDies
<1> QED
  BY <1>1, <1>2, <1>3, KeepsCreateInvoice, KeepsStorage, KeepsStatus, KeepsMail DEF InvoiceStep

\* When a settlement comes, the invoices so far belong to settled orders, which
\* keep their payment.
LEMMA KeepsInvoicesOnSettle ==
    ASSUME DirectInv, InvoiceInv, NEW l \in Links, SettleAndInvoice(l)
    PROVE  InvoiceInv'
<1>1. OrderOf(l) \in Orders
  BY LinkOrders
<1>2. \A o \in Orders : HasInvoice(o) => paidBy'[o] = paidBy[o]
  BY SettlementStays DEF InvoiceInv, InvoiceIsTruthful, Next, WebhookArrives
<1>3. UNCHANGED <<invoice, stored, mailed>>
  BY DEF SettleAndInvoice, ScheduleWorkflow
<1>4. InvoiceIsTruthful' /\ StatusIsEarned'
  BY <1>2, <1>3 DEF InvoiceInv, InvoiceIsTruthful, StatusIsEarned, HasInvoice
<1>5. ASSUME NEW w \in Workers, task' = [task EXCEPT ![w] = [Resting(OrderOf(l)) EXCEPT !.step = "create"]]
      PROVE  InvoiceTypeOK' /\ CopiesAreOld'
  <2>1. [Resting(OrderOf(l)) EXCEPT !.step = "create"]
          = [step |-> "create", order |-> OrderOf(l), copy |-> NoInvoice]
    BY DEF Resting
  <2>2. [step |-> "create", order |-> OrderOf(l), copy |-> NoInvoice] \in Tasks
    BY <1>1, BlankRow DEF Tasks, Steps
  <2>3. /\ task' \in [Workers -> Tasks]
        /\ task'[w] = [step |-> "create", order |-> OrderOf(l), copy |-> NoInvoice]
        /\ \A v \in Workers : v # w => task'[v] = task[v]
    BY <1>5, <2>1, <2>2 DEF InvoiceInv, InvoiceTypeOK
  <2> QED
    BY <1>3, <2>3 DEF InvoiceInv, InvoiceTypeOK, CopiesAreOld, CopyIsOld, HasInvoice, NoInvoice
<1>6. CASE UNCHANGED task
  BY <1>3, <1>4, <1>6 DEF InvoiceInv, InvoiceTypeOK, CopiesAreOld, CopyIsOld, HasInvoice
<1> QED
  BY <1>4, <1>5, <1>6 DEF SettleAndInvoice, ScheduleWorkflow, InvoiceInv

LEMMA KeepsInvoiceInv ==
    ASSUME DirectInv, InvoiceInv, [Next]_vars
    PROVE  InvoiceInv'
<1>1. CASE InvoiceWork
  BY <1>1, KeepsInvoiceWork
<1>2. CASE \E l \in Links : SettleAndInvoice(l)
  BY <1>2, KeepsInvoicesOnSettle
<1>3. CASE UNCHANGED invoiceVars
  <2>1. \A o \in Orders : HasInvoice(o) => paidBy'[o] = paidBy[o]
    BY SettlementStays DEF InvoiceInv, InvoiceIsTruthful
  <2> QED
    BY <1>3, <2>1 DEF InvoiceInv, InvoiceTypeOK, StatusIsEarned, InvoiceIsTruthful, CopiesAreOld,
                      CopyIsOld, HasInvoice, invoiceVars
<1> QED
  BY <1>1, <1>2, <1>3
     DEF Next, vars, PlaceOrder, RequestLink, GatewayMoves, WebhookArrives

-----------------------------------------------------------------------------
\* The inductive invariant holds.
THEOREM SalesInvariant == Spec => []IInv
<1>1. Init => IInv
  BY InvariantInit
<1>2. IInv /\ [Next]_vars => IInv'
  BY KeepsDirectInv, KeepsInvoiceInv DEF IInv
<1> QED
  BY <1>1, <1>2, PTL DEF Spec

\* Every reachable state of direct sales is well typed.
THEOREM SalesTypeCorrect == Spec => []TypeOK
<1>1. IInv => TypeOK
  BY DEF IInv, DirectInv, InvoiceInv, TypeOK
<1> QED
  BY <1>1, SalesInvariant, PTL

\* The link shown as paid is the one whose payment settled the order.
THEOREM PaidLinksPaid == Spec => []PaidLinkPaidTheOrder
<1>1. IInv => PaidLinkPaidTheOrder
  BY DEF IInv, DirectInv
<1> QED
  BY <1>1, SalesInvariant, PTL

\* A processed payment event has settled its order.
THEOREM ProcessedPaymentsSettled == Spec => []ProcessedMeansSettled
<1>1. IInv => ProcessedMeansSettled
  BY DEF IInv, DirectInv
<1> QED
  BY <1>1, SalesInvariant, PTL

\* A settled order stays settled, by the same payment.
THEOREM SettlementsAreFinal == Spec => PaymentIsFinal
<1>1. IInv /\ [Next]_vars =>
        [\A o \in Orders : paidBy[o] # NoLink =>
            paidBy'[o] = paidBy[o] /\ orderStatus'[o] = "confirmed"]_vars
  BY SettlementStays DEF IInv
<1> QED
  BY <1>1, SalesInvariant, PTL DEF Spec, PaymentIsFinal

\* An invoice names the payment that settled its order.
THEOREM InvoicesAreTruthful == Spec => []InvoiceIsTruthful
<1>1. IInv => InvoiceIsTruthful
  BY DEF IInv, InvoiceInv
<1> QED
  BY <1>1, SalesInvariant, PTL

\* An invoice's status claims nothing that did not happen.
THEOREM StatusesAreEarned == Spec => []StatusIsEarned
<1>1. IInv => StatusIsEarned
  BY DEF IInv, InvoiceInv
<1> QED
  BY <1>1, SalesInvariant, PTL
=============================================================================
