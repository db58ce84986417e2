----------------------------- MODULE DirectSales -----------------------------
(***************************************************************************)
(* Direct orders, their payment links and their invoices together: a       *)
(* settlement commits first and then starts the invoice workflow in the    *)
(* same process.                                                           *)
(***************************************************************************)
EXTENDS Invoices

vars == <<directVars, invoiceVars>>

TypeOK == DirectTypeOK /\ InvoiceTypeOK

Init == DirectInit /\ InvoiceInit

PlaceOrder ==
    /\ \E o \in Orders : CreateDirectOrder(o)
    /\ UNCHANGED invoiceVars

RequestLink ==
    /\ \E a \in Admins : LinkRequestStep(a)
    /\ UNCHANGED invoiceVars

GatewayMoves ==
    /\ \E l \in Links : LinkMoves(l)
    /\ UNCHANGED invoiceVars

\* Settlement and replay both schedule the invoice workflow.
SettleAndInvoice(l) == Settles(l) /\ ScheduleWorkflow(OrderOf(l))

WebhookArrives ==
    \/ \E e \in Events : RecordEvent(e) /\ UNCHANGED invoiceVars
    \/ \E e \in Events : HandlerEndsInVain(e) /\ UNCHANGED invoiceVars
    \/ \E l \in Links, type \in LinkNews :
           ProcessLinkClosed(type, l) /\ UNCHANGED invoiceVars
    \/ \E l \in Links : SettleAndInvoice(l)

InvoiceWork ==
    /\ \E w \in Workers : InvoiceStep(w)
    /\ UNCHANGED directVars

Next == PlaceOrder \/ RequestLink \/ GatewayMoves \/ WebhookArrives \/ InvoiceWork

Spec == Init /\ [][Next]_vars

\* The gateway redelivers until it gets a 200, a handler that can finish again
\* and again is not killed every time, and administrators do not ask for links
\* for ever (each request ends, and its lock with it: the gateway client has a
\* timeout and a dead process loses its locks).
Fairness ==
    /\ \A e \in Events : WF_vars(RecordEvent(e) /\ UNCHANGED invoiceVars)
    /\ \A l \in Links : SF_vars(SettleAndInvoice(l))
    /\ <>[](\A a \in Admins : request[a].phase = "idle")

FairSpec == Spec /\ Fairness

(***************************************************************************)
(* Payments.                                                               *)
(***************************************************************************)
\* The payment that settles a direct order is one the gateway took for a link
\* of that order, and it stays: neither a payment on another link, nor the
\* closing of this one, nor a failing invoice undoes or replaces it.
PaymentIsFinal ==
    [][\A o \in Orders : paidBy[o] # NoLink =>
          paidBy'[o] = paidBy[o] /\ orderStatus'[o] = "confirmed"]_vars

\* Of the links of an order the one shown as paid is the one whose payment
\* settled it, so at most one is.
PaidLinkPaidTheOrder ==
    \A l \in Links : linkStatus[l] = "paid" => paidBy[OrderOf(l)] = l

\* A payment event is marked processed only when its payment settled the
\* order: a second payment of an order keeps its event open.
ProcessedMeansSettled ==
    \A e \in processed : e[1] \in PaidNews => paidBy[OrderOf(e[2])] = e[2]

\* An order with a paid link is eventually settled, whatever closes the link
\* first and whoever is asking for another one.
PaymentsAreRecorded ==
    \A l \in Links : l \in paid ~> paidBy[OrderOf(l)] # NoLink

(***************************************************************************)
(* Invoices.                                                               *)
(***************************************************************************)
\* An invoice exists only for a settled order and names the payment that
\* settled it, whichever of the overlapping workflows created it.
InvoiceIsTruthful ==
    \A o \in Orders : HasInvoice(o) =>
        invoice[o].payment = paidBy[o] /\ paidBy[o] # NoLink

\* The status never claims more than happened: generated means that the PDF is
\* referenced and in storage, sent that the mail server took a message.
StatusIsEarned ==
    \A o \in Orders :
        /\ invoice[o].pdf => o \in stored
        /\ invoice[o].status = "generated" => invoice[o].pdf
        /\ invoice[o].status = "sent" \/ invoice[o].email = "sent" => o \in mailed

(***************************************************************************)
(* The inductive invariant.                                                *)
(***************************************************************************)
\* A payment exists for committed links only; a settled order is confirmed by
\* a paid link of its own.
SettledByPaidLink ==
    /\ \A o \in Orders : paidBy[o] # NoLink =>
           OrderOf(paidBy[o]) = o /\ paidBy[o] \in paid /\ orderStatus[o] = "confirmed"
    /\ \A e \in Events : e[1] \in PaidNews /\ handling[e] > 0 => e[2] \in paid

\* A worker's copy is a row its order had at some time.
CopyIsOld(w) ==
    LET o == task[w].order  copy == task[w].copy  step == task[w].step IN
    /\ step \notin {"idle", "create"} => HasInvoice(o)
    /\ copy.pdf => o \in stored
    /\ step \in {"save_pdf", "reload"} => o \in stored
    /\ step \in {"mark", "refresh", "send", "save_mail"} /\ copy.pdf => invoice[o].pdf
    /\ copy.email = "sent" => o \in mailed

CopiesAreOld == \A w \in Workers : CopyIsOld(w)

DirectInv == DirectTypeOK /\ SettledByPaidLink /\ PaidLinkPaidTheOrder /\ ProcessedMeansSettled
InvoiceInv == InvoiceTypeOK /\ InvoiceIsTruthful /\ StatusIsEarned /\ CopiesAreOld

IInv == DirectInv /\ InvoiceInv

(***************************************************************************)
(* What a comment says, and the code lets happen otherwise.                *)
(***************************************************************************)
\* "Reuse an already-active link instead of creating duplicates": at most one
\* open link per order.
OneOpenLink == \A o \in Orders : \A l, k \in OpenLinks(o) : l = k
=============================================================================
