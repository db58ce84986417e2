------------------------------ MODULE Invoices ------------------------------
(***************************************************************************)
(* The invoice of a paid order (invoices/services.py, storage.py,          *)
(* email.py).  After the commit of a settlement the process that ran it    *)
(* goes on to create the invoice, render and store its PDF, and derive its *)
(* status; each of these is a statement of its own, on a copy of the row   *)
(* that was read earlier, and the process may end after any of them.       *)
(* Administrators send the invoice by mail in the same way.                *)
(***************************************************************************)
EXTENDS DirectOrders

CONSTANT Workers   \* processes that can be busy with an invoice at one time

VARIABLES
    invoice,   \* Invoice row of an order, with status "none" before it exists
    stored,    \* orders whose PDF is in storage
    mailed,    \* orders whose invoice the mail server accepted at least once
    task       \* per worker: its next step, the order and its copy of the row

invoiceVars == <<invoice, stored, mailed, task>>

InvoiceRows ==
    [payment : Links \cup {NoLink}, pdf : BOOLEAN,
     email : {"pending", "sent", "failed"},
     status : {"none", "pending", "generated", "sent", "failed"}]
Steps == {"idle", "create", "upload", "save_pdf", "reload", "mark", "refresh",
          "send", "save_mail"}
Tasks == [step : Steps, order : Orders, copy : InvoiceRows]

NoInvoice == [payment |-> NoLink, pdf |-> FALSE, email |-> "pending", status |-> "none"]

InvoiceTypeOK ==
    /\ invoice \in [Orders -> InvoiceRows]
    /\ stored \subseteq Orders
    /\ mailed \subseteq Orders
    /\ task \in [Workers -> Tasks]

InvoiceInit ==
    /\ invoice = [o \in Orders |-> NoInvoice]
    /\ stored = {} /\ mailed = {}
    /\ task \in [Workers -> [step : {"idle"}, order : Orders, copy : {NoInvoice}]]

HasInvoice(o) == invoice[o].status # "none"

Resting(o) == [step |-> "idle", order |-> o, copy |-> NoInvoice]
Finish(w) == task' = [task EXCEPT ![w] = Resting(@.order)]
GoOn(w, step, copy) == task' = [task EXCEPT ![w].step = step, ![w].copy = copy]

(***************************************************************************)
(* _schedule_invoice_workflow_after_commit: a process that survives its    *)
(* commit runs the workflow; nothing else will.                            *)
(***************************************************************************)
ScheduleWorkflow(o) ==
    /\ \/ \E w \in Workers :
            /\ task[w].step = "idle"
            /\ task' = [task EXCEPT ![w] = [Resting(o) EXCEPT !.step = "create"]]
       \/ UNCHANGED task
    /\ UNCHANGED <<invoice, stored, mailed>>

\* _assert_invoice_eligible for an order that is paid online
Eligible(o) == orderStatus[o] = "confirmed" /\ paidBy[o] # NoLink

\* Mutation of Canonical: the snapshot is taken without the payment.
WithoutPayment(o) ==
    IF HasInvoice(o) THEN invoice[o] ELSE [NoInvoice EXCEPT !.status = "pending"]

\* What create_invoice_for_order returns: the invoice the order already has, or
\* a new one with the captured payment in its snapshot.
Canonical(o) ==
    IF HasInvoice(o) THEN invoice[o]
    ELSE [NoInvoice EXCEPT !.payment = paidBy[o], !.status = "pending"]

\* The order row is locked, so two workers find one invoice.  A PDF that is
\* stored already is not generated again.
CreateInvoice(w) ==
    LET o == task[w].order IN
    /\ task[w].step = "create"
    /\ \/ /\ HasInvoice(o) \/ Eligible(o)
          /\ invoice' = [invoice EXCEPT ![o] = Canonical(o)]
          /\ GoOn(w, IF Canonical(o).pdf THEN "mark" ELSE "upload", Canonical(o))
       \/ ~HasInvoice(o) /\ ~Eligible(o) /\ Finish(w) /\ UNCHANGED invoice
    /\ UNCHANGED <<stored, mailed>>

\* upload_invoice_pdf, before its save: the public id is a function of the
\* invoice, so a second upload overwrites the first.
UploadPdf(w) ==
    /\ task[w].step = "upload"
    /\ stored' = stored \cup {task[w].order}
    /\ GoOn(w, "save_pdf", [task[w].copy EXCEPT !.pdf = TRUE])
    /\ UNCHANGED <<invoice, mailed>>

SavePdf(w) ==
    /\ task[w].step = "save_pdf"
    /\ invoice' = [invoice EXCEPT ![task[w].order].pdf = TRUE]
    /\ GoOn(w, "reload", task[w].copy)
    /\ UNCHANGED <<stored, mailed>>

\* invoice.refresh_from_db()
Reload(w) ==
    /\ task[w].step = "reload"
    /\ GoOn(w, "mark", invoice[task[w].order])
    /\ UNCHANGED <<invoice, stored, mailed>>

\* A pending invoice whose PDF is stored becomes generated.
MarkGenerated(w) ==
    LET copy == task[w].copy IN
    /\ task[w].step = "mark" /\ copy.pdf
    /\ \/ /\ copy.status = "pending"
          /\ invoice' = [invoice EXCEPT ![task[w].order].status = "generated"]
          /\ GoOn(w, "refresh", [copy EXCEPT !.status = "generated"])
       \/ /\ copy.status # "pending"
          /\ UNCHANGED invoice
          /\ GoOn(w, "refresh", copy)
    /\ UNCHANGED <<stored, mailed>>

StatusOf(row) ==
    CASE row.email = "sent" -> "sent"
      [] row.email = "failed" -> "failed"
      [] row.email = "pending" /\ row.pdf -> "generated"
      [] OTHER -> "pending"

\* Mutation of RefreshStatus: the whole row is saved, not only its status.
SaveWholeCopy(w) ==
    /\ task[w].step = "refresh"
    /\ invoice' = [invoice EXCEPT ![task[w].order] =
                      [task[w].copy EXCEPT !.status = StatusOf(task[w].copy)]]
    /\ Finish(w)
    /\ UNCHANGED <<stored, mailed>>

\* refresh_invoice_delivery_status, from the copy in memory
RefreshStatus(w) ==
    /\ task[w].step = "refresh"
    /\ invoice' = [invoice EXCEPT ![task[w].order].status = StatusOf(task[w].copy)]
    /\ Finish(w)
    /\ UNCHANGED <<stored, mailed>>

\* Rendering or storing raised: record_invoice_error.
WorkflowFails(w) ==
    /\ task[w].step = "upload"
    /\ invoice' = [invoice EXCEPT ![task[w].order].status = "failed"]
    /\ Finish(w)
    /\ UNCHANGED <<stored, mailed>>

WorkerDies(w) ==
    /\ task[w].step # "idle"
    /\ Finish(w)
    /\ UNCHANGED <<invoice, stored, mailed>>

(***************************************************************************)
(* send_invoice_email with force, as the administrator's endpoint calls    *)
(* it.  A missing PDF fails the default mode and does not matter to the    *)
(* custom one, so both outcomes are always possible.                       *)
(***************************************************************************)
ReadForMail(w, o) ==
    /\ task[w].step = "idle" /\ HasInvoice(o)
    /\ task' = [task EXCEPT ![w] = [step |-> "send", order |-> o, copy |-> invoice[o]]]
    /\ UNCHANGED <<invoice, stored, mailed>>

SendMail(w) ==
    \E accepted \in BOOLEAN :
        /\ task[w].step = "send"
        /\ mailed' = IF accepted THEN mailed \cup {task[w].order} ELSE mailed
        /\ GoOn(w, "save_mail",
                [task[w].copy EXCEPT !.email = IF accepted THEN "sent" ELSE "failed"])
        /\ UNCHANGED <<invoice, stored>>

SaveMail(w) ==
    /\ task[w].step = "save_mail"
    /\ invoice' = [invoice EXCEPT ![task[w].order].email = task[w].copy.email]
    /\ GoOn(w, "refresh", task[w].copy)
    /\ UNCHANGED <<stored, mailed>>

InvoiceStep(w) ==
    \/ CreateInvoice(w) \/ UploadPdf(w) \/ SavePdf(w) \/ Reload(w)
    \/ MarkGenerated(w) \/ RefreshStatus(w) \/ WorkflowFails(w) \/ WorkerDies(w)
    \/ (\E o \in Orders : ReadForMail(w, o)) \/ SendMail(w) \/ SaveMail(w)
=============================================================================
