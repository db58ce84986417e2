------------------------------- MODULE Leads -------------------------------
(***************************************************************************)
(* The CRM (catalog/crm_views.py, crm_message_views.py): one lead, which is *)
(* an interior consultation or a request for a quote, and its timeline of  *)
(* activities, which are only ever added.                                  *)
(***************************************************************************)
EXTENDS Naturals, SequencesExt

CONSTANTS
    Kinds,           \* kinds of lead
    Staff,           \* users a lead can be assigned to
    Times,           \* times of appointments and follow-ups
    Admins,          \* requests that read first and write later
    MaxActivities,   \* activities on the timeline
    MaxMessages      \* messages the providers take

ASSUME LeadsAssumption ==
    /\ Kinds \subseteq {"consultation", "quote"} /\ IsFiniteSet(Admins)
    /\ MaxActivities \in Nat /\ MaxMessages \in Nat

VARIABLES
    lead,       \* the InteriorConsultation or QuoteRequest row
    timeline,   \* its activity rows, in order
    taken,      \* history: messages to the customer the providers took
    edited,     \* history: the row was saved by the Django admin's form
    task        \* per request: what it does next, and the row it has read

leadVars == <<lead, timeline, taken, edited, task>>

Nothing == "nothing"
Statuses(kind) ==
    IF kind = "quote" THEN {"pending", "reviewing", "quoted", "approved", "rejected"}
    ELSE {"new", "contact_pending", "contacted", "scheduled", "completed", "converted", "closed"}
FirstStatus(kind) == IF kind = "quote" THEN "pending" ELSE "new"

\* The statuses with a time of their own.  contacted_at of a quote is set by
\* contacts only, not by a status.
Stamped(kind) ==
    IF kind = "quote" THEN {"quoted", "approved", "rejected"}
    ELSE {"contacted", "completed", "converted"}

Fields == {"status", "assigned_to", "scheduled_for", "next_follow_up_at"}

NoLead == [kind |-> Nothing, stamps |-> {}, status |-> Nothing, assigned_to |-> Nothing,
           scheduled_for |-> Nothing, next_follow_up_at |-> Nothing]
NewLead(kind) == [NoLead EXCEPT !.kind = kind, !.status = FirstStatus(kind)]
AllStatuses == UNION {Statuses(kind) : kind \in Kinds}
LeadRows ==
    [kind : Kinds \cup {Nothing}, status : AllStatuses \cup {Nothing},
     stamps : SUBSET (AllStatuses \cup {"contacted"}),
     assigned_to : Staff \cup {Nothing},
     scheduled_for : Times \cup {Nothing}, next_follow_up_at : Times \cup {Nothing}]

NoTask == [at |-> "idle"]

LeadsTypeOK ==
    /\ lead \in LeadRows
    /\ Len(timeline) <= MaxActivities
    /\ taken \in 0..MaxMessages /\ edited \in BOOLEAN
    /\ task \in [Admins -> {NoTask} \cup [at : {"send", "record", "save"}, row : LeadRows]]

LeadsInit ==
    /\ lead = NoLead /\ timeline = <<>>
    /\ taken = 0 /\ edited = FALSE
    /\ task = [a \in Admins |-> NoTask]

(***************************************************************************)
(* The timeline.                                                           *)
(***************************************************************************)
\* An activity: its event, and from what to what each field went.
Activity(event, changes) == [event |-> event, changes |-> changes]
Change(field, from, to) == [field |-> field, from |-> from, to |-> to]
Plain(event) == Activity(event, {})

Log(activities) ==
    /\ Len(timeline) + Len(activities) <= MaxActivities
    /\ timeline' = timeline \o activities

LeadExists == lead.kind # Nothing

\* InteriorConsultationSerializer.create, QuoteRequestSerializer.create: what
\* the customer asks for in it is not modelled.
CreateLead(kind) ==
    /\ ~LeadExists
    /\ lead' = NewLead(kind)
    /\ Log(<<Plain("created")>>)
    /\ UNCHANGED <<taken, edited, task>>

(***************************************************************************)
(* The administrators' operations, each under the lock of the row.         *)
(***************************************************************************)
\* _set_quote_timestamp_for_status, _set_consultation_timestamp_for_status
Stamp(row) == IF row.status \in Stamped(row.kind) THEN {row.status} ELSE {}

\* A quote's three results have an event of their own.
ResultEvents(kind, status) ==
    IF kind # "quote" THEN <<>>
    ELSE CASE status = "quoted" -> <<Plain("quote_sent")>>
           [] status \in {"approved", "rejected"} -> <<Plain(status)>>
           [] OTHER -> <<>>

ChangeStatus(status) ==
    /\ LeadExists /\ status \in Statuses(lead.kind) \ {lead.status}
    /\ lead' = LET row == [lead EXCEPT !.status = status]
               IN  [row EXCEPT !.stamps = @ \cup Stamp(row)]
    /\ Log(<<Activity("status_changed", {Change("status", lead.status, status)})>>
           \o ResultEvents(lead.kind, status))
    /\ UNCHANGED <<taken, edited, task>>

Assign(user) ==
    /\ LeadExists /\ user # lead.assigned_to
    /\ lead' = [lead EXCEPT !.assigned_to = user]
    /\ Log(<<Activity("assigned", {Change("assigned_to", lead.assigned_to, user)})>>)
    /\ UNCHANGED <<taken, edited, task>>

Schedule(time) ==
    /\ lead.kind = "consultation"
    /\ lead.status \notin {"completed", "converted", "closed"}
    /\ lead' = [lead EXCEPT !.scheduled_for = time, !.status = "scheduled"]
    /\ Log(<<Activity("rescheduled",
                      {Change("status", lead.status, "scheduled"),
                       Change("scheduled_for", lead.scheduled_for, time)})>>)
    /\ UNCHANGED <<taken, edited, task>>

\* Without a lock, and without a change to the lead.
AddNote ==
    /\ LeadExists
    /\ Log(<<Plain("internal_note")>>)
    /\ UNCHANGED <<lead, taken, edited, task>>

SetFollowUp(time) ==
    /\ LeadExists
    /\ lead' = [lead EXCEPT !.next_follow_up_at = time]
    /\ Log(<<Activity("follow_up_set",
                      {Change("next_follow_up_at", lead.next_follow_up_at, time)})>>)
    /\ UNCHANGED <<taken, edited, task>>

\* The status a contact leads to.
AfterContact(kind, status) ==
    IF kind = "quote" THEN IF status = "pending" THEN "reviewing" ELSE status
    ELSE IF status \in {"new", "contact_pending"} THEN "contacted" ELSE status

\* contacted_at, perhaps the status, and one or two activities.
RecordContact(row, event) ==
    LET status == AfterContact(row.kind, row.status) IN
    /\ lead' = [lead EXCEPT !.status = status, !.stamps = @ \cup {"contacted"}]
    /\ Log((IF status = row.status THEN <<>>
            ELSE <<Activity("status_changed", {Change("status", row.status, status)})>>)
           \o <<Plain(event)>>)

MarkContacted ==
    /\ LeadExists
    /\ RecordContact(lead, "contacted")
    /\ UNCHANGED <<taken, edited, task>>

(***************************************************************************)
(* AdminInteriorConsultationMessageAPIView, AdminQuoteRequestMessageAPIView: *)
(* the message is composed from a row read without a lock.                 *)
(***************************************************************************)
TaskAt(a, at, row) == task' = [task EXCEPT ![a] = [at |-> at, row |-> row]]
EndTask(a) == task' = [task EXCEPT ![a] = NoTask]

ComposeMessage(a) ==
    /\ task[a] = NoTask /\ LeadExists
    /\ TaskAt(a, "send", lead)
    /\ UNCHANGED <<lead, timeline, taken, edited>>

\* Mutation of SendMessage: a refusal is recorded like a success.
SendAnyway(a) ==
    /\ task[a].at = "send" /\ taken < MaxMessages
    /\ taken' \in {taken, taken + 1}
    /\ TaskAt(a, "record", task[a].row)
    /\ UNCHANGED <<lead, timeline, edited>>

\* send_crm_whatsapp, send_crm_email: the provider takes the message, or the
\* view answers 502 and nothing is recorded.
SendMessage(a) ==
    /\ task[a].at = "send"
    /\ \/ /\ taken < MaxMessages
          /\ taken' = taken + 1 /\ TaskAt(a, "record", task[a].row)
       \/ UNCHANGED taken /\ EndTask(a)
    /\ UNCHANGED <<lead, timeline, edited>>

\* Mutation of RecordMessage: the status is taken from the row the message was
\* composed from.
RecordFromCopy(a) ==
    /\ task[a].at = "record"
    /\ RecordContact(task[a].row, "messaged")
    /\ EndTask(a)
    /\ UNCHANGED <<taken, edited>>

\* _consultation_after_send, _quote_after_send read the row again, locked.  The
\* event is "contacted" with a trigger in its metadata.
RecordMessage(a) ==
    /\ task[a].at = "record"
    /\ RecordContact(lead, "messaged")
    /\ EndTask(a)
    /\ UNCHANGED <<taken, edited>>

TaskDies(a) ==
    /\ task[a] # NoTask
    /\ EndTask(a)
    /\ UNCHANGED <<lead, timeline, taken, edited>>

(***************************************************************************)
(* The form of QuoteRequestAdmin: the row is read without a lock and saved *)
(* as a whole, with a status from the page and no activity.                *)
(***************************************************************************)
\* Bound: no form is loaded after the first save.
LoadForm(a) ==
    /\ task[a] = NoTask /\ lead.kind = "quote" /\ ~edited
    /\ TaskAt(a, "save", lead)
    /\ UNCHANGED <<lead, timeline, taken, edited>>

SaveForm(a, status) ==
    /\ task[a].at = "save"
    /\ lead' = [task[a].row EXCEPT !.status = status]
    /\ edited' = TRUE
    /\ EndTask(a)
    /\ UNCHANGED <<timeline, taken>>

LeadsNext ==
    \/ \E kind \in Kinds : CreateLead(kind)
    \/ \E status \in AllStatuses : ChangeStatus(status)
    \/ \E user \in Staff \cup {Nothing} : Assign(user)
    \/ \E time \in Times : Schedule(time)
    \/ \E time \in Times \cup {Nothing} : SetFollowUp(time)
    \/ AddNote \/ MarkContacted
    \/ \E a \in Admins :
          \/ ComposeMessage(a) \/ SendMessage(a) \/ RecordMessage(a) \/ TaskDies(a)
          \/ LoadForm(a) \/ \E status \in Statuses("quote") : SaveForm(a, status)

LeadsSpec == LeadsInit /\ [][LeadsNext]_leadVars

(***************************************************************************)
(* Properties.                                                             *)
(***************************************************************************)
Mentions(field) == {i \in DOMAIN timeline : \E c \in timeline[i].changes : c.field = field}
ChangeAt(i, field) == CHOOSE c \in timeline[i].changes : c.field = field

\* The value of a field before activity i, as the timeline tells it.
ValueBefore(field, i) ==
    LET earlier == {j \in Mentions(field) : j < i} IN
    IF earlier = {} THEN NewLead(lead.kind)[field] ELSE ChangeAt(Max(earlier), field).to

Happened(event) == \E i \in DOMAIN timeline : timeline[i].event = event
ReachedBefore(status) ==
    \E i \in Mentions("status") : timeline[i].event = "status_changed"
                                  /\ ChangeAt(i, "status").to = status

\* The timeline tells the whole story of a lead the Django admin has not
\* saved: each change starts from the value the one before it left, the last
\* leaves the value of the row, although messages to the customer are composed
\* from a row that others change meanwhile, and contacted_at, completed_at and
\* the other times are set exactly when the timeline has what they are of.
TimelineExplainsLead ==
    LeadExists /\ ~edited =>
        /\ \A field \in Fields :
              /\ \A i \in Mentions(field) : ChangeAt(i, field).from = ValueBefore(field, i)
              /\ lead[field] = ValueBefore(field, Len(timeline) + 1)
        /\ \A status \in Stamped(lead.kind) \cup {"contacted"} :
              status \in lead.stamps <=>
                  \/ ReachedBefore(status)
                  \/ status = "contacted" /\ (Happened("contacted") \/ Happened("messaged"))

\* "Persist CRM contact state only after successful provider acceptance": the
\* timeline shows no more messages than the providers took.
RecordedMessagesWereSent ==
    Cardinality({i \in DOMAIN timeline : timeline[i].event = "messaged"}) <= taken
=============================================================================
