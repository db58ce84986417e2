----------------------------- MODULE Analytics -----------------------------
(***************************************************************************)
(* Analytics (analytics/services.py, analytics/views.py): browser sessions *)
(* and the events that the storefront, the cart, the checkout and the      *)
(* login record in them, and the two reports over the events.  A request   *)
(* finds or creates the row of its session, saves what it adds to the copy *)
(* it has read, and then records its event and saves again, the three      *)
(* without a lock; only a login locks the row.                             *)
(*                                                                         *)
(* Times and paths of a session are overwritten by every request and left  *)
(* out.  A request without a session id gets a fresh one.                  *)
(***************************************************************************)
EXTENDS Naturals, FiniteSets, FiniteSetsExt, SequencesExt

CONSTANTS
    Visits,        \* ids of sessions
    Visitors,      \* customers who log in
    Guests,        \* guest ids
    Agents,        \* what a request tells of its browser
    Hits,          \* requests that record an event
    Tellings,      \* [name, product, order] of the events they record
    Variety,       \* variants, each with its product: VariantOf[v]
    VariantOf,
    Clock,         \* when the first, the second, ... event occurs
    DayLength, MaxReportDays

Unknown == "unknown"

ASSUME AnalyticsAssumption ==
    /\ Unknown \notin Visits
    /\ Clock \in Seq(Nat)
    /\ DayLength \in Nat \ {0} /\ MaxReportDays \in Nat \ {0}

VARIABLES
    visit,    \* per id: the AnalyticsSession row, or NoVisit
    event,    \* the AnalyticsEvent rows, in the order of their insertion
    hit       \* per request: what it does next, and its copy of the row

analyticsVars == <<visit, event, hit>>

VisitRows == [customer : Visitors \cup {Unknown}, guest : Guests \cup {Unknown},
              agent : Agents \cup {Unknown}]
NoVisit == [customer |-> "no row"]
NoHit == [at |-> "idle"]

\* Who asks: the customer of the token, the guest id of the body or the
\* header, and the browser.
Askers == VisitRows

AnalyticsTypeOK ==
    /\ visit \in [Visits -> VisitRows \cup {NoVisit}]
    /\ event \in Seq([told : Tellings, visit : Visits \cup {Unknown},
                      customer : Visitors \cup {Unknown}, time : Nat])
    /\ hit \in [Hits -> {NoHit} \cup [at : {"enrich", "record"}, visit : Visits \cup {Unknown},
                                      asker : Askers, copy : VisitRows \cup {NoVisit}]]

AnalyticsInit ==
    /\ visit = [s \in Visits |-> NoVisit]
    /\ event = <<>>
    /\ hit = [h \in Hits |-> NoHit]

(***************************************************************************)
(* What a request adds to its copy of the row, and what a save writes.     *)
(***************************************************************************)
\* "Never overwrite a known customer with anonymous data."
Stitched(copy, asker) ==
    [copy EXCEPT !.customer = IF asker.customer # Unknown THEN asker.customer ELSE @,
                 !.guest    = IF asker.guest # Unknown THEN asker.guest ELSE @]

\* "Best-effort enrichment for older sessions."
Enriched(copy, asker) ==
    [Stitched(copy, asker) EXCEPT !.agent = IF @ = Unknown THEN asker.agent ELSE @]

\* Mutation of Saved: the whole copy is written.
SavedWhole(row, copy, new) == new

\* save(update_fields): the fields that differ from the copy are written.
Saved(row, copy, new) == [f \in DOMAIN new |-> IF new[f] # copy[f] THEN new[f] ELSE row[f]]

HitGoes(h, at, s, asker, copy) ==
    hit' = [hit EXCEPT ![h] = [at |-> at, visit |-> s, asker |-> asker, copy |-> copy]]
HitEnds(h) == hit' = [hit EXCEPT ![h] = NoHit]

\* get_or_create on the primary key: a request that loses the race to insert
\* gets the winner's row.  Bound: no request begins after the last event.
ResolveVisit(h, s, asker) ==
    /\ hit[h] = NoHit /\ Len(event) < Len(Clock)
    /\ IF visit[s] = NoVisit
       THEN /\ visit' = [visit EXCEPT ![s] = asker]
            /\ HitGoes(h, "record", s, asker, asker)
       ELSE /\ HitGoes(h, "enrich", s, asker, visit[s])
            /\ UNCHANGED visit
    /\ UNCHANGED event

EnrichVisit(h) ==
    LET s == hit[h].visit  copy == hit[h].copy  new == Enriched(copy, hit[h].asker) IN
    /\ hit[h].at = "enrich"
    /\ visit' = [visit EXCEPT ![s] = Saved(@, copy, new)]
    /\ HitGoes(h, "record", s, hit[h].asker, new)
    /\ UNCHANGED event

\* identify_session, in one transaction with the row locked: it creates no row.
IdentifyVisit(h, s, asker) ==
    LET new == Stitched(visit[s], asker) IN
    /\ hit[h] = NoHit /\ Len(event) < Len(Clock)
    /\ asker.customer # Unknown
    /\ IF visit[s] = NoVisit
       THEN HitGoes(h, "record", Unknown, asker, NoVisit) /\ UNCHANGED visit
       ELSE HitGoes(h, "record", s, asker, new) /\ visit' = [visit EXCEPT ![s] = new]
    /\ UNCHANGED event

\* track_event: the event and the row in one transaction.
TrackEvent(h, told) ==
    LET s == hit[h].visit  copy == hit[h].copy IN
    /\ hit[h].at = "record" /\ Len(event) < Len(Clock)
    /\ event' = Append(event, [told |-> told, visit |-> s, customer |-> hit[h].asker.customer,
                               time |-> Clock[Len(event) + 1]])
    /\ IF s = Unknown THEN UNCHANGED visit
       ELSE visit' = [visit EXCEPT ![s] = Saved(@, copy, Stitched(copy, hit[h].asker))]
    /\ HitEnds(h)

\* "Analytics must never break the customer application": an error of the
\* database is swallowed, and the transaction it hits writes nothing.
HitFails(h) ==
    /\ hit[h] # NoHit
    /\ HitEnds(h)
    /\ UNCHANGED <<visit, event>>

AnalyticsNext ==
    \E h \in Hits :
        \/ \E s \in Visits, asker \in Askers : ResolveVisit(h, s, asker) \/ IdentifyVisit(h, s, asker)
        \/ EnrichVisit(h) \/ HitFails(h)
        \/ \E told \in Tellings : TrackEvent(h, told)

AnalyticsSpec == AnalyticsInit /\ [][AnalyticsNext]_analyticsVars

(***************************************************************************)
(* What callers tell: [name, product, order].                              *)
(***************************************************************************)
\* The storefront names a product, a variant or both; ids that do not exist or
\* do not match tell nothing.
ProductNamed(product, variant, sold) ==
    CASE variant # Unknown /\ variant \notin Variety -> Unknown
      [] product # Unknown /\ product \notin sold -> Unknown
      [] variant \in Variety /\ product = Unknown -> VariantOf[variant]
      [] variant \in Variety /\ product # Unknown /\ VariantOf[variant] # product -> Unknown
      [] OTHER -> product

Told(name, product, order) == [name |-> name, product |-> product, order |-> order]

BrowserTells(names, products, sold) ==
    {Told(n, ProductNamed(p, v, sold), Unknown) :
        n \in names, p \in products \cup {Unknown}, v \in Variety \cup {Unknown}}
CartTells == {Told("cart_item_added", VariantOf[v], Unknown) : v \in Variety}
\* The event of a checkout has its order and no product.
CheckoutTells(orders) == {Told("checkout_order_created", Unknown, o) : o \in orders}
LoginTells == {Told("customer_login", Unknown, Unknown)}

(***************************************************************************)
(* The reports.                                                            *)
(***************************************************************************)
\* _parse_report_datetime: a bound of a window is an instant or a day.  A day is
\* its first instant, as a start and as an end: parse_datetime reads a date alone
\* as its midnight, so that the branch for dates is not reached.
InstantOf(bound) == IF bound.unit = "instant" THEN bound.at ELSE DayLength * bound.at

Refused == [start |-> 0, end |-> 0]

\* _resolve_report_window with explicit bounds.
Window(first, last) ==
    LET start == InstantOf(first)  end == InstantOf(last) IN
    IF start >= end \/ end - start > MaxReportDays * DayLength THEN Refused
    ELSE [start |-> start, end |-> end]

\* Without bounds, the last days.
WindowOfDays(days, now) ==
    IF days \notin 1..MaxReportDays THEN Refused
    ELSE [start |-> now - days * DayLength, end |-> now]

\* Mutation of Within: the instant that ends a window is in it.
WithinClosed(window) ==
    {i \in DOMAIN event : window.start <= event[i].time /\ event[i].time <= window.end}

Within(window) == {i \in DOMAIN event : window.start <= event[i].time /\ event[i].time < window.end}

\* AnalyticsActivityAPIView.get: the feed, under the filters that are given.
Feed(window, names, customers, visits) ==
    {i \in Within(window) : /\ event[i].told.name \in names
                            /\ event[i].customer \in customers /\ event[i].visit \in visits}
FeedSummary(feed) ==
    [total |-> Cardinality(feed),
     sessions |-> Cardinality({event[i].visit : i \in feed} \ {Unknown}),
     customers |-> Cardinality({event[i].customer : i \in feed} \ {Unknown}),
     authenticated |-> Cardinality({i \in feed : event[i].customer # Unknown}),
     guests |-> Cardinality({i \in feed : event[i].customer = Unknown})]

\* ProductAnalyticsAPIView.get: the products that occur in the window.
Reported(window) == {event[i].told.product : i \in Within(window)} \ {Unknown}

Metrics(window, product) ==
    LET Of(name) == {i \in Within(window) : event[i].told.product = product
                                            /\ event[i].told.name = name} IN
    [views |-> Cardinality(Of("product_viewed")),
     unique_sessions |-> Cardinality({event[i].visit : i \in Of("product_viewed")} \ {Unknown}),
     unique_customers |-> Cardinality({event[i].customer : i \in Of("product_viewed")} \ {Unknown}),
     add_to_cart |-> Cardinality(Of("cart_item_added")),
     orders_created |->
        Cardinality({event[i].told.order : i \in Of("checkout_order_created")} \ {Unknown})]

Total(window, metric) == SumFunction([p \in Reported(window) |-> Metrics(window, p)[metric]])

(***************************************************************************)
(* Properties.                                                             *)
(***************************************************************************)
\* What a session has learned of its customer, its guest id and its browser is
\* never lost, although requests save rows they have read before others wrote.
SessionKeepsIdentity ==
    [][\A s \in Visits : visit[s] # NoVisit =>
          \A f \in DOMAIN visit[s] : visit[s][f] # Unknown => visit'[s][f] # Unknown]_visit

Day(d) == [unit |-> "day", at |-> d]
Everyone == Visitors \cup {Unknown}
FeedOf(window, name) == Feed(window, {name}, Everyone, Visits \cup {Unknown})

\* The reports from one midnight to the next add up to the report of both days:
\* no event is in two of them or in none.  The products' views and additions are
\* those of the feed's events that name a product, and the feed's sessions are
\* at most the products' ones, which count a session once for each product.
ReportsAgree ==
    \A d \in 0..MaxReportDays - 2 :
        LET one == Window(Day(d), Day(d + 1))  next == Window(Day(d + 1), Day(d + 2))
            both == Window(Day(d), Day(d + 2))
            viewed == {i \in FeedOf(both, "product_viewed") : event[i].told.product # Unknown}
        IN  /\ \A metric \in {"views", "add_to_cart"} :
                  Total(both, metric) = Total(one, metric) + Total(next, metric)
            /\ Total(both, "views") = FeedSummary(viewed).total
            /\ FeedSummary(viewed).sessions <= Total(both, "unique_sessions")
            /\ both = WindowOfDays(2, (d + 2) * DayLength) /\ both # Refused

\* "end => beginning of the following date": the report of the day on which an
\* event occurred has it.  The code asks for the time up to that day's midnight.
LastDayIsReported ==
    \A i \in DOMAIN event :
        LET day == Day(event[i].time \div DayLength) IN i \in Within(Window(day, day))
=============================================================================
