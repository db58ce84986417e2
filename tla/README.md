# BlazeLine order backend: TLA+ models, checks and proofs

BlazeLine is the backend of a web shop (Django, PostgreSQL at its default
isolation READ COMMITTED, three gunicorn workers, Razorpay as payment gateway).
Its hard part is the life of an order: a cart becomes an order that takes
stock, stock is held for fifteen minutes, money arrives through requests and
webhooks that repeat, overlap and overtake each other, and a worker takes back
what nobody paid for. Around it are services that share few rows with it or none:
accounts, a WhatsApp inbox, a CRM, the catalog with its import, its product form
and its filters, the administration of delivery rules, and analytics. This
directory models them, checks the models with TLC and proves the main results
with TLAPS.

## 1. The system

| part | state it keeps | operations | what is hard |
|---|---|---|---|
| checkout (`orders/services.py`) | orders, items, reservations, `ProductVariant.stock`, first payment row | `create_order_from_customer_cart`, `create_order_safely` | two checkouts for one unit, two requests with one idempotency key |
| reservation expiry (`orders/services.py`, command `release_expired_reservations`) | reservations, stock, order and payment statuses | `release_expired_inventory_reservations` | batches that split an order, a capture in between, overlapping workers |
| payment requests (`orders/payment_service.py`) | `Payment` rows, creation lease | `create_razorpay_order_for_customer`, `confirm_checkout_payment` | a gateway call between two transactions |
| settlement and webhooks (`orders/payment_service.py`, `orders/views.py`) | `Payment`, `PaymentEvent` ledger | `_settle_payment_success`, `record_webhook_event`, `process_*_webhook` | repeated, overlapping, reordered and lost deliveries, crashes between record and process |
| direct orders and payment links (`orders/direct_order_service.py`, `orders/payment_link_service.py`) | orders without stock, `PaymentLink` rows | `create_direct_order`, `create_razorpay_payment_link`, link webhooks | a gateway call inside a transaction, an order read before it is locked, two links for one order |
| invoices (`invoices/`) | one `Invoice` per paid order, PDF in storage, mail status | `process_invoice_for_order`, admin endpoints | a workflow after commit that may stop after any step |
| cart (`cart/`) | carts, items, idempotency keys | add, set, remove, login merge | a cart resolved in one transaction and locked in the next |
| promotions (`promotions/services.py`) | campaigns and rules | `evaluate` of a cart | rule choice, caps, rounding |
| delivery pricing (`catalog/delivery/`) | zones, pincodes, rules | `calculate_delivery` | scope and slab boundaries |
| accounts (`accounts/`) | customers, one-time codes, sessions, their audit trail | request and verify a code, register, log in, reset, log out, revoke, expire | checks before a transaction, a counter that rolls back, a cooldown read without a lock |
| WhatsApp inbox (`catalog/whatsapp_webhook.py`, `whatsapp_views.py`) | conversation row with counter and preview, message rows | inbound and outbound events, replies, read marks | repeated, overlapping and late events, storage that fails and is tried again, a reply sent before it is stored |
| CRM (`catalog/crm_views.py`, `crm_message_views.py`) | leads and their timeline of activities | status, assignment, appointment, follow-up, notes, messages | messages recorded on a lead that others have changed since it was read |
| product administration (`catalog/serializers.py`, `catalog/views.py`) | products, options, variants and their values | create, save the form, edit one variant | a form that was loaded long ago, stock written from a copy, deletion of variants that checkouts reserve |
| catalog import (`catalog_import/`) | imported catalogs and their parsed rows | import a file, mark rows, publish rows as products, write rows and catalogs by hand | publishing without a lock: two requests, one product, one slug, and whole rows saved from stale copies |
| catalog browsing (`catalog/filters.py`, `facet_service.py`, ...) | reads products | listing, option filters, facets | two modules that compute one answer by different joins and normalisations |
| delivery administration (`catalog/delivery/`, `catalog/views.py`) | zones and rules | create, save, switch, delete | validation against a copy, status computed in Python and again in SQL |
| analytics (`analytics/`) | browser sessions, events | record, identify at login, two reports | overlapping saves of stale session rows, borders of days |
| PDF parser, PDF layout, configuration | none | batch scripts, rendering | no protocol of their own |

What makes each part correct:

* checkout and expiry: no unit is lost, sold or put back twice; an unpaid order
  is cancelled exactly when it holds nothing any more;
* payments and webhooks: an order is paid at most once, by a payment the gateway
  captured, for good, and keeps its stock; a processed event is settled; what is
  captured is eventually recorded;
* direct orders and links: the link shown as paid is the one that settled the
  order, and stays it;
* invoices: an invoice names the payment that settled its order, and its status
  claims only what happened;
* cart: units are neither lost nor duplicated, a key adds once;
* pricing: caps hold over the cart, lines are served by rank, the delivery
  charge follows the locked semantics, the amounts of an order add up;
* accounts: a session's audit trail is one opening and at most one closing entry,
  a password reset ends every session it can see, a session that has ended stays
  ended; wrong codes close a code, and a cooldown bounds how many codes overlapping
  requests can send;
* inbox: an acknowledged message is stored and counted once, and the conversation
  row speaks of one message and not of a mixture of two;
* CRM: the timeline explains how the lead came to be what it is, and a message is
  recorded only if the provider took it;
* product administration and import: a form takes no variant from an order that
  reserved it, an imported row is on sale, a catalog that publishing closed has no row
  left, as far as nobody edited them by hand;
* browsing: what a facet counts is listed by a click on it;
* delivery administration: a rule points at a zone that exists, and the status
  shown is the status filtered by;
* analytics: a session never forgets who it belongs to, and the reports agree.

How they interact: the storefront calls cart and checkout endpoints; checkout
reads and deletes the cart, prices it with promotions and delivery rules, and
writes order, reservations and payment row in one transaction. The customer
then asks for a gateway order, pays at Razorpay and confirms; Razorpay sends
webhooks; both ways end in the one function `_settle_payment_success`, which
schedules the invoice workflow for after its commit. The expiry worker runs from
outside, at any time. All of these share the order tables. Of the services around
them, accounts hand the guest's cart to the login merge, the product form and the
import write the variants whose stock checkout takes, delivery administration
writes the rules that pricing reads, and analytics is told by all of them and
tells nobody.

## 2. Modules

| module | models |
|---|---|
| `OrderTables` | the tables behind a storefront order and helpers on them |
| `Checkout` | `create_order_from_customer_cart` as one step |
| `ReservationExpiry` | the clock passing `expires_at`, and the worker transaction |
| `Gateway` | Razorpay as the code relies on it (external) |
| `Settlement` | settlement, failure, the event ledger and the webhook handlers |
| `PaymentRequests` | gateway-order creation with its lease, checkout confirmation |
| `OrderLifecycle` | the composition of all of these, its properties and fairness |
| `OrderPromise` | the abstract specification of what the shop promises about an order |
| `OrderLifecycle_proofs` | the theorems, and that the lifecycle implements `OrderPromise` |
| `MCOrderLifecycle`, `MCOrders` | small instances for TLC; `MCOrders` has two of them as scenes of one run |
| `CartCheckout`, `MCCartCheckout` | cart requests, login merge and the checkout's view of the cart |
| `DirectOrders` | direct orders, link requests with their row lock, link webhooks |
| `Invoices` | the invoice workflow and the mail endpoint, statement by statement |
| `DirectSales` | the composition of the two, its properties and fairness |
| `DirectSales_proofs`, `MCDirectSales` | its theorems, and small instances for TLC |
| `PricedCart` | the cart as pricing reads it, and the two roundings |
| `Promotions` | the promotion engine: lines, candidates, ranks, caps |
| `DeliveryCharge` | serviceability, which delivery rules apply, the loop over them |
| `Pricing`, `MCPricing` | quote, promotions, tax and total of one order; the situations TLC prices |
| `CustomerTable` | the customer rows that codes and sessions share |
| `OneTimeCodes` | sending and verifying one-time codes |
| `AuthSessions` | sessions and audit trail: what one transaction does to them |
| `Accounts` | the requests over them: register, log in, reset, log out, revoke, expire |
| `Inbox` | one WhatsApp conversation: webhook events, replies, read marks |
| `Leads` | one CRM lead with its timeline |
| `Publishing` | import of a file and publishing of its rows, while rows, catalogs and products are written by hand |
| `ProductForm` | one product under its editors and the checkouts that take units of it |
| `Storefront` | facets and listing over one catalog |
| `DeliveryAdmin` | zones and rules, on top of `DeliveryCharge`'s reading of a rule |
| `Analytics` | browser sessions, events, two reports |
| `Services`, `MCServices` | the composition of `CartCheckout`, `Pricing`, `OneTimeCodes` and the last eight, and a small instance of each |
| `CartCheckout_proofs`, `Pricing_proofs` | the theorems about cart and pricing |
| `Accounts_proofs` | the theorems about `OneTimeCodes` and `Accounts` |
| `Contacts_proofs` | the theorems about `Inbox`, `Leads` and `Analytics` |
| `Catalog_proofs` | the theorems about `Publishing`, `ProductForm`, `DeliveryAdmin` and `Storefront` |
| `SetLemmas` | lemmas about sums, maxima and minima over finite sets, for the others |

**One transaction is one step.** Every service transaction takes the row locks
of what it reads and writes before it decides: checkout locks cart and
variants, settlement locks payment, order, reservations; the worker locks
reservations, variants, orders, payments, and it decides about an order only
with the order row locked, so two workers that share an order serialise there.
Where two lock orders conflict PostgreSQL aborts one transaction, which then
changed nothing. What is *not* one step in the code is several steps here: a
webhook is recorded in one transaction and handled in another; payment requests
are two transactions around a gateway call; a cart is resolved, later locked;
a checkout reads the cart, looks for its key, then locks the cart.

**State and code.** `orderStatus`, `paymentStatus`, `rowStatus`, `reservation`,
`stock`, `lease`, ... are the columns with these meanings (see the comments at
the `VARIABLES` of `OrderTables`). Foreign keys that never change are part of
the identities: payment row `<<o, n>>`, gateway order `<<o, n, c>>`, attempt
`<<o, n, c, k>>`. `lapsed` is the set of reservations whose `expires_at` lies in
the past, so the clock is a step per reservation. `handling` counts deliveries
between the duplicate check and the handler's transaction. An unfinished request
is a record in `initReq` or `confirmReq`. In `CartCheckout`, `applied` and
`reported` are history variables: how often a key incremented a cart, and the
unit deltas that the cart events report.

In `DirectOrders`, `paidBy` is the captured payment row with its link's payment,
which is written together with the order's status. A link request goes through
*read* (the order is read without a lock), *unlinked* (no open link found, nothing
locked), *holding* (payment row locked and the gateway called inside the
transaction, which keeps every settlement of that order waiting: `RowLocked`),
*created*, and its commit. The gateway may still capture a payment begun before
a link closed. In `Invoices`, `task[w]` is the statement a worker is at, with
the copy of the row it has in memory; each statement is a step, so workflows and
mails interleave on stale copies and may die between any two.

In `Pricing`, the two engines are loops, one step per candidate or rule. Prices
are paise, percentages hundredths of a percent; the delivery engine, which rounds
only at its end, computes in ten-thousandths of a paisa. Which cart lines a
promotion rule or a delivery rule matches is an input, so any catalogue that
yields these matches is covered. The cart does not change during one pricing;
that it may change between quote and order is `stale_quote`.

In the services a request that reads, thinks and writes is a record of what it
does next and of the row it has read: `request` in `Accounts`, `sender` in
`OneTimeCodes`, `call` and `reply` in `Inbox`, `task` in `Leads`, `publisher` in
`Publishing`, `editor` in `ProductForm`, `managed` in `DeliveryAdmin`, `hit` in
`Analytics`. Between two of its steps every other request may run, and it may end
after any of them. What Django writes is kept apart: `save()` writes the whole
copy, `save(update_fields=...)` the named columns, a queryset's `update` the row
as it is. Times are sets of what has passed (`lapsed`, `recent`, `expired`,
`sessionsOver`), each filled by steps of its own. History variables are `outdated`
(the sessions that existed when a committed reset looked for those to end), `misses`
(the wrong codes entered for a code), `sales` (which rows were published, with what
they said, as which product), `byHand` (the rows, products and the catalog that were
written outside of import and publishing), `accepted` and `taken` (what the provider
took), `seen` (what was stored when the inbox was marked read) and `edited` (the
Django admin's form, which writes no activity, was used).
A verification token is signed and leaves no row, so `Accounts` lets a customer
present one at any time.

A password reset is two steps: `LookForSessions` is the query for the sessions to
revoke, `ResetPassword` everything from their locks to the commit. In between a login
may commit, and its session is not among those found. The two are not split further,
because from the first lock on nobody else reaches the rows: whatever ends a session
locks it together with its customer, whose row the reset has written (`Resetting`).

The view sets of the import (`catalog_import/views.py:39` and `65`) and the admin save
every field, an update the whole row as it was read, however long ago. `WriteRow` and
`WriteCatalog` therefore let a row come to say anything: what it said before a publish,
the words of another entry, *imported* without having been published, or a deleted row
inserted again. The product administration is in `Publishing` as what it may do to
products and variants (`StaffStep`), and in `ProductForm` as how it does it.

`Services` holds eleven services. Some share rows: accounts and codes the customers,
which codes only read; publishing and the product form the products and variants;
carts and the product form the variants a checkout takes. Each module has the steps
of the others that write its tables, as far as they matter to it: `Publishing` the
staff, `ProductForm` the checkouts. So each is explored by itself: `part` picks one of
them and the others rest, and the states explored are the sum of the eleven and not
their product.

**Abstracted.** Outside `Pricing`, amounts, currency, addresses and texts: the order's
total is fixed at creation, every later check compares it with itself. Refunds: the code
has the statuses but no operation that sets them. Order statuses beyond
*confirmed* are set by nothing in the modelled services.

## 3. Runs

| run | asks | instance |
|---|---|---|
| `orders` | is any unit lost, sold or released twice, and is an unpaid order cancelled exactly when its last reservation goes? Does the lease keep gateway calls apart, are attached ids kept, is nothing attached too late, and is a processed event settled? | in one scene two orders, two variants with two units each, one cart with a unit of each variant and one of up to two of each, all payment methods, batches of two, one attempt; in the other one order of one unit with two gateway orders, two attempts each, two gateway-order requests, a confirmation, two success event types, two deliveries of an event at once |
| `payments` | is an order paid once and for good, does it keep its stock, do the tables implement `OrderPromise`, and do reservations and captures come to an end? | one order, two variants so that a batch of one splits it, two payment rows, one confirmation |
| `late_failure` | does a paid order stay paid? It does not | two payment rows |
| `partial_expiry` | is a paid order stocked or marked for reconciliation? It is not | two variants, batches of one |
| `retry` | does a retried checkout get its order? It does not | two checkouts, one key |
| `stale_quote` | is the delivery quoted for what is ordered? It is not | one checkout, one cart request |
| `direct` | is a direct order settled once, by the link shown as paid, and recorded eventually? Is its invoice truthful under overlapping, failing and dying workflows and mails? | one order; in one scene two links and two requests for one, in the other a paid link and two invoice workers |
| `double_link` | does an order have at most one open link? It does not | one order, two links, two requests |
| `services` | one question per service, below | eleven services, one at a time, some 907 000 distinct states in all |
| `attempts` | do `max_attempts` wrong codes close a code? They do not | one customer, two attempts |
| `last_day` | does the report up to a day have what happened on it? It does not | two events over two days |
| `shelf` | does a unit that an order holds stay off the shelf? It does not | one product, one buyer, two editors |

What `services` asks, and of which instance:

| part | asks | instance |
|---|---|---|
| accounts | does the trail tell each session's story (`AuditTellsTheStory`), and does no session that a reset saw outlive it (`NoSessionOutlivesReset`)? | one customer, two requests, two sessions |
| codes | is a burst bounded by the requests that overlap (`BurstIsBounded`)? | two requests, three codes, two attempts each |
| inbox | is a message counted once (`EachMessageCounts`), is the row coherent (`RowTellsOneMessage`)? | two messages, one with a session end, one echo, two deliveries at once, two attempts at storing, one reply |
| leads | does the timeline explain the lead (`TimelineExplainsLead`), are recorded messages sent (`RecordedMessagesWereSent`)? | both kinds of lead, one admin request that reads first, four activities, two messages |
| carts | are units neither lost nor duplicated between carts and orders (`UnitsAccounted`), does a key increment once (`KeyIncrementsOnce`)? | two cart requests, two checkouts, two order keys, one add key, at most one unit an item |
| publishing | is what is marked imported on sale (`ImportedIsOnSale`), is a closed catalog published (`ClosedMeansPublished`), but for what was written by hand? | two rows of one product that share a combination, two requests, one row, product or catalog written by hand at any time |
| form | does an order keep the variant it reserved (`OrderedVariantsStay`)? | two SKUs, three variant rows, two editors, three edits, one buyer |
| storefront | is what a facet counts listed by a click on it, and do filters mean what they document (`StorefrontAgrees`)? | two products, five spellings of three option names |
| delivery | do the two statuses agree (`StatusFilterAgrees`), does a rule have its zone (`RulesHaveTheirZone`)? | one zone, one rule, two requests at once, three in all, yesterday, today and tomorrow |
| analytics | does a session keep its identity (`SessionKeepsIdentity`), do the reports agree (`ReportsAgree`)? | one session, one customer, one guest, two requests, two events over two days |
| pricing | do caps hold over a cart (`CapRespected`), are lines served by rank (`LinesGoByRank`), does the delivery loop follow its locked semantics (`ChargeFollowsRules`), do the amounts add up (`TotalIsSumOfParts`)? | three promotions out of twelve on three carts; three delivery rules out of fourteen at four addresses |

The bounds of the part `pricing`: a rule interacts with what came before it through the
running total and with what comes after through `stop_after`, and a promotion with
others through the line and the cap; three of each give a predecessor and a
successor at once. The campaigns include percentages that end in half a paisa,
caps used up by a first line, windows that begin or end at this moment, a
minimum that a cart meets exactly, and a line that costs nothing. The rules
include empty, invalid, free, out-of-scope, malformed and expired ones.

The bounds of the others: every hazard listed in `PROJECT.json` needs at most two actors of a
kind (two checkouts, rows, attempts, deliveries, requests), which is what each
run and each part of `services` has of the kinds it is about. Stock of two units and carts of up to two let
one order starve another or share with it. A third row, attempt or batch only
repeats what the second can do; the theorems below remove the bounds of most of them altogether.
Three codes let one be sent before, within and after a cooldown; three edits let
two overlap after a first that changed the variants; the spellings differ in
case, in white space and in both. Of the bounds that cut a behaviour short, two need a
word. `MaxByHand = 1`: one write by hand before, between or after the steps of two
publishing requests shows each pair of steps with a foreign write between them; the
proofs have any number. `MaxItemQty = 1`: a second add of the same item meets the
maximum at once, so refused and accepted adds, and the merge, which knows no
maximum, all happen. `misses` is counted up to `MaxAttempts`, which is where the
question of `attempts` begins.
`CHECK_DEADLOCK FALSE` is set because a finished shop really stops: all orders
placed, all payments made, all requests ended. The runs that expect a violation
ask one question each, of the smallest instance that answers it.

**Fairness** (`FairSpec`, run `payments`): the worker is run again and again (it
is a periodic command), time passes, Razorpay redelivers an event until it is
answered 200 (weak fairness of `DeliverEvent`), and a handler that can finish
again and again is not killed every time (strong fairness of `HandleEvent`).
Customers, the gateway's decisions and the payment requests get none. `FairSpec`
of `DirectSales` (run `direct`) assumes the same of redelivery and handlers, and
that administrators do not ask for new links for ever: a settlement waits for the
row lock of each request, and the code has nothing that bounds how often that
happens.

## 4. What disagrees with the repository's own words

* `late_failure`: *"Never downgrade a successful payment because of a late/stale
  failure webhook"* holds per payment row, not per order. A failure of an
  earlier row sets the order's `payment_status` to failed after another row has
  paid it. The units stay with the order all the same (`PaidOrderKeepsItsStock`),
  because its reservations are consumed by then.
* `partial_expiry`: a capture after only part of the reservations was released
  is not marked for stock reconciliation.
* `retry`: a checkout that races with its own retry is answered *empty cart*,
  not with the order.
* `stale_quote`: the delivery quote is not revalidated against the cart that is
  ordered.
* `double_link`: *"Create or reuse an active Razorpay Payment Link"* looks for
  an open link before it locks anything, so two requests create two. The order is
  settled once all the same (`PaidLinkPaidTheOrder`).
* `shelf`: *"Actual stock decrement/release belongs in the order service under an
  atomic transaction with ProductVariant row locking"* (`orders/models.py:835`). The
  product form writes stock too, from a copy it read without a lock
  (`catalog/serializers.py:1041`): it puts back the units that a checkout has taken
  in between. The variant itself, once reserved, cannot be taken away
  (`OrderedVariantsStay`).
* `attempts`: *"Too many incorrect attempts. Please request a new OTP."*
  (`accounts/services.py:157`). The transaction that counts a wrong code is rolled back
  by the exception that reports it (167), so `max_attempts` (`accounts/models.py:457`)
  is never reached, and the right code is accepted after any number of wrong ones.
* `last_day`: *"end => beginning of the following date"* (`analytics/views.py:555`).
  `parse_datetime` is asked first (563) and takes a date without a time for its
  midnight (`datetime.fromisoformat`), so the branch that adds a day is not reached. A
  report up to a day ends when that day begins, and one of a single day is refused.
  Windows of neighbouring days still add up (`ReportsAgree`).

Seen while modelling, without a run:

* the login merge adds two quantities with no cap, so an item may pass the maximum
  that the cart API enforces (`cart/services.py:75`);
* *"Generate and persist the PDF only once"* (`invoices/services.py`) holds for
  one workflow; two that overlap both find no PDF and both upload one;
* an invoice status computed from a stale copy may lag behind the PDF and mail
  columns; it never claims more than happened (`StatusIsEarned`);
* the event of a second paid link is refused on every delivery, so that money
  appears nowhere in the tables;
* only another event of the same payment restarts an invoice workflow that died;
* a link created at the gateway survives the rollback of the transaction that asked
  for it;
* a direct order repeated with its key at the same time ends in an unhandled
  `IntegrityError`;
* `minimum_cart_value` is described as *"the eligible cart subtotal"*
  (`promotions/models.py`), and compared with the subtotal of the whole cart;
* a product listing is priced as one cart (`calculate_for_variants`), so a capped
  promotion shows on its first products only;
* no caller passes `customer_type` or `shipping_type`, so a delivery rule with such
  a condition never applies;
* the entries of a delivery breakdown need not add up to the charge: they are
  rounded one by one, and a charge cut to zero leaves them.

In the services:

* two requests for a code that overlap both send one; once the newer code is used
  or expired, an older unused one is the newest again;
* *"every pre-existing authentication session is invalidated"* (`accounts/api.py:684`)
  holds for the sessions that the reset's query finds. A login that compared the old
  password may open its session after the reset has committed, or commit between the
  query and the reset's commit, and stays active in both cases. When the query finds
  a session it locks the customer's row with it, which a login has to wait for
  (the foreign key), so the second case needs a customer without an active session,
  or a login that is done before the lock;
* logout and revocation lock the session and then the customer, a reset the customer
  first: where the two wait on each other PostgreSQL aborts one, which the model
  has as a request that dies;
* registration saves a whole customer row from a copy; a customer's default address
  is chosen by an update followed by a save (`accounts/models.py:514`), and two
  that overlap leave two defaults;
* a WhatsApp reply is sent and then stored: when storing fails, the customer has it
  and the inbox does not;
* a message delivered late replaces the preview and the time of a newer one, all
  columns together;
* the Django admin's form of a lead saves every column as it was loaded and writes
  no activity; `TimelineExplainsLead` speaks of leads it did not touch;
* two requests that publish the last two rows of a catalog may each see the other's
  row unpublished (`publish_service.py`, around line 1005); the catalog stays open
  for ever. Two that create one product at the same time give the second the slug
  `-2`; a row marked invalid while it is being published is set valid again;
* a PATCH of a parsed row that overlaps its publishing saves the whole row as it was
  before, so a published row is pending again, and another can be imported without
  ever having been published; rows can be added to a closed catalog, and a PATCH of
  the catalog closes it over pending rows. `ImportedIsOnSale` and
  `ClosedMeansPublished` speak of what nobody wrote by hand;
* a delivery condition with operator *in* compares texts, so `100` is not the
  `100.00` of a cart: the serializer accepts, and a test expects it to accept,
  `cart_value in "100,200,300"`, which no cart of these amounts meets;
* a form that changes the value a variant has for an option is always refused, and
  two forms that overlap can give a variant two values of one option: the check is in
  Python (`catalog/models.py:405`); saving a variant that was deleted meanwhile
  inserts it again;
* minimum and maximum price of the listing filter are joined separately, so a
  product with a cheaper and a dearer variant matches a range between them; facets
  count active variants, the option filter also matches inactive ones; the filter
  ignores case, the facet also white space, which `StorefrontAgrees` reconciles for
  the spellings a facet offers; the sitemap lists products that are published but
  inactive;
* two overlapping saves of a delivery rule can combine into one that starts after it
  ends, or that overrides with a discount, which neither request could have written;
  a zone is counted empty and then deleted (`catalog/views.py:846`), and takes with it,
  by cascade, a rule pointed at it in between;
* `checkout_order_created` carries no product (`orders/views.py:448`), so
  `orders_created` of the product report (`analytics/views.py`) is always 0; a
  session counts as many unique sessions as products it looked at; cart and
  checkout events store the path of the API as page path; `last_seen_at` is assigned
  the time of the event and then overwritten by `auto_now`.

## 5. Theorems

Every invariant and every action property that a passing run checks is also proved,
for all values of the constants; so is the refinement of `OrderPromise`. What is left
to TLC alone is at the end of this section.

`OrderLifecycle_proofs` proves, for every set of orders and variants, every
initial stock, cart bound, number of rows, gateway orders, attempts, requests,
handlers and every batch size, from the named assumptions in the modules that
declare these constants: type correctness (so stock is never negative),
`StockConserved`, `OpenOrderHoldsStock`, `OneCapturePerOrder`,
`PaidMeansCaptured`, `AttemptsAreMatched`, `OneCallPerRow`,
`ProcessedMeansSettled`, and the action properties `CaptureIsFinal`,
`PaidOrderKeepsItsStock` and `NoLateAttachment`. It also proves
that the lifecycle implements `OrderPromise` under the mapping at the end of
`OrderLifecycle`: a settlement maps to `Pay`, a worker transaction to `PutBack`,
a checkout to `Place`, everything else to a stutter.

None of the safety properties is inductive alone. `IInv` adds what they lean on:

* `RowsBelongToOrders`: a row, a reservation, its gateway payment and a request in
  flight belong to an order that exists, so a new order starts without any and the
  count in `StockConserved` changes by what the step moves;
* `CaptureNewsIsTrue`: events and fetched results that announce a capture speak
  of attempts the gateway captured, which is why settlement may trust them;
* `CapturedIsClosed`: a captured order is confirmed and has no active
  reservation left. This is what protects its stock from the worker even while a
  late failure event shows it as failed;
* `AttemptsAreMatched`: attempts exist only for attached gateway orders.

`StockConserved` is about cardinalities of sets of single units (`UnitsOf`), so
its proof moves finite disjoint sets between shelf and holders and needs no
induction over sums. `OneCallPerRow` has its own invariant, `LeaseIsHeld`: a row
with a request at the gateway has its lease in progress. `ProcessedMeansSettled`
rests on `IInv` and `CaptureIsFinal`.

`DirectSales_proofs` proves type correctness, `PaidLinkPaidTheOrder`,
`ProcessedMeansSettled`, `PaymentIsFinal`, `InvoiceIsTruthful` and
`StatusIsEarned` for every number of orders, links, requests, workers and
handlers. Its invariant has two halves. `DirectInv` says of every settled order
that the paying link belongs to it and was captured at the gateway
(`SettledByPaidLink`), with the same for events in flight. `InvoiceInv` says that
every copy of an invoice row in a worker's memory is an old version of the row,
and PDFs and mails are never taken back, so what a copy claims has happened
(`CopyIsOld`) and a status derived from it claims nothing more. `InvoiceInv` leans on `DirectInv` only
through the finality of settlements.

`CartCheckout_proofs` proves type correctness, `KeyIncrementsOnce`,
`DeletedCartsHoldNothing` and `UnitsAccounted` for every number of carts, requests,
checkouts and keys. Its invariant says that the carts in use have been
numbered, each for one scope (`CartsAreApart`), so a deleted cart never comes back
under a request that found it, and that a cart which exists knows the keys that were
applied to it (`KeysAreKnown`). `UnitsAccounted` equates what the events report with
the units in two carts and a sum over all orders. A checkout moves the cart's units
into one new summand, a merge moves them between the carts, and every other step
changes both sides by its delta.

`Accounts_proofs` proves type correctness, `AuditTellsTheStory`,
`NoSessionOutlivesReset` and that nothing writes a session that has ended. Each of
the many request steps does one of four things to the tables: leaves the sessions
alone, opens one, ends some, or replaces those found by a new one; four lemmas prove the
invariant for these, and each step is shown to be one of them.

Of the codes it proves type correctness and `BurstIsBounded` for every number of codes and requests. Codes are made in order
(`MadeInOrder`) and those within the cooldown are the last ones (`RecentAreLast`), so a
lookup of the newest code that finds none recent finds none at all; then the recent
unused codes and the requests that have looked but not yet created number no more
than the requests (`BurstInv`).

`Contacts_proofs` proves three services for any number of messages, requests and rows.

* Inbox: type correctness, `EachMessageCounts` and `RowTellsOneMessage`. A webhook
  request that believes its message stored is right (`CallsKnow`), because no step
  removes a message, and a reply that is about to be stored was taken by the provider
  (`RepliesKnow`).
* Leads: `TimelineExplainsLead` and `RecordedMessagesWereSent`. The operations on a
  lead differ in what they write and agree in what matters: each appends one
  activity that tells just the difference between the old row and the new (`Tells`).
  One lemma shows that such a step keeps the story, and each operation is shown to
  be such a step. For the messages, those recorded and those a request still has to
  record are together no more than the providers took.
* Analytics: type correctness, `SessionKeepsIdentity` and `ReportsAgree`. Whatever a
  request has read of its session, the row still knows (`RowsKnowCopies`), so saving the
  enriched copy forgets nothing, and a login, which alone overwrites a customer, puts
  another known one there. `ReportsAgree` is a fact about any list of events: windows of
  neighbouring days are disjoint and cover both, a metric is a sum over products of
  cardinalities of disjoint sets, and a session is in at least one product's count.

`Catalog_proofs` proves four services.

* Publishing: `ImportedIsOnSale` and `ClosedMeansPublished`. What a request has looked
  up (`WorkHolds`) stays true until it commits, since products, variants and the mark
  *imported* are only taken back by hand (`GoesOn`), and what was written by hand is
  known (`byHand`); so a commit from a stale reading is still right about the rest.
  Each step by hand is shown to spare every row and product but its own.
* ProductForm: `OrderedVariantsStay`. Nothing locks a variant, so the invariant is
  about identity: an id stands under one SKU in the catalog, in every loaded form and in
  every row that was read (`IdsKeepTheirSku`), ids are not reused (`IdsWereGiven`), and
  the protected foreign key is checked against the rows as they are at the commit.
* DeliveryAdmin: `RulesHaveTheirZone` and `StatusFilterAgrees`. The counting of rules
  before a zone is deleted appears nowhere in the proof; cascade and foreign key do it.
  Status and scope agree on every row whose columns hold values of their kind.
* Storefront: `StorefrontAgrees`, for every catalog whose variants carry values of their
  own product and for all spellings. That facets and filters spell keys differently is
  bridged by the order of the three normalisations, from lower case over white space
  to underscores (`SpellingsAssumption`).

`Pricing_proofs` proves `CapRespected`, `LinesGoByRank`, `ChargeFollowsRules` and
`TotalIsSumOfParts` for every cart, any finite number of promotions and delivery
rules, and any rates. `Given` says that what a promotion has used is the sum of its
shares and within its cap; `Turns`, that a promotion which had its turn on a line gave all
it could. An earlier line's promotion stays full on it when a later line is served,
because the sum up to its line no longer changes. For the delivery loop, `Loop` states
the reference for the rules that have had their turn: `ChargeOf(D)` is the largest sum
of a tail of `D` since its last override. One lemma (`OneMoreRule`) gives what it becomes
when the next rule in order joins: the charge is added and clamped at zero, or the
override restarts it. The order's total then is a rearrangement of sums.

`SetLemmas` has what these proofs use of sums. The community modules define a sum by
recursion inside a `CHOOSE`: over all tables of partial sums of subsets. `SumsExist` and
`SumsAgree` show that there is such a table over each finite set and what it says is
determined, from which it follows that a sum does not depend on the order, splits over
disjoint sets, and changes by one term when one term does. Induction is on the strict
subsets of a finite set, used through the existence of a smallest counterexample.
Theorems with an operator parameter are not needed, as the set to be minimal in is a
set of sets.

The assumptions on constants are named in the modules that declare them, and TLC
evaluates them on the instances it runs. Those about data say what the database
admits: `IsCampaign` and `IsRule` the columns and constraints of a promotion and a
delivery rule, `IsAssortment` that a variant carries values of its own product
(`ProductVariantOption.clean`), `SituationsAssumption` that no cart line has a negative
price, `FormsAssumption` that the variants of the first form are numbered,
`PublishingAssumption` that no entry is named like an unused product row.

Model-checked only:

* liveness, which is outside TLAPS with `ENABLED`: `ReservationsEnd`,
  `CapturesAreRecorded`, `PaymentsAreRecorded`;
* that the properties of the runs that expect a violation fail: a counterexample is
  all there is to show.

Nothing is stated about the end of the requests of the services: their code has no
schedule from which it would follow.

## 6. Not modelled

* The PDF parser and the layout of invoice PDFs: heuristics and rendering without
  state. Configuration and routes.
* Catalog import: the view that uploads a PDF is not routed, and reading its pages is a
  management command; reparsing a catalog.
* Generic view sets that store one row as it is given (categories, brands, images,
  promotions, pincodes), profile and address forms, renaming an option or a value.
* Text search, ordering and pages of the listing; lists and counts of the CRM.
* `reconcile_checkout_payment` and `mark_invoice_generated`, which nothing calls.
* Row locks one by one. Where two lock orders conflict (checkout's joined lock of
  variants, worker and settlement on reservations) PostgreSQL aborts one side, and
  the models take that as a transaction that did not happen.
* The arithmetic of a direct order's items.

## 7. What comes next

The core came first (orders, stock and money), then direct sales and invoices,
pricing, and the services around them. What is left, in order:

1. `RowLocks`: checkout, worker and settlement as sequences of row locks, to
   state which pairs can wait on each other. It is the one listed hazard without a
   property.
2. An abstract specification of a paid direct order that `DirectSales` implements,
   as `OrderPromise` is for the lifecycle; and one of a session for `Accounts`.
3. `reconcile_checkout_payment`, as soon as something calls it.
