----------------------------- MODULE Publishing -----------------------------
(***************************************************************************)
(* Publishing an imported catalog (catalog_import): the rows parsed from a *)
(* JSON file become products and variants of the shop.  Publishing takes   *)
(* no lock; what keeps two requests apart are the unique slugs and SKUs.   *)
(* A request reads rows, and publishes each in a transaction of its own.   *)
(* Meanwhile rows and catalogs are written by hand, as a whole (create,    *)
(* update and destroy of the two view sets, and the admin), and products   *)
(* and variants by the product administration (see ProductForm).           *)
(***************************************************************************)
EXTENDS Naturals, FiniteSets, FiniteSetsExt

CONSTANTS
    Rows,           \* rows, one for each entry of a file
    Entry,          \* what each entry says
    Publishers,     \* administrators' requests
    MaxProducts,    \* products created
    MaxByHand       \* times a row, a catalog or a product is written by hand

\* An entry's price sources are the sets of labels they have a price for.
\* static holds the values that do not fan out, such as a size.
ASSUME PublishingAssumption ==
    /\ MaxProducts \in Nat /\ MaxByHand \in Nat
    /\ \A r \in Rows : DOMAIN Entry[r] =
           {"name", "sku", "variant", "static", "variants", "prices", "finishes", "legacy"}
    /\ \A r \in Rows : Entry[r].name \notin {"none", "gone"}

VARIABLES
    catalog,     \* status of the CatalogImport row
    parsed,      \* ParsedProduct rows
    product,     \* Product rows: name, and slug with its number
    variants,    \* ProductVariant rows with their option values
    publisher,   \* per request: what it does, and the rows as it read them
    byHand,      \* history: rows, catalogs and products that were written by hand
    handWrites,  \* how often
    sales        \* history: what was published, as it was read, and as which product

catalogTables == <<catalog, parsed, product, variants>>
histories == <<byHand, handWrites, sales>>
publishingVars == <<catalogTables, publisher, histories>>

ProductIds == 1..MaxProducts
NoProduct == 0
Absent == [name |-> "none", slug |-> <<"none", 0>>]
Gone == [name |-> "gone", slug |-> <<"gone", 0>>]
IsThere(p) == product[p] \notin {Absent, Gone}

\* UPLOADED, PARSING and FAILED are only stored, as PARSED is.
CatalogStatuses == {"parsed", "imported"}
\* says is the entry whose words the row has.  Of the status only INVALID counts.
Unparsed(r) == [exists |-> FALSE, says |-> r, invalid |-> FALSE, imported |-> FALSE]
ParsedRows == [exists : BOOLEAN, says : Rows, invalid : BOOLEAN, imported : BOOLEAN]
NotPublishing == [at |-> "rest"]

PublishingInit ==
    /\ catalog = "absent"
    /\ parsed = [r \in Rows |-> Unparsed(r)]
    /\ product = [p \in ProductIds |-> Absent]
    /\ variants = {}
    /\ publisher = [a \in Publishers |-> NotPublishing]
    /\ byHand = {} /\ handWrites = 0 /\ sales = {}

ARow(r) == <<"row", r>>
AProduct(p) == <<"product", p>>
TheCatalog == <<"catalog", "status">>

\* Bound: MaxByHand.
ByHand(what) ==
    /\ handWrites < MaxByHand /\ handWrites' = handWrites + 1
    /\ byHand' = byHand \cup {what}

(***************************************************************************)
(* import_json                                                             *)
(***************************************************************************)
\* Two entries of a file may share a SKU when they name different variants.
RowKey(r) == <<Entry[r].sku, Entry[r].name, Entry[r].variant>>

\* A file is imported as a whole, or not at all.
ImportJson(rs) ==
    /\ catalog = "absent"
    /\ rs # {} /\ \A r, s \in rs : RowKey(r) = RowKey(s) => r = s
    /\ catalog' = "parsed"
    /\ parsed' = [r \in Rows |-> [Unparsed(r) EXCEPT !.exists = r \in rs]]
    /\ UNCHANGED <<product, variants, publisher, histories>>

(***************************************************************************)
(* What an entry offers.                                                   *)
(***************************************************************************)
\* _resolve_fanout_axis: the first source that has something.
Labels(e) ==
    IF e.prices # {} THEN e.prices ELSE IF e.finishes # {} THEN e.finishes ELSE e.legacy

\* _build_variant_sku: the SKU of the row, or one per label when there are more.
BuiltSku(e, label) == IF Cardinality(Labels(e)) > 1 THEN <<e.sku, label>> ELSE <<e.sku>>

\* The variants of an entry, by the values that make them up.
Offers(r) ==
    LET e == Entry[r] IN
    IF e.variants # {}
    THEN {[values |-> e.static \cup {v.label}, sku |-> <<v.sku>>] : v \in e.variants}
    ELSE {[values |-> e.static \cup {l}, sku |-> BuiltSku(e, l)] : l \in Labels(e)}

Published(p) == {v \in variants : v.product = p}
Combinations(p) == {v.values : v \in Published(p)}

\* Mutation of Fresh: a combination counts as present when any product has it.
FreshAnywhere(r, p) == {o \in Offers(r) : \A v \in variants : v.values # o.values}

\* Combinations the product does not have yet.
Fresh(r, p) == {o \in Offers(r) : o.values \notin Combinations(p)}

TakenSkus == {v.sku : v \in variants}

(***************************************************************************)
(* ParsedProductViewSet.publish and bulk_action with "publish".            *)
(***************************************************************************)
PublisherAt(a, next) == publisher' = [publisher EXCEPT ![a] = next]
Work(a) == publisher[a]
Left(a) == Work(a).copies

\* publish_parsed_product refuses a row that was imported or invalid when it was
\* read, which changes nothing: those are out from the beginning.
Publishable(rs) == {r \in rs : parsed[r].exists /\ ~parsed[r].imported /\ ~parsed[r].invalid}

\* One row, or the ones selected, as they are now.
LoadRows(a, rs) ==
    /\ Work(a) = NotPublishing
    /\ rs # {} /\ rs = Publishable(rs)
    /\ PublisherAt(a, [at |-> "next", copies |-> [r \in rs |-> parsed[r].says]])
    /\ UNCHANGED <<catalogTables, histories>>

\* The request goes on to the next row, or ends.
NextRow(a, r) ==
    PublisherAt(a, IF DOMAIN Left(a) = {r} THEN NotPublishing
            ELSE [at |-> "next", copies |-> [s \in DOMAIN Left(a) \ {r} |-> Left(a)[s]]])

SameName(r) == {p \in ProductIds : product[p].name = Entry[r].name}

\* _find_or_create_product, the lookup, by the name the row had when it was read.
FindProduct(a, r) ==
    /\ Work(a).at = "next" /\ r \in DOMAIN Left(a)
    /\ LET same == SameName(Left(a)[r]) IN
       \E p \in IF same = {} THEN {NoProduct} ELSE same :
          PublisherAt(a, [at |-> "found", copies |-> Left(a), row |-> r, product |-> p])
    /\ UNCHANGED <<catalogTables, histories>>

\* _unique_slug
TakenSlugs == {product[p].slug : p \in ProductIds}
FreeSlug(name) == <<name, Min({n \in 1..MaxProducts + 1 : <<name, n>> \notin TakenSlugs})>>

NewSlug(r, p) == IF p = NoProduct THEN FreeSlug(Entry[r].name) ELSE Absent.slug

\* The slug of a new product, then _create_variants with the SKU check.  Options,
\* values and variants refer to the product, which must still be there.
Resolve(a) ==
    LET r == Work(a).row  e == Left(a)[r]  fresh == Fresh(e, Work(a).product) IN
    /\ Work(a).at = "found"
    /\ Offers(e) # {}
    /\ IF fresh = {} THEN Work(a).product # NoProduct
       ELSE Work(a).product # NoProduct => IsThere(Work(a).product)
    /\ \A o \in fresh : o.sku \notin TakenSkus
    /\ PublisherAt(a, [at |-> "resolved", copies |-> Left(a), row |-> r, product |-> Work(a).product,
                slug |-> NewSlug(e, Work(a).product), offers |-> fresh])
    /\ UNCHANGED <<catalogTables, histories>>

\* A row is locked from its update to the end of the transaction, and so is the
\* catalog when the transaction closes it.
RowLocked(r) == \E a \in Publishers : Work(a).at = "closing" /\ Work(a).row = r
CatalogLocked == \E a \in Publishers : Work(a).at = "closing" /\ Work(a).closes

\* Mutation of SeesAllImported: the catalog closes with its first row.
SeesNothing(r) == r \in Rows

\* No other row that is left, as far as committed.
SeesAllImported(r) == \A s \in Rows \ {r} : parsed[s].exists => parsed[s].imported

\* _update_catalog_status: three columns of the row are updated, if it still
\* exists, and the rows that remain are looked up.
MarkImported(a) ==
    LET r == Work(a).row IN
    /\ Work(a).at = "resolved"
    /\ parsed[r].exists /\ ~RowLocked(r)
    /\ PublisherAt(a, [at |-> "closing", copies |-> Left(a), row |-> r, product |-> Work(a).product,
                slug |-> Work(a).slug, offers |-> Work(a).offers,
                closes |-> SeesAllImported(r)])
    /\ UNCHANGED <<catalogTables, histories>>

\* The unique indexes on slug and SKU.
Unique(a) ==
    /\ Work(a).product = NoProduct => Work(a).slug \notin TakenSlugs
    /\ \A o \in Work(a).offers : o.sku \notin TakenSkus

NewVariants(a, p) ==
    {[product |-> p, values |-> o.values, sku |-> o.sku] : o \in Work(a).offers}

NextProduct(p) == product[p] = Absent /\ \A q \in 1..p - 1 : product[q] # Absent

\* Everything becomes visible at once.  Bound: MaxProducts.
Commit(a) ==
    LET r == Work(a).row  e == Left(a)[r] IN
    /\ Work(a).at = "closing" /\ Unique(a)
    /\ \E p \in ProductIds :
          /\ IF Work(a).product = NoProduct
             THEN /\ NextProduct(p)
                  /\ product' = [product EXCEPT ![p] =
                                   [name |-> Entry[e].name, slug |-> Work(a).slug]]
             ELSE p = Work(a).product /\ UNCHANGED product
          /\ variants' = variants \cup NewVariants(a, p)
          /\ sales' = sales \cup {[row |-> r, says |-> e, product |-> p]}
    /\ parsed' = [parsed EXCEPT ![r].imported = TRUE, ![r].invalid = FALSE]
    /\ catalog' = IF Work(a).closes THEN "imported" ELSE catalog
    /\ NextRow(a, r)
    /\ UNCHANGED <<byHand, handWrites>>

\* The transaction rolls back: no price, a taken SKU or slug, a row or a product
\* deleted meanwhile, an option another request has just created, a lost connection.
PublishFails(a) ==
    /\ Work(a).at \in {"found", "resolved", "closing"}
    /\ NextRow(a, Work(a).row)
    /\ UNCHANGED <<catalogTables, histories>>

\* The process dies between two rows; within one, the transaction fails first.
PublisherDies(a) ==
    /\ Work(a).at = "next"
    /\ PublisherAt(a, NotPublishing)
    /\ UNCHANGED <<catalogTables, histories>>

(***************************************************************************)
(* bulk_action with "mark_valid", "mark_invalid" and "delete", and destroy *)
(* of one row: one statement each, whatever is being published.            *)
(***************************************************************************)
\* (Those that are marked so already stay as they are.)
MarkRows(rs, invalid) ==
    /\ rs # {} /\ \A r \in rs : parsed[r].exists /\ ~RowLocked(r)
    /\ \A r \in rs : parsed[r].invalid # invalid
    /\ parsed' = [r \in Rows |-> IF r \in rs THEN [parsed[r] EXCEPT !.invalid = invalid]
                                 ELSE parsed[r]]
    /\ UNCHANGED <<catalog, product, variants, publisher, histories>>

DeleteRows(rs) ==
    /\ rs # {} /\ \A r \in rs : parsed[r].exists /\ ~RowLocked(r)
    /\ parsed' = [r \in Rows |-> IF r \in rs THEN Unparsed(r) ELSE parsed[r]]
    /\ UNCHANGED <<catalog, product, variants, publisher, histories>>

(***************************************************************************)
(* create and update of ParsedProductViewSet and CatalogImportViewSet, and *)
(* the admin, write every field.  An update saves all columns of the copy  *)
(* it read, however long ago, with the fields it was sent: so the row may  *)
(* come to say anything, what it said before a publish included, and a row *)
(* deleted in between is inserted again.                                   *)
(***************************************************************************)
\* A catalog without a file, or one that is or was there.
WriteCatalog ==
    /\ ~CatalogLocked
    /\ catalog' \in CatalogStatuses
    /\ ByHand(TheCatalog)
    /\ UNCHANGED <<parsed, product, variants, publisher, sales>>

\* Whatever the status of the catalog, which must be there.  A new row, or one
\* that is or was there.
WriteRow(r) ==
    /\ catalog \in CatalogStatuses /\ ~RowLocked(r)
    /\ \E row \in ParsedRows : row.exists /\ parsed' = [parsed EXCEPT ![r] = row]
    /\ ByHand(ARow(r))
    /\ UNCHANGED <<catalog, product, variants, publisher, sales>>

\* destroy of a catalog takes its rows with it.
DeleteCatalog ==
    /\ catalog \in CatalogStatuses
    /\ ~CatalogLocked /\ \A r \in Rows : ~RowLocked(r)
    /\ catalog' = "deleted"
    /\ parsed' = [r \in Rows |-> Unparsed(r)]
    /\ UNCHANGED <<product, variants, publisher, histories>>

(***************************************************************************)
(* The product administration: what it may do to the products meanwhile.   *)
(***************************************************************************)
\* A product is not deleted while new variants refer to it.
Awaited(p) ==
    \E a \in Publishers : /\ Work(a).at \in {"resolved", "closing"}
                          /\ Work(a).product = p /\ Work(a).offers # {}

ProductNames == {Entry[r].name : r \in Rows} \cup {"other"}

StaffCreates(p) ==
    /\ NextProduct(p)
    /\ \E name \in ProductNames : product' = [product EXCEPT ![p] = [name |-> name, slug |-> FreeSlug(name)]]
    /\ ByHand(AProduct(p))
    /\ UNCHANGED <<catalog, parsed, variants, publisher, sales>>

StaffRenames(p) ==
    /\ IsThere(p)
    /\ \E name \in ProductNames : product' = [product EXCEPT ![p].name = name]
    /\ ByHand(AProduct(p))
    /\ UNCHANGED <<catalog, parsed, variants, publisher, sales>>

StaffDeletes(p) ==
    /\ IsThere(p) /\ ~Awaited(p)
    /\ product' = [product EXCEPT ![p] = Gone]
    /\ variants' = variants \ Published(p)
    /\ ByHand(AProduct(p))
    /\ UNCHANGED <<catalog, parsed, publisher, sales>>

StaffRemovesVariant(p) ==
    /\ \E v \in Published(p) : variants' = variants \ {v}
    /\ ByHand(AProduct(p))
    /\ UNCHANGED <<catalog, parsed, product, publisher, sales>>

\* A variant of the product's own, perhaps with the SKU and values of an entry.
StaffAddsVariant(p) ==
    /\ IsThere(p)
    /\ \E r \in Rows : \E o \in Offers(r) :
          /\ o.sku \notin TakenSkus
          /\ variants' = variants \cup {[product |-> p, values |-> o.values, sku |-> o.sku]}
    /\ ByHand(AProduct(p))
    /\ UNCHANGED <<catalog, parsed, product, publisher, sales>>

StaffStep(p) ==
    \/ StaffCreates(p) \/ StaffRenames(p) \/ StaffDeletes(p)
    \/ StaffRemovesVariant(p) \/ StaffAddsVariant(p)

PublisherStep(a) ==
    \/ \E rs \in SUBSET Rows : LoadRows(a, rs)
    \/ \E r \in Rows : FindProduct(a, r)
    \/ Resolve(a) \/ MarkImported(a) \/ Commit(a)
    \/ PublishFails(a) \/ PublisherDies(a)

PublishingNext ==
    \/ \E rs \in SUBSET Rows :
          \/ ImportJson(rs) \/ DeleteRows(rs)
          \/ \E invalid \in BOOLEAN : MarkRows(rs, invalid)
    \/ \E r \in Rows : WriteRow(r)
    \/ \E a \in Publishers : PublisherStep(a)
    \/ WriteCatalog \/ DeleteCatalog
    \/ \E p \in ProductIds : StaffStep(p)

PublishingSpec == PublishingInit /\ [][PublishingNext]_publishingVars

(***************************************************************************)
(* Properties.                                                             *)
(***************************************************************************)
PublishingTypeOK ==
    /\ catalog \in {"absent", "deleted"} \cup CatalogStatuses
    /\ parsed \in [Rows -> ParsedRows]
    /\ \A v \in variants : v.product \in ProductIds
    /\ \A s \in sales : s.row \in Rows /\ s.says \in Rows /\ s.product \in ProductIds

\* What is on sale and what is marked imported agree, although requests look for
\* the product and its variants without a lock, rows are deleted, marked and
\* edited under them, and the staff work on the products: a row nobody wrote by
\* hand is marked imported exactly if it has been published ("if any step fails,
\* nothing is committed"), and a product the staff left alone has the name, every
\* combination and no other variant than what was published as it.
ImportedIsOnSale ==
    /\ \A r \in Rows : parsed[r].exists /\ ARow(r) \notin byHand =>
           (parsed[r].imported <=> \E s \in sales : s.row = r)
    /\ \A s \in sales : AProduct(s.product) \notin byHand =>
           /\ product[s.product].name = Entry[s.says].name
           /\ \A o \in Offers(s.says) : o.values \in Combinations(s.product)
    /\ \A v \in variants : AProduct(v.product) \notin byHand =>
           \E s \in sales : s.product = v.product
                            /\ [values |-> v.values, sku |-> v.sku] \in Offers(s.says)

\* A catalog is closed "once nothing is left pending": whichever requests race to
\* publish its last rows, and whoever deletes or edits others meanwhile, a catalog
\* that publishing has closed has no row left pending but those put there by hand.
ClosedMeansPublished ==
    catalog = "imported" /\ TheCatalog \notin byHand =>
        \A r \in Rows : parsed[r].exists /\ ARow(r) \notin byHand => parsed[r].imported
=============================================================================
