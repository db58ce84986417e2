--------------------------- MODULE Catalog_proofs ---------------------------
(***************************************************************************)
(* Proofs about the catalog: what an import publishes (Publishing), what   *)
(* the product form may write (ProductForm), which delivery rules there    *)
(* are (DeliveryAdmin), and what a shopper finds (Storefront).             *)
(***************************************************************************)
EXTENDS Publishing, ProductForm, Storefront, DeliveryAdmin, SetLemmas

-----------------------------------------------------------------------------
(***************************************************************************)
(* Proofs about Publishing for any file, requests and number of products.  *)
(* What a request has looked up stays true until it commits, because       *)
(* products, variants and the mark "imported" are only taken back by hand, *)
(* and what was written by hand is known.                                  *)
(***************************************************************************)
ByStaff(p) == AProduct(p) \in byHand
ByCurator(r) == ARow(r) \in byHand

\* What a request relies on when it commits.
Reads(w) == w.row \in Rows /\ w.copies[w.row] \in Rows
FindsItsName(w) ==
    /\ w.product \in {NoProduct} \cup ProductIds
    /\ w.product # NoProduct /\ ~ByStaff(w.product)
           => product[w.product].name = Entry[w.copies[w.row]].name
OffersTheRest(w) ==
    LET e == w.copies[w.row] IN
    /\ w.offers \subseteq Offers(e)
    /\ w.product = NoProduct \/ ~ByStaff(w.product)
           => \A o \in Offers(e) : o \in w.offers \/ o.values \in Combinations(w.product)
OthersImported(r) ==
    \A s \in Rows \ {r} : parsed[s].exists /\ ~ByCurator(s) => parsed[s].imported

WorkHolds(w) ==
    /\ w.at = "next" => \A r \in DOMAIN w.copies : r \in Rows /\ w.copies[r] \in Rows
    /\ w.at \in {"found", "resolved", "closing"} =>
           /\ Reads(w) /\ FindsItsName(w)
           /\ \A r \in DOMAIN w.copies : r \in Rows /\ w.copies[r] \in Rows
    /\ w.at \in {"resolved", "closing"} => OffersTheRest(w)
    /\ w.at = "closing" /\ w.closes => OthersImported(w.row)

PublishingTypes ==
    /\ PublishingTypeOK
    /\ product = [p \in ProductIds |-> product[p]]
    /\ publisher = [a \in Publishers |-> publisher[a]]

\* Until there is a catalog there is nothing to publish.
NothingBefore ==
    catalog = "absent" =>
        /\ parsed = [r \in Rows |-> Unparsed(r)]
        /\ \A a \in Publishers : publisher[a] = NotPublishing
        /\ sales = {}

PublishingInv ==
    /\ PublishingTypes
    /\ NothingBefore
    /\ \A a \in Publishers : WorkHolds(publisher[a])
    /\ ImportedIsOnSale
    /\ ClosedMeansPublished

\* What no step takes back but by hand, once there is a catalog.
ProductsGoOn ==
    /\ byHand \subseteq byHand'
    /\ \A p \in ProductIds : ~ByStaff(p)' =>
          /\ product[p].name # "none" => product'[p] = product[p]
          /\ Published(p) \subseteq Published(p)'
RowsGoOn ==
    \A r \in Rows : parsed'[r].exists /\ ~ByCurator(r)' =>
          parsed[r].exists /\ (parsed[r].imported => parsed'[r].imported)
GoesOn == ProductsGoOn /\ RowsGoOn

-----------------------------------------------------------------------------
LEMMA NameStays ==
    ASSUME GoesOn, NEW p \in ProductIds, ~ByStaff(p)', NEW r \in Rows,
           ~ByStaff(p) => product[p].name = Entry[r].name
    PROVE  product'[p].name = Entry[r].name
BY PublishingAssumption DEF GoesOn, ProductsGoOn, ByStaff

LEMMA CombinationsGrow ==
    ASSUME GoesOn, NEW p, p \in ProductIds => ~ByStaff(p)', PublishingTypes,
           NEW c \in Combinations(p)
    PROVE  c \in Combinations(p)' /\ p \in ProductIds
<1>1. PICK v \in variants : v.product = p /\ v.values = c
  BY DEF Combinations, Published
<1>2. p \in ProductIds
  BY <1>1 DEF PublishingTypes, PublishingTypeOK
<1>3. v \in Published(p)'
  BY <1>1, <1>2 DEF GoesOn, ProductsGoOn, Published
<1> QED
  BY <1>1, <1>2, <1>3 DEF Combinations

\* The argument of both theorems: what a request relies on goes on.
LEMMA WorkStays == ASSUME GoesOn, PublishingTypes, NEW w, WorkHolds(w) PROVE WorkHolds(w)'
<1>1. byHand \subseteq byHand' /\ NoProduct \notin ProductIds
  BY DEF GoesOn, ProductsGoOn, NoProduct, ProductIds
<1>2. ASSUME w.at \in {"found", "resolved", "closing"} PROVE Reads(w) /\ FindsItsName(w)'
  <2>1. Reads(w) /\ FindsItsName(w)
    BY <1>2 DEF WorkHolds
  <2>2. ASSUME w.product # NoProduct, ~ByStaff(w.product)'
        PROVE  product'[w.product].name = Entry[w.copies[w.row]].name
    BY <2>1, <2>2, NameStays DEF Reads, FindsItsName
  <2> QED
    BY <2>1, <2>2 DEF FindsItsName
<1>3. ASSUME w.at \in {"resolved", "closing"} PROVE OffersTheRest(w)'
  <2>1. OffersTheRest(w) /\ FindsItsName(w)
    BY <1>3 DEF WorkHolds
  <2>2. ASSUME w.product = NoProduct \/ ~ByStaff(w.product)', NEW o \in Offers(w.copies[w.row]),
               o \notin w.offers
        PROVE  o.values \in Combinations(w.product)'
    <3>1. o.values \in Combinations(w.product)
      BY <1>1, <2>1, <2>2 DEF OffersTheRest, ByStaff
    <3>2. w.product \in ProductIds => ~ByStaff(w.product)'
      BY <1>1, <2>2
    <3> QED
      BY <3>1, <3>2, CombinationsGrow
  <2> QED
    BY <2>1, <2>2 DEF OffersTheRest, Offers
<1>4. ASSUME w.at = "closing", w.closes PROVE OthersImported(w.row)'
  <2>1. OthersImported(w.row)
    BY <1>4 DEF WorkHolds
  <2> QED
    BY <1>1, <2>1 DEF OthersImported, GoesOn, RowsGoOn, ByCurator
<1>5. Reads(w) => Reads(w)'
  BY DEF Reads
<1> QED
  BY <1>2, <1>3, <1>4, <1>5 DEF WorkHolds

LEMMA AllWorkStays ==
    ASSUME PublishingInv, GoesOn, UNCHANGED publisher
    PROVE  \A b \in Publishers : WorkHolds(publisher[b])'
<1> TAKE b \in Publishers
<1>1. PICK w : w = publisher[b]
  OBVIOUS
<1>2. WorkHolds(w)'
  BY <1>1, WorkStays DEF PublishingInv
<1> QED
  BY <1>1, <1>2 DEF WorkHolds, Reads, FindsItsName, OffersTheRest, OthersImported


\* What is on sale stays so while nothing is sold.
RowsAgree ==
    \A r \in Rows : parsed'[r].exists /\ ~ByCurator(r)' =>
          parsed[r].exists /\ (parsed'[r].imported <=> parsed[r].imported)
VariantsAgree == \A v \in variants' : v \in variants \/ ByStaff(v.product)'

LEMMA SaleStays ==
    ASSUME PublishingInv, ProductsGoOn, RowsAgree, VariantsAgree, sales' = sales
    PROVE  ImportedIsOnSale' /\ GoesOn
<1>0. GoesOn /\ byHand \subseteq byHand'
  BY DEF GoesOn, ProductsGoOn, RowsGoOn, RowsAgree
<1>1. ASSUME NEW r \in Rows, parsed'[r].exists, ~ByCurator(r)'
      PROVE  parsed'[r].imported <=> \E s \in sales : s.row = r
  BY <1>0, <1>1 DEF RowsAgree, ByCurator, PublishingInv, ImportedIsOnSale
<1>2. ASSUME NEW s \in sales, ~ByStaff(s.product)'
      PROVE  /\ product'[s.product].name = Entry[s.says].name
             /\ \A o \in Offers(s.says) : o.values \in Combinations(s.product)'
  <2>1. s.product \in ProductIds /\ s.says \in Rows /\ ~ByStaff(s.product)
    BY <1>0, <1>2 DEF ByStaff, PublishingInv, PublishingTypes, PublishingTypeOK
  <2>2. /\ product[s.product].name = Entry[s.says].name
        /\ \A o \in Offers(s.says) : o.values \in Combinations(s.product)
    BY <2>1 DEF ByStaff, PublishingInv, ImportedIsOnSale
  <2>3. product'[s.product].name = Entry[s.says].name
    BY <1>0, <1>2, <2>1, <2>2, NameStays
  <2> QED
    BY <1>0, <1>2, <2>2, <2>3, CombinationsGrow DEF PublishingInv
<1>3. ASSUME NEW v \in variants', ~ByStaff(v.product)'
      PROVE  \E s \in sales : s.product = v.product
                              /\ [values |-> v.values, sku |-> v.sku] \in Offers(s.says)
  BY <1>0, <1>3 DEF VariantsAgree, ByStaff, PublishingInv, ImportedIsOnSale
<1> QED
  BY <1>0, <1>1, <1>2, <1>3 DEF ImportedIsOnSale, ByCurator, ByStaff, Offers

\* Nothing is closed that was open, and nothing becomes pending but by hand.
LEMMA ClosedStays ==
    ASSUME ClosedMeansPublished, RowsAgree, byHand \subseteq byHand',
           catalog' = "imported" => catalog = "imported" \/ TheCatalog \in byHand'
    PROVE  ClosedMeansPublished'
BY DEF ClosedMeansPublished, RowsAgree, ByCurator

\* The steps that write no row of the catalog.
LEMMA WorkGoesOn ==
    ASSUME PublishingInv, UNCHANGED <<catalog, parsed, product, variants, byHand, sales>>,
           NEW a \in Publishers, NEW next, publisher' = [publisher EXCEPT ![a] = next],
           WorkHolds(next), catalog = "absent" => next = NotPublishing
    PROVE  PublishingInv'
<1>0. ProductsGoOn /\ RowsAgree /\ VariantsAgree
  BY DEF ProductsGoOn, RowsAgree, VariantsAgree, Published, ByCurator
<1>1. PublishingTypes' /\ NothingBefore'
  BY DEF PublishingInv, PublishingTypes, PublishingTypeOK, NothingBefore
<1>2. ImportedIsOnSale' /\ GoesOn /\ ClosedMeansPublished'
  BY <1>0, SaleStays, ClosedStays DEF PublishingInv
<1>3. ASSUME NEW b \in Publishers PROVE WorkHolds(publisher[b])'
  <2>1. PICK w : w = publisher'[b]
    OBVIOUS
  <2>2. WorkHolds(w)
    BY <2>1 DEF PublishingInv, PublishingTypes
  <2>3. WorkHolds(w)'
    BY <1>2, <2>2, WorkStays DEF PublishingInv
  <2> QED
    BY <2>1, <2>3 DEF WorkHolds, Reads, FindsItsName, OffersTheRest, OthersImported
<1> QED
  BY <1>1, <1>2, <1>3 DEF PublishingInv

\* The steps under which the requests go on as they are.
LEMMA OthersWrite ==
    ASSUME PublishingInv, PublishingTypes', UNCHANGED <<publisher, sales>>,
           ProductsGoOn, RowsAgree, VariantsAgree,
           catalog' = "imported" => catalog = "imported" \/ TheCatalog \in byHand',
           catalog' = "absent" => UNCHANGED <<catalog, parsed>>
    PROVE  PublishingInv'
<1>1. ImportedIsOnSale' /\ GoesOn /\ ClosedMeansPublished'
  BY SaleStays, ClosedStays DEF PublishingInv, ProductsGoOn
<1>2. NothingBefore'
  BY DEF PublishingInv, NothingBefore
<1>3. \A b \in Publishers : WorkHolds(publisher[b])'
  BY <1>1, AllWorkStays
<1> QED
  BY <1>1, <1>2, <1>3 DEF PublishingInv

-----------------------------------------------------------------------------
LEMMA RestHolds == WorkHolds(NotPublishing)
BY DEF WorkHolds, NotPublishing

LEMMA PublishingInvInit == PublishingInit => PublishingInv
<1> SUFFICES ASSUME PublishingInit PROVE PublishingInv
  OBVIOUS
<1>0. \A r \in Rows : ~parsed[r].imported /\ ~parsed[r].exists /\ parsed[r] \in ParsedRows
  BY DEF PublishingInit, Unparsed, ParsedRows
<1>1. PublishingTypes
  BY <1>0 DEF PublishingInit, PublishingTypes, PublishingTypeOK
<1>2. ImportedIsOnSale /\ ClosedMeansPublished /\ NothingBefore
  BY <1>0 DEF PublishingInit, ImportedIsOnSale, ClosedMeansPublished, NothingBefore
<1>3. \A a \in Publishers : WorkHolds(publisher[a])
  BY RestHolds DEF PublishingInit
<1> QED
  BY <1>1, <1>2, <1>3 DEF PublishingInv

LEMMA Imports == ASSUME PublishingInv, NEW rs \in SUBSET Rows, ImportJson(rs) PROVE PublishingInv'
<1>1. /\ catalog' = "parsed" /\ parsed' = [r \in Rows |-> [Unparsed(r) EXCEPT !.exists = r \in rs]]
      /\ UNCHANGED <<product, variants, publisher, byHand, sales>>
      /\ sales = {} /\ \A a \in Publishers : publisher[a] = NotPublishing
  BY DEF ImportJson, PublishingInv, NothingBefore, histories
<1>2. ASSUME NEW r \in Rows PROVE parsed'[r] \in ParsedRows /\ ~parsed'[r].imported
  <2>1. PICK here \in BOOLEAN : here <=> r \in rs
    OBVIOUS
  <2>2. parsed'[r] = [exists |-> r \in rs, says |-> r, invalid |-> FALSE, imported |-> FALSE]
    BY <1>1 DEF Unparsed
  <2>3. parsed'[r] = [exists |-> here, says |-> r, invalid |-> FALSE, imported |-> FALSE]
    BY <2>1, <2>2, Zenon
  <2> QED
    BY <2>3 DEF ParsedRows
<1>3. PublishingTypes'
  BY <1>1, <1>2 DEF PublishingInv, PublishingTypes, PublishingTypeOK, CatalogStatuses
<1>4. ImportedIsOnSale'
  <2>1. \A v \in variants : ByStaff(v.product)
    BY <1>1 DEF PublishingInv, ImportedIsOnSale, ByStaff
  <2> QED
    BY <1>1, <1>2, <2>1, Zenon DEF ImportedIsOnSale, ByStaff
<1>5. ClosedMeansPublished' /\ NothingBefore'
  BY <1>1 DEF ClosedMeansPublished, NothingBefore
<1>6. ASSUME NEW a \in Publishers PROVE WorkHolds(publisher[a])'
  BY <1>1 DEF WorkHolds, NotPublishing
<1> QED
  BY <1>3, <1>4, <1>5, <1>6 DEF PublishingInv

\* A request that ends a row goes on with what it read of the others.
LEMMA NextHolds ==
    ASSUME PublishingInv, NEW a \in Publishers, NEW r, NextRow(a, r),
           publisher[a].at \in {"found", "resolved", "closing"}
    PROVE  \E next : publisher' = [publisher EXCEPT ![a] = next] /\ WorkHolds(next)
<1>0. PICK w : w = publisher[a]
  OBVIOUS
<1>1. WorkHolds(w) /\ w.at \in {"found", "resolved", "closing"}
  BY <1>0 DEF PublishingInv
<1>2. \A s \in DOMAIN w.copies : s \in Rows /\ w.copies[s] \in Rows
  BY <1>1 DEF WorkHolds
<1>3. WorkHolds([at |-> "next", copies |-> [s \in DOMAIN w.copies \ {r} |-> w.copies[s]]])
  BY <1>2 DEF WorkHolds
<1> QED
  BY <1>0, <1>3, RestHolds DEF NextRow, PublisherAt, Left, Work

\* What a commit publishes: the row as it was read, as the product it found or
\* as the one it creates.
LEMMA Commits == ASSUME PublishingInv, NEW a \in Publishers, Commit(a) PROVE PublishingInv'
<1>0. PICK w : w = publisher[a]
  OBVIOUS
<1>r. PICK r : r = w.row
  OBVIOUS
<1>e. PICK e : e = w.copies[r]
  OBVIOUS
<1>1. /\ w.at = "closing"
      /\ parsed' = [parsed EXCEPT ![r].imported = TRUE, ![r].invalid = FALSE]
      /\ catalog' = IF w.closes THEN "imported" ELSE catalog
      /\ NextRow(a, r)
      /\ byHand' = byHand
  BY <1>0, <1>r DEF Commit, Work
<1>2. PICK p \in ProductIds :
          /\ IF w.product = NoProduct
             THEN /\ product[p] = Absent
                  /\ product' = [product EXCEPT ![p] = [name |-> Entry[e].name, slug |-> w.slug]]
             ELSE p = w.product /\ UNCHANGED product
          /\ variants' = variants \cup
                {[product |-> p, values |-> o.values, sku |-> o.sku] : o \in w.offers}
          /\ sales' = sales \cup {[row |-> r, says |-> e, product |-> p]}
  BY <1>0, <1>r, <1>e DEF Commit, Work, Left, NewVariants, NextProduct
<1>3. /\ r \in Rows /\ e \in Rows /\ w.product \in {NoProduct} \cup ProductIds
      /\ w.product # NoProduct /\ ~ByStaff(w.product) => product[w.product].name = Entry[e].name
      /\ w.offers \subseteq Offers(e)
      /\ w.product = NoProduct \/ ~ByStaff(w.product)
             => \A o \in Offers(e) : o \in w.offers \/ o.values \in Combinations(w.product)
      /\ w.closes => OthersImported(r)
  <2>1. WorkHolds(w)
    BY <1>0 DEF PublishingInv
  <2>2. Reads(w) /\ FindsItsName(w) /\ OffersTheRest(w) /\ (w.closes => OthersImported(w.row))
    BY <1>1, <2>1 DEF WorkHolds
  <2> QED
    BY <1>r, <1>e, <2>2 DEF Reads, FindsItsName, OffersTheRest
<1>4. catalog # "absent"
  BY <1>0, <1>1 DEF PublishingInv, NothingBefore, NotPublishing
<1>5. PICK next : publisher' = [publisher EXCEPT ![a] = next] /\ WorkHolds(next)
  <2>1. publisher[a].at \in {"found", "resolved", "closing"}
    BY <1>0, <1>1
  <2> QED
    BY <1>1, <2>1, NextHolds
<1>6. /\ parsed' \in [Rows -> ParsedRows] /\ parsed'[r].imported = TRUE
      /\ \A s \in Rows : parsed'[s].exists = parsed[s].exists
      /\ \A s \in Rows \ {r} : parsed'[s] = parsed[s]
  <2>1. parsed' = [parsed EXCEPT ![r] = [parsed[r] EXCEPT !.imported = TRUE, !.invalid = FALSE]]
    BY <1>1
  <2>2. parsed[r] \in ParsedRows /\ parsed \in [Rows -> ParsedRows]
    BY <1>3 DEF PublishingInv, PublishingTypes, PublishingTypeOK
  <2>3. /\ [parsed[r] EXCEPT !.imported = TRUE, !.invalid = FALSE] \in ParsedRows
        /\ [parsed[r] EXCEPT !.imported = TRUE, !.invalid = FALSE].imported = TRUE
        /\ [parsed[r] EXCEPT !.imported = TRUE, !.invalid = FALSE].exists = parsed[r].exists
    BY <2>2 DEF ParsedRows
  <2> QED
    BY <1>3, <2>1, <2>2, <2>3
<1>7. product' = [q \in ProductIds |-> product'[q]]
      /\ \A q \in ProductIds : product[q].name # "none" => product'[q] = product[q]
  <2>1. product = [q \in ProductIds |-> product[q]]
    BY DEF PublishingInv, PublishingTypes
  <2> QED
    BY <1>2, <2>1 DEF Absent
<1>8. ProductsGoOn
  BY <1>1, <1>2, <1>7 DEF ProductsGoOn, Published, ByStaff
<1>9. GoesOn
  <2>1. ASSUME NEW s \in Rows, parsed'[s].exists
        PROVE  parsed[s].exists /\ (parsed[s].imported => parsed'[s].imported)
    <3>1. CASE s = r
      BY <1>6, <2>1, <3>1, Zenon
    <3>2. CASE s # r
      BY <1>6, <2>1, <3>2, Zenon
    <3> QED
      BY <3>1, <3>2
  <2> QED
    BY <1>8, <2>1 DEF GoesOn, RowsGoOn
<1>10. ASSUME ~ByStaff(p)'
       PROVE  product'[p].name = Entry[e].name /\ \A o \in Offers(e) : o.values \in Combinations(p)'
  <2>0. ~ByStaff(p)
    BY <1>1, <1>10 DEF ByStaff
  <2>1. product'[p].name = Entry[e].name
    <3>1. CASE w.product = NoProduct
      BY <1>2, <3>1 DEF PublishingInv, PublishingTypes
    <3>2. CASE w.product # NoProduct
      BY <1>2, <1>3, <2>0, <3>2
    <3> QED
      BY <3>1, <3>2
  <2>2. ASSUME NEW o \in Offers(e) PROVE o.values \in Combinations(p)'
    <3>1. CASE o \in w.offers
      <4>1. [product |-> p, values |-> o.values, sku |-> o.sku] \in variants'
        BY <1>2, <3>1
      <4> QED
        BY <4>1 DEF Combinations, Published
    <3>2. CASE o \notin w.offers
      <4>1. w.product = NoProduct => Combinations(w.product) = {}
        BY DEF Combinations, Published, PublishingInv, PublishingTypes, PublishingTypeOK,
               NoProduct, ProductIds
      <4>2. w.product = p /\ o.values \in Combinations(p)
        <5>1. w.product # NoProduct => w.product = p
          BY <1>2
        <5> QED
          BY <1>3, <2>0, <3>2, <4>1, <5>1
      <4> QED
        BY <1>9, <1>10, <4>2, CombinationsGrow DEF PublishingInv
    <3> QED
      BY <3>1, <3>2
  <2> QED
    BY <2>1, <2>2
<1>11. ASSUME NEW s \in Rows, parsed'[s].exists, ~ByCurator(s)'
       PROVE  parsed'[s].imported <=> \E x \in sales' : x.row = s
  <2>1. CASE s = r
    <3>1. [row |-> r, says |-> e, product |-> p] \in sales'
      BY <1>2
    <3> QED
      BY <1>6, <2>1, <3>1
  <2>2. CASE s # r
    <3>1. parsed'[s] = parsed[s] /\ parsed[s].exists /\ ~ByCurator(s)
      BY <1>1, <1>6, <1>11, <2>2, Zenon DEF ByCurator
    <3>2. (\E x \in sales' : x.row = s) <=> (\E x \in sales : x.row = s)
      BY <1>2, <2>2
    <3> QED
      BY <3>1, <3>2, Zenon DEF ByCurator, PublishingInv, ImportedIsOnSale
  <2> QED
    BY <2>1, <2>2
<1>12. ASSUME NEW x \in sales', ~ByStaff(x.product)'
       PROVE  /\ x.row \in Rows /\ x.says \in Rows /\ x.product \in ProductIds
              /\ product'[x.product].name = Entry[x.says].name
              /\ \A o \in Offers(x.says) : o.values \in Combinations(x.product)'
  <2>1. CASE x \in sales
    <3>1. x.row \in Rows /\ x.says \in Rows /\ x.product \in ProductIds /\ ~ByStaff(x.product)
      BY <1>1, <1>12, <2>1 DEF PublishingInv, PublishingTypes, PublishingTypeOK, ByStaff
    <3>2. /\ product[x.product].name = Entry[x.says].name
          /\ \A o \in Offers(x.says) : o.values \in Combinations(x.product)
      BY <2>1, <3>1 DEF PublishingInv, ImportedIsOnSale, ByStaff
    <3>3. product'[x.product].name = Entry[x.says].name
      BY <1>9, <1>12, <3>1, <3>2, NameStays
    <3> QED
      BY <1>9, <1>12, <3>1, <3>2, <3>3, CombinationsGrow DEF PublishingInv
  <2>2. CASE x = [row |-> r, says |-> e, product |-> p]
    BY <1>3, <1>10, <1>12, <2>2
  <2> QED
    BY <1>2, <2>1, <2>2
<1>13. ASSUME NEW v \in variants'
       PROVE  /\ v.product \in ProductIds
              /\ ~ByStaff(v.product)' =>
                     \E x \in sales' : x.product = v.product
                                       /\ [values |-> v.values, sku |-> v.sku] \in Offers(x.says)
  <2>1. CASE v \in variants
    BY <1>1, <1>2, <2>1 DEF PublishingInv, PublishingTypes, PublishingTypeOK, ImportedIsOnSale, ByStaff
  <2>2. CASE v \notin variants
    <3>1. PICK o \in w.offers : v = [product |-> p, values |-> o.values, sku |-> o.sku]
      BY <1>2, <2>2
    <3>2. o \in Offers(e)
      BY <1>3, <3>1
    <3>3. [values |-> v.values, sku |-> v.sku] = o
      <4>1. o = [values |-> o.values, sku |-> o.sku]
        BY <3>2 DEF Offers
      <4> QED
        BY <3>1, <4>1
    <3>4. [row |-> r, says |-> e, product |-> p] \in sales'
      BY <1>2
    <3> QED
      BY <3>1, <3>2, <3>3, <3>4
  <2> QED
    BY <2>1, <2>2
<1>14. ImportedIsOnSale'
  BY <1>11, <1>12, <1>13, Zenon DEF ImportedIsOnSale, ByStaff, ByCurator, Offers
<1>15. ClosedMeansPublished'
  <2> SUFFICES ASSUME catalog' = "imported", TheCatalog \notin byHand', NEW s \in Rows,
                      parsed'[s].exists, ~ByCurator(s)'
               PROVE  parsed'[s].imported
    BY DEF ClosedMeansPublished, ByCurator
  <2>1. CASE s = r
    BY <1>6, <2>1, Zenon
  <2>2. CASE s # r
    <3>1. parsed[s].exists /\ ~ByCurator(s) /\ TheCatalog \notin byHand /\ parsed'[s] = parsed[s]
      BY <1>1, <1>6, <2>2, Zenon DEF ByCurator
    <3>2. parsed[s].imported
      BY <1>1, <1>3, <2>2, <3>1 DEF PublishingInv, ClosedMeansPublished, OthersImported, ByCurator
    <3> QED
      BY <3>1, <3>2, Zenon
  <2> QED
    BY <2>1, <2>2
<1>16. PublishingTypes' /\ NothingBefore'
  <2>1. catalog' \in {"deleted"} \cup CatalogStatuses /\ catalog' # "absent"
    BY <1>1, <1>4 DEF PublishingInv, PublishingTypes, PublishingTypeOK, CatalogStatuses
  <2>2. publisher' = [b \in Publishers |-> publisher'[b]]
    BY <1>5 DEF PublishingInv, PublishingTypes
  <2>3. ASSUME NEW x \in sales' PROVE x.row \in Rows /\ x.says \in Rows /\ x.product \in ProductIds
    BY <1>2, <1>3 DEF PublishingInv, PublishingTypes, PublishingTypeOK
  <2>4. PublishingTypeOK'
    BY <1>6, <1>13, <2>1, <2>3 DEF PublishingTypeOK
  <2> QED
    BY <1>7, <2>1, <2>2, <2>4 DEF PublishingTypes, NothingBefore
<1>17. ASSUME NEW b \in Publishers PROVE WorkHolds(publisher[b])'
  <2>1. PICK x : x = publisher'[b]
    OBVIOUS
  <2>2. WorkHolds(x)
    BY <1>5, <2>1 DEF PublishingInv, PublishingTypes
  <2>3. WorkHolds(x)'
    BY <1>9, <2>2, WorkStays DEF PublishingInv
  <2> QED
    BY <2>1, <2>3 DEF WorkHolds, Reads, FindsItsName, OffersTheRest, OthersImported
<1> QED
  BY <1>14, <1>15, <1>16, <1>17 DEF PublishingInv

LEMMA PublishersMove ==
    ASSUME PublishingInv, NEW a \in Publishers, PublisherStep(a)
    PROVE  PublishingInv'
<1>0. PICK w : w = publisher[a]
  OBVIOUS
<1>1. WorkHolds(w) /\ parsed \in [Rows -> ParsedRows] /\ (catalog = "absent" => w = NotPublishing)
  BY <1>0 DEF PublishingInv, PublishingTypes, PublishingTypeOK, NothingBefore
<1>2. ASSUME NEW rs \in SUBSET Rows, LoadRows(a, rs) PROVE PublishingInv'
  <2>1. /\ publisher' = [publisher EXCEPT ![a] =
                            [at |-> "next", copies |-> [r \in rs |-> parsed[r].says]]]
        /\ UNCHANGED <<catalog, parsed, product, variants, byHand, sales>>
        /\ rs # {} /\ \A r \in rs : parsed[r].exists
    BY <1>2 DEF LoadRows, PublisherAt, Publishable, catalogTables, histories
  <2>2. catalog # "absent"
    BY <2>1 DEF PublishingInv, NothingBefore, Unparsed
  <2>3. WorkHolds([at |-> "next", copies |-> [r \in rs |-> parsed[r].says]])
    <3>1. \A r \in rs : parsed[r].says \in Rows
      BY <1>1 DEF ParsedRows
    <3> QED
      BY <3>1 DEF WorkHolds
  <2> QED
    BY <2>1, <2>2, <2>3, WorkGoesOn
<1>3. ASSUME NEW r \in Rows, FindProduct(a, r) PROVE PublishingInv'
  <2>1. PICK p \in IF SameName(w.copies[r]) = {} THEN {NoProduct} ELSE SameName(w.copies[r]) :
            publisher' = [publisher EXCEPT ![a] =
                [at |-> "found", copies |-> w.copies, row |-> r, product |-> p]]
    BY <1>0, <1>3 DEF FindProduct, PublisherAt, Left, Work
  <2>2. /\ w.at = "next" /\ r \in DOMAIN w.copies
        /\ UNCHANGED <<catalog, parsed, product, variants, byHand, sales>>
    BY <1>0, <1>3 DEF FindProduct, Left, Work, catalogTables, histories
  <2>3. WorkHolds([at |-> "found", copies |-> w.copies, row |-> r, product |-> p])
    BY <1>1, <2>1, <2>2 DEF WorkHolds, Reads, FindsItsName, SameName
  <2>4. catalog # "absent"
    BY <1>1, <2>2 DEF NotPublishing
  <2> QED
    BY <2>1, <2>2, <2>3, <2>4, WorkGoesOn
<1>4. ASSUME Resolve(a) PROVE PublishingInv'
  <2> DEFINE next == [at |-> "resolved", copies |-> w.copies, row |-> w.row, product |-> w.product,
                      slug |-> NewSlug(w.copies[w.row], w.product),
                      offers |-> Fresh(w.copies[w.row], w.product)]
  <2>1. /\ w.at = "found" /\ publisher' = [publisher EXCEPT ![a] = next]
        /\ UNCHANGED <<catalog, parsed, product, variants, byHand, sales>>
    BY <1>0, <1>4, Zenon DEF Resolve, PublisherAt, Left, Work, catalogTables, histories
  <2>2. WorkHolds(next)
    BY <1>1, <2>1 DEF WorkHolds, Reads, FindsItsName, OffersTheRest, Fresh
  <2>3. catalog # "absent"
    BY <1>1, <2>1 DEF NotPublishing
  <2> HIDE DEF next
  <2> QED
    BY <2>1, <2>2, <2>3, WorkGoesOn
<1>5. ASSUME MarkImported(a) PROVE PublishingInv'
  <2> DEFINE next == [at |-> "closing", copies |-> w.copies, row |-> w.row, product |-> w.product,
                      slug |-> w.slug, offers |-> w.offers, closes |-> SeesAllImported(w.row)]
  <2>1. /\ w.at = "resolved" /\ publisher' = [publisher EXCEPT ![a] = next]
        /\ UNCHANGED <<catalog, parsed, product, variants, byHand, sales>>
    BY <1>0, <1>5, Zenon DEF MarkImported, PublisherAt, Left, Work, catalogTables, histories
  <2>2. WorkHolds(next)
    <3>1. next.closes => OthersImported(w.row)
      BY Zenon DEF SeesAllImported, OthersImported
    <3>2. next.at = "closing" /\ next.copies = w.copies /\ next.row = w.row
          /\ next.product = w.product /\ next.offers = w.offers
      OBVIOUS
    <3> HIDE DEF next
    <3> QED
      BY <1>1, <2>1, <3>1, <3>2 DEF WorkHolds, Reads, FindsItsName, OffersTheRest
  <2>3. catalog # "absent"
    BY <1>1, <2>1 DEF NotPublishing
  <2> HIDE DEF next
  <2> QED
    BY <2>1, <2>2, <2>3, WorkGoesOn
<1>6. ASSUME PublishFails(a) PROVE PublishingInv'
  <2>1. /\ w.at \in {"found", "resolved", "closing"} /\ NextRow(a, w.row)
        /\ UNCHANGED <<catalog, parsed, product, variants, byHand, sales>>
    BY <1>0, <1>6 DEF PublishFails, Work, catalogTables, histories
  <2>2. PICK next : publisher' = [publisher EXCEPT ![a] = next] /\ WorkHolds(next)
    BY <1>0, <2>1, NextHolds
  <2>3. catalog # "absent"
    BY <1>1, <2>1 DEF NotPublishing
  <2> QED
    BY <2>1, <2>2, <2>3, WorkGoesOn
<1>7. ASSUME PublisherDies(a) PROVE PublishingInv'
  BY <1>7, RestHolds, WorkGoesOn DEF PublisherDies, PublisherAt, catalogTables, histories
<1> QED
  BY <1>2, <1>3, <1>4, <1>5, <1>6, <1>7, Commits DEF PublisherStep

\* Rows are marked, deleted and written whatever is being published.
LEMMA RowsMove ==
    ASSUME PublishingInv, NEW rows, parsed' = [r \in Rows |-> rows[r]],
           \A r \in Rows : rows[r] \in ParsedRows,
           \A r \in Rows : rows[r].exists /\ ~ByCurator(r)' =>
                parsed[r].exists /\ (rows[r].imported <=> parsed[r].imported),
           catalog' \in {"deleted"} \cup CatalogStatuses,
           catalog' = "imported" => catalog = "imported" \/ TheCatalog \in byHand',
           byHand \subseteq byHand', UNCHANGED <<product, variants, publisher, sales>>
    PROVE  PublishingInv'
<1>1. RowsAgree
  BY DEF RowsAgree
<1>2. ProductsGoOn /\ VariantsAgree
  BY DEF ProductsGoOn, VariantsAgree, Published
<1>3. PublishingTypes'
  BY DEF PublishingInv, PublishingTypes, PublishingTypeOK
<1>4. catalog' # "absent"
  BY DEF CatalogStatuses
<1> QED
  BY <1>1, <1>2, <1>3, <1>4, OthersWrite

LEMMA CuratorsWrite ==
    ASSUME PublishingInv,
           \/ \E rs \in SUBSET Rows : \/ DeleteRows(rs)
                                      \/ \E invalid \in BOOLEAN : MarkRows(rs, invalid)
           \/ \E r \in Rows : WriteRow(r)
           \/ WriteCatalog \/ DeleteCatalog
    PROVE  PublishingInv'
<1>0. /\ parsed \in [Rows -> ParsedRows]
      /\ catalog \in {"absent", "deleted"} \cup CatalogStatuses
      /\ catalog = "absent" => \A r \in Rows : ~parsed[r].exists
  BY DEF PublishingInv, PublishingTypes, PublishingTypeOK, NothingBefore, Unparsed
<1>u. ASSUME NEW r \in Rows PROVE Unparsed(r) \in ParsedRows /\ ~Unparsed(r).exists
  BY DEF Unparsed, ParsedRows
<1>1. ASSUME NEW rs \in SUBSET Rows, DeleteRows(rs) PROVE PublishingInv'
  <2> DEFINE rows == [r \in Rows |-> IF r \in rs THEN Unparsed(r) ELSE parsed[r]]
  <2>1. /\ parsed' = [r \in Rows |-> rows[r]]
        /\ UNCHANGED <<catalog, product, variants, publisher, byHand, sales>>
        /\ catalog # "absent"
    BY <1>0, <1>1 DEF DeleteRows, histories
  <2>2. ASSUME NEW r \in Rows
        PROVE  rows[r] \in ParsedRows /\ (rows[r].exists => rows[r] = parsed[r])
    BY <1>0, <1>u
  <2> HIDE DEF rows
  <2> QED
    BY <1>0, <2>1, <2>2, RowsMove
<1>2. ASSUME NEW rs \in SUBSET Rows, NEW invalid \in BOOLEAN, MarkRows(rs, invalid)
      PROVE  PublishingInv'
  <2> DEFINE rows == [r \in Rows |-> IF r \in rs THEN [parsed[r] EXCEPT !.invalid = invalid]
                                     ELSE parsed[r]]
  <2>1. /\ parsed' = [r \in Rows |-> rows[r]]
        /\ UNCHANGED <<catalog, product, variants, publisher, byHand, sales>>
        /\ catalog # "absent"
    BY <1>0, <1>2 DEF MarkRows, histories
  <2>2. ASSUME NEW r \in Rows
        PROVE  /\ rows[r] \in ParsedRows /\ rows[r].exists = parsed[r].exists
               /\ rows[r].imported = parsed[r].imported
    BY <1>0 DEF ParsedRows
  <2> HIDE DEF rows
  <2> QED
    BY <1>0, <2>1, <2>2, RowsMove
<1>3. ASSUME NEW r \in Rows, WriteRow(r) PROVE PublishingInv'
  <2>1. PICK row \in ParsedRows : parsed' = [parsed EXCEPT ![r] = row]
    BY <1>3 DEF WriteRow
  <2>2. /\ catalog' = catalog /\ catalog \in CatalogStatuses
        /\ byHand' = byHand \cup {ARow(r)} /\ UNCHANGED <<product, variants, publisher, sales>>
    BY <1>3 DEF WriteRow, ByHand
  <2> DEFINE rows == [parsed EXCEPT ![r] = row]
  <2>3. parsed' = [s \in Rows |-> rows[s]]
    BY <1>0, <2>1
  <2>4. ASSUME NEW s \in Rows
        PROVE  rows[s] \in ParsedRows /\ (s # r => rows[s] = parsed[s])
    BY <1>0
  <2>5. ByCurator(r)'
    BY <2>2 DEF ByCurator
  <2> HIDE DEF rows
  <2> QED
    BY <2>2, <2>3, <2>4, <2>5, RowsMove
<1>4. ASSUME WriteCatalog PROVE PublishingInv'
  <2>1. /\ parsed' = parsed /\ catalog' \in CatalogStatuses /\ byHand' = byHand \cup {TheCatalog}
        /\ UNCHANGED <<product, variants, publisher, sales>>
    BY <1>4 DEF WriteCatalog, ByHand
  <2>2. parsed' = [s \in Rows |-> parsed[s]]
    BY <1>0, <2>1
  <2> QED
    BY <1>0, <2>1, <2>2, RowsMove
<1>5. ASSUME DeleteCatalog PROVE PublishingInv'
  <2> DEFINE rows == [r \in Rows |-> Unparsed(r)]
  <2>1. /\ parsed' = [r \in Rows |-> rows[r]] /\ catalog' = "deleted"
        /\ UNCHANGED <<product, variants, publisher, byHand, sales>>
    BY <1>5 DEF DeleteCatalog, histories
  <2>2. \A r \in Rows : rows[r] \in ParsedRows /\ ~rows[r].exists
    BY <1>u
  <2> HIDE DEF rows
  <2> QED
    BY <2>1, <2>2, RowsMove
<1> QED
  BY <1>1, <1>2, <1>3, <1>4, <1>5

\* The staff write one product each time, and none that a request has not lost.
LEMMA StaffWrite ==
    ASSUME PublishingInv, NEW p \in ProductIds, StaffStep(p)
    PROVE  PublishingInv'
<1>0. /\ product = [q \in ProductIds |-> product[q]]
      /\ \A v \in variants : v.product \in ProductIds
  BY DEF PublishingInv, PublishingTypes, PublishingTypeOK
<1>1. ASSUME product' = [q \in ProductIds |-> product'[q]],
             \A q \in ProductIds \ {p} : product'[q] = product[q],
             \A v \in variants \ variants' : v.product = p,
             \A v \in variants' \ variants : v.product = p,
             byHand' = byHand \cup {AProduct(p)}, UNCHANGED <<catalog, parsed, publisher, sales>>
      PROVE  PublishingInv'
  <2>1. ByStaff(p)'
    BY <1>1 DEF ByStaff
  <2>2. ProductsGoOn
    BY <1>1, <2>1 DEF ProductsGoOn, Published
  <2>3. RowsAgree /\ VariantsAgree
    BY <1>1, <2>1 DEF RowsAgree, VariantsAgree
  <2>4. PublishingTypes'
    BY <1>0, <1>1 DEF PublishingInv, PublishingTypes, PublishingTypeOK
  <2> QED
    BY <1>1, <2>2, <2>3, <2>4, OthersWrite
<1>2. CASE StaffCreates(p)
  <2>1. PICK new : product' = [product EXCEPT ![p] = new]
    BY <1>2 DEF StaffCreates
  <2> QED
    BY <1>0, <1>1, <1>2, <2>1 DEF StaffCreates, ByHand
<1>3. CASE StaffRenames(p)
  <2>1. PICK name : product' = [product EXCEPT ![p].name = name]
    BY <1>3 DEF StaffRenames
  <2> QED
    BY <1>0, <1>1, <1>3, <2>1 DEF StaffRenames, ByHand
<1>4. CASE StaffDeletes(p)
  BY <1>0, <1>1, <1>4 DEF StaffDeletes, ByHand, Published
<1>5. CASE StaffRemovesVariant(p)
  BY <1>0, <1>1, <1>5 DEF StaffRemovesVariant, ByHand, Published
<1>6. CASE StaffAddsVariant(p)
  BY <1>0, <1>1, <1>6 DEF StaffAddsVariant, ByHand
<1> QED
  BY <1>2, <1>3, <1>4, <1>5, <1>6 DEF StaffStep

LEMMA PublishingStep == PublishingInv /\ [PublishingNext]_publishingVars => PublishingInv'
<1> SUFFICES ASSUME PublishingInv, [PublishingNext]_publishingVars PROVE PublishingInv'
  OBVIOUS
<1>1. CASE UNCHANGED publishingVars
  <2>1. UNCHANGED <<catalog, parsed, product, variants, publisher, byHand, sales>>
    BY <1>1 DEF publishingVars, catalogTables, histories
  <2>2. ProductsGoOn /\ RowsAgree /\ VariantsAgree
    BY <2>1 DEF ProductsGoOn, RowsAgree, VariantsAgree, Published
  <2>3. PublishingTypes'
    BY <2>1 DEF PublishingInv, PublishingTypes, PublishingTypeOK
  <2> QED
    BY <2>1, <2>2, <2>3, OthersWrite
<1>2. CASE PublishingNext
  BY <1>2, Imports, PublishersMove, CuratorsWrite, StaffWrite DEF PublishingNext
<1> QED
  BY <1>1, <1>2

LEMMA PublishingInvariant == PublishingSpec => []PublishingInv
BY PublishingInvInit, PublishingStep, PTL DEF PublishingSpec

\* What is on sale and what is marked imported agree whichever requests race and
\* whoever edits and deletes rows and products meanwhile: of the rows nobody wrote
\* by hand exactly the published ones are marked imported, and a product the staff
\* left alone has what was published as it and nothing else.
THEOREM PublishedIsOnSale == PublishingSpec => []ImportedIsOnSale
<1>1. PublishingInv => ImportedIsOnSale
  BY DEF PublishingInv
<1> QED
  BY <1>1, PublishingInvariant, PTL

\* A catalog that publishing closed "once nothing is left pending" has no pending
\* row but those written by hand, however many requests race for its last rows.
THEOREM ClosedCatalogIsPublished == PublishingSpec => []ClosedMeansPublished
<1>1. PublishingInv => ClosedMeansPublished
  BY DEF PublishingInv
<1> QED
  BY <1>1, PublishingInvariant, PTL

-----------------------------------------------------------------------------
(***************************************************************************)
(* A variant that an order has reserved stays in the catalog, whatever the *)
(* forms that were loaded before it was reserved say of it.                *)
(*                                                                         *)
(* Nothing locks the variants, so what a form will write is known only     *)
(* from what it was loaded with. The argument is that an id is a variant's *)
(* for good: in the catalog, in every form, in every row that was read, it *)
(* stands under one SKU, so a form finds the row it means or none.         *)
(***************************************************************************)

VariantRow == [id : Nat, stock : Nat, values : SUBSET OptionValues]
VariantSheets == UNION {[D -> VariantRow] : D \in SUBSET Skus}
Shelves == [live : BOOLEAN, choices : SUBSET OptionValues, variants : VariantSheets]

Works ==
    {NotEditing}
    \cup [at : {"form"}, form : Shelves]
    \cup [at : {"submitted", "saving"}, form : Shelves, read : Shelves]
    \cup [at : {"variant"}, sku : Skus, row : VariantRow]
    \cup [at : {"deleting"}, gone : SUBSET Nat, whole : BOOLEAN]

FormTypes ==
    /\ shelf \in Shelves
    /\ lastVariant \in Nat
    /\ bought \in [Buyers -> [variant : Nat, active : BOOLEAN]]
    /\ editor \in [Editors -> Works]

\* Where an id stands: under which SKU of the catalog, of a form, of what was read.
Names(v, s, id) == s \in DOMAIN v /\ v[s].id = id
WorkNames(w, s, id) ==
    \/ w.at \in {"form", "submitted", "saving"} /\ Names(w.form.variants, s, id)
    \/ w.at \in {"submitted", "saving"} /\ Names(w.read.variants, s, id)
    \/ w.at = "variant" /\ w.sku = s /\ w.row.id = id
Stands(s, id) ==
    /\ id # 0
    /\ Names(shelf.variants, s, id) \/ \E e \in Editors : WorkNames(editor[e], s, id)

RowsAreNumbered ==
    /\ \A s \in DOMAIN shelf.variants : shelf.variants[s].id # 0
    /\ \A e \in Editors : editor[e].at = "variant" => editor[e].row.id # 0
IdsKeepTheirSku == \A s, t, id : Stands(s, id) /\ Stands(t, id) => s = t
IdsWereGiven == \A s, id : Stands(s, id) => id \in 1 .. lastVariant

FormInv ==
    FormTypes /\ RowsAreNumbered /\ IdsKeepTheirSku /\ IdsWereGiven /\ OrderedVariantsStay

-----------------------------------------------------------------------------
LEMMA FormInvInit == ProductFormInit => FormInv
<1> SUFFICES ASSUME ProductFormInit PROVE FormInv
  OBVIOUS
<1> USE FormsAssumption DEF ProductFormInit
<1>1. PICK D \in SUBSET Skus :
          InitialForm.variants \in [D -> [id     : 1 .. Cardinality(D),
                                         stock  : Nat,
                                         values : SUBSET OptionValues]]
  OBVIOUS
<1>2. /\ DOMAIN InitialForm.variants = D
      /\ Cardinality(D) \in Nat
  BY <1>1, FS_Subset, FS_CardinalityType
<1>3. InitialForm.variants \in [D -> VariantRow]
      /\ \A s \in D : InitialForm.variants[s].id \in 1 .. Cardinality(D)
  <2>1. 1 .. Cardinality(D) \subseteq Nat
    BY <1>2
  <2>2. ASSUME NEW s \in D
        PROVE  InitialForm.variants[s] \in VariantRow
               /\ InitialForm.variants[s].id \in 1 .. Cardinality(D)
    BY <1>1, <2>1 DEF VariantRow
  <2> QED
    BY <1>1, <2>2
<1>4. shelf \in Shelves
  BY <1>3 DEF Shelves, VariantSheets
<1>5. FormTypes
  <2>1. lastVariant \in Nat
    BY <1>2
  <2>2. bought \in [Buyers -> [variant : Nat, active : BOOLEAN]]
    OBVIOUS
  <2>3. editor \in [Editors -> Works]
    BY DEF Works
  <2> QED
    BY <1>4, <2>1, <2>2, <2>3 DEF FormTypes
<1>6. ASSUME NEW s, NEW id PROVE Stands(s, id) => Names(InitialForm.variants, s, id)
  BY DEF Stands, WorkNames, NotEditing
<1>7. RowsAreNumbered
  BY <1>2, <1>3 DEF RowsAreNumbered, NotEditing
<1>8. IdsKeepTheirSku
  BY <1>2, <1>6 DEF IdsKeepTheirSku, Names
<1>9. IdsWereGiven
  BY <1>2, <1>3, <1>6 DEF IdsWereGiven, Names
<1>10. OrderedVariantsStay
  BY DEF OrderedVariantsStay
<1> QED
  BY <1>5, <1>7, <1>8, <1>9, <1>10 DEF FormInv

-----------------------------------------------------------------------------
\* A step that brings no id under another SKU keeps ids and rows as they were.
LEMMA IdsStay ==
    ASSUME IdsKeepTheirSku, IdsWereGiven, lastVariant' = lastVariant,
           \A s, id : Stands(s, id)' => Stands(s, id)
    PROVE  IdsKeepTheirSku' /\ IdsWereGiven'
BY DEF IdsKeepTheirSku, IdsWereGiven

\* One request goes on, and the catalog stays as it is.
LEMMA RequestGoesOn ==
    ASSUME FormInv, NEW e \in Editors, NEW w \in Works,
           editor' = [editor EXCEPT ![e] = w],
           UNCHANGED <<shelf, lastVariant, bought>>,
           w.at = "variant" => w.row.id # 0,
           \A s, id : id # 0 /\ WorkNames(w, s, id) => Stands(s, id)
    PROVE  FormInv'
<1>1. /\ editor \in [Editors -> Works]
      /\ \A f \in Editors : editor'[f] = IF f = e THEN w ELSE editor[f]
  BY DEF FormInv, FormTypes
<1>2. FormTypes'
  BY <1>1 DEF FormInv, FormTypes
<1>3. RowsAreNumbered'
  BY <1>1 DEF FormInv, RowsAreNumbered
<1>4. ASSUME NEW s, NEW id, Stands(s, id)' PROVE Stands(s, id)
  <2>1. CASE Names(shelf.variants, s, id)
    BY <1>4, <2>1 DEF Stands
  <2>2. CASE \E f \in Editors : WorkNames(editor'[f], s, id)
    BY <1>1, <1>4, <2>2 DEF Stands
  <2> QED
    BY <1>4, <2>1, <2>2 DEF Stands
<1>5. IdsKeepTheirSku' /\ IdsWereGiven'
  BY <1>4, IdsStay DEF FormInv
<1> QED
  BY <1>2, <1>3, <1>5 DEF FormInv, OrderedVariantsStay, Present

\* What the editor makes of a form is a form, and moves no id.
LEMMA EditsAreForms ==
    ASSUME NEW form \in Shelves, NEW made \in Edits(form)
    PROVE  /\ made \in Shelves
           /\ \A s, id : id # 0 /\ Names(made.variants, s, id) => Names(form.variants, s, id)
<1> DEFINE Kept == /\ made \in Shelves
                   /\ \A s, id : id # 0 /\ Names(made.variants, s, id)
                                => Names(form.variants, s, id)
<1>0. PICK D \in SUBSET Skus : form.variants \in [D -> VariantRow]
  BY DEF Shelves, VariantSheets
<1>1. made = form => Kept
  OBVIOUS
<1>2. ASSUME NEW s \in DOMAIN form.variants,
             made = [form EXCEPT !.variants = Restrict(form.variants, DOMAIN form.variants \ {s})]
      PROVE  Kept
  <2>1. made.variants = Restrict(form.variants, D \ {s})
        /\ made.live = form.live /\ made.choices = form.choices
    BY <1>0, <1>2 DEF Shelves
  <2>2. made.variants \in [D \ {s} -> VariantRow]
    BY <1>0, <2>1 DEF Restrict
  <2>3. made \in Shelves
    BY <1>2, <2>2 DEF Shelves, VariantSheets
  <2> QED
    BY <1>0, <2>1, <2>3 DEF Restrict, Names
<1>3. ASSUME NEW s \in Skus \ DOMAIN form.variants, NEW c \in form.choices,
             made = [form EXCEPT !.variants =
                        Plus(form.variants, s, [id |-> 0, stock |-> 1, values |-> {c}])]
      PROVE  Kept
  <2>1. made.variants = Plus(form.variants, s, [id |-> 0, stock |-> 1, values |-> {c}])
    BY <1>3 DEF Shelves
  <2>2. [id |-> 0, stock |-> 1, values |-> {c}] \in VariantRow
    BY DEF VariantRow, Shelves
  <2>3. made.variants \in [D \cup {s} -> VariantRow]
    BY <1>0, <2>1, <2>2 DEF Plus
  <2>4. made \in Shelves
    <3>1. D \cup {s} \in SUBSET Skus
      BY <1>3
    <3>2. made.variants \in VariantSheets
      BY <2>3, <3>1 DEF VariantSheets
    <3> QED
      BY <1>3, <2>1, <3>2 DEF Shelves
  <2> QED
    BY <1>0, <2>1, <2>4 DEF Plus, Names
<1>4. ASSUME NEW s \in DOMAIN form.variants, NEW c \in form.choices,
             made = [form EXCEPT !.variants[s].values = {c}]
      PROVE  Kept
  <2>1. made.variants = [form.variants EXCEPT ![s] = [form.variants[s] EXCEPT !.values = {c}]]
    BY <1>4 DEF Shelves
  <2>2. /\ form.variants[s] \in VariantRow
        /\ [form.variants[s] EXCEPT !.values = {c}] \in VariantRow
        /\ [form.variants[s] EXCEPT !.values = {c}].id = form.variants[s].id
    BY <1>0 DEF VariantRow, Shelves
  <2>3. made.variants \in [D -> VariantRow]
    BY <1>0, <2>1, <2>2
  <2>4. made \in Shelves
    BY <1>4, <2>3 DEF Shelves, VariantSheets
  <2> QED
    BY <1>0, <2>1, <2>2, <2>4 DEF Names
<1>5. ASSUME NEW C \in SUBSET OptionValues, made = [form EXCEPT !.choices = C]
      PROVE  Kept
  BY <1>5 DEF Shelves
<1>6. form.choices \subseteq OptionValues
  BY DEF Shelves
<1> DEFINE Less(s) == [form EXCEPT !.variants = Restrict(form.variants, DOMAIN form.variants \ {s})]
           More(s, c) == [form EXCEPT !.variants =
                             Plus(form.variants, s, [id |-> 0, stock |-> 1, values |-> {c}])]
           Other(s, c) == [form EXCEPT !.variants[s].values = {c}]
           Choosing(C) == [form EXCEPT !.choices = C]
<1>7. \/ made = form
      \/ \E s \in DOMAIN form.variants : made = Less(s)
      \/ \E s \in Skus \ DOMAIN form.variants : made \in WithVariant(form, s)
      \/ \E s \in DOMAIN form.variants : made \in WithValue(form, s)
      \/ \E c \in form.choices : made = Choosing(form.choices \ {c})
      \/ \E c \in OptionValues \ form.choices : made = Choosing(form.choices \cup {c})
  BY Zenon DEF Edits
<1>8. \A C \in SUBSET OptionValues : made = Choosing(C) => Kept
  BY <1>5
<1>9. /\ \A c \in form.choices : form.choices \ {c} \in SUBSET OptionValues
      /\ \A c \in OptionValues \ form.choices : form.choices \cup {c} \in SUBSET OptionValues
  BY <1>6
<1>10. /\ \A s \in DOMAIN form.variants : made = Less(s) => Kept
       /\ \A s \in Skus \ DOMAIN form.variants : made \in WithVariant(form, s) => Kept
       /\ \A s \in DOMAIN form.variants : made \in WithValue(form, s) => Kept
  <2>1. \A s \in DOMAIN form.variants : made = Less(s) => Kept
    BY <1>2
  <2>2. ASSUME NEW s \in Skus \ DOMAIN form.variants, made \in WithVariant(form, s) PROVE Kept
    <3>1. PICK c \in form.choices : made = More(s, c)
      BY <2>2 DEF WithVariant
    <3> QED
      BY <1>3, <3>1
  <2>3. ASSUME NEW s \in DOMAIN form.variants, made \in WithValue(form, s) PROVE Kept
    <3>1. PICK c \in form.choices : made = Other(s, c)
      BY <2>3 DEF WithValue
    <3> QED
      BY <1>4, <3>1
  <2> QED
    BY <2>1, <2>2, <2>3
<1> HIDE DEF Less, More, Other, Choosing, Kept
<1>11. Kept
  BY <1>1, <1>7, <1>8, <1>9, <1>10
<1> QED
  BY <1>11 DEF Kept

-----------------------------------------------------------------------------
\* The number of the new rows: from none, one each.
LEMMA NewRowsAreCounted ==
    ASSUME NEW S \in SUBSET Skus
    PROVE  /\ Cardinality(S) \in Nat
           /\ \E nth \in [S -> 0 .. Cardinality(S) - 1] : IsInjective(nth)
<1>1. IsFiniteSet(S) /\ Cardinality(S) \in Nat
  BY FormsAssumption, FS_Subset, FS_CardinalityType
<1>2. IsFiniteSet(0 .. Cardinality(S) - 1) /\ Cardinality(0 .. Cardinality(S) - 1) = Cardinality(S)
  BY <1>1, FS_Interval
<1>3. ExistsBijection(S, 0 .. Cardinality(S) - 1)
  BY <1>1, <1>2, FS_SameCardinalityBij
<1> QED
  BY <1>1, <1>3 DEF ExistsBijection, Bijection, Injection

\* The row that RowAt finds.
LEMMA RowIsFound ==
    ASSUME NEW v, NEW id, id \in Present(v)
    PROVE  RowAt(v, id) \in DOMAIN v /\ v[RowAt(v, id)].id = id
BY DEF Present, RowAt

-----------------------------------------------------------------------------
\* Checkout and its end move units, and no row.
LEMMA OrdersMoveNoRow ==
    ASSUME FormInv, NEW b \in Buyers,
           (\E s \in Skus : Reserve(b, s)) \/ PutBack(b)
    PROVE  FormInv'
<1>0. PICK D \in SUBSET Skus : shelf.variants \in [D -> VariantRow]
  BY DEF FormInv, FormTypes, Shelves, VariantSheets
<1>1. shelf \in Shelves /\ bought \in [Buyers -> [variant : Nat, active : BOOLEAN]]
  BY DEF FormInv, FormTypes
<1>2. ASSUME NEW s \in D, NEW n \in Nat, shelf' = [shelf EXCEPT !.variants[s].stock = n]
      PROVE  /\ shelf' \in Shelves
             /\ DOMAIN shelf'.variants = D
             /\ \A t \in D : shelf'.variants[t].id = shelf.variants[t].id
  <2>1. shelf'.variants = [shelf.variants EXCEPT ![s] = [shelf.variants[s] EXCEPT !.stock = n]]
    BY <1>1, <1>2 DEF Shelves
  <2>2. /\ [shelf.variants[s] EXCEPT !.stock = n] \in VariantRow
        /\ [shelf.variants[s] EXCEPT !.stock = n].id = shelf.variants[s].id
    BY <1>0 DEF VariantRow
  <2>3. shelf'.variants \in [D -> VariantRow]
    BY <1>0, <2>1, <2>2
  <2>4. shelf' \in Shelves
    BY <1>1, <1>2, <2>3 DEF Shelves, VariantSheets
  <2> QED
    BY <1>0, <2>1, <2>2, <2>3, <2>4
<1>3. /\ shelf' \in Shelves /\ DOMAIN shelf'.variants = D
      /\ \A t \in D : shelf'.variants[t].id = shelf.variants[t].id
      /\ bought' \in [Buyers -> [variant : Nat, active : BOOLEAN]]
      /\ \A c \in Buyers : bought'[c].variant \in Present(shelf.variants) \cup {bought[c].variant}
  <2>1. CASE PutBack(b)
    <3>1. PICK s : s = RowAt(shelf.variants, bought[b].variant)
      OBVIOUS
    <3>2. s \in D /\ shelf' = [shelf EXCEPT !.variants[s].stock = shelf.variants[s].stock + 1]
      BY <1>0, <2>1, <3>1, RowIsFound DEF PutBack
    <3>3. shelf.variants[s].stock + 1 \in Nat
      BY <1>0, <3>2 DEF VariantRow
    <3>4. /\ bought' \in [Buyers -> [variant : Nat, active : BOOLEAN]]
          /\ \A c \in Buyers : bought'[c].variant = bought[c].variant
      BY <1>1, <2>1 DEF PutBack
    <3> QED
      BY <1>2, <3>2, <3>3, <3>4
  <2>2. ASSUME NEW s \in Skus, Reserve(b, s)
        PROVE  /\ shelf' \in Shelves /\ DOMAIN shelf'.variants = D
               /\ \A t \in D : shelf'.variants[t].id = shelf.variants[t].id
               /\ bought' \in [Buyers -> [variant : Nat, active : BOOLEAN]]
               /\ \A c \in Buyers :
                     bought'[c].variant \in Present(shelf.variants) \cup {bought[c].variant}
    <3>1. s \in D /\ shelf' = [shelf EXCEPT !.variants[s].stock = shelf.variants[s].stock - 1]
          /\ shelf.variants[s].stock > 0
      BY <1>0, <2>2 DEF Reserve
    <3>2. shelf.variants[s].stock - 1 \in Nat /\ shelf.variants[s].id \in Nat
      BY <1>0, <3>1 DEF VariantRow
    <3>3. bought' = [bought EXCEPT ![b] = [variant |-> shelf.variants[s].id, active |-> TRUE]]
      BY <2>2 DEF Reserve
    <3>4. /\ bought' \in [Buyers -> [variant : Nat, active : BOOLEAN]]
          /\ \A c \in Buyers : bought'[c].variant \in {shelf.variants[s].id, bought[c].variant}
      BY <1>1, <3>2, <3>3
    <3>5. shelf.variants[s].id \in Present(shelf.variants)
      BY <1>0, <3>1 DEF Present
    <3> QED
      BY <1>2, <3>1, <3>2, <3>4, <3>5
  <2> QED
    BY <2>1, <2>2
<1>4. lastVariant' = lastVariant /\ editor' = editor
  BY DEF Reserve, PutBack
<1>5. DOMAIN shelf.variants = D /\ Present(shelf'.variants) = Present(shelf.variants)
  BY <1>0, <1>3 DEF Present
<1>6. FormTypes' /\ RowsAreNumbered'
  BY <1>3, <1>4, <1>5 DEF FormInv, FormTypes, RowsAreNumbered
<1>7. IdsKeepTheirSku' /\ IdsWereGiven'
  <2>1. ASSUME NEW s, NEW id, Stands(s, id)' PROVE Stands(s, id)
    BY <1>3, <1>4, <1>5, <2>1 DEF Stands, Names
  <2> QED
    BY <1>4, <2>1, IdsStay DEF FormInv
<1>8. OrderedVariantsStay'
  BY <1>3, <1>5 DEF FormInv, OrderedVariantsStay
<1> QED
  BY <1>6, <1>7, <1>8 DEF FormInv

-----------------------------------------------------------------------------
\* A step that takes no reserved row and puts no id under another SKU: the common
\* part of the writes.
LEMMA WritesKeepOrders ==
    ASSUME FormInv, NEW e \in Editors, shelf' \in Shelves, lastVariant' \in Nat,
           lastVariant <= lastVariant',
           editor' = [editor EXCEPT ![e] = NotEditing], bought' = bought,
           \A s, id : Names(shelf'.variants, s, id) =>
               id # 0 /\ (Stands(s, id) \/ id \in lastVariant + 1 .. lastVariant'),
           \A s, t : s \in DOMAIN shelf'.variants /\ t \in DOMAIN shelf'.variants
                     /\ shelf'.variants[s].id = shelf'.variants[t].id
                     /\ shelf'.variants[s].id > lastVariant => s = t,
           Held(shelf.variants) \subseteq Present(shelf'.variants)
    PROVE  FormInv'
<1>1. editor \in [Editors -> Works] /\ lastVariant \in Nat
  BY DEF FormInv, FormTypes
<1>2. /\ editor' \in [Editors -> Works]
      /\ \A f \in Editors : editor'[f] = editor[f] \/ editor'[f] = NotEditing
  BY <1>1 DEF Works
<1>3. FormTypes'
  BY <1>2 DEF FormInv, FormTypes
<1>4. RowsAreNumbered'
  BY <1>2 DEF FormInv, RowsAreNumbered, Names, NotEditing
<1>5. ASSUME NEW s, NEW id, Stands(s, id)'
      PROVE  \/ Stands(s, id)
             \/ Names(shelf'.variants, s, id) /\ id \in lastVariant + 1 .. lastVariant'
  <2>1. CASE Names(shelf'.variants, s, id)
    BY <2>1
  <2>2. ASSUME NEW f \in Editors, WorkNames(editor'[f], s, id) PROVE Stands(s, id)
    BY <1>2, <1>5, <2>2 DEF Stands, WorkNames, NotEditing
  <2> QED
    BY <1>5, <2>1, <2>2 DEF Stands
<1>6. \A s, id : Stands(s, id) => id \in 1 .. lastVariant
  BY DEF FormInv, IdsWereGiven
<1>7. IdsWereGiven'
  <2>1. ASSUME NEW s, NEW id, Stands(s, id)' PROVE id \in 1 .. lastVariant'
    <3>1. CASE Stands(s, id)
      <4>1. id \in 1 .. lastVariant
        BY <3>1, <1>6
      <4> QED
        BY <1>1, <4>1
    <3> QED
      BY <1>1, <1>5, <2>1, <3>1
  <2> QED
    BY <2>1 DEF IdsWereGiven
<1>8. IdsKeepTheirSku'
  <2>1. ASSUME NEW s, NEW t, NEW id, Stands(s, id)', Stands(t, id)' PROVE s = t
    <3>1. CASE Stands(s, id) /\ Stands(t, id)
      BY <3>1 DEF FormInv, IdsKeepTheirSku
    <3>2. CASE id \in lastVariant + 1 .. lastVariant'
      <4>1. id \notin 1 .. lastVariant /\ id > lastVariant
        BY <1>1, <3>2
      <4> QED
        BY <1>5, <1>6, <2>1, <4>1 DEF Names
    <3> QED
      BY <1>5, <2>1, <3>1, <3>2
  <2> QED
    BY <2>1 DEF IdsKeepTheirSku
<1>9. OrderedVariantsStay'
  <2>1. ASSUME NEW b \in Buyers, bought'[b].variant # 0
        PROVE  bought'[b].variant \in Present(shelf'.variants)
    BY <2>1 DEF FormInv, OrderedVariantsStay, Held
  <2> QED
    BY <2>1 DEF OrderedVariantsStay
<1> QED
  BY <1>3, <1>4, <1>7, <1>8, <1>9 DEF FormInv

-----------------------------------------------------------------------------
\* What a form writes, in a constant w: every row that is not collected stays
\* under its SKU, and a new row takes a number of its own.
LEMMA FormWrites ==
    ASSUME FormInv, NEW w, w \in [at : {"saving"}, form : Shelves, read : Shelves],
           Accepted(w),
           \A s, id : id # 0 /\ Names(w.form.variants, s, id) => Stands(s, id)
    PROVE  LET after == VariantsAfter(w, lastVariant + 1)
               new == lastVariant + Cardinality(New(w))
           IN  /\ after \in VariantSheets /\ ChoicesAfter(w) \in SUBSET OptionValues
               /\ new \in Nat /\ lastVariant <= new
               /\ \A s, id : Names(after, s, id) =>
                     id # 0 /\ (Stands(s, id) \/ id \in lastVariant + 1 .. new)
               /\ \A s, t : s \in DOMAIN after /\ t \in DOMAIN after
                     /\ after[s].id = after[t].id /\ after[s].id > lastVariant => s = t
               /\ Held(shelf.variants) \subseteq Present(after)
<1> DEFINE now == shelf.variants
           form == w.form.variants
           gone == {s \in DOMAIN now : now[s].id \in Removed(w)}
           kept == {s \in Known(w) : form[s].id \in Present(now)}
           others == DOMAIN now \ (gone \cup kept)
           nth == CHOOSE o \in [New(w) -> 0 .. Cardinality(New(w)) - 1] : IsInjective(o)
           cascade(row) == [row EXCEPT !.values = row.values \cap ChoicesAfter(w)]
           after == [s \in kept \cup New(w) \cup others |->
                       IF s \in others THEN cascade(now[s])
                       ELSE Written(w, s, lastVariant + 1 + nth[s])]
           new == lastVariant + Cardinality(New(w))
<1>1. after = VariantsAfter(w, lastVariant + 1)
  BY DEF VariantsAfter
<1>2. PICK D \in SUBSET Skus : now \in [D -> VariantRow]
  BY DEF FormInv, FormTypes, Shelves, VariantSheets
<1>3. PICK F \in SUBSET Skus : form \in [F -> VariantRow]
  BY DEF Shelves, VariantSheets
<1>4. lastVariant \in Nat /\ Cardinality(New(w)) \in Nat
      /\ nth \in [New(w) -> 0 .. Cardinality(New(w)) - 1] /\ IsInjective(nth)
  <2>1. New(w) \in SUBSET Skus
    BY <1>3 DEF New
  <2>2. /\ Cardinality(New(w)) \in Nat
        /\ \E o \in [New(w) -> 0 .. Cardinality(New(w)) - 1] : IsInjective(o)
    BY <2>1, NewRowsAreCounted
  <2> QED
    BY <2>2 DEF FormInv, FormTypes
<1>5. ChoicesAfter(w) \in SUBSET OptionValues
  <2>1. shelf.choices \subseteq OptionValues /\ w.form.choices \subseteq OptionValues
    BY DEF FormInv, FormTypes, Shelves
  <2> QED
    BY <2>1 DEF ChoicesAfter, Synced
<1>6. ASSUME NEW s \in D PROVE now[s].id \in Nat \ {0} /\ Stands(s, now[s].id)
  BY <1>2 DEF FormInv, RowsAreNumbered, Stands, Names, VariantRow
<1>12. /\ DOMAIN after = kept \cup New(w) \cup others
       /\ after = [s \in DOMAIN after |-> after[s]]
       /\ \A s \in DOMAIN after : after[s] = IF s \in others THEN cascade(now[s])
                                     ELSE Written(w, s, lastVariant + 1 + nth[s])
  OBVIOUS
<1> HIDE DEF after, nth
\* A row of the form that is there stands under the SKU the form has it under.
<1>7. ASSUME NEW s \in kept
      PROVE  s \in D /\ s \in F /\ now[s].id = form[s].id /\ RowAt(now, form[s].id) = s
  <2>1. s \in F /\ form[s].id \in Present(now)
    BY <1>3 DEF Known
  <2>2. PICK t \in D : now[t].id = form[s].id
    BY <1>2, <2>1 DEF Present
  <2>3. form[s].id # 0 /\ Stands(t, form[s].id) /\ Stands(s, form[s].id)
    BY <1>3, <1>6, <2>1, <2>2 DEF Names
  <2>4. s = t
    BY <2>3 DEF FormInv, IdsKeepTheirSku
  <2>5. RowAt(now, form[s].id) \in D /\ now[RowAt(now, form[s].id)].id = form[s].id
    BY <1>2, <2>1, RowIsFound
  <2>6. RowAt(now, form[s].id) = s
    BY <1>6, <2>2, <2>4, <2>5 DEF FormInv, IdsKeepTheirSku
  <2> QED
    BY <2>1, <2>2, <2>4, <2>6
<1>8. ASSUME NEW s \in others
      PROVE  after[s] \in VariantRow /\ after[s].id = now[s].id /\ s \in D
  <2>1. s \in D /\ now[s] \in VariantRow /\ after[s] = cascade(now[s])
    BY <1>2, <1>12
  <2>2. cascade(now[s]) \in VariantRow /\ cascade(now[s]).id = now[s].id
    BY <2>1 DEF VariantRow
  <2> QED
    BY <2>1, <2>2
<1>9. ASSUME NEW s \in kept
      PROVE  after[s] \in VariantRow /\ after[s].id = now[s].id
  <2>1. after[s] = Written(w, s, lastVariant + 1 + nth[s])
    BY <1>12
  <2>2. s \in Known(w) /\ form[s] \in VariantRow /\ now[s] \in VariantRow
    BY <1>2, <1>3, <1>7
  <2>3. PICK vs : vs = Synced(NowValues(w, s), ReadValues(w, s), form[s].values) \cap ChoicesAfter(w)
    OBVIOUS
  <2>4. PICK n \in Nat : n = IF form[s].stock = ReadRow(w, s).stock THEN now[s].stock ELSE form[s].stock
    BY <2>2 DEF VariantRow
  <2>5. Written(w, s, lastVariant + 1 + nth[s]) = [now[s] EXCEPT !.values = vs, !.stock = n]
    BY <1>7, <2>2, <2>3, <2>4 DEF Written
  <2>6. vs \in SUBSET OptionValues
    BY <1>5, <2>3
  <2>7. /\ [now[s] EXCEPT !.values = vs, !.stock = n] \in VariantRow
        /\ [now[s] EXCEPT !.values = vs, !.stock = n].id = now[s].id
    BY <2>2, <2>6 DEF VariantRow
  <2> QED
    BY <2>1, <2>5, <2>7
<1>10. ASSUME NEW s \in New(w), s \notin D
       PROVE  after[s] \in VariantRow /\ after[s].id = lastVariant + 1 + nth[s]
  <2>1. s \notin others /\ after[s] = Written(w, s, lastVariant + 1 + nth[s])
    BY <1>2, <1>10, <1>12
  <2>2. s \notin Known(w) /\ form[s] \in VariantRow
    BY <1>3 DEF New
  <2>3. PICK vs : vs = Synced(NowValues(w, s), ReadValues(w, s), form[s].values) \cap ChoicesAfter(w)
    OBVIOUS
  <2>4. Written(w, s, lastVariant + 1 + nth[s])
          = [id |-> lastVariant + 1 + nth[s], stock |-> form[s].stock, values |-> vs]
    BY <2>2, <2>3 DEF Written
  <2>5. lastVariant + 1 + nth[s] \in Nat
    BY <1>4
  <2>6. vs \in SUBSET OptionValues
    BY <1>5, <2>3
  <2>7. form[s].stock \in Nat
    BY <2>2 DEF VariantRow
  <2>8. [id |-> lastVariant + 1 + nth[s], stock |-> form[s].stock, values |-> vs] \in VariantRow
    BY <2>5, <2>6, <2>7 DEF VariantRow
  <2> QED
    BY <2>1, <2>4, <2>8
<1>11. \A s \in New(w) : s \notin D
  BY <1>2 DEF Accepted
<1>13. after \in VariantSheets
  <2>1. DOMAIN after \in SUBSET Skus
    BY <1>2, <1>3, <1>12 DEF Known, New
  <2>2. ASSUME NEW s \in DOMAIN after PROVE after[s] \in VariantRow
    BY <1>8, <1>9, <1>10, <1>11, <1>12
  <2>3. after \in [DOMAIN after -> VariantRow]
    BY <1>12, <2>2
  <2> QED
    BY <2>1, <2>3 DEF VariantSheets
<1>14. ASSUME NEW s, NEW id, Names(after, s, id)
       PROVE  id # 0 /\ (Stands(s, id) \/ id \in lastVariant + 1 .. new)
  <2>1. CASE s \in others \/ s \in kept
    BY <1>6, <1>7, <1>8, <1>9, <1>14, <2>1 DEF Names
  <2>2. CASE s \in New(w)
    <3>1. id = lastVariant + 1 + nth[s]
      BY <1>10, <1>11, <1>14, <2>2 DEF Names
    <3>2. nth[s] \in 0 .. Cardinality(New(w)) - 1
      BY <1>4, <2>2
    <3> QED
      BY <1>4, <3>1, <3>2
  <2> QED
    BY <1>12, <1>14, <2>1, <2>2 DEF Names
<1>15. ASSUME NEW s \in DOMAIN after, NEW t \in DOMAIN after,
              after[s].id = after[t].id, after[s].id > lastVariant
       PROVE  s = t
  <2>1. ASSUME NEW u \in others \cup kept PROVE ~(after[u].id > lastVariant)
    <3>1. Stands(u, after[u].id)
      BY <1>6, <1>7, <1>8, <1>9
    <3>2. after[u].id \in 1 .. lastVariant
      BY <3>1 DEF FormInv, IdsWereGiven
    <3> QED
      BY <1>4, <3>2
  <2>2. s \in New(w) /\ t \in New(w)
    BY <1>12, <1>15, <2>1
  <2>3. after[s].id = lastVariant + 1 + nth[s] /\ after[t].id = lastVariant + 1 + nth[t]
    BY <1>10, <1>11, <2>2
  <2>4. nth[s] \in Nat /\ nth[t] \in Nat
    BY <1>4, <2>2
  <2>5. nth[s] = nth[t]
    <3>1. lastVariant + 1 + nth[s] = lastVariant + 1 + nth[t]
      BY <1>15, <2>3
    <3> QED
      BY <1>4, <2>4, <3>1
  <2> QED
    BY <1>4, <2>2, <2>5 DEF IsInjective
<1>16. Held(now) \subseteq Present(after)
  <2>1. ASSUME NEW id \in Held(now) PROVE id \in Present(after)
    <3>1. PICK s \in D : now[s].id = id
      BY <1>2, <2>1 DEF Held, Present
    <3>2. s \notin gone
      BY <2>1, <3>1 DEF Accepted, NothingReservedGoes
    <3>3. s \in kept \/ s \in others
      BY <1>2, <3>2
    <3>4. after[s].id = id /\ s \in DOMAIN after
      BY <1>8, <1>9, <1>12, <3>1, <3>3
    <3> QED
      BY <3>4 DEF Present
  <2> QED
    BY <2>1
<1>17. new \in Nat /\ lastVariant <= new
  BY <1>4
<1> HIDE DEF new, now
<1> QED
  BY <1>1, <1>5, <1>13, <1>14, <1>15, <1>16, <1>17 DEF now, new

-----------------------------------------------------------------------------
LEMMA FormInvStep == FormInv /\ [ProductFormNext]_formVars => FormInv'
<1> SUFFICES ASSUME FormInv, [ProductFormNext]_formVars PROVE FormInv'
  OBVIOUS
<1>0. shelf \in Shelves /\ editor \in [Editors -> Works]
  BY DEF FormInv, FormTypes
<1>1. ASSUME NEW b \in Buyers, (\E s \in Skus : Reserve(b, s)) \/ PutBack(b) PROVE FormInv'
  BY <1>1, OrdersMoveNoRow
<1>2. ASSUME NEW s, NEW id, id # 0, Names(shelf.variants, s, id) PROVE Stands(s, id)
  BY <1>2 DEF Stands
<1>3. ASSUME NEW e \in Editors, OpenForm(e) PROVE FormInv'
  <2> DEFINE w == [at |-> "form", form |-> shelf]
  <2>1. w \in Works /\ w.at # "variant"
    BY <1>0 DEF Works
  <2>2. \A s, id : WorkNames(w, s, id) => Names(shelf.variants, s, id)
    BY DEF WorkNames
  <2>3. editor' = [editor EXCEPT ![e] = w] /\ UNCHANGED <<shelf, lastVariant, bought>>
    BY <1>3 DEF OpenForm
  <2> HIDE DEF w
  <2> QED
    BY <1>2, <2>1, <2>2, <2>3, RequestGoesOn
<1>4. ASSUME NEW e \in Editors, Submit(e) PROVE FormInv'
  <2>1. PICK form \in Edits(editor[e].form) :
            editor' = [editor EXCEPT ![e] = [at |-> "submitted", form |-> form, read |-> shelf]]
    BY <1>4 DEF Submit
  <2> DEFINE w == [at |-> "submitted", form |-> form, read |-> shelf]
  <2>2. editor[e].at = "form" /\ UNCHANGED <<shelf, lastVariant, bought>>
    BY <1>4 DEF Submit
  <2>3. editor[e].form \in Shelves
    BY <1>0, <2>2 DEF Works, NotEditing
  <2>4. /\ form \in Shelves
        /\ \A s, id : id # 0 /\ Names(form.variants, s, id)
                      => Names(editor[e].form.variants, s, id)
    BY <2>3, EditsAreForms
  <2>5. w \in Works /\ w.at # "variant"
    BY <1>0, <2>4 DEF Works
  <2>6. \A s, id : id # 0 /\ WorkNames(w, s, id) => Stands(s, id)
    BY <1>2, <2>2, <2>4 DEF WorkNames, Stands
  <2> HIDE DEF w
  <2>7. editor' = [editor EXCEPT ![e] = w]
    BY <2>1 DEF w
  <2> QED
    BY <2>2, <2>5, <2>6, <2>7, RequestGoesOn
<1>5. ASSUME NEW e \in Editors, Check(e) PROVE FormInv'
  <2> DEFINE w == [editor[e] EXCEPT !.at = "saving"]
  <2>1. editor[e].at = "submitted" /\ UNCHANGED <<shelf, lastVariant, bought>>
        /\ editor' = [editor EXCEPT ![e] = w]
    BY <1>0, <1>5 DEF Check
  <2>2. editor[e] \in [at : {"submitted", "saving"}, form : Shelves, read : Shelves]
    BY <1>0, <2>1 DEF Works, NotEditing
  <2>3. /\ w \in [at : {"submitted", "saving"}, form : Shelves, read : Shelves]
        /\ w.form = editor[e].form /\ w.read = editor[e].read /\ w.at = "saving"
    BY <2>2
  <2>4. \A s, id : id # 0 /\ WorkNames(w, s, id) => Stands(s, id)
    BY <2>1, <2>3 DEF WorkNames, Stands
  <2>5. w \in Works
    BY <2>3 DEF Works
  <2> HIDE DEF w
  <2> QED
    BY <2>1, <2>3, <2>4, <2>5, RequestGoesOn
<1>6. ASSUME NEW e \in Editors, Save(e) PROVE FormInv'
  <2>1. PICK w : w = editor[e]
    OBVIOUS
  <2>2. /\ w.at = "saving" /\ Accepted(w)
        /\ shelf' = [shelf EXCEPT !.choices = ChoicesAfter(w),
                                  !.variants = VariantsAfter(w, lastVariant + 1)]
        /\ lastVariant' = lastVariant + Cardinality(New(w))
        /\ editor' = [editor EXCEPT ![e] = NotEditing] /\ bought' = bought
    BY <1>6, <2>1 DEF Save
  <2>3. w \in [at : {"saving"}, form : Shelves, read : Shelves]
    BY <1>0, <2>1, <2>2 DEF Works, NotEditing
  <2>4. \A s, id : id # 0 /\ Names(w.form.variants, s, id) => Stands(s, id)
    BY <2>1, <2>2 DEF Stands, WorkNames
  <2> DEFINE after == VariantsAfter(w, lastVariant + 1)
  <2>5. /\ after \in VariantSheets /\ ChoicesAfter(w) \in SUBSET OptionValues
        /\ lastVariant' \in Nat /\ lastVariant <= lastVariant'
        /\ \A s, id : Names(after, s, id) =>
              id # 0 /\ (Stands(s, id) \/ id \in lastVariant + 1 .. lastVariant')
        /\ \A s, t : s \in DOMAIN after /\ t \in DOMAIN after
              /\ after[s].id = after[t].id /\ after[s].id > lastVariant => s = t
        /\ Held(shelf.variants) \subseteq Present(after)
    BY <2>2, <2>3, <2>4, FormWrites
  <2>6. shelf'.variants = after /\ shelf' \in Shelves
    BY <1>0, <2>2, <2>5 DEF Shelves
  <2> HIDE DEF after
  <2> QED
    BY <2>2, <2>5, <2>6, WritesKeepOrders
<1>7. ASSUME NEW e \in Editors, NEW s \in Skus, OpenVariant(e, s) PROVE FormInv'
  <2> DEFINE w == [at |-> "variant", sku |-> s, row |-> shelf.variants[s]]
  <2>1. PICK D \in SUBSET Skus : shelf.variants \in [D -> VariantRow]
    BY <1>0 DEF Shelves, VariantSheets
  <2>2. s \in D /\ shelf.variants[s].id # 0 /\ editor' = [editor EXCEPT ![e] = w]
        /\ UNCHANGED <<shelf, lastVariant, bought>>
    BY <1>7, <2>1 DEF OpenVariant, FormInv, RowsAreNumbered
  <2>3. w \in Works /\ w.row.id # 0
    BY <2>1, <2>2 DEF Works
  <2>4. \A t, id : id # 0 /\ WorkNames(w, t, id) => Stands(t, id)
    BY <1>2, <2>1, <2>2 DEF WorkNames, Names
  <2> HIDE DEF w
  <2> QED
    BY <2>2, <2>3, <2>4, RequestGoesOn
\* The writes that number no row.
<1>8. ASSUME NEW e \in Editors, shelf' \in Shelves,
             editor' = [editor EXCEPT ![e] = NotEditing], UNCHANGED <<lastVariant, bought>>,
             \A s, id : Names(shelf'.variants, s, id) => id # 0 /\ Stands(s, id),
             Held(shelf.variants) \subseteq Present(shelf'.variants)
      PROVE  FormInv'
  <2>1. lastVariant \in Nat /\ lastVariant' \in Nat /\ lastVariant <= lastVariant'
    BY <1>8 DEF FormInv, FormTypes
  <2>2. ASSUME NEW s \in DOMAIN shelf'.variants PROVE ~(shelf'.variants[s].id > lastVariant)
    <3>1. Stands(s, shelf'.variants[s].id)
      BY <1>8 DEF Names
    <3>2. shelf'.variants[s].id \in 1 .. lastVariant
      BY <3>1 DEF FormInv, IdsWereGiven
    <3> QED
      BY <2>1, <3>2
  <2> QED
    BY <1>8, <2>1, <2>2, WritesKeepOrders
<1>9. ASSUME NEW e \in Editors, SaveVariant(e) PROVE FormInv'
  <2>1. PICK w : w = editor[e]
    OBVIOUS
  <2>2. /\ w.at = "variant" /\ UNCHANGED <<lastVariant, bought>>
        /\ editor' = [editor EXCEPT ![e] = NotEditing]
        /\ \/ /\ w.row.id \in Present(shelf.variants)
              /\ shelf' = [shelf EXCEPT !.variants[w.sku].stock = w.row.stock]
           \/ /\ w.sku \notin DOMAIN shelf.variants
              /\ shelf' = [shelf EXCEPT !.variants =
                              Plus(shelf.variants, w.sku, [w.row EXCEPT !.values = {}])]
    BY <1>9, <2>1 DEF SaveVariant
  <2>3. w.sku \in Skus /\ w.row \in VariantRow /\ w.row.id # 0 /\ Stands(w.sku, w.row.id)
    <3>1. w.sku \in Skus /\ w.row \in VariantRow
      BY <1>0, <2>1, <2>2 DEF Works, NotEditing
    <3>2. w.row.id # 0
      BY <2>1, <2>2 DEF FormInv, RowsAreNumbered
    <3> QED
      BY <2>1, <2>2, <3>1, <3>2 DEF Stands, WorkNames
  <2>4. PICK D \in SUBSET Skus : shelf.variants \in [D -> VariantRow]
    BY <1>0 DEF Shelves, VariantSheets
  <2>5. ASSUME NEW s \in D PROVE shelf.variants[s].id # 0 /\ Stands(s, shelf.variants[s].id)
    BY <2>4 DEF FormInv, RowsAreNumbered, Stands, Names
  <2>6. CASE w.row.id \in Present(shelf.variants)
             /\ shelf' = [shelf EXCEPT !.variants[w.sku].stock = w.row.stock]
    <3>1. PICK t \in D : shelf.variants[t].id = w.row.id
      BY <2>4, <2>6 DEF Present
    <3>2. w.sku \in D
      BY <2>3, <2>5, <3>1 DEF FormInv, IdsKeepTheirSku
    <3>3. shelf'.variants = [shelf.variants EXCEPT ![w.sku] =
                                [shelf.variants[w.sku] EXCEPT !.stock = w.row.stock]]
      BY <1>0, <2>6 DEF Shelves
    <3>4. /\ [shelf.variants[w.sku] EXCEPT !.stock = w.row.stock] \in VariantRow
          /\ [shelf.variants[w.sku] EXCEPT !.stock = w.row.stock].id = shelf.variants[w.sku].id
      BY <2>3, <2>4, <3>2 DEF VariantRow
    <3>5. shelf'.variants \in [D -> VariantRow]
          /\ \A s \in D : shelf'.variants[s].id = shelf.variants[s].id
      BY <2>4, <3>3, <3>4
    <3>6. shelf' \in Shelves
      BY <1>0, <2>6, <3>5 DEF Shelves, VariantSheets
    <3>7. Present(shelf'.variants) = Present(shelf.variants)
      BY <2>4, <3>5 DEF Present
    <3> QED
      BY <1>8, <2>2, <2>5, <3>5, <3>6, <3>7 DEF Names, Held
  <2>7. CASE w.sku \notin DOMAIN shelf.variants
             /\ shelf' = [shelf EXCEPT !.variants =
                             Plus(shelf.variants, w.sku, [w.row EXCEPT !.values = {}])]
    <3>1. [w.row EXCEPT !.values = {}] \in VariantRow
          /\ [w.row EXCEPT !.values = {}].id = w.row.id
      BY <2>3 DEF VariantRow
    <3>2. shelf'.variants = Plus(shelf.variants, w.sku, [w.row EXCEPT !.values = {}])
      BY <1>0, <2>7 DEF Shelves
    <3>3. D \cup {w.sku} \in SUBSET Skus
      BY <2>3
    <3>4. shelf'.variants \in [D \cup {w.sku} -> VariantRow]
          /\ shelf'.variants[w.sku].id = w.row.id
          /\ \A s \in D : shelf'.variants[s].id = shelf.variants[s].id
      <4>1. PICK row : row = [w.row EXCEPT !.values = {}]
        OBVIOUS
      <4>2. shelf'.variants =
              [s \in D \cup {w.sku} |-> IF s = w.sku THEN row ELSE shelf.variants[s]]
        BY <2>4, <3>2, <4>1 DEF Plus
      <4>3. row \in VariantRow /\ row.id = w.row.id /\ w.sku \notin D
        BY <2>4, <2>7, <3>1, <4>1
      <4> QED
        BY <2>4, <4>2, <4>3
    <3>5. shelf' \in Shelves
      <4>1. shelf'.variants \in VariantSheets
        BY <3>3, <3>4 DEF VariantSheets
      <4> QED
        BY <1>0, <2>7, <3>2, <4>1 DEF Shelves
    <3>6. Present(shelf.variants) \subseteq Present(shelf'.variants)
      BY <2>4, <3>4 DEF Present
    <3>7. \A s, id : Names(shelf'.variants, s, id) => id # 0 /\ Stands(s, id)
      BY <2>3, <2>5, <3>4 DEF Names
    <3> QED
      BY <1>8, <2>2, <3>5, <3>6, <3>7 DEF Held
  <2> QED
    BY <2>2, <2>6, <2>7
<1>10. ASSUME NEW e \in Editors, NEW whole \in BOOLEAN, Collect(e, whole) PROVE FormInv'
  <2>1. PICK gone \in IF whole THEN {Present(shelf.variants)}
                      ELSE {{id} : id \in Present(shelf.variants)} :
            editor' = [editor EXCEPT ![e] = [at |-> "deleting", gone |-> gone, whole |-> whole]]
    BY <1>10 DEF Collect
  <2>2. Present(shelf.variants) \subseteq Nat
    BY <1>0 DEF Present, Shelves, VariantSheets, VariantRow
  <2> DEFINE w == [at |-> "deleting", gone |-> gone, whole |-> whole]
  <2>3. w \in Works /\ w.at # "variant"
    BY <2>1, <2>2 DEF Works
  <2>4. \A s, id : ~WorkNames(w, s, id)
    BY DEF WorkNames
  <2>5. editor' = [editor EXCEPT ![e] = w] /\ UNCHANGED <<shelf, lastVariant, bought>>
    BY <1>10, <2>1 DEF Collect
  <2> HIDE DEF w
  <2> QED
    BY <2>3, <2>4, <2>5, RequestGoesOn
<1>11. ASSUME NEW e \in Editors, Delete(e) PROVE FormInv'
  <2>1. PICK w, left : w = editor[e]
                       /\ left = {s \in DOMAIN shelf.variants : shelf.variants[s].id \notin w.gone}
    OBVIOUS
  <2>2. /\ w.at = "deleting" /\ NothingReservedGoes(w.gone) /\ UNCHANGED <<lastVariant, bought>>
        /\ shelf' = [live     |-> shelf.live /\ ~w.whole,
                     choices  |-> IF w.whole THEN {} ELSE shelf.choices,
                     variants |-> Restrict(shelf.variants, left)]
        /\ editor' = [editor EXCEPT ![e] = NotEditing]
    BY <1>11, <2>1 DEF Delete
  <2>3. PICK D \in SUBSET Skus : shelf.variants \in [D -> VariantRow]
    BY <1>0 DEF Shelves, VariantSheets
  <2>4. left \in SUBSET Skus /\ left \subseteq D
    BY <2>1, <2>3
  <2>5. shelf'.variants \in [left -> VariantRow]
        /\ \A s \in left : shelf'.variants[s] = shelf.variants[s]
    BY <2>2, <2>3, <2>4 DEF Restrict
  <2>6. shelf' \in Shelves
    <3>1. shelf'.variants \in VariantSheets
      BY <2>4, <2>5 DEF VariantSheets
    <3>2. shelf'.choices \in SUBSET OptionValues /\ shelf'.live \in BOOLEAN
      BY <1>0, <2>2 DEF Shelves
    <3>3. shelf' = [live |-> shelf'.live, choices |-> shelf'.choices, variants |-> shelf'.variants]
      BY <2>2
    <3> QED
      BY <3>1, <3>2, <3>3 DEF Shelves
  <2>7. \A s, id : Names(shelf'.variants, s, id) => id # 0 /\ Stands(s, id)
    BY <2>3, <2>4, <2>5 DEF Names, Stands, FormInv, RowsAreNumbered
  <2>8. Held(shelf.variants) \subseteq Present(shelf'.variants)
    <3>1. ASSUME NEW id \in Held(shelf.variants) PROVE id \in Present(shelf'.variants)
      <4>1. PICK s \in D : shelf.variants[s].id = id
        BY <2>3, <3>1 DEF Held, Present
      <4>2. s \in left
        BY <2>1, <2>2, <2>3, <3>1, <4>1 DEF NothingReservedGoes
      <4> QED
        BY <2>5, <4>1, <4>2 DEF Present
    <3> QED
      BY <3>1
  <2> QED
    BY <1>8, <2>2, <2>6, <2>7, <2>8
<1>12. ASSUME NEW e \in Editors, Abandon(e) PROVE FormInv'
  <2>1. NotEditing \in Works /\ NotEditing.at = "idle"
    BY DEF Works, NotEditing
  <2>2. \A s, id : ~WorkNames(NotEditing, s, id)
    BY <2>1 DEF WorkNames
  <2> QED
    BY <1>12, <2>1, <2>2, RequestGoesOn DEF Abandon
<1>13. CASE UNCHANGED formVars
  BY <1>13 DEF formVars, FormInv, FormTypes, RowsAreNumbered, IdsKeepTheirSku, IdsWereGiven,
               Stands, Names, WorkNames, OrderedVariantsStay, Present
<1> QED
  BY <1>1, <1>3, <1>4, <1>5, <1>6, <1>7, <1>9, <1>10, <1>11, <1>12, <1>13 DEF ProductFormNext

\* A variant that an order has reserved is in the catalog as long as the
\* reservation row is, so payment and expiry find it (orders/services.py:1168).
\* The check that holds it is the one at commit: for every number of editors and
\* orders, and every order in which their requests interleave.
THEOREM ReservedVariantsStay == ProductFormSpec => []OrderedVariantsStay
<1>1. FormInv => OrderedVariantsStay
  BY DEF FormInv
<1> QED
  BY <1>1, FormInvInit, FormInvStep, PTL DEF ProductFormSpec

-----------------------------------------------------------------------------
(***************************************************************************)
(* Proofs about DeliveryAdmin for any zones, rules and requests. A rule    *)
(* that is saved has its zone at that moment, and a zone goes together     *)
(* with the rules that name it then, so it does not matter what a request  *)
(* had read or counted before. Status and scope are read off a row and     *)
(* asked for by query; the two agree on every row whose columns hold       *)
(* values of their kind, which all rows do.                                *)
(***************************************************************************)

Kinds == {"variant", "product", "subcategory", "category"}
Columns == {"exists", "active", "zone", "targets", "starts", "ends", "combine", "discount"}
ColumnSets == [exists |-> {TRUE}, active |-> BOOLEAN, zone |-> Zones \cup {NoZone},
               targets |-> SUBSET Kinds, starts |-> Moments, ends |-> Moments,
               combine |-> {"add", "override"}, discount |-> BOOLEAN]

\* A row has its columns, each with a value of its own kind; so has what a
\* payload sets.
RowHolds(row) == DOMAIN row = Columns /\ \A f \in Columns : row[f] \in ColumnSets[f]
PayloadHolds(p) == DOMAIN p \subseteq Columns /\ \A f \in DOMAIN p : p[f] \in ColumnSets[f]

TaskHolds(t) ==
  \/ t = AtRest
  \/ t.does = "create" /\ t.rule \in RuleIds /\ RowHolds(t.row)
  \/ t.does = "update" /\ t.rule \in RuleIds /\ PayloadHolds(t.set)
  \/ t.does = "delete zone" /\ t.zone \in Zones

DeliveryAdminInv ==
  /\ zoneRow \in [Zones -> {"on", "off", "gone"}]
  /\ ruleRow = [r \in RuleIds |-> ruleRow[r]]
  /\ \A r \in RuleIds : ruleRow[r] # NoRule => RowHolds(ruleRow[r])
  /\ managed = [m \in Managers |-> managed[m]]
  /\ \A m \in Managers : TaskHolds(managed[m])
  /\ RulesHaveTheirZone

-----------------------------------------------------------------------------
LEMMA EachColumn ==
  /\ ColumnSets["exists"] = {TRUE} /\ ColumnSets["active"] = BOOLEAN /\ ColumnSets["zone"] = Zones \cup {NoZone}
  /\ ColumnSets["targets"] = SUBSET Kinds /\ ColumnSets["starts"] = Moments /\ ColumnSets["ends"] = Moments
  /\ ColumnSets["combine"] = {"add", "override"} /\ ColumnSets["discount"] = BOOLEAN
BY DEF ColumnSets

LEMMA NewRuleHolds == RowHolds(NewRule)
<1>1. DOMAIN NewRule = Columns
  BY DEF NewRule, Columns
<1>2. \A f \in Columns : NewRule[f] \in ColumnSets[f]
  <2>1. /\ NewRule["exists"] = TRUE /\ NewRule["active"] = TRUE /\ NewRule["zone"] = NoZone
        /\ NewRule["targets"] = {} /\ NewRule["starts"] = Unset /\ NewRule["ends"] = Unset
        /\ NewRule["combine"] = "add" /\ NewRule["discount"] = FALSE
    BY Zenon DEF NewRule
  <2>2. TRUE \in BOOLEAN /\ FALSE \in BOOLEAN /\ Unset \in Moments /\ {} \in SUBSET Kinds
    BY DEF Moments
  <2>3. /\ NewRule["exists"] \in ColumnSets["exists"] /\ NewRule["active"] \in ColumnSets["active"]
        /\ NewRule["zone"] \in ColumnSets["zone"] /\ NewRule["targets"] \in ColumnSets["targets"]
        /\ NewRule["starts"] \in ColumnSets["starts"] /\ NewRule["ends"] \in ColumnSets["ends"]
        /\ NewRule["combine"] \in ColumnSets["combine"] /\ NewRule["discount"] \in ColumnSets["discount"]
    BY <2>1, <2>2, EachColumn, Zenon
  <2> QED
    BY <2>3 DEF Columns
<1> QED
  BY <1>1, <1>2 DEF RowHolds

LEMMA PayloadsHold == ASSUME NEW p \in Payloads PROVE PayloadHolds(p)
<1>1. CASE p \in [{"active"} -> BOOLEAN] \/ p \in [{"discount"} -> BOOLEAN]
  BY <1>1 DEF PayloadHolds, ColumnSets, Columns
<1>2. CASE p \in [{"zone"} -> {z \in Zones \cup {NoZone} : ThereIs(z)}]
  BY <1>2 DEF PayloadHolds, ColumnSets, Columns
<1>3. CASE p \in [{"targets"} -> Targetings]
  <2>1. Targetings \subseteq SUBSET Kinds
    BY DeliveryAdminAssumption DEF Kinds
  <2> QED
    BY <1>3, <2>1, EachColumn DEF PayloadHolds, Columns
<1>4. CASE p \in [{"starts"} -> Moments] \/ p \in [{"ends"} -> Moments]
  BY <1>4 DEF PayloadHolds, ColumnSets, Columns
<1>5. CASE p \in [{"combine"} -> {"add", "override"}]
  BY <1>5 DEF PayloadHolds, ColumnSets, Columns
<1> QED
  BY <1>1, <1>2, <1>3, <1>4, <1>5 DEF Payloads

LEMMA WithHolds ==
  ASSUME NEW row, NEW p, RowHolds(row), PayloadHolds(p) PROVE RowHolds(With(row, p))
BY DEF RowHolds, PayloadHolds, With

LEMMA UpdatedHolds ==
  ASSUME NEW t, RowHolds(ruleRow[t.rule]), PayloadHolds(t.set) PROVE RowHolds(Updated(t))
BY DEF RowHolds, PayloadHolds, Updated

LEMMA DeliveryAdminInvInit == DeliveryAdminInit => DeliveryAdminInv
BY DEF DeliveryAdminInit, DeliveryAdminInv, TaskHolds, RulesHaveTheirZone

-----------------------------------------------------------------------------
\* A request begins, goes on or ends; no row changes.
LEMMA Requests ==
  ASSUME DeliveryAdminInv, UNCHANGED <<zoneRow, ruleRow>>,
         NEW m \in Managers, NEW t, TaskHolds(t), managed' = [managed EXCEPT ![m] = t]
  PROVE  DeliveryAdminInv'
BY DEF DeliveryAdminInv, RulesHaveTheirZone, ThereIs, TaskHolds, RowHolds, PayloadHolds, ColumnSets

LEMMA DeliveryAdminStep ==
  DeliveryAdminInv /\ [DeliveryAdminNext]_deliveryAdminVars => DeliveryAdminInv'
<1> SUFFICES ASSUME DeliveryAdminInv, [DeliveryAdminNext]_deliveryAdminVars PROVE DeliveryAdminInv'
  OBVIOUS
<1>0. /\ zoneRow \in [Zones -> {"on", "off", "gone"}]
      /\ ruleRow = [r \in RuleIds |-> ruleRow[r]] /\ managed = [m \in Managers |-> managed[m]]
      /\ TaskHolds(AtRest)
  BY DEF DeliveryAdminInv, TaskHolds
<1>1. ASSUME NEW m \in Managers, NEW r \in RuleIds, Create(m, r) PROVE DeliveryAdminInv'
  <2>1. PICK p \in Payloads : Start(m, [does |-> "create", rule |-> r, row |-> With(NewRule, p)])
    BY <1>1 DEF Create
  <2>2. TaskHolds([does |-> "create", rule |-> r, row |-> With(NewRule, p)])
    BY NewRuleHolds, PayloadsHold, WithHolds DEF TaskHolds
  <2> QED
    BY <1>1, <2>1, <2>2, Requests DEF Create, Start
<1>2. ASSUME NEW m \in Managers, NEW r \in RuleIds, Update(m, r) PROVE DeliveryAdminInv'
  <2>1. PICK p \in Payloads :
            Start(m, [does |-> "update", rule |-> r, read |-> ruleRow[r], set |-> p])
    BY <1>2 DEF Update
  <2>2. TaskHolds([does |-> "update", rule |-> r, read |-> ruleRow[r], set |-> p])
    BY PayloadsHold DEF TaskHolds
  <2> QED
    BY <1>2, <2>1, <2>2, Requests DEF Update, Start
<1>3. ASSUME NEW m \in Managers, NEW r \in RuleIds, ToggleRule(m, r) PROVE DeliveryAdminInv'
  <2> DEFINE p == [f \in {"active"} |-> ~ruleRow[r].active]
  <2>1. PayloadHolds(p)
    <3>1. p["active"] \in BOOLEAN /\ DOMAIN p = {"active"}
      BY Zenon
    <3> QED
      BY <3>1, EachColumn DEF PayloadHolds, Columns
  <2>2. TaskHolds([does |-> "update", rule |-> r, read |-> ruleRow[r], set |-> p])
    BY <2>1 DEF TaskHolds
  <2> QED
    BY <1>3, <2>2, Requests DEF ToggleRule, Start
<1>4. ASSUME NEW m \in Managers, NEW z \in Zones, CountRules(m, z) PROVE DeliveryAdminInv'
  <2>1. TaskHolds([does |-> "delete zone", zone |-> z])
    BY DEF TaskHolds
  <2> QED
    BY <1>4, <2>1, Requests DEF CountRules, Start
<1>5. ASSUME NEW m \in Managers, SaveRule(m) PROVE DeliveryAdminInv'
  <2> DEFINE t == managed[m]
  <2>0. UNCHANGED zoneRow /\ managed' = [managed EXCEPT ![m] = AtRest] /\ t # AtRest
    BY <1>5 DEF SaveRule, AtRest
  <2>1. t.rule \in RuleIds /\ ThereIs(ruleRow'[t.rule].zone)
    BY <1>5, <2>0 DEF SaveRule, DeliveryAdminInv, TaskHolds
  <2>2. PICK row : RowHolds(row) /\ ruleRow' = [ruleRow EXCEPT ![t.rule] = row]
    <3>1. CASE t.does = "create"
      BY <1>5, <2>0, <3>1 DEF SaveRule, DeliveryAdminInv, TaskHolds
    <3>2. CASE t.does = "update"
      <4>1. RowHolds(ruleRow[t.rule]) /\ PayloadHolds(t.set)
        BY <1>5, <2>0, <2>1, <3>2 DEF SaveRule, DeliveryAdminInv, TaskHolds
      <4> QED
        BY <1>5, <3>2, <4>1, UpdatedHolds DEF SaveRule
    <3> QED
      BY <1>5, <3>1, <3>2 DEF SaveRule
  <2> HIDE DEF t
  <2>3. \A r \in RuleIds : ruleRow'[r] = IF r = t.rule THEN row ELSE ruleRow[r]
    BY <1>0, <2>1, <2>2
  <2>4. \A r \in RuleIds : ruleRow'[r] # NoRule => RowHolds(ruleRow'[r])
    BY <2>2, <2>3 DEF DeliveryAdminInv
  <2>5. RulesHaveTheirZone'
    BY <2>0, <2>1, <2>3 DEF DeliveryAdminInv, RulesHaveTheirZone, ThereIs
  <2>6. /\ managed' = [n \in Managers |-> managed'[n]]
        /\ \A n \in Managers : TaskHolds(managed'[n])
    BY <1>0, <2>0 DEF DeliveryAdminInv
  <2>7. ruleRow' = [r \in RuleIds |-> ruleRow'[r]]
    BY <1>0, <2>2
  <2> QED
    BY <1>0, <2>0, <2>4, <2>5, <2>6, <2>7
    DEF DeliveryAdminInv, RowHolds, TaskHolds, PayloadHolds, ColumnSets
<1>6. ASSUME NEW m \in Managers, DeleteZone(m) PROVE DeliveryAdminInv'
  <2> DEFINE z == managed[m].zone
  <2>0. managed[m].does = "delete zone" /\ TaskHolds(managed[m])
    BY <1>6 DEF DeleteZone, DeliveryAdminInv
  <2>1. /\ z \in Zones
        /\ zoneRow' = [zoneRow EXCEPT ![z] = "gone"]
        /\ ruleRow' = [r \in RuleIds |-> IF r \in Targeting(z) THEN NoRule ELSE ruleRow[r]]
        /\ managed' = [managed EXCEPT ![m] = AtRest]
    <3>1. z \in Zones
      <4>1. managed[m] # AtRest
        <5>1. AtRest.does = "nothing"
          BY DEF AtRest
        <5>2. managed[m].does # "nothing"
          BY <2>0
        <5> QED
          BY <5>1, <5>2
      <4> QED
        BY <2>0, <4>1 DEF TaskHolds
    <3> QED
      BY <1>6, <3>1 DEF DeleteZone, WithoutZone
  <2> HIDE DEF z
  <2>2. zoneRow' \in [Zones -> {"on", "off", "gone"}] /\ \A y \in Zones : y # z => zoneRow'[y] = zoneRow[y]
    BY <1>0, <2>1
  <2>3. \A r \in RuleIds : ruleRow'[r] # NoRule =>
            ruleRow'[r] = ruleRow[r] /\ ruleRow[r].zone # z /\ RowHolds(ruleRow[r])
    BY <2>1 DEF Targeting, DeliveryAdminInv
  <2>4. RulesHaveTheirZone'
    <3> SUFFICES ASSUME NEW r \in RuleIds, ruleRow'[r] # NoRule, ruleRow'[r].zone # NoZone
                 PROVE  zoneRow'[ruleRow'[r].zone] # "gone"
      BY DEF RulesHaveTheirZone, ThereIs
    <3>1. ruleRow[r].zone \in Zones \cup {NoZone}
      BY <2>3 DEF RowHolds, ColumnSets, Columns
    <3>2. ThereIs(ruleRow[r].zone)
      BY <2>3 DEF DeliveryAdminInv, RulesHaveTheirZone
    <3> QED
      BY <2>2, <2>3, <3>1, <3>2 DEF ThereIs
  <2>5. /\ managed' = [n \in Managers |-> managed'[n]]
        /\ \A n \in Managers : TaskHolds(managed'[n])
    BY <1>0, <2>1 DEF DeliveryAdminInv
  <2>6. ruleRow' = [r \in RuleIds |-> ruleRow'[r]]
    BY <2>1
  <2>7. \A r \in RuleIds : ruleRow'[r] # NoRule => RowHolds(ruleRow'[r])
    BY <2>3
  <2> QED
    BY <2>2, <2>4, <2>5, <2>6, <2>7
    DEF DeliveryAdminInv, RowHolds, TaskHolds, PayloadHolds, ColumnSets
<1>7. ASSUME NEW m \in Managers, GiveUp(m) PROVE DeliveryAdminInv'
  BY <1>0, <1>7, Requests DEF GiveUp
<1>8. ASSUME NEW r \in RuleIds, DeleteRule(r) PROVE DeliveryAdminInv'
  <2>1. /\ ruleRow' = [ruleRow EXCEPT ![r] = NoRule] /\ UNCHANGED <<zoneRow, managed>>
    BY <1>8 DEF DeleteRule
  <2>2. \A q \in RuleIds : ruleRow'[q] = IF q = r THEN NoRule ELSE ruleRow[q]
    BY <1>0, <2>1
  <2>3. ruleRow' = [q \in RuleIds |-> ruleRow'[q]]
    BY <1>0, <2>1
  <2> QED
    BY <2>1, <2>2, <2>3
    DEF DeliveryAdminInv, RulesHaveTheirZone, ThereIs, RowHolds, TaskHolds, PayloadHolds, ColumnSets
<1>9. ASSUME NEW z \in Zones, SaveZone(z) PROVE DeliveryAdminInv'
  <2>1. /\ zoneRow' = [zoneRow EXCEPT ![z] = IF @ = "on" THEN "off" ELSE "on"]
        /\ zoneRow[z] # "gone" /\ UNCHANGED <<ruleRow, managed>>
    BY <1>9 DEF SaveZone
  <2>2. /\ zoneRow' \in [Zones -> {"on", "off", "gone"}]
        /\ \A y \in Zones \cup {NoZone} : ThereIs(y) => ThereIs(y)'
    BY <1>0, <2>1, DeliveryAdminAssumption DEF ThereIs
  <2>3. \A r \in RuleIds : ruleRow[r] # NoRule => ruleRow[r].zone \in Zones \cup {NoZone}
    BY DEF DeliveryAdminInv, RowHolds, ColumnSets, Columns
  <2>4. RulesHaveTheirZone'
    BY <2>1, <2>2, <2>3 DEF DeliveryAdminInv, RulesHaveTheirZone
  <2> QED
    BY <2>1, <2>2, <2>4 DEF DeliveryAdminInv, RowHolds, TaskHolds, PayloadHolds, ColumnSets
<1>10. CASE UNCHANGED deliveryAdminVars
  BY <1>10 DEF deliveryAdminVars, DeliveryAdminInv, RulesHaveTheirZone, ThereIs, RowHolds,
     TaskHolds, PayloadHolds, ColumnSets
<1> QED
  BY <1>1, <1>2, <1>3, <1>4, <1>5, <1>6, <1>7, <1>8, <1>9, <1>10 DEF DeliveryAdminNext

LEMMA DeliveryAdminInvariant == DeliveryAdminSpec => []DeliveryAdminInv
BY DeliveryAdminInvInit, DeliveryAdminStep, PTL DEF DeliveryAdminSpec

\* A rule never names a zone that is gone, although the rules of a zone are
\* counted before it is deleted and a rule may be pointed at it in between.
THEOREM NoRuleOutlivesItsZone == DeliveryAdminSpec => []RulesHaveTheirZone
<1>1. DeliveryAdminInv => RulesHaveTheirZone
  BY DEF DeliveryAdminInv
<1> QED
  BY <1>1, DeliveryAdminInvariant, PTL

-----------------------------------------------------------------------------
LEMMA MinIs ==
  ASSUME NEW S \in SUBSET Int, NEW x \in S, \A y \in S : x <= y PROVE Min(S) = x
<1>1. Min(S) \in S /\ \A y \in S : Min(S) <= y
  BY DEF Min
<1>2. Min(S) \in Int /\ x \in Int /\ Min(S) <= x /\ x <= Min(S)
  BY <1>1
<1> QED
  BY <1>2

LEMMA StatusesAgree ==
  ASSUME NEW row, RowHolds(row)
  PROVE  /\ {s \in {"inactive", "scheduled", "expired", "active"} : StatusQuery(s, row)}
              = {ComputeRuleStatus(row)}
         /\ ComputeRuleStatus(row) = "active" <=> row.active /\ InForce(row)
<1>0. row.active \in BOOLEAN /\ row.starts \in Int \cup {Unset} /\ row.ends \in Int \cup {Unset}
      /\ Today \in Int
  BY DeliveryAdminAssumption DEF RowHolds, Columns, ColumnSets, Moments
<1>1. /\ StatusQuery("inactive", row) <=> ~row.active
      /\ StatusQuery("scheduled", row) <=> row.active /\ row.starts # Unset /\ row.starts > Today
      /\ StatusQuery("expired", row) <=> row.active /\ Begun(row) /\ row.ends # Unset /\ row.ends < Today
      /\ StatusQuery("active", row)
           <=> row.active /\ Begun(row) /\ (row.ends = Unset \/ row.ends >= Today)
  BY DEF StatusQuery
<1>2. Begun(row) <=> ~(row.starts # Unset /\ row.starts > Today)
  BY <1>0 DEF Begun
<1>3. (row.ends = Unset \/ row.ends >= Today) <=> ~(row.ends # Unset /\ row.ends < Today)
  BY <1>0
<1>4. \A s \in {"inactive", "scheduled", "expired", "active"} :
          StatusQuery(s, row) <=> s = ComputeRuleStatus(row)
  BY <1>1, <1>2, <1>3 DEF ComputeRuleStatus
<1>5. ComputeRuleStatus(row) \in {"inactive", "scheduled", "expired", "active"}
  BY DEF ComputeRuleStatus
<1>6. ComputeRuleStatus(row) = "active" <=> row.active /\ InForce(row)
  BY <1>1, <1>4, <1>5 DEF InForce, Begun
<1> QED
  BY <1>4, <1>5, <1>6

LEMMA ScopesAgree ==
  ASSUME NEW row, RowHolds(row)
  PROVE  {s \in Range(ScopeOrder) \cup {"global"} : ScopeQuery(s, row)} = {ResolveRuleScope(row)}
<1>0. row.targets \subseteq Kinds
  BY DEF RowHolds, Columns, ColumnSets
<1>1. DOMAIN ScopeOrder = 1..5 /\ ScopeOrder[1] = "variant" /\ ScopeOrder[2] = "product"
      /\ ScopeOrder[3] = "subcategory" /\ ScopeOrder[4] = "category" /\ ScopeOrder[5] = "zone"
  BY DEF ScopeOrder
<1>2. Range(ScopeOrder) = {"variant", "product", "subcategory", "category", "zone"}
  BY <1>1 DEF Range
<1> DEFINE places == {i \in DOMAIN ScopeOrder : ScopeOrder[i] \in IsSet(row)}
<1>3. places \in SUBSET Int
  BY <1>1
<1>4. CASE "variant" \in row.targets
  <2>1. Min(places) = 1
    BY <1>1, <1>3, <1>4, MinIs DEF IsSet
  <2> QED
    BY <1>1, <1>2, <1>4, <2>1 DEF ScopeQuery, ResolveRuleScope, IsSet
<1>5. CASE "variant" \notin row.targets /\ "product" \in row.targets
  <2>1. Min(places) = 2
    BY <1>1, <1>3, <1>5, MinIs DEF IsSet
  <2> QED
    BY <1>1, <1>2, <1>5, <2>1 DEF ScopeQuery, ResolveRuleScope, IsSet
<1>6. CASE "variant" \notin row.targets /\ "product" \notin row.targets /\ "subcategory" \in row.targets
  <2>1. Min(places) = 3
    BY <1>1, <1>3, <1>6, MinIs DEF IsSet
  <2> QED
    BY <1>1, <1>2, <1>6, <2>1 DEF ScopeQuery, ResolveRuleScope, IsSet
<1>7. CASE row.targets = {"category"}
  <2>1. 4 \in places /\ \A i \in places : 4 <= i
    BY <1>1, <1>7 DEF IsSet
  <2>2. Min(places) = 4
    BY <1>3, <2>1, MinIs
  <2> QED
    BY <1>1, <1>2, <1>7, <2>2 DEF ScopeQuery, ResolveRuleScope, IsSet
<1>8. CASE row.targets = {} /\ row.zone # NoZone
  <2>1. Min(places) = 5
    BY <1>1, <1>3, <1>8, MinIs DEF IsSet
  <2> QED
    BY <1>1, <1>2, <1>8, <2>1 DEF ScopeQuery, ResolveRuleScope, IsSet
<1>9. CASE row.targets = {} /\ row.zone = NoZone
  BY <1>2, <1>9 DEF ScopeQuery, ResolveRuleScope, IsSet
<1>10. "variant" \in row.targets \/ "product" \in row.targets \/ "subcategory" \in row.targets
       \/ row.targets = {"category"} \/ row.targets = {}
  BY <1>0 DEF Kinds
<1> QED
  BY <1>4, <1>5, <1>6, <1>7, <1>8, <1>9, <1>10

\* "Both flavors must stay logically identical" (delivery/rule_scope.py): the
\* queries list a rule under the one status and the one scope it shows, and as
\* active just when the calculation applies it, in every row that requests
\* which validate against stale copies can leave behind.
THEOREM OverviewShowsWhatApplies == DeliveryAdminSpec => []StatusFilterAgrees
<1>1. DeliveryAdminInv => StatusFilterAgrees
  BY StatusesAgree, ScopesAgree DEF DeliveryAdminInv, StatusFilterAgrees
<1> QED
  BY <1>1, DeliveryAdminInvariant, PTL

-----------------------------------------------------------------------------
(***************************************************************************)
(* Proofs about Storefront for any catalog, and for whatever staff make of *)
(* it: they put products and variants on and off, and stock comes and      *)
(* goes, but a variant only ever carries values of its own product. So the *)
(* name of a value that a variant carries is found among the options of    *)
(* the products that the other filters leave.                              *)
(***************************************************************************)

LEMMA ShopInit == StorefrontInit(Assortments) => IsAssortment(shop)
BY AssortmentsAssumption DEF StorefrontInit

\* Staff change neither the products nor what their variants carry.
LEMMA ShopStep == IsAssortment(shop) /\ [StorefrontNext]_storefrontVars => IsAssortment(shop)'
<1> SUFFICES ASSUME IsAssortment(shop), [StorefrontNext]_storefrontVars
             PROVE  IsAssortment(shop)'
  OBVIOUS
<1> USE DEF Products
<1>1. ASSUME NEW p \in Products, NEW active \in BOOLEAN, NEW status, SetProduct(p, active, status)
      PROVE  IsAssortment(shop)'
  <2>1. shop' = [shop EXCEPT ![p] = [shop[p] EXCEPT !.active = active, !.status = status]]
    BY <1>1 DEF SetProduct
  <2>2. /\ DOMAIN shop' = DOMAIN shop
        /\ DOMAIN shop'[p] = {"active", "status", "category", "brand", "options", "variants"}
        /\ shop'[p].active = active /\ shop'[p].options = shop[p].options
        /\ shop'[p].variants = shop[p].variants
        /\ \A q \in DOMAIN shop \ {p} : shop'[q] = shop[q]
    BY <2>1 DEF IsAssortment
  <2>3. ASSUME NEW q \in DOMAIN shop
        PROVE  /\ DOMAIN shop'[q] = {"active", "status", "category", "brand", "options", "variants"}
               /\ shop'[q].active \in BOOLEAN
               /\ shop'[q].options = shop[q].options /\ shop'[q].variants = shop[q].variants
    <3>1. CASE q = p
      BY <2>2, <3>1
    <3>2. CASE q # p
      BY <2>2, <3>2 DEF IsAssortment
    <3> QED
      BY <3>1, <3>2
  <2> QED
    BY <2>2, <2>3 DEF IsAssortment
<1>2. ASSUME NEW p \in Products, NEW v \in DOMAIN shop[p].variants, NEW active \in BOOLEAN, NEW stock,
             SetVariant(p, v, active, stock)
      PROVE  IsAssortment(shop)'
  <2>1. PICK old : old = shop[p].variants
    OBVIOUS
  <2>2. PICK row : row = [old[v] EXCEPT !.active = active, !.stock = stock]
    OBVIOUS
  <2>3. PICK new : new = [old EXCEPT ![v] = row]
    OBVIOUS
  <2>4. shop' = [shop EXCEPT ![p] = [shop[p] EXCEPT !.variants = new]]
    BY <1>2, <2>1, <2>2, <2>3 DEF SetVariant
  <2>5. /\ DOMAIN row = {"active", "stock", "price", "picks"}
        /\ row.active = active /\ row.price = old[v].price /\ row.picks = old[v].picks
    BY <1>2, <2>1, <2>2 DEF IsAssortment
  <2>6. DOMAIN new = DOMAIN old /\ new[v] = row /\ \A w \in DOMAIN old \ {v} : new[w] = old[w]
    BY <1>2, <2>1, <2>3
  <2>7. /\ DOMAIN shop' = DOMAIN shop
        /\ DOMAIN shop'[p] = {"active", "status", "category", "brand", "options", "variants"}
        /\ shop'[p].active = shop[p].active /\ shop'[p].options = shop[p].options
        /\ shop'[p].variants = new
        /\ \A q \in DOMAIN shop \ {p} : shop'[q] = shop[q]
    BY <1>2, <2>4 DEF IsAssortment
  <2>8. ASSUME NEW w \in DOMAIN old
        PROVE  /\ DOMAIN new[w] = {"active", "stock", "price", "picks"}
               /\ new[w].active \in BOOLEAN /\ new[w].price \in Int
               /\ new[w].picks \subseteq shop[p].options
    <3>1. CASE w = v
      BY <1>2, <2>1, <2>5, <2>6, <3>1 DEF IsAssortment
    <3>2. CASE w # v
      BY <1>2, <2>1, <2>6, <3>2 DEF IsAssortment
    <3> QED
      BY <3>1, <3>2
  <2>9. IsFiniteSet(DOMAIN new)
    BY <1>2, <2>1, <2>6 DEF IsAssortment
  <2> QED
    <3>1. ASSUME NEW q \in DOMAIN shop
          PROVE  /\ DOMAIN shop'[q] = {"active", "status", "category", "brand", "options", "variants"}
                 /\ shop'[q].active \in BOOLEAN
                 /\ \A o \in shop'[q].options : o.name \in Spellings
                                                /\ o = [name |-> o.name, value |-> o.value]
                 /\ IsFiniteSet(DOMAIN shop'[q].variants)
                 /\ \A w \in DOMAIN shop'[q].variants :
                       /\ DOMAIN shop'[q].variants[w] = {"active", "stock", "price", "picks"}
                       /\ shop'[q].variants[w].active \in BOOLEAN
                       /\ shop'[q].variants[w].price \in Int
                       /\ shop'[q].variants[w].picks \subseteq shop'[q].options
      <4>1. CASE q = p
        <5>1. shop[p].active \in BOOLEAN
              /\ \A o \in shop[p].options : o.name \in Spellings
                                            /\ o = [name |-> o.name, value |-> o.value]
          BY <1>2 DEF IsAssortment
        <5> QED
          BY <2>6, <2>7, <2>8, <2>9, <4>1, <5>1
      <4>2. CASE q # p
        <5>1. shop'[q] = shop[q]
          BY <2>7, <4>2
        <5> QED
          BY <5>1 DEF IsAssortment
      <4> QED
        BY <4>1, <4>2
    <3> QED
      BY <2>7, <3>1 DEF IsAssortment
<1>3. CASE UNCHANGED storefrontVars
  BY <1>3 DEF storefrontVars, IsAssortment
<1> QED
  BY <1>1, <1>2, <1>3 DEF StorefrontNext

LEMMA ShopIsAssortment == StorefrontSpec => []IsAssortment(shop)
BY ShopInit, ShopStep, PTL DEF StorefrontSpec

-----------------------------------------------------------------------------
\* What a query without a price narrows the catalog to.
InScope(scope, inStock) ==
    {p \in Products : shop[p].category \in scope /\ Live(p) /\ HasStock(p) \in inStock}

\* The fields of the queries.
IsShopperQuery(q, scope, inStock, price) ==
    /\ DOMAIN q = {"scope", "live", "inStock", "price", "options"}
    /\ q.scope = scope /\ q.live = {TRUE} /\ q.inStock = inStock /\ q.price = price

LEMMA QueryIs ==
    ASSUME NEW scope
    PROVE  IsShopperQuery(ShopperQuery(scope), scope, BOOLEAN, AnyPrice)
<1>1. PICK none, all : none = [k \in {} |-> {}] /\ all = {shop[p].category : p \in Products}
  OBVIOUS
<1>2. NoQuery = [scope |-> all, live |-> BOOLEAN, inStock |-> BOOLEAN, price |-> AnyPrice,
                 options |-> none]
  BY <1>1 DEF NoQuery
<1> QED
  BY <1>2 DEF ShopperQuery, IsShopperQuery

LEMMA QueryAsks ==
    ASSUME NEW q, NEW scope, NEW inStock, NEW price, IsShopperQuery(q, scope, inStock, price),
           NEW x, NEW r, r = [q EXCEPT !.options = x]
    PROVE  IsShopperQuery(r, scope, inStock, price) /\ r.options = x
BY DEF IsShopperQuery

LEMMA QueryOfStock ==
    ASSUME NEW q, NEW scope, NEW inStock, NEW price, IsShopperQuery(q, scope, inStock, price),
           NEW x, NEW r, r = [q EXCEPT !.inStock = x]
    PROVE  IsShopperQuery(r, scope, x, price) /\ r.options = q.options
BY DEF IsShopperQuery

LEMMA QueryOfPrice ==
    ASSUME NEW q, NEW scope, NEW inStock, NEW price, IsShopperQuery(q, scope, inStock, price),
           NEW x, NEW r, r = [q EXCEPT !.price = x]
    PROVE  IsShopperQuery(r, scope, inStock, x) /\ r.options = q.options
BY DEF IsShopperQuery

LEMMA AsksNothing ==
    ASSUME NEW scope
    PROVE  DOMAIN ShopperQuery(scope).options = {}
<1>1. PICK none, all : none = [k \in {} |-> {}] /\ all = {shop[p].category : p \in Products}
  OBVIOUS
<1>2. NoQuery = [scope |-> all, live |-> BOOLEAN, inStock |-> BOOLEAN, price |-> AnyPrice,
                 options |-> none]
  BY <1>1 DEF NoQuery
<1>3. ShopperQuery(scope).options = none
  BY <1>2 DEF ShopperQuery
<1> QED
  BY <1>1, <1>3

LEMMA ShopperNarrows ==
    ASSUME NEW q, NEW scope, NEW inStock, IsShopperQuery(q, scope, inStock, AnyPrice)
    PROVE  Narrowed(q) = InScope(scope, inStock)
<1>1. \A p \in Products : PriceAdmits(p, AnyPrice) /\ (Live(p) \in {TRUE} <=> Live(p))
  BY DEF PriceAdmits, Live
<1> QED
  BY <1>1 DEF Narrowed, InScope, IsShopperQuery

\* A variant carries names of its own product.
LEMMA PicksAreOptions ==
    ASSUME IsAssortment(shop), NEW p \in Products, NEW v \in VariantsOf(p), NEW m \in v.picks
    PROVE  /\ m \in shop[p].options /\ m.name \in Spellings
           /\ m = [name |-> m.name, value |-> m.value]
<1>1. PICK i \in DOMAIN shop[p].variants : v = shop[p].variants[i]
  BY DEF VariantsOf
<1>2. m \in shop[p].options
  BY <1>1 DEF IsAssortment, Products
<1> QED
  BY <1>2 DEF IsAssortment, Products

\* An option is found by its key exactly when a variant carries one of the values
\* under any spelling of that key.
LEMMA OptionIsFound ==
    ASSUME IsAssortment(shop), NEW products \in SUBSET Products, NEW p \in products,
           NEW k, NEW values
    PROVE  HasOption(p, SpellingsIn(products, k), values)
             <=> \E x \in values : p \in Carriers(products, k, x)
<1>1. ASSUME HasOption(p, SpellingsIn(products, k), values)
      PROVE  \E x \in values : p \in Carriers(products, k, x)
  <2>1. PICK v \in VariantsOf(p) : \E m \in v.picks :
                m.name \in SpellingsIn(products, k) /\ m.value \in values
    BY <1>1 DEF HasOption
  <2>2. PICK m \in v.picks : m.name \in SpellingsIn(products, k) /\ m.value \in values
    BY <2>1
  <2>3. m.name \in Spellings /\ m = [name |-> m.name, value |-> m.value]
    BY <2>1, <2>2, PicksAreOptions
  <2>4. KeyOf[m.name] = k
    BY <2>2 DEF SpellingsIn
  <2> QED
    BY <2>1, <2>2, <2>3, <2>4 DEF Carriers
<1>2. ASSUME NEW x \in values, p \in Carriers(products, k, x)
      PROVE  HasOption(p, SpellingsIn(products, k), values)
  <2>0. PICK v \in VariantsOf(p), s \in Spellings :
            KeyOf[s] = k /\ [name |-> s, value |-> x] \in v.picks
    BY <1>2 DEF Carriers
  <2>1. PICK m \in v.picks : m = [name |-> s, value |-> x]
    BY <2>0
  <2>2. m \in shop[p].options /\ m.name = s /\ m.value = x
    BY <2>1, PicksAreOptions
  <2>3. s \in {o.name : o \in shop[p].options}
    BY <2>2
  <2>4. s \in UNION {{o.name : o \in shop[q].options} : q \in products}
    BY <2>3
  <2>5. s \in SpellingsIn(products, k)
    BY <2>0, <2>4 DEF SpellingsIn
  <2> QED
    BY <2>1, <2>2, <2>5 DEF HasOption
<1> QED
  BY <1>1, <1>2

\* The prices on sale, whose ends the slider has.
OnSale(scope) == {v.price : v \in {w \in UNION {VariantsOf(p) : p \in Scoped(scope)} : w.active}}

LEMMA PricesAreFinite ==
    ASSUME IsAssortment(shop), NEW scope
    PROVE  IsFiniteSet(OnSale(scope)) /\ \A x \in OnSale(scope) : x \in Int
<1> DEFINE rows == [p \in Scoped(scope) |-> VariantsOf(p)]
           all == Joined(rows, Scoped(scope))
           price == [v \in all |-> v.price]
           size == [p \in Scoped(scope) |-> Cardinality(rows[p])]
<1>1. IsFiniteSet(Scoped(scope))
  <2>1. Scoped(scope) \subseteq Products /\ IsFiniteSet(Products)
    BY DEF Scoped, IsAssortment, Products
  <2> QED
    BY <2>1, FS_Subset
<1>2. \A p \in Scoped(scope) : IsFiniteSet(rows[p])
  <2> SUFFICES ASSUME NEW p \in Scoped(scope) PROVE IsFiniteSet(VariantsOf(p))
    OBVIOUS
  <2>1. VariantsOf(p) = ImageOf(shop[p].variants, DOMAIN shop[p].variants)
    BY DEF VariantsOf, ImageOf
  <2>2. IsFiniteSet(DOMAIN shop[p].variants)
    BY DEF IsAssortment, Scoped, Products
  <2> QED
    BY <2>1, <2>2, FiniteImage
<1>3. IsFiniteSet(all)
  <2>1. \A p \in Scoped(scope) : size[p] = Cardinality(rows[p])
    OBVIOUS
  <2> HIDE DEF rows, size
  <2> QED
    BY <1>1, <1>2, <2>1, CountOfParts
<1>4. all = UNION {VariantsOf(p) : p \in Scoped(scope)}
  BY DEF Joined
<1>5. OnSale(scope) \subseteq ImageOf(price, all)
  <2> HIDE DEF all
  <2> QED
    BY <1>4 DEF OnSale, ImageOf
<1>6. IsFiniteSet(ImageOf(price, all))
  <2> HIDE DEF all, price
  <2> QED
    BY <1>3, FiniteImage
<1>7. \A p \in Products : \A v \in VariantsOf(p) : v.price \in Int
  BY DEF VariantsOf, IsAssortment, Products
<1>8. \A x \in OnSale(scope) : x \in Int
  BY <1>7 DEF OnSale, Scoped
<1> QED
  BY <1>5, <1>6, <1>8, FS_Subset

-----------------------------------------------------------------------------
(***************************************************************************)
(* The listing and the facets.                                             *)
(***************************************************************************)
LEMMA ListingIsFilter ==
    ASSUME IsAssortment(shop), NEW q, NEW scope, NEW inStock,
           IsShopperQuery(q, scope, inStock, AnyPrice),
           NEW chosen, NEW asked, BrandName \notin asked
    PROVE  Listing([q EXCEPT !.options = [k \in asked |-> chosen[k]]])
             = {p \in Narrowed(q) :
                   \A k \in asked : \E x \in chosen[k] : p \in Carriers(Narrowed(q), k, x)}
<1>1. PICK options : options = [k \in asked |-> chosen[k]]
  OBVIOUS
<1>2. PICK asking : asking = [q EXCEPT !.options = options]
  OBVIOUS
<1>3. IsShopperQuery(asking, scope, inStock, AnyPrice) /\ asking.options = options
  BY <1>2, QueryAsks
<1>4. PICK products : products = InScope(scope, inStock)
  OBVIOUS
<1>5. Narrowed(q) = products /\ Narrowed(asking) = products /\ products \in SUBSET Products
  BY <1>3, <1>4, ShopperNarrows DEF InScope
<1>6. Listing(asking) = {p \in products : \A k \in asked :
                            HasOption(p, SpellingsIn(products, k), chosen[k])}
  BY <1>1, <1>3, <1>5 DEF Listing
<1>7. ASSUME NEW p \in products, NEW k \in asked
      PROVE  HasOption(p, SpellingsIn(products, k), chosen[k])
               <=> \E x \in chosen[k] : p \in Carriers(products, k, x)
  BY <1>5, <1>7, OptionIsFound
<1>8. Listing(asking) = {p \in products : \A k \in asked :
                            \E x \in chosen[k] : p \in Carriers(products, k, x)}
  BY <1>6, <1>7
<1> QED
  BY <1>1, <1>2, <1>5, <1>8

LEMMA ListingMatches == IsAssortment(shop) => ListingMatchesFilters
<1> SUFFICES ASSUME IsAssortment(shop),
                    NEW scope \in Scopes, NEW inStock \in (SUBSET BOOLEAN) \ {{}},
                    NEW chosen \in [Keys \ {BrandName} -> SUBSET Values]
             PROVE  LET q == [ShopperQuery(scope) EXCEPT !.inStock = inStock]
                        asked == {k \in DOMAIN chosen : chosen[k] # {}}
                    IN  Listing([q EXCEPT !.options = [k \in asked |-> chosen[k]]])
                          = {p \in Narrowed(q) : \A k \in asked : \E x \in chosen[k] :
                                p \in Carriers(Narrowed(q), k, x)}
  BY DEF ListingMatchesFilters
<1>1. PICK q, asked : /\ q = [ShopperQuery(scope) EXCEPT !.inStock = inStock]
                      /\ asked = {k \in DOMAIN chosen : chosen[k] # {}}
  OBVIOUS
<1>2. IsShopperQuery(q, scope, inStock, AnyPrice)
  BY <1>1, QueryIs, QueryOfStock
<1>3. BrandName \notin asked
  BY <1>1
<1>4. Listing([q EXCEPT !.options = [k \in asked |-> chosen[k]]])
        = {p \in Narrowed(q) :
              \A k \in asked : \E x \in chosen[k] : p \in Carriers(Narrowed(q), k, x)}
  BY <1>2, <1>3, ListingIsFilter
<1> QED
  BY <1>1, <1>4

\* Nothing is listed beside the products in scope.
LEMMA ListsStock ==
    ASSUME NEW scope, NEW stock \in BOOLEAN
    PROVE  Listing([ShopperQuery(scope) EXCEPT !.inStock = {stock}])
             = {p \in Scoped(scope) : HasStock(p) = stock}
<1>1. PICK q : q = [ShopperQuery(scope) EXCEPT !.inStock = {stock}]
  OBVIOUS
<1>2. IsShopperQuery(q, scope, {stock}, AnyPrice) /\ DOMAIN q.options = {}
  BY <1>1, QueryIs, QueryOfStock, AsksNothing
<1>3. Listing(q) = InScope(scope, {stock})
  BY <1>2, ShopperNarrows DEF Listing
<1> QED
  BY <1>1, <1>3 DEF InScope, Scoped

LEMMA CountedAreListed ==
    ASSUME IsAssortment(shop), NEW scope, NEW label \in Facets(scope), NEW value
    PROVE  Counted(scope, label, value)
             \subseteq Listing([ShopperQuery(scope) EXCEPT
                                  !.options = [k \in {KeyOf[label]} |-> {value}]])
<1> SUFFICES ASSUME NEW p \in Counted(scope, label, value)
             PROVE  p \in Listing([ShopperQuery(scope) EXCEPT
                                     !.options = [k \in {KeyOf[label]} |-> {value}]])
  OBVIOUS
<1>1. PICK options : options = [k \in {KeyOf[label]} |-> {value}]
  OBVIOUS
<1>2. PICK q : q = [ShopperQuery(scope) EXCEPT !.options = options]
  OBVIOUS
<1>3. IsShopperQuery(q, scope, BOOLEAN, AnyPrice) /\ q.options = options
  BY <1>2, QueryIs, QueryAsks
<1>4. PICK products : products = Narrowed(q)
  OBVIOUS
<1>5. products = Scoped(scope) /\ products \in SUBSET Products
  <2>1. products = InScope(scope, BOOLEAN)
    BY <1>3, <1>4, ShopperNarrows
  <2>2. \A r \in Products : HasStock(r) \in BOOLEAN
    BY DEF HasStock
  <2> QED
    BY <2>1, <2>2 DEF InScope, Scoped
<1>6. label \in Spellings /\ KeyOf[label] # BrandName
  <2>1. PICK r \in Scoped(scope) : \E o \in shop[r].options : label = o.name
    BY DEF Facets, OptionRows
  <2>2. label \in Spellings
    BY <2>1 DEF IsAssortment, Scoped, Products
  <2>3. NameOf[label] # BrandName
    BY DEF Facets
  <2> QED
    BY <2>2, <2>3, SpellingsAssumption
<1>7. PICK v \in VariantsOf(p) : \E m \in v.picks : LowerOf[m.name] = LowerOf[label] /\ m.value = value
  BY DEF Counted
<1>8. PICK m \in v.picks : LowerOf[m.name] = LowerOf[label] /\ m.value = value
  BY <1>7
<1>9. p \in products
  BY <1>5 DEF Counted
<1>10. m.name \in Spellings /\ m = [name |-> m.name, value |-> m.value]
  BY <1>5, <1>8, <1>9, PicksAreOptions
<1>11. KeyOf[m.name] = KeyOf[label]
  BY <1>6, <1>8, <1>10, SpellingsAssumption
<1>12. HasOption(p, SpellingsIn(products, KeyOf[label]), {value})
  <2>1. p \in Carriers(products, KeyOf[label], value)
    BY <1>7, <1>8, <1>9, <1>10, <1>11 DEF Carriers
  <2>2. PICK k, values : k = KeyOf[label] /\ values = {value}
    OBVIOUS
  <2>3. HasOption(p, SpellingsIn(products, k), values)
    BY <1>5, <1>9, <2>1, <2>2, OptionIsFound
  <2> QED
    BY <2>2, <2>3
<1>13. p \in Listing(q)
  BY <1>1, <1>3, <1>4, <1>6, <1>9, <1>12 DEF Listing
<1> QED
  BY <1>1, <1>2, <1>13

LEMMA BrandsAreListed ==
    ASSUME NEW scope, NEW brand
    PROVE  BrandsCounted(scope, brand)
             = Listing([ShopperQuery(scope) EXCEPT !.options = [k \in {BrandName} |-> {brand}]])
<1>1. PICK options : options = [k \in {BrandName} |-> {brand}]
  OBVIOUS
<1>2. PICK q : q = [ShopperQuery(scope) EXCEPT !.options = options]
  OBVIOUS
<1>3. IsShopperQuery(q, scope, BOOLEAN, AnyPrice) /\ q.options = options
  BY <1>2, QueryIs, QueryAsks
<1>4. Narrowed(q) = Scoped(scope)
  <2>1. \A r \in Products : HasStock(r) \in BOOLEAN
    BY DEF HasStock
  <2> QED
    BY <1>3, <2>1, ShopperNarrows DEF InScope, Scoped
<1>5. Listing(q) = {p \in Scoped(scope) : shop[p].brand \in {brand}}
  BY <1>1, <1>3, <1>4 DEF Listing, HasBrand
<1> QED
  BY <1>1, <1>2, <1>5 DEF BrandsCounted

LEMMA SliderHidesNothing ==
    ASSUME IsAssortment(shop), NEW scope, NEW p \in Scoped(scope),
           NEW v \in VariantsOf(p), v.active
    PROVE  p \in Listing([ShopperQuery(scope) EXCEPT !.price = PriceFacet(scope)])
<1>1. PICK price, prices : price = PriceFacet(scope) /\ prices = OnSale(scope)
  OBVIOUS
<1>2. PICK q : q = [ShopperQuery(scope) EXCEPT !.price = price]
  OBVIOUS
<1>3. IsShopperQuery(q, scope, BOOLEAN, price) /\ DOMAIN q.options = {}
  BY <1>2, QueryIs, QueryOfPrice, AsksNothing
<1>4. v.price \in prices
  BY <1>1 DEF OnSale
<1>5. IsFiniteSet(prices) /\ \A x \in prices : x \in Int
  BY <1>1, PricesAreFinite
<1>6. price.min \in Int /\ price.max \in Int /\ price.min <= v.price /\ v.price <= price.max
      /\ v.price \in Int
  <2>1. price = [min |-> Min(prices), max |-> Max(prices)]
    BY <1>1, <1>4 DEF PriceFacet, OnSale
  <2>2. prices \in SUBSET Int
    BY <1>5
  <2> QED
    BY <1>4, <1>5, <2>1, <2>2, MinOf, MaxOf
<1>7. PriceAdmits(p, price)
  BY <1>6 DEF PriceAdmits
<1>8. HasStock(p) \in BOOLEAN /\ p \in Products /\ shop[p].category \in scope /\ Live(p) \in {TRUE}
  BY DEF HasStock, Scoped, Live
<1>9. p \in Narrowed(q)
  BY <1>3, <1>7, <1>8 DEF Narrowed, IsShopperQuery
<1> QED
  BY <1>1, <1>2, <1>3, <1>9 DEF Listing

LEMMA StockIsCounted ==
    ASSUME IsAssortment(shop), NEW scope
    PROVE  /\ InStockFacet(scope)
                = Cardinality(Listing([ShopperQuery(scope) EXCEPT !.inStock = {TRUE}]))
           /\ OutOfStockFacet(scope)
                = Cardinality(Listing([ShopperQuery(scope) EXCEPT !.inStock = {FALSE}]))
<1>1. PICK all, with, without :
          /\ all = Scoped(scope)
          /\ with = {p \in Scoped(scope) : HasStock(p) = TRUE}
          /\ without = {p \in Scoped(scope) : HasStock(p) = FALSE}
  OBVIOUS
<1>2. all = with \union without /\ with \intersect without = {} /\ with \subseteq all
  BY <1>1 DEF HasStock
<1>3. with = {p \in Scoped(scope) : \E v \in VariantsOf(p) : v.active /\ v.stock > 0}
  BY <1>1 DEF HasStock
<1>4. IsFiniteSet(all)
  <2>1. Scoped(scope) \subseteq Products /\ IsFiniteSet(Products)
    BY DEF Scoped, IsAssortment, Products
  <2> QED
    BY <1>1, <2>1, FS_Subset
<1>5. IsFiniteSet(with) /\ IsFiniteSet(without)
  BY <1>2, <1>4, FS_Subset
<1>6. /\ Cardinality(all) = Cardinality(with) + Cardinality(without) - Cardinality({})
      /\ Cardinality({}) = 0
  BY <1>2, <1>5, FS_Union, FS_EmptySet
<1>7. Cardinality(with) \in Nat /\ Cardinality(without) \in Nat
  BY <1>5, FS_CardinalityType
<1>8. /\ Listing([ShopperQuery(scope) EXCEPT !.inStock = {TRUE}]) = with
      /\ Listing([ShopperQuery(scope) EXCEPT !.inStock = {FALSE}]) = without
  BY <1>1, ListsStock
<1>9. InStockFacet(scope) = Cardinality(with)
  BY <1>3 DEF InStockFacet
<1>10. OutOfStockFacet(scope) = Cardinality(without)
  <2>1. OutOfStockFacet(scope) = Cardinality(all) - Cardinality(with)
    BY <1>1, <1>9 DEF OutOfStockFacet
  <2> QED
    BY <1>6, <1>7, <2>1
<1> QED
  BY <1>8, <1>9, <1>10

\* The semantics the filters document (filters.py:13) are what the listing finds,
\* and what the facets count and offer is what it lists (facet_service.py): for
\* any catalog that staff can make of the assortments, whatever the spellings.
THEOREM ShopperFindsWhatIsOffered == StorefrontSpec => []StorefrontAgrees
<1>1. ASSUME IsAssortment(shop) PROVE StorefrontAgrees
  <2>1. ListingMatchesFilters
    BY <1>1, ListingMatches
  <2>2. FacetsKeepTheirPromise
    BY <1>1, CountedAreListed, BrandsAreListed, StockIsCounted, SliderHidesNothing
    DEF FacetsKeepTheirPromise
  <2> QED
    BY <2>1, <2>2 DEF StorefrontAgrees
<1> QED
  BY <1>1, ShopIsAssortment, PTL
=============================================================================
