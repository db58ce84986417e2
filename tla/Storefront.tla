----------------------------- MODULE Storefront -----------------------------
(***************************************************************************)
(* What a shopper filters the catalog with: the facets that are offered,   *)
(* with a count for each value, and the listing that a filter then gives.  *)
(* Two modules compute them, with joins, normalisations and scopes of      *)
(* their own, over a catalog that staff keep changing.                     *)
(*                                                                         *)
(* An option row has the spelling its product was given. Spellings that    *)
(* differ in case alone agree on LowerOf, those that differ in white space *)
(* too on NameOf, and those with a "_" for a space on KeyOf.               *)
(***************************************************************************)
EXTENDS Integers, FiniteSets, FiniteSetsExt

CONSTANTS
    Spellings, LowerOf, NameOf, KeyOf,
    HiddenNames,     \* HIDDEN_OPTION_NAMES, by NameOf
    BrandName,       \* the NameOf, and the KeyOf, of "brand"
    Assortments      \* the catalogs to start from

ASSUME SpellingsAssumption ==
    /\ \A s, t \in Spellings : /\ LowerOf[s] = LowerOf[t] => NameOf[s] = NameOf[t]
                               /\ NameOf[s] = NameOf[t] => KeyOf[s] = KeyOf[t]
    /\ \A s \in Spellings : NameOf[s] = BrandName <=> KeyOf[s] = BrandName

\* What the tables can hold: a variant carries values of its own product.
IsAssortment(a) ==
    /\ IsFiniteSet(DOMAIN a)
    /\ \A p \in DOMAIN a :
          /\ DOMAIN a[p] = {"active", "status", "category", "brand", "options", "variants"}
          /\ a[p].active \in BOOLEAN
          /\ \A o \in a[p].options : o.name \in Spellings /\ o = [name |-> o.name, value |-> o.value]
          /\ IsFiniteSet(DOMAIN a[p].variants)
          /\ \A v \in DOMAIN a[p].variants :
                /\ DOMAIN a[p].variants[v] = {"active", "stock", "price", "picks"}
                /\ a[p].variants[v].active \in BOOLEAN /\ a[p].variants[v].price \in Int
                /\ a[p].variants[v].picks \subseteq a[p].options

ASSUME AssortmentsAssumption == \A a \in Assortments : IsAssortment(a)

VARIABLE shop   \* product -> [active, status, category, brand, options, variants],
                \* an option and a mapping of a variant are [name, value]

storefrontVars == <<shop>>

StorefrontInit(assortments) == shop \in assortments

Products == DOMAIN shop
VariantsOf(p) == {shop[p].variants[v] : v \in DOMAIN shop[p].variants}

-----------------------------------------------------------------------------
\* Staff put a product or a variant on and off, and stock comes and goes.
SetProduct(p, active, status) ==
    /\ shop' = [shop EXCEPT ![p].active = active, ![p].status = status]
    /\ shop' # shop

SetVariant(p, v, active, stock) ==
    /\ shop' = [shop EXCEPT ![p].variants[v].active = active, ![p].variants[v].stock = stock]
    /\ shop' # shop

StorefrontNext ==
    \E p \in Products :
        \/ \E active \in BOOLEAN, status \in {"published", "hidden"} : SetProduct(p, active, status)
        \/ \E v \in DOMAIN shop[p].variants, active \in BOOLEAN, stock \in 0 .. 1 :
              SetVariant(p, v, active, stock)

StorefrontSpec == StorefrontInit(Assortments) /\ [][StorefrontNext]_storefrontVars

-----------------------------------------------------------------------------
\* The listing. A query is [scope, live, inStock, price, options]: scope a set of
\* categories, live and inStock sets of the values admitted, price a range or
\* AnyPrice, options a function from keys to sets of values.
AnyPrice == [min |-> 0, max |-> 0]
NoQuery == [scope |-> {shop[p].category : p \in Products}, live |-> BOOLEAN, inStock |-> BOOLEAN,
            price |-> AnyPrice, options |-> [k \in {} |-> {}]]

Live(p) == shop[p].active /\ shop[p].status = "published"
HasStock(p) == \E v \in VariantsOf(p) : v.active /\ v.stock > 0

\* Each bound is a join of its own: the two may be met by different variants.
PriceAdmits(p, price) ==
    price = AnyPrice
    \/ /\ \E v \in VariantsOf(p) : v.price >= price.min
       /\ \E v \in VariantsOf(p) : v.price <= price.max

\* The declared filters, which run first.
Narrowed(q) ==
    {p \in Products : /\ shop[p].category \in q.scope
                      /\ Live(p) \in q.live
                      /\ HasStock(p) \in q.inStock
                      /\ PriceAdmits(p, q.price)}

\* _build_option_name_lookup: the spellings of a key among the narrowed products.
SpellingsIn(products, key) ==
    {s \in UNION {{o.name : o \in shop[p].options} : p \in products} : KeyOf[s] = key}

\* Mutation of HasOption: the name and the value are filtered one after the other.
HasNameAndValue(p, spellings, values) ==
    /\ \E v \in VariantsOf(p) : \E m \in v.picks : m.name \in spellings
    /\ \E v \in VariantsOf(p) : \E m \in v.picks : m.value \in values

\* The name and the value are met by one mapping of one variant.
HasOption(p, spellings, values) ==
    \E v \in VariantsOf(p) : \E m \in v.picks : m.name \in spellings /\ m.value \in values

HasBrand(p, values) == shop[p].brand \in values

\* Every option of the query narrows once more; a key that names none empties it.
Listing(q) ==
    LET products == Narrowed(q) IN
    {p \in products : \A k \in DOMAIN q.options :
        IF k = BrandName THEN HasBrand(p, q.options[k])
        ELSE HasOption(p, SpellingsIn(products, k), q.options[k])}

-----------------------------------------------------------------------------
\* The facets, over the products that are active and published.
Scoped(scope) == {p \in Products : Live(p) /\ shop[p].category \in scope}
OptionRows(scope) == UNION {shop[p].options : p \in Scoped(scope)}

\* One facet per name of the scope, labelled by any one of its spellings.
Facets(scope) ==
    {s \in {o.name : o \in OptionRows(scope)} : NameOf[s] \notin HiddenNames \cup {BrandName}}

\* Mutation of Counted: the products that define the value, not those that sell it.
Defining(scope, label, value) ==
    {p \in Scoped(scope) : \E o \in shop[p].options :
        LowerOf[o.name] = LowerOf[label] /\ o.value = value}

\* The products of the scope with an active variant that carries the value; the
\* rows are found by the label, whatever its case.
Counted(scope, label, value) ==
    {p \in Scoped(scope) : \E v \in VariantsOf(p) : v.active
        /\ \E m \in v.picks : LowerOf[m.name] = LowerOf[label] /\ m.value = value}

BrandsCounted(scope, brand) == {p \in Scoped(scope) : shop[p].brand = brand}

\* The range of the slider; with no active variant it is AnyPrice.
PriceFacet(scope) ==
    LET prices == {v.price : v \in {w \in UNION {VariantsOf(p) : p \in Scoped(scope)} : w.active}}
    IN IF prices = {} THEN AnyPrice ELSE [min |-> Min(prices), max |-> Max(prices)]

InStockFacet(scope) ==
    Cardinality({p \in Scoped(scope) : \E v \in VariantsOf(p) : v.active /\ v.stock > 0})
OutOfStockFacet(scope) == Cardinality(Scoped(scope)) - InStockFacet(scope)

-----------------------------------------------------------------------------
Scopes == (SUBSET {shop[p].category : p \in Products}) \ {{}}
Values == UNION {{o.value : o \in shop[p].options} : p \in Products}
Keys == {KeyOf[s] : s \in Spellings}
ShopperQuery(scope) == [NoQuery EXCEPT !.scope = scope, !.live = {TRUE}]

\* A facet keeps its promise: the key and value it sends list at least the
\* products it counts, which the listing finds by another normalisation, over
\* other joins; the brand and stock facets list exactly as many; and the slider
\* left at its ends hides no product that has a variant on sale.
FacetsKeepTheirPromise ==
    \A scope \in Scopes :
        LET q == ShopperQuery(scope) IN
        /\ \A label \in Facets(scope), value \in Values :
              Counted(scope, label, value)
                  \subseteq Listing([q EXCEPT !.options = [k \in {KeyOf[label]} |-> {value}]])
        /\ \A p \in Scoped(scope) :
              BrandsCounted(scope, shop[p].brand)
                  = Listing([q EXCEPT !.options = [k \in {BrandName} |-> {shop[p].brand}]])
        /\ InStockFacet(scope) = Cardinality(Listing([q EXCEPT !.inStock = {TRUE}]))
        /\ OutOfStockFacet(scope) = Cardinality(Listing([q EXCEPT !.inStock = {FALSE}]))
        /\ \A p \in Scoped(scope) : (\E v \in VariantsOf(p) : v.active)
              => p \in Listing([q EXCEPT !.price = PriceFacet(scope)])

\* The products with a variant that carries the value under a spelling of the key.
Carriers(products, k, x) ==
    {p \in products : \E v \in VariantsOf(p), s \in Spellings :
        KeyOf[s] = k /\ [name |-> s, value |-> x] \in v.picks}

\* The semantics the filters document (filters.py:13): the values of one key
\* widen, the keys narrow, and a key that is spelled in three ways, and looked up
\* among the products that the other filters leave, is still one key.
ListingMatchesFilters ==
    \A scope \in Scopes, inStock \in (SUBSET BOOLEAN) \ {{}},
       chosen \in [Keys \ {BrandName} -> SUBSET Values] :
        LET q == [ShopperQuery(scope) EXCEPT !.inStock = inStock]
            asked == {k \in DOMAIN chosen : chosen[k] # {}}
        IN  Listing([q EXCEPT !.options = [k \in asked |-> chosen[k]]])
              = {p \in Narrowed(q) :
                    \A k \in asked : \E x \in chosen[k] : p \in Carriers(Narrowed(q), k, x)}

\* What the listing finds, what the filters document and what the facets count
\* are one thing.
StorefrontAgrees == ListingMatchesFilters /\ FacetsKeepTheirPromise
=============================================================================
