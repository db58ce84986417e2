----------------------------- MODULE MCServices -----------------------------
(***************************************************************************)
(* A small instance of every service: one customer, lead, conversation and *)
(* delivery rule, carts of at most one unit, two rows of an import that    *)
(* become one product, a product with two possible variants, a shop window *)
(* of two products; the prices are those of MCPricing.                     *)
(***************************************************************************)
EXTENDS Services, MCPricing

CONSTANTS r1, r2

RequestSymmetry == Permutations(Requests)

\* One key, which adds one unit.
EachAddsV == [k \in AddKeys |-> "v"]
EachAddsOne == [k \in AddKeys |-> 1]

\* Two rows of one product, which share a combination: one prices its finishes,
\* the other names its variants.
TwoFinishes ==
    [name |-> "tap", sku |-> "s1", variant |-> "", static |-> {"15mm"}, variants |-> {},
     prices |-> {"GD", "MB"}, finishes |-> {}, legacy |-> {"GD"}]
NamedVariants ==
    [TwoFinishes EXCEPT !.sku = "s2", !.prices = {}, !.legacy = {},
        !.variants = {[label |-> "MB", sku |-> "x"], [label |-> "RGD", sku |-> "y"]}]
MCRows == {"first", "second"}
MCEntry == [r \in MCRows |-> IF r = "first" THEN TwoFinishes ELSE NamedVariants]

\* A product with one variant, its only unit on the shelf.
Sizes == {"15mm", "20mm"}
SizeOnly == [c \in Sizes |-> "Size"]
OneVariant == [choices |-> {"15mm"},
               variants |-> ("a" :> [id |-> 1, stock |-> 1, values |-> {"15mm"}])]

\* One option in three spellings, another one, and one that is called as the brand.
MCSpellings == {"Air Delivery", "AIR  delivery", "air_delivery", "Finish", "Brand"}
MCLowerOf == [s \in MCSpellings |->
    CASE s = "Air Delivery"  -> "air delivery"
      [] s = "AIR  delivery" -> "air  delivery"
      [] s = "Finish"        -> "finish"
      [] s = "Brand"         -> "brand"
      [] OTHER               -> s]
MCNameOf == [s \in MCSpellings |-> IF s = "AIR  delivery" THEN "air delivery" ELSE MCLowerOf[s]]
MCKeyOf == [s \in MCSpellings |-> IF MCNameOf[s] = "air delivery" THEN "air_delivery" ELSE MCNameOf[s]]

Of(s, v) == [name |-> s, value |-> v]
Sold(price, picks) == [active |-> TRUE, stock |-> 1, price |-> price, picks |-> picks]
Shown(category, brand, options, sold) ==
    [active |-> TRUE, status |-> "published", category |-> category, brand |-> brand,
     options |-> options, variants |-> sold]

Fan == Shown("air", "acme",
    {Of("Air Delivery", "high"), Of("Air Delivery", "low"), Of("Finish", "low"),
     Of("Finish", "high")},
    << Sold(5, {Of("Air Delivery", "high"), Of("Finish", "low")}),
       Sold(20, {Of("Air Delivery", "low")}) >>)
Purifier(category, spelling) == Shown(category, "",
    {Of(spelling, "high"), Of("Brand", "high")},
    << Sold(10, {Of(spelling, "high"), Of("Brand", "high")}) >>)
MCAssortments ==
    {("fan" :> Fan @@ "purifier" :> Purifier(c, s)) :
        c \in {"air", "home"}, s \in MCSpellings \ {"Brand", "Finish"}}

MCNothingBought == Situation(<<>>, [p \in Promos |-> Tenth(NoCap, TRUE)], <<>>, Anywhere)

\* A product with one variant, looked at, put into a cart and ordered; the second
\* event occurs when a day begins.
KnobOf == [v \in Variety |-> "tap"]
MCTellings == BrowserTells({"product_viewed"}, {"tap"}, {"tap"}) \cup CartTells
              \cup CheckoutTells({"order"}) \cup LoginTells
MCClock == <<1, 2>>

\* No targeting field, one, and a product below its category.
MCTargetings == {{}, {"variant"}, {"product", "category"}}
=============================================================================
