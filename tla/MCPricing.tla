----------------------------- MODULE MCPricing ------------------------------
(***************************************************************************)
(* Situations for TLC: many promotions with one delivery rule, and many    *)
(* delivery rules with one promotion.                                      *)
(***************************************************************************)
EXTENDS Pricing

(* Prices that make percentages end in half a paisa, and a line for free.  *)
TwoLines == <<[price |-> 105, quantity |-> 1, weight |-> 1250],
              [price |-> 50, quantity |-> 3, weight |-> 100]>>
FreeLine == <<[price |-> 0, quantity |-> 1, weight |-> 100],
              [price |-> 255, quantity |-> 1, weight |-> 500]>>
ThreeLines == <<[price |-> 99, quantity |-> 2, weight |-> 0],
                [price |-> 10, quantity |-> 1, weight |-> 3000],
                [price |-> 45, quantity |-> 1, weight |-> 10]>>

On(target, lines) == [target |-> target, matches |-> lines]

Campaign(kind, value, cap, minimum, priority, stackable, targets) ==
  [kind |-> kind, value |-> value, cap |-> cap, minimum |-> minimum,
   active |-> TRUE, start |-> 0, end |-> Now + 1,
   priority |-> priority, stackable |-> stackable, rules |-> targets]

Everything == {On("ALL", 1..3)}
FirstLine == {On("VARIANT", {1}), On("ALL", {1})}
SecondBrand == {On("BRAND", {2}), On("CATEGORY", {1, 2})}
Tenth(cap, stackable) ==
  Campaign("PERCENTAGE", 1000, cap, 0, 0, stackable, Everything)
Off(value, cap, stackable) ==
  Campaign("FIXED_AMOUNT", value, cap, 0, 1, stackable, SecondBrand)

Campaigns ==
  {Tenth(NoCap, TRUE), Tenth(12, TRUE), Tenth(12, FALSE),
   Off(40, NoCap, TRUE), Off(40, 60, TRUE), Off(40, 60, FALSE),
   Campaign("PERCENTAGE", 10000, 150, 0, 1, TRUE, Everything),
   Campaign("PERCENTAGE", 3333, NoCap, 0, 2, FALSE, FirstLine),
   Campaign("FIXED_AMOUNT", 7, NoCap, 255, 0, FALSE, Everything),
   [Tenth(NoCap, FALSE) EXCEPT !.end = Now],
   [Tenth(NoCap, FALSE) EXCEPT !.start = Now, !.rules = FirstLine],
   [Tenth(NoCap, FALSE) EXCEPT !.active = FALSE]}

Action(type, mode, amount) == [type |-> type, mode |-> mode, amount |-> amount]
Base(mode, amount) == Action("base_charge", mode, amount)

Rule(combine, targets, scope, priority, stop, conditions, actions) ==
  [combine |-> combine, targets |-> targets, scope |-> scope,
   zone |-> NoZone, priority |-> priority, stopAfter |-> stop,
   starts |-> Unset, ends |-> Unset,
   conditions |-> conditions, actions |-> actions]

AddAll(stop, actions) == Rule("add", {}, 1..2, 0, stop, {}, actions)
When(field, op, value) == {[field |-> field, op |-> op, value |-> value]}

DeliveryRules ==
  {AddAll(FALSE, <<Base("fixed", 30)>>),
   AddAll(TRUE, <<>>),
   AddAll(TRUE, <<Base("per_kg", 10), Action("discount", "percentage", 500)>>),
   AddAll(FALSE, <<Action("discount", "fixed", 40)>>),
   [AddAll(FALSE, <<Base("percentage", 250), Base("percentage", 250)>>)
      EXCEPT !.scope = {1}, !.targets = {"category"}],
   Rule("override", {"product"}, {2}, 1, FALSE, {}, <<Base("per_unit", 9)>>),
   Rule("override", {"product"}, {2}, 0, TRUE, {},
        <<Base("fixed", 5), Action("discount", "fixed", 9)>>),
   Rule("add", {"variant"}, {1}, 0, FALSE, When("cart_value", "gte", {Text(255, 2)}),
        <<Action("free_delivery", "fixed", 0)>>),
   Rule("add", {"variant"}, {}, 0, TRUE, {}, <<Base("per_item", 1)>>),
   Rule("add", {}, {1, 2}, 2, FALSE, When("customer_type", "eq", {Malformed}),
        <<Action("free_delivery", "fixed", 0)>>),
   Rule("override", {}, {1, 2}, 3, FALSE,
        When("weight", "lte", {Text(1550, 2)})
          \union When("quantity", "in", {Malformed, Text(4, 0)}),
        <<Base("per_item", 50)>>),
   Rule("override", {}, {1, 2}, 3, TRUE, When("cart_value", "lte", {Malformed}),
        <<Base("per_item", 50)>>),
   [AddAll(TRUE, <<Action("surcharge", "fixed", 25)>>)
      EXCEPT !.zone = "hills", !.ends = Today],
   [AddAll(TRUE, <<Base("fixed", 8)>>) EXCEPT !.starts = Today + 1]}

PlainDelivery == <<AddAll(FALSE, <<Base("fixed", 30)>>)>>
Anywhere == [known |-> TRUE, zone |-> NoZone, zoneActive |-> TRUE]
Addresses == {Anywhere, [known |-> FALSE, zone |-> NoZone, zoneActive |-> TRUE],
              [known |-> TRUE, zone |-> "hills", zoneActive |-> TRUE],
              [known |-> TRUE, zone |-> "hills", zoneActive |-> FALSE]}

TenthOff == [p \in Promos |-> Tenth(12, TRUE)]

Situation(lines, promotions, deliveryRules, address) ==
  [cart |-> lines, campaigns |-> promotions, rules |-> deliveryRules,
   location |-> address]

\* Three rules at an address without a zone, two at the others.
MCSituations ==
  {Situation(c, ps, PlainDelivery, Anywhere) :
     c \in {TwoLines, FreeLine, ThreeLines}, ps \in [Promos -> Campaigns]}
  \union
  {Situation(TwoLines, TenthOff, <<r, s, t>>, Anywhere) :
     r \in DeliveryRules, s \in DeliveryRules, t \in DeliveryRules}
  \union
  {Situation(TwoLines, TenthOff, <<r, s>>, a) :
     r \in DeliveryRules, s \in DeliveryRules, a \in Addresses}
=============================================================================
