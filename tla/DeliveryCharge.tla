--------------------------- MODULE DeliveryCharge ---------------------------
(***************************************************************************)
(* calculate_delivery: which rules apply to a cart and an address, and the *)
(* loop over them, broadest rule first.  A rule's targeting is kept as the *)
(* fields it sets and the cart lines they match; actions are the active    *)
(* ones.  Exact amounts are in ten-thousandths of a paisa, the unit in     *)
(* which every pricing mode yields an integer.                             *)
(***************************************************************************)
EXTENDS PricedCart

CONSTANTS NoZone,        \* rule or pincode without a zone
          Unset,         \* starts_at, ends_at or a fact is null
          Malformed,     \* a condition value that does not parse
          Today          \* the time of the calculation

VARIABLES rules,         \* active DeliveryRule rows in query order
          location,      \* the address: pincode known, its zone, zone active
          due,           \* applicable rules the loop still has
          running,       \* running_total, exact
          breakdown      \* amounts shown to the customer, in paise

deliveryVars == <<due, running, breakdown>>

Exact == 10000

Serviceable == location.known /\ (location.zone = NoZone \/ location.zoneActive)

InForce(r) ==
  /\ r.starts = Unset \/ r.starts <= Today
  /\ r.ends = Unset \/ r.ends >= Today

ForZone(r) == r.zone \in {NoZone, location.zone}

RuleSpecificity(r) ==
  Cardinality(r.targets) + (IF r.zone = NoZone THEN 0 ELSE 1)

Quantity(lines) == SumOver(lines, LAMBDA l : cart[l].quantity)
Weight(lines) == SumOver(lines, LAMBDA l : cart[l].weight * cart[l].quantity)
Value(lines) == SumOver(lines, LineTotal)

ActionTypes == {"base_charge", "surcharge", "discount", "free_delivery"}
PricingModes == {"fixed", "per_item", "per_unit", "per_kg", "percentage"}

(* What the columns of a rule hold; its scope is among the cart's lines.   *)
IsRule(r, lines) ==
  /\ r.combine \in {"add", "override"}
  /\ IsFiniteSet(r.targets)
  /\ r.scope \subseteq lines
  /\ r.priority \in Int
  /\ {r.starts, r.ends} \subseteq Int \union {Unset}
  /\ r.stopAfter \in BOOLEAN
  /\ r.actions \in Seq([type : ActionTypes, mode : PricingModes, amount : Nat])

(* Cart value and total quantity are facts of the cart, weight and         *)
(* quantity of the lines in the rule's scope.  No caller passes a customer *)
(* or shipping type.                                                       *)
Facts(r) ==
  [cart_value |-> Subtotal, total_quantity |-> Quantity(Lines),
   weight |-> Weight(r.scope), quantity |-> Quantity(r.scope),
   customer_type |-> Unset, shipping_type |-> Unset]

(* A condition's value is a text, or a list of them: a number and its      *)
(* decimals, or Malformed.  "in" looks for the text of the fact, an amount *)
(* with its two decimals and a count without any: 100 is not 100.00.       *)
Text(number, decimals) == [number |-> number, decimals |-> decimals]
Decimals(field) == IF field \in {"cart_value", "weight"} THEN 2 ELSE 0
Target(c) == (CHOOSE text \in c.value : TRUE).number

Holds(c, r) ==
  LET actual == Facts(r)[c.field]
  IN  /\ actual # Unset
      /\ IF c.op = "in" THEN Text(actual, Decimals(c.field)) \in c.value
         ELSE /\ Malformed \notin c.value
              /\ CASE c.op = "gt"  -> actual > Target(c)
                   [] c.op = "gte" -> actual >= Target(c)
                   [] c.op = "lt"  -> actual < Target(c)
                   [] c.op = "lte" -> actual <= Target(c)
                   [] c.op = "eq"  -> actual = Target(c)

(* Mutant: a rule without active actions takes part and may stop the rest. *)
AppliesEvenEmpty(r) ==
  /\ ForZone(r)
  /\ InForce(r)
  /\ r.scope # {}
  /\ \A c \in r.conditions : Holds(c, r)

Applies(r) ==
  /\ ForZone(r)
  /\ InForce(r)
  /\ r.actions # <<>>
  /\ r.scope # {}
  /\ \A c \in r.conditions : Holds(c, r)

(* Broadest first, then lowest priority, then the order of the query.      *)
RuleKey(i) == <<RuleSpecificity(rules[i]), rules[i].priority, i>>

ComesBefore(i, j) ==
  \E k \in 1..3 : /\ RuleKey(i)[k] < RuleKey(j)[k]
                  /\ \A m \in 1..(k - 1) : RuleKey(i)[m] = RuleKey(j)[m]

PriceAction(a, lines) ==
  [fixed      |-> a.amount * Exact,
   per_item   |-> a.amount * Cardinality(lines) * Exact,
   per_unit   |-> a.amount * Quantity(lines) * Exact,
   per_kg     |-> a.amount * Weight(lines) * (Exact \div 1000),
   percentage |-> a.amount * Value(lines)][a.mode]

ActionCharge(a, lines) ==
  CASE a.type = "discount"      -> -PriceAction(a, lines)
    [] a.type = "free_delivery" -> 0
    [] OTHER                    -> PriceAction(a, lines)

HasAction(r, type) == \E i \in DOMAIN r.actions : r.actions[i].type = type

IsInvalid(r) == r.combine = "override" /\ HasAction(r, "discount")
IsFree(r) == ~IsInvalid(r) /\ HasAction(r, "free_delivery")

RuleCharge(r) ==
  SumFunction([i \in DOMAIN r.actions |-> ActionCharge(r.actions[i], r.scope)])

RuleBreakdown(r) ==
  [i \in DOMAIN r.actions |->
     RoundHalfEven(ActionCharge(r.actions[i], r.scope), Exact)]

DeliveryInit ==
  /\ due = {i \in DOMAIN rules : Applies(rules[i])}
  /\ running = 0
  /\ breakdown = <<>>

IsDue(i) == i \in due /\ \A j \in due \ {i} : ComesBefore(i, j)

SkipInvalid(i) ==
  /\ IsDue(i)
  /\ IsInvalid(rules[i])
  /\ due' = due \ {i}
  /\ UNCHANGED <<running, breakdown>>

(* Free delivery ends the evaluation whatever stop_after says.             *)
DeliverFree(i) ==
  /\ IsDue(i)
  /\ IsFree(rules[i])
  /\ due' = {}
  /\ running' = 0
  /\ breakdown' = <<0>>

ChargeRule(i) ==
  LET r == rules[i]
      overrides == r.combine = "override"
  IN  /\ IsDue(i)
      /\ ~IsInvalid(r) /\ ~IsFree(r)
      /\ running' = Max({0, RuleCharge(r) + (IF overrides THEN 0 ELSE running)})
      /\ breakdown' = (IF overrides THEN <<>> ELSE breakdown) \o RuleBreakdown(r)
      /\ due' = IF r.stopAfter THEN {} ELSE due \ {i}

DeliveryDone == due = {}

QuotedCharge == RoundHalfEven(running, Exact)

DeliveryNext ==
  \E i \in DOMAIN rules : SkipInvalid(i) \/ DeliverFree(i) \/ ChargeRule(i)
=============================================================================
