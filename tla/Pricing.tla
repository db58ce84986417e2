------------------------------ MODULE Pricing -------------------------------
(***************************************************************************)
(* What an order costs: the delivery quote of the checkout view, then the  *)
(* promotions, then tax and total in create_order_from_customer_cart.      *)
(***************************************************************************)
EXTENDS Promotions, DeliveryCharge

CONSTANTS Situations,    \* carts, campaigns, rules, addresses to price
          CodFee,
          TaxRate        \* GST, one rate for everything

ASSUME RatesAssumption == CodFee \in Nat /\ TaxRate \in Nat /\ Today \in Int

(* No cart line costs less than nothing: the engine raises on one.         *)
ASSUME SituationsAssumption ==
  \A s \in Situations :
    /\ s.cart \in Seq([price : Nat, quantity : Nat, weight : Int])
    /\ \A p \in Promos : IsCampaign(s.campaigns[p])
    /\ IsFiniteSet(DOMAIN s.rules) /\ DOMAIN s.rules \subseteq Nat
    /\ \A i \in DOMAIN s.rules : IsRule(s.rules[i], DOMAIN s.cart)

VARIABLES stage,         \* "quote", "promote", "placed" or "refused"
          order          \* the amounts written to the order and its items

inputs == <<cart, campaigns, rules, location>>
pricingVars == <<inputs, promotionVars, deliveryVars, stage, order>>

NoOrder == [items |-> <<>>, discount |-> 0, delivery |-> 0, fee |-> 0,
            total |-> 0]

PricingInit(situations) ==
  /\ \E s \in situations : /\ cart = s.cart
                           /\ campaigns = s.campaigns
                           /\ rules = s.rules
                           /\ location = s.location
  /\ PromotionsInit
  /\ DeliveryInit
  /\ stage = "quote"
  /\ order = NoOrder

RefuseAddress ==
  /\ stage = "quote"
  /\ ~Serviceable
  /\ stage' = "refused"
  /\ UNCHANGED <<inputs, promotionVars, deliveryVars, order>>

Quote ==
  /\ stage = "quote"
  /\ Serviceable
  /\ \/ DeliveryNext /\ UNCHANGED stage
     \/ DeliveryDone /\ stage' = "promote" /\ UNCHANGED deliveryVars
  /\ UNCHANGED <<inputs, promotionVars, order>>

Promote ==
  /\ stage = "promote"
  /\ PromotionsNext
  /\ UNCHANGED <<inputs, deliveryVars, stage, order>>

(* The discount of the whole cart, cut to the subtotal by the engine.      *)
TotalDiscount == Min({SumOver(Lines, LineDiscount), Subtotal})

ItemDiscount(l) == Min({LineDiscount(l), LineTotal(l)})

(* GST on what is left of the line.                                        *)
PricedItem(l) ==
  LET taxable == LineTotal(l) - ItemDiscount(l)
      tax     == RoundHalfUp(taxable * TaxRate, 10000)
  IN  [discount |-> ItemDiscount(l), tax |-> tax, total |-> taxable + tax]

(* Mutant: tax on the order as a whole instead of on each line.            *)
OrderTaxedAsOne(fee) ==
  LET items == [l \in Lines |-> PricedItem(l)]
      taxable == Subtotal - TotalDiscount
  IN  [items |-> items, discount |-> TotalDiscount,
       delivery |-> QuotedCharge, fee |-> fee,
       total |-> taxable + RoundHalfUp(taxable * TaxRate, 10000)
                   + QuotedCharge + fee]

OrderFor(fee) ==
  LET items == [l \in Lines |-> PricedItem(l)]
  IN  [items |-> items, discount |-> TotalDiscount,
       delivery |-> QuotedCharge, fee |-> fee,
       total |-> Subtotal + SumOver(Lines, LAMBDA l : items[l].tax)
                   + QuotedCharge + fee - TotalDiscount]

(* The checks before the order is written; each of them raises.            *)
AmountsAreValid(o) ==
  /\ 0 <= o.discount /\ o.discount <= Subtotal
  /\ SumOver(Lines, LAMBDA l : o.items[l].discount) = o.discount
  /\ o.total >= 0

ComputeTotals ==
  /\ stage = "promote"
  /\ PromotionsDone
  /\ \E fee \in {0, CodFee} :
       LET o == OrderFor(fee)
       IN  IF AmountsAreValid(o)
           THEN stage' = "placed" /\ order' = o
           ELSE stage' = "refused" /\ UNCHANGED order
  /\ UNCHANGED <<inputs, promotionVars, deliveryVars>>

PricingNext == RefuseAddress \/ Quote \/ Promote \/ ComputeTotals

PricingSpec == PricingInit(Situations) /\ [][PricingNext]_pricingVars

-----------------------------------------------------------------------------
(* max_discount_amount is the most a promotion takes off one order: over   *)
(* all its lines together it never gives more, whichever lines and other   *)
(* promotions came first.                                                  *)
CapRespected ==
  \A p \in Promos :
    campaigns[p].cap # NoCap =>
      SumOver(Lines, LAMBDA l : share[l][p]) <= campaigns[p].cap

(* On a line that is done, a promotion that does not stack is alone, and   *)
(* none of its kind that is applicable there outranks it.                  *)
WinnerTakesLine ==
  \A l \in Lines, p \in Promos :
    share[l][p] > 0 /\ (~campaigns[p].stackable
                          \/ \E q \in Candidates(l) : ~campaigns[q].stackable) =>
      /\ ~campaigns[p].stackable
      /\ \A q \in Promos \ {p} : share[l][q] = 0
      /\ \A q \in Candidates(l) \ {p} :
           campaigns[q].stackable \/ ~Outranks(q, p, l)

(* Nothing is withheld: where all applicable promotions stack, each one    *)
(* gives its full discount on a finished line unless its cap is used up or *)
(* the line costs nothing any more.                                        *)
NothingWithheld ==
  \A l \in Lines :
    l < line /\ (\A p \in Candidates(l) : campaigns[p].stackable) =>
      \A p \in Candidates(l) :
        \/ share[l][p] = RawDiscount(p, l)
        \/ LineDiscount(l) = LineTotal(l)
        \/ /\ campaigns[p].cap # NoCap
           /\ SumOver(1..l, LAMBDA k : share[k][p]) = campaigns[p].cap

(* Which promotions take a line, and that those which take it get all they *)
(* are entitled to.                                                        *)
LinesGoByRank == WinnerTakesLine /\ NothingWithheld

(* The locked semantics at the head of the delivery engine, in one formula *)
(* instead of a loop.  Valid rules have an active action and are no        *)
(* override with a discount; the rules up to the first free or stopping    *)
(* one count.  If that one is free the charge is nothing; else it is the   *)
(* largest sum of a tail of the charges since the last override, which is  *)
(* what adding and clamping at zero amounts to.                            *)
ValidRules ==
  {i \in DOMAIN rules :
     LET r == rules[i]
     IN  /\ r.zone = NoZone \/ r.zone = location.zone
         /\ (r.starts # Unset => Today >= r.starts)
         /\ (r.ends # Unset => Today <= r.ends)
         /\ r.scope # {}
         /\ \A c \in r.conditions : Holds(c, r)
         /\ Len(r.actions) > 0
         /\ ~(r.combine = "override" /\ HasAction(r, "discount"))}

CountedRules ==
  {i \in ValidRules :
     \A j \in ValidRules :
       ComesBefore(j, i) => ~(rules[j].stopAfter \/ HasAction(rules[j], "free_delivery"))}

ReferenceCharge ==
  LET since == {i \in CountedRules :
                  \A j \in CountedRules :
                    rules[j].combine = "override" => ~ComesBefore(i, j)}
      tail(i) == {j \in since : i = j \/ ComesBefore(i, j)}
      charge(i) == SumOver(tail(i), LAMBDA j : RuleCharge(rules[j]))
  IN  IF \E i \in CountedRules : HasAction(rules[i], "free_delivery") THEN 0
      ELSE Max({0} \union {charge(i) : i \in since})

(* When the loop has ended the running total is that charge: invalid and   *)
(* empty rules neither count nor stop the others, and free delivery is     *)
(* final.  What the customer is shown does not exceed it: the entries add  *)
(* up to at most the running total, up to half a paisa of rounding each.   *)
ChargeFollowsRules ==
  /\ stage = "promote" => running = ReferenceCharge
  /\ 2 * Exact * SumFunction(breakdown) <= 2 * running + Exact * Len(breakdown)

(* The total of an order is what its items, delivery and fee add up to,    *)
(* and no item costs less than nothing; so the checks of order creation    *)
(* stay idle, and no serviceable order is refused for its amounts.         *)
TotalIsSumOfParts ==
  /\ Serviceable => stage # "refused"
  /\ stage = "placed" =>
       /\ order.total = SumOver(Lines, LAMBDA l : order.items[l].total)
                          + order.delivery + order.fee
       /\ \A l \in Lines : order.items[l].total >= 0
=============================================================================
