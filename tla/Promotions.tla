----------------------------- MODULE Promotions -----------------------------
(***************************************************************************)
(* PromotionEngine.calculate: line after line in cart order, candidate     *)
(* after candidate in rank order.  A promotion's rules are kept as the     *)
(* kind of target and the cart lines it matches.                           *)
(***************************************************************************)
EXTENDS PricedCart

CONSTANTS Promos,        \* ids: natural numbers
          NoCap,         \* max_discount_amount is null
          Now            \* the time of the calculation

ASSUME PromosAssumption == Promos \subseteq Nat /\ IsFiniteSet(Promos)

VARIABLES campaigns,     \* the Promotion row of each id, with its rules
          line,          \* the line the outer loop is at
          selected,      \* candidates of that line the inner loop still has
          used,          \* promotion_discount_used
          share          \* what each promotion takes off each line

promotionVars == <<line, selected, used, share>>

Specificity == [ALL |-> 1, CATEGORY |-> 2, SUBCATEGORY |-> 3,
                BRAND |-> 4, PRODUCT |-> 5, VARIANT |-> 6]

(* What the columns of a promotion hold: its table admits no negative      *)
(* value and no negative cap.                                              *)
IsCampaign(c) ==
  /\ c.kind \in {"PERCENTAGE", "FIXED_AMOUNT"}
  /\ c.value \in Nat
  /\ c.cap \in Nat \union {NoCap}
  /\ c.priority \in Int
  /\ c.stackable \in BOOLEAN
  /\ \A r \in c.rules : r.target \in DOMAIN Specificity

IsActive(p) ==
  campaigns[p].active /\ campaigns[p].start <= Now /\ Now < campaigns[p].end

MeetsCartRequirement(p) == Subtotal >= campaigns[p].minimum

MatchingRules(p, l) == {r \in campaigns[p].rules : l \in r.matches}

(* The most specific matching rule decides how specific the promotion is.  *)
BestMatch(p, l) == Max({Specificity[r.target] : r \in MatchingRules(p, l)})

RawDiscount(p, l) ==
  LET c == campaigns[p]
      discount == IF c.kind = "PERCENTAGE"
                  THEN RoundHalfUp(LineTotal(l) * c.value, 10000)
                  ELSE c.value * cart[l].quantity
  IN  Min({discount, LineTotal(l)})

Candidates(l) ==
  {p \in Promos : /\ IsActive(p)
                  /\ MeetsCartRequirement(p)
                  /\ MatchingRules(p, l) # {}
                  /\ RawDiscount(p, l) > 0}

SortKey(p, l) ==
  <<BestMatch(p, l), campaigns[p].priority, RawDiscount(p, l), -p>>

Outranks(p, q, l) ==
  \E i \in 1..4 : /\ SortKey(p, l)[i] > SortKey(q, l)[i]
                  /\ \A j \in 1..(i - 1) : SortKey(p, l)[j] = SortKey(q, l)[j]

IsTop(p, group, l) == \A q \in group \ {p} : Outranks(p, q, l)

(* Mutant: the top candidate decides whether others may combine with it.   *)
SelectionByTop(l) ==
  LET all == Candidates(l)
      top == {p \in all : IsTop(p, all, l)}
  IN  IF \A p \in top : campaigns[p].stackable THEN all ELSE top

(* One candidate that does not stack drives out all others.                *)
Selection(l) ==
  LET all   == Candidates(l)
      alone == {p \in all : ~campaigns[p].stackable}
  IN  IF alone = {} THEN all ELSE {p \in alone : IsTop(p, alone, l)}

LineDiscount(l) == SumFunction(share[l])

Remaining(l) == LineTotal(l) - LineDiscount(l)

(* Mutant: the cap holds for each line, not for the cart.                  *)
GrantedPerLine(p, l) ==
  LET limits == {RawDiscount(p, l), Remaining(l)}
      cap    == campaigns[p].cap
  IN  Min(IF cap = NoCap THEN limits ELSE limits \union {cap})

(* The least of the raw discount, what is left of the promotion's cap and  *)
(* what is left of the line.                                               *)
Granted(p, l) ==
  LET limits == {RawDiscount(p, l), Remaining(l)}
      cap    == campaigns[p].cap
  IN  Max({0, Min(IF cap = NoCap THEN limits
                  ELSE limits \union {cap - used[p]})})

PromotionsInit ==
  /\ line = 0
  /\ selected = {}
  /\ used = [p \in Promos |-> 0]
  /\ share = [l \in Lines |-> [p \in Promos |-> 0]]

ToLine(l) ==
  /\ line' = l
  /\ selected' = IF l \in Lines THEN Selection(l) ELSE {}

StartPromotions == line = 0 /\ ToLine(1) /\ UNCHANGED <<used, share>>

ApplyCandidate(p) ==
  /\ p \in selected
  /\ IsTop(p, selected, line)
  /\ Remaining(line) > 0
  /\ selected' = selected \ {p}
  /\ used' = [used EXCEPT ![p] = @ + Granted(p, line)]
  /\ share' = [share EXCEPT ![line][p] = @ + Granted(p, line)]
  /\ UNCHANGED line

(* Mutant: an exhausted cap ends the inner loop, not just its own turn.    *)
FinishOnExhaustedCap ==
  /\ line \in Lines
  /\ \/ selected = {}
     \/ Remaining(line) <= 0
     \/ \E p \in selected : IsTop(p, selected, line) /\ Granted(p, line) = 0
  /\ ToLine(line + 1)
  /\ UNCHANGED <<used, share>>

(* The inner loop ends: no candidate is left, or nothing of the line is.   *)
FinishLine ==
  /\ line \in Lines
  /\ selected = {} \/ Remaining(line) <= 0
  /\ ToLine(line + 1)
  /\ UNCHANGED <<used, share>>

PromotionsDone == line = Len(cart) + 1

PromotionsNext ==
  \/ StartPromotions
  \/ \E p \in Promos : ApplyCandidate(p)
  \/ FinishLine
=============================================================================
