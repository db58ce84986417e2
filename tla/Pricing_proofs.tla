--------------------------- MODULE Pricing_proofs ---------------------------
(***************************************************************************)
(* Proofs about Pricing for any cart, promotions, rules, addresses and     *)
(* rates that the tables can hold. The invariant follows the two loops. Of *)
(* the promotions it says, line by line, who has had a turn, that each of  *)
(* those has got all it could, and that what a promotion has given on all  *)
(* lines together is what its cap counts (Given, Turns). Of the delivery   *)
(* rules it says that the running total is the reference charge of the     *)
(* rules the loop has taken, and that what the rules still due will charge *)
(* is the reference charge of them all (Loop); and the entries shown add   *)
(* up to the running total, up to half a paisa each (Shown).               *)
(*                                                                         *)
(* That adding charges and clamping at zero after each one is taking the   *)
(* largest sum of a tail (OneMoreRule) is what makes the loop compute the  *)
(* reference. The order is then a sum of sums: the totals of its items are *)
(* rearranged into subtotal, tax and discount.                             *)
(***************************************************************************)
EXTENDS Pricing, SetLemmas

\* What is priced does not change, and is what the tables can hold.
Inputs ==
  /\ cart \in Seq([price : Nat, quantity : Nat, weight : Int])
  /\ \A p \in Promos : IsCampaign(campaigns[p])
  /\ IsFiniteSet(DOMAIN rules) /\ DOMAIN rules \subseteq Nat
  /\ \A i \in DOMAIN rules : IsRule(rules[i], Lines)

\* What a promotion takes off the cart, and off its first lines.
Taken(p) == SumOver(Lines, LAMBDA l : share[l][p])
TakenUpTo(l, p) == SumOver(1..l, LAMBDA k : share[k][p])

\* What the promotions have given so far: nothing beyond the line they are at,
\* no more than a line costs, no more than a cap allows, and used is the sum.
Given ==
  /\ line \in 0..(Len(cart) + 1)
  /\ used \in [Promos -> Nat]
  /\ share \in [Lines -> [Promos -> Nat]]
  /\ \A l \in Lines, p \in Promos : l > line => share[l][p] = 0
  /\ \A l \in Lines : LineDiscount(l) <= LineTotal(l)
  /\ \A p \in Promos :
       /\ used[p] = Taken(p)
       /\ campaigns[p].cap # NoCap => used[p] <= campaigns[p].cap

\* Which of a line's promotions have had their turn.
Served(l, p) == p \in Selection(l) /\ (l = line => p \notin selected)

\* A promotion whose turn was on line l got all it could.
IsFull(l, p) ==
  \/ share[l][p] = RawDiscount(p, l)
  \/ LineDiscount(l) = LineTotal(l)
  \/ /\ campaigns[p].cap # NoCap
     /\ TakenUpTo(l, p) = campaigns[p].cap

\* Only promotions that have had their turn have given anything, and each of
\* those is full; a line is left when it costs nothing or all have had theirs.
Turns ==
  /\ line \in Lines => selected \subseteq Selection(line)
  /\ line \notin Lines => selected = {}
  /\ \A l \in Lines, p \in Promos :
       l <= line =>
         /\ share[l][p] > 0 => Served(l, p)
         /\ Served(l, p) => IsFull(l, p)
  /\ \A l \in Lines : l < line =>
       \A p \in Selection(l) : IsFull(l, p)

\* What a set of rules charges: the reference, with any rules for the counted.
Since(D) == {i \in D : \A j \in D :
               rules[j].combine = "override" => ~ComesBefore(i, j)}
From(D, i) == {j \in Since(D) : i = j \/ ComesBefore(i, j)}
TailCharge(D, i) == SumOver(From(D, i), LAMBDA j : RuleCharge(rules[j]))
IsFreeRule(i) == HasAction(rules[i], "free_delivery")
ChargeOf(D) ==
  IF \E i \in D : IsFreeRule(i) THEN 0
  ELSE Max({0} \union {TailCharge(D, i) : i \in Since(D)})

EndsLoop(i) == rules[i].stopAfter \/ IsFreeRule(i)
Applicable == {i \in DOMAIN rules : Applies(rules[i])}

\* The loop over the delivery rules: those that have had their turn come before
\* those that have not, none of them has ended it while any is left, and what
\* it has added up is what the counted ones among them charge.
Loop ==
  /\ due \subseteq Applicable
  /\ \A i \in Applicable \ due, j \in due : ComesBefore(i, j)
  /\ due # {} => \A i \in ValidRules \ due : ~EndsLoop(i)
  /\ running \in Nat
  /\ \A D \in {CountedRules \ due} : running = ChargeOf(D)

\* What is shown to the customer is no more, up to its rounding.
Shown ==
  /\ breakdown \in Seq(Int)
  /\ 2 * Exact * SumFunction(breakdown) <= 2 * running + Exact * Len(breakdown)

\* What an order may cost is known before it is written.
Stages ==
  /\ stage \in {"quote", "promote", "placed", "refused"}
  /\ stage \in {"promote", "placed"} => Serviceable /\ due = {}
  /\ stage = "refused" => ~Serviceable

\* What a placed order charges is what its parts add up to.
AddsUpTo(o) ==
  /\ o.total = SumOver(Lines, LAMBDA l : o.items[l].total) + o.delivery + o.fee
  /\ \A l \in Lines : o.items[l].total >= 0

Placed == stage = "placed" => AddsUpTo(order)

AllInv == Inputs /\ Given /\ Turns /\ Loop /\ Shown /\ Stages /\ Placed

-----------------------------------------------------------------------------
\* Rounding keeps its sign: tax and percentages are not negative.
LEMMA RoundedIsNat ==
    ASSUME NEW n \in Nat
    PROVE  RoundHalfUp(n, 10000) \in Nat
BY DEF RoundHalfUp

\* Lines and their prices.
LEMMA LineTypes ==
    ASSUME Inputs
    PROVE  /\ Len(cart) \in Nat /\ Lines = 1..Len(cart) /\ IsFiniteSet(Lines)
           /\ \A l \in Lines : /\ cart[l].price \in Nat
                               /\ cart[l].quantity \in Nat
                               /\ cart[l].weight \in Int
                               /\ LineTotal(l) \in Nat
<1> DEFINE Line == [price : Nat, quantity : Nat, weight : Int]
<1>0. cart \in Seq(Line)
  BY DEF Inputs
<1>1. Len(cart) \in Nat /\ Lines = 1..Len(cart)
  BY <1>0 DEF Lines
<1>2. IsFiniteSet(Lines)
  BY <1>1, FS_Interval
<1>3. \A l \in Lines : cart[l] \in Line
  <2> HIDE DEF Line
  <2> QED
    BY <1>0, <1>1
<1>4. \A l \in Lines : LineTotal(l) \in Nat
  <2> SUFFICES ASSUME NEW l \in Lines PROVE LineTotal(l) \in Nat
    OBVIOUS
  <2>1. cart[l].price \in Nat /\ cart[l].quantity \in Nat
    BY <1>3
  <2> QED
    BY <2>1 DEF LineTotal
<1> QED
  BY <1>1, <1>2, <1>3, <1>4

\* A raw discount is an amount, and no more than the line costs.
LEMMA RawIsAmount ==
    ASSUME Inputs, NEW p \in Promos, NEW l \in Lines
    PROVE  RawDiscount(p, l) \in Nat /\ RawDiscount(p, l) <= LineTotal(l)
<1> DEFINE c == campaigns[p]
           raw == IF c.kind = "PERCENTAGE"
                  THEN RoundHalfUp(LineTotal(l) * c.value, 10000)
                  ELSE c.value * cart[l].quantity
<1>1. LineTotal(l) \in Nat /\ cart[l].quantity \in Nat /\ c.value \in Nat
  BY LineTypes DEF Inputs, IsCampaign
<1>2. raw \in Nat
  <2>1. LineTotal(l) * c.value \in Nat /\ c.value * cart[l].quantity \in Nat
    BY <1>1
  <2> QED
    BY <2>1, RoundedIsNat
<1>3. RawDiscount(p, l) = Min({raw, LineTotal(l)})
  BY DEF RawDiscount
<1> HIDE DEF raw
<1>4. Min({raw, LineTotal(l)}) = IF raw <= LineTotal(l) THEN raw ELSE LineTotal(l)
  BY <1>1, <1>2, MinOfTwo
<1> QED
  BY <1>1, <1>2, <1>3, <1>4

\* What is left of a line, and what a promotion is granted of it.
LEMMA LineSums ==
    ASSUME Inputs, Given, NEW l \in Lines
    PROVE  /\ LineDiscount(l) = SumFunctionOnSet(share[l], Promos)
           /\ LineDiscount(l) \in Nat
           /\ Remaining(l) \in Nat
           /\ \A p \in Promos : share[l][p] \in Nat
<1>1. share[l] \in [Promos -> Nat]
  BY DEF Given
<1>2. LineDiscount(l) = SumFunctionOnSet(share[l], Promos)
  BY <1>1 DEF LineDiscount, SumFunction
<1>3. LineDiscount(l) \in Nat
  BY <1>1, <1>2, SumInNat, PromosAssumption
<1>4. LineTotal(l) \in Nat /\ LineDiscount(l) <= LineTotal(l)
  BY LineTypes DEF Given
<1> QED
  BY <1>1, <1>2, <1>3, <1>4 DEF Remaining

LEMMA GrantIsLeast ==
    ASSUME Inputs, Given, NEW p \in Promos, NEW l \in Lines
    PROVE  LET room == campaigns[p].cap - used[p]
           IN  /\ Granted(p, l) \in Nat
               /\ Granted(p, l) <= Remaining(l)
               /\ campaigns[p].cap # NoCap => Granted(p, l) <= room
               /\ \/ Granted(p, l) = RawDiscount(p, l)
                  \/ Granted(p, l) = Remaining(l)
                  \/ campaigns[p].cap # NoCap /\ Granted(p, l) = room
<1> DEFINE raw == RawDiscount(p, l)
           left == Remaining(l)
           cap == campaigns[p].cap
           room == cap - used[p]
           limits == IF cap = NoCap THEN {raw, left} ELSE {raw, left} \union {room}
<1>1. raw \in Nat /\ left \in Nat
  BY RawIsAmount, LineSums
<1>2. used[p] \in Nat /\ (cap # NoCap => cap \in Nat /\ used[p] <= cap)
  BY DEF Given, Inputs, IsCampaign
<1>3. cap # NoCap => room \in Nat
  BY <1>2
<1>4. Granted(p, l) = Max({0, Min(limits)})
  BY DEF Granted
<1>5. \E n \in limits : n \in Nat /\ \A m \in limits : m \in Nat /\ n <= m
  <2>1. CASE cap = NoCap
    <3>1. limits = {raw, left}
      BY <2>1
    <3> HIDE DEF limits, raw, left
    <3> QED
      BY <1>1, <3>1
  <2>2. CASE cap # NoCap
    <3>1. limits = {raw, left, room} /\ room \in Nat
      BY <1>3, <2>2
    <3> HIDE DEF limits, raw, left, room
    <3> QED
      BY <1>1, <3>1
  <2> QED
    BY <2>1, <2>2
<1>6. PICK n \in limits : n \in Nat /\ \A m \in limits : m \in Nat /\ n <= m
  BY <1>5
<1>7. n = raw \/ n = left \/ (cap # NoCap /\ n = room)
  OBVIOUS
<1>8. n <= left /\ (cap # NoCap => n <= room)
  BY <1>6
<1> HIDE DEF limits, raw, left, room, cap
<1>9. Min(limits) = n
  BY <1>6, MinIsFirst
<1>10. Max({0, n}) = n
  BY <1>6, MaxIsLast
<1>11. Granted(p, l) = n
  BY <1>4, <1>9, <1>10
<1> QED
  BY <1>6, <1>7, <1>8, <1>11 DEF raw, left, room, cap

LEMMA TakenIsSum ==
    ASSUME NEW p
    PROVE  /\ Taken(p) = SumFunctionOnSet([l \in Lines |-> share[l][p]], Lines)
           /\ cart' = cart =>
                Taken(p)' = SumFunctionOnSet([l \in Lines |-> share'[l][p]], Lines)
<1>1. Taken(p) = SumFunctionOnSet([l \in Lines |-> share[l][p]], Lines)
  BY DEF Taken, SumOver
<1>2. ASSUME cart' = cart
      PROVE  Taken(p)' = SumFunctionOnSet([l \in Lines |-> share'[l][p]], Lines)
  BY <1>2 DEF Taken, SumOver, Lines
<1> QED
  BY <1>1, <1>2

\* A grant adds to one line and to one promotion, and to what it has used.
LEMMA ApplyKeepsGiven ==
    ASSUME Inputs, Given, NEW p \in Promos, NEW n \in Lines, n = line,
           ApplyCandidate(p), UNCHANGED inputs
    PROVE  /\ Given'
           /\ LineDiscount(n)' = LineDiscount(n) + Granted(p, n)
           /\ Taken(p)' = Taken(p) + Granted(p, n)
           /\ \A l \in Lines \ {n} : LineDiscount(l)' = LineDiscount(l)
<1>0. UNCHANGED <<cart, campaigns, line>> /\ Lines' = Lines
  BY DEF inputs, ApplyCandidate, Lines
<1>1. PICK g : g = Granted(p, n)
  OBVIOUS
<1>2. /\ g \in Nat /\ g <= Remaining(n)
      /\ campaigns[p].cap # NoCap => g <= campaigns[p].cap - used[p]
  BY <1>1, GrantIsLeast
<1>3. /\ share \in [Lines -> [Promos -> Nat]] /\ used \in [Promos -> Nat]
      /\ \A l \in Lines, q \in Promos : share[l][q] \in Nat
  BY DEF Given
<1>4. /\ used' = [used EXCEPT ![p] = used[p] + g]
      /\ share' = [share EXCEPT ![n] = [share[n] EXCEPT ![p] = share[n][p] + g]]
  BY <1>1, <1>3 DEF ApplyCandidate
<1>5. /\ share' \in [Lines -> [Promos -> Nat]]
      /\ used' \in [Promos -> Nat]
      /\ used'[p] = used[p] + g
      /\ \A q \in Promos \ {p} : used'[q] = used[q]
      /\ share'[n] = [share[n] EXCEPT ![p] = share[n][p] + g]
      /\ \A l \in Lines \ {n} : share'[l] = share[l]
  <2>1. used[p] + g \in Nat /\ share[n][p] + g \in Nat
    BY <1>2, <1>3
  <2>2. [share[n] EXCEPT ![p] = share[n][p] + g] \in [Promos -> Nat]
    BY <1>3, <2>1
  <2> QED
    BY <1>3, <1>4, <2>1, <2>2
<1>6. /\ share'[n][p] = share[n][p] + g
      /\ \A q \in Promos \ {p} : share'[n][q] = share[n][q]
      /\ \A l \in Lines, q \in Promos : share'[l][q] \in Nat
  BY <1>3, <1>5
<1>7. \A l \in Lines : LineDiscount(l)' = SumFunctionOnSet(share'[l], Promos)
  <2> SUFFICES ASSUME NEW l \in Lines
               PROVE  LineDiscount(l)' = SumFunctionOnSet(share'[l], Promos)
    OBVIOUS
  <2>1. DOMAIN (share'[l]) = Promos
    BY <1>5
  <2> QED
    BY <2>1 DEF LineDiscount, SumFunction
<1>8. \A l \in Lines : LineDiscount(l) = SumFunctionOnSet(share[l], Promos)
  BY LineSums
<1>9. LineDiscount(n)' = LineDiscount(n) + g
  <2>1. SumFunctionOnSet(share'[n], Promos)
          = SumFunctionOnSet(share[n], Promos) + share'[n][p] - share[n][p]
    BY <1>3, <1>6, SumChanges, PromosAssumption
  <2>2. SumFunctionOnSet(share[n], Promos) \in Nat
    BY <1>8, LineSums
  <2> QED
    BY <1>2, <1>3, <1>6, <1>7, <1>8, <2>1, <2>2
<1>10. \A l \in Lines \ {n} : LineDiscount(l)' = LineDiscount(l)
  BY <1>5, <1>7, <1>8
<1>11. \A l \in Lines : LineTotal(l)' = LineTotal(l)
  BY <1>0 DEF LineTotal
<1>12. \A l \in Lines : LineDiscount(l)' <= LineTotal(l)'
  <2>1. LineDiscount(n) + g <= LineTotal(n)
    BY <1>2, LineSums, LineTypes DEF Remaining
  <2>2. \A l \in Lines : LineDiscount(l) <= LineTotal(l)
    BY DEF Given
  <2> QED
    BY <1>9, <1>10, <1>11, <2>1, <2>2
<1>13. /\ Taken(p)' = Taken(p) + g
       /\ \A q \in Promos \ {p} : Taken(q)' = Taken(q)
  <2>1. IsFiniteSet(Lines)
    BY LineTypes
  <2>2. ASSUME NEW q \in Promos
        PROVE  /\ Taken(q) = SumFunctionOnSet([l \in Lines |-> share[l][q]], Lines)
               /\ Taken(q)' = SumFunctionOnSet([l \in Lines |-> share'[l][q]], Lines)
               /\ Taken(q) \in Int
    <3>1. \A l \in Lines : [k \in Lines |-> share[k][q]][l] \in Int
      BY <1>3
    <3>2. SumFunctionOnSet([l \in Lines |-> share[l][q]], Lines) \in Int
      BY <2>1, <3>1, SumInInt
    <3>3. /\ Taken(q) = SumFunctionOnSet([l \in Lines |-> share[l][q]], Lines)
          /\ Taken(q)' = SumFunctionOnSet([l \in Lines |-> share'[l][q]], Lines)
      BY <1>0, TakenIsSum
    <3> QED
      BY <3>2, <3>3
  <2>3. Taken(p)' = Taken(p) + g
    <3> DEFINE old == [l \in Lines |-> share[l][p]]
               new == [l \in Lines |-> share'[l][p]]
    <3>1. /\ \A l \in Lines : old[l] \in Int /\ new[l] \in Int
          /\ \A l \in Lines \ {n} : old[l] = new[l]
          /\ new[n] = old[n] + g
      BY <1>3, <1>5, <1>6
    <3>2. Taken(p) = SumFunctionOnSet(old, Lines) /\ Taken(p) \in Int
          /\ Taken(p)' = SumFunctionOnSet(new, Lines)
      BY <2>2
    <3> HIDE DEF old, new
    <3>3. SumFunctionOnSet(new, Lines) = SumFunctionOnSet(old, Lines) + new[n] - old[n]
      BY <2>1, <3>1, SumChanges
    <3> QED
      BY <1>2, <3>1, <3>2, <3>3
  <2>4. ASSUME NEW q \in Promos \ {p} PROVE Taken(q)' = Taken(q)
    <3> DEFINE old == [l \in Lines |-> share[l][q]]
               new == [l \in Lines |-> share'[l][q]]
    <3>1. \A l \in Lines : old[l] = new[l]
      BY <1>5, <1>6
    <3>2. Taken(q) = SumFunctionOnSet(old, Lines) /\ Taken(q)' = SumFunctionOnSet(new, Lines)
      BY <2>2
    <3> HIDE DEF old, new
    <3> QED
      BY <2>1, <3>1, <3>2, SumsEqual
  <2> QED
    BY <2>3, <2>4
<1>14. \A q \in Promos :
         /\ used'[q] = Taken(q)'
         /\ campaigns[q].cap # NoCap => used'[q] <= campaigns[q].cap
  <2>1. /\ \A q \in Promos : used[q] = Taken(q)
        /\ \A q \in Promos : campaigns[q].cap # NoCap => used[q] <= campaigns[q].cap
    BY DEF Given
  <2>2. campaigns[p].cap # NoCap => campaigns[p].cap \in Nat
    BY DEF Inputs, IsCampaign
  <2>3. campaigns[p].cap # NoCap => used[p] + g <= campaigns[p].cap
    BY <1>2, <1>3, <2>2
  <2> QED
    BY <1>5, <1>13, <2>1, <2>3
<1>15. \A l \in Lines, q \in Promos : l > line => share'[l][q] = 0
  <2>1. n \in Int /\ ~(n > line)
    BY LineTypes
  <2> QED
    BY <1>5, <2>1 DEF Given
<1>16. Given'
  <2>1. (line \in 0..(Len(cart) + 1))'
    BY <1>0 DEF Given
  <2> QED
    BY <1>0, <1>5, <1>12, <1>14, <1>15, <2>1 DEF Given
<1> QED
  BY <1>1, <1>9, <1>10, <1>13, <1>16

\* What a line's promotions are depends on the inputs only.
LEMMA SameInputs ==
    ASSUME UNCHANGED inputs
    PROVE  /\ Lines' = Lines /\ cart' = cart /\ campaigns' = campaigns
           /\ \A l : LineTotal(l)' = LineTotal(l)
           /\ \A l : Candidates(l)' = Candidates(l)
           /\ \A l : Selection(l)' = Selection(l)
           /\ \A p, l : RawDiscount(p, l)' = RawDiscount(p, l)
<1>1. cart' = cart /\ campaigns' = campaigns /\ Lines' = Lines
  BY DEF inputs, Lines
<1>2. \A l : LineTotal(l)' = LineTotal(l)
  BY <1>1 DEF LineTotal
<1>3. \A p, l : RawDiscount(p, l)' = RawDiscount(p, l)
  BY <1>1, <1>2 DEF RawDiscount
<1>4. \A p, l : MatchingRules(p, l)' = MatchingRules(p, l)
  BY <1>1 DEF MatchingRules
<1>5. Subtotal' = Subtotal
  BY <1>1 DEF Subtotal, SumOver, Lines, LineTotal
<1>6. \A l : Candidates(l)' = Candidates(l)
  <2>1. \A p : IsActive(p)' = IsActive(p) /\ MeetsCartRequirement(p)' = MeetsCartRequirement(p)
    BY <1>1, <1>5 DEF IsActive, MeetsCartRequirement
  <2> QED
    BY <1>3, <1>4, <2>1 DEF Candidates
<1>7. \A p, q, l : Outranks(p, q, l)' = Outranks(p, q, l)
  <2>1. \A p, l : SortKey(p, l)' = SortKey(p, l)
    BY <1>1, <1>3, <1>4 DEF SortKey, BestMatch
  <2> QED
    BY <2>1 DEF Outranks
<1>8. \A l : Selection(l)' = Selection(l)
  BY <1>1, <1>6, <1>7 DEF Selection, IsTop
<1> QED
  BY <1>1, <1>2, <1>3, <1>6, <1>8

\* As long as nothing is granted, only the line moves on.
LEMMA NothingGranted ==
    ASSUME Inputs, Given, UNCHANGED <<inputs, used, share>>,
           line' \in 0..(Len(cart) + 1), line <= line'
    PROVE  /\ Given'
           /\ \A l : LineDiscount(l)' = LineDiscount(l)
           /\ \A l, p : TakenUpTo(l, p)' = TakenUpTo(l, p)
           /\ \A l, p : IsFull(l, p)' <=> IsFull(l, p)
<1>1. /\ Lines' = Lines /\ cart' = cart /\ campaigns' = campaigns
      /\ share' = share /\ used' = used
  BY SameInputs
<1>2. \A l : LineDiscount(l)' = LineDiscount(l) /\ LineTotal(l)' = LineTotal(l)
  BY <1>1 DEF LineDiscount, LineTotal
<1>3. \A p : Taken(p)' = Taken(p)
  BY <1>1 DEF Taken, SumOver
<1>4. \A l, p : TakenUpTo(l, p)' = TakenUpTo(l, p)
  BY <1>1 DEF TakenUpTo, SumOver
<1>5. \A l, p : IsFull(l, p)' <=> IsFull(l, p)
  BY <1>1, <1>2, <1>4, SameInputs DEF IsFull
<1>6. \A l \in Lines, p \in Promos : l > line' => share[l][p] = 0
  <2>1. line \in Int /\ line' \in Int /\ Lines \subseteq Int
    BY LineTypes DEF Given
  <2>2. \A l \in Lines : l > line' => l > line
    BY <2>1
  <2> QED
    BY <2>2 DEF Given
<1>7. Given'
  <2>1. /\ used \in [Promos -> Nat]
        /\ share \in [Lines -> [Promos -> Nat]]
        /\ \A l \in Lines : LineDiscount(l) <= LineTotal(l)
        /\ \A p \in Promos :
             /\ used[p] = Taken(p)
             /\ campaigns[p].cap # NoCap => used[p] <= campaigns[p].cap
    BY DEF Given
  <2> QED
    BY <1>1, <1>2, <1>3, <1>6, <2>1 DEF Given
<1> QED
  BY <1>2, <1>4, <1>5, <1>7

\* When nothing is granted beyond line n, the first n lines have it all.
LEMMA AllIsUpToLine ==
    ASSUME NEW N \in Nat, NEW n \in 1..N, NEW row,
           \A l \in 1..N : row[l] \in Nat,
           \A l \in 1..N : l > n => row[l] = 0
    PROVE  SumFunctionOnSet([l \in 1..n |-> row[l]], 1..n)
             = SumFunctionOnSet([l \in 1..N |-> row[l]], 1..N)
<1> DEFINE few == [l \in 1..n |-> row[l]]
           all == [l \in 1..N |-> row[l]]
<1>1. IsFiniteSet(1..N) /\ IsFiniteSet(1..n) /\ 1..n \in SUBSET (1..N)
  BY FS_Interval
<1>2. /\ \A l \in 1..N : all[l] \in Int
      /\ \A l \in (1..N) \ (1..n) : all[l] = 0
      /\ \A l \in 1..n : few[l] = all[l]
  OBVIOUS
<1> HIDE DEF few, all
<1>3. SumFunctionOnSet(all, 1..N) = SumFunctionOnSet(all, 1..n)
  BY <1>1, <1>2, SumOnPart
<1>4. SumFunctionOnSet(few, 1..n) = SumFunctionOnSet(all, 1..n)
  BY <1>1, <1>2, SumsEqual
<1> QED
  BY <1>3, <1>4 DEF few, all

\* A promotion that takes its turn gets all it could.
LEMMA ApplyFills ==
    ASSUME Inputs, Given, Turns, NEW p \in Promos, NEW n \in Lines, n = line,
           ApplyCandidate(p), UNCHANGED inputs
    PROVE  IsFull(n, p)'
<1> DEFINE g == Granted(p, n)
           cap == campaigns[p].cap
<1>1. p \in selected /\ Remaining(n) > 0
  BY DEF ApplyCandidate
<1>2. share[n][p] = 0
  <2>1. n <= line /\ ~Served(n, p)
    BY <1>1, LineTypes DEF Served
  <2>2. ~(share[n][p] > 0)
    BY <2>1 DEF Turns
  <2> QED
    BY <2>2, LineSums
<1>3. share'[n][p] = g
  <2>1. share \in [Lines -> [Promos -> Nat]] /\ g \in Nat
    BY GrantIsLeast DEF Given
  <2>2. share'[n][p] = share[n][p] + g
    BY <2>1 DEF ApplyCandidate
  <2> QED
    BY <1>2, <2>1, <2>2
<1>4. /\ Given'
      /\ LineDiscount(n)' = LineDiscount(n) + g
      /\ Taken(p)' = Taken(p) + g
  BY ApplyKeepsGiven
<1>5. \/ g = RawDiscount(p, n)
      \/ g = Remaining(n)
      \/ cap # NoCap /\ g = cap - used[p]
  BY GrantIsLeast
<1>6. cart' = cart /\ campaigns' = campaigns /\ Lines' = Lines
      /\ LineTotal(n)' = LineTotal(n) /\ RawDiscount(p, n)' = RawDiscount(p, n)
  BY SameInputs
<1>7. CASE g = RawDiscount(p, n)
  BY <1>3, <1>6, <1>7 DEF IsFull
<1>8. CASE g = Remaining(n)
  <2>1. LineDiscount(n) \in Nat /\ LineTotal(n) \in Nat
    BY LineSums, LineTypes
  <2>2. LineDiscount(n)' = LineTotal(n)
    BY <1>4, <1>8, <2>1 DEF Remaining
  <2> QED
    BY <1>6, <2>2 DEF IsFull
<1>9. CASE cap # NoCap /\ g = cap - used[p]
  <2>1. Taken(p)' = cap
    <3>1. used[p] = Taken(p) /\ used[p] \in Nat /\ cap \in Nat
      BY <1>9 DEF Given, Inputs, IsCampaign
    <3> QED
      BY <1>4, <1>9, <3>1
  <2>2. TakenUpTo(n, p)' = Taken(p)'
    <3> DEFINE row == [l \in Lines |-> share'[l][p]]
    <3>1. Len(cart) \in Nat /\ Lines = 1..Len(cart)
      BY LineTypes
    <3>2. /\ share' \in [Lines -> [Promos -> Nat]]
          /\ \A l \in Lines : l > n => share'[l][p] = 0
      <4>1. line' = n
        BY DEF ApplyCandidate
      <4> QED
        BY <1>4, <1>6, <4>1 DEF Given
    <3>3. /\ \A l \in 1..Len(cart) : row[l] \in Nat
          /\ \A l \in 1..Len(cart) : l > n => row[l] = 0
      BY <3>1, <3>2
    <3>4. /\ [l \in 1..n |-> row[l]] = [l \in 1..n |-> share'[l][p]]
          /\ [l \in Lines |-> row[l]] = [l \in Lines |-> share'[l][p]]
      <4>1. \A l \in 1..n : l \in Lines
        BY <3>1
      <4> QED
        BY <4>1
    <3>5. Taken(p)' = SumFunctionOnSet([l \in Lines |-> share'[l][p]], Lines)
      BY <1>6, TakenIsSum
    <3>6. TakenUpTo(n, p)' = SumFunctionOnSet([l \in 1..n |-> share'[l][p]], 1..n)
      BY DEF TakenUpTo, SumOver
    <3> HIDE DEF row
    <3>7. SumFunctionOnSet([l \in 1..n |-> row[l]], 1..n)
            = SumFunctionOnSet([l \in 1..Len(cart) |-> row[l]], 1..Len(cart))
      BY <3>1, <3>3, AllIsUpToLine
    <3> QED
      BY <3>1, <3>4, <3>5, <3>6, <3>7
  <2> QED
    BY <1>6, <1>9, <2>1, <2>2 DEF IsFull
<1> QED
  BY <1>5, <1>7, <1>8, <1>9

\* What the others have got on this line and on those before stays as it was.
LEMMA ApplyKeepsOthers ==
    ASSUME Inputs, Given, NEW p \in Promos, NEW n \in Lines, n = line,
           ApplyCandidate(p), UNCHANGED inputs,
           NEW l \in Lines, l <= n, NEW q \in Promos, l # n \/ q # p
    PROVE  /\ share'[l][q] = share[l][q]
           /\ IsFull(l, q) => IsFull(l, q)'
<1>1. Len(cart) \in Nat /\ Lines = 1..Len(cart) /\ Remaining(n) > 0
  BY LineTypes DEF ApplyCandidate
<1>2. cart' = cart /\ campaigns' = campaigns /\ Lines' = Lines
      /\ LineTotal(l)' = LineTotal(l) /\ RawDiscount(q, l)' = RawDiscount(q, l)
  BY SameInputs
<1>3. /\ share \in [Lines -> [Promos -> Nat]]
      /\ share' = [share EXCEPT ![n][p] = @ + Granted(p, n)]
  BY DEF Given, ApplyCandidate
<1>4. \A k \in Lines, r \in Promos : k # n \/ r # p => share'[k][r] = share[k][r]
  BY <1>3
<1>5. \A k \in 1..l : k \in Lines /\ (k # n \/ q # p)
  <2>1. l \in 1..Len(cart) /\ n \in 1..Len(cart) /\ (l # n \/ q # p)
    BY <1>1
  <2>2. \A k \in 1..l : k \in 1..Len(cart) /\ (k = n => l = n)
    BY <1>1, <2>1
  <2> QED
    BY <1>1, <2>1, <2>2
<1>6. TakenUpTo(l, q)' = TakenUpTo(l, q)
  <2>1. [k \in 1..l |-> share'[k][q]] = [k \in 1..l |-> share[k][q]]
    BY <1>4, <1>5
  <2> QED
    BY <2>1 DEF TakenUpTo, SumOver
<1>7. LineDiscount(l) = LineTotal(l) => LineDiscount(l)' = LineTotal(l)
  <2>1. CASE l = n
    BY <1>1, <2>1, LineTypes, LineSums DEF Remaining
  <2>2. CASE l # n
    BY <2>2, ApplyKeepsGiven
  <2> QED
    BY <2>1, <2>2
<1>8. share'[l][q] = share[l][q]
  BY <1>4
<1> QED
  BY <1>2, <1>6, <1>7, <1>8 DEF IsFull

LEMMA ApplyKeepsTurns ==
    ASSUME Inputs, Given, Turns, NEW p \in Promos, ApplyCandidate(p), UNCHANGED inputs
    PROVE  Given' /\ Turns'
<1>1. p \in selected /\ line' = line /\ selected' = selected \ {p}
  BY DEF ApplyCandidate
<1>2. line \in Lines /\ selected \subseteq Selection(line)
  BY <1>1 DEF Turns
<1>3. PICK n \in Lines : n = line
  BY <1>2
<1>4. Lines' = Lines /\ \A l : Selection(l)' = Selection(l)
  BY SameInputs
<1>5. Given'
  BY <1>3, ApplyKeepsGiven
<1>6. line' = n /\ selected' \subseteq Selection(n) /\ p \in Selection(n)
  BY <1>1, <1>2, <1>3
<1>7. /\ (line \in Lines => selected \subseteq Selection(line))'
      /\ (line \notin Lines => selected = {})'
  BY <1>3, <1>4, <1>6
<1>8. \A l \in Lines, q \in Promos :
        Served(l, q)' <=> Served(l, q) \/ (l = n /\ q = p)
  BY <1>1, <1>3, <1>4, <1>6 DEF Served
<1>9. \A l \in Lines, q \in Promos :
        l <= n => /\ share'[l][q] > 0 => Served(l, q)'
                  /\ Served(l, q)' => IsFull(l, q)'
  <2> SUFFICES ASSUME NEW l \in Lines, NEW q \in Promos, l <= n
               PROVE  /\ share'[l][q] > 0 => Served(l, q)'
                      /\ Served(l, q)' => IsFull(l, q)'
    OBVIOUS
  <2>1. CASE l = n /\ q = p
    <3>1. IsFull(n, p)'
      BY <1>3, ApplyFills
    <3> QED
      BY <1>8, <2>1, <3>1
  <2>2. CASE l # n \/ q # p
    <3>1. /\ share[l][q] > 0 => Served(l, q)
          /\ Served(l, q) => IsFull(l, q)
      BY <1>3 DEF Turns
    <3>2. /\ share'[l][q] = share[l][q]
          /\ IsFull(l, q) => IsFull(l, q)'
      BY <1>3, <2>2, ApplyKeepsOthers
    <3> QED
      BY <1>8, <2>2, <3>1, <3>2
  <2> QED
    BY <2>1, <2>2
<1>10. \A l \in Lines : l < n => \A q \in Selection(l) : IsFull(l, q)'
  <2> SUFFICES ASSUME NEW l \in Lines, l < n, NEW q \in Selection(l)
               PROVE  IsFull(l, q)'
    OBVIOUS
  <2>1. q \in Promos
    BY DEF Selection, Candidates
  <2>2. IsFull(l, q)
    BY <1>3 DEF Turns
  <2>3. l <= n /\ l # n
    BY LineTypes
  <2> QED
    BY <1>3, <2>1, <2>2, <2>3, ApplyKeepsOthers
<1> QED
  BY <1>4, <1>5, <1>6, <1>7, <1>9, <1>10 DEF Turns

\* When the outer loop moves on, everyone of the line has had a turn.
LEMMA MoveKeepsTurns ==
    ASSUME Inputs, Given, Turns, UNCHANGED <<inputs, used, share>>,
           line' = line + 1, line \in 0..Len(cart), ToLine(line + 1),
           line \in Lines => selected = {} \/ Remaining(line) <= 0
    PROVE  Given' /\ Turns'
<1>1. Len(cart) \in Nat /\ Lines = 1..Len(cart)
  BY LineTypes
<1>2. PICK n : n = line
  OBVIOUS
<1>3. n \in 0..Len(cart) /\ line' = n + 1
  BY <1>2
<1>4. line' \in 0..(Len(cart) + 1) /\ line <= line'
  BY <1>1, <1>2, <1>3
<1>5. /\ Given'
      /\ \A l, p : IsFull(l, p)' <=> IsFull(l, p)
  BY <1>4, NothingGranted
<1>6. Lines' = Lines /\ share' = share /\ \A l : Selection(l)' = Selection(l)
  BY SameInputs
<1>7. selected' = IF n + 1 \in Lines THEN Selection(n + 1) ELSE {}
  BY <1>2 DEF ToLine
<1>8. \A l \in Lines, q \in Promos : l <= n =>
        /\ share[l][q] > 0 => q \in Selection(l)
        /\ q \in Selection(l) => IsFull(l, q)
  <2> SUFFICES ASSUME NEW l \in Lines, NEW q \in Promos, l <= n
               PROVE  /\ share[l][q] > 0 => q \in Selection(l)
                      /\ q \in Selection(l) => IsFull(l, q)
    OBVIOUS
  <2>1. /\ share[l][q] > 0 => Served(l, q)
        /\ Served(l, q) => IsFull(l, q)
    BY <1>2 DEF Turns
  <2>2. CASE l < n
    BY <1>2, <2>1, <2>2 DEF Turns, Served
  <2>3. CASE l = n
    <3>1. CASE selected = {}
      BY <2>1, <3>1 DEF Served
    <3>2. CASE Remaining(n) <= 0
      <4>1. LineDiscount(n) \in Nat /\ LineTotal(n) \in Nat /\ LineDiscount(n) <= LineTotal(n)
        BY <2>3, LineTypes, LineSums DEF Given
      <4>2. LineDiscount(n) = LineTotal(n)
        BY <3>2, <4>1 DEF Remaining
      <4> QED
        BY <2>1, <2>3, <4>2 DEF Served, IsFull
    <3> QED
      BY <1>2, <2>3, <3>1, <3>2
  <2> QED
    BY <1>1, <1>3, <2>2, <2>3
<1>9. \A q \in Promos : n + 1 \in Lines => share[n + 1][q] = 0
  BY <1>1, <1>2, <1>3 DEF Given
<1>10. \A l \in Lines : l <= n + 1 => l <= n \/ l = n + 1
  BY <1>1, <1>3
<1>11. \A l \in Lines : l < n + 1 => l <= n
  BY <1>1, <1>3
<1>12. \A l \in Lines, q \in Promos : l <= n + 1 =>
         /\ share[l][q] > 0 => Served(l, q)'
         /\ Served(l, q)' => IsFull(l, q)
  <2> SUFFICES ASSUME NEW l \in Lines, NEW q \in Promos, l <= n + 1
               PROVE  /\ share[l][q] > 0 => Served(l, q)'
                      /\ Served(l, q)' => IsFull(l, q)
    OBVIOUS
  <2>1. Served(l, q)' <=> q \in Selection(l) /\ (l = n + 1 => q \notin selected')
    BY <1>3, <1>6 DEF Served
  <2>2. CASE l = n + 1
    <3>1. ~(share[l][q] > 0)
      BY <1>9, <2>2
    <3> QED
      BY <1>7, <2>1, <2>2, <3>1
  <2>3. CASE l # n + 1
    BY <1>8, <1>10, <2>1, <2>3
  <2> QED
    BY <2>2, <2>3
<1>13. \A l \in Lines : l < n + 1 => \A q \in Selection(l) : IsFull(l, q)
  <2>1. \A l, q : q \in Selection(l) => q \in Promos
    BY DEF Selection, Candidates
  <2> QED
    BY <1>8, <1>11, <2>1
<1>14. /\ (line \in Lines => selected \subseteq Selection(line))'
       /\ (line \notin Lines => selected = {})'
  BY <1>3, <1>6, <1>7
<1> QED
  BY <1>3, <1>5, <1>6, <1>12, <1>13, <1>14 DEF Turns

\* Every step of the promotions keeps what they have given in order.
LEMMA PromotionsKeepTurns ==
    ASSUME Inputs, Given, Turns, PromotionsNext, UNCHANGED inputs
    PROVE  Given' /\ Turns'
<1>1. Len(cart) \in Nat /\ Lines = 1..Len(cart)
  BY LineTypes
<1>2. CASE StartPromotions
  <2>1. /\ line' = line + 1 /\ line \in 0..Len(cart) /\ ToLine(line + 1)
        /\ line \notin Lines /\ UNCHANGED <<used, share>>
    BY <1>1, <1>2 DEF StartPromotions, ToLine
  <2> QED
    BY <2>1, MoveKeepsTurns
<1>3. CASE FinishLine
  <2>1. /\ line' = line + 1 /\ line \in 0..Len(cart) /\ ToLine(line + 1)
        /\ selected = {} \/ Remaining(line) <= 0
        /\ UNCHANGED <<used, share>>
    BY <1>1, <1>3 DEF FinishLine, ToLine
  <2> QED
    BY <2>1, MoveKeepsTurns
<1>4. ASSUME NEW p \in Promos, ApplyCandidate(p) PROVE Given' /\ Turns'
  BY <1>4, ApplyKeepsTurns
<1> QED
  BY <1>2, <1>3, <1>4 DEF PromotionsNext

\* The keys that rank two candidates are comparable, so of two candidates at
\* most one outranks the other.
LEMMA KeysAreNumbers ==
    ASSUME Inputs, NEW l \in Lines, NEW p \in Candidates(l)
    PROVE  \A i \in 1..4 : SortKey(p, l)[i] \in Int
<1>1. p \in Promos /\ MatchingRules(p, l) # {}
  BY DEF Candidates
<1>2. BestMatch(p, l) \in Int
  <2> DEFINE S == {Specificity[r.target] : r \in MatchingRules(p, l)}
  <2>1. \A r \in MatchingRules(p, l) : r.target \in DOMAIN Specificity
    BY <1>1 DEF MatchingRules, Inputs, IsCampaign
  <2>2. \A t \in DOMAIN Specificity : Specificity[t] \in 1..6
    BY DEF Specificity
  <2>3. S \subseteq 1..6 /\ S # {}
    BY <1>1, <2>1, <2>2
  <2>5. BestMatch(p, l) = Max(S)
    BY DEF BestMatch
  <2> HIDE DEF S
  <2>4. IsFiniteSet(S) /\ S \in SUBSET Int
    <3>1. PICK n \in Nat : n = 6
      OBVIOUS
    <3>2. S \in SUBSET (1..n)
      BY <2>3, <3>1
    <3>4. IsFiniteSet(1..n)
      BY FS_Interval
    <3>3. IsFiniteSet(S)
      BY <3>2, <3>4, FS_Subset
    <3> QED
      BY <3>2, <3>3
  <2>6. Max(S) \in S
    BY <2>3, <2>4, MaxOf
  <2> QED
    BY <2>4, <2>5, <2>6
<1>3. campaigns[p].priority \in Int /\ RawDiscount(p, l) \in Int /\ -p \in Int
  BY <1>1, RawIsAmount, PromosAssumption DEF Inputs, IsCampaign
<1> QED
  BY <1>2, <1>3 DEF SortKey

LEMMA NotBothOutrank ==
    ASSUME Inputs, NEW l \in Lines, NEW p \in Candidates(l), NEW q \in Candidates(l)
    PROVE  ~(Outranks(p, q, l) /\ Outranks(q, p, l))
<1> SUFFICES ASSUME Outranks(p, q, l), Outranks(q, p, l) PROVE FALSE
  OBVIOUS
<1> DEFINE f == SortKey(p, l)
           g == SortKey(q, l)
<1>1. \A i \in 1..4 : f[i] \in Int /\ g[i] \in Int
  BY KeysAreNumbers
<1>2. PICK i \in 1..4 : f[i] > g[i] /\ \A k \in 1..(i - 1) : f[k] = g[k]
  BY DEF Outranks
<1>3. PICK j \in 1..4 : g[j] > f[j] /\ \A k \in 1..(j - 1) : g[k] = f[k]
  BY DEF Outranks
<1> HIDE DEF f, g
<1>4. CASE i < j
  <2>1. i \in 1..(j - 1)
    BY <1>4
  <2> QED
    BY <1>1, <1>2, <1>3, <2>1
<1>5. CASE j < i
  <2>1. j \in 1..(i - 1)
    BY <1>5
  <2> QED
    BY <1>1, <1>2, <1>3, <2>1
<1>6. CASE i = j
  BY <1>1, <1>2, <1>3, <1>6
<1> QED
  BY <1>4, <1>5, <1>6

\* The turns are what the promises about a line say.
LEMMA TurnsGoByRank ==
    ASSUME Inputs, Given, Turns
    PROVE  LinesGoByRank
<1>1. \A l \in Lines : line \in Int /\ l \in Int
  BY LineTypes DEF Given
<1>2. \A l \in Lines, p \in Promos : share[l][p] > 0 => p \in Selection(l)
  <2> SUFFICES ASSUME NEW l \in Lines, NEW p \in Promos, share[l][p] > 0
               PROVE  p \in Selection(l)
    OBVIOUS
  <2>1. l <= line
    BY <1>1 DEF Given
  <2> QED
    BY <2>1 DEF Turns, Served
<1>3. WinnerTakesLine
  <2> SUFFICES ASSUME NEW l \in Lines, NEW p \in Promos, share[l][p] > 0,
                      ~campaigns[p].stackable
                        \/ \E q \in Candidates(l) : ~campaigns[q].stackable
               PROVE  /\ ~campaigns[p].stackable
                      /\ \A q \in Promos \ {p} : share[l][q] = 0
                      /\ \A q \in Candidates(l) \ {p} :
                           campaigns[q].stackable \/ ~Outranks(q, p, l)
    BY DEF WinnerTakesLine
  <2> DEFINE all == Candidates(l)
             alone == {q \in all : ~campaigns[q].stackable}
  <2>1. p \in Selection(l) /\ p \in all
    BY <1>2 DEF Selection
  <2>2. alone # {}
    BY <2>1
  <2>3. Selection(l) = {q \in alone : IsTop(q, alone, l)}
    BY <2>2 DEF Selection
  <2> HIDE DEF all
  <2>4. p \in alone /\ \A q \in alone \ {p} : Outranks(p, q, l)
    BY <2>1, <2>3 DEF IsTop
  <2>5. \A q \in alone \ {p} : ~Outranks(q, p, l)
    BY <2>1, <2>4, NotBothOutrank DEF all
  <2>6. \A q \in Promos \ {p} : q \notin Selection(l)
    BY <2>3, <2>4, <2>5 DEF IsTop
  <2>7. \A q \in Promos \ {p} : share[l][q] = 0
    BY <1>2, <2>6, LineSums
  <2> QED
    BY <2>4, <2>5, <2>7 DEF all
<1>4. NothingWithheld
  <2> SUFFICES ASSUME NEW l \in Lines, l < line,
                      \A p \in Candidates(l) : campaigns[p].stackable,
                      NEW p \in Candidates(l)
               PROVE  \/ share[l][p] = RawDiscount(p, l)
                      \/ LineDiscount(l) = LineTotal(l)
                      \/ /\ campaigns[p].cap # NoCap
                         /\ SumOver(1..l, LAMBDA k : share[k][p]) = campaigns[p].cap
    BY DEF NothingWithheld
  <2>1. Selection(l) = Candidates(l)
    BY DEF Selection
  <2>2. IsFull(l, p)
    BY <2>1 DEF Turns
  <2> QED
    BY <2>2 DEF IsFull, TakenUpTo
<1> QED
  BY <1>3, <1>4 DEF LinesGoByRank

\* The cap of a promotion bounds what it has used, which is what it takes.
LEMMA UseRespectsCap ==
    ASSUME Given
    PROVE  CapRespected
BY DEF Given, CapRespected, Taken

LEMMA InitiallyNothingIsGiven ==
    ASSUME PricingInit(Situations)
    PROVE  Inputs /\ Given /\ Turns
<1>1. Inputs
  BY SituationsAssumption DEF PricingInit, Inputs, Lines
<1>2. /\ line = 0 /\ selected = {}
      /\ used = [p \in Promos |-> 0]
      /\ share = [l \in Lines |-> [p \in Promos |-> 0]]
  BY DEF PricingInit, PromotionsInit
<1>3. Len(cart) \in Nat /\ Lines = 1..Len(cart) /\ IsFiniteSet(Lines)
  BY <1>1, LineTypes
<1>4. \A l \in Lines : LineDiscount(l) = 0
  <2> SUFFICES ASSUME NEW l \in Lines PROVE LineDiscount(l) = 0
    OBVIOUS
  <2>1. share[l] = [p \in Promos |-> 0]
    BY <1>2
  <2>2. LineDiscount(l) = SumFunctionOnSet(share[l], Promos)
    BY <2>1 DEF LineDiscount, SumFunction
  <2> QED
    BY <2>1, <2>2, SumOfZeros, PromosAssumption
<1>5. \A p \in Promos : Taken(p) = 0
  <2> SUFFICES ASSUME NEW p \in Promos PROVE Taken(p) = 0
    OBVIOUS
  <2> DEFINE row == [l \in Lines |-> share[l][p]]
  <2>1. \A l \in Lines : row[l] = 0
    BY <1>2
  <2>2. Taken(p) = SumFunctionOnSet(row, Lines)
    BY TakenIsSum
  <2> HIDE DEF row
  <2> QED
    BY <1>3, <2>1, <2>2, SumOfZeros
<1>6. \A l \in Lines : l > 0 /\ LineTotal(l) \in Nat
  BY <1>1, <1>3, LineTypes
<1>7. \A p \in Promos : campaigns[p].cap # NoCap => 0 <= campaigns[p].cap
  BY <1>1 DEF Inputs, IsCampaign
<1>8. Given
  BY <1>2, <1>3, <1>4, <1>5, <1>6, <1>7 DEF Given
<1>9. Turns
  <2>1. line \notin Lines /\ \A l \in Lines : ~(l <= line) /\ ~(l < line)
    BY <1>2, <1>3
  <2> QED
    BY <1>2, <2>1 DEF Turns
<1> QED
  BY <1>1, <1>8, <1>9

-----------------------------------------------------------------------------
\* Rounding the charges one by one adds at most half a paisa for each.
LEMMA RoundedIsClose ==
    ASSUME NEW n \in Int
    PROVE  /\ RoundHalfEven(n, 10000) \in Int
           /\ 20000 * RoundHalfEven(n, 10000) <= 2 * n + 10000
           /\ n >= 0 => RoundHalfEven(n, 10000) >= 0
BY DEF RoundHalfEven

LEMMA RoundedSum ==
    ASSUME NEW S, IsFiniteSet(S), NEW exact, NEW rounded,
           \A x \in S : /\ exact[x] \in Int /\ rounded[x] \in Int
                        /\ 20000 * rounded[x] <= 2 * exact[x] + 10000
    PROVE  20000 * SumFunctionOnSet(rounded, S)
             <= 2 * SumFunctionOnSet(exact, S) + 10000 * Cardinality(S)
<1> DEFINE Bad(T) == ~(20000 * SumFunctionOnSet(rounded, T)
                         <= 2 * SumFunctionOnSet(exact, T) + 10000 * Cardinality(T))
           B == {T \in SUBSET S : Bad(T)}
<1> SUFFICES ASSUME B # {} PROVE FALSE
  <2>1. S \in SUBSET S
    OBVIOUS
  <2> QED
    BY <2>1
<1>1. PICK T \in B : \A U \in SUBSET T : U \in B => U = T
  <2> HIDE DEF B
  <2>1. B \subseteq SUBSET S
    BY DEF B
  <2> QED
    BY <2>1, SmallestSubset
<1>2. T \in SUBSET S /\ IsFiniteSet(T) /\ Bad(T)
  <2>1. T \in SUBSET S /\ Bad(T)
    OBVIOUS
  <2> QED
    BY <2>1, FS_Subset
<1>3. ASSUME T = {} PROVE FALSE
  <2>1. /\ SumFunctionOnSet(exact, T) = 0 /\ SumFunctionOnSet(rounded, T) = 0
        /\ Cardinality(T) = 0
    BY <1>3, FS_EmptySet, SumOfNone
  <2> QED
    BY <1>2, <2>1
<1>4. PICK a \in T : TRUE
  BY <1>3
<1>5. ~Bad(T \ {a})
  <2>1. T \ {a} \in SUBSET T /\ T \ {a} # T
    BY <1>4
  <2>2. T \ {a} \in SUBSET S
    BY <1>2
  <2> HIDE DEF Bad
  <2> QED
    BY <1>1, <2>1, <2>2
<1>6. /\ SumFunctionOnSet(exact, T) = exact[a] + SumFunctionOnSet(exact, T \ {a})
      /\ SumFunctionOnSet(rounded, T) = rounded[a] + SumFunctionOnSet(rounded, T \ {a})
  BY <1>2, <1>4, SumFrom
<1>7. Cardinality(T \ {a}) = Cardinality(T) - 1 /\ Cardinality(T) \in Nat
  BY <1>2, <1>4, FS_RemoveElement, FS_CardinalityType
<1>8. /\ SumFunctionOnSet(exact, T \ {a}) \in Int
      /\ SumFunctionOnSet(rounded, T \ {a}) \in Int
  <2>1. IsFiniteSet(T \ {a})
    BY <1>2, FS_Subset
  <2> QED
    BY <1>2, <2>1, SumInInt
<1>9. /\ exact[a] \in Int /\ rounded[a] \in Int
      /\ 20000 * rounded[a] <= 2 * exact[a] + 10000
  BY <1>2, <1>4
<1> QED
  BY <1>2, <1>5, <1>6, <1>7, <1>8, <1>9

\* The charge of a rule and the amounts it shows.
LEMMA ScopeIsNumbers ==
    ASSUME Inputs, NEW lines \in SUBSET Lines
    PROVE  /\ Cardinality(lines) \in Int
           /\ Quantity(lines) \in Int /\ Weight(lines) \in Int /\ Value(lines) \in Int
<1>1. IsFiniteSet(lines)
  BY LineTypes, FS_Subset
<1>2. Cardinality(lines) \in Int
  BY <1>1, FS_CardinalityType
<1>3. Quantity(lines) \in Int
  <2> DEFINE f == [l \in lines |-> cart[l].quantity]
  <2>1. \A l \in lines : f[l] \in Int
    BY LineTypes
  <2>2. Quantity(lines) = SumFunctionOnSet(f, lines)
    BY DEF Quantity, SumOver
  <2> HIDE DEF f
  <2> QED
    BY <1>1, <2>1, <2>2, SumInInt
<1>4. Weight(lines) \in Int
  <2> DEFINE f == [l \in lines |-> cart[l].weight * cart[l].quantity]
  <2>1. \A l \in lines : f[l] \in Int
    BY LineTypes
  <2>2. Weight(lines) = SumFunctionOnSet(f, lines)
    BY DEF Weight, SumOver
  <2> HIDE DEF f
  <2> QED
    BY <1>1, <2>1, <2>2, SumInInt
<1>5. Value(lines) \in Int
  <2> DEFINE f == [l \in lines |-> LineTotal(l)]
  <2>1. \A l \in lines : f[l] \in Int
    BY LineTypes
  <2>2. Value(lines) = SumFunctionOnSet(f, lines)
    BY DEF Value, SumOver
  <2> HIDE DEF f
  <2> QED
    BY <1>1, <2>1, <2>2, SumInInt
<1> QED
  BY <1>2, <1>3, <1>4, <1>5

LEMMA ActionIsNumber ==
    ASSUME Inputs, NEW lines \in SUBSET Lines,
           NEW a \in [type : ActionTypes, mode : PricingModes, amount : Nat]
    PROVE  ActionCharge(a, lines) \in Int
<1>1. PriceAction(a, lines) \in Int
  <2>1. /\ a.amount \in Nat
        /\ a.mode \in {"fixed", "per_item", "per_unit", "per_kg", "percentage"}
    BY DEF PricingModes
  <2>2. PICK c, q, w, v : /\ c = Cardinality(lines) /\ q = Quantity(lines)
                          /\ w = Weight(lines) /\ v = Value(lines)
    OBVIOUS
  <2>3. c \in Int /\ q \in Int /\ w \in Int /\ v \in Int
    BY <2>2, ScopeIsNumbers
  <2>4. /\ a.amount * Exact \in Int
        /\ a.amount * c * Exact \in Int
        /\ a.amount * q * Exact \in Int
        /\ a.amount * w * (Exact \div 1000) \in Int
        /\ a.amount * v \in Int
    BY <2>1, <2>3 DEF Exact
  <2>5. PriceAction(a, lines) =
          [fixed |-> a.amount * Exact, per_item |-> a.amount * c * Exact,
           per_unit |-> a.amount * q * Exact,
           per_kg |-> a.amount * w * (Exact \div 1000),
           percentage |-> a.amount * v][a.mode]
    BY <2>2 DEF PriceAction
  <2> QED
    BY <2>1, <2>4, <2>5
<1> QED
  BY <1>1 DEF ActionCharge

LEMMA RuleIsNumbers ==
    ASSUME Inputs, NEW i \in DOMAIN rules
    PROVE  /\ RuleCharge(rules[i]) \in Int
           /\ RuleBreakdown(rules[i]) \in Seq(Int)
           /\ SumFunction(RuleBreakdown(rules[i])) \in Int
           /\ 20000 * SumFunction(RuleBreakdown(rules[i]))
                <= 2 * RuleCharge(rules[i]) + 10000 * Len(RuleBreakdown(rules[i]))
<1> DEFINE r == rules[i]
           n == Len(r.actions)
           exact == [k \in 1..n |-> ActionCharge(r.actions[k], r.scope)]
           rounded == [k \in 1..n |-> RoundHalfEven(exact[k], 10000)]
<1>1. /\ r.actions \in Seq([type : ActionTypes, mode : PricingModes, amount : Nat])
      /\ r.scope \in SUBSET Lines
  BY DEF Inputs, IsRule
<1>2. n \in Nat /\ DOMAIN r.actions = 1..n
  BY <1>1
<1>3. \A k \in 1..n : exact[k] \in Int
  <2> SUFFICES ASSUME NEW k \in 1..n
               PROVE  ActionCharge(r.actions[k], r.scope) \in Int
    OBVIOUS
  <2>1. r.actions[k] \in [type : ActionTypes, mode : PricingModes, amount : Nat]
    <3> DEFINE A == [type : ActionTypes, mode : PricingModes, amount : Nat]
    <3> HIDE DEF A
    <3>1. r.actions \in Seq(A) /\ k \in 1..Len(r.actions)
      BY <1>1 DEF A
    <3>2. r.actions[k] \in A
      BY <3>1
    <3> QED
      BY <3>2 DEF A
  <2> QED
    BY <1>1, <2>1, ActionIsNumber
<1>4. RuleCharge(r) = SumFunctionOnSet(exact, 1..n)
  BY <1>2 DEF RuleCharge, SumFunction
<1>5. RuleBreakdown(r) = rounded
  BY <1>2 DEF RuleBreakdown, Exact
<1>6. \A k \in 1..n : /\ rounded[k] \in Int
                      /\ 20000 * rounded[k] <= 2 * exact[k] + 10000
  <2> HIDE DEF exact, n
  <2>1. \A k \in 1..n : rounded[k] = RoundHalfEven(exact[k], 10000)
    OBVIOUS
  <2> HIDE DEF rounded
  <2> QED
    BY <1>3, <2>1, RoundedIsClose
<1>7. rounded \in Seq(Int) /\ Len(rounded) = n /\ DOMAIN rounded = 1..n
  <2> HIDE DEF exact, n
  <2>1. \A k \in 1..n : RoundHalfEven(exact[k], 10000) \in Int
    BY <1>3, RoundedIsClose
  <2> QED
    BY <1>2, <2>1
<1>8. IsFiniteSet(1..n) /\ Cardinality(1..n) = n
  BY <1>2, FS_Interval
<1>9. PICK S : S = 1..n
  OBVIOUS
<1> HIDE DEF exact, rounded, n
<1>10. /\ SumFunctionOnSet(exact, S) \in Int /\ SumFunctionOnSet(rounded, S) \in Int
       /\ 20000 * SumFunctionOnSet(rounded, S)
            <= 2 * SumFunctionOnSet(exact, S) + 10000 * Cardinality(S)
  <2>1. \A k \in S : exact[k] \in Int /\ rounded[k] \in Int
                      /\ 20000 * rounded[k] <= 2 * exact[k] + 10000
    BY <1>3, <1>6, <1>9
  <2>2. IsFiniteSet(S)
    BY <1>8, <1>9
  <2>3. SumFunctionOnSet(exact, S) \in Int /\ SumFunctionOnSet(rounded, S) \in Int
    BY <2>1, <2>2, SumInInt
  <2>4. 20000 * SumFunctionOnSet(rounded, S)
          <= 2 * SumFunctionOnSet(exact, S) + 10000 * Cardinality(S)
    BY <2>1, <2>2, RoundedSum
  <2> QED
    BY <2>3, <2>4
<1>11. SumFunction(rounded) = SumFunctionOnSet(rounded, S)
  BY <1>7, <1>9 DEF SumFunction
<1> QED
  BY <1>4, <1>5, <1>7, <1>8, <1>9, <1>10, <1>11

\* Of two rules at most one comes before the other.
LEMMA NotBothBefore ==
    ASSUME Inputs, NEW i \in DOMAIN rules, NEW j \in DOMAIN rules
    PROVE  ~(ComesBefore(i, j) /\ ComesBefore(j, i))
<1> SUFFICES ASSUME ComesBefore(i, j), ComesBefore(j, i) PROVE FALSE
  OBVIOUS
<1>1. ASSUME NEW n \in DOMAIN rules PROVE \A k \in 1..3 : RuleKey(n)[k] \in Int
  <2>1. IsFiniteSet(rules[n].targets) /\ rules[n].priority \in Int /\ n \in Int
    BY DEF Inputs, IsRule
  <2>2. RuleSpecificity(rules[n]) \in Int
    BY <2>1, FS_CardinalityType DEF RuleSpecificity
  <2> QED
    BY <2>1, <2>2 DEF RuleKey
<1> DEFINE f == RuleKey(i)
           g == RuleKey(j)
<1>2. \A k \in 1..3 : f[k] \in Int /\ g[k] \in Int
  BY <1>1
<1>3. PICK a \in 1..3 : f[a] < g[a] /\ \A k \in 1..(a - 1) : f[k] = g[k]
  BY DEF ComesBefore
<1>4. PICK b \in 1..3 : g[b] < f[b] /\ \A k \in 1..(b - 1) : g[k] = f[k]
  BY DEF ComesBefore
<1> HIDE DEF f, g
<1>5. CASE a < b
  <2>1. a \in 1..(b - 1)
    BY <1>5
  <2> QED
    BY <1>2, <1>3, <1>4, <2>1
<1>6. CASE b < a
  <2>1. b \in 1..(a - 1)
    BY <1>6
  <2> QED
    BY <1>2, <1>3, <1>4, <2>1
<1>7. CASE a = b
  BY <1>2, <1>3, <1>4, <1>7
<1> QED
  BY <1>5, <1>6, <1>7

\* The tails of a set of rules are sums of their charges.
LEMMA TailIsSum ==
    ASSUME Inputs, NEW D \in SUBSET DOMAIN rules, NEW i
    PROVE  /\ IsFiniteSet(From(D, i)) /\ From(D, i) \subseteq D
           /\ TailCharge(D, i)
                = SumFunctionOnSet([j \in DOMAIN rules |-> RuleCharge(rules[j])], From(D, i))
           /\ TailCharge(D, i) \in Int
<1> DEFINE T == From(D, i)
           all == [j \in DOMAIN rules |-> RuleCharge(rules[j])]
           part == [j \in T |-> RuleCharge(rules[j])]
<1>1. T \subseteq D
  BY DEF From, Since
<1>2. IsFiniteSet(T)
  BY <1>1, FS_Subset DEF Inputs
<1>3. \A j \in T : all[j] = part[j] /\ all[j] \in Int
  BY <1>1, RuleIsNumbers
<1>4. TailCharge(D, i) = SumFunctionOnSet(part, T)
  BY DEF TailCharge, SumOver
<1> HIDE DEF T, all, part
<1>5. SumFunctionOnSet(part, T) = SumFunctionOnSet(all, T)
  BY <1>2, <1>3, SumsEqual
<1>6. SumFunctionOnSet(all, T) \in Int
  BY <1>2, <1>3, SumInInt
<1> QED
  BY <1>1, <1>2, <1>4, <1>5, <1>6 DEF T, all

\* What a set of rules charges is the largest of its tails, or nothing.
LEMMA ChargeIsLargest ==
    ASSUME Inputs, NEW D \in SUBSET DOMAIN rules, \A d \in D : ~IsFreeRule(d)
    PROVE  /\ ChargeOf(D) \in Nat
           /\ \A d \in Since(D) : TailCharge(D, d) <= ChargeOf(D)
           /\ ChargeOf(D) = 0 \/ \E d \in Since(D) : ChargeOf(D) = TailCharge(D, d)
<1> DEFINE tails == {TailCharge(D, d) : d \in Since(D)}
           all == {0} \union tails
           f == [d \in Since(D) |-> TailCharge(D, d)]
<1>1. ChargeOf(D) = Max(all)
  BY DEF ChargeOf
<1>2. all \subseteq Int
  <2>1. \A d \in Since(D) : TailCharge(D, d) \in Int
    BY TailIsSum
  <2> QED
    BY <2>1
<1>3. IsFiniteSet(all)
  <2>1. IsFiniteSet(Since(D))
    BY FS_Subset DEF Inputs, Since
  <2>2. tails = ImageOf(f, Since(D))
    BY DEF ImageOf
  <2>3. IsFiniteSet(tails)
    BY <2>1, <2>2, FiniteImage
  <2>4. all = tails \union {0}
    OBVIOUS
  <2> HIDE DEF tails, all
  <2> QED
    BY <2>3, <2>4, FS_AddElement
<1>4. all # {} /\ 0 \in all /\ \A d \in Since(D) : TailCharge(D, d) \in all
  OBVIOUS
<1>5. \A m \in all : m = 0 \/ \E d \in Since(D) : m = TailCharge(D, d)
  OBVIOUS
<1> HIDE DEF all
<1>6. Max(all) \in all /\ \A m \in all : m <= Max(all)
  BY <1>2, <1>3, <1>4, MaxOf
<1>7. PICK m : m = Max(all)
  OBVIOUS
<1>8. m \in Int /\ 0 <= m /\ \A d \in Since(D) : TailCharge(D, d) <= m
  BY <1>2, <1>4, <1>6, <1>7
<1>9. m = 0 \/ \E d \in Since(D) : m = TailCharge(D, d)
  BY <1>5, <1>6, <1>7
<1> QED
  BY <1>1, <1>7, <1>8, <1>9

\* The converse: a number that is one of them and none is larger.
LEMMA LargestIsCharge ==
    ASSUME Inputs, NEW D \in SUBSET DOMAIN rules, \A d \in D : ~IsFreeRule(d),
           NEW m \in Nat, \A d \in Since(D) : TailCharge(D, d) <= m,
           m = 0 \/ \E d \in Since(D) : m = TailCharge(D, d)
    PROVE  ChargeOf(D) = m
<1>1. PICK c : c = ChargeOf(D)
  OBVIOUS
<1>2. /\ c \in Nat
      /\ \A d \in Since(D) : TailCharge(D, d) <= c
      /\ c = 0 \/ \E d \in Since(D) : c = TailCharge(D, d)
  BY <1>1, ChargeIsLargest
<1>3. c <= m /\ m <= c
  BY <1>2
<1> QED
  BY <1>1, <1>2, <1>3

\* A further rule, later than the others, adds its charge and clamps at zero,
\* or starts anew if it overrides: which is what the loop does.
LEMMA OneMoreRule ==
    ASSUME Inputs, NEW D \in SUBSET DOMAIN rules, NEW n \in DOMAIN rules,
           \A d \in D : ComesBefore(d, n), \A d \in D \union {n} : ~IsFreeRule(d)
    PROVE  ChargeOf(D \union {n}) =
             Max({0, RuleCharge(rules[n])
                       + (IF rules[n].combine = "override" THEN 0 ELSE ChargeOf(D))})
<1> DEFINE E == D \union {n}
           all == [j \in DOMAIN rules |-> RuleCharge(rules[j])]
<1>1. PICK c : c = RuleCharge(rules[n])
  OBVIOUS
<1>2. PICK m : m = ChargeOf(D)
  OBVIOUS
<1>3. c \in Int /\ all[n] = c /\ \A j \in DOMAIN rules : all[j] \in Int
  BY <1>1, RuleIsNumbers
<1>4. /\ m \in Nat
      /\ \A d \in Since(D) : TailCharge(D, d) <= m
      /\ m = 0 \/ \E d \in Since(D) : m = TailCharge(D, d)
  BY <1>2, ChargeIsLargest
<1>5. /\ n \notin D /\ E \in SUBSET DOMAIN rules
      /\ \A d \in E : ~ComesBefore(n, d)
      /\ \A d \in D : ComesBefore(d, n) /\ d \in DOMAIN rules
      /\ \A d \in E : ~IsFreeRule(d)
  BY NotBothBefore
<1>6. n \in Since(E)
  BY <1>5 DEF Since
<1>7. TailCharge(E, n) = c
  <2>1. From(E, n) = {n}
    BY <1>5, <1>6 DEF From, Since
  <2>2. TailCharge(E, n) = SumFunctionOnSet(all, {n})
    BY <1>5, <2>1, TailIsSum
  <2>3. SumFunctionOnSet(all, {n}) = all[n] + SumFunctionOnSet(all, {})
    <3>1. {n} \ {n} = {} /\ IsFiniteSet({n})
      BY FS_Singleton
    <3> HIDE DEF all
    <3>2. SumFunctionOnSet(all, {n}) = all[n] + SumFunctionOnSet(all, {n} \ {n})
      BY <1>3, <3>1, SumFrom
    <3> QED
      BY <3>1, <3>2
  <2>4. SumFunctionOnSet(all, {}) = 0
    BY SumOfNone
  <2> HIDE DEF all
  <2> QED
    BY <1>3, <2>2, <2>3, <2>4
<1> HIDE DEF E
<1>8. CASE rules[n].combine = "override"
  <2>1. \A d \in Since(E) : d = n
    BY <1>5, <1>8 DEF Since, E
  <2>2. PICK k : k = IF c <= 0 THEN 0 ELSE c
    OBVIOUS
  <2>3. /\ k \in Nat
        /\ \A d \in Since(E) : TailCharge(E, d) <= k
        /\ k = 0 \/ \E d \in Since(E) : k = TailCharge(E, d)
    BY <1>3, <1>6, <1>7, <2>1, <2>2
  <2>4. ChargeOf(E) = k
    BY <1>5, <2>3, LargestIsCharge
  <2>5. Max({0, c}) = k /\ c + 0 = c
    <3>1. Max({0, c}) = IF 0 <= c THEN c ELSE 0
      BY <1>3, MaxOfTwo
    <3> QED
      BY <1>3, <2>2, <3>1
  <2> QED
    BY <1>1, <1>8, <2>4, <2>5 DEF E
<1>9. CASE rules[n].combine # "override"
  <2>1. Since(E) = Since(D) \union {n}
    BY <1>5, <1>9 DEF Since, E
  <2>2. \A d \in Since(D) : TailCharge(E, d) = c + TailCharge(D, d)
    <3> SUFFICES ASSUME NEW d \in Since(D) PROVE TailCharge(E, d) = c + TailCharge(D, d)
      OBVIOUS
    <3>1. d \in D
      BY DEF Since
    <3>2. /\ n \in From(E, d) /\ From(E, d) \ {n} = From(D, d)
      BY <1>5, <2>1, <3>1 DEF From, Since
    <3>3. /\ IsFiniteSet(From(E, d)) /\ From(E, d) \subseteq E
          /\ TailCharge(E, d) = SumFunctionOnSet(all, From(E, d))
          /\ TailCharge(D, d) = SumFunctionOnSet(all, From(D, d))
      BY <1>5, TailIsSum
    <3>4. \A j \in From(E, d) : all[j] \in Int
      BY <1>3, <1>5, <3>3
    <3> HIDE DEF all
    <3>5. SumFunctionOnSet(all, From(E, d))
            = all[n] + SumFunctionOnSet(all, From(E, d) \ {n})
      BY <3>2, <3>3, <3>4, SumFrom
    <3> QED
      BY <1>3, <3>2, <3>3, <3>5
  <2>3. \A d \in Since(D) : TailCharge(D, d) \in Int
    BY TailIsSum
  <2>4. PICK k : k = IF c + m <= 0 THEN 0 ELSE c + m
    OBVIOUS
  <2>5. k \in Nat
    BY <1>3, <1>4, <2>4
  <2>6. \A d \in Since(E) : TailCharge(E, d) <= k
    <3> SUFFICES ASSUME NEW d \in Since(E) PROVE TailCharge(E, d) <= k
      OBVIOUS
    <3>1. CASE d = n
      BY <1>3, <1>4, <1>7, <2>4, <3>1
    <3>2. CASE d \in Since(D)
      <4>1. PICK t : t = TailCharge(D, d)
        OBVIOUS
      <4>2. t \in Int /\ t <= m /\ TailCharge(E, d) = c + t
        BY <1>4, <2>2, <2>3, <3>2, <4>1
      <4> QED
        BY <1>3, <1>4, <2>4, <4>2
    <3> QED
      BY <2>1, <3>1, <3>2
  <2>7. k = 0 \/ \E d \in Since(E) : k = TailCharge(E, d)
    <3>1. CASE c + m <= 0
      BY <2>4, <3>1
    <3>2. CASE ~(c + m <= 0)
      <4>1. CASE m = 0
        BY <1>3, <1>6, <1>7, <2>4, <3>2, <4>1
      <4>2. ASSUME NEW d \in Since(D), m = TailCharge(D, d)
            PROVE  \E e \in Since(E) : k = TailCharge(E, e)
        <5>1. TailCharge(E, d) = c + m /\ d \in Since(E)
          BY <2>1, <2>2, <4>2
        <5> QED
          BY <2>4, <3>2, <5>1
      <4> QED
        BY <1>4, <4>1, <4>2
    <3> QED
      BY <3>1, <3>2
  <2>8. ChargeOf(E) = k
    BY <1>5, <2>5, <2>6, <2>7, LargestIsCharge
  <2>9. Max({0, c + m}) = k
    <3>1. c + m \in Int
      BY <1>3, <1>4
    <3>2. Max({0, c + m}) = IF 0 <= c + m THEN c + m ELSE 0
      BY <3>1, MaxOfTwo
    <3> QED
      BY <2>4, <3>1, <3>2
  <2> QED
    BY <1>1, <1>2, <1>9, <2>8, <2>9 DEF E
<1> QED
  BY <1>8, <1>9

\* The rules the reference calls valid are those the loop does not skip.
LEMMA ValidIsNotSkipped ==
    ASSUME Inputs
    PROVE  ValidRules = {i \in Applicable : ~IsInvalid(rules[i])}
<1> SUFFICES ASSUME NEW i \in DOMAIN rules
             PROVE  i \in ValidRules <=> Applies(rules[i]) /\ ~IsInvalid(rules[i])
  BY DEF ValidRules, Applicable
<1>1. /\ rules[i].starts \in Int \union {Unset} /\ rules[i].ends \in Int \union {Unset}
      /\ rules[i].actions \in Seq([type : ActionTypes, mode : PricingModes, amount : Nat])
      /\ Today \in Int
  BY RatesAssumption DEF Inputs, IsRule
<1>2. PICK from, to : from = rules[i].starts /\ to = rules[i].ends
  OBVIOUS
<1>3. InForce(rules[i]) <=> /\ from # Unset => Today >= from
                            /\ to # Unset => Today <= to
  <2>1. from \in Int \union {Unset} /\ to \in Int \union {Unset}
    BY <1>1, <1>2
  <2>2. (from = Unset \/ from <= Today) <=> (from # Unset => Today >= from)
    BY <1>1, <2>1
  <2>3. (to = Unset \/ to >= Today) <=> (to # Unset => Today <= to)
    BY <1>1, <2>1
  <2> QED
    BY <1>2, <2>2, <2>3 DEF InForce
<1>4. Len(rules[i].actions) > 0 <=> rules[i].actions # <<>>
  <2> DEFINE A == [type : ActionTypes, mode : PricingModes, amount : Nat]
  <2> HIDE DEF A
  <2>1. rules[i].actions \in Seq(A)
    BY <1>1 DEF A
  <2> QED
    BY <2>1
<1>5. ForZone(rules[i]) <=> rules[i].zone = NoZone \/ rules[i].zone = location.zone
  BY DEF ForZone
<1> QED
  BY <1>2, <1>3, <1>4, <1>5 DEF ValidRules, Applies, IsInvalid

LEMMA CountedIsValid ==
           /\ CountedRules \subseteq ValidRules /\ ValidRules \subseteq DOMAIN rules
           /\ \A i : i \in CountedRules <=>
                /\ i \in ValidRules
                /\ \A j \in ValidRules : ComesBefore(j, i) => ~EndsLoop(j)
BY DEF CountedRules, ValidRules, EndsLoop, IsFreeRule

\* The rule whose turn it is counts, and after it those that counted before it
\* and itself do.
LEMMA TurnCounts ==
    ASSUME Inputs, Loop, NEW n \in DOMAIN rules, IsDue(n), ~IsInvalid(rules[n])
    PROVE  /\ n \in CountedRules
           /\ CountedRules \ (due \ {n}) = (CountedRules \ due) \union {n}
           /\ EndsLoop(n) => CountedRules = (CountedRules \ due) \union {n}
           /\ \A d \in CountedRules \ due : ComesBefore(d, n) /\ ~EndsLoop(d)
           /\ \A k \in due \ {n} : ComesBefore(n, k)
<1>1. n \in due /\ n \in Applicable /\ \A k \in due \ {n} : ComesBefore(n, k)
  BY DEF IsDue, Loop
<1>2. n \in ValidRules
  BY <1>1, ValidIsNotSkipped
<1>3. \A d \in ValidRules \ due : ComesBefore(d, n) /\ ~EndsLoop(d)
  <2>1. ValidRules \subseteq Applicable
    BY ValidIsNotSkipped
  <2> QED
    BY <1>1, <2>1 DEF Loop
<1>4. \A j \in ValidRules : ComesBefore(j, n) => j \notin due
  <2>1. \A j \in ValidRules : j \in DOMAIN rules
    BY CountedIsValid
  <2>2. ~ComesBefore(n, n)
    BY NotBothBefore
  <2> QED
    BY <1>1, <2>1, <2>2, NotBothBefore
<1>5. n \in CountedRules
  BY <1>2, <1>3, <1>4, CountedIsValid
<1>6. CountedRules \ (due \ {n}) = (CountedRules \ due) \union {n}
  BY <1>1, <1>5
<1>7. EndsLoop(n) => CountedRules \intersect (due \ {n}) = {}
  BY <1>1, <1>2, CountedIsValid
<1>8. \A d \in CountedRules \ due : ComesBefore(d, n) /\ ~EndsLoop(d)
  BY <1>3, CountedIsValid
<1> QED
  BY <1>1, <1>5, <1>6, <1>7, <1>8

\* What the rules are and charge depends on the inputs only.
LEMMA SameRules ==
    ASSUME UNCHANGED inputs
    PROVE  /\ rules' = rules /\ Applicable' = Applicable
           /\ ValidRules' = ValidRules /\ CountedRules' = CountedRules
           /\ \A i, j : ComesBefore(i, j)' = ComesBefore(i, j)
           /\ \A i : EndsLoop(i)' = EndsLoop(i)
           /\ \A D : ChargeOf(D)' = ChargeOf(D)
           /\ ReferenceCharge' = ReferenceCharge
<1>1. rules' = rules /\ cart' = cart /\ location' = location /\ Lines' = Lines
  BY DEF inputs, Lines
<1>2. \A i, j : ComesBefore(i, j)' = ComesBefore(i, j)
  BY <1>1 DEF ComesBefore, RuleKey
<1>3. \A i : EndsLoop(i)' = EndsLoop(i) /\ IsFreeRule(i)' = IsFreeRule(i)
  BY <1>1 DEF EndsLoop, IsFreeRule
<1>4. /\ Subtotal' = Subtotal
      /\ \A lines : /\ Quantity(lines)' = Quantity(lines)
                    /\ Weight(lines)' = Weight(lines)
                    /\ Value(lines)' = Value(lines)
  BY <1>1 DEF Subtotal, SumOver, LineTotal, Quantity, Weight, Value
<1>5. \A c, r : Holds(c, r)' = Holds(c, r)
  <2>1. \A r : Facts(r)' = Facts(r)
    BY <1>1, <1>4 DEF Facts
  <2> QED
    BY <2>1 DEF Holds
<1>6. Applicable' = Applicable
  <2>1. \A r : Applies(r)' = Applies(r)
    BY <1>1, <1>5 DEF Applies, ForZone, InForce
  <2> QED
    BY <1>1, <2>1 DEF Applicable
<1>7. ValidRules' = ValidRules
  BY <1>1, <1>5 DEF ValidRules
<1>8. CountedRules' = CountedRules
  BY <1>1, <1>2, <1>7 DEF CountedRules
<1>9. \A i : RuleCharge(rules[i])' = RuleCharge(rules[i])
  <2>1. \A a, lines : ActionCharge(a, lines)' = ActionCharge(a, lines)
    BY <1>4 DEF ActionCharge, PriceAction
  <2> QED
    BY <1>1, <2>1 DEF RuleCharge
<1>10. \A D : ChargeOf(D)' = ChargeOf(D)
  <2>1. \A D : Since(D)' = Since(D)
    BY <1>1, <1>2 DEF Since
  <2>2. \A D, i : From(D, i)' = From(D, i)
    BY <1>2, <2>1 DEF From
  <2>3. \A D, i : TailCharge(D, i)' = TailCharge(D, i)
    BY <1>9, <2>2 DEF TailCharge, SumOver
  <2> QED
    BY <1>3, <2>1, <2>3 DEF ChargeOf
<1>11. ReferenceCharge' = ReferenceCharge
  BY <1>1, <1>2, <1>8, <1>9 DEF ReferenceCharge, SumOver
<1> QED
  BY <1>1, <1>2, <1>3, <1>6, <1>7, <1>8, <1>10, <1>11

LEMMA DeliveryKeepsLoop ==
    ASSUME Inputs, Loop, DeliveryNext, UNCHANGED inputs
    PROVE  Loop'
<1>1. PICK n \in DOMAIN rules : SkipInvalid(n) \/ DeliverFree(n) \/ ChargeRule(n)
  BY DEF DeliveryNext
<1>2. IsDue(n) /\ n \in due /\ due \subseteq Applicable
  BY <1>1 DEF SkipInvalid, DeliverFree, ChargeRule, IsDue, Loop
<1>3. /\ Applicable' = Applicable /\ ValidRules' = ValidRules
      /\ CountedRules' = CountedRules
      /\ \A i, j : ComesBefore(i, j)' = ComesBefore(i, j)
      /\ \A i : EndsLoop(i)' = EndsLoop(i)
      /\ \A D : ChargeOf(D)' = ChargeOf(D)
  BY SameRules
<1>4. \A i \in Applicable \ (due \ {n}), j \in due \ {n} : ComesBefore(i, j)
  BY <1>2 DEF Loop, IsDue
<1>5. running \in Nat /\ running = ChargeOf(CountedRules \ due)
      /\ \A i \in ValidRules \ due : ~EndsLoop(i)
  BY <1>2 DEF Loop
<1>6. ASSUME NEW rest, rest \in {{}, due \ {n}}, due' = rest,
             rest # {} => \A i \in ValidRules \ rest : ~EndsLoop(i),
             running' \in Nat, running' = ChargeOf(CountedRules \ rest)
      PROVE  Loop'
  <2>1. rest \subseteq Applicable /\ \A i \in Applicable \ rest, j \in rest : ComesBefore(i, j)
    BY <1>2, <1>4, <1>6
  <2>2. (CountedRules \ due)' = CountedRules \ rest
    BY <1>3, <1>6
  <2>3. \A D \in {CountedRules \ rest} : running' = ChargeOf(D)'
    BY <1>3, <1>6
  <2>4. (\A D \in {CountedRules \ due} : running = ChargeOf(D))'
    BY <2>2, <2>3
  <2> QED
    BY <1>3, <1>6, <2>1, <2>4 DEF Loop
<1>7. CASE SkipInvalid(n)
  <2>1. n \notin ValidRules
    BY <1>7, ValidIsNotSkipped DEF SkipInvalid
  <2>2. CountedRules \ (due \ {n}) = CountedRules \ due
        /\ ValidRules \ (due \ {n}) = ValidRules \ due
    BY <2>1, CountedIsValid
  <2>3. due' = due \ {n} /\ running' = running
    BY <1>7 DEF SkipInvalid
  <2> QED
    BY <1>5, <1>6, <2>2, <2>3
<1>8. CASE DeliverFree(n)
  <2>1. IsFreeRule(n) /\ ~IsInvalid(rules[n])
    BY <1>8 DEF DeliverFree, IsFree, IsFreeRule
  <2>2. n \in CountedRules
    BY <1>2, <2>1, TurnCounts
  <2>3. ChargeOf(CountedRules) = 0
    BY <2>1, <2>2 DEF ChargeOf
  <2>4. CountedRules \ {} = CountedRules
    OBVIOUS
  <2>5. due' = {} /\ running' = 0
    BY <1>8 DEF DeliverFree
  <2> QED
    BY <1>6, <2>3, <2>4, <2>5
<1>9. CASE ChargeRule(n)
  <2> DEFINE D == CountedRules \ due
  <2>1. ~IsInvalid(rules[n]) /\ ~IsFreeRule(n)
    BY <1>9 DEF ChargeRule, IsFree, IsFreeRule
  <2>2. /\ CountedRules \ (due \ {n}) = D \union {n}
        /\ EndsLoop(n) => CountedRules = D \union {n}
        /\ \A d \in D : ComesBefore(d, n) /\ ~EndsLoop(d)
    BY <1>2, <2>1, TurnCounts
  <2>3. D \in SUBSET DOMAIN rules
    BY CountedIsValid
  <2>4. running = ChargeOf(D)
    BY <1>5
  <2>5. \A d \in D \union {n} : ~IsFreeRule(d)
    BY <2>1, <2>2 DEF EndsLoop
  <2> HIDE DEF D
  <2>6. running' = ChargeOf(D \union {n})
    <3>1. running' = Max({0, RuleCharge(rules[n])
                            + (IF rules[n].combine = "override" THEN 0 ELSE running)})
      BY <1>9 DEF ChargeRule
    <3>2. ChargeOf(D \union {n}) =
            Max({0, RuleCharge(rules[n])
                      + (IF rules[n].combine = "override" THEN 0 ELSE ChargeOf(D))})
      BY <2>2, <2>3, <2>5, OneMoreRule
    <3> QED
      BY <2>4, <3>1, <3>2
  <2>7. running' \in Nat
    BY <2>3, <2>5, <2>6, ChargeIsLargest
  <2>8. due' = IF rules[n].stopAfter THEN {} ELSE due \ {n}
    BY <1>9 DEF ChargeRule
  <2>9. rules[n].stopAfter => EndsLoop(n)
    BY DEF EndsLoop
  <2>10. CASE rules[n].stopAfter
    <3>1. due' = {} /\ CountedRules \ {} = D \union {n}
      BY <2>2, <2>8, <2>9, <2>10
    <3> QED
      BY <1>6, <2>6, <2>7, <3>1
  <2>11. CASE ~rules[n].stopAfter
    <3>1. ~EndsLoop(n)
      BY <2>1, <2>11 DEF EndsLoop
    <3>2. \A i \in ValidRules \ (due \ {n}) : ~EndsLoop(i)
      BY <1>5, <3>1
    <3>3. due' = due \ {n} /\ CountedRules \ (due \ {n}) = D \union {n}
      BY <2>2, <2>8, <2>11
    <3> QED
      BY <1>6, <2>6, <2>7, <3>2, <3>3
  <2> QED
    BY <2>10, <2>11
<1> QED
  BY <1>1, <1>7, <1>8, <1>9

LEMMA DeliveryKeepsShown ==
    ASSUME Inputs, Loop, Shown, DeliveryNext, UNCHANGED inputs
    PROVE  Shown'
<1>1. PICK n \in DOMAIN rules : SkipInvalid(n) \/ DeliverFree(n) \/ ChargeRule(n)
  BY DEF DeliveryNext
<1>2. PICK b : b = breakdown
  OBVIOUS
<1>3. /\ b \in Seq(Int) /\ Len(b) \in Nat /\ running \in Nat
      /\ 20000 * SumFunction(b) <= 2 * running + 10000 * Len(b)
  BY <1>2 DEF Shown, Exact, Loop
<1>4. \A s \in Seq(Int) : SumFunction(s) \in Int
  <2> SUFFICES ASSUME NEW s \in Seq(Int) PROVE SumFunction(s) \in Int
    OBVIOUS
  <2>1. Len(s) \in Nat /\ DOMAIN s = 1..Len(s) /\ \A k \in 1..Len(s) : s[k] \in Int
    OBVIOUS
  <2>2. PICK S : S = DOMAIN s
    OBVIOUS
  <2>3. IsFiniteSet(S) /\ \A k \in S : s[k] \in Int
    BY <2>1, <2>2, FS_Interval
  <2> QED
    BY <2>2, <2>3, SumInInt DEF SumFunction
<1>5. CASE SkipInvalid(n)
  BY <1>5 DEF SkipInvalid, Shown
<1>6. CASE DeliverFree(n)
  <2>1. breakdown' = <<0>> /\ running' = 0
    BY <1>6 DEF DeliverFree
  <2>2. SumFunction(<<0>>) = 0
    <3>1. IsFiniteSet({1}) /\ DOMAIN <<0>> = {1} /\ <<0>>[1] = 0
      BY FS_Singleton
    <3> QED
      BY <3>1, SumOfZeros DEF SumFunction
  <2> QED
    BY <2>1, <2>2 DEF Shown, Exact
<1>7. CASE ChargeRule(n)
  <2>1. PICK c, shown : c = RuleCharge(rules[n]) /\ shown = RuleBreakdown(rules[n])
    OBVIOUS
  <2>2. /\ c \in Int /\ shown \in Seq(Int) /\ Len(shown) \in Nat
        /\ 20000 * SumFunction(shown) <= 2 * c + 10000 * Len(shown)
    BY <2>1, RuleIsNumbers
  <2>3. PICK old : old = IF rules[n].combine = "override" THEN <<>> ELSE b
    OBVIOUS
  <2>4. PICK base : base = IF rules[n].combine = "override" THEN 0 ELSE running
    OBVIOUS
  <2>5. SumFunction(<<>>) = 0
    BY SumOfNone DEF SumFunction
  <2>6. /\ old \in Seq(Int) /\ Len(old) \in Nat /\ base \in Nat
        /\ 20000 * SumFunction(old) <= 2 * base + 10000 * Len(old)
    BY <1>3, <2>3, <2>4, <2>5
  <2>7. breakdown' = old \o shown /\ running' = Max({0, c + base})
    BY <1>2, <1>7, <2>1, <2>3, <2>4 DEF ChargeRule
  <2>8. c + base <= running' /\ running' \in Int
    <3>1. PICK z : z = c + base
      OBVIOUS
    <3>2. z \in Int
      BY <2>2, <2>6, <3>1
    <3>3. Max({0, z}) = IF 0 <= z THEN z ELSE 0
      BY <3>2, MaxOfTwo
    <3> QED
      BY <2>7, <3>1, <3>2, <3>3
  <2>9. /\ SumFunction(old \o shown) = SumFunction(old) + SumFunction(shown)
        /\ Len(old \o shown) = Len(old) + Len(shown)
        /\ old \o shown \in Seq(Int)
    BY <2>2, <2>6, SumOfConcat
  <2>10. SumFunction(old) \in Int /\ SumFunction(shown) \in Int
    BY <1>4, <2>2, <2>6
  <2>11. 20000 * (SumFunction(old) + SumFunction(shown))
           <= 2 * running' + 10000 * (Len(old) + Len(shown))
    <3>1. PICK so, ss, lo, ls, run :
            /\ so = SumFunction(old) /\ ss = SumFunction(shown)
            /\ lo = Len(old) /\ ls = Len(shown) /\ run = running'
      OBVIOUS
    <3> QED
      BY <2>2, <2>6, <2>8, <2>10, <3>1
  <2> QED
    BY <2>7, <2>9, <2>11 DEF Shown, Exact
<1> QED
  BY <1>1, <1>5, <1>6, <1>7

-----------------------------------------------------------------------------
\* The discounts of the lines are those of the order, no line is discounted by
\* more than it costs, and the order adds up: it passes the checks.
LEMMA OrderAddsUp ==
    ASSUME Inputs, Given, Loop, NEW fee \in {0, CodFee}
    PROVE  AmountsAreValid(OrderFor(fee)) /\ AddsUpTo(OrderFor(fee))
<1> DEFINE total == [l \in Lines |-> LineTotal(l)]
           discount == [l \in Lines |-> LineDiscount(l)]
           item == [l \in Lines |-> PricedItem(l)]
           given == [l \in Lines |-> item[l].discount]
           tax == [l \in Lines |-> item[l].tax]
           price == [l \in Lines |-> item[l].total]
           taxable == [l \in Lines |-> total[l] - discount[l]]
           o == OrderFor(fee)
<1>1. IsFiniteSet(Lines)
  BY LineTypes
<1>2. \A l \in Lines : /\ total[l] \in Nat /\ discount[l] \in Nat
                       /\ discount[l] <= total[l]
  BY LineTypes, LineSums DEF Given
<1>3. \A l \in Lines : /\ given[l] = discount[l]
                       /\ tax[l] \in Nat
                       /\ price[l] = taxable[l] + tax[l]
                       /\ taxable[l] \in Nat
  <2> SUFFICES ASSUME NEW l \in Lines
               PROVE  /\ PricedItem(l).discount = LineDiscount(l)
                      /\ PricedItem(l).tax \in Nat
                      /\ PricedItem(l).total = LineTotal(l) - LineDiscount(l) + PricedItem(l).tax
                      /\ LineTotal(l) - LineDiscount(l) \in Nat
    OBVIOUS
  <2>1. /\ LineTotal(l) \in Nat /\ LineDiscount(l) \in Nat
        /\ LineDiscount(l) <= LineTotal(l)
    BY <1>2
  <2>2. ItemDiscount(l) = LineDiscount(l)
    BY <2>1, MinOfTwo DEF ItemDiscount
  <2>3. PICK left : left = LineTotal(l) - LineDiscount(l)
    OBVIOUS
  <2>4. left \in Nat
    BY <2>1, <2>3
  <2>5. RoundHalfUp(left * TaxRate, 10000) \in Nat
    <3>1. left * TaxRate \in Nat
      BY <2>4, RatesAssumption
    <3> QED
      BY <3>1, RoundedIsNat
  <2>6. PricedItem(l) = [discount |-> LineDiscount(l),
                         tax |-> RoundHalfUp(left * TaxRate, 10000),
                         total |-> left + RoundHalfUp(left * TaxRate, 10000)]
    BY <2>2, <2>3 DEF PricedItem
  <2> QED
    BY <2>3, <2>4, <2>5, <2>6
<1>4. PICK gross, less, taxes :
        /\ gross = SumFunctionOnSet(total, Lines)
        /\ less = SumFunctionOnSet(discount, Lines)
        /\ taxes = SumFunctionOnSet(tax, Lines)
  OBVIOUS
<1>5. Subtotal = gross /\ SumOver(Lines, LineDiscount) = less
  BY <1>4 DEF Subtotal, SumOver
<1>6. PICK quoted : quoted = QuotedCharge
  OBVIOUS
<1>7. quoted \in Nat
  <2>1. running \in Nat
    BY DEF Loop
  <2> QED
    BY <1>6, <2>1, RoundedIsClose DEF QuotedCharge, Exact
<1>8. fee \in Nat
  BY RatesAssumption
<1>9. SumOver(Lines, LAMBDA l : item[l].tax) = taxes
  BY <1>4 DEF SumOver
<1>10. o = [items |-> item, discount |-> TotalDiscount, delivery |-> quoted, fee |-> fee,
            total |-> gross + taxes + quoted + fee - TotalDiscount]
  BY <1>5, <1>6, <1>9 DEF OrderFor
<1>11. /\ SumOver(Lines, LAMBDA l : item[l].discount) = SumFunctionOnSet(given, Lines)
       /\ SumOver(Lines, LAMBDA l : item[l].total) = SumFunctionOnSet(price, Lines)
  BY DEF SumOver
<1>12. \A l \in Lines : taxable[l] + discount[l] = total[l]
  BY <1>2
<1>13. \A l \in Lines : item[l].total = price[l]
  OBVIOUS
<1> HIDE DEF total, discount, item, given, tax, price, taxable, o
<1>14. /\ gross \in Nat /\ less \in Nat /\ taxes \in Nat /\ less <= gross
  <2>1. gross \in Nat /\ less \in Nat /\ taxes \in Nat
    BY <1>1, <1>2, <1>3, <1>4, SumInNat
  <2>2. less <= gross
    BY <1>1, <1>2, <1>4, SumsCompare
  <2> QED
    BY <2>1, <2>2
<1>15. TotalDiscount = less
  BY <1>5, <1>14, MinOfTwo DEF TotalDiscount
<1>16. SumFunctionOnSet(given, Lines) = less
  BY <1>1, <1>3, <1>4, SumsEqual
<1>17. SumFunctionOnSet(price, Lines) = gross - less + taxes
  <2>1. SumFunctionOnSet(price, Lines) = SumFunctionOnSet(taxable, Lines) + taxes
    <3>1. \A l \in Lines : taxable[l] \in Int /\ tax[l] \in Int /\ price[l] = taxable[l] + tax[l]
      BY <1>3
    <3> QED
      BY <1>1, <1>4, <3>1, SumsAdd
  <2>2. gross = SumFunctionOnSet(taxable, Lines) + less
    <3>1. \A l \in Lines : /\ taxable[l] \in Int /\ discount[l] \in Int
                           /\ total[l] = taxable[l] + discount[l]
      BY <1>2, <1>3, <1>12
    <3> QED
      BY <1>1, <1>4, <3>1, SumsAdd
  <2>3. SumFunctionOnSet(taxable, Lines) \in Int
    BY <1>1, <1>3, SumInInt
  <2> QED
    BY <1>14, <2>1, <2>2, <2>3
<1>18. \A l \in Lines : price[l] >= 0
  BY <1>3
<1>19. /\ o.items = item /\ o.discount = less /\ o.delivery = quoted /\ o.fee = fee
       /\ o.total = gross + taxes + quoted + fee - less
  BY <1>10, <1>15
<1>20. /\ SumOver(Lines, LAMBDA l : o.items[l].discount) = less
       /\ SumOver(Lines, LAMBDA l : o.items[l].total) = gross - less + taxes
  <2>1. /\ SumOver(Lines, LAMBDA l : o.items[l].discount)
             = SumOver(Lines, LAMBDA l : item[l].discount)
        /\ SumOver(Lines, LAMBDA l : o.items[l].total)
             = SumOver(Lines, LAMBDA l : item[l].total)
    BY <1>19 DEF SumOver
  <2> QED
    BY <1>11, <1>16, <1>17, <2>1
<1>21. AmountsAreValid(o)
  BY <1>5, <1>7, <1>8, <1>14, <1>19, <1>20 DEF AmountsAreValid
<1>22. AddsUpTo(o)
  <2>1. gross + taxes + quoted + fee - less = gross - less + taxes + quoted + fee
    BY <1>7, <1>8, <1>14
  <2>2. \A l \in Lines : o.items[l].total >= 0
    BY <1>13, <1>18, <1>19
  <2> QED
    BY <1>19, <1>20, <2>1, <2>2 DEF AddsUpTo
<1> QED
  BY <1>21, <1>22 DEF o

-----------------------------------------------------------------------------
\* What a step does not touch keeps what is said of it.
LEMMA PromotionsAtRest ==
    ASSUME Inputs, Given, Turns, UNCHANGED <<inputs, promotionVars>>
    PROVE  Given' /\ Turns'
<1>1. /\ line' = line /\ selected' = selected /\ used' = used /\ share' = share
      /\ UNCHANGED inputs
  BY DEF promotionVars
<1>2. /\ Lines' = Lines /\ \A l : Selection(l)' = Selection(l)
  BY <1>1, SameInputs
<1>3. line' \in 0..(Len(cart) + 1) /\ line <= line'
  <2>1. line \in 0..(Len(cart) + 1) /\ Len(cart) \in Nat
    BY LineTypes DEF Given
  <2> QED
    BY <1>1, <2>1
<1>4. Given' /\ \A l, p : IsFull(l, p)' <=> IsFull(l, p)
  BY <1>1, <1>3, NothingGranted
<1>5. \A l, p : Served(l, p)' <=> Served(l, p)
  BY <1>1, <1>2 DEF Served
<1> QED
  BY <1>1, <1>2, <1>4, <1>5 DEF Turns

LEMMA DeliveryAtRest ==
    ASSUME Loop, Shown, UNCHANGED <<inputs, deliveryVars>>
    PROVE  Loop' /\ Shown'
<1>1. due' = due /\ running' = running /\ breakdown' = breakdown /\ UNCHANGED inputs
  BY DEF deliveryVars
<1>2. /\ Applicable' = Applicable /\ ValidRules' = ValidRules
      /\ CountedRules' = CountedRules
      /\ \A i, j : ComesBefore(i, j)' = ComesBefore(i, j)
      /\ \A i : EndsLoop(i)' = EndsLoop(i)
      /\ \A D : ChargeOf(D)' = ChargeOf(D)
  BY <1>1, SameRules
<1>3. (CountedRules \ due)' = CountedRules \ due
  BY <1>1, <1>2
<1>4. (\A D \in {CountedRules \ due} : running = ChargeOf(D))'
  BY <1>1, <1>2, <1>3 DEF Loop
<1>5. Loop'
  BY <1>1, <1>2, <1>4 DEF Loop
<1>6. Shown'
  BY <1>1 DEF Shown
<1> QED
  BY <1>5, <1>6

LEMMA InitiallyInOrder == PricingInit(Situations) => AllInv
<1> SUFFICES ASSUME PricingInit(Situations) PROVE AllInv
  OBVIOUS
<1>1. Inputs /\ Given /\ Turns
  BY InitiallyNothingIsGiven
<1>2. due = Applicable /\ running = 0 /\ breakdown = <<>> /\ stage = "quote"
  BY DEF PricingInit, DeliveryInit, Applicable
<1>3. CountedRules \ due = {}
  BY <1>1, <1>2, CountedIsValid, ValidIsNotSkipped
<1>4. ChargeOf({}) = 0
  <2>1. Since({}) = {}
    BY DEF Since
  <2>2. {} \in SUBSET DOMAIN rules /\ 0 \in Nat
    OBVIOUS
  <2> QED
    BY <1>1, <2>1, <2>2, LargestIsCharge
<1>5. ValidRules \ due = {}
  BY <1>1, <1>2, ValidIsNotSkipped
<1>6. Loop
  BY <1>2, <1>3, <1>4, <1>5 DEF Loop
<1>7. Shown
  <2>1. SumFunction(<<>>) = 0
    BY SumOfNone DEF SumFunction
  <2> QED
    BY <1>2, <2>1 DEF Shown, Exact
<1> QED
  BY <1>1, <1>2, <1>6, <1>7 DEF AllInv, Stages, Placed

LEMMA StepsKeepOrder == AllInv /\ [PricingNext]_pricingVars => AllInv'
<1> SUFFICES ASSUME AllInv, [PricingNext]_pricingVars PROVE AllInv'
  OBVIOUS
<1> USE DEF AllInv
<1>1. UNCHANGED inputs
  BY DEF PricingNext, pricingVars, RefuseAddress, Quote, Promote, ComputeTotals
<1>2. Inputs'
  BY <1>1 DEF Inputs, inputs, Lines
<1>3. /\ Serviceable' = Serviceable
      /\ \A o : AddsUpTo(o)' <=> AddsUpTo(o)
  <2>1. location' = location /\ Lines' = Lines
    BY <1>1, SameInputs DEF inputs
  <2> QED
    BY <2>1 DEF Serviceable, AddsUpTo, SumOver
<1>4. CASE RefuseAddress
  <2>1. Given' /\ Turns' /\ Loop' /\ Shown'
    BY <1>4, PromotionsAtRest, DeliveryAtRest DEF RefuseAddress
  <2>2. Stages' /\ Placed'
    BY <1>3, <1>4 DEF RefuseAddress, Stages, Placed
  <2> QED
    BY <1>2, <2>1, <2>2
<1>5. CASE Quote
  <2>1. Given' /\ Turns'
    BY <1>5, PromotionsAtRest DEF Quote
  <2>2. Loop' /\ Shown'
    <3>1. CASE DeliveryNext
      BY <1>1, <3>1, DeliveryKeepsLoop, DeliveryKeepsShown
    <3>2. CASE UNCHANGED deliveryVars
      BY <1>1, <3>2, DeliveryAtRest
    <3> QED
      BY <1>5, <3>1, <3>2 DEF Quote
  <2>3. Stages' /\ Placed'
    BY <1>3, <1>5 DEF Quote, Stages, Placed, DeliveryDone, deliveryVars
  <2> QED
    BY <1>2, <2>1, <2>2, <2>3
<1>6. CASE Promote
  <2>1. Given' /\ Turns'
    BY <1>1, <1>6, PromotionsKeepTurns DEF Promote
  <2>2. Loop' /\ Shown'
    BY <1>1, <1>6, DeliveryAtRest DEF Promote
  <2>3. Stages' /\ Placed'
    BY <1>3, <1>6 DEF Promote, Stages, Placed, deliveryVars
  <2> QED
    BY <1>2, <2>1, <2>2, <2>3
<1>7. CASE ComputeTotals
  <2>1. Given' /\ Turns' /\ Loop' /\ Shown'
    BY <1>7, PromotionsAtRest, DeliveryAtRest DEF ComputeTotals
  <2>2. PICK fee \in {0, CodFee} :
          IF AmountsAreValid(OrderFor(fee))
          THEN stage' = "placed" /\ order' = OrderFor(fee)
          ELSE stage' = "refused" /\ UNCHANGED order
    BY <1>7 DEF ComputeTotals
  <2>3. PICK o : o = OrderFor(fee)
    OBVIOUS
  <2>4. AmountsAreValid(o) /\ AddsUpTo(o)
    BY <2>3, OrderAddsUp
  <2>5. stage' = "placed" /\ order' = o
    BY <2>2, <2>3, <2>4
  <2>6. AddsUpTo(order)'
    BY <1>3, <2>4, <2>5, SameInputs, <1>1 DEF AddsUpTo, SumOver
  <2>7. Stages' /\ Placed'
    BY <1>3, <1>7, <2>5, <2>6 DEF ComputeTotals, Stages, Placed, deliveryVars
  <2> QED
    BY <1>2, <2>1, <2>7
<1>8. CASE UNCHANGED pricingVars
  <2>1. Given' /\ Turns' /\ Loop' /\ Shown'
    BY <1>8, PromotionsAtRest, DeliveryAtRest DEF pricingVars
  <2>2. AddsUpTo(order) => AddsUpTo(order)'
    BY <1>1, <1>8, SameInputs DEF pricingVars, AddsUpTo, SumOver
  <2>3. Stages' /\ Placed'
    BY <1>3, <1>8, <2>2 DEF pricingVars, deliveryVars, Stages, Placed
  <2> QED
    BY <1>2, <2>1, <2>3
<1> QED
  BY <1>4, <1>5, <1>6, <1>7, <1>8 DEF PricingNext

LEMMA AlwaysInOrder == PricingSpec => []AllInv
BY InitiallyInOrder, StepsKeepOrder, PTL DEF PricingSpec

\* max_discount_amount is the most a promotion takes off one order, over all
\* its lines together.
THEOREM CapsHold == PricingSpec => []CapRespected
<1>1. AllInv => CapRespected
  BY UseRespectsCap DEF AllInv
<1> QED
  BY <1>1, AlwaysInOrder, PTL

\* A promotion that does not stack has its line for itself and is the best of
\* its kind there; and where all stack, each gives all it can.
THEOREM RankDecides == PricingSpec => []LinesGoByRank
<1>1. AllInv => LinesGoByRank
  BY TurnsGoByRank DEF AllInv
<1> QED
  BY <1>1, AlwaysInOrder, PTL

\* When the loop over the delivery rules has ended, its running total is what
\* the locked semantics charge, and what is shown adds up to no more.
THEOREM LoopMeetsReference == PricingSpec => []ChargeFollowsRules
<1>1. ASSUME AllInv PROVE ChargeFollowsRules
  <2>1. ASSUME stage = "promote" PROVE running = ReferenceCharge
    <3>1. due = {} /\ running = ChargeOf(CountedRules \ due)
      BY <1>1, <2>1 DEF AllInv, Stages, Loop
    <3>2. CountedRules \ due = CountedRules
      BY <3>1
    <3>3. ReferenceCharge = ChargeOf(CountedRules)
      BY DEF ReferenceCharge, ChargeOf, Since, From, TailCharge, IsFreeRule
    <3> QED
      BY <3>1, <3>2, <3>3
  <2> QED
    BY <1>1, <2>1 DEF ChargeFollowsRules, AllInv, Shown
<1> QED
  BY <1>1, AlwaysInOrder, PTL

\* The total of an order is what its items, delivery and fee add up to, and no
\* order for a serviceable address is refused for its amounts.
THEOREM OrdersAddUp == PricingSpec => []TotalIsSumOfParts
<1>1. AllInv => TotalIsSumOfParts
  BY DEF AllInv, Stages, Placed, AddsUpTo, TotalIsSumOfParts
<1> QED
  BY <1>1, AlwaysInOrder, PTL
=============================================================================
