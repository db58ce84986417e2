----------------------------- MODULE PricedCart -----------------------------
(***************************************************************************)
(* The cart that a checkout prices: what promotions, delivery and totals   *)
(* read of it, and the two roundings the code uses.  Prices are in paise,  *)
(* percentages in hundredths of a percent, weights in grams, so every      *)
(* column of two (weight: three) decimals is an integer.                   *)
(***************************************************************************)
EXTENDS Integers, SequencesExt, FiniteSetsExt, Functions

VARIABLE cart            \* the lines: price, quantity, weight

Lines == DOMAIN cart

LineTotal(l) == cart[l].price * cart[l].quantity

SumOver(lines, f(_)) == SumFunctionOnSet([l \in lines |-> f(l)], lines)

Subtotal == SumOver(Lines, LineTotal)

(* n / d rounded to an integer, halves away from zero (n is not negative): *)
(* money().                                                                *)
RoundHalfUp(n, d) == (2 * n + d) \div (2 * d)

(* n / d rounded to an integer, halves to the even neighbour: quantize()   *)
(* without a rounding mode, as the delivery engine calls it.               *)
RoundHalfEven(n, d) ==
  LET floor == n \div d
      rest  == 2 * (n % d)
  IN  IF rest < d \/ (rest = d /\ floor % 2 = 0) THEN floor ELSE floor + 1
=============================================================================
