-------------------------- MODULE GiftCardPricing --------------------------
(***************************************************************************)
(* GiftCardPricingService.price and resolveRule, in exact integers.  An    *)
(* amount is in units of 1/10000 of the currency (the four decimal places  *)
(* the code rounds to), percentages are whole, an exchange rate is in      *)
(* hundredths, a retail price in cents.  Products of an amount and          *)
(* percentages are kept unrounded, in units of 10^-8, as Decimal keeps      *)
(* them.                                                                    *)
(***************************************************************************)
EXTENDS Integers

\* A rule: its scope, what it applies to, and its three percentages.
Scopes == <<"PRODUCT", "BRAND", "CATEGORY", "COUNTRY", "GLOBAL">>

\* Mutant: the retail price is rounded like every other amount.
RoundNearest(n, d) == (2 * n + d) \div (2 * d)

\* toDecimalPlaces of n/d rounds half up, and ROUND_UP to the next unit.
RoundHalfUp(n, d) == (2 * n + d) \div (2 * d)
RoundUp(n, d) == (n + d - 1) \div d

FeeAmount(i) == RoundHalfUp(i.cost * i.feePct, 100) + i.feeFixed
DiscountAmount(i) == RoundHalfUp(i.cost * i.discPct, 100)
NetCost(i) == i.cost + FeeAmount(i) - DiscountAmount(i)

\* The face value in sender currency, in units of 10^-6: a rate that is not
\* positive or lands outside half to twice the cost is not trusted, and the
\* cost taken instead.
Converted(i) == i.face * i.rate
Trusted(i) ==
  i.same \/ (/\ i.rate > 0 /\ i.cost > 0
             /\ i.cost * 50 <= Converted(i) /\ Converted(i) <= i.cost * 200)
FaceReference(i) ==
  IF i.same THEN i.face * 100 ELSE IF Trusted(i) THEN Converted(i) ELSE i.cost * 100

\* Bounds of the retail price, in units of 10^-8.
FloorPrice(i, r) == NetCost(i) * (100 + r.minMargin) * 100
TargetPrice(i, r) == FaceReference(i) * (100 - r.discount)
CeilingPrice(i, r) == FaceReference(i) * (100 + r.maxOver)

Cent == 1000000   \* one cent in units of 10^-8
RetailPrice(i, r) ==
  RoundUp(IF FloorPrice(i, r) > TargetPrice(i, r) THEN FloorPrice(i, r) ELSE TargetPrice(i, r), Cent)

\* A price is viable if it earns something and stays under the ceiling.
Viable(i, r) ==
  /\ NetCost(i) > 0
  /\ RetailPrice(i, r) * 100 > NetCost(i)
  /\ RetailPrice(i, r) * Cent <= CeilingPrice(i, r)

\* resolveRule among the active rules: the product's pinned rule if it is one
\* of them, else the one of the most specific scope; none is an error.
ResolveRule(rules, keys) ==
  LET Matches(k) == {r \in rules : r.scope = Scopes[k] /\ r.ref = keys[Scopes[k]]}
      Hits == {k \in 1..5 : Matches(k) # {}}
      First == CHOOSE k \in Hits : \A l \in Hits : k <= l
  IN {r \in rules : r.id = keys.pin} \cup
     (IF (\E r \in rules : r.id = keys.pin) \/ Hits = {} THEN {}
      ELSE {CHOOSE r \in Matches(First) : TRUE})
=============================================================================
