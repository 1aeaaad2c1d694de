------------------------- MODULE MCGiftCardCatalog -------------------------
(* Two listed products on pages of one, at a good and at a poor commission.  *)
EXTENDS GiftCardCatalog, TLC

CONSTANTS h1, h2

TwoAdmins == {h1, h2}
TwoProducts == {1, 2}
SecondRanged == {2}
\* A card of 4.99 at 3% commission, whose floor is not a whole number of cents,
\* and at none.
CardAt(disc) == [face |-> 49900, cost |-> 49900, feePct |-> 0, feeFixed |-> 0,
                discPct |-> disc, same |-> TRUE, rate |-> 100]
TwoOffers == {CardAt(3), CardAt(0)}
GlobalRule == [id |-> "global", scope |-> "GLOBAL", ref |-> "*", minMargin |-> 5, discount |-> 1, maxOver |-> 3]
ProductRule == [id |-> "product", scope |-> "PRODUCT", ref |-> "1", minMargin |-> 5, discount |-> 1, maxOver |-> 10]
TwoRules == {GlobalRule, ProductRule}
KeysOf == [p \in TwoProducts |->
  [pin |-> "none", PRODUCT |-> IF p = 1 THEN "1" ELSE "2", BRAND |-> "b", CATEGORY |-> "c",
   COUNTRY |-> "de", GLOBAL |-> "*"]]
LossLeader == {400}

AdminsSymmetric == Permutations(TwoAdmins)

\* Two of runs and edits together (two syncs, a sync and an edit, two edits), and
\* three of these, changes at Reloadly and failures.
ThreeThings ==
  /\ Len(runs) + edits <= 2
  /\ Len(runs) + edits + changes + faults <= 3
=============================================================================
