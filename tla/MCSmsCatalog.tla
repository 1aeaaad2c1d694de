---------------------------- MODULE MCSmsCatalog ----------------------------
(* Three offers, one of them new, and a plan of each kind.                   *)
EXTENDS SmsCatalog

CONSTANTS o1, o2, o3, p1, p0

ThreeOffers == {o1, o2, o3}
TwoPlans == {p1, p0}
PlanExtendable == {p1}
AllButOne == {o1, o2, p1, p0}
\* 0.0333 and 0.1: the first is rounded under a markup of 5%.
TwoCosts == {333, 1000}
GlobalRule == [scope |-> "GLOBAL", ref |-> "*", markup |-> 20, floor |-> 0]
\* A floor between the two marked-up costs, for one of the countries.
CountryRule == [scope |-> "COUNTRY", ref |-> "us", markup |-> 5, floor |-> 900]
TwoRules == {GlobalRule, CountryRule}
KeysOf == [i \in ThreeOffers \cup TwoPlans |->
  [RENTAL_SKU |-> IF i \in TwoPlans THEN "sku" ELSE "none",
   SERVICE |-> IF i \in TwoPlans THEN "none" ELSE "whatsapp",
   COUNTRY |-> IF i \in {o1, p1} THEN "us" ELSE "de", GLOBAL |-> "*"]]
Bargain == {100}

\* One price to begin with, and two of edits, changes at SMSPool and failures.
TwoDisturbances ==
  /\ changes = 0 => \A i \in Items : cost[i] = 1000
  /\ edits + changes + faults <= 2
=============================================================================
