------------------------- MODULE MCEsimFulfillment -------------------------
(* Small instances of EsimFulfillment: one purchase, or two top-ups of one   *)
(* eSIM, with one or two handlers; two attempts and one or two polls reach   *)
(* the first, a middle and the last attempt of every retry chain.            *)
EXTENDS EsimFulfillment, TLC

CONSTANTS buy, top1, top2, h1, h2

NoOrders == {}
OnePurchase == {buy}
OneTopUp == {top1}
TwoTopUps == {top1, top2}
OneHandler == {h1}
TwoHandlers == {h1, h2}

WebhookOnly == {"webhook"}
SweepOnly == {"sweep"}
NoEntries == {}
WebhookSweep == {"webhook", "sweep"}
WebhookRefresh == {"webhook", "refresh"}

HandlersSymmetric == Permutations(TwoHandlers)
TopUpsSymmetric == Permutations(TwoHandlers) \cup Permutations(TwoTopUps)
=============================================================================
