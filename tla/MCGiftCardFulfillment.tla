----------------------- MODULE MCGiftCardFulfillment -----------------------
(* One gift card order with one handler beside the two workers.              *)
EXTENDS GiftCardFulfillment

CONSTANTS card, h1

OneCard == {card}
OneHandler == {h1}
AllButSweep == {"webhook", "reveal", "throw"}
SweepOnly == {"sweep"}

\* An admin's retry, or a failed call, or a crash: one of the three.
OneDisturbance == retries + throws + crashes <= 1
=============================================================================
