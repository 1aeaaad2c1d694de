----------------------------- MODULE MCDeposits -----------------------------
(* A small instance of Deposits: one deposit of each provider, two requests  *)
(* at a time.                                                                *)
EXTENDS Deposits

CONSTANTS ps, ox, h1, h2

OnePaystack == {ps}
OneOxapay == {ox}
TwoHandlers == {h1, h2}
=============================================================================
