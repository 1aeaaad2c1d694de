------------------------------ MODULE MCWallet ------------------------------
(* A small instance of Wallet: a deposit, a purchase and an admin deduction  *)
(* racing for one wallet, a refund and a rejected call for another.          *)
EXTENDS Wallet

CONSTANTS alice, bob, p1, p2

MCUsers == {alice, bob}
MCReferences == {"deposit", "purchase", "adjustment", "refund", "bad"}
MCProcs == {p1, p2}

Op(op, u, amount, ref) == [op |-> op, user |-> u, amount |-> amount, reference |-> ref]

MCCalls == {Op("credit", alice, 2, "deposit"), Op("debit", alice, 2, "purchase"),
            Op("adjust", alice, -1, "adjustment"),
            Op("refund", bob, 1, "refund"), Op("credit", bob, 0, "bad")}
=============================================================================
