------------------------------- MODULE Ledger -------------------------------
(***************************************************************************)
(* What the wallet promises its callers: an atomic ledger.  A posting       *)
(* either takes effect at once, under a reference no earlier posting used,  *)
(* or leaves no trace; nobody ever owes money.  WalletService reaches this  *)
(* through several database round trips (module Wallet).                    *)
(***************************************************************************)
EXTENDS Integers, Sequences

CONSTANTS Users,       \* wallet owners
          References   \* idempotency keys: purchase_<order>, refund_<order>, deposit_..., adjustment_...

VARIABLES balance,     \* balance[u]: Wallet.balance
          rows         \* rows[u]: the WalletTransaction rows of u, oldest first

ledgerVars == <<balance, rows>>

\* Some row, of any wallet, already carries this reference.
Posted(ref) == \E u \in Users : \E i \in 1..Len(rows[u]) : rows[u][i].reference = ref

\* Add `delta` (negative for a charge) to u's wallet and record it.
Post(u, ref, delta) ==
  /\ ~Posted(ref)
  /\ balance[u] + delta >= 0
  /\ balance' = [balance EXCEPT ![u] = @ + delta]
  /\ rows' = [rows EXCEPT ![u] = Append(@, [reference |-> ref,
                                            delta |-> delta,
                                            balanceAfter |-> balance[u] + delta])]

LedgerInit ==
  /\ balance = [u \in Users |-> 0]
  /\ rows = [u \in Users |-> <<>>]

\* Some posting: its delta is the change it makes to the balance.
LedgerNext == \E u \in Users, ref \in References : Post(u, ref, balance'[u] - balance[u])

LedgerSpec == LedgerInit /\ [][LedgerNext]_ledgerVars
=============================================================================
