------------------------------- MODULE Wallet -------------------------------
(***************************************************************************)
(* WalletService: credit, debit, refund and adjust as they run, one action  *)
(* per database round trip.  Every call first looks its reference up        *)
(* outside any transaction; the transaction then reads the wallet, updates  *)
(* it only where the version is still the one it read, inserts the ledger   *)
(* row (unique reference) and commits.  PostgreSQL runs it READ COMMITTED:  *)
(* the update takes the row's lock, which the transaction holds until it    *)
(* ends, and an insert waits for an uncommitted row of the same reference.  *)
(***************************************************************************)
EXTENDS Integers, Sequences

CONSTANTS Users,       \* wallet owners
          References,  \* idempotency keys
          Calls,       \* the calls the rest of the system makes
          Procs,       \* HTTP handlers and queue workers calling the service
          Nobody       \* holder of a free row lock

Ops == {"credit", "refund", "debit", "adjust"}

ASSUME CallsAssumption ==
  Calls \subseteq [op : Ops, user : Users, amount : Int, reference : References]

\* A reference names one business operation (purchase_<order id>,
\* refund_<order id>, deposit_<provider>_<intent>, adjustment_<uuid>), so two
\* calls that share it are the same call, retried.
ASSUME CallsKeyed == \A c, d \in Calls : c.reference = d.reference => c = d

ASSUME NobodyAssumption == Nobody \notin Procs

VARIABLES opened,   \* users whose wallet row exists
          balance,  \* Wallet.balance, as committed
          version,  \* Wallet.version, as committed
          rows,     \* committed WalletTransaction rows of a wallet, oldest first
          holder,   \* the transaction that holds a wallet row's lock
          pc,       \* where a caller is inside the service
          call,     \* the call it is making (or made last)
          seen,     \* balance and version its transaction read
          reply,    \* how its last call ended
          emitted   \* WalletCredited events emitted per reference

vars == <<opened, balance, version, rows, holder, pc, call, seen, reply, emitted>>
walletRows == <<opened, balance, version, rows>>

Labels == {"idle", "precheck", "read", "update", "insert", "commit", "emit"}
Replies == {"none", "invalid", "existing", "posted", "notFound", "insufficient",
            "conflict", "duplicate", "lost"}

\* What a call adds to the balance.
Delta(c) == IF c.op = "debit" THEN -c.amount ELSE c.amount

\* credit, refund and debit want a positive amount, adjust a non-zero one.
ValidAmount(c) == IF c.op = "adjust" THEN c.amount # 0 ELSE c.amount > 0

\* debit is the one operation that announces nothing.
Announces(c) == c.op # "debit"

\* The reference is taken by a committed row of any wallet.
Posted(ref) == \E u \in Users : \E i \in 1..Len(rows[u]) : rows[u][i].reference = ref

RowOf(p) == [reference |-> call[p].reference,
             delta |-> Delta(call[p]),
             balanceAfter |-> seen[p].balance + Delta(call[p])]

NoRead == [balance |-> 0, version |-> 0]

Init ==
  /\ opened = {}
  /\ balance = [u \in Users |-> 0]
  /\ version = [u \in Users |-> 0]
  /\ rows = [u \in Users |-> <<>>]
  /\ holder = [u \in Users |-> Nobody]
  /\ pc = [p \in Procs |-> "idle"]
  /\ call \in [Procs -> Calls]
  /\ seen = [p \in Procs |-> NoRead]
  /\ reply = [p \in Procs |-> "none"]
  /\ emitted = [r \in References |-> 0]

\* Go on to `label` inside the call.
Goto(p, label) == pc' = [pc EXCEPT ![p] = label] /\ UNCHANGED reply

\* Return or throw: the call ends with `answer`.
Return(p, answer) ==
  /\ pc' = [pc EXCEPT ![p] = "idle"]
  /\ reply' = [reply EXCEPT ![p] = answer]

-----------------------------------------------------------------------------
\* First login creates the user with an empty wallet.
OpenWallet(u) ==
  /\ u \notin opened
  /\ opened' = opened \cup {u}
  /\ UNCHANGED <<balance, version, rows, holder, pc, call, seen, reply, emitted>>

\* A caller enters the service; a non-positive (adjust: zero) amount is rejected.
Enter(p, c) ==
  /\ pc[p] = "idle"
  /\ call' = [call EXCEPT ![p] = c]
  /\ seen' = [seen EXCEPT ![p] = NoRead]
  /\ IF ValidAmount(c)
       THEN pc' = [pc EXCEPT ![p] = "precheck"] /\ reply' = [reply EXCEPT ![p] = "none"]
       ELSE Return(p, "invalid")
  /\ UNCHANGED <<walletRows, holder, emitted>>

\* The lookup of the reference, before and outside the transaction.
Precheck(p) ==
  /\ pc[p] = "precheck"
  /\ IF Posted(call[p].reference) THEN Return(p, "existing") ELSE Goto(p, "read")
  /\ UNCHANGED <<walletRows, holder, call, seen, emitted>>

\* Mutant: the balance is not checked.
ReadUnchecked(p) ==
  /\ pc[p] = "read" /\ call[p].user \in opened
  /\ seen' = [seen EXCEPT ![p] = [balance |-> balance[call[p].user],
                                 version |-> version[call[p].user]]]
  /\ Goto(p, "update")
  /\ UNCHANGED <<walletRows, holder, call, emitted>>

\* The transaction reads the wallet; a charge beyond the balance is refused.
ReadWallet(p) ==
  LET u == call[p].user IN
  /\ pc[p] = "read"
  /\ \/ u \notin opened /\ Return(p, "notFound") /\ UNCHANGED seen
     \/ /\ u \in opened
        /\ Delta(call[p]) < 0 /\ balance[u] + Delta(call[p]) < 0
        /\ Return(p, "insufficient") /\ UNCHANGED seen
     \/ /\ u \in opened
        /\ Delta(call[p]) < 0 => balance[u] + Delta(call[p]) >= 0
        /\ seen' = [seen EXCEPT ![p] = [balance |-> balance[u], version |-> version[u]]]
        /\ Goto(p, "update")
  /\ UNCHANGED <<walletRows, holder, call, emitted>>

\* Mutant: the update does not ask for the version that was read.
UpdateUnversioned(p) ==
  /\ pc[p] = "update" /\ holder[call[p].user] = Nobody
  /\ holder' = [holder EXCEPT ![call[p].user] = p] /\ Goto(p, "insert")
  /\ UNCHANGED <<walletRows, call, seen, emitted>>

\* Mutant: an update that matched no row is taken for a success.
UpdateUncounted(p) ==
  LET u == call[p].user IN
  /\ pc[p] = "update" /\ holder[u] = Nobody
  /\ IF version[u] = seen[p].version
       THEN holder' = [holder EXCEPT ![u] = p] /\ Goto(p, "insert")
       ELSE Return(p, "posted") /\ UNCHANGED holder
  /\ UNCHANGED <<walletRows, call, seen, emitted>>

\* UPDATE wallet WHERE id AND version: waits for the row's lock, then matches
\* the row only if nobody committed in between; no match makes Prisma throw.
UpdateWallet(p) ==
  LET u == call[p].user IN
  /\ pc[p] = "update"
  /\ holder[u] = Nobody
  /\ IF version[u] = seen[p].version
       THEN holder' = [holder EXCEPT ![u] = p] /\ Goto(p, "insert")
       ELSE Return(p, "conflict") /\ UNCHANGED holder
  /\ UNCHANGED <<walletRows, call, seen, emitted>>

\* Mutant: the reference column is not unique.
InsertUnchecked(p) ==
  /\ pc[p] = "insert" /\ Goto(p, "commit")
  /\ UNCHANGED <<walletRows, holder, call, seen, emitted>>

\* Mutant: a duplicate reference is caught and the event emitted all the same.
InsertCaught(p) ==
  LET u == call[p].user IN
  /\ pc[p] = "insert"
  /\ \A q \in Procs : pc[q] = "commit" => call[q].reference # call[p].reference
  /\ IF Posted(call[p].reference)
       THEN holder' = [holder EXCEPT ![u] = Nobody] /\ Goto(p, "emit")
       ELSE Goto(p, "commit") /\ UNCHANGED holder
  /\ UNCHANGED <<walletRows, call, seen, emitted>>

\* Mutant: the failed transaction is never rolled back.
InsertKeepsLock(p) ==
  /\ pc[p] = "insert"
  /\ \A q \in Procs : pc[q] = "commit" => call[q].reference # call[p].reference
  /\ IF Posted(call[p].reference) THEN Return(p, "duplicate") ELSE Goto(p, "commit")
  /\ UNCHANGED <<walletRows, holder, call, seen, emitted>>

\* INSERT the ledger row: waits while another transaction holds an uncommitted
\* row of this reference, and fails if a committed one exists (rollback).
InsertRow(p) ==
  LET u == call[p].user IN
  /\ pc[p] = "insert"
  /\ \A q \in Procs : pc[q] = "commit" => call[q].reference # call[p].reference
  /\ IF Posted(call[p].reference)
       THEN holder' = [holder EXCEPT ![u] = Nobody] /\ Return(p, "duplicate")
       ELSE Goto(p, "commit") /\ UNCHANGED holder
  /\ UNCHANGED <<walletRows, call, seen, emitted>>

\* Mutant: the version is counted down.
CommitVersionDown(p) ==
  LET u == call[p].user IN
  /\ pc[p] = "commit"
  /\ balance' = [balance EXCEPT ![u] = seen[p].balance + Delta(call[p])]
  /\ version' = [version EXCEPT ![u] = @ - 1]
  /\ rows' = [rows EXCEPT ![u] = Append(@, RowOf(p))]
  /\ holder' = [holder EXCEPT ![u] = Nobody]
  /\ IF Announces(call[p]) THEN Goto(p, "emit") ELSE Return(p, "posted")
  /\ UNCHANGED <<opened, call, seen, emitted>>

\* COMMIT: balance, version and row become visible together.
Commit(p) ==
  LET u == call[p].user IN
  /\ pc[p] = "commit"
  /\ balance' = [balance EXCEPT ![u] = seen[p].balance + Delta(call[p])]
  /\ version' = [version EXCEPT ![u] = @ + 1]
  /\ rows' = [rows EXCEPT ![u] = Append(@, RowOf(p))]
  /\ holder' = [holder EXCEPT ![u] = Nobody]
  /\ IF Announces(call[p]) THEN Goto(p, "emit") ELSE Return(p, "posted")
  /\ UNCHANGED <<opened, call, seen, emitted>>

\* The event goes out after the commit, in memory.
Emit(p) ==
  /\ pc[p] = "emit"
  /\ emitted' = [emitted EXCEPT ![call[p].reference] = @ + 1]
  /\ Return(p, "posted")
  /\ UNCHANGED <<walletRows, holder, call, seen>>

\* The process dies or loses its connection: PostgreSQL rolls the open
\* transaction back and frees its lock; a pending event is gone.
Abort(p) ==
  LET u == call[p].user IN
  /\ pc[p] # "idle"
  /\ holder' = [holder EXCEPT ![u] = IF @ = p THEN Nobody ELSE @]
  /\ Return(p, "lost")
  /\ UNCHANGED <<walletRows, call, seen, emitted>>

Step(p) == Precheck(p) \/ ReadWallet(p) \/ UpdateWallet(p) \/ InsertRow(p) \/ Commit(p) \/ Emit(p)

Next ==
  \/ \E u \in Users : OpenWallet(u)
  \/ \E p \in Procs : \E c \in Calls : Enter(p, c)
  \/ \E p \in Procs : Step(p) \/ Abort(p)

Spec == Init /\ [][Next]_vars

\* A started call is not left hanging by the runtime; the row lock is granted
\* in queue order, so a waiter that can keep getting it gets it.
Fairness == \A p \in Procs : WF_vars(Step(p)) /\ SF_vars(UpdateWallet(p))

FairSpec == Spec /\ Fairness

-----------------------------------------------------------------------------
RowType == [reference : References, delta : Int, balanceAfter : Int]

\* Every variable has the shape of the column or local it stands for.
TypeOK ==
  /\ opened \subseteq Users
  /\ balance \in [Users -> Int]
  /\ version \in [Users -> Nat]
  /\ rows \in [Users -> Seq(RowType)]
  /\ holder \in [Users -> Procs \cup {Nobody}]
  /\ pc \in [Procs -> Labels]
  /\ call \in [Procs -> Calls]
  /\ seen \in [Procs -> [balance : Int, version : Nat]]
  /\ reply \in [Procs -> Replies]
  /\ emitted \in [References -> Nat]

\* What a wallet held before its i-th row.
Opening(u, i) == IF i = 1 THEN 0 ELSE rows[u][i - 1].balanceAfter

\* No posting is lost or overwritten by a concurrent one: the rows of a wallet
\* chain from zero, each balanceAfter being the one before plus the row's own
\* delta, the wallet's balance is the last one, and its version counts them.
LedgerConsistent ==
  \A u \in Users :
    /\ \A i \in 1..Len(rows[u]) : rows[u][i].balanceAfter = Opening(u, i) + rows[u][i].delta
    /\ balance[u] = Opening(u, Len(rows[u]) + 1)
    /\ version[u] = Len(rows[u])

\* Charges that pass the balance check together never overdraw the wallet:
\* neither the balance nor any balance a ledger row records is negative.
NeverOverdrawn ==
  \A u \in Users :
    /\ balance[u] >= 0
    /\ \A i \in 1..Len(rows[u]) : rows[u][i].balanceAfter >= 0

\* However often a call is repeated or raced, its reference is posted once,
\* in one wallet: two rows with one reference are the same row.
PostedOnce ==
  \A u, v \in Users : \A i \in 1..Len(rows[u]), j \in 1..Len(rows[v]) :
    rows[u][i].reference = rows[v][j].reference => u = v /\ i = j

\* The caller may believe the answer: after a success (its own posting or an
\* earlier one found by reference) and after a unique-reference failure, the
\* user's ledger holds this call's row, for this call's amount.
AnswersHold ==
  \A p \in Procs :
    reply[p] \in {"existing", "posted", "duplicate"} =>
      \E i \in 1..Len(rows[call[p].user]) :
        /\ rows[call[p].user][i].reference = call[p].reference
        /\ rows[call[p].user][i].delta = Delta(call[p])

\* A wallet event is announced at most once per reference, and only for money
\* that has been committed to the ledger.
EventsFollowPostings ==
  \A r \in References : emitted[r] <= 1 /\ (emitted[r] = 1 => Posted(r))

-----------------------------------------------------------------------------
(* The inductive invariant: what must be true between two round trips for    *)
(* the properties above to survive the next one.                             *)

\* A row lock is held exactly by the transaction that updated the row and has
\* not ended, and what that transaction read is still the committed wallet.
LockDiscipline ==
  /\ \A p \in Procs : pc[p] \in {"insert", "commit"} =>
       /\ holder[call[p].user] = p
       /\ seen[p] = [balance |-> balance[call[p].user], version |-> version[call[p].user]]
  /\ \A u \in Users : holder[u] # Nobody =>
       pc[holder[u]] \in {"insert", "commit"} /\ call[holder[u]].user = u

\* A transaction past its read has checked the balance it read, and if the
\* version it read is still current, so is that balance.
ReadsCheckedAndCurrent ==
  \A p \in Procs : pc[p] \in {"update", "insert", "commit"} =>
    /\ seen[p].balance + Delta(call[p]) >= 0
    /\ seen[p].version = version[call[p].user] => seen[p].balance = balance[call[p].user]
    /\ seen[p].version <= version[call[p].user]

\* A transaction about to commit has a reference that no committed row and no
\* other uncommitted row carries.
ReferenceReserved ==
  \A p \in Procs : pc[p] = "commit" =>
    /\ ~Posted(call[p].reference)
    /\ \A q \in Procs : pc[q] = "commit" /\ call[q].reference = call[p].reference => q = p

\* A caller about to announce has its row posted and not yet announced, and
\* no other caller is about to announce the same row.
AnnouncementPending ==
  \A p \in Procs : pc[p] = "emit" =>
    /\ Posted(call[p].reference)
    /\ emitted[call[p].reference] = 0
    /\ \A q \in Procs : pc[q] = "emit" /\ call[q].reference = call[p].reference => q = p

\* Every row was posted by a call the system makes.
RowsComeFromCalls ==
  \A u \in Users : \A i \in 1..Len(rows[u]) :
    \E c \in Calls : /\ c.user = u /\ c.reference = rows[u][i].reference
                    /\ Delta(c) = rows[u][i].delta

\* The half of the invariant that concerns locks, reads and balances.
MoneyInv == /\ TypeOK /\ LedgerConsistent /\ NeverOverdrawn
            /\ LockDiscipline /\ ReadsCheckedAndCurrent

\* Seen through its committed rows, the service is the atomic ledger.
L == INSTANCE Ledger WITH balance <- balance, rows <- rows
ImplementsLedger == L!LedgerSpec

\* Every call returns: no wait for a lock or a duplicate row lasts forever.
EveryCallReturns == \A p \in Procs : pc[p] = "precheck" ~> pc[p] = "idle"
=============================================================================
