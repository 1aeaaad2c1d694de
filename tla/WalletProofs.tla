---------------------------- MODULE WalletProofs ----------------------------
(***************************************************************************)
(* Theorems about Wallet, for any set of users, references, callers and     *)
(* calls: its type invariant, its safety invariants, and that it implements *)
(* the atomic Ledger.  The argument is one inductive invariant in two       *)
(* parts: MoneyInv (locks, reads and balances) and RefInv (which      *)
(* reference is posted, by whom, and who announces it).                     *)
(***************************************************************************)
EXTENDS Wallet, TLAPS

\* The callers' records have the fields the service reads.
LEMMA CallFields ==
  ASSUME NEW c \in Calls
  PROVE  /\ c.user \in Users /\ c.reference \in References
         /\ c.amount \in Int /\ Delta(c) \in Int
  BY CallsAssumption DEF Delta

\* What a step does to the type invariant, action by action.
LEMMA TypeStep == TypeOK /\ [Next]_vars => TypeOK'
<1> SUFFICES ASSUME TypeOK, [Next]_vars PROVE TypeOK'
  OBVIOUS
<1> USE DEF TypeOK, Labels, Replies, walletRows, Goto, Return, NoRead
<1>1. ASSUME NEW u \in Users, OpenWallet(u) PROVE TypeOK'
  BY <1>1 DEF OpenWallet
<1>2. ASSUME NEW p \in Procs, NEW c \in Calls, Enter(p, c) PROVE TypeOK'
  <2>1. seen' \in [Procs -> [balance : Int, version : Nat]]
    <3>1. NoRead \in [balance : Int, version : Nat]
      OBVIOUS
    <3>2. QED
      BY <1>2, <3>1 DEF Enter
  <2>2. pc' \in [Procs -> Labels] /\ reply' \in [Procs -> Replies]
    BY <1>2 DEF Enter
  <2>3. QED
    BY <1>2, <2>1, <2>2 DEF Enter
<1>3. ASSUME NEW p \in Procs, Precheck(p) PROVE TypeOK'
  BY <1>3 DEF Precheck
<1>4. ASSUME NEW p \in Procs, ReadWallet(p) PROVE TypeOK'
  <2> DEFINE u == call[p].user
             read == [balance |-> balance[u], version |-> version[u]]
  <2>1. u \in Users
    BY CallFields
  <2>2. read \in [balance : Int, version : Nat]
    BY <2>1
  <2>3. seen' = seen \/ seen' = [seen EXCEPT ![p] = read]
    BY <1>4 DEF ReadWallet
  <2>4. seen' \in [Procs -> [balance : Int, version : Nat]]
    BY <2>2, <2>3
  <2>5. pc' \in [Procs -> Labels] /\ reply' \in [Procs -> Replies]
    BY <1>4 DEF ReadWallet
  <2>6. QED
    BY <1>4, <2>4, <2>5 DEF ReadWallet
<1>5. ASSUME NEW p \in Procs, UpdateWallet(p) PROVE TypeOK'
  BY <1>5, CallFields DEF UpdateWallet
<1>6. ASSUME NEW p \in Procs, InsertRow(p) PROVE TypeOK'
  BY <1>6, CallFields DEF InsertRow
<1>7. ASSUME NEW p \in Procs, Commit(p) PROVE TypeOK'
  <2> DEFINE u == call[p].user
  <2>1. u \in Users /\ call[p] \in Calls /\ Delta(call[p]) \in Int /\ call[p].reference \in References
    BY CallFields
  <2>2. seen[p].balance \in Int
    OBVIOUS
  <2>3. RowOf(p) \in RowType
    BY <2>1, <2>2 DEF RowOf, RowType
  <2>4. rows' \in [Users -> Seq(RowType)]
    BY <2>1, <2>3, <1>7 DEF Commit
  <2>5. balance' \in [Users -> Int] /\ version' \in [Users -> Nat]
    BY <2>1, <2>2, <1>7 DEF Commit
  <2>6. holder' \in [Users -> Procs \cup {Nobody}] /\ pc' \in [Procs -> Labels] /\ reply' \in [Procs -> Replies]
    BY <1>7 DEF Commit
  <2>7. QED
    BY <1>7, <2>4, <2>5, <2>6 DEF Commit
<1>8. ASSUME NEW p \in Procs, Emit(p) PROVE TypeOK'
  BY <1>8, CallFields DEF Emit
<1>9. ASSUME NEW p \in Procs, Abort(p) PROVE TypeOK'
  BY <1>9, CallFields DEF Abort
<1>10. CASE UNCHANGED vars
  BY <1>10 DEF vars
<1>11. QED
  BY <1>1, <1>2, <1>3, <1>4, <1>5, <1>6, <1>7, <1>8, <1>9, <1>10 DEF Next, Step

\* The state of every wallet, caller and lock stays well formed.
THEOREM TypeCorrect == Spec => []TypeOK
<1>1. Init => TypeOK
  BY DEF Init, TypeOK, Labels, Replies, NoRead
<1>2. QED
  BY <1>1, TypeStep, PTL DEF Spec

-----------------------------------------------------------------------------
\* A step that leaves the committed wallets alone keeps what is said of them.
LEMMA LedgerUntouched ==
  ASSUME LedgerConsistent, NeverOverdrawn, UNCHANGED walletRows
  PROVE  LedgerConsistent' /\ NeverOverdrawn'
  BY DEF LedgerConsistent, NeverOverdrawn, Opening, walletRows

\* The committing transaction still sees the committed wallet, and what it is
\* about to write is not negative.
LEMMA CommitReads ==
  ASSUME MoneyInv, NEW p \in Procs, pc[p] = "commit"
  PROVE  /\ call[p].user \in Users /\ Delta(call[p]) \in Int
         /\ seen[p].balance = balance[call[p].user]
         /\ seen[p].version = version[call[p].user]
         /\ balance[call[p].user] + Delta(call[p]) >= 0
<1>1. call[p] \in Calls /\ seen[p] \in [balance : Int, version : Nat]
  BY DEF MoneyInv, TypeOK
<1>2. call[p].user \in Users /\ Delta(call[p]) \in Int
  BY <1>1, CallFields
<1>3. seen[p] = [balance |-> balance[call[p].user], version |-> version[call[p].user]]
  BY DEF MoneyInv, LockDiscipline
<1>4. seen[p].balance + Delta(call[p]) >= 0
  BY DEF MoneyInv, ReadsCheckedAndCurrent
<1>5. QED
  BY <1>2, <1>3, <1>4

\* Committing appends a row that chains to the one before it.
LEMMA CommitLedger ==
  ASSUME MoneyInv, NEW p \in Procs, Commit(p)
  PROVE  LedgerConsistent' /\ NeverOverdrawn'
<1> DEFINE d == Delta(call[p])
<1>0. PICK u \in Users : u = call[p].user
  BY CommitReads DEF Commit
<1>1. /\ u \in Users /\ d \in Int
      /\ seen[p].balance = balance[u] /\ seen[p].version = version[u]
      /\ balance[u] + d >= 0
  BY <1>0, CommitReads DEF Commit
<1>2. /\ balance \in [Users -> Int] /\ version \in [Users -> Nat]
      /\ rows \in [Users -> Seq(RowType)]
  BY DEF MoneyInv, TypeOK
<1>3. /\ balance' = [balance EXCEPT ![u] = balance[u] + d]
      /\ version' = [version EXCEPT ![u] = version[u] + 1]
      /\ rows' = [rows EXCEPT ![u] = Append(rows[u], RowOf(p))]
      /\ RowOf(p).delta = d /\ RowOf(p).balanceAfter = balance[u] + d
  BY <1>0, <1>1, <1>2 DEF Commit, RowOf
<1>4. ASSUME NEW v \in Users, v # u
      PROVE  balance'[v] = balance[v] /\ version'[v] = version[v] /\ rows'[v] = rows[v]
  BY <1>2, <1>3, <1>4
<1>5. /\ balance'[u] = balance[u] + d /\ version'[u] = version[u] + 1
      /\ rows'[u] = Append(rows[u], RowOf(p))
  BY <1>1, <1>2, <1>3
<1>6. /\ Len(rows[u]) \in Nat /\ Len(rows'[u]) = Len(rows[u]) + 1
      /\ rows'[u][Len(rows[u]) + 1] = RowOf(p)
      /\ \A i \in 1..Len(rows[u]) : rows'[u][i] = rows[u][i]
  <2>1. rows[u] \in Seq(RowType)
    BY <1>1, <1>2
  <2>2. QED
    BY <2>1, <1>5
<1>7. ASSUME NEW v \in Users
      PROVE  /\ \A i \in 1..Len(rows'[v]) : rows'[v][i].balanceAfter = (Opening(v, i))' + rows'[v][i].delta
             /\ balance'[v] = (Opening(v, Len(rows[v]) + 1))'
             /\ version'[v] = Len(rows'[v])
             /\ balance'[v] >= 0
             /\ \A i \in 1..Len(rows'[v]) : rows'[v][i].balanceAfter >= 0
  <2>1. CASE v # u
    BY <2>1, <1>4, <1>7 DEF MoneyInv, LedgerConsistent, NeverOverdrawn, Opening
  <2>2. CASE v = u
    <3>1. /\ balance[u] = Opening(u, Len(rows[u]) + 1) /\ version[u] = Len(rows[u])
          /\ \A i \in 1..Len(rows[u]) : /\ rows[u][i].balanceAfter = Opening(u, i) + rows[u][i].delta
                                        /\ rows[u][i].balanceAfter >= 0
      BY <1>1 DEF MoneyInv, LedgerConsistent, NeverOverdrawn
    <3>2. \A i \in 1..(Len(rows[u]) + 1) : (Opening(u, i))' = Opening(u, i)
      BY <1>6 DEF Opening
    <3>3. ASSUME NEW i \in 1..Len(rows'[u])
          PROVE  /\ rows'[u][i].balanceAfter = (Opening(u, i))' + rows'[u][i].delta
                 /\ rows'[u][i].balanceAfter >= 0
      <4>1. CASE i \in 1..Len(rows[u])
        BY <4>1, <3>1, <3>2, <1>6
      <4>2. CASE i = Len(rows[u]) + 1
        BY <4>2, <3>1, <3>2, <1>1, <1>3, <1>6
      <4>3. QED
        BY <4>1, <4>2, <1>6
    <3>4. balance'[u] = (Opening(u, Len(rows[u]) + 1))'
      BY <1>3, <1>5, <1>6 DEF Opening
    <3>5. QED
      BY <2>2, <3>1, <3>3, <3>4, <1>1, <1>5, <1>6
  <2>3. QED
    BY <2>1, <2>2
<1>8. QED
  BY <1>7 DEF LedgerConsistent, NeverOverdrawn

\* Locks and reads survive every step.  Only UpdateWallet takes a lock, and
\* only where the version still is the one read; only the holder commits.
LEMMA LockStep ==
  ASSUME MoneyInv, [Next]_vars
  PROVE  LockDiscipline' /\ ReadsCheckedAndCurrent'
<1> DEFINE InTx == {"insert", "commit"}
           Past == {"update", "insert", "commit"}
           Goal == LockDiscipline' /\ ReadsCheckedAndCurrent'
<1>0. /\ pc \in [Procs -> Labels] /\ holder \in [Users -> Procs \cup {Nobody}]
      /\ call \in [Procs -> Calls] /\ seen \in [Procs -> [balance : Int, version : Nat]]
      /\ balance \in [Users -> Int] /\ version \in [Users -> Nat]
  BY DEF MoneyInv, TypeOK
<1>1. \A p \in Procs : /\ call[p].user \in Users /\ Delta(call[p]) \in Int
                       /\ seen[p].balance \in Int /\ seen[p].version \in Nat
  BY <1>0, CallFields
<1>lock. \A p \in Procs : pc[p] \in InTx =>
           /\ holder[call[p].user] = p
           /\ seen[p] = [balance |-> balance[call[p].user], version |-> version[call[p].user]]
  BY DEF MoneyInv, LockDiscipline
<1>held. \A u \in Users : holder[u] # Nobody =>
           holder[u] \in Procs /\ pc[holder[u]] \in InTx /\ call[holder[u]].user = u
  BY <1>0 DEF MoneyInv, LockDiscipline
<1>read. \A p \in Procs : pc[p] \in Past =>
           /\ seen[p].balance + Delta(call[p]) >= 0
           /\ seen[p].version = version[call[p].user] => seen[p].balance = balance[call[p].user]
           /\ seen[p].version <= version[call[p].user]
  BY DEF MoneyInv, ReadsCheckedAndCurrent
<1>2. /\ \A p \in Procs : pc[p] \in InTx => holder[call[p].user] = p
      /\ \A p, q \in Procs : pc[p] \in InTx /\ pc[q] \in InTx /\ call[p].user = call[q].user => p = q
      /\ \A u \in Users : balance[u] >= 0
  BY <1>lock DEF MoneyInv, NeverOverdrawn
<1>3. ASSUME NEW p \in Procs, pc[p] \notin InTx, NEW l \in Labels \ Past,
             pc' = [pc EXCEPT ![p] = l],
             UNCHANGED <<balance, version, holder>>,
             \A q \in Procs \ {p} : call'[q] = call[q] /\ seen'[q] = seen[q]
      PROVE  Goal
  \* p leaves (or stays out of) the transaction without having held a lock
  <2>1. \A q \in Procs \ {p} : pc'[q] = pc[q]
    BY <1>3, <1>0
  <2>2. pc'[p] \notin Past
    BY <1>3, <1>0
  <2>3. \A u \in Users : holder[u] # p
    BY <1>2, <1>lock, <1>held, <1>read, <1>3, NobodyAssumption
  <2>4. LockDiscipline'
    BY <2>1, <2>2, <2>3, <1>2, <1>lock, <1>held, <1>read, <1>3 DEF LockDiscipline
  <2>5. ReadsCheckedAndCurrent'
    BY <2>1, <2>2, <1>2, <1>lock, <1>held, <1>read, <1>3 DEF ReadsCheckedAndCurrent, Delta
  <2>6. QED
    BY <2>4, <2>5
<1>4. ASSUME NEW p \in Procs, pc[p] \in InTx, pc'[p] \notin Past,
             \A q \in Procs \ {p} : pc'[q] = pc[q],
             holder' = [holder EXCEPT ![call[p].user] = Nobody],
             \A u \in Users \ {call[p].user} : balance'[u] = balance[u] /\ version'[u] = version[u],
             \/ balance'[call[p].user] = balance[call[p].user] /\ version'[call[p].user] = version[call[p].user]
             \/ version'[call[p].user] = version[call[p].user] + 1,
             UNCHANGED <<call, seen>>
      PROVE  Goal
  \* p ends its transaction and frees the lock only it held
  <2>1. \A q \in Procs \ {p} : pc[q] \in InTx => call[q].user # call[p].user
    BY <1>2, <1>4
  <2>2. \A u \in Users \ {call[p].user} : holder'[u] = holder[u] /\ holder[u] # p
    BY <1>0, <1>1, <1>2, <1>lock, <1>held, <1>read, <1>4, NobodyAssumption
  <2>3. holder'[call[p].user] = Nobody
    BY <1>0, <1>1, <1>4
  <2>4. LockDiscipline'
    <3>1. ASSUME NEW q \in Procs, pc'[q] \in InTx
          PROVE  /\ holder'[call'[q].user] = q
                 /\ seen'[q] = [balance |-> balance'[call'[q].user], version |-> version'[call'[q].user]]
      <4>1. q # p /\ pc[q] \in InTx /\ call[q].user \in Users /\ call[q].user # call[p].user
        BY <3>1, <2>1, <1>1, <1>4
      <4>2. holder'[call[q].user] = q
        BY <4>1, <2>2, <1>lock
      <4>3. balance'[call[q].user] = balance[call[q].user] /\ version'[call[q].user] = version[call[q].user]
        BY <4>1, <1>4
      <4>4. QED
        BY <4>1, <4>2, <4>3, <1>lock, <1>4
    <3>2. ASSUME NEW u \in Users, holder'[u] # Nobody
          PROVE  pc'[holder'[u]] \in InTx /\ call'[holder'[u]].user = u
      BY <3>2, <2>2, <2>3, <1>1, <1>2, <1>lock, <1>held, <1>read, <1>4
    <3>3. QED
      BY <3>1, <3>2 DEF LockDiscipline
  <2>5. ReadsCheckedAndCurrent'
    <3>1. ASSUME NEW q \in Procs, pc'[q] \in Past
          PROVE  /\ seen'[q].balance + Delta(call'[q]) >= 0
                 /\ seen'[q].version = version'[call'[q].user] => seen'[q].balance = balance'[call'[q].user]
                 /\ seen'[q].version <= version'[call'[q].user]
      <4>1. q # p /\ pc'[q] = pc[q] /\ call'[q] = call[q] /\ seen'[q] = seen[q]
        BY <3>1, <1>4
      <4>2. CASE call[q].user # call[p].user
        BY <4>1, <4>2, <3>1, <1>1, <1>2, <1>lock, <1>held, <1>read, <1>4
      <4>3. CASE call[q].user = call[p].user
        BY <4>1, <4>3, <3>1, <1>0, <1>1, <1>2, <1>lock, <1>held, <1>read, <1>4
      <4>4. QED
        BY <4>2, <4>3
    <3>2. QED
      BY <3>1 DEF ReadsCheckedAndCurrent, Delta
  <2>6. QED
    BY <2>4, <2>5
<1>5. ASSUME UNCHANGED <<balance, version, holder, pc, call, seen>> PROVE Goal
  BY <1>2, <1>lock, <1>held, <1>read, <1>5 DEF LockDiscipline, ReadsCheckedAndCurrent, Delta
<1>6. ASSUME NEW p \in Procs, NEW c \in Calls, Enter(p, c) PROVE Goal
  <2>1. \E l \in Labels \ Past : pc' = [pc EXCEPT ![p] = l]
    BY <1>6 DEF Enter, Return, Labels
  <2>2. \A q \in Procs \ {p} : call'[q] = call[q] /\ seen'[q] = seen[q]
    BY <1>0, <1>6 DEF Enter
  <2>3. QED
    BY <2>1, <2>2, <1>3, <1>6 DEF Enter, walletRows
<1>7. ASSUME NEW p \in Procs, Precheck(p) PROVE Goal
  <2>1. \E l \in Labels \ Past : pc' = [pc EXCEPT ![p] = l]
    BY <1>7 DEF Precheck, Return, Goto, Labels
  <2>2. QED
    BY <2>1, <1>3, <1>7 DEF Precheck, walletRows
<1>8. ASSUME NEW p \in Procs, ReadWallet(p) PROVE Goal
  <2>1. pc[p] = "read" /\ UNCHANGED <<balance, version, holder, call>>
    BY <1>8 DEF ReadWallet, walletRows
  <2>2. CASE pc' = [pc EXCEPT ![p] = "idle"] /\ UNCHANGED seen
    BY <2>1, <2>2, <1>3 DEF Labels
  <2>3. CASE /\ pc' = [pc EXCEPT ![p] = "update"]
             /\ seen' = [seen EXCEPT ![p] = [balance |-> balance[call[p].user],
                                              version |-> version[call[p].user]]]
             /\ Delta(call[p]) < 0 => balance[call[p].user] + Delta(call[p]) >= 0
    <3>1. \A q \in Procs \ {p} : pc'[q] = pc[q] /\ seen'[q] = seen[q]
      BY <2>3, <1>0
    <3>2. pc'[p] = "update" /\ seen'[p] = [balance |-> balance[call[p].user], version |-> version[call[p].user]]
      BY <2>3, <1>0
    <3>3. LockDiscipline'
      BY <2>1, <3>1, <3>2, <1>2, <1>lock, <1>held, <1>read DEF LockDiscipline
    <3>4. balance[call[p].user] \in Int /\ version[call[p].user] \in Nat
      BY <1>0, <1>1
    <3>5. ReadsCheckedAndCurrent'
      BY <2>1, <2>3, <3>1, <3>2, <3>4, <1>1, <1>2, <1>lock, <1>held, <1>read DEF ReadsCheckedAndCurrent, Delta
    <3>6. QED
      BY <3>3, <3>5
  <2>4. QED
    BY <2>2, <2>3, <1>8 DEF ReadWallet, Return, Goto
<1>9. ASSUME NEW p \in Procs, UpdateWallet(p) PROVE Goal
  <2>1. /\ pc[p] = "update" /\ holder[call[p].user] = Nobody
        /\ UNCHANGED <<balance, version, call, seen>>
    BY <1>9 DEF UpdateWallet, walletRows
  <2>2. CASE pc' = [pc EXCEPT ![p] = "idle"] /\ UNCHANGED holder
    BY <2>1, <2>2, <1>3 DEF Labels
  <2>3. CASE /\ pc' = [pc EXCEPT ![p] = "insert"]
             /\ holder' = [holder EXCEPT ![call[p].user] = p]
             /\ version[call[p].user] = seen[p].version
    <3>1. \A q \in Procs \ {p} : pc'[q] = pc[q]
      BY <2>3, <1>0
    <3>2. pc'[p] = "insert" /\ holder'[call[p].user] = p
      BY <2>3, <1>0, <1>1
    <3>3. \A u \in Users \ {call[p].user} : holder'[u] = holder[u]
      BY <2>3, <1>0
    <3>4. seen[p] = [balance |-> balance[call[p].user], version |-> version[call[p].user]]
      <4>1. seen[p] = [balance |-> seen[p].balance, version |-> seen[p].version]
        BY <1>0
      <4>2. seen[p].version = version[call[p].user] /\ seen[p].balance = balance[call[p].user]
        BY <2>1, <2>3, <1>read
      <4>3. QED
        BY <4>1, <4>2
    <3>5. \A q \in Procs \ {p} : pc[q] \in InTx => call[q].user # call[p].user
      BY <2>1, <1>2, NobodyAssumption
    <3>6. LockDiscipline'
      <4>1. ASSUME NEW q \in Procs, pc'[q] \in InTx
            PROVE  /\ holder'[call'[q].user] = q
                   /\ seen'[q] = [balance |-> balance'[call'[q].user], version |-> version'[call'[q].user]]
        <5>1. CASE q = p
          BY <5>1, <2>1, <3>2, <3>4
        <5>2. CASE q # p
          <6>1. pc[q] \in InTx /\ call[q].user \in Users \ {call[p].user}
            BY <4>1, <5>2, <3>1, <3>5, <1>1
          <6>2. QED
            BY <6>1, <2>1, <3>3, <1>lock
        <5>3. QED
          BY <5>1, <5>2
      <4>2. ASSUME NEW u \in Users, holder'[u] # Nobody
            PROVE  pc'[holder'[u]] \in InTx /\ call'[holder'[u]].user = u
        BY <4>2, <2>1, <3>1, <3>2, <3>3, <1>2, <1>lock, <1>held, <1>read
      <4>3. QED
        BY <4>1, <4>2 DEF LockDiscipline
    <3>7. ReadsCheckedAndCurrent'
      BY <2>1, <3>1, <1>2, <1>lock, <1>held, <1>read DEF ReadsCheckedAndCurrent, Delta
    <3>8. QED
      BY <3>6, <3>7
  <2>4. QED
    BY <2>2, <2>3, <1>9 DEF UpdateWallet, Return, Goto
<1>10. ASSUME NEW p \in Procs, InsertRow(p) PROVE Goal
  <2>1. pc[p] = "insert" /\ UNCHANGED <<balance, version, call, seen>>
    BY <1>10 DEF InsertRow, walletRows
  <2>2. CASE pc' = [pc EXCEPT ![p] = "idle"] /\ holder' = [holder EXCEPT ![call[p].user] = Nobody]
    <3>1. pc'[p] \notin Past /\ \A q \in Procs \ {p} : pc'[q] = pc[q]
      BY <2>2, <1>0
    <3>2. QED
      BY <2>1, <2>2, <3>1, <1>4
  <2>3. CASE pc' = [pc EXCEPT ![p] = "commit"] /\ UNCHANGED holder
    <3>1. \A q \in Procs : pc'[q] \in InTx <=> pc[q] \in InTx
      BY <2>1, <2>3, <1>0
    <3>2. \A q \in Procs : pc'[q] \in Past <=> pc[q] \in Past
      BY <2>1, <2>3, <1>0
    <3>3. LockDiscipline'
      BY <2>1, <2>3, <3>1, <1>2, <1>lock, <1>held, <1>read DEF LockDiscipline
    <3>4. ReadsCheckedAndCurrent'
      BY <2>1, <2>3, <3>2, <1>2, <1>lock, <1>held, <1>read DEF ReadsCheckedAndCurrent, Delta
    <3>5. QED
      BY <3>3, <3>4
  <2>4. QED
    BY <2>2, <2>3, <1>10 DEF InsertRow, Return, Goto
<1>11. ASSUME NEW p \in Procs, Commit(p) PROVE Goal
  <2>1. /\ pc[p] = "commit" /\ UNCHANGED <<call, seen>>
        /\ holder' = [holder EXCEPT ![call[p].user] = Nobody]
        /\ version' = [version EXCEPT ![call[p].user] = version[call[p].user] + 1]
    BY <1>11 DEF Commit
  <2>2. /\ pc'[p] \notin Past
        /\ \A q \in Procs \ {p} : pc'[q] = pc[q]
    BY <1>0, <1>11 DEF Commit, Goto, Return
  <2>3. /\ \A u \in Users \ {call[p].user} : balance'[u] = balance[u] /\ version'[u] = version[u]
        /\ version'[call[p].user] = version[call[p].user] + 1
    BY <1>0, <1>1, <1>11 DEF Commit
  <2>4. QED
    BY <2>1, <2>2, <2>3, <1>4
<1>12. ASSUME NEW p \in Procs, Emit(p) PROVE Goal
  BY <1>3, <1>12 DEF Emit, Return, walletRows, Labels
<1>13. ASSUME NEW p \in Procs, Abort(p) PROVE Goal
  <2>1. pc' = [pc EXCEPT ![p] = "idle"] /\ UNCHANGED <<balance, version, call, seen>>
    BY <1>13 DEF Abort, Return, walletRows
  <2>2. CASE pc[p] \in InTx
    <3>1. holder' = [holder EXCEPT ![call[p].user] = Nobody]
      BY <2>2, <1>2, <1>lock, <1>held, <1>read, <1>13 DEF Abort
    <3>2. pc'[p] \notin Past /\ \A q \in Procs \ {p} : pc'[q] = pc[q]
      BY <2>1, <1>0
    <3>3. QED
      BY <2>1, <2>2, <3>1, <3>2, <1>4
  <2>3. CASE pc[p] \notin InTx
    <3>1. holder[call[p].user] # p
      BY <2>3, <1>1, <1>2, <1>lock, <1>held, <1>read, NobodyAssumption
    <3>2. UNCHANGED holder
      BY <3>1, <1>0, <1>1, <1>13 DEF Abort
    <3>3. QED
      BY <2>1, <2>3, <3>2, <1>3 DEF Labels
  <2>4. QED
    BY <2>2, <2>3
<1>14. ASSUME NEW u \in Users, OpenWallet(u) PROVE Goal
  BY <1>5, <1>14 DEF OpenWallet
<1>15. CASE UNCHANGED vars
  BY <1>5, <1>15 DEF vars
<1>16. QED
  BY <1>6, <1>7, <1>8, <1>9, <1>10, <1>11, <1>12, <1>13, <1>14, <1>15 DEF Next, Step

\* The strengthened invariant holds when nothing has been called yet.
LEMMA MoneyInit == Init => MoneyInv
<1> SUFFICES ASSUME Init PROVE MoneyInv
  OBVIOUS
<1>1. TypeOK
  BY DEF Init, TypeOK, Labels, Replies, NoRead
<1>2. LedgerConsistent /\ NeverOverdrawn
  <2>1. \A u \in Users : rows[u] = <<>> /\ balance[u] = 0 /\ version[u] = 0
    BY DEF Init
  <2>2. QED
    BY <2>1 DEF LedgerConsistent, NeverOverdrawn, Opening
<1>3. LockDiscipline /\ ReadsCheckedAndCurrent
  BY DEF Init, LockDiscipline, ReadsCheckedAndCurrent
<1>4. QED
  BY <1>1, <1>2, <1>3 DEF MoneyInv

\* Every step of every caller keeps it: the version check of the UPDATE
\* and the unique reference of the INSERT do.
LEMMA MoneyStep == MoneyInv /\ [Next]_vars => MoneyInv'
<1> SUFFICES ASSUME MoneyInv, [Next]_vars PROVE MoneyInv'
  OBVIOUS
<1>1. TypeOK'
  BY TypeStep DEF MoneyInv
<1>2. LockDiscipline' /\ ReadsCheckedAndCurrent'
  BY LockStep
<1>3. LedgerConsistent' /\ NeverOverdrawn'
  <2>1. CASE UNCHANGED walletRows
    BY <2>1, LedgerUntouched DEF MoneyInv
  <2>2. CASE \E p \in Procs : Commit(p)
    BY <2>2, CommitLedger
  <2>3. CASE \E u \in Users : OpenWallet(u)
    BY <2>3 DEF OpenWallet, MoneyInv, LedgerConsistent, NeverOverdrawn, Opening
  <2>4. QED
    BY <2>1, <2>2, <2>3 DEF Next, Step, vars, walletRows, Enter, Precheck, ReadWallet,
                            UpdateWallet, InsertRow, Emit, Abort
<1>4. QED
  BY <1>1, <1>2, <1>3 DEF MoneyInv

\* So it holds throughout.
LEMMA MoneyInvariant == Spec => []MoneyInv
  BY MoneyInit, MoneyStep, PTL DEF Spec

\* No interleaving of callers loses or overwrites a posting: the rows of each
\* wallet chain and its balance and version agree with them.
THEOREM LedgerConsistency == Spec => []LedgerConsistent
<1>1. MoneyInv => LedgerConsistent
  BY DEF MoneyInv
<1>2. QED
  BY <1>1, MoneyInvariant, PTL

\* Two charges that passed the balance check together cannot both commit.
THEOREM NoOverdraft == Spec => []NeverOverdrawn
<1>1. MoneyInv => NeverOverdrawn
  BY DEF MoneyInv
<1>2. QED
  BY <1>1, MoneyInvariant, PTL

-----------------------------------------------------------------------------
\* A commit posts its own reference and nothing else.
LEMMA CommitPosts ==
  ASSUME MoneyInv, NEW p \in Procs, Commit(p), NEW r
  PROVE  Posted(r)' <=> Posted(r) \/ r = call[p].reference
<1>1. /\ call[p].user \in Users /\ rows \in [Users -> Seq(RowType)]
  BY CallFields DEF MoneyInv, TypeOK
<1>2. PICK u \in Users : u = call[p].user
  BY <1>1
<1>3. rows' = [rows EXCEPT ![u] = Append(rows[u], RowOf(p))] /\ RowOf(p).reference = call[p].reference
  BY <1>2 DEF Commit, RowOf
<1>4. \A v \in Users \ {u} : rows'[v] = rows[v]
  BY <1>1, <1>3
<1>5. /\ Len(rows[u]) \in Nat /\ Len(rows'[u]) = Len(rows[u]) + 1
      /\ rows'[u][Len(rows[u]) + 1] = RowOf(p)
      /\ \A i \in 1..Len(rows[u]) : rows'[u][i] = rows[u][i]
  <2>1. rows[u] \in Seq(RowType) /\ rows'[u] = Append(rows[u], RowOf(p))
    BY <1>1, <1>3
  <2>2. QED
    BY <2>1
<1>6. ASSUME Posted(r)' PROVE Posted(r) \/ r = call[p].reference
  <2>0. PICK v \in Users : \E i \in 1..Len(rows'[v]) : rows'[v][i].reference = r
    BY <1>6 DEF Posted
  <2>1. PICK i \in 1..Len(rows'[v]) : rows'[v][i].reference = r
    BY <2>0
  <2>2. CASE v # u
    BY <2>1, <2>2, <1>4 DEF Posted
  <2>3. CASE v = u
    BY <2>1, <2>3, <1>3, <1>5 DEF Posted
  <2>4. QED
    BY <2>2, <2>3
<1>7. ASSUME Posted(r) PROVE Posted(r)'
  <2>0. PICK v \in Users : \E i \in 1..Len(rows[v]) : rows[v][i].reference = r
    BY <1>7 DEF Posted
  <2>1. PICK i \in 1..Len(rows[v]) : rows[v][i].reference = r
    BY <2>0
  <2>2. i \in 1..Len(rows'[v]) /\ rows'[v][i] = rows[v][i]
    BY <2>1, <1>4, <1>5
  <2>3. QED
    BY <2>1, <2>2 DEF Posted
<1>8. ASSUME r = call[p].reference PROVE Posted(r)'
  BY <1>8, <1>3, <1>5 DEF Posted
<1>9. QED
  BY <1>6, <1>7, <1>8

\* A call finds its own row under its reference: references are not shared.
LEMMA OwnRow ==
  ASSUME TypeOK, RowsComeFromCalls, NEW c \in Calls, Posted(c.reference)
  PROVE  \E i \in 1..Len(rows[c.user]) : /\ rows[c.user][i].reference = c.reference
                                        /\ rows[c.user][i].delta = Delta(c)
<1>1. PICK u \in Users : \E i \in 1..Len(rows[u]) : rows[u][i].reference = c.reference
  BY DEF Posted
<1>2. PICK i \in 1..Len(rows[u]) : rows[u][i].reference = c.reference
  BY <1>1
<1>3. PICK d \in Calls : /\ d.user = u /\ d.reference = rows[u][i].reference
                        /\ Delta(d) = rows[u][i].delta
  BY DEF RowsComeFromCalls
<1>4. d = c
  BY <1>2, <1>3, CallsKeyed
<1>5. QED
  BY <1>2, <1>3, <1>4

Answered == {"existing", "posted", "duplicate"}

\* The same invariant with the answers stated by reference alone.
RefInv == /\ PostedOnce /\ RowsComeFromCalls /\ ReferenceReserved
          /\ EventsFollowPostings /\ AnnouncementPending
          /\ \A p \in Procs : reply[p] \in Answered => Posted(call[p].reference)

\* Once every posted reference has its row, an answered call is a posted one.
LEMMA RefInvAnswers == TypeOK /\ RefInv => AnswersHold
<1> SUFFICES ASSUME TypeOK, RefInv PROVE AnswersHold
  OBVIOUS
<1>1. ASSUME NEW p \in Procs, reply[p] \in Answered
      PROVE  \E i \in 1..Len(rows[call[p].user]) :
               /\ rows[call[p].user][i].reference = call[p].reference
               /\ rows[call[p].user][i].delta = Delta(call[p])
  BY <1>1, OwnRow DEF RefInv, TypeOK
<1>2. QED
  BY <1>1 DEF AnswersHold, Answered

\* A step that posts nothing and does not enter the commit or the announcement
\* keeps every promise about references, if its answer does.
LEMMA QuietRefs ==
  ASSUME TypeOK, RefInv, NEW p \in Procs, UNCHANGED <<rows, emitted>>,
         \A q \in Procs \ {p} : pc'[q] = pc[q] /\ call'[q] = call[q] /\ reply'[q] = reply[q],
         pc'[p] \notin {"commit", "emit"},
         reply'[p] \in Answered => Posted(call'[p].reference)
  PROVE  RefInv'
<1>1. \A r : Posted(r)' <=> Posted(r)
  BY DEF Posted
<1>2. PostedOnce' /\ RowsComeFromCalls' /\ EventsFollowPostings'
  BY <1>1 DEF RefInv, PostedOnce, RowsComeFromCalls, EventsFollowPostings, Delta
<1>3. ReferenceReserved'
  BY <1>1 DEF RefInv, ReferenceReserved
<1>4. AnnouncementPending'
  BY <1>1 DEF RefInv, AnnouncementPending
<1>5. \A q \in Procs : reply'[q] \in Answered => (Posted(call[q].reference))'
  BY <1>1 DEF RefInv
<1>6. QED
  BY <1>2, <1>3, <1>4, <1>5 DEF RefInv, Answered

\* Every step keeps one row for each posted reference.
LEMMA ReferenceStep ==
  ASSUME MoneyInv, RefInv, [Next]_vars
  PROVE  RefInv'
<1>0. /\ TypeOK /\ TypeOK'
      /\ pc \in [Procs -> Labels] /\ call \in [Procs -> Calls] /\ reply \in [Procs -> Replies]
      /\ emitted \in [References -> Nat]
  BY TypeStep DEF MoneyInv, TypeOK
<1>1. \A p \in Procs : call[p].reference \in References /\ call[p].user \in Users
  BY <1>0, CallFields
<1>2. ASSUME NEW p \in Procs, NEW c \in Calls, Enter(p, c) PROVE RefInv'
  <2>1. /\ UNCHANGED <<rows, emitted>> /\ pc'[p] \in {"precheck", "idle"}
        /\ reply'[p] \in {"none", "invalid"}
        /\ \A q \in Procs \ {p} : pc'[q] = pc[q] /\ call'[q] = call[q] /\ reply'[q] = reply[q]
    BY <1>0, <1>2 DEF Enter, Return, walletRows
  <2>2. QED
    BY <1>0, <2>1, QuietRefs DEF Answered
<1>3. ASSUME NEW p \in Procs, Precheck(p) PROVE RefInv'
  <2>1. /\ UNCHANGED <<rows, emitted, call>> /\ pc'[p] \in {"read", "idle"}
        /\ \A q \in Procs \ {p} : pc'[q] = pc[q] /\ reply'[q] = reply[q]
        /\ reply'[p] = reply[p] \/ Posted(call[p].reference)
    BY <1>0, <1>3 DEF Precheck, Return, Goto, walletRows
  <2>2. QED
    BY <1>0, <2>1, QuietRefs DEF RefInv
<1>4. ASSUME NEW p \in Procs, ReadWallet(p) \/ UpdateWallet(p) \/ Abort(p) PROVE RefInv'
  <2>1. /\ UNCHANGED <<rows, emitted, call>> /\ pc'[p] \in {"update", "insert", "idle"}
        /\ \A q \in Procs \ {p} : pc'[q] = pc[q] /\ reply'[q] = reply[q]
        /\ reply'[p] = reply[p] \/ reply'[p] \in {"notFound", "insufficient", "conflict", "lost"}
    BY <1>0, <1>4 DEF ReadWallet, UpdateWallet, Abort, Return, Goto, walletRows
  <2>2. QED
    BY <1>0, <2>1, QuietRefs DEF RefInv, Answered
<1>5. ASSUME NEW p \in Procs, InsertRow(p) PROVE RefInv'
  <2>1. UNCHANGED <<rows, emitted, call>> /\ pc[p] = "insert"
    BY <1>5 DEF InsertRow, walletRows
  <2>2. CASE Posted(call[p].reference)
    <3>1. /\ pc'[p] = "idle" /\ reply'[p] = "duplicate"
          /\ \A q \in Procs \ {p} : pc'[q] = pc[q] /\ reply'[q] = reply[q]
      BY <1>0, <1>5, <2>2 DEF InsertRow, Return
    <3>2. QED
      BY <1>0, <2>1, <2>2, <3>1, QuietRefs
  <2>3. CASE ~Posted(call[p].reference)
    <3>1. /\ pc' = [pc EXCEPT ![p] = "commit"] /\ UNCHANGED reply
          /\ \A q \in Procs : pc[q] = "commit" => call[q].reference # call[p].reference
      BY <1>5, <2>3 DEF InsertRow, Goto
    <3>2. \A r : Posted(r)' <=> Posted(r)
      BY <2>1 DEF Posted
    <3>3. PostedOnce' /\ RowsComeFromCalls' /\ EventsFollowPostings'
      BY <2>1, <3>2 DEF RefInv, PostedOnce, RowsComeFromCalls, EventsFollowPostings, Delta
    <3>4. ReferenceReserved'
      BY <1>0, <2>1, <2>3, <3>1, <3>2 DEF RefInv, ReferenceReserved
    <3>5. AnnouncementPending'
      BY <1>0, <2>1, <3>1, <3>2 DEF RefInv, AnnouncementPending
    <3>6. QED
      BY <2>1, <3>1, <3>2, <3>3, <3>4, <3>5 DEF RefInv, Answered
  <2>4. QED
    BY <2>2, <2>3
<1>6. ASSUME NEW p \in Procs, Emit(p) PROVE RefInv'
  <2>1. /\ pc[p] = "emit" /\ UNCHANGED <<rows, call>>
        /\ pc' = [pc EXCEPT ![p] = "idle"] /\ reply' = [reply EXCEPT ![p] = "posted"]
        /\ emitted' = [emitted EXCEPT ![call[p].reference] = emitted[call[p].reference] + 1]
    BY <1>6 DEF Emit, Return, walletRows
  <2>2. \A r : Posted(r)' <=> Posted(r)
    BY <2>1 DEF Posted
  <2>3. /\ Posted(call[p].reference) /\ emitted[call[p].reference] = 0
        /\ \A q \in Procs : pc[q] = "emit" /\ call[q].reference = call[p].reference => q = p
    BY <2>1 DEF RefInv, AnnouncementPending
  <2>4. PostedOnce' /\ RowsComeFromCalls'
    BY <2>1, <2>2 DEF RefInv, PostedOnce, RowsComeFromCalls, Delta
  <2>5. ReferenceReserved'
    BY <1>0, <2>1, <2>2 DEF RefInv, ReferenceReserved
  <2>6. /\ emitted'[call[p].reference] = 1
        /\ \A r \in References \ {call[p].reference} : emitted'[r] = emitted[r]
    BY <1>0, <1>1, <2>1, <2>3
  <2>7. EventsFollowPostings'
    BY <2>2, <2>3, <2>6 DEF RefInv, EventsFollowPostings
  <2>8. AnnouncementPending'
    BY <1>0, <1>1, <2>1, <2>2, <2>3, <2>6 DEF RefInv, AnnouncementPending
  <2>9. \A q \in Procs : reply'[q] \in Answered => Posted(call[q].reference)
    BY <1>0, <2>1, <2>3 DEF RefInv
  <2>10. QED
    BY <2>1, <2>2, <2>4, <2>5, <2>7, <2>8, <2>9 DEF RefInv, Answered
<1>7. ASSUME NEW p \in Procs, Commit(p) PROVE RefInv'
  <2>0. PICK u \in Users : u = call[p].user
    BY <1>1
  <2> DEFINE ref == call[p].reference
  <2>1. /\ pc[p] = "commit" /\ UNCHANGED <<call, emitted>>
        /\ rows' = [rows EXCEPT ![u] = Append(rows[u], RowOf(p))]
        /\ \A q \in Procs \ {p} : pc'[q] = pc[q] /\ reply'[q] = reply[q]
        /\ pc'[p] \in {"emit", "idle"}
    BY <1>0, <1>7, <2>0 DEF Commit, Goto, Return
  <2>2. \A r : Posted(r)' <=> Posted(r) \/ r = ref
    BY <1>7, CommitPosts
  <2>3. /\ ~Posted(ref)
        /\ \A q \in Procs \ {p} : pc[q] = "commit" => call[q].reference # ref
    BY <2>1 DEF RefInv, ReferenceReserved
  <2>4. rows[u] \in Seq(RowType) /\ rows'[u] = Append(rows[u], RowOf(p))
        /\ RowOf(p).reference = ref /\ RowOf(p).delta = Delta(call[p])
    BY <1>0, <2>1 DEF TypeOK, RowOf
  <2>5. /\ \A v \in Users \ {u} : rows'[v] = rows[v]
        /\ Len(rows[u]) \in Nat /\ Len(rows'[u]) = Len(rows[u]) + 1
        /\ rows'[u][Len(rows[u]) + 1] = RowOf(p)
        /\ \A i \in 1..Len(rows[u]) : rows'[u][i] = rows[u][i]
    BY <1>0, <2>1, <2>4 DEF TypeOK
  <2>6. \A v \in Users : \A i \in 1..Len(rows[v]) : rows[v][i].reference # ref
    BY <2>3 DEF Posted
  <2>7. ASSUME NEW v \in Users, NEW i \in 1..Len(rows'[v])
        PROVE  \/ i \in 1..Len(rows[v]) /\ rows'[v][i] = rows[v][i]
               \/ v = u /\ i = Len(rows[u]) + 1 /\ rows'[v][i] = RowOf(p)
    BY <2>5
  <2>8. PostedOnce'
    <3>1. ASSUME NEW v \in Users, NEW w \in Users,
                 NEW i \in 1..Len(rows'[v]), NEW j \in 1..Len(rows'[w]),
                 rows'[v][i].reference = rows'[w][j].reference
          PROVE  v = w /\ i = j
      <4>1. CASE /\ i \in 1..Len(rows[v]) /\ rows'[v][i] = rows[v][i]
                 /\ j \in 1..Len(rows[w]) /\ rows'[w][j] = rows[w][j]
        BY <3>1, <4>1 DEF RefInv, PostedOnce
      <4>2. CASE /\ v = u /\ i = Len(rows[u]) + 1 /\ rows'[v][i] = RowOf(p)
                 /\ w = u /\ j = Len(rows[u]) + 1
        BY <4>2
      <4>3. CASE /\ i \in 1..Len(rows[v]) /\ rows'[v][i] = rows[v][i] /\ rows'[w][j] = RowOf(p)
        BY <3>1, <4>3, <2>4, <2>6
      <4>4. CASE /\ j \in 1..Len(rows[w]) /\ rows'[w][j] = rows[w][j] /\ rows'[v][i] = RowOf(p)
        BY <3>1, <4>4, <2>4, <2>6
      <4>5. QED
        BY <4>1, <4>2, <4>3, <4>4, <2>7
    <3>2. QED
      BY <3>1 DEF PostedOnce
  <2>9. RowsComeFromCalls'
    <3>1. ASSUME NEW v \in Users, NEW i \in 1..Len(rows'[v])
          PROVE  \E c \in Calls : /\ c.user = v /\ c.reference = rows'[v][i].reference
                                 /\ Delta(c) = rows'[v][i].delta
      <4>1. CASE i \in 1..Len(rows[v]) /\ rows'[v][i] = rows[v][i]
        BY <4>1 DEF RefInv, RowsComeFromCalls
      <4>2. CASE v = u /\ rows'[v][i] = RowOf(p)
        BY <4>2, <2>0, <2>4, <1>0
      <4>3. QED
        BY <4>1, <4>2, <2>7
    <3>2. QED
      BY <3>1 DEF RowsComeFromCalls, Delta
  <2>10. emitted[ref] = 0
    BY <1>0, <1>1, <2>3 DEF RefInv, EventsFollowPostings
  <2>11. EventsFollowPostings'
    BY <2>1, <2>2 DEF RefInv, EventsFollowPostings
  <2>12. ReferenceReserved'
    BY <2>1, <2>2, <2>3 DEF RefInv, ReferenceReserved
  <2>13. AnnouncementPending'
    <3>1. \A q \in Procs : pc[q] = "emit" => call[q].reference # ref
      BY <2>3 DEF RefInv, AnnouncementPending
    <3>2. QED
      BY <3>1, <2>1, <2>2, <2>10 DEF RefInv, AnnouncementPending
  <2>14. \A q \in Procs : reply'[q] \in Answered => (Posted(call[q].reference))'
    BY <2>1, <2>2 DEF RefInv
  <2>15. QED
    BY <2>8, <2>9, <2>11, <2>12, <2>13, <2>14 DEF RefInv, Answered
<1>8. CASE UNCHANGED vars \/ \E u \in Users : OpenWallet(u)
  <2>1. UNCHANGED <<rows, emitted, pc, call, reply>>
    BY <1>8 DEF vars, OpenWallet
  <2>2. \A r : Posted(r)' <=> Posted(r)
    BY <2>1 DEF Posted
  <2>3. PostedOnce' /\ RowsComeFromCalls' /\ EventsFollowPostings'
    BY <2>1, <2>2 DEF RefInv, PostedOnce, RowsComeFromCalls, EventsFollowPostings, Delta
  <2>4. ReferenceReserved' /\ AnnouncementPending'
    BY <2>1, <2>2 DEF RefInv, ReferenceReserved, AnnouncementPending
  <2>5. QED
    BY <2>1, <2>2, <2>3, <2>4 DEF RefInv, Answered
<1>9. QED
  BY <1>2, <1>3, <1>4, <1>5, <1>6, <1>7, <1>8 DEF Next, Step

\* So both invariants hold throughout.
LEMMA ReferenceInvariant == Spec => [](MoneyInv /\ RefInv)
<1>1. Init => MoneyInv /\ RefInv
  <2>1. ASSUME Init PROVE RefInv
    BY <2>1 DEF Init, RefInv, PostedOnce, RowsComeFromCalls, ReferenceReserved,
                EventsFollowPostings, AnnouncementPending, Answered
  <2>2. QED
    BY <2>1, MoneyInit
<1>2. MoneyInv /\ RefInv /\ [Next]_vars => (MoneyInv /\ RefInv)'
  BY MoneyStep, ReferenceStep
<1>3. QED
  BY <1>1, <1>2, PTL DEF Spec

\* Retried or raced, a reference is posted once in the whole system.
THEOREM ReferencePostedOnce == Spec => []PostedOnce
<1>1. MoneyInv /\ RefInv => PostedOnce
  BY DEF RefInv
<1>2. QED
  BY <1>1, ReferenceInvariant, PTL

\* A success answer, or a unique-reference failure, means this call's own row
\* is in its user's ledger.
THEOREM AnswersAreTrue == Spec => []AnswersHold
<1>1. MoneyInv /\ RefInv => AnswersHold
  BY RefInvAnswers DEF MoneyInv
<1>2. QED
  BY <1>1, ReferenceInvariant, PTL

\* Wallet events announce committed rows, each at most once.
THEOREM EventsAreTrue == Spec => []EventsFollowPostings
<1>1. MoneyInv /\ RefInv => EventsFollowPostings
  BY DEF RefInv
<1>2. QED
  BY <1>1, ReferenceInvariant, PTL

-----------------------------------------------------------------------------
\* A commit is one posting of the abstract ledger.
LEMMA CommitIsPosting ==
  ASSUME MoneyInv, RefInv, NEW p \in Procs, Commit(p)
  PROVE  L!LedgerNext
<1>0. PICK u \in Users : u = call[p].user
  BY CommitReads DEF Commit
<1>1. call[p].reference \in References
  BY CallFields DEF MoneyInv, TypeOK
<1>2. /\ balance \in [Users -> Int] /\ Delta(call[p]) \in Int
      /\ seen[p].balance = balance[u] /\ balance[u] + Delta(call[p]) >= 0
  BY <1>0, CommitReads DEF Commit, MoneyInv, TypeOK
<1>3. balance' = [balance EXCEPT ![u] = balance[u] + Delta(call[p])]
  BY <1>0, <1>2 DEF Commit
<1>4. balance'[u] - balance[u] = Delta(call[p])
  BY <1>2, <1>3
<1>5. rows' = [rows EXCEPT ![u] = Append(rows[u], [reference |-> call[p].reference,
                                                   delta |-> Delta(call[p]),
                                                   balanceAfter |-> balance[u] + Delta(call[p])])]
  BY <1>0, <1>2 DEF Commit, RowOf
<1>6. ~L!Posted(call[p].reference)
  BY DEF Commit, RefInv, ReferenceReserved, Posted, L!Posted
<1>7. L!Post(u, call[p].reference, Delta(call[p]))
  BY <1>2, <1>3, <1>5, <1>6 DEF L!Post
<1>8. QED
  BY <1>1, <1>4, <1>7 DEF L!LedgerNext

\* The concurrent, optimistic-locking service implements the atomic ledger:
\* each commit is one posting, every other step is invisible.
THEOREM WalletImplementsLedger == Spec => ImplementsLedger
<1>1. Init => L!LedgerInit
  BY DEF Init, L!LedgerInit
<1>2. MoneyInv /\ RefInv /\ [Next]_vars => [L!LedgerNext]_(L!ledgerVars)
  <2> SUFFICES ASSUME MoneyInv, RefInv, [Next]_vars
               PROVE  L!LedgerNext \/ UNCHANGED <<balance, rows>>
    BY DEF L!ledgerVars
  <2>1. CASE \E p \in Procs : Commit(p)
    BY <2>1, CommitIsPosting
  <2>2. CASE ~\E p \in Procs : Commit(p)
    BY <2>2 DEF Next, Step, vars, walletRows, OpenWallet, Enter, Precheck, ReadWallet,
                UpdateWallet, InsertRow, Emit, Abort
  <2>3. QED
    BY <2>1, <2>2
<1>3. QED
  BY <1>1, <1>2, ReferenceInvariant, PTL DEF Spec, ImplementsLedger, L!LedgerSpec

-----------------------------------------------------------------------------
\* Caller p cannot take its next round trip before the transaction of q ends:
\* q holds the row lock p's update asks for, or has an uncommitted row of the
\* reference p inserts.
WaitsFor(p, q) ==
  \/ pc[p] = "update" /\ holder[call[p].user] = q
  \/ pc[p] = "insert" /\ pc[q] = "commit" /\ call[q].reference = call[p].reference

\* An insert never meets an uncommitted row of its reference: the two calls
\* would be one call retried, for one wallet, whose lock both would hold.
LEMMA InsertNeverWaits ==
  ASSUME MoneyInv, NEW p \in Procs, NEW q \in Procs,
         pc[p] = "insert", pc[q] = "commit", call[q].reference = call[p].reference
  PROVE  FALSE
<1>1. call[p] \in Calls /\ call[q] \in Calls
  BY DEF MoneyInv, TypeOK
<1>2. call[p] = call[q]
  BY <1>1, CallsKeyed
<1>3. holder[call[p].user] = p /\ holder[call[q].user] = q
  BY DEF MoneyInv, LockDiscipline
<1>4. QED
  BY <1>2, <1>3

\* The wallet's transactions cannot deadlock on row locks and unique
\* references: whoever is waited for waits for nobody, so no chain of waits
\* closes into a circle, whatever users, references and callers there are.
THEOREM NoDeadlock == Spec => [](\A p, q \in Procs : WaitsFor(p, q) => \A r \in Procs : ~WaitsFor(q, r))
<1> DEFINE Free == \A p, q \in Procs : WaitsFor(p, q) => \A r \in Procs : ~WaitsFor(q, r)
<1>1. MoneyInv => Free
  <2> SUFFICES ASSUME MoneyInv, NEW p \in Procs, NEW q \in Procs, WaitsFor(p, q), NEW r \in Procs
               PROVE  ~WaitsFor(q, r)
    OBVIOUS
  <2>1. pc[p] = "update" /\ holder[call[p].user] = q
    BY InsertNeverWaits DEF WaitsFor
  <2>2. call[p].user \in Users /\ q # Nobody
    BY CallFields, NobodyAssumption DEF MoneyInv, TypeOK
  <2>3. pc[q] \in {"insert", "commit"}
    BY <2>1, <2>2 DEF MoneyInv, LockDiscipline
  <2>4. QED
    BY <2>3, InsertNeverWaits DEF WaitsFor
<1>2. QED
  BY <1>1, MoneyInvariant, PTL
=============================================================================
