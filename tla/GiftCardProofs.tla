--------------------------- MODULE GiftCardProofs ---------------------------
(***************************************************************************)
(* For any orders, handlers and bounds, gift card fulfilment keeps its      *)
(* types, never uses what was not charged, escalates every refund Reloadly  *)
(* does not mirror unless it is cut off on the way, and implements          *)
(* OrderLifecycle.  The invariant says what a process may rely on at each   *)
(* await, the others running meanwhile: all of it is about facts that stay  *)
(* true once they are (Grows).  Alerts, on top of it, says who will alert.  *)
(***************************************************************************)
EXTENDS GiftCardFulfillment, TLAPS

RowsTyped ==
  /\ status \in [Cards -> {"none", "PAID", "FULFILLING", "COMPLETED", "FAILED", "REFUNDED"}]
  /\ ledger \in [Cards -> SUBSET {"charge", "refund"}]
  /\ issuance \in [Cards -> [state : Reported \cup {"none"}, txn : BOOLEAN, codes : BOOLEAN]]
  /\ provider \in [Cards -> Reported \cup {"none"}]
  /\ notices \in [Cards -> SUBSET {"completed", "failed", "shown"}]
  /\ escalated \in [Cards -> BOOLEAN]
  /\ jobs \in [Queues -> SUBSET Job]
  /\ pollIds \in [Cards -> SUBSET Nat]
  /\ retries \in Nat /\ throws \in Nat /\ crashes \in {0, 1}
ProcsTyped == pc \in [Procs -> Labels] /\ ctx \in [Procs -> CtxType]

\* Before the charge, and on the way to a refund.
Unpaid == {"issue", "debit", "markUnpaid"}
Refunding == {"flag", "refundRead", "markFailed", "credit", "markRefunded", "announceFailed"}
Charged(o) == retries = 0 => "charge" \in ledger[o]

\* What holds of every order ...
RowFine(o) ==
  /\ status[o] = "COMPLETED" => provider[o] = "SUCCESSFUL"
  /\ provider[o] # "none" => status[o] # "none" /\ Charged(o)
  /\ issuance[o].state = "SUCCESSFUL" => status[o] # "none" /\ Charged(o)
  /\ status[o] = "FULFILLING" => Charged(o)
  /\ "refund" \in ledger[o] => Charged(o)

\* ... every job ...
JobFine(j) == j \in Job /\ status[j.order] # "none" /\ Charged(j.order)

\* ... and every call in progress.
ProcFine(p) ==
  pc[p] # "idle" =>
    /\ OrderOf(p) \in Cards /\ status[OrderOf(p)] # "none"
    /\ p \in Queues => pc[p] \notin Unpaid /\ ctx[p].job \in Job /\ ctx[p].job.order = OrderOf(p)
    /\ pc[p] \notin Unpaid => Charged(OrderOf(p))
    /\ pc[p] \in {"store", "giftRead", "giftComplete"} => provider[OrderOf(p)] = "SUCCESSFUL"
    /\ ctx[p].seen = "REFUNDED" => provider[OrderOf(p)] = "REFUNDED"
    /\ ctx[p].note = "REFUNDED" => provider[OrderOf(p)] = "REFUNDED"
    /\ pc[p] \in Refunding => ctx[p].seen \in {"FAILED", "REFUNDED"}
    /\ pc[p] \in Credited => "refund" \in ledger[OrderOf(p)]

JobsFine == \A q \in Queues : \A j \in jobs[q] : JobFine(j)
IInv == /\ RowsTyped /\ ProcsTyped /\ JobsFine
        /\ \A o \in Cards : RowFine(o)
        /\ \A p \in Procs : ProcFine(p)

\* The facts a process relies on stay true.
Grows ==
  /\ retries' = 0 => retries = 0
  /\ \A o \in Cards :
       /\ status[o] # "none" => status'[o] # "none"
       /\ provider[o] \in {"SUCCESSFUL", "REFUNDED"} => provider'[o] = provider[o]
       /\ ledger[o] \subseteq ledger'[o]

AbstractStep == Lifecycle!LifecycleNext \/ UNCHANGED Lifecycle!lifecycleVars

-----------------------------------------------------------------------------
LEMMA ProcsDisjoint ==
  /\ Queues \subseteq Procs /\ Handlers \subseteq Procs /\ Queues \cap Handlers = {}
  /\ "fulfil" \in Queues /\ "poll" \in Queues /\ NoOrder \notin Cards
BY HandlersAssumption, OrdersAssumption DEF Procs, Queues

\* A process that does not move keeps what it relies on; so does a job.
LEMMA StaysFine ==
  ASSUME RowsTyped, Grows
  PROVE  /\ \A p \in Procs : ProcFine(p) /\ pc'[p] = pc[p] /\ ctx'[p] = ctx[p] => ProcFine(p)'
         /\ \A j : JobFine(j) => JobFine(j)'
         /\ \A o \in Cards : Charged(o) => Charged(o)'
<1>1. \A o \in Cards : Charged(o) => Charged(o)'
  BY DEF Grows, Charged
<1>2. ASSUME NEW p \in Procs, ProcFine(p), pc'[p] = pc[p], ctx'[p] = ctx[p]
      PROVE  ProcFine(p)'
  <2> SUFFICES ASSUME pc[p] # "idle" PROVE ProcFine(p)'
    BY <1>2 DEF ProcFine
  <2> DEFINE o == OrderOf(p)
  <2>1. o \in Cards /\ OrderOf(p)' = o
    BY <1>2 DEF ProcFine, OrderOf, F!OrderOf
  <2>2. /\ status[o] # "none" => status'[o] # "none"
        /\ provider[o] \in {"SUCCESSFUL", "REFUNDED"} => provider'[o] = provider[o]
        /\ ledger[o] \subseteq ledger'[o]
    BY <2>1 DEF Grows
  <2>3. Charged(o) => Charged(OrderOf(p))'
    BY <1>1, <2>1 DEF Charged
  <2> HIDE DEF o
  <2> QED BY <1>2, <2>1, <2>2, <2>3 DEF ProcFine, o
<1>3. ASSUME NEW j, JobFine(j) PROVE JobFine(j)'
  <2>1. j.order \in Cards
    BY <1>3 DEF JobFine, Job
  <2> QED BY <1>1, <1>3, <2>1 DEF JobFine, Grows, Job
<1> QED BY <1>1, <1>2, <1>3

\* What a step has to show.
LEMMA Preserve ==
  ASSUME IInv, RowsTyped', ProcsTyped', Grows, \A o \in Cards : RowFine(o)', JobsFine',
         \A p \in Procs : ProcFine(p)' \/ (pc'[p] = pc[p] /\ ctx'[p] = ctx[p])
  PROVE  IInv'
<1>1. \A p \in Procs : ProcFine(p)'
  <2>1. RowsTyped /\ \A p \in Procs : ProcFine(p)
    BY DEF IInv
  <2> QED BY <2>1, StaysFine
<1> QED BY <1>1 DEF IInv

-----------------------------------------------------------------------------
(* How a process moves                                                       *)

Moves(p) ==
  /\ ProcsTyped'
  /\ \A q \in Procs : q # p => pc'[q] = pc[q] /\ ctx'[q] = ctx[q]
Same(p) == /\ ctx'[p].order = ctx[p].order /\ ctx'[p].job = ctx[p].job
           /\ ctx'[p].note = ctx[p].note

LEMMA NoCtxTyped == F!NoCtx \in CtxType /\ F!NoCtx.order = NoOrder
BY DEF F!NoCtx, CtxType, F!NoJob, Reported

LEMMA GotoMoves ==
  ASSUME ProcsTyped, NEW p \in Procs, NEW l \in Labels, Goto(p, l), UNCHANGED ctx
  PROVE  Moves(p) /\ pc'[p] = l /\ ctx'[p] = ctx[p]
BY DEF ProcsTyped, Goto, F!Goto, Moves

LEMMA FinishMoves ==
  ASSUME ProcsTyped, NEW p \in Procs, Finish(p)
  PROVE  Moves(p) /\ pc'[p] = "idle"
<1>1. pc' = [pc EXCEPT ![p] = "idle"] /\ ctx' = [ctx EXCEPT ![p] = F!NoCtx] /\ "idle" \in Labels
  BY DEF Finish, F!Finish, Labels
<1> QED BY <1>1, NoCtxTyped DEF ProcsTyped, Moves

LEMMA ReturnMoves ==
  ASSUME ProcsTyped, NEW p \in Procs, F!Return(p)
  PROVE  Moves(p) /\ (pc'[p] = "idle" \/ (pc'[p] = "hookMark" /\ ctx'[p] = ctx[p]))
<1>1. (Goto(p, "hookMark") /\ UNCHANGED ctx) \/ Finish(p)
  BY DEF F!Return, Goto, Finish
<1>2. "hookMark" \in Labels
  BY DEF Labels
<1> QED BY <1>1, <1>2, GotoMoves, FinishMoves

LEMMA CarryMoves ==
  ASSUME ProcsTyped, NEW p \in Procs, NEW l \in Labels, NEW s \in Reported \cup {"none"}, Carry(p, s, l)
  PROVE  Moves(p) /\ pc'[p] = l /\ Same(p) /\ ctx'[p].seen = s
<1>1. pc' = [pc EXCEPT ![p] = l] /\ ctx' = [ctx EXCEPT ![p].seen = s]
  BY DEF Carry, Goto, F!Goto
<1> DEFINE c == [ctx[p] EXCEPT !.seen = s]
<1>2. ctx' = [ctx EXCEPT ![p] = c] /\ ctx[p] \in CtxType
  BY <1>1 DEF ProcsTyped
<1>3. /\ c \in CtxType /\ c.order = ctx[p].order /\ c.job = ctx[p].job /\ c.note = ctx[p].note
      /\ c.seen = s
  BY <1>2 DEF CtxType
<1> HIDE DEF c
<1> QED BY <1>1, <1>2, <1>3 DEF ProcsTyped, Moves, Same

LEMMA BeginMoves ==
  ASSUME ProcsTyped, NEW p \in Procs, NEW l \in Labels, NEW c \in CtxType,
         pc' = [pc EXCEPT ![p] = l], ctx' = [ctx EXCEPT ![p] = c]
  PROVE  Moves(p) /\ pc'[p] = l /\ ctx'[p] = c
BY DEF ProcsTyped, Moves

-----------------------------------------------------------------------------
(* Where a process is after its step                                         *)

\* A process that goes on with its order: what its new label needs.
LEMMA GoesOn ==
  ASSUME IInv, Grows, NEW p \in Procs, pc[p] # "idle", Same(p),
         p \in Queues => pc'[p] \notin Unpaid,
         pc'[p] \notin Unpaid => pc[p] \notin Unpaid \/ Charged(OrderOf(p))',
         pc'[p] \in {"store", "giftRead", "giftComplete"} => provider'[OrderOf(p)] = "SUCCESSFUL",
         ctx'[p].seen = "REFUNDED" => provider'[OrderOf(p)] = "REFUNDED",
         pc'[p] \in Refunding => ctx'[p].seen \in {"FAILED", "REFUNDED"},
         pc'[p] \in Credited => "refund" \in ledger'[OrderOf(p)]
  PROVE  ProcFine(p)'
<1>1. ProcFine(p) /\ RowsTyped
  BY DEF IInv
<1> DEFINE o == OrderOf(p)
<1>2. o \in Cards /\ OrderOf(p)' = o /\ ctx'[p].job = ctx[p].job /\ ctx'[p].note = ctx[p].note
  BY <1>1 DEF ProcFine, Same, OrderOf, F!OrderOf
<1>3. Charged(o) => Charged(o)'
  BY <1>1, <1>2, StaysFine
<1>4. pc'[p] \notin Unpaid => Charged(OrderOf(p))'
  BY <1>1, <1>2, <1>3 DEF ProcFine, Charged
<1>5. /\ status'[o] # "none"
      /\ provider[o] = "REFUNDED" => provider'[o] = "REFUNDED"
  BY <1>1, <1>2 DEF ProcFine, Grows
<1> HIDE DEF o
<1> QED BY <1>1, <1>2, <1>4, <1>5 DEF ProcFine, o

LEMMA DoneFine == ASSUME NEW p \in Procs, pc'[p] = "idle" PROVE ProcFine(p)'
BY DEF ProcFine

\* What a busy process relies on, spelled out.
LEMMA Busy ==
  ASSUME IInv, NEW p \in Procs, pc[p] # "idle"
  PROVE  /\ OrderOf(p) \in Cards /\ status[OrderOf(p)] # "none"
         /\ p \in Queues => pc[p] \notin Unpaid /\ ctx[p].job \in Job /\ ctx[p].job.order = OrderOf(p)
         /\ pc[p] \notin Unpaid => Charged(OrderOf(p))
         /\ pc[p] \in {"store", "giftRead", "giftComplete"} => provider[OrderOf(p)] = "SUCCESSFUL"
         /\ ctx[p].seen = "REFUNDED" => provider[OrderOf(p)] = "REFUNDED"
         /\ ctx[p].note = "REFUNDED" => provider[OrderOf(p)] = "REFUNDED"
         /\ pc[p] \in Refunding => ctx[p].seen \in {"FAILED", "REFUNDED"}
         /\ pc[p] \in Credited => "refund" \in ledger[OrderOf(p)]
BY DEF IInv, ProcFine

LEMMA SameCtx == ASSUME NEW p \in Procs, ctx'[p] = ctx[p] PROVE Same(p) /\ ctx'[p].seen = ctx[p].seen
BY DEF Same

-----------------------------------------------------------------------------
(* What a step changes                                                       *)

LEMMA Kept == ASSUME UNCHANGED <<status, ledger, provider, notices>> PROVE AbstractStep
BY DEF AbstractStep, Lifecycle!lifecycleVars

LEMMA RowsGrow == ASSUME UNCHANGED <<rows, retries>> PROVE Grows /\ \A o \in Cards : RowFine(o) => RowFine(o)'
BY DEF Grows, rows, RowFine, Charged

\* A step of p that writes rows and queues.
LEMMA ProcStep ==
  ASSUME IInv, RowsTyped', Grows, \A o \in Cards : RowFine(o)',
         NEW p \in Procs, Moves(p), ProcFine(p)',
         \A q \in Queues : \A j \in jobs'[q] : j \in jobs[q] \/ JobFine(j)
  PROVE  IInv'
<1>1. RowsTyped /\ JobsFine
  BY DEF IInv
<1>2. JobsFine'
  <2>1. \A j : JobFine(j) => JobFine(j)'
    BY <1>1, StaysFine
  <2> QED BY <1>1, <2>1 DEF JobsFine
<1>3. ProcsTyped' /\ \A q \in Procs : ProcFine(q)' \/ (pc'[q] = pc[q] /\ ctx'[q] = ctx[q])
  BY DEF Moves
<1> QED BY <1>2, <1>3, Preserve

\* A step of p that writes no row.
LEMMA QueueStep ==
  ASSUME IInv, UNCHANGED <<rows, retries, crashes>>, throws' \in Nat,
         NEW p \in Procs, Moves(p), ProcFine(p)',
         jobs' \in [Queues -> SUBSET Job], pollIds' \in [Cards -> SUBSET Nat],
         \A q \in Queues : \A j \in jobs'[q] : j \in jobs[q] \/ JobFine(j)
  PROVE  IInv' /\ AbstractStep
<1>1. RowsTyped /\ \A o \in Cards : RowFine(o)
  BY DEF IInv
<1>2. Grows /\ \A o \in Cards : RowFine(o)'
  BY <1>1, RowsGrow
<1>3. RowsTyped'
  BY <1>1 DEF RowsTyped, rows
<1>4. IInv'
  BY <1>2, <1>3, ProcStep
<1> QED BY <1>4, Kept DEF rows

LEMMA ReadStep ==
  ASSUME IInv, UNCHANGED <<rows, queueVars, budgets>>, NEW p \in Procs, Moves(p), ProcFine(p)'
  PROVE  IInv' /\ AbstractStep
<1>1. RowsTyped
  BY DEF IInv
<1> QED BY <1>1, QueueStep DEF RowsTyped, queueVars, budgets

\* A step of p that writes rows but no queue.
LEMMA WriteStep ==
  ASSUME IInv, UNCHANGED queueVars, RowsTyped', Grows, \A o \in Cards : RowFine(o)',
         NEW p \in Procs, Moves(p), ProcFine(p)'
  PROVE  IInv'
BY ProcStep DEF queueVars

\* The row of another order is as it was.
RowKept(o) ==
  /\ status'[o] = status[o] /\ provider'[o] = provider[o] /\ issuance'[o].state = issuance[o].state
  /\ ledger'[o] = ledger[o]

LEMMA RowStays ==
  ASSUME IInv, Grows, NEW o \in Cards, RowKept(o)
  PROVE  RowFine(o)'
<1>1. RowsTyped /\ RowFine(o) /\ (Charged(o) => Charged(o)')
  BY StaysFine DEF IInv
<1> QED BY <1>1 DEF RowFine, RowKept

-----------------------------------------------------------------------------
(* The checkout, the admin's retry and the reveal                            *)

\* An idle process that begins for order o.
LEMMA BeginsAt ==
  ASSUME ProcsTyped, NEW p \in Procs, NEW l \in Labels, NEW o \in Cards, Begin(p, l, o)
  PROVE  /\ Moves(p) /\ pc'[p] = l
         /\ ctx'[p].order = o /\ ctx'[p].seen = "none" /\ ctx'[p].note = "none"
<1> DEFINE c == [F!NoCtx EXCEPT !.order = o]
<1>1. c \in CtxType /\ c.order = o /\ c.seen = "none" /\ c.note = "none"
  BY DEF F!NoCtx, CtxType, F!NoJob, Reported
<1>2. pc' = [pc EXCEPT ![p] = l] /\ ctx' = [ctx EXCEPT ![p] = c]
  BY DEF Begin
<1> HIDE DEF c
<1> QED BY <1>1, <1>2, BeginMoves

LEMMA CreateKeeps ==
  ASSUME IInv, NEW h \in Handlers, NEW o \in Cards, Create(h, o)
  PROVE  IInv' /\ AbstractStep
<1>1. h \in Procs /\ h \notin Queues /\ RowsTyped /\ ProcsTyped
  BY ProcsDisjoint DEF IInv
<1>2. /\ status[o] = "none" /\ status' = [status EXCEPT ![o] = "PAID"]
      /\ UNCHANGED <<ledger, issuance, provider, notices, escalated, queueVars, budgets>>
  BY DEF Create
<1>3. Begin(h, "issue", o)
  BY DEF Create
<1>4. /\ Moves(h) /\ pc'[h] = "issue"
      /\ ctx'[h].order = o /\ ctx'[h].seen = "none" /\ ctx'[h].note = "none"
  BY <1>1, <1>3, BeginsAt DEF Labels
<1>5. Grows
  BY <1>1, <1>2 DEF Grows, RowsTyped, budgets
<1>6. RowsTyped'
  BY <1>1, <1>2 DEF RowsTyped, queueVars, budgets
<1>7. ASSUME NEW k \in Cards PROVE RowFine(k)'
  <2>1. CASE k = o
    <3>1. RowFine(o)
      BY DEF IInv
    <3> QED BY <1>1, <1>2, <2>1, <3>1 DEF RowFine, RowsTyped, Charged, budgets
  <2>2. CASE k # o
    BY <1>1, <1>2, <1>5, <2>2, RowStays DEF RowKept, RowsTyped
  <2> QED BY <2>1, <2>2
<1>8. ProcFine(h)'
  BY <1>1, <1>2, <1>4 DEF ProcFine, OrderOf, F!OrderOf, RowsTyped, Unpaid, Refunding, Credited
<1>9. IInv'
  BY <1>1, <1>2, <1>4, <1>5, <1>6, <1>7, <1>8, WriteStep
<1>10. Lifecycle!Place(o)
  BY <1>2 DEF Lifecycle!Place
<1> QED BY <1>9, <1>10 DEF AbstractStep, Lifecycle!LifecycleNext

LEMMA CreateIssuanceKeeps ==
  ASSUME IInv, NEW h \in Handlers, CreateIssuance(h)
  PROVE  IInv' /\ AbstractStep
<1> DEFINE o == OrderOf(h)
<1>1. h \in Procs /\ h \notin Queues /\ RowsTyped /\ ProcsTyped
  BY ProcsDisjoint DEF IInv
<1>2. /\ pc[h] = "issue" /\ Goto(h, "debit") /\ UNCHANGED ctx
      /\ issuance' = [issuance EXCEPT ![o].state = "PENDING"]
      /\ UNCHANGED <<status, ledger, provider, notices, escalated, queueVars, budgets>>
  BY DEF CreateIssuance
<1>3. Moves(h) /\ pc'[h] = "debit" /\ ctx'[h] = ctx[h]
  BY <1>1, <1>2, GotoMoves DEF Labels
<1>4. Grows
  BY <1>1, <1>2 DEF Grows, RowsTyped, budgets
<1>5. o \in Cards /\ (ctx[h].seen = "REFUNDED" => provider[o] = "REFUNDED")
  BY <1>1, <1>2, Busy
<1> HIDE DEF o
<1>6. /\ issuance' \in [Cards -> [state : Reported \cup {"none"}, txn : BOOLEAN, codes : BOOLEAN]]
      /\ \A k \in Cards : k # o => issuance'[k] = issuance[k]
      /\ issuance'[o].state = "PENDING"
  <2> DEFINE r == [issuance[o] EXCEPT !.state = "PENDING"]
  <2>1. issuance' = [issuance EXCEPT ![o] = r] /\ issuance[o] \in [state : Reported \cup {"none"}, txn : BOOLEAN, codes : BOOLEAN]
    BY <1>1, <1>2, <1>5 DEF RowsTyped
  <2>2. r \in [state : Reported \cup {"none"}, txn : BOOLEAN, codes : BOOLEAN] /\ r.state = "PENDING"
    BY <2>1 DEF Reported
  <2> HIDE DEF r
  <2> QED BY <1>1, <1>5, <2>1, <2>2 DEF RowsTyped
<1>7. RowsTyped'
  BY <1>1, <1>2, <1>6 DEF RowsTyped, queueVars, budgets
<1>8. ASSUME NEW k \in Cards PROVE RowFine(k)'
  <2>1. RowFine(k)
    BY DEF IInv
  <2> QED BY <1>1, <1>2, <1>6, <2>1 DEF RowFine, Charged, budgets
<1>9. ProcFine(h)'
  BY <1>1, <1>2, <1>3, <1>4, <1>5, GoesOn, SameCtx DEF Unpaid, Refunding, Credited, o
<1>10. IInv'
  BY <1>1, <1>2, <1>3, <1>4, <1>7, <1>8, <1>9, WriteStep
<1> QED BY <1>2, <1>10, Kept

\* The ledger of an order grows by one posting.
LEMMA PostGrows ==
  ASSUME IInv, NEW o \in Cards, NEW kind \in {"charge", "refund"},
         ledger' = [ledger EXCEPT ![o] = @ \cup {kind}],
         kind = "refund" => Charged(o), status[o] # "none",
         UNCHANGED <<status, issuance, provider, notices, escalated, queueVars, retries, crashes>>,
         throws' \in Nat
  PROVE  /\ Grows /\ RowsTyped' /\ kind \in ledger'[o]
         /\ (\A k \in Cards : RowFine(k)') /\ AbstractStep
<1>1. RowsTyped
  BY DEF IInv
<1>2. /\ ledger' \in [Cards -> SUBSET {"charge", "refund"}] /\ ledger'[o] = ledger[o] \cup {kind}
      /\ \A k \in Cards : k # o => ledger'[k] = ledger[k]
  BY <1>1 DEF RowsTyped
<1>3. RowsTyped'
  BY <1>1, <1>2 DEF RowsTyped, queueVars
<1>4. Grows
  BY <1>2 DEF Grows
<1>5. ASSUME NEW k \in Cards PROVE RowFine(k)'
  <2>1. RowFine(k)
    BY DEF IInv
  <2> QED BY <1>2, <2>1 DEF RowFine, Charged
<1>6. AbstractStep
  <2>1. CASE kind \in ledger[o]
    <3>1. ledger'[o] = ledger[o]
      BY <1>2, <2>1
    <3>2. ledger' = ledger
      BY <1>1, <1>2, <3>1 DEF RowsTyped
    <3> QED BY <3>2, Kept
  <2>2. CASE kind \notin ledger[o]
    BY <2>2 DEF AbstractStep, Lifecycle!LifecycleNext, Lifecycle!Post
  <2> QED BY <2>1, <2>2
<1> QED BY <1>2, <1>3, <1>4, <1>5, <1>6

LEMMA DebitKeeps ==
  ASSUME IInv, NEW h \in Handlers, Debit(h)
  PROVE  IInv' /\ AbstractStep
<1> DEFINE o == OrderOf(h)
<1>1. h \in Procs /\ h \notin Queues /\ RowsTyped /\ ProcsTyped
  BY ProcsDisjoint DEF IInv
<1>2. /\ pc[h] = "debit" /\ UNCHANGED ctx
      /\ UNCHANGED <<status, issuance, provider, notices, escalated, queueVars, retries, crashes, cut>>
  BY DEF Debit
<1>3. /\ o \in Cards /\ status[o] # "none" /\ (ctx[h].seen = "REFUNDED" => provider[o] = "REFUNDED")
      /\ OrderOf(h)' = o
  BY <1>1, <1>2, Busy DEF OrderOf, F!OrderOf
<1>4. throws' \in Nat
  BY <1>1 DEF Debit, Fault, RowsTyped
<1>5. "start" \in Labels /\ "markUnpaid" \in Labels
  BY DEF Labels
<1>6. CASE ledger' = [ledger EXCEPT ![o] = @ \cup {"charge"}] /\ Goto(h, "start")
  <2>1. Moves(h) /\ pc'[h] = "start" /\ ctx'[h] = ctx[h]
    BY <1>1, <1>2, <1>5, <1>6, GotoMoves
  <2>2. Grows /\ RowsTyped' /\ "charge" \in ledger'[o] /\ (\A k \in Cards : RowFine(k)') /\ AbstractStep
    BY <1>2, <1>3, <1>4, <1>6, PostGrows
  <2>3. Charged(OrderOf(h))'
    BY <1>3, <2>2 DEF Charged
  <2>4. ProcFine(h)'
    BY <1>1, <1>2, <1>3, <2>1, <2>2, <2>3, GoesOn, SameCtx DEF Unpaid, Refunding, Credited
  <2> QED BY <1>1, <1>2, <2>1, <2>2, <2>4, WriteStep
<1>7. CASE ledger' = [ledger EXCEPT ![o] = @ \cup {"charge"}] /\ Goto(h, "markUnpaid")
  <2>1. Moves(h) /\ pc'[h] = "markUnpaid" /\ ctx'[h] = ctx[h]
    BY <1>1, <1>2, <1>5, <1>7, GotoMoves
  <2>2. Grows /\ RowsTyped' /\ (\A k \in Cards : RowFine(k)') /\ AbstractStep
    BY <1>2, <1>3, <1>4, <1>7, PostGrows
  <2>3. ProcFine(h)'
    BY <1>1, <1>2, <1>3, <2>1, <2>2, GoesOn, SameCtx DEF Unpaid, Refunding, Credited
  <2> QED BY <1>1, <1>2, <2>1, <2>2, <2>3, WriteStep
<1>8. CASE Goto(h, "markUnpaid") /\ UNCHANGED <<ledger, throws>>
  <2>1. Moves(h) /\ pc'[h] = "markUnpaid" /\ ctx'[h] = ctx[h]
    BY <1>1, <1>2, <1>5, <1>8, GotoMoves
  <2>2. UNCHANGED <<rows, queueVars, budgets>>
    BY <1>2, <1>8 DEF rows, budgets
  <2>3. Grows
    BY <2>2, RowsGrow DEF budgets
  <2>4. ProcFine(h)'
    BY <1>1, <1>2, <1>3, <2>1, <2>2, <2>3, GoesOn, SameCtx DEF Unpaid, Refunding, Credited, rows
  <2> QED BY <1>1, <2>1, <2>2, <2>4, ReadStep
<1> QED BY <1>6, <1>7, <1>8 DEF Debit

\* Work on an order starts or fails.
LEMMA WorkGrows ==
  ASSUME IInv, NEW o \in Cards, NEW s \in {"FULFILLING", "FAILED"},
         status' = [status EXCEPT ![o] = s], status[o] # "none", s = "FULFILLING" => Charged(o),
         UNCHANGED <<ledger, issuance, provider, notices, escalated, queueVars, budgets>>
  PROVE  Grows /\ RowsTyped' /\ (\A k \in Cards : RowFine(k)') /\ AbstractStep
<1>1. RowsTyped
  BY DEF IInv
<1>2. Grows
  BY <1>1 DEF Grows, RowsTyped, budgets
<1>3. RowsTyped'
  BY <1>1 DEF RowsTyped, queueVars, budgets
<1>4. ASSUME NEW k \in Cards PROVE RowFine(k)'
  <2>1. RowFine(k)
    BY DEF IInv
  <2> QED BY <1>1, <2>1 DEF RowFine, RowsTyped, Charged, budgets
<1>5. Lifecycle!Work(o)
  BY DEF Lifecycle!Work
<1> QED BY <1>2, <1>3, <1>4, <1>5 DEF AbstractStep, Lifecycle!LifecycleNext

LEMMA MarkUnpaidKeeps ==
  ASSUME IInv, NEW h \in Handlers, MarkUnpaid(h)
  PROVE  IInv' /\ AbstractStep
<1>1. h \in Procs /\ ProcsTyped
  BY ProcsDisjoint DEF IInv
<1>2. /\ pc[h] = "markUnpaid" /\ Finish(h)
      /\ status' = [status EXCEPT ![OrderOf(h)] = "FAILED"]
      /\ UNCHANGED <<ledger, issuance, provider, notices, escalated, queueVars, budgets>>
  BY DEF MarkUnpaid
<1>3. Moves(h) /\ pc'[h] = "idle"
  BY <1>1, <1>2, FinishMoves
<1>4. OrderOf(h) \in Cards /\ status[OrderOf(h)] # "none"
  BY <1>1, <1>2, Busy
<1>5. Grows /\ RowsTyped' /\ (\A k \in Cards : RowFine(k)') /\ AbstractStep
  BY <1>2, <1>4, WorkGrows
<1> QED BY <1>1, <1>2, <1>3, <1>5, DoneFine, WriteStep

LEMMA StartKeeps ==
  ASSUME IInv, NEW h \in Handlers, Start(h)
  PROVE  IInv' /\ AbstractStep
<1> DEFINE o == OrderOf(h)
           l == IF pc[h] = "start" THEN "enqueue" ELSE "addFresh"
<1>1. h \in Procs /\ h \notin Queues /\ ProcsTyped /\ l \in Labels
  BY ProcsDisjoint DEF IInv, Labels
<1>2. /\ pc[h] \in {"start", "retryMark"} /\ Goto(h, l) /\ UNCHANGED ctx
      /\ status' = [status EXCEPT ![o] = "FULFILLING"]
      /\ UNCHANGED <<ledger, issuance, provider, notices, escalated, queueVars, budgets>>
  BY DEF Start
<1>3. l \in {"enqueue", "addFresh"}
  OBVIOUS
<1> HIDE DEF l
<1>4. Moves(h) /\ pc'[h] = l /\ ctx'[h] = ctx[h]
  BY <1>1, <1>2, GotoMoves
<1>5. /\ o \in Cards /\ status[o] # "none" /\ Charged(o)
      /\ (ctx[h].seen = "REFUNDED" => provider[o] = "REFUNDED")
  BY <1>1, <1>2, Busy DEF Unpaid
<1>6. Grows /\ RowsTyped' /\ (\A k \in Cards : RowFine(k)') /\ AbstractStep
  BY <1>2, <1>5, WorkGrows
<1>7. ProcFine(h)'
  BY <1>1, <1>2, <1>3, <1>4, <1>5, <1>6, GoesOn, SameCtx DEF Unpaid, Refunding, Credited
<1> QED BY <1>1, <1>2, <1>4, <1>6, <1>7, WriteStep

\* One more job of a queue.
LEMMA OneMoreJob ==
  ASSUME IInv, NEW q \in Queues, NEW j, JobFine(j), jobs' = [jobs EXCEPT ![q] = @ \cup {j}]
  PROVE  /\ jobs' \in [Queues -> SUBSET Job]
         /\ \A r \in Queues : \A k \in jobs'[r] : k \in jobs[r] \/ JobFine(k)
<1>1. jobs \in [Queues -> SUBSET Job] /\ j \in Job
  BY DEF IInv, RowsTyped, JobFine
<1> QED BY <1>1

LEMMA JobOfOrder ==
  ASSUME NEW o \in Cards, NEW t \in 0..MaxTags, NEW n \in Nat, status[o] # "none", Charged(o)
  PROVE  JobFine([order |-> o, tag |-> t, n |-> n])
BY DEF JobFine, Job

LEMMA EnqueueKeeps ==
  ASSUME IInv, NEW h \in Handlers, Enqueue(h)
  PROVE  IInv' /\ AbstractStep
<1> DEFINE j == [order |-> OrderOf(h), tag |-> 0, n |-> 0]
<1>1. h \in Procs /\ ProcsTyped /\ "fulfil" \in Queues /\ RowsTyped
  BY ProcsDisjoint DEF IInv
<1>2. /\ pc[h] = "enqueue" /\ jobs' = [jobs EXCEPT !["fulfil"] = @ \cup {j}]
      /\ Finish(h) /\ UNCHANGED <<rows, pollIds, budgets>>
  BY DEF Enqueue
<1>3. Moves(h) /\ pc'[h] = "idle"
  BY <1>1, <1>2, FinishMoves
<1>4. OrderOf(h) \in Cards /\ status[OrderOf(h)] # "none" /\ Charged(OrderOf(h))
  BY <1>1, <1>2, Busy DEF Unpaid
<1>5. JobFine(j)
  BY <1>4, JobOfOrder, BoundsAssumption
<1> HIDE DEF j
<1>6. /\ jobs' \in [Queues -> SUBSET Job]
      /\ \A r \in Queues : \A k \in jobs'[r] : k \in jobs[r] \/ JobFine(k)
  BY <1>1, <1>2, <1>5, OneMoreJob
<1> QED BY <1>1, <1>2, <1>3, <1>6, DoneFine, QueueStep DEF RowsTyped, budgets

LEMMA AddFreshKeeps ==
  ASSUME IInv, NEW h \in Handlers, AddFresh(h)
  PROVE  IInv' /\ AbstractStep
<1>1. h \in Procs /\ ProcsTyped /\ "fulfil" \in Queues /\ RowsTyped
  BY ProcsDisjoint DEF IInv
<1>2. /\ pc[h] = "addFresh" /\ F!AddFresh("fulfil", OrderOf(h), 0)
      /\ Finish(h) /\ UNCHANGED <<rows, pollIds, budgets>>
  BY DEF AddFresh
<1>3. Moves(h) /\ pc'[h] = "idle"
  BY <1>1, <1>2, FinishMoves
<1>4. OrderOf(h) \in Cards /\ status[OrderOf(h)] # "none" /\ Charged(OrderOf(h))
  BY <1>1, <1>2, Busy DEF Unpaid
<1>5. PICK t \in 1..MaxTags :
        jobs' = [jobs EXCEPT !["fulfil"] = @ \cup {[order |-> OrderOf(h), tag |-> t, n |-> 0]}]
  BY <1>2 DEF F!AddFresh
<1> DEFINE j == [order |-> OrderOf(h), tag |-> t, n |-> 0]
<1>6. JobFine(j)
  BY <1>4, JobOfOrder, BoundsAssumption
<1>7. jobs' = [jobs EXCEPT !["fulfil"] = @ \cup {j}]
  BY <1>5
<1> HIDE DEF j
<1>8. /\ jobs' \in [Queues -> SUBSET Job]
      /\ \A r \in Queues : \A k \in jobs'[r] : k \in jobs[r] \/ JobFine(k)
  BY <1>1, <1>6, <1>7, OneMoreJob
<1> QED BY <1>1, <1>2, <1>3, <1>8, DoneFine, QueueStep DEF RowsTyped, budgets

\* Retry and the sweeps begin for an order that exists.
LEMMA BegunFine ==
  ASSUME IInv, Grows, NEW h \in Handlers, NEW o \in Cards, NEW l \in {"retryMark", "addFresh", "fetch"},
         status[o] # "none", Charged(o)', Begin(h, l, o)
  PROVE  h \in Procs /\ Moves(h) /\ ProcFine(h)'
<1>1. h \in Procs /\ h \notin Queues /\ ProcsTyped /\ l \in Labels
  BY ProcsDisjoint DEF IInv, Labels
<1>2. /\ Moves(h) /\ pc'[h] = l
      /\ ctx'[h].order = o /\ ctx'[h].seen = "none" /\ ctx'[h].note = "none"
  BY <1>1, BeginsAt
<1>3. ProcFine(h)'
  BY <1>1, <1>2 DEF ProcFine, OrderOf, F!OrderOf, Unpaid, Refunding, Credited, Grows, Charged
<1> QED BY <1>1, <1>2, <1>3

LEMMA RetryKeeps ==
  ASSUME IInv, NEW h \in Handlers, NEW o \in Cards, Retry(h, o)
  PROVE  IInv' /\ AbstractStep
<1>1. RowsTyped
  BY DEF IInv
<1>2. /\ status[o] # "none" /\ Begin(h, "retryMark", o) /\ retries' = retries + 1
      /\ UNCHANGED <<rows, queueVars, throws, crashes>>
  BY DEF Retry
<1>3. retries \in Nat /\ retries' \in Nat /\ retries' # 0
  BY <1>1, <1>2 DEF RowsTyped
<1>4. Grows /\ \A k : Charged(k)'
  BY <1>2, <1>3 DEF Grows, rows, Charged
<1>5. h \in Procs /\ Moves(h) /\ ProcFine(h)'
  BY <1>2, <1>4, BegunFine
<1>6. RowsTyped'
  BY <1>1, <1>2, <1>3 DEF RowsTyped, rows, queueVars
<1>7. ASSUME NEW k \in Cards PROVE RowFine(k)'
  BY <1>2, <1>4, RowStays DEF RowKept, rows
<1>8. IInv'
  BY <1>2, <1>4, <1>5, <1>6, <1>7, WriteStep
<1> QED BY <1>2, <1>8, Kept DEF rows

LEMMA RevealKeeps ==
  ASSUME IInv, NEW o \in Cards, Reveal(o)
  PROVE  IInv' /\ AbstractStep
<1>1. RowsTyped /\ ProcsTyped /\ JobsFine /\ RowFine(o)
  BY DEF IInv
<1>2. /\ status[o] = "COMPLETED" /\ notices' = [notices EXCEPT ![o] = @ \cup {"shown"}]
      /\ UNCHANGED <<status, ledger, issuance, provider, escalated, queueVars, procVars, budgets>>
  BY DEF Reveal
<1>3. Grows /\ RowsTyped' /\ ProcsTyped'
  BY <1>1, <1>2 DEF Grows, RowsTyped, ProcsTyped, queueVars, procVars, budgets
<1>4. ASSUME NEW k \in Cards PROVE RowFine(k)'
  BY <1>2, <1>3, RowStays DEF RowKept
<1>5. JobsFine'
  <2>1. \A j : JobFine(j) => JobFine(j)'
    BY <1>1, <1>3, StaysFine
  <2> QED BY <1>1, <1>2, <2>1 DEF JobsFine, queueVars
<1>6. IInv'
  BY <1>2, <1>3, <1>4, <1>5, Preserve DEF procVars
<1>7. provider[o] = "SUCCESSFUL"
  BY <1>1, <1>2 DEF RowFine
<1>8. Lifecycle!Show(o)
  BY <1>2, <1>7 DEF Lifecycle!Show
<1> QED BY <1>6, <1>8 DEF AbstractStep, Lifecycle!LifecycleNext

-----------------------------------------------------------------------------
(* The workers and the webhook, where they write no row                      *)

Supplied == {"store", "giftRead", "giftComplete"}

LEMMA TakeKeeps ==
  ASSUME IInv, NEW q \in Queues, NEW j \in jobs[q], Take(q, j)
  PROVE  IInv' /\ AbstractStep
<1> DEFINE l == IF q = "fulfil" THEN "fulfilRead" ELSE "pollRead"
           c == [F!NoCtx EXCEPT !.order = j.order, !.job = j]
<1>1. q \in Procs /\ ProcsTyped /\ RowsTyped /\ JobFine(j)
  BY ProcsDisjoint DEF IInv, JobsFine
<1>2. /\ pc' = [pc EXCEPT ![q] = l] /\ ctx' = [ctx EXCEPT ![q] = c]
      /\ jobs' = [jobs EXCEPT ![q] = @ \ {j}] /\ UNCHANGED <<rows, pollIds, budgets>>
  BY DEF Take
<1>3. j \in Job /\ j.order \in Cards /\ status[j.order] # "none" /\ Charged(j.order)
  BY <1>1 DEF JobFine, Job
<1>4. /\ c \in CtxType /\ c.order = j.order /\ c.job = j /\ c.seen = "none" /\ c.note = "none"
  BY <1>3 DEF F!NoCtx, CtxType, F!NoJob, Reported
<1>5. l \in {"fulfilRead", "pollRead"} /\ l \in Labels
  BY DEF Labels
<1> HIDE DEF c, l
<1>6. Moves(q) /\ pc'[q] = l /\ ctx'[q] = c
  BY <1>1, <1>2, <1>4, <1>5, BeginMoves
<1>7. Charged(j.order)'
  BY <1>1, <1>2, <1>3 DEF Charged, rows, budgets
<1>8. ProcFine(q)'
  BY <1>2, <1>3, <1>4, <1>5, <1>6, <1>7
     DEF ProcFine, OrderOf, F!OrderOf, Unpaid, Refunding, Credited, rows, Charged
<1>9. /\ jobs' \in [Queues -> SUBSET Job]
      /\ \A r \in Queues : \A k \in jobs'[r] : k \in jobs[r]
  BY <1>1, <1>2 DEF RowsTyped
<1> QED BY <1>1, <1>2, <1>6, <1>8, <1>9, QueueStep DEF RowsTyped, budgets

LEMMA ReadGoto ==
  ASSUME IInv, UNCHANGED <<rows, queueVars, budgets>>, NEW p \in Procs, pc[p] \notin Unpaid \cup {"idle"},
         NEW l \in Labels \ (Unpaid \cup Refunding), l \in Supplied => provider[OrderOf(p)] = "SUCCESSFUL",
         Goto(p, l), UNCHANGED ctx
  PROVE  IInv' /\ AbstractStep
<1>1. ProcsTyped
  BY DEF IInv
<1>2. Moves(p) /\ pc'[p] = l /\ ctx'[p] = ctx[p]
  BY <1>1, GotoMoves
<1>3. Grows
  BY RowsGrow DEF budgets
<1>4. ctx[p].seen = "REFUNDED" => provider[OrderOf(p)] = "REFUNDED"
  BY Busy
<1>5. ProcFine(p)'
  BY <1>2, <1>3, <1>4, GoesOn, SameCtx DEF Supplied, Refunding, Credited, rows
<1> QED BY <1>2, <1>5, ReadStep

LEMMA ReadCarry ==
  ASSUME IInv, UNCHANGED <<rows, queueVars, budgets>>, NEW p \in Procs, pc[p] \notin Unpaid \cup {"idle"},
         NEW s \in Reported \cup {"none"}, s = "REFUNDED" => provider[OrderOf(p)] = "REFUNDED",
         NEW l \in {"record", "flag"}, l = "flag" => s \in {"FAILED", "REFUNDED"}, Carry(p, s, l)
  PROVE  IInv' /\ AbstractStep
<1>1. ProcsTyped /\ l \in Labels
  BY DEF IInv, Labels
<1>2. Moves(p) /\ pc'[p] = l /\ Same(p) /\ ctx'[p].seen = s
  BY <1>1, CarryMoves
<1>3. Grows
  BY RowsGrow DEF budgets
<1>4. ProcFine(p)'
  BY <1>2, <1>3, GoesOn DEF Unpaid, Refunding, Credited, rows
<1> QED BY <1>2, <1>4, ReadStep

LEMMA ReadFinish ==
  ASSUME IInv, UNCHANGED <<rows, queueVars, budgets>>, NEW p \in Procs, Finish(p)
  PROVE  IInv' /\ AbstractStep
<1>1. ProcsTyped
  BY DEF IInv
<1>2. Moves(p) /\ pc'[p] = "idle"
  BY <1>1, FinishMoves
<1> QED BY <1>2, DoneFine, ReadStep

\* A failing processor queues at most its own job again.
LEMMA FailJobs ==
  ASSUME IInv, NEW p \in Procs, pc[p] # "idle", Fail(p)
  PROVE  /\ jobs' \in [Queues -> SUBSET Job]
         /\ \A r \in Queues : \A k \in jobs'[r] : k \in jobs[r] \/ JobFine(k)
<1>1. RowsTyped
  BY DEF IInv
<1>2. CASE UNCHANGED jobs
  BY <1>1, <1>2 DEF RowsTyped
<1>3. CASE p = "fulfil" /\ jobs' = [jobs EXCEPT ![p] = @ \cup {[ctx[p].job EXCEPT !.n = @ + 1]}]
  <2> DEFINE j == [ctx[p].job EXCEPT !.n = @ + 1]
  <2>1. p \in Queues
    BY <1>3, ProcsDisjoint
  <2>2. /\ ctx[p].job \in Job /\ ctx[p].job.order = OrderOf(p)
        /\ status[OrderOf(p)] # "none" /\ Charged(OrderOf(p))
    BY <2>1, Busy
  <2>3. j \in Job /\ j.order = OrderOf(p)
    BY <2>2 DEF Job
  <2>4. JobFine(j)
    BY <2>2, <2>3 DEF JobFine
  <2>5. jobs' = [jobs EXCEPT ![p] = @ \cup {j}]
    BY <1>3
  <2> HIDE DEF j
  <2> QED BY <2>1, <2>4, <2>5, OneMoreJob
<1> QED BY <1>2, <1>3 DEF Fail

LEMMA FailKeeps ==
  ASSUME IInv, NEW p \in Procs, pc[p] # "idle", Fail(p),
         UNCHANGED <<rows, pollIds, retries, crashes>>, throws' \in Nat
  PROVE  IInv' /\ AbstractStep
<1>1. ProcsTyped /\ RowsTyped
  BY DEF IInv
<1>2. Moves(p) /\ pc'[p] = "idle"
  BY <1>1, FinishMoves DEF Fail
<1> QED BY <1>1, <1>2, DoneFine, FailJobs, QueueStep DEF RowsTyped

LEMMA FulfilReadKeeps ==
  ASSUME IInv, NEW p \in Procs, FulfilRead(p)
  PROVE  IInv' /\ AbstractStep
<1> DEFINE l == IF ctx[p].job.n > 0 \/ issuance[OrderOf(p)].txn THEN "recover" ELSE "preflight"
<1>1. pc[p] = "fulfilRead" /\ UNCHANGED <<rows, queueVars, budgets>>
  BY DEF FulfilRead
<1>2. CASE Finish(p)
  BY <1>1, <1>2, ReadFinish
<1>3. CASE Goto(p, l) /\ UNCHANGED ctx
  <2>1. l \in {"recover", "preflight"}
    OBVIOUS
  <2> HIDE DEF l
  <2> QED BY <1>1, <1>3, <2>1, ReadGoto DEF Labels, Unpaid, Refunding, Credited, Supplied
<1> QED BY <1>2, <1>3 DEF FulfilRead

LEMMA FoundKeeps ==
  ASSUME IInv, NEW p \in Procs, pc[p] \notin Unpaid \cup {"idle"}, Found(p),
         UNCHANGED <<rows, queueVars, budgets>>
  PROVE  IInv' /\ AbstractStep
<1>1. OrderOf(p) \in Cards /\ RowsTyped
  BY Busy DEF IInv
<1>2. provider[OrderOf(p)] \in Reported \cup {"none"}
  BY <1>1 DEF RowsTyped
<1> QED BY <1>2, ReadCarry DEF Found

LEMMA RecoverKeeps ==
  ASSUME IInv, NEW p \in Procs, Recover(p)
  PROVE  IInv' /\ AbstractStep
<1>1. pc[p] = "recover" /\ UNCHANGED <<rows, queueVars, budgets>>
  BY DEF Recover
<1>2. CASE Found(p)
  BY <1>1, <1>2, FoundKeeps DEF Unpaid
<1>3. CASE Goto(p, "preflight") /\ UNCHANGED ctx
  BY <1>1, <1>3, ReadGoto DEF Labels, Unpaid, Refunding, Credited, Supplied
<1> QED BY <1>2, <1>3 DEF Recover

LEMMA PreflightKeeps ==
  ASSUME IInv, NEW p \in Procs, Preflight(p)
  PROVE  IInv' /\ AbstractStep
<1>1. pc[p] = "preflight" /\ UNCHANGED <<rows, queueVars, budgets>>
  BY DEF Preflight
<1>2. CASE Carry(p, "FAILED", "flag")
  BY <1>1, <1>2, ReadCarry DEF Unpaid, Reported
<1>3. CASE Goto(p, "post") /\ UNCHANGED ctx
  BY <1>1, <1>3, ReadGoto DEF Labels, Unpaid, Refunding, Credited, Supplied
<1> QED BY <1>2, <1>3 DEF Preflight

LEMMA LastRecoverKeeps ==
  ASSUME IInv, NEW p \in Procs, LastRecover(p)
  PROVE  IInv' /\ AbstractStep
<1>1. pc[p] = "lastRecover" /\ UNCHANGED <<rows, queueVars, budgets>>
  BY DEF LastRecover
<1>2. CASE Found(p)
  BY <1>1, <1>2, FoundKeeps DEF Unpaid
<1>3. CASE Carry(p, "FAILED", "flag")
  BY <1>1, <1>3, ReadCarry DEF Unpaid, Reported
<1> QED BY <1>2, <1>3 DEF LastRecover

LEMMA DupRecoverKeeps ==
  ASSUME IInv, NEW p \in Procs, DupRecover(p)
  PROVE  IInv' /\ AbstractStep
<1>1. pc[p] = "dupRecover" /\ UNCHANGED <<rows, pollIds, budgets>>
  BY DEF DupRecover
<1>2. CASE Found(p) /\ UNCHANGED jobs
  BY <1>1, <1>2, FoundKeeps DEF Unpaid, queueVars
<1>3. CASE Fail(p)
  <2>1. RowsTyped
    BY DEF IInv
  <2> QED BY <1>1, <1>3, <2>1, FailKeeps DEF budgets, RowsTyped
<1> QED BY <1>2, <1>3 DEF DupRecover

LEMMA ThrowKeeps ==
  ASSUME IInv, NEW p \in Procs, Throw(p)
  PROVE  IInv' /\ AbstractStep
<1>1. RowsTyped
  BY DEF IInv
<1>2. throws' \in Nat
  BY <1>1 DEF Throw, Fault, RowsTyped
<1> QED BY <1>2, FailKeeps DEF Throw

\* Reloadly accepts an order, or settles one it has accepted.
LEMMA ProviderGrows ==
  ASSUME IInv, NEW o \in Cards, NEW s \in Reported, provider[o] \in {"none", "PENDING"},
         status[o] # "none", Charged(o), provider' = [provider EXCEPT ![o] = s],
         UNCHANGED <<status, ledger, issuance, notices, escalated, budgets>>
  PROVE  Grows /\ (\A k \in Cards : RowFine(k)') /\ AbstractStep
         /\ provider' \in [Cards -> Reported \cup {"none"}] /\ provider'[o] = s
<1>1. RowsTyped
  BY DEF IInv
<1>2. /\ provider' \in [Cards -> Reported \cup {"none"}] /\ provider'[o] = s
      /\ \A k \in Cards : k # o => provider'[k] = provider[k]
  BY <1>1 DEF RowsTyped
<1>3. Grows
  BY <1>2 DEF Grows, budgets
<1>4. ASSUME NEW k \in Cards PROVE RowFine(k)'
  <2>1. RowFine(k)
    BY DEF IInv
  <2> QED BY <1>2, <2>1 DEF RowFine, Charged, budgets
<1>5. AbstractStep
  <2> DEFINE supplied == [k \in Cards |-> provider[k] = "SUCCESSFUL"]
  <2>1. CASE s = "SUCCESSFUL"
    <3>1. [k \in Cards |-> provider'[k] = "SUCCESSFUL"] = [supplied EXCEPT ![o] = TRUE]
      BY <1>2, <2>1
    <3>2. Lifecycle!Supply(o)
      BY <3>1 DEF Lifecycle!Supply
    <3> QED BY <3>2 DEF AbstractStep, Lifecycle!LifecycleNext
  <2>2. CASE s # "SUCCESSFUL"
    <3>1. [k \in Cards |-> provider'[k] = "SUCCESSFUL"] = supplied
      BY <1>2, <2>2
    <3> QED BY <3>1 DEF AbstractStep, Lifecycle!lifecycleVars
  <2> QED BY <2>1, <2>2
<1> QED BY <1>2, <1>3, <1>4, <1>5

LEMMA PlaceOrderKeeps ==
  ASSUME IInv, NEW p \in Procs, PlaceOrder(p)
  PROVE  IInv' /\ AbstractStep
<1> DEFINE o == OrderOf(p)
           Accept(s) == provider[o] = "none" /\ provider' = [provider EXCEPT ![o] = s]
           Lost == IF LastAttempt(p) THEN Goto(p, "lastRecover") /\ UNCHANGED <<ctx, jobs>> ELSE Fail(p)
<1>1. /\ pc[p] = "post"
      /\ UNCHANGED <<status, ledger, issuance, notices, escalated, pollIds, budgets>>
  BY DEF PlaceOrder
<1>2. /\ o \in Cards /\ status[o] # "none" /\ Charged(o) /\ RowsTyped /\ ProcsTyped
      /\ (ctx[p].seen = "REFUNDED" => provider[o] = "REFUNDED")
  BY <1>1, Busy DEF Unpaid, IInv
<1>3. RowsTyped' <=>
        jobs' \in [Queues -> SUBSET Job] /\ provider' \in [Cards -> Reported \cup {"none"}]
  BY <1>1, <1>2 DEF RowsTyped, budgets
<1>4. ASSUME NEW s \in Reported, Accept(s), Carry(p, s, "record"), UNCHANGED jobs
      PROVE  IInv' /\ AbstractStep
  <2>1. /\ Grows /\ (\A k \in Cards : RowFine(k)') /\ AbstractStep
        /\ provider' \in [Cards -> Reported \cup {"none"}] /\ provider'[o] = s
    BY <1>1, <1>2, <1>4, ProviderGrows
  <2>2. Moves(p) /\ pc'[p] = "record" /\ Same(p) /\ ctx'[p].seen = s
    BY <1>2, <1>4, CarryMoves DEF Labels
  <2>3. ProcFine(p)'
    BY <1>1, <2>1, <2>2, GoesOn DEF Unpaid, Refunding, Credited
  <2> QED BY <1>1, <1>2, <1>3, <1>4, <2>1, <2>2, <2>3, WriteStep DEF queueVars, RowsTyped
<1>5. CASE Goto(p, "dupRecover") /\ UNCHANGED <<provider, ctx, jobs>>
  BY <1>1, <1>5, ReadGoto DEF Labels, Unpaid, Refunding, Credited, Supplied, rows, queueVars
<1>6. CASE Carry(p, "FAILED", "flag") /\ UNCHANGED <<provider, jobs>>
  BY <1>1, <1>6, ReadCarry DEF Unpaid, Reported, rows, queueVars
<1>7. CASE (Accept("PENDING") \/ UNCHANGED provider) /\ Lost
  <2>1. Grows /\ (\A k \in Cards : RowFine(k)') /\ AbstractStep
        /\ provider' \in [Cards -> Reported \cup {"none"}]
        /\ (provider[o] = "REFUNDED" => provider'[o] = "REFUNDED")
    <3>1. CASE Accept("PENDING")
      <4>1. "PENDING" \in Reported
        BY DEF Reported
      <4> QED BY <1>1, <1>2, <3>1, <4>1, ProviderGrows
    <3>2. CASE UNCHANGED provider
      <4>1. UNCHANGED <<rows, retries>>
        BY <1>1, <3>2 DEF rows, budgets
      <4>2. \A k \in Cards : RowFine(k)
        BY DEF IInv
      <4> QED BY <1>1, <1>2, <3>2, <4>1, <4>2, RowsGrow, Kept DEF RowsTyped
    <3> QED BY <1>7, <3>1, <3>2
  <2>2. CASE Goto(p, "lastRecover") /\ UNCHANGED <<ctx, jobs>>
    <3>1. Moves(p) /\ pc'[p] = "lastRecover" /\ ctx'[p] = ctx[p]
      BY <1>2, <2>2, GotoMoves DEF Labels
    <3>2. ProcFine(p)'
      BY <1>1, <1>2, <2>1, <3>1, GoesOn, SameCtx DEF Unpaid, Refunding, Credited
    <3> QED BY <1>1, <1>2, <1>3, <2>1, <2>2, <3>1, <3>2, WriteStep DEF queueVars, RowsTyped
  <2>3. CASE Fail(p)
    <3>1. Moves(p) /\ pc'[p] = "idle"
      BY <1>2, <2>3, FinishMoves DEF Fail
    <3>2. /\ jobs' \in [Queues -> SUBSET Job]
          /\ \A r \in Queues : \A k \in jobs'[r] : k \in jobs[r] \/ JobFine(k)
      BY <1>1, <2>3, FailJobs
    <3> QED BY <1>3, <2>1, <3>1, <3>2, DoneFine, ProcStep
  <2> QED BY <1>7, <2>2, <2>3
<1> QED BY <1>4, <1>5, <1>6, <1>7 DEF PlaceOrder

-----------------------------------------------------------------------------
(* What every path does with a transaction status                            *)

\* A charged order's issuance row is written.
LEMMA IssuanceGrows ==
  ASSUME IInv, NEW o \in Cards, NEW r \in [state : Reported \cup {"none"}, txn : BOOLEAN, codes : BOOLEAN],
         issuance' = [issuance EXCEPT ![o] = r], status[o] # "none", Charged(o),
         UNCHANGED <<status, ledger, provider, notices, escalated, queueVars, budgets>>
  PROVE  Grows /\ RowsTyped' /\ (\A k \in Cards : RowFine(k)') /\ AbstractStep
<1>1. RowsTyped
  BY DEF IInv
<1>2. RowsTyped'
  BY <1>1 DEF RowsTyped, queueVars, budgets
<1>3. Grows
  BY DEF Grows, budgets
<1>4. ASSUME NEW k \in Cards PROVE RowFine(k)'
  <2>1. RowFine(k) /\ issuance' \in [Cards -> [state : Reported \cup {"none"}, txn : BOOLEAN, codes : BOOLEAN]]
    BY <1>2 DEF IInv, RowsTyped
  <2>2. k # o => issuance'[k] = issuance[k]
    BY <1>1 DEF RowsTyped
  <2> QED BY <2>1, <2>2 DEF RowFine, Charged, budgets
<1> QED BY <1>2, <1>3, <1>4, Kept

LEMMA RecordKeeps ==
  ASSUME IInv, NEW p \in Procs, Record(p)
  PROVE  IInv' /\ AbstractStep
<1> DEFINE o == OrderOf(p)
           s == ctx[p].seen
           r == [issuance[o] EXCEPT !.state = s, !.txn = TRUE]
<1>1. /\ pc[p] = "record"
      /\ issuance' = [issuance EXCEPT ![o].state = s, ![o].txn = TRUE]
      /\ UNCHANGED <<status, ledger, provider, notices, escalated, queueVars, budgets>>
  BY DEF Record
<1>2. /\ o \in Cards /\ status[o] # "none" /\ Charged(o) /\ RowsTyped /\ ProcsTyped
      /\ (s = "REFUNDED" => provider[o] = "REFUNDED")
  BY <1>1, Busy DEF Unpaid, IInv
<1>3. s \in Reported \cup {"none"} /\ issuance[o] \in [state : Reported \cup {"none"}, txn : BOOLEAN, codes : BOOLEAN]
  BY <1>2 DEF ProcsTyped, CtxType, RowsTyped
<1>4. r \in [state : Reported \cup {"none"}, txn : BOOLEAN, codes : BOOLEAN]
  BY <1>3
<1>5. issuance' = [issuance EXCEPT ![o] = r]
  BY <1>1, <1>2 DEF RowsTyped
<1> HIDE DEF r
<1>6. Grows /\ RowsTyped' /\ (\A k \in Cards : RowFine(k)') /\ AbstractStep
  BY <1>1, <1>2, <1>4, <1>5, IssuanceGrows
<1>7. CASE Carry(p, "FAILED", "flag")
  <2>1. Moves(p) /\ pc'[p] = "flag" /\ Same(p) /\ ctx'[p].seen = "FAILED"
    BY <1>2, <1>7, CarryMoves DEF Labels, Reported
  <2>2. ProcFine(p)'
    BY <1>1, <1>6, <2>1, GoesOn DEF Unpaid, Refunding, Credited
  <2> QED BY <1>1, <1>6, <2>1, <2>2, WriteStep
<1>8. CASE Goto(p, AfterRecord(p, s)) /\ UNCHANGED ctx
  <2> DEFINE l == AfterRecord(p, s)
  <2>1. /\ l \in {"fetch", "flag", "schedule", "pollNext", "hookMark"}
        /\ l = "flag" => s \in {"FAILED", "REFUNDED"}
    BY DEF AfterRecord
  <2> HIDE DEF l
  <2>2. l \in Labels
    BY <2>1 DEF Labels
  <2>3. Moves(p) /\ pc'[p] = l /\ ctx'[p] = ctx[p]
    BY <1>2, <1>8, <2>2, GotoMoves DEF l
  <2>4. ProcFine(p)'
    BY <1>1, <1>2, <1>6, <2>1, <2>3, GoesOn, SameCtx DEF Unpaid, Refunding, Credited
  <2> QED BY <1>1, <1>6, <2>3, <2>4, WriteStep
<1> QED BY <1>7, <1>8 DEF Record

LEMMA FetchKeeps ==
  ASSUME IInv, NEW p \in Procs, Fetch(p)
  PROVE  IInv' /\ AbstractStep
<1>1. /\ pc[p] = "fetch" /\ provider[OrderOf(p)] = "SUCCESSFUL" /\ Goto(p, "store")
      /\ UNCHANGED <<rows, queueVars, budgets>>
  BY DEF Fetch
<1>2. PICK b \in BOOLEAN : ctx' = [ctx EXCEPT ![p].known = b]
  BY DEF Fetch
<1>3. ProcsTyped /\ ctx[p] \in CtxType /\ Grows /\ (ctx[p].seen = "REFUNDED" => provider[OrderOf(p)] = "REFUNDED")
  BY <1>1, Busy, RowsGrow DEF IInv, ProcsTyped, budgets
<1> DEFINE c == [ctx[p] EXCEPT !.known = b]
<1>4. /\ c \in CtxType /\ c.order = ctx[p].order /\ c.job = ctx[p].job /\ c.note = ctx[p].note
      /\ c.seen = ctx[p].seen
  BY <1>3 DEF CtxType
<1>5. ctx' = [ctx EXCEPT ![p] = c] /\ pc' = [pc EXCEPT ![p] = "store"] /\ "store" \in Labels
  BY <1>1, <1>2 DEF Goto, F!Goto, Labels
<1> HIDE DEF c
<1>6. Moves(p) /\ pc'[p] = "store" /\ ctx'[p] = c
  BY <1>3, <1>4, <1>5, BeginMoves
<1>7. Same(p)
  BY <1>4, <1>6 DEF Same
<1>8. ProcFine(p)'
  BY <1>1, <1>3, <1>4, <1>6, <1>7, GoesOn DEF Unpaid, Refunding, Credited, rows
<1> QED BY <1>1, <1>6, <1>8, ReadStep

LEMMA StoreKeeps ==
  ASSUME IInv, NEW p \in Procs, Store(p)
  PROVE  IInv' /\ AbstractStep
<1> DEFINE o == OrderOf(p)
           r == [issuance[o] EXCEPT !.codes = ctx[p].known]
           c == [ctx[p] EXCEPT !.known = FALSE, !.seen = "none"]
<1>1. /\ pc[p] = "store" /\ Goto(p, "giftRead")
      /\ issuance' = [issuance EXCEPT ![o].codes = ctx[p].known]
      /\ ctx' = [ctx EXCEPT ![p].known = FALSE, ![p].seen = "none"]
      /\ UNCHANGED <<status, ledger, provider, notices, escalated, queueVars, budgets>>
  BY DEF Store
<1>2. /\ o \in Cards /\ status[o] # "none" /\ Charged(o) /\ RowsTyped /\ ProcsTyped
      /\ provider[o] = "SUCCESSFUL"
  BY <1>1, Busy DEF Unpaid, IInv
<1>3. ctx[p] \in CtxType /\ ctx[p].known \in BOOLEAN
      /\ issuance[o] \in [state : Reported \cup {"none"}, txn : BOOLEAN, codes : BOOLEAN]
  BY <1>2 DEF ProcsTyped, CtxType, RowsTyped
<1>4. r \in [state : Reported \cup {"none"}, txn : BOOLEAN, codes : BOOLEAN]
  BY <1>3
<1>5. issuance' = [issuance EXCEPT ![o] = r]
  BY <1>1
<1>6. /\ c \in CtxType /\ c.order = ctx[p].order /\ c.job = ctx[p].job /\ c.note = ctx[p].note
      /\ c.seen = "none"
  BY <1>3 DEF CtxType
<1>7. ctx' = [ctx EXCEPT ![p] = c] /\ pc' = [pc EXCEPT ![p] = "giftRead"] /\ "giftRead" \in Labels
  BY <1>1, <1>2 DEF Goto, F!Goto, Labels, ProcsTyped
<1> HIDE DEF r, c
<1>8. Grows /\ RowsTyped' /\ (\A k \in Cards : RowFine(k)') /\ AbstractStep
  BY <1>1, <1>2, <1>4, <1>5, IssuanceGrows
<1>9. Moves(p) /\ pc'[p] = "giftRead" /\ ctx'[p] = c
  BY ZenonT(40), <1>2, <1>6, <1>7, BeginMoves
<1>10. Same(p)
  BY <1>6, <1>9 DEF Same
<1>11. ProcFine(p)'
  BY <1>1, <1>2, <1>6, <1>8, <1>9, <1>10, GoesOn DEF Unpaid, Refunding, Credited
<1> QED BY <1>1, <1>8, <1>9, <1>11, WriteStep

LEMMA CompleteReadKeeps ==
  ASSUME IInv, NEW p \in Procs, CompleteRead(p)
  PROVE  IInv' /\ AbstractStep
<1>1. pc[p] = "giftRead" /\ UNCHANGED <<rows, queueVars, budgets>>
  BY DEF CompleteRead
<1>2. provider[OrderOf(p)] = "SUCCESSFUL"
  BY <1>1, Busy
<1>3. CASE F!Return(p)
  <2>1. (Goto(p, "hookMark") /\ UNCHANGED ctx) \/ Finish(p)
    BY <1>3 DEF F!Return, Goto, Finish
  <2> QED BY <1>1, <2>1, ReadGoto, ReadFinish DEF Labels, Unpaid, Refunding, Credited, Supplied
<1>4. CASE Goto(p, "giftComplete") /\ UNCHANGED ctx
  BY <1>1, <1>2, <1>4, ReadGoto DEF Labels, Unpaid, Refunding, Credited, Supplied
<1> QED BY <1>3, <1>4 DEF CompleteRead

LEMMA ReturnFine ==
  ASSUME IInv, Grows, NEW p \in Procs, pc[p] \notin Unpaid \cup {"idle"}, F!Return(p)
  PROVE  Moves(p) /\ ProcFine(p)'
<1>1. ProcsTyped /\ RowsTyped
  BY DEF IInv
<1>2. Moves(p) /\ (pc'[p] = "idle" \/ (pc'[p] = "hookMark" /\ ctx'[p] = ctx[p]))
  BY <1>1, ReturnMoves
<1>3. OrderOf(p) \in Cards /\ (ctx[p].seen = "REFUNDED" => provider'[OrderOf(p)] = "REFUNDED")
  BY Busy DEF Grows
<1>4. CASE pc'[p] = "hookMark" /\ ctx'[p] = ctx[p]
  BY <1>2, <1>3, <1>4, GoesOn, SameCtx DEF Unpaid, Refunding, Credited
<1> QED BY <1>2, <1>4, DoneFine

LEMMA CompleteKeeps ==
  ASSUME IInv, NEW p \in Procs, Complete(p)
  PROVE  IInv' /\ AbstractStep
<1> DEFINE o == OrderOf(p)
<1>1. /\ pc[p] = "giftComplete" /\ F!Return(p)
      /\ status' = [status EXCEPT ![o] = "COMPLETED"]
      /\ notices' = [notices EXCEPT ![o] = @ \cup {"completed"}]
      /\ UNCHANGED <<ledger, issuance, provider, escalated, queueVars, budgets>>
  BY DEF Complete
<1>2. o \in Cards /\ provider[o] = "SUCCESSFUL" /\ RowsTyped
  BY <1>1, Busy DEF IInv
<1>3. Grows
  BY <1>1, <1>2 DEF Grows, RowsTyped, budgets
<1>4. RowsTyped'
  BY <1>1, <1>2 DEF RowsTyped, queueVars, budgets
<1>5. ASSUME NEW k \in Cards PROVE RowFine(k)'
  <2>1. RowFine(k)
    BY DEF IInv
  <2> QED BY <1>1, <1>2, <2>1 DEF RowFine, RowsTyped, Charged, budgets
<1>6. Moves(p) /\ ProcFine(p)'
  BY <1>1, <1>3, ReturnFine DEF Unpaid
<1>7. IInv'
  BY <1>1, <1>3, <1>4, <1>5, <1>6, WriteStep
<1>8. Lifecycle!Complete(o)
  BY <1>1, <1>2 DEF Lifecycle!Complete
<1> QED BY <1>2, <1>7, <1>8 DEF AbstractStep, Lifecycle!LifecycleNext

LEMMA FlagKeeps ==
  ASSUME IInv, NEW p \in Procs, Flag(p)
  PROVE  IInv' /\ AbstractStep
<1> DEFINE o == OrderOf(p)
           r == [issuance[o] EXCEPT !.state = ctx[p].seen]
<1>1. /\ pc[p] = "flag" /\ Goto(p, "refundRead") /\ UNCHANGED ctx
      /\ issuance' = [issuance EXCEPT ![o].state = ctx[p].seen]
      /\ UNCHANGED <<status, ledger, provider, notices, escalated, queueVars, budgets>>
  BY DEF Flag
<1>2. /\ o \in Cards /\ status[o] # "none" /\ Charged(o) /\ RowsTyped /\ ProcsTyped
      /\ (ctx[p].seen = "REFUNDED" => provider[o] = "REFUNDED") /\ ctx[p].seen \in {"FAILED", "REFUNDED"}
  BY <1>1, Busy DEF Unpaid, Refunding, Credited, IInv
<1>3. issuance[o] \in [state : Reported \cup {"none"}, txn : BOOLEAN, codes : BOOLEAN]
  BY <1>2 DEF RowsTyped
<1>4. r \in [state : Reported \cup {"none"}, txn : BOOLEAN, codes : BOOLEAN]
  BY <1>2, <1>3 DEF Reported
<1>5. issuance' = [issuance EXCEPT ![o] = r]
  BY <1>1
<1> HIDE DEF r
<1>6. Grows /\ RowsTyped' /\ (\A k \in Cards : RowFine(k)') /\ AbstractStep
  BY <1>1, <1>2, <1>4, <1>5, IssuanceGrows
<1>7. Moves(p) /\ pc'[p] = "refundRead" /\ ctx'[p] = ctx[p]
  BY <1>1, <1>2, GotoMoves DEF Labels
<1>8. ProcFine(p)'
  BY <1>1, <1>2, <1>6, <1>7, GoesOn, SameCtx DEF Unpaid, Refunding, Credited
<1> QED BY <1>1, <1>6, <1>7, <1>8, WriteStep

LEMMA RefundAndFailKeeps ==
  ASSUME IInv, NEW p \in Procs, RefundAndFail(p)
  PROVE  IInv' /\ AbstractStep
<1> DEFINE o == OrderOf(p)
<1> SUFFICES ASSUME pc[p] \in Refunding \ {"flag"}
             PROVE  IInv' /\ AbstractStep
  BY DEF RefundAndFail, F!RefundRead, F!MarkFailed, F!CreditRefund, F!MarkRefunded, F!AnnounceFailed,
         Refunding
<1>1. /\ o \in Cards /\ status[o] # "none" /\ Charged(o) /\ RowsTyped /\ ProcsTyped
      /\ (ctx[p].seen = "REFUNDED" => provider[o] = "REFUNDED") /\ ctx[p].seen \in {"FAILED", "REFUNDED"}
      /\ pc[p] \notin Unpaid \cup {"idle"} /\ UNCHANGED budgets
  BY Busy DEF Unpaid, Refunding, Credited, IInv, RefundAndFail
<1>2. CASE F!MarkFailed(p) /\ UNCHANGED escalated
  <2>1. /\ status' = [status EXCEPT ![o] = "FAILED"] /\ Goto(p, "credit") /\ UNCHANGED ctx
        /\ UNCHANGED <<ledger, issuance, provider, notices, escalated, queueVars, budgets>>
    BY <1>1, <1>2 DEF F!MarkFailed, Goto, OrderOf, queueVars
  <2>2. Grows /\ RowsTyped' /\ (\A k \in Cards : RowFine(k)') /\ AbstractStep
    BY <1>1, <2>1, WorkGrows
  <2>3. Moves(p) /\ pc'[p] = "credit" /\ ctx'[p] = ctx[p]
    BY <1>1, <2>1, GotoMoves DEF Labels
  <2>4. ProcFine(p)'
    BY <1>1, <2>1, <2>2, <2>3, GoesOn, SameCtx DEF Unpaid, Refunding, Credited
  <2> QED BY <2>1, <2>2, <2>3, <2>4, WriteStep
<1>3. CASE F!CreditRefund(p) /\ UNCHANGED escalated
  <2>1. /\ ledger' = [ledger EXCEPT ![o] = @ \cup {"refund"}] /\ Goto(p, "markRefunded") /\ UNCHANGED ctx
        /\ UNCHANGED <<status, issuance, provider, notices, escalated, queueVars, budgets>>
    BY <1>1, <1>3 DEF F!CreditRefund, Goto, OrderOf, queueVars
  <2>2. Grows /\ RowsTyped' /\ "refund" \in ledger'[o] /\ (\A k \in Cards : RowFine(k)') /\ AbstractStep
    BY <1>1, <2>1, PostGrows DEF budgets, RowsTyped
  <2>3. Moves(p) /\ pc'[p] = "markRefunded" /\ ctx'[p] = ctx[p]
    BY <1>1, <2>1, GotoMoves DEF Labels
  <2>4. ProcFine(p)'
    BY <1>1, <2>1, <2>2, <2>3, GoesOn, SameCtx DEF Unpaid, Refunding, Credited
  <2> QED BY <2>1, <2>2, <2>3, <2>4, WriteStep
<1>4. CASE F!MarkRefunded(p) /\ UNCHANGED escalated
  <2>1. /\ pc[p] = "markRefunded" /\ status' = [status EXCEPT ![o] = "REFUNDED"]
        /\ Goto(p, "announceFailed") /\ UNCHANGED ctx
        /\ UNCHANGED <<ledger, issuance, provider, notices, escalated, queueVars, budgets>>
    BY <1>1, <1>4 DEF F!MarkRefunded, Goto, OrderOf, queueVars
  <2>2. "refund" \in ledger[o]
    BY <2>1, Busy DEF Credited
  <2>3. Grows
    BY <1>1, <2>1 DEF Grows, RowsTyped, budgets
  <2>4. RowsTyped'
    BY <1>1, <2>1 DEF RowsTyped, queueVars, budgets
  <2>5. ASSUME NEW k \in Cards PROVE RowFine(k)'
    <3>1. RowFine(k)
      BY DEF IInv
    <3> QED BY <1>1, <2>1, <3>1 DEF RowFine, RowsTyped, Charged, budgets
  <2>6. Moves(p) /\ pc'[p] = "announceFailed" /\ ctx'[p] = ctx[p]
    BY <1>1, <2>1, GotoMoves DEF Labels
  <2>7. ProcFine(p)'
    BY <1>1, <2>1, <2>2, <2>3, <2>6, GoesOn, SameCtx DEF Unpaid, Refunding, Credited
  <2>8. IInv'
    BY <2>1, <2>3, <2>4, <2>5, <2>6, <2>7, WriteStep
  <2>9. Lifecycle!Close(o)
    BY <2>1, <2>2 DEF Lifecycle!Close
  <2> QED BY <1>1, <2>8, <2>9 DEF AbstractStep, Lifecycle!LifecycleNext
<1>7. CASE F!AnnounceFailed(p) /\ Escalate(p)
  <2>1. /\ pc[p] = "announceFailed" /\ notices' = [notices EXCEPT ![o] = @ \cup {"failed"}]
        /\ escalated' = [escalated EXCEPT ![o] = @ \/ ctx[p].seen = "FAILED"]
        /\ F!Return(p) /\ UNCHANGED <<status, ledger, issuance, provider, queueVars, budgets>>
    BY <1>1, <1>7 DEF F!AnnounceFailed, Escalate, OrderOf, queueVars
  <2>2. "refund" \in ledger[o]
    BY <2>1, Busy DEF Credited
  <2>3. Grows
    BY <2>1 DEF Grows, budgets
  <2>4. RowsTyped'
    <3>1. escalated' \in [Cards -> BOOLEAN]
      BY <1>1, <2>1, Zenon DEF RowsTyped
    <3> QED BY <1>1, <2>1, <3>1 DEF RowsTyped, queueVars, budgets
  <2>5. ASSUME NEW k \in Cards PROVE RowFine(k)'
    BY <1>1, <2>1, <2>3, RowStays DEF RowKept
  <2>6. Moves(p) /\ ProcFine(p)'
    BY <1>1, <2>1, <2>3, ReturnFine
  <2>7. IInv'
    BY <2>1, <2>3, <2>4, <2>5, <2>6, WriteStep
  <2>8. Lifecycle!Regret(o)
    BY <2>1, <2>2 DEF Lifecycle!Regret
  <2> QED BY <1>1, <2>7, <2>8 DEF AbstractStep, Lifecycle!LifecycleNext
<1>5. CASE F!RefundRead(p) /\ status[o] \notin Terminal /\ UNCHANGED escalated
  <2>1. Goto(p, "markFailed") /\ UNCHANGED ctx /\ UNCHANGED <<rows, queueVars, budgets>>
    BY <1>1, <1>5 DEF F!RefundRead, F!serviceVars, rows, queueVars, Goto, OrderOf, Terminal, F!Terminal
  <2>2. Moves(p) /\ pc'[p] = "markFailed" /\ ctx'[p] = ctx[p]
    BY <1>1, <2>1, GotoMoves DEF Labels
  <2>3. Grows
    BY <2>1, RowsGrow DEF budgets
  <2>4. ProcFine(p)'
    BY <1>1, <2>1, <2>2, <2>3, GoesOn, SameCtx DEF Unpaid, Refunding, Credited, rows
  <2> QED BY <2>1, <2>2, <2>4, ReadStep
<1>6. CASE F!RefundRead(p) /\ status[o] \in Terminal /\ Escalate(p)
  <2>1. /\ F!Return(p) /\ escalated' = [escalated EXCEPT ![o] = @ \/ ctx[p].seen = "FAILED"]
        /\ UNCHANGED <<status, ledger, issuance, provider, notices, queueVars, budgets>>
    BY <1>1, <1>6 DEF F!RefundRead, F!serviceVars, queueVars, OrderOf, Terminal, F!Terminal, Escalate
  <2>2. Grows
    BY <2>1 DEF Grows, budgets
  <2>3. RowsTyped'
    <3>1. escalated' \in [Cards -> BOOLEAN]
      BY <1>1, <2>1, Zenon DEF RowsTyped
    <3> QED BY <1>1, <2>1, <3>1 DEF RowsTyped, queueVars, budgets
  <2>4. ASSUME NEW k \in Cards PROVE RowFine(k)'
    BY <1>1, <2>1, <2>2, RowStays DEF RowKept, RowsTyped
  <2>5. Moves(p) /\ ProcFine(p)'
    BY <1>1, <2>2, <2>1, ReturnFine
  <2>6. IInv'
    BY <2>1, <2>2, <2>3, <2>4, <2>5, WriteStep
  <2> QED BY <2>1, <2>6, Kept
<1> QED BY <1>2, <1>3, <1>4, <1>5, <1>6, <1>7 DEF RefundAndFail

-----------------------------------------------------------------------------
(* Polls, webhook, sweeps, Reloadly and restarts                             *)

LEMMA ScheduleKeeps ==
  ASSUME IInv, NEW p \in Queues, Schedule(p)
  PROVE  IInv' /\ AbstractStep
<1> DEFINE o == OrderOf(p)
           n == IF pc[p] = "schedule" THEN 1 ELSE ctx[p].job.n + 1
           j == [order |-> o, tag |-> 0, n |-> n]
<1>1. /\ pc[p] \in {"schedule", "pollNext"} /\ AddPoll(o, n) /\ Finish(p)
      /\ UNCHANGED <<rows, budgets>> /\ p \in Procs
  BY ProcsDisjoint DEF Schedule
<1>2. /\ o \in Cards /\ status[o] # "none" /\ Charged(o) /\ RowsTyped /\ ProcsTyped
      /\ ctx[p].job \in Job
  BY <1>1, Busy DEF Unpaid, IInv
<1>3. n \in Nat
  BY <1>2 DEF Job
<1>4. JobFine(j)
  BY <1>2, <1>3, JobOfOrder, BoundsAssumption
<1>5. \/ UNCHANGED <<jobs, pollIds>>
      \/ /\ jobs' = [jobs EXCEPT !["poll"] = @ \cup {j}]
         /\ pollIds' = [pollIds EXCEPT ![o] = @ \cup {n}]
  BY <1>1 DEF AddPoll, queueVars
<1> HIDE DEF j, n
<1>6. /\ jobs' \in [Queues -> SUBSET Job]
      /\ \A q \in Queues : \A k \in jobs'[q] : k \in jobs[q] \/ JobFine(k)
  <2>1. CASE UNCHANGED jobs
    BY <1>2, <2>1 DEF RowsTyped
  <2>2. CASE jobs' = [jobs EXCEPT !["poll"] = @ \cup {j}]
    BY <1>4, <2>2, OneMoreJob, ProcsDisjoint
  <2> QED BY <1>5, <2>1, <2>2
<1>7. pollIds' \in [Cards -> SUBSET Nat]
  BY <1>2, <1>3, <1>5 DEF RowsTyped
<1>8. Moves(p) /\ pc'[p] = "idle"
  BY <1>1, <1>2, FinishMoves
<1> QED BY <1>1, <1>2, <1>6, <1>7, <1>8, DoneFine, QueueStep DEF RowsTyped, budgets

LEMMA PollReadKeeps ==
  ASSUME IInv, NEW p \in Procs, PollRead(p)
  PROVE  IInv' /\ AbstractStep
<1>1. pc[p] = "pollRead" /\ UNCHANGED <<rows, queueVars, budgets>>
  BY DEF PollRead
<1>2. CASE Finish(p)
  BY <1>1, <1>2, ReadFinish
<1>3. CASE Goto(p, "pollQuery") /\ UNCHANGED ctx
  BY <1>1, <1>3, ReadGoto DEF Labels, Unpaid, Refunding, Credited, Supplied
<1> QED BY <1>2, <1>3 DEF PollRead

LEMMA PollQueryKeeps ==
  ASSUME IInv, NEW p \in Procs, PollQuery(p)
  PROVE  IInv' /\ AbstractStep
<1>1. pc[p] = "pollQuery" /\ UNCHANGED <<rows, queueVars, budgets>>
  BY DEF PollQuery
<1>2. provider[OrderOf(p)] \in Reported \cup {"none"}
  BY <1>1, Busy DEF IInv, RowsTyped
<1> QED BY <1>1, <1>2, ReadCarry DEF Unpaid, PollQuery

LEMMA HookBeginKeeps ==
  ASSUME IInv, NEW h \in Handlers, NEW o \in Cards, NEW hint \in Reported, HookBegin(h, o, hint)
  PROVE  IInv' /\ AbstractStep
<1> DEFINE c == [F!NoCtx EXCEPT !.order = o, !.note = hint]
<1>1. h \in Procs /\ h \notin Queues /\ ProcsTyped /\ RowFine(o)
  BY ProcsDisjoint DEF IInv
<1>2. /\ provider[o] # "none" /\ hint \in {"PENDING", provider[o]}
      /\ pc' = [pc EXCEPT ![h] = "hookRead"] /\ ctx' = [ctx EXCEPT ![h] = c]
      /\ UNCHANGED <<rows, queueVars, budgets>>
  BY DEF HookBegin
<1>3. c \in CtxType /\ c.order = o /\ c.seen = "none" /\ c.note = hint
  BY DEF F!NoCtx, CtxType, F!NoJob, Reported
<1> HIDE DEF c
<1>4. Moves(h) /\ pc'[h] = "hookRead" /\ ctx'[h] = c
  BY <1>1, <1>2, <1>3, BeginMoves DEF Labels
<1>5. status[o] # "none" /\ Charged(o)
  BY <1>1, <1>2 DEF RowFine
<1>6. ProcFine(h)'
  BY <1>1, <1>2, <1>3, <1>4, <1>5
     DEF ProcFine, OrderOf, F!OrderOf, Unpaid, Refunding, Credited, Charged, rows, budgets
<1> QED BY <1>1, <1>2, <1>4, <1>6, ReadStep

LEMMA HookKeeps ==
  ASSUME IInv, NEW p \in Procs, HookRead(p) \/ HookResolve(p) \/ HookMark(p)
  PROVE  IInv' /\ AbstractStep
<1>1. CASE HookRead(p)
  <2> DEFINE l == IF status[OrderOf(p)] \in Terminal THEN "hookMark" ELSE "hookResolve"
  <2>1. /\ pc[p] = "hookRead" /\ Goto(p, l) /\ UNCHANGED <<rows, ctx, queueVars, budgets>>
    BY <1>1 DEF HookRead
  <2>2. l \in {"hookMark", "hookResolve"}
    OBVIOUS
  <2> HIDE DEF l
  <2> QED BY <2>1, <2>2, ReadGoto DEF Labels, Unpaid, Refunding, Credited, Supplied
<1>2. CASE HookResolve(p)
  <2>1. /\ pc[p] = "hookResolve" /\ UNCHANGED <<rows, queueVars, budgets>>
    BY <1>2 DEF HookResolve
  <2>2. CASE Goto(p, "hookMark") /\ UNCHANGED ctx
    BY <2>1, <2>2, ReadGoto DEF Labels, Unpaid, Refunding, Credited, Supplied
  <2>3. /\ provider[OrderOf(p)] \in Reported \cup {"none"} /\ ctx[p].note \in Reported \cup {"none"}
        /\ (ctx[p].note = "REFUNDED" => provider[OrderOf(p)] = "REFUNDED")
    BY <2>1, Busy DEF IInv, RowsTyped, ProcsTyped, CtxType
  <2>4. ASSUME NEW s \in {provider[OrderOf(p)], ctx[p].note}, Carry(p, s, "record")
        PROVE  IInv' /\ AbstractStep
    BY <2>1, <2>3, <2>4, ReadCarry DEF Unpaid
  <2> QED BY <1>2, <2>2, <2>4 DEF HookResolve
<1>3. CASE HookMark(p)
  BY <1>3, ReadFinish DEF HookMark
<1> QED BY <1>1, <1>2, <1>3

LEMMA SweepsKeep ==
  ASSUME IInv, NEW h \in Handlers, NEW o \in Cards, Sweep(h, o) \/ SweepMissingCodes(h, o)
  PROVE  IInv' /\ AbstractStep
<1>1. UNCHANGED <<rows, queueVars, budgets>> /\ RowFine(o)
  BY DEF Sweep, SweepMissingCodes, IInv
<1>2. Grows
  BY <1>1, RowsGrow DEF budgets
<1>3. PICK l \in {"retryMark", "addFresh", "fetch"} : Begin(h, l, o)
  BY DEF Sweep, SweepMissingCodes
<1>4. status[o] # "none" /\ Charged(o)
  BY <1>1 DEF Sweep, SweepMissingCodes, RowFine
<1>5. Charged(o)'
  BY <1>1, <1>4 DEF Charged, rows, budgets
<1>6. h \in Procs /\ Moves(h) /\ ProcFine(h)'
  BY <1>2, <1>3, <1>4, <1>5, BegunFine
<1> QED BY <1>1, <1>6, ReadStep

\* A step that leaves processes and queues alone.
LEMMA SettleKeeps ==
  ASSUME IInv, NEW o \in Cards, Settle(o)
  PROVE  IInv' /\ AbstractStep
<1>1. RowsTyped /\ ProcsTyped /\ JobsFine /\ RowFine(o)
  BY DEF IInv
<1>2. PICK s \in Reported : provider' = [provider EXCEPT ![o] = s]
  BY DEF Settle
<1>3. /\ provider[o] = "PENDING"
      /\ UNCHANGED <<status, ledger, issuance, notices, escalated, queueVars, procVars, budgets>>
  BY DEF Settle
<1>4. status[o] # "none" /\ Charged(o)
  BY <1>1, <1>3 DEF RowFine
<1>5. Grows /\ (\A k \in Cards : RowFine(k)') /\ AbstractStep
      /\ provider' \in [Cards -> Reported \cup {"none"}]
  BY <1>2, <1>3, <1>4, ProviderGrows
<1>6. RowsTyped' /\ ProcsTyped'
  BY <1>1, <1>3, <1>5 DEF RowsTyped, ProcsTyped, queueVars, procVars, budgets
<1>7. JobsFine'
  <2>1. \A j : JobFine(j) => JobFine(j)'
    BY <1>1, <1>5, StaysFine
  <2> QED BY <1>1, <1>3, <2>1 DEF JobsFine, queueVars
<1>8. IInv'
  BY <1>3, <1>5, <1>6, <1>7, Preserve DEF procVars
<1> QED BY <1>5, <1>8

LEMMA CrashKeeps ==
  ASSUME IInv, Crash
  PROVE  IInv' /\ AbstractStep
<1>1. RowsTyped /\ ProcsTyped /\ JobsFine /\ \A o \in Cards : RowFine(o)
  BY DEF IInv
<1>2. /\ crashes' = 1 /\ UNCHANGED <<rows, pollIds, retries, throws>>
      /\ jobs' = [q \in Queues |-> jobs[q] \cup (IF pc[q] = "idle" THEN {} ELSE {ctx[q].job})]
      /\ pc' = [p \in Procs |-> "idle"] /\ ctx' = [p \in Procs |-> F!NoCtx]
  BY DEF Crash
<1>3. Grows /\ \A o \in Cards : RowFine(o)'
  BY <1>1, <1>2, RowsGrow
<1>4. ASSUME NEW q \in Queues, NEW j \in jobs'[q] PROVE j \in Job /\ JobFine(j)
  <2>1. CASE j \in jobs[q]
    BY <1>1, <2>1 DEF JobsFine, JobFine
  <2>2. CASE pc[q] # "idle" /\ j = ctx[q].job
    BY <2>2, ProcsDisjoint, Busy DEF JobFine
  <2> QED BY <1>2, <2>1, <2>2
<1>5. RowsTyped'
  <2>1. jobs' \in [Queues -> SUBSET Job]
    BY <1>2, <1>4
  <2> QED BY <1>1, <1>2, <2>1 DEF RowsTyped, rows
<1>6. ProcsTyped' /\ \A p \in Procs : ProcFine(p)'
  BY <1>2, NoCtxTyped DEF ProcsTyped, Labels, ProcFine
<1>7. JobsFine'
  <2>1. \A j : JobFine(j) => JobFine(j)'
    BY <1>1, <1>3, StaysFine
  <2> QED BY <1>4, <2>1 DEF JobsFine
<1>8. IInv'
  BY <1>3, <1>5, <1>6, <1>7 DEF IInv
<1> QED BY <1>2, <1>8, Kept DEF rows

-----------------------------------------------------------------------------
LEMMA InitFine == Init => IInv /\ Lifecycle!LifecycleInit
<1> SUFFICES ASSUME Init PROVE IInv /\ Lifecycle!LifecycleInit
  OBVIOUS
<1>1. RowsTyped
  <2>1. issuance \in [Cards -> [state : Reported \cup {"none"}, txn : BOOLEAN, codes : BOOLEAN]]
    BY DEF Init
  <2> QED BY <2>1 DEF Init, RowsTyped
<1>2. ProcsTyped /\ \A p \in Procs : ProcFine(p)
  BY NoCtxTyped DEF Init, ProcsTyped, ProcFine, Labels
<1>3. JobsFine
  BY DEF Init, JobsFine
<1>4. ASSUME NEW o \in Cards PROVE RowFine(o)
  <2>1. status[o] = "none" /\ provider[o] = "none" /\ issuance[o].state = "none" /\ ledger[o] = {}
    BY DEF Init
  <2> QED BY <2>1 DEF RowFine
<1>5. [o \in Cards |-> provider[o] = "SUCCESSFUL"] = [o \in Cards |-> FALSE]
  BY DEF Init
<1> QED BY <1>1, <1>2, <1>3, <1>4, <1>5 DEF IInv, Init, Lifecycle!LifecycleInit

LEMMA StepKeeps ==
  ASSUME IInv, [Next]_vars
  PROVE  IInv' /\ AbstractStep
<1>1. CASE UNCHANGED vars
  <2>1. IInv'
    BY <1>1 DEF vars, rows, queueVars, procVars, budgets, IInv, RowsTyped, ProcsTyped, JobsFine, JobFine,
                RowFine, ProcFine, Charged, OrderOf, F!OrderOf
  <2> QED BY <1>1, <2>1, Kept DEF vars, rows
<1>2. ASSUME NEW p \in Procs, Step(p) PROVE IInv' /\ AbstractStep
  <2>1. CASE Outcome(p)
    BY <2>1, RecordKeeps, FetchKeeps, StoreKeeps, CompleteReadKeeps, CompleteKeeps, FlagKeeps,
       RefundAndFailKeeps DEF Outcome
  <2>2. CASE p = "fulfil" /\ FulfilWorker(p)
    BY <2>2, ProcsDisjoint, FulfilReadKeeps, RecoverKeeps, PreflightKeeps, PlaceOrderKeeps,
       DupRecoverKeeps, LastRecoverKeeps, ScheduleKeeps DEF FulfilWorker
  <2>3. CASE p = "poll" /\ PollWorker(p)
    BY <2>3, ProcsDisjoint, PollReadKeeps, PollQueryKeeps, ScheduleKeeps DEF PollWorker
  <2>4. CASE p \in Handlers /\ Handler(p)
    BY <2>4, CreateIssuanceKeeps, DebitKeeps, MarkUnpaidKeeps, StartKeeps, EnqueueKeeps,
       AddFreshKeeps, HookKeeps DEF Handler
  <2> QED BY <1>2, <2>1, <2>2, <2>3, <2>4 DEF Step
<1> QED BY <1>1, <1>2, ThrowKeeps, TakeKeeps, CreateKeeps, RetryKeeps, SweepsKeep, HookBeginKeeps,
           RevealKeeps, SettleKeeps, CrashKeeps DEF Next

LEMMA Invariance == Spec => []IInv
<1>1. Init => IInv
  BY InitFine
<1>2. IInv /\ [Next]_vars => IInv'
  BY StepKeeps
<1> QED BY <1>1, <1>2, PTL DEF Spec

-----------------------------------------------------------------------------
(* Who alerts.  A refund is in the wallet from the credit on; its alert has   *)
(* been raised, is not due, or is still to come from the process that        *)
(* credited, unless that process was cut off in between.                     *)

Alerted(o) ==
  "refund" \in ledger[o] =>
    escalated[o] \/ provider[o] = "REFUNDED" \/ o \in CutOff(Procs) \cup cut
Alerts == cut \subseteq Cards /\ \A o \in Cards : Alerted(o)

\* No refund comes in, no alert and no reversal by Reloadly goes away.
Silent ==
  \A o \in Cards :
    /\ "refund" \in ledger'[o] => "refund" \in ledger[o]
    /\ escalated[o] => escalated'[o]
    /\ provider[o] = "REFUNDED" => provider'[o] = "REFUNDED"

\* Every process but p stays where it is.
OnlyMoves(p) == \A q \in Procs : q # p => pc'[q] = pc[q] /\ ctx'[q] = ctx[q]

\* A step of p, which was not between credit and alert or is accounted for.
LEMMA StillAlerted ==
  ASSUME Alerts, Silent, NEW p \in Procs, OnlyMoves(p), cut \subseteq cut', cut' \subseteq Cards,
         pc[p] \in Credited =>
           LET o == OrderOf(p) IN
           \/ o \in cut' \/ escalated'[o] \/ provider'[o] = "REFUNDED"
           \/ pc'[p] \in Credited /\ ctx'[p] = ctx[p]
  PROVE  Alerts'
<1> SUFFICES ASSUME NEW o \in Cards, "refund" \in ledger'[o]
             PROVE  escalated'[o] \/ provider'[o] = "REFUNDED" \/ o \in CutOff(Procs)' \cup cut'
  BY DEF Alerts, Alerted
<1>1. CASE o \in cut
  BY <1>1
<1>2. CASE escalated[o] \/ provider[o] = "REFUNDED"
  BY <1>2 DEF Silent
<1>3. CASE o \in CutOff(Procs)
  <2>1. PICK q \in Procs : pc[q] \in Credited /\ OrderOf(q) = o
    BY <1>3 DEF CutOff
  <2>2. ASSUME pc'[q] \in Credited, ctx'[q] = ctx[q] PROVE o \in CutOff(Procs)'
    <3>1. OrderOf(q)' = o
      BY <2>1, <2>2 DEF OrderOf, F!OrderOf
    <3> QED BY <2>2, <3>1 DEF CutOff
  <2>3. CASE q = p
    BY <2>1, <2>2, <2>3
  <2>4. CASE q # p
    BY <2>1, <2>2, <2>4 DEF OnlyMoves
  <2> QED BY <2>3, <2>4
<1> QED BY <1>1, <1>2, <1>3 DEF Alerts, Alerted, Silent

\* The awaits that are neither the credit nor between it and the alert.
LEMMA StepSilent ==
  ASSUME IInv, NEW p \in Procs, Step(p), pc[p] \notin {"credit"} \cup Credited
  PROVE  Silent /\ OnlyMoves(p) /\ cut' = cut /\ pc[p] # "idle"
<1>1. RowsTyped /\ ProcsTyped
  BY DEF IInv
<1>2. pc[p] # "idle"
  BY DEF Step, Outcome, FulfilWorker, PollWorker, Handler, Record, Fetch, Store, CompleteRead, Complete,
         Flag, RefundAndFail, F!RefundRead, F!MarkFailed, F!CreditRefund, F!MarkRefunded,
         F!AnnounceFailed, FulfilRead, Recover, Preflight, PlaceOrder, DupRecover, LastRecover, Schedule,
         PollRead, PollQuery, CreateIssuance, Debit, MarkUnpaid, Start, Enqueue, AddFresh,
         HookRead, HookResolve, HookMark
<1>3. OrderOf(p) \in Cards
  BY <1>2, Busy
<1>m. /\ \A l : Goto(p, l) /\ UNCHANGED ctx => OnlyMoves(p)
      /\ \A s, l : Carry(p, s, l) => OnlyMoves(p)
      /\ Finish(p) => OnlyMoves(p)
      /\ Fail(p) => OnlyMoves(p)
  BY <1>1 DEF Goto, F!Goto, Carry, Finish, F!Finish, Fail, OnlyMoves, ProcsTyped
<1>r. F!Return(p) => OnlyMoves(p)
  BY <1>1 DEF F!Return, F!Goto, F!Finish, OnlyMoves, ProcsTyped
<1>s. UNCHANGED <<ledger, provider, escalated>> => Silent
  BY DEF Silent
<1>4. CASE Record(p) \/ CompleteRead(p) \/ Complete(p) \/ Flag(p)
  BY <1>4, <1>2, <1>m, <1>r, <1>s DEF Record, CompleteRead, Complete, Flag, rows, budgets
<1>5. CASE Fetch(p) \/ Store(p)
  BY <1>5, <1>1, <1>2, <1>s DEF Fetch, Store, Goto, F!Goto, OnlyMoves, ProcsTyped, rows, budgets
<1>6. CASE RefundAndFail(p)
  <2>1. CASE F!MarkFailed(p) /\ UNCHANGED escalated
    BY <1>6, <2>1, <1>2, <1>m, <1>s DEF RefundAndFail, F!MarkFailed, Goto, budgets
  <2>2. CASE F!RefundRead(p)
    <3>1. /\ escalated' \in {escalated, [escalated EXCEPT ![OrderOf(p)] = @ \/ ctx[p].seen = "FAILED"]}
          /\ UNCHANGED <<ledger, provider, cut>> /\ OnlyMoves(p)
      BY <1>6, <2>2, <1>m, <1>r
         DEF RefundAndFail, F!RefundRead, F!MarkFailed, F!CreditRefund, F!MarkRefunded, F!AnnounceFailed,
             F!serviceVars, Escalate, Goto, budgets
    <3>2. \A o \in Cards : escalated[o] => escalated'[o]
      BY <1>1, <3>1, Zenon DEF RowsTyped
    <3> QED BY <1>2, <3>1, <3>2 DEF Silent
  <2> QED BY <1>6, <2>1, <2>2 DEF RefundAndFail, F!CreditRefund, F!MarkRefunded, F!AnnounceFailed, Credited
<1>7. CASE FulfilRead(p) \/ Recover(p) \/ Preflight(p) \/ DupRecover(p) \/ LastRecover(p) \/ Schedule(p)
  BY <1>7, <1>2, <1>m, <1>s
     DEF FulfilRead, Recover, Preflight, DupRecover, LastRecover, Schedule, Found, rows, budgets
<1>8. CASE PlaceOrder(p)
  <2>1. /\ \/ UNCHANGED provider
           \/ provider[OrderOf(p)] = "none" /\ \E s \in Reported : provider' = [provider EXCEPT ![OrderOf(p)] = s]
        /\ UNCHANGED <<ledger, escalated, cut>> /\ OnlyMoves(p)
    <3>1. "PENDING" \in Reported
      BY DEF Reported
    <3> QED BY <1>8, <1>m, <3>1 DEF PlaceOrder, budgets
  <2> QED BY <1>1, <1>2, <2>1 DEF Silent, RowsTyped
<1>9. CASE PollRead(p) \/ PollQuery(p) \/ HookRead(p) \/ HookResolve(p) \/ HookMark(p)
  BY <1>9, <1>2, <1>m, <1>s DEF PollRead, PollQuery, HookRead, HookResolve, HookMark, rows, budgets
<1>10. CASE CreateIssuance(p) \/ MarkUnpaid(p) \/ Start(p) \/ Enqueue(p) \/ AddFresh(p)
  BY <1>10, <1>2, <1>m, <1>s DEF CreateIssuance, MarkUnpaid, Start, Enqueue, AddFresh, rows, budgets
<1>11. CASE Debit(p)
  <2>1. /\ ledger' \in {ledger, [ledger EXCEPT ![OrderOf(p)] = @ \cup {"charge"}]}
        /\ UNCHANGED <<provider, escalated, cut>> /\ OnlyMoves(p)
    BY <1>11, <1>m DEF Debit
  <2> QED BY <1>1, <1>2, <2>1 DEF Silent, RowsTyped
<1> QED BY <1>4, <1>5, <1>6, <1>7, <1>8, <1>9, <1>10, <1>11
        DEF Step, Outcome, FulfilWorker, PollWorker, Handler

\* The credit and what follows it, to the alert.
LEMMA CreditAlerts ==
  ASSUME IInv, Alerts, NEW p \in Procs, Step(p), pc[p] \in {"credit"} \cup Credited
  PROVE  Alerts'
<1> DEFINE o == OrderOf(p)
<1>1. RowsTyped /\ ProcsTyped /\ pc[p] # "idle"
  BY DEF IInv, Credited
<1>2. /\ o \in Cards /\ ctx[p].seen \in {"FAILED", "REFUNDED"}
      /\ ctx[p].seen = "REFUNDED" => provider[o] = "REFUNDED"
  BY <1>1, Busy DEF Credited, Refunding
<1>3. RefundAndFail(p)
  BY DEF Step, Outcome, FulfilWorker, PollWorker, Handler, Record, Fetch, Store, CompleteRead, Complete,
         Flag, FulfilRead, Recover, Preflight, PlaceOrder, DupRecover, LastRecover, Schedule,
         PollRead, PollQuery, CreateIssuance, Debit, MarkUnpaid, Start, Enqueue, AddFresh,
         HookRead, HookResolve, HookMark, Credited
<1>4. cut' = cut /\ cut \subseteq Cards /\ UNCHANGED provider
  BY <1>3 DEF RefundAndFail, budgets, Alerts, F!RefundRead, F!MarkFailed, F!CreditRefund,
              F!MarkRefunded, F!AnnounceFailed, F!serviceVars
<1>5. CASE pc[p] = "credit"
  <2>1. /\ ledger' = [ledger EXCEPT ![o] = @ \cup {"refund"}] /\ UNCHANGED escalated
        /\ Goto(p, "markRefunded") /\ UNCHANGED ctx
    BY <1>3, <1>5 DEF RefundAndFail, F!RefundRead, F!MarkFailed, F!CreditRefund, F!MarkRefunded,
                      F!AnnounceFailed, Goto, OrderOf
  <2>2. pc'[p] = "markRefunded" /\ \A q \in Procs : q # p => pc'[q] = pc[q]
    BY <1>1, <2>1 DEF Goto, F!Goto, ProcsTyped
  <2>3. \A q \in Procs : pc[q] \in Credited => pc'[q] \in Credited
    BY <1>5, <2>2 DEF Credited
  <2>4. CutOff(Procs) \subseteq CutOff(Procs)' /\ o \in CutOff(Procs)'
    BY <1>2, <2>1, <2>2, <2>3 DEF CutOff, OrderOf, F!OrderOf, Credited
  <2>5. \A k \in Cards : k # o => ledger'[k] = ledger[k]
    BY <1>1, <2>1 DEF RowsTyped
  <2> QED BY <1>4, <2>1, <2>4, <2>5 DEF Alerts, Alerted
<1>6. CASE pc[p] = "markRefunded"
  <2>1. UNCHANGED <<ledger, escalated>> /\ Goto(p, "announceFailed") /\ UNCHANGED ctx
    BY <1>3, <1>6 DEF RefundAndFail, F!RefundRead, F!MarkFailed, F!CreditRefund, F!MarkRefunded,
                      F!AnnounceFailed, Goto
  <2>2. OnlyMoves(p) /\ pc'[p] \in Credited /\ ctx'[p] = ctx[p]
    BY <1>1, <2>1 DEF Goto, F!Goto, ProcsTyped, OnlyMoves, Credited
  <2>3. Silent
    BY <1>4, <2>1 DEF Silent
  <2> QED BY <1>4, <2>2, <2>3, StillAlerted
<1>7. CASE pc[p] = "announceFailed"
  <2>1. /\ escalated' = [escalated EXCEPT ![o] = @ \/ ctx[p].seen = "FAILED"]
        /\ UNCHANGED ledger /\ F!Return(p)
    BY <1>3, <1>7 DEF RefundAndFail, F!RefundRead, F!MarkFailed, F!CreditRefund, F!MarkRefunded,
                      F!AnnounceFailed, Escalate
  <2>2. OnlyMoves(p)
    BY <1>1, <2>1 DEF F!Return, F!Goto, F!Finish, ProcsTyped, OnlyMoves
  <2>3. /\ \A k \in Cards : escalated[k] => escalated'[k]
        /\ ctx[p].seen = "FAILED" => escalated'[o]
    BY <1>1, <1>2, <2>1, Zenon DEF RowsTyped
  <2>4. Silent
    BY <1>4, <2>1, <2>3 DEF Silent
  <2>5. escalated'[o] \/ provider'[o] = "REFUNDED"
    BY <1>2, <1>4, <2>3
  <2> QED BY <1>4, <2>2, <2>4, <2>5, StillAlerted
<1> QED BY <1>5, <1>6, <1>7 DEF Credited

\* A call that begins, a job that is taken: a process that was idle.
LEMMA EntryAlerts ==
  ASSUME IInv, Alerts,
         \/ \E q \in Queues : \E j \in jobs[q] : Take(q, j)
         \/ \E h \in Handlers, o \in Cards :
              \/ Create(h, o) \/ Retry(h, o) \/ Sweep(h, o) \/ SweepMissingCodes(h, o)
              \/ \E hint \in Reported : HookBegin(h, o, hint)
  PROVE  Alerts'
<1>1. ProcsTyped
  BY DEF IInv
<1>2. UNCHANGED <<ledger, provider, escalated, cut>>
  BY DEF Take, Create, Retry, Sweep, SweepMissingCodes, HookBegin, rows, budgets
<1>3. PICK p \in Procs : pc[p] = "idle" /\ OnlyMoves(p)
  <2>1. ASSUME NEW q \in Queues, NEW j \in jobs[q], Take(q, j)
        PROVE  q \in Procs /\ pc[q] = "idle" /\ OnlyMoves(q)
    BY <1>1, <2>1, ProcsDisjoint DEF Take, OnlyMoves, ProcsTyped
  <2>2. ASSUME NEW h \in Handlers, NEW o \in Cards,
               \/ Create(h, o) \/ Retry(h, o) \/ Sweep(h, o) \/ SweepMissingCodes(h, o)
               \/ \E hint \in Reported : HookBegin(h, o, hint)
        PROVE  h \in Procs /\ pc[h] = "idle" /\ OnlyMoves(h)
    <3>1. h \in Procs
      BY ProcsDisjoint
    <3>2. CASE \E l : Begin(h, l, o)
      BY <1>1, <3>1, <3>2 DEF Begin, OnlyMoves, ProcsTyped
    <3>3. ASSUME NEW hint \in Reported, HookBegin(h, o, hint) PROVE pc[h] = "idle" /\ OnlyMoves(h)
      BY <1>1, <3>1, <3>3 DEF HookBegin, OnlyMoves, ProcsTyped
    <3> QED BY <2>2, <3>1, <3>2, <3>3 DEF Create, Retry, Sweep, SweepMissingCodes
  <2> QED BY <2>1, <2>2
<1>4. pc[p] \notin Credited /\ Silent /\ cut \subseteq cut' /\ cut' \subseteq Cards
  BY <1>2, <1>3 DEF Credited, Silent, Alerts
<1> QED BY <1>3, <1>4, StillAlerted

\* A failure and a crash put on record whom they cut off.
LEMMA FailureAlerts ==
  ASSUME IInv, Alerts, Crash \/ \E p \in Procs : Throw(p)
  PROVE  Alerts'
<1>1. ProcsTyped
  BY DEF IInv
<1>2. UNCHANGED <<ledger, provider, escalated>> /\ Silent
  BY DEF Crash, Throw, rows, Silent
<1>3. \A P : CutOff(P) \subseteq Cards
  BY DEF CutOff
<1>4. CASE Crash
  <2>1. cut' = cut \cup CutOff(Procs)
    BY <1>4 DEF Crash
  <2> QED BY <1>2, <1>3, <2>1 DEF Alerts, Alerted
<1>5. ASSUME NEW p \in Procs, Throw(p) PROVE Alerts'
  <2>1. cut' = cut \cup CutOff({p}) /\ pc[p] # "idle" /\ Finish(p)
    BY <1>5 DEF Throw, Fail
  <2>2. OnlyMoves(p)
    BY <1>1, <2>1 DEF Finish, F!Finish, OnlyMoves, ProcsTyped
  <2>3. OrderOf(p) \in Cards
    BY <2>1, Busy
  <2>4. pc[p] \in Credited => OrderOf(p) \in cut'
    BY <2>1, <2>3 DEF CutOff
  <2>5. cut \subseteq cut' /\ cut' \subseteq Cards
    BY <1>3, <2>1 DEF Alerts
  <2> QED BY <1>2, <2>2, <2>4, <2>5, StillAlerted
<1> QED BY <1>4, <1>5

LEMMA AlertsHold == Spec => []Alerts
<1>1. Init => Alerts
  BY DEF Init, Alerts, Alerted
<1>2. IInv /\ Alerts /\ [Next]_vars => Alerts'
  <2> SUFFICES ASSUME IInv, Alerts, [Next]_vars PROVE Alerts'
    OBVIOUS
  <2>1. ASSUME NEW p \in Procs, Step(p) PROVE Alerts'
    <3>1. CASE pc[p] \notin {"credit"} \cup Credited
      BY <2>1, <3>1, StepSilent, StillAlerted DEF Alerts
    <3> QED BY <2>1, <3>1, CreditAlerts
  <2>2. ASSUME NEW o \in Cards, Reveal(o) \/ Settle(o) PROVE Alerts'
    <3>1. /\ UNCHANGED <<ledger, escalated, cut, pc, ctx>>
          /\ \A k \in Cards : provider[k] = "REFUNDED" => provider'[k] = "REFUNDED"
      <4>1. RowsTyped
        BY DEF IInv
      <4> QED BY <2>2, <4>1 DEF Reveal, Settle, RowsTyped, procVars, budgets
    <3>2. CutOff(Procs)' = CutOff(Procs)
      BY <3>1 DEF CutOff, OrderOf, F!OrderOf
    <3> QED BY <3>1, <3>2 DEF Alerts, Alerted
  <2>3. CASE UNCHANGED vars
    <3>1. UNCHANGED <<ledger, escalated, provider, cut, pc, ctx>>
      BY <2>3 DEF vars, rows, procVars, budgets
    <3>2. CutOff(Procs)' = CutOff(Procs)
      BY <3>1 DEF CutOff, OrderOf, F!OrderOf
    <3> QED BY <3>1, <3>2 DEF Alerts, Alerted
  <2> QED BY <2>1, <2>2, <2>3, EntryAlerts, FailureAlerts DEF Next
<1> QED BY <1>1, <1>2, Invariance, PTL DEF Spec

\* Rows, queues and calls in progress are well formed, a busy worker holding a
\* job of the order it works on: GiftCardFulfillment's whole state.
THEOREM TypeCorrect == Spec => []TypeOK
<1>1. IInv /\ Alerts => TypeOK
  <2> SUFFICES ASSUME IInv, Alerts PROVE TypeOK
    OBVIOUS
  <2>1. RowsTyped /\ ProcsTyped /\ cut \subseteq Cards
    BY DEF IInv, Alerts
  <2> QED BY <2>1, Busy, ProcsDisjoint DEF TypeOK, RowsTyped, ProcsTyped
<1> QED BY <1>1, Invariance, AlertsHold, PTL

\* Without an admin's retry, nothing is bought of Reloadly for, or refunded to,
\* a customer whose wallet was not charged: create() debits first, and every
\* job, sweep and webhook is about an order that got past the debit.
THEOREM UnchargedUnused == Spec => []NothingUncharged
<1>1. IInv => NothingUncharged
  BY DEF IInv, RowFine, Charged, NothingUncharged
<1> QED BY <1>1, Invariance, PTL

\* An operator is alerted of every customer's refund that Reloadly does not
\* mirror, whatever the order reads and whoever works on it meanwhile: only while
\* its refundAndFail is between the credit and its caller's alert is the alert
\* missing, and for good only if a failure or crash cut it off there.
THEOREM RefundsAlerted == Spec => []RefundsEscalated
<1>1. Alerts => RefundsEscalated
  BY DEF Alerts, Alerted, RefundsEscalated
<1> QED BY <1>1, AlertsHold, PTL

\* Gift card fulfilment implements OrderLifecycle: status and messages follow
\* what Reloadly delivered and what the wallet posted, in every interleaving.
THEOREM Refinement == Spec => ImplementsLifecycle
<1>1. Init => Lifecycle!LifecycleInit
  BY InitFine
<1>2. IInv /\ [Next]_vars => [Lifecycle!LifecycleNext]_(Lifecycle!lifecycleVars)
  BY StepKeeps DEF AbstractStep
<1> QED BY <1>1, <1>2, Invariance, PTL DEF Spec, ImplementsLifecycle, Lifecycle!LifecycleSpec

\* So no gift card order reads, was announced or shown as issued without being
\* so at Reloadly, or as refunded without the money back.
THEOREM Honesty == Spec => []Lifecycle!Honest
<1>1. Init => Lifecycle!Honest
  BY DEF Init, Lifecycle!Honest
<1>2. IInv /\ Lifecycle!Honest /\ [Next]_vars => Lifecycle!Honest'
  <2> SUFFICES ASSUME IInv, Lifecycle!Honest, [Next]_vars PROVE Lifecycle!Honest'
    OBVIOUS
  <2> DEFINE sup == [k \in Cards |-> provider[k] = "SUCCESSFUL"]
             sup1 == [k \in Cards |-> (provider[k] = "SUCCESSFUL")']
             Truth(s, m, d, n) == /\ s = "COMPLETED" \/ n \cap {"completed", "shown"} # {} => d
                                  /\ s = "REFUNDED" \/ "failed" \in n => "refund" \in m
                                  /\ d \/ m # {} => s # "none"
  <2>1. RowsTyped /\ \A o \in Cards : Truth(status[o], ledger[o], sup[o], notices[o])
    BY DEF IInv, Lifecycle!Honest
  <2>2. ASSUME NEW o \in Cards PROVE Truth(status'[o], ledger'[o], sup1[o], notices'[o])
    <3>1. Truth(status[o], ledger[o], sup[o], notices[o])
      BY <2>1
    <3>2. CASE UNCHANGED Lifecycle!lifecycleVars
      <4>1. UNCHANGED <<status, ledger, notices>> /\ sup1 = sup
        BY <3>2 DEF Lifecycle!lifecycleVars
      <4> QED BY <3>1, <4>1
    <3>3. CASE Lifecycle!LifecycleNext
      <4>1. PICK k \in Cards :
              \/ Lifecycle!Place(k) \/ Lifecycle!Work(k) \/ Lifecycle!Supply(k)
              \/ Lifecycle!Post(k, "charge") \/ Lifecycle!Post(k, "refund")
              \/ Lifecycle!Complete(k) \/ Lifecycle!Close(k) \/ Lifecycle!Regret(k)
              \/ Lifecycle!Show(k)
        BY <3>3 DEF Lifecycle!LifecycleNext
      <4>2. CASE Lifecycle!Place(k) \/ Lifecycle!Work(k)
        <5>1. /\ UNCHANGED <<ledger, notices>> /\ sup1 = sup
              /\ \E s \in {"PAID", "FULFILLING", "FAILED"} : status' = [status EXCEPT ![k] = s]
          BY <4>2 DEF Lifecycle!Place, Lifecycle!Work
        <5> QED BY <2>1, <3>1, <5>1 DEF RowsTyped
      <4>3. CASE Lifecycle!Supply(k)
        <5>1. /\ UNCHANGED <<status, ledger, notices>> /\ status[k] # "none"
              /\ sup1 = [sup EXCEPT ![k] = TRUE]
          BY <4>3 DEF Lifecycle!Supply
        <5>2. o # k => sup1[o] = sup[o]
          BY <5>1
        <5> QED BY <3>1, <5>1, <5>2
      <4>4. CASE Lifecycle!Post(k, "charge") \/ Lifecycle!Post(k, "refund")
        <5>1. /\ UNCHANGED <<status, notices>> /\ sup1 = sup /\ status[k] # "none"
              /\ \E m \in {"charge", "refund"} : ledger' = [ledger EXCEPT ![k] = @ \cup {m}]
          BY <4>4 DEF Lifecycle!Post
        <5> QED BY <2>1, <3>1, <5>1 DEF RowsTyped
      <4>5. CASE Lifecycle!Complete(k) \/ Lifecycle!Show(k)
        <5>1. /\ UNCHANGED ledger /\ sup1 = sup /\ sup[k]
              /\ status' \in {status, [status EXCEPT ![k] = "COMPLETED"]}
              /\ \E n \in SUBSET {"completed", "shown"} : notices' = [notices EXCEPT ![k] = @ \cup n]
          <6>1. notices = [notices EXCEPT ![k] = @ \cup {}]
            BY <2>1 DEF RowsTyped
          <6> QED BY <4>5, <6>1 DEF Lifecycle!Complete, Lifecycle!Show
        <5>2. status[k] # "none"
          BY <2>1, <5>1
        <5> QED BY <2>1, <3>1, <5>1, <5>2 DEF RowsTyped
      <4>6. CASE Lifecycle!Close(k) \/ Lifecycle!Regret(k)
        <5>1. /\ UNCHANGED ledger /\ sup1 = sup /\ "refund" \in ledger[k]
              /\ status' \in {status, [status EXCEPT ![k] = "REFUNDED"]}
              /\ notices' \in {notices, [notices EXCEPT ![k] = @ \cup {"failed"}]}
          BY <4>6 DEF Lifecycle!Close, Lifecycle!Regret
        <5> QED BY <2>1, <3>1, <5>1 DEF RowsTyped
      <4> QED BY <4>1, <4>2, <4>3, <4>4, <4>5, <4>6
    <3> QED BY <3>2, <3>3, StepKeeps DEF AbstractStep
  <2> QED BY <2>2 DEF Lifecycle!Honest
<1> QED BY <1>1, <1>2, Invariance, PTL DEF Spec
=============================================================================
