------------------------- MODULE FulfillmentProofs -------------------------
(***************************************************************************)
(* Proofs about EsimFulfillment, for every set of orders and handlers and  *)
(* every bound: typing, the safety invariants that tie an order's status,  *)
(* the notices and the supplier's actions to the wallet, the refinement of *)
(* OrderLifecycle; that one eSIM has one top-up in flight, whatever fails   *)
(* or restarts; and, as long as nothing fails or is retried by hand, that  *)
(* no charged order is lost.                                               *)
(***************************************************************************)
EXTENDS EsimFulfillment, TLAPS

\* The assumptions on the constants, in one place.
LEMMA ConstantsOK ==
  /\ NoOrder \notin Orders
  /\ Handlers \cap Queues = {} /\ Queues \subseteq Procs /\ Handlers \subseteq Procs
  /\ MaxTags \in Nat /\ MaxAttempts \in Nat /\ MaxPolls \in Nat
  /\ MaxRetries \in Nat /\ MaxThrows \in Nat /\ MaxCrashes \in Nat
  /\ Purchases \subseteq Orders /\ TopUps \subseteq Orders
BY OrdersAssumption, HandlersAssumption, BoundsAssumption, BudgetsAssumption
   DEF Procs, Orders

-----------------------------------------------------------------------------
(* The steps of a process's own control                                      *)

\* The locals of an idle process are well formed.
LEMMA NoCtxTyped == NoCtx \in CtxType
BY DEF NoCtx, CtxType, Statuses

\* Going on to another label inside a call.
LEMMA GotoTyped ==
  ASSUME ProcsOK, NEW p \in Procs, NEW l \in Labels, pc[p] # "idle",
         Goto(p, l), UNCHANGED ctx
  PROVE  ProcsOK'
BY DEF ProcsOK, Goto, OrderOf

\* Ending a call.
LEMMA FinishTyped ==
  ASSUME ProcsOK, NEW p \in Procs, Finish(p)
  PROVE  ProcsOK'
<1>1. pc' \in [Procs -> Labels]
  BY DEF ProcsOK, Finish, Labels
<1>2. ctx' \in [Procs -> CtxType]
  BY NoCtxTyped DEF ProcsOK, Finish
<1>3. /\ pc'[p] = "idle"
      /\ \A q \in Procs : q # p => pc'[q] = pc[q] /\ ctx'[q] = ctx[q]
  BY DEF ProcsOK, Finish
<1>4. QED
  BY <1>1, <1>2, <1>3, ConstantsOK DEF ProcsOK, OrderOf

\* Returning from a routine of FulfillmentService.
LEMMA ReturnTyped ==
  ASSUME ProcsOK, NEW p \in Procs, pc[p] # "idle", Return(p)
  PROVE  ProcsOK'
<1>1. CASE ctx[p].note # "none"
  BY <1>1, GotoTyped DEF Return, Labels
<1>2. CASE ctx[p].note = "none"
  BY <1>2, FinishTyped DEF Return
<1>3. QED
  BY <1>1, <1>2

\* A handler that starts, with locals c for an order.
LEMMA BeginTyped ==
  ASSUME ProcsOK, NEW h \in Handlers, NEW l \in Labels, NEW c \in CtxType,
         c.order \in Orders,
         pc' = [pc EXCEPT ![h] = l], ctx' = [ctx EXCEPT ![h] = c]
  PROVE  ProcsOK'
<1>1. h \in Procs /\ \A q \in Queues : q \in Procs /\ q # h
  BY ConstantsOK
<1>2. QED
  BY <1>1 DEF ProcsOK, OrderOf

\* BeginTyped for the locals the handlers start with.
LEMMA BeginCtx ==
  ASSUME NEW o \in Orders, NEW t \in NoteTypes, NEW b \in BOOLEAN
  PROVE  /\ [NoCtx EXCEPT !.order = o] \in CtxType
         /\ [NoCtx EXCEPT !.order = o, !.note = t] \in CtxType
         /\ [NoCtx EXCEPT !.order = o, !.known = b] \in CtxType
         /\ [NoCtx EXCEPT !.order = o].order = o
         /\ [NoCtx EXCEPT !.order = o, !.note = t].order = o
         /\ [NoCtx EXCEPT !.order = o, !.known = b].order = o
BY DEF NoCtx, CtxType, Statuses, NoteTypes

\* Adding a well-formed job to a queue.
LEMMA JobsTyped ==
  ASSUME jobs \in [Queues -> SUBSET Job], NEW q, NEW j \in Job,
         jobs' = [jobs EXCEPT ![q] = @ \cup {j}]
  PROVE  jobs' \in [Queues -> SUBSET Job]
OBVIOUS

\* A job added under a timestamped id is a job, of the order asked for.
LEMMA AddFreshTyped ==
  ASSUME RowsOK, NEW q, NEW o \in Orders, NEW n \in Nat, AddFresh(q, o, n)
  PROVE  jobs' \in [Queues -> SUBSET Job]
<1>1. PICK t \in 1..MaxTags : jobs' = [jobs EXCEPT ![q] = @ \cup {[order |-> o, tag |-> t, n |-> n]}]
  BY DEF AddFresh
<1>2. [order |-> o, tag |-> t, n |-> n] \in Job
  BY ConstantsOK DEF Job
<1>3. QED
  BY <1>1, <1>2 DEF RowsOK

\* So is a poll, and its id is a number.
LEMMA AddPollTyped ==
  ASSUME RowsOK, NEW o \in Orders, NEW n \in Nat, AddPoll(o, n)
  PROVE  /\ jobs' \in [Queues -> SUBSET Job]
         /\ pollIds' \in [Orders -> SUBSET Nat]
<1>1. [order |-> o, tag |-> 0, n |-> n] \in Job
  BY ConstantsOK DEF Job
<1>2. CASE n \in pollIds[o]
  BY <1>2 DEF RowsOK, AddPoll
<1>3. CASE n \notin pollIds[o]
  <2>1. jobs' = [jobs EXCEPT !["poll"] = @ \cup {[order |-> o, tag |-> 0, n |-> n]}]
    BY <1>3 DEF AddPoll
  <2>2. pollIds' = [pollIds EXCEPT ![o] = @ \cup {n}]
    BY <1>3 DEF AddPoll
  <2>3. QED
    BY <2>1, <2>2, <1>1 DEF RowsOK
<1>4. QED
  BY <1>2, <1>3

\* BullMQ's next attempt, and the processors' own catch.
LEMMA RequeueTyped ==
  ASSUME RowsOK, ProcsOK, NEW q \in Queues, pc[q] # "idle", Requeue(q)
  PROVE  ProcsOK' /\ jobs' \in [Queues -> SUBSET Job]
<1>1. q \in Procs
  BY ConstantsOK
<1>2. ProcsOK'
  BY <1>1, FinishTyped DEF Requeue
<1>3. [ctx[q].job EXCEPT !.n = @ + 1] \in Job
  <2>1. ctx[q].job \in Job
    BY DEF ProcsOK
  <2>2. QED
    BY <2>1 DEF Job
<1>4. jobs' \in [Queues -> SUBSET Job]
  BY <1>3 DEF Requeue, RowsOK
<1>5. QED
  BY <1>2, <1>4

\* A processor that throws goes on to refund or gives its job back.
LEMMA TransientTyped ==
  ASSUME RowsOK, ProcsOK, NEW q \in Queues, pc[q] # "idle", Transient(q)
  PROVE  ProcsOK' /\ jobs' \in [Queues -> SUBSET Job]
<1>1. CASE LastAttempt(q)
  <2>1. q \in Procs /\ "refundRead" \in Labels
    BY ConstantsOK DEF Labels
  <2>2. Goto(q, "refundRead") /\ UNCHANGED <<ctx, jobs>>
    BY <1>1 DEF Transient
  <2>3. QED
    BY <2>1, <2>2, GotoTyped DEF RowsOK
<1>2. CASE ~LastAttempt(q)
  BY <1>2, RequeueTyped DEF Transient
<1>3. QED
  BY <1>1, <1>2

\* Going on with a local variable set.
LEMMA GotoSetTyped ==
  ASSUME ProcsOK, NEW p \in Procs, NEW l \in Labels, pc[p] # "idle", Goto(p, l),
         \/ \E s \in Statuses : ctx' = [ctx EXCEPT ![p].seen = s]
         \/ \E b \in BOOLEAN : ctx' = [ctx EXCEPT ![p].known = b]
  PROVE  ProcsOK'
<1>1. pc' \in [Procs -> Labels] /\ \A q \in Procs : q # p => pc'[q] = pc[q]
  BY DEF ProcsOK, Goto
<1>2. ctx[p] \in CtxType
  BY DEF ProcsOK
<1>3. PICK c \in CtxType : /\ ctx' = [ctx EXCEPT ![p] = c]
                           /\ c.order = ctx[p].order /\ c.job = ctx[p].job
  <2>1. ASSUME NEW s \in Statuses, ctx' = [ctx EXCEPT ![p].seen = s]
        PROVE  \E c \in CtxType : /\ ctx' = [ctx EXCEPT ![p] = c]
                                  /\ c.order = ctx[p].order /\ c.job = ctx[p].job
    <3>1. [ctx[p] EXCEPT !.seen = s] \in CtxType
      BY <1>2 DEF CtxType
    <3>2. ctx' = [ctx EXCEPT ![p] = [ctx[p] EXCEPT !.seen = s]]
      BY <2>1 DEF ProcsOK
    <3>3. QED
      BY <3>1, <3>2, <1>2 DEF CtxType
  <2>2. ASSUME NEW b \in BOOLEAN, ctx' = [ctx EXCEPT ![p].known = b]
        PROVE  \E c \in CtxType : /\ ctx' = [ctx EXCEPT ![p] = c]
                                  /\ c.order = ctx[p].order /\ c.job = ctx[p].job
    <3>1. [ctx[p] EXCEPT !.known = b] \in CtxType
      BY <1>2 DEF CtxType
    <3>2. ctx' = [ctx EXCEPT ![p] = [ctx[p] EXCEPT !.known = b]]
      BY <2>2 DEF ProcsOK
    <3>3. QED
      BY <3>1, <3>2, <1>2 DEF CtxType
  <2>3. QED
    BY <2>1, <2>2
<1>4. ctx' \in [Procs -> CtxType]
  BY <1>3 DEF ProcsOK
<1>5. \A q \in Procs : ctx'[q].order = ctx[q].order /\ ctx'[q].job = ctx[q].job
  BY <1>3 DEF ProcsOK
<1>6. \A q \in Procs : pc'[q] # "idle" => pc[q] # "idle"
  BY <1>1
<1>7. QED
  BY <1>1, <1>4, <1>5, <1>6, ConstantsOK DEF ProcsOK, OrderOf

-----------------------------------------------------------------------------
(* Type correctness                                                          *)

\* The initial rows, queues and processes are well formed.
LEMMA InitTyped == Init => TypeOK
<1> SUFFICES ASSUME Init PROVE TypeOK
  OBVIOUS
<1>1. RowsOK
  <2>1. /\ status \in [Orders -> Statuses] /\ supplier \in [Orders -> SupplierStates]
        /\ ledger \in [Orders -> SUBSET {"charge", "refund"}]
        /\ notices \in [Orders -> SUBSET {"completed", "failed"}]
        /\ jobs \in [Queues -> SUBSET Job] /\ pollIds \in [Orders -> SUBSET Nat]
    BY DEF Init, Statuses, SupplierStates
  <2>2. profile \in [Orders -> [ext : BOOLEAN, iccid : BOOLEAN]]
    BY DEF Init
  <2>3. event \in [Orders -> [NoteTypes -> {"none", "open", "processed"}]]
    BY DEF Init
  <2>4. retries \in Nat /\ throws \in Nat /\ crashes \in Nat /\ astray \subseteq TopUps
    BY DEF Init
  <2>5. QED
    BY <2>1, <2>2, <2>3, <2>4 DEF RowsOK
<1>2. ProcsOK
  BY NoCtxTyped, ConstantsOK DEF Init, ProcsOK, Labels
<1>3. QED
  BY <1>1, <1>2 DEF TypeOK

\* The routines of FulfillmentService.
LEMMA ServiceTyped ==
  ASSUME TypeOK, NEW p \in Procs, Service(p)
  PROVE  TypeOK'
<1> USE DEF TypeOK, Service, budgets
<1>0. ASSUME pc[p] # "idle" PROVE OrderOf(p) \in Orders /\ status[OrderOf(p)] \in Statuses
  BY <1>0 DEF ProcsOK, RowsOK
<1>1. CASE CompleteRead(p)
  <2>1. RowsOK'
    BY <1>1 DEF CompleteRead, RowsOK, serviceVars
  <2>2. pc[p] # "idle" /\ "saveProfile" \in Labels
    BY <1>1 DEF CompleteRead, Labels
  <2>3. ProcsOK'
    BY <1>0, <1>1, <2>2, GotoSetTyped DEF CompleteRead
  <2>4. QED BY <2>1, <2>3
<1>2. CASE SaveProfile(p)
  <2>0. pc[p] # "idle" /\ "cancel" \in Labels /\ "markCompleted" \in Labels
    BY <1>2 DEF SaveProfile, Labels
  <2>1. profile' \in [Orders -> [ext : BOOLEAN, iccid : BOOLEAN]]
    <3>1. [ext |-> TRUE, iccid |-> TRUE] \in [ext : BOOLEAN, iccid : BOOLEAN]
      OBVIOUS
    <3>2. profile' = [profile EXCEPT ![OrderOf(p)] = [ext |-> TRUE, iccid |-> TRUE]]
      BY <1>2 DEF SaveProfile
    <3>3. QED BY <3>1, <3>2 DEF RowsOK
  <2>2. RowsOK'
    BY <1>2, <2>1 DEF SaveProfile, RowsOK
  <2>3. \/ Goto(p, "cancel") /\ UNCHANGED ctx
        \/ Return(p)
        \/ Goto(p, "markCompleted") /\ UNCHANGED ctx
    BY <1>2 DEF SaveProfile
  <2>4. ProcsOK'
    BY <2>0, <2>3, GotoTyped, ReturnTyped
  <2>5. QED BY <2>2, <2>4
<1>3. CASE MarkCompleted(p)
  <2>1. RowsOK'
    BY <1>3 DEF MarkCompleted, RowsOK, Statuses
  <2>2. pc[p] # "idle" /\ "announce" \in Labels
    BY <1>3 DEF MarkCompleted, Labels
  <2>3. ProcsOK'
    BY <1>3, <2>2, GotoTyped DEF MarkCompleted
  <2>4. QED BY <2>1, <2>3
<1>4. CASE AnnounceCompleted(p)
  <2>1. RowsOK'
    BY <1>4 DEF AnnounceCompleted, RowsOK
  <2>2. pc[p] # "idle"
    BY <1>4 DEF AnnounceCompleted
  <2>3. ProcsOK'
    BY <1>4, <2>2, ReturnTyped DEF AnnounceCompleted
  <2>4. QED BY <2>1, <2>3
<1>5. CASE CancelEsim(p)
  <2>1. RowsOK'
    BY <1>5 DEF CancelEsim, RowsOK, SupplierStates
  <2>2. pc[p] # "idle" /\ "revoke" \in Labels
    BY <1>5 DEF CancelEsim, Labels
  <2>3. Return(p) \/ (Goto(p, "revoke") /\ UNCHANGED ctx)
    BY <1>5 DEF CancelEsim
  <2>4. ProcsOK'
    BY <2>2, <2>3, GotoTyped, ReturnTyped
  <2>5. QED BY <2>1, <2>4
<1>6. CASE RevokeEsim(p)
  <2>1. RowsOK'
    BY <1>6 DEF RevokeEsim, RowsOK, SupplierStates
  <2>2. pc[p] # "idle"
    BY <1>6 DEF RevokeEsim
  <2>3. ProcsOK'
    BY <1>6, <2>2, ReturnTyped DEF RevokeEsim
  <2>4. QED BY <2>1, <2>3
<1>7. CASE CompleteTopUpRead(p)
  <2>1. RowsOK'
    BY <1>7 DEF CompleteTopUpRead, RowsOK, serviceVars
  <2>2. pc[p] # "idle" /\ "markToppedUp" \in Labels
    BY <1>7 DEF CompleteTopUpRead, Labels
  <2>3. Return(p) \/ (Goto(p, "markToppedUp") /\ UNCHANGED ctx)
    BY <1>7 DEF CompleteTopUpRead
  <2>4. ProcsOK'
    BY <2>2, <2>3, GotoTyped, ReturnTyped
  <2>5. QED BY <2>1, <2>4
<1>8. CASE MarkToppedUp(p)
  <2>1. RowsOK'
    BY <1>8 DEF MarkToppedUp, RowsOK, Statuses
  <2>2. pc[p] # "idle"
    BY <1>8 DEF MarkToppedUp
  <2>3. ProcsOK'
    BY <1>8, <2>2, ReturnTyped DEF MarkToppedUp
  <2>4. QED BY <2>1, <2>3
<1>9. CASE RefundRead(p)
  <2>1. RowsOK'
    BY <1>9 DEF RefundRead, RowsOK, serviceVars
  <2>2. pc[p] # "idle" /\ "markFailed" \in Labels
    BY <1>9 DEF RefundRead, Labels
  <2>3. Return(p) \/ (Goto(p, "markFailed") /\ UNCHANGED ctx)
    BY <1>9 DEF RefundRead
  <2>4. ProcsOK'
    BY <2>2, <2>3, GotoTyped, ReturnTyped
  <2>5. QED BY <2>1, <2>4
<1>10. CASE MarkFailed(p)
  <2>1. RowsOK'
    BY <1>10 DEF MarkFailed, RowsOK, Statuses
  <2>2. pc[p] # "idle" /\ "credit" \in Labels
    BY <1>10 DEF MarkFailed, Labels
  <2>3. ProcsOK'
    BY <1>10, <2>2, GotoTyped DEF MarkFailed
  <2>4. QED BY <2>1, <2>3
<1>11. CASE CreditRefund(p)
  <2>1. RowsOK'
    BY <1>11 DEF CreditRefund, RowsOK
  <2>2. pc[p] # "idle" /\ "markRefunded" \in Labels
    BY <1>11 DEF CreditRefund, Labels
  <2>3. ProcsOK'
    BY <1>11, <2>2, GotoTyped DEF CreditRefund
  <2>4. QED BY <2>1, <2>3
<1>12. CASE MarkRefunded(p)
  <2>1. RowsOK'
    BY <1>12 DEF MarkRefunded, RowsOK, Statuses
  <2>2. pc[p] # "idle" /\ "announceFailed" \in Labels
    BY <1>12 DEF MarkRefunded, Labels
  <2>3. ProcsOK'
    BY <1>12, <2>2, GotoTyped DEF MarkRefunded
  <2>4. QED BY <2>1, <2>3
<1>13. CASE AnnounceFailed(p)
  <2>1. RowsOK'
    BY <1>13 DEF AnnounceFailed, RowsOK
  <2>2. pc[p] # "idle"
    BY <1>13 DEF AnnounceFailed
  <2>3. ProcsOK'
    BY <1>13, <2>2, ReturnTyped DEF AnnounceFailed
  <2>4. QED BY <2>1, <2>3
<1>14. QED
  BY <1>1, <1>2, <1>3, <1>4, <1>5, <1>6, <1>7, <1>8, <1>9, <1>10, <1>11, <1>12, <1>13
     DEF ServiceStep

\* Checkout, webhook, requests and the sweep: calls of a handler in progress.
LEMMA HandlerTyped ==
  ASSUME TypeOK, NEW p \in Handlers, Checkout(p) \/ Webhook(p) \/ Request(p)
  PROVE  TypeOK'
<1> USE DEF TypeOK, budgets, queueVars
<1>a. p \in Procs
  BY ConstantsOK
<1>b. ASSUME pc[p] # "idle" PROVE OrderOf(p) \in Orders
  BY <1>a, <1>b DEF ProcsOK
<1>1. CASE Debit(p)
  <2>0. /\ \/ ledger' = [ledger EXCEPT ![OrderOf(p)] = @ \cup {"charge"}]
           \/ UNCHANGED ledger
        /\ throws' = throws \/ throws' = throws + 1
    BY <1>1 DEF Debit
  <2>1. RowsOK'
    <3>1. ledger' \in [Orders -> SUBSET {"charge", "refund"}] /\ throws' \in Nat
      BY SMTT(30), <2>0 DEF RowsOK
    <3>2. QED
      BY <1>1, <3>1 DEF Debit, RowsOK
  <2>2. pc[p] # "idle" /\ "start" \in Labels /\ "markUnpaid" \in Labels
    BY <1>1 DEF Debit, Labels
  <2>3. (Goto(p, "start") /\ UNCHANGED ctx) \/ (Goto(p, "markUnpaid") /\ UNCHANGED ctx)
    BY <1>1 DEF Debit
  <2>4. ProcsOK'
    BY <2>2, <2>3, <1>a, GotoTyped, FinishTyped
  <2>5. QED BY <2>1, <2>4
<1>2. CASE MarkUnpaid(p)
  <2>1. RowsOK'
    BY <1>2 DEF MarkUnpaid, RowsOK, Statuses
  <2>2. pc[p] # "idle"
    BY <1>2 DEF MarkUnpaid
  <2>3. ProcsOK'
    BY <1>2, <2>2, <1>a, FinishTyped DEF MarkUnpaid
  <2>4. QED BY <2>1, <2>3
<1>3. CASE Start(p)
  <2>1. RowsOK'
    BY <1>3 DEF Start, RowsOK, Statuses
  <2>2. pc[p] # "idle" /\ "enqueue" \in Labels
    BY <1>3 DEF Start, Labels
  <2>3. ProcsOK'
    BY <1>3, <2>2, <1>a, GotoTyped DEF Start
  <2>4. QED BY <2>1, <2>3
<1>4. CASE Enqueue(p)
  <2>0. jobs' \in [Queues -> SUBSET Job]
    <3>1. [order |-> OrderOf(p), tag |-> 0, n |-> 0] \in Job
      BY <1>4, <1>b, ConstantsOK DEF Enqueue, Job
    <3>2. QED
      BY <1>4, <3>1 DEF Enqueue, RowsOK
  <2>1. RowsOK'
    BY <1>4, <2>0 DEF Enqueue, RowsOK, serviceVars
  <2>2. pc[p] # "idle"
    BY <1>4 DEF Enqueue
  <2>3. ProcsOK'
    BY <1>4, <2>2, <1>a, FinishTyped DEF Enqueue
  <2>4. QED BY <2>1, <2>3
<1>5. CASE HookLookup(p)
  <2>1. RowsOK'
    BY <1>5 DEF HookLookup, RowsOK, serviceVars
  <2>2. pc[p] # "idle" /\ "hookMark" \in Labels /\ "completeRead" \in Labels /\ "hookQuery" \in Labels
    BY <1>5 DEF HookLookup, Labels
  <2>3. (Goto(p, "hookMark") /\ UNCHANGED ctx) \/ (Goto(p, "completeRead") /\ UNCHANGED ctx) \/ (Goto(p, "hookQuery") /\ UNCHANGED ctx)
    BY <1>5 DEF HookLookup
  <2>4. ProcsOK'
    BY <2>2, <2>3, <1>a, GotoTyped, FinishTyped
  <2>5. QED BY <2>1, <2>4
<1>6. CASE HookQuery(p)
  <2>1. RowsOK'
    BY <1>6 DEF HookQuery, RowsOK, serviceVars
  <2>2. pc[p] # "idle" /\ "completeRead" \in Labels /\ "hookMark" \in Labels
    BY <1>6 DEF HookQuery, Labels
  <2>3. (Goto(p, "completeRead") /\ UNCHANGED ctx) \/ (Goto(p, "hookMark") /\ UNCHANGED ctx)
    BY <1>6 DEF HookQuery
  <2>4. ProcsOK'
    BY <2>2, <2>3, <1>a, GotoTyped, FinishTyped
  <2>5. QED BY <2>1, <2>4
<1>7. CASE HookMark(p)
  <2>0. event' \in [Orders -> [NoteTypes -> {"none", "open", "processed"}]]
    BY <1>7, <1>b DEF HookMark, RowsOK
  <2>1. RowsOK'
    BY <1>7, <2>0 DEF HookMark, RowsOK, serviceVars
  <2>2. pc[p] # "idle"
    BY <1>7 DEF HookMark
  <2>3. ProcsOK'
    BY <1>7, <2>2, <1>a, FinishTyped DEF HookMark
  <2>4. QED BY <2>1, <2>3
<1>8. CASE RefreshQuery(p)
  <2>1. RowsOK'
    BY <1>8 DEF RefreshQuery, RowsOK, serviceVars
  <2>2. pc[p] # "idle" /\ "completeRead" \in Labels
    BY <1>8 DEF RefreshQuery, Labels
  <2>3. (Goto(p, "completeRead") /\ UNCHANGED ctx) \/ Finish(p)
    BY <1>8 DEF RefreshQuery
  <2>4. ProcsOK'
    BY <2>2, <2>3, <1>a, GotoTyped, FinishTyped
  <2>5. QED BY <2>1, <2>4
<1>9. CASE RetryMark(p)
  <2>1. RowsOK'
    BY <1>9 DEF RetryMark, RowsOK, Statuses
  <2>2. pc[p] # "idle" /\ "retryEnqueue" \in Labels
    BY <1>9 DEF RetryMark, Labels
  <2>3. ProcsOK'
    BY <1>9, <2>2, <1>a, GotoTyped DEF RetryMark
  <2>4. QED BY <2>1, <2>3
<1>10. CASE RetryEnqueue(p)
  <2>0. jobs' \in [Queues -> SUBSET Job]
    BY <1>10, <1>b, AddFreshTyped DEF RetryEnqueue
  <2>1. RowsOK'
    BY <1>10, <2>0 DEF RetryEnqueue, RowsOK, serviceVars
  <2>2. pc[p] # "idle"
    BY <1>10 DEF RetryEnqueue
  <2>3. ProcsOK'
    BY <1>10, <2>2, <1>a, FinishTyped DEF RetryEnqueue
  <2>4. QED BY <2>1, <2>3
<1>11. CASE SweepAdd(p)
  <2>0. jobs' \in [Queues -> SUBSET Job]
    BY <1>11, <1>b, AddFreshTyped DEF SweepAdd
  <2>1. RowsOK'
    BY <1>11, <2>0 DEF SweepAdd, RowsOK, serviceVars
  <2>2. pc[p] # "idle"
    BY <1>11 DEF SweepAdd
  <2>3. ProcsOK'
    BY <1>11, <2>2, <1>a, FinishTyped DEF SweepAdd
  <2>4. QED BY <2>1, <2>3
<1>12. QED
  BY <1>1, <1>2, <1>3, <1>4, <1>5, <1>6, <1>7, <1>8, <1>9, <1>10, <1>11
     DEF Checkout, Webhook, Request

\* The three processors.
LEMMA WorkerTyped ==
  ASSUME TypeOK, NEW p \in Queues, FulfilWorker(p) \/ PollWorker(p) \/ TopUpWorker(p)
  PROVE  TypeOK'
<1> USE DEF TypeOK, budgets, queueVars
<1>a. p \in Procs
  BY ConstantsOK
<1>b. ASSUME pc[p] # "idle" PROVE OrderOf(p) \in Orders /\ ctx[p].job \in Job
  BY <1>a, <1>b DEF ProcsOK
<1>1. CASE FulfilRead(p)
  <2>1. RowsOK'
    BY <1>1 DEF FulfilRead, RowsOK, serviceVars
  <2>2. pc[p] # "idle" /\ {"refundRead", "resume", "schedule", "createOrder"} \subseteq Labels
    BY <1>1 DEF FulfilRead, Labels
  <2>3. profile[OrderOf(p)].ext \in BOOLEAN
    BY <2>2, <1>b DEF RowsOK
  <2>4. CASE Goto(p, "refundRead") /\ UNCHANGED ctx
    BY <2>2, <2>4, <1>a, <2>1, GotoTyped
  <2>5. CASE Finish(p)
    BY <2>5, <1>a, <2>1, FinishTyped
  <2>6. CASE /\ ctx' = [ctx EXCEPT ![p].known = profile[OrderOf(p)].ext]
             /\ \E l \in {"resume", "schedule", "createOrder"} : Goto(p, l)
    <3>1. PICK l \in {"resume", "schedule", "createOrder"} : Goto(p, l)
      BY <2>6
    <3>2. ProcsOK'
      BY <2>2, <2>3, <2>6, <3>1, <1>a, GotoSetTyped
    <3>3. QED BY <2>1, <3>2
  <2>7. QED
    BY <1>1, <2>4, <2>5, <2>6 DEF FulfilRead
<1>2. CASE Resume(p)
  <2>1. RowsOK'
    BY <1>2 DEF Resume, RowsOK, Statuses
  <2>2. pc[p] # "idle" /\ "schedule" \in Labels /\ "createOrder" \in Labels
    BY <1>2 DEF Resume, Labels
  <2>3. (Goto(p, "schedule") /\ UNCHANGED ctx) \/ (Goto(p, "createOrder") /\ UNCHANGED ctx)
    BY <1>2 DEF Resume
  <2>4. ProcsOK'
    BY <2>2, <2>3, <1>a, GotoTyped, FinishTyped
  <2>5. QED BY <2>1, <2>4
<1>3. CASE CreateOrder(p)
  <2>1. pc[p] # "idle" /\ "refundRead" \in Labels /\ "saveOrder" \in Labels
    BY <1>3 DEF CreateOrder, Labels
  <2>2. \/ Goto(p, "saveOrder") /\ UNCHANGED <<ctx, jobs>>
        \/ Goto(p, "refundRead") /\ UNCHANGED <<ctx, jobs>>
        \/ Transient(p)
    BY <1>3 DEF CreateOrder
  <2>3. ProcsOK' /\ jobs' \in [Queues -> SUBSET Job]
    BY <2>1, <2>2, <1>a, GotoTyped, TransientTyped DEF RowsOK
  <2>4. supplier' \in [Orders -> SupplierStates]
    BY <1>3 DEF CreateOrder, RowsOK, SupplierStates
  <2>5. RowsOK'
    BY <1>3, <2>3, <2>4 DEF CreateOrder, RowsOK
  <2>6. QED BY <2>3, <2>5
<1>4. CASE SaveOrder(p)
  <2>1. pc[p] # "idle" /\ "schedule" \in Labels
    BY <1>4 DEF SaveOrder, Labels
  <2>2. \/ Goto(p, "schedule") /\ UNCHANGED <<ctx, jobs>>
        \/ Transient(p)
    BY <1>4 DEF SaveOrder
  <2>3. ProcsOK' /\ jobs' \in [Queues -> SUBSET Job]
    BY <2>1, <2>2, <1>a, GotoTyped, TransientTyped DEF RowsOK
  <2>4. profile' \in [Orders -> [ext : BOOLEAN, iccid : BOOLEAN]]
    <3>1. [profile[OrderOf(p)] EXCEPT !.ext = TRUE] \in [ext : BOOLEAN, iccid : BOOLEAN]
      BY <2>1, <1>b DEF RowsOK
    <3>2. \/ UNCHANGED profile
          \/ profile' = [profile EXCEPT ![OrderOf(p)] = [profile[OrderOf(p)] EXCEPT !.ext = TRUE]]
      BY <1>4, <2>1, <1>b DEF SaveOrder, RowsOK
    <3>3. QED
      BY <3>1, <3>2 DEF RowsOK
  <2>5. RowsOK'
    BY <1>4, <2>3, <2>4 DEF SaveOrder, RowsOK
  <2>6. QED BY <2>3, <2>5
<1>5. CASE Schedule(p)
  <2>0. /\ jobs' \in [Queues -> SUBSET Job]
        /\ pollIds' \in [Orders -> SUBSET Nat]
    <3>1. OrderOf(p) \in Orders /\ 1 \in Nat
      BY <1>5, <1>b DEF Schedule, Job
    <3>2. QED
      BY <1>5, <3>1, AddPollTyped DEF Schedule
  <2>1. RowsOK'
    BY <1>5, <2>0 DEF Schedule, RowsOK, serviceVars
  <2>2. pc[p] # "idle"
    BY <1>5 DEF Schedule
  <2>3. ProcsOK'
    BY <1>5, <2>2, <1>a, FinishTyped DEF Schedule
  <2>4. QED BY <2>1, <2>3
<1>6. CASE PollRead(p)
  <2>1. RowsOK'
    BY <1>6 DEF PollRead, RowsOK, serviceVars
  <2>2. pc[p] # "idle" /\ "pollQuery" \in Labels
    BY <1>6 DEF PollRead, Labels
  <2>3. (Goto(p, "pollQuery") /\ UNCHANGED ctx) \/ Finish(p)
    BY <1>6 DEF PollRead
  <2>4. ProcsOK'
    BY <2>2, <2>3, <1>a, GotoTyped, FinishTyped
  <2>5. QED BY <2>1, <2>4
<1>7. CASE PollQuery(p)
  <2>1. RowsOK'
    BY <1>7 DEF PollQuery, RowsOK, serviceVars
  <2>2. pc[p] # "idle" /\ "completeRead" \in Labels /\ "refundRead" \in Labels /\ "pollNext" \in Labels
    BY <1>7 DEF PollQuery, Labels
  <2>3. (Goto(p, "completeRead") /\ UNCHANGED ctx) \/ (Goto(p, "refundRead") /\ UNCHANGED ctx) \/ (Goto(p, "pollNext") /\ UNCHANGED ctx)
    BY <1>7 DEF PollQuery
  <2>4. ProcsOK'
    BY <2>2, <2>3, <1>a, GotoTyped, FinishTyped
  <2>5. QED BY <2>1, <2>4
<1>8. CASE PollNext(p)
  <2>0. /\ jobs' \in [Queues -> SUBSET Job]
        /\ pollIds' \in [Orders -> SUBSET Nat]
    <3>1. OrderOf(p) \in Orders /\ ctx[p].job.n + 1 \in Nat
      BY <1>8, <1>b DEF PollNext, Job
    <3>2. QED
      BY <1>8, <3>1, AddPollTyped DEF PollNext
  <2>1. RowsOK'
    BY <1>8, <2>0 DEF PollNext, RowsOK, serviceVars
  <2>2. pc[p] # "idle"
    BY <1>8 DEF PollNext
  <2>3. ProcsOK'
    BY <1>8, <2>2, <1>a, FinishTyped DEF PollNext
  <2>4. QED BY <2>1, <2>3
<1>9. CASE TopUpRead(p)
  <2>1. RowsOK'
    BY <1>9 DEF TopUpRead, RowsOK, serviceVars
  <2>2. pc[p] # "idle" /\ "topUpResume" \in Labels /\ "topUpCall" \in Labels
    BY <1>9 DEF TopUpRead, Labels
  <2>3. (Goto(p, "topUpResume") /\ UNCHANGED ctx) \/ (Goto(p, "topUpCall") /\ UNCHANGED ctx) \/ Finish(p)
    BY <1>9 DEF TopUpRead
  <2>4. ProcsOK'
    BY <2>2, <2>3, <1>a, GotoTyped, FinishTyped
  <2>5. QED BY <2>1, <2>4
<1>10. CASE TopUpResume(p)
  <2>1. RowsOK'
    BY <1>10 DEF TopUpResume, RowsOK, Statuses
  <2>2. pc[p] # "idle" /\ "topUpCall" \in Labels
    BY <1>10 DEF TopUpResume, Labels
  <2>3. ProcsOK'
    BY <1>10, <2>2, <1>a, GotoTyped DEF TopUpResume
  <2>4. QED BY <2>1, <2>3
<1>11. CASE TopUpCall(p)
  <2>1. pc[p] # "idle" /\ "refundRead" \in Labels /\ "completeTopUp" \in Labels
    BY <1>11 DEF TopUpCall, Labels
  <2>2. \/ Goto(p, "completeTopUp") /\ UNCHANGED <<ctx, jobs>>
        \/ Goto(p, "refundRead") /\ UNCHANGED <<ctx, jobs>>
        \/ Transient(p)
    BY <1>11 DEF TopUpCall
  <2>3. ProcsOK' /\ jobs' \in [Queues -> SUBSET Job]
    BY <2>1, <2>2, <1>a, GotoTyped, TransientTyped DEF RowsOK
  <2>4. supplier' \in [Orders -> SupplierStates]
    BY <1>11 DEF TopUpCall, RowsOK, SupplierStates
  <2>5. RowsOK'
    BY <1>11, <2>3, <2>4 DEF TopUpCall, RowsOK
  <2>6. QED BY <2>3, <2>5
<1>12. QED
  BY <1>1, <1>2, <1>3, <1>4, <1>5, <1>6, <1>7, <1>8, <1>9, <1>10, <1>11
     DEF FulfilWorker, PollWorker, TopUpWorker

\* Calls that start: checkout, refresh, retry, sweep and a delivered webhook.
LEMMA EntryTyped ==
  ASSUME TypeOK, NEW h \in Handlers, NEW o \in Orders, NEW t \in NoteTypes,
         Create(h, o) \/ Refresh(h, o) \/ Retry(h, o) \/ Sweep(h, o) \/ HookBegin(h, o, t)
  PROVE  TypeOK'
<1> USE DEF TypeOK, budgets, queueVars
<1>1. CASE Create(h, o)
  <2>1. RowsOK'
    BY <1>1 DEF Create, RowsOK, Statuses
  <2>2. PICK c \in CtxType : c.order = o /\ ctx' = [ctx EXCEPT ![h] = c]
    BY <1>1, BeginCtx DEF Create, Begin
  <2>3. pc' = [pc EXCEPT ![h] = "debit"] /\ "debit" \in Labels
    BY <1>1 DEF Create, Begin, Labels
  <2>4. ProcsOK'
    BY <2>2, <2>3, BeginTyped
  <2>5. QED BY <2>1, <2>4
<1>2. CASE Refresh(h, o)
  <2>1. RowsOK'
    BY <1>2 DEF Refresh, RowsOK, serviceVars
  <2>2. PICK c \in CtxType : c.order = o /\ ctx' = [ctx EXCEPT ![h] = c]
    BY <1>2, BeginCtx DEF Refresh, Begin
  <2>3. pc' = [pc EXCEPT ![h] = "refreshQuery"] /\ "refreshQuery" \in Labels
    BY <1>2 DEF Refresh, Begin, Labels
  <2>4. ProcsOK'
    BY <2>2, <2>3, BeginTyped
  <2>5. QED BY <2>1, <2>4
<1>3. CASE Retry(h, o)
  <2>1. RowsOK'
    BY <1>3 DEF Retry, RowsOK, serviceVars
  <2>2. PICK c \in CtxType : c.order = o /\ ctx' = [ctx EXCEPT ![h] = c]
    BY <1>3, BeginCtx DEF Retry, Begin
  <2>3. pc' = [pc EXCEPT ![h] = "retryMark"] /\ "retryMark" \in Labels
    BY <1>3 DEF Retry, Begin, Labels
  <2>4. ProcsOK'
    BY <2>2, <2>3, BeginTyped
  <2>5. QED BY <2>1, <2>4
<1>4. CASE Sweep(h, o)
  <2>1. RowsOK'
    BY <1>4 DEF Sweep, RowsOK, serviceVars
  <2>2. profile[o].ext \in BOOLEAN
    BY DEF RowsOK
  <2>3. PICK c \in CtxType : c.order = o /\ ctx' = [ctx EXCEPT ![h] = c]
    BY ZenonT(40), <1>4, <2>2, BeginCtx DEF Sweep
  <2>4. pc' = [pc EXCEPT ![h] = "sweepAdd"] /\ "sweepAdd" \in Labels
    BY <1>4 DEF Sweep, Labels
  <2>5. ProcsOK'
    BY <2>3, <2>4, BeginTyped
  <2>6. QED BY <2>1, <2>5
<1>5. CASE HookBegin(h, o, t)
  <2>1. event' \in [Orders -> [NoteTypes -> {"none", "open", "processed"}]]
    BY <1>5 DEF HookBegin, RowsOK
  <2>2. RowsOK'
    BY <1>5, <2>1 DEF HookBegin, RowsOK, serviceVars
  <2>3. PICK c \in CtxType : c.order = o /\ ctx' = [ctx EXCEPT ![h] = c]
    BY <1>5, BeginCtx DEF HookBegin
  <2>4. pc' = [pc EXCEPT ![h] = "hookLookup"] /\ "hookLookup" \in Labels
    BY <1>5 DEF HookBegin, Labels
  <2>5. ProcsOK'
    BY <2>3, <2>4, BeginTyped
  <2>6. QED BY <2>2, <2>5
<1>6. QED
  BY <1>1, <1>2, <1>3, <1>4, <1>5

\* A worker takes a job.
LEMMA TakeTyped ==
  ASSUME TypeOK, NEW q \in Queues, NEW j \in jobs[q], Take(q, j)
  PROVE  TypeOK'
<1>1. j \in Job /\ q \in Procs
  BY ConstantsOK DEF TypeOK, RowsOK
<1>2. RowsOK'
  BY DEF Take, TypeOK, RowsOK, serviceVars, budgets
<1>3. FirstLabel[q] \in Labels
  BY DEF FirstLabel, Queues, Labels
<1>4. PICK c \in CtxType : /\ ctx' = [ctx EXCEPT ![q] = c]
                           /\ c.order = j.order /\ c.job = j /\ j.order \in Orders
  <2>1. [NoCtx EXCEPT !.order = j.order, !.job = j] \in CtxType
    BY <1>1 DEF NoCtx, CtxType, Statuses, Job
  <2>2. QED
    BY <1>1, <2>1 DEF Take, NoCtx, Job
<1>5. pc' = [pc EXCEPT ![q] = FirstLabel[q]]
  BY DEF Take
<1>6. /\ pc' \in [Procs -> Labels] /\ ctx' \in [Procs -> CtxType]
      /\ \A r \in Procs : r # q => pc'[r] = pc[r] /\ ctx'[r] = ctx[r]
      /\ ctx'[q] = c
  BY <1>1, <1>3, <1>4, <1>5 DEF TypeOK, ProcsOK
<1>7. ProcsOK'
  BY <1>1, <1>4, <1>6, ConstantsOK DEF TypeOK, ProcsOK, OrderOf
<1>8. QED
  BY <1>2, <1>7 DEF TypeOK

\* Failures and restarts.
LEMMA FailureTyped ==
  ASSUME TypeOK, Crash \/ (\E p \in Procs : Throw(p))
  PROVE  TypeOK'
<1> USE DEF TypeOK, budgets
<1>1. CASE Crash
  <2>1. jobs' \in [Queues -> SUBSET Job]
    <3>1. \A q \in Queues : jobs[q] \cup (IF pc[q] = "idle" THEN {} ELSE {ctx[q].job}) \in SUBSET Job
      BY DEF RowsOK, ProcsOK
    <3>2. QED
      BY <1>1, <3>1 DEF Crash
  <2>2. RowsOK'
    BY <1>1, <2>1 DEF Crash, RowsOK, serviceVars, Cut
  <2>3. /\ pc' \in [Procs -> Labels] /\ ctx' \in [Procs -> CtxType]
        /\ \A p \in Procs : pc'[p] = "idle"
    BY <1>1, NoCtxTyped DEF Crash, Labels
  <2>4. ProcsOK'
    BY <2>3, ConstantsOK DEF ProcsOK
  <2>5. QED BY <2>2, <2>4
<1>2. ASSUME NEW p \in Procs, Throw(p) PROVE TypeOK'
  <2>1. pc[p] # "idle"
    BY <1>2 DEF Throw
  <2>2. \/ p \in Queues /\ Transient(p)
        \/ p \in Queues /\ Requeue(p)
        \/ Finish(p) /\ UNCHANGED jobs
    BY <1>2 DEF Throw, Queues
  <2>3. ProcsOK' /\ jobs' \in [Queues -> SUBSET Job]
    BY <2>1, <2>2, TransientTyped, RequeueTyped, FinishTyped DEF RowsOK
  <2>4. RowsOK'
    BY <1>2, <2>3 DEF Throw, RowsOK, serviceVars, Cut
  <2>5. QED BY <2>3, <2>4
<1>3. QED
  BY <1>1, <1>2

\* The supplier allocates, and Redis forgets a finished job.
LEMMA WorldTyped ==
  ASSUME TypeOK, NEW o \in Orders, Allocate(o) \/ (\E n \in 1..MaxPolls : EvictPollId(o, n))
  PROVE  TypeOK'
<1>1. RowsOK'
  <2>1. CASE Allocate(o)
    BY <2>1 DEF TypeOK, RowsOK, Allocate, SupplierStates, queueVars, budgets
  <2>2. ASSUME NEW n \in 1..MaxPolls, EvictPollId(o, n) PROVE RowsOK'
    <3>1. pollIds' \in [Orders -> SUBSET Nat]
      BY <2>2 DEF TypeOK, RowsOK, EvictPollId
    <3>2. QED
      BY <2>2, <3>1 DEF TypeOK, RowsOK, EvictPollId, serviceVars, budgets
  <2>3. QED
    BY <2>1, <2>2
<1>2. ProcsOK'
  BY DEF TypeOK, ProcsOK, OrderOf, Allocate, EvictPollId, procVars
<1>3. QED
  BY <1>1, <1>2 DEF TypeOK

\* Every step keeps them so.
LEMMA NextTyped ==
  ASSUME TypeOK, [Next]_vars
  PROVE  TypeOK'
<1>1. ASSUME NEW p \in Procs, Step(p) PROVE TypeOK'
  <2>1. "fulfil" \in Queues /\ "poll" \in Queues /\ "topup" \in Queues
    BY DEF Queues
  <2>2. QED
    BY <1>1, <2>1, ServiceTyped, WorkerTyped, HandlerTyped DEF Step
<1>2. ASSUME NEW p \in Procs, Throw(p) PROVE TypeOK'
  BY <1>2, FailureTyped
<1>3. ASSUME NEW q \in Queues, NEW j \in jobs[q], Take(q, j) PROVE TypeOK'
  BY <1>3, TakeTyped
<1>4. ASSUME NEW h \in Handlers, NEW o \in Orders,
             Create(h, o) \/ Refresh(h, o) \/ Retry(h, o) \/ Sweep(h, o)
      PROVE  TypeOK'
  <2>1. "ORDER_STATUS" \in NoteTypes
    BY DEF NoteTypes
  <2>2. QED
    BY <1>4, <2>1, EntryTyped
<1>5. ASSUME NEW h \in Handlers, NEW o \in Purchases, NEW t \in NoteTypes, HookBegin(h, o, t)
      PROVE  TypeOK'
  BY <1>5, EntryTyped, ConstantsOK
<1>6. ASSUME NEW o \in Purchases, Allocate(o) \/ (\E n \in 1..MaxPolls : EvictPollId(o, n))
      PROVE  TypeOK'
  BY <1>6, WorldTyped, ConstantsOK
<1>7. CASE Crash
  BY <1>7, FailureTyped
<1>8. CASE UNCHANGED vars
  BY <1>8 DEF TypeOK, RowsOK, ProcsOK, OrderOf, vars, serviceVars, queueVars, procVars, budgets
<1>9. QED
  BY <1>1, <1>2, <1>3, <1>4, <1>5, <1>6, <1>7, <1>8 DEF Next

\* Rows, jobs and the locals of every process stay well formed, whatever runs,
\* fails or restarts.
THEOREM TypeCorrect == Spec => []TypeOK
<1>1. Init => TypeOK
  BY InitTyped
<1>2. TypeOK /\ [Next]_vars => TypeOK'
  BY NextTyped
<1>3. QED
  BY <1>1, <1>2, PTL DEF Spec

-----------------------------------------------------------------------------
(* The inductive invariant behind the order properties: what a process on    *)
(* its way to a write already knows, and no other actor can undo.            *)

RouteOK(p) ==
  /\ pc[p] \in {"completeRead", "saveProfile", "markCompleted", "announce"} =>
       supplier[OrderOf(p)] \in Supplied
  /\ pc[p] = "hookLookup" /\ ctx[p].note = "ESIM_STATUS" => supplier[OrderOf(p)] \in Supplied
  /\ pc[p] \in {"completeTopUp", "markToppedUp"} => supplier[OrderOf(p)] = "confirmed"
  /\ pc[p] \in {"cancel", "revoke", "markRefunded", "announceFailed"} => "refund" \in ledger[OrderOf(p)]
  /\ pc[p] = "saveProfile" /\ ctx[p].seen = "REFUNDED" => "refund" \in ledger[OrderOf(p)]

RouteLabels == {"completeRead", "saveProfile", "markCompleted", "announce", "hookLookup",
                "completeTopUp", "markToppedUp", "cancel", "revoke", "markRefunded", "announceFailed"}

OrdersOK == RefundedMeansCredited /\ CompletedMeansDelivered /\ NoticesTrue /\ CleanupOnlyAfterRefund

SettleInv == TypeOK /\ OrdersOK /\ \A p \in Procs : RouteOK(p)

\* What every step does to the two facts the properties rest on: a posting
\* stays posted, and what the supplier delivered stays delivered.
Grow ==
  \A o \in Orders :
    /\ ledger[o] \subseteq ledger'[o]
    /\ supplier[o] \in Supplied => supplier'[o] \in Supplied
    /\ supplier[o] = "confirmed" => supplier'[o] = "confirmed"

\* Processes other than p stay where they are.
OnlyMoves(p) == \A q \in Procs : q # p => pc'[q] = pc[q] /\ ctx'[q] = ctx[q]

\* A process that touches no row, and does not move to a label that needs
\* one, keeps every part of the settlement invariant.
LEMMA MovesOnly ==
  ASSUME ProcsOK, NEW p \in Procs
  PROVE  /\ \A l : Goto(p, l) => pc'[p] = l
         /\ \A l : Goto(p, l) /\ UNCHANGED ctx => OnlyMoves(p) /\ ctx'[p] = ctx[p]
         /\ Finish(p) => OnlyMoves(p) /\ pc'[p] = "idle"
         /\ Return(p) => OnlyMoves(p) /\ pc'[p] \in {"idle", "hookMark"}
         /\ Transient(p) => OnlyMoves(p) /\ pc'[p] \in {"idle", "refundRead"}
         /\ Requeue(p) => OnlyMoves(p) /\ pc'[p] = "idle"
<1>1. \A l : Goto(p, l) => pc'[p] = l
  BY DEF Goto, ProcsOK
<1>2. \A l : Goto(p, l) /\ UNCHANGED ctx => OnlyMoves(p) /\ ctx'[p] = ctx[p]
  BY DEF Goto, ProcsOK, OnlyMoves
<1>3. Finish(p) => OnlyMoves(p) /\ pc'[p] = "idle"
  BY DEF Finish, ProcsOK, OnlyMoves
<1>4. Requeue(p) => OnlyMoves(p) /\ pc'[p] = "idle"
  BY <1>3 DEF Requeue
<1>5. Return(p) => OnlyMoves(p) /\ pc'[p] \in {"idle", "hookMark"}
  BY <1>1, <1>2, <1>3 DEF Return
<1>6. Transient(p) => OnlyMoves(p) /\ pc'[p] \in {"idle", "refundRead"}
  BY <1>1, <1>2, <1>4 DEF Transient
<1>7. QED
  BY <1>1, <1>2, <1>3, <1>4, <1>5, <1>6

\* A label outside the routes promises nothing.
LEMMA FreeMove ==
  ASSUME NEW p, pc'[p] \notin RouteLabels
  PROVE  RouteOK(p)'
BY DEF RouteOK, RouteLabels

\* What a process that stays put knows survives every step.
LEMMA RouteStable ==
  ASSUME ProcsOK, Grow, NEW q \in Procs, RouteOK(q), pc'[q] = pc[q], ctx'[q] = ctx[q]
  PROVE  RouteOK(q)'
<1>1. CASE pc[q] \notin RouteLabels
  BY <1>1, FreeMove
<1>2. CASE pc[q] \in RouteLabels
  <2>1. OrderOf(q) \in Orders /\ OrderOf(q)' = OrderOf(q)
    BY <1>2 DEF ProcsOK, OrderOf, RouteLabels
  <2>2. QED
    BY <2>1 DEF RouteOK, Grow
<1>3. QED
  BY <1>1, <1>2

\* The shape of every preservation step: process p moves and can answer for
\* its new label, the others stay, and the order properties hold again.
LEMMA KeepsRoutes ==
  ASSUME SettleInv, Grow, NEW p \in Procs, OnlyMoves(p), RouteOK(p)'
  PROVE  \A q \in Procs : RouteOK(q)'
BY RouteStable DEF SettleInv, TypeOK, OnlyMoves

\* A step that touches neither wallet nor supplier nor any property's data.
LEMMA SameOrders ==
  ASSUME UNCHANGED serviceVars, OrdersOK
  PROVE  OrdersOK' /\ Grow
BY DEF serviceVars, OrdersOK, Grow, RefundedMeansCredited, CompletedMeansDelivered,
       NoticesTrue, CleanupOnlyAfterRefund

\* A step that only writes a status that is not terminal.
LEMMA OpenStatus ==
  ASSUME RowsOK, OrdersOK, NEW o \in Orders, NEW s \in {"PAID", "FULFILLING", "FAILED"},
         status' = [status EXCEPT ![o] = s], UNCHANGED <<ledger, profile, supplier, notices>>
  PROVE  OrdersOK' /\ Grow
<1>1. \A x \in Orders : status'[x] = status[x] \/ status'[x] \in {"PAID", "FULFILLING", "FAILED"}
  BY DEF RowsOK
<1>2. QED
  BY <1>1 DEF OrdersOK, Grow, RefundedMeansCredited, CompletedMeansDelivered,
              NoticesTrue, CleanupOnlyAfterRefund

\* The conclusion every action is shown to reach.
Kept == OrdersOK' /\ \A q \in Procs : RouteOK(q)'

\* A process ends, or goes on to a label outside the routes, and no property's
\* data changes.
LEMMA QuietMove ==
  ASSUME SettleInv, NEW p \in Procs, UNCHANGED serviceVars, OnlyMoves(p),
         pc'[p] \notin RouteLabels
  PROVE  Kept
<1>1. OrdersOK' /\ Grow
  BY SameOrders DEF SettleInv
<1>2. QED
  BY <1>1, FreeMove, KeepsRoutes DEF Kept

\* The same, writing a status that is not terminal.
LEMMA OpenMove ==
  ASSUME SettleInv, NEW p \in Procs, OnlyMoves(p), pc'[p] \notin RouteLabels,
         NEW o \in Orders, NEW s \in {"PAID", "FULFILLING", "FAILED"},
         status' = [status EXCEPT ![o] = s], UNCHANGED <<ledger, profile, supplier, notices>>
  PROVE  Kept
<1>1. OrdersOK' /\ Grow
  BY OpenStatus DEF SettleInv, TypeOK
<1>2. QED
  BY <1>1, FreeMove, KeepsRoutes DEF Kept

\* Every routine of FulfillmentService keeps the settlement invariant.
LEMMA ServiceKeeps ==
  ASSUME SettleInv, NEW p \in Procs, Service(p)
  PROVE  Kept
<1>a. ProcsOK /\ RowsOK /\ OrdersOK /\ RouteOK(p)
  BY DEF SettleInv, TypeOK
<1>b. ASSUME pc[p] # "idle" PROVE OrderOf(p) \in Orders
  BY <1>a, <1>b DEF ProcsOK
<1>1. CASE CompleteRead(p)
  <2>1. pc'[p] = "saveProfile" /\ OrderOf(p) \in Orders /\ supplier[OrderOf(p)] \in Supplied
    BY <1>1, <1>a, <1>b, MovesOnly DEF CompleteRead, RouteOK
  <2>2. /\ OnlyMoves(p) /\ ctx'[p].order = ctx[p].order
        /\ ctx'[p].seen = status[OrderOf(p)]
    BY <1>1, <1>a DEF CompleteRead, Goto, ProcsOK, OnlyMoves, CtxType
  <2>3. OrdersOK' /\ Grow
    BY <1>1, <1>a, SameOrders DEF CompleteRead
  <2>4. RouteOK(p)'
    BY <1>1, <1>a, <2>1, <2>2
       DEF CompleteRead, RouteOK, OrderOf, serviceVars, OrdersOK, RefundedMeansCredited
  <2>5. QED
    BY <2>2, <2>3, <2>4, KeepsRoutes DEF Kept
<1>2. CASE SaveProfile(p)
  <2>1. OrderOf(p) \in Orders /\ supplier[OrderOf(p)] \in Supplied
    BY <1>2, <1>a, <1>b DEF SaveProfile, RouteOK
  <2>2. OrdersOK' /\ Grow
    BY <1>2, <1>a, <2>1 DEF SaveProfile, Grow, OrdersOK, RowsOK, RefundedMeansCredited,
       CompletedMeansDelivered, NoticesTrue, CleanupOnlyAfterRefund
  <2>3. CASE ctx[p].seen = "REFUNDED"
    <3>1. OnlyMoves(p) /\ pc'[p] = "cancel" /\ ctx'[p] = ctx[p]
      BY <1>2, <2>3, <1>a, MovesOnly DEF SaveProfile
    <3>2. "refund" \in ledger[OrderOf(p)]
      BY <1>2, <2>3, <1>a DEF SaveProfile, RouteOK
    <3>3. RouteOK(p)'
      BY <1>2, <3>1, <3>2 DEF SaveProfile, RouteOK, OrderOf
    <3>4. QED
      BY <2>2, <3>1, <3>3, KeepsRoutes DEF Kept
  <2>4. CASE Goto(p, "markCompleted") /\ UNCHANGED ctx
    <3>1. OnlyMoves(p) /\ pc'[p] = "markCompleted" /\ ctx'[p] = ctx[p]
      BY <2>4, <1>a, MovesOnly
    <3>2. RouteOK(p)'
      BY <1>2, <3>1, <2>1 DEF SaveProfile, RouteOK, OrderOf
    <3>3. QED
      BY <2>2, <3>1, <3>2, KeepsRoutes DEF Kept
  <2>5. CASE Return(p)
    <3>1. OnlyMoves(p) /\ pc'[p] \notin RouteLabels
      BY <2>5, <1>a, MovesOnly DEF RouteLabels
    <3>2. QED
      BY <2>2, <3>1, FreeMove, KeepsRoutes DEF Kept
  <2>6. QED
    BY <1>2, <2>3, <2>4, <2>5 DEF SaveProfile
<1>3. CASE MarkCompleted(p)
  <2>1. OrderOf(p) \in Orders /\ supplier[OrderOf(p)] \in Supplied
    BY <1>3, <1>a, <1>b DEF MarkCompleted, RouteOK
  <2>2. OrdersOK' /\ Grow
    BY <1>3, <1>a, <2>1 DEF MarkCompleted, Grow, OrdersOK, RowsOK, RefundedMeansCredited,
       CompletedMeansDelivered, NoticesTrue, CleanupOnlyAfterRefund
  <2>3. OnlyMoves(p) /\ pc'[p] = "announce" /\ ctx'[p] = ctx[p]
    BY <1>3, <1>a, MovesOnly DEF MarkCompleted
  <2>4. RouteOK(p)'
    BY <1>3, <2>1, <2>3 DEF MarkCompleted, RouteOK, OrderOf
  <2>5. QED
    BY <2>2, <2>3, <2>4, KeepsRoutes DEF Kept
<1>4. CASE AnnounceCompleted(p)
  <2>1. OrderOf(p) \in Orders /\ supplier[OrderOf(p)] \in Supplied
    BY <1>4, <1>a, <1>b DEF AnnounceCompleted, RouteOK
  <2>2. OrdersOK' /\ Grow
    BY <1>4, <1>a, <2>1 DEF AnnounceCompleted, Grow, OrdersOK, RowsOK, RefundedMeansCredited,
       CompletedMeansDelivered, NoticesTrue, CleanupOnlyAfterRefund
  <2>3. OnlyMoves(p) /\ pc'[p] \notin RouteLabels
    BY <1>4, <1>a, MovesOnly DEF AnnounceCompleted, RouteLabels
  <2>4. QED
    BY <2>2, <2>3, FreeMove, KeepsRoutes DEF Kept
<1>5. CASE CancelEsim(p)
  <2>1. OrderOf(p) \in Orders /\ "refund" \in ledger[OrderOf(p)]
    BY <1>5, <1>a, <1>b DEF CancelEsim, RouteOK
  <2>2. /\ UNCHANGED <<status, ledger, profile, notices>>
        /\ \/ UNCHANGED supplier
           \/ /\ supplier[OrderOf(p)] = "allocated"
              /\ supplier' = [supplier EXCEPT ![OrderOf(p)] = "cancelled"]
    BY <1>5 DEF CancelEsim
  <2>3. OrdersOK' /\ Grow
    BY ZenonT(40), <2>1, <2>2, <1>a DEF Grow, OrdersOK, RowsOK, RefundedMeansCredited, Supplied,
       CompletedMeansDelivered, NoticesTrue, CleanupOnlyAfterRefund
  <2>4. CASE Return(p)
    <3>1. OnlyMoves(p) /\ pc'[p] \notin RouteLabels
      BY <2>4, <1>a, MovesOnly DEF RouteLabels
    <3>2. QED
      BY <2>3, <3>1, FreeMove, KeepsRoutes DEF Kept
  <2>5. CASE Goto(p, "revoke") /\ UNCHANGED ctx
    <3>1. OnlyMoves(p) /\ pc'[p] = "revoke" /\ ctx'[p] = ctx[p]
      BY <2>5, <1>a, MovesOnly
    <3>2. RouteOK(p)'
      BY <2>1, <2>2, <3>1 DEF RouteOK, OrderOf
    <3>3. QED
      BY <2>3, <3>1, <3>2, KeepsRoutes DEF Kept
  <2>6. QED
    BY <1>5, <2>4, <2>5 DEF CancelEsim
<1>6. CASE RevokeEsim(p)
  <2>1. OrderOf(p) \in Orders /\ "refund" \in ledger[OrderOf(p)]
    BY <1>6, <1>a, <1>b DEF RevokeEsim, RouteOK
  <2>2. OrdersOK' /\ Grow
    BY ZenonT(40), <1>6, <1>a, <2>1 DEF RevokeEsim, Grow, OrdersOK, RowsOK, RefundedMeansCredited,
       Supplied, CompletedMeansDelivered, NoticesTrue, CleanupOnlyAfterRefund
  <2>3. OnlyMoves(p) /\ pc'[p] \notin RouteLabels
    BY <1>6, <1>a, MovesOnly DEF RevokeEsim, RouteLabels
  <2>4. QED
    BY <2>2, <2>3, FreeMove, KeepsRoutes DEF Kept
<1>7. CASE CompleteTopUpRead(p)
  <2>1. OrderOf(p) \in Orders /\ supplier[OrderOf(p)] = "confirmed"
    BY <1>7, <1>a, <1>b DEF CompleteTopUpRead, RouteOK
  <2>2. OrdersOK' /\ Grow
    BY <1>7, <1>a, SameOrders DEF CompleteTopUpRead
  <2>3. CASE Return(p)
    <3>1. OnlyMoves(p) /\ pc'[p] \notin RouteLabels
      BY <2>3, <1>a, MovesOnly DEF RouteLabels
    <3>2. QED
      BY <2>2, <3>1, FreeMove, KeepsRoutes DEF Kept
  <2>4. CASE Goto(p, "markToppedUp") /\ UNCHANGED ctx
    <3>1. OnlyMoves(p) /\ pc'[p] = "markToppedUp" /\ ctx'[p] = ctx[p]
      BY <2>4, <1>a, MovesOnly
    <3>2. RouteOK(p)'
      BY <1>7, <2>1, <3>1 DEF CompleteTopUpRead, RouteOK, OrderOf, serviceVars
    <3>3. QED
      BY <2>2, <3>1, <3>2, KeepsRoutes DEF Kept
  <2>5. QED
    BY <1>7, <2>3, <2>4 DEF CompleteTopUpRead
<1>8. CASE MarkToppedUp(p)
  <2>1. OrderOf(p) \in Orders /\ supplier[OrderOf(p)] = "confirmed"
    BY <1>8, <1>a, <1>b DEF MarkToppedUp, RouteOK
  <2>2. OrdersOK' /\ Grow
    BY <1>8, <1>a, <2>1 DEF MarkToppedUp, Grow, OrdersOK, RowsOK, RefundedMeansCredited,
       CompletedMeansDelivered, NoticesTrue, CleanupOnlyAfterRefund
  <2>3. OnlyMoves(p) /\ pc'[p] \notin RouteLabels
    BY <1>8, <1>a, MovesOnly DEF MarkToppedUp, RouteLabels
  <2>4. QED
    BY <2>2, <2>3, FreeMove, KeepsRoutes DEF Kept
<1>9. CASE RefundRead(p)
  <2>1. OnlyMoves(p) /\ pc'[p] \notin RouteLabels
    BY <1>9, <1>a, MovesOnly DEF RefundRead, RouteLabels
  <2>2. QED
    BY <1>9, <2>1, QuietMove DEF RefundRead
<1>10. CASE MarkFailed(p)
  <2>1. OnlyMoves(p) /\ pc'[p] \notin RouteLabels /\ OrderOf(p) \in Orders
    BY <1>10, <1>a, <1>b, MovesOnly DEF MarkFailed, RouteLabels
  <2>2. QED
    BY <1>10, <2>1, OpenMove DEF MarkFailed
<1>11. CASE CreditRefund(p)
  <2>1. OnlyMoves(p) /\ pc'[p] = "markRefunded" /\ ctx'[p] = ctx[p] /\ OrderOf(p) \in Orders
    BY <1>11, <1>a, <1>b, MovesOnly DEF CreditRefund
  <2>2. OrdersOK' /\ Grow /\ "refund" \in ledger'[OrderOf(p)]
    BY <1>11, <1>a, <2>1 DEF CreditRefund, Grow, OrdersOK, RowsOK, RefundedMeansCredited,
       CompletedMeansDelivered, NoticesTrue, CleanupOnlyAfterRefund
  <2>3. RouteOK(p)'
    BY <2>1, <2>2 DEF RouteOK, OrderOf
  <2>4. QED
    BY <2>1, <2>2, <2>3, KeepsRoutes DEF Kept
<1>12. CASE MarkRefunded(p)
  <2>1. OrderOf(p) \in Orders /\ "refund" \in ledger[OrderOf(p)]
    BY <1>12, <1>a, <1>b DEF MarkRefunded, RouteOK
  <2>2. OrdersOK' /\ Grow
    BY <1>12, <1>a, <2>1 DEF MarkRefunded, Grow, OrdersOK, RowsOK, RefundedMeansCredited,
       CompletedMeansDelivered, NoticesTrue, CleanupOnlyAfterRefund
  <2>3. OnlyMoves(p) /\ pc'[p] = "announceFailed" /\ ctx'[p] = ctx[p]
    BY <1>12, <1>a, MovesOnly DEF MarkRefunded
  <2>4. RouteOK(p)'
    BY <1>12, <2>1, <2>3 DEF MarkRefunded, RouteOK, OrderOf
  <2>5. QED
    BY <2>2, <2>3, <2>4, KeepsRoutes DEF Kept
<1>13. CASE AnnounceFailed(p)
  <2>1. OrderOf(p) \in Orders /\ "refund" \in ledger[OrderOf(p)]
    BY <1>13, <1>a, <1>b DEF AnnounceFailed, RouteOK
  <2>2. OrdersOK' /\ Grow
    BY <1>13, <1>a, <2>1 DEF AnnounceFailed, Grow, OrdersOK, RowsOK, RefundedMeansCredited,
       CompletedMeansDelivered, NoticesTrue, CleanupOnlyAfterRefund
  <2>3. OnlyMoves(p) /\ pc'[p] \notin RouteLabels
    BY <1>13, <1>a, MovesOnly DEF AnnounceFailed, RouteLabels
  <2>4. QED
    BY <2>2, <2>3, FreeMove, KeepsRoutes DEF Kept
<1>14. QED
  BY <1>1, <1>2, <1>3, <1>4, <1>5, <1>6, <1>7, <1>8, <1>9, <1>10, <1>11, <1>12, <1>13
     DEF Service, ServiceStep

\* Checkout, webhook, requests and the sweep.
LEMMA HandlerKeeps ==
  ASSUME SettleInv, NEW p \in Handlers, Checkout(p) \/ Webhook(p) \/ Request(p)
  PROVE  Kept
<1>a. ProcsOK /\ RowsOK /\ OrdersOK /\ p \in Procs
  BY ConstantsOK DEF SettleInv, TypeOK
<1>r. RouteOK(p)
  BY <1>a DEF SettleInv
<1>b. ASSUME pc[p] # "idle" PROVE OrderOf(p) \in Orders
  BY <1>a, <1>b DEF ProcsOK
<1>1. CASE Debit(p)
  <2>1. OnlyMoves(p) /\ pc'[p] \notin RouteLabels
    BY <1>1, <1>a, MovesOnly DEF Debit, RouteLabels
  <2>2. \/ ledger' = [ledger EXCEPT ![OrderOf(p)] = @ \cup {"charge"}]
        \/ UNCHANGED ledger
    BY <1>1 DEF Debit
  <2>3. \A o \in Orders : ledger[o] \subseteq ledger'[o]
    <3>1. ledger \in [Orders -> SUBSET {"charge", "refund"}]
      BY <1>a DEF RowsOK
    <3>2. QED
      BY <2>2, <3>1
  <2>4. UNCHANGED <<status, profile, supplier, notices>>
    BY <1>1 DEF Debit
  <2>5. OrdersOK' /\ Grow
    <3>1. Grow
      BY <2>3, <2>4 DEF Grow
    <3>2. OrdersOK'
      BY <2>3, <2>4, <1>a DEF OrdersOK, RefundedMeansCredited,
         CompletedMeansDelivered, NoticesTrue, CleanupOnlyAfterRefund
    <3>3. QED BY <3>1, <3>2
  <2>6. QED
    BY <1>a, <2>1, <2>5, FreeMove, KeepsRoutes DEF Kept
<1>2. CASE MarkUnpaid(p)
  <2>1. OnlyMoves(p) /\ pc'[p] \notin RouteLabels /\ OrderOf(p) \in Orders
    BY <1>2, <1>a, <1>b, MovesOnly DEF MarkUnpaid, RouteLabels
  <2>2. QED
    BY <1>2, <1>a, <2>1, OpenMove DEF MarkUnpaid
<1>3. CASE Start(p)
  <2>1. OnlyMoves(p) /\ pc'[p] \notin RouteLabels /\ OrderOf(p) \in Orders
    BY <1>3, <1>a, <1>b, MovesOnly DEF Start, RouteLabels
  <2>2. QED
    BY <1>3, <1>a, <2>1, OpenMove DEF Start
<1>4. CASE Enqueue(p)
  <2>1. OnlyMoves(p) /\ pc'[p] \notin RouteLabels
    BY <1>4, <1>a, MovesOnly DEF Enqueue, RouteLabels
  <2>2. QED
    BY <1>4, <1>a, <2>1, QuietMove DEF Enqueue
<1>5. CASE HookLookup(p)
  <2>1. OrderOf(p) \in Orders /\ OrdersOK' /\ Grow
    BY <1>5, <1>a, <1>b, SameOrders DEF HookLookup
  <2>2. CASE Goto(p, "completeRead")
    <3>1. OnlyMoves(p) /\ pc'[p] = "completeRead" /\ ctx'[p] = ctx[p]
      BY <1>5, <2>2, <1>a, MovesOnly DEF HookLookup
    <3>2. profile[OrderOf(p)].iccid \/ ctx[p].note = "ESIM_STATUS"
      BY <1>5, <3>1, <1>a, MovesOnly DEF HookLookup
    <3>3. supplier[OrderOf(p)] \in Supplied
      BY <1>5, <1>a, <1>r, <2>1, <3>2 DEF HookLookup, RouteOK, OrdersOK, CompletedMeansDelivered
    <3>4. RouteOK(p)'
      BY <1>5, <3>1, <3>3 DEF HookLookup, RouteOK, OrderOf, serviceVars
    <3>5. QED
      BY <1>a, <2>1, <3>1, <3>4, KeepsRoutes DEF Kept
  <2>3. CASE Goto(p, "hookMark") \/ Goto(p, "hookQuery")
    <3>1. OnlyMoves(p) /\ pc'[p] \notin RouteLabels
      BY <1>5, <2>3, <1>a, MovesOnly DEF HookLookup, RouteLabels
    <3>2. QED
      BY <1>5, <1>a, <3>1, QuietMove DEF HookLookup
  <2>4. QED
    BY <1>5, <2>2, <2>3 DEF HookLookup
<1>6. CASE HookQuery(p)
  <2>1. CASE supplier[OrderOf(p)] \in Supplied /\ Goto(p, "completeRead")
    <3>1. OnlyMoves(p) /\ pc'[p] = "completeRead" /\ ctx'[p] = ctx[p]
      BY <1>6, <2>1, <1>a, MovesOnly DEF HookQuery
    <3>2. RouteOK(p)' /\ OrdersOK' /\ Grow
      BY <1>6, <1>a, <2>1, <3>1, SameOrders DEF HookQuery, RouteOK, OrderOf, serviceVars
    <3>3. QED
      BY <1>a, <3>1, <3>2, KeepsRoutes DEF Kept
  <2>2. CASE Goto(p, "hookMark")
    <3>1. OnlyMoves(p) /\ pc'[p] \notin RouteLabels
      BY <1>6, <2>2, <1>a, MovesOnly DEF HookQuery, RouteLabels
    <3>2. QED
      BY <1>6, <1>a, <3>1, QuietMove DEF HookQuery
  <2>3. QED
    BY <1>6, <2>1, <2>2 DEF HookQuery
<1>7. CASE HookMark(p)
  <2>1. OnlyMoves(p) /\ pc'[p] \notin RouteLabels
    BY <1>7, <1>a, MovesOnly DEF HookMark, RouteLabels
  <2>2. QED
    BY <1>7, <1>a, <2>1, QuietMove DEF HookMark
<1>8. CASE RefreshQuery(p)
  <2>1. CASE supplier[OrderOf(p)] \in Supplied /\ Goto(p, "completeRead") /\ UNCHANGED ctx
    <3>1. OnlyMoves(p) /\ pc'[p] = "completeRead" /\ ctx'[p] = ctx[p]
      BY <2>1, <1>a, MovesOnly
    <3>2. RouteOK(p)' /\ OrdersOK' /\ Grow
      BY <1>8, <1>a, <2>1, <3>1, SameOrders DEF RefreshQuery, RouteOK, OrderOf, serviceVars
    <3>3. QED
      BY <1>a, <3>1, <3>2, KeepsRoutes DEF Kept
  <2>2. CASE Finish(p)
    <3>1. OnlyMoves(p) /\ pc'[p] \notin RouteLabels
      BY <2>2, <1>a, MovesOnly DEF RouteLabels
    <3>2. QED
      BY <1>8, <1>a, <3>1, QuietMove DEF RefreshQuery
  <2>3. QED
    BY <1>8, <2>1, <2>2 DEF RefreshQuery
<1>9. CASE RetryMark(p)
  <2>1. OnlyMoves(p) /\ pc'[p] \notin RouteLabels /\ OrderOf(p) \in Orders
    BY <1>9, <1>a, <1>b, MovesOnly DEF RetryMark, RouteLabels
  <2>2. QED
    BY <1>9, <1>a, <2>1, OpenMove DEF RetryMark
<1>10. CASE RetryEnqueue(p) \/ SweepAdd(p)
  <2>1. OnlyMoves(p) /\ pc'[p] \notin RouteLabels
    BY <1>10, <1>a, MovesOnly DEF RetryEnqueue, SweepAdd, RouteLabels
  <2>2. QED
    BY <1>10, <1>a, <2>1, QuietMove DEF RetryEnqueue, SweepAdd
<1>11. QED
  BY <1>1, <1>2, <1>3, <1>4, <1>5, <1>6, <1>7, <1>8, <1>9, <1>10 DEF Checkout, Webhook, Request

\* The three processors.
LEMMA WorkerKeeps ==
  ASSUME SettleInv, NEW p \in Queues, FulfilWorker(p) \/ PollWorker(p) \/ TopUpWorker(p)
  PROVE  Kept
<1>a. ProcsOK /\ RowsOK /\ OrdersOK /\ p \in Procs
  BY ConstantsOK DEF SettleInv, TypeOK
<1>b. ASSUME pc[p] # "idle" PROVE OrderOf(p) \in Orders
  BY <1>a, <1>b DEF ProcsOK
<1>1. CASE FulfilRead(p)
  <2>1. OnlyMoves(p) /\ pc'[p] \notin RouteLabels
    <3>1. CASE Finish(p)
      BY <3>1, <1>a, MovesOnly DEF RouteLabels
    <3>2. CASE \E l \in {"refundRead", "resume", "schedule", "createOrder"} : Goto(p, l)
      BY <1>1, <3>2, <1>a DEF FulfilRead, Goto, Finish, ProcsOK, OnlyMoves, RouteLabels
    <3>3. QED
      BY <1>1, <3>1, <3>2 DEF FulfilRead
  <2>2. QED
    BY <1>1, <1>a, <2>1, QuietMove DEF FulfilRead
<1>2. CASE Resume(p)
  <2>1. OnlyMoves(p) /\ pc'[p] \notin RouteLabels /\ OrderOf(p) \in Orders
    BY <1>2, <1>a, <1>b, MovesOnly DEF Resume, RouteLabels
  <2>2. QED
    BY <1>2, <1>a, <2>1, OpenMove DEF Resume
<1>3. CASE CreateOrder(p)
  <2>1. OnlyMoves(p) /\ pc'[p] \notin RouteLabels
    BY <1>3, <1>a, MovesOnly DEF CreateOrder, RouteLabels
  <2>2. /\ UNCHANGED <<status, ledger, profile, notices>>
        /\ \/ UNCHANGED supplier
           \/ /\ supplier[OrderOf(p)] = "none"
              /\ supplier' = [supplier EXCEPT ![OrderOf(p)] = "accepted"]
    BY <1>3 DEF CreateOrder
  <2>3. OrdersOK' /\ Grow
    BY <2>2, <1>a DEF Grow, OrdersOK, RowsOK, RefundedMeansCredited, Supplied,
       CompletedMeansDelivered, NoticesTrue, CleanupOnlyAfterRefund
  <2>4. QED
    BY <1>a, <2>1, <2>3, FreeMove, KeepsRoutes DEF Kept
<1>4. CASE SaveOrder(p)
  <2>1. OnlyMoves(p) /\ pc'[p] \notin RouteLabels
    BY <1>4, <1>a, MovesOnly DEF SaveOrder, RouteLabels
  <2>2. /\ UNCHANGED <<status, ledger, supplier, notices>>
        /\ \A o \in Orders : profile'[o].iccid = profile[o].iccid
    <3>1. profile \in [Orders -> [ext : BOOLEAN, iccid : BOOLEAN]]
      BY <1>a DEF RowsOK
    <3>2. UNCHANGED profile \/ profile' = [profile EXCEPT ![OrderOf(p)].ext = TRUE]
      BY <1>4 DEF SaveOrder
    <3>3. \A o \in Orders : profile'[o].iccid = profile[o].iccid
      BY <3>1, <3>2
    <3>4. QED
      BY <1>4, <3>3 DEF SaveOrder
  <2>3. OrdersOK' /\ Grow
    BY <2>2, <1>a DEF Grow, OrdersOK, RefundedMeansCredited,
       CompletedMeansDelivered, NoticesTrue, CleanupOnlyAfterRefund
  <2>4. QED
    BY <1>a, <2>1, <2>3, FreeMove, KeepsRoutes DEF Kept
<1>5. CASE Schedule(p) \/ PollNext(p)
  <2>1. OnlyMoves(p) /\ pc'[p] \notin RouteLabels
    BY <1>5, <1>a, MovesOnly DEF Schedule, PollNext, RouteLabels
  <2>2. QED
    BY <1>5, <1>a, <2>1, QuietMove DEF Schedule, PollNext
<1>6. CASE PollRead(p) \/ TopUpRead(p)
  <2>1. OnlyMoves(p) /\ pc'[p] \notin RouteLabels
    BY <1>6, <1>a, MovesOnly DEF PollRead, TopUpRead, RouteLabels
  <2>2. QED
    BY <1>6, <1>a, <2>1, QuietMove DEF PollRead, TopUpRead
<1>7. CASE PollQuery(p)
  <2>1. CASE supplier[OrderOf(p)] \in Supplied /\ Goto(p, "completeRead")
    <3>1. OnlyMoves(p) /\ pc'[p] = "completeRead" /\ ctx'[p] = ctx[p]
      BY <1>7, <2>1, <1>a, MovesOnly DEF PollQuery
    <3>2. RouteOK(p)' /\ OrdersOK' /\ Grow
      BY <1>7, <1>a, <2>1, <3>1, SameOrders DEF PollQuery, RouteOK, OrderOf, serviceVars
    <3>3. QED
      BY <1>a, <3>1, <3>2, KeepsRoutes DEF Kept
  <2>2. CASE Goto(p, "refundRead") \/ Goto(p, "pollNext")
    <3>1. OnlyMoves(p) /\ pc'[p] \notin RouteLabels
      BY <1>7, <2>2, <1>a, MovesOnly DEF PollQuery, RouteLabels
    <3>2. QED
      BY <1>7, <1>a, <3>1, QuietMove DEF PollQuery
  <2>3. QED
    BY <1>7, <2>1, <2>2 DEF PollQuery
<1>8. CASE TopUpResume(p)
  <2>1. OnlyMoves(p) /\ pc'[p] \notin RouteLabels /\ OrderOf(p) \in Orders
    BY <1>8, <1>a, <1>b, MovesOnly DEF TopUpResume, RouteLabels
  <2>2. QED
    BY <1>8, <1>a, <2>1, OpenMove DEF TopUpResume
<1>9. CASE TopUpCall(p)
  <2>0. OrderOf(p) \in Orders
    BY <1>9, <1>b DEF TopUpCall
  <2>1. /\ UNCHANGED <<status, ledger, profile, notices>>
        /\ \/ UNCHANGED supplier
           \/ /\ supplier[OrderOf(p)] = "none"
              /\ \E s \in {"applied", "confirmed"} :
                   supplier' = [supplier EXCEPT ![OrderOf(p)] = s]
    BY <1>9 DEF TopUpCall
  <2>2. OrdersOK' /\ Grow
    BY <2>1, <1>a DEF Grow, OrdersOK, RowsOK, RefundedMeansCredited, Supplied,
       CompletedMeansDelivered, NoticesTrue, CleanupOnlyAfterRefund
  <2>3. CASE Goto(p, "completeTopUp") /\ UNCHANGED ctx
             /\ supplier' = [supplier EXCEPT ![OrderOf(p)] = "confirmed"]
    <3>1. OnlyMoves(p) /\ pc'[p] = "completeTopUp" /\ ctx'[p] = ctx[p]
      BY <2>3, <1>a, MovesOnly
    <3>2. supplier'[OrderOf(p)] = "confirmed"
      BY <2>3, <2>0, <1>a DEF RowsOK
    <3>3. RouteOK(p)'
      BY <3>1, <3>2 DEF RouteOK, OrderOf
    <3>4. QED
      BY <1>a, <2>2, <3>1, <3>3, KeepsRoutes DEF Kept
  <2>4. CASE (Goto(p, "refundRead") /\ UNCHANGED ctx) \/ Transient(p)
    <3>1. OnlyMoves(p) /\ pc'[p] \notin RouteLabels
      BY <2>4, <1>a, MovesOnly DEF RouteLabels
    <3>2. QED
      BY <1>a, <2>2, <3>1, FreeMove, KeepsRoutes DEF Kept
  <2>5. QED
    BY <1>9, <2>3, <2>4 DEF TopUpCall
<1>10. QED
  BY <1>1, <1>2, <1>3, <1>4, <1>5, <1>6, <1>7, <1>8, <1>9
     DEF FulfilWorker, PollWorker, TopUpWorker

\* Calls that start.
LEMMA EntryKeeps ==
  ASSUME SettleInv, NEW h \in Handlers, NEW o \in Orders, NEW t \in NoteTypes,
         Create(h, o) \/ Refresh(h, o) \/ Retry(h, o) \/ Sweep(h, o) \/ HookBegin(h, o, t)
  PROVE  Kept
<1>a. ProcsOK /\ RowsOK /\ OrdersOK /\ h \in Procs
  BY ConstantsOK DEF SettleInv, TypeOK
<1>1. ASSUME NEW l, NEW c, pc' = [pc EXCEPT ![h] = l], ctx' = [ctx EXCEPT ![h] = c]
      PROVE  OnlyMoves(h) /\ pc'[h] = l /\ ctx'[h] = c
  BY <1>1, <1>a DEF OnlyMoves, ProcsOK
<1>2. CASE Create(h, o)
  <2>1. OnlyMoves(h) /\ pc'[h] \notin RouteLabels
    BY <1>2, <1>1 DEF Create, Begin, RouteLabels
  <2>2. status' = [status EXCEPT ![o] = "PAID"] /\ UNCHANGED <<ledger, profile, supplier, notices>>
    BY <1>2 DEF Create
  <2>3. QED
    BY <1>a, <2>1, <2>2, OpenMove
<1>3. CASE Refresh(h, o) \/ Retry(h, o) \/ Sweep(h, o)
  <2>1. OnlyMoves(h) /\ pc'[h] \notin RouteLabels
    BY <1>3, <1>1 DEF Refresh, Retry, Sweep, Begin, RouteLabels
  <2>2. UNCHANGED serviceVars
    BY <1>3 DEF Refresh, Retry, Sweep
  <2>3. QED
    BY <1>a, <2>1, <2>2, QuietMove
<1>4. CASE HookBegin(h, o, t)
  <2>1. PICK c \in CtxType : c.order = o /\ c.note = t /\ ctx' = [ctx EXCEPT ![h] = c]
    <3>1. [NoCtx EXCEPT !.order = o, !.note = t].note = t
      BY DEF NoCtx
    <3>2. QED
      BY <1>4, <3>1, BeginCtx DEF HookBegin
  <2>2. OnlyMoves(h) /\ pc'[h] = "hookLookup" /\ ctx'[h] = c
    BY <1>4, <1>1, <2>1 DEF HookBegin
  <2>3. UNCHANGED serviceVars /\ (t = "ESIM_STATUS" => supplier[o] \in Supplied)
    BY <1>4 DEF HookBegin
  <2>4. RouteOK(h)'
    BY <2>1, <2>2, <2>3 DEF RouteOK, OrderOf, serviceVars
  <2>5. OrdersOK' /\ Grow
    BY <1>a, <2>3, SameOrders
  <2>6. QED
    BY <1>a, <2>2, <2>4, <2>5, KeepsRoutes DEF Kept
<1>5. QED
  BY <1>2, <1>3, <1>4

\* Workers taking jobs, failures, the supplier and Redis.
LEMMA OtherKeeps ==
  ASSUME SettleInv,
         \/ \E q \in Queues : \E j \in jobs[q] : Take(q, j)
         \/ \E p \in Procs : Throw(p)
         \/ \E o \in Purchases : Allocate(o) \/ \E n \in 1..MaxPolls : EvictPollId(o, n)
         \/ Crash \/ UNCHANGED vars
  PROVE  Kept
<1>a. ProcsOK /\ RowsOK /\ OrdersOK
  BY DEF SettleInv, TypeOK
<1>1. ASSUME NEW q \in Queues, NEW j \in jobs[q], Take(q, j) PROVE Kept
  <2>1. q \in Procs /\ FirstLabel[q] \notin RouteLabels
    <3>1. FirstLabel[q] \in {"fulfilRead", "pollRead", "topUpRead"}
      BY DEF FirstLabel, Queues
    <3>2. QED
      BY <3>1, ConstantsOK DEF RouteLabels
  <2>2. OnlyMoves(q) /\ pc'[q] = FirstLabel[q]
    <3>1. /\ pc' = [pc EXCEPT ![q] = FirstLabel[q]]
          /\ ctx' = [ctx EXCEPT ![q] = [NoCtx EXCEPT !.order = j.order, !.job = j]]
      BY <1>1 DEF Take
    <3>2. pc \in [Procs -> Labels] /\ ctx \in [Procs -> CtxType]
      BY <1>a DEF ProcsOK
    <3>3. QED
      BY <2>1, <3>1, <3>2 DEF OnlyMoves
  <2>3. UNCHANGED serviceVars
    BY <1>1 DEF Take
  <2>4. QED
    BY <2>1, <2>2, <2>3, QuietMove
<1>2. ASSUME NEW p \in Procs, Throw(p) PROVE Kept
  <2>1. OnlyMoves(p) /\ pc'[p] \notin RouteLabels
    BY <1>2, <1>a, MovesOnly DEF Throw, RouteLabels
  <2>2. UNCHANGED serviceVars
    BY <1>2 DEF Throw
  <2>3. QED
    BY <2>1, <2>2, QuietMove
<1>3. ASSUME NEW o \in Purchases, Allocate(o) PROVE Kept
  <2>1. /\ UNCHANGED <<status, ledger, profile, notices, pc, ctx>>
        /\ supplier[o] = "accepted" /\ supplier' = [supplier EXCEPT ![o] = "allocated"]
    BY <1>3 DEF Allocate, procVars
  <2>2. OrdersOK' /\ Grow
    BY <2>1, <1>a DEF Grow, OrdersOK, RowsOK, RefundedMeansCredited, Supplied,
       CompletedMeansDelivered, NoticesTrue, CleanupOnlyAfterRefund
  <2>3. \A q \in Procs : RouteOK(q)'
    BY <1>a, <2>1, <2>2, RouteStable DEF SettleInv
  <2>4. QED
    BY <2>2, <2>3 DEF Kept
<1>4. CASE Crash
  <2>1. \A q \in Procs : RouteOK(q)'
    BY <1>4, FreeMove DEF Crash, RouteLabels
  <2>2. OrdersOK'
    BY <1>4, <1>a, SameOrders DEF Crash
  <2>3. QED
    BY <2>1, <2>2 DEF Kept
<1>5. ASSUME UNCHANGED <<serviceVars, procVars>> PROVE Kept
  <2>1. OrdersOK' /\ Grow
    BY <1>5, <1>a, SameOrders
  <2>2. \A q \in Procs : RouteOK(q)'
    BY <1>5, <1>a, <2>1, RouteStable DEF SettleInv, procVars
  <2>3. QED
    BY <2>1, <2>2 DEF Kept
<1>6. QED
  BY <1>1, <1>2, <1>3, <1>4, <1>5 DEF EvictPollId, vars

\* So does every other step, and it holds throughout.
LEMMA SettleInvHolds == Spec => []SettleInv
<1>1. Init => SettleInv
  <2> SUFFICES ASSUME Init PROVE SettleInv
    OBVIOUS
  <2>1. OrdersOK
    BY DEF Init, OrdersOK, RefundedMeansCredited, CompletedMeansDelivered, NoticesTrue,
           CleanupOnlyAfterRefund
  <2>2. \A p \in Procs : RouteOK(p)
    BY DEF Init, RouteOK
  <2>3. QED
    BY <2>1, <2>2, InitTyped DEF SettleInv
<1>2. SettleInv /\ [Next]_vars => SettleInv'
  <2> SUFFICES ASSUME SettleInv, [Next]_vars PROVE Kept
    BY NextTyped DEF SettleInv, Kept
  <2>1. ASSUME NEW p \in Procs, Step(p) PROVE Kept
    <3>1. "fulfil" \in Queues /\ "poll" \in Queues /\ "topup" \in Queues
      BY DEF Queues
    <3>2. QED
      BY <2>1, <3>1, ServiceKeeps, WorkerKeeps, HandlerKeeps DEF Step
  <2>2. ASSUME NEW h \in Handlers, NEW o \in Orders,
               Create(h, o) \/ Refresh(h, o) \/ Retry(h, o) \/ Sweep(h, o)
        PROVE  Kept
    <3>1. "ORDER_STATUS" \in NoteTypes
      BY DEF NoteTypes
    <3>2. QED
      BY <2>2, <3>1, EntryKeeps
  <2>3. ASSUME NEW h \in Handlers, NEW o \in Purchases, NEW t \in NoteTypes, HookBegin(h, o, t)
        PROVE  Kept
    BY <2>3, EntryKeeps, ConstantsOK
  <2>4. QED
    BY <2>1, <2>2, <2>3, OtherKeeps DEF Next
<1>3. QED
  BY <1>1, <1>2, PTL DEF Spec

-----------------------------------------------------------------------------
(* The theorems                                                              *)

\* Whatever runs, fails or restarts, an order that reads REFUNDED has its
\* refund in the wallet.
THEOREM RefundedIsCredited == Spec => []RefundedMeansCredited
<1>1. SettleInv => RefundedMeansCredited
  BY DEF SettleInv, OrdersOK
<1>2. QED
  BY <1>1, SettleInvHolds, PTL

\* Nothing is completed, and no ICCID filed, that the supplier did not deliver.
THEOREM CompletedIsDelivered == Spec => []CompletedMeansDelivered
<1>1. SettleInv => CompletedMeansDelivered
  BY DEF SettleInv, OrdersOK
<1>2. QED
  BY <1>1, SettleInvHolds, PTL

\* The completion and failure notices are true when they are sent, and stay so.
THEOREM NoticesAreTrue == Spec => []NoticesTrue
<1>1. SettleInv => NoticesTrue
  BY DEF SettleInv, OrdersOK
<1>2. QED
  BY <1>1, SettleInvHolds, PTL

\* The late-fulfilment cleanup only ever takes an eSIM from a refunded customer.
THEOREM CleanupIsAfterRefund == Spec => []CleanupOnlyAfterRefund
<1>1. SettleInv => CleanupOnlyAfterRefund
  BY DEF SettleInv, OrdersOK
<1>2. QED
  BY <1>1, SettleInvHolds, PTL
-----------------------------------------------------------------------------
(* Nothing is bought, and nothing refunded, for an order that the wallet has *)
(* not been charged for, as long as no admin retries an order by hand.  An   *)
(* uncharged order has left no trace outside its own checkout request: that  *)
(* is the invariant; a step of one order's process touches no other order.   *)

\* What is known of an order that has not been charged: only its checkout
\* request may be at work on it, and the outside world has not heard of it.
Untouched(o) ==
  /\ status[o] \in {"none", "PAID", "FAILED"}
  /\ supplier[o] = "none" /\ "refund" \notin ledger[o] /\ ~profile[o].iccid
  /\ \A q \in Queues : \A j \in jobs[q] : j.order # o
  /\ \A p \in Procs : pc[p] # "idle" /\ OrderOf(p) = o =>
                        p \in Handlers /\ pc[p] \in {"debit", "markUnpaid"}

ChargeOK == \A o \in Orders : "charge" \notin ledger[o] => Untouched(o)

ChargeInv == TypeOK /\ (retries = 0 => ChargeOK)

-----------------------------------------------------------------------------
(* A step of a process concerns the process's own order                      *)

\* Only p moves, and it keeps its order or ends.
Stays(p) == OnlyMoves(p) /\ (pc'[p] = "idle" \/ OrderOf(p)' = OrderOf(p))

\* No row of another order changes, and what is posted stays posted.
OwnRows(p) ==
  \A o \in Orders :
    /\ ledger[o] \subseteq ledger'[o]
    /\ o # OrderOf(p) => /\ status'[o] = status[o] /\ ledger'[o] = ledger[o]
                         /\ supplier'[o] = supplier[o] /\ profile'[o] = profile[o]

\* No job of another order is queued.
OwnJobs(p) == \A q \in Queues : \A j \in jobs'[q] : j \in jobs[q] \/ j.order = OrderOf(p)

Confined(p) == Stays(p) /\ OwnRows(p) /\ OwnJobs(p) /\ retries' = retries

\* The ways a process moves.
LEMMA MoveStays ==
  ASSUME ProcsOK, NEW p \in Procs
  PROVE  /\ \A l : Goto(p, l) /\ UNCHANGED ctx => Stays(p)
         /\ \A l, x : Goto(p, l) /\ ctx' = [ctx EXCEPT ![p].seen = x] => Stays(p)
         /\ \A l, x : Goto(p, l) /\ ctx' = [ctx EXCEPT ![p].known = x] => Stays(p)
         /\ Finish(p) => Stays(p)
         /\ Return(p) => Stays(p)
         /\ Requeue(p) => Stays(p)
         /\ Transient(p) => Stays(p)
<1>1. \A l : Goto(p, l) /\ UNCHANGED ctx => Stays(p)
  BY MovesOnly DEF Stays, OrderOf
<1>2. \A l, x : Goto(p, l) /\ ctx' = [ctx EXCEPT ![p].seen = x] => Stays(p)
  BY DEF Goto, Stays, OnlyMoves, OrderOf, ProcsOK, CtxType
<1>3. \A l, x : Goto(p, l) /\ ctx' = [ctx EXCEPT ![p].known = x] => Stays(p)
  BY DEF Goto, Stays, OnlyMoves, OrderOf, ProcsOK, CtxType
<1>4. Finish(p) => Stays(p)
  BY MovesOnly DEF Stays
<1>5. Return(p) => Stays(p)
  BY <1>1, <1>4 DEF Return
<1>6. Requeue(p) => Stays(p)
  BY <1>4 DEF Requeue
<1>7. Transient(p) => Stays(p)
  BY <1>1, <1>6 DEF Transient
<1>8. QED
  BY <1>1, <1>2, <1>3, <1>4, <1>5, <1>6, <1>7

\* The ways a process queues a job.
LEMMA JobsOwn ==
  ASSUME TypeOK, NEW p \in Procs, pc[p] # "idle"
  PROVE  /\ UNCHANGED jobs => OwnJobs(p)
         /\ \A q, n : AddFresh(q, OrderOf(p), n) => OwnJobs(p)
         /\ \A n : AddPoll(OrderOf(p), n) => OwnJobs(p)
         /\ p \in Queues /\ Requeue(p) => OwnJobs(p)
         /\ p \in Queues /\ Transient(p) => OwnJobs(p)
<1>a. jobs \in [Queues -> SUBSET Job]
  BY DEF TypeOK, RowsOK
<1>1. UNCHANGED jobs => OwnJobs(p)
  BY DEF OwnJobs
<1>2. ASSUME NEW q, NEW j, j.order = OrderOf(p), jobs' = [jobs EXCEPT ![q] = @ \cup {j}]
      PROVE  OwnJobs(p)
  BY <1>a, <1>2 DEF OwnJobs
<1>3. ASSUME NEW q, NEW t, NEW n,
             jobs' = [jobs EXCEPT ![q] = @ \cup {[order |-> OrderOf(p), tag |-> t, n |-> n]}]
      PROVE  OwnJobs(p)
  <2>1. \A x \in Queues : jobs'[x] \subseteq
                            jobs[x] \cup {[order |-> OrderOf(p), tag |-> t, n |-> n]}
    BY <1>a, <1>3
  <2>2. \A j : j \in {[order |-> OrderOf(p), tag |-> t, n |-> n]} => j.order = OrderOf(p)
    OBVIOUS
  <2>3. QED
    BY <2>1, <2>2 DEF OwnJobs
<1>4. ASSUME NEW q, NEW n, AddFresh(q, OrderOf(p), n) PROVE OwnJobs(p)
  <2>1. PICK t \in 1..MaxTags :
          jobs' = [jobs EXCEPT ![q] = @ \cup {[order |-> OrderOf(p), tag |-> t, n |-> n]}]
    BY <1>4 DEF AddFresh
  <2>2. QED
    BY <1>3, <2>1
<1>5. ASSUME NEW n, AddPoll(OrderOf(p), n) PROVE OwnJobs(p)
  <2>1. CASE n \in pollIds[OrderOf(p)]
    BY <1>1, <1>5, <2>1 DEF AddPoll
  <2>2. CASE n \notin pollIds[OrderOf(p)]
    <3>1. jobs' = [jobs EXCEPT !["poll"] = @ \cup {[order |-> OrderOf(p), tag |-> 0, n |-> n]}]
      BY <1>5, <2>2 DEF AddPoll
    <3>2. QED
      BY <1>3, <3>1
  <2>3. QED
    BY <2>1, <2>2
<1>6. ASSUME p \in Queues, Requeue(p) PROVE OwnJobs(p)
  <2>1. ctx[p].job \in Job /\ ctx[p].job.order = OrderOf(p)
    BY <1>6 DEF TypeOK, ProcsOK
  <2>2. [ctx[p].job EXCEPT !.n = @ + 1].order = OrderOf(p)
    BY <2>1 DEF Job
  <2>3. QED
    BY <1>2, <1>6, <2>2 DEF Requeue
<1>7. ASSUME p \in Queues, Transient(p) PROVE OwnJobs(p)
  BY <1>1, <1>6, <1>7 DEF Transient
<1>8. QED
  BY <1>1, <1>4, <1>5, <1>6, <1>7

\* The routines of FulfillmentService.
LEMMA ServiceConfined ==
  ASSUME TypeOK, NEW p \in Procs, Service(p)
  PROVE  Confined(p)
<1>a. ProcsOK /\ RowsOK
  BY DEF TypeOK
<1>1. pc[p] # "idle" /\ UNCHANGED jobs /\ retries' = retries
  BY DEF Service, ServiceStep, budgets, CompleteRead, SaveProfile, MarkCompleted,
         AnnounceCompleted, CancelEsim, RevokeEsim, CompleteTopUpRead, MarkToppedUp,
         RefundRead, MarkFailed, CreditRefund, MarkRefunded, AnnounceFailed
<1>2. Stays(p)
  <2>1. \/ \E l : Goto(p, l) /\ UNCHANGED ctx
        \/ \E l, x : Goto(p, l) /\ ctx' = [ctx EXCEPT ![p].seen = x]
        \/ Return(p)
    <3>1. CASE \/ CompleteRead(p) \/ MarkCompleted(p) \/ MarkFailed(p) \/ CreditRefund(p)
               \/ MarkRefunded(p)
      BY <3>1 DEF CompleteRead, MarkCompleted, MarkFailed, CreditRefund, MarkRefunded
    <3>2. CASE SaveProfile(p)
      BY <3>2 DEF SaveProfile
    <3>3. CASE AnnounceCompleted(p) \/ RevokeEsim(p) \/ MarkToppedUp(p) \/ AnnounceFailed(p)
      BY <3>3 DEF AnnounceCompleted, RevokeEsim, MarkToppedUp, AnnounceFailed
    <3>4. CASE CancelEsim(p)
      BY <3>4 DEF CancelEsim
    <3>5. CASE CompleteTopUpRead(p) \/ RefundRead(p)
      BY <3>5 DEF CompleteTopUpRead, RefundRead
    <3>6. QED
      BY <3>1, <3>2, <3>3, <3>4, <3>5 DEF Service, ServiceStep
  <2>2. QED
    BY <1>a, <2>1, MoveStays
<1>3. OwnRows(p)
  <2>1. /\ UNCHANGED status \/ \E x : status' = [status EXCEPT ![OrderOf(p)] = x]
        /\ UNCHANGED ledger \/ \E x : ledger' = [ledger EXCEPT ![OrderOf(p)] = @ \cup {x}]
        /\ UNCHANGED supplier \/ \E x : supplier' = [supplier EXCEPT ![OrderOf(p)] = x]
        /\ UNCHANGED profile \/ \E x : profile' = [profile EXCEPT ![OrderOf(p)] = x]
    <3>1. CASE \/ CompleteRead(p) \/ CompleteTopUpRead(p) \/ RefundRead(p)
               \/ AnnounceCompleted(p) \/ AnnounceFailed(p)
      BY <3>1 DEF CompleteRead, CompleteTopUpRead, RefundRead, AnnounceCompleted, AnnounceFailed,
                  serviceVars
    <3>2. CASE MarkCompleted(p) \/ MarkToppedUp(p) \/ MarkFailed(p) \/ MarkRefunded(p)
      BY <3>2 DEF MarkCompleted, MarkToppedUp, MarkFailed, MarkRefunded
    <3>3. CASE SaveProfile(p)
      BY <3>3 DEF SaveProfile
    <3>4. CASE CancelEsim(p) \/ RevokeEsim(p)
      BY <3>4 DEF CancelEsim, RevokeEsim
    <3>5. CASE CreditRefund(p)
      BY <3>5 DEF CreditRefund
    <3>6. QED
      BY <3>1, <3>2, <3>3, <3>4, <3>5 DEF Service, ServiceStep
  <2>2. QED
    BY <1>a, <2>1 DEF OwnRows, RowsOK
<1>4. QED
  BY <1>1, <1>2, <1>3, JobsOwn DEF Confined

\* The handlers' own steps, from the debit to the end of the request.
LEMMA HandlerConfined ==
  ASSUME TypeOK, NEW p \in Handlers, Checkout(p) \/ Webhook(p) \/ Request(p)
  PROVE  Confined(p)
<1>a. ProcsOK /\ RowsOK /\ p \in Procs
  BY ConstantsOK DEF TypeOK
<1>1. pc[p] # "idle" /\ retries' = retries
  BY DEF Checkout, Webhook, Request, budgets, Debit, MarkUnpaid, Start, Enqueue, HookLookup,
         HookQuery, HookMark, RefreshQuery, RetryMark, RetryEnqueue, SweepAdd
<1>2. Stays(p)
  <2>1. (\E l : Goto(p, l) /\ UNCHANGED ctx) \/ Finish(p)
    <3>1. CASE Checkout(p)
      BY <3>1 DEF Checkout, Debit, MarkUnpaid, Start, Enqueue
    <3>2. CASE Webhook(p)
      BY <3>2 DEF Webhook, HookLookup, HookQuery, HookMark
    <3>3. CASE Request(p)
      BY <3>3 DEF Request, RefreshQuery, RetryMark, RetryEnqueue, SweepAdd
    <3>4. QED
      BY <3>1, <3>2, <3>3
  <2>2. QED
    BY <1>a, <2>1, MoveStays
<1>3. OwnRows(p)
  <2>1. /\ UNCHANGED <<supplier, profile>>
        /\ UNCHANGED status \/ \E x : status' = [status EXCEPT ![OrderOf(p)] = x]
        /\ UNCHANGED ledger \/ \E x : ledger' = [ledger EXCEPT ![OrderOf(p)] = @ \cup {x}]
    <3>1. CASE Checkout(p)
      BY <3>1 DEF Checkout, Debit, MarkUnpaid, Start, Enqueue, serviceVars
    <3>2. CASE Webhook(p)
      BY <3>2 DEF Webhook, HookLookup, HookQuery, HookMark, serviceVars
    <3>3. CASE Request(p)
      BY <3>3 DEF Request, RefreshQuery, RetryMark, RetryEnqueue, SweepAdd, serviceVars
    <3>4. QED
      BY <3>1, <3>2, <3>3
  <2>2. QED
    BY <1>a, <2>1 DEF OwnRows, RowsOK
<1>4. OwnJobs(p)
  <2>1. CASE UNCHANGED jobs
    BY <1>a, <1>1, <2>1, JobsOwn
  <2>2. CASE Enqueue(p)
    <3>1. PICK q : jobs' = [jobs EXCEPT ![q] = @ \cup {[order |-> OrderOf(p), tag |-> 0, n |-> 0]}]
      BY <2>2 DEF Enqueue
    <3>2. QED
      BY <1>a, <3>1 DEF OwnJobs, RowsOK
  <2>3. CASE RetryEnqueue(p) \/ SweepAdd(p)
    <3>1. UNCHANGED jobs \/ \E q, n : AddFresh(q, OrderOf(p), n)
      BY <2>3 DEF RetryEnqueue, SweepAdd
    <3>2. QED
      BY <1>a, <1>1, <3>1, JobsOwn
  <2>4. QED
    BY <2>1, <2>2, <2>3 DEF Checkout, Webhook, Request, queueVars, Debit, MarkUnpaid, Start,
       HookLookup, HookQuery, HookMark, RefreshQuery, RetryMark
<1>5. QED
  BY <1>1, <1>2, <1>3, <1>4 DEF Confined

\* The three processors.
LEMMA WorkerConfined ==
  ASSUME TypeOK, NEW p \in Queues, FulfilWorker(p) \/ PollWorker(p) \/ TopUpWorker(p)
  PROVE  Confined(p)
<1>a. ProcsOK /\ RowsOK /\ p \in Procs
  BY ConstantsOK DEF TypeOK
<1>1. pc[p] # "idle" /\ retries' = retries
  BY DEF FulfilWorker, PollWorker, TopUpWorker, budgets, FulfilRead, Resume, CreateOrder,
         SaveOrder, Schedule, PollRead, PollQuery, PollNext, TopUpRead, TopUpResume, TopUpCall
<1>2. Stays(p)
  <2>1. \/ \E l : Goto(p, l) /\ UNCHANGED ctx
        \/ \E l, x : Goto(p, l) /\ ctx' = [ctx EXCEPT ![p].known = x]
        \/ Finish(p) \/ Transient(p)
    <3>1. CASE FulfilWorker(p)
      <4>1. CASE FulfilRead(p)
        BY <4>1 DEF FulfilRead
      <4>2. CASE CreateOrder(p)
        BY <4>2 DEF CreateOrder
      <4>3. CASE Resume(p) \/ SaveOrder(p) \/ Schedule(p)
        BY <4>3 DEF Resume, SaveOrder, Schedule
      <4>4. QED
        BY <3>1, <4>1, <4>2, <4>3 DEF FulfilWorker
    <3>2. CASE PollWorker(p)
      BY <3>2 DEF PollWorker, PollRead, PollQuery, PollNext
    <3>3. CASE TopUpWorker(p)
      BY <3>3 DEF TopUpWorker, TopUpRead, TopUpResume, TopUpCall
    <3>4. QED
      BY <3>1, <3>2, <3>3
  <2>2. QED
    BY <1>a, <2>1, MoveStays
<1>3. OwnRows(p)
  <2>1. /\ UNCHANGED ledger
        /\ UNCHANGED status \/ \E x : status' = [status EXCEPT ![OrderOf(p)] = x]
        /\ UNCHANGED supplier \/ \E x : supplier' = [supplier EXCEPT ![OrderOf(p)] = x]
        /\ UNCHANGED profile \/ \E x : profile' = [profile EXCEPT ![OrderOf(p)].ext = x]
    <3>1. CASE FulfilWorker(p)
      BY <3>1 DEF FulfilWorker, FulfilRead, Resume, CreateOrder, SaveOrder, Schedule, serviceVars
    <3>2. CASE PollWorker(p)
      BY <3>2 DEF PollWorker, PollRead, PollQuery, PollNext, serviceVars
    <3>3. CASE TopUpWorker(p)
      BY <3>3 DEF TopUpWorker, TopUpRead, TopUpResume, TopUpCall, serviceVars
    <3>4. QED
      BY <3>1, <3>2, <3>3
  <2>2. QED
    BY <1>a, <2>1 DEF OwnRows, RowsOK
<1>4. OwnJobs(p)
  <2>1. UNCHANGED jobs \/ Transient(p) \/ \E n : AddPoll(OrderOf(p), n)
    <3>1. CASE FulfilWorker(p)
      BY <3>1 DEF FulfilWorker, FulfilRead, Resume, CreateOrder, SaveOrder, Schedule, queueVars
    <3>2. CASE PollWorker(p)
      BY <3>2 DEF PollWorker, PollRead, PollQuery, PollNext, queueVars
    <3>3. CASE TopUpWorker(p)
      BY <3>3 DEF TopUpWorker, TopUpRead, TopUpResume, TopUpCall, queueVars
    <3>4. QED
      BY <3>1, <3>2, <3>3
  <2>2. QED
    BY <1>a, <1>1, <2>1, JobsOwn
<1>5. QED
  BY <1>1, <1>2, <1>3, <1>4 DEF Confined

\* So every step of a process, and every failure, concerns its own order.
LEMMA StepConfined ==
  ASSUME TypeOK, NEW p \in Procs, Step(p) \/ Throw(p)
  PROVE  Confined(p)
<1>1. CASE Step(p)
  <2>1. "fulfil" \in Queues /\ "poll" \in Queues /\ "topup" \in Queues
    BY DEF Queues
  <2>2. QED
    BY <1>1, <2>1, ServiceConfined, HandlerConfined, WorkerConfined DEF Step
<1>2. CASE Throw(p)
  <2>1. /\ pc[p] # "idle" /\ ProcsOK
        /\ \/ p \in Queues /\ Transient(p)
           \/ p \in Queues /\ Requeue(p)
           \/ Finish(p) /\ UNCHANGED jobs
    BY <1>2 DEF Throw, Queues, TypeOK
  <2>2. Stays(p) /\ OwnJobs(p)
    BY <2>1, MoveStays, JobsOwn
  <2>3. OwnRows(p) /\ retries' = retries
    BY <1>2 DEF Throw, OwnRows, serviceVars
  <2>4. QED
    BY <2>2, <2>3 DEF Confined
<1>3. QED
  BY <1>1, <1>2

-----------------------------------------------------------------------------
(* The invariant                                                             *)

\* A process that works for another order leaves an uncharged one untouched.
LEMMA OthersUntouched ==
  ASSUME ChargeOK, NEW p \in Procs, Confined(p), NEW o \in Orders,
         o # OrderOf(p), "charge" \notin ledger'[o]
  PROVE  Untouched(o)'
<1>1. Untouched(o)
  BY DEF Confined, OwnRows, ChargeOK
<1>2. \A q \in Queues : \A j \in jobs'[q] : j.order # o
  BY <1>1 DEF Confined, OwnJobs, Untouched
<1>3. \A q \in Procs : pc'[q] # "idle" /\ OrderOf(q)' = o =>
                          q \in Handlers /\ pc'[q] \in {"debit", "markUnpaid"}
  BY <1>1 DEF Confined, Stays, OnlyMoves, OrderOf, Untouched
<1>4. QED
  BY <1>1, <1>2, <1>3 DEF Confined, OwnRows, Untouched

\* The only process at work on an uncharged order is its checkout request,
\* which charges it or fails it.
LEMMA OwnUntouched ==
  ASSUME TypeOK, ChargeOK, NEW p \in Procs, Step(p) \/ Throw(p), NEW o \in Orders,
         o = OrderOf(p), "charge" \notin ledger'[o]
  PROVE  Untouched(o)'
<1>a. RowsOK /\ ProcsOK /\ Confined(p)
  BY StepConfined DEF TypeOK
<1>1. Untouched(o)
  BY <1>a DEF Confined, OwnRows, ChargeOK
<1>2. pc[p] # "idle"
  BY DEF Step, Throw, Service, ServiceStep, CompleteRead, SaveProfile, MarkCompleted,
         AnnounceCompleted, CancelEsim, RevokeEsim, CompleteTopUpRead, MarkToppedUp,
         RefundRead, MarkFailed, CreditRefund, MarkRefunded, AnnounceFailed, FulfilWorker, PollWorker,
         TopUpWorker, FulfilRead, Resume, CreateOrder, SaveOrder, Schedule, PollRead,
         PollQuery, PollNext, TopUpRead, TopUpResume, TopUpCall, Checkout, Webhook, Request,
         Debit, MarkUnpaid, Start, Enqueue, HookLookup, HookQuery, HookMark, RefreshQuery,
         RetryMark, RetryEnqueue, SweepAdd
<1>3. p \in Handlers /\ p \notin Queues /\ pc[p] \in {"debit", "markUnpaid"}
  BY <1>1, <1>2, ConstantsOK DEF Untouched
<1>4. Debit(p) \/ MarkUnpaid(p) \/ Throw(p)
  BY <1>3 DEF Step, Service, ServiceStep, CompleteRead, SaveProfile, MarkCompleted,
         AnnounceCompleted, CancelEsim, RevokeEsim, CompleteTopUpRead, MarkToppedUp,
         RefundRead, MarkFailed, CreditRefund, MarkRefunded, AnnounceFailed, Queues, Checkout, Webhook, Request,
         Start, Enqueue, HookLookup, HookQuery, HookMark, RefreshQuery,
         RetryMark, RetryEnqueue, SweepAdd
<1>5. /\ UNCHANGED <<ledger, supplier, profile, jobs>>
      /\ status'[o] = status[o] \/ status'[o] = "FAILED"
      /\ pc'[p] \in {"idle", "markUnpaid"}
  <2>1. CASE Debit(p)
    <3>1. ledger' # [ledger EXCEPT ![OrderOf(p)] = @ \cup {"charge"}]
      BY <1>a DEF RowsOK
    <3>2. Goto(p, "markUnpaid") /\ UNCHANGED ledger
      BY <2>1, <3>1 DEF Debit
    <3>3. QED
      BY <1>a, <2>1, <3>2, MovesOnly DEF Debit, queueVars
  <2>2. CASE MarkUnpaid(p)
    <3>1. pc'[p] = "idle"
      BY <1>a, <2>2, MovesOnly DEF MarkUnpaid
    <3>2. status'[o] = "FAILED"
      BY <1>a, <2>2 DEF MarkUnpaid, RowsOK
    <3>3. QED
      BY <2>2, <3>1, <3>2 DEF MarkUnpaid, queueVars
  <2>3. CASE Throw(p)
    <3>1. Finish(p) /\ UNCHANGED <<jobs, serviceVars>>
      BY <1>3, <2>3 DEF Throw, Queues
    <3>2. QED
      BY <1>a, <3>1, MovesOnly DEF serviceVars
  <2>4. QED
    BY <1>4, <2>1, <2>2, <2>3
<1>6. \A q \in Procs : pc'[q] # "idle" /\ OrderOf(q)' = o =>
                          q \in Handlers /\ pc'[q] \in {"debit", "markUnpaid"}
  BY <1>1, <1>3, <1>5, <1>a DEF Confined, Stays, OnlyMoves, OrderOf, Untouched
<1>7. QED
  BY <1>1, <1>5, <1>6 DEF Untouched

\* Calls that start: a new order is untouched, and no other call than a retry
\* starts for an order that is.
LEMMA EntryUntouched ==
  ASSUME TypeOK, ChargeOK, NEW h \in Handlers, NEW x \in Orders, NEW t \in NoteTypes,
         Create(h, x) \/ Refresh(h, x) \/ Sweep(h, x) \/ HookBegin(h, x, t)
  PROVE  ChargeOK'
<1> SUFFICES ASSUME NEW o \in Orders, "charge" \notin ledger'[o]
             PROVE  Untouched(o)'
  BY DEF ChargeOK
<1>a. RowsOK /\ ProcsOK /\ h \in Procs
  BY ConstantsOK DEF TypeOK
<1>1. UNCHANGED <<ledger, profile, supplier, jobs>>
  BY DEF Create, Refresh, Sweep, HookBegin, serviceVars, queueVars
<1>2. Untouched(o)
  BY <1>1 DEF ChargeOK
<1>3. status'[o] \in {"none", "PAID", "FAILED"}
  BY <1>2, <1>a DEF Create, Refresh, Sweep, HookBegin, serviceVars, Untouched, RowsOK
<1>4. o = x => Create(h, x)
  BY <1>2 DEF Refresh, Sweep, HookBegin, Untouched
<1>5. OnlyMoves(h) /\ OrderOf(h)' = x /\ (Create(h, x) => pc'[h] = "debit")
  <2>1. ASSUME NEW l, NEW c, pc' = [pc EXCEPT ![h] = l], ctx' = [ctx EXCEPT ![h] = c]
        PROVE  OnlyMoves(h) /\ pc'[h] = l /\ ctx'[h] = c
    BY <1>a, <2>1 DEF OnlyMoves, ProcsOK
  <2>2. \E c : c.order = x /\ ctx' = [ctx EXCEPT ![h] = c]
    <3>1. CASE Create(h, x) \/ Refresh(h, x)
      BY <3>1, BeginCtx DEF Create, Refresh, Begin
    <3>2. CASE Sweep(h, x)
      <4>1. profile[x].ext \in BOOLEAN
        BY <1>a DEF RowsOK
      <4>2. QED
        BY ZenonT(40), <3>2, <4>1, BeginCtx DEF Sweep
    <3>3. CASE HookBegin(h, x, t)
      BY <3>3, BeginCtx DEF HookBegin
    <3>4. QED
      BY <3>1, <3>2, <3>3
  <2>3. \E l : pc' = [pc EXCEPT ![h] = l] /\ (Create(h, x) => l = "debit")
    BY DEF Create, Refresh, Sweep, HookBegin, Begin
  <2>4. QED
    BY <2>1, <2>2, <2>3 DEF OrderOf
<1>6. \A q \in Procs : pc'[q] # "idle" /\ OrderOf(q)' = o =>
                          q \in Handlers /\ pc'[q] \in {"debit", "markUnpaid"}
  BY <1>2, <1>4, <1>5 DEF OnlyMoves, OrderOf, Untouched
<1>7. QED
  BY <1>1, <1>2, <1>3, <1>6 DEF Untouched

\* Workers taking jobs, restarts, the supplier and Redis.
LEMMA OtherUntouched ==
  ASSUME TypeOK, ChargeOK,
         \/ \E q \in Queues : \E j \in jobs[q] : Take(q, j)
         \/ \E o \in Purchases : Allocate(o) \/ \E n \in 1..MaxPolls : EvictPollId(o, n)
         \/ Crash \/ UNCHANGED vars
  PROVE  ChargeOK'
<1> SUFFICES ASSUME NEW o \in Orders, "charge" \notin ledger'[o]
             PROVE  Untouched(o)'
  BY DEF ChargeOK
<1>a. RowsOK /\ ProcsOK /\ Queues \subseteq Procs
  BY ConstantsOK DEF TypeOK
<1>1. UNCHANGED <<status, ledger, profile>>
  BY DEF Take, Allocate, EvictPollId, Crash, vars, serviceVars
<1>2. Untouched(o)
  BY <1>1 DEF ChargeOK
<1>3. ASSUME NEW q \in Queues, NEW j \in jobs[q], Take(q, j) PROVE Untouched(o)'
  <2>1. OnlyMoves(q) /\ OrderOf(q)' = j.order
    <3>1. /\ pc' = [pc EXCEPT ![q] = FirstLabel[q]]
          /\ ctx' = [ctx EXCEPT ![q] = [NoCtx EXCEPT !.order = j.order, !.job = j]]
      BY <1>3 DEF Take
    <3>2. [NoCtx EXCEPT !.order = j.order, !.job = j].order = j.order
      BY DEF NoCtx
    <3>3. pc \in [Procs -> Labels] /\ ctx \in [Procs -> CtxType] /\ q \in Procs
      BY <1>a DEF ProcsOK
    <3>4. QED
      BY <3>1, <3>2, <3>3 DEF OnlyMoves, OrderOf
  <2>2. j.order # o
    BY <1>2 DEF Untouched
  <2>3. \A r \in Queues : jobs'[r] \subseteq jobs[r]
    BY <1>3, <1>a DEF Take, RowsOK
  <2>4. supplier' = supplier
    BY <1>3 DEF Take, serviceVars
  <2>5. \A r \in Queues : \A k \in jobs'[r] : k.order # o
    BY <1>2, <2>3 DEF Untouched
  <2>6. \A r \in Procs : pc'[r] # "idle" /\ OrderOf(r)' = o =>
                            r \in Handlers /\ pc'[r] \in {"debit", "markUnpaid"}
    BY <1>2, <2>1, <2>2 DEF OnlyMoves, OrderOf, Untouched
  <2>7. QED
    BY <1>1, <1>2, <2>4, <2>5, <2>6 DEF Untouched
<1>4. ASSUME NEW x \in Purchases, Allocate(x) PROVE Untouched(o)'
  <2>1. x # o
    BY <1>2, <1>4 DEF Allocate, Untouched
  <2>2. supplier'[o] = supplier[o]
    BY <1>4, <2>1, <1>a DEF Allocate, RowsOK
  <2>3. QED
    BY <1>2, <1>4, <2>2 DEF Allocate, Untouched, queueVars, procVars, OrderOf
<1>5. CASE Crash
  <2>1. \A q \in Queues : pc[q] # "idle" => ctx[q].job.order # o
    BY <1>2, <1>a, ConstantsOK DEF ProcsOK, Untouched, OrderOf
  <2>2. \A q \in Queues : \A j \in jobs'[q] : j.order # o
    BY <1>2, <1>5, <2>1 DEF Crash, Untouched
  <2>3. /\ \A p \in Procs : pc'[p] = "idle"
        /\ supplier' = supplier
    BY <1>5 DEF Crash, serviceVars
  <2>4. QED
    BY <1>1, <1>2, <2>2, <2>3 DEF Untouched
<1>6. ASSUME UNCHANGED <<serviceVars, jobs, procVars>> PROVE Untouched(o)'
  BY <1>2, <1>6 DEF Untouched, serviceVars, procVars, OrderOf
<1>7. QED
  BY <1>3, <1>4, <1>5, <1>6 DEF EvictPollId, vars, queueVars

\* As long as no admin retries an order, an uncharged order is untouched.
LEMMA ChargeInvHolds == Spec => []ChargeInv
<1>1. Init => ChargeInv
  <2>1. Init => ChargeOK
    BY DEF Init, ChargeOK, Untouched
  <2>2. QED
    BY <2>1, InitTyped DEF ChargeInv
<1>2. ChargeInv /\ [Next]_vars => ChargeInv'
  <2> SUFFICES ASSUME ChargeInv, [Next]_vars, retries' = 0 PROVE ChargeOK'
    BY NextTyped DEF ChargeInv
  <2>0. TypeOK /\ RowsOK
    BY DEF ChargeInv, TypeOK
  <2>1. ASSUME NEW p \in Procs, Step(p) \/ Throw(p) PROVE ChargeOK'
    <3>1. Confined(p) /\ ChargeOK
      BY <2>0, <2>1, StepConfined DEF Confined, ChargeInv
    <3>2. QED
      BY <2>0, <2>1, <3>1, OthersUntouched, OwnUntouched DEF ChargeOK
  <2>2. ASSUME NEW h \in Handlers, NEW o \in Orders,
               Create(h, o) \/ Refresh(h, o) \/ Sweep(h, o)
        PROVE  ChargeOK'
    <3>1. ChargeOK
      BY <2>2 DEF ChargeInv, Create, Refresh, Sweep, budgets
    <3>2. "ORDER_STATUS" \in NoteTypes
      BY DEF NoteTypes
    <3>3. QED
      BY <2>0, <2>2, <3>1, <3>2, EntryUntouched
  <2>3. ASSUME NEW h \in Handlers, NEW o \in Purchases, NEW t \in NoteTypes, HookBegin(h, o, t)
        PROVE  ChargeOK'
    <3>1. ChargeOK
      BY <2>3 DEF ChargeInv, HookBegin, budgets
    <3>2. QED
      BY <2>0, <2>3, <3>1, EntryUntouched, ConstantsOK
  <2>4. ASSUME NEW h \in Handlers, NEW o \in Orders PROVE ~Retry(h, o)
    BY <2>0 DEF Retry, RowsOK
  <2>5. CASE \/ \E q \in Queues : \E j \in jobs[q] : Take(q, j)
             \/ \E o \in Purchases : Allocate(o) \/ \E n \in 1..MaxPolls : EvictPollId(o, n)
             \/ Crash \/ UNCHANGED vars
    <3>1. ChargeOK
      BY <2>5 DEF ChargeInv, Take, Allocate, EvictPollId, Crash, vars, budgets
    <3>2. QED
      BY <2>0, <2>5, <3>1, OtherUntouched
  <2>6. QED
    BY <2>1, <2>2, <2>3, <2>4, <2>5 DEF Next
<1>3. QED
  BY <1>1, <1>2, PTL DEF Spec

\* As long as no admin has retried an order, the supplier is asked for, and a
\* refund paid for, only what the wallet has been charged, whatever fails,
\* overlaps or restarts.
THEOREM OnlyChargedIsBought == Spec => []NothingUncharged
<1>1. ChargeInv => NothingUncharged
  BY DEF ChargeInv, ChargeOK, Untouched, NothingUncharged
<1>2. QED
  BY <1>1, ChargeInvHolds, PTL

-----------------------------------------------------------------------------
(* No charged order is lost: as long as nothing fails, restarts or is        *)
(* retried by hand, every charged order is settled or has a carrier, a       *)
(* process or a job that cannot end without settling it or handing it on.    *)
(* That is the invariant; the conjuncts before Carried are what it takes to  *)
(* know it of the two steps that hand an order to nobody: a poll whose id    *)
(* Redis still knows is not queued, and a late write puts an order that read *)
(* COMPLETED back to FULFILLING or FAILED.                                   *)

Works(p, o) == pc[p] # "idle" /\ OrderOf(p) = o

\* No one but its checkout request has heard of the order.
Unheard(o) ==
  /\ supplier[o] = "none" /\ ~profile[o].iccid /\ pollIds[o] = {}
  /\ \A q \in Queues : \A j \in jobs[q] : j.order # o

\* An order that does not exist has left no trace; until its checkout request
\* has marked it, that request is the only one at work on it.
CheckoutOK ==
  /\ \A o \in Orders : status[o] = "none" =>
       Unheard(o) /\ ledger[o] = {} /\ \A p \in Procs : ~Works(p, o)
  /\ \A p \in Procs : pc[p] \in {"debit", "markUnpaid", "start"} =>
       /\ Unheard(OrderOf(p)) /\ status[OrderOf(p)] = "PAID"
       /\ \A q \in Procs : Works(q, OrderOf(p)) => q = p
       /\ pc[p] # "start" => ledger[OrderOf(p)] = {}

NoRetry == \A p \in Procs : pc[p] \notin {"retryMark", "retryEnqueue"}

\* The refund is posted, or a process is about to post it.
Refunding(o) == "refund" \in ledger[o] \/ \E p \in Procs : pc[p] = "credit" /\ OrderOf(p) = o

\* A charged order reads FAILED only on its way to a refund, so a worker that
\* resumes a FAILED order resumes one that is refunded anyway.
RefundOK ==
  /\ \A o \in Orders : status[o] = "FAILED" /\ "charge" \in ledger[o] => Refunding(o)
  /\ \A p \in Procs : pc[p] \in {"resume", "topUpResume"} => Refunding(OrderOf(p))

\* p is in a routine that settles its order.
Closing(p) ==
  \/ pc[p] \in {"completeRead", "markCompleted", "completeTopUp", "markToppedUp", "refundRead",
                "markFailed", "credit"}
  \/ pc[p] = "saveProfile" /\ ctx[p].seen \notin Terminal

ClosedBy(o) == Settled(o) \/ \E p \in Procs : Closing(p) /\ OrderOf(p) = o

\* p runs a poll that has not decided yet.
Polling(p) == pc[p] \in {"pollRead", "pollQuery", "pollNext"}

\* Poll n of the order, or a later one, waits or runs.
Chained(o, n) ==
  \/ \E j \in jobs["poll"] : j.order = o /\ j.n >= n
  \/ Polling("poll") /\ OrderOf("poll") = o /\ ctx["poll"].job.n >= n

\* Redis knows a poll's id only as long as the chain goes on from there, or
\* when it has been closed: an add that is ignored loses nothing.
PollIdsOK == \A o \in Orders : \A n \in pollIds[o] : ClosedBy(o) \/ Chained(o, n)

\* p cannot end without settling its order or handing it on.
Carrying(p) ==
  \/ Closing(p) \/ Polling(p)
  \/ pc[p] \in {"start", "enqueue", "fulfilRead", "resume", "createOrder", "saveOrder",
                "schedule", "topUpRead", "topUpResume", "topUpCall"}

Waits(o) == \E q \in Queues : \E j \in jobs[q] : j.order = o

Carried ==
  \A o \in Orders : "charge" \in ledger[o] =>
    Settled(o) \/ Waits(o) \/ \E p \in Procs : Carrying(p) /\ OrderOf(p) = o

CarryOK == CheckoutOK /\ NoRetry /\ RefundOK /\ PollIdsOK /\ Carried
CarryInv == SettleInv /\ ChargeInv /\ (Undisturbed => CarryOK)

-----------------------------------------------------------------------------
(* What one step of a process does for its own order                         *)

\* Nothing waiting is lost, and polls are queued from two places only.
Queueing(p, o) ==
  /\ \A q \in Queues : jobs[q] \subseteq jobs'[q]
  /\ pc[p] = "schedule" => AddPoll(o, 1)
  /\ pc[p] = "pollNext" => AddPoll(o, ctx[p].job.n + 1)
  /\ pc[p] \notin {"schedule", "pollNext"} => pollIds' = pollIds

\* What a process owes its order: it stays settled or is being closed again;
\* who closes it goes on or has settled it; who carries it goes on, hands it to
\* a queue or has settled it; an undecided poll decides or queues the next.
Handing(p, o) ==
  /\ Settled(o) => \/ Settled(o)' \/ Closing(p)'
                   \/ pc[p] \in {"markUnpaid", "start", "resume", "topUpResume"}
  /\ Closing(p) => Settled(o)' \/ Closing(p)'
  /\ Carrying(p) => Settled(o)' \/ Carrying(p)' \/ Waits(o)' \/ pc[p] \in {"schedule", "pollNext"}
  /\ Polling(p) => \/ Settled(o)' \/ Closing(p)' \/ pc[p] = "pollNext"
                   \/ Polling(p)' /\ ctx'[p].job = ctx[p].job

\* What the labels of the checkout, of a resumed job and of a refund stand for.
Marking(p, o) ==
  /\ status[o] # "none" => status'[o] # "none"
  /\ status'[o] = "FAILED" => status[o] = "FAILED" \/ pc'[p] = "credit" \/ pc[p] = "markUnpaid"
  /\ pc[p] = "credit" => "refund" \in ledger'[o]
  /\ pc'[p] \in {"resume", "topUpResume"} => status[o] = "FAILED"
  /\ pc[p] \in {"start", "resume", "topUpResume"} => Carrying(p)'
  /\ "charge" \in ledger'[o] => "charge" \in ledger[o] \/ pc'[p] = "start"
  /\ pc'[p] \in {"debit", "markUnpaid", "start"} =>
       /\ pc[p] = "debit" /\ UNCHANGED <<status, supplier, profile, jobs, pollIds>>
       /\ pc'[p] # "start" => ledger' = ledger
  /\ pc'[p] # "retryMark" /\ (pc'[p] = "retryEnqueue" => pc[p] = "retryMark")

Effects(p, o) == Queueing(p, o) /\ Handing(p, o) /\ Marking(p, o)

\* The ways jobs are added.
LEMMA JobsGrow ==
  ASSUME TypeOK, NEW p \in Procs, pc[p] # "idle", NEW o \in Orders, o = OrderOf(p)
  PROVE  /\ UNCHANGED jobs => \A q \in Queues : jobs[q] \subseteq jobs'[q]
         /\ \A q \in Queues : \A n : AddFresh(q, o, n) => (\A r \in Queues : jobs[r] \subseteq jobs'[r])
         /\ \A n : AddPoll(o, n) => \A q \in Queues : jobs[q] \subseteq jobs'[q]
         /\ p \in Queues /\ Requeue(p) => (\A q \in Queues : jobs[q] \subseteq jobs'[q]) /\ Waits(o)'
         /\ p \in Queues /\ Transient(p) =>
              (\A q \in Queues : jobs[q] \subseteq jobs'[q]) /\ (pc'[p] = "refundRead" \/ Waits(o)')
<1>a. jobs \in [Queues -> SUBSET Job] /\ ProcsOK
  BY DEF TypeOK, RowsOK
<1>1. ASSUME NEW q, NEW j, jobs' = [jobs EXCEPT ![q] = @ \cup {j}]
      PROVE  /\ \A r \in Queues : jobs[r] \subseteq jobs'[r]
             /\ q \in Queues => j \in jobs'[q]
  BY <1>a, <1>1
<1>2. \A q \in Queues : \A n : AddFresh(q, o, n) => (\A r \in Queues : jobs[r] \subseteq jobs'[r])
  BY <1>1 DEF AddFresh
<1>3. \A n : AddPoll(o, n) => \A q \in Queues : jobs[q] \subseteq jobs'[q]
  BY <1>1 DEF AddPoll
<1>4. ASSUME p \in Queues, Requeue(p)
      PROVE  (\A q \in Queues : jobs[q] \subseteq jobs'[q]) /\ Waits(o)'
  <2>1. ctx[p].job \in Job /\ ctx[p].job.order = o
    BY <1>4, <1>a DEF ProcsOK
  <2>2. [ctx[p].job EXCEPT !.n = @ + 1].order = o
    BY <2>1 DEF Job
  <2>3. jobs' = [jobs EXCEPT ![p] = @ \cup {[ctx[p].job EXCEPT !.n = @ + 1]}]
    BY <1>4 DEF Requeue
  <2>4. QED
    BY <1>1, <1>4, <2>2, <2>3 DEF Waits
<1>5. ASSUME p \in Queues, Transient(p)
      PROVE  (\A q \in Queues : jobs[q] \subseteq jobs'[q]) /\ (pc'[p] = "refundRead" \/ Waits(o)')
  <2>1. CASE LastAttempt(p)
    BY <1>5, <1>a, <2>1, MovesOnly DEF Transient
  <2>2. CASE ~LastAttempt(p)
    BY <1>4, <1>5, <2>2 DEF Transient
  <2>3. QED
    BY <2>1, <2>2
<1>6. QED
  BY <1>2, <1>3, <1>4, <1>5

\* The routines of FulfillmentService.
LEMMA ServiceEffects ==
  ASSUME SettleInv, NEW p \in Procs, Service(p), NEW o \in Orders, o = OrderOf(p)
  PROVE  Effects(p, o)
<1>a. /\ ProcsOK /\ RowsOK /\ RouteOK(p) /\ Terminal = {"COMPLETED", "REFUNDED"}
      /\ status[o] = "REFUNDED" => "refund" \in ledger[o]
      /\ pc[p] = "markRefunded" => "refund" \in ledger[o]
  BY DEF SettleInv, TypeOK, OrdersOK, RefundedMeansCredited, RouteOK, Terminal
<1>1. CASE CompleteRead(p)
  <2>1. pc[p] = "completeRead" /\ pc'[p] = "saveProfile" /\ ctx'[p].seen = status[o]
    BY <1>1, <1>a, MovesOnly DEF CompleteRead, Goto, ProcsOK, CtxType
  <2>2. UNCHANGED <<status, ledger, jobs, pollIds>>
    BY <1>1, <1>a DEF CompleteRead, RowsOK, serviceVars
  <2>3. QED
    BY <2>1, <2>2, <1>a DEF Effects, Queueing, Handing, Marking, Settled, Closing, Polling, Carrying
<1>2. CASE SaveProfile(p)
  <2>1. pc[p] = "saveProfile" /\ (/\ ctx[p].seen \notin Terminal => pc'[p] = "markCompleted"
                                  /\ pc'[p] \in {"markCompleted", "cancel", "idle", "hookMark"})
    BY <1>2, <1>a, MovesOnly DEF SaveProfile, Terminal
  <2>2. UNCHANGED <<status, ledger, jobs, pollIds>>
    BY <1>2, <1>a DEF SaveProfile, RowsOK
  <2>3. QED
    BY <2>1, <2>2, <1>a DEF Effects, Queueing, Handing, Marking, Settled, Closing, Polling, Carrying
<1>3. CASE MarkCompleted(p)
  <2>1. pc[p] = "markCompleted" /\ pc'[p] = "announce"
    BY <1>3, <1>a, MovesOnly DEF MarkCompleted
  <2>2. status'[o] = "COMPLETED" /\ UNCHANGED <<ledger, jobs, pollIds>>
    BY <1>3, <1>a DEF MarkCompleted, RowsOK
  <2>3. QED
    BY <2>1, <2>2, <1>a DEF Effects, Queueing, Handing, Marking, Settled, Closing, Polling, Carrying
<1>4. CASE AnnounceCompleted(p)
  <2>1. pc[p] = "announce" /\ pc'[p] \in {"idle", "hookMark"}
    BY <1>4, <1>a, MovesOnly DEF AnnounceCompleted
  <2>2. UNCHANGED <<status, ledger, jobs, pollIds>>
    BY <1>4, <1>a DEF AnnounceCompleted, RowsOK
  <2>3. QED
    BY <2>1, <2>2, <1>a DEF Effects, Queueing, Handing, Marking, Settled, Closing, Polling, Carrying
<1>5. CASE CancelEsim(p)
  <2>1. pc[p] = "cancel" /\ pc'[p] \in {"idle", "hookMark", "revoke"}
    BY <1>5, <1>a, MovesOnly DEF CancelEsim
  <2>2. UNCHANGED <<status, ledger, jobs, pollIds>>
    BY <1>5, <1>a DEF CancelEsim, RowsOK
  <2>3. QED
    BY <2>1, <2>2, <1>a DEF Effects, Queueing, Handing, Marking, Settled, Closing, Polling, Carrying
<1>6. CASE RevokeEsim(p)
  <2>1. pc[p] = "revoke" /\ pc'[p] \in {"idle", "hookMark"}
    BY <1>6, <1>a, MovesOnly DEF RevokeEsim
  <2>2. UNCHANGED <<status, ledger, jobs, pollIds>>
    BY <1>6, <1>a DEF RevokeEsim, RowsOK
  <2>3. QED
    BY <2>1, <2>2, <1>a DEF Effects, Queueing, Handing, Marking, Settled, Closing, Polling, Carrying
<1>7. CASE CompleteTopUpRead(p)
  <2>1. pc[p] = "completeTopUp" /\ (IF status[o] \in Terminal THEN pc'[p] \in {"idle", "hookMark"} ELSE pc'[p] = "markToppedUp")
    BY <1>7, <1>a, MovesOnly DEF CompleteTopUpRead
  <2>2. UNCHANGED <<status, ledger, jobs, pollIds>>
    BY <1>7, <1>a DEF CompleteTopUpRead, RowsOK, serviceVars
  <2>3. QED
    BY <2>1, <2>2, <1>a DEF Effects, Queueing, Handing, Marking, Settled, Closing, Polling, Carrying
<1>8. CASE MarkToppedUp(p)
  <2>1. pc[p] = "markToppedUp" /\ pc'[p] \in {"idle", "hookMark"}
    BY <1>8, <1>a, MovesOnly DEF MarkToppedUp
  <2>2. status'[o] = "COMPLETED" /\ UNCHANGED <<ledger, jobs, pollIds>>
    BY <1>8, <1>a DEF MarkToppedUp, RowsOK
  <2>3. QED
    BY <2>1, <2>2, <1>a DEF Effects, Queueing, Handing, Marking, Settled, Closing, Polling, Carrying
<1>9. CASE RefundRead(p)
  <2>1. pc[p] = "refundRead" /\ (IF status[o] \in Terminal THEN pc'[p] \in {"idle", "hookMark"} ELSE pc'[p] = "markFailed")
    BY <1>9, <1>a, MovesOnly DEF RefundRead
  <2>2. UNCHANGED <<status, ledger, jobs, pollIds>>
    BY <1>9, <1>a DEF RefundRead, RowsOK, serviceVars
  <2>3. QED
    BY <2>1, <2>2, <1>a DEF Effects, Queueing, Handing, Marking, Settled, Closing, Polling, Carrying
<1>10. CASE MarkFailed(p)
  <2>1. pc[p] = "markFailed" /\ pc'[p] = "credit"
    BY <1>10, <1>a, MovesOnly DEF MarkFailed
  <2>2. status'[o] = "FAILED" /\ UNCHANGED <<ledger, jobs, pollIds>>
    BY <1>10, <1>a DEF MarkFailed, RowsOK
  <2>3. QED
    BY <2>1, <2>2, <1>a DEF Effects, Queueing, Handing, Marking, Settled, Closing, Polling, Carrying
<1>11. CASE CreditRefund(p)
  <2>1. pc[p] = "credit" /\ pc'[p] = "markRefunded"
    BY <1>11, <1>a, MovesOnly DEF CreditRefund
  <2>2. ledger'[o] = ledger[o] \cup {"refund"} /\ UNCHANGED <<status, jobs, pollIds>>
    BY <1>11, <1>a DEF CreditRefund, RowsOK
  <2>3. QED
    BY <2>1, <2>2, <1>a DEF Effects, Queueing, Handing, Marking, Settled, Closing, Polling, Carrying
<1>12. CASE MarkRefunded(p)
  <2>1. pc[p] = "markRefunded" /\ pc'[p] = "announceFailed"
    BY <1>12, <1>a, MovesOnly DEF MarkRefunded
  <2>2. status'[o] = "REFUNDED" /\ UNCHANGED <<ledger, jobs, pollIds>>
    BY <1>12, <1>a DEF MarkRefunded, RowsOK
  <2>3. QED
    BY <2>1, <2>2, <1>a DEF Effects, Queueing, Handing, Marking, Settled, Closing, Polling, Carrying
<1>13. CASE AnnounceFailed(p)
  <2>1. pc[p] = "announceFailed" /\ pc'[p] \in {"idle", "hookMark"}
    BY <1>13, <1>a, MovesOnly DEF AnnounceFailed
  <2>2. UNCHANGED <<status, ledger, jobs, pollIds>>
    BY <1>13, <1>a DEF AnnounceFailed, RowsOK
  <2>3. QED
    BY <2>1, <2>2, <1>a DEF Effects, Queueing, Handing, Marking, Settled, Closing, Polling, Carrying
<1>14. QED
  BY <1>1, <1>2, <1>3, <1>4, <1>5, <1>6, <1>7, <1>8, <1>9, <1>10, <1>11, <1>12, <1>13
     DEF Service, ServiceStep

\* Checkout, webhook, requests and the sweep, as long as nothing fails and no
\* order is retried.
LEMMA HandlerEffects ==
  ASSUME TypeOK, NEW p \in Handlers, Checkout(p) \/ Webhook(p) \/ Request(p), throws' = 0,
         pc[p] \notin {"retryMark", "retryEnqueue"}, NEW o \in Orders, o = OrderOf(p)
  PROVE  Effects(p, o)
<1>a. ProcsOK /\ RowsOK /\ p \in Procs
  BY ConstantsOK DEF TypeOK
<1>b. jobs \in [Queues -> SUBSET Job] /\ throws \in Nat
  BY <1>a DEF RowsOK
<1>1. CASE Debit(p)
  <2>1. pc[p] = "debit" /\ UNCHANGED <<status, supplier, profile, jobs, pollIds>>
    BY <1>1 DEF Debit, queueVars
  <2>2. \/ pc'[p] = "start" /\ ledger' = [ledger EXCEPT ![o] = @ \cup {"charge"}]
        \/ pc'[p] = "markUnpaid" /\ ledger' = ledger
    <3>1. throws' # throws + 1
      BY <1>b
    <3>2. QED
      BY <1>1, <1>a, <3>1, MovesOnly DEF Debit
  <2>3. ledger[o] \subseteq ledger'[o]
    BY <2>2, <1>a DEF RowsOK
  <2>4. QED
    BY <2>1, <2>2, <2>3, <1>a DEF Effects, Queueing, Handing, Marking, Settled, Closing, Polling, Carrying
<1>2. CASE MarkUnpaid(p)
  <2>1. pc[p] = "markUnpaid" /\ pc'[p] = "idle"
    BY <1>2, <1>a, MovesOnly DEF MarkUnpaid
  <2>2. status'[o] = "FAILED" /\ UNCHANGED <<ledger, jobs, pollIds>>
    BY <1>2, <1>a DEF MarkUnpaid, RowsOK, queueVars
  <2>3. QED
    BY <2>1, <2>2, <1>a DEF Effects, Queueing, Handing, Marking, Settled, Closing, Polling, Carrying
<1>3. CASE Start(p)
  <2>1. pc[p] = "start" /\ pc'[p] = "enqueue"
    BY <1>3, <1>a, MovesOnly DEF Start
  <2>2. status'[o] = "FULFILLING" /\ UNCHANGED <<ledger, jobs, pollIds>>
    BY <1>3, <1>a DEF Start, RowsOK, queueVars
  <2>3. QED
    BY <2>1, <2>2, <1>a DEF Effects, Queueing, Handing, Marking, Settled, Closing, Polling, Carrying
<1>4. CASE Enqueue(p)
  <2>1. pc[p] = "enqueue" /\ pc'[p] = "idle" /\ UNCHANGED <<status, ledger, pollIds>>
    BY <1>4, <1>a, MovesOnly DEF Enqueue, serviceVars
  <2>2. PICK q \in Queues :
          jobs' = [jobs EXCEPT ![q] = @ \cup {[order |-> o, tag |-> 0, n |-> 0]}]
    BY <1>4 DEF Enqueue, Queues
  <2>3. \A r \in Queues : jobs[r] \subseteq jobs'[r]
    BY <2>2, <1>b
  <2>4. [order |-> o, tag |-> 0, n |-> 0] \in jobs'[q]
    BY <2>2, <1>b
  <2>5. Waits(o)'
    BY <2>4 DEF Waits
  <2>6. QED
    BY <2>1, <2>3, <2>5, <1>a DEF Effects, Queueing, Handing, Marking, Settled, Closing, Polling, Carrying
<1>5. CASE HookLookup(p)
  <2>1. pc[p] = "hookLookup" /\ pc'[p] \in {"hookMark", "completeRead", "hookQuery"}
    BY <1>5, <1>a, MovesOnly DEF HookLookup
  <2>2. UNCHANGED <<status, ledger, jobs, pollIds>>
    BY <1>5, <1>a DEF HookLookup, RowsOK, serviceVars, queueVars
  <2>3. QED
    BY <2>1, <2>2, <1>a DEF Effects, Queueing, Handing, Marking, Settled, Closing, Polling, Carrying
<1>6. CASE HookQuery(p)
  <2>1. pc[p] = "hookQuery" /\ pc'[p] \in {"hookMark", "completeRead"}
    BY <1>6, <1>a, MovesOnly DEF HookQuery
  <2>2. UNCHANGED <<status, ledger, jobs, pollIds>>
    BY <1>6, <1>a DEF HookQuery, RowsOK, serviceVars, queueVars
  <2>3. QED
    BY <2>1, <2>2, <1>a DEF Effects, Queueing, Handing, Marking, Settled, Closing, Polling, Carrying
<1>7. CASE HookMark(p)
  <2>1. pc[p] = "hookMark" /\ pc'[p] = "idle"
    BY <1>7, <1>a, MovesOnly DEF HookMark
  <2>2. UNCHANGED <<status, ledger, jobs, pollIds>>
    BY <1>7, <1>a DEF HookMark, RowsOK, serviceVars, queueVars
  <2>3. QED
    BY <2>1, <2>2, <1>a DEF Effects, Queueing, Handing, Marking, Settled, Closing, Polling, Carrying
<1>8. CASE RefreshQuery(p)
  <2>1. pc[p] = "refreshQuery" /\ pc'[p] \in {"idle", "completeRead"}
    BY <1>8, <1>a, MovesOnly DEF RefreshQuery
  <2>2. UNCHANGED <<status, ledger, jobs, pollIds>>
    BY <1>8, <1>a DEF RefreshQuery, RowsOK, serviceVars, queueVars
  <2>3. QED
    BY <2>1, <2>2, <1>a DEF Effects, Queueing, Handing, Marking, Settled, Closing, Polling, Carrying
<1>9. CASE SweepAdd(p)
  <2>1. pc[p] = "sweepAdd" /\ pc'[p] = "idle" /\ UNCHANGED <<status, ledger, pollIds>>
    BY <1>9, <1>a, MovesOnly DEF SweepAdd, serviceVars
  <2>2. \A q \in Queues : jobs[q] \subseteq jobs'[q]
    <3>1. "poll" \in Queues /\ "fulfil" \in Queues
      BY DEF Queues
    <3>2. QED
      BY <1>9, <1>a, <2>1, <3>1, JobsGrow DEF SweepAdd
  <2>3. QED
    BY <2>1, <2>2, <1>a DEF Effects, Queueing, Handing, Marking, Settled, Closing, Polling, Carrying
<1>10. QED
  BY <1>1, <1>2, <1>3, <1>4, <1>5, <1>6, <1>7, <1>8, <1>9
     DEF Checkout, Webhook, Request, RetryMark, RetryEnqueue

\* The three processors, as long as nothing fails.
LEMMA WorkerEffects ==
  ASSUME SettleInv, NEW p \in Queues, FulfilWorker(p) \/ PollWorker(p) \/ TopUpWorker(p),
         throws' = 0, NEW o \in Orders, o = OrderOf(p)
  PROVE  Effects(p, o)
<1>a. /\ ProcsOK /\ RowsOK /\ p \in Procs /\ Terminal = {"COMPLETED", "REFUNDED"}
      /\ status[o] = "REFUNDED" => "refund" \in ledger[o]
  BY ConstantsOK DEF SettleInv, TypeOK, OrdersOK, RefundedMeansCredited, Terminal
<1>b. TypeOK /\ jobs \in [Queues -> SUBSET Job] /\ throws \in Nat
  BY <1>a DEF SettleInv, RowsOK
<1>1. CASE FulfilRead(p)
  <2>1. \/ pc'[p] = "refundRead"
        \/ pc'[p] = "idle" /\ status[o] \in Terminal
        \/ pc'[p] = "resume" /\ status[o] = "FAILED"
        \/ pc'[p] \in {"schedule", "createOrder"}
    BY <1>1, <1>a, MovesOnly DEF FulfilRead
  <2>2. pc[p] = "fulfilRead" /\ UNCHANGED <<status, ledger, jobs, pollIds>>
    BY <1>1 DEF FulfilRead, serviceVars, queueVars
  <2>3. QED
    BY <2>1, <2>2, <1>a DEF Effects, Queueing, Handing, Marking, Settled, Closing, Polling, Carrying
<1>2. CASE Resume(p)
  <2>1. pc[p] = "resume" /\ pc'[p] \in {"schedule", "createOrder"}
    BY <1>2, <1>a, MovesOnly DEF Resume
  <2>2. status'[o] = "FULFILLING" /\ UNCHANGED <<ledger, jobs, pollIds>>
    BY <1>2, <1>a DEF Resume, RowsOK, queueVars
  <2>3. QED
    BY <2>1, <2>2, <1>a DEF Effects, Queueing, Handing, Marking, Settled, Closing, Polling, Carrying
<1>3. CASE CreateOrder(p)
  <2>1. pc[p] = "createOrder" /\ UNCHANGED <<status, ledger, pollIds>>
    BY <1>3 DEF CreateOrder
  <2>2. \/ pc'[p] \in {"saveOrder", "refundRead"} /\ UNCHANGED jobs
        \/ Transient(p)
    BY <1>3, <1>a, MovesOnly DEF CreateOrder
  <2>3. /\ \A q \in Queues : jobs[q] \subseteq jobs'[q]
        /\ pc'[p] \in {"saveOrder", "refundRead"} \/ (pc'[p] = "idle" /\ Waits(o)')
    BY <1>a, <1>b, <2>1, <2>2, JobsGrow, MovesOnly
  <2>4. QED
    BY <2>1, <2>3, <1>a DEF Effects, Queueing, Handing, Marking, Settled, Closing, Polling, Carrying
<1>4. CASE SaveOrder(p)
  <2>1. throws' # throws + 1
    BY <1>b
  <2>2. pc[p] = "saveOrder" /\ pc'[p] = "schedule" /\ UNCHANGED <<status, ledger, jobs, pollIds>>
    BY <1>4, <1>a, <2>1, MovesOnly DEF SaveOrder
  <2>3. QED
    BY <2>2, <1>a DEF Effects, Queueing, Handing, Marking, Settled, Closing, Polling, Carrying
<1>5. CASE Schedule(p)
  <2>1. pc[p] = "schedule" /\ pc'[p] = "idle" /\ UNCHANGED <<status, ledger>>
    BY <1>5, <1>a, MovesOnly DEF Schedule, serviceVars
  <2>2. AddPoll(o, 1)
    BY <1>5 DEF Schedule
  <2>3. \A q \in Queues : jobs[q] \subseteq jobs'[q]
    BY <1>a, <1>b, <2>1, <2>2, JobsGrow
  <2>4. Queueing(p, o)
    BY <2>1, <2>2, <2>3, Zenon DEF Queueing
  <2>5. QED
    BY <2>1, <2>4, <1>a DEF Effects, Handing, Marking, Settled, Closing, Polling, Carrying
<1>6. CASE PollRead(p)
  <2>1. \/ pc'[p] = "idle" /\ status[o] \in Terminal
        \/ pc'[p] = "pollQuery" /\ ctx'[p] = ctx[p]
    BY <1>6, <1>a, MovesOnly DEF PollRead
  <2>2. pc[p] = "pollRead" /\ UNCHANGED <<status, ledger, jobs, pollIds>>
    BY <1>6 DEF PollRead, serviceVars, queueVars
  <2>3. QED
    BY <2>1, <2>2, <1>a DEF Effects, Queueing, Handing, Marking, Settled, Closing, Polling, Carrying
<1>7. CASE PollQuery(p)
  <2>1. pc[p] = "pollQuery" /\ pc'[p] \in {"completeRead", "refundRead", "pollNext"} /\ ctx'[p] = ctx[p]
    BY <1>7, <1>a, MovesOnly DEF PollQuery
  <2>2. UNCHANGED <<status, ledger, jobs, pollIds>>
    BY <1>7, <1>a DEF PollQuery, RowsOK, serviceVars, queueVars
  <2>3. QED
    BY <2>1, <2>2, <1>a DEF Effects, Queueing, Handing, Marking, Settled, Closing, Polling, Carrying
<1>8. CASE PollNext(p)
  <2>1. pc[p] = "pollNext" /\ pc'[p] = "idle" /\ UNCHANGED <<status, ledger>>
    BY <1>8, <1>a, MovesOnly DEF PollNext, serviceVars
  <2>2. AddPoll(o, ctx[p].job.n + 1)
    BY <1>8 DEF PollNext
  <2>3. \A q \in Queues : jobs[q] \subseteq jobs'[q]
    BY <1>a, <1>b, <2>1, <2>2, JobsGrow
  <2>4. Queueing(p, o)
    BY <2>1, <2>2, <2>3, Zenon DEF Queueing
  <2>5. QED
    BY <2>1, <2>4, <1>a DEF Effects, Handing, Marking, Settled, Closing, Polling, Carrying
<1>9. CASE TopUpRead(p)
  <2>1. \/ pc'[p] = "idle" /\ status[o] \in Terminal
        \/ pc'[p] = "topUpResume" /\ status[o] = "FAILED"
        \/ pc'[p] = "topUpCall"
    BY <1>9, <1>a, MovesOnly DEF TopUpRead
  <2>2. pc[p] = "topUpRead" /\ UNCHANGED <<status, ledger, jobs, pollIds>>
    BY <1>9 DEF TopUpRead, serviceVars, queueVars
  <2>3. QED
    BY <2>1, <2>2, <1>a DEF Effects, Queueing, Handing, Marking, Settled, Closing, Polling, Carrying
<1>10. CASE TopUpResume(p)
  <2>1. pc[p] = "topUpResume" /\ pc'[p] = "topUpCall"
    BY <1>10, <1>a, MovesOnly DEF TopUpResume
  <2>2. status'[o] = "FULFILLING" /\ UNCHANGED <<ledger, jobs, pollIds>>
    BY <1>10, <1>a DEF TopUpResume, RowsOK, queueVars
  <2>3. QED
    BY <2>1, <2>2, <1>a DEF Effects, Queueing, Handing, Marking, Settled, Closing, Polling, Carrying
<1>11. CASE TopUpCall(p)
  <2>1. pc[p] = "topUpCall" /\ UNCHANGED <<status, ledger, pollIds>>
    BY <1>11 DEF TopUpCall
  <2>2. \/ pc'[p] \in {"completeTopUp", "refundRead"} /\ UNCHANGED jobs
        \/ Transient(p)
    BY <1>11, <1>a, MovesOnly DEF TopUpCall
  <2>3. /\ \A q \in Queues : jobs[q] \subseteq jobs'[q]
        /\ pc'[p] \in {"completeTopUp", "refundRead"} \/ (pc'[p] = "idle" /\ Waits(o)')
    BY <1>a, <1>b, <2>1, <2>2, JobsGrow, MovesOnly
  <2>4. QED
    BY <2>1, <2>3, <1>a DEF Effects, Queueing, Handing, Marking, Settled, Closing, Polling, Carrying
<1>12. QED
  BY <1>1, <1>2, <1>3, <1>4, <1>5, <1>6, <1>7, <1>8, <1>9, <1>10, <1>11
     DEF FulfilWorker, PollWorker, TopUpWorker

\* So every step of a process, as long as nothing fails and nothing is retried.
LEMMA StepEffects ==
  ASSUME SettleInv, NoRetry, NEW p \in Procs, Step(p), throws' = 0,
         NEW o \in Orders, o = OrderOf(p)
  PROVE  Effects(p, o)
<1>1. TypeOK /\ pc[p] \notin {"retryMark", "retryEnqueue"}
  BY DEF SettleInv, NoRetry
<1>2. "fulfil" \in Queues /\ "poll" \in Queues /\ "topup" \in Queues
  BY DEF Queues
<1>3. QED
  BY <1>1, <1>2, ServiceEffects, HandlerEffects, WorkerEffects DEF Step

-----------------------------------------------------------------------------
(* The invariant under the steps of a process                                *)

\* A busy process has its order, which it keeps until it ends.
LEMMA StepOrder ==
  ASSUME TypeOK, NEW p \in Procs, Step(p)
  PROVE  /\ OrderOf(p) \in Orders /\ Works(p, OrderOf(p))
         /\ pc'[p] # "idle" => OrderOf(p)' = OrderOf(p)
         /\ \A q \in Procs : q # p => pc'[q] = pc[q] /\ ctx'[q] = ctx[q] /\ OrderOf(q)' = OrderOf(q)
<1>1. pc[p] # "idle"
  BY DEF Step, Service, ServiceStep, CompleteRead, SaveProfile, MarkCompleted,
         AnnounceCompleted, CancelEsim, RevokeEsim, CompleteTopUpRead, MarkToppedUp,
         RefundRead, MarkFailed, CreditRefund, MarkRefunded, AnnounceFailed, FulfilWorker, PollWorker,
         TopUpWorker, FulfilRead, Resume, CreateOrder, SaveOrder, Schedule, PollRead,
         PollQuery, PollNext, TopUpRead, TopUpResume, TopUpCall, Checkout, Webhook, Request,
         Debit, MarkUnpaid, Start, Enqueue, HookLookup, HookQuery, HookMark, RefreshQuery,
         RetryMark, RetryEnqueue, SweepAdd
<1>2. OrderOf(p) \in Orders
  BY <1>1 DEF TypeOK, ProcsOK
<1>3. Stays(p)
  BY StepConfined DEF Confined
<1>4. QED
  BY <1>1, <1>2, <1>3 DEF Works, Stays, OnlyMoves, OrderOf

\* The other orders' rows, jobs and poll ids stay as they are.
LEMMA OtherRows ==
  ASSUME TypeOK, NEW p \in Procs, Step(p), NEW o \in Orders, o = OrderOf(p), Queueing(p, o),
         NEW x \in Orders, x # o
  PROVE  /\ status'[x] = status[x] /\ ledger'[x] = ledger[x] /\ supplier'[x] = supplier[x]
         /\ profile'[x] = profile[x] /\ pollIds'[x] = pollIds[x]
         /\ Settled(x)' <=> Settled(x)
         /\ Unheard(x) => Unheard(x)'
<1>1. Confined(p)
  BY StepConfined
<1>2. /\ status'[x] = status[x] /\ ledger'[x] = ledger[x] /\ supplier'[x] = supplier[x]
      /\ profile'[x] = profile[x]
  BY <1>1 DEF Confined, OwnRows
<1>3. pollIds'[x] = pollIds[x]
  <2>1. pollIds \in [Orders -> SUBSET Nat]
    BY DEF TypeOK, RowsOK
  <2>2. \A n : AddPoll(o, n) => pollIds'[x] = pollIds[x]
    BY <2>1 DEF AddPoll
  <2>3. QED
    BY <2>2 DEF Queueing
<1>4. \A q \in Queues : \A j \in jobs'[q] : j \in jobs[q] \/ j.order = o
  BY <1>1 DEF Confined, OwnJobs
<1>5. Unheard(x) => Unheard(x)'
  BY <1>2, <1>3, <1>4 DEF Unheard
<1>6. QED
  BY <1>2, <1>3, <1>5 DEF Settled

\* Checkout: an order is unheard of until its own request has marked it.
LEMMA StepCheckout ==
  ASSUME TypeOK, CheckoutOK, NEW p \in Procs, Step(p), NEW o \in Orders, o = OrderOf(p),
         Queueing(p, o), Marking(p, o)
  PROVE  CheckoutOK'
<1>a. /\ Works(p, o) /\ (pc'[p] # "idle" => OrderOf(p)' = o)
      /\ \A q \in Procs : q # p => pc'[q] = pc[q] /\ ctx'[q] = ctx[q] /\ OrderOf(q)' = OrderOf(q)
  BY StepOrder
<1>1. ASSUME NEW x \in Orders, status'[x] = "none"
      PROVE  Unheard(x)' /\ ledger'[x] = {} /\ \A q \in Procs : ~Works(q, x)'
  <2>1. status[o] # "none"
    BY <1>a DEF CheckoutOK
  <2>2. x # o
    BY <1>1, <2>1 DEF Marking
  <2>3. status[x] = "none" /\ ledger'[x] = ledger[x] /\ (Unheard(x) => Unheard(x)')
    BY <1>1, <2>2, OtherRows
  <2>4. Unheard(x) /\ ledger[x] = {} /\ \A q \in Procs : ~Works(q, x)
    BY <2>3 DEF CheckoutOK
  <2>5. QED
    BY <1>a, <2>2, <2>3, <2>4 DEF Works
<1>2. ASSUME NEW r \in Procs, pc'[r] \in {"debit", "markUnpaid", "start"}, NEW x, x = OrderOf(r)'
      PROVE  /\ Unheard(x)' /\ status'[x] = "PAID"
             /\ \A q \in Procs : Works(q, x)' => q = r
             /\ pc'[r] # "start" => ledger'[x] = {}
  <2>1. CASE r = p
    <3>1. x = o /\ pc[p] = "debit"
      BY <1>2, <1>a, <2>1 DEF Marking
    <3>2. /\ Unheard(o) /\ status[o] = "PAID" /\ ledger[o] = {}
          /\ \A q \in Procs : Works(q, o) => q = p
      BY <3>1 DEF CheckoutOK
    <3>3. /\ UNCHANGED <<status, supplier, profile, jobs, pollIds>>
          /\ pc'[p] # "start" => ledger' = ledger
      BY <1>2, <2>1 DEF Marking
    <3>4. Unheard(o)'
      BY <3>2, <3>3 DEF Unheard
    <3>5. \A q \in Procs : Works(q, o)' => q = p
      BY <1>a, <3>2 DEF Works
    <3>6. QED
      BY <2>1, <3>1, <3>2, <3>3, <3>4, <3>5
  <2>2. CASE r # p
    <3>1. pc[r] = pc'[r] /\ OrderOf(r) = x /\ pc[r] # "idle"
      BY <1>2, <1>a, <2>2
    <3>2. /\ x \in Orders /\ Unheard(x) /\ status[x] = "PAID"
          /\ \A q \in Procs : Works(q, x) => q = r
          /\ pc[r] # "start" => ledger[x] = {}
      BY <1>2, <3>1 DEF CheckoutOK, TypeOK, ProcsOK
    <3>3. x # o
      BY <1>a, <2>2, <3>2
    <3>4. status'[x] = status[x] /\ ledger'[x] = ledger[x] /\ Unheard(x)'
      BY <3>2, <3>3, OtherRows
    <3>5. \A q \in Procs : Works(q, x)' => q = r
      BY <1>a, <3>2, <3>3 DEF Works
    <3>6. QED
      BY <3>1, <3>2, <3>4, <3>5
  <2>3. QED
    BY <2>1, <2>2
<1>3. QED
  BY <1>1, <1>2 DEF CheckoutOK

\* What is being refunded is refunded in the end, or still on its way.
LEMMA StepRefunding ==
  ASSUME TypeOK, NEW p \in Procs, Step(p), NEW o \in Orders, o = OrderOf(p), Marking(p, o),
         NEW x \in Orders, Refunding(x)
  PROVE  Refunding(x)'
<1>1. ledger[x] \subseteq ledger'[x]
  BY StepConfined DEF Confined, OwnRows
<1>2. CASE "refund" \in ledger[x]
  BY <1>1, <1>2 DEF Refunding
<1>3. ASSUME NEW q \in Procs, pc[q] = "credit", OrderOf(q) = x PROVE Refunding(x)'
  <2>1. CASE q = p
    BY <1>3, <2>1 DEF Marking, Refunding
  <2>2. CASE q # p
    BY <1>3, <2>2, StepOrder DEF Refunding
  <2>3. QED
    BY <2>1, <2>2
<1>4. QED
  BY <1>2, <1>3 DEF Refunding

\* A charged order that reads FAILED is still on its way to a refund.
LEMMA StepRefund ==
  ASSUME TypeOK, ChargeOK, CheckoutOK, RefundOK, NEW p \in Procs, Step(p),
         NEW o \in Orders, o = OrderOf(p), Queueing(p, o), Marking(p, o)
  PROVE  RefundOK'
<1>a. /\ Works(p, o) /\ (pc'[p] # "idle" => OrderOf(p)' = o)
      /\ \A q \in Procs : q # p => pc'[q] = pc[q] /\ ctx'[q] = ctx[q] /\ OrderOf(q)' = OrderOf(q)
  BY StepOrder
<1>b. \A x \in Orders : Refunding(x) => Refunding(x)'
  BY StepRefunding
<1>1. ASSUME NEW x \in Orders, status'[x] = "FAILED", "charge" \in ledger'[x]
      PROVE  Refunding(x)'
  <2>1. CASE x # o
    <3>1. status[x] = "FAILED" /\ "charge" \in ledger[x]
      BY <1>1, <2>1, OtherRows
    <3>2. QED
      BY <1>b, <3>1 DEF RefundOK
  <2>2. CASE x = o
    <3>1. CASE pc'[p] = "credit"
      BY <1>a, <2>2, <3>1 DEF Refunding
    <3>2. CASE pc[p] = "markUnpaid"
      <4>1. ledger[o] = {} /\ pc'[p] # "start"
        BY <3>2 DEF CheckoutOK, Marking
      <4>2. QED
        BY <1>1, <2>2, <4>1 DEF Marking
    <3>3. CASE status[o] = "FAILED"
      <4>1. pc[p] # "debit"
        BY <3>3 DEF CheckoutOK
      <4>2. "charge" \in ledger[o]
        BY <1>1, <2>2, <4>1 DEF Marking
      <4>3. QED
        BY <1>b, <2>2, <3>3, <4>2 DEF RefundOK
    <3>4. QED
      BY <1>1, <2>2, <3>1, <3>2, <3>3 DEF Marking
  <2>3. QED
    BY <2>1, <2>2
<1>2. ASSUME NEW r \in Procs, pc'[r] \in {"resume", "topUpResume"}, NEW x, x = OrderOf(r)'
      PROVE  Refunding(x)'
  <2>1. CASE r = p
    <3>1. x = o /\ status[o] = "FAILED"
      BY <1>2, <1>a, <2>1 DEF Marking
    <3>2. pc[p] \notin {"debit", "markUnpaid"}
      BY <3>1 DEF CheckoutOK
    <3>3. "charge" \in ledger[o]
      BY <1>a, <3>2 DEF ChargeOK, Untouched, Works
    <3>4. QED
      BY <1>b, <3>1, <3>3 DEF RefundOK
  <2>2. CASE r # p
    <3>1. pc[r] \in {"resume", "topUpResume"} /\ OrderOf(r) = x
      BY <1>2, <1>a, <2>2
    <3>2. x \in Orders /\ Refunding(x)
      BY <3>1 DEF RefundOK, TypeOK, ProcsOK
    <3>3. QED
      BY <1>b, <3>2
  <2>3. QED
    BY <2>1, <2>2
<1>3. QED
  BY <1>1, <1>2 DEF RefundOK

\* A closed order stays closed, unless no poll of it was ever queued: what a
\* resumed job reopens is being refunded.
LEMMA StepClosed ==
  ASSUME TypeOK, CheckoutOK, RefundOK, NEW p \in Procs, Step(p), NEW o \in Orders,
         o = OrderOf(p), Effects(p, o), NEW x \in Orders, ClosedBy(x)
  PROVE  ClosedBy(x)' \/ pollIds'[x] = {}
<1>a. /\ Works(p, o) /\ (pc'[p] # "idle" => OrderOf(p)' = o)
      /\ \A q \in Procs : q # p => pc'[q] = pc[q] /\ ctx'[q] = ctx[q] /\ OrderOf(q)' = OrderOf(q)
  BY StepOrder
<1>b. Queueing(p, o) /\ Handing(p, o) /\ Marking(p, o)
  BY DEF Effects
<1>c. Closing(p)' => ClosedBy(o)'
  BY <1>a DEF ClosedBy, Closing
<1>1. ASSUME NEW q \in Procs, q # p, Closing(q), OrderOf(q) = x PROVE ClosedBy(x)'
  BY <1>1, <1>a DEF ClosedBy, Closing
<1>2. CASE x # o
  <2>1. Settled(x) => Settled(x)'
    BY <1>b, <1>2, OtherRows
  <2>2. QED
    BY <1>1, <1>2, <2>1 DEF ClosedBy
<1>3. CASE x = o
  <2>1. CASE Closing(p)
    BY <1>b, <1>c, <1>3, <2>1 DEF Handing, ClosedBy
  <2>2. CASE Settled(o)
    <3>1. CASE pc[p] \in {"markUnpaid", "start"}
      <4>1. pollIds[o] = {} /\ pollIds' = pollIds
        BY <1>b, <3>1 DEF CheckoutOK, Unheard, Queueing
      <4>2. QED
        BY <1>3, <4>1
    <3>2. CASE pc[p] \in {"resume", "topUpResume"}
      <4>1. Refunding(o)
        BY <3>2 DEF RefundOK
      <4>2. CASE "refund" \in ledger[o]
        <5>1. ledger[o] \subseteq ledger'[o]
          BY StepConfined DEF Confined, OwnRows
        <5>2. QED
          BY <1>3, <4>2, <5>1 DEF ClosedBy, Settled
      <4>3. ASSUME NEW q \in Procs, pc[q] = "credit", OrderOf(q) = o PROVE ClosedBy(o)'
        <5>1. q # p /\ Closing(q)
          BY <3>2, <4>3 DEF Closing
        <5>2. QED
          BY <1>1, <1>3, <4>3, <5>1
      <4>4. QED
        BY <1>3, <4>1, <4>2, <4>3 DEF Refunding
    <3>3. QED
      BY <1>b, <1>c, <1>3, <2>2, <3>1, <3>2 DEF Handing, ClosedBy
  <2>3. QED
    BY <1>1, <1>3, <2>1, <2>2 DEF ClosedBy
<1>4. QED
  BY <1>2, <1>3

\* The poll that is added, or the one that made it superfluous.
LEMMA AddedPoll ==
  ASSUME TypeOK, NEW o \in Orders, NEW n \in Nat, AddPoll(o, n)
  PROVE  /\ pollIds[o] \subseteq pollIds'[o] /\ pollIds'[o] \subseteq pollIds[o] \cup {n}
         /\ n \notin pollIds[o] => \E j \in jobs'["poll"] : j.order = o /\ j.n = n
<1>1. jobs \in [Queues -> SUBSET Job] /\ pollIds \in [Orders -> SUBSET Nat] /\ "poll" \in Queues
  BY DEF TypeOK, RowsOK, Queues
<1>2. CASE n \in pollIds[o]
  BY <1>2 DEF AddPoll
<1>3. CASE n \notin pollIds[o]
  <2>1. /\ jobs' = [jobs EXCEPT !["poll"] = @ \cup {[order |-> o, tag |-> 0, n |-> n]}]
        /\ pollIds' = [pollIds EXCEPT ![o] = @ \cup {n}]
    BY <1>3 DEF AddPoll
  <2>2. [order |-> o, tag |-> 0, n |-> n] \in jobs'["poll"]
    BY <1>1, <2>1
  <2>3. [order |-> o, tag |-> 0, n |-> n].order = o /\ [order |-> o, tag |-> 0, n |-> n].n = n
    OBVIOUS
  <2>4. pollIds'[o] = pollIds[o] \cup {n}
    BY <1>1, <2>1
  <2>5. QED
    BY <2>2, <2>3, <2>4
<1>4. QED
  BY <1>2, <1>3

\* Poll ids that Redis knows.
LEMMA StepPollIds ==
  ASSUME TypeOK, CheckoutOK, RefundOK, PollIdsOK, NEW p \in Procs, Step(p), NEW o \in Orders,
         o = OrderOf(p), Effects(p, o)
  PROVE  PollIdsOK'
<1>a. /\ Works(p, o) /\ (pc'[p] # "idle" => OrderOf(p)' = o)
      /\ \A q \in Procs : q # p => pc'[q] = pc[q] /\ ctx'[q] = ctx[q] /\ OrderOf(q)' = OrderOf(q)
  BY StepOrder
<1>b. Queueing(p, o) /\ Handing(p, o) /\ Marking(p, o)
  BY DEF Effects
<1>c. /\ "poll" \in Procs /\ "poll" \in Queues /\ jobs["poll"] \subseteq jobs'["poll"]
      /\ pollIds \in [Orders -> SUBSET Nat]
      /\ \A q \in Procs : ctx[q].job.n \in Nat
      /\ \A j \in jobs["poll"] : j.n \in Nat
  BY <1>b, ConstantsOK DEF Queueing, TypeOK, RowsOK, ProcsOK, Queues, CtxType, Job, NoJob
<1> SUFFICES ASSUME NEW x \in Orders, NEW n \in pollIds'[x], ~ClosedBy(x)'
             PROVE  Chained(x, n)'
  BY DEF PollIdsOK
<1>d. ~ClosedBy(x)
  BY StepClosed
<1>1. ASSUME n \in pollIds[x] PROVE Chained(x, n)'
  <2>1. Chained(x, n) /\ n \in Nat
    BY <1>1, <1>c, <1>d DEF PollIdsOK
  <2>2. ASSUME NEW j \in jobs["poll"], j.order = x, j.n >= n PROVE Chained(x, n)'
    BY <1>c, <2>2 DEF Chained
  <2>3. ASSUME Polling("poll"), OrderOf("poll") = x, ctx["poll"].job.n >= n PROVE Chained(x, n)'
    <3>1. CASE p # "poll"
      BY <1>a, <1>c, <2>3, <3>1 DEF Chained, Polling
    <3>2. CASE p = "poll"
      <4>1. x = o /\ ~Settled(o)' /\ ~Closing(p)'
        <5>1. x = o
          BY <2>3, <3>2
        <5>2. Closing(p)' => ClosedBy(o)'
          BY <1>a DEF ClosedBy, Closing
        <5>3. QED
          BY <5>1, <5>2 DEF ClosedBy
      <4>2. CASE Polling(p)' /\ ctx'[p].job = ctx[p].job
        BY <1>a, <2>3, <3>2, <4>1, <4>2 DEF Chained, Polling
      <4>3. CASE pc[p] = "pollNext"
        <5> DEFINE m == ctx[p].job.n
        <5>1. m \in Nat /\ m >= n /\ AddPoll(o, m + 1)
          BY <1>b, <1>c, <2>3, <3>2, <4>3 DEF Queueing
        <5>2. CASE m + 1 \in pollIds[o]
          <6>1. Chained(o, m + 1)
            BY <1>d, <4>1, <5>2 DEF PollIdsOK
          <6>2. ~(m >= m + 1)
            BY <5>1
          <6>3. PICK j \in jobs["poll"] : j.order = o /\ j.n >= m + 1
            BY <3>2, <6>1, <6>2 DEF Chained
          <6>4. j.n >= n
            BY <1>c, <2>1, <5>1, <6>3
          <6>5. QED
            BY <2>2, <4>1, <6>3, <6>4
        <5>3. CASE m + 1 \notin pollIds[o]
          <6>1. PICK j \in jobs'["poll"] : j.order = o /\ j.n = m + 1
            BY <5>1, <5>3, AddedPoll
          <6>2. j.n >= n
            BY <2>1, <5>1, <6>1
          <6>3. QED
            BY <4>1, <6>1, <6>2 DEF Chained
        <5>4. QED
          BY <5>2, <5>3
      <4>4. QED
        BY <1>b, <2>3, <3>2, <4>1, <4>2, <4>3 DEF Handing
    <3>3. QED
      BY <3>1, <3>2
  <2>4. QED
    BY <2>1, <2>2, <2>3 DEF Chained
<1>2. ASSUME n \notin pollIds[x] PROVE Chained(x, n)'
  <2>1. x = o
    BY <1>2, <1>b, OtherRows
  <2>2. PICK k \in Nat : AddPoll(o, k)
    <3>1. 1 \in Nat /\ ctx[p].job.n + 1 \in Nat
      BY <1>c
    <3>2. pollIds' # pollIds
      BY <1>2, <2>1
    <3>3. QED
      BY <1>b, <3>1, <3>2 DEF Queueing
  <2>3. n = k
    BY <1>2, <2>1, <2>2, AddedPoll
  <2>4. PICK j \in jobs'["poll"] : j.order = o /\ j.n = k
    BY <1>2, <2>1, <2>2, <2>3, AddedPoll
  <2>5. QED
    BY <2>1, <2>3, <2>4 DEF Chained
<1>3. QED
  BY <1>1, <1>2

\* Every charged order keeps a carrier.
LEMMA StepCarried ==
  ASSUME TypeOK, CheckoutOK, PollIdsOK, Carried, NEW p \in Procs, Step(p), NEW o \in Orders,
         o = OrderOf(p), Effects(p, o)
  PROVE  Carried'
<1>a. /\ Works(p, o) /\ (pc'[p] # "idle" => OrderOf(p)' = o)
      /\ \A q \in Procs : q # p => pc'[q] = pc[q] /\ ctx'[q] = ctx[q] /\ OrderOf(q)' = OrderOf(q)
  BY StepOrder
<1>b. Queueing(p, o) /\ Handing(p, o) /\ Marking(p, o)
  BY DEF Effects
<1> DEFINE InHand(x) == Settled(x) \/ Waits(x) \/ \E q \in Procs : Carrying(q) /\ OrderOf(q) = x
<1> SUFFICES ASSUME NEW x \in Orders, "charge" \in ledger'[x] PROVE InHand(x)'
  BY DEF Carried
<1>1. ASSUME NEW q \in Procs, q # p, Carrying(q), OrderOf(q) = x PROVE InHand(x)'
  BY <1>1, <1>a DEF Carrying, Closing, Polling
<1>2. Waits(x) => InHand(x)'
  BY <1>b DEF Waits, Queueing
<1>3. CASE x # o
  <2>1. "charge" \in ledger[x] /\ (Settled(x) => Settled(x)')
    BY <1>b, <1>3, OtherRows
  <2>2. QED
    BY <1>1, <1>2, <1>3, <2>1 DEF Carried
<1>4. CASE x = o
  <2>1. Carrying(p)' => InHand(x)'
    BY <1>a, <1>4 DEF Carrying, Closing, Polling
  <2>2. Closing(p)' => Carrying(p)'
    BY DEF Carrying
  <2>3. CASE pc'[p] = "start"
    BY <2>1, <2>3 DEF Carrying
  <2>4. CASE Settled(o) /\ "charge" \in ledger[o]
    <3>1. pc[p] # "markUnpaid"
      BY <2>4 DEF CheckoutOK
    <3>2. QED
      BY <1>4, <1>b, <2>1, <2>2, <2>4, <3>1 DEF Handing, Marking
  <2>5. CASE Carrying(p) /\ pc[p] \notin {"schedule", "pollNext"}
    BY <1>4, <1>b, <2>1, <2>5 DEF Handing
  <2>6. ASSUME Carrying(p), "charge" \in ledger[o], NEW k \in Nat, AddPoll(o, k),
               \/ pc[p] = "schedule"
               \/ pc[p] = "pollNext" /\ k = ctx[p].job.n + 1 /\ ctx[p].job.n \in Nat
        PROVE  InHand(x)'
    <3>1. CASE k \notin pollIds[o]
      <4>1. PICK j \in jobs'["poll"] : j.order = o /\ j.n = k
        BY <2>6, <3>1, AddedPoll
      <4>2. QED
        BY <1>4, <4>1 DEF Waits, Queues
    <3>2. CASE k \in pollIds[o]
      <4>1. ClosedBy(o) \/ Chained(o, k)
        BY <3>2 DEF PollIdsOK
      <4>2. ASSUME NEW q \in Procs, Closing(q), OrderOf(q) = o PROVE InHand(x)'
        <5>1. q # p /\ Carrying(q)
          BY <2>6, <4>2 DEF Closing, Carrying
        <5>2. QED
          BY <1>1, <1>4, <4>2, <5>1
      <4>3. ASSUME NEW j \in jobs["poll"], j.order = o PROVE InHand(x)'
        BY <1>2, <1>4, <4>3 DEF Waits, Queues
      <4>4. ASSUME Polling("poll"), OrderOf("poll") = o, ctx["poll"].job.n >= k PROVE InHand(x)'
        <5>1. p # "poll"
          BY <2>6, <4>4 DEF Polling
        <5>2. "poll" \in Procs
          BY ConstantsOK DEF Queues
        <5>3. QED
          BY <1>1, <1>4, <4>4, <5>1, <5>2 DEF Carrying
      <4>5. QED
        BY <2>4, <2>6, <4>1, <4>2, <4>3, <4>4 DEF ClosedBy, Chained
    <3>3. QED
      BY <3>1, <3>2
  <2>7. CASE pc[p] \in {"schedule", "pollNext"} /\ "charge" \in ledger[o]
    <3>1. ctx[p].job.n \in Nat /\ 1 \in Nat /\ ctx[p].job.n + 1 \in Nat
      BY DEF TypeOK, ProcsOK, CtxType, Job, NoJob
    <3>2. Carrying(p)
      BY <2>7 DEF Carrying, Polling
    <3>3. QED
      BY <1>b, <2>6, <2>7, <3>1, <3>2 DEF Queueing
  <2>8. CASE "charge" \in ledger[o]
    <3>1. InHand(o)
      BY <2>8 DEF Carried
    <3>2. QED
      BY <1>1, <1>2, <1>4, <2>4, <2>5, <2>7, <2>8, <3>1
  <2>9. QED
    BY <1>4, <1>b, <2>3, <2>8 DEF Marking
<1>5. QED
  BY <1>3, <1>4

\* The invariant through a step of a process.
LEMMA StepCarries ==
  ASSUME SettleInv, ChargeOK, CarryOK, NEW p \in Procs, Step(p), throws' = 0
  PROVE  CarryOK'
<1>a. TypeOK /\ CheckoutOK /\ NoRetry /\ RefundOK /\ PollIdsOK /\ Carried
  BY DEF SettleInv, CarryOK
<1>1. PICK o \in Orders : o = OrderOf(p)
  BY <1>a, StepOrder
<1>2. Effects(p, o) /\ Queueing(p, o) /\ Marking(p, o)
  BY <1>a, <1>1, StepEffects DEF Effects
<1>3. CheckoutOK' /\ RefundOK' /\ PollIdsOK' /\ Carried'
  BY <1>a, <1>1, <1>2, StepCheckout, StepRefund, StepPollIds, StepCarried
<1>4. NoRetry'
  <2>1. \A q \in Procs : q # p => pc'[q] = pc[q]
    BY <1>a, StepOrder
  <2>2. QED
    BY <1>a, <1>2, <2>1 DEF NoRetry, Marking
<1>5. QED
  BY <1>3, <1>4 DEF CarryOK

-----------------------------------------------------------------------------
(* The invariant under everything else                                       *)

\* A call that starts concerns an order that exists, and of one that is only
\* just being charged for, no other call starts.
LEMMA EntryStarts ==
  ASSUME TypeOK, NEW h \in Handlers, NEW x \in Orders, NEW t \in NoteTypes,
         Create(h, x) \/ Refresh(h, x) \/ Sweep(h, x) \/ HookBegin(h, x, t)
  PROVE  /\ UNCHANGED <<ledger, supplier, profile, jobs, pollIds>>
         /\ pc[h] = "idle" /\ OrderOf(h)' = x
         /\ pc'[h] \in {"debit", "refreshQuery", "sweepAdd", "hookLookup"}
         /\ \A q \in Procs : q # h => pc'[q] = pc[q] /\ ctx'[q] = ctx[q] /\ OrderOf(q)' = OrderOf(q)
         /\ IF pc'[h] = "debit"
            THEN status[x] = "none" /\ status' = [status EXCEPT ![x] = "PAID"]
            ELSE status' = status /\ ~(status[x] \in {"none", "PAID"} /\ Unheard(x))
<1>a. RowsOK /\ ProcsOK /\ h \in Procs
  BY ConstantsOK DEF TypeOK
<1>1. UNCHANGED <<ledger, supplier, profile, jobs, pollIds>> /\ pc[h] = "idle"
  BY DEF Create, Refresh, Sweep, HookBegin, Begin, serviceVars, queueVars
<1>2. PICK c : c.order = x /\ ctx' = [ctx EXCEPT ![h] = c]
  <2>1. CASE Create(h, x) \/ Refresh(h, x)
    BY <2>1, BeginCtx DEF Create, Refresh, Begin
  <2>2. CASE Sweep(h, x)
    <3>1. profile[x].ext \in BOOLEAN
      BY <1>a DEF RowsOK
    <3>2. QED
      BY ZenonT(40), <2>2, <3>1, BeginCtx DEF Sweep
  <2>3. CASE HookBegin(h, x, t)
    BY <2>3, BeginCtx DEF HookBegin
  <2>4. QED
    BY <2>1, <2>2, <2>3
<1>3. /\ OrderOf(h)' = x
      /\ \A q \in Procs : q # h => pc'[q] = pc[q] /\ ctx'[q] = ctx[q] /\ OrderOf(q)' = OrderOf(q)
  <2>1. PICK l : pc' = [pc EXCEPT ![h] = l]
    BY DEF Create, Refresh, Sweep, HookBegin, Begin
  <2>2. QED
    BY <1>a, <1>2, <2>1 DEF ProcsOK, OrderOf
<1>4. CASE Create(h, x)
  <2>1. pc'[h] = "debit"
    BY <1>4, <1>a DEF Create, Begin, ProcsOK
  <2>2. QED
    BY <1>1, <1>3, <1>4, <2>1 DEF Create
<1>5. CASE Refresh(h, x)
  <2>1. pc'[h] = "refreshQuery" /\ status' = status /\ ~Unheard(x)
    BY <1>5, <1>a DEF Refresh, Begin, ProcsOK, serviceVars, Unheard
  <2>2. QED
    BY <1>1, <1>3, <2>1
<1>6. CASE Sweep(h, x)
  <2>1. pc'[h] = "sweepAdd" /\ status' = status /\ status[x] = "FULFILLING"
    BY <1>6, <1>a DEF Sweep, ProcsOK, serviceVars
  <2>2. QED
    BY <1>1, <1>3, <2>1
<1>7. CASE HookBegin(h, x, t)
  <2>1. pc'[h] = "hookLookup" /\ status' = status /\ ~Unheard(x)
    BY <1>7, <1>a DEF HookBegin, ProcsOK, serviceVars, Unheard
  <2>2. QED
    BY <1>1, <1>3, <2>1
<1>8. QED
  BY <1>4, <1>5, <1>6, <1>7

\* Calls that start.
LEMMA EntryCarries ==
  ASSUME TypeOK, CarryOK, NEW h \in Handlers, NEW x \in Orders, NEW t \in NoteTypes,
         Create(h, x) \/ Refresh(h, x) \/ Sweep(h, x) \/ HookBegin(h, x, t)
  PROVE  CarryOK'
<1>a. RowsOK /\ ProcsOK /\ h \in Procs /\ "poll" \in Procs /\ h # "poll"
  BY ConstantsOK DEF TypeOK, Queues
<1>b. /\ UNCHANGED <<ledger, supplier, profile, jobs, pollIds>>
      /\ pc[h] = "idle" /\ OrderOf(h)' = x
      /\ pc'[h] \in {"debit", "refreshQuery", "sweepAdd", "hookLookup"}
      /\ \A q \in Procs : q # h => pc'[q] = pc[q] /\ ctx'[q] = ctx[q] /\ OrderOf(q)' = OrderOf(q)
  BY EntryStarts
<1>c. /\ pc'[h] = "debit" => status[x] = "none" /\ status' = [status EXCEPT ![x] = "PAID"]
      /\ pc'[h] # "debit" => status' = status /\ ~(status[x] \in {"none", "PAID"} /\ Unheard(x))
  BY EntryStarts
<1>d. /\ \A y \in Orders : status'[y] = status[y] \/ (y = x /\ status[y] = "none" /\ status'[y] = "PAID")
      /\ pc'[h] = "debit" => status'[x] = "PAID"
  BY <1>a, <1>c DEF RowsOK
<1>e. CheckoutOK /\ NoRetry /\ RefundOK /\ PollIdsOK /\ Carried
  BY DEF CarryOK
<1>1. CheckoutOK'
  <2>1. ASSUME NEW y \in Orders, status'[y] = "none"
        PROVE  Unheard(y)' /\ ledger'[y] = {} /\ \A q \in Procs : ~Works(q, y)'
    <3>1. status[y] = "none" /\ Unheard(y) /\ ledger[y] = {} /\ \A q \in Procs : ~Works(q, y)
      BY <1>d, <1>e, <2>1 DEF CheckoutOK
    <3>2. y # x
      BY <1>c, <1>d, <2>1, <3>1
    <3>3. QED
      BY <1>b, <3>1, <3>2 DEF Unheard, Works
  <2>2. ASSUME NEW r \in Procs, pc'[r] \in {"debit", "markUnpaid", "start"}, NEW y, y = OrderOf(r)'
        PROVE  /\ Unheard(y)' /\ status'[y] = "PAID"
               /\ \A q \in Procs : Works(q, y)' => q = r
               /\ pc'[r] # "start" => ledger'[y] = {}
    <3>1. CASE r = h
      <4>1. y = x /\ status[x] = "none" /\ status'[x] = "PAID"
        BY <1>b, <1>c, <1>d, <2>2, <3>1
      <4>2. Unheard(x) /\ ledger[x] = {} /\ \A q \in Procs : ~Works(q, x)
        BY <1>e, <4>1 DEF CheckoutOK
      <4>3. QED
        BY <1>b, <3>1, <4>1, <4>2 DEF Unheard, Works
    <3>2. CASE r # h
      <4>1. pc[r] \in {"debit", "markUnpaid", "start"} /\ OrderOf(r) = y /\ pc[r] = pc'[r]
        BY <1>b, <2>2, <3>2
      <4>2. /\ y \in Orders /\ Unheard(y) /\ status[y] = "PAID"
            /\ \A q \in Procs : Works(q, y) => q = r
            /\ pc[r] # "start" => ledger[y] = {}
        BY <1>a, <1>e, <4>1 DEF CheckoutOK, ProcsOK
      <4>3. y # x
        BY <1>c, <4>2
      <4>4. QED
        BY <1>b, <1>d, <4>1, <4>2, <4>3 DEF Unheard, Works
    <3>3. QED
      BY <3>1, <3>2
  <2>3. QED
    BY <2>1, <2>2 DEF CheckoutOK
<1>2. NoRetry'
  BY <1>b, <1>e DEF NoRetry
<1>3. \A y \in Orders : (Refunding(y) => Refunding(y)') /\ (Settled(y) => Settled(y)')
  BY <1>b, <1>d DEF Refunding, Settled
<1>4. RefundOK'
  <2>1. \A y \in Orders : status'[y] = "FAILED" /\ "charge" \in ledger'[y] => Refunding(y)'
    BY <1>b, <1>d, <1>e, <1>3 DEF RefundOK
  <2>2. ASSUME NEW r \in Procs, pc'[r] \in {"resume", "topUpResume"}, NEW y, y = OrderOf(r)'
        PROVE  Refunding(y)'
    <3>1. r # h /\ pc[r] \in {"resume", "topUpResume"} /\ OrderOf(r) = y
      BY <1>b, <2>2
    <3>2. y \in Orders /\ Refunding(y)
      BY <1>a, <1>e, <3>1 DEF RefundOK, ProcsOK
    <3>3. QED
      BY <1>3, <3>2
  <2>3. QED
    BY <2>1, <2>2 DEF RefundOK
<1>5. \A q \in Procs : /\ Closing(q) => Closing(q)' /\ OrderOf(q)' = OrderOf(q)
                       /\ Carrying(q) => Carrying(q)' /\ OrderOf(q)' = OrderOf(q)
  BY <1>b DEF Closing, Carrying, Polling
<1>6. \A y \in Orders : ClosedBy(y) => ClosedBy(y)'
  BY <1>3, <1>5 DEF ClosedBy
<1>7. PollIdsOK'
  <2>1. \A y \in Orders : \A n : Chained(y, n) => Chained(y, n)'
    BY <1>a, <1>b DEF Chained, Polling
  <2>2. QED
    BY <1>b, <1>e, <1>6, <2>1 DEF PollIdsOK
<1>8. Carried'
  BY <1>b, <1>e, <1>3, <1>5 DEF Carried, Waits
<1>9. QED
  BY <1>1, <1>2, <1>4, <1>7, <1>8 DEF CarryOK

\* A worker that takes a job carries its order on.
LEMMA TakeCarries ==
  ASSUME TypeOK, CarryOK, NEW w \in Queues, NEW j \in jobs[w], Take(w, j)
  PROVE  CarryOK'
<1>a. RowsOK /\ ProcsOK /\ w \in Procs /\ j \in Job /\ "poll" \in Procs /\ "poll" \in Queues
  BY ConstantsOK DEF TypeOK, RowsOK, Queues
<1>b. /\ UNCHANGED <<status, ledger, supplier, profile, pollIds>>
      /\ pc[w] = "idle" /\ pc' = [pc EXCEPT ![w] = FirstLabel[w]]
      /\ ctx' = [ctx EXCEPT ![w] = [NoCtx EXCEPT !.order = j.order, !.job = j]]
      /\ jobs' = [jobs EXCEPT ![w] = @ \ {j}]
  BY DEF Take, serviceVars
<1>c. /\ pc'[w] = FirstLabel[w] /\ OrderOf(w)' = j.order /\ ctx'[w].job = j
      /\ \A q \in Procs : q # w => pc'[q] = pc[q] /\ ctx'[q] = ctx[q] /\ OrderOf(q)' = OrderOf(q)
  <2>1. [NoCtx EXCEPT !.order = j.order, !.job = j].order = j.order
        /\ [NoCtx EXCEPT !.order = j.order, !.job = j].job = j
    BY DEF NoCtx
  <2>2. QED
    BY <1>a, <1>b, <2>1 DEF ProcsOK, OrderOf
<1>d. /\ FirstLabel[w] \in {"fulfilRead", "pollRead", "topUpRead"}
      /\ w = "poll" <=> FirstLabel[w] = "pollRead"
  BY DEF FirstLabel, Queues
<1>e. CheckoutOK /\ NoRetry /\ RefundOK /\ PollIdsOK /\ Carried
  BY DEF CarryOK
<1>f. /\ \A q \in Queues : jobs'[q] \subseteq jobs[q]
      /\ \A q \in Queues : \A k \in jobs[q] : k \in jobs'[q] \/ (q = w /\ k = j)
  BY <1>a, <1>b DEF RowsOK
<1>g. \A q \in Procs : /\ Closing(q) => Closing(q)' /\ OrderOf(q)' = OrderOf(q)
                       /\ Carrying(q) => Carrying(q)' /\ OrderOf(q)' = OrderOf(q)
  BY <1>b, <1>c DEF Closing, Carrying, Polling
<1>h. Carrying(w)'
  BY <1>c, <1>d DEF Carrying, Polling
<1>1. CheckoutOK'
  <2>1. \A y \in Orders : Unheard(y) => Unheard(y)' /\ y # j.order
    BY <1>b, <1>f DEF Unheard
  <2>2. ASSUME NEW y \in Orders, status'[y] = "none"
        PROVE  Unheard(y)' /\ ledger'[y] = {} /\ \A q \in Procs : ~Works(q, y)'
    <3>1. status[y] = "none" /\ Unheard(y) /\ ledger[y] = {} /\ \A q \in Procs : ~Works(q, y)
      BY <1>b, <1>e, <2>2 DEF CheckoutOK
    <3>2. QED
      BY <1>b, <1>c, <2>1, <3>1 DEF Works
  <2>3. ASSUME NEW r \in Procs, pc'[r] \in {"debit", "markUnpaid", "start"}, NEW y, y = OrderOf(r)'
        PROVE  /\ Unheard(y)' /\ status'[y] = "PAID"
               /\ \A q \in Procs : Works(q, y)' => q = r
               /\ pc'[r] # "start" => ledger'[y] = {}
    <3>1. r # w /\ pc[r] \in {"debit", "markUnpaid", "start"} /\ OrderOf(r) = y /\ pc[r] = pc'[r]
      BY <1>c, <1>d, <2>3
    <3>2. /\ y \in Orders /\ Unheard(y) /\ status[y] = "PAID"
          /\ \A q \in Procs : Works(q, y) => q = r
          /\ pc[r] # "start" => ledger[y] = {}
      BY <1>a, <1>e, <3>1 DEF CheckoutOK, ProcsOK
    <3>3. QED
      BY <1>b, <1>c, <2>1, <3>1, <3>2 DEF Works
  <2>4. QED
    BY <2>2, <2>3 DEF CheckoutOK
<1>2. NoRetry'
  BY <1>c, <1>d, <1>e DEF NoRetry
<1>3. \A y \in Orders : (Refunding(y) => Refunding(y)') /\ (Settled(y) => Settled(y)')
  BY <1>b, <1>c DEF Refunding, Settled
<1>4. RefundOK'
  <2>1. \A y \in Orders : status'[y] = "FAILED" /\ "charge" \in ledger'[y] => Refunding(y)'
    BY <1>b, <1>e, <1>3 DEF RefundOK
  <2>2. ASSUME NEW r \in Procs, pc'[r] \in {"resume", "topUpResume"}, NEW y, y = OrderOf(r)'
        PROVE  Refunding(y)'
    <3>1. r # w /\ pc[r] \in {"resume", "topUpResume"} /\ OrderOf(r) = y
      BY <1>c, <1>d, <2>2
    <3>2. y \in Orders /\ Refunding(y)
      BY <1>a, <1>e, <3>1 DEF RefundOK, ProcsOK
    <3>3. QED
      BY <1>3, <3>2
  <2>3. QED
    BY <2>1, <2>2 DEF RefundOK
<1>5. PollIdsOK'
  <2>1. \A y \in Orders : ClosedBy(y) => ClosedBy(y)'
    BY <1>3, <1>g DEF ClosedBy
  <2>2. ASSUME NEW y \in Orders, NEW n, Chained(y, n) PROVE Chained(y, n)'
    <3>1. ASSUME NEW k \in jobs["poll"], k.order = y, k.n >= n PROVE Chained(y, n)'
      <4>1. CASE k \in jobs'["poll"]
        BY <3>1, <4>1 DEF Chained
      <4>2. CASE k = j /\ w = "poll"
        BY <1>c, <1>d, <3>1, <4>2 DEF Chained, Polling
      <4>3. QED
        BY <1>a, <1>f, <4>1, <4>2
    <3>2. ASSUME Polling("poll"), OrderOf("poll") = y, ctx["poll"].job.n >= n PROVE Chained(y, n)'
      <4>1. "poll" # w
        BY <1>b, <3>2 DEF Polling
      <4>2. QED
        BY <1>a, <1>c, <3>2, <4>1 DEF Chained, Polling
    <3>3. QED
      BY <2>2, <3>1, <3>2 DEF Chained
  <2>3. QED
    BY <1>b, <1>e, <2>1, <2>2 DEF PollIdsOK
<1>6. Carried'
  <2> SUFFICES ASSUME NEW y \in Orders, "charge" \in ledger'[y]
               PROVE  Settled(y)' \/ Waits(y)' \/ \E q \in Procs : Carrying(q)' /\ OrderOf(q)' = y
    BY DEF Carried
  <2>1. ASSUME NEW q \in Queues, NEW k \in jobs[q], k.order = y
        PROVE  Waits(y)' \/ \E r \in Procs : Carrying(r)' /\ OrderOf(r)' = y
    <3>1. CASE k \in jobs'[q]
      BY <2>1, <3>1 DEF Waits
    <3>2. CASE q = w /\ k = j
      BY <1>a, <1>c, <1>h, <2>1, <3>2
    <3>3. QED
      BY <1>f, <3>1, <3>2
  <2>2. Settled(y) \/ Waits(y) \/ \E q \in Procs : Carrying(q) /\ OrderOf(q) = y
    BY <1>b, <1>e DEF Carried
  <2>3. QED
    BY <1>3, <1>g, <2>1, <2>2 DEF Waits
<1>7. QED
  BY <1>1, <1>2, <1>4, <1>5, <1>6 DEF CarryOK

\* The supplier allocates, Redis forgets a finished poll.
LEMMA WorldCarries ==
  ASSUME TypeOK, CarryOK,
         UNCHANGED <<status, ledger, profile, jobs, pc, ctx>>,
         \/ \E o \in Purchases : Allocate(o) \/ \E n \in 1..MaxPolls : EvictPollId(o, n)
         \/ UNCHANGED vars
  PROVE  CarryOK'
<1>a. RowsOK /\ ProcsOK
  BY DEF TypeOK
<1>1. \A y \in Orders : pollIds'[y] \subseteq pollIds[y]
  <2>1. pollIds \in [Orders -> SUBSET Nat]
    BY <1>a DEF RowsOK
  <2>2. \/ pollIds' = pollIds
        \/ \E o \in Purchases, n \in Nat : pollIds' = [pollIds EXCEPT ![o] = @ \ {n}]
    <3>1. CASE (\E o \in Purchases : Allocate(o)) \/ UNCHANGED vars
      BY <3>1 DEF Allocate, vars, queueVars
    <3>2. ASSUME NEW o \in Purchases, NEW n \in 1..MaxPolls, EvictPollId(o, n)
          PROVE  \E x \in Purchases, m \in Nat : pollIds' = [pollIds EXCEPT ![x] = @ \ {m}]
      <4>1. n \in Nat /\ pollIds' = [pollIds EXCEPT ![o] = @ \ {n}]
        BY <3>2 DEF EvictPollId
      <4>2. QED
        BY <4>1
    <3>3. QED
      BY <3>1, <3>2
  <2>3. QED
    BY <2>1, <2>2
<1>2. \A y \in Orders : supplier[y] = "none" => supplier'[y] = "none"
  BY <1>a DEF Allocate, EvictPollId, vars, serviceVars, RowsOK
<1>3. \A y \in Orders : Unheard(y) => Unheard(y)'
  BY <1>1, <1>2 DEF Unheard
<1>4. CheckoutOK /\ NoRetry /\ RefundOK /\ PollIdsOK /\ Carried
  BY DEF CarryOK
<1>5. CheckoutOK'
  <2>1. \A r \in Procs : pc[r] # "idle" => OrderOf(r) \in Orders
    BY <1>a DEF ProcsOK
  <2>2. \A y \in Orders : status'[y] = "none" =>
          Unheard(y)' /\ ledger'[y] = {} /\ \A q \in Procs : ~Works(q, y)'
    BY <1>3, <1>4 DEF CheckoutOK, Works, OrderOf
  <2>3. ASSUME NEW r \in Procs, pc'[r] \in {"debit", "markUnpaid", "start"}, NEW y, y = OrderOf(r)'
        PROVE  /\ Unheard(y)' /\ status'[y] = "PAID"
               /\ \A q \in Procs : Works(q, y)' => q = r
               /\ pc'[r] # "start" => ledger'[y] = {}
    <3>1. y = OrderOf(r) /\ pc[r] \in {"debit", "markUnpaid", "start"} /\ y \in Orders
      BY <2>1, <2>3 DEF OrderOf
    <3>2. QED
      BY <1>3, <1>4, <3>1 DEF CheckoutOK, Works, OrderOf
  <2>4. QED
    BY <2>2, <2>3 DEF CheckoutOK
<1>6. NoRetry' /\ RefundOK'
  BY <1>4 DEF NoRetry, RefundOK, Refunding, OrderOf
<1>7. PollIdsOK'
  BY <1>1, <1>4 DEF PollIdsOK, ClosedBy, Settled, Closing, Chained, Polling, OrderOf
<1>8. Carried'
  BY <1>4 DEF Carried, Settled, Waits, Carrying, Closing, Polling, OrderOf
<1>9. QED
  BY <1>5, <1>6, <1>7, <1>8 DEF CarryOK

\* A step of a process uses up no bound but that on failing calls.
LEMMA StepBudgets ==
  ASSUME TypeOK, NEW p \in Procs, Step(p)
  PROVE  /\ retries' = retries /\ crashes' = crashes /\ throws' \in {throws, throws + 1}
         /\ astray' = astray
<1>1. CASE Service(p)
  BY <1>1 DEF Service, budgets
<1>2. CASE FulfilWorker(p) \/ PollWorker(p) \/ TopUpWorker(p)
  BY <1>2 DEF FulfilWorker, PollWorker, TopUpWorker, budgets, FulfilRead, Resume, CreateOrder,
         SaveOrder, Schedule, PollRead, PollQuery, PollNext, TopUpRead, TopUpResume, TopUpCall
<1>3. CASE Checkout(p) \/ Webhook(p) \/ Request(p)
  BY <1>3 DEF Checkout, Webhook, Request, budgets, Debit, MarkUnpaid, Start, Enqueue, HookLookup,
         HookQuery, HookMark, RefreshQuery, RetryMark, RetryEnqueue, SweepAdd
<1>4. QED
  BY <1>1, <1>2, <1>3 DEF Step

\* As long as nothing fails, restarts or is retried by hand, every charged order
\* is settled or has a carrier.
LEMMA CarryInvHolds == Spec => []CarryInv
<1>1. Init /\ SettleInv /\ ChargeInv => CarryInv
  <2> SUFFICES ASSUME Init, SettleInv, ChargeInv PROVE CarryInv
    OBVIOUS
  <2>1. \A p \in Procs : pc[p] = "idle"
    BY DEF Init
  <2>2. \A o \in Orders : Unheard(o) /\ ledger[o] = {} /\ pollIds[o] = {} /\ status[o] = "none"
    BY DEF Init, Unheard
  <2>3. CheckoutOK /\ NoRetry /\ RefundOK /\ PollIdsOK /\ Carried
    BY <2>1, <2>2 DEF CheckoutOK, Works, NoRetry, RefundOK, PollIdsOK, Carried
  <2>4. QED
    BY <2>3 DEF CarryInv, CarryOK
<1>2. CarryInv /\ SettleInv' /\ ChargeInv' /\ [Next]_vars => CarryInv'
  <2> SUFFICES ASSUME CarryInv, [Next]_vars, Undisturbed' PROVE CarryOK'
    BY DEF CarryInv
  <2>0. TypeOK /\ RowsOK /\ retries \in Nat /\ throws \in Nat /\ crashes \in Nat
    BY DEF CarryInv, ChargeInv, TypeOK, RowsOK
  <2>1. ASSUME Undisturbed PROVE SettleInv /\ ChargeOK /\ CarryOK
    BY <2>1 DEF CarryInv, ChargeInv, Undisturbed
  <2>2. ASSUME NEW p \in Procs, Step(p) PROVE CarryOK'
    <3>1. Undisturbed /\ throws' = 0
      BY <2>0, <2>2, StepBudgets DEF Undisturbed
    <3>2. QED
      BY <2>1, <2>2, <3>1, StepCarries
  <2>3. ASSUME NEW p \in Procs PROVE ~Throw(p)
    BY <2>0 DEF Throw, Undisturbed
  <2>4. ASSUME NEW h \in Handlers, NEW o \in Orders PROVE ~Retry(h, o)
    BY <2>0 DEF Retry, Undisturbed
  <2>5. ~Crash
    BY <2>0 DEF Crash, Undisturbed
  <2>6. ASSUME NEW h \in Handlers, NEW o \in Orders,
               Create(h, o) \/ Refresh(h, o) \/ Sweep(h, o)
        PROVE  CarryOK'
    <3>1. Undisturbed
      BY <2>6 DEF Create, Refresh, Sweep, budgets, Undisturbed
    <3>2. "ORDER_STATUS" \in NoteTypes
      BY DEF NoteTypes
    <3>3. QED
      BY <2>0, <2>1, <2>6, <3>1, <3>2, EntryCarries
  <2>7. ASSUME NEW h \in Handlers, NEW o \in Purchases, NEW t \in NoteTypes, HookBegin(h, o, t)
        PROVE  CarryOK'
    <3>1. Undisturbed
      BY <2>7 DEF HookBegin, budgets, Undisturbed
    <3>2. QED
      BY <2>0, <2>1, <2>7, <3>1, EntryCarries, ConstantsOK
  <2>8. ASSUME NEW q \in Queues, NEW j \in jobs[q], Take(q, j) PROVE CarryOK'
    <3>1. Undisturbed
      BY <2>8 DEF Take, budgets, Undisturbed
    <3>2. QED
      BY <2>0, <2>1, <2>8, <3>1, TakeCarries
  <2>9. CASE \/ \E o \in Purchases : Allocate(o) \/ \E n \in 1..MaxPolls : EvictPollId(o, n)
             \/ UNCHANGED vars
    <3>1. Undisturbed /\ UNCHANGED <<status, ledger, profile, jobs, pc, ctx>>
      BY <2>9 DEF Allocate, EvictPollId, vars, serviceVars, queueVars, procVars, budgets, Undisturbed
    <3>2. QED
      BY <2>0, <2>1, <2>9, <3>1, WorldCarries
  <2>10. QED
    BY <2>2, <2>3, <2>4, <2>5, <2>6, <2>7, <2>8, <2>9 DEF Next
<1>3. QED
  BY <1>1, <1>2, SettleInvHolds, ChargeInvHolds, PTL DEF Spec

\* As long as nothing fails, restarts or is retried by hand, no charged order is
\* lost, however checkouts, workers, webhooks, refreshes and sweeps overlap: when
\* nothing runs and no job waits, it is COMPLETED or refunded.
THEOREM NoneIsLost == Spec => []QuietMeansSettled
<1>1. CarryInv => QuietMeansSettled
  <2> SUFFICES ASSUME CarryInv, Quiet, Undisturbed, NEW o \in Orders, "charge" \in ledger[o]
               PROVE  Settled(o)
    BY DEF QuietMeansSettled
  <2>1. \A p \in Procs : ~Carrying(p)
    BY DEF Quiet, Carrying, Closing, Polling
  <2>2. ~Waits(o)
    BY DEF Quiet, Waits
  <2>3. QED
    BY <2>1, <2>2 DEF CarryInv, CarryOK, Carried
<1>2. QED
  BY <1>1, CarryInvHolds, PTL
-----------------------------------------------------------------------------
(* Top-ups, with failures, crashes, retries and the sweep.  Unless it went    *)
(* astray, a top-up is in one place only, its checkout request, its one job or *)
(* the top-up worker, or in none; and where it is says what may still become  *)
(* of it, also after the call there has failed: that is the invariant.        *)

Regular == TopUps \ astray

\* Marked, not yet confirmed by the supplier and not refunded.
OpenTopUp(t) == status[t] = "FULFILLING" /\ supplier[t] # "confirmed" /\ "refund" \notin ledger[t]

\* Closed unconfirmed.
ShutTopUp(t) == status[t] = "REFUNDED" /\ supplier[t] # "confirmed"

\* What each place promises.
AtCheckout(p, t) ==
  \/ /\ pc[p] \in {"debit", "markUnpaid", "start"}
     /\ status[t] = "PAID" /\ supplier[t] = "none" /\ "refund" \notin ledger[t]
  \/ pc[p] = "enqueue" /\ OpenTopUp(t)

AtWorker(p, t) ==
  \/ pc[p] = "topUpRead" /\ (OpenTopUp(t) \/ ShutTopUp(t))
  \/ pc[p] \in {"topUpCall", "refundRead", "markFailed"} /\ OpenTopUp(t)
  \/ pc[p] \in {"completeTopUp", "markToppedUp"} /\ status[t] = "FULFILLING" /\ "refund" \notin ledger[t]
  \/ pc[p] \in {"credit", "markRefunded"} /\ status[t] = "FAILED" /\ supplier[t] # "confirmed"
  \/ pc[p] = "announceFailed" /\ ShutTopUp(t)

TopUpAt(p, t) == (p \in Handlers /\ AtCheckout(p, t)) \/ (p = "topup" /\ AtWorker(p, t))

TopUpRow(t) ==
  /\ supplier[t] \in {"none", "applied", "confirmed"}
  /\ ~(supplier[t] = "confirmed" /\ "refund" \in ledger[t])
  /\ status[t] = "none" => supplier[t] = "none" /\ "refund" \notin ledger[t]

TopUpJobs(t) ==
  \A q \in Queues : \A j \in jobs[q] : j.order = t =>
    /\ q = "topup" /\ (OpenTopUp(t) \/ ShutTopUp(t))
    /\ \A k \in jobs[q] : k.order = t => k = j
    /\ \A p \in Procs : ~Works(p, t)

TopUpProcs(t) ==
  \A p \in Procs : Works(p, t) =>
    /\ TopUpAt(p, t) /\ ctx[p].note = "none"
    /\ \A r \in Procs : Works(r, t) => r = p

TopUpOK(t) == TopUpRow(t) /\ TopUpJobs(t) /\ TopUpProcs(t)

InFlight == {"PAID", "FULFILLING"}
OneInFlight == \A s, t \in Regular : status[s] \in InFlight /\ status[t] \in InFlight => s = t

TopUpInv == SettleInv /\ OneInFlight /\ \A t \in Regular : TopUpOK(t)

\* What the process that has the top-up leaves: itself at the next place, or
\* nobody and at most one job.
Leaves(p, t) ==
  /\ TopUpRow(t)'
  /\ status'[t] \in InFlight => status[t] \in InFlight
  /\ pc'[p] # "idle" => TopUpAt(p, t)' /\ ctx'[p] = ctx[p] /\ UNCHANGED jobs
  /\ \/ UNCHANGED jobs
     \/ /\ OpenTopUp(t)' \/ ShutTopUp(t)'
        /\ \E j : jobs' = [jobs EXCEPT !["topup"] = @ \cup {j}]

\* A step that fails, or goes on, finds its process busy with its order.
LEMMA BusyOrder ==
  ASSUME TypeOK, NEW p \in Procs, Step(p) \/ Throw(p)
  PROVE  OrderOf(p) \in Orders /\ Works(p, OrderOf(p)) /\ astray \subseteq astray'
<1>1. CASE Step(p)
  BY <1>1, StepOrder, StepBudgets
<1>2. CASE Throw(p)
  BY <1>2 DEF Throw, TypeOK, ProcsOK, Works
<1>3. QED
  BY <1>1, <1>2

\* The steps of the checkout request that has the top-up.
LEMMA CheckoutLeaves ==
  ASSUME TypeOK, NEW p \in Handlers, Step(p) \/ Throw(p), NEW t \in TopUps, t = OrderOf(p),
         Works(p, t), TopUpOK(t)
  PROVE  Leaves(p, t)
<1>a. /\ RowsOK /\ ProcsOK /\ t \in Orders /\ p \in Procs /\ p # "topup" /\ p \notin Queues
      /\ ctx[p].note = "none" /\ TopUpRow(t) /\ AtCheckout(p, t)
  <2>1. p \in Procs /\ p \notin Queues /\ t \in Orders
    BY ConstantsOK
  <2>2. "topup" \in Queues
    BY DEF Queues
  <2>3. QED
    BY <2>1, <2>2 DEF TypeOK, TopUpOK, TopUpProcs, TopUpAt
<1>b. /\ \A l : Goto(p, l) => pc'[p] = l
      /\ \A l : Goto(p, l) /\ UNCHANGED ctx => ctx'[p] = ctx[p]
      /\ Finish(p) => pc'[p] = "idle"
  BY <1>a, MovesOnly
<1>c. pc[p] \in {"debit", "markUnpaid", "start", "enqueue"}
  BY <1>a DEF AtCheckout
<1>1. CASE MarkUnpaid(p)
  <2>1. pc[p] = "markUnpaid" /\ pc'[p] = "idle"
    BY <1>1, <1>a, <1>b DEF MarkUnpaid
  <2>2. status'[t] = "FAILED" /\ UNCHANGED <<ledger, supplier, jobs>>
    BY <1>1, <1>a DEF MarkUnpaid, RowsOK, queueVars
  <2>3. QED
    BY <2>1, <2>2, <1>a DEF Leaves, TopUpRow, InFlight
<1>2. CASE Start(p)
  <2>1. pc[p] = "start" /\ pc'[p] = "enqueue" /\ ctx'[p] = ctx[p]
    BY <1>2, <1>a, <1>b DEF Start
  <2>2. status'[t] = "FULFILLING" /\ UNCHANGED <<ledger, supplier, jobs>>
    BY <1>2, <1>a DEF Start, RowsOK, queueVars
  <2>3. QED
    BY <2>1, <2>2, <1>a DEF Leaves, TopUpRow, TopUpAt, AtCheckout, OpenTopUp, InFlight
<1>3. CASE Debit(p)
  <2>1. /\ pc[p] = "debit" /\ pc'[p] \in {"start", "markUnpaid"} /\ ctx'[p] = ctx[p]
        /\ UNCHANGED <<status, supplier, jobs>>
    BY <1>3, <1>a, <1>b DEF Debit, queueVars
  <2>2. "refund" \notin ledger'[t]
    BY <1>3, <1>a, <2>1 DEF Debit, RowsOK, AtCheckout
  <2>3. QED
    BY <2>1, <2>2, <1>a DEF Leaves, TopUpRow, TopUpAt, AtCheckout, OpenTopUp, InFlight
<1>4. CASE Enqueue(p)
  <2>1. /\ pc[p] = "enqueue" /\ pc'[p] = "idle" /\ UNCHANGED <<status, ledger, supplier>>
        /\ \E j : jobs' = [jobs EXCEPT !["topup"] = @ \cup {j}]
    BY <1>4, <1>a, <1>b DEF Enqueue, serviceVars
  <2>2. QED
    BY <2>1, <1>a DEF Leaves, TopUpRow, AtCheckout, OpenTopUp, ShutTopUp, InFlight
<1>5. CASE Throw(p)
  <2>1. pc'[p] = "idle" /\ UNCHANGED <<status, ledger, supplier, jobs>>
    BY <1>5, <1>a, <1>b DEF Throw, Queues, serviceVars
  <2>2. QED
    BY <2>1, <1>a DEF Leaves, TopUpRow, InFlight
<1>6. QED
  <2>1. ~Service(p)
    BY <1>c DEF Service, ServiceStep, CompleteRead, SaveProfile, MarkCompleted, AnnounceCompleted,
       CancelEsim, RevokeEsim, CompleteTopUpRead, MarkToppedUp, RefundRead, MarkFailed,
       CreditRefund, MarkRefunded, AnnounceFailed
  <2>2. ~Webhook(p) /\ ~Request(p)
    BY <1>c DEF Webhook, Request, HookLookup, HookQuery, HookMark, RefreshQuery, RetryMark,
       RetryEnqueue, SweepAdd
  <2>3. QED
    BY <1>a, <2>1, <2>2, <1>1, <1>2, <1>3, <1>4, <1>5 DEF Step, Checkout, Queues

\* The steps of the top-up worker that has the top-up, unless it is cut off.
LEMMA WorkerLeaves ==
  ASSUME TypeOK, NEW p \in Procs, p = "topup", Step(p) \/ Throw(p),
         NEW t \in TopUps, t = OrderOf(p), Works(p, t), TopUpOK(t), t \notin astray'
  PROVE  Leaves(p, t)
<1>a. /\ RowsOK /\ ProcsOK /\ t \in Orders /\ Terminal = {"COMPLETED", "REFUNDED"}
      /\ ctx[p].note = "none" /\ TopUpRow(t) /\ AtWorker(p, t) /\ p \notin Handlers
  <2>1. "topup" \in Queues
    BY DEF Queues
  <2>2. QED
    BY <2>1, ConstantsOK DEF TypeOK, Terminal, TopUpOK, TopUpProcs, TopUpAt
<1>b. /\ \A l : Goto(p, l) => pc'[p] = l
      /\ \A l : Goto(p, l) /\ UNCHANGED ctx => ctx'[p] = ctx[p]
      /\ Finish(p) => pc'[p] = "idle"
      /\ Return(p) => pc'[p] = "idle"
  <2>1. Return(p) <=> Finish(p)
    BY <1>a DEF Return
  <2>2. QED
    BY <1>a, <2>1, MovesOnly
<1>c. Requeue(p) => pc'[p] = "idle" /\ \E j : jobs' = [jobs EXCEPT !["topup"] = @ \cup {j}]
  BY <1>b DEF Requeue
<1>d. pc[p] \in {"topUpRead", "topUpCall", "refundRead", "markFailed", "completeTopUp",
                 "markToppedUp", "credit", "markRefunded", "announceFailed"}
  BY <1>a DEF AtWorker
<1>1. CASE TopUpRead(p)
  <2>1. pc[p] = "topUpRead" /\ UNCHANGED <<status, ledger, supplier, jobs>>
    BY <1>1 DEF TopUpRead, serviceVars, queueVars
  <2>2. CASE OpenTopUp(t)
    <3>1. pc'[p] = "topUpCall" /\ ctx'[p] = ctx[p]
      BY <1>1, <1>a, <1>b, <2>2 DEF TopUpRead, OpenTopUp
    <3>2. QED
      BY <2>1, <2>2, <3>1, <1>a DEF Leaves, TopUpRow, TopUpAt, AtWorker, OpenTopUp, InFlight
  <2>3. CASE ShutTopUp(t)
    <3>1. pc'[p] = "idle"
      BY <1>1, <1>a, <1>b, <2>3 DEF TopUpRead, ShutTopUp
    <3>2. QED
      BY <2>1, <3>1, <1>a DEF Leaves, TopUpRow, InFlight
  <2>4. QED
    BY <1>a, <2>1, <2>2, <2>3 DEF AtWorker
<1>2. CASE CompleteTopUpRead(p)
  <2>1. pc[p] = "completeTopUp" /\ pc'[p] = "markToppedUp" /\ ctx'[p] = ctx[p]
    BY <1>2, <1>a, <1>b DEF CompleteTopUpRead, AtWorker
  <2>2. UNCHANGED <<status, ledger, supplier, jobs>>
    BY <1>2 DEF CompleteTopUpRead, serviceVars
  <2>3. QED
    BY <2>1, <2>2, <1>a DEF Leaves, TopUpRow, TopUpAt, AtWorker, InFlight
<1>3. CASE MarkToppedUp(p)
  <2>1. pc[p] = "markToppedUp" /\ pc'[p] = "idle"
    BY <1>3, <1>a, <1>b DEF MarkToppedUp
  <2>2. status'[t] = "COMPLETED" /\ UNCHANGED <<ledger, supplier, jobs>>
    BY <1>3, <1>a DEF MarkToppedUp, RowsOK
  <2>3. QED
    BY <2>1, <2>2, <1>a DEF Leaves, TopUpRow, InFlight
<1>4. CASE RefundRead(p)
  <2>1. pc[p] = "refundRead" /\ pc'[p] = "markFailed" /\ ctx'[p] = ctx[p]
    BY <1>4, <1>a, <1>b DEF RefundRead, AtWorker, OpenTopUp
  <2>2. UNCHANGED <<status, ledger, supplier, jobs>>
    BY <1>4 DEF RefundRead, serviceVars
  <2>3. QED
    BY <2>1, <2>2, <1>a DEF Leaves, TopUpRow, TopUpAt, AtWorker, OpenTopUp, InFlight
<1>5. CASE MarkFailed(p)
  <2>1. pc[p] = "markFailed" /\ pc'[p] = "credit" /\ ctx'[p] = ctx[p]
    BY <1>5, <1>a, <1>b DEF MarkFailed
  <2>2. status'[t] = "FAILED" /\ UNCHANGED <<ledger, supplier, jobs>>
    BY <1>5, <1>a DEF MarkFailed, RowsOK
  <2>3. QED
    BY <2>1, <2>2, <1>a DEF Leaves, TopUpRow, TopUpAt, AtWorker, OpenTopUp, InFlight
<1>6. CASE CreditRefund(p)
  <2>1. pc[p] = "credit" /\ pc'[p] = "markRefunded" /\ ctx'[p] = ctx[p]
    BY <1>6, <1>a, <1>b DEF CreditRefund
  <2>2. UNCHANGED <<status, supplier, jobs>>
    BY <1>6 DEF CreditRefund
  <2>3. QED
    BY <2>1, <2>2, <1>a DEF Leaves, TopUpRow, TopUpAt, AtWorker, InFlight
<1>7. CASE MarkRefunded(p)
  <2>1. pc[p] = "markRefunded" /\ pc'[p] = "announceFailed" /\ ctx'[p] = ctx[p]
    BY <1>7, <1>a, <1>b DEF MarkRefunded
  <2>2. status'[t] = "REFUNDED" /\ UNCHANGED <<ledger, supplier, jobs>>
    BY <1>7, <1>a DEF MarkRefunded, RowsOK
  <2>3. QED
    BY <2>1, <2>2, <1>a DEF Leaves, TopUpRow, TopUpAt, AtWorker, ShutTopUp, InFlight
<1>8. CASE AnnounceFailed(p)
  <2>1. pc[p] = "announceFailed" /\ pc'[p] = "idle" /\ UNCHANGED <<status, ledger, supplier, jobs>>
    BY <1>8, <1>a, <1>b DEF AnnounceFailed
  <2>2. QED
    BY <2>1, <1>a DEF Leaves, TopUpRow, InFlight
<1>9. CASE TopUpCall(p)
  <2>1. pc[p] = "topUpCall" /\ UNCHANGED <<status, ledger>> /\ OpenTopUp(t)
    BY <1>9, <1>a DEF TopUpCall, AtWorker
  <2>2. CASE pc'[p] = "completeTopUp" /\ ctx'[p] = ctx[p] /\ supplier'[t] = "confirmed" /\ UNCHANGED jobs
    BY <2>1, <2>2, <1>a DEF Leaves, TopUpRow, TopUpAt, AtWorker, OpenTopUp, InFlight
  <2>3. CASE pc'[p] = "refundRead" /\ ctx'[p] = ctx[p] /\ supplier'[t] \in {supplier[t], "applied"} /\ UNCHANGED jobs
    BY <2>1, <2>3, <1>a DEF Leaves, TopUpRow, TopUpAt, AtWorker, OpenTopUp, InFlight
  <2>4. CASE Requeue(p) /\ supplier'[t] \in {supplier[t], "applied"}
    BY <2>1, <2>4, <1>a, <1>c DEF Leaves, TopUpRow, OpenTopUp, InFlight
  <2>5. \/ pc'[p] = "completeTopUp" /\ ctx'[p] = ctx[p] /\ supplier'[t] = "confirmed" /\ UNCHANGED jobs
        \/ pc'[p] = "refundRead" /\ ctx'[p] = ctx[p] /\ supplier'[t] = supplier[t] /\ UNCHANGED jobs
        \/ Transient(p) /\ supplier'[t] \in {supplier[t], "applied"}
    BY <1>9, <1>a, <1>b DEF TopUpCall, RowsOK
  <2>6. Transient(p) => Requeue(p) \/ (pc'[p] = "refundRead" /\ ctx'[p] = ctx[p] /\ UNCHANGED jobs)
    BY <1>b DEF Transient
  <2>7. QED
    BY <2>2, <2>3, <2>4, <2>5, <2>6
<1>10. CASE Throw(p)
  <2>1. pc[p] \notin CutPoints
    BY <1>10 DEF Throw, Cut
  <2>2. OpenTopUp(t) \/ ShutTopUp(t)
    BY <1>a, <2>1 DEF AtWorker, CutPoints
  <2>3. /\ UNCHANGED <<status, ledger, supplier>>
        /\ Requeue(p) \/ (Finish(p) /\ UNCHANGED jobs)
    BY <1>10, <2>1 DEF Throw, CutPoints, serviceVars
  <2>4. pc'[p] = "idle" /\ (UNCHANGED jobs \/ \E j : jobs' = [jobs EXCEPT !["topup"] = @ \cup {j}])
    BY <2>3, <1>b, <1>c
  <2>5. QED
    BY <2>2, <2>3, <2>4, <1>a DEF Leaves, TopUpRow, OpenTopUp, ShutTopUp, InFlight
<1>11. QED
  <2>1. CASE Service(p)
    BY <1>d, <2>1, <1>2, <1>3, <1>4, <1>5, <1>6, <1>7, <1>8
       DEF Service, ServiceStep, CompleteRead, SaveProfile, MarkCompleted, AnnounceCompleted,
           CancelEsim, RevokeEsim
  <2>2. CASE TopUpWorker(p)
    BY <1>d, <2>2, <1>1, <1>9 DEF TopUpWorker, TopUpResume
  <2>3. QED
    BY <1>a, <2>1, <2>2, <1>10 DEF Step

\* The top-up that the process has.
LEMMA TopUpOwn ==
  ASSUME TypeOK, NEW p \in Procs, Step(p) \/ Throw(p), NEW t \in TopUps, t = OrderOf(p),
         Works(p, t), TopUpOK(t), Leaves(p, t)
  PROVE  TopUpOK(t)'
<1>a. /\ pc'[p] # "idle" => OrderOf(p)' = t
      /\ \A q \in Procs : q # p => pc'[q] = pc[q] /\ ctx'[q] = ctx[q] /\ OrderOf(q)' = OrderOf(q)
      /\ jobs \in [Queues -> SUBSET Job] /\ "topup" \in Queues
  BY StepConfined DEF Confined, Stays, OnlyMoves, OrderOf, TypeOK, RowsOK, Queues
<1>b. /\ \A q \in Queues : \A j \in jobs[q] : j.order # t
      /\ \A q \in Procs : Works(q, t) => q = p
      /\ ctx[p].note = "none"
  BY DEF TopUpOK, TopUpJobs, TopUpProcs
<1>c. TopUpRow(t)'
  BY DEF Leaves
<1>1. CASE pc'[p] # "idle"
  <2>1. UNCHANGED jobs /\ TopUpAt(p, t)' /\ ctx'[p].note = "none"
    BY <1>1, <1>b DEF Leaves
  <2>2. \A q \in Procs : Works(q, t)' => q = p
    BY <1>a, <1>b DEF Works
  <2>3. QED
    BY <1>b, <1>c, <2>1, <2>2 DEF TopUpOK, TopUpJobs, TopUpProcs
<1>2. CASE pc'[p] = "idle"
  <2>1. \A q \in Procs : ~Works(q, t)'
    BY <1>2, <1>a, <1>b DEF Works
  <2>2. CASE UNCHANGED jobs
    BY <1>b, <1>c, <2>1, <2>2 DEF TopUpOK, TopUpJobs, TopUpProcs
  <2>3. ASSUME OpenTopUp(t)' \/ ShutTopUp(t)', NEW j, jobs' = [jobs EXCEPT !["topup"] = @ \cup {j}]
        PROVE  TopUpOK(t)'
    <3>1. \A q \in Queues : \A k \in jobs'[q] : k.order = t => q = "topup" /\ k = j
      BY <1>a, <1>b, <2>3
    <3>2. QED
      BY <1>c, <2>1, <2>3, <3>1 DEF TopUpOK, TopUpJobs, TopUpProcs
  <2>4. QED
    BY <2>2, <2>3 DEF Leaves
<1>3. QED
  BY <1>1, <1>2

\* What a top-up's part of the invariant speaks of: its row, its jobs and who
\* works for it.
LEMMA TopUpKept ==
  ASSUME NEW t \in TopUps, TopUpOK(t),
         status'[t] = status[t], ledger'[t] = ledger[t], supplier'[t] = supplier[t],
         \A q \in Queues : \A j \in jobs'[q] : j.order = t => j \in jobs[q],
         \A p \in Procs : Works(p, t)' => Works(p, t) /\ pc'[p] = pc[p] /\ ctx'[p] = ctx[p]
  PROVE  TopUpOK(t)'
<1>1. TopUpRow(t)' /\ (OpenTopUp(t) => OpenTopUp(t)') /\ (ShutTopUp(t) => ShutTopUp(t)')
  BY DEF TopUpOK, TopUpRow, OpenTopUp, ShutTopUp
<1>2. TopUpJobs(t)'
  BY <1>1 DEF TopUpOK, TopUpJobs
<1>3. \A p \in Procs : Works(p, t)' /\ TopUpAt(p, t) => TopUpAt(p, t)'
  BY <1>1 DEF TopUpAt, AtCheckout, AtWorker
<1>4. TopUpProcs(t)'
  BY <1>3 DEF TopUpOK, TopUpProcs
<1>5. QED
  BY <1>1, <1>2, <1>4 DEF TopUpOK

\* A step for one order leaves the other top-ups as they are.
LEMMA TopUpOther ==
  ASSUME TypeOK, NEW p \in Procs, Step(p) \/ Throw(p), NEW t \in TopUps, t # OrderOf(p), TopUpOK(t)
  PROVE  TopUpOK(t)' /\ status'[t] = status[t]
<1>a. /\ t \in Orders /\ Confined(p)
      /\ pc'[p] # "idle" => OrderOf(p)' = OrderOf(p)
      /\ \A q \in Procs : q # p => pc'[q] = pc[q] /\ ctx'[q] = ctx[q] /\ OrderOf(q)' = OrderOf(q)
  BY StepConfined, ConstantsOK DEF Confined, Stays, OnlyMoves, OrderOf
<1>b. status'[t] = status[t] /\ ledger'[t] = ledger[t] /\ supplier'[t] = supplier[t]
  BY <1>a DEF Confined, OwnRows
<1>c. \A q \in Queues : \A j \in jobs'[q] : j.order = t => j \in jobs[q]
  BY <1>a DEF Confined, OwnJobs
<1>d. \A q \in Procs : Works(q, t)' => Works(q, t) /\ pc'[q] = pc[q] /\ ctx'[q] = ctx[q]
  BY <1>a DEF Works
<1>e. QED
  BY <1>b, <1>c, <1>d, TopUpKept

TopUpsKept == OneInFlight' /\ \A t \in Regular' : TopUpOK(t)'

\* A step that brings no regular top-up into flight.
LEMMA StillOne ==
  ASSUME OneInFlight, astray \subseteq astray',
         \A t \in Regular' : TopUpOK(t)' /\ (status'[t] \in InFlight => status[t] \in InFlight)
  PROVE  TopUpsKept
BY DEF OneInFlight, TopUpsKept, Regular

\* Steps of processes, and calls that fail.
LEMMA StepTopUps ==
  ASSUME TopUpInv, NEW p \in Procs, Step(p) \/ Throw(p)
  PROVE  TopUpsKept
<1>a. TypeOK /\ OneInFlight /\ \A t \in Regular : TopUpOK(t)
  BY DEF TopUpInv, SettleInv
<1>b. OrderOf(p) \in Orders /\ Works(p, OrderOf(p)) /\ astray \subseteq astray'
  BY <1>a, BusyOrder
<1>1. ASSUME NEW t \in Regular'
      PROVE  TopUpOK(t)' /\ (status'[t] \in InFlight => status[t] \in InFlight)
  <2>0. t \in TopUps /\ t \notin astray' /\ TopUpOK(t)
    BY <1>a, <1>b DEF Regular
  <2>1. CASE t = OrderOf(p)
    <3>1. p \in Handlers \/ p = "topup"
      BY <1>b, <2>0, <2>1 DEF TopUpOK, TopUpProcs, TopUpAt
    <3>2. Leaves(p, t)
      BY <1>a, <1>b, <2>0, <2>1, <3>1, CheckoutLeaves, WorkerLeaves
    <3>3. QED
      BY <1>a, <1>b, <2>0, <2>1, <3>2, TopUpOwn DEF Leaves
  <2>2. CASE t # OrderOf(p)
    BY <1>a, <2>0, <2>2, TopUpOther
  <2>3. QED
    BY <2>1, <2>2
<1>2. QED
  BY <1>a, <1>b, <1>1, StillOne

\* What the calls that start do: none for a regular top-up but its checkout.
LEMMA EntryMoves ==
  ASSUME SettleInv, NEW h \in Handlers, NEW x \in Orders, NEW n \in NoteTypes,
         \/ Create(h, x) \/ Refresh(h, x) \/ Retry(h, x) \/ Sweep(h, x)
         \/ x \in Purchases /\ HookBegin(h, x, n),
         x \in Regular => TopUpRow(x)
  PROVE  /\ UNCHANGED <<ledger, supplier, jobs>> /\ pc[h] = "idle" /\ OrderOf(h)' = x
         /\ \A q \in Procs : q # h => pc'[q] = pc[q] /\ ctx'[q] = ctx[q] /\ OrderOf(q)' = OrderOf(q)
         /\ astray \subseteq astray'
         /\ IF Create(h, x) THEN status' = [status EXCEPT ![x] = "PAID"]
                            ELSE status' = status /\ x \notin TopUps \ astray'
<1>a. /\ TypeOK /\ h \in Procs /\ RowsOK /\ ProcsOK /\ Purchases \cap TopUps = {}
  BY ConstantsOK, OrdersAssumption DEF SettleInv, TypeOK
<1>1. CASE Retry(h, x)
  <2>1. /\ UNCHANGED <<status, ledger, supplier, jobs>> /\ pc[h] = "idle"
        /\ pc' = [pc EXCEPT ![h] = "retryMark"]
        /\ ctx' = [ctx EXCEPT ![h] = [NoCtx EXCEPT !.order = x]]
        /\ astray' = astray \cup ({x} \cap TopUps)
    BY <1>1 DEF Retry, Begin, serviceVars, queueVars
  <2>2. [NoCtx EXCEPT !.order = x].order = x
    BY DEF NoCtx
  <2>3. /\ OrderOf(h)' = x
        /\ \A q \in Procs : q # h => pc'[q] = pc[q] /\ ctx'[q] = ctx[q] /\ OrderOf(q)' = OrderOf(q)
    BY <1>a, <2>1, <2>2 DEF ProcsOK, OrderOf
  <2>4. ~Create(h, x)
    BY <1>1 DEF Create, Retry
  <2>5. QED
    BY <2>1, <2>3, <2>4
<1>2. CASE Create(h, x) \/ Refresh(h, x) \/ Sweep(h, x) \/ (x \in Purchases /\ HookBegin(h, x, n))
  <2>1. /\ UNCHANGED <<ledger, supplier, jobs>> /\ pc[h] = "idle" /\ OrderOf(h)' = x
        /\ \A q \in Procs : q # h => pc'[q] = pc[q] /\ ctx'[q] = ctx[q] /\ OrderOf(q)' = OrderOf(q)
    BY <1>a, <1>2, EntryStarts
  <2>2. astray \subseteq astray'
    BY <1>2 DEF Create, Refresh, Sweep, HookBegin, budgets
  <2>3. CASE Create(h, x)
    BY <2>1, <2>2, <2>3 DEF Create
  <2>4. CASE ~Create(h, x)
    <3>1. status' = status
      BY <1>2, <2>4 DEF Refresh, Sweep, HookBegin, serviceVars
    <3>2. Refresh(h, x) => x \notin TopUps \ astray'
      <4>1. Refresh(h, x) => supplier[x] \in Supplied
        BY DEF Refresh, SettleInv, OrdersOK, CompletedMeansDelivered
      <4>2. x \in Regular => supplier[x] \notin Supplied
        BY DEF TopUpRow, Supplied
      <4>3. QED
        BY <2>2, <4>1, <4>2 DEF Regular
    <3>3. Sweep(h, x) => x \notin TopUps \ astray'
      BY DEF Sweep
    <3>4. QED
      BY <1>a, <1>2, <2>1, <2>2, <2>4, <3>1, <3>2, <3>3
  <2>5. QED
    BY <2>3, <2>4
<1>3. QED
  BY <1>1, <1>2

\* A top-up is created only while none is in flight.
LEMMA EntryTopUps ==
  ASSUME TopUpInv, NEW h \in Handlers, NEW x \in Orders, NEW n \in NoteTypes,
         \/ Create(h, x) \/ Refresh(h, x) \/ Retry(h, x) \/ Sweep(h, x)
         \/ x \in Purchases /\ HookBegin(h, x, n)
  PROVE  TopUpsKept
<1>a. /\ SettleInv /\ TypeOK /\ RowsOK /\ ProcsOK /\ h \in Procs /\ OneInFlight /\ h \in Handlers
      /\ TopUps \subseteq Orders /\ \A t \in Regular : TopUpOK(t) /\ TopUpRow(t)
  BY ConstantsOK DEF TopUpInv, SettleInv, TypeOK, TopUpOK
<1>b. /\ UNCHANGED <<ledger, supplier, jobs>> /\ pc[h] = "idle" /\ OrderOf(h)' = x
      /\ \A q \in Procs : q # h => pc'[q] = pc[q] /\ ctx'[q] = ctx[q] /\ OrderOf(q)' = OrderOf(q)
      /\ astray \subseteq astray'
      /\ IF Create(h, x) THEN status' = [status EXCEPT ![x] = "PAID"]
                         ELSE status' = status /\ x \notin TopUps \ astray'
  BY <1>a, EntryMoves
<1>1. ASSUME NEW t \in Regular', t # x PROVE TopUpOK(t)' /\ status'[t] = status[t]
  <2>1. t \in TopUps /\ TopUpOK(t)
    BY <1>a, <1>b DEF Regular
  <2>2. status'[t] = status[t]
    BY <1>a, <1>b, <1>1, <2>1 DEF RowsOK
  <2>3. \A q \in Procs : Works(q, t)' => Works(q, t) /\ pc'[q] = pc[q] /\ ctx'[q] = ctx[q]
    BY <1>b, <1>1 DEF Works
  <2>4. QED
    BY <1>b, <2>1, <2>2, <2>3, TopUpKept
<1>2. ASSUME x \in Regular'
      PROVE  TopUpOK(x)' /\ \A t \in TopUps : status[t] \notin InFlight
  <2>1. Create(h, x) /\ x \in TopUps /\ TopUpOK(x)
    BY <1>a, <1>b, <1>2 DEF Regular
  <2>2. /\ status[x] = "none" /\ status'[x] = "PAID"
        /\ pc'[h] = "debit" /\ ctx'[h].note = "none"
        /\ \A t \in TopUps : status[t] \notin InFlight
    BY <2>1, <1>a DEF Create, Begin, ProcsOK, RowsOK, NoCtx, InFlight
  <2>3. supplier[x] = "none" /\ "refund" \notin ledger[x]
    BY <2>1, <2>2 DEF TopUpOK, TopUpRow
  <2>4. \A q \in Queues : \A j \in jobs[q] : j.order # x
    BY <2>1, <2>2 DEF TopUpOK, TopUpJobs, OpenTopUp, ShutTopUp
  <2>5. \A q \in Procs : ~Works(q, x)
    BY <2>1, <2>2 DEF TopUpOK, TopUpProcs, TopUpAt, AtCheckout, AtWorker, OpenTopUp, ShutTopUp
  <2>6. \A q \in Procs : Works(q, x)' => q = h
    BY <1>b, <2>5 DEF Works
  <2>7. TopUpAt(h, x)'
    BY <1>a, <1>b, <2>2, <2>3 DEF TopUpAt, AtCheckout
  <2>8. TopUpRow(x)' /\ TopUpJobs(x)'
    BY <1>b, <2>2, <2>3, <2>4 DEF TopUpRow, TopUpJobs
  <2>9. QED
    BY <2>2, <2>6, <2>7, <2>8 DEF TopUpOK, TopUpProcs
<1>3. \A t \in Regular' : TopUpOK(t)'
  BY <1>1, <1>2
<1>4. OneInFlight'
  <2> SUFFICES ASSUME NEW s \in Regular', NEW t \in Regular',
                      status'[s] \in InFlight, status'[t] \in InFlight, s # t
               PROVE  FALSE
    BY DEF OneInFlight
  <2>1. s \in Regular /\ t \in Regular /\ s \in TopUps /\ t \in TopUps
    BY <1>b DEF Regular
  <2>2. CASE s # x /\ t # x
    BY <1>a, <1>1, <2>1, <2>2 DEF OneInFlight
  <2>3. CASE s = x \/ t = x
    BY <1>1, <1>2, <2>1, <2>3
  <2>4. QED
    BY <2>2, <2>3
<1>5. QED
  BY <1>3, <1>4 DEF TopUpsKept

\* The top-up worker takes the one job there is.
LEMMA TakeTopUps ==
  ASSUME TypeOK, NEW w \in Queues, NEW j \in jobs[w], Take(w, j),
         NEW t \in TopUps, TopUpOK(t)
  PROVE  TopUpOK(t)'
<1>a. RowsOK /\ ProcsOK /\ w \in Procs /\ j \in Job
  BY ConstantsOK DEF TypeOK, RowsOK
<1>b. /\ UNCHANGED <<status, ledger, supplier>>
      /\ pc[w] = "idle" /\ pc' = [pc EXCEPT ![w] = FirstLabel[w]]
      /\ ctx' = [ctx EXCEPT ![w] = [NoCtx EXCEPT !.order = j.order, !.job = j]]
      /\ jobs' = [jobs EXCEPT ![w] = @ \ {j}]
  BY DEF Take, serviceVars
<1>c. /\ pc'[w] = FirstLabel[w] /\ OrderOf(w)' = j.order /\ ctx'[w].note = "none"
      /\ \A q \in Procs : q # w => pc'[q] = pc[q] /\ ctx'[q] = ctx[q] /\ OrderOf(q)' = OrderOf(q)
  <2>1. [NoCtx EXCEPT !.order = j.order, !.job = j].order = j.order
        /\ [NoCtx EXCEPT !.order = j.order, !.job = j].note = "none"
    BY DEF NoCtx
  <2>2. QED
    BY <1>a, <1>b, <2>1 DEF ProcsOK, OrderOf
<1>e. \A q \in Queues : jobs'[q] \subseteq jobs[q] /\ (q = w => j \notin jobs'[q])
  BY <1>a, <1>b DEF RowsOK
<1>1. CASE j.order # t
  <2>1. \A q \in Procs : Works(q, t)' => Works(q, t) /\ pc'[q] = pc[q] /\ ctx'[q] = ctx[q]
    BY <1>c, <1>1 DEF Works
  <2>2. \A q \in Queues : \A k \in jobs'[q] : k.order = t => k \in jobs[q]
    BY <1>e
  <2>3. QED
    BY <1>b, <2>1, <2>2, TopUpKept
<1>2. CASE j.order = t
  <2>1. /\ w = "topup" /\ (OpenTopUp(t) \/ ShutTopUp(t)) /\ \A q \in Procs : ~Works(q, t)
        /\ \A q \in Queues : \A k \in jobs[q] : k.order = t => q = w /\ k = j
    BY <1>2 DEF TopUpOK, TopUpJobs
  <2>2. \A q \in Queues : \A k \in jobs'[q] : k.order # t
    BY <1>e, <2>1
  <2>3. \A q \in Procs : Works(q, t)' => q = w
    BY <1>c, <2>1 DEF Works
  <2>4. TopUpAt(w, t)'
    BY <1>b, <1>c, <2>1 DEF TopUpAt, AtWorker, OpenTopUp, ShutTopUp, FirstLabel
  <2>5. TopUpRow(t)'
    BY <1>b DEF TopUpOK, TopUpRow
  <2>6. QED
    BY <1>c, <2>2, <2>3, <2>4, <2>5 DEF TopUpOK, TopUpJobs, TopUpProcs
<1>3. QED
  BY <1>1, <1>2

\* A crash puts the top-up worker's job back; what it was cut off from decides
\* which top-ups go astray.
LEMMA CrashTopUps ==
  ASSUME TypeOK, Crash, NEW t \in TopUps, t \notin astray', TopUpOK(t)
  PROVE  TopUpOK(t)'
<1>a. /\ ProcsOK /\ Queues \subseteq Procs /\ "topup" \in Queues /\ Handlers \cap Queues = {}
  BY ConstantsOK DEF TypeOK, Queues
<1>b. /\ UNCHANGED <<status, ledger, supplier>>
      /\ \A p \in Procs : ~Works(p, t)'
      /\ \A q \in Queues :
           jobs'[q] = jobs[q] \cup (IF pc[q] = "idle" THEN {} ELSE {ctx[q].job})
      /\ t \notin Cut(Procs)
  BY DEF Crash, serviceVars, Works
<1>c. TopUpRow(t)' /\ TopUpProcs(t)'
  BY <1>b DEF TopUpOK, TopUpRow, TopUpProcs
<1>d. \A q \in Queues : pc[q] # "idle" => ctx[q].job.order = OrderOf(q)
  BY <1>a DEF ProcsOK
<1>1. CASE \E q \in Queues : Works(q, t)
  <2>1. Works("topup", t) /\ \A q \in Procs : Works(q, t) => q = "topup"
    BY <1>1, <1>a DEF TopUpOK, TopUpProcs, TopUpAt
  <2>2. AtWorker("topup", t) /\ pc["topup"] \notin CutPoints
    BY <2>1, <1>a, <1>b DEF TopUpOK, TopUpProcs, TopUpAt, Cut, Works
  <2>3. OpenTopUp(t)' \/ ShutTopUp(t)'
    BY <2>2, <1>b DEF AtWorker, CutPoints, OpenTopUp, ShutTopUp
  <2>4. \A q \in Queues : \A k \in jobs[q] : k.order # t
    BY <2>1, <1>a DEF TopUpOK, TopUpJobs
  <2>5. \A q \in Queues : \A k \in jobs'[q] : k.order = t => q = "topup" /\ k = ctx["topup"].job
    BY <2>1, <2>4, <1>a, <1>b, <1>d DEF Works
  <2>6. QED
    BY <1>b, <1>c, <2>3, <2>5 DEF TopUpOK, TopUpJobs
<1>2. CASE \A q \in Queues : ~Works(q, t)
  <2>1. \A q \in Queues : \A k \in jobs'[q] : k.order = t => k \in jobs[q]
    BY <1>2, <1>b, <1>d DEF Works
  <2>2. QED
    BY <1>b, <2>1, TopUpKept
<1>3. QED
  BY <1>1, <1>2

\* The invariant of the top-ups.
LEMMA TopUpInvHolds == Spec => []TopUpInv
<1>1. Init /\ SettleInv => TopUpInv
  <2> SUFFICES ASSUME Init, SettleInv PROVE TopUpInv
    OBVIOUS
  <2>1. /\ \A o \in Orders : status[o] = "none" /\ supplier[o] = "none" /\ ledger[o] = {}
        /\ \A q \in Queues : jobs[q] = {}
        /\ \A p \in Procs : pc[p] = "idle"
    BY DEF Init
  <2>2. OneInFlight
    BY <2>1 DEF OneInFlight, Regular, InFlight, Orders
  <2>3. ASSUME NEW t \in TopUps PROVE TopUpOK(t)
    <3>1. t \in Orders
      BY DEF Orders
    <3>2. TopUpRow(t)
      BY <2>1, <3>1 DEF TopUpRow
    <3>3. TopUpJobs(t) /\ TopUpProcs(t)
      BY <2>1 DEF TopUpJobs, TopUpProcs, Works
    <3>4. QED
      BY <3>2, <3>3 DEF TopUpOK
  <2>4. QED
    BY <2>2, <2>3 DEF TopUpInv, Regular
<1>2. TopUpInv /\ SettleInv' /\ [Next]_vars => TopUpInv'
  <2> SUFFICES ASSUME TopUpInv, [Next]_vars PROVE TopUpsKept
    BY DEF TopUpInv, TopUpsKept
  <2>0. TypeOK /\ RowsOK /\ OneInFlight /\ (\A t \in Regular : TopUpOK(t) /\ TopUpRow(t)) /\ SettleInv
    BY DEF TopUpInv, SettleInv, TypeOK, TopUpOK
  <2>1. ASSUME NEW p \in Procs, Step(p) \/ Throw(p) PROVE TopUpsKept
    BY <2>1, StepTopUps
  <2>2. ASSUME NEW h \in Handlers, NEW x \in Orders,
               Create(h, x) \/ Refresh(h, x) \/ Retry(h, x) \/ Sweep(h, x)
        PROVE  TopUpsKept
    <3>1. "ORDER_STATUS" \in NoteTypes
      BY DEF NoteTypes
    <3>2. QED
      BY <2>2, <3>1, EntryTopUps
  <2>3. ASSUME NEW h \in Handlers, NEW x \in Purchases, NEW n \in NoteTypes, HookBegin(h, x, n)
        PROVE  TopUpsKept
    <3>1. x \in Orders /\ x \notin TopUps
      BY ConstantsOK, OrdersAssumption
    <3>2. QED
      BY <2>3, <3>1, EntryTopUps
  <2>4. ASSUME NEW q \in Queues, NEW j \in jobs[q], Take(q, j) PROVE TopUpsKept
    <3>1. UNCHANGED <<status, astray>>
      BY <2>4 DEF Take, budgets, serviceVars
    <3>2. \A t \in Regular' : TopUpOK(t)'
      BY <2>0, <2>4, <3>1, TakeTopUps DEF Regular
    <3>3. QED
      BY <2>0, <3>1, <3>2, StillOne
  <2>5. CASE \/ \E o \in Purchases : Allocate(o) \/ \E n \in 1..MaxPolls : EvictPollId(o, n)
             \/ UNCHANGED vars
    <3>1. UNCHANGED <<status, ledger, jobs, pc, ctx, astray>>
      BY <2>5 DEF Allocate, EvictPollId, vars, serviceVars, queueVars, procVars, budgets
    <3>2. \A t \in TopUps : supplier'[t] = supplier[t]
      <4>1. CASE \E o \in Purchases : Allocate(o)
        BY <2>0, <4>1, OrdersAssumption DEF Allocate, RowsOK, Orders
      <4>2. CASE \E o \in Purchases : \E n \in 1..MaxPolls : EvictPollId(o, n)
        BY <4>2 DEF EvictPollId, serviceVars
      <4>3. CASE UNCHANGED vars
        BY <4>3 DEF vars, serviceVars
      <4>4. QED
        BY <2>5, <4>1, <4>2, <4>3
    <3>3. \A t \in Regular' : TopUpOK(t)'
      BY <2>0, <3>1, <3>2, TopUpKept DEF Regular, Works, OrderOf
    <3>4. QED
      BY <2>0, <3>1, <3>3, StillOne
  <2>6. CASE Crash
    <3>1. status' = status /\ astray \subseteq astray'
      BY <2>6 DEF Crash, serviceVars
    <3>2. \A t \in Regular' : TopUpOK(t)'
      BY <2>0, <2>6, <3>1, CrashTopUps DEF Regular
    <3>3. QED
      BY <2>0, <3>1, <3>2, StillOne
  <2>7. QED
    BY <2>1, <2>2, <2>3, <2>4, <2>5, <2>6 DEF Next
<1>3. QED
  BY <1>1, <1>2, SettleInvHolds, PTL DEF Spec

\* One eSIM has one top-up in flight and a confirmed top-up is never refunded,
\* whatever overlaps, fails, crashes or is attempted again: all but the top-ups
\* that were cut off half completed or half refunded, or that the admin or the
\* sweep put on the purchase queue.
THEOREM OneTopUpInFlight == Spec => []TopUpsSafe
<1>1. TopUpInv => TopUpsSafe
  BY DEF TopUpInv, TopUpsSafe, Regular, OneInFlight, InFlight, TopUpOK, TopUpRow
<1>2. QED
  BY <1>1, TopUpInvHolds, PTL

-----------------------------------------------------------------------------
(* What nothing selects stays as it is.  A request that dies, or whose write *)
(* of FULFILLING fails, after the debit leaves a charged order PAID: the     *)
(* sweep selects FULFILLING orders only, no queue has a job of it, and the   *)
(* supplier, which has never heard of it, notifies nothing.                  *)

\* Charged, PAID, and known to nobody.
Forgotten(o) ==
  /\ status[o] = "PAID" /\ "charge" \in ledger[o] /\ "refund" \notin ledger[o]
  /\ supplier[o] = "none" /\ ~profile[o].iccid
  /\ ~Waits(o) /\ \A p \in Procs : ~Works(p, o)

\* That is what a crash between the debit and the start leaves.
LEMMA CrashForgets ==
  ASSUME CarryInv, Undisturbed, NEW h \in Handlers, pc[h] = "start",
         ledger[OrderOf(h)] = {"charge"}, Crash
  PROVE  \E o \in Orders : o = OrderOf(h) /\ Forgotten(o)'
<1>a. RowsOK /\ ProcsOK /\ h \in Procs /\ h \notin Queues /\ CheckoutOK
  BY ConstantsOK DEF CarryInv, CarryOK, SettleInv, TypeOK
<1>b. PICK o : o = OrderOf(h)
  OBVIOUS
<1>1. /\ o \in Orders /\ Unheard(o) /\ status[o] = "PAID" /\ ledger[o] = {"charge"}
      /\ \A q \in Procs : Works(q, o) => q = h
  BY <1>a, <1>b DEF CheckoutOK, ProcsOK
<1>2. \A q \in Queues : \A j \in jobs'[q] : j.order # o
  <2>1. \A q \in Queues : pc[q] # "idle" => ctx[q].job.order # o
    BY <1>1, <1>a, ConstantsOK DEF ProcsOK, Works
  <2>2. QED
    BY <1>1, <2>1 DEF Crash, Unheard
<1>3. \A p \in Procs : pc'[p] = "idle"
  BY DEF Crash
<1>4. UNCHANGED <<status, ledger, supplier, profile>>
  BY DEF Crash, serviceVars
<1>5. ~Waits(o)'
  BY <1>2 DEF Waits
<1>6. \A p \in Procs : ~Works(p, o)'
  BY <1>3 DEF Works
<1>7. QED
  BY <1>b, <1>1, <1>4, <1>5, <1>6 DEF Forgotten, Unheard

\* No step of a process reaches it: the process has another order.
LEMMA StepForgets ==
  ASSUME TypeOK, NEW o \in Orders, Forgotten(o), NEW p \in Procs, Step(p) \/ Throw(p)
  PROVE  Forgotten(o)'
<1>1. Confined(p)
  BY StepConfined
<1>2. pc[p] # "idle" /\ OrderOf(p) # o
  BY StepOrder DEF Throw, Forgotten, Works
<1>3. /\ status'[o] = status[o] /\ ledger'[o] = ledger[o] /\ supplier'[o] = supplier[o]
      /\ profile'[o] = profile[o]
  BY <1>1, <1>2 DEF Confined, OwnRows
<1>4. ~Waits(o)'
  BY <1>1, <1>2 DEF Confined, OwnJobs, Forgotten, Waits
<1>5. ASSUME NEW q \in Procs PROVE ~Works(q, o)'
  <2>1. CASE q = p
    BY <1>1, <1>2, <2>1 DEF Confined, Stays, Works
  <2>2. CASE q # p
    <3>1. pc'[q] = pc[q] /\ OrderOf(q)' = OrderOf(q)
      BY <1>1, <2>2 DEF Confined, Stays, OnlyMoves, OrderOf
    <3>2. QED
      BY <3>1 DEF Works, Forgotten
  <2>3. QED
    BY <2>1, <2>2
<1>6. QED
  BY <1>3, <1>4, <1>5 DEF Forgotten

\* Nor does a call that starts, other than the admin's retry: checkout creates
\* orders, a refresh wants an ICCID, the sweep FULFILLING, the webhook a supplier
\* that has heard of the order.
LEMMA EntryForgets ==
  ASSUME TypeOK, NEW o \in Orders, Forgotten(o),
         NEW h \in Handlers, NEW x \in Orders, NEW t \in NoteTypes,
         Create(h, x) \/ Refresh(h, x) \/ Sweep(h, x) \/ HookBegin(h, x, t)
  PROVE  Forgotten(o)'
<1>a. RowsOK
  BY DEF TypeOK
<1>1. x # o
  BY DEF Create, Refresh, Sweep, HookBegin, Forgotten
<1>2. /\ UNCHANGED <<ledger, supplier, profile, jobs>> /\ OrderOf(h)' = x
      /\ \A q \in Procs : q # h => pc'[q] = pc[q] /\ OrderOf(q)' = OrderOf(q)
  BY EntryStarts
<1>3. status'[o] = status[o]
  BY <1>1, <1>a DEF Create, Refresh, Sweep, HookBegin, serviceVars, RowsOK
<1>4. ~Waits(o)'
  BY <1>2 DEF Waits, Forgotten
<1>5. \A q \in Procs : ~Works(q, o)'
  BY <1>1, <1>2 DEF Works, Forgotten
<1>6. QED
  BY <1>2, <1>3, <1>4, <1>5 DEF Forgotten

\* Nor does a worker that takes a job, a restart, the supplier or Redis.
LEMMA WorldForgets ==
  ASSUME TypeOK, NEW o \in Orders, Forgotten(o),
         \/ \E q \in Queues : \E j \in jobs[q] : Take(q, j)
         \/ \E x \in Purchases : Allocate(x) \/ \E n \in 1..MaxPolls : EvictPollId(x, n)
         \/ Crash \/ UNCHANGED vars
  PROVE  Forgotten(o)'
<1>a. RowsOK /\ ProcsOK /\ Queues \subseteq Procs
  BY ConstantsOK DEF TypeOK
<1>b. /\ \A q \in Queues : \A j \in jobs[q] : j.order # o
      /\ \A p \in Procs : ~Works(p, o)
  BY DEF Forgotten, Waits
<1>1. UNCHANGED <<status, ledger, profile>>
  BY DEF Take, Allocate, EvictPollId, Crash, vars, serviceVars
<1>2. ASSUME NEW q \in Queues, NEW j \in jobs[q], Take(q, j) PROVE Forgotten(o)'
  <2>1. OnlyMoves(q) /\ OrderOf(q)' = j.order
    <3>1. /\ pc' = [pc EXCEPT ![q] = FirstLabel[q]]
          /\ ctx' = [ctx EXCEPT ![q] = [NoCtx EXCEPT !.order = j.order, !.job = j]]
      BY <1>2 DEF Take
    <3>2. [NoCtx EXCEPT !.order = j.order, !.job = j].order = j.order
      BY DEF NoCtx
    <3>3. pc \in [Procs -> Labels] /\ ctx \in [Procs -> CtxType] /\ q \in Procs
      BY <1>a DEF ProcsOK
    <3>4. QED
      BY <3>1, <3>2, <3>3 DEF OnlyMoves, OrderOf
  <2>2. \A r \in Queues : jobs'[r] \subseteq jobs[r]
    BY <1>2, <1>a DEF Take, RowsOK
  <2>3. ~Waits(o)'
    BY <1>b, <2>2 DEF Waits
  <2>4. \A p \in Procs : ~Works(p, o)'
    BY <1>b, <2>1 DEF OnlyMoves, OrderOf, Works
  <2>5. supplier' = supplier
    BY <1>2 DEF Take, serviceVars
  <2>6. QED
    BY <1>1, <2>3, <2>4, <2>5 DEF Forgotten
<1>3. ASSUME NEW x \in Purchases, Allocate(x) PROVE Forgotten(o)'
  <2>1. x # o
    BY <1>3 DEF Allocate, Forgotten
  <2>2. supplier'[o] = supplier[o]
    BY <1>3, <2>1, <1>a DEF Allocate, RowsOK
  <2>3. ~Waits(o)' /\ \A p \in Procs : ~Works(p, o)'
    BY <1>b, <1>3 DEF Allocate, queueVars, procVars, OrderOf, Works, Waits
  <2>4. QED
    BY <1>1, <2>2, <2>3 DEF Forgotten
<1>4. CASE Crash
  <2>1. \A q \in Queues : pc[q] # "idle" => ctx[q].job.order # o
    BY <1>b, <1>a DEF ProcsOK, Works
  <2>2. \A q \in Queues : \A j \in jobs'[q] : j.order # o
    BY <1>b, <1>4, <2>1 DEF Crash
  <2>3. (\A p \in Procs : pc'[p] = "idle") /\ supplier' = supplier
    BY <1>4 DEF Crash, serviceVars
  <2>4. QED
    BY <1>1, <2>2, <2>3 DEF Forgotten, Waits, Works
<1>5. ASSUME UNCHANGED <<serviceVars, jobs, procVars>> PROVE Forgotten(o)'
  <2>1. ~Waits(o)' /\ \A p \in Procs : ~Works(p, o)'
    BY <1>b, <1>5 DEF procVars, OrderOf, Works, Waits
  <2>2. QED
    BY <1>5, <2>1 DEF Forgotten, serviceVars
<1>6. QED
  BY <1>2, <1>3, <1>4, <1>5 DEF EvictPollId, vars, queueVars

\* An admin's retry of another order.
LEMMA RetryForgets ==
  ASSUME TypeOK, NEW o \in Orders, Forgotten(o), NEW h \in Handlers, NEW x \in Orders, x # o,
         Retry(h, x)
  PROVE  Forgotten(o)'
<1>1. UNCHANGED <<serviceVars, jobs>> /\ Begin(h, "retryMark", x) /\ h \in Procs
  BY ConstantsOK DEF Retry, queueVars
<1>2. OrderOf(h)' = x /\ \A q \in Procs : q # h => pc'[q] = pc[q] /\ OrderOf(q)' = OrderOf(q)
  <2>1. PICK c : c.order = x /\ ctx' = [ctx EXCEPT ![h] = c]
    <3>1. "ORDER_STATUS" \in NoteTypes /\ TRUE \in BOOLEAN
      BY DEF NoteTypes
    <3>2. QED
      BY <1>1, <3>1, BeginCtx DEF Begin
  <2>2. pc' = [pc EXCEPT ![h] = "retryMark"] /\ ProcsOK
    BY <1>1 DEF Begin, TypeOK
  <2>3. QED
    BY <1>1, <2>1, <2>2 DEF ProcsOK, OrderOf
<1>3. ~Waits(o)' /\ \A q \in Procs : ~Works(q, o)'
  BY <1>1, <1>2 DEF Works, Waits, Forgotten
<1>4. QED
  BY <1>1, <1>3 DEF Forgotten, serviceVars

\* A forgotten order stays charged and PAID for ever, whatever the workers, the
\* sweep, the supplier, the webhook, the customer and restarts do: only an
\* admin's retry of that order takes it up again.
THEOREM ForgottenForGood ==
  Spec => [][\A o \in Orders :
               Forgotten(o) /\ ~(\E h \in Handlers : Retry(h, o)) => Forgotten(o)']_vars
<1> DEFINE StaysForgotten ==
             \A o \in Orders : Forgotten(o) /\ ~(\E h \in Handlers : Retry(h, o)) => Forgotten(o)'
<1>1. TypeOK /\ [Next]_vars => StaysForgotten
  <2> SUFFICES ASSUME TypeOK, [Next]_vars, NEW o \in Orders, Forgotten(o),
                      ~(\E h \in Handlers : Retry(h, o))
               PROVE  Forgotten(o)'
    OBVIOUS
  <2>1. ASSUME NEW p \in Procs, Step(p) \/ Throw(p) PROVE Forgotten(o)'
    BY <2>1, StepForgets
  <2>2. ASSUME NEW h \in Handlers, NEW x \in Orders, Create(h, x) \/ Refresh(h, x) \/ Sweep(h, x)
        PROVE  Forgotten(o)'
    <3>1. "ORDER_STATUS" \in NoteTypes
      BY DEF NoteTypes
    <3>2. QED
      BY <2>2, <3>1, EntryForgets
  <2>3. ASSUME NEW h \in Handlers, NEW x \in Purchases, NEW t \in NoteTypes, HookBegin(h, x, t)
        PROVE  Forgotten(o)'
    BY <2>3, EntryForgets, ConstantsOK
  <2>4. ASSUME NEW h \in Handlers, NEW x \in Orders, Retry(h, x) PROVE Forgotten(o)'
    BY <2>4, RetryForgets
  <2>5. CASE \/ \E q \in Queues : \E j \in jobs[q] : Take(q, j)
             \/ \E x \in Purchases : Allocate(x) \/ \E n \in 1..MaxPolls : EvictPollId(x, n)
             \/ Crash \/ UNCHANGED vars
    BY <2>5, WorldForgets
  <2>6. QED
    BY <2>1, <2>2, <2>3, <2>4, <2>5 DEF Next
<1>2. QED
  BY <1>1, TypeCorrect, PTL DEF Spec

-----------------------------------------------------------------------------
(* Purchases and top-ups implement OrderLifecycle, as the other product      *)
(* lines do.  Beyond what the settling routes guarantee (SettleInv), that    *)
(* takes that only placed orders are worked on or known to the supplier.     *)

\* A process, a job and the supplier know placed orders only.
PlacedOK ==
  /\ \A o \in Orders : supplier[o] # "none" => status[o] # "none"
  /\ \A q \in Queues : \A j \in jobs[q] : status[j.order] # "none"
  /\ \A p \in Procs : pc[p] # "idle" => status[OrderOf(p)] # "none"

LifecycleStep == Lifecycle!LifecycleNext \/ UNCHANGED Lifecycle!lifecycleVars

\* The steps of the lifecycle, in terms of the fulfilment's own rows.
LEMMA LifecycleSteps ==
  ASSUME RowsOK, NEW o \in Orders, status[o] # "none"
  PROVE  /\ /\ UNCHANGED <<status, ledger, notices>>
            /\ \A k \in Orders : HasDelivered(k)' <=> HasDelivered(k)
            => LifecycleStep
         /\ /\ \E x \in {"FULFILLING", "FAILED"} : status' = [status EXCEPT ![o] = x]
            /\ UNCHANGED <<ledger, notices, supplier>>
            => LifecycleStep
         /\ /\ \E x \in {"charge", "refund"} : ledger' = [ledger EXCEPT ![o] = @ \cup {x}]
            /\ UNCHANGED <<status, notices, supplier>>
            => LifecycleStep
         /\ /\ \E x \in {"allocated", "confirmed"} : supplier' = [supplier EXCEPT ![o] = x]
            /\ UNCHANGED <<status, ledger, notices>>
            => LifecycleStep
         /\ /\ HasDelivered(o) /\ status' = [status EXCEPT ![o] = "COMPLETED"]
            /\ notices' \in {notices, [notices EXCEPT ![o] = @ \cup {"completed"}]}
            /\ UNCHANGED <<ledger, supplier>>
            => LifecycleStep
         /\ /\ HasDelivered(o) /\ notices' = [notices EXCEPT ![o] = @ \cup {"completed"}]
            /\ UNCHANGED <<status, ledger, supplier>>
            => LifecycleStep
         /\ /\ "refund" \in ledger[o] /\ status' = [status EXCEPT ![o] = "REFUNDED"]
            /\ UNCHANGED <<ledger, notices, supplier>>
            => LifecycleStep
         /\ /\ "refund" \in ledger[o] /\ notices' = [notices EXCEPT ![o] = @ \cup {"failed"}]
            /\ UNCHANGED <<status, ledger, supplier>>
            => LifecycleStep
<1> DEFINE sup == [k \in Orders |-> HasDelivered(k)]
           sup1 == [k \in Orders |-> HasDelivered(k)']
<1>a. UNCHANGED supplier => sup1 = sup
  BY DEF HasDelivered
<1>b. sup[o] = HasDelivered(o)
  OBVIOUS
<1>1. ASSUME UNCHANGED <<status, ledger, notices>>,
             \A k \in Orders : HasDelivered(k)' <=> HasDelivered(k)
      PROVE  LifecycleStep
  <2>0. \A k \in Orders : HasDelivered(k)' = HasDelivered(k)
    BY <1>1 DEF HasDelivered
  <2>1. sup1 = sup
    BY <2>0
  <2>2. QED
    BY <1>1, <2>1 DEF LifecycleStep, Lifecycle!lifecycleVars
<1>2. ASSUME \E x \in {"FULFILLING", "FAILED"} : status' = [status EXCEPT ![o] = x],
             UNCHANGED <<ledger, notices, supplier>>
      PROVE  LifecycleStep
  <2>1. Lifecycle!Work(o)
    BY <1>2, <1>a DEF Lifecycle!Work
  <2>2. QED
    BY <2>1 DEF LifecycleStep, Lifecycle!LifecycleNext
<1>3. ASSUME NEW x \in {"charge", "refund"}, ledger' = [ledger EXCEPT ![o] = @ \cup {x}],
             UNCHANGED <<status, notices, supplier>>
      PROVE  LifecycleStep
  <2>1. CASE x \in ledger[o]
    <3>1. ledger' = ledger
      BY <1>3, <2>1 DEF RowsOK
    <3>2. QED
      BY <1>1, <1>3, <3>1 DEF HasDelivered
  <2>2. CASE x \notin ledger[o]
    <3>1. Lifecycle!Post(o, x)
      BY <1>3, <2>2, <1>a DEF Lifecycle!Post
    <3>2. QED
      BY <1>3, <3>1 DEF LifecycleStep, Lifecycle!LifecycleNext
  <2>3. QED
    BY <2>1, <2>2
<1>4. ASSUME NEW x \in {"allocated", "confirmed"}, supplier' = [supplier EXCEPT ![o] = x],
             UNCHANGED <<status, ledger, notices>>
      PROVE  LifecycleStep
  <2>0. supplier'[o] = x /\ \A k \in Orders : k # o => supplier'[k] = supplier[k]
    BY <1>4 DEF RowsOK
  <2>1. /\ HasDelivered(o)' = TRUE
        /\ \A k \in Orders : k # o => HasDelivered(k)' = HasDelivered(k)
    BY <2>0 DEF HasDelivered, Supplied
  <2>2. sup1 = [sup EXCEPT ![o] = TRUE]
    <3>1. \A k \in Orders : sup1[k] = [sup EXCEPT ![o] = TRUE][k]
      BY <2>1
    <3>2. QED
      BY <3>1
  <2>3. Lifecycle!Supply(o)
    BY <1>4, <2>2 DEF Lifecycle!Supply
  <2>4. QED
    BY <2>3 DEF LifecycleStep, Lifecycle!LifecycleNext
<1>5. ASSUME HasDelivered(o), status' = [status EXCEPT ![o] = "COMPLETED"],
             notices' \in {notices, [notices EXCEPT ![o] = @ \cup {"completed"}]},
             UNCHANGED <<ledger, supplier>>
      PROVE  LifecycleStep
  <2>1. Lifecycle!Complete(o)
    BY <1>5, <1>a, <1>b DEF Lifecycle!Complete
  <2>2. QED
    BY <2>1 DEF LifecycleStep, Lifecycle!LifecycleNext
<1>6. ASSUME HasDelivered(o), notices' = [notices EXCEPT ![o] = @ \cup {"completed"}],
             UNCHANGED <<status, ledger, supplier>>
      PROVE  LifecycleStep
  <2>1. Lifecycle!Show(o)
    BY <1>6, <1>a, <1>b DEF Lifecycle!Show
  <2>2. QED
    BY <2>1 DEF LifecycleStep, Lifecycle!LifecycleNext
<1>7. ASSUME "refund" \in ledger[o], status' = [status EXCEPT ![o] = "REFUNDED"],
             UNCHANGED <<ledger, notices, supplier>>
      PROVE  LifecycleStep
  <2>1. Lifecycle!Close(o)
    BY <1>7, <1>a DEF Lifecycle!Close
  <2>2. QED
    BY <2>1 DEF LifecycleStep, Lifecycle!LifecycleNext
<1>8. ASSUME "refund" \in ledger[o], notices' = [notices EXCEPT ![o] = @ \cup {"failed"}],
             UNCHANGED <<status, ledger, supplier>>
      PROVE  LifecycleStep
  <2>1. Lifecycle!Regret(o)
    BY <1>8, <1>a DEF Lifecycle!Regret
  <2>2. QED
    BY <2>1 DEF LifecycleStep, Lifecycle!LifecycleNext
<1>9. QED
  BY <1>1, <1>2, <1>3, <1>4, <1>5, <1>6, <1>7, <1>8

\* The routines of FulfillmentService, each a step of the lifecycle.
LEMMA ServiceLives ==
  ASSUME SettleInv, NEW p \in Procs, Service(p), status[OrderOf(p)] # "none"
  PROVE  LifecycleStep
<1> DEFINE o == OrderOf(p)
<1>a. RowsOK /\ RouteOK(p)
  BY DEF SettleInv, TypeOK
<1>b. pc[p] # "idle" => o \in Orders
  BY DEF SettleInv, TypeOK, ProcsOK
<1>1. CASE CompleteRead(p) \/ SaveProfile(p) \/ CompleteTopUpRead(p) \/ RefundRead(p)
  <2>1. pc[p] # "idle" /\ UNCHANGED <<status, ledger, notices, supplier>>
    BY <1>1 DEF CompleteRead, SaveProfile, CompleteTopUpRead, RefundRead, serviceVars
  <2>2. QED
    BY <1>a, <1>b, <2>1, LifecycleSteps DEF HasDelivered
<1>2. CASE MarkFailed(p)
  <2>1. /\ pc[p] # "idle" /\ status' = [status EXCEPT ![o] = "FAILED"]
        /\ UNCHANGED <<ledger, notices, supplier>>
    BY <1>2 DEF MarkFailed
  <2>2. QED
    BY <1>a, <1>b, <2>1, LifecycleSteps
<1>3. CASE MarkCompleted(p)
  <2>1. /\ pc[p] = "markCompleted" /\ status' = [status EXCEPT ![o] = "COMPLETED"]
        /\ UNCHANGED <<ledger, notices, supplier>>
    BY <1>3 DEF MarkCompleted
  <2>2. HasDelivered(o)
    BY <1>a, <2>1 DEF RouteOK, HasDelivered
  <2>3. QED
    BY <1>a, <1>b, <2>1, <2>2, LifecycleSteps
<1>4. CASE MarkToppedUp(p)
  <2>1. /\ pc[p] = "markToppedUp" /\ status' = [status EXCEPT ![o] = "COMPLETED"]
        /\ notices' = [notices EXCEPT ![o] = @ \cup {"completed"}] /\ UNCHANGED <<ledger, supplier>>
    BY <1>4 DEF MarkToppedUp
  <2>2. HasDelivered(o)
    BY <1>a, <2>1 DEF RouteOK, HasDelivered
  <2>3. QED
    BY <1>a, <1>b, <2>1, <2>2, LifecycleSteps
<1>5. CASE AnnounceCompleted(p)
  <2>1. /\ pc[p] = "announce" /\ notices' = [notices EXCEPT ![o] = @ \cup {"completed"}]
        /\ UNCHANGED <<status, ledger, supplier>>
    BY <1>5 DEF AnnounceCompleted
  <2>2. HasDelivered(o)
    BY <1>a, <2>1 DEF RouteOK, HasDelivered
  <2>3. QED
    BY <1>a, <1>b, <2>1, <2>2, LifecycleSteps
<1>6. CASE CancelEsim(p) \/ RevokeEsim(p)
  <2>1. /\ pc[p] # "idle" /\ UNCHANGED <<status, ledger, notices>>
        /\ \/ UNCHANGED supplier
           \/ supplier[o] = "allocated" /\ supplier' = [supplier EXCEPT ![o] = "cancelled"]
           \/ supplier[o] = "allocated" /\ supplier' = [supplier EXCEPT ![o] = "revoked"]
    BY <1>6 DEF CancelEsim, RevokeEsim
  <2>2. \A k \in Orders : HasDelivered(k)' <=> HasDelivered(k)
    BY <1>a, <1>b, <2>1 DEF HasDelivered, Supplied, RowsOK
  <2>3. QED
    BY <1>a, <1>b, <2>1, <2>2, LifecycleSteps
<1>7. CASE CreditRefund(p)
  <2>1. /\ pc[p] # "idle" /\ ledger' = [ledger EXCEPT ![o] = @ \cup {"refund"}]
        /\ UNCHANGED <<status, notices, supplier>>
    BY <1>7 DEF CreditRefund
  <2>2. QED
    BY <1>a, <1>b, <2>1, LifecycleSteps
<1>8. CASE MarkRefunded(p)
  <2>1. /\ pc[p] = "markRefunded" /\ status' = [status EXCEPT ![o] = "REFUNDED"]
        /\ UNCHANGED <<ledger, notices, supplier>>
    BY <1>8 DEF MarkRefunded
  <2>2. "refund" \in ledger[o]
    BY <1>a, <2>1 DEF RouteOK
  <2>3. QED
    BY <1>a, <1>b, <2>1, <2>2, LifecycleSteps
<1>9. CASE AnnounceFailed(p)
  <2>1. /\ pc[p] = "announceFailed" /\ notices' = [notices EXCEPT ![o] = @ \cup {"failed"}]
        /\ UNCHANGED <<status, ledger, supplier>>
    BY <1>9 DEF AnnounceFailed
  <2>2. "refund" \in ledger[o]
    BY <1>a, <2>1 DEF RouteOK
  <2>3. QED
    BY <1>a, <1>b, <2>1, <2>2, LifecycleSteps
<1>10. QED
  BY <1>1, <1>2, <1>3, <1>4, <1>5, <1>6, <1>7, <1>8, <1>9 DEF Service, ServiceStep

\* What the handlers and workers do to the rows on their own.
LEMMA ActorLives ==
  ASSUME SettleInv, NEW p \in Procs, status[OrderOf(p)] # "none",
         \/ FulfilWorker(p) \/ PollWorker(p) \/ TopUpWorker(p)
         \/ Checkout(p) \/ Webhook(p) \/ Request(p)
         \/ Throw(p)
  PROVE  LifecycleStep
<1> DEFINE o == OrderOf(p)
<1>a. RowsOK
  BY DEF SettleInv, TypeOK
<1>b. pc[p] # "idle" => o \in Orders
  BY DEF SettleInv, TypeOK, ProcsOK
<1>1. CASE MarkUnpaid(p) \/ Start(p) \/ Resume(p) \/ TopUpResume(p) \/ RetryMark(p)
  <2>1. /\ pc[p] # "idle" /\ UNCHANGED <<ledger, notices, supplier>>
        /\ \E x \in {"FULFILLING", "FAILED"} : status' = [status EXCEPT ![o] = x]
    BY <1>1 DEF MarkUnpaid, Start, Resume, TopUpResume, RetryMark
  <2>2. QED
    BY <1>a, <1>b, <2>1, LifecycleSteps
<1>2. CASE Debit(p)
  <2>1. /\ pc[p] # "idle" /\ UNCHANGED <<status, notices, supplier>>
        /\ UNCHANGED ledger \/ ledger' = [ledger EXCEPT ![o] = @ \cup {"charge"}]
    BY <1>2 DEF Debit
  <2>2. QED
    BY <1>a, <1>b, <2>1, LifecycleSteps DEF HasDelivered
<1>3. CASE CreateOrder(p)
  <2>1. /\ pc[p] # "idle" /\ UNCHANGED <<status, ledger, notices>>
        /\ \/ UNCHANGED supplier
           \/ supplier[o] = "none" /\ supplier' = [supplier EXCEPT ![o] = "accepted"]
    BY <1>3 DEF CreateOrder
  <2>2. \A k \in Orders : HasDelivered(k)' <=> HasDelivered(k)
    BY <1>a, <1>b, <2>1 DEF HasDelivered, Supplied, RowsOK
  <2>3. QED
    BY <1>a, <1>b, <2>1, <2>2, LifecycleSteps
<1>4. CASE TopUpCall(p)
  <2>1. /\ pc[p] # "idle" /\ UNCHANGED <<status, ledger, notices>>
        /\ \/ UNCHANGED supplier
           \/ supplier[o] = "none" /\ supplier' = [supplier EXCEPT ![o] = "applied"]
           \/ supplier' = [supplier EXCEPT ![o] = "confirmed"]
    BY <1>4 DEF TopUpCall
  <2>2. CASE supplier[o] = "none" /\ supplier' = [supplier EXCEPT ![o] = "applied"]
    <3>1. \A k \in Orders : HasDelivered(k)' <=> HasDelivered(k)
      BY <1>a, <1>b, <2>1, <2>2 DEF HasDelivered, Supplied, RowsOK
    <3>2. QED
      BY <1>a, <1>b, <2>1, <3>1, LifecycleSteps
  <2>3. QED
    BY <1>a, <1>b, <2>1, <2>2, LifecycleSteps DEF HasDelivered
<1>5. CASE \/ FulfilRead(p) \/ SaveOrder(p) \/ Schedule(p) \/ PollWorker(p) \/ TopUpRead(p)
           \/ Enqueue(p) \/ Webhook(p) \/ RefreshQuery(p) \/ RetryEnqueue(p) \/ SweepAdd(p) \/ Throw(p)
  <2>1. pc[p] # "idle" /\ UNCHANGED <<status, ledger, notices, supplier>>
    BY <1>5 DEF FulfilRead, SaveOrder, Schedule, PollWorker, PollRead, PollQuery, PollNext, TopUpRead,
           Enqueue, Webhook, HookLookup, HookQuery, HookMark, RefreshQuery, RetryEnqueue, SweepAdd,
           Throw, serviceVars
  <2>2. QED
    BY <1>a, <1>b, <2>1, LifecycleSteps DEF HasDelivered
<1>6. QED
  BY <1>1, <1>2, <1>3, <1>4, <1>5 DEF FulfilWorker, TopUpWorker, Checkout, Request

\* A process's step keeps what is known of placed orders: its own order stays
\* placed, the others are as they were.
LEMMA StepPlaced ==
  ASSUME TypeOK, PlacedOK, NEW p \in Procs, Step(p) \/ Throw(p)
  PROVE  PlacedOK'
<1>a. RowsOK /\ Confined(p) /\ ProcsOK
  BY StepConfined DEF TypeOK
<1>1. pc[p] # "idle" /\ OrderOf(p) \in Orders /\ status[OrderOf(p)] # "none"
  BY <1>a, StepOrder DEF Throw, PlacedOK, ProcsOK, Works
<1>2. \/ UNCHANGED status
      \/ \E x \in Statuses \ {"none"} : status' = [status EXCEPT ![OrderOf(p)] = x]
  <2>1. CASE Service(p)
    BY <2>1 DEF Service, ServiceStep, CompleteRead, SaveProfile, MarkCompleted, Statuses,
         AnnounceCompleted, CancelEsim, RevokeEsim, CompleteTopUpRead, MarkToppedUp,
         RefundRead, MarkFailed, CreditRefund, MarkRefunded, AnnounceFailed, serviceVars
  <2>2. CASE Throw(p) \/ FulfilWorker(p) \/ PollWorker(p) \/ TopUpWorker(p)
    BY <2>2 DEF Throw, FulfilWorker, PollWorker, Statuses,
         TopUpWorker, FulfilRead, Resume, CreateOrder, SaveOrder, Schedule, PollRead,
         PollQuery, PollNext, TopUpRead, TopUpResume, TopUpCall, serviceVars
  <2>3. CASE Checkout(p) \/ Webhook(p) \/ Request(p)
    BY <2>3 DEF Checkout, Webhook, Request, Statuses,
         Debit, MarkUnpaid, Start, Enqueue, HookLookup, HookQuery, HookMark, RefreshQuery,
         RetryMark, RetryEnqueue, SweepAdd, serviceVars
  <2>4. QED
    BY <2>1, <2>2, <2>3 DEF Step
<1>3. \A o \in Orders : status[o] # "none" => status'[o] # "none"
  BY <1>a, <1>1, <1>2 DEF RowsOK
<1>4. \A o \in Orders : supplier'[o] # "none" => status'[o] # "none"
  BY <1>a, <1>1, <1>3 DEF Confined, OwnRows, PlacedOK
<1>5. \A q \in Queues : \A j \in jobs'[q] : status'[j.order] # "none"
  <2> SUFFICES ASSUME NEW q \in Queues, NEW j \in jobs'[q] PROVE status'[j.order] # "none"
    OBVIOUS
  <2>1. CASE j.order = OrderOf(p)
    BY <1>1, <1>3, <2>1
  <2>2. CASE j \in jobs[q]
    BY <1>a, <1>3, <2>2 DEF PlacedOK, RowsOK, Job
  <2>3. QED
    BY <1>a, <2>1, <2>2 DEF Confined, OwnJobs
<1>6. \A q \in Procs : pc'[q] # "idle" => status'[OrderOf(q)'] # "none"
  <2> SUFFICES ASSUME NEW q \in Procs, pc'[q] # "idle" PROVE status'[OrderOf(q)'] # "none"
    OBVIOUS
  <2>1. CASE q = p
    BY <1>a, <1>1, <1>3, <2>1 DEF Confined, Stays
  <2>2. CASE q # p
    BY <1>a, <1>3, <2>2 DEF Confined, Stays, OnlyMoves, OrderOf, PlacedOK, ProcsOK
  <2>3. QED
    BY <2>1, <2>2
<1>7. QED
  BY <1>4, <1>5, <1>6 DEF PlacedOK

\* A call starts only for an order that is placed, or places it.
LEMMA EntryPlaces ==
  ASSUME SettleInv, PlacedOK, NEW h \in Handlers, NEW x \in Orders, NEW t \in NoteTypes,
         Create(h, x) \/ Refresh(h, x) \/ Sweep(h, x) \/ HookBegin(h, x, t)
  PROVE  PlacedOK' /\ LifecycleStep
<1>a. TypeOK /\ RowsOK
  BY DEF SettleInv, TypeOK
<1>b. /\ UNCHANGED <<ledger, supplier, notices, jobs>>
      /\ OrderOf(h)' = x
      /\ \A q \in Procs : q # h => pc'[q] = pc[q] /\ OrderOf(q)' = OrderOf(q)
  <2>1. UNCHANGED notices
    BY DEF Create, Refresh, Sweep, HookBegin, serviceVars
  <2>2. QED
    BY <1>a, <2>1, EntryStarts
<1>1. CASE Create(h, x)
  <2>1. Lifecycle!Place(x)
    BY <1>1, <1>b DEF Create, Lifecycle!Place, HasDelivered
  <2>2. status'[x] = "PAID" /\ \A o \in Orders : o # x => status'[o] = status[o]
    BY <1>1, <1>a DEF Create, RowsOK
  <2>3. LifecycleStep
    BY <2>1 DEF LifecycleStep, Lifecycle!LifecycleNext
  <2>4. \A o \in Orders : status[o] # "none" => status'[o] # "none"
    BY <2>2
  <2>5. \A q \in Queues : \A j \in jobs[q] : j.order \in Orders
    BY <1>a DEF RowsOK, Job
  <2>6. \A q \in Procs : pc'[q] # "idle" => status'[OrderOf(q)'] # "none"
    BY <1>a, <1>b, <2>2, <2>4 DEF PlacedOK, TypeOK, ProcsOK
  <2>7. QED
    BY <1>b, <2>3, <2>4, <2>5, <2>6 DEF PlacedOK
<1>2. CASE Refresh(h, x) \/ Sweep(h, x) \/ HookBegin(h, x, t)
  <2>1. status[x] # "none"
    BY <1>2 DEF Refresh, Sweep, HookBegin, PlacedOK, SettleInv, OrdersOK,
                CompletedMeansDelivered, Supplied
  <2>2. status' = status
    BY <1>2 DEF Refresh, Sweep, HookBegin, serviceVars
  <2>3. LifecycleStep
    BY <1>a, <1>b, <2>1, <2>2, LifecycleSteps DEF HasDelivered
  <2>4. QED
    BY <1>b, <2>1, <2>2, <2>3 DEF PlacedOK
<1>3. QED
  BY <1>1, <1>2

\* So does an admin's retry.
LEMMA RetryPlaced ==
  ASSUME TypeOK, PlacedOK, NEW h \in Handlers, NEW x \in Orders, Retry(h, x)
  PROVE  PlacedOK' /\ LifecycleStep
<1>1. UNCHANGED <<serviceVars, jobs>> /\ Begin(h, "retryMark", x) /\ h \in Procs
  BY ConstantsOK DEF Retry, queueVars
<1>2. status[x] # "none"
  BY DEF Retry
<1>3. OrderOf(h)' = x /\ \A q \in Procs : q # h => pc'[q] = pc[q] /\ OrderOf(q)' = OrderOf(q)
  <2>1. PICK c : c.order = x /\ ctx' = [ctx EXCEPT ![h] = c]
    <3>1. "ORDER_STATUS" \in NoteTypes /\ TRUE \in BOOLEAN
      BY DEF NoteTypes
    <3>2. QED
      BY <1>1, <3>1, BeginCtx DEF Begin
  <2>2. pc' = [pc EXCEPT ![h] = "retryMark"] /\ ProcsOK
    BY <1>1 DEF Begin, TypeOK
  <2>3. QED
    BY <1>1, <2>1, <2>2 DEF ProcsOK, OrderOf
<1>4. LifecycleStep
  BY <1>1, <1>2, LifecycleSteps DEF HasDelivered, serviceVars, TypeOK
<1>5. QED
  BY <1>1, <1>2, <1>3, <1>4 DEF PlacedOK, serviceVars

\* A worker that takes a job, a restart, Redis and stuttering touch no row.
LEMMA WorldPlaced ==
  ASSUME TypeOK, PlacedOK,
         \/ \E q \in Queues : \E j \in jobs[q] : Take(q, j)
         \/ \E x \in Purchases : \E n \in 1..MaxPolls : EvictPollId(x, n)
         \/ Crash \/ UNCHANGED vars
  PROVE  PlacedOK' /\ LifecycleStep
<1>a. RowsOK /\ ProcsOK /\ Queues \subseteq Procs
  BY ConstantsOK DEF TypeOK
<1>1. UNCHANGED <<status, ledger, supplier, notices>>
  BY DEF Take, EvictPollId, Crash, vars, serviceVars
<1>2. LifecycleStep
  BY <1>1 DEF LifecycleStep, Lifecycle!lifecycleVars, HasDelivered
<1>3. ASSUME NEW w \in Queues, NEW j \in jobs[w], Take(w, j) PROVE PlacedOK'
  <2>1. status[j.order] # "none"
    BY <1>3 DEF PlacedOK
  <2>2. OnlyMoves(w) /\ OrderOf(w)' = j.order
    <3>1. /\ pc' = [pc EXCEPT ![w] = FirstLabel[w]]
          /\ ctx' = [ctx EXCEPT ![w] = [NoCtx EXCEPT !.order = j.order, !.job = j]]
      BY <1>3 DEF Take
    <3>2. [NoCtx EXCEPT !.order = j.order, !.job = j].order = j.order
      BY DEF NoCtx
    <3>3. pc \in [Procs -> Labels] /\ ctx \in [Procs -> CtxType] /\ w \in Procs
      BY <1>a DEF ProcsOK
    <3>4. QED
      BY <3>1, <3>2, <3>3 DEF OnlyMoves, OrderOf
  <2>3. \A q \in Queues : jobs'[q] \subseteq jobs[q]
    BY <1>a, <1>3 DEF Take, RowsOK
  <2>4. QED
    BY <1>1, <2>1, <2>2, <2>3 DEF PlacedOK, OnlyMoves, OrderOf
<1>4. CASE Crash
  <2>1. \A q \in Queues : pc[q] # "idle" => status[ctx[q].job.order] # "none"
    BY <1>a DEF ProcsOK, PlacedOK
  <2>2. \A q \in Queues : \A j \in jobs'[q] : status[j.order] # "none"
    BY <1>4, <2>1 DEF Crash, PlacedOK
  <2>3. \A p \in Procs : pc'[p] = "idle"
    BY <1>4 DEF Crash
  <2>4. QED
    BY <1>1, <1>2, <2>2, <2>3 DEF PlacedOK
<1>5. ASSUME UNCHANGED <<jobs, procVars>> PROVE PlacedOK'
  <2>1. UNCHANGED jobs /\ \A p \in Procs : pc'[p] = pc[p] /\ OrderOf(p)' = OrderOf(p)
    BY <1>5 DEF procVars, OrderOf
  <2>2. QED
    BY <1>1, <2>1 DEF PlacedOK
<1>6. QED
  BY <1>2, <1>3, <1>4, <1>5 DEF EvictPollId, vars, queueVars

\* The supplier allocates the profile of an order it has accepted.
LEMMA AllocatePlaced ==
  ASSUME TypeOK, PlacedOK, NEW x \in Purchases, Allocate(x)
  PROVE  PlacedOK' /\ LifecycleStep
<1>1. x \in Orders /\ RowsOK
  BY OrdersAssumption, ConstantsOK DEF TypeOK
<1>2. /\ supplier[x] = "accepted" /\ supplier' = [supplier EXCEPT ![x] = "allocated"]
      /\ UNCHANGED <<status, ledger, notices, jobs, procVars>>
  BY DEF Allocate, queueVars
<1>3. status[x] # "none"
  BY <1>1, <1>2 DEF PlacedOK
<1>4. LifecycleStep
  BY <1>1, <1>2, <1>3, LifecycleSteps
<1>5. \A o \in Orders : supplier'[o] # "none" => status[o] # "none"
  BY <1>1, <1>2, <1>3 DEF PlacedOK, RowsOK
<1>6. QED
  BY <1>2, <1>4, <1>5 DEF PlacedOK, procVars, OrderOf

\* The two halves of the refinement: initial states and steps.
LEMMA LifecycleStarts ==
  ASSUME Init PROVE PlacedOK /\ Lifecycle!LifecycleInit
<1>1. /\ \A o \in Orders : supplier[o] = "none" /\ HasDelivered(o) = FALSE
      /\ \A q \in Queues : jobs[q] = {}
      /\ \A p \in Procs : pc[p] = "idle"
  BY DEF Init, HasDelivered, Supplied
<1>2. PlacedOK
  BY <1>1 DEF PlacedOK
<1>3. [o \in Orders |-> HasDelivered(o)] = [o \in Orders |-> FALSE]
  BY <1>1
<1>4. Lifecycle!LifecycleInit
  BY <1>3 DEF Init, Lifecycle!LifecycleInit
<1>5. QED
  BY <1>2, <1>4

LEMMA LifecycleGoesOn ==
  ASSUME SettleInv, PlacedOK, [Next]_vars PROVE PlacedOK' /\ LifecycleStep
<1>a. TypeOK
  BY DEF SettleInv
<1>1. ASSUME NEW p \in Procs, Step(p) \/ Throw(p) PROVE PlacedOK' /\ LifecycleStep
  <2>1. status[OrderOf(p)] # "none"
    BY <1>a, <1>1, StepOrder DEF Throw, PlacedOK, Works
  <2>2. LifecycleStep
    BY <1>1, <2>1, ServiceLives, ActorLives DEF Step
  <2>3. QED
    BY <1>a, <1>1, <2>2, StepPlaced
<1>2. ASSUME NEW h \in Handlers, NEW x \in Orders, Create(h, x) \/ Refresh(h, x) \/ Sweep(h, x)
      PROVE  PlacedOK' /\ LifecycleStep
  <2>1. "ORDER_STATUS" \in NoteTypes
    BY DEF NoteTypes
  <2>2. QED
    BY <1>2, <2>1, EntryPlaces
<1>3. ASSUME NEW h \in Handlers, NEW x \in Purchases, NEW t \in NoteTypes, HookBegin(h, x, t)
      PROVE  PlacedOK' /\ LifecycleStep
  BY <1>3, EntryPlaces, ConstantsOK
<1>4. ASSUME NEW h \in Handlers, NEW x \in Orders, Retry(h, x)
      PROVE  PlacedOK' /\ LifecycleStep
  BY <1>a, <1>4, RetryPlaced
<1>5. CASE \/ \E q \in Queues : \E j \in jobs[q] : Take(q, j)
           \/ \E x \in Purchases : \E n \in 1..MaxPolls : EvictPollId(x, n)
           \/ Crash \/ UNCHANGED vars
  BY <1>a, <1>5, WorldPlaced
<1>6. ASSUME NEW x \in Purchases, Allocate(x) PROVE PlacedOK' /\ LifecycleStep
  BY <1>a, <1>6, AllocatePlaced
<1>7. QED
  BY <1>1, <1>2, <1>3, <1>4, <1>5, <1>6 DEF Next

\* eSIM purchases and top-ups implement the order lifecycle: whatever is
\* retried, swept, thrown or crashes, every step of checkout, workers, webhook
\* and refreshes is a step of it or changes nothing it shows.
THEOREM Refinement == Spec => ImplementsLifecycle
<1>1. Init => PlacedOK /\ Lifecycle!LifecycleInit
  BY LifecycleStarts
<1>2. SettleInv /\ PlacedOK /\ [Next]_vars
        => PlacedOK' /\ [Lifecycle!LifecycleNext]_(Lifecycle!lifecycleVars)
  BY LifecycleGoesOn DEF LifecycleStep
<1>3. QED
  BY <1>1, <1>2, SettleInvHolds, PTL DEF Spec, ImplementsLifecycle, Lifecycle!LifecycleSpec

\* So no eSIM or top-up order reads, or was announced, as completed without the
\* supplier having delivered, or as refunded without the money back, and neither
\* wallet nor supplier touches one that was not placed.
THEOREM Honesty == Spec => []Lifecycle!Honest
<1>1. Init => PlacedOK /\ Lifecycle!Honest
  BY LifecycleStarts DEF Lifecycle!LifecycleInit, Lifecycle!Honest
<1>2. SettleInv /\ PlacedOK /\ Lifecycle!Honest /\ [Next]_vars => PlacedOK' /\ Lifecycle!Honest'
  <2> SUFFICES ASSUME SettleInv, PlacedOK, Lifecycle!Honest, [Next]_vars PROVE Lifecycle!Honest'
    BY LifecycleGoesOn
  <2> DEFINE sup == [k \in Orders |-> HasDelivered(k)]
             sup1 == [k \in Orders |-> (HasDelivered(k))']
             Truth(s, m, d, n) == /\ s = "COMPLETED" \/ n \cap {"completed", "shown"} # {} => d
                                  /\ s = "REFUNDED" \/ "failed" \in n => "refund" \in m
                                  /\ d \/ m # {} => s # "none"
  <2>1. RowsOK /\ \A o \in Orders : Truth(status[o], ledger[o], sup[o], notices[o])
    BY DEF SettleInv, TypeOK, Lifecycle!Honest
  <2>2. ASSUME NEW o \in Orders PROVE Truth(status'[o], ledger'[o], sup1[o], notices'[o])
    <3>1. Truth(status[o], ledger[o], sup[o], notices[o])
      BY <2>1
    <3>2. CASE UNCHANGED Lifecycle!lifecycleVars
      <4>1. UNCHANGED <<status, ledger, notices>> /\ sup1 = sup
        BY <3>2 DEF Lifecycle!lifecycleVars
      <4> QED BY <3>1, <4>1
    <3>3. CASE Lifecycle!LifecycleNext
      <4>1. PICK k \in Orders :
              \/ Lifecycle!Place(k) \/ Lifecycle!Work(k) \/ Lifecycle!Supply(k)
              \/ Lifecycle!Post(k, "charge") \/ Lifecycle!Post(k, "refund")
              \/ Lifecycle!Complete(k) \/ Lifecycle!Close(k) \/ Lifecycle!Regret(k)
              \/ Lifecycle!Show(k)
        BY <3>3 DEF Lifecycle!LifecycleNext
      <4>2. CASE Lifecycle!Place(k) \/ Lifecycle!Work(k)
        <5>1. /\ UNCHANGED <<ledger, notices>> /\ sup1 = sup
              /\ \E s \in {"PAID", "FULFILLING", "FAILED"} : status' = [status EXCEPT ![k] = s]
          BY <4>2 DEF Lifecycle!Place, Lifecycle!Work
        <5> QED BY <2>1, <3>1, <5>1 DEF RowsOK
      <4>3. CASE Lifecycle!Supply(k)
        <5>1. /\ UNCHANGED <<status, ledger, notices>> /\ status[k] # "none"
              /\ sup1 = [sup EXCEPT ![k] = TRUE]
          BY <4>3 DEF Lifecycle!Supply
        <5>2. o # k => sup1[o] = sup[o]
          BY <5>1
        <5> QED BY <3>1, <5>1, <5>2
      <4>4. CASE Lifecycle!Post(k, "charge") \/ Lifecycle!Post(k, "refund")
        <5>1. /\ UNCHANGED <<status, notices>> /\ sup1 = sup /\ status[k] # "none"
              /\ \E m \in {"charge", "refund"} : ledger' = [ledger EXCEPT ![k] = @ \cup {m}]
          BY <4>4 DEF Lifecycle!Post
        <5> QED BY <2>1, <3>1, <5>1 DEF RowsOK
      <4>5. CASE Lifecycle!Complete(k) \/ Lifecycle!Show(k)
        <5>1. /\ UNCHANGED ledger /\ sup1 = sup /\ sup[k]
              /\ status' \in {status, [status EXCEPT ![k] = "COMPLETED"]}
              /\ \E n \in SUBSET {"completed", "shown"} : notices' = [notices EXCEPT ![k] = @ \cup n]
          <6>1. notices = [notices EXCEPT ![k] = @ \cup {}]
            BY <2>1 DEF RowsOK
          <6> QED BY <4>5, <6>1 DEF Lifecycle!Complete, Lifecycle!Show
        <5>2. status[k] # "none"
          BY <2>1, <5>1
        <5> QED BY <2>1, <3>1, <5>1, <5>2 DEF RowsOK
      <4>6. CASE Lifecycle!Close(k) \/ Lifecycle!Regret(k)
        <5>1. /\ UNCHANGED ledger /\ sup1 = sup /\ "refund" \in ledger[k]
              /\ status' \in {status, [status EXCEPT ![k] = "REFUNDED"]}
              /\ notices' \in {notices, [notices EXCEPT ![k] = @ \cup {"failed"}]}
          BY <4>6 DEF Lifecycle!Close, Lifecycle!Regret
        <5> QED BY <2>1, <3>1, <5>1 DEF RowsOK
      <4> QED BY <4>1, <4>2, <4>3, <4>4, <4>5, <4>6
    <3> QED BY <3>2, <3>3, LifecycleGoesOn DEF LifecycleStep
  <2> QED BY <2>2 DEF Lifecycle!Honest
<1> QED BY <1>1, <1>2, SettleInvHolds, PTL DEF Spec
=============================================================================
