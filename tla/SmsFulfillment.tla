--------------------------- MODULE SmsFulfillment ---------------------------
(***************************************************************************)
(* SMSPool orders: one-time verification numbers, number rentals and the   *)
(* extensions of a rental, from checkout to the code or the active number: *)
(* the checkout, the fulfil and poll workers, SMSPool's webhook and the    *)
(* customer's refund of a rental.  refundAndFail is that of module         *)
(* FulfillmentService.  One action per await; any of them may throw, and   *)
(* the process may crash and restart.  No sweep looks after these orders.  *)
(* Delays and the expiry of a number may be due at any time.  The inbox of *)
(* an active rental and its auto-extend flag are left out: no order        *)
(* depends on them.                                                        *)
(***************************************************************************)
EXTENDS Naturals

CONSTANTS Verifications, \* SMS_ONE_TIME orders
          Rentals,       \* NUMBER_RENTAL orders
          Extensions,    \* NUMBER_RENTAL_EXTEND orders
          Handlers,      \* concurrently running HTTP requests and webhooks
          NoOrder,       \* the order of an idle process
          MaxAttempts,   \* bound for SMSPOOL_FULFILL_JOB_ATTEMPTS (3 in the code)
          MaxPolls,      \* bound for SMSPOOL_MAX_POLL_ATTEMPTS (40 in the code)
          MaxFaults      \* bound: failed calls and crashes together; one crash at
                         \* most, as BullMQ re-runs a stalled job only once

Orders == Verifications \cup Rentals \cup Extensions

VARIABLES status,    \* Order.status; "none" before the order exists
          ledger,    \* wallet postings of the order: "charge" and "refund"
          item,      \* SmsVerification or NumberRental row: status, provider's code on file
          provider,  \* SMSPool's side: units it sold for the order, and of the number on
                     \* file whether it delivered, and whether it was cancelled or refunded
          notices,   \* what the customer was told: "completed", "failed"
          jobs, pollIds, pc, ctx,    \* as in FulfillmentService
          throws, crashes            \* how much of the bound is used

\* The shared fulfilment service, over SMS orders; no job has a timestamped id.
F == INSTANCE FulfillmentService WITH
       Purchases <- Orders, TopUps <- {}, MaxTags <- 0, profile <- item, supplier <- provider

ASSUME KindsAssumption ==
  /\ Verifications \cap Rentals = {} /\ Verifications \cap Extensions = {}
  /\ Rentals \cap Extensions = {} /\ NoOrder \notin Orders
ASSUME HandlersAssumption == Handlers \cap {"fulfil", "poll", "topup"} = {}
ASSUME BoundsAssumption == MaxAttempts \in Nat \ {0} /\ MaxPolls \in Nat \ {0} /\ MaxFaults \in Nat

rows == <<status, ledger, item, provider, notices>>
queueVars == <<jobs, pollIds>>
procVars == <<pc, ctx>>
budgets == <<throws, crashes>>
vars == <<rows, queueVars, procVars, budgets>>

Queues == {"fulfil", "poll"}   \* one worker per queue, concurrency 1
Procs == Queues \cup Handlers
Terminal == {"COMPLETED", "REFUNDED"}
RowStates ==
  {"none", "PENDING", "AWAITING_SMS", "PENDING_ACTIVATION", "ACTIVE",
   "COMPLETED", "EXPIRED", "FAILED", "REFUNDED"}
OrderOf(p) == F!OrderOf(p)
Goto(p, label) == F!Goto(p, label)
Finish(p) == F!Finish(p)
Carry(p, s, label) == ctx' = [ctx EXCEPT ![p].seen = s] /\ Goto(p, label)

Begin(p, label, o) ==
  /\ pc[p] = "idle"
  /\ pc' = [pc EXCEPT ![p] = label]
  /\ ctx' = [ctx EXCEPT ![p] = [F!NoCtx EXCEPT !.order = o]]

\* One more call fails.
Fault == throws + crashes < MaxFaults /\ throws' = throws + 1

\* The provider sells one more unit for order o.
Sell(o) == provider' = [provider EXCEPT ![o].units = @ + 1]

Init ==
  /\ status = [o \in Orders |-> "none"]
  /\ ledger = [o \in Orders |-> {}]
  /\ item = [o \in Orders |-> [state |-> "none", code |-> FALSE]]
  /\ provider = [o \in Orders |-> [units |-> 0, delivered |-> FALSE, reversed |-> FALSE]]
  /\ notices = [o \in Orders |-> {}]
  /\ jobs = [q \in Queues |-> {}]
  /\ pollIds = [o \in Orders |-> {}]
  /\ pc = [p \in Procs |-> "idle"]
  /\ ctx = [p \in Procs |-> F!NoCtx]
  /\ throws = 0 /\ crashes = 0

-----------------------------------------------------------------------------
(* SmsOrdersService: createVerification, createRental, extendRental          *)

\* An extension needs a rental that is issued and neither failed nor refunded;
\* the rental's code, once on file, stays.
Extendable(r) == item[r].code /\ item[r].state \in {"ACTIVE", "PENDING_ACTIVATION"}

Create(h, o) ==
  /\ status[o] = "none" /\ (o \in Extensions => \E r \in Rentals : Extendable(r))
  /\ status' = [status EXCEPT ![o] = "PAID"]
  /\ Begin(h, IF o \in Extensions THEN "debit" ELSE "issue", o)
  /\ UNCHANGED <<ledger, item, provider, notices, queueVars, budgets>>

CreateItem(h) ==
  /\ pc[h] = "issue"
  /\ item' = [item EXCEPT ![OrderOf(h)].state = "PENDING"]
  /\ Goto(h, "debit")
  /\ UNCHANGED <<status, ledger, provider, notices, ctx, queueVars, budgets>>

\* wallet.debit: charged, refused, or committed with the answer lost.
Debit(h) ==
  LET Charge == ledger' = [ledger EXCEPT ![OrderOf(h)] = @ \cup {"charge"}] IN
  /\ pc[h] = "debit"
  /\ \/ Charge /\ Goto(h, "start") /\ UNCHANGED throws
     \/ Goto(h, "markUnpaid") /\ UNCHANGED <<ledger, throws>>
     \/ Fault /\ Charge /\ Goto(h, "markUnpaid")
  /\ UNCHANGED <<status, item, provider, notices, ctx, queueVars, crashes>>

MarkUnpaid(h) ==
  /\ pc[h] = "markUnpaid"
  /\ status' = [status EXCEPT ![OrderOf(h)] = "FAILED"]
  /\ Finish(h)
  /\ UNCHANGED <<ledger, item, provider, notices, queueVars, budgets>>

Start(h) ==
  /\ pc[h] = "start"
  /\ status' = [status EXCEPT ![OrderOf(h)] = "FULFILLING"]
  /\ Goto(h, "enqueue")
  /\ UNCHANGED <<ledger, item, provider, notices, ctx, queueVars, budgets>>

\* The checkout's job has the order's id; it is queued once.
Enqueue(h) ==
  /\ pc[h] = "enqueue"
  /\ jobs' = [jobs EXCEPT !["fulfil"] = @ \cup {[order |-> OrderOf(h), tag |-> 0, n |-> 0]}]
  /\ Finish(h)
  /\ UNCHANGED <<rows, pollIds, budgets>>

-----------------------------------------------------------------------------
(* The queues, and failAndRefund                                             *)

Take(q, j) ==
  /\ pc[q] = "idle" /\ j \in jobs[q]
  /\ jobs' = [jobs EXCEPT ![q] = @ \ {j}]
  /\ pc' = [pc EXCEPT ![q] = IF q = "fulfil" THEN "fulfilRead" ELSE "pollRead"]
  /\ ctx' = [ctx EXCEPT ![q] = [F!NoCtx EXCEPT !.order = j.order, !.job = j]]
  /\ UNCHANGED <<rows, pollIds, budgets>>

LastAttempt(p) == ctx[p].job.n + 1 >= MaxAttempts

\* A process throws: BullMQ runs a fulfil job again, a poll job never.
Fail(p) ==
  /\ IF p = "fulfil" /\ ~LastAttempt(p)
     THEN jobs' = [jobs EXCEPT ![p] = @ \cup {[ctx[p].job EXCEPT !.n = @ + 1]}]
     ELSE UNCHANGED jobs
  /\ Finish(p)

\* handleProviderError of a call that did not answer: the next attempt, or a
\* refund after the last.
Unanswered(p) ==
  IF LastAttempt(p) THEN Carry(p, "FAILED", "flag") /\ UNCHANGED jobs ELSE Fail(p)

\* failAndRefund writes the verification's or rental's status, if the order has
\* such a row, and goes on to refundAndFail.
Flag(p) ==
  /\ pc[p] = "flag"
  /\ item' = IF OrderOf(p) \in Extensions THEN item
             ELSE [item EXCEPT ![OrderOf(p)].state = ctx[p].seen]
  /\ Carry(p, "none", "refundRead")
  /\ UNCHANGED <<status, ledger, provider, notices, queueVars, budgets>>

RefundAndFail(p) ==
  /\ F!RefundRead(p) \/ F!MarkFailed(p) \/ F!CreditRefund(p) \/ F!MarkRefunded(p) \/ F!AnnounceFailed(p)
  /\ UNCHANGED budgets

\* Mutant: the worker queues a poll for an extension too.
CompleteAndPoll(p) ==
  /\ pc[p] = "complete"
  /\ status' = [status EXCEPT ![OrderOf(p)] = "COMPLETED"]
  /\ UNCHANGED notices
  /\ Goto(p, IF p = "fulfil" THEN "queuePoll" ELSE "decide")
  /\ UNCHANGED <<ctx, ledger, item, provider, queueVars, budgets>>

\* Write COMPLETED and, in the same tick, emit SmsCodeReceived or RentalReady
\* (an extension emits nothing); the worker still has the poll to queue.
CompleteOrder(p) ==
  /\ pc[p] = "complete"
  /\ status' = [status EXCEPT ![OrderOf(p)] = "COMPLETED"]
  /\ notices' = IF OrderOf(p) \in Extensions THEN notices
                ELSE [notices EXCEPT ![OrderOf(p)] = @ \cup {"completed"}]
  /\ IF p = "fulfil" /\ OrderOf(p) \in Rentals THEN Goto(p, "queuePoll") /\ UNCHANGED ctx
     ELSE IF p = "poll" /\ OrderOf(p) \in Rentals THEN Goto(p, "decide") /\ UNCHANGED ctx
     ELSE F!Return(p)
  /\ UNCHANGED <<ledger, item, provider, queueVars, budgets>>

-----------------------------------------------------------------------------
(* SmsFulfillProcessor: fulfillOneTime, fulfillRental, fulfillExtend         *)

\* Mutant: the attempt does not look for a number an earlier one put on file.
FulfilReadAlways(p) ==
  /\ pc[p] = "fulfilRead"
  /\ IF status[OrderOf(p)] \in Terminal THEN Finish(p) ELSE Goto(p, "buy") /\ UNCHANGED ctx
  /\ UNCHANGED <<rows, queueVars, budgets>>

\* A number on file is polled for, not bought again.  An extension looks
\* neither at its status nor at what an earlier attempt did.
FulfilRead(p) ==
  LET o == OrderOf(p) IN
  /\ pc[p] = "fulfilRead"
  /\ IF o \notin Extensions /\ status[o] \in Terminal THEN Finish(p)
     ELSE /\ Goto(p, IF item[o].code THEN "queuePollAgain" ELSE "buy")
          /\ UNCHANGED ctx
  /\ UNCHANGED <<rows, queueVars, budgets>>

\* The balance guard or SMSPool says no, for good.
Refused(p) == Carry(p, "FAILED", "flag") /\ UNCHANGED <<provider, jobs, throws>>

\* No answer, whether it was bought or not: a purchase is sent once, and with no
\* identifier SMSPool could recognise a repeated one by.
Lost(p) == Fault /\ (Sell(OrderOf(p)) \/ UNCHANGED provider) /\ Unanswered(p)

\* The purchase: refused, bought without a usable id (an extension has none),
\* bought, or unanswered.
Buy(p) ==
  LET o == OrderOf(p) IN
  /\ pc[p] = "buy"
  /\ \/ Refused(p)
     \/ o \notin Extensions /\ Sell(o) /\ Carry(p, "FAILED", "flag") /\ UNCHANGED <<jobs, throws>>
     \/ Sell(o) /\ Goto(p, "store") /\ UNCHANGED <<ctx, jobs, throws>>
     \/ Lost(p)
  /\ UNCHANGED <<status, ledger, item, notices, pollIds, crashes>>

Row(o, s) == item' = [item EXCEPT ![o] = [state |-> s, code |-> TRUE]]
Supplied(o) == provider' = [provider EXCEPT ![o].delivered = TRUE]

\* markVerificationAwaiting: the number bought is on file.
StoreNumber(p) ==
  /\ pc[p] = "store" /\ OrderOf(p) \in Verifications
  /\ Row(OrderOf(p), "AWAITING_SMS")
  /\ Goto(p, "queuePoll")
  /\ UNCHANGED <<status, ledger, provider, notices, ctx, queueVars, budgets>>

\* markRentalOrdered: active at once, or pending.
StoreRental(p) ==
  LET o == OrderOf(p) IN
  /\ pc[p] = "store" /\ o \in Rentals
  /\ \/ Row(o, "PENDING_ACTIVATION") /\ Goto(p, "queuePoll") /\ UNCHANGED provider
     \/ Row(o, "ACTIVE") /\ Supplied(o) /\ Goto(p, "complete")
  /\ UNCHANGED <<status, ledger, notices, ctx, queueVars, budgets>>

\* The new expiry of an extended rental.
StoreExpiry(p) ==
  /\ pc[p] = "store" /\ OrderOf(p) \in Extensions
  /\ Supplied(OrderOf(p))
  /\ Goto(p, "complete")
  /\ UNCHANGED <<status, ledger, item, notices, ctx, queueVars, budgets>>

\* enqueuePoll: the first poll, under an id Redis may know already.
QueuePoll(p) ==
  /\ pc[p] \in {"queuePoll", "queuePollAgain"}
  /\ F!AddPoll(OrderOf(p), 1)
  /\ Finish(p)
  /\ UNCHANGED <<rows, budgets>>

-----------------------------------------------------------------------------
(* SmsPollProcessor: pollOneTime, pollRental                                 *)

\* One-time: stop if the order is settled or the code is in.  Rental: stop if
\* it failed or was refunded; the row's status is used until the poll ends.
PollRead(p) ==
  LET o == OrderOf(p)
      Over == IF o \in Verifications
              THEN status[o] \in Terminal \/ item[o].state = "COMPLETED"
              ELSE item[o].state \in {"REFUNDED", "FAILED"}
  IN
  /\ pc[p] = "pollRead"
  /\ IF Over THEN Finish(p) ELSE Carry(p, item[o].state, "query")
  /\ UNCHANGED <<rows, queueVars, budgets>>

\* Mutant: the last poll of a pending order neither refunds nor polls again.
PollEndsEarly(p, overdue) ==
  IF ctx[p].job.n > MaxPolls THEN overdue
  ELSE IF ctx[p].job.n = MaxPolls THEN Finish(p) /\ UNCHANGED queueVars
  ELSE F!AddPoll(OrderOf(p), ctx[p].job.n + 1) /\ Finish(p)

\* The next poll, as long as there is one; then what an overdue order needs.
PollOn(p, overdue) ==
  IF ctx[p].job.n >= MaxPolls THEN overdue
  ELSE F!AddPoll(OrderOf(p), ctx[p].job.n + 1) /\ Finish(p)

\* listActiveOrders: the code, or nothing yet; an expired number is cancelled.
QueryOneTime(p) ==
  LET o == OrderOf(p) IN
  /\ pc[p] = "query" /\ o \in Verifications
  /\ IF provider[o].delivered
     THEN Goto(p, "codeRead") /\ UNCHANGED <<ctx, queueVars>>
     ELSE \/ Goto(p, "cancel") /\ UNCHANGED <<ctx, queueVars>>
          \/ PollOn(p, Goto(p, "cancel") /\ UNCHANGED <<ctx, queueVars>>)
  /\ UNCHANGED <<rows, budgets>>

\* cancelSms, whose failure is logged only: SMSPool refuses once it delivered.
CancelSms(p) ==
  LET o == OrderOf(p) IN
  /\ pc[p] = "cancel"
  /\ \/ ~provider[o].delivered /\ provider' = [provider EXCEPT ![o].reversed = TRUE]
     \/ UNCHANGED provider
  /\ Carry(p, "EXPIRED", "flag")
  /\ UNCHANGED <<status, ledger, item, notices, queueVars, budgets>>

\* getRentalStatus, if it answers: a pending rental has become available.
QueryRental(p) ==
  LET o == OrderOf(p) IN
  /\ pc[p] = "query" /\ o \in Rentals
  /\ \/ Goto(p, IF provider[o].delivered /\ ctx[p].seen = "PENDING_ACTIVATION"
                THEN "activateRead" ELSE "decide")
     \/ Goto(p, "decide")
  /\ UNCHANGED <<rows, ctx, queueVars, budgets>>

\* activateRental: read the row and its order, write ACTIVE, complete the order.
ActivateRead(p) ==
  /\ pc[p] = "activateRead"
  /\ IF item[OrderOf(p)].state = "ACTIVE" THEN Goto(p, "decide") /\ UNCHANGED ctx
     ELSE /\ ctx' = [ctx EXCEPT ![p].known = status[OrderOf(p)] = "COMPLETED"]
          /\ Goto(p, "activate")
  /\ UNCHANGED <<rows, queueVars, budgets>>

\* An order already COMPLETED is not written again, only announced.
Announce(p) ==
  IF ctx[p].known THEN notices' = [notices EXCEPT ![OrderOf(p)] = @ \cup {"completed"}]
  ELSE UNCHANGED notices

Activate(p) ==
  /\ pc[p] = "activate"
  /\ item' = [item EXCEPT ![OrderOf(p)].state = "ACTIVE"]
  /\ Announce(p)
  /\ Goto(p, IF ctx[p].known THEN "decide" ELSE "complete")
  /\ UNCHANGED <<status, ledger, provider, ctx, queueVars, budgets>>

\* By the status read at the start, activated since or not: a pending rental is
\* polled again and, after the last poll, failed and refunded.
Decide(p) ==
  /\ pc[p] = "decide"
  /\ IF ctx[p].seen = "PENDING_ACTIVATION"
     THEN PollOn(p, Carry(p, "FAILED", "flag") /\ UNCHANGED queueVars)
     ELSE Finish(p) /\ UNCHANGED queueVars
  /\ UNCHANGED <<rows, budgets>>

-----------------------------------------------------------------------------
(* completeVerificationFromSms, by the poll or by SMSPool's webhook          *)

\* Every delivery of the code is taken for a new event: its id has the whole body.
HookBegin(h, o) ==
  /\ pc[h] = "idle" /\ o \in Verifications /\ provider[o].delivered
  /\ pc' = [pc EXCEPT ![h] = "codeRead"]
  /\ ctx' = [ctx EXCEPT ![h] = [F!NoCtx EXCEPT !.order = o, !.note = "sms"]]
  /\ UNCHANGED <<rows, queueVars, budgets>>

CodeRead(p) ==
  LET o == OrderOf(p) IN
  /\ pc[p] = "codeRead"
  /\ IF item[o].state \in {"COMPLETED", "REFUNDED"} THEN F!Return(p)
     ELSE /\ ctx' = [ctx EXCEPT ![p].known = status[o] = "COMPLETED"]
          /\ Goto(p, "codeStore")
  /\ UNCHANGED <<rows, queueVars, budgets>>

CodeStore(p) ==
  /\ pc[p] = "codeStore"
  /\ item' = [item EXCEPT ![OrderOf(p)].state = "COMPLETED"]
  /\ Announce(p)
  /\ IF ctx[p].known THEN F!Return(p) ELSE Goto(p, "complete") /\ UNCHANGED ctx
  /\ UNCHANGED <<status, ledger, provider, queueVars, budgets>>

HookMark(h) ==
  /\ pc[h] = "hookMark"
  /\ Finish(h)
  /\ UNCHANGED <<rows, queueVars, budgets>>

-----------------------------------------------------------------------------
(* requestCustomerRefund                                                     *)

\* A rental with a code, which SMSPool says it refunds, ...
AskRefund(h, o) ==
  /\ o \in Rentals /\ item[o].code /\ ~provider[o].reversed
  /\ Begin(h, "reverse", o)
  /\ UNCHANGED <<rows, queueVars, budgets>>

\* ... is refunded there first and then here; a refusal ends the request.
Reverse(h) ==
  /\ pc[h] = "reverse"
  /\ \/ provider' = [provider EXCEPT ![OrderOf(h)].reversed = TRUE] /\ Carry(h, "REFUNDED", "flag")
     \/ UNCHANGED provider /\ Finish(h)
  /\ UNCHANGED <<status, ledger, item, notices, queueVars, budgets>>

-----------------------------------------------------------------------------
(* SMSPool, failures and restarts                                            *)

\* The code arrives, the number becomes available: while it is not reversed.
Deliver(o) ==
  /\ item[o].code /\ ~provider[o].delivered /\ ~provider[o].reversed
  /\ provider' = [provider EXCEPT ![o].delivered = TRUE]
  /\ UNCHANGED <<status, ledger, item, notices, queueVars, procVars, budgets>>

\* Labels inside the fulfil worker's try, and inside pollRental's.
Tried(p) == p = "fulfil" /\ pc[p] \in {"store", "complete", "queuePoll"}
Swallowed(p) ==
  p = "poll" /\ OrderOf(p) \in Rentals /\ pc[p] \in {"activateRead", "activate", "complete"}

Throw(p) ==
  /\ pc[p] \notin {"idle", "debit", "buy", "cancel"}
  /\ Fault
  /\ CASE Tried(p)     -> Unanswered(p)
       [] Swallowed(p) -> Goto(p, "decide") /\ UNCHANGED <<ctx, jobs>>
       [] OTHER        -> Fail(p)
  /\ UNCHANGED <<rows, pollIds, crashes>>

\* Every call in progress is gone; BullMQ queues the stalled jobs again.
Crash ==
  /\ crashes = 0 /\ throws < MaxFaults /\ crashes' = 1
  /\ jobs' = [q \in Queues |-> jobs[q] \cup (IF pc[q] = "idle" THEN {} ELSE {ctx[q].job})]
  /\ pc' = [p \in Procs |-> "idle"]
  /\ ctx' = [p \in Procs |-> F!NoCtx]
  /\ UNCHANGED <<rows, pollIds, throws>>

-----------------------------------------------------------------------------
FulfilWorker(p) ==
  \/ FulfilRead(p) \/ Buy(p) \/ StoreNumber(p) \/ StoreRental(p) \/ StoreExpiry(p) \/ QueuePoll(p)
PollWorker(p) ==
  \/ PollRead(p) \/ QueryOneTime(p) \/ CancelSms(p)
  \/ QueryRental(p) \/ ActivateRead(p) \/ Activate(p) \/ Decide(p)
Handler(h) ==
  \/ CreateItem(h) \/ Debit(h) \/ MarkUnpaid(h) \/ Start(h) \/ Enqueue(h)
  \/ HookMark(h) \/ Reverse(h)

\* The next await of process p.
Step(p) ==
  \/ Flag(p) \/ RefundAndFail(p) \/ CompleteOrder(p) \/ CodeRead(p) \/ CodeStore(p)
  \/ p = "fulfil" /\ FulfilWorker(p)
  \/ p = "poll" /\ PollWorker(p)
  \/ p \in Handlers /\ Handler(p)

Next ==
  \/ \E p \in Procs : Step(p) \/ Throw(p)
  \/ \E q \in Queues : \E j \in jobs[q] : Take(q, j)
  \/ \E h \in Handlers, o \in Orders : Create(h, o) \/ HookBegin(h, o) \/ AskRefund(h, o)
  \/ \E o \in Orders : Deliver(o)
  \/ Crash

Spec == Init /\ [][Next]_vars

\* A call in progress goes on, and a worker with due jobs takes one.
Fairness ==
  /\ \A p \in Procs : WF_vars(Step(p))
  /\ \A q \in Queues : WF_vars(\E j \in jobs[q] : Take(q, j))

FairSpec == Spec /\ Fairness

-----------------------------------------------------------------------------
Labels ==
  {"idle", "issue", "debit", "markUnpaid", "start", "enqueue", "fulfilRead", "buy", "store",
   "queuePoll", "queuePollAgain", "pollRead", "query", "cancel", "activateRead", "activate",
   "decide", "codeRead", "codeStore", "complete", "reverse", "flag", "refundRead",
   "markFailed", "credit", "markRefunded", "announceFailed", "hookMark"}

Job == [order : Orders, tag : {0}, n : Nat]
CtxType == [order : Orders \cup {NoOrder}, seen : RowStates, known : BOOLEAN,
            job : Job \cup {F!NoJob}, note : {"none", "sms"}]

\* Rows, queues, budgets and every process's locals are well formed; a busy
\* process has an order, a busy worker a job of it, a poll never an extension.
TypeOK ==
  /\ status \in [Orders -> {"none", "PAID", "FULFILLING", "COMPLETED", "FAILED", "REFUNDED"}]
  /\ ledger \in [Orders -> SUBSET {"charge", "refund"}]
  /\ item \in [Orders -> [state : RowStates, code : BOOLEAN]]
  /\ provider \in [Orders -> [units : Nat, delivered : BOOLEAN, reversed : BOOLEAN]]
  /\ notices \in [Orders -> SUBSET {"completed", "failed"}]
  /\ jobs \in [Queues -> SUBSET Job]
  /\ pollIds \in [Orders -> SUBSET Nat]
  /\ throws \in Nat /\ crashes \in {0, 1}
  /\ pc \in [Procs -> Labels]
  /\ ctx \in [Procs -> CtxType]
  /\ \A p \in Procs : pc[p] # "idle" => OrderOf(p) \in Orders
  /\ \A q \in Queues : pc[q] # "idle" => ctx[q].job \in Job /\ ctx[q].job.order = OrderOf(q)
  /\ \A j \in jobs["poll"] \cup {ctx["poll"].job} : j.order \notin Extensions

\* SMS orders are settled as OrderLifecycle promises, though codes, polls and
\* refunds cross: COMPLETED and "completed" only of a code received, a number
\* available or an extension granted, REFUNDED and "failed" only with the money
\* back.
Lifecycle == INSTANCE OrderLifecycle WITH
  money <- ledger, supplied <- [o \in Orders |-> provider[o].delivered], told <- notices
ImplementsLifecycle == Lifecycle!LifecycleSpec

\* A unit is bought only for an order with no number on file, and every one after
\* the first is paid for by a failure or crash: nothing but a lost answer, or a step
\* between the purchase and its row that failed, makes the worker buy again.
BoughtAgainOnlyAfterLoss ==
  [][\A o \in Orders : provider'[o].units # provider[o].units =>
       ~item[o].code /\ provider'[o].units <= 1 + throws' + crashes']_vars

\* With every call answered and no crash, a charged order being fulfilled ends
\* COMPLETED or refunded: the last poll always decides.
Disturbed == throws > 0 \/ crashes > 0
UndisturbedSettles ==
  \A o \in Orders :
    (status[o] = "FULFILLING" /\ "charge" \in ledger[o])
      ~> (status[o] = "COMPLETED" \/ "refund" \in ledger[o] \/ Disturbed)

-----------------------------------------------------------------------------
(* What documents of the repository say and the code does not do.            *)

\* frontend-sms.md: a rental that is REFUNDED is "refunded".  Once nothing runs,
\* and nothing has failed, its customer has the money back.
Quiet == (\A p \in Procs : pc[p] = "idle") /\ (\A q \in Queues : jobs[q] = {})
RefundedRentalCredited ==
  Quiet /\ ~Disturbed =>
    \A o \in Rentals : item[o].state = "REFUNDED" => "refund" \in ledger[o]
=============================================================================
