-------------------------- MODULE EsimFulfillment --------------------------
(***************************************************************************)
(* eSIM purchases and top-ups from checkout to settlement: the HTTP        *)
(* handlers that charge and enqueue, the three BullMQ workers, the eSIM    *)
(* Access webhook, the usage and install refreshes, the admin's retry and  *)
(* the reconciliation sweep, all over the state of FulfillmentService.     *)
(* Every await is a step, a database or Redis call may throw, and the      *)
(* process may crash and restart.  There is no clock: a delayed job, the   *)
(* ten-minute threshold and the cron tick may be due at any time.          *)
(***************************************************************************)
EXTENDS FulfillmentService

CONSTANTS Entries,     \* optional handlers of this instance: "webhook",
                       \* "refresh" (usage, install details), "sweep"
          MaxRetries,  \* bound: admin retries
          MaxThrows,   \* bound: database or Redis calls that fail
          MaxCrashes   \* bound: process crashes.  BullMQ re-runs a stalled job
                       \* once only, so no bound above 1 is faithful

ASSUME EntriesAssumption == Entries \subseteq {"webhook", "refresh", "sweep"}
ASSUME BudgetsAssumption == MaxRetries \in Nat /\ MaxThrows \in Nat /\ MaxCrashes \in {0, 1}

VARIABLES event,    \* WebhookEvent row of each notification of an order
          retries, throws, crashes,  \* how much of each bound is used
          astray    \* history, which no action reads: the top-ups that left the
                    \* top-up queue's own course (see CutPoints, Retry and Sweep)

budgets == <<retries, throws, crashes, astray>>
queueVars == <<jobs, pollIds>>
vars == <<serviceVars, queueVars, procVars, event, budgets>>

\* Notifications: ORDER_STATUS carries no ICCID, ESIM_STATUS does.  Their event
\* id is notifyType:orderNo, so an order has one row for each type.
NoteTypes == {"ORDER_STATUS", "ESIM_STATUS"}

FirstLabel == [fulfil |-> "fulfilRead", poll |-> "pollRead", topup |-> "topUpRead"]

Init ==
  /\ status = [o \in Orders |-> "none"]
  /\ ledger = [o \in Orders |-> {}]
  /\ profile = [o \in Orders |-> [ext |-> FALSE, iccid |-> FALSE]]
  /\ supplier = [o \in Orders |-> "none"]
  /\ notices = [o \in Orders |-> {}]
  /\ jobs = [q \in Queues |-> {}]
  /\ pollIds = [o \in Orders |-> {}]
  /\ pc = [p \in Procs |-> "idle"]
  /\ ctx = [p \in Procs |-> NoCtx]
  /\ event = [o \in Orders |-> [t \in NoteTypes |-> "none"]]
  /\ retries = 0 /\ throws = 0 /\ crashes = 0 /\ astray = {}

\* Process p, idle so far, starts at `label` for order o.
Begin(p, label, o) ==
  /\ pc[p] = "idle"
  /\ pc' = [pc EXCEPT ![p] = label]
  /\ ctx' = [ctx EXCEPT ![p] = [NoCtx EXCEPT !.order = o]]

-----------------------------------------------------------------------------
(* Checkout: OrdersService.create and EsimsService.createTopUp               *)

\* Mutant: no check for another top-up in flight.
CreateUnguarded(h, o) ==
  /\ status[o] = "none"
  /\ Begin(h, "debit", o)
  /\ status' = [status EXCEPT ![o] = "PAID"]
  /\ UNCHANGED <<ledger, profile, supplier, notices, queueVars, event, budgets>>

\* Create the order as PAID.  A top-up is created under an advisory lock of the
\* eSIM, which also covers the check that none is in flight.
Create(h, o) ==
  /\ status[o] = "none"
  /\ o \in TopUps => \A t \in TopUps : status[t] \notin {"PAID", "FULFILLING"}
  /\ Begin(h, "debit", o)
  /\ status' = [status EXCEPT ![o] = "PAID"]
  /\ UNCHANGED <<ledger, profile, supplier, notices, queueVars, event, budgets>>

\* Mutant: a refused debit does not stop the order.
DebitIgnored(h) ==
  /\ pc[h] = "debit"
  /\ ledger' \in {ledger, [ledger EXCEPT ![OrderOf(h)] = @ \cup {"charge"}]}
  /\ Goto(h, "start")
  /\ UNCHANGED <<status, profile, supplier, notices, queueVars, ctx, event, budgets>>

\* wallet.debit: charged, refused, or committed with the answer lost.
Debit(h) ==
  LET Charge == ledger' = [ledger EXCEPT ![OrderOf(h)] = @ \cup {"charge"}] IN
  /\ pc[h] = "debit"
  /\ \/ Charge /\ Goto(h, "start") /\ UNCHANGED throws
     \/ Goto(h, "markUnpaid") /\ UNCHANGED <<ledger, throws>>
     \/ throws < MaxThrows /\ throws' = throws + 1 /\ Charge /\ Goto(h, "markUnpaid")
  /\ UNCHANGED <<status, profile, supplier, notices, queueVars, ctx, event, retries, crashes, astray>>

\* The debit threw: FAILED, whatever the wallet has done.
MarkUnpaid(h) ==
  /\ pc[h] = "markUnpaid"
  /\ status' = [status EXCEPT ![OrderOf(h)] = "FAILED"]
  /\ Finish(h)
  /\ UNCHANGED <<ledger, profile, supplier, notices, queueVars, event, budgets>>

Start(h) ==
  /\ pc[h] = "start"
  /\ status' = [status EXCEPT ![OrderOf(h)] = "FULFILLING"]
  /\ Goto(h, "enqueue")
  /\ UNCHANGED <<ledger, profile, supplier, notices, queueVars, ctx, event, budgets>>

\* Queue the job under the order's id.
Enqueue(h) ==
  LET q == IF OrderOf(h) \in TopUps THEN "topup" ELSE "fulfil" IN
  /\ pc[h] = "enqueue"
  /\ jobs' = [jobs EXCEPT ![q] = @ \cup {[order |-> OrderOf(h), tag |-> 0, n |-> 0]}]
  /\ Finish(h)
  /\ UNCHANGED <<serviceVars, pollIds, event, budgets>>

-----------------------------------------------------------------------------
(* The queues                                                                *)

\* Mutant: the worker starts without the job's order.
TakeBlind(q, j) ==
  /\ pc[q] = "idle" /\ j \in jobs[q]
  /\ jobs' = [jobs EXCEPT ![q] = @ \ {j}]
  /\ pc' = [pc EXCEPT ![q] = FirstLabel[q]]
  /\ ctx' = [ctx EXCEPT ![q] = [NoCtx EXCEPT !.job = j]]
  /\ UNCHANGED <<serviceVars, pollIds, event, budgets>>

\* A worker takes a job that is due.
Take(q, j) ==
  /\ pc[q] = "idle" /\ j \in jobs[q]
  /\ jobs' = [jobs EXCEPT ![q] = @ \ {j}]
  /\ pc' = [pc EXCEPT ![q] = FirstLabel[q]]
  /\ ctx' = [ctx EXCEPT ![q] = [NoCtx EXCEPT !.order = j.order, !.job = j]]
  /\ UNCHANGED <<serviceVars, pollIds, event, budgets>>

\* The processor throws: BullMQ delays the job for its next attempt.
Requeue(q) ==
  /\ jobs' = [jobs EXCEPT ![q] = @ \cup {[ctx[q].job EXCEPT !.n = @ + 1]}]
  /\ Finish(q)

LastAttempt(q) == ctx[q].job.n + 1 >= MaxAttempts

\* Mutant: the last attempt gives up without a refund.
TransientUnrefunded(q) ==
  IF LastAttempt(q) THEN Finish(q) /\ UNCHANGED jobs ELSE Requeue(q)

\* The processors' own catch of a transient failure: throw on to BullMQ, and
\* on the last attempt refund.
Transient(q) ==
  IF LastAttempt(q) THEN Goto(q, "refundRead") /\ UNCHANGED <<ctx, jobs>> ELSE Requeue(q)

\* Redis forgets a finished poll job (removeOnComplete 100, removeOnFail 200).
EvictPollId(o, n) ==
  /\ n \in pollIds[o]
  /\ [order |-> o, tag |-> 0, n |-> n] \notin jobs["poll"] \cup {ctx["poll"].job}
  /\ pollIds' = [pollIds EXCEPT ![o] = @ \ {n}]
  /\ UNCHANGED <<serviceVars, jobs, procVars, event, budgets>>

-----------------------------------------------------------------------------
(* FulfillmentProcessor                                                      *)

\* Read the order with its product and provider order.  A top-up has no
\* product; a FAILED order resumes; a known provider order is reused.
FulfilRead(p) ==
  LET o == OrderOf(p) IN
  /\ pc[p] = "fulfilRead"
  /\ IF o \in TopUps THEN Goto(p, "refundRead") /\ UNCHANGED ctx
     ELSE IF status[o] \in Terminal THEN Finish(p)
     ELSE /\ ctx' = [ctx EXCEPT ![p].known = profile[o].ext]
          /\ Goto(p, IF status[o] = "FAILED" THEN "resume"
                     ELSE IF profile[o].ext THEN "schedule" ELSE "createOrder")
  /\ UNCHANGED <<serviceVars, queueVars, event, budgets>>

Resume(p) ==
  /\ pc[p] = "resume"
  /\ status' = [status EXCEPT ![OrderOf(p)] = "FULFILLING"]
  /\ Goto(p, IF ctx[p].known THEN "schedule" ELSE "createOrder")
  /\ UNCHANGED <<ledger, profile, supplier, notices, queueVars, ctx, event, budgets>>

\* POST /esim/order under the order's id, accepted once only; the provider may
\* reject it for good (a repeated transaction id always), fail, or accept it
\* and the answer be lost.
CreateOrder(p) ==
  LET o == OrderOf(p)
      Accept == supplier[o] = "none" /\ supplier' = [supplier EXCEPT ![o] = "accepted"]
  IN
  /\ pc[p] = "createOrder"
  /\ \/ Accept /\ Goto(p, "saveOrder") /\ UNCHANGED <<ctx, jobs>>
     \/ Goto(p, "refundRead") /\ UNCHANGED <<supplier, ctx, jobs>>
     \/ (Accept \/ UNCHANGED supplier) /\ Transient(p)
  /\ UNCHANGED <<status, ledger, profile, notices, pollIds, event, budgets>>

\* Store the external order id, inside the same try block as the call.
SaveOrder(p) ==
  /\ pc[p] = "saveOrder"
  /\ \/ /\ profile' = [profile EXCEPT ![OrderOf(p)].ext = TRUE]
        /\ Goto(p, "schedule")
        /\ UNCHANGED <<ctx, jobs, throws>>
     \/ throws < MaxThrows /\ throws' = throws + 1 /\ Transient(p) /\ UNCHANGED profile
  /\ UNCHANGED <<status, ledger, supplier, notices, pollIds, event, retries, crashes, astray>>

Schedule(p) ==
  /\ pc[p] = "schedule"
  /\ AddPoll(OrderOf(p), 1)
  /\ Finish(p)
  /\ UNCHANGED <<serviceVars, event, budgets>>

-----------------------------------------------------------------------------
(* PollEsimOrderProcessor: one attempt per job, so a throw ends the chain    *)

PollRead(p) ==
  /\ pc[p] = "pollRead"
  /\ IF status[OrderOf(p)] \in Terminal THEN Finish(p)
     ELSE Goto(p, "pollQuery") /\ UNCHANGED ctx
  /\ UNCHANGED <<serviceVars, queueVars, event, budgets>>

\* Mutant: any answer of the provider counts as a profile.
PollAnyAnswer(p) ==
  /\ pc[p] = "pollQuery"
  /\ \/ Goto(p, "completeRead")
     \/ Goto(p, IF ctx[p].job.n >= MaxPolls THEN "refundRead" ELSE "pollNext")
  /\ UNCHANGED <<serviceVars, queueVars, ctx, event, budgets>>

\* A query that fails counts as "not ready yet"; the last one gives up.
PollQuery(p) ==
  /\ pc[p] = "pollQuery"
  /\ \/ supplier[OrderOf(p)] \in Supplied /\ Goto(p, "completeRead")
     \/ Goto(p, IF ctx[p].job.n >= MaxPolls THEN "refundRead" ELSE "pollNext")
  /\ UNCHANGED <<serviceVars, queueVars, ctx, event, budgets>>

\* Mutant: the next poll is not queued.
PollNextForgotten(p) ==
  /\ pc[p] = "pollNext"
  /\ Finish(p)
  /\ UNCHANGED <<serviceVars, queueVars, event, budgets>>

PollNext(p) ==
  /\ pc[p] = "pollNext"
  /\ AddPoll(OrderOf(p), ctx[p].job.n + 1)
  /\ Finish(p)
  /\ UNCHANGED <<serviceVars, event, budgets>>

-----------------------------------------------------------------------------
(* TopUpProcessor                                                            *)

TopUpRead(p) ==
  LET s == status[OrderOf(p)] IN
  /\ pc[p] = "topUpRead"
  /\ IF s \in Terminal THEN Finish(p)
     ELSE Goto(p, IF s = "FAILED" THEN "topUpResume" ELSE "topUpCall") /\ UNCHANGED ctx
  /\ UNCHANGED <<serviceVars, queueVars, event, budgets>>

TopUpResume(p) ==
  /\ pc[p] = "topUpResume"
  /\ status' = [status EXCEPT ![OrderOf(p)] = "FULFILLING"]
  /\ Goto(p, "topUpCall")
  /\ UNCHANGED <<ledger, profile, supplier, notices, queueVars, ctx, event, budgets>>

\* POST /esim/topup under the order's id, as CreateOrder.
TopUpCall(p) ==
  LET o == OrderOf(p)
      Apply(s) == supplier[o] = "none" /\ supplier' = [supplier EXCEPT ![o] = s]
  IN
  /\ pc[p] = "topUpCall"
  /\ \/ Apply("confirmed") /\ Goto(p, "completeTopUp") /\ UNCHANGED <<ctx, jobs>>
     \/ Goto(p, "refundRead") /\ UNCHANGED <<supplier, ctx, jobs>>
     \/ (Apply("applied") \/ UNCHANGED supplier) /\ Transient(p)
  /\ UNCHANGED <<status, ledger, profile, notices, pollIds, event, budgets>>

-----------------------------------------------------------------------------
(* WebhooksService.handleEsimAccess: deliveries repeat and overlap           *)

\* beginEvent: record the event, or pass on one not yet marked processed; a
\* processed one is answered without effect.  An ICCID is sent once allocated.
HookBegin(h, o, t) ==
  /\ "webhook" \in Entries /\ pc[h] = "idle"
  /\ supplier[o] # "none" /\ (t = "ESIM_STATUS" => supplier[o] \in Supplied)
  /\ event[o][t] # "processed"
  /\ event' = [event EXCEPT ![o][t] = "open"]
  /\ pc' = [pc EXCEPT ![h] = "hookLookup"]
  /\ ctx' = [ctx EXCEPT ![h] = [NoCtx EXCEPT !.order = o, !.note = t]]
  /\ UNCHANGED <<serviceVars, queueVars, budgets>>

\* Find the provider order by its external id; an unknown one is dropped.
HookLookup(h) ==
  LET row == profile[OrderOf(h)] IN
  /\ pc[h] = "hookLookup"
  /\ Goto(h, IF ~row.ext THEN "hookMark"
             ELSE IF row.iccid \/ ctx[h].note = "ESIM_STATUS" THEN "completeRead"
             ELSE "hookQuery")
  /\ UNCHANGED <<serviceVars, queueVars, ctx, event, budgets>>

\* Nothing carries an ICCID: ask the provider; without one only the raw
\* snapshot is stored.
HookQuery(h) ==
  /\ pc[h] = "hookQuery"
  /\ \/ supplier[OrderOf(h)] \in Supplied /\ Goto(h, "completeRead")
     \/ Goto(h, "hookMark")
  /\ UNCHANGED <<serviceVars, queueVars, ctx, event, budgets>>

HookMark(h) ==
  /\ pc[h] = "hookMark"
  /\ event' = [event EXCEPT ![OrderOf(h)][ctx[h].note] = "processed"]
  /\ Finish(h)
  /\ UNCHANGED <<serviceVars, queueVars, budgets>>

-----------------------------------------------------------------------------
(* Usage and install-details requests, admin retry, reconciliation sweep     *)

\* The owner opens usage or install details; both need an ICCID on file.
Refresh(h, o) ==
  /\ "refresh" \in Entries /\ profile[o].iccid
  /\ Begin(h, "refreshQuery", o)
  /\ UNCHANGED <<serviceVars, queueVars, event, budgets>>

RefreshQuery(h) ==
  /\ pc[h] = "refreshQuery"
  /\ \/ supplier[OrderOf(h)] \in Supplied /\ Goto(h, "completeRead") /\ UNCHANGED ctx
     \/ Finish(h)
  /\ UNCHANGED <<serviceVars, queueVars, event, budgets>>

\* retryFulfillment reads the order and rejects only a terminal one ...
Retry(h, o) ==
  /\ retries < MaxRetries /\ status[o] \notin Terminal \cup {"none"}
  /\ Begin(h, "retryMark", o)
  /\ retries' = retries + 1 /\ astray' = astray \cup ({o} \cap TopUps)
  /\ UNCHANGED <<serviceVars, queueVars, event, throws, crashes>>

\* ... then writes FULFILLING over whatever it has become ...
RetryMark(h) ==
  /\ pc[h] = "retryMark"
  /\ status' = [status EXCEPT ![OrderOf(h)] = "FULFILLING"]
  /\ Goto(h, "retryEnqueue")
  /\ UNCHANGED <<ledger, profile, supplier, notices, queueVars, ctx, event, budgets>>

\* ... and queues it under a fresh id, for the purchase worker.
RetryEnqueue(h) ==
  /\ pc[h] = "retryEnqueue"
  /\ AddFresh("fulfil", OrderOf(h), 0)
  /\ Finish(h)
  /\ UNCHANGED <<serviceVars, pollIds, event, budgets>>

\* The sweep selects a FULFILLING order; one with an ICCID is left alone.
Sweep(h, o) ==
  /\ "sweep" \in Entries /\ pc[h] = "idle"
  /\ status[o] = "FULFILLING" /\ ~profile[o].iccid
  /\ pc' = [pc EXCEPT ![h] = "sweepAdd"]
  /\ ctx' = [ctx EXCEPT ![h] = [NoCtx EXCEPT !.order = o, !.known = profile[o].ext]]
  /\ astray' = astray \cup ({o} \cap TopUps)
  /\ UNCHANGED <<serviceVars, queueVars, event, retries, throws, crashes>>

\* Mutant: an order without an external id is skipped.
SweepAddKnown(h) ==
  /\ pc[h] = "sweepAdd"
  /\ IF ctx[h].known THEN AddFresh("poll", OrderOf(h), 1) ELSE UNCHANGED jobs
  /\ Finish(h)
  /\ UNCHANGED <<serviceVars, pollIds, event, budgets>>

\* No external order id: the purchase queue again; otherwise a new poll chain.
SweepAdd(h) ==
  /\ pc[h] = "sweepAdd"
  /\ IF ctx[h].known THEN AddFresh("poll", OrderOf(h), 1) ELSE AddFresh("fulfil", OrderOf(h), 0)
  /\ Finish(h)
  /\ UNCHANGED <<serviceVars, pollIds, event, budgets>>

-----------------------------------------------------------------------------
(* The supplier, failures and restarts                                       *)

Allocate(o) ==
  /\ supplier[o] = "accepted"
  /\ supplier' = [supplier EXCEPT ![o] = "allocated"]
  /\ UNCHANGED <<status, ledger, profile, notices, queueVars, procVars, event, budgets>>

\* Labels whose failures the code catches and their own actions model.
Caught == {"debit", "createOrder", "saveOrder", "topUpCall", "pollQuery",
           "hookQuery", "refreshQuery", "cancel", "revoke"}

\* Between these a top-up is half completed or half refunded: eSIM Access has
\* confirmed it and the order does not say so, or it reads FAILED, which does not
\* count as in flight, and its job may still be run again.
CutPoints == {"completeTopUp", "markToppedUp", "credit", "markRefunded"}
Cut(P) == {t \in TopUps : \E p \in P : pc[p] \in CutPoints /\ OrderOf(p) = t}

\* Any other awaited call fails.  A handler's request just fails.  BullMQ runs a
\* fulfil or top-up job again, up to its last attempt, and gives a poll job up.
\* A failure inside completeTopUp reaches the top-up processor's catch.
Throw(p) ==
  /\ pc[p] \notin {"idle"} \cup Caught
  /\ throws < MaxThrows /\ throws' = throws + 1
  /\ IF p = "topup" /\ pc[p] \in {"completeTopUp", "markToppedUp"} THEN Transient(p)
     ELSE IF p \in {"fulfil", "topup"} /\ ~LastAttempt(p) THEN Requeue(p)
     ELSE Finish(p) /\ UNCHANGED jobs
  /\ astray' = astray \cup Cut({p})
  /\ UNCHANGED <<serviceVars, pollIds, event, retries, crashes>>

\* The process dies and restarts: every call in progress is gone, and BullMQ
\* finds the active jobs stalled and queues them again.
Crash ==
  /\ crashes < MaxCrashes /\ crashes' = crashes + 1
  /\ jobs' = [q \in Queues |-> jobs[q] \cup (IF pc[q] = "idle" THEN {} ELSE {ctx[q].job})]
  /\ pc' = [p \in Procs |-> "idle"]
  /\ ctx' = [p \in Procs |-> NoCtx]
  /\ astray' = astray \cup Cut(Procs)
  /\ UNCHANGED <<serviceVars, pollIds, event, retries, throws>>

-----------------------------------------------------------------------------
\* A routine of FulfillmentService, in whichever process runs it.
Service(p) == ServiceStep(p) /\ UNCHANGED <<event, budgets>>

FulfilWorker(p) ==
  FulfilRead(p) \/ Resume(p) \/ CreateOrder(p) \/ SaveOrder(p) \/ Schedule(p)
PollWorker(p) == PollRead(p) \/ PollQuery(p) \/ PollNext(p)
TopUpWorker(p) == TopUpRead(p) \/ TopUpResume(p) \/ TopUpCall(p)
Checkout(h) == Debit(h) \/ MarkUnpaid(h) \/ Start(h) \/ Enqueue(h)
Webhook(h) == HookLookup(h) \/ HookQuery(h) \/ HookMark(h)
Request(h) == RefreshQuery(h) \/ RetryMark(h) \/ RetryEnqueue(h) \/ SweepAdd(h)

\* The next await of process p.
Step(p) ==
  \/ Service(p)
  \/ p = "fulfil" /\ FulfilWorker(p)
  \/ p = "poll" /\ PollWorker(p)
  \/ p = "topup" /\ TopUpWorker(p)
  \/ p \in Handlers /\ (Checkout(p) \/ Webhook(p) \/ Request(p))

Next ==
  \/ \E p \in Procs : Step(p) \/ Throw(p)
  \/ \E q \in Queues : \E j \in jobs[q] : Take(q, j)
  \/ \E h \in Handlers, o \in Orders : Create(h, o) \/ Refresh(h, o) \/ Retry(h, o) \/ Sweep(h, o)
  \/ \E h \in Handlers, o \in Purchases, t \in NoteTypes : HookBegin(h, o, t)
  \/ \E o \in Purchases : Allocate(o) \/ \E n \in 1..MaxPolls : EvictPollId(o, n)
  \/ Crash

Spec == Init /\ [][Next]_vars

\* A call in progress goes on, a worker with due jobs takes one, a queue does
\* not pass a poll over forever (delayed jobs run in order of their time), and
\* the cron reaches every order that stays stuck.  Nothing is assumed of the
\* supplier, the webhook, the customer or the admin.
TakePoll(o) == \E j \in jobs["poll"] : j.order = o /\ j.tag = 0 /\ Take("poll", j)
Fairness ==
  /\ \A p \in Procs : WF_vars(Step(p))
  /\ \A q \in Queues : WF_vars(\E j \in jobs[q] : Take(q, j))
  /\ \A o \in Purchases : SF_vars(TakePoll(o))
  /\ \A o \in Orders : SF_vars(\E h \in Handlers : Sweep(h, o))

FairSpec == Spec /\ Fairness

-----------------------------------------------------------------------------
Labels ==
  {"idle", "completeRead", "saveProfile", "markCompleted", "announce", "cancel", "revoke",
   "completeTopUp", "markToppedUp", "refundRead", "markFailed", "credit", "markRefunded",
   "announceFailed", "debit", "markUnpaid", "start", "enqueue", "fulfilRead", "resume", "createOrder",
   "saveOrder", "schedule", "pollRead", "pollQuery", "pollNext", "topUpRead", "topUpResume",
   "topUpCall", "hookLookup", "hookQuery", "hookMark", "refreshQuery", "retryMark",
   "retryEnqueue", "sweepAdd"}

CtxType == [order : Orders \cup {NoOrder}, seen : Statuses, known : BOOLEAN,
            job : Job \cup {NoJob}, note : NoteTypes \cup {"none"}]

\* Rows, jobs and counters have the shape of what they stand for.
RowsOK ==
  /\ status \in [Orders -> Statuses]
  /\ ledger \in [Orders -> SUBSET {"charge", "refund"}]
  /\ profile \in [Orders -> [ext : BOOLEAN, iccid : BOOLEAN]]
  /\ supplier \in [Orders -> SupplierStates]
  /\ notices \in [Orders -> SUBSET {"completed", "failed"}]
  /\ jobs \in [Queues -> SUBSET Job]
  /\ pollIds \in [Orders -> SUBSET Nat]
  /\ event \in [Orders -> [NoteTypes -> {"none", "open", "processed"}]]
  /\ retries \in Nat /\ throws \in Nat /\ crashes \in Nat /\ astray \subseteq TopUps

\* So have processes; a busy one has an order, a busy worker a job of it.
ProcsOK ==
  /\ pc \in [Procs -> Labels]
  /\ ctx \in [Procs -> CtxType]
  /\ \A p \in Procs : pc[p] # "idle" => OrderOf(p) \in Orders
  /\ \A q \in Queues : pc[q] # "idle" => ctx[q].job \in Job /\ ctx[q].job.order = OrderOf(q)

\* The rows, the queues and every process's locals are well formed.
TypeOK == RowsOK /\ ProcsOK

\* An order reads REFUNDED only once the customer has the money back.
RefundedMeansCredited ==
  \A o \in Orders : status[o] = "REFUNDED" => "refund" \in ledger[o]

\* An order reads COMPLETED, and an ICCID is on file, only if the supplier has
\* delivered: whatever path completed it saw an allocated profile or a
\* confirmed top-up.
CompletedMeansDelivered ==
  \A o \in Orders :
    /\ profile[o].iccid => supplier[o] \in Supplied
    /\ status[o] = "COMPLETED" => supplier[o] \in Supplied \cup {"confirmed"}

\* The customer is told the truth: "completed" only of something delivered,
\* "failed" only when the refund is in the wallet.
NoticesTrue ==
  \A o \in Orders :
    /\ "completed" \in notices[o] => supplier[o] \in Supplied \cup {"confirmed"}
    /\ "failed" \in notices[o] => "refund" \in ledger[o]

\* Purchases and top-ups are settled as OrderLifecycle promises, through every
\* interleaving of workers, webhooks, refreshes and failures: the status and
\* what the customer is told never run ahead of eSIM Access or the wallet.
HasDelivered(o) == supplier[o] \in Supplied \cup {"confirmed"}
Lifecycle == INSTANCE OrderLifecycle WITH
  money <- ledger, supplied <- [o \in Orders |-> HasDelivered(o)], told <- notices
ImplementsLifecycle == Lifecycle!LifecycleSpec

\* No customer who has not been refunded loses an eSIM to the late-fulfilment
\* cleanup.
CleanupOnlyAfterRefund ==
  \A o \in Orders : supplier[o] \in {"cancelled", "revoked"} => "refund" \in ledger[o]

\* As long as no admin has retried an order, the supplier is asked for, and a
\* refund paid for, only what the wallet has been charged.
NothingUncharged ==
  retries = 0 =>
    \A o \in Orders : supplier[o] # "none" \/ "refund" \in ledger[o] => "charge" \in ledger[o]

\* As long as nothing fails, restarts or is retried by hand, a charged order is
\* never lost: when nothing runs and no job waits, it is COMPLETED or refunded.
Quiet == (\A p \in Procs : pc[p] = "idle") /\ (\A q \in Queues : jobs[q] = {})
Undisturbed == retries = 0 /\ throws = 0 /\ crashes = 0
Settled(o) == status[o] = "COMPLETED" \/ "refund" \in ledger[o]
QuietMeansSettled ==
  Quiet /\ Undisturbed => \A o \in Orders : "charge" \in ledger[o] => Settled(o)

\* One eSIM has one top-up in flight and a confirmed top-up is never refunded,
\* through overlapping checkouts, failures, crashes and attempts: only a top-up cut
\* off half completed or half refunded, or put on the purchase queue by the admin
\* or the sweep, may be a second one in flight, or supplied and refunded.
TopUpsSafe ==
  LET Regular == TopUps \ astray IN
    /\ \A s, t \in Regular : {status[s], status[t]} \subseteq {"PAID", "FULFILLING"} => s = t
    /\ \A t \in Regular : ~(supplier[t] = "confirmed" /\ "refund" \in ledger[t])

\* Left undisturbed, a charged order is settled in the end, whether or not the
\* supplier ever delivers.
UndisturbedSettles ==
  \A o \in Orders : "charge" \in ledger[o] ~> (Settled(o) \/ ~Undisturbed)

\* A charged order that reached FULFILLING survives a crash at any point, and
\* needs no supplier that ever delivers: in the end it is settled, or at least
\* its eSIM is on file for the customer (and for the refresh that completes it).
FulfillingResolves ==
  \A o \in Purchases :
    (status[o] = "FULFILLING" /\ "charge" \in ledger[o]) ~> (Settled(o) \/ profile[o].iccid)

-----------------------------------------------------------------------------
(* What comments and docs of the repository say and the code does not do.    *)

\* poll-esim-order.processor.ts: poll chain and webhook "never race each other
\* into an inconsistent state": an order is not both delivered and refunded.
NeverDeliveredAndRefunded ==
  \A o \in Orders : ~(status[o] = "COMPLETED" /\ "refund" \in ledger[o])

\* fulfillment-reliability.md: the sweep covers a "crash between wallet debit
\* and job scheduling": a charged order is settled in the end.
ChargedSettles == \A o \in Orders : "charge" \in ledger[o] ~> Settled(o)

\* fulfillment.processor.ts: "This queue only ever handles PURCHASE orders".
FulfilQueueOnlyPurchases == \A j \in jobs["fulfil"] : j.order \in Purchases

\* fulfillment.service.ts, completeTopUp: "the provider call itself is not
\* retried once it succeeds".
TopUpNotCalledAgain ==
  pc["topup"] = "topUpCall" => supplier[OrderOf("topup")] # "confirmed"

\* fulfillment-reliability.md: when the provider stays down longer than polling
\* and reconciliation try, "orders will eventually be refunded": no charged
\* order stays in FULFILLING forever without at least its eSIM on file.
RestartedChainsEnd ==
  \A o \in Purchases :
    (status[o] = "FULFILLING" /\ "charge" \in ledger[o])
      ~> (status[o] # "FULFILLING" \/ profile[o].iccid)
=============================================================================
