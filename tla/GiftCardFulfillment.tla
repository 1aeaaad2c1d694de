------------------------ MODULE GiftCardFulfillment ------------------------
(***************************************************************************)
(* Gift card orders from checkout to codes: the checkout, the fulfil and   *)
(* poll workers, Reloadly's webhook, the two reconciliation sweeps, the    *)
(* admin's retry and the reveal.  refundAndFail is the one of module       *)
(* FulfillmentService, which the code shares as well.  One action per      *)
(* await; any of them may throw, and the process may crash and restart.    *)
(* Delays, thresholds and cron ticks may be due at any time.               *)
(***************************************************************************)
EXTENDS Naturals

CONSTANTS Cards,       \* GIFT_CARD orders
          Handlers,    \* concurrently running HTTP requests, webhooks and cron ticks
          NoOrder,     \* the order of an idle process
          Parts,       \* optional parts of this instance: "webhook", "reveal", "sweep",
                       \* "throw" (calls may fail where no catch names them)
          MaxAttempts, \* bound for GIFTCARD_FULFILL_JOB_ATTEMPTS (3 in the code)
          MaxPolls,    \* bound for GIFTCARD_MAX_POLL_ATTEMPTS (20 in the code)
          MaxTags,     \* bound: waiting jobs with a timestamped id, per order
          MaxRetries,  \* bound: admin retries
          MaxFaults    \* bound: failed calls and crashes together; one crash at
                       \* most, as BullMQ re-runs a stalled job only once

VARIABLES status,    \* Order.status; "none" before the order exists
          ledger,    \* wallet postings of the order: "charge" and "refund"
          issuance,  \* GiftCardIssuance row: providerStatus, transaction id and codes on file
          provider,  \* Reloadly's transaction under the order's customIdentifier
          notices,   \* what the customer was told ("completed", "failed") or shown ("codes")
          escalated, \* opsAlert giftcard_provider_failed_funds_not_reversed was raised
          jobs, pollIds, pc, ctx,      \* as in FulfillmentService
          retries, throws, crashes,    \* how much of each bound is used
          cut        \* history, which no action reads: orders whose refundAndFail
                     \* was cut off after the credit

\* The shared fulfilment service, over gift card orders.
F == INSTANCE FulfillmentService WITH
       Purchases <- Cards, TopUps <- {}, profile <- issuance, supplier <- provider

ASSUME OrdersAssumption == NoOrder \notin Cards
ASSUME HandlersAssumption == Handlers \cap {"fulfil", "poll", "topup"} = {}
ASSUME BoundsAssumption ==
  /\ MaxAttempts \in Nat \ {0} /\ MaxPolls \in Nat \ {0} /\ MaxTags \in Nat
  /\ MaxRetries \in Nat /\ MaxFaults \in Nat

rows == <<status, ledger, issuance, provider, notices, escalated>>
queueVars == <<jobs, pollIds>>
procVars == <<pc, ctx>>
budgets == <<retries, throws, crashes, cut>>
vars == <<rows, queueVars, procVars, budgets>>

Queues == {"fulfil", "poll"}   \* one worker per queue, concurrency 1
Procs == Queues \cup Handlers
Terminal == {"COMPLETED", "REFUNDED"}
\* PENDING stands for PROCESSING too: the code tells them apart nowhere.
Reported == {"PENDING", "SUCCESSFUL", "FAILED", "REFUNDED"}
OrderOf(p) == F!OrderOf(p)
Goto(p, label) == F!Goto(p, label)
Finish(p) == F!Finish(p)

\* Go on at `label` with `s` as the transaction status in hand.
Carry(p, s, label) == ctx' = [ctx EXCEPT ![p].seen = s] /\ Goto(p, label)

\* Process p, idle so far, starts at `label` for order o.
Begin(p, label, o) ==
  /\ pc[p] = "idle"
  /\ pc' = [pc EXCEPT ![p] = label]
  /\ ctx' = [ctx EXCEPT ![p] = [F!NoCtx EXCEPT !.order = o]]

\* One more call fails.
Fault == "throw" \in Parts /\ throws + crashes < MaxFaults /\ throws' = throws + 1

Init ==
  /\ status = [o \in Cards |-> "none"]
  /\ ledger = [o \in Cards |-> {}]
  /\ issuance = [o \in Cards |-> [state |-> "none", txn |-> FALSE, codes |-> FALSE]]
  /\ provider = [o \in Cards |-> "none"]
  /\ notices = [o \in Cards |-> {}]
  /\ escalated = [o \in Cards |-> FALSE]
  /\ jobs = [q \in Queues |-> {}]
  /\ pollIds = [o \in Cards |-> {}]
  /\ pc = [p \in Procs |-> "idle"]
  /\ ctx = [p \in Procs |-> F!NoCtx]
  /\ retries = 0 /\ throws = 0 /\ crashes = 0 /\ cut = {}

-----------------------------------------------------------------------------
(* GiftCardOrdersService: create, retryFulfillment, reveal                   *)

Create(h, o) ==
  /\ status[o] = "none"
  /\ Begin(h, "issue", o)
  /\ status' = [status EXCEPT ![o] = "PAID"]
  /\ UNCHANGED <<ledger, issuance, provider, notices, escalated, queueVars, budgets>>

\* The issuance row, and with it the identifier, exists before money moves.
CreateIssuance(h) ==
  /\ pc[h] = "issue"
  /\ issuance' = [issuance EXCEPT ![OrderOf(h)].state = "PENDING"]
  /\ Goto(h, "debit")
  /\ UNCHANGED <<status, ledger, provider, notices, escalated, ctx, queueVars, budgets>>

\* Mutant: a refused debit does not stop the order.
DebitIgnored(h) ==
  /\ pc[h] = "debit"
  /\ ledger' \in {ledger, [ledger EXCEPT ![OrderOf(h)] = @ \cup {"charge"}]}
  /\ Goto(h, "start")
  /\ UNCHANGED <<status, issuance, provider, notices, escalated, ctx, queueVars, budgets>>

\* wallet.debit: charged, refused, or committed with the answer lost.
Debit(h) ==
  LET Charge == ledger' = [ledger EXCEPT ![OrderOf(h)] = @ \cup {"charge"}] IN
  /\ pc[h] = "debit"
  /\ \/ Charge /\ Goto(h, "start") /\ UNCHANGED throws
     \/ Goto(h, "markUnpaid") /\ UNCHANGED <<ledger, throws>>
     \/ Fault /\ Charge /\ Goto(h, "markUnpaid")
  /\ UNCHANGED <<status, issuance, provider, notices, escalated, ctx, queueVars, retries, crashes, cut>>

MarkUnpaid(h) ==
  /\ pc[h] = "markUnpaid"
  /\ status' = [status EXCEPT ![OrderOf(h)] = "FAILED"]
  /\ Finish(h)
  /\ UNCHANGED <<ledger, issuance, provider, notices, escalated, queueVars, budgets>>

\* FULFILLING, by the checkout or by the admin's retry, which writes it over
\* whatever the order has become since it was read.
Start(h) ==
  /\ pc[h] \in {"start", "retryMark"}
  /\ status' = [status EXCEPT ![OrderOf(h)] = "FULFILLING"]
  /\ Goto(h, IF pc[h] = "start" THEN "enqueue" ELSE "addFresh")
  /\ UNCHANGED <<ledger, issuance, provider, notices, escalated, ctx, queueVars, budgets>>

\* The checkout's job has the order's id; it is queued once.
Enqueue(h) ==
  /\ pc[h] = "enqueue"
  /\ jobs' = [jobs EXCEPT !["fulfil"] = @ \cup {[order |-> OrderOf(h), tag |-> 0, n |-> 0]}]
  /\ Finish(h)
  /\ UNCHANGED <<rows, pollIds, budgets>>

\* retryFulfillment reads the order and rejects only a terminal one.
Retry(h, o) ==
  /\ retries < MaxRetries /\ status[o] \notin Terminal \cup {"none"}
  /\ Begin(h, "retryMark", o)
  /\ retries' = retries + 1
  /\ UNCHANGED <<rows, queueVars, throws, crashes, cut>>

\* Mutant: the job is queued under the order's id, which Redis still retains.
AddRetained(h) ==
  /\ pc[h] = "addFresh"
  /\ Finish(h)
  /\ UNCHANGED <<rows, queueVars, budgets>>

\* The retry and the stuck-order sweep queue a job under a timestamped id.
AddFresh(h) ==
  /\ pc[h] = "addFresh"
  /\ F!AddFresh("fulfil", OrderOf(h), 0)
  /\ Finish(h)
  /\ UNCHANGED <<rows, pollIds, budgets>>

\* The owner sees the codes of a completed order.
Reveal(o) ==
  /\ "reveal" \in Parts /\ status[o] = "COMPLETED" /\ issuance[o].codes
  /\ notices' = [notices EXCEPT ![o] = @ \cup {"shown"}]
  /\ UNCHANGED <<status, ledger, issuance, provider, escalated, queueVars, procVars, budgets>>

-----------------------------------------------------------------------------
(* The queues                                                                *)

\* Mutant: the worker starts without the job's order.
TakeBlind(q, j) ==
  /\ pc[q] = "idle" /\ j \in jobs[q]
  /\ jobs' = [jobs EXCEPT ![q] = @ \ {j}]
  /\ pc' = [pc EXCEPT ![q] = IF q = "fulfil" THEN "fulfilRead" ELSE "pollRead"]
  /\ ctx' = [ctx EXCEPT ![q] = [F!NoCtx EXCEPT !.job = j]]
  /\ UNCHANGED <<rows, pollIds, budgets>>

\* A worker takes a job that is due.
Take(q, j) ==
  /\ pc[q] = "idle" /\ j \in jobs[q]
  /\ jobs' = [jobs EXCEPT ![q] = @ \ {j}]
  /\ pc' = [pc EXCEPT ![q] = IF q = "fulfil" THEN "fulfilRead" ELSE "pollRead"]
  /\ ctx' = [ctx EXCEPT ![q] = [F!NoCtx EXCEPT !.order = j.order, !.job = j]]
  /\ UNCHANGED <<rows, pollIds, budgets>>

LastAttempt(q) == ctx[q].job.n + 1 >= MaxAttempts

\* A processor throws.  BullMQ delays a fulfil job for its next attempt, if it
\* has one; a poll job has one attempt only.
Fail(p) ==
  /\ IF p = "fulfil" /\ ~LastAttempt(p)
     THEN jobs' = [jobs EXCEPT ![p] = @ \cup {[ctx[p].job EXCEPT !.n = @ + 1]}]
     ELSE UNCHANGED jobs
  /\ Finish(p)

\* BullMQ's add of poll n under its deterministic id: ignored while Redis knows a
\* job of that id, and so perhaps one long finished (it retains 100 to 200).
AddPoll(o, n) ==
  LET j == [order |-> o, tag |-> 0, n |-> n] IN
  \/ /\ j \in jobs["poll"] \cup {ctx["poll"].job} \/ n \in pollIds[o]
     /\ UNCHANGED queueVars
  \/ /\ j \notin jobs["poll"] \cup {ctx["poll"].job}
     /\ jobs' = [jobs EXCEPT !["poll"] = @ \cup {j}]
     /\ pollIds' = [pollIds EXCEPT ![o] = @ \cup {n}]

-----------------------------------------------------------------------------
(* GiftCardFulfillProcessor                                                  *)

\* Read the order; without an issuance (a retried order whose checkout ended
\* before it) there is nothing to do.  A second attempt, and an issuance that has a
\* transaction, first look for what an earlier attempt may have bought.
FulfilRead(p) ==
  /\ pc[p] = "fulfilRead"
  /\ IF status[OrderOf(p)] \in Terminal \/ issuance[OrderOf(p)].state = "none" THEN Finish(p)
     ELSE /\ Goto(p, IF ctx[p].job.n > 0 \/ issuance[OrderOf(p)].txn THEN "recover" ELSE "preflight")
          /\ UNCHANGED ctx
  /\ UNCHANGED <<rows, queueVars, budgets>>

\* The lookup under the identifier, which Reloadly answers with transactions of that
\* identifier only; recover() takes an error for "nothing".
Found(p) == provider[OrderOf(p)] # "none" /\ Carry(p, provider[OrderOf(p)], "record")

Recover(p) ==
  /\ pc[p] = "recover"
  /\ Found(p) \/ (Goto(p, "preflight") /\ UNCHANGED ctx)
  /\ UNCHANGED <<rows, queueVars, budgets>>

\* Too little balance with the provider refunds; an unknown one does not.
Preflight(p) ==
  /\ pc[p] = "preflight"
  /\ Carry(p, "FAILED", "flag") \/ (Goto(p, "post") /\ UNCHANGED ctx)
  /\ UNCHANGED <<rows, queueVars, budgets>>

\* POST /orders: accepted under the identifier at most once.  A repeated one is
\* a duplicate, any order may be rejected for good, and an answer may be lost;
\* the last attempt looks once more before it refunds.
PlaceOrder(p) ==
  LET o == OrderOf(p)
      Accept(s) == provider[o] = "none" /\ provider' = [provider EXCEPT ![o] = s]
      Lost == IF LastAttempt(p) THEN Goto(p, "lastRecover") /\ UNCHANGED <<ctx, jobs>> ELSE Fail(p)
  IN
  /\ pc[p] = "post"
  /\ \/ \E s \in Reported : Accept(s) /\ Carry(p, s, "record") /\ UNCHANGED jobs
     \/ provider[o] # "none" /\ Goto(p, "dupRecover") /\ UNCHANGED <<provider, ctx, jobs>>
     \/ Carry(p, "FAILED", "flag") /\ UNCHANGED <<provider, jobs>>
     \/ (Accept("PENDING") \/ UNCHANGED provider) /\ Lost
  /\ UNCHANGED <<status, ledger, issuance, notices, escalated, pollIds, budgets>>

\* Mutant: a duplicate that cannot be found is refunded.
DupRefunded(p) ==
  /\ pc[p] = "dupRecover"
  /\ \/ Found(p) /\ UNCHANGED jobs
     \/ Goto(p, "refundRead") /\ UNCHANGED <<ctx, jobs>>
  /\ UNCHANGED <<rows, pollIds, budgets>>

\* A duplicate that cannot be found is left to a person: throw.
DupRecover(p) ==
  /\ pc[p] = "dupRecover"
  /\ (Found(p) /\ UNCHANGED jobs) \/ Fail(p)
  /\ UNCHANGED <<rows, pollIds, budgets>>

LastRecover(p) ==
  /\ pc[p] = "lastRecover"
  /\ Found(p) \/ Carry(p, "FAILED", "flag")
  /\ UNCHANGED <<rows, queueVars, budgets>>

-----------------------------------------------------------------------------
(* What every path does with a transaction status                            *)

\* Where each of the three callers goes on after recordTransaction.
AfterRecord(p, s) ==
  CASE s = "SUCCESSFUL"           -> "fetch"
    [] s \in {"REFUNDED", "FAILED"} -> "flag"
    [] p = "fulfil"               -> "schedule"
    [] p = "poll"                 -> "pollNext"
    [] OTHER                      -> "hookMark"

\* recordTransaction writes the status in hand over the row's.
Record(p) ==
  LET s == ctx[p].seen IN
  /\ pc[p] = "record"
  /\ issuance' = [issuance EXCEPT ![OrderOf(p)].state = s, ![OrderOf(p)].txn = TRUE]
  /\ IF p = "poll" /\ s = "PENDING" /\ ctx[p].job.n >= MaxPolls
     THEN Carry(p, "FAILED", "flag")
     ELSE Goto(p, AfterRecord(p, s)) /\ UNCHANGED ctx
  /\ UNCHANGED <<status, ledger, provider, notices, escalated, queueVars, budgets>>

\* getRedeemCodes: usable codes, or none yet.
Fetch(p) ==
  /\ pc[p] = "fetch" /\ provider[OrderOf(p)] = "SUCCESSFUL"
  /\ \E usable \in BOOLEAN : ctx' = [ctx EXCEPT ![p].known = usable]
  /\ Goto(p, "store")
  /\ UNCHANGED <<rows, queueVars, budgets>>

\* storeCodes replaces what is on file, by nothing too.
Store(p) ==
  /\ pc[p] = "store"
  /\ issuance' = [issuance EXCEPT ![OrderOf(p)].codes = ctx[p].known]
  /\ Goto(p, "giftRead")
  /\ ctx' = [ctx EXCEPT ![p].known = FALSE, ![p].seen = "none"]
  /\ UNCHANGED <<status, ledger, provider, notices, escalated, queueVars, budgets>>

\* complete(): read the order; a terminal one is left alone.
CompleteRead(p) ==
  /\ pc[p] = "giftRead"
  /\ IF status[OrderOf(p)] \in Terminal THEN F!Return(p) ELSE Goto(p, "giftComplete") /\ UNCHANGED ctx
  /\ UNCHANGED <<rows, queueVars, budgets>>

\* Write COMPLETED and, with no await in between, emit GiftCardIssued.
Complete(p) ==
  /\ pc[p] = "giftComplete"
  /\ status' = [status EXCEPT ![OrderOf(p)] = "COMPLETED"]
  /\ notices' = [notices EXCEPT ![OrderOf(p)] = @ \cup {"completed"}]
  /\ F!Return(p)
  /\ UNCHANGED <<ledger, issuance, provider, escalated, queueVars, budgets>>

\* failAndRefund writes the issuance's status first, ...
Flag(p) ==
  /\ pc[p] = "flag"
  /\ issuance' = [issuance EXCEPT ![OrderOf(p)].state = ctx[p].seen]
  /\ Goto(p, "refundRead")
  /\ UNCHANGED <<status, ledger, provider, notices, escalated, ctx, queueVars, budgets>>

\* ... runs refundAndFail, and on its return raises the alert if the provider
\* has not reversed its own charge.
Escalate(p) == escalated' = [escalated EXCEPT ![OrderOf(p)] = @ \/ ctx[p].seen = "FAILED"]

RefundAndFail(p) ==
  /\ \/ F!RefundRead(p) /\ IF status[OrderOf(p)] \in Terminal THEN Escalate(p) ELSE UNCHANGED escalated
     \/ (F!MarkFailed(p) \/ F!CreditRefund(p) \/ F!MarkRefunded(p)) /\ UNCHANGED escalated
     \/ F!AnnounceFailed(p) /\ Escalate(p)
  /\ UNCHANGED budgets

Schedule(p) ==
  /\ pc[p] \in {"schedule", "pollNext"}
  /\ AddPoll(OrderOf(p), IF pc[p] = "schedule" THEN 1 ELSE ctx[p].job.n + 1)
  /\ Finish(p)
  /\ UNCHANGED <<rows, budgets>>

Outcome(p) ==
  Record(p) \/ Fetch(p) \/ Store(p) \/ CompleteRead(p) \/ Complete(p) \/ Flag(p) \/ RefundAndFail(p)

-----------------------------------------------------------------------------
(* GiftCardPollProcessor                                                     *)

PollRead(p) ==
  /\ pc[p] = "pollRead"
  /\ IF status[OrderOf(p)] \in Terminal THEN Finish(p) ELSE Goto(p, "pollQuery") /\ UNCHANGED ctx
  /\ UNCHANGED <<rows, queueVars, budgets>>

PollQuery(p) ==
  /\ pc[p] = "pollQuery"
  /\ Carry(p, provider[OrderOf(p)], "record")
  /\ UNCHANGED <<rows, queueVars, budgets>>

-----------------------------------------------------------------------------
(* WebhooksService.handleReloadly                                            *)

\* A status Reloadly has reported, now or late.  The event id contains the
\* notification's timestamp, so deliveries are not told apart.
HookBegin(h, o, hint) ==
  /\ "webhook" \in Parts /\ pc[h] = "idle"
  /\ provider[o] # "none" /\ hint \in {"PENDING", provider[o]}
  /\ pc' = [pc EXCEPT ![h] = "hookRead"]
  /\ ctx' = [ctx EXCEPT ![h] = [F!NoCtx EXCEPT !.order = o, !.note = hint]]
  /\ UNCHANGED <<rows, queueVars, budgets>>

HookRead(h) ==
  /\ pc[h] = "hookRead"
  /\ Goto(h, IF status[OrderOf(h)] \in Terminal THEN "hookMark" ELSE "hookResolve")
  /\ UNCHANGED <<rows, ctx, queueVars, budgets>>

\* The transaction from the API or, if the lookups give nothing, the hint; with no
\* transaction id to hang it on, the notification is given up.
HookResolve(h) ==
  /\ pc[h] = "hookResolve"
  /\ \/ \E s \in {provider[OrderOf(h)], ctx[h].note} : Carry(h, s, "record")
     \/ ~issuance[OrderOf(h)].txn /\ Goto(h, "hookMark") /\ UNCHANGED ctx
  /\ UNCHANGED <<rows, queueVars, budgets>>

HookMark(h) ==
  /\ pc[h] = "hookMark"
  /\ Finish(h)
  /\ UNCHANGED <<rows, queueVars, budgets>>

-----------------------------------------------------------------------------
(* GiftCardReconciliationService                                             *)

\* sweepStuckOrders restarts a FULFILLING order.
Sweep(h, o) ==
  /\ "sweep" \in Parts /\ status[o] = "FULFILLING"
  /\ Begin(h, "addFresh", o)
  /\ UNCHANGED <<rows, queueVars, budgets>>

\* Mutant: codes are looked for only while the order is not completed.
SweepOpenOnly(h, o) ==
  /\ issuance[o].state = "SUCCESSFUL" /\ issuance[o].txn /\ ~issuance[o].codes
  /\ status[o] # "COMPLETED"
  /\ Begin(h, "fetch", o)
  /\ UNCHANGED <<rows, queueVars, budgets>>

\* sweepMissingCodes fetches the codes of a SUCCESSFUL issuance without any.
SweepMissingCodes(h, o) ==
  /\ issuance[o].state = "SUCCESSFUL" /\ issuance[o].txn /\ ~issuance[o].codes
  /\ Begin(h, "fetch", o)
  /\ UNCHANGED <<rows, queueVars, budgets>>

-----------------------------------------------------------------------------
(* Reloadly, failures and restarts                                           *)

Settle(o) ==
  /\ provider[o] = "PENDING"
  /\ \E s \in Reported \ {"PENDING"} : provider' = [provider EXCEPT ![o] = s]
  /\ UNCHANGED <<status, ledger, issuance, notices, escalated, queueVars, procVars, budgets>>

\* Labels whose failures the code catches and their own actions model.
Caught == {"debit", "recover", "preflight", "post", "dupRecover", "lastRecover"}

\* The refund is in the wallet and the alert still to come, here and nowhere else.
Credited == {"markRefunded", "announceFailed"}
CutOff(P) == {o \in Cards : \E p \in P : pc[p] \in Credited /\ OrderOf(p) = o}

Throw(p) ==
  /\ pc[p] \notin {"idle"} \cup Caught
  /\ Fault
  /\ Fail(p)
  /\ cut' = cut \cup CutOff({p})
  /\ UNCHANGED <<rows, pollIds, retries, crashes>>

\* Every call in progress is gone; BullMQ queues the stalled jobs again.
Crash ==
  /\ crashes = 0 /\ throws < MaxFaults /\ crashes' = 1
  /\ jobs' = [q \in Queues |-> jobs[q] \cup (IF pc[q] = "idle" THEN {} ELSE {ctx[q].job})]
  /\ pc' = [p \in Procs |-> "idle"]
  /\ ctx' = [p \in Procs |-> F!NoCtx]
  /\ cut' = cut \cup CutOff(Procs)
  /\ UNCHANGED <<rows, pollIds, retries, throws>>

-----------------------------------------------------------------------------
FulfilWorker(p) ==
  \/ FulfilRead(p) \/ Recover(p) \/ Preflight(p) \/ PlaceOrder(p)
  \/ DupRecover(p) \/ LastRecover(p) \/ Schedule(p)
PollWorker(p) == PollRead(p) \/ PollQuery(p) \/ Schedule(p)
Handler(h) ==
  \/ CreateIssuance(h) \/ Debit(h) \/ MarkUnpaid(h) \/ Start(h) \/ Enqueue(h) \/ AddFresh(h)
  \/ HookRead(h) \/ HookResolve(h) \/ HookMark(h)

\* The next await of process p.
Step(p) ==
  \/ Outcome(p)
  \/ p = "fulfil" /\ FulfilWorker(p)
  \/ p = "poll" /\ PollWorker(p)
  \/ p \in Handlers /\ Handler(p)

Next ==
  \/ \E p \in Procs : Step(p) \/ Throw(p)
  \/ \E q \in Queues : \E j \in jobs[q] : Take(q, j)
  \/ \E h \in Handlers, o \in Cards :
       \/ Create(h, o) \/ Retry(h, o) \/ Sweep(h, o) \/ SweepMissingCodes(h, o)
       \/ \E hint \in Reported : HookBegin(h, o, hint)
  \/ \E o \in Cards : Reveal(o) \/ Settle(o)
  \/ Crash

Spec == Init /\ [][Next]_vars

\* A call in progress goes on and a worker with due jobs takes one; Reloadly
\* settles a transaction in the end; the crons reach an order that keeps being
\* stuck; and an answer that is asked for again and again (the lookup under the
\* identifier, the codes of a SUCCESSFUL transaction) is given some time.
FindsIt ==
  /\ pc["fulfil"] \in {"recover", "dupRecover"} /\ Found("fulfil")
  /\ UNCHANGED <<rows, queueVars, budgets>>
GivesCodes(h) == Fetch(h) /\ ctx'[h].known
Fairness ==
  /\ \A p \in Procs : WF_vars(Step(p))
  /\ \A q \in Queues : WF_vars(\E j \in jobs[q] : Take(q, j))
  /\ \A o \in Cards :
       /\ WF_vars(Settle(o))
       /\ SF_vars(\E h \in Handlers : Sweep(h, o))
       /\ SF_vars(\E h \in Handlers : SweepMissingCodes(h, o))
  /\ SF_vars(FindsIt)
  /\ \A h \in Handlers : SF_vars(GivesCodes(h))

FairSpec == Spec /\ Fairness

-----------------------------------------------------------------------------
Labels ==
  {"idle", "issue", "debit", "markUnpaid", "start", "enqueue", "retryMark", "addFresh",
   "fulfilRead", "recover", "preflight", "post", "dupRecover", "lastRecover", "record",
   "fetch", "store", "giftRead", "giftComplete", "flag", "refundRead", "markFailed",
   "credit", "markRefunded", "announceFailed", "schedule", "pollNext", "pollRead", "pollQuery", "hookRead",
   "hookResolve", "hookMark"}

Job == [order : Cards, tag : 0..MaxTags, n : Nat]
CtxType == [order : Cards \cup {NoOrder}, seen : Reported \cup {"none"}, known : BOOLEAN,
            job : Job \cup {F!NoJob}, note : Reported \cup {"none"}]

\* Rows, queues, budgets and every process's locals are well formed; a busy
\* process has an order, a busy worker a job of it.
TypeOK ==
  /\ status \in [Cards -> {"none", "PAID", "FULFILLING", "COMPLETED", "FAILED", "REFUNDED"}]
  /\ ledger \in [Cards -> SUBSET {"charge", "refund"}]
  /\ issuance \in [Cards -> [state : Reported \cup {"none"}, txn : BOOLEAN, codes : BOOLEAN]]
  /\ provider \in [Cards -> Reported \cup {"none"}]
  /\ notices \in [Cards -> SUBSET {"completed", "failed", "shown"}]
  /\ escalated \in [Cards -> BOOLEAN]
  /\ jobs \in [Queues -> SUBSET Job]
  /\ pollIds \in [Cards -> SUBSET Nat]
  /\ retries \in Nat /\ throws \in Nat /\ crashes \in {0, 1} /\ cut \subseteq Cards
  /\ pc \in [Procs -> Labels]
  /\ ctx \in [Procs -> CtxType]
  /\ \A p \in Procs : pc[p] # "idle" => OrderOf(p) \in Cards
  /\ \A q \in Queues : pc[q] # "idle" => ctx[q].job \in Job /\ ctx[q].job.order = OrderOf(q)

\* Orders are settled as OrderLifecycle promises, through every interleaving of
\* workers, webhook, sweeps and retries: COMPLETED, "completed" and revealed
\* codes only of a transaction Reloadly calls SUCCESSFUL, REFUNDED and "failed"
\* only with the money back.
Lifecycle == INSTANCE OrderLifecycle WITH
  Orders <- Cards, money <- ledger, supplied <- [o \in Cards |-> provider[o] = "SUCCESSFUL"], told <- notices
ImplementsLifecycle == Lifecycle!LifecycleSpec

\* Whoever is refunded while Reloadly keeps the money of an order it accepted,
\* whatever the order reads by then, an operator has been alerted or is about to
\* be.  Silent is only a loss whose refundAndFail was cut off in one of the two
\* calls between the credit and the alert.
RefundsEscalated ==
  \A o \in Cards :
    "refund" \in ledger[o] /\ provider[o] \notin {"none", "REFUNDED"} =>
      escalated[o] \/ o \in CutOff(Procs) \cup cut

\* As long as no admin has retried an order, Reloadly is asked for, and a refund
\* paid for, only what the wallet has been charged.
NothingUncharged ==
  retries = 0 =>
    \A o \in Cards : provider[o] # "none" \/ "refund" \in ledger[o] => "charge" \in ledger[o]

\* A charged order that is being fulfilled outlives lost answers, dead poll chains
\* and a crash: the sweep and the identifier bring it to COMPLETED or the customer
\* to a refund.  Only a crash or failure inside refundAndFail may leave it FAILED,
\* which the sweep does not select and an admin can retry.
Settled(o) == status[o] = "COMPLETED" \/ "refund" \in ledger[o]
Disturbed == throws > 0 \/ crashes > 0
FulfillingSettles ==
  \A o \in Cards :
    (status[o] = "FULFILLING" /\ "charge" \in ledger[o])
      ~> (Settled(o) \/ (status[o] = "FAILED" /\ Disturbed))

\* A completed order whose issuance keeps reading SUCCESSFUL gets its codes,
\* even if the fetch that completed it came back empty or overwrote them.
CodesLand ==
  \A o \in Cards :
    (status[o] = "COMPLETED" /\ issuance[o].state = "SUCCESSFUL")
      ~> (issuance[o].codes \/ issuance[o].state # "SUCCESSFUL")

-----------------------------------------------------------------------------
(* What comments of the repository say and the code does not do.             *)

\* giftcard-fulfill.processor.ts: "Only refund once the provider confirms there
\* is nothing under our identifier": no refund while Reloadly is issuing a card.
RefundOnlyUnissued ==
  \A o \in Cards : "refund" \in ledger[o] => provider[o] \notin {"PENDING", "SUCCESSFUL"}
=============================================================================
