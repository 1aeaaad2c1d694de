------------------------------ MODULE Deposits ------------------------------
(***************************************************************************)
(* Wallet deposits through Paystack and OxaPay: PaymentsService opens a     *)
(* payment at the provider, and the provider's webhook credits the wallet.  *)
(* The provider repeats a notification until it is answered, and sometimes  *)
(* after; deliveries overlap; database calls fail; the process crashes.     *)
(* The wallet is used at the level of module Ledger: a credit is atomic and *)
(* posted once per reference (deposit_<provider>_<external id>).            *)
(***************************************************************************)
EXTENDS Naturals

CONSTANTS Paystack,   \* deposits made through Paystack
          Oxapay,     \* deposits made through OxaPay
          Handlers,   \* concurrently running HTTP requests
          NoDeposit,  \* the deposit of an idle handler
          MaxThrows,  \* bound: awaited calls that fail
          MaxCrashes  \* bound: process crashes

Deposits == Paystack \cup Oxapay

ASSUME DepositsAssumption == Paystack \cap Oxapay = {} /\ NoDeposit \notin Deposits
ASSUME BudgetsAssumption == MaxThrows \in Nat /\ MaxCrashes \in Nat

VARIABLES intent,    \* PaymentIntent.status; "none" before it exists
          payment,   \* the payment at the provider
          linked,    \* deposits whose payment URL the customer has been given
          credited,  \* deposits posted to the wallet
          event,     \* WebhookEvent row of each event id of a deposit
          sent,      \* notifications the provider has sent of a deposit
          owed,      \* those it has no answer to yet and so repeats
          pc,        \* what each handler awaits
          ctx,       \* its deposit and notification
          throws, crashes   \* how much of each bound is used

paymentVars == <<intent, payment, linked, credited>>
noteVars == <<event, sent, owed>>
budgets == <<throws, crashes>>
vars == <<paymentVars, noteVars, pc, ctx, budgets>>

\* Notifications: the successful payment, or any other one (Paystack: another
\* event type; OxaPay: another status of the same invoice).
Notes == {"paid", "other"}

\* Paystack's event id is event:reference, OxaPay's the invoice's track id,
\* whatever its status.
EventId(d, n) == IF d \in Paystack THEN n ELSE "track"
EventIds == Notes \cup {"track"}

NoCtx == [deposit |-> NoDeposit, note |-> "none"]
DepositOf(h) == ctx[h].deposit

Init ==
  /\ intent = [d \in Deposits |-> "none"]
  /\ payment = [d \in Deposits |-> "none"]
  /\ linked = {} /\ credited = {}
  /\ event = [d \in Deposits |-> [i \in EventIds |-> "none"]]
  /\ sent = [d \in Deposits |-> {}]
  /\ owed = [d \in Deposits |-> {}]
  /\ pc = [h \in Handlers |-> "idle"]
  /\ ctx = [h \in Handlers |-> NoCtx]
  /\ throws = 0 /\ crashes = 0

Goto(h, label) == pc' = [pc EXCEPT ![h] = label] /\ UNCHANGED ctx

\* Mutant: the request starts without its deposit.
BeginUnbound(h, label, d, n) ==
  /\ pc[h] = "idle"
  /\ pc' = [pc EXCEPT ![h] = label]
  /\ ctx' = [ctx EXCEPT ![h].note = n]

Begin(h, label, d, n) ==
  /\ pc[h] = "idle"
  /\ pc' = [pc EXCEPT ![h] = label]
  /\ ctx' = [ctx EXCEPT ![h] = [deposit |-> d, note |-> n]]

Finish(h) ==
  /\ pc' = [pc EXCEPT ![h] = "idle"]
  /\ ctx' = [ctx EXCEPT ![h] = NoCtx]

-----------------------------------------------------------------------------
(* initializePaystack, initializeOxapay                                      *)

\* Record the intent as PENDING.
Initialize(h, d) ==
  /\ intent[d] = "none"
  /\ Begin(h, "openPayment", d, "none")
  /\ intent' = [intent EXCEPT ![d] = "PENDING"]
  /\ UNCHANGED <<payment, linked, credited, noteVars, budgets>>

\* A failure: Paystack's branch catches it and marks the intent; OxaPay's has
\* no catch.
InitializeFails(h) ==
  IF DepositOf(h) \in Paystack THEN Goto(h, "markFailed") ELSE Finish(h)

\* Mutant: the customer gets the URL before the intent's update is known to work.
OpenPaymentLinks(h) ==
  /\ pc[h] = "openPayment"
  /\ \/ /\ payment' = [payment EXCEPT ![DepositOf(h)] = "open"]
        /\ linked' = linked \cup {DepositOf(h)}
        /\ Goto(h, "saveMetadata")
     \/ InitializeFails(h) /\ UNCHANGED <<payment, linked>>
  /\ UNCHANGED <<intent, credited, noteVars, budgets>>

\* The provider opens the payment; it may fail, or open it and the answer be lost.
OpenPayment(h) ==
  LET Open == payment' = [payment EXCEPT ![DepositOf(h)] = "open"] IN
  /\ pc[h] = "openPayment"
  /\ \/ Open /\ Goto(h, "saveMetadata")
     \/ (Open \/ UNCHANGED payment) /\ InitializeFails(h)
  /\ UNCHANGED <<intent, linked, credited, noteVars, budgets>>

\* Store what the provider answered, then give the customer the URL.
SaveMetadata(h) ==
  /\ pc[h] = "saveMetadata"
  /\ \/ linked' = linked \cup {DepositOf(h)} /\ Finish(h) /\ UNCHANGED throws
     \/ throws < MaxThrows /\ throws' = throws + 1 /\ InitializeFails(h) /\ UNCHANGED linked
  /\ UNCHANGED <<intent, payment, credited, noteVars, crashes>>

MarkFailed(h) ==
  /\ pc[h] = "markFailed"
  /\ intent' = [intent EXCEPT ![DepositOf(h)] = "FAILED"]
  /\ Finish(h)
  /\ UNCHANGED <<payment, linked, credited, noteVars, budgets>>

-----------------------------------------------------------------------------
(* handlePaystack, handleOxapay                                              *)

\* Mutant: every notification is taken for a successful payment.
DeliverAny(h, d, n) ==
  /\ n \in sent[d] /\ event[d][EventId(d, n)] # "processed"
  /\ event' = [event EXCEPT ![d][EventId(d, n)] = "open"]
  /\ Begin(h, "findIntent", d, n)
  /\ UNCHANGED <<paymentVars, sent, owed, budgets>>

\* Mutant: the event is marked processed when it arrives.
DeliverMarksFirst(h, d, n) ==
  LET id == EventId(d, n) IN
  /\ n \in sent[d] /\ pc[h] = "idle"
  /\ \/ /\ event[d][id] = "processed"
        /\ owed' = [owed EXCEPT ![d] = @ \ {n}]
        /\ UNCHANGED <<event, pc, ctx>>
     \/ /\ event[d][id] # "processed"
        /\ event' = [event EXCEPT ![d][id] = "processed"]
        /\ Begin(h, IF n = "paid" THEN "findIntent" ELSE "markProcessed", d, n)
        /\ UNCHANGED owed
  /\ UNCHANGED <<paymentVars, sent, budgets>>

\* beginEvent: a processed event is answered at once, any other goes on; only
\* a successful payment has more to do than be marked processed.
Deliver(h, d, n) ==
  LET id == EventId(d, n) IN
  /\ n \in sent[d] /\ pc[h] = "idle"
  /\ \/ /\ event[d][id] = "processed"
        /\ owed' = [owed EXCEPT ![d] = @ \ {n}]
        /\ UNCHANGED <<event, pc, ctx>>
     \/ /\ event[d][id] # "processed"
        /\ event' = [event EXCEPT ![d][id] = "open"]
        /\ Begin(h, IF n = "paid" THEN "findIntent" ELSE "markProcessed", d, n)
        /\ UNCHANGED owed
  /\ UNCHANGED <<paymentVars, sent, budgets>>

\* An intent already COMPLETED is not credited again.
FindIntent(h) ==
  /\ pc[h] = "findIntent"
  /\ Goto(h, IF intent[DepositOf(h)] = "COMPLETED" THEN "markProcessed" ELSE "credit")
  /\ UNCHANGED <<paymentVars, noteVars, budgets>>

\* wallet.credit: a posting already there is a success.
Credit(h) ==
  /\ pc[h] = "credit"
  /\ credited' = credited \cup {DepositOf(h)}
  /\ Goto(h, "completeIntent")
  /\ UNCHANGED <<intent, payment, linked, noteVars, budgets>>

CompleteIntent(h) ==
  /\ pc[h] = "completeIntent"
  /\ intent' = [intent EXCEPT ![DepositOf(h)] = "COMPLETED"]
  /\ Goto(h, "markProcessed")
  /\ UNCHANGED <<payment, linked, credited, noteVars, budgets>>

MarkProcessed(h) ==
  /\ pc[h] = "markProcessed"
  /\ event' = [event EXCEPT ![DepositOf(h)][EventId(DepositOf(h), ctx[h].note)] = "processed"]
  /\ Goto(h, "answer")
  /\ UNCHANGED <<paymentVars, sent, owed, budgets>>

\* { received: true } reaches the provider.
Answer(h) ==
  /\ pc[h] = "answer"
  /\ owed' = [owed EXCEPT ![DepositOf(h)] = @ \ {ctx[h].note}]
  /\ Finish(h)
  /\ UNCHANGED <<paymentVars, event, sent, budgets>>

-----------------------------------------------------------------------------
(* Customers, providers, failures and restarts                               *)

Notify(d, n) ==
  /\ sent' = [sent EXCEPT ![d] = @ \cup {n}]
  /\ owed' = [owed EXCEPT ![d] = @ \cup {n}]

\* The customer pays at the URL; the provider sends the notification.
Pay(d) ==
  /\ d \in linked /\ payment[d] = "open"
  /\ payment' = [payment EXCEPT ![d] = "paid"]
  /\ Notify(d, "paid")
  /\ UNCHANGED <<intent, linked, credited, event, pc, ctx, budgets>>

\* The provider has something else to say of an open payment.
SayOther(d) ==
  /\ payment[d] = "open" /\ "other" \notin sent[d]
  /\ Notify(d, "other")
  /\ UNCHANGED <<paymentVars, event, pc, ctx, budgets>>

\* Mutant: a failure is answered like a success.
ThrowAnswered(h) ==
  /\ pc[h] \in {"findIntent", "credit", "completeIntent", "markProcessed"}
  /\ throws < MaxThrows /\ throws' = throws + 1
  /\ owed' = [owed EXCEPT ![DepositOf(h)] = @ \ {ctx[h].note}]
  /\ Finish(h)
  /\ UNCHANGED <<paymentVars, event, sent, crashes>>

\* An awaited database call fails (a write conflict in the wallet included) and
\* the request with it (answer 500); the credit may be committed all the same.
Throw(h) ==
  /\ pc[h] \notin {"idle", "openPayment", "saveMetadata"}
  /\ throws < MaxThrows /\ throws' = throws + 1
  /\ credited' \in {credited} \cup
       (IF pc[h] = "credit" THEN {credited \cup {DepositOf(h)}} ELSE {})
  /\ Finish(h)
  /\ UNCHANGED <<intent, payment, linked, noteVars, crashes>>

\* The process restarts: every request in progress is gone.
Crash ==
  /\ crashes < MaxCrashes /\ crashes' = crashes + 1
  /\ pc' = [h \in Handlers |-> "idle"]
  /\ ctx' = [h \in Handlers |-> NoCtx]
  /\ UNCHANGED <<paymentVars, noteVars, throws>>

-----------------------------------------------------------------------------
Step(h) ==
  \/ OpenPayment(h) \/ SaveMetadata(h) \/ MarkFailed(h)
  \/ FindIntent(h) \/ Credit(h) \/ CompleteIntent(h) \/ MarkProcessed(h) \/ Answer(h)

Next ==
  \/ \E h \in Handlers, d \in Deposits : Initialize(h, d)
  \/ \E h \in Handlers, d \in Deposits, n \in Notes : Deliver(h, d, n)
  \/ \E h \in Handlers : Step(h) \/ Throw(h)
  \/ \E d \in Deposits : Pay(d) \/ SayOther(d)
  \/ Crash

Spec == Init /\ [][Next]_vars

\* A request in progress goes on, and the provider repeats a notification for
\* as long as it has no answer.
Redeliver(d) == "paid" \in owed[d] /\ \E h \in Handlers : Deliver(h, d, "paid")
Fairness == /\ \A h \in Handlers : WF_vars(Step(h))
            /\ \A d \in Deposits : SF_vars(Redeliver(d))

FairSpec == Spec /\ Fairness

-----------------------------------------------------------------------------
Labels == {"idle", "openPayment", "saveMetadata", "markFailed", "findIntent", "credit",
           "completeIntent", "markProcessed", "answer"}

\* Rows and counters have their shapes.
RowsOK ==
  /\ intent \in [Deposits -> {"none", "PENDING", "COMPLETED", "FAILED"}]
  /\ payment \in [Deposits -> {"none", "open", "paid"}]
  /\ linked \subseteq Deposits /\ credited \subseteq Deposits
  /\ event \in [Deposits -> [EventIds -> {"none", "open", "processed"}]]
  /\ sent \in [Deposits -> SUBSET Notes]
  /\ owed \in [Deposits -> SUBSET Notes]
  /\ throws \in Nat /\ crashes \in Nat

\* So have a handler's locals; a busy handler has a deposit.
CtxType == [deposit : Deposits \cup {NoDeposit}, note : Notes \cup {"none"}]
HandlersOK ==
  /\ pc \in [Handlers -> Labels]
  /\ ctx \in [Handlers -> CtxType]
  /\ \A h \in Handlers : pc[h] # "idle" => DepositOf(h) \in Deposits

TypeOK == RowsOK /\ HandlersOK

\* No notification but that of a payment puts money in the wallet, and an
\* intent reads COMPLETED only when the money is there.
CreditsAreEarned ==
  \A d \in Deposits :
    /\ d \in credited => payment[d] = "paid"
    /\ intent[d] = "COMPLETED" => d \in credited

\* The customer was never given a URL to pay an intent that reads FAILED.
FailedTakesNoMoney == \A d \in Deposits : intent[d] = "FAILED" => payment[d] # "paid"

\* OxaPay's notifications of one invoice share their event id, so only an
\* invoice with no other notification is sure to have its payment noticed.
Noticed(d) == d \in Paystack \/ "other" \notin sent[d]

\* Whatever fails, crashes or is repeated, a payment that is not in the wallet
\* yet has not been answered, so the provider will repeat it.
PaymentNotLost ==
  \A d \in Deposits :
    payment[d] = "paid" /\ d \notin credited /\ Noticed(d) => "paid" \in owed[d]

\* Such a payment reaches the wallet in the end.
PaymentCredited ==
  \A d \in Deposits : payment[d] = "paid" ~> (d \in credited \/ ~Noticed(d))

-----------------------------------------------------------------------------
(* The inductive invariant behind the safety properties.                     *)

Opening == {"openPayment", "saveMetadata", "markFailed"}
Hooked == {"findIntent", "credit", "completeIntent", "markProcessed", "answer"}

\* A deposit is paid only at the URL its customer was given, the notification
\* says so only then, and its event is processed only with the money credited.
DepositInv(d) ==
  /\ payment[d] = "paid" => d \in linked
  /\ d \in linked => intent[d] \in {"PENDING", "COMPLETED"}
  /\ "paid" \in sent[d] => payment[d] = "paid"
  /\ event[d][EventId(d, "paid")] = "processed" /\ Noticed(d) => d \in credited
  /\ d \in credited => payment[d] = "paid"
  /\ intent[d] = "COMPLETED" => d \in credited
  /\ payment[d] = "paid" /\ d \notin credited /\ Noticed(d) => "paid" \in owed[d]

\* One request opens a deposit, which nobody can pay until it is done; a
\* delivery is of a notification sent, and answers a payment once credited.
HandlerInv(h) ==
  LET d == DepositOf(h) IN
  /\ pc[h] \in Opening =>
       /\ d \notin linked /\ intent[d] = "PENDING"
       /\ \A g \in Handlers : pc[g] \in Opening /\ DepositOf(g) = d => g = h
  /\ pc[h] \in Hooked => ctx[h].note \in sent[d]
  /\ pc[h] \in {"findIntent", "credit", "completeIntent"} => ctx[h].note = "paid"
  /\ pc[h] = "completeIntent" => d \in credited
  /\ pc[h] \in {"markProcessed", "answer"} /\ ctx[h].note = "paid" => d \in credited

DepositsInv == /\ \A d \in Deposits : DepositInv(d)
               /\ \A h \in Handlers : HandlerInv(h)

-----------------------------------------------------------------------------
\* webhooks.service.ts, beginEvent: a conflicting event id means the event is
\* "already processed or in-flight": no paid notification is answered while
\* neither has its payment been credited nor is a handler working on it.
DroppedIsProcessed ==
  \A d \in Deposits :
    "paid" \in sent[d] \ owed[d] =>
      d \in credited \/ \E h \in Handlers : DepositOf(h) = d /\ ctx[h].note = "paid"
=============================================================================
