------------------------- MODULE FulfillmentService -------------------------
(***************************************************************************)
(* The state that every eSIM fulfilment actor shares, and the routines of  *)
(* FulfillmentService that the workers, the webhook and the HTTP handlers  *)
(* call: completeFromProfile, completeTopUp and refundAndFail.  One action *)
(* per awaited call: the order's status is read first, and what is decided *)
(* from that read is written later, while the other actors run.            *)
(*                                                                         *)
(* The wallet is used at the level of module Ledger, which Wallet          *)
(* implements: a charge or refund is atomic, and posted once per reference.*)
(***************************************************************************)
EXTENDS Naturals, FiniteSets

CONSTANTS Purchases,   \* PURCHASE orders: a new eSIM
          TopUps,      \* TOPUP orders, all for one installed eSIM
          Handlers,    \* concurrently running HTTP requests, webhooks and cron ticks
          NoOrder,     \* the order of an idle process
          MaxAttempts, \* bound for FULFILL_JOB_ATTEMPTS and TOPUP_JOB_ATTEMPTS (5 in the code)
          MaxPolls,    \* bound for MAX_POLL_ATTEMPTS (20 in the code)
          MaxTags      \* bound: waiting jobs with a timestamped id, per order and queue

Orders == Purchases \cup TopUps
Queues == {"fulfil", "poll", "topup"}   \* one worker per queue, concurrency 1
Procs == Queues \cup Handlers

ASSUME OrdersAssumption == Purchases \cap TopUps = {} /\ NoOrder \notin Orders
ASSUME HandlersAssumption == Handlers \cap Queues = {}
ASSUME BoundsAssumption ==
  MaxAttempts \in Nat \ {0} /\ MaxPolls \in Nat \ {0} /\ MaxTags \in Nat

VARIABLES status,    \* Order.status; "none" before the order exists
          ledger,    \* wallet postings of the order: "charge" (purchase_<id>,
                     \* topup_<id>) and "refund" (refund_<id>)
          profile,   \* ProviderOrder row: external order id and ICCID on file
          supplier,  \* what eSIM Access has done for this transaction id: an eSIM
                     \* is accepted, then allocated; a top-up is applied, and
                     \* confirmed once its success has reached the worker
          notices,   \* domain events emitted for the order
          jobs,      \* waiting or delayed BullMQ jobs of each queue
          pollIds,   \* ids <order>_poll_<n> Redis still knows (waiting, active or retained)
          pc,        \* what each process awaits
          ctx        \* its locals

serviceVars == <<status, ledger, profile, supplier, notices>>
procVars == <<pc, ctx>>

Statuses == {"none", "PAID", "FULFILLING", "COMPLETED", "FAILED", "REFUNDED"}
Terminal == {"COMPLETED", "REFUNDED"}
SupplierStates == {"none", "accepted", "allocated", "cancelled", "revoked", "applied", "confirmed"}
Supplied == {"allocated", "cancelled", "revoked"}   \* /esim/query returns a profile

\* A job: its order, tag 0 for a deterministic id or a distinct tag for a
\* timestamped one, and its attempt (attemptsMade, or the poll's number).
Job == [order : Orders, tag : 0..MaxTags, n : Nat]
NoJob == [order |-> NoOrder, tag |-> 0, n |-> 0]

\* A process's locals: its order, the status it read, whether the row it read
\* had what it needs, the queue job it runs and the notification it handles.
NoCtx == [order |-> NoOrder, seen |-> "none", known |-> FALSE, job |-> NoJob, note |-> "none"]

OrderOf(p) == ctx[p].order

Goto(p, label) == pc' = [pc EXCEPT ![p] = label]

\* The process is done: a worker acknowledges its job, a request answers.
Finish(p) ==
  /\ pc' = [pc EXCEPT ![p] = "idle"]
  /\ ctx' = [ctx EXCEPT ![p] = NoCtx]

\* A routine returns to its caller: the webhook still marks its event
\* processed, every other caller has nothing left to do.
Return(p) ==
  IF ctx[p].note # "none" THEN Goto(p, "hookMark") /\ UNCHANGED ctx ELSE Finish(p)

\* BullMQ's add with a timestamped id, which no job has had yet; at most
\* MaxTags such jobs of an order are in a queue, a further add waits.
AddFresh(q, o, n) ==
  \E t \in (1..MaxTags) \ {j.tag : j \in {k \in jobs[q] \cup {ctx[q].job} : k.order = o}} :
    jobs' = [jobs EXCEPT ![q] = @ \cup {[order |-> o, tag |-> t, n |-> n]}]

\* BullMQ's add of poll n under its deterministic id: ignored while Redis
\* still knows a job of that id, finished ones included.
AddPoll(o, n) ==
  IF n \in pollIds[o] THEN UNCHANGED <<jobs, pollIds>>
  ELSE /\ jobs' = [jobs EXCEPT !["poll"] = @ \cup {[order |-> o, tag |-> 0, n |-> n]}]
       /\ pollIds' = [pollIds EXCEPT ![o] = @ \cup {n}]

-----------------------------------------------------------------------------
(* completeFromProfile                                                       *)

\* Read the order.
CompleteRead(p) ==
  /\ pc[p] = "completeRead"
  /\ ctx' = [ctx EXCEPT ![p].seen = status[OrderOf(p)]]
  /\ Goto(p, "saveProfile")
  /\ UNCHANGED <<serviceVars, jobs, pollIds>>

\* Mutant: a COMPLETED order is cleaned up as if it had been refunded.
CleanupCompleted(p) ==
  /\ pc[p] = "saveProfile"
  /\ profile' = [profile EXCEPT ![OrderOf(p)] = [ext |-> TRUE, iccid |-> TRUE]]
  /\ Goto(p, IF ctx[p].seen \in Terminal THEN "cancel" ELSE "markCompleted")
  /\ UNCHANGED <<status, ledger, supplier, notices, ctx, jobs, pollIds>>

\* Store the profile (row and usage snapshot), then branch on the status read.
SaveProfile(p) ==
  /\ pc[p] = "saveProfile"
  /\ profile' = [profile EXCEPT ![OrderOf(p)] = [ext |-> TRUE, iccid |-> TRUE]]
  /\ CASE ctx[p].seen = "REFUNDED"  -> Goto(p, "cancel") /\ UNCHANGED ctx
       [] ctx[p].seen = "COMPLETED" -> Return(p)
       [] OTHER                     -> Goto(p, "markCompleted") /\ UNCHANGED ctx
  /\ UNCHANGED <<status, ledger, supplier, notices, jobs, pollIds>>

\* Write COMPLETED, whatever the status has become since it was read.
MarkCompleted(p) ==
  /\ pc[p] = "markCompleted"
  /\ status' = [status EXCEPT ![OrderOf(p)] = "COMPLETED"]
  /\ Goto(p, "announce")
  /\ UNCHANGED <<ledger, profile, supplier, notices, ctx, jobs, pollIds>>

\* After one more read (the product's name), emit OrderCompleted.
AnnounceCompleted(p) ==
  /\ pc[p] = "announce"
  /\ notices' = [notices EXCEPT ![OrderOf(p)] = @ \cup {"completed"}]
  /\ Return(p)
  /\ UNCHANGED <<status, ledger, profile, supplier, jobs, pollIds>>

\* handleLateFulfillment: cancel the eSIM; if that (or storing it) fails, revoke
\* it; if that fails too, or the profile has no esimTranNo, alert an operator.
CancelEsim(p) ==
  /\ pc[p] = "cancel"
  /\ \/ /\ supplier[OrderOf(p)] = "allocated"
        /\ supplier' = [supplier EXCEPT ![OrderOf(p)] = "cancelled"]
        /\ Return(p) \/ (Goto(p, "revoke") /\ UNCHANGED ctx)
     \/ Goto(p, "revoke") /\ UNCHANGED <<supplier, ctx>>
     \/ Return(p) /\ UNCHANGED supplier
  /\ UNCHANGED <<status, ledger, profile, notices, jobs, pollIds>>

RevokeEsim(p) ==
  /\ pc[p] = "revoke"
  /\ \/ /\ supplier[OrderOf(p)] = "allocated"
        /\ supplier' = [supplier EXCEPT ![OrderOf(p)] = "revoked"]
     \/ UNCHANGED supplier
  /\ Return(p)
  /\ UNCHANGED <<status, ledger, profile, notices, jobs, pollIds>>

-----------------------------------------------------------------------------
(* completeTopUp                                                             *)

\* Read the order; a terminal one is left alone.
CompleteTopUpRead(p) ==
  /\ pc[p] = "completeTopUp"
  /\ IF status[OrderOf(p)] \in Terminal THEN Return(p)
     ELSE Goto(p, "markToppedUp") /\ UNCHANGED ctx
  /\ UNCHANGED <<serviceVars, jobs, pollIds>>

\* Write COMPLETED (after the usage snapshot) and emit TopUpCompleted.
MarkToppedUp(p) ==
  /\ pc[p] = "markToppedUp"
  /\ status' = [status EXCEPT ![OrderOf(p)] = "COMPLETED"]
  /\ notices' = [notices EXCEPT ![OrderOf(p)] = @ \cup {"completed"}]
  /\ Return(p)
  /\ UNCHANGED <<ledger, profile, supplier, jobs, pollIds>>

-----------------------------------------------------------------------------
(* refundAndFail                                                             *)

\* Read the order; a terminal one is left alone.
RefundRead(p) ==
  /\ pc[p] = "refundRead"
  /\ IF status[OrderOf(p)] \in Terminal THEN Return(p)
     ELSE Goto(p, "markFailed") /\ UNCHANGED ctx
  /\ UNCHANGED <<serviceVars, jobs, pollIds>>

\* Mutant: REFUNDED is written before the wallet is credited.
MarkRefundedEarly(p) ==
  /\ pc[p] = "markFailed"
  /\ status' = [status EXCEPT ![OrderOf(p)] = "REFUNDED"]
  /\ Goto(p, "credit")
  /\ UNCHANGED <<ledger, profile, supplier, notices, ctx, jobs, pollIds>>

\* Mutant: the customer is told of the failure before the refund.
NoticeEarly(p) ==
  /\ pc[p] = "markFailed"
  /\ status' = [status EXCEPT ![OrderOf(p)] = "FAILED"]
  /\ notices' = [notices EXCEPT ![OrderOf(p)] = @ \cup {"failed"}]
  /\ Goto(p, "credit")
  /\ UNCHANGED <<ledger, profile, supplier, ctx, jobs, pollIds>>

MarkFailed(p) ==
  /\ pc[p] = "markFailed"
  /\ status' = [status EXCEPT ![OrderOf(p)] = "FAILED"]
  /\ Goto(p, "credit")
  /\ UNCHANGED <<ledger, profile, supplier, notices, ctx, jobs, pollIds>>

\* wallet.refund under refund_<id>: a posting already there is a success.
CreditRefund(p) ==
  /\ pc[p] = "credit"
  /\ ledger' = [ledger EXCEPT ![OrderOf(p)] = @ \cup {"refund"}]
  /\ Goto(p, "markRefunded")
  /\ UNCHANGED <<status, profile, supplier, notices, ctx, jobs, pollIds>>

MarkRefunded(p) ==
  /\ pc[p] = "markRefunded"
  /\ status' = [status EXCEPT ![OrderOf(p)] = "REFUNDED"]
  /\ Goto(p, "announceFailed")
  /\ UNCHANGED <<ledger, profile, supplier, notices, ctx, jobs, pollIds>>

\* Once that write is answered, emit OrderFailed.  A failure or crash at this label
\* is one after the commit: every later run finds the order REFUNDED and returns.
AnnounceFailed(p) ==
  /\ pc[p] = "announceFailed"
  /\ notices' = [notices EXCEPT ![OrderOf(p)] = @ \cup {"failed"}]
  /\ Return(p)
  /\ UNCHANGED <<status, ledger, profile, supplier, jobs, pollIds>>

ServiceStep(p) ==
  \/ CompleteRead(p) \/ SaveProfile(p) \/ MarkCompleted(p) \/ AnnounceCompleted(p)
  \/ CancelEsim(p) \/ RevokeEsim(p) \/ CompleteTopUpRead(p) \/ MarkToppedUp(p)
  \/ RefundRead(p) \/ MarkFailed(p) \/ CreditRefund(p) \/ MarkRefunded(p) \/ AnnounceFailed(p)
=============================================================================
