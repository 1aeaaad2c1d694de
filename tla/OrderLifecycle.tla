--------------------------- MODULE OrderLifecycle ---------------------------
(***************************************************************************)
(* What every product line promises the buyer of an order, whatever        *)
(* supplier, queue, poll, webhook or sweep brings it about: the status and  *)
(* what the customer is told never run ahead of the supplier or the wallet. *)
(* EsimFulfillment, GiftCardFulfillment and SmsFulfillment implement it (see *)
(* Refinement in their proofs); Honest is what follows.  It promises less    *)
(* than one might wish: a worker and a webhook that act on statuses they    *)
(* read earlier may leave an order both supplied and refunded.              *)
(***************************************************************************)
EXTENDS FiniteSets

CONSTANTS Orders

VARIABLES status,    \* Order.status; "none" before the order exists
          money,     \* wallet postings of the order: "charge", "refund"
          supplied,  \* the supplier has delivered
          told       \* what the customer has been told or shown

lifecycleVars == <<status, money, supplied, told>>

LifecycleInit ==
  /\ status = [o \in Orders |-> "none"]
  /\ money = [o \in Orders |-> {}]
  /\ supplied = [o \in Orders |-> FALSE]
  /\ told = [o \in Orders |-> {}]

Place(o) ==
  /\ status[o] = "none"
  /\ status' = [status EXCEPT ![o] = "PAID"]
  /\ UNCHANGED <<money, supplied, told>>

\* The wallet posts under one reference per kind: charged and refunded once.
Post(o, kind) ==
  /\ status[o] # "none" /\ kind \notin money[o]
  /\ money' = [money EXCEPT ![o] = @ \cup {kind}]
  /\ UNCHANGED <<status, supplied, told>>

\* The supplier delivers an order that was placed.
Supply(o) ==
  /\ status[o] # "none"
  /\ supplied' = [supplied EXCEPT ![o] = TRUE]
  /\ UNCHANGED <<status, money, told>>

\* Work starts, fails or is taken up again.
Work(o) ==
  /\ status[o] # "none"
  /\ \E s \in {"FULFILLING", "FAILED"} : status' = [status EXCEPT ![o] = s]
  /\ UNCHANGED <<money, supplied, told>>

\* COMPLETED, and saying so, only of what was delivered.
Complete(o) ==
  /\ supplied[o]
  /\ status' = [status EXCEPT ![o] = "COMPLETED"]
  /\ told' \in {told, [told EXCEPT ![o] = @ \cup {"completed"}]}
  /\ UNCHANGED <<money, supplied>>

\* REFUNDED only with the money back in the wallet; the customer is told next,
\* if nothing fails in between.
Close(o) ==
  /\ "refund" \in money[o]
  /\ status' = [status EXCEPT ![o] = "REFUNDED"]
  /\ UNCHANGED <<money, supplied, told>>

Regret(o) ==
  /\ "refund" \in money[o]
  /\ told' = [told EXCEPT ![o] = @ \cup {"failed"}]
  /\ UNCHANGED <<status, money, supplied>>

\* The customer is told of the goods once more, or sees them.
Show(o) ==
  /\ supplied[o]
  /\ \E what \in {"completed", "shown"} : told' = [told EXCEPT ![o] = @ \cup {what}]
  /\ UNCHANGED <<status, money, supplied>>

LifecycleNext ==
  \E o \in Orders :
    \/ Place(o) \/ Post(o, "charge") \/ Post(o, "refund") \/ Supply(o) \/ Work(o)
    \/ Complete(o) \/ Close(o) \/ Regret(o) \/ Show(o)

LifecycleSpec == LifecycleInit /\ [][LifecycleNext]_lifecycleVars

\* What a buyer may rely on: what the order reads and what they were told of the
\* goods is true of the supplier, what of the refund is true of the wallet, and
\* neither touches an order that was not placed.
Honest ==
  \A o \in Orders :
    /\ status[o] = "COMPLETED" \/ told[o] \cap {"completed", "shown"} # {} => supplied[o]
    /\ status[o] = "REFUNDED" \/ "failed" \in told[o] => "refund" \in money[o]
    /\ supplied[o] \/ money[o] # {} => status[o] # "none"
=============================================================================
