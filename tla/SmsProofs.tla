----------------------------- MODULE SmsProofs -----------------------------
(***************************************************************************)
(* For any orders, handlers and bounds, SMS fulfilment keeps its types,     *)
(* never buys a second number for an order that has one on file, nor a      *)
(* further one without a failure or crash, and implements OrderLifecycle.   *)
(* As in GiftCardProofs, the invariant says what a call in progress may     *)
(* rely on, in facts that stay true (Grows).                                *)
(***************************************************************************)
EXTENDS SmsFulfillment, TLAPS

ItemType == [state : RowStates, code : BOOLEAN]
ProviderType == [units : Nat, delivered : BOOLEAN, reversed : BOOLEAN]
RowsTyped ==
  /\ status \in [Orders -> {"none", "PAID", "FULFILLING", "COMPLETED", "FAILED", "REFUNDED"}]
  /\ ledger \in [Orders -> SUBSET {"charge", "refund"}]
  /\ item \in [Orders -> ItemType]
  /\ provider \in [Orders -> ProviderType]
  /\ notices \in [Orders -> SUBSET {"completed", "failed"}]
  /\ jobs \in [Queues -> SUBSET Job]
  /\ pollIds \in [Orders -> SUBSET Nat]
  /\ throws \in Nat /\ crashes \in {0, 1}
ProcsTyped == pc \in [Procs -> Labels] /\ ctx \in [Procs -> CtxType]

\* What holds of every order ...
RowFine(o) ==
  /\ status[o] = "COMPLETED" => provider[o].delivered
  /\ item[o].code => status[o] # "none" /\ o \notin Extensions
  /\ provider[o].delivered => status[o] # "none"

\* ... every job ...
JobFine(q, j) ==
  j \in Job /\ status[j.order] # "none" /\ (q = "poll" => j.order \notin Extensions)

\* ... and every call in progress: those that act on the goods having come,
\* those that queue a poll, the purchase and a refund once it is in the wallet.
OnDelivery == {"codeRead", "codeStore", "activateRead", "activate", "complete"}
Polling == {"queuePoll", "queuePollAgain"}
Credited == {"markRefunded", "announceFailed"}
ProcFine(p) ==
  /\ pc[p] = "idle" => ctx[p] = F!NoCtx
  /\ pc[p] # "idle" =>
       /\ OrderOf(p) \in Orders /\ status[OrderOf(p)] # "none"
       /\ p \in Queues => ctx[p].job \in Job /\ ctx[p].job.order = OrderOf(p)
       /\ p = "poll" \/ pc[p] \in Polling => OrderOf(p) \notin Extensions
       /\ pc[p] \in OnDelivery => provider[OrderOf(p)].delivered
       /\ p = "fulfil" /\ pc[p] = "buy" => ~item[OrderOf(p)].code
       /\ pc[p] \in Credited => "refund" \in ledger[OrderOf(p)]

JobsFine == \A q \in Queues : \A j \in jobs[q] : JobFine(q, j)
IInv == /\ RowsTyped /\ ProcsTyped /\ JobsFine
        /\ \A o \in Orders : RowFine(o)
        /\ \A p \in Procs : ProcFine(p)

\* The facts a call relies on stay true; a number comes on file only when the
\* fulfil worker is not about to buy one.
Grows ==
  \A o \in Orders :
    /\ status[o] # "none" => status'[o] # "none"
    /\ provider[o].delivered => provider'[o].delivered
    /\ ledger[o] \subseteq ledger'[o]
    /\ pc'["fulfil"] = "buy" => item'[o].code = item[o].code

\* What a step may do to the rows.
OnceOnFile == \A o \in Orders : item[o].code => provider'[o].units = provider[o].units
Allowed == OnceOnFile /\ (Lifecycle!LifecycleNext \/ UNCHANGED Lifecycle!lifecycleVars)

-----------------------------------------------------------------------------
LEMMA ProcsDisjoint ==
  /\ Queues \subseteq Procs /\ Handlers \subseteq Procs /\ Queues \cap Handlers = {}
  /\ "fulfil" \in Queues /\ "poll" \in Queues /\ NoOrder \notin Orders
  /\ Verifications \cap Extensions = {} /\ Rentals \cap Extensions = {}
  /\ Verifications \subseteq Orders /\ Rentals \subseteq Orders /\ Extensions \subseteq Orders
BY HandlersAssumption, KindsAssumption DEF Procs, Queues, Orders

LEMMA StaysFine ==
  ASSUME RowsTyped, Grows
  PROVE  /\ \A p \in Procs : ProcFine(p) /\ pc'[p] = pc[p] /\ ctx'[p] = ctx[p] => ProcFine(p)'
         /\ \A q, j : JobFine(q, j) => JobFine(q, j)'
<1>1. ASSUME NEW p \in Procs, ProcFine(p), pc'[p] = pc[p], ctx'[p] = ctx[p]
      PROVE  ProcFine(p)'
  <2>1. CASE pc[p] = "idle"
    BY <1>1, <2>1 DEF ProcFine, F!NoCtx, F!NoJob
  <2>2. CASE pc[p] # "idle"
    <3> DEFINE o == OrderOf(p)
    <3>1. o \in Orders /\ OrderOf(p)' = o
      BY <1>1, <2>2 DEF ProcFine, OrderOf, F!OrderOf
    <3>2. /\ status[o] # "none" => status'[o] # "none"
          /\ provider[o].delivered => provider'[o].delivered
          /\ ledger[o] \subseteq ledger'[o]
          /\ pc'["fulfil"] = "buy" => item'[o].code = item[o].code
      BY <3>1 DEF Grows
    <3> HIDE DEF o
    <3> QED BY <1>1, <2>2, <3>1, <3>2 DEF ProcFine, o
  <2> QED BY <2>1, <2>2
<1>2. ASSUME NEW q, NEW j, JobFine(q, j) PROVE JobFine(q, j)'
  <2>1. j.order \in Orders
    BY <1>2 DEF JobFine, Job
  <2> QED BY <1>2, <2>1 DEF JobFine, Grows, Job
<1> QED BY <1>1, <1>2

-----------------------------------------------------------------------------
(* How a process moves                                                       *)

Moves(p) ==
  /\ ProcsTyped'
  /\ \A q \in Procs : q # p => pc'[q] = pc[q] /\ ctx'[q] = ctx[q]
Same(p) == ctx'[p].order = ctx[p].order /\ ctx'[p].job = ctx[p].job

LEMMA NoCtxTyped == F!NoCtx \in CtxType /\ F!NoCtx.order = NoOrder /\ F!NoCtx.job.order = NoOrder
BY DEF F!NoCtx, CtxType, F!NoJob, RowStates

LEMMA CtxMoves ==
  ASSUME ProcsTyped, NEW p \in Procs, NEW l \in Labels, NEW c \in CtxType,
         pc' = [pc EXCEPT ![p] = l], ctx' = [ctx EXCEPT ![p] = c]
  PROVE  Moves(p) /\ pc'[p] = l /\ ctx'[p] = c
BY DEF ProcsTyped, Moves

LEMMA GotoMoves ==
  ASSUME ProcsTyped, NEW p \in Procs, NEW l \in Labels, Goto(p, l), UNCHANGED ctx
  PROVE  Moves(p) /\ pc'[p] = l /\ ctx'[p] = ctx[p] /\ Same(p)
BY DEF ProcsTyped, Goto, F!Goto, Moves, Same

LEMMA FinishMoves ==
  ASSUME ProcsTyped, NEW p \in Procs, Finish(p)
  PROVE  Moves(p) /\ pc'[p] = "idle" /\ ProcFine(p)'
<1>1. pc' = [pc EXCEPT ![p] = "idle"] /\ ctx' = [ctx EXCEPT ![p] = F!NoCtx] /\ "idle" \in Labels
  BY DEF Finish, F!Finish, Labels
<1>2. Moves(p) /\ pc'[p] = "idle" /\ ctx'[p] = F!NoCtx
  BY <1>1, NoCtxTyped, CtxMoves
<1> QED BY <1>2 DEF ProcFine, F!NoCtx, F!NoJob

LEMMA CarryMoves ==
  ASSUME ProcsTyped, NEW p \in Procs, NEW l \in Labels, NEW s \in RowStates, Carry(p, s, l)
  PROVE  Moves(p) /\ pc'[p] = l /\ Same(p)
<1> DEFINE c == [ctx[p] EXCEPT !.seen = s]
<1>1. pc' = [pc EXCEPT ![p] = l] /\ ctx' = [ctx EXCEPT ![p] = c] /\ ctx[p] \in CtxType
  BY DEF Carry, Goto, F!Goto, ProcsTyped
<1>2. c \in CtxType /\ c.order = ctx[p].order /\ c.job = ctx[p].job
  BY <1>1 DEF CtxType
<1> HIDE DEF c
<1> QED BY <1>1, <1>2, CtxMoves DEF Same

LEMMA BeginsAt ==
  ASSUME ProcsTyped, NEW p \in Procs, NEW l \in Labels, NEW o \in Orders, Begin(p, l, o)
  PROVE  Moves(p) /\ pc'[p] = l /\ ctx'[p].order = o
<1> DEFINE c == [F!NoCtx EXCEPT !.order = o]
<1>1. c \in CtxType /\ c.order = o
  BY DEF F!NoCtx, CtxType, F!NoJob, RowStates
<1>2. pc' = [pc EXCEPT ![p] = l] /\ ctx' = [ctx EXCEPT ![p] = c]
  BY DEF Begin
<1> HIDE DEF c
<1> QED BY <1>1, <1>2, CtxMoves

\* What a busy process relies on, spelled out.
LEMMA Busy ==
  ASSUME IInv, NEW p \in Procs, pc[p] # "idle"
  PROVE  /\ OrderOf(p) \in Orders /\ status[OrderOf(p)] # "none"
         /\ p \in Queues => ctx[p].job \in Job /\ ctx[p].job.order = OrderOf(p)
         /\ p = "poll" \/ pc[p] \in Polling => OrderOf(p) \notin Extensions
         /\ pc[p] \in OnDelivery => provider[OrderOf(p)].delivered
         /\ p = "fulfil" /\ pc[p] = "buy" => ~item[OrderOf(p)].code
         /\ pc[p] \in Credited => "refund" \in ledger[OrderOf(p)]
         /\ RowsTyped /\ ProcsTyped
BY DEF IInv, ProcFine

\* A process that goes on with its order: what its new label needs.
LEMMA GoesOn ==
  ASSUME IInv, Grows, NEW p \in Procs, pc[p] # "idle", pc'[p] # "idle", Same(p),
         pc'[p] \in Polling => OrderOf(p) \notin Extensions,
         pc'[p] \in OnDelivery => provider'[OrderOf(p)].delivered,
         pc'[p] = "buy" => ~item[OrderOf(p)].code,
         pc'[p] \in Credited => "refund" \in ledger'[OrderOf(p)]
  PROVE  ProcFine(p)'
<1> DEFINE o == OrderOf(p)
<1>1. o \in Orders /\ OrderOf(p)' = o /\ ctx'[p].job = ctx[p].job
  BY Busy DEF Same, OrderOf, F!OrderOf
<1>2. status'[o] # "none" /\ (pc'["fulfil"] = "buy" => item'[o].code = item[o].code)
  BY <1>1, Busy DEF Grows
<1>3. /\ p \in Queues => ctx[p].job \in Job /\ ctx[p].job.order = OrderOf(p)
      /\ p = "poll" => OrderOf(p) \notin Extensions
  BY Busy
<1> HIDE DEF o
<1> QED BY <1>1, <1>2, <1>3 DEF ProcFine, o

\* A process that begins for an order that exists.
LEMMA BegunFine ==
  ASSUME IInv, NEW h \in Handlers, NEW o \in Orders, NEW l \in {"issue", "debit", "reverse"},
         status'[o] # "none", Begin(h, l, o)
  PROVE  h \in Procs /\ Moves(h) /\ ProcFine(h)' /\ pc'["fulfil"] = pc["fulfil"]
<1>1. /\ h \in Procs /\ h \notin Queues /\ ProcsTyped /\ l \in Labels
      /\ h # "fulfil" /\ h # "poll" /\ "fulfil" \in Procs
  BY ProcsDisjoint DEF IInv, Labels
<1>2. Moves(h) /\ pc'[h] = l /\ ctx'[h].order = o
  BY <1>1, BeginsAt
<1> QED BY <1>1, <1>2 DEF ProcFine, OrderOf, F!OrderOf, Polling, OnDelivery, Credited, Moves

-----------------------------------------------------------------------------
(* What a step changes                                                       *)

LEMMA Kept == ASSUME UNCHANGED <<status, ledger, provider, notices>> PROVE Allowed
BY DEF Allowed, OnceOnFile, Lifecycle!lifecycleVars

LEMMA RowsGrow == ASSUME UNCHANGED rows PROVE Grows /\ \A o \in Orders : RowFine(o) => RowFine(o)'
BY DEF Grows, rows, RowFine

LEMMA ProcStep ==
  ASSUME IInv, RowsTyped', Grows, \A o \in Orders : RowFine(o)',
         NEW p \in Procs, Moves(p), ProcFine(p)',
         \A q \in Queues : \A j \in jobs'[q] : j \in jobs[q] \/ JobFine(q, j)
  PROVE  IInv'
<1>1. RowsTyped /\ JobsFine /\ \A q \in Procs : ProcFine(q)
  BY DEF IInv
<1>2. JobsFine'
  <2>1. \A q, j : JobFine(q, j) => JobFine(q, j)'
    BY <1>1, StaysFine
  <2> QED BY <1>1, <2>1 DEF JobsFine
<1>3. ProcsTyped' /\ \A q \in Procs : ProcFine(q)'
  BY <1>1, StaysFine DEF Moves
<1> QED BY <1>2, <1>3 DEF IInv

\* A step of p that writes no row.
LEMMA QueueStep ==
  ASSUME IInv, UNCHANGED <<rows, crashes>>, throws' \in Nat,
         NEW p \in Procs, Moves(p), ProcFine(p)',
         jobs' \in [Queues -> SUBSET Job], pollIds' \in [Orders -> SUBSET Nat],
         \A q \in Queues : \A j \in jobs'[q] : j \in jobs[q] \/ JobFine(q, j)
  PROVE  IInv' /\ Allowed
<1>1. RowsTyped /\ \A o \in Orders : RowFine(o)
  BY DEF IInv
<1>2. Grows /\ \A o \in Orders : RowFine(o)'
  BY <1>1, RowsGrow
<1>3. RowsTyped'
  BY <1>1 DEF RowsTyped, rows
<1>4. IInv'
  BY <1>2, <1>3, ProcStep
<1> QED BY <1>4, Kept DEF rows

\* A step of p that writes neither rows nor queues.
LEMMA ReadStep ==
  ASSUME IInv, UNCHANGED <<rows, queueVars, crashes>>, throws' \in Nat,
         NEW p \in Procs, Moves(p), ProcFine(p)'
  PROVE  IInv' /\ Allowed
<1>1. RowsTyped
  BY DEF IInv
<1> QED BY <1>1, QueueStep DEF RowsTyped, queueVars

\* A step of p that writes rows but no queue.
LEMMA WriteStep ==
  ASSUME IInv, UNCHANGED queueVars, RowsTyped', Grows, \A o \in Orders : RowFine(o)',
         NEW p \in Procs, Moves(p), ProcFine(p)'
  PROVE  IInv'
BY ProcStep DEF queueVars

LEMMA ReadFinish ==
  ASSUME IInv, UNCHANGED <<rows, queueVars, budgets>>, NEW p \in Procs, Finish(p)
  PROVE  IInv' /\ Allowed
<1>1. ProcsTyped /\ RowsTyped
  BY DEF IInv
<1> QED BY <1>1, FinishMoves, ReadStep DEF RowsTyped, budgets

\* Going on, with or without a new status in hand, and no row written.
LEMMA ReadOn ==
  ASSUME IInv, UNCHANGED <<rows, queueVars, crashes>>, throws' \in Nat,
         NEW p \in Procs, pc[p] # "idle", NEW l \in Labels \ ({"idle"} \cup Credited),
         (Goto(p, l) /\ UNCHANGED ctx) \/ (\E s \in RowStates : Carry(p, s, l)),
         l \in Polling => OrderOf(p) \notin Extensions,
         l \in OnDelivery => provider[OrderOf(p)].delivered,
         l = "buy" => ~item[OrderOf(p)].code
  PROVE  IInv' /\ Allowed
<1>1. ProcsTyped
  BY DEF IInv
<1>2. Moves(p) /\ pc'[p] = l /\ Same(p)
  BY <1>1, GotoMoves, CarryMoves
<1>3. Grows
  BY RowsGrow
<1>4. ProcFine(p)'
  BY <1>2, <1>3, GoesOn DEF rows
<1> QED BY <1>2, <1>4, ReadStep

\* One more job of a queue, or the next poll of an order.
LEMMA OneMoreJob ==
  ASSUME IInv, NEW q \in Queues, NEW j, JobFine(q, j), jobs' = [jobs EXCEPT ![q] = @ \cup {j}]
  PROVE  /\ jobs' \in [Queues -> SUBSET Job]
         /\ \A r \in Queues : \A k \in jobs'[r] : k \in jobs[r] \/ JobFine(r, k)
<1>1. jobs \in [Queues -> SUBSET Job] /\ j \in Job
  BY DEF IInv, RowsTyped, JobFine
<1> QED BY <1>1

LEMMA AddPollFine ==
  ASSUME IInv, NEW o \in Orders, o \notin Extensions, status[o] # "none", NEW n \in Nat, F!AddPoll(o, n)
  PROVE  /\ jobs' \in [Queues -> SUBSET Job] /\ pollIds' \in [Orders -> SUBSET Nat]
         /\ \A r \in Queues : \A k \in jobs'[r] : k \in jobs[r] \/ JobFine(r, k)
<1> DEFINE j == [order |-> o, tag |-> 0, n |-> n]
<1>1. RowsTyped
  BY DEF IInv
<1>2. JobFine("poll", j)
  BY DEF JobFine, Job
<1>3. \/ UNCHANGED <<jobs, pollIds>>
      \/ /\ jobs' = [jobs EXCEPT !["poll"] = @ \cup {j}]
         /\ pollIds' = [pollIds EXCEPT ![o] = @ \cup {n}]
  BY DEF F!AddPoll
<1> HIDE DEF j
<1>4. CASE UNCHANGED <<jobs, pollIds>>
  BY <1>1, <1>4 DEF RowsTyped
<1>5. CASE /\ jobs' = [jobs EXCEPT !["poll"] = @ \cup {j}]
           /\ pollIds' = [pollIds EXCEPT ![o] = @ \cup {n}]
  BY <1>1, <1>2, <1>5, OneMoreJob, ProcsDisjoint DEF RowsTyped
<1> QED BY <1>3, <1>4, <1>5

-----------------------------------------------------------------------------
(* Writing one row                                                           *)

LEMMA StatusGrows ==
  ASSUME IInv, NEW o \in Orders, NEW s \in {"PAID", "FULFILLING", "FAILED"},
         status' = [status EXCEPT ![o] = s], IF s = "PAID" THEN status[o] = "none" ELSE status[o] # "none",
         UNCHANGED <<ledger, item, provider, notices, queueVars, budgets>>
  PROVE  Grows /\ RowsTyped' /\ (\A k \in Orders : RowFine(k)') /\ Allowed /\ status'[o] # "none"
<1>1. RowsTyped /\ \A k \in Orders : RowFine(k)
  BY DEF IInv
<1>2. Grows /\ status'[o] # "none"
  BY <1>1 DEF Grows, RowsTyped
<1>3. RowsTyped'
  BY <1>1 DEF RowsTyped, queueVars, budgets
<1>4. \A k \in Orders : RowFine(k)'
  BY <1>1 DEF RowFine, RowsTyped
<1>5. Lifecycle!Place(o) \/ Lifecycle!Work(o)
  BY DEF Lifecycle!Place, Lifecycle!Work
<1> QED BY <1>2, <1>3, <1>4, <1>5 DEF Allowed, OnceOnFile, Lifecycle!LifecycleNext

LEMMA PostGrows ==
  ASSUME IInv, NEW o \in Orders, NEW kind \in {"charge", "refund"}, status[o] # "none",
         ledger' = [ledger EXCEPT ![o] = @ \cup {kind}],
         UNCHANGED <<status, item, provider, notices, queueVars, crashes>>, throws' \in Nat
  PROVE  /\ Grows /\ RowsTyped' /\ kind \in ledger'[o]
         /\ (\A k \in Orders : RowFine(k)') /\ Allowed
<1>1. RowsTyped /\ \A k \in Orders : RowFine(k)
  BY DEF IInv
<1>2. /\ ledger' \in [Orders -> SUBSET {"charge", "refund"}] /\ ledger'[o] = ledger[o] \cup {kind}
      /\ \A k \in Orders : k # o => ledger'[k] = ledger[k]
  BY <1>1 DEF RowsTyped
<1>3. RowsTyped' /\ Grows /\ \A k \in Orders : RowFine(k)'
  BY <1>1, <1>2 DEF RowsTyped, queueVars, Grows, RowFine
<1>4. Allowed
  <2>1. CASE kind \in ledger[o]
    <3>1. ledger'[o] = ledger[o]
      BY <1>2, <2>1
    <3>2. ledger' = ledger
      BY <1>1, <1>2, <3>1 DEF RowsTyped
    <3> QED BY <3>2, Kept
  <2>2. CASE kind \notin ledger[o]
    BY <2>2 DEF Allowed, OnceOnFile, Lifecycle!LifecycleNext, Lifecycle!Post
  <2> QED BY <2>1, <2>2
<1> QED BY <1>2, <1>3, <1>4

LEMMA DeliveredPlaced == ASSUME IInv PROVE \A k \in Orders : provider[k].delivered => status[k] # "none"
BY DEF IInv, RowFine

\* The verification or rental row; its number stays on file.
LEMMA ItemGrows ==
  ASSUME IInv, NEW o \in Orders, NEW r \in ItemType, item' = [item EXCEPT ![o] = r],
         r.code => status[o] # "none" /\ o \notin Extensions,
         pc'["fulfil"] = "buy" => r.code = item[o].code,
         UNCHANGED <<status, ledger, queueVars, budgets>>, provider' \in [Orders -> ProviderType],
         \A k \in Orders : provider[k].delivered => provider'[k].delivered,
         \A k \in Orders : provider'[k].delivered => status[k] # "none",
         notices' \in [Orders -> SUBSET {"completed", "failed"}]
  PROVE  Grows /\ RowsTyped' /\ (\A k \in Orders : RowFine(k)')
<1>1. RowsTyped /\ \A k \in Orders : RowFine(k)
  BY DEF IInv
<1>2. item' \in [Orders -> ItemType] /\ item'[o] = r /\ \A k \in Orders : k # o => item'[k] = item[k]
  BY <1>1 DEF RowsTyped
<1>3. RowsTyped'
  BY <1>1, <1>2 DEF RowsTyped, queueVars, budgets
<1>4. Grows
  BY <1>2 DEF Grows
<1>5. \A k \in Orders : RowFine(k)'
  BY <1>1, <1>2 DEF RowFine
<1> QED BY <1>3, <1>4, <1>5

\* SMSPool's side of one order: a number on file keeps its unit.
LEMMA ProviderGrows ==
  ASSUME IInv, NEW o \in Orders, NEW r \in ProviderType, provider' = [provider EXCEPT ![o] = r],
         provider[o].delivered => r.delivered, item[o].code => r.units = provider[o].units,
         status[o] # "none", UNCHANGED <<status, ledger, notices>>
  PROVE  /\ \A k \in Orders : provider[k].delivered => provider'[k].delivered
         /\ \A k \in Orders : provider'[k].delivered => status[k] # "none"
         /\ provider' \in [Orders -> ProviderType] /\ provider'[o] = r /\ Allowed
<1>1. RowsTyped /\ \A k \in Orders : RowFine(k)
  BY DEF IInv
<1>2. /\ provider' \in [Orders -> ProviderType] /\ provider'[o] = r
      /\ \A k \in Orders : k # o => provider'[k] = provider[k]
  BY <1>1 DEF RowsTyped
<1>3. OnceOnFile /\ \A k \in Orders : provider'[k].delivered => status[k] # "none"
  BY <1>1, <1>2 DEF OnceOnFile, RowFine
<1> DEFINE supplied == [k \in Orders |-> provider[k].delivered]
<1>4. CASE r.delivered
  <2>1. r.delivered = TRUE /\ \A k \in Orders : provider[k].delivered \in BOOLEAN
    BY <1>1, <1>4 DEF RowsTyped, ProviderType
  <2>2. [k \in Orders |-> provider'[k].delivered] = [supplied EXCEPT ![o] = TRUE]
    BY <1>2, <2>1
  <2>3. Lifecycle!Supply(o)
    BY <2>2 DEF Lifecycle!Supply
  <2> QED BY <1>2, <1>3, <2>3 DEF Allowed, Lifecycle!LifecycleNext
<1>5. CASE ~r.delivered
  <2>1. provider'[o].delivered = provider[o].delivered
    BY <1>1, <1>2, <1>5 DEF RowsTyped, ProviderType
  <2>2. [k \in Orders |-> provider'[k].delivered] = supplied
    BY <1>2, <2>1
  <2>3. UNCHANGED Lifecycle!lifecycleVars
    BY <2>2 DEF Lifecycle!lifecycleVars
  <2> QED BY <1>2, <1>3, <2>3 DEF Allowed
<1> QED BY <1>2, <1>4, <1>5

-----------------------------------------------------------------------------
(* The checkout and the queues                                               *)

LEMMA CreateKeeps ==
  ASSUME IInv, NEW h \in Handlers, NEW o \in Orders, Create(h, o)
  PROVE  IInv' /\ Allowed
<1>1. /\ status[o] = "none" /\ status' = [status EXCEPT ![o] = "PAID"]
      /\ UNCHANGED <<ledger, item, provider, notices, queueVars, budgets>>
  BY DEF Create
<1>2. Grows /\ RowsTyped' /\ (\A k \in Orders : RowFine(k)') /\ Allowed /\ status'[o] # "none"
  BY <1>1, StatusGrows
<1>3. PICK l \in {"issue", "debit", "reverse"} : Begin(h, l, o)
  BY DEF Create
<1>4. h \in Procs /\ Moves(h) /\ ProcFine(h)'
  BY <1>2, <1>3, BegunFine
<1> QED BY <1>1, <1>2, <1>4, WriteStep

LEMMA CreateItemKeeps ==
  ASSUME IInv, NEW h \in Procs, CreateItem(h)
  PROVE  IInv' /\ Allowed
<1> DEFINE o == OrderOf(h)
           r == [item[o] EXCEPT !.state = "PENDING"]
<1>1. /\ pc[h] = "issue" /\ Goto(h, "debit") /\ UNCHANGED ctx /\ item' = [item EXCEPT ![o].state = "PENDING"]
      /\ UNCHANGED <<status, ledger, provider, notices, queueVars, budgets>>
  BY DEF CreateItem
<1>2. o \in Orders /\ RowsTyped /\ ProcsTyped /\ (item[o].code => status[o] # "none" /\ o \notin Extensions)
  BY <1>1, Busy DEF IInv, RowFine
<1>3. item[o] \in ItemType
  BY <1>2 DEF RowsTyped
<1>4. r \in ItemType /\ r.code = item[o].code
  BY <1>3 DEF ItemType, RowStates
<1>5. item' = [item EXCEPT ![o] = r]
  BY <1>1
<1> HIDE DEF r
<1>6. Grows /\ RowsTyped' /\ (\A k \in Orders : RowFine(k)')
  BY <1>1, <1>2, <1>4, <1>5, DeliveredPlaced, ItemGrows DEF RowsTyped
<1>7. Moves(h) /\ pc'[h] = "debit" /\ Same(h)
  BY <1>1, <1>2, GotoMoves DEF Labels
<1>8. ProcFine(h)'
  BY <1>1, <1>6, <1>7, GoesOn DEF Polling, OnDelivery, Credited
<1>9. IInv'
  BY <1>1, <1>6, <1>7, <1>8, WriteStep
<1> QED BY <1>1, <1>9, Kept

LEMMA DebitKeeps ==
  ASSUME IInv, NEW h \in Procs, Debit(h)
  PROVE  IInv' /\ Allowed
<1> DEFINE o == OrderOf(h)
<1>1. /\ pc[h] = "debit" /\ UNCHANGED <<ctx, status, item, provider, notices, queueVars, crashes>>
  BY DEF Debit
<1>2. o \in Orders /\ status[o] # "none" /\ RowsTyped /\ ProcsTyped
  BY <1>1, Busy
<1>3. throws' \in Nat
  BY <1>2 DEF Debit, Fault, RowsTyped
<1>4. PICK l \in {"start", "markUnpaid"} :
        Goto(h, l) /\ (ledger' = [ledger EXCEPT ![o] = @ \cup {"charge"}] \/ UNCHANGED ledger)
  BY DEF Debit
<1>5. CASE ledger' = [ledger EXCEPT ![o] = @ \cup {"charge"}]
  <2>1. Grows /\ RowsTyped' /\ (\A k \in Orders : RowFine(k)') /\ Allowed
    BY <1>1, <1>2, <1>3, <1>5, PostGrows
  <2>2. Moves(h) /\ pc'[h] = l /\ Same(h)
    BY <1>1, <1>2, <1>4, GotoMoves DEF Labels
  <2>3. ProcFine(h)'
    BY <1>1, <2>1, <2>2, GoesOn DEF Polling, OnDelivery, Credited
  <2> QED BY <1>1, <2>1, <2>2, <2>3, WriteStep
<1>6. CASE UNCHANGED ledger
  BY <1>1, <1>3, <1>4, <1>6, ReadOn DEF rows, Labels, Polling, OnDelivery, Credited
<1> QED BY <1>4, <1>5, <1>6

LEMMA MarkUnpaidKeeps ==
  ASSUME IInv, NEW h \in Procs, MarkUnpaid(h)
  PROVE  IInv' /\ Allowed
<1>1. /\ pc[h] = "markUnpaid" /\ Finish(h) /\ status' = [status EXCEPT ![OrderOf(h)] = "FAILED"]
      /\ UNCHANGED <<ledger, item, provider, notices, queueVars, budgets>>
  BY DEF MarkUnpaid
<1>2. OrderOf(h) \in Orders /\ status[OrderOf(h)] # "none" /\ ProcsTyped
  BY <1>1, Busy
<1>3. Grows /\ RowsTyped' /\ (\A k \in Orders : RowFine(k)') /\ Allowed
  BY <1>1, <1>2, StatusGrows
<1> QED BY <1>1, <1>2, <1>3, FinishMoves, WriteStep

LEMMA StartKeeps ==
  ASSUME IInv, NEW h \in Procs, Start(h)
  PROVE  IInv' /\ Allowed
<1>1. /\ pc[h] = "start" /\ Goto(h, "enqueue") /\ UNCHANGED ctx
      /\ status' = [status EXCEPT ![OrderOf(h)] = "FULFILLING"]
      /\ UNCHANGED <<ledger, item, provider, notices, queueVars, budgets>>
  BY DEF Start
<1>2. OrderOf(h) \in Orders /\ status[OrderOf(h)] # "none" /\ ProcsTyped
  BY <1>1, Busy
<1>3. Grows /\ RowsTyped' /\ (\A k \in Orders : RowFine(k)') /\ Allowed
  BY <1>1, <1>2, StatusGrows
<1>4. Moves(h) /\ pc'[h] = "enqueue" /\ Same(h)
  BY <1>1, <1>2, GotoMoves DEF Labels
<1>5. ProcFine(h)'
  BY <1>1, <1>3, <1>4, GoesOn DEF Polling, OnDelivery, Credited
<1> QED BY <1>1, <1>3, <1>4, <1>5, WriteStep

LEMMA EnqueueKeeps ==
  ASSUME IInv, NEW h \in Procs, Enqueue(h)
  PROVE  IInv' /\ Allowed
<1> DEFINE j == [order |-> OrderOf(h), tag |-> 0, n |-> 0]
<1>1. /\ pc[h] = "enqueue" /\ Finish(h) /\ jobs' = [jobs EXCEPT !["fulfil"] = @ \cup {j}]
      /\ UNCHANGED <<rows, pollIds, budgets>>
  BY DEF Enqueue
<1>2. OrderOf(h) \in Orders /\ status[OrderOf(h)] # "none" /\ RowsTyped /\ ProcsTyped
  BY <1>1, Busy
<1>3. JobFine("fulfil", j)
  BY <1>2 DEF JobFine, Job
<1> HIDE DEF j
<1>4. /\ jobs' \in [Queues -> SUBSET Job]
      /\ \A r \in Queues : \A k \in jobs'[r] : k \in jobs[r] \/ JobFine(r, k)
  BY <1>1, <1>3, OneMoreJob, ProcsDisjoint
<1> QED BY <1>1, <1>2, <1>4, FinishMoves, QueueStep DEF RowsTyped, budgets

LEMMA TakeKeeps ==
  ASSUME IInv, NEW q \in Queues, NEW j \in jobs[q], Take(q, j)
  PROVE  IInv' /\ Allowed
<1> DEFINE l == IF q = "fulfil" THEN "fulfilRead" ELSE "pollRead"
           c == [F!NoCtx EXCEPT !.order = j.order, !.job = j]
<1>1. q \in Procs /\ ProcsTyped /\ RowsTyped /\ JobFine(q, j)
  BY ProcsDisjoint DEF IInv, JobsFine
<1>2. /\ pc' = [pc EXCEPT ![q] = l] /\ ctx' = [ctx EXCEPT ![q] = c]
      /\ jobs' = [jobs EXCEPT ![q] = @ \ {j}] /\ UNCHANGED <<rows, pollIds, budgets>>
  BY DEF Take
<1>3. /\ j \in Job /\ j.order \in Orders /\ status'[j.order] # "none"
      /\ (q = "poll" => j.order \notin Extensions)
  BY <1>1, <1>2 DEF JobFine, Job, rows
<1>4. c \in CtxType /\ c.order = j.order /\ c.job = j
  BY <1>3 DEF F!NoCtx, CtxType, F!NoJob, RowStates
<1>5. l \in {"fulfilRead", "pollRead"} /\ l \in Labels
  BY DEF Labels
<1> HIDE DEF c, l
<1>6. Moves(q) /\ pc'[q] = l /\ ctx'[q] = c
  BY <1>1, <1>2, <1>4, <1>5, CtxMoves
<1>7. ProcFine(q)'
  BY <1>3, <1>4, <1>5, <1>6 DEF ProcFine, OrderOf, F!OrderOf, Polling, OnDelivery, Credited
<1>8. /\ jobs' \in [Queues -> SUBSET Job]
      /\ \A r \in Queues : \A k \in jobs'[r] : k \in jobs[r]
  BY <1>1, <1>2 DEF RowsTyped
<1> QED BY <1>1, <1>2, <1>6, <1>7, <1>8, QueueStep DEF RowsTyped, budgets

\* A failing process queues at most its own job again.
LEMMA FailJobs ==
  ASSUME IInv, NEW p \in Procs, pc[p] # "idle", Fail(p)
  PROVE  /\ jobs' \in [Queues -> SUBSET Job]
         /\ \A r \in Queues : \A k \in jobs'[r] : k \in jobs[r] \/ JobFine(r, k)
         /\ Moves(p) /\ ProcFine(p)' /\ pc'[p] = "idle"
<1>1. RowsTyped /\ Moves(p) /\ ProcFine(p)' /\ pc'[p] = "idle"
  BY FinishMoves DEF IInv, Fail
<1>2. CASE UNCHANGED jobs
  BY <1>1, <1>2 DEF RowsTyped
<1>3. CASE p = "fulfil" /\ jobs' = [jobs EXCEPT ![p] = @ \cup {[ctx[p].job EXCEPT !.n = @ + 1]}]
  <2> DEFINE j == [ctx[p].job EXCEPT !.n = @ + 1]
  <2>1. p \in Queues
    BY <1>3, ProcsDisjoint
  <2>2. ctx[p].job \in Job /\ ctx[p].job.order = OrderOf(p) /\ status[OrderOf(p)] # "none"
    BY <2>1, Busy
  <2>3. j \in Job /\ j.order = OrderOf(p)
    BY <2>2 DEF Job
  <2>4. JobFine(p, j)
    BY <1>3, <2>2, <2>3 DEF JobFine
  <2>5. jobs' = [jobs EXCEPT ![p] = @ \cup {j}]
    BY <1>3
  <2> HIDE DEF j
  <2> QED BY <1>1, <2>1, <2>4, <2>5, OneMoreJob
<1> QED BY <1>2, <1>3 DEF Fail

\* The two ways a fulfil attempt goes on from a call that did not answer.
LEMMA UnansweredMoves ==
  ASSUME IInv, Grows, NEW p \in Procs, pc[p] # "idle", Unanswered(p) \/ Fail(p)
  PROVE  /\ jobs' \in [Queues -> SUBSET Job]
         /\ \A r \in Queues : \A k \in jobs'[r] : k \in jobs[r] \/ JobFine(r, k)
         /\ Moves(p) /\ ProcFine(p)'
         /\ pc'[p] \in {"idle", "flag"}
<1>1. RowsTyped /\ ProcsTyped
  BY DEF IInv
<1>2. CASE Fail(p)
  BY <1>2, FailJobs
<1>3. CASE Carry(p, "FAILED", "flag") /\ UNCHANGED jobs
  <2>1. Moves(p) /\ pc'[p] = "flag" /\ Same(p)
    BY <1>1, <1>3, CarryMoves DEF Labels, RowStates
  <2>2. ProcFine(p)'
    BY <2>1, GoesOn DEF Polling, OnDelivery, Credited
  <2> QED BY <1>1, <1>3, <2>1, <2>2 DEF RowsTyped
<1> QED BY <1>2, <1>3 DEF Unanswered

LEMMA ThrowKeeps ==
  ASSUME IInv, NEW p \in Procs, Throw(p)
  PROVE  IInv' /\ Allowed
<1>1. pc[p] # "idle" /\ UNCHANGED <<rows, pollIds, crashes>> /\ RowsTyped
  BY DEF Throw, IInv
<1>2. throws' \in Nat /\ Grows
  BY <1>1, RowsGrow DEF Throw, Fault, RowsTyped
<1>3. CASE Unanswered(p) \/ Fail(p)
  BY <1>1, <1>2, <1>3, UnansweredMoves, QueueStep DEF RowsTyped
<1>4. CASE Goto(p, "decide") /\ UNCHANGED <<ctx, jobs>>
  BY <1>1, <1>2, <1>4, ReadOn DEF Labels, Polling, OnDelivery, Credited, queueVars
<1> QED BY <1>3, <1>4 DEF Throw

-----------------------------------------------------------------------------
(* Refunds and completions                                                   *)

LEMMA FlagKeeps ==
  ASSUME IInv, NEW p \in Procs, Flag(p)
  PROVE  IInv' /\ Allowed
<1> DEFINE o == OrderOf(p)
           r == [item[o] EXCEPT !.state = ctx[p].seen]
<1>1. /\ pc[p] = "flag" /\ Carry(p, "none", "refundRead")
      /\ UNCHANGED <<status, ledger, provider, notices, queueVars, budgets>>
  BY DEF Flag
<1>2. o \in Orders /\ RowsTyped /\ ProcsTyped /\ (item[o].code => status[o] # "none" /\ o \notin Extensions)
  BY <1>1, Busy DEF IInv, RowFine
<1>3. item[o] \in ItemType /\ ctx[p].seen \in RowStates
  BY <1>2 DEF RowsTyped, ProcsTyped, CtxType
<1>4. r \in ItemType /\ r.code = item[o].code
  BY <1>3 DEF ItemType
<1>5. UNCHANGED item \/ item' = [item EXCEPT ![o] = r]
  BY DEF Flag
<1> HIDE DEF r
<1>6. Grows /\ RowsTyped' /\ (\A k \in Orders : RowFine(k)')
  <2>1. CASE item' = [item EXCEPT ![o] = r]
    BY <1>1, <1>2, <1>4, <2>1, DeliveredPlaced, ItemGrows DEF RowsTyped
  <2>2. CASE UNCHANGED item
    BY <1>1, <1>2, <2>2, RowsGrow DEF rows, IInv, RowsTyped, queueVars, budgets
  <2> QED BY <1>5, <2>1, <2>2
<1>7. Moves(p) /\ pc'[p] = "refundRead" /\ Same(p)
  BY <1>1, <1>2, CarryMoves DEF Labels, RowStates
<1>8. ProcFine(p)'
  BY <1>1, <1>6, <1>7, GoesOn DEF Polling, OnDelivery, Credited
<1>9. IInv'
  BY <1>1, <1>6, <1>7, <1>8, WriteStep
<1> QED BY <1>1, <1>9, Kept

LEMMA ReturnFine ==
  ASSUME IInv, Grows, NEW p \in Procs, pc[p] # "idle", F!Return(p)
  PROVE  Moves(p) /\ ProcFine(p)' /\ pc'[p] \in {"idle", "hookMark"}
<1>1. ProcsTyped /\ "hookMark" \in Labels
  BY DEF IInv, Labels
<1>2. CASE Finish(p)
  BY <1>1, <1>2, FinishMoves
<1>3. CASE Goto(p, "hookMark") /\ UNCHANGED ctx
  <2>1. Moves(p) /\ pc'[p] = "hookMark" /\ Same(p)
    BY <1>1, <1>3, GotoMoves
  <2> QED BY <2>1, GoesOn DEF Polling, OnDelivery, Credited
<1> QED BY <1>2, <1>3 DEF F!Return, Goto, Finish

LEMMA ReadReturn ==
  ASSUME IInv, UNCHANGED <<rows, queueVars, budgets>>, NEW p \in Procs, pc[p] # "idle", F!Return(p)
  PROVE  IInv' /\ Allowed
<1>1. RowsTyped /\ Grows
  BY RowsGrow DEF IInv
<1> QED BY <1>1, ReturnFine, ReadStep DEF RowsTyped, budgets

LEMMA RefundAndFailKeeps ==
  ASSUME IInv, NEW p \in Procs, RefundAndFail(p)
  PROVE  IInv' /\ Allowed
<1> DEFINE o == OrderOf(p)
<1>1. UNCHANGED budgets
  BY DEF RefundAndFail
<1>2. CASE F!RefundRead(p)
  <2>1. /\ pc[p] = "refundRead" /\ UNCHANGED <<rows, queueVars, budgets>>
        /\ F!Return(p) \/ (Goto(p, "markFailed") /\ UNCHANGED ctx)
    BY <1>1, <1>2 DEF F!RefundRead, F!serviceVars, rows, queueVars, Goto
  <2>2. CASE F!Return(p)
    BY <2>1, <2>2, ReadReturn
  <2>3. CASE Goto(p, "markFailed") /\ UNCHANGED ctx
    <3>1. RowsTyped
      BY DEF IInv
    <3> QED BY <2>1, <2>3, <3>1, ReadOn DEF Labels, Polling, OnDelivery, Credited, RowsTyped, budgets
  <2> QED BY <2>1, <2>2, <2>3
<1>3. CASE F!MarkFailed(p)
  <2>1. /\ pc[p] = "markFailed" /\ status' = [status EXCEPT ![o] = "FAILED"] /\ Goto(p, "credit")
        /\ UNCHANGED ctx /\ UNCHANGED <<ledger, item, provider, notices, queueVars, budgets>>
    BY <1>1, <1>3 DEF F!MarkFailed, Goto, OrderOf, queueVars
  <2>2. o \in Orders /\ status[o] # "none" /\ ProcsTyped
    BY <2>1, Busy
  <2>3. Grows /\ RowsTyped' /\ (\A k \in Orders : RowFine(k)') /\ Allowed
    BY <2>1, <2>2, StatusGrows
  <2>4. Moves(p) /\ pc'[p] = "credit" /\ Same(p)
    BY <2>1, <2>2, GotoMoves DEF Labels
  <2>5. ProcFine(p)'
    BY <2>1, <2>3, <2>4, GoesOn DEF Polling, OnDelivery, Credited
  <2> QED BY <2>1, <2>3, <2>4, <2>5, WriteStep
<1>4. CASE F!CreditRefund(p)
  <2>1. /\ pc[p] = "credit" /\ ledger' = [ledger EXCEPT ![o] = @ \cup {"refund"}] /\ Goto(p, "markRefunded")
        /\ UNCHANGED ctx /\ UNCHANGED <<status, item, provider, notices, queueVars, budgets>>
    BY <1>1, <1>4 DEF F!CreditRefund, Goto, OrderOf, queueVars
  <2>2. o \in Orders /\ status[o] # "none" /\ ProcsTyped /\ RowsTyped
    BY <2>1, Busy
  <2>3. Grows /\ RowsTyped' /\ "refund" \in ledger'[o] /\ (\A k \in Orders : RowFine(k)') /\ Allowed
    BY <2>1, <2>2, PostGrows DEF budgets, RowsTyped
  <2>4. Moves(p) /\ pc'[p] = "markRefunded" /\ Same(p)
    BY <2>1, <2>2, GotoMoves DEF Labels
  <2>5. ProcFine(p)'
    BY <2>1, <2>3, <2>4, GoesOn DEF Polling, OnDelivery, Credited
  <2> QED BY <2>1, <2>3, <2>4, <2>5, WriteStep
<1>5. CASE F!MarkRefunded(p)
  <2>1. /\ pc[p] = "markRefunded" /\ status' = [status EXCEPT ![o] = "REFUNDED"]
        /\ Goto(p, "announceFailed") /\ UNCHANGED ctx
        /\ UNCHANGED <<ledger, item, provider, notices, queueVars, budgets>>
    BY <1>1, <1>5 DEF F!MarkRefunded, Goto, OrderOf, queueVars
  <2>2. o \in Orders /\ status[o] # "none" /\ "refund" \in ledger[o] /\ RowsTyped /\ ProcsTyped
    BY <2>1, Busy DEF Credited
  <2>3. Grows
    BY <2>1, <2>2 DEF Grows, RowsTyped
  <2>4. RowsTyped'
    BY <2>1, <2>2 DEF RowsTyped, queueVars, budgets
  <2>5. \A k \in Orders : RowFine(k)'
    BY <2>1, <2>2 DEF IInv, RowFine, RowsTyped
  <2>6. Moves(p) /\ pc'[p] = "announceFailed" /\ Same(p)
    BY <2>1, <2>2, GotoMoves DEF Labels
  <2>7. ProcFine(p)'
    BY <2>1, <2>2, <2>3, <2>6, GoesOn DEF Polling, OnDelivery, Credited
  <2>8. IInv'
    BY <2>1, <2>3, <2>4, <2>5, <2>6, <2>7, WriteStep
  <2>9. Lifecycle!Close(o)
    BY <2>1, <2>2 DEF Lifecycle!Close
  <2> QED BY <2>1, <2>2, <2>8, <2>9 DEF Allowed, OnceOnFile, Lifecycle!LifecycleNext
<1>6. CASE F!AnnounceFailed(p)
  <2>1. /\ pc[p] = "announceFailed" /\ notices' = [notices EXCEPT ![o] = @ \cup {"failed"}]
        /\ F!Return(p) /\ UNCHANGED <<status, ledger, item, provider, queueVars, budgets>>
    BY <1>1, <1>6 DEF F!AnnounceFailed, OrderOf, queueVars
  <2>2. o \in Orders /\ "refund" \in ledger[o] /\ RowsTyped
    BY <2>1, Busy DEF Credited
  <2>3. Grows
    BY <2>1 DEF Grows
  <2>4. RowsTyped'
    BY <2>1, <2>2 DEF RowsTyped, queueVars, budgets
  <2>5. \A k \in Orders : RowFine(k)'
    BY <2>1 DEF IInv, RowFine
  <2>6. IInv'
    BY <2>1, <2>3, <2>4, <2>5, ReturnFine, WriteStep
  <2>7. Lifecycle!Regret(o)
    BY <2>1, <2>2 DEF Lifecycle!Regret
  <2> QED BY <2>1, <2>2, <2>6, <2>7 DEF Allowed, OnceOnFile, Lifecycle!LifecycleNext
<1> QED BY <1>2, <1>3, <1>4, <1>5, <1>6 DEF RefundAndFail

LEMMA CompleteOrderKeeps ==
  ASSUME IInv, NEW p \in Procs, CompleteOrder(p)
  PROVE  IInv' /\ Allowed
<1> DEFINE o == OrderOf(p)
<1>1. /\ pc[p] = "complete" /\ status' = [status EXCEPT ![o] = "COMPLETED"]
      /\ notices' \in {notices, [notices EXCEPT ![o] = @ \cup {"completed"}]}
      /\ UNCHANGED <<ledger, item, provider, queueVars, budgets>>
  BY DEF CompleteOrder
<1>2. o \in Orders /\ provider[o].delivered /\ RowsTyped /\ ProcsTyped
  BY <1>1, Busy DEF OnDelivery
<1>3. Grows
  BY <1>1, <1>2 DEF Grows, RowsTyped
<1>4. RowsTyped'
  BY <1>1, <1>2 DEF RowsTyped, queueVars, budgets
<1>5. \A k \in Orders : RowFine(k)'
  BY <1>1, <1>2 DEF IInv, RowFine, RowsTyped
<1>6. Moves(p) /\ ProcFine(p)'
  <2>1. CASE F!Return(p)
    BY <1>1, <1>3, <2>1, ReturnFine
  <2>2. CASE o \in Rentals /\ UNCHANGED ctx /\ \E l \in {"queuePoll", "decide"} : Goto(p, l)
    <3>1. PICK l \in {"queuePoll", "decide"} : Goto(p, l)
      BY <2>2
    <3>2. Moves(p) /\ pc'[p] = l /\ Same(p) /\ o \notin Extensions
      BY <1>2, <2>2, <3>1, GotoMoves, ProcsDisjoint DEF Labels
    <3> QED BY <1>1, <1>3, <3>2, GoesOn DEF OnDelivery, Credited
  <2> QED BY <2>1, <2>2 DEF CompleteOrder
<1>7. IInv'
  BY <1>1, <1>3, <1>4, <1>5, <1>6, WriteStep
<1>8. Lifecycle!Complete(o)
  BY <1>1, <1>2 DEF Lifecycle!Complete
<1> QED BY <1>1, <1>2, <1>7, <1>8 DEF Allowed, OnceOnFile, Lifecycle!LifecycleNext

-----------------------------------------------------------------------------
(* The fulfil worker                                                         *)

LEMMA FulfilReadKeeps ==
  ASSUME IInv, NEW p \in Procs, FulfilRead(p)
  PROVE  IInv' /\ Allowed
<1> DEFINE o == OrderOf(p)
           l == IF item[o].code THEN "queuePollAgain" ELSE "buy"
<1>1. pc[p] = "fulfilRead" /\ UNCHANGED <<rows, queueVars, budgets>>
  BY DEF FulfilRead
<1>2. RowsTyped /\ (item[o].code => o \notin Extensions)
  BY <1>1, Busy DEF IInv, RowFine
<1>3. CASE Finish(p)
  BY <1>1, <1>3, ReadFinish
<1>4. CASE Goto(p, l) /\ UNCHANGED ctx
  <2>1. /\ l \in Labels /\ l # "idle" /\ l \notin Credited \cup OnDelivery
        /\ l \in Polling => o \notin Extensions
        /\ l = "buy" => ~item[o].code
    BY <1>2 DEF Labels, Polling, OnDelivery, Credited
  <2>2. throws' \in Nat /\ UNCHANGED crashes
    BY <1>1, <1>2 DEF budgets, RowsTyped
  <2> HIDE DEF l
  <2> QED BY <1>1, <1>4, <2>1, <2>2, ReadOn
<1> QED BY <1>3, <1>4 DEF FulfilRead

\* SMSPool's side of order o changes, the rows do not.
LEMMA ProviderOnly ==
  ASSUME IInv, NEW o \in Orders, NEW r \in ProviderType, provider' = [provider EXCEPT ![o] = r],
         provider[o].delivered => r.delivered, item[o].code => r.units = provider[o].units,
         status[o] # "none", UNCHANGED <<status, ledger, item, notices, pollIds, crashes>>,
         throws' \in Nat, jobs' \in [Queues -> SUBSET Job]
  PROVE  /\ Grows /\ RowsTyped' /\ (\A k \in Orders : RowFine(k)') /\ Allowed
         /\ provider'[o] = r
<1>1. RowsTyped /\ \A k \in Orders : RowFine(k)
  BY DEF IInv
<1>2. /\ \A k \in Orders : provider[k].delivered => provider'[k].delivered
      /\ \A k \in Orders : provider'[k].delivered => status[k] # "none"
      /\ provider' \in [Orders -> ProviderType] /\ provider'[o] = r /\ Allowed
  BY ProviderGrows
<1> QED BY <1>1, <1>2 DEF Grows, RowsTyped, RowFine

LEMMA SellUnit ==
  ASSUME RowsTyped, NEW o \in Orders, Sell(o)
  PROVE  \E r \in ProviderType : /\ provider' = [provider EXCEPT ![o] = r]
                                 /\ r.delivered = provider[o].delivered
<1> DEFINE r == [provider[o] EXCEPT !.units = @ + 1]
<1>1. provider[o] \in ProviderType
  BY DEF RowsTyped
<1>2. r \in ProviderType /\ r.delivered = provider[o].delivered
  BY <1>1 DEF ProviderType
<1>3. provider' = [provider EXCEPT ![o] = r]
  BY DEF Sell
<1> HIDE DEF r
<1> QED BY <1>2, <1>3

LEMMA BuyKeeps ==
  ASSUME IInv, Buy("fulfil")
  PROVE  IInv' /\ Allowed
<1> DEFINE p == "fulfil"
           o == OrderOf(p)
<1>1. /\ p \in Procs /\ pc[p] = "buy" /\ UNCHANGED <<status, ledger, item, notices, pollIds, crashes>>
  BY ProcsDisjoint DEF Buy
<1>2. o \in Orders /\ status[o] # "none" /\ RowsTyped /\ ProcsTyped /\ ~item[o].code
  BY <1>1, Busy
<1>3. throws' \in Nat
  BY <1>2 DEF Buy, Refused, Lost, Fault, RowsTyped
<1>4. /\ Sell(o) \/ UNCHANGED provider
      /\ \/ UNCHANGED jobs /\ (Carry(p, "FAILED", "flag") \/ (Goto(p, "store") /\ UNCHANGED ctx))
         \/ Unanswered(p)
  BY DEF Buy, Refused, Lost
<1> HIDE DEF p
<1>5. ASSUME jobs' \in [Queues -> SUBSET Job]
      PROVE  Grows /\ RowsTyped' /\ (\A k \in Orders : RowFine(k)') /\ Allowed
  <2>1. CASE Sell(o)
    <3>1. PICK r \in ProviderType : /\ provider' = [provider EXCEPT ![o] = r]
                                    /\ r.delivered = provider[o].delivered
      BY <1>2, <2>1, SellUnit
    <3> QED BY <1>1, <1>2, <1>3, <1>5, <3>1, ProviderOnly
  <2>2. CASE UNCHANGED provider
    BY <1>1, <1>2, <1>3, <1>5, <2>2, RowsGrow, Kept DEF rows, IInv, RowsTyped
  <2> QED BY <1>4, <2>1, <2>2
<1>6. CASE UNCHANGED jobs /\ (Carry(p, "FAILED", "flag") \/ (Goto(p, "store") /\ UNCHANGED ctx))
  <2>1. Grows /\ RowsTyped' /\ (\A k \in Orders : RowFine(k)') /\ Allowed
    BY <1>2, <1>5, <1>6 DEF RowsTyped
  <2>2. Moves(p) /\ pc'[p] \in {"flag", "store"} /\ Same(p)
    BY <1>1, <1>2, <1>6, GotoMoves, CarryMoves DEF Labels, RowStates
  <2>3. ProcFine(p)'
    BY <1>1, <2>1, <2>2, GoesOn DEF Polling, OnDelivery, Credited
  <2> QED BY <1>1, <1>6, <2>1, <2>2, <2>3, WriteStep DEF queueVars
<1>7. CASE Unanswered(p)
  <2>1. jobs' \in [Queues -> SUBSET Job]
    <3>1. CASE Fail(p)
      BY <1>1, <3>1, FailJobs
    <3> QED BY <1>2, <1>7, <3>1 DEF Unanswered, RowsTyped
  <2>2. Grows /\ RowsTyped' /\ (\A k \in Orders : RowFine(k)') /\ Allowed
    BY <1>5, <2>1
  <2>3. /\ \A r \in Queues : \A k \in jobs'[r] : k \in jobs[r] \/ JobFine(r, k)
        /\ Moves(p) /\ ProcFine(p)'
    BY <1>1, <1>7, <2>2, UnansweredMoves
  <2> QED BY <1>1, <2>2, <2>3, ProcStep
<1> QED BY <1>4, <1>6, <1>7

\* The number bought is on file, whatever SMSPool's side does in the same step.
LEMMA StoreRow ==
  ASSUME IInv, pc["fulfil"] = "store", NEW s \in RowStates, NEW l \in {"queuePoll", "complete"},
         OrderOf("fulfil") \notin Extensions, Row(OrderOf("fulfil"), s),
         Goto("fulfil", l), UNCHANGED <<ctx, status, ledger, notices, queueVars, budgets>>,
         l = "complete" => provider'[OrderOf("fulfil")].delivered,
         provider' \in [Orders -> ProviderType],
         \A k \in Orders : provider[k].delivered => provider'[k].delivered,
         \A k \in Orders : provider'[k].delivered => status[k] # "none"
  PROVE  IInv'
<1> DEFINE p == "fulfil"
           o == OrderOf(p)
           r == [state |-> s, code |-> TRUE]
<1>1. p \in Procs /\ o \in Orders /\ status[o] # "none" /\ RowsTyped /\ ProcsTyped
  BY ProcsDisjoint, Busy
<1>2. Moves(p) /\ pc'[p] = l /\ Same(p)
  BY <1>1, GotoMoves DEF Labels
<1>3. r \in ItemType /\ item' = [item EXCEPT ![o] = r]
  BY DEF ItemType, Row
<1> HIDE DEF r
<1>4. Grows /\ RowsTyped' /\ (\A k \in Orders : RowFine(k)')
  BY <1>1, <1>2, <1>3, ItemGrows DEF RowsTyped
<1>5. ProcFine(p)'
  BY <1>1, <1>2, <1>4, GoesOn DEF Polling, OnDelivery, Credited
<1> QED BY <1>1, <1>2, <1>4, <1>5, WriteStep

LEMMA DeliverUnit ==
  ASSUME RowsTyped, NEW o \in Orders, Supplied(o)
  PROVE  \E r \in ProviderType : /\ provider' = [provider EXCEPT ![o] = r]
                                 /\ r.delivered /\ r.units = provider[o].units
<1> DEFINE r == [provider[o] EXCEPT !.delivered = TRUE]
<1>1. provider[o] \in ProviderType
  BY DEF RowsTyped
<1>2. r \in ProviderType /\ r.delivered /\ r.units = provider[o].units
  BY <1>1 DEF ProviderType
<1>3. provider' = [provider EXCEPT ![o] = r]
  BY DEF Supplied
<1> HIDE DEF r
<1> QED BY <1>2, <1>3

LEMMA StoreNumberKeeps ==
  ASSUME IInv, StoreNumber("fulfil")
  PROVE  IInv' /\ Allowed
<1> DEFINE o == OrderOf("fulfil")
<1>1. /\ pc["fulfil"] = "store" /\ o \in Verifications /\ Row(o, "AWAITING_SMS") /\ Goto("fulfil", "queuePoll")
      /\ UNCHANGED <<ctx, status, ledger, provider, notices, queueVars, budgets>>
  BY DEF StoreNumber
<1>2. o \notin Extensions /\ "AWAITING_SMS" \in RowStates /\ RowsTyped
  BY <1>1, ProcsDisjoint DEF RowStates, IInv
<1>3. IInv'
  BY <1>1, <1>2, DeliveredPlaced, StoreRow DEF RowsTyped
<1> QED BY <1>1, <1>3, Kept

LEMMA StoreRentalKeeps ==
  ASSUME IInv, StoreRental("fulfil")
  PROVE  IInv' /\ Allowed
<1> DEFINE o == OrderOf("fulfil")
<1>1. /\ pc["fulfil"] = "store" /\ o \in Rentals
      /\ UNCHANGED <<ctx, status, ledger, notices, queueVars, budgets>>
  BY DEF StoreRental
<1>2. /\ o \notin Extensions /\ "ACTIVE" \in RowStates /\ "PENDING_ACTIVATION" \in RowStates /\ RowsTyped
      /\ o \in Orders /\ status[o] # "none"
  BY <1>1, ProcsDisjoint, Busy DEF RowStates
<1>3. CASE Row(o, "PENDING_ACTIVATION") /\ Goto("fulfil", "queuePoll") /\ UNCHANGED provider
  BY <1>1, <1>2, <1>3, DeliveredPlaced, StoreRow, Kept DEF RowsTyped
<1>4. CASE Row(o, "ACTIVE") /\ Supplied(o) /\ Goto("fulfil", "complete")
  <2>1. PICK r \in ProviderType : /\ provider' = [provider EXCEPT ![o] = r]
                                  /\ r.delivered /\ r.units = provider[o].units
    BY <1>2, <1>4, DeliverUnit
  <2>2. /\ \A k \in Orders : provider[k].delivered => provider'[k].delivered
        /\ \A k \in Orders : provider'[k].delivered => status[k] # "none"
        /\ provider' \in [Orders -> ProviderType] /\ provider'[o] = r /\ Allowed
    BY <1>1, <1>2, <2>1, ProviderGrows
  <2>3. IInv'
    BY <1>1, <1>2, <1>4, <2>1, <2>2, StoreRow
  <2> QED BY <2>2, <2>3
<1> QED BY <1>3, <1>4 DEF StoreRental

LEMMA StoreExpiryKeeps ==
  ASSUME IInv, StoreExpiry("fulfil")
  PROVE  IInv' /\ Allowed
<1> DEFINE p == "fulfil"
           o == OrderOf(p)
<1>1. /\ pc[p] = "store" /\ Supplied(o) /\ Goto(p, "complete")
      /\ UNCHANGED <<status, ledger, item, notices, ctx, queueVars, budgets>> /\ p \in Procs
  BY ProcsDisjoint DEF StoreExpiry
<1> HIDE DEF p
<1>2. RowsTyped /\ ProcsTyped /\ o \in Orders /\ status[o] # "none"
  BY <1>1, Busy
<1>3. PICK r \in ProviderType : /\ provider' = [provider EXCEPT ![o] = r]
                                /\ r.delivered /\ r.units = provider[o].units
  BY <1>1, <1>2, DeliverUnit
<1>4. Grows /\ RowsTyped' /\ (\A k \in Orders : RowFine(k)') /\ Allowed /\ provider'[o] = r
  BY <1>1, <1>2, <1>3, ProviderOnly DEF queueVars, budgets, RowsTyped
<1>5. Moves(p) /\ pc'[p] = "complete" /\ Same(p)
  BY <1>1, <1>2, GotoMoves DEF Labels
<1>6. ProcFine(p)'
  BY <1>1, <1>3, <1>4, <1>5, GoesOn DEF Polling, OnDelivery, Credited
<1> QED BY <1>1, <1>4, <1>5, <1>6, WriteStep

\* The first poll of an order, or the next one.
LEMMA PollQueued ==
  ASSUME IInv, NEW p \in Procs, pc[p] # "idle", OrderOf(p) \notin Extensions, NEW n \in Nat,
         F!AddPoll(OrderOf(p), n), Finish(p), UNCHANGED <<rows, budgets>>
  PROVE  IInv' /\ Allowed
<1>1. RowsTyped /\ ProcsTyped /\ OrderOf(p) \in Orders /\ status[OrderOf(p)] # "none"
  BY Busy
<1>2. /\ jobs' \in [Queues -> SUBSET Job] /\ pollIds' \in [Orders -> SUBSET Nat]
      /\ \A r \in Queues : \A k \in jobs'[r] : k \in jobs[r] \/ JobFine(r, k)
  BY <1>1, AddPollFine
<1> QED BY <1>1, <1>2, FinishMoves, QueueStep DEF RowsTyped, budgets

LEMMA QueuePollKeeps ==
  ASSUME IInv, NEW p \in Procs, QueuePoll(p)
  PROVE  IInv' /\ Allowed
<1>1. /\ pc[p] \in Polling /\ F!AddPoll(OrderOf(p), 1) /\ Finish(p) /\ UNCHANGED <<rows, budgets>>
      /\ pc[p] # "idle"
  BY DEF QueuePoll, Polling
<1>2. OrderOf(p) \notin Extensions
  BY <1>1, Busy
<1> QED BY <1>1, <1>2, PollQueued

-----------------------------------------------------------------------------
(* The poll worker                                                           *)

\* The next poll or, after the last one, what an overdue order needs.
LEMMA PollOnKeeps ==
  ASSUME IInv, pc["poll"] # "idle", NEW s \in RowStates, NEW l \in {"cancel", "flag"},
         PollOn("poll", ((Goto("poll", l) /\ UNCHANGED ctx) \/ Carry("poll", s, l)) /\ UNCHANGED queueVars),
         UNCHANGED <<rows, budgets>>
  PROVE  IInv' /\ Allowed
<1> DEFINE p == "poll"
<1>1. /\ p \in Procs /\ RowsTyped /\ OrderOf(p) \notin Extensions /\ ctx[p].job \in Job
      /\ throws' \in Nat /\ UNCHANGED crashes
  BY ProcsDisjoint, Busy DEF budgets, RowsTyped
<1>2. ctx[p].job.n + 1 \in Nat
  BY <1>1 DEF Job
<1>3. CASE F!AddPoll(OrderOf(p), ctx[p].job.n + 1) /\ Finish(p)
  BY <1>1, <1>2, <1>3, PollQueued
<1>4. CASE ((Goto("poll", l) /\ UNCHANGED ctx) \/ Carry("poll", s, l)) /\ UNCHANGED queueVars
  BY <1>1, <1>4, ReadOn DEF Labels, Polling, OnDelivery, Credited
<1> QED BY <1>3, <1>4 DEF PollOn

LEMMA PollReadKeeps ==
  ASSUME IInv, NEW p \in Procs, PollRead(p)
  PROVE  IInv' /\ Allowed
<1>1. pc[p] = "pollRead" /\ UNCHANGED <<rows, queueVars, budgets>>
  BY DEF PollRead
<1>2. /\ RowsTyped /\ OrderOf(p) \in Orders /\ throws' \in Nat /\ UNCHANGED crashes
  BY <1>1, Busy DEF budgets, RowsTyped
<1>3. item[OrderOf(p)].state \in RowStates
  BY <1>2 DEF RowsTyped, ItemType
<1>4. CASE Finish(p)
  BY <1>1, <1>4, ReadFinish
<1>5. CASE Carry(p, item[OrderOf(p)].state, "query")
  BY <1>1, <1>2, <1>3, <1>5, ReadOn DEF Labels, Polling, OnDelivery, Credited
<1> QED BY <1>4, <1>5 DEF PollRead

LEMMA QueryOneTimeKeeps ==
  ASSUME IInv, QueryOneTime("poll")
  PROVE  IInv' /\ Allowed
<1> DEFINE p == "poll"
           o == OrderOf(p)
<1>1. pc[p] = "query" /\ UNCHANGED <<rows, budgets>> /\ p \in Procs /\ RowsTyped
  BY ProcsDisjoint DEF QueryOneTime, IInv
<1>2. throws' \in Nat /\ UNCHANGED crashes /\ "none" \in RowStates
  BY <1>1 DEF budgets, RowsTyped, RowStates
<1>3. CASE provider[o].delivered /\ Goto(p, "codeRead") /\ UNCHANGED <<ctx, queueVars>>
  BY <1>1, <1>2, <1>3, ReadOn DEF Labels, Polling, OnDelivery, Credited
<1>4. CASE Goto(p, "cancel") /\ UNCHANGED <<ctx, queueVars>>
  BY <1>1, <1>2, <1>4, ReadOn DEF Labels, Polling, OnDelivery, Credited
<1>5. CASE PollOn(p, Goto(p, "cancel") /\ UNCHANGED <<ctx, queueVars>>)
  <2>1. PollOn(p, ((Goto(p, "cancel") /\ UNCHANGED ctx) \/ Carry(p, "none", "cancel")) /\ UNCHANGED queueVars)
    BY <1>5 DEF PollOn
  <2> QED BY <1>1, <1>2, <2>1, PollOnKeeps
<1> QED BY <1>3, <1>4, <1>5 DEF QueryOneTime

LEMMA DecideKeeps ==
  ASSUME IInv, Decide("poll")
  PROVE  IInv' /\ Allowed
<1> DEFINE p == "poll"
<1>1. pc[p] = "decide" /\ UNCHANGED <<rows, budgets>> /\ p \in Procs
  BY ProcsDisjoint DEF Decide
<1>2. CASE Finish(p) /\ UNCHANGED queueVars
  BY <1>1, <1>2, ReadFinish
<1>3. CASE PollOn(p, Carry(p, "FAILED", "flag") /\ UNCHANGED queueVars)
  <2>1. PollOn(p, ((Goto(p, "flag") /\ UNCHANGED ctx) \/ Carry(p, "FAILED", "flag")) /\ UNCHANGED queueVars)
    BY <1>3 DEF PollOn
  <2> QED BY <1>1, <2>1, PollOnKeeps DEF RowStates
<1> QED BY <1>2, <1>3 DEF Decide

\* An order without a number in a store step that touches SMSPool's side only.
LEMMA ReverseUnit ==
  ASSUME RowsTyped, NEW o \in Orders, provider' = [provider EXCEPT ![o].reversed = TRUE]
  PROVE  \E r \in ProviderType : /\ provider' = [provider EXCEPT ![o] = r]
                                 /\ r.delivered = provider[o].delivered /\ r.units = provider[o].units
<1> DEFINE r == [provider[o] EXCEPT !.reversed = TRUE]
<1>1. provider[o] \in ProviderType
  BY DEF RowsTyped
<1>2. r \in ProviderType /\ r.delivered = provider[o].delivered /\ r.units = provider[o].units
  BY <1>1 DEF ProviderType
<1>3. provider' = [provider EXCEPT ![o] = r]
  OBVIOUS
<1> HIDE DEF r
<1> QED BY <1>2, <1>3

\* SMSPool cancels or refunds the number, and the order is to be refunded.
LEMMA ReverseKeeps ==
  ASSUME IInv, NEW p \in Procs, pc[p] # "idle", NEW s \in RowStates, Carry(p, s, "flag"),
         provider' = [provider EXCEPT ![OrderOf(p)].reversed = TRUE],
         UNCHANGED <<status, ledger, item, notices, queueVars, budgets>>
  PROVE  IInv' /\ Allowed
<1> DEFINE o == OrderOf(p)
<1>1. RowsTyped /\ ProcsTyped /\ o \in Orders /\ status[o] # "none"
  BY Busy
<1>2. PICK r \in ProviderType : /\ provider' = [provider EXCEPT ![o] = r]
                                /\ r.delivered = provider[o].delivered /\ r.units = provider[o].units
  BY <1>1, ReverseUnit
<1>3. Grows /\ RowsTyped' /\ (\A k \in Orders : RowFine(k)') /\ Allowed
  BY ZenonT(40), <1>1, <1>2, ProviderOnly DEF queueVars, budgets, RowsTyped
<1>4. Moves(p) /\ pc'[p] = "flag" /\ Same(p)
  BY <1>1, CarryMoves DEF Labels
<1>5. ProcFine(p)'
  BY <1>3, <1>4, GoesOn DEF Polling, OnDelivery, Credited
<1> QED BY <1>3, <1>4, <1>5, WriteStep

LEMMA CancelAndReverseKeep ==
  ASSUME IInv, NEW p \in Procs, CancelSms(p) \/ Reverse(p)
  PROVE  IInv' /\ Allowed
<1>1. PICK s \in {"EXPIRED", "REFUNDED"} :
        /\ pc[p] # "idle" /\ UNCHANGED <<status, ledger, item, notices, queueVars, budgets>>
        /\ provider' = [provider EXCEPT ![OrderOf(p)].reversed = TRUE] \/ UNCHANGED provider
        /\ Carry(p, s, "flag") \/ (Finish(p) /\ UNCHANGED provider)
  BY DEF CancelSms, Reverse
<1>2. s \in RowStates /\ RowsTyped
  BY DEF RowStates, IInv
<1>3. CASE Finish(p) /\ UNCHANGED provider
  BY <1>1, <1>3, ReadFinish DEF rows
<1>4. CASE Carry(p, s, "flag") /\ UNCHANGED provider
  <2>1. UNCHANGED <<rows, queueVars, crashes>> /\ throws' \in Nat
    BY <1>1, <1>2, <1>4 DEF rows, budgets, RowsTyped
  <2>2. "flag" \in Labels \ ({"idle"} \cup Credited) /\ "flag" \notin Polling \cup OnDelivery
    BY DEF Labels, Polling, OnDelivery, Credited
  <2> QED BY <1>1, <1>2, <1>4, <2>1, <2>2, ReadOn
<1>5. CASE Carry(p, s, "flag") /\ provider' = [provider EXCEPT ![OrderOf(p)].reversed = TRUE]
  BY <1>1, <1>2, <1>5, ReverseKeeps
<1> QED BY <1>1, <1>3, <1>4, <1>5

LEMMA QueryRentalKeeps ==
  ASSUME IInv, QueryRental("poll")
  PROVE  IInv' /\ Allowed
<1> DEFINE p == "poll"
<1>1. /\ pc[p] = "query" /\ UNCHANGED <<rows, ctx, queueVars, budgets>> /\ p \in Procs /\ RowsTyped
  BY ProcsDisjoint DEF QueryRental, IInv
<1>2. throws' \in Nat /\ UNCHANGED crashes
  BY <1>1 DEF budgets, RowsTyped
<1>3. CASE provider[OrderOf(p)].delivered /\ Goto(p, "activateRead")
  BY <1>1, <1>2, <1>3, ReadOn DEF Labels, Polling, OnDelivery, Credited
<1>4. CASE Goto(p, "decide")
  BY <1>1, <1>2, <1>4, ReadOn DEF Labels, Polling, OnDelivery, Credited
<1> QED BY <1>3, <1>4 DEF QueryRental

-----------------------------------------------------------------------------
(* The code, or the activation, on file                                      *)

LEMMA KnownStep ==
  ASSUME IInv, UNCHANGED <<rows, queueVars, budgets>>, NEW p \in Procs, pc[p] \in OnDelivery,
         NEW l \in {"activate", "codeStore"}, Goto(p, l), NEW b \in BOOLEAN,
         ctx' = [ctx EXCEPT ![p].known = b]
  PROVE  IInv' /\ Allowed
<1> DEFINE c == [ctx[p] EXCEPT !.known = b]
<1>1. /\ pc[p] # "idle" /\ RowsTyped /\ ProcsTyped /\ ctx[p] \in CtxType /\ Grows
      /\ provider[OrderOf(p)].delivered /\ l \in Labels
  BY Busy, RowsGrow DEF OnDelivery, ProcsTyped, IInv, Labels
<1>2. c \in CtxType /\ c.order = ctx[p].order /\ c.job = ctx[p].job
  BY <1>1 DEF CtxType
<1>3. ctx' = [ctx EXCEPT ![p] = c] /\ pc' = [pc EXCEPT ![p] = l]
  BY DEF Goto, F!Goto
<1> HIDE DEF c
<1>4. Moves(p) /\ pc'[p] = l /\ ctx'[p] = c
  BY ZenonT(40), <1>1, <1>2, <1>3, CtxMoves
<1>5. Same(p)
  BY <1>2, <1>4 DEF Same
<1>6. ProcFine(p)'
  BY <1>1, <1>4, <1>5, GoesOn DEF Polling, Credited, rows
<1> QED BY <1>1, <1>4, <1>6, ReadStep DEF RowsTyped, budgets

LEMMA ActivateReadKeeps ==
  ASSUME IInv, NEW p \in Procs, ActivateRead(p)
  PROVE  IInv' /\ Allowed
<1> DEFINE b == status[OrderOf(p)] = "COMPLETED"
<1>1. pc[p] = "activateRead" /\ UNCHANGED <<rows, queueVars, budgets>> /\ RowsTyped /\ b \in BOOLEAN
  BY DEF ActivateRead, IInv
<1>2. throws' \in Nat /\ UNCHANGED crashes
  BY <1>1 DEF budgets, RowsTyped
<1>3. CASE Goto(p, "decide") /\ UNCHANGED ctx
  BY <1>1, <1>2, <1>3, ReadOn DEF Labels, Polling, OnDelivery, Credited
<1>4. CASE ctx' = [ctx EXCEPT ![p].known = b] /\ Goto(p, "activate")
  <2> HIDE DEF b
  <2> QED BY <1>1, <1>4, KnownStep DEF OnDelivery
<1> QED BY <1>3, <1>4 DEF ActivateRead

LEMMA CodeReadKeeps ==
  ASSUME IInv, NEW p \in Procs, CodeRead(p)
  PROVE  IInv' /\ Allowed
<1> DEFINE b == status[OrderOf(p)] = "COMPLETED"
<1>1. pc[p] = "codeRead" /\ UNCHANGED <<rows, queueVars, budgets>> /\ b \in BOOLEAN
  BY DEF CodeRead
<1>2. CASE F!Return(p)
  BY <1>1, <1>2, ReadReturn
<1>3. CASE ctx' = [ctx EXCEPT ![p].known = b] /\ Goto(p, "codeStore")
  <2> HIDE DEF b
  <2> QED BY <1>1, <1>3, KnownStep DEF OnDelivery
<1> QED BY <1>2, <1>3 DEF CodeRead

\* The row is written, and an order already COMPLETED announced.
LEMMA RowAnnounced ==
  ASSUME IInv, NEW p \in Procs, pc[p] \in OnDelivery, NEW s \in RowStates,
         item' = [item EXCEPT ![OrderOf(p)].state = s], Announce(p),
         UNCHANGED <<status, ledger, provider, queueVars, budgets>>
  PROVE  Grows /\ RowsTyped' /\ (\A k \in Orders : RowFine(k)') /\ Allowed
<1> DEFINE o == OrderOf(p)
           r == [item[o] EXCEPT !.state = s]
<1>1. pc[p] # "idle"
  BY DEF OnDelivery
<1>2. /\ o \in Orders /\ RowsTyped /\ provider[o].delivered /\ RowFine(o)
  BY <1>1, Busy DEF IInv
<1>3. item[o] \in ItemType
  BY <1>2 DEF RowsTyped
<1>4. r \in ItemType /\ r.code = item[o].code /\ item' = [item EXCEPT ![o] = r]
  BY <1>3 DEF ItemType
<1> HIDE DEF r
<1>5. UNCHANGED notices \/ notices' = [notices EXCEPT ![o] = @ \cup {"completed"}]
  BY DEF Announce
<1>6. notices' \in [Orders -> SUBSET {"completed", "failed"}]
  BY <1>2, <1>5 DEF RowsTyped
<1>7. Grows /\ RowsTyped' /\ (\A k \in Orders : RowFine(k)')
  <2>1. \A k \in Orders : provider'[k].delivered => status[k] # "none"
    BY DeliveredPlaced
  <2>2. r.code => status[o] # "none" /\ o \notin Extensions
    BY <1>2, <1>4 DEF RowFine
  <2> QED BY <1>2, <1>4, <1>6, <2>1, <2>2, ItemGrows DEF RowsTyped
<1>8. Allowed
  <2>1. CASE UNCHANGED notices
    BY <2>1, Kept
  <2>2. CASE notices' = [notices EXCEPT ![o] = @ \cup {"completed"}]
    <3>1. Lifecycle!Show(o)
      BY <1>2, <2>2 DEF Lifecycle!Show
    <3> QED BY <1>2, <3>1 DEF Allowed, OnceOnFile, Lifecycle!LifecycleNext
  <2> QED BY <1>5, <2>1, <2>2
<1> QED BY <1>7, <1>8

LEMMA ActivateKeeps ==
  ASSUME IInv, NEW p \in Procs, Activate(p)
  PROVE  IInv' /\ Allowed
<1>1. /\ pc[p] = "activate" /\ item' = [item EXCEPT ![OrderOf(p)].state = "ACTIVE"] /\ Announce(p)
      /\ UNCHANGED <<status, ledger, provider, ctx, queueVars, budgets>>
  BY DEF Activate
<1>2. PICK l \in {"decide", "complete"} : Goto(p, l)
  BY DEF Activate
<1>3. ProcsTyped /\ provider[OrderOf(p)].delivered
  BY <1>1, Busy DEF OnDelivery
<1>4. Grows /\ RowsTyped' /\ (\A k \in Orders : RowFine(k)') /\ Allowed
  BY <1>1, RowAnnounced DEF OnDelivery, RowStates
<1>5. Moves(p) /\ pc'[p] = l /\ Same(p)
  BY <1>1, <1>2, <1>3, GotoMoves DEF Labels
<1>6. ProcFine(p)'
  BY <1>1, <1>3, <1>4, <1>5, GoesOn DEF Polling, OnDelivery, Credited
<1> QED BY <1>1, <1>4, <1>5, <1>6, WriteStep

LEMMA CodeStoreKeeps ==
  ASSUME IInv, NEW p \in Procs, CodeStore(p)
  PROVE  IInv' /\ Allowed
<1>1. /\ pc[p] = "codeStore" /\ item' = [item EXCEPT ![OrderOf(p)].state = "COMPLETED"] /\ Announce(p)
      /\ UNCHANGED <<status, ledger, provider, queueVars, budgets>>
  BY DEF CodeStore
<1>2. ProcsTyped /\ provider[OrderOf(p)].delivered
  BY <1>1, Busy DEF OnDelivery
<1>3. Grows /\ RowsTyped' /\ (\A k \in Orders : RowFine(k)') /\ Allowed
  BY <1>1, RowAnnounced DEF OnDelivery, RowStates
<1>4. CASE F!Return(p)
  BY <1>1, <1>3, <1>4, ReturnFine, WriteStep
<1>5. CASE Goto(p, "complete") /\ UNCHANGED ctx
  <2>1. Moves(p) /\ pc'[p] = "complete" /\ Same(p)
    BY <1>2, <1>5, GotoMoves DEF Labels
  <2>2. ProcFine(p)'
    BY <1>1, <1>2, <1>3, <2>1, GoesOn DEF Polling, OnDelivery, Credited
  <2> QED BY <1>1, <1>3, <2>1, <2>2, WriteStep
<1> QED BY <1>4, <1>5 DEF CodeStore

-----------------------------------------------------------------------------
(* Webhook, customer's refund, SMSPool and restarts                          *)

LEMMA HookBeginKeeps ==
  ASSUME IInv, NEW h \in Handlers, NEW o \in Orders, HookBegin(h, o)
  PROVE  IInv' /\ Allowed
<1> DEFINE c == [F!NoCtx EXCEPT !.order = o, !.note = "sms"]
<1>1. /\ h \in Procs /\ h \notin Queues /\ h # "fulfil" /\ h # "poll" /\ RowsTyped /\ ProcsTyped
  BY ProcsDisjoint DEF IInv
<1>2. /\ o \in Verifications /\ provider[o].delivered /\ UNCHANGED <<rows, queueVars, budgets>>
      /\ pc' = [pc EXCEPT ![h] = "codeRead"] /\ ctx' = [ctx EXCEPT ![h] = c]
  BY DEF HookBegin
<1>3. c \in CtxType /\ c.order = o
  BY DEF F!NoCtx, CtxType, F!NoJob, RowStates
<1> HIDE DEF c
<1>4. Moves(h) /\ pc'[h] = "codeRead" /\ ctx'[h] = c
  BY <1>1, <1>2, <1>3, CtxMoves DEF Labels
<1>5. status[o] # "none"
  BY <1>2 DEF IInv, RowFine
<1>6. ProcFine(h)'
  BY <1>1, <1>2, <1>3, <1>4, <1>5 DEF ProcFine, OrderOf, F!OrderOf, Polling, OnDelivery, Credited, rows
<1> QED BY <1>1, <1>2, <1>4, <1>6, ReadStep DEF RowsTyped, budgets

LEMMA AskRefundKeeps ==
  ASSUME IInv, NEW h \in Handlers, NEW o \in Orders, AskRefund(h, o)
  PROVE  IInv' /\ Allowed
<1>1. item[o].code /\ Begin(h, "reverse", o) /\ UNCHANGED <<rows, queueVars, budgets>> /\ RowsTyped
  BY DEF AskRefund, IInv
<1>2. status'[o] # "none"
  BY <1>1 DEF IInv, RowFine, rows
<1>3. h \in Procs /\ Moves(h) /\ ProcFine(h)'
  BY <1>1, <1>2, BegunFine
<1> QED BY <1>1, <1>3, ReadStep DEF RowsTyped, budgets

LEMMA DeliverKeeps ==
  ASSUME IInv, NEW o \in Orders, Deliver(o)
  PROVE  IInv' /\ Allowed
<1>1. /\ item[o].code /\ Supplied(o)
      /\ UNCHANGED <<status, ledger, item, notices, queueVars, procVars, budgets>>
  BY DEF Deliver, Supplied
<1>2. RowsTyped /\ ProcsTyped /\ JobsFine /\ (\A p \in Procs : ProcFine(p)) /\ status[o] # "none"
  BY <1>1 DEF IInv, RowFine
<1>3. PICK r \in ProviderType : /\ provider' = [provider EXCEPT ![o] = r]
                                /\ r.delivered /\ r.units = provider[o].units
  BY <1>1, <1>2, DeliverUnit
<1>4. Grows /\ RowsTyped' /\ (\A k \in Orders : RowFine(k)') /\ Allowed
  BY <1>1, <1>2, <1>3, ProviderOnly DEF queueVars, budgets, RowsTyped
<1>5. ProcsTyped' /\ \A p \in Procs : ProcFine(p)'
  BY <1>1, <1>2, <1>4, StaysFine DEF procVars, ProcsTyped
<1>6. JobsFine'
  <2>1. \A q, j : JobFine(q, j) => JobFine(q, j)'
    BY <1>2, <1>4, StaysFine
  <2> QED BY <1>1, <1>2, <2>1 DEF JobsFine, queueVars
<1> QED BY <1>4, <1>5, <1>6 DEF IInv

LEMMA CrashKeeps ==
  ASSUME IInv, Crash
  PROVE  IInv' /\ Allowed
<1>1. RowsTyped /\ ProcsTyped /\ JobsFine /\ \A o \in Orders : RowFine(o)
  BY DEF IInv
<1>2. /\ crashes' = 1 /\ UNCHANGED <<rows, pollIds, throws>>
      /\ jobs' = [q \in Queues |-> jobs[q] \cup (IF pc[q] = "idle" THEN {} ELSE {ctx[q].job})]
      /\ pc' = [p \in Procs |-> "idle"] /\ ctx' = [p \in Procs |-> F!NoCtx]
  BY DEF Crash
<1>3. Grows /\ \A o \in Orders : RowFine(o)'
  BY <1>1, <1>2, RowsGrow
<1>4. ASSUME NEW q \in Queues, NEW j \in jobs'[q] PROVE j \in Job /\ JobFine(q, j)
  <2>1. CASE j \in jobs[q]
    BY <1>1, <2>1 DEF JobsFine, JobFine
  <2>2. CASE pc[q] # "idle" /\ j = ctx[q].job
    BY <2>2, ProcsDisjoint, Busy DEF JobFine
  <2> QED BY <1>2, <2>1, <2>2
<1>5. RowsTyped'
  <2>1. jobs' \in [Queues -> SUBSET Job]
    BY <1>2, <1>4
  <2> QED BY <1>1, <1>2, <2>1 DEF RowsTyped, rows
<1>6. ProcsTyped' /\ \A p \in Procs : ProcFine(p)'
  BY <1>2, NoCtxTyped DEF ProcsTyped, Labels, ProcFine, F!NoCtx, F!NoJob
<1>7. JobsFine'
  <2>1. \A q, j : JobFine(q, j) => JobFine(q, j)'
    BY <1>1, <1>3, StaysFine
  <2> QED BY <1>4, <2>1 DEF JobsFine
<1>8. IInv'
  BY <1>3, <1>5, <1>6, <1>7 DEF IInv
<1> QED BY <1>2, <1>8, Kept DEF rows

-----------------------------------------------------------------------------
LEMMA InitFine == Init => IInv /\ Lifecycle!LifecycleInit
<1> SUFFICES ASSUME Init PROVE IInv /\ Lifecycle!LifecycleInit
  OBVIOUS
<1>1. RowsTyped
  <2>1. item \in [Orders -> ItemType] /\ provider \in [Orders -> ProviderType]
    BY DEF Init, ItemType, RowStates, ProviderType
  <2> QED BY <2>1 DEF Init, RowsTyped
<1>2. ProcsTyped /\ \A p \in Procs : ProcFine(p)
  BY NoCtxTyped DEF Init, ProcsTyped, ProcFine, Labels
<1>3. JobsFine /\ \A o \in Orders : RowFine(o)
  BY DEF Init, JobsFine, RowFine
<1>4. [o \in Orders |-> provider[o].delivered] = [o \in Orders |-> FALSE]
  BY DEF Init
<1> QED BY <1>1, <1>2, <1>3, <1>4 DEF IInv, Init, Lifecycle!LifecycleInit

LEMMA StepKeeps ==
  ASSUME IInv, [Next]_vars
  PROVE  IInv' /\ Allowed
<1>1. CASE UNCHANGED vars
  <2>1. IInv'
    BY <1>1 DEF vars, rows, queueVars, procVars, budgets, IInv, RowsTyped, ProcsTyped, JobsFine, JobFine,
                RowFine, ProcFine, OrderOf, F!OrderOf
  <2> QED BY <1>1, <2>1, Kept DEF vars, rows
<1>2. ASSUME NEW p \in Procs, Step(p) PROVE IInv' /\ Allowed
  <2>1. CASE Flag(p) \/ RefundAndFail(p) \/ CompleteOrder(p) \/ CodeRead(p) \/ CodeStore(p)
    BY <2>1, FlagKeeps, RefundAndFailKeeps, CompleteOrderKeeps, CodeReadKeeps, CodeStoreKeeps
  <2>2. CASE p = "fulfil" /\ FulfilWorker(p)
    BY <2>2, FulfilReadKeeps, BuyKeeps, StoreNumberKeeps, StoreRentalKeeps, StoreExpiryKeeps,
       QueuePollKeeps DEF FulfilWorker
  <2>3. CASE p = "poll" /\ PollWorker(p)
    BY <2>3, PollReadKeeps, QueryOneTimeKeeps, CancelAndReverseKeep, QueryRentalKeeps,
       ActivateReadKeeps, ActivateKeeps, DecideKeeps DEF PollWorker
  <2>4. CASE Handler(p)
    BY <2>4, CreateItemKeeps, DebitKeeps, MarkUnpaidKeeps, StartKeeps, EnqueueKeeps,
       CancelAndReverseKeep, ReadFinish DEF Handler, HookMark
  <2> QED BY <1>2, <2>1, <2>2, <2>3, <2>4 DEF Step
<1> QED BY <1>1, <1>2, ThrowKeeps, TakeKeeps, CreateKeeps, HookBeginKeeps, AskRefundKeeps,
           DeliverKeeps, CrashKeeps DEF Next

LEMMA Invariance == Spec => []IInv
<1>1. Init => IInv
  BY InitFine
<1>2. IInv /\ [Next]_vars => IInv'
  BY StepKeeps
<1> QED BY <1>1, <1>2, PTL DEF Spec

\* Rows, queues and calls in progress are well formed, a busy worker holding a
\* job of the order it works on, and no poll is ever about an extension.
THEOREM TypeCorrect == Spec => []TypeOK
<1>1. IInv => TypeOK
  <2> SUFFICES ASSUME IInv PROVE TypeOK
    OBVIOUS
  <2>1. RowsTyped /\ ProcsTyped
    BY DEF IInv
  <2>2. ASSUME NEW j \in jobs["poll"] \cup {ctx["poll"].job} PROVE j.order \notin Extensions
    <3>1. CASE j \in jobs["poll"]
      BY <3>1, ProcsDisjoint DEF IInv, JobsFine, JobFine
    <3>2. CASE j = ctx["poll"].job /\ pc["poll"] = "idle"
      BY <3>2, ProcsDisjoint, NoCtxTyped DEF IInv, ProcFine
    <3>3. CASE j = ctx["poll"].job /\ pc["poll"] # "idle"
      BY <3>3, ProcsDisjoint, Busy
    <3> QED BY <3>1, <3>2, <3>3
  <2>3. /\ \A p \in Procs : pc[p] # "idle" => OrderOf(p) \in Orders
        /\ \A q \in Queues : pc[q] # "idle" => ctx[q].job \in Job /\ ctx[q].job.order = OrderOf(q)
    BY Busy, ProcsDisjoint
  <2> QED BY <2>1, <2>2, <2>3 DEF TypeOK, RowsTyped, ProcsTyped, ItemType, ProviderType
<1> QED BY <1>1, Invariance, PTL

\* SMS fulfilment implements OrderLifecycle: status and messages follow what
\* SMSPool delivered and what the wallet posted, though codes, polls, webhook
\* deliveries and customer refunds cross.
THEOREM Refinement == Spec => ImplementsLifecycle
<1>1. Init => Lifecycle!LifecycleInit
  BY InitFine
<1>2. IInv /\ [Next]_vars => [Lifecycle!LifecycleNext]_(Lifecycle!lifecycleVars)
  BY StepKeeps DEF Allowed
<1> QED BY <1>1, <1>2, Invariance, PTL DEF Spec, ImplementsLifecycle, Lifecycle!LifecycleSpec

\* So no SMS order reads, or was announced, as completed without SMSPool having
\* delivered, or as refunded without the money back, whatever is retried or
\* crashes.
THEOREM Honesty == Spec => []Lifecycle!Honest
<1>1. Init => Lifecycle!Honest
  BY DEF Init, Lifecycle!Honest
<1>2. IInv /\ Lifecycle!Honest /\ [Next]_vars => Lifecycle!Honest'
  <2> SUFFICES ASSUME IInv, Lifecycle!Honest, [Next]_vars PROVE Lifecycle!Honest'
    OBVIOUS
  <2> DEFINE sup == [k \in Orders |-> provider[k].delivered]
             sup1 == [k \in Orders |-> (provider[k].delivered)']
             Truth(s, m, d, n) == /\ s = "COMPLETED" \/ n \cap {"completed", "shown"} # {} => d
                                  /\ s = "REFUNDED" \/ "failed" \in n => "refund" \in m
                                  /\ d \/ m # {} => s # "none"
  <2>1. RowsTyped /\ \A o \in Orders : Truth(status[o], ledger[o], sup[o], notices[o])
    BY DEF IInv, Lifecycle!Honest
  <2>2. ASSUME NEW o \in Orders PROVE Truth(status'[o], ledger'[o], sup1[o], notices'[o])
    <3>1. Truth(status[o], ledger[o], sup[o], notices[o])
      BY <2>1
    <3>2. CASE UNCHANGED Lifecycle!lifecycleVars
      <4>1. UNCHANGED <<status, ledger, notices>> /\ sup1 = sup
        BY <3>2 DEF Lifecycle!lifecycleVars
      <4> QED BY <3>1, <4>1
    <3>3. CASE Lifecycle!LifecycleNext
      <4>1. PICK k \in Orders :
              \/ Lifecycle!Place(k) \/ Lifecycle!Work(k) \/ Lifecycle!Supply(k)
              \/ Lifecycle!Post(k, "charge") \/ Lifecycle!Post(k, "refund")
              \/ Lifecycle!Complete(k) \/ Lifecycle!Close(k) \/ Lifecycle!Regret(k)
              \/ Lifecycle!Show(k)
        BY <3>3 DEF Lifecycle!LifecycleNext
      <4>2. CASE Lifecycle!Place(k) \/ Lifecycle!Work(k)
        <5>1. /\ UNCHANGED <<ledger, notices>> /\ sup1 = sup
              /\ \E s \in {"PAID", "FULFILLING", "FAILED"} : status' = [status EXCEPT ![k] = s]
          BY <4>2 DEF Lifecycle!Place, Lifecycle!Work
        <5> QED BY <2>1, <3>1, <5>1 DEF RowsTyped
      <4>3. CASE Lifecycle!Supply(k)
        <5>1. /\ UNCHANGED <<status, ledger, notices>> /\ status[k] # "none"
              /\ sup1 = [sup EXCEPT ![k] = TRUE]
          BY <4>3 DEF Lifecycle!Supply
        <5>2. o # k => sup1[o] = sup[o]
          BY <5>1
        <5> QED BY <3>1, <5>1, <5>2
      <4>4. CASE Lifecycle!Post(k, "charge") \/ Lifecycle!Post(k, "refund")
        <5>1. /\ UNCHANGED <<status, notices>> /\ sup1 = sup /\ status[k] # "none"
              /\ \E m \in {"charge", "refund"} : ledger' = [ledger EXCEPT ![k] = @ \cup {m}]
          BY <4>4 DEF Lifecycle!Post
        <5> QED BY <2>1, <3>1, <5>1 DEF RowsTyped
      <4>5. CASE Lifecycle!Complete(k) \/ Lifecycle!Show(k)
        <5>1. /\ UNCHANGED ledger /\ sup1 = sup /\ sup[k]
              /\ status' \in {status, [status EXCEPT ![k] = "COMPLETED"]}
              /\ \E n \in SUBSET {"completed", "shown"} : notices' = [notices EXCEPT ![k] = @ \cup n]
          <6>1. notices = [notices EXCEPT ![k] = @ \cup {}]
            BY <2>1 DEF RowsTyped
          <6> QED BY <4>5, <6>1 DEF Lifecycle!Complete, Lifecycle!Show
        <5>2. status[k] # "none"
          BY <2>1, <5>1
        <5> QED BY <2>1, <3>1, <5>1, <5>2 DEF RowsTyped
      <4>6. CASE Lifecycle!Close(k) \/ Lifecycle!Regret(k)
        <5>1. /\ UNCHANGED ledger /\ sup1 = sup /\ "refund" \in ledger[k]
              /\ status' \in {status, [status EXCEPT ![k] = "REFUNDED"]}
              /\ notices' \in {notices, [notices EXCEPT ![k] = @ \cup {"failed"}]}
          BY <4>6 DEF Lifecycle!Close, Lifecycle!Regret
        <5> QED BY <2>1, <3>1, <5>1 DEF RowsTyped
      <4> QED BY <4>1, <4>2, <4>3, <4>4, <4>5, <4>6
    <3> QED BY <3>2, <3>3, StepKeeps DEF Allowed
  <2> QED BY <2>2 DEF Lifecycle!Honest
<1> QED BY <1>1, <1>2, Invariance, PTL DEF Spec

-----------------------------------------------------------------------------
(* What nothing looks after.  A throw or a crash ends a poll chain, and no   *)
(* sweep starts another: an order being fulfilled that no process works for  *)
(* and no queue has a job of stays as it is, unless SMSPool still delivers   *)
(* a verification's code or the customer asks for a rental's refund.         *)

Works(p, o) == pc[p] # "idle" /\ OrderOf(p) = o
Waits(o) == \E q \in Queues : \E j \in jobs[q] : j.order = o

\* Charged, not refunded, FULFILLING, and in nobody's hands.
Abandoned(o) ==
  /\ status[o] = "FULFILLING" /\ ledger[o] = {"charge"}
  /\ o \in Verifications => ~provider[o].delivered
  /\ ~Waits(o) /\ \A p \in Procs : ~Works(p, o)

\* What can still move such an order.
TakenUp(o) ==
  \/ o \in Verifications /\ Deliver(o)
  \/ \E h \in Handlers : AskRefund(h, o)

\* A step of p concerns p's own order.
Control(p) ==
  /\ \A q \in Procs : q # p => pc'[q] = pc[q] /\ ctx'[q] = ctx[q]
  /\ pc'[p] = "idle" \/ OrderOf(p)' = OrderOf(p)
OwnRows(p) ==
  \A o \in Orders \ {OrderOf(p)} :
    status'[o] = status[o] /\ ledger'[o] = ledger[o] /\ provider'[o] = provider[o]
OwnJobs(p) == \A q \in Queues : \A j \in jobs'[q] : j \in jobs[q] \/ j.order = OrderOf(p)
Confined(p) == Control(p) /\ OwnRows(p) /\ OwnJobs(p)

\* The ways a process moves.
LEMMA ControlMoves ==
  ASSUME ProcsTyped, NEW p \in Procs
  PROVE  /\ \A l : Goto(p, l) /\ UNCHANGED ctx => Control(p)
         /\ \A l, x : Carry(p, x, l) => Control(p)
         /\ \A l, x : Goto(p, l) /\ ctx' = [ctx EXCEPT ![p].known = x] => Control(p)
         /\ Finish(p) => Control(p)
         /\ F!Return(p) => Control(p)
         /\ Fail(p) => Control(p)
         /\ Unanswered(p) => Control(p)
<1> USE DEF Goto, F!Goto, OrderOf, F!OrderOf
<1>1. \A l : Goto(p, l) /\ UNCHANGED ctx => Control(p)
  BY DEF ProcsTyped, Control
<1>2. \A l, x : Carry(p, x, l) => Control(p)
  BY DEF ProcsTyped, CtxType, Control, Carry
<1>3. \A l, x : Goto(p, l) /\ ctx' = [ctx EXCEPT ![p].known = x] => Control(p)
  BY DEF ProcsTyped, CtxType, Control
<1>4. Finish(p) => Control(p)
  BY DEF ProcsTyped, Control, Finish, F!Finish
<1>5. F!Return(p) => Control(p)
  BY <1>1, <1>4 DEF F!Return, Finish
<1>6. Fail(p) => Control(p)
  BY <1>4 DEF Fail
<1>7. Unanswered(p) => Control(p)
  BY <1>2, <1>6 DEF Unanswered
<1> QED BY <1>1, <1>2, <1>3, <1>4, <1>5, <1>6, <1>7

\* The ways a process queues a job.
LEMMA JobsOwn ==
  ASSUME IInv, NEW p \in Procs, pc[p] # "idle"
  PROVE  /\ UNCHANGED jobs => OwnJobs(p)
         /\ \A n : F!AddPoll(OrderOf(p), n) => OwnJobs(p)
         /\ Fail(p) => OwnJobs(p)
         /\ Unanswered(p) => OwnJobs(p)
<1>1. UNCHANGED jobs => OwnJobs(p)
  BY DEF OwnJobs
<1>a. jobs \in [Queues -> SUBSET Job]
  BY DEF IInv, RowsTyped
<1>2. ASSUME NEW q, NEW j, j.order = OrderOf(p), jobs' = [jobs EXCEPT ![q] = @ \cup {j}]
      PROVE  OwnJobs(p)
  BY <1>a, <1>2 DEF OwnJobs
<1>3. ASSUME NEW n, F!AddPoll(OrderOf(p), n) PROVE OwnJobs(p)
  <2> DEFINE j == [order |-> OrderOf(p), tag |-> 0, n |-> n]
  <2>1. j.order = OrderOf(p)
    OBVIOUS
  <2>2. UNCHANGED jobs \/ jobs' = [jobs EXCEPT !["poll"] = @ \cup {j}]
    BY <1>3 DEF F!AddPoll
  <2> HIDE DEF j
  <2> QED BY <1>1, <1>2, <2>1, <2>2
<1>4. ASSUME Fail(p) PROVE OwnJobs(p)
  <2>1. CASE p = "fulfil" /\ jobs' = [jobs EXCEPT ![p] = @ \cup {[ctx[p].job EXCEPT !.n = @ + 1]}]
    <3>1. ctx[p].job \in Job /\ ctx[p].job.order = OrderOf(p)
      BY <2>1, ProcsDisjoint, Busy
    <3>2. [ctx[p].job EXCEPT !.n = @ + 1].order = OrderOf(p)
      BY <3>1 DEF Job
    <3> QED BY <1>2, <2>1, <3>2
  <2> QED BY <1>1, <1>4, <2>1 DEF Fail
<1>5. Unanswered(p) => OwnJobs(p)
  BY <1>1, <1>4 DEF Unanswered
<1> QED BY <1>1, <1>3, <1>4, <1>5

\* The steps every process may take.
LEMMA SharedConfined ==
  ASSUME IInv, NEW p \in Procs,
         Flag(p) \/ RefundAndFail(p) \/ CompleteOrder(p) \/ CodeRead(p) \/ CodeStore(p)
  PROVE  pc[p] # "idle" /\ Confined(p)
<1>a. RowsTyped /\ ProcsTyped
  BY DEF IInv
<1>1. pc[p] # "idle" /\ UNCHANGED <<jobs, provider>>
  BY DEF Flag, RefundAndFail, F!RefundRead, F!MarkFailed, F!CreditRefund, F!MarkRefunded, F!AnnounceFailed,
         F!serviceVars, CompleteOrder, CodeRead, CodeStore, rows, queueVars
<1>2. Control(p)
  <2>1. CASE Flag(p)
    BY <1>a, <2>1, ControlMoves DEF Flag
  <2>2. CASE RefundAndFail(p)
    BY <1>a, <2>2, ControlMoves
       DEF RefundAndFail, F!RefundRead, F!MarkFailed, F!CreditRefund, F!MarkRefunded, F!AnnounceFailed, Goto
  <2>3. CASE CompleteOrder(p)
    BY <1>a, <2>3, ControlMoves DEF CompleteOrder
  <2>4. CASE CodeRead(p)
    BY <1>a, <2>4, ControlMoves DEF CodeRead
  <2>5. CASE CodeStore(p)
    BY <1>a, <2>5, ControlMoves DEF CodeStore
  <2> QED BY <2>1, <2>2, <2>3, <2>4, <2>5
<1>3. OwnRows(p)
  <2>1. /\ UNCHANGED status \/ \E x : status' = [status EXCEPT ![OrderOf(p)] = x]
        /\ UNCHANGED ledger \/ \E x : ledger' = [ledger EXCEPT ![OrderOf(p)] = @ \cup {x}]
    BY DEF Flag, RefundAndFail, F!RefundRead, F!MarkFailed, F!CreditRefund, F!MarkRefunded, F!AnnounceFailed,
           F!serviceVars, CompleteOrder, CodeRead, CodeStore, rows, OrderOf
  <2> QED BY <1>a, <1>1, <2>1 DEF OwnRows, RowsTyped
<1> QED BY <1>1, <1>2, <1>3, JobsOwn DEF Confined

\* The fulfil worker's.
LEMMA FulfilConfined ==
  ASSUME IInv, FulfilWorker("fulfil")
  PROVE  pc["fulfil"] # "idle" /\ Confined("fulfil")
<1> DEFINE p == "fulfil"
<1>a. RowsTyped /\ ProcsTyped /\ p \in Procs
  BY ProcsDisjoint DEF IInv
<1>1. pc[p] # "idle" /\ UNCHANGED <<status, ledger>>
  BY DEF FulfilWorker, FulfilRead, Buy, StoreNumber, StoreRental, StoreExpiry, QueuePoll, rows
<1>2. Control(p)
  <2>1. CASE FulfilRead(p) \/ QueuePoll(p)
    BY <1>a, <2>1, ControlMoves DEF FulfilRead, QueuePoll
  <2>2. CASE Buy(p)
    BY <1>a, <2>2, ControlMoves DEF Buy, Refused, Lost
  <2>3. CASE StoreNumber(p) \/ StoreRental(p) \/ StoreExpiry(p)
    BY <1>a, <2>3, ControlMoves DEF StoreNumber, StoreRental, StoreExpiry
  <2> QED BY <2>1, <2>2, <2>3 DEF FulfilWorker
<1>3. \A o \in Orders \ {OrderOf(p)} : provider'[o] = provider[o]
  BY <1>a DEF FulfilWorker, FulfilRead, Buy, Refused, Lost, Sell, StoreNumber, StoreRental,
              StoreExpiry, Supplied, QueuePoll, rows, RowsTyped
<1>4. OwnJobs(p)
  BY <1>a, <1>1, JobsOwn DEF FulfilWorker, FulfilRead, Buy, Refused, Lost, StoreNumber, StoreRental,
              StoreExpiry, QueuePoll, queueVars
<1> QED BY <1>1, <1>2, <1>3, <1>4 DEF Confined, OwnRows

\* The poll worker's.
LEMMA PollConfined ==
  ASSUME IInv, PollWorker("poll")
  PROVE  pc["poll"] # "idle" /\ Confined("poll")
<1> DEFINE p == "poll"
<1>a. RowsTyped /\ ProcsTyped /\ p \in Procs
  BY ProcsDisjoint DEF IInv
<1>1. pc[p] # "idle" /\ UNCHANGED <<status, ledger>>
  BY DEF PollWorker, PollRead, QueryOneTime, CancelSms, QueryRental, ActivateRead, Activate,
         Decide, rows
<1>2. Control(p)
  <2>1. CASE PollRead(p) \/ CancelSms(p)
    BY <1>a, <2>1, ControlMoves DEF PollRead, CancelSms
  <2>2. CASE QueryOneTime(p) \/ Decide(p)
    BY <1>a, <2>2, ControlMoves DEF QueryOneTime, Decide, PollOn
  <2>3. CASE QueryRental(p)
    BY <1>a, <2>3, ControlMoves DEF QueryRental
  <2>4. CASE ActivateRead(p) \/ Activate(p)
    BY <1>a, <2>4, ControlMoves DEF ActivateRead, Activate
  <2> QED BY <2>1, <2>2, <2>3, <2>4 DEF PollWorker
<1>3. \A o \in Orders \ {OrderOf(p)} : provider'[o] = provider[o]
  BY <1>a DEF PollWorker, PollRead, QueryOneTime, CancelSms, QueryRental, ActivateRead, Activate,
              Decide, rows, RowsTyped
<1>4. OwnJobs(p)
  <2>1. UNCHANGED jobs \/ \E n : F!AddPoll(OrderOf(p), n)
    BY DEF PollWorker, PollRead, QueryOneTime, CancelSms, QueryRental, ActivateRead, Activate,
           Decide, PollOn, queueVars
  <2> QED BY <1>a, <1>1, <2>1, JobsOwn
<1> QED BY <1>1, <1>2, <1>3, <1>4 DEF Confined, OwnRows

\* The requests'.
LEMMA HandlerConfined ==
  ASSUME IInv, NEW h \in Handlers, Handler(h)
  PROVE  pc[h] # "idle" /\ Confined(h)
<1>a. RowsTyped /\ ProcsTyped /\ h \in Procs /\ jobs \in [Queues -> SUBSET Job]
  BY ProcsDisjoint DEF IInv, RowsTyped
<1>1. pc[h] # "idle"
  BY DEF Handler, CreateItem, Debit, MarkUnpaid, Start, Enqueue, HookMark, Reverse
<1>2. Control(h)
  <2>1. CASE CreateItem(h) \/ Debit(h) \/ Start(h)
    BY <1>a, <2>1, ControlMoves DEF CreateItem, Debit, Start
  <2>2. CASE MarkUnpaid(h) \/ Enqueue(h) \/ HookMark(h)
    BY <1>a, <2>2, ControlMoves DEF MarkUnpaid, Enqueue, HookMark
  <2>3. CASE Reverse(h)
    BY <1>a, <2>3, ControlMoves DEF Reverse
  <2> QED BY <2>1, <2>2, <2>3 DEF Handler
<1>3. OwnRows(h)
  BY <1>a DEF Handler, CreateItem, Debit, MarkUnpaid, Start, Enqueue, HookMark, Reverse, rows,
              RowsTyped, OwnRows
<1>4. OwnJobs(h)
  <2>1. CASE Enqueue(h)
    <3> DEFINE j == [order |-> OrderOf(h), tag |-> 0, n |-> 0]
    <3>1. j.order = OrderOf(h) /\ jobs' = [jobs EXCEPT !["fulfil"] = @ \cup {j}]
      BY <2>1 DEF Enqueue
    <3> HIDE DEF j
    <3> QED BY <1>a, <3>1 DEF OwnJobs
  <2>2. CASE ~Enqueue(h)
    BY <2>2 DEF Handler, CreateItem, Debit, MarkUnpaid, Start, HookMark, Reverse, queueVars, OwnJobs
  <2> QED BY <2>1, <2>2
<1> QED BY <1>1, <1>2, <1>3, <1>4 DEF Confined

\* So every step of a process, and every failure, concerns its own order.
LEMMA StepConfined ==
  ASSUME IInv, NEW p \in Procs, Step(p) \/ Throw(p)
  PROVE  pc[p] # "idle" /\ Confined(p)
<1>1. CASE Step(p)
  BY <1>1, SharedConfined, FulfilConfined, PollConfined, HandlerConfined DEF Step
<1>2. CASE Throw(p)
  <2>1. /\ pc[p] # "idle" /\ UNCHANGED rows /\ ProcsTyped
        /\ Unanswered(p) \/ Fail(p) \/ (Goto(p, "decide") /\ UNCHANGED <<ctx, jobs>>)
    BY <1>2 DEF Throw, IInv
  <2>2. Control(p) /\ OwnJobs(p)
    BY <2>1, ControlMoves, JobsOwn
  <2>3. OwnRows(p)
    BY <2>1 DEF OwnRows, rows
  <2> QED BY <2>1, <2>2, <2>3 DEF Confined
<1> QED BY <1>1, <1>2

\* No step of a process reaches an abandoned order: the process has another one.
LEMMA StepAbandons ==
  ASSUME IInv, NEW o \in Orders, Abandoned(o), NEW p \in Procs, Step(p) \/ Throw(p)
  PROVE  Abandoned(o)'
<1>1. Confined(p) /\ OrderOf(p) # o
  BY StepConfined DEF Abandoned, Works
<1>2. status'[o] = status[o] /\ ledger'[o] = ledger[o] /\ provider'[o] = provider[o]
  BY <1>1 DEF Confined, OwnRows
<1>3. ~Waits(o)'
  BY <1>1 DEF Confined, OwnJobs, Abandoned, Waits
<1>4. ASSUME NEW q \in Procs PROVE ~Works(q, o)'
  <2>1. CASE q = p
    BY <1>1, <2>1 DEF Confined, Control, Works
  <2>2. CASE q # p
    <3>1. pc'[q] = pc[q] /\ OrderOf(q)' = OrderOf(q)
      BY <1>1, <2>2 DEF Confined, Control, OrderOf, F!OrderOf
    <3> QED BY <3>1 DEF Works, Abandoned
  <2> QED BY <2>1, <2>2
<1> QED BY <1>2, <1>3, <1>4 DEF Abandoned

\* Nor does a call that starts: checkout creates orders, SMSPool's webhook wants
\* a code it has delivered.
LEMMA EntryAbandons ==
  ASSUME IInv, NEW o \in Orders, Abandoned(o), NEW h \in Handlers, NEW x \in Orders,
         Create(h, x) \/ HookBegin(h, x) \/ (AskRefund(h, x) /\ x # o)
  PROVE  Abandoned(o)'
<1>1. /\ ProcsTyped /\ RowsTyped /\ h \in Procs /\ UNCHANGED <<ledger, provider, jobs>>
  BY ProcsDisjoint DEF IInv, Create, HookBegin, AskRefund, rows, queueVars
<1>2. x # o /\ status'[o] = status[o]
  BY <1>1 DEF Create, HookBegin, AskRefund, Abandoned, rows, RowsTyped
<1>3. OrderOf(h)' = x /\ \A q \in Procs : q # h => pc'[q] = pc[q] /\ OrderOf(q)' = OrderOf(q)
  <2>1. \E l, c : /\ c.order = x /\ pc' = [pc EXCEPT ![h] = l]
                  /\ ctx' = [ctx EXCEPT ![h] = c]
    <3>1. /\ [F!NoCtx EXCEPT !.order = x].order = x
          /\ [F!NoCtx EXCEPT !.order = x, !.note = "sms"].order = x
      BY DEF F!NoCtx
    <3> QED BY <3>1 DEF Create, HookBegin, AskRefund, Begin
  <2> QED BY <1>1, <2>1 DEF ProcsTyped, OrderOf, F!OrderOf
<1>4. ~Waits(o)' /\ \A q \in Procs : ~Works(q, o)'
  BY <1>1, <1>2, <1>3 DEF Waits, Works, Abandoned
<1> QED BY <1>1, <1>2, <1>4 DEF Abandoned

\* Nor does a worker that takes a job, SMSPool's delivery for another order, or a
\* restart.
LEMMA WorldAbandons ==
  ASSUME IInv, NEW o \in Orders, Abandoned(o),
         \/ \E q \in Queues : \E j \in jobs[q] : Take(q, j)
         \/ \E x \in Orders : Deliver(x) /\ ~(x = o /\ o \in Verifications)
         \/ Crash \/ UNCHANGED vars
  PROVE  Abandoned(o)'
<1>a. ProcsTyped /\ RowsTyped /\ Queues \subseteq Procs
  BY ProcsDisjoint DEF IInv
<1>b. /\ \A q \in Queues : \A j \in jobs[q] : j.order # o
      /\ \A p \in Procs : ~Works(p, o)
  BY DEF Abandoned, Waits
<1>c. UNCHANGED <<status, ledger>>
  BY DEF Take, Deliver, Crash, vars, rows
<1>1. ASSUME NEW q \in Queues, NEW j \in jobs[q], Take(q, j) PROVE Abandoned(o)'
  <2>1. OrderOf(q)' = j.order /\ \A r \in Procs : r # q => pc'[r] = pc[r] /\ ctx'[r] = ctx[r]
    <3>1. [F!NoCtx EXCEPT !.order = j.order, !.job = j].order = j.order
      BY DEF F!NoCtx
    <3> QED BY <1>a, <1>1, <3>1 DEF Take, ProcsTyped, OrderOf, F!OrderOf
  <2>2. \A r \in Queues : jobs'[r] \subseteq jobs[r]
    BY <1>a, <1>1 DEF Take, RowsTyped
  <2>3. ~Waits(o)'
    BY <1>b, <2>2 DEF Waits
  <2>4. \A p \in Procs : ~Works(p, o)'
    BY <1>b, <2>1 DEF OrderOf, F!OrderOf, Works
  <2> QED BY <1>1, <1>c, <2>3, <2>4 DEF Take, rows, Abandoned
<1>2. ASSUME NEW x \in Orders, Deliver(x), ~(x = o /\ o \in Verifications) PROVE Abandoned(o)'
  <2>1. o \in Verifications => ~provider'[o].delivered
    BY <1>a, <1>2 DEF Deliver, RowsTyped, Abandoned
  <2>2. ~Waits(o)' /\ \A p \in Procs : ~Works(p, o)'
    BY <1>b, <1>2 DEF Deliver, queueVars, procVars, OrderOf, F!OrderOf, Works, Waits
  <2> QED BY <1>c, <2>1, <2>2 DEF Abandoned
<1>3. CASE Crash
  <2>1. \A q \in Queues : pc[q] # "idle" => ctx[q].job.order # o
    BY <1>a, <1>b, Busy DEF Works
  <2>2. \A q \in Queues : \A j \in jobs'[q] : j.order # o
    BY <1>b, <1>3, <2>1 DEF Crash
  <2>3. (\A p \in Procs : pc'[p] = "idle") /\ provider' = provider
    BY <1>3 DEF Crash, rows
  <2> QED BY <1>c, <2>2, <2>3 DEF Abandoned, Waits, Works
<1>4. CASE UNCHANGED vars
  BY <1>4 DEF vars, rows, queueVars, procVars, Abandoned, Waits, Works, OrderOf, F!OrderOf
<1> QED BY <1>1, <1>2, <1>3, <1>4

\* A poll that throws as it reads its order leaves it so, if it was the only one
\* at work on it.
LEMMA ThrowAbandons ==
  ASSUME IInv, NEW o \in Orders, o = OrderOf("poll"), pc["poll"] = "pollRead", Throw("poll"),
         status[o] = "FULFILLING", ledger[o] = {"charge"}, ~provider[o].delivered, ~Waits(o),
         \A p \in Procs : Works(p, o) => p = "poll"
  PROVE  Abandoned(o)'
<1>1. "poll" \in Procs /\ "poll" # "fulfil" /\ ProcsTyped /\ UNCHANGED rows
  BY ProcsDisjoint DEF IInv, Throw
<1>2. Finish("poll") /\ UNCHANGED jobs
  BY DEF Throw, Tried, Swallowed, Fail
<1>3. pc'["poll"] = "idle" /\ \A q \in Procs : q # "poll" => pc'[q] = pc[q] /\ ctx'[q] = ctx[q]
  BY <1>1, <1>2, FinishMoves DEF Moves
<1>4. ~Waits(o)' /\ \A q \in Procs : ~Works(q, o)'
  BY <1>2, <1>3 DEF Waits, Works, OrderOf, F!OrderOf
<1> QED BY <1>1, <1>4 DEF Abandoned, rows

\* An abandoned order stays charged and FULFILLING for ever, whatever the
\* workers, checkouts, failures and restarts do: only a code SMSPool still
\* delivers, or the customer who asks for a rental's refund, moves it.
THEOREM AbandonedForGood ==
  Spec => [][\A o \in Orders : Abandoned(o) /\ ~TakenUp(o) => Abandoned(o)']_vars
<1> DEFINE StaysAbandoned == \A o \in Orders : Abandoned(o) /\ ~TakenUp(o) => Abandoned(o)'
<1>1. IInv /\ [Next]_vars => StaysAbandoned
  <2> SUFFICES ASSUME IInv, [Next]_vars, NEW o \in Orders, Abandoned(o), ~TakenUp(o)
               PROVE  Abandoned(o)'
    OBVIOUS
  <2>1. ASSUME NEW p \in Procs, Step(p) \/ Throw(p) PROVE Abandoned(o)'
    BY <2>1, StepAbandons
  <2>2. ASSUME NEW h \in Handlers, NEW x \in Orders, Create(h, x) \/ HookBegin(h, x) \/ AskRefund(h, x)
        PROVE  Abandoned(o)'
    BY <2>2, EntryAbandons DEF TakenUp
  <2>3. CASE \/ \E q \in Queues : \E j \in jobs[q] : Take(q, j)
             \/ \E x \in Orders : Deliver(x)
             \/ Crash \/ UNCHANGED vars
    BY <2>3, WorldAbandons DEF TakenUp
  <2> QED BY <2>1, <2>2, <2>3 DEF Next
<1> QED BY <1>1, Invariance, PTL DEF Spec

-----------------------------------------------------------------------------
(* How often a number is bought.  An order's purchase is in one pair of hands *)
(* at a time: the checkout's, the queue's or the fulfil worker's.  Whoever    *)
(* has it may still buy; it comes back after a purchase only through a        *)
(* failure or a crash.                                                        *)

Checkout == {"issue", "debit", "start", "enqueue"}
Buying == {"fulfilRead", "buy"}
ChecksOut(h, o) == pc[h] \in Checkout /\ OrderOf(h) = o
Queued(o) == \E j \in jobs["fulfil"] : j.order = o
ToBuy(o) ==
  \/ \E h \in Handlers : ChecksOut(h, o)
  \/ Queued(o)
  \/ Works("fulfil", o) /\ pc["fulfil"] \in Buying

Bought(o) ==
  /\ provider[o].units <= 1 + throws + crashes
  /\ status[o] = "none" => provider[o].units = 0
  /\ \A g, h \in Handlers : ChecksOut(g, o) /\ ChecksOut(h, o) => g = h
  /\ \A j, k \in jobs["fulfil"] : j.order = o /\ k.order = o => j = k
  /\ (\E h \in Handlers : ChecksOut(h, o)) => ~Queued(o) /\ ~Works("fulfil", o)
  /\ Works("fulfil", o) => ~Queued(o)
  /\ ToBuy(o) => provider[o].units <= throws + crashes

LEMMA Counted ==
  ASSUME IInv
  PROVE  throws \in Nat /\ crashes \in Nat /\ \A o \in Orders : provider[o].units \in Nat
BY DEF IInv, RowsTyped, ProviderType

\* An order, once there, stays.
LEMMA StatusStays ==
  ASSUME IInv, Allowed, NEW o \in Orders, status'[o] = "none"
  PROVE  status[o] = "none"
<1>1. RowsTyped
  BY DEF IInv
<1>2. CASE UNCHANGED Lifecycle!lifecycleVars
  BY <1>2 DEF Lifecycle!lifecycleVars
<1>3. CASE Lifecycle!LifecycleNext
  <2>1. \/ UNCHANGED status
        \/ \E k \in Orders, x \in {"PAID", "FULFILLING", "FAILED", "COMPLETED", "REFUNDED"} :
             status' = [status EXCEPT ![k] = x]
    BY <1>3 DEF Lifecycle!LifecycleNext, Lifecycle!Place, Lifecycle!Post, Lifecycle!Supply,
                Lifecycle!Work, Lifecycle!Complete, Lifecycle!Close, Lifecycle!Regret, Lifecycle!Show
  <2> QED BY <1>1, <2>1 DEF RowsTyped
<1> QED BY <1>2, <1>3 DEF Allowed

\* An order nothing is bought for, and whose purchase nobody takes over.
LEMMA BoughtStays ==
  ASSUME IInv, IInv', Allowed, NEW o \in Orders, Bought(o),
         provider'[o].units = provider[o].units, throws' >= throws, crashes' >= crashes,
         \A h \in Handlers : ChecksOut(h, o)' => ChecksOut(h, o),
         \A j \in jobs'["fulfil"] : j.order = o => j \in jobs["fulfil"],
         Works("fulfil", o)' => Works("fulfil", o),
         Works("fulfil", o)' /\ pc'["fulfil"] \in Buying => pc["fulfil"] \in Buying
  PROVE  Bought(o)'
<1>1. /\ throws \in Nat /\ crashes \in Nat /\ provider[o].units \in Nat
      /\ throws' \in Nat /\ crashes' \in Nat
  BY Counted DEF IInv, RowsTyped
<1>2. Queued(o)' => Queued(o)
  BY DEF Queued
<1>3. ToBuy(o)' => ToBuy(o)
  BY <1>2 DEF ToBuy
<1>4. /\ provider'[o].units <= 1 + throws' + crashes'
      /\ ToBuy(o)' => provider'[o].units <= throws' + crashes'
  BY <1>1, <1>3 DEF Bought
<1>5. status'[o] = "none" => provider'[o].units = 0
  BY StatusStays DEF Bought
<1>6. /\ \A g, h \in Handlers : ChecksOut(g, o)' /\ ChecksOut(h, o)' => g = h
      /\ (\E h \in Handlers : ChecksOut(h, o)') => ~Queued(o)' /\ ~Works("fulfil", o)'
      /\ Works("fulfil", o)' => ~Queued(o)'
  <2>1. /\ \A g, h \in Handlers : ChecksOut(g, o) /\ ChecksOut(h, o) => g = h
        /\ (\E h \in Handlers : ChecksOut(h, o)) => ~Queued(o) /\ ~Works("fulfil", o)
        /\ Works("fulfil", o) => ~Queued(o)
    BY DEF Bought
  <2> QED BY <1>2, <2>1, Zenon
<1>7. \A j, k \in jobs'["fulfil"] : j.order = o /\ k.order = o => j = k
  BY Zenon DEF Bought
<1> QED BY <1>4, <1>5, <1>6, <1>7 DEF Bought

\* A step of p, for the orders that are not p's.
LEMMA OthersBought ==
  ASSUME IInv, IInv', Allowed, NEW p \in Procs, Control(p), NEW o \in Orders, Bought(o),
         provider'[o].units = provider[o].units, throws' >= throws, crashes' >= crashes,
         \A j \in jobs'["fulfil"] : j \in jobs["fulfil"] \/ j.order # o,
         pc'[p] # "idle" => OrderOf(p)' # o
  PROVE  Bought(o)'
<1>1. ASSUME NEW q \in Procs, q # p PROVE pc'[q] = pc[q] /\ OrderOf(q)' = OrderOf(q)
  BY <1>1 DEF Control, OrderOf, F!OrderOf
<1>2. \A h \in Handlers : ChecksOut(h, o)' => ChecksOut(h, o)
  BY <1>1, ProcsDisjoint DEF ChecksOut, Checkout
<1>3. /\ Works("fulfil", o)' => Works("fulfil", o)
      /\ Works("fulfil", o)' /\ pc'["fulfil"] \in Buying => pc["fulfil"] \in Buying
  BY <1>1, ProcsDisjoint DEF Works
<1> QED BY <1>2, <1>3, BoughtStays

\* A step of p that neither buys nor hands a purchase on.
Aside(p) ==
  /\ \A o \in Orders : provider'[o].units = provider[o].units
  /\ jobs'["fulfil"] = jobs["fulfil"]
  /\ pc'[p] \in Checkout => pc[p] \in Checkout
  /\ pc'[p] \in Buying => pc[p] \in Buying

LEMMA AsideKeeps ==
  ASSUME IInv, IInv', Allowed, NEW p \in Procs, pc[p] # "idle", Control(p), Aside(p),
         throws' >= throws, crashes' >= crashes, NEW o \in Orders, Bought(o)
  PROVE  Bought(o)'
<1>1. CASE o # OrderOf(p)
  <2>1. pc'[p] # "idle" => OrderOf(p)' # o
    BY <1>1 DEF Control
  <2> QED BY <2>1, OthersBought DEF Aside
<1>2. CASE o = OrderOf(p)
  <2>1. ASSUME NEW q \in Procs, q # p PROVE pc'[q] = pc[q] /\ OrderOf(q)' = OrderOf(q)
    BY <2>1 DEF Control, OrderOf, F!OrderOf
  <2>2. \A h \in Handlers : ChecksOut(h, o)' => ChecksOut(h, o)
    BY <1>2, <2>1, ProcsDisjoint DEF ChecksOut, Aside
  <2>3. /\ Works("fulfil", o)' => Works("fulfil", o)
        /\ Works("fulfil", o)' /\ pc'["fulfil"] \in Buying => pc["fulfil"] \in Buying
    BY <1>2, <2>1, ProcsDisjoint DEF Works, Aside
  <2> QED BY <2>2, <2>3, BoughtStays DEF Aside
<1> QED BY <1>1, <1>2

LEMMA StepAside ==
  ASSUME IInv, NEW p \in Procs, Step(p), pc[p] \notin {"buy", "enqueue"}
  PROVE  Aside(p) /\ UNCHANGED crashes /\ throws' >= throws
<1>a. RowsTyped /\ ProcsTyped /\ throws \in Nat
  BY DEF IInv, RowsTyped
<1>b. UNCHANGED crashes /\ throws' >= throws
  <2>1. UNCHANGED budgets \/ (UNCHANGED crashes /\ (UNCHANGED throws \/ throws' = throws + 1))
    BY DEF Step, Flag, RefundAndFail, CompleteOrder, CodeRead, CodeStore, FulfilWorker, FulfilRead,
           Buy, StoreNumber, StoreRental, StoreExpiry, QueuePoll, PollWorker, PollRead, QueryOneTime,
           CancelSms, QueryRental, ActivateRead, Activate, Decide, Handler, CreateItem, Debit, Fault,
           MarkUnpaid, Start, Enqueue, HookMark, Reverse
  <2> QED BY <1>a, <2>1 DEF budgets
<1>1. \A l : Goto(p, l) => pc'[p] = l
  BY <1>a DEF Goto, F!Goto, ProcsTyped
<1>2. \A l, x : Carry(p, x, l) => pc'[p] = l
  BY <1>1 DEF Carry
<1>3. Finish(p) => pc'[p] = "idle"
  BY <1>a DEF Finish, F!Finish, ProcsTyped
<1>4. F!Return(p) => pc'[p] \in {"idle", "hookMark"}
  BY <1>1, <1>3 DEF F!Return, Finish, Goto
<1>5. ASSUME NEW o, NEW n, F!AddPoll(o, n) PROVE jobs'["fulfil"] = jobs["fulfil"]
  <2>1. UNCHANGED jobs \/ \E j : jobs' = [jobs EXCEPT !["poll"] = @ \cup {j}]
    BY <1>5 DEF F!AddPoll
  <2>2. jobs \in [Queues -> SUBSET Job] /\ "fulfil" \in Queues /\ "fulfil" # "poll"
    BY <1>a, ProcsDisjoint DEF RowsTyped
  <2> QED BY <2>1, <2>2
<1>6. \A o \in Orders : /\ Supplied(o) => \A k \in Orders : provider'[k].units = provider[k].units
                        /\ provider' = [provider EXCEPT ![o].reversed = TRUE]
                             => \A k \in Orders : provider'[k].units = provider[k].units
  BY <1>a DEF Supplied, RowsTyped, ProviderType
<1>7. CASE Flag(p) \/ RefundAndFail(p) \/ CompleteOrder(p) \/ CodeRead(p) \/ CodeStore(p)
  <2>1. UNCHANGED <<jobs, provider>>
    BY <1>7 DEF Flag, RefundAndFail, F!RefundRead, F!MarkFailed, F!CreditRefund, F!MarkRefunded,
                F!AnnounceFailed, F!serviceVars, CompleteOrder, CodeRead, CodeStore, rows, queueVars
  <2>2. pc'[p] \notin Checkout \cup Buying
    BY <1>7, <1>1, <1>2, <1>3, <1>4
       DEF Flag, RefundAndFail, F!RefundRead, F!MarkFailed, F!CreditRefund, F!MarkRefunded,
           F!AnnounceFailed, CompleteOrder, CodeRead, CodeStore, Goto, Checkout, Buying
  <2> QED BY <2>1, <2>2, <1>b DEF Aside
<1>8. CASE p = "fulfil" /\ FulfilWorker(p)
  <2>1. CASE FulfilRead(p)
    BY <2>1, <1>1, <1>3, <1>b DEF FulfilRead, rows, queueVars, Aside, Checkout, Buying
  <2>2. CASE StoreNumber(p) \/ StoreRental(p) \/ StoreExpiry(p)
    <3>1. OrderOf(p) \in Orders /\ UNCHANGED jobs
      BY <2>2, Busy DEF StoreNumber, StoreRental, StoreExpiry, queueVars
    <3>2. \A k \in Orders : provider'[k].units = provider[k].units
      BY <2>2, <3>1, <1>6 DEF StoreNumber, StoreRental, StoreExpiry
    <3>3. pc'[p] \notin Checkout \cup Buying
      BY <2>2, <1>1 DEF StoreNumber, StoreRental, StoreExpiry, Checkout, Buying
    <3> QED BY <3>1, <3>2, <3>3, <1>b DEF Aside
  <2>3. CASE QueuePoll(p)
    BY <2>3, <1>3, <1>5, <1>b DEF QueuePoll, rows, Aside, Checkout, Buying
  <2> QED BY <1>8, <2>1, <2>2, <2>3 DEF FulfilWorker, Buy
<1>9. CASE p = "poll" /\ PollWorker(p)
  <2>1. pc'[p] \notin Checkout \cup Buying
    BY <1>9, <1>1, <1>2, <1>3
       DEF PollWorker, PollRead, QueryOneTime, CancelSms, QueryRental, ActivateRead, Activate,
           Decide, PollOn, Checkout, Buying
  <2>2. jobs'["fulfil"] = jobs["fulfil"]
    BY <1>9, <1>5
       DEF PollWorker, PollRead, QueryOneTime, CancelSms, QueryRental, ActivateRead, Activate,
           Decide, PollOn, queueVars
  <2>3. \A k \in Orders : provider'[k].units = provider[k].units
    <3>1. OrderOf(p) \in Orders
      BY <1>9, PollConfined, Busy
    <3> QED BY <1>9, <3>1, <1>6
            DEF PollWorker, PollRead, QueryOneTime, CancelSms, QueryRental, ActivateRead, Activate,
                Decide, rows
  <2> QED BY <2>1, <2>2, <2>3, <1>b DEF Aside
<1>10. CASE p \in Handlers /\ Handler(p)
  <2>1. pc'[p] \notin Buying /\ (pc'[p] \in Checkout => pc[p] \in Checkout)
    BY <1>10, <1>1, <1>2, <1>3
       DEF Handler, CreateItem, Debit, MarkUnpaid, Start, Enqueue, HookMark, Reverse, Checkout, Buying
  <2>2. UNCHANGED jobs
    BY <1>10 DEF Handler, CreateItem, Debit, MarkUnpaid, Start, Enqueue, HookMark, Reverse, queueVars
  <2>3. \A k \in Orders : provider'[k].units = provider[k].units
    <3>1. OrderOf(p) \in Orders
      BY <1>10, HandlerConfined, Busy
    <3> QED BY <1>10, <3>1, <1>6
            DEF Handler, CreateItem, Debit, MarkUnpaid, Start, Enqueue, HookMark, Reverse, rows
  <2> QED BY <2>1, <2>2, <2>3, <1>b DEF Aside
<1> QED BY <1>7, <1>8, <1>9, <1>10 DEF Step

\* The checkout hands the purchase to the queue.
LEMMA EnqueueBought ==
  ASSUME IInv, IInv', Allowed, NEW h \in Handlers, Enqueue(h), NEW o \in Orders, Bought(o)
  PROVE  Bought(o)'
<1> DEFINE j == [order |-> OrderOf(h), tag |-> 0, n |-> 0]
<1>1. /\ pc[h] = "enqueue" /\ Finish(h) /\ jobs' = [jobs EXCEPT !["fulfil"] = @ \cup {j}]
      /\ UNCHANGED <<rows, pollIds, budgets>>
  BY DEF Enqueue
<1>2. /\ h \in Procs /\ h # "fulfil" /\ ProcsTyped /\ jobs \in [Queues -> SUBSET Job] /\ "fulfil" \in Queues
  BY ProcsDisjoint DEF IInv, RowsTyped
<1>3. Control(h) /\ pc'[h] = "idle" /\ j.order = OrderOf(h)
  BY <1>1, <1>2, ControlMoves, FinishMoves
<1> HIDE DEF j
<1>4. /\ jobs'["fulfil"] = jobs["fulfil"] \cup {j} /\ UNCHANGED <<provider, status, throws, crashes>>
      /\ throws \in Nat /\ crashes \in Nat
  BY <1>1, <1>2, Counted DEF rows, budgets
<1>5. CASE o # OrderOf(h)
  BY <1>2, <1>3, <1>4, <1>5, OthersBought
<1>6. CASE o = OrderOf(h)
  <2>1. ChecksOut(h, o) /\ ~Queued(o) /\ ~Works("fulfil", o)
    BY <1>1, <1>6 DEF ChecksOut, Checkout, Bought
  <2>2. ASSUME NEW q \in Procs, q # h PROVE pc'[q] = pc[q] /\ OrderOf(q)' = OrderOf(q)
    BY <1>3, <2>2 DEF Control, OrderOf, F!OrderOf
  <2>3. ASSUME NEW g \in Handlers PROVE ~ChecksOut(g, o)'
    <3>1. CASE g = h
      BY <1>3, <3>1 DEF ChecksOut, Checkout
    <3>2. CASE g # h
      BY <2>1, <2>2, <3>2, ProcsDisjoint DEF ChecksOut, Bought
    <3> QED BY <3>1, <3>2
  <2>4. ~Works("fulfil", o)'
    BY <1>2, <2>1, <2>2, ProcsDisjoint DEF Works
  <2>5. \A k \in jobs'["fulfil"] : k.order = o => k = j
    BY <1>4, <2>1 DEF Queued
  <2>6. provider[o].units <= throws + crashes
    BY <2>1 DEF Bought, ToBuy
  <2> QED BY <1>4, <2>3, <2>4, <2>5, <2>6 DEF Bought
<1> QED BY <1>5, <1>6

\* A failed attempt is queued again: whatever it bought, the failure pays for the
\* next purchase.
LEMMA AgainBought ==
  ASSUME IInv, IInv', Allowed, pc["fulfil"] # "idle", Fail("fulfil"), throws' = throws + 1, UNCHANGED crashes,
         \A k \in Orders \ {OrderOf("fulfil")} : provider'[k].units = provider[k].units,
         provider'[OrderOf("fulfil")].units <= 1 + throws + crashes,
         NEW o \in Orders, Bought(o)
  PROVE  Bought(o)'
<1> DEFINE p == "fulfil"
           j == [ctx[p].job EXCEPT !.n = @ + 1]
<1>1. /\ p \in Procs /\ p \in Queues /\ ProcsTyped /\ jobs \in [Queues -> SUBSET Job]
      /\ throws \in Nat /\ crashes \in Nat
  BY ProcsDisjoint, Counted DEF IInv, RowsTyped
<1>2. ctx[p].job \in Job /\ ctx[p].job.order = OrderOf(p)
  BY <1>1, Busy
<1>3. j.order = OrderOf(p)
  BY <1>2 DEF Job
<1>4. /\ Control(p) /\ pc'[p] = "idle"
      /\ UNCHANGED jobs \/ jobs' = [jobs EXCEPT !["fulfil"] = @ \cup {j}]
  BY <1>1, ControlMoves, FinishMoves DEF Fail
<1> HIDE DEF j, p
<1>5. /\ jobs'["fulfil"] \subseteq jobs["fulfil"] \cup {j}
      /\ throws' >= throws /\ crashes' >= crashes
  BY <1>1, <1>4 DEF p
<1>6. CASE o # OrderOf(p)
  BY <1>1, <1>3, <1>4, <1>5, <1>6, OthersBought DEF p
<1>7. CASE o = OrderOf(p)
  <2>1. Works("fulfil", o) /\ ~Queued(o)
    BY <1>7 DEF Works, Bought, p
  <2>2. ASSUME NEW q \in Procs, q # p PROVE pc'[q] = pc[q] /\ OrderOf(q)' = OrderOf(q)
    BY <1>4, <2>2 DEF Control, OrderOf, F!OrderOf
  <2>3. ASSUME NEW g \in Handlers PROVE ~ChecksOut(g, o)'
    BY <2>1, <2>2, ProcsDisjoint DEF ChecksOut, Bought, p
  <2>4. ~Works("fulfil", o)'
    BY <1>4 DEF Works, p
  <2>5. \A k \in jobs'["fulfil"] : k.order = o => k = j
    BY <1>5, <2>1 DEF Queued
  <2>6. provider'[o].units <= throws' + crashes'
    BY <1>1, <1>7 DEF p
  <2>7. status'[o] # "none"
    BY <2>1, StatusStays, Busy, <1>1 DEF Works, p
  <2>8. provider'[o].units <= 1 + throws' + crashes'
    <3>1. provider'[o].units \in Nat /\ throws' \in Nat /\ crashes' \in Nat
      BY DEF IInv, RowsTyped, ProviderType
    <3> QED BY <2>6, <3>1
  <2> QED BY <2>3, <2>4, <2>5, <2>6, <2>7, <2>8 DEF Bought
<1> QED BY <1>6, <1>7

\* The purchase: sold and on its way to the row, refused, or lost.
LEMMA BuyBought ==
  ASSUME IInv, IInv', Allowed, Buy("fulfil"), NEW o \in Orders, Bought(o), Bought(OrderOf("fulfil"))
  PROVE  Bought(o)'
<1> DEFINE p == "fulfil"
           b == OrderOf(p)
<1>1. /\ p \in Procs /\ p \in Queues /\ RowsTyped /\ ProcsTyped /\ throws \in Nat /\ crashes \in Nat
      /\ pc[p] = "buy" /\ UNCHANGED crashes
  BY ProcsDisjoint, Counted DEF IInv, Buy
<1>2. b \in Orders /\ Works(p, b) /\ ToBuy(b) /\ status[b] # "none"
  BY <1>1, Busy DEF Works, ToBuy, Buying
<1>3. provider[b].units \in Nat /\ provider[b].units <= throws + crashes
  BY <1>2, Counted DEF Bought
<1>4. /\ \A k \in Orders \ {b} : provider'[k].units = provider[k].units
      /\ provider'[b].units <= 1 + throws + crashes
  <2>1. UNCHANGED provider \/ provider' = [provider EXCEPT ![b].units = @ + 1]
    BY DEF Buy, Refused, Lost, Sell
  <2>2. provider \in [Orders -> ProviderType]
    BY <1>1 DEF RowsTyped
  <2> QED BY <1>1, <1>2, <1>3, <2>1, <2>2 DEF ProviderType
<1>5. \/ Fail(p) /\ throws' = throws + 1
      \/ /\ UNCHANGED jobs /\ throws' \in {throws, throws + 1}
         /\ \E l \in {"flag", "store"} : (Goto(p, l) /\ UNCHANGED ctx) \/ \E x : Carry(p, x, l)
  BY DEF Buy, Refused, Lost, Unanswered, Fault
<1>6. CASE Fail(p) /\ throws' = throws + 1
  BY <1>1, <1>4, <1>6, AgainBought
<1>7. CASE /\ UNCHANGED jobs /\ throws' \in {throws, throws + 1}
           /\ \E l \in {"flag", "store"} : (Goto(p, l) /\ UNCHANGED ctx) \/ \E x : Carry(p, x, l)
  <2>1. Control(p) /\ pc'[p] \in {"flag", "store"} /\ throws' >= throws /\ crashes' >= crashes
    <3>1. Control(p)
      BY <1>1, <1>7, ControlMoves
    <3>2. pc'[p] \in {"flag", "store"}
      BY <1>1, <1>7 DEF Carry, Goto, F!Goto, ProcsTyped
    <3> QED BY <1>1, <1>7, <3>1, <3>2
  <2>2. CASE o # b
    <3>1. OrderOf(p)' # o
      BY <2>1, <2>2 DEF Control
    <3> QED BY <1>1, <1>4, <1>7, <2>1, <2>2, <3>1, OthersBought
  <2>3. CASE o = b
    <3>1. ASSUME NEW q \in Procs, q # p PROVE pc'[q] = pc[q] /\ OrderOf(q)' = OrderOf(q)
      BY <2>1, <3>1 DEF Control, OrderOf, F!OrderOf
    <3>2. ASSUME NEW g \in Handlers PROVE ~ChecksOut(g, o)'
      BY <1>2, <2>3, <3>1, ProcsDisjoint DEF ChecksOut, Bought
    <3>3. ~Queued(o)'
      BY <1>2, <1>7, <2>3 DEF Bought, Queued
    <3>4. ~ToBuy(o)'
      BY <2>1, <3>2, <3>3 DEF ToBuy, Buying
    <3>5. provider'[o].units <= 1 + throws' + crashes'
      <4>1. provider'[o].units \in Nat /\ throws' \in Nat /\ crashes' \in Nat
        BY DEF IInv, RowsTyped, ProviderType
      <4> QED BY <1>1, <1>4, <1>7, <2>3, <4>1
    <3>6. status'[o] # "none"
      BY <1>2, <2>3, StatusStays
    <3>7. \A j, k \in jobs'["fulfil"] : j.order = o /\ k.order = o => j = k
      BY <3>3 DEF Queued
    <3> QED BY <3>2, <3>3, <3>4, <3>5, <3>6, <3>7 DEF Bought
  <2> QED BY <2>2, <2>3
<1> QED BY <1>5, <1>6, <1>7

\* A failure or a restart anywhere.
LEMMA ThrowBought ==
  ASSUME IInv, IInv', Allowed, NEW p \in Procs, Throw(p), NEW o \in Orders, Bought(o),
         Bought(OrderOf(p))
  PROVE  Bought(o)'
<1>1. /\ pc[p] # "idle" /\ UNCHANGED <<rows, crashes>> /\ throws' = throws + 1 /\ Control(p)
      /\ ProcsTyped /\ throws \in Nat /\ crashes \in Nat /\ OrderOf(p) \in Orders
  BY StepConfined, Busy, Counted DEF Throw, Fault, Confined, IInv
<1>2. throws' >= throws /\ crashes' >= crashes /\ UNCHANGED provider
  BY <1>1 DEF rows
<1>3. \/ p = "fulfil" /\ Fail(p)
      \/ /\ UNCHANGED jobs
         /\ Finish(p) \/ Goto(p, "decide") \/ \E x : Carry(p, x, "flag")
  BY DEF Throw, Unanswered, Fail
<1>4. CASE p = "fulfil" /\ Fail(p)
  <2>1. provider'[OrderOf(p)].units <= 1 + throws + crashes
    BY <1>2 DEF Bought
  <2> QED BY <1>1, <1>2, <1>4, <2>1, AgainBought
<1>5. CASE /\ UNCHANGED jobs
           /\ Finish(p) \/ Goto(p, "decide") \/ \E x : Carry(p, x, "flag")
  <2>1. pc'[p] \in {"idle", "decide", "flag"}
    BY <1>1, <1>5 DEF Finish, F!Finish, Carry, Goto, F!Goto, ProcsTyped
  <2>2. Aside(p)
    BY <1>2, <1>5, <2>1 DEF Aside, Checkout, Buying
  <2> QED BY <1>1, <1>2, <2>2, AsideKeeps
<1> QED BY <1>3, <1>4, <1>5

LEMMA CrashBought ==
  ASSUME IInv, IInv', Allowed, Crash, NEW o \in Orders, Bought(o)
  PROVE  Bought(o)'
<1> DEFINE j == ctx["fulfil"].job
<1>1. /\ crashes = 0 /\ crashes' = 1 /\ UNCHANGED <<provider, throws>> /\ throws \in Nat
      /\ \A p \in Procs : pc'[p] = "idle"
      /\ jobs'["fulfil"] = jobs["fulfil"] \cup (IF pc["fulfil"] = "idle" THEN {} ELSE {j})
  BY Counted, ProcsDisjoint DEF Crash, rows
<1>2. pc["fulfil"] # "idle" => j.order = OrderOf("fulfil")
  BY ProcsDisjoint, Busy
<1> HIDE DEF j
<1>3. (\A g \in Handlers : ~ChecksOut(g, o)') /\ ~Works("fulfil", o)'
  BY <1>1, ProcsDisjoint DEF ChecksOut, Checkout, Works
<1>4. \A h, k \in jobs'["fulfil"] : h.order = o /\ k.order = o => h = k
  <2>1. CASE Works("fulfil", o)
    <3>1. ~Queued(o)
      BY <2>1 DEF Bought
    <3> QED BY <1>1, <3>1 DEF Queued
  <2>2. CASE ~Works("fulfil", o)
    BY <1>1, <1>2, <2>2 DEF Works, Bought
  <2> QED BY <2>1, <2>2
<1>5. provider'[o].units <= throws' + crashes' /\ provider'[o].units <= 1 + throws' + crashes'
  <2>1. provider[o].units \in Nat
    BY Counted
  <2> QED BY <1>1, <2>1 DEF Bought
<1>6. status'[o] = "none" => provider'[o].units = 0
  BY <1>1, StatusStays DEF Bought
<1> QED BY <1>3, <1>4, <1>5, <1>6 DEF Bought

\* A worker takes a job: the fulfil worker, with it the purchase.
LEMMA TakeBought ==
  ASSUME IInv, IInv', Allowed, NEW q \in Queues, NEW j \in jobs[q], Take(q, j), NEW o \in Orders, Bought(o)
  PROVE  Bought(o)'
<1>1. /\ q \in Procs /\ q \notin Handlers /\ ProcsTyped /\ jobs \in [Queues -> SUBSET Job]
      /\ throws \in Nat /\ crashes \in Nat /\ "fulfil" \in Queues
  BY ProcsDisjoint, Counted DEF IInv, RowsTyped
<1>2. /\ jobs' = [jobs EXCEPT ![q] = @ \ {j}] /\ UNCHANGED <<provider, throws, crashes>>
      /\ pc'[q] = IF q = "fulfil" THEN "fulfilRead" ELSE "pollRead"
      /\ pc[q] = "idle"
  BY <1>1 DEF Take, rows, budgets, ProcsTyped
<1>3. /\ \A p \in Procs : p # q => pc'[p] = pc[p] /\ OrderOf(p)' = OrderOf(p)
      /\ OrderOf(q)' = j.order
  <2>1. [F!NoCtx EXCEPT !.order = j.order, !.job = j].order = j.order
    BY DEF F!NoCtx
  <2> QED BY <1>1, <2>1 DEF Take, ProcsTyped, OrderOf, F!OrderOf
<1>4. \A h \in Handlers : ChecksOut(h, o)' = ChecksOut(h, o)
  BY <1>1, <1>3, ProcsDisjoint DEF ChecksOut
<1>5. throws' >= throws /\ crashes' >= crashes /\ \A k \in jobs'["fulfil"] : k \in jobs["fulfil"]
  BY <1>1, <1>2
<1>6. CASE q # "fulfil" \/ j.order # o
  <2>1. Works("fulfil", o)' => Works("fulfil", o) /\ pc'["fulfil"] = pc["fulfil"]
    BY <1>1, <1>3, <1>6, ProcsDisjoint DEF Works
  <2> QED BY <1>2, <1>4, <1>5, <2>1, BoughtStays
<1>7. CASE q = "fulfil" /\ j.order = o
  <2>1. /\ Queued(o) /\ \A k \in jobs["fulfil"] : k.order = o => k = j
        /\ \A h \in Handlers : ~ChecksOut(h, o)
    BY <1>7 DEF Queued, Bought
  <2>2. ~Queued(o)' /\ \A h, k \in jobs'["fulfil"] : h.order = o /\ k.order = o => h = k
    BY <1>1, <1>2, <1>7, <2>1 DEF Queued
  <2>3. provider'[o].units <= throws' + crashes' /\ provider'[o].units <= 1 + throws' + crashes'
    BY <1>2, <2>1 DEF Bought, ToBuy
  <2>4. status'[o] = "none" => provider'[o].units = 0
    BY <1>2, StatusStays DEF Bought
  <2> QED BY <1>4, <2>1, <2>2, <2>3, <2>4 DEF Bought
<1> QED BY <1>6, <1>7

\* The checkout starts: nobody can have had the purchase of an order not there yet.
LEMMA CreateBought ==
  ASSUME IInv, IInv', Allowed, NEW h \in Handlers, NEW x \in Orders, Create(h, x), NEW o \in Orders, Bought(o)
  PROVE  Bought(o)'
<1>1. /\ h \in Procs /\ h # "fulfil" /\ ProcsTyped /\ UNCHANGED <<provider, jobs, throws, crashes>>
      /\ throws \in Nat /\ crashes \in Nat /\ provider[o].units \in Nat /\ status[x] = "none"
  BY ProcsDisjoint, Counted DEF IInv, Create, queueVars, budgets
<1>2. /\ \A p \in Procs : p # h => pc'[p] = pc[p] /\ OrderOf(p)' = OrderOf(p)
      /\ OrderOf(h)' = x
  <2>1. [F!NoCtx EXCEPT !.order = x].order = x
    BY DEF F!NoCtx
  <2> QED BY <1>1, <2>1 DEF Create, Begin, ProcsTyped, OrderOf, F!OrderOf
<1>3. throws' >= throws /\ crashes' >= crashes
  BY <1>1
<1>4. Works("fulfil", o)' = Works("fulfil", o) /\ pc'["fulfil"] = pc["fulfil"] /\ Queued(o)' = Queued(o)
  BY <1>1, <1>2, ProcsDisjoint DEF Works, Queued
<1>5. CASE x # o
  <2>1. \A g \in Handlers : ChecksOut(g, o)' => ChecksOut(g, o)
    BY <1>2, <1>5, ProcsDisjoint DEF ChecksOut
  <2> QED BY <1>1, <1>3, <1>4, <2>1, BoughtStays
<1>6. CASE x = o
  <2>1. \A p \in Procs : ~Works(p, o)
    BY <1>1, <1>6, Busy DEF Works
  <2>2. ~Queued(o)
    BY <1>1, <1>6, ProcsDisjoint DEF Queued, IInv, JobsFine, JobFine
  <2>3. \A g \in Handlers : ChecksOut(g, o)' => g = h
    BY <1>2, <2>1, ProcsDisjoint DEF ChecksOut, Checkout, Works
  <2>4. provider'[o].units = 0 /\ provider'[o].units <= throws' + crashes'
        /\ provider'[o].units <= 1 + throws' + crashes'
    BY <1>1, <1>6 DEF Bought
  <2>5. \A k \in jobs'["fulfil"] : k.order # o
    BY <1>1, <2>2 DEF Queued
  <2>6. ~Works("fulfil", o)' /\ ~Queued(o)'
    BY <1>4, <2>1, <2>2, ProcsDisjoint
  <2>7. \A f, g \in Handlers : ChecksOut(f, o)' /\ ChecksOut(g, o)' => f = g
    BY <2>3
  <2> QED BY <2>4, <2>5, <2>6, <2>7 DEF Bought
<1> QED BY <1>5, <1>6

\* Webhooks, refund requests and SMSPool's deliveries have no part in it.
LEMMA EntryBought ==
  ASSUME IInv, IInv', Allowed, NEW o \in Orders, Bought(o),
         \/ \E h \in Handlers, x \in Orders : HookBegin(h, x) \/ AskRefund(h, x)
         \/ \E x \in Orders : Deliver(x)
         \/ UNCHANGED vars
  PROVE  Bought(o)'
<1>1. /\ UNCHANGED <<jobs, throws, crashes>> /\ throws \in Nat /\ crashes \in Nat
      /\ provider'[o].units = provider[o].units
  <2>1. provider \in [Orders -> ProviderType]
    BY DEF IInv, RowsTyped
  <2>2. \/ UNCHANGED provider
        \/ \E x \in Orders : provider' = [provider EXCEPT ![x].delivered = TRUE]
    BY DEF HookBegin, AskRefund, Deliver, vars, rows
  <2>3. provider'[o].units = provider[o].units
    BY <2>1, <2>2 DEF ProviderType
  <2> QED BY <2>3, Counted DEF HookBegin, AskRefund, Deliver, vars, rows, queueVars, budgets
<1>2. \/ UNCHANGED <<pc, ctx>>
      \/ \E h \in Handlers, l \in {"codeRead", "reverse"} :
           \E c : pc' = [pc EXCEPT ![h] = l] /\ ctx' = [ctx EXCEPT ![h] = c]
  BY DEF HookBegin, AskRefund, Begin, Deliver, vars, procVars
<1>3. \A p \in Procs : (pc'[p] = pc[p] /\ OrderOf(p)' = OrderOf(p))
                       \/ (p \in Handlers /\ pc'[p] \in {"codeRead", "reverse"})
  BY <1>2, ProcsDisjoint DEF IInv, ProcsTyped, OrderOf, F!OrderOf
<1>4. \A h \in Handlers : ChecksOut(h, o)' => ChecksOut(h, o)
  BY <1>3, ProcsDisjoint DEF ChecksOut, Checkout
<1>5. Works("fulfil", o)' => Works("fulfil", o) /\ pc'["fulfil"] = pc["fulfil"]
  BY <1>3, ProcsDisjoint DEF Works
<1>6. throws' >= throws /\ crashes' >= crashes
  BY <1>1
<1> QED BY <1>1, <1>4, <1>5, <1>6, BoughtStays

LEMMA BoughtHolds == Spec => [](IInv /\ \A o \in Orders : Bought(o))
<1> DEFINE AllBought == \A o \in Orders : Bought(o)
<1>1. Init => AllBought
  BY ProcsDisjoint DEF Init, Bought, ChecksOut, Checkout, Queued, Works, ToBuy
<1>2. IInv /\ AllBought /\ [Next]_vars => AllBought'
  <2> SUFFICES ASSUME IInv, AllBought, [Next]_vars, NEW o \in Orders PROVE Bought(o)'
    OBVIOUS
  <2>1. IInv' /\ Allowed /\ Bought(o)
    BY StepKeeps
  <2>2. ASSUME NEW p \in Procs, Step(p), pc[p] \notin {"buy", "enqueue"} PROVE Bought(o)'
    <3>1. crashes' >= crashes
      BY <2>2, StepAside, Counted
    <3> QED BY <2>1, <2>2, <3>1, StepAside, StepConfined, AsideKeeps DEF Confined
  <2>3. ASSUME NEW p \in Procs, Step(p), pc[p] = "buy" PROVE Bought(o)'
    <3>1. p = "fulfil" /\ Buy(p)
      BY <2>3 DEF Step, Flag, RefundAndFail, F!RefundRead, F!MarkFailed, F!CreditRefund, F!MarkRefunded,
                  F!AnnounceFailed, CompleteOrder, CodeRead, CodeStore, FulfilWorker, FulfilRead, StoreNumber,
                  StoreRental, StoreExpiry, QueuePoll, PollWorker, PollRead, QueryOneTime, CancelSms,
                  QueryRental, ActivateRead, Activate, Decide, Handler, CreateItem, Debit, MarkUnpaid,
                  Start, Enqueue, HookMark, Reverse
    <3>2. Bought(OrderOf(p))
      BY <2>3, Busy
    <3> QED BY <2>1, <3>1, <3>2, BuyBought
  <2>4. ASSUME NEW p \in Procs, Step(p), pc[p] = "enqueue" PROVE Bought(o)'
    <3>1. p \in Handlers /\ Enqueue(p)
      BY <2>4 DEF Step, Flag, RefundAndFail, F!RefundRead, F!MarkFailed, F!CreditRefund, F!MarkRefunded,
                  F!AnnounceFailed, CompleteOrder, CodeRead, CodeStore, FulfilWorker, FulfilRead, Buy, StoreNumber,
                  StoreRental, StoreExpiry, QueuePoll, PollWorker, PollRead, QueryOneTime, CancelSms,
                  QueryRental, ActivateRead, Activate, Decide, Handler, CreateItem, Debit, MarkUnpaid,
                  Start, HookMark, Reverse
    <3> QED BY <2>1, <3>1, EnqueueBought
  <2>5. ASSUME NEW p \in Procs, Throw(p) PROVE Bought(o)'
    <3>1. Bought(OrderOf(p))
      BY <2>5, Busy DEF Throw
    <3> QED BY <2>1, <2>5, <3>1, ThrowBought
  <2> QED BY <2>1, <2>2, <2>3, <2>4, <2>5, TakeBought, CreateBought, EntryBought, CrashBought DEF Next
<1>3. AllBought = \A o \in Orders : Bought(o)
  OBVIOUS
<1> QED BY <1>1, <1>2, Invariance, PTL DEF Spec

\* No retry, restart, second worker or extension makes SMSPool sell a number to an
\* order that has one on file; and where none is on file because storing the
\* purchase failed, each further one is preceded by a failure or crash of its own.
THEOREM NumberBoughtOnce == Spec => BoughtAgainOnlyAfterLoss
<1> DEFINE Paid == \A o \in Orders : Bought(o)
           Once == \A o \in Orders : provider'[o].units # provider[o].units =>
                     ~item[o].code /\ provider'[o].units <= 1 + throws' + crashes'
<1>1. IInv /\ Paid' /\ [Next]_vars => [Once]_vars
  BY StepKeeps DEF Allowed, OnceOnFile, Bought
<1> QED BY <1>1, BoughtHolds, PTL DEF Spec, BoughtAgainOnlyAfterLoss
=============================================================================
