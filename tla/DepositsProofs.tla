---------------------------- MODULE DepositsProofs ----------------------------
(***************************************************************************)
(* Proofs about Deposits, for every set of deposits and handlers and every  *)
(* bound: typing, and that the wallet, the intents and the notifications    *)
(* agree with what the customer has paid.                                   *)
(***************************************************************************)
EXTENDS Deposits, TLAPS

-----------------------------------------------------------------------------
(* Typing                                                                    *)

\* A process that only moves on stays well formed.
LEMMA GotoTyped ==
  ASSUME HandlersOK, NEW h \in Handlers, NEW l \in Labels, pc[h] # "idle", Goto(h, l)
  PROVE  HandlersOK'
BY DEF HandlersOK, Goto, DepositOf

\* So does one that ends its call.
LEMMA FinishTyped ==
  ASSUME HandlersOK, NEW h \in Handlers, Finish(h)
  PROVE  HandlersOK'
<1>1. NoCtx \in CtxType
  BY DEF NoCtx, CtxType
<1>2. /\ pc' \in [Handlers -> Labels] /\ ctx' \in [Handlers -> CtxType]
      /\ pc'[h] = "idle"
      /\ \A g \in Handlers : g # h => pc'[g] = pc[g] /\ ctx'[g] = ctx[g]
  BY <1>1 DEF HandlersOK, Finish, Labels
<1>3. QED
  BY <1>2 DEF HandlersOK, DepositOf

\* So does one that begins a call for a deposit.
LEMMA BeginTyped ==
  ASSUME HandlersOK, NEW h \in Handlers, NEW l \in Labels, NEW d \in Deposits,
         NEW n \in Notes \cup {"none"}, Begin(h, l, d, n)
  PROVE  HandlersOK'
<1>1. [deposit |-> d, note |-> n] \in CtxType
  BY DEF CtxType
<1>2. QED
  BY <1>1 DEF HandlersOK, Begin, DepositOf

\* So does a request whose provider call failed.
LEMMA InitializeFailsTyped ==
  ASSUME HandlersOK, NEW h \in Handlers, pc[h] # "idle", InitializeFails(h)
  PROVE  HandlersOK'
<1>1. "markFailed" \in Labels
  BY DEF Labels
<1>2. QED
  BY <1>1, GotoTyped, FinishTyped DEF InitializeFails

\* The rows, the notifications and the handlers stay well formed.
THEOREM TypeCorrect == Spec => []TypeOK
<1>1. Init => TypeOK
  BY DEF Init, TypeOK, RowsOK, HandlersOK, CtxType, Notes, Labels, NoCtx
<1>2. TypeOK /\ [Next]_vars => TypeOK'
  <2> SUFFICES ASSUME TypeOK, [Next]_vars PROVE TypeOK'
    OBVIOUS
  <2>a. RowsOK /\ HandlersOK
    BY DEF TypeOK
  <2>b. /\ "idle" \in Labels /\ "openPayment" \in Labels /\ "saveMetadata" \in Labels
        /\ "findIntent" \in Labels /\ "credit" \in Labels /\ "completeIntent" \in Labels
        /\ "markProcessed" \in Labels /\ "answer" \in Labels
    BY DEF Labels
  <2>1. ASSUME NEW h \in Handlers, NEW d \in Deposits, Initialize(h, d) PROVE TypeOK'
    <3>1. HandlersOK'
      BY <2>1, <2>a, <2>b, BeginTyped DEF Initialize
    <3>2. RowsOK'
      BY <2>1, <2>a DEF RowsOK, Initialize, noteVars, budgets
    <3>3. QED
      BY <3>1, <3>2 DEF TypeOK
  <2>2. ASSUME NEW h \in Handlers, NEW d \in Deposits, NEW n \in Notes, Deliver(h, d, n)
        PROVE  TypeOK'
    <3>1. HandlersOK'
      <4>1. CASE UNCHANGED <<pc, ctx>>
        BY <4>1, <2>a DEF HandlersOK, DepositOf
      <4>2. CASE Begin(h, IF n = "paid" THEN "findIntent" ELSE "markProcessed", d, n)
        BY <4>2, <2>a, <2>b, BeginTyped
      <4>3. QED
        BY <2>2, <4>1, <4>2 DEF Deliver
    <3>2. RowsOK'
      <4>1. EventId(d, n) \in EventIds
        BY DEF EventId, EventIds
      <4>2. event' \in [Deposits -> [EventIds -> {"none", "open", "processed"}]]
        <5>1. event' = event \/ event' = [event EXCEPT ![d][EventId(d, n)] = "open"]
          BY <2>2 DEF Deliver
        <5>2. QED
          BY SMTT(30), <2>a, <4>1, <5>1 DEF RowsOK
      <4>3. owed' = owed \/ owed' = [owed EXCEPT ![d] = @ \ {n}]
        BY <2>2 DEF Deliver
      <4>4. UNCHANGED <<paymentVars, sent, budgets>>
        BY <2>2 DEF Deliver
      <4>5. QED
        BY <2>a, <4>2, <4>3, <4>4 DEF RowsOK, paymentVars, budgets
    <3>3. QED
      BY <3>1, <3>2 DEF TypeOK
  <2>3. ASSUME NEW h \in Handlers, Step(h) PROVE TypeOK'
    <3>1. HandlersOK'
      BY <2>3, <2>a, <2>b, GotoTyped, FinishTyped, InitializeFailsTyped
         DEF Step, OpenPayment, SaveMetadata, MarkFailed, FindIntent, Credit, CompleteIntent,
             MarkProcessed, Answer
    <3>2. pc[h] # "idle" /\ DepositOf(h) \in Deposits
      BY <2>3, <2>a DEF HandlersOK, Step, OpenPayment, SaveMetadata, MarkFailed, FindIntent,
         Credit, CompleteIntent, MarkProcessed, Answer
    <3>3. RowsOK'
      <4>1. CASE OpenPayment(h) \/ SaveMetadata(h) \/ MarkFailed(h)
        BY <4>1, <2>a, <3>2 DEF RowsOK, OpenPayment, SaveMetadata, MarkFailed, noteVars, budgets
      <4>2. CASE FindIntent(h) \/ Credit(h) \/ CompleteIntent(h)
        BY <4>2, <2>a, <3>2
           DEF RowsOK, FindIntent, Credit, CompleteIntent, paymentVars, noteVars, budgets
      <4>3. CASE MarkProcessed(h)
        <5> DEFINE id == EventId(DepositOf(h), ctx[h].note)
        <5>1. event' = [event EXCEPT ![DepositOf(h)][id] = "processed"]
          BY <4>3 DEF MarkProcessed
        <5> HIDE DEF id
        <5>2. event' \in [Deposits -> [EventIds -> {"none", "open", "processed"}]]
          BY <5>1, <2>a, <3>2 DEF RowsOK
        <5>3. UNCHANGED <<paymentVars, sent, owed, budgets>>
          BY <4>3 DEF MarkProcessed
        <5>4. QED
          BY <5>2, <5>3, <2>a DEF RowsOK, paymentVars, budgets
      <4>4. CASE Answer(h)
        <5>1. owed' \in [Deposits -> SUBSET Notes]
          BY <4>4, <2>a, <3>2 DEF RowsOK, Answer
        <5>2. QED
          BY <4>4, <5>1, <2>a DEF RowsOK, Answer, paymentVars, budgets
      <4>5. QED
        BY <2>3, <4>1, <4>2, <4>3, <4>4 DEF Step
    <3>4. QED
      BY <3>1, <3>3 DEF TypeOK
  <2>4. ASSUME NEW h \in Handlers, Throw(h) PROVE TypeOK'
    <3>1. HandlersOK'
      BY <2>4, <2>a, FinishTyped DEF Throw
    <3>2. DepositOf(h) \in Deposits
      BY <2>4, <2>a DEF HandlersOK, Throw
    <3>3. RowsOK'
      BY <2>4, <2>a, <3>2 DEF RowsOK, Throw, noteVars
    <3>4. QED
      BY <3>1, <3>3 DEF TypeOK
  <2>5. ASSUME NEW d \in Deposits, Pay(d) \/ SayOther(d) PROVE TypeOK'
    <3>1. HandlersOK'
      BY <2>5, <2>a DEF HandlersOK, Pay, SayOther, DepositOf
    <3>2. RowsOK'
      <4>1. PICK n \in Notes : Notify(d, n)
        BY <2>5 DEF Pay, SayOther, Notes
      <4>2. sent' \in [Deposits -> SUBSET Notes] /\ owed' \in [Deposits -> SUBSET Notes]
        BY <2>a, <4>1 DEF RowsOK, Notify
      <4>3. payment' \in [Deposits -> {"none", "open", "paid"}]
        BY <2>5, <2>a DEF RowsOK, Pay, SayOther, paymentVars
      <4>4. UNCHANGED <<intent, linked, credited, event, budgets>>
        BY <2>5 DEF Pay, SayOther, paymentVars
      <4>5. QED
        BY <2>a, <4>2, <4>3, <4>4 DEF RowsOK, budgets
    <3>3. QED
      BY <3>1, <3>2 DEF TypeOK
  <2>6. CASE Crash
    BY <2>6, <2>a DEF TypeOK, RowsOK, HandlersOK, CtxType, Crash, NoCtx, Labels, paymentVars, noteVars
  <2>7. CASE UNCHANGED vars
    BY <2>7, <2>a DEF TypeOK, RowsOK, HandlersOK, vars, paymentVars, noteVars, budgets, DepositOf
  <2>8. QED
    BY <2>1, <2>2, <2>3, <2>4, <2>5, <2>6, <2>7 DEF Next
<1>3. QED
  BY <1>1, <1>2, PTL DEF Spec

-----------------------------------------------------------------------------
(* The inductive invariant                                                   *)

Inv == TypeOK /\ DepositsInv

\* Only handler h moves in a step.
OnlyMoves(h) == \A g \in Handlers : g # h => pc'[g] = pc[g] /\ ctx'[g] = ctx[g]

\* What the other handlers rely on: nothing sent or credited is taken back,
\* and the deposits they are opening are left alone.
Undisturbed(h) ==
  /\ OnlyMoves(h)
  /\ credited \subseteq credited'
  /\ \A d \in Deposits : sent[d] \subseteq sent'[d]
  /\ \A g \in Handlers : g # h /\ pc[g] \in Opening =>
       /\ DepositOf(g) \notin linked' /\ intent'[DepositOf(g)] = intent[DepositOf(g)]
       /\ pc'[h] \in Opening => ctx'[h].deposit # ctx[g].deposit

\* What one process does to its own locals leaves the others' as they were.
LEMMA OthersKeep ==
  ASSUME Inv, NEW h \in Handlers, Undisturbed(h), HandlerInv(h)'
  PROVE  \A g \in Handlers : HandlerInv(g)'
<1> SUFFICES ASSUME NEW g \in Handlers, g # h PROVE HandlerInv(g)'
  OBVIOUS
<1>1. pc'[g] = pc[g] /\ ctx'[g] = ctx[g] /\ HandlerInv(g)
  BY DEF Undisturbed, OnlyMoves, Inv, DepositsInv
<1>2. pc[g] # "idle" => DepositOf(g) \in Deposits
  BY DEF Inv, TypeOK, HandlersOK
<1>3. ASSUME pc[g] \in Opening
      PROVE  /\ DepositOf(g) \notin linked' /\ intent'[DepositOf(g)] = "PENDING"
             /\ \A k \in Handlers : pc'[k] \in Opening /\ ctx'[k].deposit = DepositOf(g) => k = g
  <2>1. DepositOf(g) \notin linked' /\ intent'[DepositOf(g)] = "PENDING"
    BY <1>1, <1>3 DEF Undisturbed, HandlerInv
  <2>2. ASSUME NEW k \in Handlers, pc'[k] \in Opening, ctx'[k].deposit = DepositOf(g), k # g
        PROVE  FALSE
    <3>1. CASE k = h
      BY <1>3, <2>2, <3>1 DEF Undisturbed, DepositOf
    <3>2. CASE k # h
      BY <1>1, <1>3, <2>2, <3>2 DEF Undisturbed, OnlyMoves, HandlerInv, DepositOf
    <3>3. QED
      BY <3>1, <3>2
  <2>3. QED
    BY <2>1, <2>2
<1>4. pc[g] \in Hooked => ctx[g].note \in sent'[DepositOf(g)]
  BY <1>1, <1>2 DEF HandlerInv, Undisturbed, Hooked
<1>5. /\ pc[g] \in {"findIntent", "credit", "completeIntent"} => ctx[g].note = "paid"
      /\ pc[g] = "completeIntent" => DepositOf(g) \in credited'
      /\ pc[g] \in {"markProcessed", "answer"} /\ ctx[g].note = "paid" => DepositOf(g) \in credited'
  BY <1>1 DEF HandlerInv, Undisturbed
<1>6. DepositOf(g)' = DepositOf(g)
  BY <1>1 DEF DepositOf
<1>7. QED
  BY <1>1, <1>3, <1>4, <1>5, <1>6 DEF HandlerInv, DepositOf

\* What a handler's control step does to its locals.
LEMMA Moves ==
  ASSUME TypeOK, NEW h \in Handlers
  PROVE  /\ \A l : Goto(h, l) => OnlyMoves(h) /\ pc'[h] = l /\ ctx'[h] = ctx[h]
         /\ Finish(h) => OnlyMoves(h) /\ pc'[h] = "idle"
         /\ \A l, d, n : Begin(h, l, d, n) =>
              OnlyMoves(h) /\ pc'[h] = l /\ ctx'[h].deposit = d /\ ctx'[h].note = n
BY DEF TypeOK, HandlersOK, Goto, Finish, Begin, OnlyMoves

\* A handler that is done, when its step disturbed nobody.
LEMMA IdleKeeps ==
  ASSUME Inv, NEW h \in Handlers, Undisturbed(h), pc'[h] = "idle"
  PROVE  \A g \in Handlers : HandlerInv(g)'
<1>1. HandlerInv(h)'
  BY DEF HandlerInv, Opening, Hooked
<1>2. QED
  BY <1>1, OthersKeep

\* A step that touches no deposit and no notification.
LEMMA DepositsKept ==
  ASSUME Inv, UNCHANGED <<paymentVars, noteVars>>
  PROVE  \A d \in Deposits : DepositInv(d)'
BY DEF Inv, DepositsInv, DepositInv, paymentVars, noteVars, Noticed

\* Opening a deposit.
LEMMA OpeningKeeps ==
  ASSUME Inv, NEW h \in Handlers,
         (\E d \in Deposits : Initialize(h, d)) \/ OpenPayment(h) \/ SaveMetadata(h) \/ MarkFailed(h)
  PROVE  DepositsInv'
<1>a. TypeOK /\ RowsOK /\ HandlerInv(h) /\ \A e \in Deposits : DepositInv(e)
  BY DEF Inv, DepositsInv, TypeOK
<1>1. ASSUME NEW d \in Deposits, Initialize(h, d) PROVE DepositsInv'
  <2>1. /\ intent[d] = "none" /\ intent' = [intent EXCEPT ![d] = "PENDING"]
        /\ UNCHANGED <<payment, linked, credited, event, sent, owed>>
    BY <1>1 DEF Initialize, noteVars
  <2>2. OnlyMoves(h) /\ pc'[h] = "openPayment" /\ ctx'[h].deposit = d
    BY <1>1, <1>a, Moves DEF Initialize
  <2>3. \A e \in Deposits : DepositInv(e)'
    BY <1>a, <2>1 DEF DepositInv, RowsOK, Noticed
  <2>4. \A g \in Handlers : pc[g] \in Opening => DepositOf(g) # d
    BY <2>1 DEF Inv, DepositsInv, HandlerInv
  <2>5. d \notin linked
    BY <1>a, <2>1 DEF DepositInv
  <2>6. Undisturbed(h)
    BY <1>a, <2>1, <2>2, <2>4 DEF Undisturbed, Inv, DepositsInv, HandlerInv, DepositOf, RowsOK
  <2>7. HandlerInv(h)'
    BY <1>a, <2>1, <2>2, <2>4, <2>5 DEF HandlerInv, Opening, Hooked, OnlyMoves, DepositOf, RowsOK
  <2>8. QED
    BY <2>3, <2>6, <2>7, OthersKeep DEF DepositsInv
<1> SUFFICES ASSUME OpenPayment(h) \/ SaveMetadata(h) \/ MarkFailed(h) PROVE DepositsInv'
  BY <1>1
<1> DEFINE d == DepositOf(h)
<1>2. /\ pc[h] \in Opening /\ d \in Deposits
      /\ d \notin linked /\ intent[d] = "PENDING" /\ payment[d] # "paid"
      /\ \A g \in Handlers : pc[g] \in Opening /\ DepositOf(g) = d => g = h
  BY <1>a DEF TypeOK, HandlersOK, HandlerInv, DepositInv, Opening, OpenPayment, SaveMetadata, MarkFailed
<1>3. ASSUME InitializeFails(h)
      PROVE  OnlyMoves(h) /\ (pc'[h] = "idle" \/ (pc'[h] = "markFailed" /\ ctx'[h] = ctx[h]))
  BY <1>a, <1>3, Moves DEF InitializeFails
<1>4. CASE OpenPayment(h)
  <2>1. /\ payment' = payment \/ payment' = [payment EXCEPT ![d] = "open"]
        /\ UNCHANGED <<intent, linked, credited, event, sent, owed>>
    BY <1>4 DEF OpenPayment, noteVars
  <2>2. /\ OnlyMoves(h)
        /\ pc'[h] = "idle" \/ (pc'[h] \in {"saveMetadata", "markFailed"} /\ ctx'[h] = ctx[h])
    BY <1>a, <1>3, <1>4, Moves DEF OpenPayment
  <2>3. \A e \in Deposits : DepositInv(e)'
    BY <1>a, <1>2, <2>1 DEF DepositInv, RowsOK, Noticed
  <2>4. Undisturbed(h)
    BY <1>2, <2>1, <2>2 DEF Undisturbed, Inv, DepositsInv, HandlerInv, DepositOf, Opening
  <2>5. HandlerInv(h)'
    BY <1>2, <2>1, <2>2 DEF HandlerInv, Opening, Hooked, OnlyMoves, DepositOf
  <2>6. QED
    BY <2>3, <2>4, <2>5, OthersKeep DEF DepositsInv
<1>5. CASE SaveMetadata(h)
  <2>1. UNCHANGED <<intent, payment, credited, event, sent, owed>>
    BY <1>5 DEF SaveMetadata, noteVars
  <2>2. /\ OnlyMoves(h)
        /\ \/ linked' = linked \cup {d} /\ pc'[h] = "idle"
           \/ linked' = linked /\ (pc'[h] = "idle" \/ (pc'[h] = "markFailed" /\ ctx'[h] = ctx[h]))
    BY <1>a, <1>3, <1>5, Moves DEF SaveMetadata
  <2>3. \A e \in Deposits : DepositInv(e)'
    BY <1>a, <1>2, <2>1, <2>2 DEF DepositInv, Noticed
  <2>4. Undisturbed(h)
    BY <1>2, <2>1, <2>2 DEF Undisturbed, Inv, DepositsInv, HandlerInv, DepositOf, Opening
  <2>5. HandlerInv(h)'
    BY <1>2, <2>1, <2>2 DEF HandlerInv, Opening, Hooked, OnlyMoves, DepositOf
  <2>6. QED
    BY <2>3, <2>4, <2>5, OthersKeep DEF DepositsInv
<1>6. CASE MarkFailed(h)
  <2>1. /\ intent' = [intent EXCEPT ![d] = "FAILED"]
        /\ UNCHANGED <<payment, linked, credited, event, sent, owed>>
    BY <1>6 DEF MarkFailed, noteVars
  <2>2. OnlyMoves(h) /\ pc'[h] = "idle"
    BY <1>a, <1>6, Moves DEF MarkFailed
  <2>3. \A e \in Deposits : DepositInv(e)'
    BY <1>a, <1>2, <2>1 DEF DepositInv, RowsOK, Noticed
  <2>4. Undisturbed(h)
    BY <1>a, <1>2, <2>1, <2>2
       DEF Undisturbed, Inv, DepositsInv, HandlerInv, DepositOf, Opening, RowsOK
  <2>5. QED
    BY <2>2, <2>3, <2>4, IdleKeeps DEF DepositsInv
<1>7. QED
  BY <1>4, <1>5, <1>6

\* Handling a notification.
LEMMA HookKeeps ==
  ASSUME Inv, NEW h \in Handlers,
         \/ \E d \in Deposits, n \in Notes : Deliver(h, d, n)
         \/ FindIntent(h) \/ Credit(h) \/ CompleteIntent(h) \/ MarkProcessed(h) \/ Answer(h)
  PROVE  DepositsInv'
<1>a. TypeOK /\ RowsOK /\ HandlerInv(h) /\ \A e \in Deposits : DepositInv(e)
  BY DEF Inv, DepositsInv, TypeOK
\* A delivery never opens a deposit, so it disturbs nobody who does.
<1>b. ASSUME UNCHANGED <<linked, sent>>, OnlyMoves(h), pc'[h] \notin Opening,
             credited \subseteq credited',
             \A g \in Handlers : pc[g] \in Opening => intent'[DepositOf(g)] = intent[DepositOf(g)]
      PROVE  Undisturbed(h)
  BY <1>b DEF Undisturbed, Inv, DepositsInv, HandlerInv
<1>1. ASSUME NEW d \in Deposits, NEW n \in Notes, Deliver(h, d, n) PROVE DepositsInv'
  <2>1. n \in sent[d] /\ UNCHANGED <<intent, payment, linked, credited, sent>>
    BY <1>1 DEF Deliver, paymentVars
  <2>2. CASE event[d][EventId(d, n)] = "processed"
    <3>1. UNCHANGED <<event, pc, ctx>> /\ owed' = [owed EXCEPT ![d] = @ \ {n}]
      BY <1>1, <2>2 DEF Deliver
    <3>2. n = "paid" /\ Noticed(d) => d \in credited
      BY <1>a, <2>2 DEF DepositInv
    <3>3. \A e \in Deposits : DepositInv(e)'
      BY <1>a, <2>1, <3>1, <3>2 DEF DepositInv, RowsOK, Noticed
    <3>4. \A g \in Handlers : HandlerInv(g)'
      BY <2>1, <3>1 DEF Inv, DepositsInv, HandlerInv, DepositOf
    <3>5. QED
      BY <3>3, <3>4 DEF DepositsInv
  <2>3. CASE event[d][EventId(d, n)] # "processed"
    <3>1. /\ event' = [event EXCEPT ![d][EventId(d, n)] = "open"] /\ UNCHANGED owed
          /\ Begin(h, IF n = "paid" THEN "findIntent" ELSE "markProcessed", d, n)
      BY <1>1, <2>3 DEF Deliver
    <3>2. /\ OnlyMoves(h) /\ ctx'[h].deposit = d /\ ctx'[h].note = n
          /\ pc'[h] = IF n = "paid" THEN "findIntent" ELSE "markProcessed"
      BY <1>a, <3>1, Moves
    <3>3. \A e \in Deposits : event'[e][EventId(e, "paid")] = "processed"
                             => event[e][EventId(e, "paid")] = "processed"
      BY <1>a, <3>1 DEF RowsOK, EventId, EventIds, Notes
    <3>4. \A e \in Deposits : DepositInv(e)'
      BY <1>a, <2>1, <3>1, <3>3 DEF DepositInv, Noticed
    <3>5. Undisturbed(h)
      BY <1>b, <2>1, <3>2 DEF Opening
    <3>6. HandlerInv(h)'
      BY <2>1, <3>2 DEF HandlerInv, Opening, Hooked, DepositOf
    <3>7. QED
      BY <3>4, <3>5, <3>6, OthersKeep DEF DepositsInv
  <2>4. QED
    BY <2>2, <2>3
<1> DEFINE d == DepositOf(h)
<1> DEFINE n == ctx[h].note
<1> SUFFICES ASSUME FindIntent(h) \/ Credit(h) \/ CompleteIntent(h) \/ MarkProcessed(h) \/ Answer(h)
             PROVE  DepositsInv'
  BY <1>1
<1>2. pc[h] \in Hooked /\ d \in Deposits /\ n \in sent[d] /\ n \in Notes
  BY <1>a DEF TypeOK, HandlersOK, HandlerInv, RowsOK, Hooked, FindIntent, Credit, CompleteIntent,
     MarkProcessed, Answer
<1>3. ASSUME n = "paid"
      PROVE  payment[d] = "paid" /\ d \in linked
  BY <1>a, <1>2, <1>3 DEF DepositInv
<1>4. CASE FindIntent(h)
  <2>1. OnlyMoves(h) /\ ctx'[h] = ctx[h]
        /\ pc'[h] = IF intent[d] = "COMPLETED" THEN "markProcessed" ELSE "credit"
    BY <1>a, <1>4, Moves DEF FindIntent
  <2>2. UNCHANGED <<paymentVars, noteVars>>
    BY <1>4 DEF FindIntent
  <2>3. Undisturbed(h)
    BY <1>b, <2>1, <2>2 DEF Opening, paymentVars, noteVars
  <2>4. n = "paid" /\ (intent[d] = "COMPLETED" => d \in credited)
    BY <1>a, <1>2, <1>4 DEF HandlerInv, DepositInv, FindIntent
  <2>5. HandlerInv(h)'
    BY <1>2, <2>1, <2>2, <2>4 DEF HandlerInv, Opening, Hooked, DepositOf, paymentVars, noteVars
  <2>6. QED
    BY <2>2, <2>3, <2>5, DepositsKept, OthersKeep DEF DepositsInv
<1>5. CASE Credit(h)
  <2>1. OnlyMoves(h) /\ ctx'[h] = ctx[h] /\ pc'[h] = "completeIntent"
    BY <1>a, <1>5, Moves DEF Credit
  <2>2. credited' = credited \cup {d} /\ UNCHANGED <<intent, payment, linked, event, sent, owed>>
    BY <1>5 DEF Credit, noteVars
  <2>3. n = "paid"
    BY <1>a, <1>5 DEF HandlerInv, Credit
  <2>4. \A e \in Deposits : DepositInv(e)'
    BY <1>a, <1>3, <2>2, <2>3 DEF DepositInv, Noticed
  <2>5. Undisturbed(h)
    BY <1>b, <2>1, <2>2 DEF Opening
  <2>6. HandlerInv(h)'
    BY <1>2, <2>1, <2>2, <2>3 DEF HandlerInv, Opening, Hooked, DepositOf
  <2>7. QED
    BY <2>4, <2>5, <2>6, OthersKeep DEF DepositsInv
<1>6. CASE CompleteIntent(h)
  <2>1. OnlyMoves(h) /\ ctx'[h] = ctx[h] /\ pc'[h] = "markProcessed"
    BY <1>a, <1>6, Moves DEF CompleteIntent
  <2>2. /\ intent' = [intent EXCEPT ![d] = "COMPLETED"]
        /\ UNCHANGED <<payment, linked, credited, event, sent, owed>>
    BY <1>6 DEF CompleteIntent, noteVars
  <2>3. n = "paid" /\ d \in credited /\ d \in linked
    BY <1>a, <1>3, <1>6 DEF HandlerInv, CompleteIntent
  <2>4. \A e \in Deposits : DepositInv(e)'
    BY <1>a, <2>2, <2>3 DEF DepositInv, RowsOK, Noticed
  <2>5. \A g \in Handlers : pc[g] \in Opening => DepositOf(g) # d
    BY <2>3 DEF Inv, DepositsInv, HandlerInv
  <2>6. Undisturbed(h)
    BY <1>a, <1>b, <2>1, <2>2, <2>5 DEF Opening, RowsOK
  <2>7. HandlerInv(h)'
    BY <1>2, <2>1, <2>2, <2>3 DEF HandlerInv, Opening, Hooked, DepositOf
  <2>8. QED
    BY <2>4, <2>6, <2>7, OthersKeep DEF DepositsInv
<1>7. CASE MarkProcessed(h)
  <2>1. OnlyMoves(h) /\ ctx'[h] = ctx[h] /\ pc'[h] = "answer"
    BY <1>a, <1>7, Moves DEF MarkProcessed
  <2>2. /\ event' = [event EXCEPT ![d][EventId(d, n)] = "processed"]
        /\ UNCHANGED <<intent, payment, linked, credited, sent, owed>>
    BY <1>7 DEF MarkProcessed, paymentVars
  <2>3. n = "paid" => d \in credited
    BY <1>a, <1>7 DEF HandlerInv, MarkProcessed
  <2>4. EventId(d, n) = EventId(d, "paid") /\ Noticed(d) => d \in credited
    BY <1>2, <2>3 DEF EventId, Noticed, Notes
  <2>5. \A e \in Deposits : event'[e][EventId(e, "paid")] = "processed" =>
          event[e][EventId(e, "paid")] = "processed" \/ (e = d /\ EventId(d, n) = EventId(d, "paid"))
    BY <1>a, <1>2, <2>2 DEF RowsOK
  <2>6. \A e \in Deposits : DepositInv(e)'
    BY <1>a, <2>2, <2>4, <2>5 DEF DepositInv, Noticed
  <2>7. Undisturbed(h)
    BY <1>b, <2>1, <2>2 DEF Opening
  <2>8. HandlerInv(h)'
    BY <1>2, <2>1, <2>2, <2>3 DEF HandlerInv, Opening, Hooked, DepositOf
  <2>9. QED
    BY <2>6, <2>7, <2>8, OthersKeep DEF DepositsInv
<1>8. CASE Answer(h)
  <2>1. OnlyMoves(h) /\ pc'[h] = "idle"
    BY <1>a, <1>8, Moves DEF Answer
  <2>2. owed' = [owed EXCEPT ![d] = @ \ {n}] /\ UNCHANGED <<intent, payment, linked, credited, event, sent>>
    BY <1>8 DEF Answer, paymentVars
  <2>3. n = "paid" => d \in credited
    BY <1>a, <1>8 DEF HandlerInv, Answer
  <2>4. \A e \in Deposits : DepositInv(e)'
    BY <1>a, <2>2, <2>3 DEF DepositInv, RowsOK, Noticed
  <2>5. Undisturbed(h)
    BY <1>b, <2>1, <2>2 DEF Opening
  <2>6. QED
    BY <2>1, <2>4, <2>5, IdleKeeps DEF DepositsInv
<1>9. QED
  BY <1>4, <1>5, <1>6, <1>7, <1>8

\* Customers, providers, failures and restarts.
LEMMA OtherKeeps ==
  ASSUME Inv,
         \/ \E h \in Handlers : Throw(h)
         \/ \E d \in Deposits : Pay(d) \/ SayOther(d)
         \/ Crash \/ UNCHANGED vars
  PROVE  DepositsInv'
<1>a. TypeOK /\ RowsOK /\ (\A e \in Deposits : DepositInv(e)) /\ \A h \in Handlers : HandlerInv(h)
  BY DEF Inv, DepositsInv, TypeOK
<1>1. ASSUME NEW h \in Handlers, Throw(h) PROVE DepositsInv'
  <2>1. OnlyMoves(h) /\ pc'[h] = "idle" /\ UNCHANGED <<intent, payment, linked, event, sent, owed>>
    BY <1>1, <1>a, Moves DEF Throw, noteVars
  <2>2. \/ credited' = credited
        \/ pc[h] = "credit" /\ credited' = credited \cup {DepositOf(h)}
    BY <1>1 DEF Throw
  <2>3. ASSUME pc[h] = "credit" PROVE payment[DepositOf(h)] = "paid"
    BY <1>a, <2>3 DEF TypeOK, HandlersOK, HandlerInv, DepositInv, Hooked
  <2>4. \A e \in Deposits : DepositInv(e)'
    BY <1>a, <2>1, <2>2, <2>3 DEF DepositInv, Noticed
  <2>5. Undisturbed(h)
    BY <1>a, <2>1, <2>2 DEF Undisturbed, HandlerInv, Opening
  <2>6. QED
    BY <2>1, <2>4, <2>5, IdleKeeps DEF DepositsInv
<1>2. ASSUME NEW d \in Deposits, Pay(d) \/ SayOther(d) PROVE DepositsInv'
  <2>1. PICK n \in Notes : Notify(d, n) /\ (n = "paid" <=> Pay(d))
    BY <1>2 DEF Pay, SayOther, Notify, Notes
  <2>2. /\ n = "paid" => d \in linked
        /\ UNCHANGED <<intent, linked, credited, event, pc, ctx>>
        /\ payment' = IF n = "paid" THEN [payment EXCEPT ![d] = "paid"] ELSE payment
    BY <1>2, <2>1 DEF Pay, SayOther, paymentVars
  <2>3. \A e \in Deposits : sent'[e] = IF e = d THEN sent[e] \cup {n} ELSE sent[e]
    BY <1>a, <2>1 DEF Notify, RowsOK
  <2>4. \A e \in Deposits : owed'[e] = IF e = d THEN owed[e] \cup {n} ELSE owed[e]
    BY <1>a, <2>1 DEF Notify, RowsOK
  <2>5. \A e \in Deposits : Noticed(e)' => Noticed(e)
    BY <2>3 DEF Noticed
  <2>6. \A e \in Deposits : DepositInv(e)'
    <3>1. \A e \in Deposits : e # d => sent'[e] = sent[e] /\ owed'[e] = owed[e]
                                    /\ payment'[e] = payment[e]
      BY <1>a, <2>2, <2>3, <2>4 DEF RowsOK
    <3>2. ASSUME NEW e \in Deposits, e # d PROVE DepositInv(e)'
      BY <1>a, <2>2, <2>5, <3>1, <3>2 DEF DepositInv
    <3>3. payment'[d] = "paid" <=> payment[d] = "paid" \/ n = "paid"
      BY <1>a, <2>2 DEF RowsOK
    <3>4. DepositInv(d)'
      BY <1>a, <2>2, <2>3, <2>4, <2>5, <3>3 DEF DepositInv
    <3>5. QED
      BY <3>2, <3>4
  <2>7. \A h \in Handlers : HandlerInv(h)'
    BY <1>a, <2>2, <2>3 DEF HandlerInv, DepositOf, TypeOK, HandlersOK, Hooked
  <2>8. QED
    BY <2>6, <2>7 DEF DepositsInv
<1>3. CASE Crash
  <2>1. \A h \in Handlers : HandlerInv(h)'
    BY <1>3 DEF Crash, HandlerInv, Opening, Hooked
  <2>2. QED
    BY <1>3, <2>1, DepositsKept DEF Crash, DepositsInv
<1>4. CASE UNCHANGED vars
  <2>1. \A h \in Handlers : HandlerInv(h)'
    BY <1>4, <1>a DEF vars, paymentVars, noteVars, HandlerInv, DepositOf
  <2>2. QED
    BY <1>4, <2>1, DepositsKept DEF vars, DepositsInv
<1>5. QED
  BY <1>1, <1>2, <1>3, <1>4

\* Every step keeps the invariant, so it holds throughout.
LEMMA DepositsInvHolds == Spec => []DepositsInv
<1>1. Init => DepositsInv
  BY DEF Init, DepositsInv, DepositInv, HandlerInv, Opening, Hooked, EventIds, EventId, Notes
<1>2. TypeOK /\ DepositsInv /\ [Next]_vars => DepositsInv'
  <2> SUFFICES ASSUME Inv, [Next]_vars PROVE DepositsInv'
    BY DEF Inv
  <2>1. ASSUME NEW h \in Handlers, Step(h) PROVE DepositsInv'
    BY <2>1, OpeningKeeps, HookKeeps DEF Step
  <2>2. ASSUME NEW h \in Handlers, NEW d \in Deposits, Initialize(h, d) PROVE DepositsInv'
    BY <2>2, OpeningKeeps
  <2>3. ASSUME NEW h \in Handlers, NEW d \in Deposits, NEW n \in Notes, Deliver(h, d, n)
        PROVE  DepositsInv'
    BY <2>3, HookKeeps
  <2>4. QED
    BY <2>1, <2>2, <2>3, OtherKeeps DEF Next
<1>3. QED
  BY <1>1, <1>2, TypeCorrect, PTL DEF Spec

-----------------------------------------------------------------------------
(* The theorems                                                              *)

\* Only a payment puts money in the wallet, and COMPLETED means it is there.
THEOREM CreditsEarned == Spec => []CreditsAreEarned
<1>1. DepositsInv => CreditsAreEarned
  BY DEF DepositsInv, DepositInv, CreditsAreEarned
<1>2. QED
  BY <1>1, DepositsInvHolds, PTL

\* No customer pays for an intent that reads FAILED.
THEOREM FailedUnpaid == Spec => []FailedTakesNoMoney
<1>1. DepositsInv => FailedTakesNoMoney
  BY DEF DepositsInv, DepositInv, FailedTakesNoMoney
<1>2. QED
  BY <1>1, DepositsInvHolds, PTL

\* Whatever fails, crashes or overlaps, the provider goes on repeating the
\* notification of a payment until the wallet has the money.
THEOREM NoPaymentLost == Spec => []PaymentNotLost
<1>1. DepositsInv => PaymentNotLost
  BY DEF DepositsInv, DepositInv, PaymentNotLost
<1>2. QED
  BY <1>1, DepositsInvHolds, PTL
=============================================================================
