---------------------------- MODULE PricingProofs ----------------------------
(***************************************************************************)
(* What the price of a gift card guarantees for any terms and any rule, and *)
(* that the catalogue, however its writers interleave, keeps it: a viable   *)
(* price no admin has set covers the net cost stored beside it and the      *)
(* least margin of any rule; that a sync run is in one hand from its        *)
(* creation to its end; and that the stale sweep archives no listed product.*)
(***************************************************************************)
EXTENDS GiftCardCatalog, TLAPS, WellFoundedInduction, SequenceTheorems, FiniteSetTheorems

IsRule(r) == r.minMargin \in Nat /\ r.discount \in 0..100 /\ r.maxOver \in Nat

-----------------------------------------------------------------------------
(* The price                                                                 *)

\* Rounding up reaches the amount and stays within a unit of it.
LEMMA RoundUpCovers ==
  ASSUME NEW n \in Int
  PROVE  RoundUp(n, Cent) \in Int /\ RoundUp(n, Cent) * Cent >= n /\ RoundUp(n, Cent) * Cent < n + Cent
BY DEF RoundUp, Cent

LEMMA Products2 == \A a, b \in Nat : a * b \in Nat
OBVIOUS

\* Every quantity of a price is an integer.
LEMMA PriceTypes ==
  ASSUME NEW i \in Terms, NEW r, IsRule(r)
  PROVE  /\ NetCost(i) \in Int /\ FloorPrice(i, r) \in Int /\ TargetPrice(i, r) \in Int
         /\ CeilingPrice(i, r) \in Int /\ RetailPrice(i, r) \in Int
<1>1. /\ i.cost \in Nat /\ i.face \in Nat /\ i.feePct \in Nat /\ i.discPct \in Nat
      /\ i.feeFixed \in Nat /\ i.rate \in Nat
      /\ r.minMargin \in Nat /\ r.discount \in 0..100 /\ r.maxOver \in Nat
  BY DEF Terms, IsRule
<1>2. \A n \in Nat : RoundHalfUp(n, 100) \in Nat
  BY DEF RoundHalfUp
<1>3. NetCost(i) \in Int
  <2>1. i.cost * i.feePct \in Nat /\ i.cost * i.discPct \in Nat
    BY <1>1, Products2
  <2>2. RoundHalfUp(i.cost * i.feePct, 100) \in Nat /\ RoundHalfUp(i.cost * i.discPct, 100) \in Nat
    BY <1>2, <2>1
  <2> QED BY <1>1, <2>2 DEF NetCost, FeeAmount, DiscountAmount
<1>4. FaceReference(i) \in Int
  <2>1. Converted(i) \in Nat /\ i.face * 100 \in Nat /\ i.cost * 100 \in Nat
    BY <1>1, Products2 DEF Converted
  <2> QED BY <2>1 DEF FaceReference
<1>5. \A a, b \in Int : a * b \in Int
  OBVIOUS
<1>6. FloorPrice(i, r) \in Int
  <2>1. NetCost(i) * (100 + r.minMargin) \in Int
    BY <1>1, <1>3, <1>5
  <2> QED BY <2>1 DEF FloorPrice
<1>7. TargetPrice(i, r) \in Int /\ CeilingPrice(i, r) \in Int
  <2>1. 100 - r.discount \in Int /\ 100 + r.maxOver \in Int
    BY <1>1
  <2> QED BY <1>4, <1>5, <2>1 DEF TargetPrice, CeilingPrice
<1>8. RetailPrice(i, r) \in Int
  BY <1>6, <1>7, RoundUpCovers DEF RetailPrice
<1> QED BY <1>3, <1>6, <1>7, <1>8

\* The retail price reaches the rule's floor and, if it is viable, stays under
\* its ceiling and earns something (GiftCardPricingService.price).
THEOREM PriceWithinRule ==
  ASSUME NEW i \in Terms, NEW r, IsRule(r), Viable(i, r)
  PROVE  /\ NetCost(i) > 0
         /\ RetailPrice(i, r) * 10000 >= NetCost(i) * (100 + r.minMargin)
         /\ RetailPrice(i, r) * Cent <= CeilingPrice(i, r)
<1>1. RetailPrice(i, r) * Cent >= FloorPrice(i, r)
  BY PriceTypes, RoundUpCovers DEF RetailPrice, Cent
<1>2. FloorPrice(i, r) = NetCost(i) * (100 + r.minMargin) * 100
  BY DEF FloorPrice
<1>3. r.minMargin \in Nat /\ NetCost(i) \in Int
  BY PriceTypes DEF IsRule
<1> DEFINE x == NetCost(i) * (100 + r.minMargin)
<1>4. x \in Int
  BY <1>3
<1>5. RetailPrice(i, r) * Cent >= x * 100 /\ RetailPrice(i, r) \in Int
  BY <1>1, <1>2, PriceTypes
<1> HIDE DEF x
<1>6. RetailPrice(i, r) * 10000 >= x
  BY <1>4, <1>5 DEF Cent
<1> QED BY <1>6 DEF Viable, x

\* Nonempty sets of natural numbers have a least element.
LEMMA LeastOfNats ==
  ASSUME NEW S \in SUBSET Nat, S # {}
  PROVE  \E n \in S : \A m \in S : n <= m
<1> DEFINE R == OpToRel(<, Nat)
<1>1. IsWellFoundedOn(R, Nat)
  BY NatLessThanWellFounded
<1>2. \A i, j \in Nat : i < j => <<i, j>> \in R
  BY DEF OpToRel
<1> HIDE DEF R
<1>3. PICK n \in S : \A y \in S : ~(<<y, n>> \in R)
  BY <1>1, WFMin
<1>4. ASSUME NEW m \in S PROVE n <= m
  <2>1. n \in Nat /\ m \in Nat /\ ~(m < n)
    BY <1>2, <1>3
  <2> QED BY <2>1
<1> QED BY <1>4

\* The rule a product resolves to is one of the rules.
LEMMA Resolved == \A rs, keys : ResolveRule(rs, keys) \subseteq rs
<1> SUFFICES ASSUME NEW rs, NEW keys, NEW q \in ResolveRule(rs, keys) PROVE q \in rs
  OBVIOUS
<1> DEFINE Matches(k) == {r \in rs : r.scope = Scopes[k] /\ r.ref = keys[Scopes[k]]}
           Hits == {k \in 1..5 : Matches(k) # {}}
           First == CHOOSE k \in Hits : \A l \in Hits : k <= l
<1>1. CASE Hits = {}
  BY <1>1 DEF ResolveRule
<1>2. CASE Hits # {}
  <2>1. \E k \in Hits : \A l \in Hits : k <= l
    <3>1. Hits \in SUBSET Nat
      OBVIOUS
    <3> HIDE DEF Hits
    <3> QED BY <1>2, <3>1, LeastOfNats
  <2>2. First \in Hits
    <3> HIDE DEF Hits
    <3> QED BY <2>1
  <2>3. Matches(First) # {}
    BY <2>2
  <2>4. (CHOOSE r \in Matches(First) : TRUE) \in rs
    BY <2>3
  <2> QED BY <2>4 DEF ResolveRule
<1> QED BY <1>1, <1>2

\* A viable price of any rule keeps the least margin.
LEMMA LeastMarginKept ==
  ASSUME NEW i \in Terms, NEW r \in Rules, Viable(i, r)
  PROVE  RetailPrice(i, r) * 10000 >= NetCost(i) * (100 + LeastMargin)
<1> DEFINE M == {q.minMargin : q \in Rules}
<1>1. IsRule(r) /\ r.minMargin \in Nat
  BY RulesAssumption DEF IsRule
<1>2. M \in SUBSET Nat /\ M # {}
  BY RulesAssumption
<1>3. PICK m \in M : \A n \in M : m <= n
  <2> HIDE DEF M
  <2> QED BY <1>2, LeastOfNats
<1>4. \A q \in Rules : m <= q.minMargin
  BY <1>3
<1>5. LeastMargin \in M /\ \A q \in Rules : LeastMargin <= q.minMargin
  BY <1>3, <1>4 DEF LeastMargin
<1>6. LeastMargin \in Nat /\ LeastMargin <= r.minMargin
  BY <1>2, <1>5
<1>7. NetCost(i) > 0 /\ NetCost(i) \in Int /\ RetailPrice(i, r) \in Int
      /\ RetailPrice(i, r) * 10000 >= NetCost(i) * (100 + r.minMargin)
  BY <1>1, PriceTypes, PriceWithinRule
<1>8. \A n, a, b \in Int : n > 0 /\ a <= b => n * (100 + a) <= n * (100 + b)
  OBVIOUS
<1>9. NetCost(i) * (100 + LeastMargin) <= NetCost(i) * (100 + r.minMargin)
  BY <1>1, <1>6, <1>7, <1>8
<1>10. \A x, y, z \in Int : x >= y /\ z <= y => x >= z
  OBVIOUS
<1>11. NetCost(i) * (100 + LeastMargin) \in Int /\ NetCost(i) * (100 + r.minMargin) \in Int
  BY <1>1, <1>6, <1>7
<1> QED BY <1>7, <1>9, <1>10, <1>11

-----------------------------------------------------------------------------
(* The catalogue: what its rows, the worker and the requests hold            *)

RunStates == {"RUNNING", "COMPLETED", "FAILED"}
OfferRec == [terms : Terms, active : BOOLEAN, stocked : BOOLEAN]
Items == UNION {[S -> OfferRec] : S \in SUBSET Products}
RowPair == [product : ProductRow, denom : DenomRow]
PairRows == UNION {[S -> RowPair] : S \in SUBSET Products}
QuoteRows == UNION {[{p} -> [product : ProductRow]] : p \in Products}
WorkType == [run : Nat, rules : SUBSET Rules, pages : SUBSET Nat, asked : SUBSET Nat,
             got : SUBSET [page : Nat, items : Items], items : Items, prior : SUBSET Products,
             rows : PairRows, errors : BOOLEAN, count : Nat, stale : SUBSET Products, moved : BOOLEAN]
Rates == UNION {[S -> Nat] : S \in SUBSET Products}
CtxRec == [p : Nat, rules : SUBSET Rules, page : Nat, rates : Rates, todo : SUBSET Products, rows : PairRows \cup QuoteRows,
           viable : BOOLEAN, net : Int]

ProviderTypes == listed \subseteq Products /\ offer \in [Products -> OfferRec]
RowTypes == product \in [Products -> ProductRow] /\ denom \in [Products -> DenomRow]
            /\ byHand \in [Products -> BOOLEAN]
QueueTypes == runs \in Seq(RunStates) /\ queue \in Seq(Nat)
ProcTypes == /\ rules \subseteq Rules /\ pc \in [Admins \cup {"sync"} -> Labels]
             /\ work \in WorkType /\ ctx \in [Admins -> CtxRec]

\* Rows that were read with a price by hand belong to products priced by hand.
Known(rows) == \A p \in DOMAIN rows : rows[p].denom.manual => byHand[p]

\* What a request that is going to write has read.
Prepared(h) ==
  /\ pc[h] = "repriceWrite" => ctx[h].rows \in PairRows /\ Known(ctx[h].rows)
  /\ pc[h] \in {"quote", "quotePriced"} =>
       /\ ctx[h].p \in Products
       /\ ctx[h].rows[ctx[h].p].product \in ProductRow
  /\ pc[h] = "quotePriced" => ctx[h].net \in Nat
  /\ pc[h] = "discountWrite" => ctx[h].p \in DOMAIN ctx[h].rates
WalkPrepared ==
  /\ Known(work.rows)
  /\ pc["sync"] = "writeRows" => DOMAIN work.rows = DOMAIN work.items

\* A denomination's price: never by hand without byHand, and without it no loss.
Covered(d, p) ==
  /\ d.manual => byHand[p]
  /\ d.viable /\ ~byHand[p] => d.retail * 10000 >= d.net * (100 + LeastMargin)
AllCovered == \A p \in Products : Covered(denom[p], p)

IInv == /\ ProviderTypes /\ RowTypes /\ QueueTypes /\ ProcTypes
        /\ WalkPrepared /\ (\A h \in Admins : Prepared(h)) /\ AllCovered

LEMMA EmptyRows == <<>> \in Items /\ <<>> \in PairRows /\ <<>> \in Rates /\ DOMAIN <<>> = {}
<1>1. \A S : <<>> \in [{} -> S]
  OBVIOUS
<1>2. <<>> \in Items /\ <<>> \in PairRows /\ <<>> \in Rates
  BY <1>1 DEF Items, PairRows, Rates
<1> QED BY <1>2

LEMMA NothingHeld == Idle \in WorkType /\ NoCtx \in CtxRec /\ Idle.rows = <<>>
BY EmptyRows DEF Idle, NoCtx, WorkType, CtxRec

\* Pricing a denomination covers it, unless its price was set by hand.
LEMMA PricedCovered ==
  ASSUME NEW d \in DenomRow, NEW i \in Terms, NEW r \in Rules
  PROVE  /\ Priced(d, i, r) \in DenomRow
         /\ Priced(d, i, r).manual = d.manual /\ Priced(d, i, r).status = d.status
         /\ Priced(d, i, r).viable /\ ~d.manual =>
              Priced(d, i, r).retail * 10000 >= Priced(d, i, r).net * (100 + LeastMargin)
<1>1. IsRule(r)
  BY RulesAssumption DEF IsRule
<1>2. NetCost(i) \in Int /\ RetailPrice(i, r) \in Int /\ i.cost \in Nat /\ Viable(i, r) \in BOOLEAN
  BY <1>1, PriceTypes DEF Terms, Viable
<1>3. Priced(d, i, r) \in DenomRow
  BY <1>2 DEF Priced, DenomRow
<1>4. /\ Priced(d, i, r).manual = d.manual /\ Priced(d, i, r).status = d.status
      /\ Priced(d, i, r).net = NetCost(i) /\ Priced(d, i, r).viable = Viable(i, r)
      /\ ~d.manual => Priced(d, i, r).retail = RetailPrice(i, r)
  BY DEF Priced, DenomRow
<1> QED BY <1>3, <1>4, LeastMarginKept

-----------------------------------------------------------------------------
(* Steps of the worker, of a request, and of neither: what they must leave.  *)

LEMMA WorkerStep ==
  ASSUME IInv, NEW w \in WorkType, NEW label \in Labels,
         work' = w, Goto("sync", label), UNCHANGED <<ctx, provider, rules, byHand>>, QueueTypes',
         Known(w.rows), label = "writeRows" => DOMAIN w.rows = DOMAIN w.items,
         product' \in [Products -> ProductRow], denom' \in [Products -> DenomRow],
         \A p \in Products : Covered(denom'[p], p)
  PROVE  IInv'
<1>0. ProviderTypes /\ RowTypes /\ ProcTypes /\ (\A h \in Admins : Prepared(h))
  BY DEF IInv
<1>1. pc' = [pc EXCEPT !["sync"] = label] /\ byHand' = byHand /\ ctx' = ctx /\ rules' = rules
      /\ listed' = listed /\ offer' = offer
  BY DEF Goto, provider
<1>2. /\ pc' \in [Admins \cup {"sync"} -> Labels] /\ pc'["sync"] = label
      /\ \A h \in Admins : pc'[h] = pc[h]
  BY <1>0, <1>1, AdminsAssumption DEF ProcTypes
<1>3. ProviderTypes' /\ RowTypes'
  BY <1>0, <1>1 DEF ProviderTypes, RowTypes
<1>4. ProcTypes'
  BY <1>0, <1>1, <1>2 DEF ProcTypes
<1>5. WalkPrepared'
  BY <1>1, <1>2 DEF WalkPrepared, Known
<1>6. \A h \in Admins : Prepared(h)'
  BY <1>0, <1>1, <1>2 DEF Prepared, Known
<1>7. AllCovered'
  BY <1>1 DEF AllCovered, Covered
<1> QED BY <1>3, <1>4, <1>5, <1>6, <1>7 DEF IInv

LEMMA RequestStep ==
  ASSUME IInv, NEW h \in Admins, UNCHANGED <<provider, work>>,
         pc' \in [Admins \cup {"sync"} -> Labels], ctx' \in [Admins -> CtxRec],
         pc'["sync"] = pc["sync"], \A g \in Admins \ {h} : pc'[g] = pc[g] /\ ctx'[g] = ctx[g],
         rules' \subseteq Rules, QueueTypes', RowTypes',
         \A p \in Products : byHand[p] => byHand'[p],
         AllCovered', Prepared(h)'
  PROVE  IInv'
<1>0. ProviderTypes /\ RowTypes /\ ProcTypes /\ WalkPrepared /\ (\A g \in Admins : Prepared(g))
  BY DEF IInv
<1>1. ProviderTypes'
  BY <1>0 DEF ProviderTypes, provider
<1>2. ProcTypes'
  BY <1>0 DEF ProcTypes
<1>3. ASSUME NEW rows \in PairRows, Known(rows) PROVE Known(rows)'
  <2>1. DOMAIN rows \subseteq Products
    BY DEF PairRows
  <2> QED BY <1>3, <2>1 DEF Known
<1>4. WalkPrepared'
  <2>1. work.rows \in PairRows /\ work' = work /\ pc'["sync"] = pc["sync"]
    BY <1>0 DEF ProcTypes, WorkType
  <2>2. Known(work.rows)'
    BY <1>0, <1>3, <2>1 DEF WalkPrepared
  <2> QED BY <1>0, <2>1, <2>2 DEF WalkPrepared, Known
<1>5. ASSUME NEW g \in Admins PROVE Prepared(g)'
  <2>1. CASE g = h
    BY <2>1
  <2>2. CASE g # h
    <3>1. pc'[g] = pc[g] /\ ctx'[g] = ctx[g]
      BY <2>2
    <3>2. pc[g] = "repriceWrite" => Known(ctx[g].rows)'
      BY <1>0, <1>3, <3>1 DEF Prepared
    <3> QED BY <1>0, <3>1, <3>2 DEF Prepared, Known
  <2> QED BY <2>1, <2>2
<1> QED BY <1>1, <1>2, <1>4, <1>5 DEF IInv

-----------------------------------------------------------------------------
(* The sync worker                                                           *)

\* Nothing but the worker's own locals changes.
LEMMA QuietStep ==
  ASSUME IInv, NEW w \in WorkType, NEW label \in Labels, Quiet(w, label),
         Known(w.rows), label = "writeRows" => DOMAIN w.rows = DOMAIN w.items
  PROVE  IInv'
<1>1. RowTypes /\ QueueTypes /\ AllCovered
  BY DEF IInv
<1>2. /\ work' = w /\ Goto("sync", label) /\ UNCHANGED <<ctx, provider, rules, byHand>>
      /\ product' = product /\ denom' = denom /\ runs' = runs /\ queue' = queue
  BY DEF Quiet, Work, syncs
<1>3. QueueTypes' /\ product' \in [Products -> ProductRow] /\ denom' \in [Products -> DenomRow]
      /\ \A p \in Products : Covered(denom'[p], p)
  BY <1>1, <1>2 DEF QueueTypes, RowTypes, AllCovered
<1> QED BY <1>2, <1>3, WorkerStep

LEMMA AdvanceStep ==
  ASSUME IInv, NEW w \in WorkType, Known(w.rows), Advance(w)
  PROVE  IInv'
<1>1. CASE w.got # {}
  <2>1. PICK g \in w.got : Quiet([w EXCEPT !.got = @ \ {g}, !.items = g.items], "readProducts")
    BY <1>1 DEF Advance
  <2> DEFINE v == [w EXCEPT !.got = @ \ {g}, !.items = g.items]
  <2>2. g.items \in Items
    BY DEF WorkType
  <2>3. v \in WorkType /\ v.rows = w.rows
    BY <2>2 DEF WorkType
  <2>4. Quiet(v, "readProducts") /\ "readProducts" \in Labels
    BY <2>1 DEF Labels
  <2> HIDE DEF v
  <2>5. Known(v.rows)
    BY <2>3 DEF Known
  <2> QED BY <2>3, <2>4, <2>5, QuietStep
<1>2. CASE w.got = {} /\ w.pages # {}
  <2> DEFINE G == FirstN(w.pages, Concurrency)
             v == [w EXCEPT !.pages = @ \ G, !.asked = G, !.items = <<>>]
  <2>1. G \subseteq Nat
    BY DEF FirstN, WorkType
  <2> HIDE DEF G
  <2>2. v \in WorkType /\ v.rows = w.rows
    BY <2>1, EmptyRows DEF WorkType
  <2>3. Quiet(v, "fetch") /\ "fetch" \in Labels
    BY <1>2 DEF Advance, G, Labels
  <2> HIDE DEF v
  <2>4. Known(v.rows)
    BY <2>2 DEF Known
  <2> QED BY <2>2, <2>3, <2>4, QuietStep
<1>3. CASE w.got = {} /\ w.pages = {}
  <2> DEFINE v == [w EXCEPT !.items = <<>>]
  <2>1. v \in WorkType /\ v.rows = w.rows
    BY EmptyRows DEF WorkType
  <2>2. Quiet(v, "sweepCount") /\ "sweepCount" \in Labels
    BY <1>3 DEF Advance, Labels, Sweeping
  <2> HIDE DEF v
  <2>3. Known(v.rows)
    BY <2>1 DEF Known
  <2> QED BY <2>1, <2>2, <2>3, QuietStep
<1> QED BY <1>1, <1>2, <1>3

\* A page is a function from listed products to what Reloadly says of them.
LEMMA PageItems == ASSUME IInv, NEW k PROVE Page(k) \in Items
<1>1. OnPage(k) \in SUBSET Products /\ \A p \in OnPage(k) : offer[p] \in OfferRec
  BY DEF IInv, ProviderTypes, OnPage
<1>2. Page(k) \in [OnPage(k) -> OfferRec]
  BY <1>1 DEF Page
<1> QED BY <1>1, <1>2 DEF Items

LEMMA EndRunStep ==
  ASSUME IInv, NEW s \in RunStates \cup {"lost"}, EndRun(s)
  PROVE  IInv'
<1>0. RowTypes /\ QueueTypes /\ AllCovered
  BY DEF IInv
<1>1. /\ work' = Idle /\ Goto("sync", "idle") /\ UNCHANGED <<ctx, provider, rules, byHand>>
      /\ product' = product /\ denom' = denom /\ queue' = queue
      /\ runs' = IF s = "lost" THEN runs ELSE [runs EXCEPT ![work.run] = s]
  BY DEF EndRun, catalog
<1>2. QueueTypes'
  <2>1. runs \in Seq(RunStates) /\ runs \in [1..Len(runs) -> RunStates]
    BY <1>0, LenProperties DEF QueueTypes
  <2>2. s # "lost" /\ work.run \in 1..Len(runs) => [runs EXCEPT ![work.run] = s] \in Seq(RunStates)
    BY <2>1, ExceptSeq
  <2>3. work.run \notin 1..Len(runs) => [runs EXCEPT ![work.run] = s] = runs
    BY <2>1
  <2> QED BY <1>0, <1>1, <2>1, <2>2, <2>3 DEF QueueTypes
<1>3. product' \in [Products -> ProductRow] /\ denom' \in [Products -> DenomRow]
      /\ \A p \in Products : Covered(denom'[p], p)
  BY <1>0, <1>1 DEF RowTypes, AllCovered
<1>4. Known(Idle.rows) /\ "idle" \in Labels
  BY NothingHeld, EmptyRows DEF Known, Labels
<1> HIDE DEF Idle
<1> QED BY <1>1, <1>2, <1>3, <1>4, NothingHeld, WorkerStep

\* What the sweep counts is finite.
LEMMA CountsNat == Cardinality(Live) \in Nat /\ Cardinality(Stale) \in Nat
<1>1. Live \subseteq Products /\ Stale \subseteq Products
  BY DEF Live, Stale
<1> QED BY <1>1, ProductsAssumption, FS_Subset, FS_CardinalityType

\* Steps that only read: the locals they leave are of their type.
LEMMA ReadingSteps ==
  ASSUME IInv, Reference \/ FirstPage \/ FetchPage \/ ReadProducts \/ ReadRows \/ NextPage
               \/ SweepCount \/ SweepShare \/ SweepSelect
  PROVE  IInv'
<1>0. work \in WorkType /\ rules \subseteq Rules /\ Known(work.rows) /\ RowTypes /\ AllCovered
      /\ work.items \in Items /\ work.rows \in PairRows
  BY DEF IInv, ProcTypes, WalkPrepared, WorkType
<1>1. CASE Reference
  <2> DEFINE v == [work EXCEPT !.rules = rules]
  <2>1. v \in WorkType /\ v.rows = work.rows
    BY <1>0 DEF WorkType
  <2>2. Quiet(v, "first") /\ "first" \in Labels
    BY <1>1 DEF Reference, Labels
  <2> HIDE DEF v
  <2>3. Known(v.rows)
    BY <1>0, <2>1 DEF Known
  <2> QED BY <2>1, <2>2, <2>3, QuietStep
<1>2. CASE FirstPage
  <2> DEFINE v == [work EXCEPT !.pages = 2..TotalPages, !.got = {[page |-> 1, items |-> Page(1)]}]
  <2>1. 2..TotalPages \in SUBSET Nat /\ {[page |-> 1, items |-> Page(1)]} \in SUBSET [page : Nat, items : Items]
    BY PageItems
  <2>2. v \in WorkType /\ v.rows = work.rows
    BY <1>0, <2>1 DEF WorkType
  <2>3. Advance(v)
    BY <1>2 DEF FirstPage
  <2> HIDE DEF v
  <2>4. Known(v.rows)
    BY <1>0, <2>2 DEF Known
  <2> QED BY <2>2, <2>3, <2>4, AdvanceStep
<1>3. CASE FetchPage
  <2>1. PICK k \in work.asked :
          LET w == [work EXCEPT !.asked = @ \ {k}, !.got = @ \cup {[page |-> k, items |-> Page(k)]}]
          IN IF w.asked = {} THEN Advance(w) ELSE Quiet(w, "fetch")
    BY <1>3 DEF FetchPage
  <2> DEFINE v == [work EXCEPT !.asked = @ \ {k}, !.got = @ \cup {[page |-> k, items |-> Page(k)]}]
  <2>2. [page |-> k, items |-> Page(k)] \in [page : Nat, items : Items]
    BY <1>0, PageItems DEF WorkType
  <2>3. v \in WorkType /\ v.rows = work.rows
    BY <1>0, <2>2 DEF WorkType
  <2>4. (Advance(v) \/ Quiet(v, "fetch")) /\ "fetch" \in Labels
    BY <2>1 DEF Labels
  <2> HIDE DEF v
  <2>5. Known(v.rows)
    BY <1>0, <2>3 DEF Known
  <2> QED BY <2>3, <2>4, <2>5, AdvanceStep, QuietStep
<1>4. CASE ReadProducts
  <2> DEFINE v == [work EXCEPT !.prior = {p \in DOMAIN work.items : product[p].status = "PUBLISHED"}]
  <2>1. DOMAIN work.items \subseteq Products
    BY <1>0 DEF Items
  <2>2. v \in WorkType /\ v.rows = work.rows
    BY <1>0, <2>1 DEF WorkType
  <2>3. Quiet(v, "writeProducts") /\ "writeProducts" \in Labels
    BY <1>4 DEF ReadProducts, Labels
  <2> HIDE DEF v
  <2>4. Known(v.rows)
    BY <1>0, <2>2 DEF Known
  <2> QED BY <2>2, <2>3, <2>4, QuietStep
<1>5. CASE ReadRows
  <2> DEFINE rows == [p \in DOMAIN work.items |-> [product |-> product[p], denom |-> denom[p]]]
             v == [work EXCEPT !.rows = rows]
  <2>1. DOMAIN work.items \in SUBSET Products /\ DOMAIN rows = DOMAIN work.items
    BY <1>0 DEF Items
  <2>2. rows \in [DOMAIN work.items -> RowPair]
    BY <1>0, <2>1 DEF RowTypes, RowPair
  <2>3. Known(rows)
    BY <1>0, <2>1 DEF Known, AllCovered, Covered
  <2>4. Quiet(v, "writeRows") /\ "writeRows" \in Labels
    BY <1>5 DEF ReadRows, Labels
  <2> HIDE DEF rows
  <2>5. rows \in PairRows
    BY <2>1, <2>2 DEF PairRows
  <2>6. v \in WorkType /\ v.rows = rows /\ v.items = work.items
    BY <1>0, <2>5 DEF WorkType
  <2> HIDE DEF v
  <2>7. Known(v.rows)
    BY <2>3, <2>6 DEF Known
  <2> QED BY <2>1, <2>4, <2>6, <2>7, QuietStep
<1>6. CASE NextPage
  BY <1>0, <1>6, AdvanceStep DEF NextPage
<1>7. CASE SweepCount \/ SweepShare
  <2>1. PICK n \in Nat, label \in {"countLive", "countStale", "finish", "sweepSelect"} :
          Quiet(work, label) \/ Quiet([work EXCEPT !.count = n], label)
    BY <1>7, CountsNat DEF SweepCount, SweepShare
  <2> DEFINE v == [work EXCEPT !.count = n]
  <2>2. v \in WorkType /\ v.rows = work.rows
    BY <1>0 DEF WorkType
  <2>3. label \in Labels /\ label # "writeRows"
    BY DEF Labels, Sweeping
  <2>4. Quiet(work, label) \/ Quiet(v, label)
    BY <2>1
  <2> HIDE DEF v
  <2>5. Known(v.rows)
    BY <1>0, <2>2 DEF Known
  <2> QED BY <1>0, <2>2, <2>3, <2>4, <2>5, QuietStep
<1>8. CASE SweepSelect
  <2> DEFINE v == [work EXCEPT !.stale = Stale]
  <2>1. Stale \subseteq Products
    BY DEF Stale, Live
  <2>2. v \in WorkType /\ v.rows = work.rows
    BY <1>0, <2>1 DEF WorkType
  <2>3. Quiet(v, "archive") /\ "archive" \in Labels
    BY <1>8 DEF SweepSelect, Labels, Sweeping
  <2> HIDE DEF v
  <2>4. Known(v.rows)
    BY <1>0, <2>2 DEF Known
  <2> QED BY <2>2, <2>3, <2>4, QuietStep
<1> QED BY <1>1, <1>2, <1>3, <1>4, <1>5, <1>6, <1>7, <1>8

\* What a step of the worker that writes rows has to show.
LEMMA WritingStep ==
  ASSUME IInv, NEW w \in WorkType, NEW label \in Labels, Work(w, label), UNCHANGED syncs,
         w.rows \in {work.rows, <<>>}, label # "writeRows",
         product' \in [Products -> ProductRow], denom' \in [Products -> DenomRow],
         \A p \in Products : Covered(denom'[p], p)
  PROVE  IInv'
<1>1. Known(work.rows) /\ QueueTypes
  BY DEF IInv, WalkPrepared
<1>2. Known(w.rows)
  BY <1>1, EmptyRows DEF Known
<1>3. QueueTypes' /\ work' = w /\ Goto("sync", label) /\ UNCHANGED <<ctx, provider, rules, byHand>>
  BY <1>1 DEF QueueTypes, Work, syncs
<1> QED BY <1>2, <1>3, WorkerStep

LEMMA WriteProductsStep ==
  ASSUME IInv, WriteProducts
  PROVE  IInv'
<1>0. work \in WorkType /\ RowTypes /\ AllCovered /\ work.items \in Items /\ work.run \in Nat
  BY DEF IInv, ProcTypes, WorkType
<1>1. product' \in [Products -> ProductRow]
  <2>1. ASSUME NEW p \in DOMAIN work.items PROVE work.items[p].terms \in Terms
    BY <1>0 DEF Items, OfferRec
  <2>2. \A p \in Products : product[p] \in ProductRow
    BY <1>0 DEF RowTypes
  <2>3. ASSUME NEW p \in Products
        PROVE  (IF p \notin DOMAIN work.items THEN product[p]
                ELSE [product[p] EXCEPT
                        !.status = IF @ = "none" \/ (~work.items[p].active /\ p \in work.prior) THEN "DRAFT" ELSE @,
                        !.seen = work.run, !.terms = work.items[p].terms]) \in ProductRow
    BY <1>0, <2>1, <2>2 DEF ProductRow, Statuses
  <2> QED BY <2>3 DEF WriteProducts
<1>2. /\ Work(work, "readRows") /\ UNCHANGED syncs /\ denom' = denom
      /\ "readRows" \in Labels /\ "readRows" # "writeRows"
  BY DEF WriteProducts, Labels
<1> QED BY <1>0, <1>1, <1>2, WritingStep DEF RowTypes, AllCovered

\* Archiving a denomination leaves nothing viable to cover.
LEMMA ArchivedCovered ==
  ASSUME NEW p \in Products, NEW d \in DenomRow, Covered(d, p)
  PROVE  /\ [d EXCEPT !.status = "ARCHIVED", !.viable = FALSE] \in DenomRow
         /\ Covered([d EXCEPT !.status = "ARCHIVED", !.viable = FALSE], p)
<1> DEFINE a == [d EXCEPT !.status = "ARCHIVED", !.viable = FALSE]
<1>1. a \in DenomRow /\ a.viable = FALSE /\ a.manual = d.manual
  BY DEF DenomRow, Statuses
<1> HIDE DEF a
<1>2. Covered(a, p)
  BY <1>1 DEF Covered
<1> QED BY <1>1, <1>2 DEF a

LEMMA HideStep ==
  ASSUME IInv, Hide
  PROVE  IInv'
<1>0. work \in WorkType /\ RowTypes /\ AllCovered
  BY DEF IInv, ProcTypes
<1>1. ASSUME NEW p \in Products
      PROVE  denom'[p] \in {denom[p], [denom[p] EXCEPT !.status = "ARCHIVED", !.viable = FALSE]}
  BY DEF Hide
<1>2. \A p \in Products : denom[p] \in DenomRow /\ Covered(denom[p], p)
  BY <1>0 DEF RowTypes, AllCovered
<1>3. \A p \in Products : denom'[p] \in DenomRow /\ Covered(denom'[p], p)
  BY ZenonT(40), <1>1, <1>2, ArchivedCovered
<1>4. denom' \in [Products -> DenomRow]
  BY <1>3 DEF Hide
<1> DEFINE v == [work EXCEPT !.items = <<>>, !.prior = {}, !.rows = <<>>]
<1>5. v \in WorkType /\ v.rows = <<>>
  BY <1>0, EmptyRows DEF WorkType
<1>6. Work(v, "written") /\ UNCHANGED syncs /\ product' = product /\ "written" \in Labels
  BY DEF Hide, Labels
<1> HIDE DEF v
<1> QED BY <1>0, <1>3, <1>4, <1>5, <1>6, WritingStep DEF RowTypes

LEMMA ArchiveStep ==
  ASSUME IInv, Archive
  PROVE  IInv'
<1>0. work \in WorkType /\ RowTypes /\ AllCovered
  BY DEF IInv, ProcTypes
<1>1. ASSUME NEW p \in Products
      PROVE  denom'[p] \in {denom[p], [denom[p] EXCEPT !.status = "ARCHIVED", !.viable = FALSE]}
  BY DEF Archive
<1>2. \A p \in Products : denom[p] \in DenomRow /\ Covered(denom[p], p)
  BY <1>0 DEF RowTypes, AllCovered
<1>3. \A p \in Products : denom'[p] \in DenomRow /\ Covered(denom'[p], p)
  BY ZenonT(40), <1>1, <1>2, ArchivedCovered
<1>4. denom' \in [Products -> DenomRow]
  BY <1>3 DEF Archive
<1>5. product' \in [Products -> ProductRow]
  BY <1>0 DEF Archive, RowTypes, ProductRow, Statuses
<1> DEFINE v == [work EXCEPT !.stale = {}]
<1>6. v \in WorkType /\ v.rows = work.rows
  BY <1>0 DEF WorkType
<1>7. Work(v, "finish") /\ UNCHANGED syncs /\ "finish" \in Labels
  BY DEF Archive, Labels, Sweeping
<1> HIDE DEF v
<1> QED BY <1>3, <1>4, <1>5, <1>6, <1>7, WritingStep

LEMMA WriteRowsStep ==
  ASSUME IInv, WriteRows
  PROVE  IInv'
<1> DEFINE Fixed == DOMAIN work.items \ Ranged
           RuleOf(p) == RuleFor(work.rules, p, work.rows[p].product)
           R(p) == CHOOSE r \in RuleOf(p) : TRUE
           I(p) == [work.rows[p].product.terms EXCEPT !.cost = work.items[p].terms.cost]
           D(p) == Priced([denom[p] EXCEPT !.manual = work.rows[p].denom.manual], I(p), R(p))
           Row(p) == [D(p) EXCEPT !.manual = denom[p].manual, !.seen = work.run,
                        !.status = IF @ = "none" THEN "DRAFT"
                                   ELSE IF ~D(p).viable /\ work.rows[p].denom.status = "PUBLISHED" THEN "DRAFT" ELSE @]
<1>0. /\ work \in WorkType /\ work.items \in Items /\ work.rows \in PairRows /\ work.run \in Nat
      /\ work.rules \in SUBSET Rules /\ RowTypes /\ AllCovered /\ Known(work.rows)
  BY DEF IInv, ProcTypes, WalkPrepared, WorkType
<1>1. DOMAIN work.rows = DOMAIN work.items
  BY DEF IInv, WalkPrepared, WriteRows
<1>2. CASE \E p \in Fixed : RuleOf(p) = {}
  <2>1. EndRun("FAILED")
    BY <1>2 DEF WriteRows
  <2> QED BY <2>1, EndRunStep DEF RunStates
<1>3. CASE \A p \in Fixed : RuleOf(p) # {}
  <2>1. ASSUME NEW p \in Fixed
        PROVE  Row(p) \in DenomRow /\ (p \in Products => Covered(Row(p), p))
    <3>1. work.rows[p] \in RowPair /\ work.items[p] \in OfferRec /\ p \in Products
      BY <1>0, <1>1 DEF PairRows, Items
    <3>2. R(p) \in Rules
      <4>1. RuleOf(p) \subseteq Rules /\ RuleOf(p) # {}
        BY <1>0, <1>3, Resolved DEF RuleFor
      <4> QED BY <4>1
    <3>3. I(p) \in Terms
      BY <3>1 DEF RowPair, ProductRow, OfferRec, Terms
    <3>4. denom[p] \in DenomRow /\ Covered(denom[p], p) /\ work.rows[p].denom \in DenomRow
      BY <1>0, <3>1 DEF RowTypes, AllCovered, RowPair
    <3> DEFINE m == work.rows[p].denom.manual
               e == [denom[p] EXCEPT !.manual = m]
    <3>5. m \in BOOLEAN /\ (m => byHand[p])
      BY <1>0, <1>1, <3>4 DEF DenomRow, Known
    <3>6. e \in DenomRow /\ e.manual = m /\ e.status = denom[p].status
      BY <3>4, <3>5 DEF DenomRow
    <3> HIDE DEF R, I, e, m
    <3>7. /\ Priced(e, I(p), R(p)) \in DenomRow
          /\ Priced(e, I(p), R(p)).viable /\ ~byHand[p] =>
               Priced(e, I(p), R(p)).retail * 10000 >= Priced(e, I(p), R(p)).net * (100 + LeastMargin)
      BY <3>2, <3>3, <3>5, <3>6, PricedCovered
    <3>8. D(p) = Priced(e, I(p), R(p))
      BY DEF e, m
    <3> HIDE DEF D
    <3>9. /\ D(p) \in DenomRow
          /\ D(p).viable /\ ~byHand[p] => D(p).retail * 10000 >= D(p).net * (100 + LeastMargin)
      BY <3>7, <3>8
    <3>10. denom[p].manual \in BOOLEAN /\ (denom[p].manual => byHand[p])
      BY <3>4 DEF DenomRow, Covered
    <3>11. Row(p) \in DenomRow
      <4> DEFINE d == D(p)
                 Left == IF d.status = "none" THEN "DRAFT"
                         ELSE IF ~d.viable /\ work.rows[p].denom.status = "PUBLISHED" THEN "DRAFT" ELSE d.status
      <4>1. Row(p) = [d EXCEPT !.manual = denom[p].manual, !.seen = work.run, !.status = Left]
        OBVIOUS
      <4> HIDE DEF d, Row
      <4>2. Left \in Statuses \cup {"none"}
        <5>1. d \in DenomRow
          BY <3>9 DEF d
        <5> QED BY <5>1 DEF DenomRow, Statuses
      <4> HIDE DEF Left
      <4>3. d \in DenomRow /\ work.run \in Nat
        BY <1>0, <3>9 DEF d
      <4> QED BY <3>10, <4>1, <4>2, <4>3 DEF DenomRow
    <3>12. /\ Row(p).manual = denom[p].manual /\ Row(p).viable = D(p).viable
           /\ Row(p).retail = D(p).retail /\ Row(p).net = D(p).net
      BY <3>9 DEF DenomRow
    <3> HIDE DEF Row
    <3> QED BY <3>9, <3>10, <3>11, <3>12 DEF Covered
  <2>2. /\ denom' = [p \in Products |-> IF p \in Fixed /\ work.items[p].stocked THEN Row(p) ELSE denom[p]]
        /\ Work(work, "hide") /\ product' = product /\ UNCHANGED syncs /\ "hide" \in Labels
    BY <1>3 DEF WriteRows, Labels
  <2> HIDE DEF Fixed, Row
  <2>3. ASSUME NEW p \in Products PROVE denom'[p] \in DenomRow /\ Covered(denom'[p], p)
    <3>1. (denom'[p] = Row(p) /\ p \in Fixed) \/ denom'[p] = denom[p]
      BY <2>2
    <3>2. denom[p] \in DenomRow /\ Covered(denom[p], p)
      BY <1>0 DEF RowTypes, AllCovered
    <3>3. CASE denom'[p] = denom[p]
      BY <3>2, <3>3 DEF Covered
    <3>4. CASE denom'[p] = Row(p) /\ p \in Fixed
      BY <2>1, <3>4 DEF Covered
    <3> QED BY <3>1, <3>3, <3>4
  <2>4. denom' \in [Products -> DenomRow]
    BY <2>2, <2>3
  <2> QED BY <1>0, <2>2, <2>3, <2>4, WritingStep DEF RowTypes
<1> QED BY <1>2, <1>3

\* A run is taken up, ends, or fails.
LEMMA RunSteps ==
  ASSUME IInv, TakeRun \/ PageFails \/ FinishRun \/ RunFails
  PROVE  IInv'
<1>0. work \in WorkType /\ RowTypes /\ AllCovered /\ QueueTypes /\ Known(work.rows)
  BY DEF IInv, ProcTypes, WalkPrepared
<1>1. CASE TakeRun
  <2>1. queue \in Seq(Nat) /\ queue # <<>> /\ queue' = Tail(queue) /\ runs' = runs
    BY <1>0, <1>1 DEF TakeRun, QueueTypes
  <2>2. Head(queue) \in Nat /\ Tail(queue) \in Seq(Nat)
    BY <2>1, HeadTailProperties
  <2> DEFINE v == [Idle EXCEPT !.run = Head(queue)]
  <2>3. v \in WorkType /\ v.rows = <<>>
    BY <2>2, NothingHeld DEF WorkType
  <2>4. /\ work' = v /\ Goto("sync", "reference") /\ UNCHANGED <<ctx, provider, rules, byHand>>
        /\ product' = product /\ denom' = denom /\ "reference" \in Labels
    BY <1>1 DEF TakeRun, Work, Labels
  <2> HIDE DEF v
  <2>5. Known(v.rows) /\ QueueTypes'
    BY <1>0, <2>1, <2>2, <2>3, EmptyRows DEF Known, QueueTypes
  <2> QED BY <1>0, <2>3, <2>4, <2>5, WorkerStep DEF RowTypes, AllCovered
<1>2. CASE PageFails
  <2>1. PICK k \in work.asked :
          LET w == [work EXCEPT !.asked = @ \ {k}, !.errors = TRUE]
          IN work' = w /\ Goto("sync", IF w.asked # {} THEN "fetch" ELSE "written")
    BY <1>2 DEF PageFails
  <2> DEFINE v == [work EXCEPT !.asked = @ \ {k}, !.errors = TRUE]
             label == IF v.asked # {} THEN "fetch" ELSE "written"
  <2>2. v \in WorkType /\ v.rows = work.rows
    BY <1>0 DEF WorkType
  <2>3. /\ work' = v /\ Goto("sync", label) /\ label \in Labels /\ label # "writeRows"
        /\ UNCHANGED <<ctx, provider, rules, byHand>>
        /\ product' = product /\ denom' = denom /\ runs' = runs /\ queue' = queue
    BY <1>2, <2>1 DEF PageFails, Labels, catalog, syncs
  <2> HIDE DEF v, label
  <2>4. Known(v.rows) /\ QueueTypes'
    BY <1>0, <2>2, <2>3 DEF Known, QueueTypes
  <2> QED BY <1>0, <2>2, <2>3, <2>4, WorkerStep DEF RowTypes, AllCovered
<1>3. CASE FinishRun
  BY <1>3, EndRunStep DEF FinishRun, RunStates
<1>4. CASE RunFails
  <2>1. EndRun("lost") \/ EndRun("FAILED")
    BY <1>4 DEF RunFails
  <2> QED BY <2>1, EndRunStep DEF RunStates
<1> QED BY <1>1, <1>2, <1>3, <1>4

-----------------------------------------------------------------------------
(* Requests                                                                  *)

\* A request that goes on at `label`, the rows as they were.
LEMMA ReadingRequest ==
  ASSUME IInv, NEW h \in Admins, NEW label \in Labels, Goto(h, label), UNCHANGED <<provider, work, catalog>>,
         ctx' \in [Admins -> CtxRec], \A g \in Admins \ {h} : ctx'[g] = ctx[g],
         rules' \subseteq Rules, QueueTypes', Prepared(h)'
  PROVE  IInv'
<1>0. RowTypes /\ ProcTypes /\ AllCovered
  BY DEF IInv
<1>1. /\ pc' \in [Admins \cup {"sync"} -> Labels] /\ pc'["sync"] = pc["sync"]
      /\ \A g \in Admins \ {h} : pc'[g] = pc[g]
  BY <1>0, AdminsAssumption DEF ProcTypes, Goto
<1>2. RowTypes' /\ AllCovered' /\ \A p \in Products : byHand[p] => byHand'[p]
  BY <1>0 DEF RowTypes, AllCovered, Covered, catalog
<1> QED BY <1>1, <1>2, RequestStep

\* The last step of a request: what it writes is covered.
LEMMA LastStep ==
  ASSUME IInv, NEW h \in Admins, Done(h), UNCHANGED <<provider, rules, work>>,
         QueueTypes', RowTypes', AllCovered', \A p \in Products : byHand[p] => byHand'[p]
  PROVE  IInv'
<1>0. ProcTypes
  BY DEF IInv
<1>1. /\ pc' \in [Admins \cup {"sync"} -> Labels] /\ pc'["sync"] = pc["sync"] /\ pc'[h] = "idle"
      /\ \A g \in Admins \ {h} : pc'[g] = pc[g]
  BY <1>0, AdminsAssumption DEF ProcTypes, Done, Labels
<1>2. ctx' \in [Admins -> CtxRec] /\ \A g \in Admins \ {h} : ctx'[g] = ctx[g]
  <2> HIDE DEF NoCtx
  <2> QED BY <1>0, NothingHeld DEF ProcTypes, Done
<1>3. Prepared(h)'
  BY <1>1 DEF Prepared
<1>4. rules' \subseteq Rules
  BY <1>0 DEF ProcTypes
<1> QED BY <1>1, <1>2, <1>3, <1>4, RequestStep

LEMMA EnqueueSteps ==
  ASSUME IInv, NEW h \in Admins, EnqueueCheck(h) \/ StartRun(h) \/ AddRun(h)
  PROVE  IInv'
<1>0. ProcTypes /\ QueueTypes /\ RowTypes /\ AllCovered
  BY DEF IInv
<1>1. CASE EnqueueCheck(h)
  <2>1. /\ Goto(h, "startRun") /\ "startRun" \in Labels /\ UNCHANGED <<provider, work, catalog>>
        /\ ctx' = ctx /\ rules' = rules /\ runs' = runs /\ queue' = queue
    BY <1>1 DEF EnqueueCheck, Labels, syncs
  <2>2. pc'[h] = "startRun"
    BY <1>0, <2>1 DEF Goto, ProcTypes
  <2>3. QueueTypes' /\ Prepared(h)' /\ ctx' \in [Admins -> CtxRec] /\ rules' \subseteq Rules
    BY <1>0, <2>1, <2>2 DEF QueueTypes, Prepared, ProcTypes
  <2> QED BY <2>1, <2>3, ReadingRequest
<1>2. CASE StartRun(h)
  <2>1. /\ Goto(h, "addRun") /\ "addRun" \in Labels /\ UNCHANGED <<provider, work, catalog>>
        /\ rules' = rules /\ queue' = queue /\ runs' = Append(runs, "RUNNING")
        /\ ctx' = [ctx EXCEPT ![h].p = Len(runs')]
    BY <1>2 DEF StartRun, Labels
  <2>2. runs' \in Seq(RunStates) /\ Len(runs') \in Nat
    <3>1. runs \in Seq(RunStates) /\ "RUNNING" \in RunStates
      BY <1>0 DEF QueueTypes, RunStates
    <3>2. runs' \in Seq(RunStates)
      BY <2>1, <3>1, AppendProperties
    <3> QED BY <3>2, LenProperties
  <2>3. ctx' \in [Admins -> CtxRec] /\ \A g \in Admins \ {h} : ctx'[g] = ctx[g]
    BY <1>0, <2>1, <2>2 DEF ProcTypes, CtxRec
  <2>4. pc'[h] = "addRun"
    BY <1>0, <2>1 DEF Goto, ProcTypes
  <2>5. QueueTypes' /\ Prepared(h)' /\ rules' \subseteq Rules
    BY <1>0, <2>1, <2>2, <2>4 DEF QueueTypes, Prepared, ProcTypes
  <2> QED BY <2>1, <2>3, <2>5, ReadingRequest
<1>3. CASE AddRun(h)
  <2>1. /\ Done(h) /\ UNCHANGED <<provider, rules, work>> /\ runs' = runs
        /\ queue' = Append(queue, ctx[h].p)
        /\ product' = product /\ denom' = denom /\ byHand' = byHand
    BY <1>3 DEF AddRun, catalog
  <2>2. queue \in Seq(Nat) /\ ctx[h].p \in Nat
    BY <1>0 DEF QueueTypes, ProcTypes, CtxRec
  <2>3. queue' \in Seq(Nat)
    BY <2>1, <2>2, AppendProperties
  <2>4. QueueTypes' /\ RowTypes' /\ AllCovered'
    BY <1>0, <2>1, <2>3 DEF QueueTypes, RowTypes, AllCovered, Covered
  <2> QED BY <2>1, <2>4, LastStep
<1> QED BY <1>1, <1>2, <1>3

LEMMA BeginSteps ==
  ASSUME IInv, NEW h \in Admins, BeginReconcile(h) \/ BeginReprice(h)
  PROVE  IInv'
<1>0. ProcTypes /\ QueueTypes
  BY DEF IInv
<1>1. PICK label \in {"discounts", "repriceAll"} : Request(h, 0, label) /\ rules' = rules
  BY DEF BeginReconcile, BeginReprice
<1>2. /\ Goto(h, label) /\ label \in Labels /\ UNCHANGED <<provider, work, catalog>>
      /\ ctx' = [ctx EXCEPT ![h].p = 0, ![h].rules = rules] /\ runs' = runs /\ queue' = queue
  BY <1>1 DEF Request, Labels, syncs
<1>3. ctx' \in [Admins -> CtxRec] /\ \A g \in Admins \ {h} : ctx'[g] = ctx[g]
  BY <1>0, <1>2 DEF ProcTypes, CtxRec
<1>4. pc'[h] = label
  BY <1>0, <1>2 DEF Goto, ProcTypes
<1>5. QueueTypes' /\ Prepared(h)' /\ rules' \subseteq Rules
  BY <1>0, <1>1, <1>2, <1>4 DEF QueueTypes, Prepared, ProcTypes
<1> QED BY <1>2, <1>3, <1>5, ReadingRequest

\* Rates that are dropped leave rates.
LEMMA RatesKept ==
  ASSUME NEW rates \in Rates, NEW p
  PROVE  Drop(rates, p) \in Rates
<1>1. PICK S \in SUBSET Products : rates \in [S -> Nat]
  BY DEF Rates
<1>2. Drop(rates, p) \in [S \ {p} -> Nat] /\ S \ {p} \in SUBSET Products
  BY <1>1 DEF Drop
<1> QED BY <1>2 DEF Rates

LEMMA DiscountPageStep ==
  ASSUME IInv, NEW h \in Admins, DiscountPage(h)
  PROVE  IInv'
<1>0. ProviderTypes /\ RowTypes /\ ProcTypes /\ QueueTypes /\ AllCovered
  BY DEF IInv
<1> DEFINE rates == [p \in OnPage(ctx[h].page) |-> offer[p].terms.discPct]
           next == IF ctx[h].page < TotalPages THEN ctx[h].page + 1 ELSE 0
<1>1. /\ pc[h] = "discounts" /\ pc' = pc /\ product' = product /\ denom' = denom /\ byHand' = byHand
      /\ ctx' = [ctx EXCEPT ![h].rates = rates, ![h].page = next]
      /\ UNCHANGED <<provider, work>> /\ rules' = rules /\ runs' = runs /\ queue' = queue
  BY DEF DiscountPage, Unchanged, syncs, catalog
<1>2. OnPage(ctx[h].page) \in SUBSET Products
  BY <1>0 DEF OnPage, ProviderTypes
<1>3. \A p \in Products : offer[p].terms.discPct \in Nat
  BY <1>0 DEF ProviderTypes, OfferRec, Terms
<1>4. rates \in Rates
  <2>1. rates \in [OnPage(ctx[h].page) -> Nat]
    BY <1>2, <1>3
  <2> HIDE DEF rates
  <2> QED BY <1>2, <2>1 DEF Rates
<1>5. next \in Nat
  BY <1>0 DEF ProcTypes, CtxRec
<1> HIDE DEF rates, next
<1>6. ctx' \in [Admins -> CtxRec] /\ \A g \in Admins \ {h} : ctx'[g] = ctx[g]
  BY <1>0, <1>1, <1>4, <1>5 DEF ProcTypes, CtxRec
<1>7. RowTypes' /\ AllCovered' /\ QueueTypes' /\ Prepared(h)' /\ rules' \subseteq Rules
  BY <1>0, <1>1 DEF RowTypes, AllCovered, Covered, QueueTypes, Prepared, ProcTypes
<1>8. pc' \in [Admins \cup {"sync"} -> Labels]
  BY <1>0, <1>1 DEF ProcTypes
<1> QED BY <1>1, <1>6, <1>7, <1>8, RequestStep

LEMMA DiscountReadStep ==
  ASSUME IInv, NEW h \in Admins, NEW p \in Products, DiscountRead(h, p)
  PROVE  IInv'
<1>0. RowTypes /\ ProcTypes /\ QueueTypes /\ AllCovered /\ p \in Nat
  BY ProductsAssumption DEF IInv
<1>1. /\ pc[h] = "discounts" /\ p \in DOMAIN ctx[h].rates
      /\ product' = product /\ denom' = denom /\ byHand' = byHand
      /\ UNCHANGED <<provider, work, catalog>> /\ rules' = rules /\ runs' = runs /\ queue' = queue
  BY DEF DiscountRead, Unchanged, syncs, catalog
<1>2. ctx[h] \in CtxRec /\ ctx[h].rates \in Rates
  BY <1>0 DEF ProcTypes, CtxRec
<1>3. RowTypes' /\ AllCovered' /\ QueueTypes' /\ rules' \subseteq Rules
  BY <1>0, <1>1 DEF RowTypes, AllCovered, Covered, QueueTypes, ProcTypes
<1>4. CASE ctx' = [ctx EXCEPT ![h].p = p] /\ Goto(h, "discountWrite")
  <2>1. /\ ctx' \in [Admins -> CtxRec] /\ \A g \in Admins \ {h} : ctx'[g] = ctx[g]
        /\ ctx'[h].p = p /\ ctx'[h].rates = ctx[h].rates
    BY <1>0, <1>2, <1>4 DEF ProcTypes, CtxRec
  <2>2. pc'[h] = "discountWrite" /\ "discountWrite" \in Labels
    BY <1>0, <1>4 DEF Goto, ProcTypes, Labels
  <2>3. Prepared(h)'
    BY <1>1, <2>1, <2>2 DEF Prepared
  <2> QED BY <1>1, <1>3, <1>4, <2>1, <2>2, <2>3, ReadingRequest
<1>5. CASE ctx' = [ctx EXCEPT ![h].rates = Drop(ctx[h].rates, p)] /\ pc' = pc
  <2>1. ctx' \in [Admins -> CtxRec] /\ \A g \in Admins \ {h} : ctx'[g] = ctx[g]
    BY <1>0, <1>2, <1>5, RatesKept DEF ProcTypes, CtxRec
  <2>2. Prepared(h)' /\ pc' \in [Admins \cup {"sync"} -> Labels]
    BY <1>0, <1>1, <1>5 DEF Prepared, ProcTypes
  <2> QED BY <1>1, <1>3, <1>5, <2>1, <2>2, RequestStep
<1>6. \/ ctx' = [ctx EXCEPT ![h].p = p] /\ Goto(h, "discountWrite")
      \/ ctx' = [ctx EXCEPT ![h].rates = Drop(ctx[h].rates, p)] /\ pc' = pc
  BY DEF DiscountRead
<1> QED BY <1>4, <1>5, <1>6

LEMMA DiscountWriteStep ==
  ASSUME IInv, NEW h \in Admins, DiscountWrite(h)
  PROVE  IInv'
<1>0. RowTypes /\ ProcTypes /\ QueueTypes /\ AllCovered /\ Prepared(h)
  BY DEF IInv
<1> DEFINE p == ctx[h].p
           rates == ctx[h].rates
<1>1. /\ pc[h] = "discountWrite" /\ Goto(h, "discounts") /\ denom' = denom /\ byHand' = byHand
      /\ product' = [product EXCEPT ![p].terms.discPct = rates[p]]
      /\ ctx' = [ctx EXCEPT ![h].p = 0, ![h].rates = Drop(rates, p), ![h].todo = @ \cup {p}]
      /\ UNCHANGED <<provider, work>> /\ rules' = rules /\ runs' = runs /\ queue' = queue
  BY DEF DiscountWrite, Unchanged, syncs
<1>2. rates \in Rates /\ p \in DOMAIN rates
  BY <1>0, <1>1 DEF ProcTypes, CtxRec, Prepared
<1> HIDE DEF p, rates
<1>3. p \in Products /\ rates[p] \in Nat
  BY <1>2 DEF Rates
<1>4. product' \in [Products -> ProductRow]
  <2> DEFINE row == [product[p] EXCEPT !.terms = [@ EXCEPT !.discPct = rates[p]]]
  <2>1. product[p] \in ProductRow
    BY <1>0, <1>3 DEF RowTypes
  <2>2. row \in ProductRow
    BY <1>3, <2>1 DEF ProductRow, Terms
  <2>3. product' = [product EXCEPT ![p] = row]
    BY <1>1
  <2> HIDE DEF row
  <2> QED BY <1>0, <2>2, <2>3 DEF RowTypes
<1>5. ctx' \in [Admins -> CtxRec] /\ \A g \in Admins \ {h} : ctx'[g] = ctx[g]
  <2> DEFINE left == Drop(rates, p)
             new == [ctx[h] EXCEPT !.p = 0, !.rates = left, !.todo = @ \cup {p}]
  <2>1. left \in Rates
    BY <1>2, RatesKept
  <2>2. ctx' = [ctx EXCEPT ![h] = new] /\ ctx \in [Admins -> CtxRec]
    BY <1>0, <1>1 DEF ProcTypes
  <2> HIDE DEF left
  <2>3. new \in CtxRec
    BY <1>3, <2>1, <2>2 DEF CtxRec
  <2> HIDE DEF new
  <2> QED BY <2>2, <2>3
<1>6. /\ pc' \in [Admins \cup {"sync"} -> Labels] /\ pc'["sync"] = pc["sync"] /\ pc'[h] = "discounts"
      /\ \A g \in Admins \ {h} : pc'[g] = pc[g]
  BY <1>0, <1>1, AdminsAssumption DEF ProcTypes, Goto, Labels
<1>7. RowTypes' /\ AllCovered' /\ QueueTypes' /\ Prepared(h)' /\ rules' \subseteq Rules
  BY <1>0, <1>1, <1>4, <1>6 DEF RowTypes, AllCovered, Covered, QueueTypes, Prepared, ProcTypes
<1> QED BY <1>1, <1>5, <1>6, <1>7, RequestStep

LEMMA RepriceReadStep ==
  ASSUME IInv, NEW h \in Admins, RepriceRead(h)
  PROVE  IInv'
<1>0. RowTypes /\ ProcTypes /\ QueueTypes /\ AllCovered
  BY DEF IInv
<1> DEFINE todo == IF pc[h] = "discounts" THEN ctx[h].todo ELSE Live
           rows == [p \in todo |-> [product |-> product[p], denom |-> denom[p]]]
<1>1. /\ ctx' = [ctx EXCEPT ![h].rows = rows] /\ Goto(h, "repriceWrite") /\ "repriceWrite" \in Labels
      /\ UNCHANGED <<provider, work, catalog>> /\ byHand' = byHand
      /\ rules' = rules /\ runs' = runs /\ queue' = queue
  BY DEF RepriceRead, Unchanged, Labels, syncs, catalog
<1>2. todo \in SUBSET Products
  BY <1>0 DEF ProcTypes, CtxRec, Live
<1> HIDE DEF todo
<1>3. rows \in [todo -> RowPair] /\ DOMAIN rows = todo
  BY <1>0, <1>2 DEF RowTypes, RowPair
<1>4. \A p \in DOMAIN rows : rows[p].denom.manual => byHand[p]
  BY <1>0, <1>2 DEF AllCovered, Covered
<1> HIDE DEF rows
<1>5. rows \in PairRows
  BY <1>2, <1>3 DEF PairRows
<1>6. /\ ctx' \in [Admins -> CtxRec] /\ ctx'[h].rows = rows
      /\ \A g \in Admins \ {h} : ctx'[g] = ctx[g]
  BY <1>0, <1>1, <1>5 DEF ProcTypes, CtxRec
<1>7. pc'[h] = "repriceWrite"
  BY <1>0, <1>1 DEF Goto, ProcTypes
<1>8. Prepared(h)'
  <2>1. ctx'[h].rows \in PairRows /\ Known(ctx[h].rows)'
    BY <1>1, <1>4, <1>5, <1>6 DEF Known
  <2>2. PairRows' = PairRows
    BY DEF PairRows, RowPair, ProductRow, DenomRow
  <2> QED BY <1>7, <2>1, <2>2 DEF Prepared
<1>9. QueueTypes' /\ rules' \subseteq Rules
  BY <1>0, <1>1 DEF QueueTypes, ProcTypes
<1> QED BY <1>1, <1>6, <1>8, <1>9, ReadingRequest

LEMMA RepriceWriteStep ==
  ASSUME IInv, NEW h \in Admins, RepriceWrite(h)
  PROVE  IInv'
<1> DEFINE rows == ctx[h].rows
           Todo == {p \in DOMAIN rows : rows[p].denom.status \notin {"none", "ARCHIVED"}}
           RuleOf(p) == RuleFor(ctx[h].rules, p, rows[p].product)
           R(p) == CHOOSE r \in RuleOf(p) : TRUE
           I(p) == [rows[p].product.terms EXCEPT !.cost = rows[p].denom.cost]
           D(p) == Priced(rows[p].denom, I(p), R(p))
           Row(p) == [denom[p] EXCEPT
              !.net = D(p).net, !.viable = D(p).viable,
              !.retail = IF rows[p].denom.manual THEN @ ELSE D(p).retail,
              !.status = IF ~D(p).viable /\ rows[p].denom.status = "PUBLISHED" THEN "DRAFT" ELSE @]
<1>0. /\ RowTypes /\ AllCovered /\ QueueTypes /\ ctx[h].rules \in SUBSET Rules
      /\ rows \in PairRows /\ Known(rows)
  BY DEF IInv, ProcTypes, CtxRec, Prepared, RepriceWrite
<1>1. ASSUME NEW p \in Products, p \in Todo, \A q \in Todo : RuleOf(q) # {}
      PROVE  Row(p) \in DenomRow /\ Covered(Row(p), p)
  <2>1. rows[p] \in RowPair /\ p \in DOMAIN rows
    BY <1>0, <1>1 DEF PairRows
  <2>2. R(p) \in Rules
    <3>1. RuleOf(p) \subseteq Rules /\ RuleOf(p) # {}
      BY <1>0, <1>1, Resolved DEF RuleFor
    <3> QED BY <3>1
  <2>3. rows[p].denom \in DenomRow /\ rows[p].product.terms \in Terms /\ rows[p].denom.cost \in Nat
    BY <2>1 DEF RowPair, ProductRow, DenomRow
  <2>4. I(p) \in Terms
    BY <2>3 DEF Terms
  <2>5. denom[p] \in DenomRow /\ Covered(denom[p], p)
    BY <1>0 DEF RowTypes, AllCovered
  <2> DEFINE e == rows[p].denom
  <2>6. e.manual \in BOOLEAN /\ (e.manual => byHand[p])
    BY <1>0, <2>1, <2>3 DEF DenomRow, Known
  <2> HIDE DEF R, I
  <2>7. /\ D(p) \in DenomRow
        /\ D(p).viable /\ ~byHand[p] => D(p).retail * 10000 >= D(p).net * (100 + LeastMargin)
    BY <2>2, <2>3, <2>4, <2>6, PricedCovered
  <2> HIDE DEF D
  <2>8. denom[p].manual \in BOOLEAN /\ (denom[p].manual => byHand[p])
    BY <2>5 DEF DenomRow, Covered
  <2> HIDE DEF e, rows
  <2>9. Row(p) \in DenomRow
    <3> DEFINE retail == IF rows[p].denom.manual THEN denom[p].retail ELSE D(p).retail
               status == IF ~D(p).viable /\ rows[p].denom.status = "PUBLISHED" THEN "DRAFT"
                         ELSE denom[p].status
    <3>1. /\ retail \in Int /\ status \in Statuses \cup {"none"}
          /\ D(p).net \in Int /\ D(p).viable \in BOOLEAN
      BY <2>5, <2>7 DEF DenomRow, Statuses
    <3>2. Row(p) = [denom[p] EXCEPT !.net = D(p).net, !.viable = D(p).viable,
                                    !.retail = retail, !.status = status]
      BY <2>5 DEF DenomRow
    <3> HIDE DEF retail, status, Row
    <3> QED BY <2>5, <3>1, <3>2 DEF DenomRow
  <2>10. /\ Row(p).manual = denom[p].manual /\ Row(p).viable = D(p).viable /\ Row(p).net = D(p).net
         /\ Row(p).retail = IF rows[p].denom.manual THEN denom[p].retail ELSE D(p).retail
    BY <2>5 DEF DenomRow
  <2> HIDE DEF Row
  <2>11. ~byHand[p] => Row(p).retail = D(p).retail
    BY <2>6, <2>10 DEF e
  <2> QED BY <2>7, <2>8, <2>9, <2>10, <2>11 DEF Covered
<1>2. /\ denom' = [p \in Products |->
           IF p \in Todo /\ (\A q \in Todo : RuleOf(q) # {}) THEN Row(p) ELSE denom[p]]
      /\ Done(h) /\ UNCHANGED <<provider, rules, work>> /\ product' = product /\ byHand' = byHand
      /\ runs' = runs /\ queue' = queue
  BY DEF RepriceWrite, Unchanged, syncs
<1> HIDE DEF Row, Todo, RuleOf
<1>3. ASSUME NEW p \in Products PROVE denom'[p] \in DenomRow /\ Covered(denom'[p], p)
  <2>1. denom[p] \in DenomRow /\ Covered(denom[p], p)
    BY <1>0 DEF RowTypes, AllCovered
  <2>2. CASE p \in Todo /\ (\A q \in Todo : RuleOf(q) # {})
    <3>1. denom'[p] = Row(p)
      BY <1>2, <2>2
    <3> QED BY <1>1, <2>2, <3>1 DEF Covered
  <2>3. CASE ~(p \in Todo /\ (\A q \in Todo : RuleOf(q) # {}))
    <3>1. denom'[p] = denom[p]
      BY <1>2, <2>3
    <3> QED BY <2>1, <3>1 DEF Covered
  <2> QED BY <2>2, <2>3
<1>4. RowTypes' /\ QueueTypes'
  BY <1>0, <1>2, <1>3 DEF RowTypes, QueueTypes
<1>5. AllCovered'
  BY <1>2, <1>3 DEF AllCovered, Covered
<1> QED BY <1>2, <1>4, <1>5, LastStep

\* Reading for a quote or for an edit.
LEMMA ReadForEdit ==
  ASSUME IInv, NEW h \in Admins, NEW p \in Products, ReadDenomination(h, p) \/ BeginQuote(h, p)
  PROVE  IInv'
<1>0. RowTypes /\ ProcTypes /\ QueueTypes
  BY DEF IInv
<1>1. CASE ReadDenomination(h, p)
  <2>1. /\ ctx' = [ctx EXCEPT ![h].p = p, ![h].viable = denom[p].viable, ![h].net = denom[p].net]
        /\ Goto(h, "editDenomination") /\ "editDenomination" \in Labels
        /\ UNCHANGED <<provider, work, catalog>> /\ rules' = rules /\ runs' = runs /\ queue' = queue
    BY <1>1 DEF ReadDenomination, Labels, syncs
  <2>2. p \in Nat /\ denom[p].viable \in BOOLEAN /\ denom[p].net \in Int
    BY <1>0, ProductsAssumption DEF RowTypes, DenomRow
  <2>3. ctx' \in [Admins -> CtxRec] /\ \A g \in Admins \ {h} : ctx'[g] = ctx[g]
    <3> DEFINE c == [ctx[h] EXCEPT !.p = p, !.viable = denom[p].viable, !.net = denom[p].net]
    <3>1. ctx \in [Admins -> CtxRec] /\ ctx[h] \in CtxRec
      BY <1>0 DEF ProcTypes
    <3>2. c \in CtxRec
      BY <2>2, <3>1 DEF CtxRec
    <3>3. ctx' = [ctx EXCEPT ![h] = c]
      BY <2>1
    <3> HIDE DEF c
    <3> QED BY <3>1, <3>2, <3>3
  <2>4. pc'[h] = "editDenomination"
    BY <1>0, <2>1 DEF Goto, ProcTypes
  <2>5. QueueTypes' /\ Prepared(h)' /\ rules' \subseteq Rules
    BY <1>0, <2>1, <2>4 DEF QueueTypes, Prepared, ProcTypes
  <2> QED BY <2>1, <2>3, <2>5, ReadingRequest
<1>2. CASE BeginQuote(h, p)
  <2> DEFINE rows == [q \in {p} |-> [product |-> product[q]]]
  <2>1. /\ ctx' = [ctx EXCEPT ![h].p = p, ![h].rows = rows]
        /\ Goto(h, "quote") /\ "quote" \in Labels
        /\ UNCHANGED <<provider, work, catalog>> /\ rules' = rules /\ runs' = runs /\ queue' = queue
    BY <1>2 DEF BeginQuote, Labels, syncs
  <2>2. p \in Nat /\ rows \in [{p} -> [product : ProductRow]] /\ rows[p].product \in ProductRow
    BY <1>0, ProductsAssumption DEF RowTypes
  <2> HIDE DEF rows
  <2>3. rows \in QuoteRows
    BY <2>2 DEF QuoteRows
  <2>4. /\ ctx' \in [Admins -> CtxRec] /\ ctx'[h].p = p /\ ctx'[h].rows = rows
        /\ \A g \in Admins \ {h} : ctx'[g] = ctx[g]
    <3> DEFINE c == [ctx[h] EXCEPT !.p = p, !.rows = rows]
    <3>1. ctx \in [Admins -> CtxRec] /\ ctx[h] \in CtxRec
      BY <1>0 DEF ProcTypes
    <3>2. c \in CtxRec /\ c.p = p /\ c.rows = rows
      BY <2>2, <2>3, <3>1 DEF CtxRec
    <3>3. ctx' = [ctx EXCEPT ![h] = c]
      BY <2>1
    <3> HIDE DEF c
    <3> QED BY <3>1, <3>2, <3>3
  <2>5. pc'[h] = "quote"
    BY <1>0, <2>1 DEF Goto, ProcTypes
  <2>6. QueueTypes' /\ rules' \subseteq Rules
    BY <1>0, <2>1 DEF QueueTypes, ProcTypes
  <2>7. Prepared(h)'
    BY <2>2, <2>4, <2>5 DEF Prepared, ProductRow
  <2> QED BY <2>1, <2>4, <2>6, <2>7, ReadingRequest
<1> QED BY <1>1, <1>2

LEMMA QuoteCostStep ==
  ASSUME IInv, NEW h \in Admins, QuoteCost(h)
  PROVE  IInv'
<1>0. RowTypes /\ ProcTypes /\ QueueTypes /\ ProviderTypes /\ Prepared(h) /\ pc[h] = "quote"
  BY DEF IInv, QuoteCost
<1> DEFINE i == ctx[h].rows[ctx[h].p].product.terms
           net == IF i.same THEN i.face ELSE offer[ctx[h].p].terms.cost
<1>1. /\ ctx' = [ctx EXCEPT ![h].rules = rules, ![h].net = net]
      /\ Goto(h, "quotePriced") /\ "quotePriced" \in Labels
      /\ UNCHANGED <<provider, work, catalog>> /\ rules' = rules /\ runs' = runs /\ queue' = queue
  BY DEF QuoteCost, Unchanged, Labels, syncs
<1>2. ctx[h].p \in Products /\ ctx[h].rows[ctx[h].p].product \in ProductRow
  BY <1>0 DEF Prepared
<1>3. net \in Nat
  BY <1>0, <1>2 DEF ProductRow, ProviderTypes, OfferRec, Terms
<1> HIDE DEF net
<1>4. /\ ctx' \in [Admins -> CtxRec] /\ ctx'[h].p = ctx[h].p /\ ctx'[h].rows = ctx[h].rows
      /\ ctx'[h].net = net /\ \A g \in Admins \ {h} : ctx'[g] = ctx[g]
  <2> DEFINE c == [ctx[h] EXCEPT !.rules = rules, !.net = net]
  <2>1. ctx[h] \in CtxRec /\ rules \in SUBSET Rules /\ net \in Int
    BY <1>0, <1>3 DEF ProcTypes
  <2>2. c \in CtxRec /\ c.p = ctx[h].p /\ c.rows = ctx[h].rows /\ c.net = net
    BY <2>1 DEF CtxRec
  <2>3. ctx' = [ctx EXCEPT ![h] = c]
    BY <1>0, <1>1 DEF ProcTypes
  <2> HIDE DEF c
  <2> QED BY <1>0, <2>2, <2>3 DEF ProcTypes
<1>5. pc'[h] = "quotePriced"
  BY <1>0, <1>1 DEF Goto, ProcTypes
<1>6. QueueTypes' /\ rules' \subseteq Rules
  BY <1>0, <1>1 DEF QueueTypes, ProcTypes
<1>7. Prepared(h)'
  BY <1>2, <1>3, <1>4, <1>5 DEF Prepared, ProductRow
<1> QED BY <1>1, <1>4, <1>6, <1>7, ReadingRequest

LEMMA QuoteStep ==
  ASSUME IInv, NEW h \in Admins, Quote(h)
  PROVE  IInv'
<1> DEFINE p == ctx[h].p
           row == ctx[h].rows[p].product
           hits == RuleFor(ctx[h].rules, p, row)
           r == CHOOSE r \in hits : TRUE
           i == [row.terms EXCEPT !.cost = ctx[h].net]
           d == [denom[p] EXCEPT !.status = "PUBLISHED", !.viable = TRUE, !.seen = Len(runs),
                                 !.cost = i.cost, !.net = NetCost(i), !.retail = RetailPrice(i, r)]
<1>0. /\ RowTypes /\ AllCovered /\ QueueTypes /\ ctx[h].rules \in SUBSET Rules
      /\ p \in Products /\ row \in ProductRow /\ ctx[h].net \in Nat
  BY DEF IInv, ProcTypes, CtxRec, Prepared, Quote
<1>1. /\ denom' = IF hits # {} /\ Viable(i, r) THEN [denom EXCEPT ![p] = d] ELSE denom
      /\ Done(h) /\ UNCHANGED <<provider, rules, work>> /\ product' = product /\ byHand' = byHand
      /\ runs' = runs /\ queue' = queue
  BY DEF Quote, Unchanged, syncs
<1>2. ASSUME hits # {}, Viable(i, r) PROVE d \in DenomRow /\ Covered(d, p)
  <2>1. r \in Rules
    <3>1. hits \subseteq Rules
      BY <1>0, Resolved DEF RuleFor
    <3> QED BY <1>2, <3>1
  <2>2. IsRule(r)
    BY <2>1, RulesAssumption DEF IsRule
  <2>3. i \in Terms /\ i.cost \in Nat
    BY <1>0 DEF ProductRow, Terms
  <2>4. Viable(i, r)
    BY <1>2
  <2>5. denom[p] \in DenomRow /\ Covered(denom[p], p) /\ Len(runs) \in Nat
    BY <1>0, LenProperties DEF RowTypes, AllCovered, QueueTypes
  <2> HIDE DEF r, i, p
  <2>6. NetCost(i) \in Int /\ RetailPrice(i, r) \in Int
    BY <2>2, <2>3, PriceTypes
  <2>7. RetailPrice(i, r) * 10000 >= NetCost(i) * (100 + LeastMargin)
    BY <2>1, <2>3, <2>4, LeastMarginKept
  <2>8. d \in DenomRow
    BY <2>3, <2>5, <2>6 DEF DenomRow, Statuses
  <2>9. d.manual = denom[p].manual /\ d.retail = RetailPrice(i, r) /\ d.net = NetCost(i)
    BY <2>5 DEF DenomRow
  <2> HIDE DEF d
  <2> QED BY <2>5, <2>7, <2>8, <2>9 DEF Covered
<1> HIDE DEF d, hits, r, i
<1>3. ASSUME NEW q \in Products PROVE denom'[q] \in DenomRow /\ Covered(denom'[q], q)
  <2>1. denom[q] \in DenomRow /\ Covered(denom[q], q) /\ denom \in [Products -> DenomRow]
    BY <1>0 DEF RowTypes, AllCovered
  <2>2. denom'[q] = denom[q] \/ (q = p /\ denom'[q] = d /\ hits # {} /\ Viable(i, r))
    BY <1>1, <2>1
  <2>3. CASE denom'[q] = denom[q]
    BY <2>1, <2>3 DEF Covered
  <2>4. CASE q = p /\ denom'[q] = d /\ hits # {} /\ Viable(i, r)
    BY <1>2, <2>4 DEF Covered
  <2> QED BY <2>2, <2>3, <2>4
<1>4. denom' \in [Products -> DenomRow]
  <2>1. DOMAIN denom' = Products /\ denom' = [q \in Products |-> denom'[q]]
    BY <1>0, <1>1 DEF RowTypes
  <2> QED BY <1>3, <2>1
<1>5. RowTypes' /\ QueueTypes'
  BY <1>0, <1>1, <1>4 DEF RowTypes, QueueTypes
<1>6. AllCovered'
  BY <1>1, <1>3 DEF AllCovered, Covered
<1> QED BY <1>1, <1>5, <1>6, LastStep

LEMMA SetStatusStep ==
  ASSUME IInv, NEW h \in Admins, NEW s \in Statuses, SetDenominationStatus(h, s)
  PROVE  IInv'
<1>0. RowTypes /\ AllCovered /\ QueueTypes
  BY DEF IInv
<1> DEFINE p == ctx[h].p
<1>1. /\ denom' = [denom EXCEPT ![p].status = s] /\ product' = product /\ byHand' = byHand
      /\ Done(h) /\ UNCHANGED <<provider, rules, work>> /\ runs' = runs /\ queue' = queue
  BY DEF SetDenominationStatus, Unchanged, syncs
<1>2. denom' \in [Products -> DenomRow]
  BY <1>0, <1>1 DEF RowTypes, DenomRow
<1>3. \A q \in Products : /\ denom'[q].manual = denom[q].manual /\ denom'[q].viable = denom[q].viable
                         /\ denom'[q].retail = denom[q].retail /\ denom'[q].net = denom[q].net
  BY <1>0, <1>1 DEF RowTypes, DenomRow
<1>4. RowTypes' /\ QueueTypes' /\ AllCovered'
  BY <1>0, <1>1, <1>2, <1>3 DEF RowTypes, QueueTypes, AllCovered, Covered
<1> QED BY <1>1, <1>4, LastStep

LEMMA SetPriceStep ==
  ASSUME IInv, NEW h \in Admins, NEW cents \in HandPrices, NEW manual \in BOOLEAN,
         SetDenominationPrice(h, cents, manual)
  PROVE  IInv'
<1>0. RowTypes /\ AllCovered /\ QueueTypes
  BY DEF IInv
<1> DEFINE p == ctx[h].p
           viable == cents * 100 > ctx[h].net
<1>1. /\ denom' = [denom EXCEPT ![p].retail = cents, ![p].manual = manual, ![p].viable = viable]
      /\ product' = product /\ byHand' = [byHand EXCEPT ![p] = TRUE]
      /\ Done(h) /\ UNCHANGED <<provider, rules, work>> /\ runs' = runs /\ queue' = queue
  BY DEF SetDenominationPrice, Unchanged, syncs
<1>2. cents \in Int /\ viable \in BOOLEAN
  BY RulesAssumption
<1> HIDE DEF viable
<1>3. denom' \in [Products -> DenomRow] /\ byHand' \in [Products -> BOOLEAN]
  <2>1. byHand' \in [Products -> BOOLEAN]
    BY <1>0, <1>1 DEF RowTypes
  <2>2. CASE p \in Products
    <3> DEFINE d == [denom[p] EXCEPT !.retail = cents, !.manual = manual, !.viable = viable]
    <3>1. d \in DenomRow
      <4>1. denom[p] \in DenomRow
        BY <1>0, <2>2 DEF RowTypes
      <4> HIDE DEF p
      <4> QED BY <1>2, <4>1 DEF DenomRow
    <3>2. denom' = [denom EXCEPT ![p] = d]
      <4> HIDE DEF p
      <4> QED BY <1>0, <1>1, <2>2 DEF RowTypes
    <3> HIDE DEF d
    <3> QED BY <1>0, <2>1, <3>1, <3>2 DEF RowTypes
  <2>3. CASE p \notin Products
    <3>1. denom' = denom
      BY <1>0, <1>1, <2>3 DEF RowTypes
    <3> QED BY <1>0, <2>1, <3>1 DEF RowTypes
  <2> QED BY <2>2, <2>3
<1>4. \A q \in Products : byHand[q] => byHand'[q]
  BY <1>0, <1>1 DEF RowTypes
<1>5. ASSUME NEW q \in Products PROVE Covered(denom[q], q)'
  <2>1. CASE q = p
    <3>1. byHand'[q]
      BY <1>0, <1>1, <2>1 DEF RowTypes
    <3> QED BY <3>1 DEF Covered
  <2>2. CASE q # p
    <3>1. denom'[q] = denom[q] /\ byHand'[q] = byHand[q]
      BY <1>0, <1>1, <2>2 DEF RowTypes
    <3> QED BY <1>0, <3>1 DEF AllCovered, Covered
  <2> QED BY <2>1, <2>2
<1>6. RowTypes' /\ QueueTypes' /\ AllCovered'
  BY <1>0, <1>1, <1>3, <1>5 DEF RowTypes, QueueTypes, AllCovered
<1> QED BY <1>1, <1>4, <1>6, LastStep

-----------------------------------------------------------------------------
(* Steps of neither                                                          *)

LEMMA EditStep ==
  ASSUME IInv, EditOnly, rules' \subseteq Rules, product' \in [Products -> ProductRow],
         denom' \in [Products -> DenomRow],
         \A q \in Products : /\ denom'[q].manual = denom[q].manual /\ denom'[q].viable = denom[q].viable
                            /\ denom'[q].retail = denom[q].retail /\ denom'[q].net = denom[q].net
  PROVE  IInv'
<1>0. /\ ProviderTypes /\ RowTypes /\ QueueTypes /\ ProcTypes /\ WalkPrepared
      /\ (\A h \in Admins : Prepared(h)) /\ AllCovered
  BY DEF IInv
<1>1. /\ listed' = listed /\ offer' = offer /\ byHand' = byHand /\ runs' = runs /\ queue' = queue
      /\ pc' = pc /\ work' = work /\ ctx' = ctx
  BY DEF EditOnly, provider, syncs
<1>2. ProviderTypes' /\ RowTypes' /\ QueueTypes' /\ ProcTypes'
  BY <1>0, <1>1 DEF ProviderTypes, RowTypes, QueueTypes, ProcTypes
<1>3. WalkPrepared' /\ (\A h \in Admins : Prepared(h)') /\ AllCovered'
  BY <1>0, <1>1 DEF WalkPrepared, Prepared, Known, AllCovered, Covered
<1> QED BY <1>2, <1>3 DEF IInv

LEMMA EditSteps ==
  ASSUME IInv, NEW p \in Products,
         \/ \E s \in Statuses : SetProductStatus(p, s)
         \/ \E r \in Rules : UpsertRule(r) \/ AssignRule(p, r.id)
  PROVE  IInv'
<1>0. RowTypes /\ rules \subseteq Rules
  BY DEF IInv, ProcTypes
<1>1. CASE \E s \in Statuses : SetProductStatus(p, s)
  <2>1. PICK s \in Statuses : SetProductStatus(p, s)
    BY <1>1
  <2>2. /\ product' = [product EXCEPT ![p].status = s] /\ rules' = rules /\ EditOnly
        /\ denom' \in {denom, [denom EXCEPT ![p].status = s]}
    BY <2>1 DEF SetProductStatus
  <2>3. product' \in [Products -> ProductRow]
    BY <1>0, <2>2 DEF RowTypes, ProductRow
  <2>4. denom' \in [Products -> DenomRow]
    BY <1>0, <2>2 DEF RowTypes, DenomRow
  <2>5. \A q \in Products :
          /\ denom'[q].manual = denom[q].manual /\ denom'[q].viable = denom[q].viable
          /\ denom'[q].retail = denom[q].retail /\ denom'[q].net = denom[q].net
    BY <1>0, <2>2 DEF RowTypes, DenomRow
  <2> QED BY <1>0, <2>2, <2>3, <2>4, <2>5, EditStep
<1>2. ASSUME NEW r \in Rules, UpsertRule(r) PROVE IInv'
  <2>1. rules' \subseteq Rules /\ EditOnly /\ product' = product /\ denom' = denom
    BY <1>0, <1>2 DEF UpsertRule
  <2> QED BY <1>0, <2>1, EditStep DEF RowTypes
<1>3. ASSUME NEW r \in Rules, AssignRule(p, r.id) PROVE IInv'
  <2>1. /\ rules' = rules /\ denom' = denom /\ EditOnly
        /\ product' = [product EXCEPT ![p].pin = r.id]
    BY <1>3 DEF AssignRule
  <2>2. product' \in [Products -> ProductRow]
    BY <1>0, <2>1 DEF RowTypes, ProductRow
  <2> QED BY <1>0, <2>1, <2>2, EditStep DEF RowTypes
<1> QED BY <1>1, <1>2, <1>3

LEMMA CrashStep ==
  ASSUME IInv, Crash
  PROVE  IInv'
<1>0. ProviderTypes /\ RowTypes /\ QueueTypes /\ ProcTypes /\ AllCovered
  BY DEF IInv
<1>1. /\ queue' = IF work.run = 0 THEN queue ELSE <<work.run>> \o queue
      /\ work' = Idle /\ pc' = [a \in Admins \cup {"sync"} |-> "idle"]
      /\ ctx' = [h \in Admins |-> NoCtx]
      /\ UNCHANGED <<listed, offer, rules, product, denom, byHand, runs>>
  BY DEF Crash, provider, catalog
<1>2. queue' \in Seq(Nat)
  <2>1. queue \in Seq(Nat) /\ work.run \in Nat
    BY <1>0 DEF QueueTypes, ProcTypes, WorkType
  <2>2. <<work.run>> \in Seq(Nat)
    BY <2>1
  <2>3. <<work.run>> \o queue \in Seq(Nat)
    BY <2>1, <2>2, ConcatProperties
  <2> QED BY <1>1, <2>1, <2>3
<1>3. ProviderTypes' /\ RowTypes' /\ QueueTypes' /\ AllCovered'
  BY <1>0, <1>1, <1>2 DEF ProviderTypes, RowTypes, QueueTypes, AllCovered, Covered
<1>4. ProcTypes'
  <2> HIDE DEF Idle, NoCtx
  <2>1. "idle" \in Labels
    BY DEF Labels
  <2> QED BY <1>0, <1>1, <2>1, NothingHeld DEF ProcTypes
<1>5. \A a \in Admins \cup {"sync"} : pc'[a] = "idle"
  BY <1>1
<1>6. WalkPrepared'
  BY <1>1, <1>5, NothingHeld, EmptyRows DEF WalkPrepared, Known
<1>7. \A h \in Admins : Prepared(h)'
  BY <1>5 DEF Prepared
<1> QED BY <1>3, <1>4, <1>6, <1>7 DEF IInv

LEMMA ChangeStep ==
  ASSUME IInv, Change
  PROVE  IInv'
<1>0. /\ ProviderTypes /\ RowTypes /\ QueueTypes /\ ProcTypes /\ WalkPrepared
      /\ (\A h \in Admins : Prepared(h)) /\ AllCovered
  BY DEF IInv
<1>1. /\ UNCHANGED <<rules, product, denom, byHand, runs, queue, pc, ctx>>
      /\ work' \in {work, [work EXCEPT !.moved = pc["sync"] # "idle"]}
  BY DEF Change, catalog, syncs
<1>2. ProviderTypes'
  <2>1. PICK p \in Products :
          \/ listed' \in {listed \ {p}, listed \cup {p}} /\ offer' = offer
          \/ /\ \E o \in [terms : Offers, active : BOOLEAN, stocked : BOOLEAN] :
                   offer' = [offer EXCEPT ![p] = o]
             /\ listed' = listed
    BY DEF Change
  <2>2. [terms : Offers, active : BOOLEAN, stocked : BOOLEAN] \subseteq OfferRec
    BY OffersAssumption DEF OfferRec
  <2> QED BY <1>0, <2>1, <2>2 DEF ProviderTypes
<1>3. work' \in WorkType /\ work'.rows = work.rows /\ work'.items = work.items
  BY <1>0, <1>1 DEF ProcTypes, WorkType
<1>4. RowTypes' /\ QueueTypes' /\ ProcTypes'
  BY <1>0, <1>1, <1>3 DEF RowTypes, QueueTypes, ProcTypes
<1>5. WalkPrepared'
  BY <1>0, <1>1, <1>3 DEF WalkPrepared, Known
<1>6. (\A h \in Admins : Prepared(h)') /\ AllCovered'
  BY <1>0, <1>1 DEF Prepared, Known, AllCovered, Covered
<1> QED BY <1>2, <1>4, <1>5, <1>6 DEF IInv

-----------------------------------------------------------------------------
LEMMA InitHolds == Init => IInv
<1> SUFFICES ASSUME Init PROVE IInv
  OBVIOUS
<1>1. PICK t \in [Products -> Offers] :
        /\ offer = [p \in Products |-> [terms |-> t[p], active |-> TRUE, stocked |-> TRUE]]
        /\ product = [p \in Products |-> [status |-> "PUBLISHED", seen |-> 0, terms |-> t[p], pin |-> "none"]]
        /\ \E r \in Rules :
            /\ rules = {r}
            /\ denom = [p \in Products |->
                 IF p \in Ranged
                 THEN [status |-> "none", viable |-> FALSE, manual |-> FALSE, retail |-> 0,
                       net |-> 0, cost |-> 0, seen |-> 0]
                 ELSE [status |-> IF Viable(t[p], r) THEN "PUBLISHED" ELSE "DRAFT",
                       viable |-> Viable(t[p], r), manual |-> FALSE,
                       retail |-> RetailPrice(t[p], r), net |-> NetCost(t[p]),
                       cost |-> t[p].cost, seen |-> 0]]
  BY DEF Init
<1>2. PICK r \in Rules :
        /\ rules = {r}
        /\ denom = [p \in Products |->
                 IF p \in Ranged
                 THEN [status |-> "none", viable |-> FALSE, manual |-> FALSE, retail |-> 0,
                       net |-> 0, cost |-> 0, seen |-> 0]
                 ELSE [status |-> IF Viable(t[p], r) THEN "PUBLISHED" ELSE "DRAFT",
                       viable |-> Viable(t[p], r), manual |-> FALSE,
                       retail |-> RetailPrice(t[p], r), net |-> NetCost(t[p]),
                       cost |-> t[p].cost, seen |-> 0]]
  BY <1>1
<1>3. /\ listed = Products /\ byHand = [p \in Products |-> FALSE] /\ runs = <<>> /\ queue = <<>>
      /\ pc = [a \in Admins \cup {"sync"} |-> "idle"] /\ work = Idle
      /\ ctx = [h \in Admins |-> NoCtx]
  BY DEF Init
<1>4. ASSUME NEW p \in Products PROVE t[p] \in Terms
  BY OffersAssumption
<1>5. ProviderTypes
  BY <1>1, <1>3, <1>4 DEF ProviderTypes, OfferRec
<1>6. ASSUME NEW p \in Products PROVE denom[p] \in DenomRow /\ Covered(denom[p], p)
  <2>1. IsRule(r)
    BY RulesAssumption DEF IsRule
  <2>2. /\ NetCost(t[p]) \in Int /\ RetailPrice(t[p], r) \in Int /\ t[p].cost \in Nat
        /\ Viable(t[p], r) \in BOOLEAN
    BY <1>4, <2>1, PriceTypes DEF Terms, Viable
  <2>3. CASE p \in Ranged
    BY <1>2, <2>3 DEF DenomRow, Covered
  <2>4. CASE p \notin Ranged
    <3>1. denom[p] = [status |-> IF Viable(t[p], r) THEN "PUBLISHED" ELSE "DRAFT",
                      viable |-> Viable(t[p], r), manual |-> FALSE,
                      retail |-> RetailPrice(t[p], r), net |-> NetCost(t[p]),
                      cost |-> t[p].cost, seen |-> 0]
      BY <1>2, <2>4
    <3>2. denom[p] \in DenomRow
      BY <2>2, <3>1 DEF DenomRow, Statuses
    <3>3. /\ denom[p].manual = FALSE /\ denom[p].viable = Viable(t[p], r)
          /\ denom[p].retail = RetailPrice(t[p], r) /\ denom[p].net = NetCost(t[p])
      BY <3>1
    <3> QED BY <1>4, <3>2, <3>3, LeastMarginKept DEF Covered
  <2> QED BY <2>3, <2>4
<1>7. RowTypes
  <2>1. product \in [Products -> ProductRow]
    BY <1>1, <1>4 DEF ProductRow, Statuses
  <2>2. DOMAIN denom = Products /\ denom = [p \in Products |-> denom[p]]
    BY <1>2
  <2>3. denom \in [Products -> DenomRow]
    BY <1>6, <2>2
  <2> QED BY <1>3, <2>1, <2>3 DEF RowTypes
<1>8. QueueTypes
  BY <1>3 DEF QueueTypes
<1>9. ProcTypes
  <2> HIDE DEF Idle, NoCtx
  <2>1. "idle" \in Labels
    BY DEF Labels
  <2> QED BY <1>2, <1>3, <2>1, NothingHeld DEF ProcTypes
<1>10. \A a \in Admins \cup {"sync"} : pc[a] = "idle"
  BY <1>3
<1>11. WalkPrepared /\ (\A h \in Admins : Prepared(h))
  BY <1>3, <1>10, NothingHeld, EmptyRows DEF WalkPrepared, Known, Prepared
<1> QED BY <1>5, <1>6, <1>7, <1>8, <1>9, <1>11 DEF IInv, AllCovered

LEMMA StepHolds == IInv /\ [Next]_vars => IInv'
<1> SUFFICES ASSUME IInv, [Next]_vars PROVE IInv'
  OBVIOUS
<1>1. CASE Sync
  BY <1>1, RunSteps, ReadingSteps, WriteProductsStep, WriteRowsStep, HideStep, ArchiveStep DEF Sync
<1>2. ASSUME NEW h \in Admins, Admin(h) PROVE IInv'
  <2>1. CASE EnqueueCheck(h) \/ StartRun(h) \/ AddRun(h)
    BY <2>1, EnqueueSteps
  <2>2. CASE BeginReconcile(h) \/ BeginReprice(h)
    BY <2>2, BeginSteps
  <2>3. CASE RepriceRead(h) \/ RepriceWrite(h)
    BY <2>3, RepriceReadStep, RepriceWriteStep
  <2>4. CASE QuoteCost(h) \/ Quote(h)
    BY <2>4, QuoteCostStep, QuoteStep
  <2>5. ASSUME NEW p \in Products, DiscountRead(h, p) \/ ReadDenomination(h, p) \/ BeginQuote(h, p)
        PROVE  IInv'
    BY <2>5, DiscountReadStep, ReadForEdit
  <2>6. CASE \E s \in Statuses : SetDenominationStatus(h, s)
    BY <2>6, SetStatusStep
  <2>7. CASE \E cents \in HandPrices, manual \in BOOLEAN : SetDenominationPrice(h, cents, manual)
    BY <2>7, SetPriceStep
  <2>8. CASE DiscountPage(h) \/ DiscountWrite(h)
    BY <2>8, DiscountPageStep, DiscountWriteStep
  <2> QED BY <1>2, <2>1, <2>2, <2>3, <2>4, <2>5, <2>6, <2>7, <2>8 DEF Admin
<1>3. CASE Crash \/ Change
  BY <1>3, CrashStep, ChangeStep
<1>4. CASE \E p \in Products, s \in Statuses : SetProductStatus(p, s)
  BY <1>4, EditSteps
<1>5. ASSUME NEW r \in Rules, UpsertRule(r) PROVE IInv'
  <2>1. rules \subseteq Rules /\ RowTypes
    BY DEF IInv, ProcTypes
  <2>2. rules' \subseteq Rules /\ EditOnly /\ product' = product /\ denom' = denom
    BY <1>5, <2>1 DEF UpsertRule
  <2> QED BY <2>1, <2>2, EditStep DEF RowTypes
<1>6. CASE \E r \in Rules : \E p \in Products : AssignRule(p, r.id)
  BY <1>6, EditSteps
<1>7. CASE UNCHANGED vars
  BY <1>7 DEF vars, provider, catalog, syncs, IInv, ProviderTypes, RowTypes, QueueTypes, ProcTypes,
              WalkPrepared, Prepared, Known, AllCovered, Covered
<1> QED BY <1>1, <1>2, <1>3, <1>4, <1>5, <1>6, <1>7 DEF Next

\* Whatever terms Reloadly changes to and whatever rules, syncs, reprices, edits
\* and quotes interleave, a viable price no admin has set covers the net cost and
\* the least margin of any rule (GiftCardPricingService, the sync and repricing).
THEOREM NeverBelowCost == Spec => []NoLossByItself
<1>1. IInv => NoLossByItself
  BY DEF IInv, AllCovered, Covered, NoLossByItself
<1>2. Spec => []IInv
  BY InitHolds, StepHolds, PTL DEF Spec
<1> QED BY <1>1, <1>2, PTL

-----------------------------------------------------------------------------
(* A run is in one hand: a request's that is about to queue it, the queue's, *)
(* or the worker's, and it is RUNNING as long as it is in any.  Without the  *)
(* requests' part the typing is not inductive: what a request queues is what *)
(* it created two awaits before.                                             *)

OpenRuns == {r \in 1..Len(runs) : runs[r] = "RUNNING"}
QueuedRuns == {queue[k] : k \in 1..Len(queue)}

QueueOK ==
  /\ \A k \in 1..Len(queue) : queue[k] \in OpenRuns /\ queue[k] # work.run
  /\ \A j, k \in 1..Len(queue) : j # k => queue[j] # queue[k]
WorkerOK == (pc["sync"] = "idle" <=> work.run = 0) /\ (work.run # 0 => work.run \in OpenRuns)
RequestsOK ==
  \A h \in Admins : pc[h] = "addRun" =>
    /\ ctx[h].p \in OpenRuns /\ ctx[h].p # work.run /\ ctx[h].p \notin QueuedRuns
    /\ \A g \in Admins : pc[g] = "addRun" /\ ctx[g].p = ctx[h].p => g = h
Counted == edits \in Nat /\ changes \in Nat /\ faults \in Nat
HandsOK == QueueOK /\ WorkerOK /\ RequestsOK /\ Counted

-----------------------------------------------------------------------------
(* The walk loses no listed product: it has been written in this run or is   *)
(* still to come, on a page not fetched, fetched, or in hand.                *)

Walking == {"fetch", "readProducts", "writeProducts", "readRows", "writeRows", "hide", "written"}
Seen(p) == product[p].seen = work.run
Due(p) ==
  \/ \E k \in work.pages \cup work.asked : p \in OnPage(k)
  \/ \E g \in work.got : p \in DOMAIN g.items
  \/ pc["sync"] \in {"readProducts", "writeProducts"} /\ p \in DOMAIN work.items
WalkOK ==
  /\ pc["sync"] # "fetch" => work.asked = {}
  /\ ~work.moved =>
       /\ pc["sync"] \in Walking /\ ~work.errors => \A p \in listed : Seen(p) \/ Due(p)
       /\ pc["sync"] = "sweepCount" /\ ~work.errors => \A p \in listed : Seen(p)
       /\ pc["sync"] \in {"countLive", "countStale", "sweepSelect"} => \A p \in listed : Seen(p)
       /\ pc["sync"] = "archive" => work.stale \cap listed = {}

\* Division rounds down to the last multiple.
LEMMA Quotient ==
  ASSUME NEW x \in Nat, NEW d \in Nat \ {0}
  PROVE  x \div d \in Nat /\ (x \div d) * d <= x /\ x < (x \div d) * d + d
<1>1. x = d * (x \div d) + (x % d) /\ 0 <= x % d /\ x % d < d /\ x \div d \in Int /\ x % d \in Int
  OBVIOUS
<1>2. x \div d \in Nat
  BY <1>1
<1> QED BY <1>1, <1>2

\* The pages of a given size cover every rank.
LEMMA RankPage ==
  ASSUME NEW d \in Nat \ {0}, NEW c \in Nat, NEW r \in 1..c
  PROVE  /\ RoundUp(r, d) \in 1..RoundUp(c, d)
         /\ (RoundUp(r, d) - 1) * d < r /\ r <= RoundUp(r, d) * d
<1> DEFINE a == (r + d - 1) \div d
           b == (c + d - 1) \div d
<1>1. a \in Nat /\ a * d <= r + d - 1 /\ r + d - 1 < a * d + d
  BY Quotient
<1>2. b \in Nat /\ b * d <= c + d - 1 /\ c + d - 1 < b * d + d
  BY Quotient
<1>3. a = RoundUp(r, d) /\ b = RoundUp(c, d)
  BY DEF RoundUp
<1> HIDE DEF a, b
<1>4. \A m, n \in Nat : (m + 1) * n = m * n + n /\ (m - 1) * n = m * n - n
  OBVIOUS
<1>5. a * d \in Nat /\ b * d \in Nat /\ (a - 1) * d = a * d - d
  BY <1>1, <1>2, <1>4
<1>6. (a - 1) * d < r /\ r <= a * d
  BY <1>1, <1>5
<1>7. a >= 1
  <2>1. a = 0 => a * d = 0
    BY <1>1
  <2> QED BY <1>1, <1>6, <2>1
<1>8. a <= b
  <2>1. \A m, n \in Nat : m > n => m * d >= (n + 1) * d
    OBVIOUS
  <2>2. a > b => a * d >= b * d + d
    BY <1>1, <1>2, <1>4, <2>1
  <2> QED BY <1>1, <1>2, <1>5, <2>2
<1> QED BY <1>1, <1>2, <1>3, <1>6, <1>7, <1>8

\* Every listed product is on one of the pages a run asks for.
LEMMA EveryProductPaged ==
  ASSUME listed \subseteq Products, NEW p \in listed
  PROVE  p \in OnPage(1) \/ \E k \in 2..TotalPages : p \in OnPage(k)
<1> DEFINE Upto == {q \in listed : q <= p}
<1>1. IsFiniteSet(listed) /\ IsFiniteSet(Upto)
  BY ProductsAssumption, FS_Subset
<1>2. p \in Upto
  BY ProductsAssumption
<1>3. Cardinality(Upto) <= Cardinality(listed) /\ Cardinality(listed) \in Nat /\ Cardinality(Upto) \in Nat
  BY <1>1, FS_Subset, FS_CardinalityType
<1>4. Cardinality(Upto) # 0
  BY <1>1, <1>2, FS_EmptySet
<1>5. Rank(p) \in 1..Cardinality(listed)
  BY <1>3, <1>4 DEF Rank
<1> DEFINE k == RoundUp(Rank(p), PageSize)
<1>6. k \in 1..TotalPages /\ (k - 1) * PageSize < Rank(p) /\ Rank(p) <= k * PageSize
  BY <1>3, <1>5, RankPage, WalkAssumption DEF TotalPages
<1>7. p \in OnPage(k)
  BY <1>6 DEF OnPage
<1> HIDE DEF k
<1>8. TotalPages \in Nat
  BY <1>3, WalkAssumption, Quotient DEF TotalPages, RoundUp
<1>9. k = 1 \/ k \in 2..TotalPages
  BY <1>6, <1>8
<1> QED BY <1>7, <1>9

-----------------------------------------------------------------------------
(* The walk, step by step                                                    *)

\* What a product's page is depends on the list alone.
LEMMA PagesKept ==
  ASSUME listed' = listed
  PROVE  \A k : OnPage(k)' = OnPage(k)
BY DEF OnPage, Rank

\* A step that leaves the worker, the list and what was seen leaves the walk.
LEMMA WalkKept ==
  ASSUME IInv, WalkOK, work' = work, listed' = listed, pc'["sync"] = pc["sync"],
         \A p \in Products : product'[p].seen = product[p].seen
  PROVE  WalkOK'
<1>1. listed \subseteq Products
  BY DEF IInv, ProviderTypes
<1>2. \A p \in listed : (Seen(p) => Seen(p)') /\ (Due(p) => Due(p)')
  BY <1>1, PagesKept DEF Seen, Due
<1> QED BY <1>2 DEF WalkOK

\* The next page, group of pages or the sweep, once a group has been answered.
LEMMA AdvanceWalk ==
  ASSUME IInv, NEW w \in WorkType, Advance(w), w.asked = {}, w.run = work.run,
         ~w.moved /\ ~w.errors => \A p \in listed :
            \/ Seen(p)
            \/ \E k \in w.pages : p \in OnPage(k)
            \/ \E g \in w.got : p \in DOMAIN g.items
  PROVE  WalkOK'
<1>1. CASE w.got # {}
  <2>1. PICK g \in w.got : Quiet([w EXCEPT !.got = @ \ {g}, !.items = g.items], "readProducts")
    BY <1>1 DEF Advance
  <2>2. /\ work'.got = w.got \ {g} /\ work'.items = g.items /\ work'.pages = w.pages
        /\ work'.asked = {} /\ work'.run = w.run /\ work'.moved = w.moved /\ work'.errors = w.errors
    BY <2>1 DEF Quiet, Work, WorkType
  <2>3. pc'["sync"] = "readProducts" /\ listed' = listed /\ product' = product
    BY <2>1 DEF Quiet, Work, Goto, provider, IInv, ProcTypes
  <2>4. ASSUME ~w.moved /\ ~w.errors, NEW p \in listed PROVE Seen(p)' \/ Due(p)'
    BY <2>2, <2>3, <2>4, PagesKept DEF Seen, Due
  <2> QED BY <2>2, <2>3, <2>4 DEF WalkOK
<1>2. CASE w.got = {} /\ w.pages # {}
  <2> DEFINE G == FirstN(w.pages, Concurrency)
  <2>1. Quiet([w EXCEPT !.pages = @ \ G, !.asked = G, !.items = <<>>], "fetch")
    BY <1>2 DEF Advance
  <2> HIDE DEF G
  <2>2. /\ work'.got = w.got /\ work'.pages = w.pages \ G /\ work'.asked = G
        /\ work'.run = w.run /\ work'.moved = w.moved /\ work'.errors = w.errors
    BY <2>1 DEF Quiet, Work, WorkType
  <2>3. pc'["sync"] = "fetch" /\ listed' = listed /\ product' = product
    BY <2>1 DEF Quiet, Work, Goto, provider, IInv, ProcTypes
  <2>4. ASSUME ~w.moved /\ ~w.errors, NEW p \in listed PROVE Seen(p)' \/ Due(p)'
    BY <2>2, <2>3, <2>4, PagesKept DEF Seen, Due
  <2> QED BY <2>2, <2>3, <2>4 DEF WalkOK
<1>3. CASE w.got = {} /\ w.pages = {}
  <2>1. Quiet([w EXCEPT !.items = <<>>], "sweepCount")
    BY <1>3 DEF Advance
  <2>2. /\ work'.asked = {} /\ work'.run = w.run /\ work'.moved = w.moved /\ work'.errors = w.errors
    BY <2>1 DEF Quiet, Work, WorkType
  <2>3. pc'["sync"] = "sweepCount" /\ listed' = listed /\ product' = product
    BY <2>1 DEF Quiet, Work, Goto, provider, IInv, ProcTypes
  <2>4. ASSUME ~w.moved /\ ~w.errors, NEW p \in listed PROVE Seen(p)'
    BY <1>3, <2>2, <2>3, <2>4 DEF Seen
  <2> QED BY <2>2, <2>3, <2>4 DEF WalkOK, Walking
<1> QED BY <1>1, <1>2, <1>3

\* Page 1 tells how many pages there are: all that the list needs.
LEMMA FirstPageWalk ==
  ASSUME IInv, WalkOK, FirstPage
  PROVE  WalkOK'
<1> DEFINE w == [work EXCEPT !.pages = 2..TotalPages, !.got = {[page |-> 1, items |-> Page(1)]}]
<1>1. work \in WorkType /\ work.asked = {} /\ listed \subseteq Products /\ Advance(w)
  BY DEF IInv, ProcTypes, ProviderTypes, FirstPage, WalkOK
<1>2. 2..TotalPages \in SUBSET Nat /\ {[page |-> 1, items |-> Page(1)]} \in SUBSET [page : Nat, items : Items]
  BY PageItems
<1>3. /\ w \in WorkType /\ w.asked = {} /\ w.run = work.run /\ w.pages = 2..TotalPages
      /\ w.got = {[page |-> 1, items |-> Page(1)]}
  BY <1>1, <1>2 DEF WorkType
<1> HIDE DEF w
<1>4. ASSUME NEW p \in listed
      PROVE  (\E k \in w.pages : p \in OnPage(k)) \/ (\E g \in w.got : p \in DOMAIN g.items)
  <2>1. DOMAIN Page(1) = OnPage(1)
    BY DEF Page
  <2> QED BY <1>1, <1>3, <2>1, EveryProductPaged
<1> QED BY <1>1, <1>3, <1>4, AdvanceWalk

\* A page that is answered holds the products on it.
LEMMA FetchPageWalk ==
  ASSUME IInv, WalkOK, FetchPage
  PROVE  WalkOK'
<1>1. /\ work \in WorkType /\ pc["sync"] = "fetch"
      /\ ~work.moved /\ ~work.errors => \A p \in listed : Seen(p) \/ Due(p)
  BY DEF IInv, ProcTypes, FetchPage, WalkOK, Walking
<1>2. PICK k \in work.asked :
        LET w == [work EXCEPT !.asked = @ \ {k}, !.got = @ \cup {[page |-> k, items |-> Page(k)]}]
        IN IF w.asked = {} THEN Advance(w) ELSE Quiet(w, "fetch")
  BY DEF FetchPage
<1> DEFINE w == [work EXCEPT !.asked = @ \ {k}, !.got = @ \cup {[page |-> k, items |-> Page(k)]}]
<1>3. {[page |-> k, items |-> Page(k)]} \in SUBSET [page : Nat, items : Items] /\ DOMAIN Page(k) = OnPage(k)
  BY <1>1, PageItems DEF WorkType, Page
<1>4. /\ w \in WorkType /\ w.asked = work.asked \ {k} /\ w.run = work.run /\ w.pages = work.pages
      /\ w.got = work.got \cup {[page |-> k, items |-> Page(k)]}
      /\ w.moved = work.moved /\ w.errors = work.errors
  BY <1>1, <1>3 DEF WorkType
<1>5. IF w.asked = {} THEN Advance(w) ELSE Quiet(w, "fetch")
  BY <1>2
<1> HIDE DEF w
<1>6. ASSUME ~work.moved, ~work.errors, NEW p \in listed
      PROVE  \/ Seen(p)
             \/ \E j \in w.pages \cup w.asked : p \in OnPage(j)
             \/ \E g \in w.got : p \in DOMAIN g.items
  <2>1. CASE Seen(p)
    BY <2>1
  <2>2. CASE \E j \in work.pages \cup work.asked : p \in OnPage(j)
    <3>1. PICK j \in work.pages \cup work.asked : p \in OnPage(j)
      BY <2>2
    <3>2. CASE j = k
      <4>1. [page |-> k, items |-> Page(k)] \in w.got
        BY <1>4
      <4>2. p \in DOMAIN [page |-> k, items |-> Page(k)].items
        BY <1>3, <3>1, <3>2
      <4> QED BY <4>1, <4>2
    <3>3. CASE j # k
      BY <1>4, <3>1, <3>3
    <3> QED BY <3>2, <3>3
  <2>3. CASE \E g \in work.got : p \in DOMAIN g.items
    BY <1>4, <2>3
  <2> QED BY <1>1, <1>6, <2>1, <2>2, <2>3 DEF Due
<1>7. CASE w.asked = {}
  BY <1>4, <1>5, <1>6, <1>7, AdvanceWalk
<1>8. CASE w.asked # {}
  <2>1. Quiet(w, "fetch")
    BY <1>5, <1>8
  <2>2. work' = w /\ pc'["sync"] = "fetch" /\ listed' = listed /\ product' = product
    BY <2>1 DEF Quiet, Work, Goto, provider, IInv, ProcTypes
  <2>3. ASSUME ~work.moved, ~work.errors, NEW p \in listed PROVE Seen(p)' \/ Due(p)'
    BY <1>4, <1>6, <2>2, <2>3, PagesKept DEF Seen, Due
  <2> QED BY <1>4, <2>2, <2>3 DEF WalkOK
<1> QED BY <1>7, <1>8

\* The other steps of the worker until the sweep.
LEMMA PageWalk ==
  ASSUME IInv, WalkOK, TakeRun \/ Reference \/ PageFails \/ ReadProducts \/ WriteProducts \/ ReadRows
                       \/ WriteRows \/ Hide \/ NextPage
  PROVE  WalkOK'
<1>0. /\ work \in WorkType /\ pc \in [Admins \cup {"sync"} -> Labels] /\ listed \subseteq Products
      /\ product \in [Products -> ProductRow] /\ (pc["sync"] # "fetch" => work.asked = {})
      /\ pc["sync"] \in Walking /\ ~work.moved /\ ~work.errors => \A p \in listed : Seen(p) \/ Due(p)
  BY DEF IInv, ProcTypes, ProviderTypes, RowTypes, WalkOK
<1>1. CASE TakeRun
  <2>1. pc'["sync"] = "reference" /\ work' = [Idle EXCEPT !.run = Head(queue)]
    BY <1>0, <1>1 DEF TakeRun, Work, Goto
  <2>2. work'.asked = {}
    BY <2>1 DEF Idle
  <2> QED BY <2>1, <2>2 DEF WalkOK, Walking
<1>2. CASE Reference
  <2>1. pc["sync"] = "reference" /\ pc'["sync"] = "first" /\ work'.asked = work.asked
    BY <1>0, <1>2 DEF Reference, Quiet, Work, Goto, WorkType
  <2> QED BY <1>0, <2>1 DEF WalkOK, Walking
<1>3. CASE PageFails
  <2>1. PICK k \in work.asked :
          /\ work' = [work EXCEPT !.asked = @ \ {k}, !.errors = TRUE]
          /\ Goto("sync", IF work'.asked # {} THEN "fetch" ELSE "written")
    BY <1>3 DEF PageFails
  <2>2. work'.errors
    BY <1>0, <2>1 DEF WorkType
  <2>3. pc'["sync"] = IF work'.asked # {} THEN "fetch" ELSE "written"
    BY <1>0, <2>1 DEF Goto
  <2>4. (pc'["sync"] = "fetch" \/ pc'["sync"] = "written") /\ (pc'["sync"] # "fetch" => work'.asked = {})
    BY <2>3
  <2> QED BY <2>2, <2>4 DEF WalkOK
<1>4. CASE ReadProducts
  <2>1. /\ pc["sync"] = "readProducts" /\ pc'["sync"] = "writeProducts" /\ listed' = listed /\ product' = product
        /\ work'.asked = work.asked /\ work'.pages = work.pages /\ work'.got = work.got
        /\ work'.items = work.items /\ work'.run = work.run /\ work'.moved = work.moved
        /\ work'.errors = work.errors
    BY <1>0, <1>4 DEF ReadProducts, Quiet, Work, Goto, provider, WorkType
  <2>2. \A p \in listed : Seen(p) \/ Due(p) => Seen(p)' \/ Due(p)'
    BY <2>1, PagesKept DEF Seen, Due
  <2> QED BY <1>0, <2>1, <2>2 DEF WalkOK, Walking
<1>5. CASE WriteProducts
  <2>1. /\ pc["sync"] = "writeProducts" /\ pc'["sync"] = "readRows" /\ listed' = listed /\ work' = work
    BY <1>0, <1>5 DEF WriteProducts, Work, Goto, provider
  <2>2. \A p \in Products : product'[p].seen = IF p \in DOMAIN work.items THEN work.run ELSE product[p].seen
    BY <1>0, <1>5 DEF WriteProducts, ProductRow
  <2>3. \A p \in listed : Seen(p) \/ Due(p) => Seen(p)' \/ Due(p)'
    BY <1>0, <2>1, <2>2, PagesKept DEF Seen, Due
  <2> QED BY <1>0, <2>1, <2>3 DEF WalkOK, Walking
<1>6. CASE ReadRows \/ (WriteRows /\ pc'["sync"] = "hide") \/ Hide
  <2>1. /\ pc["sync"] \in {"readRows", "writeRows", "hide"} /\ pc'["sync"] \in {"writeRows", "hide", "written"}
    BY <1>0, <1>6 DEF ReadRows, WriteRows, Hide, Quiet, Work, Goto
  <2>2. listed' = listed /\ product' = product
    BY <1>6, <2>1 DEF ReadRows, WriteRows, Hide, Quiet, Work, provider, EndRun, catalog
  <2>3. ASSUME WriteRows, pc'["sync"] = "hide" PROVE work' = work
    BY <1>0, <2>3 DEF WriteRows, EndRun, Goto, Work
  <2>4. /\ work'.asked = work.asked /\ work'.pages = work.pages /\ work'.got = work.got
        /\ work'.run = work.run /\ work'.moved = work.moved /\ work'.errors = work.errors
    BY <1>0, <1>6, <2>3 DEF ReadRows, Hide, Quiet, Work, WorkType
  <2>5. \A p \in listed : Seen(p) \/ Due(p) => Seen(p)' \/ Due(p)'
    BY <2>1, <2>2, <2>4, PagesKept DEF Seen, Due
  <2>6. pc["sync"] \in Walking /\ work'.asked = {}
    BY <1>0, <2>1, <2>4 DEF Walking
  <2>7. ~work'.moved /\ ~work'.errors => \A p \in listed' : Seen(p)' \/ Due(p)'
    BY <1>0, <2>2, <2>4, <2>5, <2>6
  <2>8. pc'["sync"] \notin {"sweepCount", "countLive", "countStale", "sweepSelect", "archive"}
    BY <2>1
  <2> QED BY <2>6, <2>7, <2>8 DEF WalkOK
<1>7. CASE WriteRows /\ pc'["sync"] # "hide"
  <2>1. EndRun("FAILED")
    BY <1>0, <1>7 DEF WriteRows, Work, Goto
  <2>2. pc'["sync"] = "idle" /\ work' = Idle
    BY <1>0, <2>1 DEF EndRun, Goto
  <2> QED BY <2>2 DEF WalkOK, Walking, Idle
<1>8. CASE NextPage
  <2>1. pc["sync"] = "written" /\ Advance(work) /\ work.asked = {}
    BY <1>0, <1>8 DEF NextPage
  <2>2. ~work.moved /\ ~work.errors => \A p \in listed : Seen(p) \/ Due(p)
    BY <1>0, <2>1 DEF Walking
  <2> QED BY <1>0, <2>1, <2>2, AdvanceWalk DEF Due
<1> QED BY <1>1, <1>2, <1>3, <1>4, <1>5, <1>6, <1>7, <1>8

\* The sweep selects what the walk has not seen, and archives what it selected.
LEMMA SweepWalk ==
  ASSUME IInv, WalkOK, SweepCount \/ SweepShare \/ SweepSelect \/ Archive
  PROVE  WalkOK'
<1>0. /\ work \in WorkType /\ pc \in [Admins \cup {"sync"} -> Labels] /\ listed \subseteq Products
      /\ product \in [Products -> ProductRow] /\ (pc["sync"] # "fetch" => work.asked = {})
  BY DEF IInv, ProcTypes, ProviderTypes, RowTypes, WalkOK
<1>1. CASE SweepCount \/ SweepShare
  <2>1. PICK n \in Nat, label \in {"countLive", "countStale", "finish", "sweepSelect"} :
          Quiet(work, label) \/ Quiet([work EXCEPT !.count = n], label)
    BY <1>1, CountsNat DEF SweepCount, SweepShare
  <2>2. /\ pc'["sync"] = label /\ listed' = listed /\ product' = product
        /\ work'.asked = work.asked /\ work'.run = work.run /\ work'.moved = work.moved
    BY <1>0, <2>1 DEF Quiet, Work, Goto, provider, WorkType
  <2>3. \/ pc["sync"] = "sweepCount" /\ (label = "finish" \/ ~work.errors)
        \/ pc["sync"] \in {"countLive", "countStale"}
    BY <1>0, <1>1, <2>2 DEF SweepCount, SweepShare, Quiet, Work, Goto
  <2>4. ~work.moved => label = "finish" \/ \A p \in listed : Seen(p)'
    BY <2>2, <2>3 DEF WalkOK, Seen
  <2> QED BY <1>0, <2>2, <2>3, <2>4 DEF WalkOK, Walking
<1>2. CASE SweepSelect
  <2>1. /\ pc["sync"] = "sweepSelect" /\ pc'["sync"] = "archive" /\ listed' = listed
        /\ work'.stale = Stale /\ work'.asked = work.asked /\ work'.moved = work.moved
    BY <1>0, <1>2 DEF SweepSelect, Quiet, Work, Goto, provider, WorkType
  <2>2. ASSUME ~work.moved PROVE Stale \cap listed = {}
    <3>1. \A p \in listed : product[p].seen = work.run
      BY <2>1, <2>2 DEF WalkOK, Seen
    <3>2. work.run \in Nat
      BY <1>0 DEF WorkType
    <3> QED BY <3>1, <3>2 DEF Stale
  <2> QED BY <1>0, <2>1, <2>2 DEF WalkOK, Walking
<1>3. CASE Archive
  <2>1. pc["sync"] = "archive" /\ pc'["sync"] = "finish" /\ work'.asked = work.asked
    BY <1>0, <1>3 DEF Archive, Work, Goto, WorkType
  <2> QED BY <1>0, <2>1 DEF WalkOK, Walking
<1> QED BY <1>1, <1>2, <1>3

\* The end of a run, and what the world does to it.
LEMMA WorldWalk ==
  ASSUME IInv, WalkOK, FinishRun \/ RunFails \/ Crash \/ Change
  PROVE  WalkOK'
<1>0. work \in WorkType /\ pc \in [Admins \cup {"sync"} -> Labels] /\ listed \subseteq Products
  BY DEF IInv, ProcTypes, ProviderTypes
<1>1. CASE FinishRun \/ RunFails \/ Crash
  <2>1. pc'["sync"] = "idle" /\ work' = Idle
    BY <1>0, <1>1 DEF FinishRun, RunFails, Crash, EndRun, Goto
  <2> QED BY <2>1 DEF WalkOK, Walking, Idle
<1>2. CASE Change /\ work' = work /\ listed' = listed
  <2>1. pc' = pc /\ product' = product
    BY <1>2 DEF Change, catalog
  <2> QED BY <1>2, <2>1, WalkKept
<1>3. CASE Change /\ work' = [work EXCEPT !.moved = pc["sync"] # "idle"]
  <2>1. pc' = pc /\ work'.asked = work.asked /\ work'.moved = (pc["sync"] # "idle")
    BY <1>0, <1>3 DEF Change, WorkType
  <2> QED BY <2>1 DEF WalkOK, Walking
<1> QED BY <1>1, <1>2, <1>3 DEF Change

\* A request or an edit never changes what a run has seen.
LEMMA SeenKept ==
  ASSUME IInv, (\E h \in Admins : Admin(h)) \/ (\E p \in Products, s \in Statuses : SetProductStatus(p, s))
               \/ (\E r \in Rules : UpsertRule(r) \/ \E p \in Products : AssignRule(p, r.id))
  PROVE  /\ work' = work /\ listed' = listed /\ pc'["sync"] = pc["sync"]
         /\ \A p \in Products : product'[p].seen = product[p].seen
<1>0. pc \in [Admins \cup {"sync"} -> Labels] /\ product \in [Products -> ProductRow]
  BY DEF IInv, ProcTypes, RowTypes
<1> DEFINE Kept == /\ work' = work /\ listed' = listed /\ pc'["sync"] = pc["sync"]
                   /\ \A p \in Products : product'[p].seen = product[p].seen
<1>1. ASSUME NEW h \in Admins, EnqueueCheck(h) \/ StartRun(h) \/ AddRun(h) PROVE Kept
  BY <1>0, <1>1, AdminsAssumption DEF EnqueueCheck, StartRun, AddRun, Goto, Done, provider, catalog
<1>2. ASSUME NEW h \in Admins,
             BeginReconcile(h) \/ BeginReprice(h) \/ DiscountPage(h) \/ RepriceRead(h) \/ QuoteCost(h)
      PROVE  Kept
  BY <1>0, <1>2, AdminsAssumption
     DEF BeginReconcile, BeginReprice, Request, DiscountPage, RepriceRead, QuoteCost, Unchanged, Goto,
         provider, catalog
<1>3. ASSUME NEW h \in Admins, RepriceWrite(h) \/ Quote(h) PROVE Kept
  BY <1>0, <1>3, AdminsAssumption DEF RepriceWrite, Quote, Unchanged, Done, provider
<1>4. ASSUME NEW h \in Admins, NEW p \in Products, ReadDenomination(h, p) \/ BeginQuote(h, p) PROVE Kept
  BY <1>0, <1>4, AdminsAssumption DEF ReadDenomination, BeginQuote, Goto, provider, catalog
<1>5. ASSUME NEW h \in Admins, DiscountWrite(h) \/ \E p \in Products : DiscountRead(h, p) PROVE Kept
  <2>1. /\ work' = work /\ listed' = listed /\ pc'["sync"] = pc["sync"]
        /\ \/ product' = product
           \/ product' = [product EXCEPT ![ctx[h].p].terms.discPct = ctx[h].rates[ctx[h].p]]
    BY <1>0, <1>5, AdminsAssumption DEF DiscountWrite, DiscountRead, Unchanged, Goto, provider, catalog
  <2>2. \A q \in Products : product'[q].seen = product[q].seen
    BY <1>0, <2>1 DEF ProductRow
  <2> QED BY <2>1, <2>2
<1>6. ASSUME NEW h \in Admins, NEW s \in Statuses, SetDenominationStatus(h, s) PROVE Kept
  BY <1>0, <1>6, AdminsAssumption DEF SetDenominationStatus, Unchanged, Done, provider
<1>7. ASSUME NEW h \in Admins, NEW cents \in HandPrices, NEW manual \in BOOLEAN,
             SetDenominationPrice(h, cents, manual)
      PROVE  Kept
  BY <1>0, <1>7, AdminsAssumption DEF SetDenominationPrice, Unchanged, Done, provider
<1>8. ASSUME NEW h \in Admins, Admin(h) PROVE Kept
  BY <1>1, <1>2, <1>3, <1>4, <1>5, <1>6, <1>7, <1>8 DEF Admin
<1>9. ASSUME NEW p \in Products, NEW s \in Statuses, SetProductStatus(p, s) PROVE Kept
  <2>1. work' = work /\ listed' = listed /\ pc' = pc /\ product' = [product EXCEPT ![p].status = s]
    BY <1>9 DEF SetProductStatus, EditOnly, provider
  <2>2. \A q \in Products : product'[q].seen = product[q].seen
    BY <1>0, <2>1 DEF ProductRow
  <2> QED BY <2>1, <2>2
<1>10. ASSUME NEW r \in Rules, UpsertRule(r) PROVE Kept
  BY <1>10 DEF UpsertRule, EditOnly, provider
<1>11. ASSUME NEW r \in Rules, NEW p \in Products, AssignRule(p, r.id) PROVE Kept
  <2>1. work' = work /\ listed' = listed /\ pc' = pc /\ product' = [product EXCEPT ![p].pin = r.id]
    BY <1>11 DEF AssignRule, EditOnly, provider
  <2>2. \A q \in Products : product'[q].seen = product[q].seen
    BY <1>0, <2>1 DEF ProductRow
  <2> QED BY <2>1, <2>2
<1> QED BY <1>8, <1>9, <1>10, <1>11

\* Every step keeps the walk.
LEMMA WalkHolds == IInv /\ WalkOK /\ [Next]_vars => WalkOK'
<1> SUFFICES ASSUME IInv, WalkOK, [Next]_vars PROVE WalkOK'
  OBVIOUS
<1>1. CASE Sync \/ Crash \/ Change
  BY <1>1, FirstPageWalk, FetchPageWalk, PageWalk, SweepWalk, WorldWalk DEF Sync
<1>2. CASE \/ \E h \in Admins : Admin(h)
           \/ \E p \in Products, s \in Statuses : SetProductStatus(p, s)
           \/ \E r \in Rules : UpsertRule(r) \/ \E p \in Products : AssignRule(p, r.id)
  BY <1>2, SeenKept, WalkKept
<1>3. CASE UNCHANGED vars
  BY <1>3, WalkKept DEF vars, provider, catalog
<1> QED BY <1>1, <1>2, <1>3 DEF Next

\* Only the sweep's transaction goes from "archive" to "finish".
LEMMA ArchivedBySweep ==
  ASSUME IInv, [Next]_vars, pc["sync"] = "archive", pc'["sync"] = "finish"
  PROVE  Archive
<1>0. pc \in [Admins \cup {"sync"} -> Labels]
  BY DEF IInv, ProcTypes
<1>1. ~Change /\ ~UNCHANGED vars
  BY DEF Change, vars
<1>2. ~Crash
  BY DEF Crash
<1>3. ~(\E h \in Admins : Admin(h)) /\ ~(\E p \in Products, s \in Statuses : SetProductStatus(p, s))
      /\ ~(\E r \in Rules : UpsertRule(r) \/ \E p \in Products : AssignRule(p, r.id))
  BY SeenKept
<1>4. Sync
  BY <1>1, <1>2, <1>3 DEF Next
<1>5. ~RunFails
  BY <1>0 DEF RunFails, EndRun, Goto
<1> QED BY <1>4, <1>5 DEF Sync, TakeRun, Reference, FirstPage, FetchPage, PageFails, ReadProducts, WriteProducts,
           ReadRows, WriteRows, Hide, NextPage, SweepCount, SweepShare, SweepSelect, FinishRun

\* The stale sweep archives no product that Reloadly lists, unless its list
\* changed while the run walked the pages: whatever pages fail, runs overlap or
\* restart, and whoever edits meanwhile (GiftCardSyncService.sweepStale).
THEOREM SweepIsJustified == Spec => SweepJustified
<1>1. Init => WalkOK
  BY DEF Init, WalkOK, Walking, Idle
<1>2. Spec => []IInv
  BY InitHolds, StepHolds, PTL DEF Spec
<1>3. Spec => []WalkOK
  BY <1>1, <1>2, WalkHolds, PTL DEF Spec
<1>4. IInv /\ WalkOK /\ [Next]_vars =>
        [\A p \in Products :
           pc["sync"] = "archive" /\ pc'["sync"] = "finish"
             /\ product[p].status # "ARCHIVED" /\ product'[p].status = "ARCHIVED"
             => p \notin listed \/ work.moved]_vars
  <2> SUFFICES ASSUME IInv, WalkOK, [Next]_vars, NEW p \in Products,
                      pc["sync"] = "archive", pc'["sync"] = "finish",
                      product[p].status # "ARCHIVED", product'[p].status = "ARCHIVED"
               PROVE  p \notin listed \/ work.moved
    OBVIOUS
  <2>1. Archive
    BY ArchivedBySweep
  <2>2. p \in work.stale
    BY <2>1 DEF Archive
  <2> QED BY <2>2 DEF WalkOK
<1> QED BY <1>2, <1>3, <1>4, PTL DEF Spec, SweepJustified

-----------------------------------------------------------------------------
(* The runs' hands, step by step                                             *)

\* A step that leaves the runs, the queue and the worker's run, and brings no
\* request to the queue, leaves every run in its hand.
LEMMA HandsKept ==
  ASSUME HandsOK, UNCHANGED syncs, work'.run = work.run,
         pc'["sync"] = "idle" <=> pc["sync"] = "idle",
         \A g \in Admins : pc'[g] = "addRun" => pc[g] = "addRun" /\ ctx'[g].p = ctx[g].p,
         Counted'
  PROVE  HandsOK'
<1>1. runs' = runs /\ queue' = queue
  BY DEF syncs
<1>2. QueueOK' /\ WorkerOK'
  BY <1>1 DEF HandsOK, QueueOK, WorkerOK, OpenRuns
<1>3. RequestsOK'
  BY <1>1 DEF HandsOK, RequestsOK, OpenRuns, QueuedRuns
<1> QED BY <1>2, <1>3 DEF HandsOK

\* The worker goes on with its run.
LEMMA WorkHands ==
  ASSUME IInv, HandsOK, NEW w, NEW label, label # "idle", pc["sync"] # "idle",
         work' = w, Goto("sync", label), ctx' = ctx, w.run = work.run, UNCHANGED syncs, Counted'
  PROVE  HandsOK'
<1>1. pc'["sync"] = label /\ \A g \in Admins : pc'[g] = pc[g]
  BY AdminsAssumption DEF IInv, ProcTypes, Goto
<1> QED BY <1>1, HandsKept

\* It goes on to a page, a group of pages or the sweep.
LEMMA AdvanceHands ==
  ASSUME IInv, HandsOK, NEW w \in WorkType, Advance(w), w.run = work.run, pc["sync"] # "idle"
  PROVE  HandsOK'
<1>1. \E v \in WorkType, label \in {"readProducts", "fetch", "sweepCount"} :
        Quiet(v, label) /\ v.run = w.run
  <2>1. CASE w.got # {}
    <3>1. PICK g \in w.got : Quiet([w EXCEPT !.got = @ \ {g}, !.items = g.items], "readProducts")
      BY <2>1 DEF Advance
    <3>2. g.items \in Items
      BY DEF WorkType
    <3>3. /\ [w EXCEPT !.got = @ \ {g}, !.items = g.items] \in WorkType
          /\ [w EXCEPT !.got = @ \ {g}, !.items = g.items].run = w.run
      BY <3>2 DEF WorkType
    <3> QED BY <3>1, <3>3
  <2>2. CASE w.got = {} /\ w.pages # {}
    <3> DEFINE G == FirstN(w.pages, Concurrency)
    <3>1. Quiet([w EXCEPT !.pages = @ \ G, !.asked = G, !.items = <<>>], "fetch")
      BY <2>2 DEF Advance
    <3>2. G \subseteq Nat
      BY DEF FirstN, WorkType
    <3> HIDE DEF G
    <3>3. /\ [w EXCEPT !.pages = @ \ G, !.asked = G, !.items = <<>>] \in WorkType
          /\ [w EXCEPT !.pages = @ \ G, !.asked = G, !.items = <<>>].run = w.run
      BY <3>2, EmptyRows DEF WorkType
    <3> QED BY <3>1, <3>3
  <2>3. CASE w.got = {} /\ w.pages = {}
    <3>1. Quiet([w EXCEPT !.items = <<>>], "sweepCount")
      BY <2>3 DEF Advance
    <3>2. [w EXCEPT !.items = <<>>] \in WorkType /\ [w EXCEPT !.items = <<>>].run = w.run
      BY EmptyRows DEF WorkType
    <3> QED BY <3>1, <3>2
  <2> QED BY <2>1, <2>2, <2>3
<1>2. PICK v \in WorkType, label \in {"readProducts", "fetch", "sweepCount"} :
        Quiet(v, label) /\ v.run = w.run
  BY <1>1
<1>3. /\ work' = v /\ Goto("sync", label) /\ ctx' = ctx /\ UNCHANGED syncs
      /\ edits' = edits /\ changes' = changes /\ faults' = faults
  BY <1>2 DEF Quiet, Work, bounds
<1>4. Counted' /\ label # "idle" /\ v.run = work.run
  BY <1>2, <1>3 DEF HandsOK, Counted
<1> QED BY <1>3, <1>4, WorkHands

\* A run ends: the others are in other hands.
LEMMA EndRunHands ==
  ASSUME IInv, HandsOK, NEW s \in RunStates \cup {"lost"}, EndRun(s), pc["sync"] # "idle", Counted'
  PROVE  HandsOK'
<1>1. /\ runs \in [1..Len(runs) -> RunStates] /\ Len(runs) \in Nat
      /\ pc \in [Admins \cup {"sync"} -> Labels] /\ work.run \in 1..Len(runs)
  BY LenProperties DEF IInv, QueueTypes, ProcTypes, HandsOK, WorkerOK, OpenRuns
<1>2. /\ work'.run = 0 /\ pc'["sync"] = "idle" /\ queue' = queue /\ ctx' = ctx
      /\ \A g \in Admins : pc'[g] = pc[g]
  BY <1>1, AdminsAssumption DEF EndRun, Goto, Idle
<1>3. /\ Len(runs') = Len(runs)
      /\ \A r \in 1..Len(runs) : r # work.run => runs'[r] = runs[r]
  <2>1. CASE s = "lost"
    BY <2>1 DEF EndRun
  <2>2. CASE s # "lost"
    <3>1. runs' = [runs EXCEPT ![work.run] = s] /\ runs \in Seq(RunStates) /\ s \in RunStates
      BY <2>2 DEF EndRun, IInv, QueueTypes
    <3> QED BY <1>1, <3>1, ExceptSeq
  <2> QED BY <2>1, <2>2
<1>4. \A r : r \in OpenRuns /\ r # work.run => r \in OpenRuns' /\ r # 0
  BY <1>1, <1>3 DEF OpenRuns
<1>5. QueueOK'
  BY <1>2, <1>4 DEF HandsOK, QueueOK
<1>6. WorkerOK'
  BY <1>2 DEF WorkerOK
<1>7. RequestsOK'
  BY <1>2, <1>4 DEF HandsOK, RequestsOK, QueuedRuns
<1> QED BY <1>5, <1>6, <1>7 DEF HandsOK

\* The worker takes the first of the queue.
LEMMA TakeRunHands ==
  ASSUME IInv, HandsOK, TakeRun
  PROVE  HandsOK'
<1>1. /\ queue \in Seq(Nat) /\ queue # <<>> /\ queue' = Tail(queue) /\ runs' = runs /\ ctx' = ctx
      /\ pc \in [Admins \cup {"sync"} -> Labels] /\ pc["sync"] = "idle" /\ work.run = 0
      /\ work' = [Idle EXCEPT !.run = Head(queue)] /\ Goto("sync", "reference")
  BY DEF IInv, QueueTypes, ProcTypes, HandsOK, WorkerOK, TakeRun, Work
<1>2. Len(queue) \in Nat \ {0} /\ Head(queue) = queue[1]
  BY <1>1, EmptySeq
<1>3. /\ Len(queue') = Len(queue) - 1
      /\ \A k \in 1..Len(queue') : queue'[k] = queue[k + 1]
  BY <1>1, HeadTailProperties
<1>4. /\ work'.run = queue[1] /\ pc'["sync"] = "reference" /\ \A g \in Admins : pc'[g] = pc[g]
  BY <1>1, <1>2, AdminsAssumption DEF Goto, Idle
<1>5. \A k \in 1..Len(queue') : k + 1 \in 1..Len(queue) /\ k + 1 # 1
  BY <1>2, <1>3
<1>6. 1 \in 1..Len(queue) /\ queue[1] \in OpenRuns
  BY <1>2 DEF HandsOK, QueueOK
<1>7. QueueOK'
  <2>1. ASSUME NEW k \in 1..Len(queue') PROVE queue'[k] \in OpenRuns' /\ queue'[k] # work'.run
    BY <1>1, <1>3, <1>4, <1>5, <1>6 DEF HandsOK, QueueOK, OpenRuns
  <2>2. ASSUME NEW j \in 1..Len(queue'), NEW k \in 1..Len(queue'), j # k PROVE queue'[j] # queue'[k]
    <3>1. j + 1 # k + 1
      BY <2>2
    <3> QED BY <1>3, <1>5, <3>1 DEF HandsOK, QueueOK
  <2> QED BY <2>1, <2>2 DEF QueueOK
<1>8. WorkerOK'
  BY <1>1, <1>4, <1>6 DEF WorkerOK, OpenRuns
<1>9. RequestsOK'
  <2> SUFFICES ASSUME NEW h \in Admins, pc[h] = "addRun"
               PROVE  /\ ctx[h].p \in OpenRuns' /\ ctx[h].p # work'.run /\ ctx[h].p \notin QueuedRuns'
                      /\ \A g \in Admins : pc[g] = "addRun" /\ ctx[g].p = ctx[h].p => g = h
    BY <1>1, <1>4 DEF RequestsOK
  <2>1. /\ ctx[h].p \in OpenRuns /\ \A k \in 1..Len(queue) : queue[k] # ctx[h].p
        /\ \A g \in Admins : pc[g] = "addRun" /\ ctx[g].p = ctx[h].p => g = h
    BY DEF HandsOK, RequestsOK, QueuedRuns
  <2>2. \A k \in 1..Len(queue') : queue'[k] # ctx[h].p
    BY <1>3, <1>5, <2>1
  <2>3. ctx'[h].p = ctx[h].p
    BY <1>1
  <2> QED BY <1>1, <1>4, <1>6, <2>1, <2>2, <2>3 DEF OpenRuns, QueuedRuns
<1>10. Counted'
  BY DEF HandsOK, Counted, TakeRun, Work, bounds
<1> QED BY <1>7, <1>8, <1>9, <1>10 DEF HandsOK

\* The worker's steps.
LEMMA SyncHands ==
  ASSUME IInv, HandsOK, Sync
  PROVE  HandsOK'
<1>0. work \in WorkType /\ pc \in [Admins \cup {"sync"} -> Labels] /\ Counted
  BY DEF IInv, ProcTypes, HandsOK
<1>1. CASE Reference \/ ReadProducts \/ WriteProducts \/ ReadRows \/ Hide \/ SweepCount \/ SweepShare
             \/ SweepSelect \/ Archive
  <2>1. PICK label \in Labels \ {"idle"} : Goto("sync", label)
    BY <1>1 DEF Reference, ReadProducts, WriteProducts, ReadRows, Hide, SweepCount, SweepShare, SweepSelect,
                Archive, Quiet, Work, Labels, Sweeping
  <2>2. work'.run = work.run /\ ctx' = ctx /\ UNCHANGED syncs /\ UNCHANGED bounds /\ pc["sync"] # "idle"
    BY <1>0, <1>1 DEF Reference, ReadProducts, WriteProducts, ReadRows, Hide, SweepCount, SweepShare,
                SweepSelect, Archive, Quiet, Work, WorkType
  <2>3. Counted'
    BY <1>0, <2>2 DEF Counted, bounds
  <2> QED BY <2>1, <2>2, <2>3, WorkHands
<1>2. CASE FirstPage
  <2> DEFINE w == [work EXCEPT !.pages = 2..TotalPages, !.got = {[page |-> 1, items |-> Page(1)]}]
  <2>1. 2..TotalPages \in SUBSET Nat /\ {[page |-> 1, items |-> Page(1)]} \in SUBSET [page : Nat, items : Items]
    BY PageItems
  <2>2. w \in WorkType /\ w.run = work.run
    BY <1>0, <2>1 DEF WorkType
  <2>3. Advance(w) /\ pc["sync"] # "idle"
    BY <1>2 DEF FirstPage
  <2> HIDE DEF w
  <2> QED BY <2>2, <2>3, AdvanceHands
<1>3. CASE FetchPage
  <2>1. PICK k \in work.asked :
          LET w == [work EXCEPT !.asked = @ \ {k}, !.got = @ \cup {[page |-> k, items |-> Page(k)]}]
          IN IF w.asked = {} THEN Advance(w) ELSE Quiet(w, "fetch")
    BY <1>3 DEF FetchPage
  <2> DEFINE w == [work EXCEPT !.asked = @ \ {k}, !.got = @ \cup {[page |-> k, items |-> Page(k)]}]
  <2>2. {[page |-> k, items |-> Page(k)]} \in SUBSET [page : Nat, items : Items]
    BY <1>0, PageItems DEF WorkType
  <2>3. w \in WorkType /\ w.run = work.run /\ pc["sync"] # "idle"
    BY <1>0, <1>3, <2>2 DEF WorkType, FetchPage
  <2>4. Advance(w) \/ Quiet(w, "fetch")
    BY <2>1
  <2> HIDE DEF w
  <2>5. CASE Quiet(w, "fetch")
    <3>1. work' = w /\ Goto("sync", "fetch") /\ ctx' = ctx /\ UNCHANGED syncs /\ UNCHANGED bounds
      BY <2>5 DEF Quiet, Work
    <3>2. Counted'
      BY <1>0, <3>1 DEF Counted, bounds
    <3> QED BY <2>3, <3>1, <3>2, WorkHands
  <2> QED BY <2>3, <2>4, <2>5, AdvanceHands
<1>4. CASE PageFails
  <2>1. PICK k \in work.asked :
          /\ work' = [work EXCEPT !.asked = @ \ {k}, !.errors = TRUE]
          /\ Goto("sync", IF work'.asked # {} THEN "fetch" ELSE "written")
    BY <1>4 DEF PageFails
  <2>2. work'.run = work.run /\ ctx' = ctx /\ UNCHANGED syncs /\ pc["sync"] # "idle"
    BY <1>0, <1>4, <2>1 DEF PageFails, WorkType
  <2>3. Counted'
    BY <1>0, <1>4 DEF PageFails, Counted
  <2>4. PICK label \in {"fetch", "written"} : Goto("sync", label)
    BY <2>1
  <2> QED BY <2>2, <2>3, <2>4, WorkHands
<1>5. CASE WriteRows
  <2>1. pc["sync"] # "idle" /\ UNCHANGED bounds
    BY <1>5 DEF WriteRows, Work
  <2>2. Counted'
    BY <1>0, <2>1 DEF Counted, bounds
  <2>3. EndRun("FAILED") \/ (Work(work, "hide") /\ UNCHANGED syncs)
    BY <1>5 DEF WriteRows
  <2>4. CASE EndRun("FAILED")
    BY <2>1, <2>2, <2>4, EndRunHands DEF RunStates
  <2>5. CASE Work(work, "hide") /\ UNCHANGED syncs
    BY <2>1, <2>2, <2>5, WorkHands DEF Work
  <2> QED BY <2>3, <2>4, <2>5
<1>6. CASE NextPage
  BY <1>0, <1>6, AdvanceHands DEF NextPage
<1>7. CASE FinishRun \/ RunFails
  <2>1. PICK s \in RunStates \cup {"lost"} : EndRun(s)
    BY <1>7 DEF FinishRun, RunFails, RunStates
  <2>2. pc["sync"] # "idle"
    BY <1>7 DEF FinishRun, RunFails
  <2>3. Counted'
    BY <1>0, <1>7 DEF FinishRun, RunFails, Counted, bounds
  <2> QED BY <2>1, <2>2, <2>3, EndRunHands
<1> QED BY <1>1, <1>2, <1>3, <1>4, <1>5, <1>6, <1>7, TakeRunHands DEF Sync

\* A request that neither creates nor queues a run.
LEMMA RequestHands ==
  ASSUME IInv, HandsOK, NEW h \in Admins, UNCHANGED <<syncs, work>>,
         pc'["sync"] = pc["sync"], pc'[h] # "addRun",
         \A g \in Admins \ {h} : pc'[g] = pc[g] /\ ctx'[g] = ctx[g], Counted'
  PROVE  HandsOK'
<1>1. \A g \in Admins : pc'[g] = "addRun" => pc[g] = "addRun" /\ ctx'[g].p = ctx[g].p
  OBVIOUS
<1> QED BY <1>1, HandsKept

\* A run is created for the request that looked for one, ...
LEMMA StartRunHands ==
  ASSUME IInv, HandsOK, NEW h \in Admins, StartRun(h)
  PROVE  HandsOK'
<1>1. /\ runs \in Seq(RunStates) /\ Len(runs) \in Nat /\ pc \in [Admins \cup {"sync"} -> Labels]
      /\ ctx \in [Admins -> CtxRec]
  BY LenProperties DEF IInv, QueueTypes, ProcTypes
<1> DEFINE n == Len(runs) + 1
<1>2. /\ runs' = Append(runs, "RUNNING") /\ queue' = queue /\ work' = work
      /\ ctx' = [ctx EXCEPT ![h].p = Len(runs')] /\ Goto(h, "addRun") /\ pc[h] = "startRun"
  BY DEF StartRun
<1>3. /\ Len(runs') = n /\ runs'[n] = "RUNNING"
      /\ \A r \in 1..Len(runs) : runs'[r] = runs[r]
  BY <1>1, <1>2, AppendProperties DEF RunStates
<1>4. /\ ctx'[h].p = n /\ \A g \in Admins \ {h} : ctx'[g] = ctx[g] /\ pc'[g] = pc[g]
      /\ pc'[h] = "addRun" /\ pc'["sync"] = pc["sync"]
  BY <1>1, <1>2, <1>3, AdminsAssumption DEF Goto, CtxRec
<1>5. \A r : r \in OpenRuns => r \in OpenRuns' /\ r # n
  BY <1>1, <1>3 DEF OpenRuns
<1>6. n \in OpenRuns' /\ n # 0
  BY <1>1, <1>3 DEF OpenRuns
<1> HIDE DEF n
<1>7. QueueOK' /\ WorkerOK'
  BY <1>2, <1>4, <1>5 DEF HandsOK, QueueOK, WorkerOK
<1>8. n \notin QueuedRuns /\ n # work.run
  BY <1>5, <1>6 DEF HandsOK, QueueOK, WorkerOK, QueuedRuns
<1>9. RequestsOK'
  <2>1. \A r : r \in QueuedRuns' <=> r \in QueuedRuns
    BY <1>2 DEF QueuedRuns
  <2>2. ASSUME NEW g \in Admins \ {h}, pc[g] = "addRun"
        PROVE  /\ ctx[g].p \in OpenRuns /\ ctx[g].p # work.run /\ ctx[g].p \notin QueuedRuns
               /\ \A f \in Admins : pc[f] = "addRun" /\ ctx[f].p = ctx[g].p => f = g
    BY <2>2 DEF HandsOK, RequestsOK
  <2>3. ASSUME NEW g \in Admins, pc'[g] = "addRun"
        PROVE  ctx'[g].p \in OpenRuns' /\ ctx'[g].p # work'.run /\ ctx'[g].p \notin QueuedRuns'
    <3>1. CASE g = h
      BY <1>2, <1>4, <1>6, <1>8, <2>1, <3>1
    <3>2. CASE g # h
      BY <1>2, <1>4, <1>5, <2>1, <2>2, <2>3, <3>2
    <3> QED BY <3>1, <3>2
  <2>4. ASSUME NEW g \in Admins, NEW f \in Admins, pc'[g] = "addRun", pc'[f] = "addRun",
               ctx'[f].p = ctx'[g].p
        PROVE  f = g
    BY <1>4, <1>5, <2>2, <2>4
  <2> QED BY <2>3, <2>4 DEF RequestsOK
<1>10. Counted'
  BY DEF HandsOK, Counted, StartRun, bounds
<1> QED BY <1>7, <1>9, <1>10 DEF HandsOK

\* ... and queued by it.
LEMMA AddRunHands ==
  ASSUME IInv, HandsOK, NEW h \in Admins, AddRun(h)
  PROVE  HandsOK'
<1> DEFINE r == ctx[h].p
           n == Len(queue) + 1
<1>1. /\ queue \in Seq(Nat) /\ Len(queue) \in Nat /\ pc \in [Admins \cup {"sync"} -> Labels]
      /\ ctx \in [Admins -> CtxRec] /\ r \in Nat
  BY LenProperties DEF IInv, QueueTypes, ProcTypes, CtxRec
<1>2. /\ queue' = Append(queue, r) /\ runs' = runs /\ work' = work /\ Done(h) /\ pc[h] = "addRun"
  BY DEF AddRun
<1>3. /\ Len(queue') = n /\ queue'[n] = r
      /\ \A k \in 1..Len(queue) : queue'[k] = queue[k]
  BY <1>1, <1>2, AppendProperties
<1>4. /\ pc'[h] = "idle" /\ pc'["sync"] = pc["sync"]
      /\ \A g \in Admins \ {h} : ctx'[g] = ctx[g] /\ pc'[g] = pc[g]
  BY <1>1, <1>2, AdminsAssumption DEF Done
<1>5. /\ r \in OpenRuns /\ r # work.run /\ r \notin QueuedRuns
      /\ \A g \in Admins : pc[g] = "addRun" /\ ctx[g].p = r => g = h
  BY <1>2 DEF HandsOK, RequestsOK
<1>6. \A k \in 1..Len(queue') : k = n \/ k \in 1..Len(queue)
  BY <1>1, <1>3
<1>7. \A q : q \in OpenRuns' <=> q \in OpenRuns
  BY <1>2 DEF OpenRuns
<1> HIDE DEF r, n
<1>8. QueueOK'
  <2>1. ASSUME NEW k \in 1..Len(queue') PROVE queue'[k] \in OpenRuns' /\ queue'[k] # work'.run
    BY <1>2, <1>3, <1>5, <1>6, <1>7 DEF HandsOK, QueueOK
  <2>2. ASSUME NEW j \in 1..Len(queue'), NEW k \in 1..Len(queue'), j # k PROVE queue'[j] # queue'[k]
    BY <1>3, <1>5, <1>6, <2>2 DEF HandsOK, QueueOK, QueuedRuns
  <2> QED BY <2>1, <2>2 DEF QueueOK
<1>9. WorkerOK'
  BY <1>2, <1>4, <1>7 DEF HandsOK, WorkerOK
<1>10. RequestsOK'
  <2>1. ASSUME NEW g \in Admins \ {h}, pc[g] = "addRun"
        PROVE  /\ ctx[g].p \in OpenRuns /\ ctx[g].p # work.run /\ ctx[g].p \notin QueuedRuns /\ ctx[g].p # r
               /\ \A f \in Admins : pc[f] = "addRun" /\ ctx[f].p = ctx[g].p => f = g
    BY <1>5, <2>1 DEF HandsOK, RequestsOK
  <2>2. ASSUME NEW g \in Admins \ {h}, pc[g] = "addRun" PROVE ctx[g].p \notin QueuedRuns'
    <3>1. \A k \in 1..Len(queue) : queue[k] # ctx[g].p
      BY <2>1, <2>2 DEF QueuedRuns
    <3>2. \A k \in 1..Len(queue') : queue'[k] # ctx[g].p
      BY <1>3, <1>6, <2>1, <2>2, <3>1
    <3>3. ctx'[g] = ctx[g]
      BY <1>4
    <3> QED BY <3>2, <3>3 DEF QueuedRuns
  <2>3. ASSUME NEW g \in Admins, pc'[g] = "addRun"
        PROVE  /\ g # h /\ ctx'[g] = ctx[g] /\ pc[g] = "addRun"
    BY <1>4, <2>3
  <2> QED BY <1>2, <1>7, <2>1, <2>2, <2>3 DEF RequestsOK
<1>11. Counted'
  BY DEF HandsOK, Counted, AddRun, bounds
<1> QED BY <1>8, <1>9, <1>10, <1>11 DEF HandsOK

\* The other requests.
LEMMA AdminHands ==
  ASSUME IInv, HandsOK, NEW h \in Admins, Admin(h), ~StartRun(h), ~AddRun(h)
  PROVE  HandsOK'
<1>0. pc \in [Admins \cup {"sync"} -> Labels] /\ ctx \in [Admins -> CtxRec] /\ Counted
  BY DEF IInv, ProcTypes, HandsOK
<1> DEFINE Own == /\ UNCHANGED <<syncs, work>> /\ pc'["sync"] = pc["sync"] /\ pc'[h] # "addRun"
                  /\ \A g \in Admins \ {h} : pc'[g] = pc[g] /\ ctx'[g] = ctx[g]
                  /\ Counted'
<1>1. CASE EnqueueCheck(h)
  <2>1. Own
    BY <1>0, <1>1, AdminsAssumption DEF EnqueueCheck, Goto, Counted, bounds
  <2> QED BY <2>1, RequestHands
<1>2. CASE BeginReconcile(h) \/ BeginReprice(h)
  <2>1. Own
    BY <1>0, <1>2, AdminsAssumption DEF BeginReconcile, BeginReprice, Request, Goto, Counted
  <2> QED BY <2>1, RequestHands
<1>3. CASE DiscountPage(h) \/ DiscountWrite(h) \/ RepriceRead(h) \/ QuoteCost(h)
  <2>1. Own
    BY <1>0, <1>3, AdminsAssumption DEF DiscountPage, DiscountWrite, RepriceRead, QuoteCost, Unchanged, Goto, Counted, bounds
  <2> QED BY <2>1, RequestHands
<1>4. CASE RepriceWrite(h) \/ Quote(h)
  <2>1. Own
    BY <1>0, <1>4, AdminsAssumption DEF RepriceWrite, Quote, Unchanged, Done, Counted, bounds
  <2> QED BY <2>1, RequestHands
<1>5. ASSUME NEW p \in Products, DiscountRead(h, p) PROVE HandsOK'
  <2>1. Own
    BY <1>0, <1>5, AdminsAssumption DEF DiscountRead, Unchanged, Goto, Counted, bounds
  <2> QED BY <2>1, RequestHands
<1>6. ASSUME NEW p \in Products, ReadDenomination(h, p) \/ BeginQuote(h, p) PROVE HandsOK'
  <2>1. Own
    BY <1>0, <1>6, AdminsAssumption DEF ReadDenomination, BeginQuote, Goto, Edit, Counted
  <2> QED BY <2>1, RequestHands
<1>7. ASSUME NEW s \in Statuses, SetDenominationStatus(h, s) PROVE HandsOK'
  <2>1. Own
    BY <1>0, <1>7, AdminsAssumption DEF SetDenominationStatus, Unchanged, Done, Counted, bounds
  <2> QED BY <2>1, RequestHands
<1>8. ASSUME NEW cents \in HandPrices, NEW manual \in BOOLEAN, SetDenominationPrice(h, cents, manual)
      PROVE  HandsOK'
  <2>1. Own
    BY <1>0, <1>8, AdminsAssumption DEF SetDenominationPrice, Unchanged, Done, Counted, bounds
  <2> QED BY <2>1, RequestHands
<1> QED BY <1>1, <1>2, <1>3, <1>4, <1>5, <1>6, <1>7, <1>8 DEF Admin

\* A restart puts the worker's run back in front of the queue.
LEMMA CrashHands ==
  ASSUME IInv, HandsOK, Crash
  PROVE  HandsOK'
<1>1. /\ queue \in Seq(Nat) /\ Len(queue) \in Nat /\ work.run \in Nat
  BY LenProperties DEF IInv, QueueTypes, ProcTypes, WorkType
<1>2. /\ queue' = IF work.run = 0 THEN queue ELSE <<work.run>> \o queue
      /\ work'.run = 0 /\ runs' = runs
      /\ \A a \in Admins \cup {"sync"} : pc'[a] = "idle"
  BY DEF Crash, Idle
<1>3. \A r : r \in OpenRuns' <=> r \in OpenRuns
  BY <1>2 DEF OpenRuns
<1>4. \A r : r \in OpenRuns => r # 0
  BY DEF OpenRuns
<1>5. QueueOK'
  <2>1. CASE work.run = 0
    BY <1>2, <1>3, <1>4, <2>1 DEF HandsOK, QueueOK
  <2>2. CASE work.run # 0
    <3>1. <<work.run>> \in Seq(Nat) /\ Len(<<work.run>>) = 1 /\ <<work.run>>[1] = work.run
      BY <1>1
    <3>2. /\ Len(queue') = 1 + Len(queue)
          /\ \A k \in 1..1 + Len(queue) : queue'[k] = IF k <= 1 THEN <<work.run>>[k] ELSE queue[k - 1]
      BY <1>1, <1>2, <2>2, <3>1, ConcatProperties
    <3>3. queue'[1] = work.run
      BY <1>1, <3>1, <3>2
    <3>4. \A k \in 1..Len(queue') : k = 1 \/ (k - 1 \in 1..Len(queue) /\ queue'[k] = queue[k - 1])
      BY <1>1, <3>2
    <3>5. ASSUME NEW k \in 1..Len(queue') PROVE queue'[k] \in OpenRuns' /\ queue'[k] # work'.run
      BY <1>2, <1>3, <1>4, <2>2, <3>3, <3>4 DEF HandsOK, QueueOK, WorkerOK
    <3>6. ASSUME NEW j \in 1..Len(queue'), NEW k \in 1..Len(queue'), j # k PROVE queue'[j] # queue'[k]
      <4>1. j - 1 # k - 1
        BY <1>1, <3>2, <3>6
      <4> QED BY <3>3, <3>4, <3>6, <4>1 DEF HandsOK, QueueOK
    <3> QED BY <3>5, <3>6 DEF QueueOK
  <2> QED BY <2>1, <2>2
<1>6. WorkerOK' /\ RequestsOK'
  BY <1>2 DEF WorkerOK, RequestsOK
<1>7. Counted'
  BY DEF HandsOK, Counted, Crash
<1> QED BY <1>5, <1>6, <1>7 DEF HandsOK

\* Every step keeps the runs in their hands.
LEMMA HandsHold == IInv /\ HandsOK /\ [Next]_vars => HandsOK'
<1> SUFFICES ASSUME IInv, HandsOK, [Next]_vars PROVE HandsOK'
  OBVIOUS
<1>1. ASSUME NEW h \in Admins, Admin(h) PROVE HandsOK'
  BY <1>1, StartRunHands, AddRunHands, AdminHands
<1>2. CASE Change
  <2>1. work'.run = work.run
    BY <1>2 DEF Change, IInv, ProcTypes, WorkType
  <2>2. UNCHANGED syncs /\ pc' = pc /\ ctx' = ctx
    BY <1>2 DEF Change
  <2>3. Counted'
    BY <1>2 DEF HandsOK, Counted, Change
  <2> QED BY <2>1, <2>2, <2>3, HandsKept
<1>3. ASSUME Edit, EditOnly PROVE HandsOK'
  <2>1. UNCHANGED syncs /\ work' = work /\ pc' = pc /\ ctx' = ctx
    BY <1>3 DEF EditOnly
  <2>2. Counted'
    BY <1>3 DEF HandsOK, Counted, Edit, EditOnly
  <2> QED BY <2>1, <2>2, HandsKept
<1>4. CASE \/ \E p \in Products, s \in Statuses : SetProductStatus(p, s)
           \/ \E r \in Rules : UpsertRule(r) \/ \E p \in Products : AssignRule(p, r.id)
  BY <1>3, <1>4 DEF SetProductStatus, UpsertRule, AssignRule
<1>5. CASE UNCHANGED vars
  <2>1. UNCHANGED syncs /\ work' = work /\ pc' = pc /\ ctx' = ctx
    BY <1>5 DEF vars
  <2>2. Counted'
    BY <1>5 DEF HandsOK, Counted, vars, bounds
  <2> QED BY <2>1, <2>2, HandsKept
<1> QED BY <1>1, <1>2, <1>4, <1>5, SyncHands, CrashHands DEF Next

\* The rows stay well formed, no run is queued twice or queued while it is worked
\* on, and the worker holds a RUNNING run exactly while it works, whatever
\* overlaps, fails or restarts (GiftCardSyncScheduler, GiftCardSyncProcessor).
THEOREM CatalogTypes == Spec => []TypeOK
<1>1. Init => HandsOK
  BY DEF Init, HandsOK, QueueOK, WorkerOK, RequestsOK, Counted, Idle
<1>2. Spec => []IInv
  BY InitHolds, StepHolds, PTL DEF Spec
<1>3. Spec => []HandsOK
  BY <1>1, <1>2, HandsHold, PTL DEF Spec
<1>4. IInv /\ HandsOK => TypeOK
  <2> SUFFICES ASSUME IInv, HandsOK PROVE TypeOK
    OBVIOUS
  <2>1. \A r \in 1..Len(runs) : runs[r] \in {"RUNNING", "COMPLETED", "FAILED"}
    BY LenProperties DEF IInv, QueueTypes, RunStates
  <2>2. work.stale \subseteq Products /\ DOMAIN work.items \subseteq Products
    BY DEF IInv, ProcTypes, WorkType, Items
  <2> QED BY <2>1, <2>2 DEF TypeOK, IInv, ProviderTypes, RowTypes, ProcTypes, HandsOK, QueueOK, WorkerOK,
                OpenRuns, Counted
<1> QED BY <1>2, <1>3, <1>4, PTL
=============================================================================
