-------------------------- MODULE GiftCardCatalog --------------------------
(***************************************************************************)
(* The gift card catalogue: the queued walk over Reloadly's product pages  *)
(* with its stale sweep, the discount reconciliation, repricing, the       *)
(* admin's edits and the quotes for RANGE products, all on the same        *)
(* product and denomination rows.  One action per await.  A FIXED product  *)
(* has one denomination here, a RANGE product one quoted amount; names,    *)
(* brands, logos and the counters of a run are left out.                   *)
(***************************************************************************)
EXTENDS GiftCardPricing, Sequences, FiniteSets

CONSTANTS Products,    \* Reloadly's products: numbers, in the order it lists them
          Ranged,      \* those of type RANGE
          Offers,      \* what Reloadly may charge: inputs of a price
          Rules,       \* pricing rules an admin may activate
          Keys,        \* Keys[p]: what the scopes of a rule refer to for product p
          HandPrices,  \* retail prices an admin may set, in cents
          Admins,      \* concurrent admin requests, quotes and cron ticks
          PageSize,    \* GIFTCARD_SYNC_PAGE_SIZE
          Concurrency, \* GIFTCARD_SYNC_CONCURRENCY: pages fetched at once
          MaxPercent,  \* GIFTCARD_ARCHIVE_SWEEP_MAX_PERCENT
          MaxRuns, MaxEdits, MaxChanges, MaxFaults \* bounds: sync runs, requests of
                       \* admins and quotes, changes at Reloadly, failures

VARIABLES listed,  \* products Reloadly lists
          offer,   \* its terms for each, whether it is ACTIVE and has the denomination
          rules,   \* active pricing rules
          product, \* GiftCardProduct rows
          denom,   \* GiftCardDenomination rows
          byHand,  \* an admin has set the denomination's price
          runs,    \* GiftCardSyncRun rows in the order of startedAt: their status
          queue,   \* run ids waiting for the sync worker (concurrency 1)
          pc, work, ctx,          \* what the worker and the requests await; their locals
          edits, changes, faults  \* how much of each bound is used

ASSUME ProductsAssumption == Products \subseteq Nat /\ IsFiniteSet(Products) /\ Ranged \subseteq Products
ASSUME AdminsAssumption == "sync" \notin Admins
Terms == [face : Nat, cost : Nat, feePct : Nat, feeFixed : Nat, discPct : Nat, same : BOOLEAN, rate : Nat]
ASSUME OffersAssumption == Offers \subseteq Terms
ASSUME RulesAssumption ==   \* the ranges of the admin's dto
  /\ \A r \in Rules : r.minMargin \in Nat /\ r.discount \in 0..100 /\ r.maxOver \in Nat
  /\ HandPrices \subseteq Nat
ASSUME WalkAssumption == PageSize \in Nat \ {0} /\ Concurrency \in Nat \ {0} /\ MaxPercent \in Nat
ASSUME BoundsAssumption ==
  MaxRuns \in Nat /\ MaxEdits \in Nat /\ MaxChanges \in Nat /\ MaxFaults \in Nat

provider == <<listed, offer>>
catalog == <<product, denom, byHand>>
syncs == <<runs, queue>>
bounds == <<edits, changes, faults>>
vars == <<provider, rules, catalog, syncs, pc, work, ctx, bounds>>

Statuses == {"DRAFT", "PUBLISHED", "ARCHIVED"}
Idle == [run |-> 0, rules |-> {}, pages |-> {}, asked |-> {}, got |-> {}, items |-> <<>>,
         prior |-> {}, rows |-> <<>>, errors |-> FALSE, count |-> 0, stale |-> {}, moved |-> FALSE]
NoCtx == [p |-> 0, rules |-> {}, page |-> 1, rates |-> <<>>, todo |-> {}, rows |-> <<>>,
          viable |-> FALSE, net |-> 0]

Goto(a, label) == pc' = [pc EXCEPT ![a] = label]
Done(h) == pc' = [pc EXCEPT ![h] = "idle"] /\ ctx' = [ctx EXCEPT ![h] = NoCtx]

\* A product's page is given by its rank among the listed ones.
Rank(p) == Cardinality({q \in listed : q <= p})
OnPage(k) == {p \in listed : (k - 1) * PageSize < Rank(p) /\ Rank(p) <= k * PageSize}
Page(k) == [p \in OnPage(k) |-> offer[p]]
TotalPages == RoundUp(Cardinality(listed), PageSize)

RuleFor(rs, p, row) == ResolveRule(rs, [Keys[p] EXCEPT !.pin = row.pin])

\* What the pricing writes into a denomination: its terms' cost and fee, ...
Priced(d, i, r) ==
  [d EXCEPT !.cost = i.cost, !.net = NetCost(i), !.viable = Viable(i, r),
            !.retail = IF d.manual THEN @ ELSE RetailPrice(i, r)]

\* A customer may buy it: getPurchasableDenomination, and the public lists.
Purchasable(p) == product[p].status = "PUBLISHED" /\ denom[p].status = "PUBLISHED" /\ denom[p].viable

\* An earlier walk has stored every product and an admin has published them.
Init ==
  /\ listed = Products
  /\ \E t \in [Products -> Offers] :
       /\ offer = [p \in Products |-> [terms |-> t[p], active |-> TRUE, stocked |-> TRUE]]
       /\ product = [p \in Products |-> [status |-> "PUBLISHED", seen |-> 0, terms |-> t[p], pin |-> "none"]]
       /\ \E r \in Rules :
            /\ r.scope = "GLOBAL" /\ rules = {r}
            /\ denom = [p \in Products |->
                 IF p \in Ranged
                 THEN [status |-> "none", viable |-> FALSE, manual |-> FALSE, retail |-> 0,
                       net |-> 0, cost |-> 0, seen |-> 0]
                 ELSE [status |-> IF Viable(t[p], r) THEN "PUBLISHED" ELSE "DRAFT",
                       viable |-> Viable(t[p], r), manual |-> FALSE,
                       retail |-> RetailPrice(t[p], r), net |-> NetCost(t[p]),
                       cost |-> t[p].cost, seen |-> 0]]
  /\ byHand = [p \in Products |-> FALSE]
  /\ runs = <<>> /\ queue = <<>>
  /\ pc = [a \in Admins \cup {"sync"} |-> "idle"]
  /\ work = Idle
  /\ ctx = [h \in Admins |-> NoCtx]
  /\ edits = 0 /\ changes = 0 /\ faults = 0

-----------------------------------------------------------------------------
(* GiftCardSyncScheduler                                                     *)

\* Look for a RUNNING run and find none that is not two hours old: without a clock
\* any of them may be, one whose job still waits or runs included.
EnqueueCheck(h) ==
  /\ pc[h] = "idle" /\ Len(runs) < MaxRuns
  /\ Goto(h, "startRun")
  /\ UNCHANGED <<provider, rules, catalog, syncs, work, ctx, bounds>>

StartRun(h) ==
  /\ pc[h] = "startRun" /\ Len(runs) < MaxRuns
  /\ runs' = Append(runs, "RUNNING")
  /\ ctx' = [ctx EXCEPT ![h].p = Len(runs')]
  /\ Goto(h, "addRun")
  /\ UNCHANGED <<provider, rules, catalog, queue, work, bounds>>

\* Mutant: the job names the newest run, not the one this request created.
AddRunNewest(h) ==
  /\ pc[h] = "addRun"
  /\ queue' = Append(queue, Len(runs))
  /\ Done(h)
  /\ UNCHANGED <<provider, rules, catalog, runs, work, bounds>>

AddRun(h) ==
  /\ pc[h] = "addRun"
  /\ queue' = Append(queue, ctx[h].p)
  /\ Done(h)
  /\ UNCHANGED <<provider, rules, catalog, runs, work, bounds>>

-----------------------------------------------------------------------------
(* GiftCardSyncService.run                                                   *)

\* The worker's next step is at `label` with locals `w`.
Work(w, label) == work' = w /\ Goto("sync", label) /\ UNCHANGED <<ctx, provider, rules, byHand, bounds>>
Quiet(w, label) == Work(w, label) /\ UNCHANGED <<product, denom, syncs>>

\* A run ends in status s.  Without one it stays RUNNING: its job has failed.
EndRun(s) ==
  /\ runs' = IF s = "lost" THEN runs ELSE [runs EXCEPT ![work.run] = s]
  /\ work' = Idle
  /\ Goto("sync", "idle")
  /\ UNCHANGED <<provider, rules, catalog, queue, ctx>>

TakeRun ==
  /\ pc["sync"] = "idle" /\ queue # <<>>
  /\ queue' = Tail(queue)
  /\ Work([Idle EXCEPT !.run = Head(queue)], "reference")
  /\ UNCHANGED <<product, denom, runs>>

\* Countries and categories, then the rules of the whole run.
Reference ==
  /\ pc["sync"] = "reference"
  /\ Quiet([work EXCEPT !.rules = rules], "first")

FirstN(S, n) == {k \in S : Cardinality({j \in S : j <= k}) <= n}
Least(S) == CHOOSE k \in S : \A j \in S : k <= j

\* What to do with locals w: write the first page in hand, fetch the next group
\* of pages, or go and sweep.
Advance(w) ==
  IF w.got # {}
  THEN \E g \in w.got :
         /\ \A j \in w.got : g.page <= j.page
         /\ Quiet([w EXCEPT !.got = @ \ {g}, !.items = g.items], "readProducts")
  ELSE IF w.pages # {}
  THEN LET G == FirstN(w.pages, Concurrency)
       IN Quiet([w EXCEPT !.pages = @ \ G, !.asked = G, !.items = <<>>], "fetch")
  ELSE Quiet([w EXCEPT !.items = <<>>], "sweepCount")

\* Page 1 says how many there are; it is written before the others are fetched.
FirstPage ==
  /\ pc["sync"] = "first"
  /\ Advance([work EXCEPT !.pages = 2..TotalPages, !.got = {[page |-> 1, items |-> Page(1)]}])

\* The pages of a group are answered in any order; one that fails is recorded.
\* When all are, they are written one at a time.
FetchPage ==
  /\ pc["sync"] = "fetch"
  /\ \E k \in work.asked :
       LET w == [work EXCEPT !.asked = @ \ {k}, !.got = @ \cup {[page |-> k, items |-> Page(k)]}]
       IN IF w.asked = {} THEN Advance(w) ELSE Quiet(w, "fetch")

\* Mutant: the failed page is dropped without an error.
PageForgotten ==
  /\ pc["sync"] = "fetch" /\ faults < MaxFaults /\ faults' = faults + 1
  /\ \E k \in work.asked :
       LET w == [work EXCEPT !.asked = @ \ {k}]
           label == IF w.asked # {} THEN "fetch" ELSE IF w.got # {} THEN "written" ELSE "sweepCount"
       IN work' = w /\ Goto("sync", label)
  /\ UNCHANGED <<provider, rules, catalog, syncs, ctx, edits, changes>>

PageFails ==
  /\ pc["sync"] = "fetch" /\ faults < MaxFaults /\ faults' = faults + 1
  /\ \E k \in work.asked :
       LET w == [work EXCEPT !.asked = @ \ {k}, !.errors = TRUE]
       IN work' = w /\ Goto("sync", IF w.asked # {} THEN "fetch" ELSE "written")
  /\ UNCHANGED <<provider, rules, catalog, syncs, ctx, edits, changes>>

\* processPage: read which of its products are on sale, ...
ReadProducts ==
  /\ pc["sync"] = "readProducts"
  /\ Quiet([work EXCEPT !.prior = {p \in DOMAIN work.items : product[p].status = "PUBLISHED"}],
           "writeProducts")

\* ... upsert them, off sale if Reloadly says INACTIVE and they were on it, ...
WriteProducts ==
  /\ pc["sync"] = "writeProducts"
  /\ product' = [p \in Products |->
       IF p \notin DOMAIN work.items THEN product[p]
       ELSE [product[p] EXCEPT
               !.status = IF @ = "none" \/ (~work.items[p].active /\ p \in work.prior) THEN "DRAFT" ELSE @,
               !.seen = work.run, !.terms = work.items[p].terms]]
  /\ Work(work, "readRows")
  /\ UNCHANGED <<denom, syncs>>

\* ... read them back with their denominations, ...
ReadRows ==
  /\ pc["sync"] = "readRows"
  /\ Quiet([work EXCEPT !.rows = [p \in DOMAIN work.items |-> [product |-> product[p], denom |-> denom[p]]]],
           "writeRows")

\* ... price the denominations of FIXED products and upsert them: the hand-set
\* price and the status on sale are those read before.  No rule ends the run.
WriteRows ==
  LET Fixed == DOMAIN work.items \ Ranged
      RuleOf(p) == RuleFor(work.rules, p, work.rows[p].product)
      Row(p) ==
        LET r == CHOOSE r \in RuleOf(p) : TRUE
            i == [work.rows[p].product.terms EXCEPT !.cost = work.items[p].terms.cost]
            d == Priced([denom[p] EXCEPT !.manual = work.rows[p].denom.manual], i, r)
        IN [d EXCEPT !.manual = denom[p].manual, !.seen = work.run,
                     !.status = IF @ = "none" THEN "DRAFT"
                                ELSE IF ~d.viable /\ work.rows[p].denom.status = "PUBLISHED" THEN "DRAFT" ELSE @]
  IN
  /\ pc["sync"] = "writeRows"
  /\ \/ /\ \E p \in Fixed : RuleOf(p) = {}
        /\ EndRun("FAILED") /\ UNCHANGED bounds
     \/ /\ \A p \in Fixed : RuleOf(p) # {}
        /\ denom' = [p \in Products |->
             IF p \in Fixed /\ work.items[p].stocked THEN Row(p) ELSE denom[p]]
        /\ Work(work, "hide")
        /\ UNCHANGED <<product, syncs>>

\* ... and archive the denominations the page's products no longer have.
Hide ==
  /\ pc["sync"] = "hide"
  /\ denom' = [p \in Products |->
       IF p \in DOMAIN work.items /\ denom[p].seen < work.run /\ denom[p].status \notin {"none", "ARCHIVED"}
       THEN [denom[p] EXCEPT !.status = "ARCHIVED", !.viable = FALSE] ELSE denom[p]]
  /\ Work([work EXCEPT !.items = <<>>, !.prior = {}, !.rows = <<>>], "written")
  /\ UNCHANGED <<product, syncs>>

NextPage == pc["sync"] = "written" /\ Advance(work)

\* sweepStale: not after a page error, nor if it would archive too large a share.
Live == {p \in Products : product[p].status \notin {"none", "ARCHIVED"}}
Stale == {p \in Live : product[p].seen < work.run}

TooLarge(stale, live) == IF live = 0 THEN MaxPercent < 100 ELSE stale * 100 > MaxPercent * live

\* The two counts are asked for at once and answered in either order, ...
SweepCount ==
  /\ pc["sync"] = "sweepCount"
  /\ IF work.errors THEN Quiet(work, "finish")
     ELSE \/ Quiet([work EXCEPT !.count = Cardinality(Stale)], "countLive")
          \/ Quiet([work EXCEPT !.count = Cardinality(Live)], "countStale")

\* ... so they may be of different moments.
SweepShare ==
  LET now == IF pc["sync"] = "countLive" THEN Cardinality(Live) ELSE Cardinality(Stale)
      stale == IF pc["sync"] = "countLive" THEN work.count ELSE now
      live == IF pc["sync"] = "countLive" THEN now ELSE work.count
  IN
  /\ pc["sync"] \in {"countLive", "countStale"}
  /\ Quiet([work EXCEPT !.count = 0],
           IF stale = 0 \/ TooLarge(stale, live) THEN "finish" ELSE "sweepSelect")

SweepSelect ==
  /\ pc["sync"] = "sweepSelect"
  /\ Quiet([work EXCEPT !.stale = Stale], "archive")

\* One transaction archives the products selected and their denominations.
Archive ==
  /\ pc["sync"] = "archive"
  /\ product' = [p \in Products |->
       IF p \in work.stale THEN [product[p] EXCEPT !.status = "ARCHIVED"] ELSE product[p]]
  /\ denom' = [p \in Products |->
       IF p \in work.stale /\ denom[p].status # "none"
       THEN [denom[p] EXCEPT !.status = "ARCHIVED", !.viable = FALSE] ELSE denom[p]]
  /\ Work([work EXCEPT !.stale = {}], "finish")
  /\ UNCHANGED syncs

FinishRun ==
  /\ pc["sync"] = "finish"
  /\ EndRun("COMPLETED")
  /\ UNCHANGED bounds

Sweeping == {"sweepCount", "countLive", "countStale", "sweepSelect", "archive", "finish"}

\* A call of the run fails: until the pages are written that ends it FAILED,
\* afterwards nothing catches it.
RunFails ==
  /\ pc["sync"] \notin {"idle", "fetch", "written"} /\ faults < MaxFaults /\ faults' = faults + 1
  /\ EndRun(IF pc["sync"] \in Sweeping THEN "lost" ELSE "FAILED")
  /\ UNCHANGED <<edits, changes>>

\* The process restarts: requests are gone, the stalled run starts over.
Crash ==
  /\ faults < MaxFaults /\ faults' = faults + 1
  /\ queue' = IF work.run = 0 THEN queue ELSE <<work.run>> \o queue
  /\ work' = Idle
  /\ pc' = [a \in Admins \cup {"sync"} |-> "idle"]
  /\ ctx' = [h \in Admins |-> NoCtx]
  /\ UNCHANGED <<provider, rules, catalog, runs, edits, changes>>

-----------------------------------------------------------------------------
(* reconcileDiscounts and repriceAll, called by admins                       *)

\* A new request h, for product p (0: none in particular), at `label`.
Request(h, p, label) ==
  /\ pc[h] = "idle" /\ edits < MaxEdits /\ edits' = edits + 1
  /\ Goto(h, label)
  /\ ctx' = [ctx EXCEPT ![h].p = p, ![h].rules = rules]
  /\ UNCHANGED <<provider, catalog, syncs, work, changes, faults>>

\* Both load the rules first.
BeginReconcile(h) == Request(h, 0, "discounts") /\ UNCHANGED rules
BeginReprice(h) == Request(h, 0, "repriceAll") /\ UNCHANGED rules

Unchanged(h) == UNCHANGED <<provider, rules, syncs, work, bounds>>

\* The commissions of one page, once those of the page before are dealt with; after
\* the last one (page 0) the products that moved are read.
DiscountPage(h) ==
  LET k == ctx[h].page IN
  /\ pc[h] = "discounts" /\ ctx[h].rates = <<>> /\ k # 0
  /\ ctx' = [ctx EXCEPT ![h].rates = [p \in OnPage(k) |-> offer[p].terms.discPct],
                        ![h].page = IF k < TotalPages THEN k + 1 ELSE 0]
  /\ UNCHANGED <<pc, catalog>> /\ Unchanged(h)

Drop(rates, p) == [q \in DOMAIN rates \ {p} |-> rates[q]]

\* One product of the page after the other: read its row, ...
DiscountRead(h, p) ==
  LET rates == ctx[h].rates IN
  /\ pc[h] = "discounts" /\ p \in DOMAIN rates /\ \A q \in DOMAIN rates : p <= q
  /\ IF product[p].status # "none" /\ product[p].terms.discPct # rates[p]
     THEN ctx' = [ctx EXCEPT ![h].p = p] /\ Goto(h, "discountWrite")
     ELSE ctx' = [ctx EXCEPT ![h].rates = Drop(rates, p)] /\ UNCHANGED pc
  /\ UNCHANGED catalog /\ Unchanged(h)

\* ... and if its commission had moved, write the one fetched.
DiscountWrite(h) ==
  LET p == ctx[h].p
      rates == ctx[h].rates
  IN
  /\ pc[h] = "discountWrite"
  /\ product' = [product EXCEPT ![p].terms.discPct = rates[p]]
  /\ ctx' = [ctx EXCEPT ![h].p = 0, ![h].rates = Drop(rates, p), ![h].todo = @ \cup {p}]
  /\ Goto(h, "discounts")
  /\ UNCHANGED <<denom, byHand>> /\ Unchanged(h)

RepriceRead(h) ==
  /\ pc[h] \in {"discounts", "repriceAll"}
  /\ pc[h] = "discounts" => ctx[h].page = 0 /\ ctx[h].rates = <<>>
  /\ LET todo == IF pc[h] = "discounts" THEN ctx[h].todo ELSE Live
     IN ctx' = [ctx EXCEPT ![h].rows = [p \in todo |-> [product |-> product[p], denom |-> denom[p]]]]
  /\ Goto(h, "repriceWrite")
  /\ UNCHANGED catalog /\ Unchanged(h)

\* applyRepricing of the rows read: archived denominations are left alone, no
\* rule ends the request, and an unviable one that was on sale goes to DRAFT.
RepriceWrite(h) ==
  LET rows == ctx[h].rows
      Todo == {p \in DOMAIN rows : rows[p].denom.status \notin {"none", "ARCHIVED"}}
      RuleOf(p) == RuleFor(ctx[h].rules, p, rows[p].product)
      Row(p) ==
        LET r == CHOOSE r \in RuleOf(p) : TRUE
            d == Priced(rows[p].denom, [rows[p].product.terms EXCEPT !.cost = rows[p].denom.cost], r)
        IN [denom[p] EXCEPT
              !.net = d.net, !.viable = d.viable,
              !.retail = IF rows[p].denom.manual THEN @ ELSE d.retail,
              !.status = IF ~d.viable /\ rows[p].denom.status = "PUBLISHED" THEN "DRAFT" ELSE @]
  IN
  /\ pc[h] = "repriceWrite"
  /\ denom' = [p \in Products |->
       IF p \in Todo /\ (\A q \in Todo : RuleOf(q) # {}) THEN Row(p) ELSE denom[p]]
  /\ Done(h)
  /\ UNCHANGED <<product, byHand>> /\ Unchanged(h)

-----------------------------------------------------------------------------
(* GiftCardCatalogService, and the rules: the admin's edits                  *)

\* One request that writes at once.
Edit == edits < MaxEdits /\ edits' = edits + 1
EditOnly == UNCHANGED <<provider, byHand, syncs, pc, work, ctx, changes, faults>>

\* Publishing a product publishes its viable denominations; any other status is
\* given to all of them.
SetProductStatus(p, s) ==
  /\ Edit /\ product[p].status # "none"
  /\ product' = [product EXCEPT ![p].status = s]
  /\ denom' = IF denom[p].status # "none" /\ (s = "PUBLISHED" => denom[p].viable)
              THEN [denom EXCEPT ![p].status = s] ELSE denom
  /\ UNCHANGED rules /\ EditOnly

\* A denomination: read it, and publish only a viable one.
ReadDenomination(h, p) ==
  /\ denom[p].status # "none"
  /\ pc[h] = "idle" /\ Edit
  /\ Goto(h, "editDenomination")
  /\ ctx' = [ctx EXCEPT ![h].p = p, ![h].viable = denom[p].viable, ![h].net = denom[p].net]
  /\ UNCHANGED <<provider, rules, catalog, syncs, work, changes, faults>>

SetDenominationStatus(h, s) ==
  /\ pc[h] = "editDenomination" /\ (s = "PUBLISHED" => ctx[h].viable)
  /\ denom' = [denom EXCEPT ![ctx[h].p].status = s]
  /\ Done(h)
  /\ UNCHANGED <<product, byHand>> /\ Unchanged(h)

\* A price by hand, kept (manualOverride) or not; viable if above the cost read.
SetDenominationPrice(h, cents, manual) ==
  LET p == ctx[h].p IN
  /\ pc[h] = "editDenomination"
  /\ denom' = [denom EXCEPT ![p].retail = cents, ![p].manual = manual,
                            ![p].viable = cents * 100 > ctx[h].net]
  /\ byHand' = [byHand EXCEPT ![p] = TRUE]
  /\ Done(h)
  /\ UNCHANGED product /\ Unchanged(h)

\* upsertRule replaces the rule of its scope; a rule deactivated or deleted is
\* gone, GLOBAL too (it cannot be deleted, but deactivated).
UpsertRule(r) ==
  /\ Edit
  /\ rules' \in {{q \in rules : q.scope # r.scope \/ q.ref # r.ref} \cup {r}, rules \ {r}}
  /\ UNCHANGED <<product, denom>> /\ EditOnly

AssignRule(p, id) ==
  /\ Edit /\ product[p].status # "none"
  /\ product' = [product EXCEPT ![p].pin = id]
  /\ UNCHANGED <<rules, denom>> /\ EditOnly

-----------------------------------------------------------------------------
(* GiftCardRangeService.quote                                                *)

BeginQuote(h, p) ==
  /\ p \in Ranged /\ product[p].status = "PUBLISHED"
  /\ pc[h] = "idle" /\ Edit
  /\ Goto(h, "quote")
  /\ ctx' = [ctx EXCEPT ![h].p = p, ![h].rows = [q \in {p} |-> [product |-> product[q]]]]
  /\ UNCHANGED <<provider, rules, catalog, syncs, work, changes, faults>>

\* What Reloadly charges for the amount now, and the rules.
QuoteCost(h) ==
  LET i == ctx[h].rows[ctx[h].p].product.terms IN
  /\ pc[h] = "quote"
  /\ ctx' = [ctx EXCEPT ![h].rules = rules,
                        ![h].net = IF i.same THEN i.face ELSE offer[ctx[h].p].terms.cost]
  /\ Goto(h, "quotePriced")
  /\ UNCHANGED catalog /\ Unchanged(h)

\* A viable amount goes on sale at once.
Quote(h) ==
  LET p == ctx[h].p
      row == ctx[h].rows[p].product
      hits == RuleFor(ctx[h].rules, p, row)
      r == CHOOSE r \in hits : TRUE
      i == [row.terms EXCEPT !.cost = ctx[h].net]
  IN
  /\ pc[h] = "quotePriced"
  /\ denom' = IF hits # {} /\ Viable(i, r)
              THEN [denom EXCEPT ![p] =
                     [@ EXCEPT !.status = "PUBLISHED", !.viable = TRUE, !.seen = Len(runs),
                               !.cost = i.cost, !.net = NetCost(i), !.retail = RetailPrice(i, r)]]
              ELSE denom
  /\ Done(h)
  /\ UNCHANGED <<product, byHand>> /\ Unchanged(h)

-----------------------------------------------------------------------------
(* Reloadly                                                                  *)

\* It lists a product or stops to, or changes what it says of one.
Change ==
  /\ changes < MaxChanges /\ changes' = changes + 1
  /\ \E p \in Products :
       \/ /\ listed' = IF p \in listed THEN listed \ {p} ELSE listed \cup {p}
          /\ work' = [work EXCEPT !.moved = pc["sync"] # "idle"]
          /\ UNCHANGED offer
       \/ /\ \E o \in [terms : Offers, active : BOOLEAN, stocked : BOOLEAN] :
               o # offer[p] /\ offer' = [offer EXCEPT ![p] = o]
          /\ UNCHANGED <<listed, work>>
  /\ UNCHANGED <<rules, catalog, syncs, pc, ctx, edits, faults>>

-----------------------------------------------------------------------------
Sync ==
  \/ TakeRun \/ Reference \/ FirstPage \/ FetchPage \/ PageFails
  \/ ReadProducts \/ WriteProducts \/ ReadRows \/ WriteRows \/ Hide \/ NextPage
  \/ SweepCount \/ SweepShare \/ SweepSelect \/ Archive \/ FinishRun \/ RunFails

Admin(h) ==
  \/ EnqueueCheck(h) \/ StartRun(h) \/ AddRun(h)
  \/ BeginReconcile(h) \/ DiscountPage(h) \/ DiscountWrite(h)
  \/ BeginReprice(h) \/ RepriceRead(h) \/ RepriceWrite(h)
  \/ QuoteCost(h) \/ Quote(h)
  \/ \E p \in Products : DiscountRead(h, p) \/ ReadDenomination(h, p) \/ BeginQuote(h, p)
  \/ \E s \in Statuses : SetDenominationStatus(h, s)
  \/ \E cents \in HandPrices, manual \in BOOLEAN : SetDenominationPrice(h, cents, manual)

Next ==
  \/ Sync \/ Crash \/ Change
  \/ \E h \in Admins : Admin(h)
  \/ \E p \in Products, s \in Statuses : SetProductStatus(p, s)
  \/ \E r \in Rules : UpsertRule(r) \/ \E p \in Products : AssignRule(p, r.id)

Spec == Init /\ [][Next]_vars

-----------------------------------------------------------------------------
Labels ==
  {"idle", "startRun", "addRun", "discounts", "discountWrite", "repriceAll", "repriceWrite", "editDenomination",
   "quote", "quotePriced", "reference", "first", "fetch", "readProducts", "writeProducts", "readRows",
   "writeRows", "hide", "written"} \cup Sweeping
ProductRow == [status : Statuses \cup {"none"}, seen : Nat, terms : Terms,
               pin : {r.id : r \in Rules} \cup {"none"}]
DenomRow == [status : Statuses \cup {"none"}, viable : BOOLEAN, manual : BOOLEAN,
             retail : Int, net : Int, cost : Nat, seen : Nat]

\* The rows are well formed, no run is queued twice or both queued and worked
\* on, and the worker works exactly while it holds a RUNNING run.
TypeOK ==
  /\ listed \subseteq Products /\ rules \subseteq Rules
  /\ product \in [Products -> ProductRow] /\ denom \in [Products -> DenomRow]
  /\ byHand \in [Products -> BOOLEAN]
  /\ \A r \in 1..Len(runs) : runs[r] \in {"RUNNING", "COMPLETED", "FAILED"}
  /\ pc \in [Admins \cup {"sync"} -> Labels]
  /\ work.stale \subseteq Products /\ DOMAIN work.items \subseteq Products
  /\ \A j, k \in 1..Len(queue) : j # k => queue[j] # queue[k]
  /\ \A k \in 1..Len(queue) : queue[k] \in 1..Len(runs) /\ queue[k] # work.run
  /\ pc["sync"] = "idle" <=> work.run = 0
  /\ work.run # 0 => runs[work.run] = "RUNNING"
  /\ edits \in Nat /\ changes \in Nat /\ faults \in Nat

\* Whatever rules, commissions, syncs and reprices interleave, a viable price no
\* admin has ever set keeps the least margin any rule asks for over the net cost
\* stored beside it, rounding included: nothing is sold at a loss by itself.
LeastMargin == CHOOSE m \in {r.minMargin : r \in Rules} : \A r \in Rules : m <= r.minMargin
NoLossByItself ==
  \A p \in Products :
    denom[p].viable /\ ~byHand[p] => denom[p].retail * 10000 >= denom[p].net * (100 + LeastMargin)

\* The sweep takes a product off sale only if Reloadly has stopped listing it,
\* unless Reloadly's list changed while the run walked its pages.
SweepJustified ==
  [][\A p \in Products :
       pc["sync"] = "archive" /\ pc'["sync"] = "finish"
         /\ product[p].status # "ARCHIVED" /\ product'[p].status = "ARCHIVED"
         => p \notin listed \/ work.moved]_vars

-----------------------------------------------------------------------------
(* What comments of the repository say and the code does not do.             *)

\* giftcard-catalog.service.ts: a denomination priced by hand "is only marked
\* viable again when the price genuinely clears cost".
ViableClearsCost ==
  \A p \in Products : denom[p].viable /\ denom[p].manual => denom[p].retail * 100 > denom[p].net

\* giftcard-sync.service.ts: "A hand-set price survives the sync", and the
\* admin's route says that "syncs and repricing leave it alone": only a request
\* of an admin that edits the denomination changes the price.
HandPriceKept ==
  [][\A p \in Products \ Ranged :
       denom[p].manual /\ denom'[p].retail # denom[p].retail
         => \E h \in Admins : pc[h] = "editDenomination" /\ ctx[h].p = p /\ pc'[h] = "idle"]_vars
=============================================================================
