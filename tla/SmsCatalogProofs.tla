-------------------------- MODULE SmsCatalogProofs --------------------------
(***************************************************************************)
(* What the SMS catalogue keeps for any offers, plans, rules, prices and   *)
(* bounds: its prices stay above their markup, the sweep takes only what   *)
(* it may, and a clean run leaves the shop as SMSPool has it.              *)
(***************************************************************************)
EXTENDS SmsCatalog, TLAPS, FiniteSetTheorems, SequenceTheorems, WellFoundedInduction

-----------------------------------------------------------------------------
(* The price                                                                 *)

LEMMA ProductsNat == \A a, b \in Nat : a * b \in Nat
OBVIOUS

\* A marked-up price is a natural number and undershoots by half a unit at most.
LEMMA MarkedUp ==
  ASSUME NEW c \in Nat, NEW m \in Nat
  PROVE  LET p == (2 * c * (100 + m) + 100) \div 200
         IN p \in Nat /\ p * 100 + 50 >= c * (100 + m)
<1> DEFINE x == c * (100 + m)
<1>1. x \in Nat
  BY ProductsNat
<1>2. 2 * c * (100 + m) = 2 * x
  OBVIOUS
<1> HIDE DEF x
<1>3. (2 * x + 100) \div 200 \in Nat /\ ((2 * x + 100) \div 200) * 100 + 50 >= x
  BY <1>1
<1> QED BY <1>2, <1>3 DEF x

\* Nonempty sets of natural numbers have a least element.
LEMMA LeastOfNats ==
  ASSUME NEW S \in SUBSET Nat, S # {}
  PROVE  \E n \in S : \A m \in S : n <= m
<1> DEFINE R == OpToRel(<, Nat)
<1>1. IsWellFoundedOn(R, Nat)
  BY NatLessThanWellFounded
<1>2. \A i, j \in Nat : i < j => <<i, j>> \in R
  BY DEF OpToRel
<1> HIDE DEF R
<1>3. PICK n \in S : \A y \in S : ~(<<y, n>> \in R)
  BY <1>1, WFMin
<1>4. ASSUME NEW m \in S PROVE n <= m
  <2>1. n \in Nat /\ m \in Nat /\ ~(m < n)
    BY <1>2, <1>3
  <2> QED BY <2>1
<1> QED BY <1>4

\* Some markup in use is the least.
LEMMA LeastOfAll ==
  /\ LeastMarkup \in Nat /\ LeastMarkup <= 20
  /\ \A r \in Rules : LeastMarkup <= r.markup
<1> DEFINE S == {20} \cup {r.markup : r \in Rules}
<1>1. S \in SUBSET Nat /\ S # {}
  BY AmountsAssumption
<1>2. \E m \in S : \A n \in S : m <= n
  <2> HIDE DEF S
  <2> QED BY <1>1, LeastOfNats
<1>3. LeastMarkup \in S /\ \A n \in S : LeastMarkup <= n
  BY <1>2 DEF LeastMarkup
<1> QED BY <1>1, <1>3

\* The rules an item resolves to are among those given.
LEMMA Resolved == \A rs, i : ResolveRule(rs, i) \subseteq rs
<1> SUFFICES ASSUME NEW rs, NEW i PROVE ResolveRule(rs, i) \subseteq rs
  OBVIOUS
<1> DEFINE Of(k) == {r \in rs : r.scope = Scopes[k] /\ r.ref = Keys[i][Scopes[k]]}
           Hits == {k \in 1..4 : Of(k) # {}}
           First == CHOOSE k \in Hits : \A l \in Hits : k <= l
<1>1. Of(First) \subseteq rs
  OBVIOUS
<1>2. ResolveRule(rs, i) = IF Hits = {} THEN {} ELSE Of(First)
  BY DEF ResolveRule
<1> QED BY <1>1, <1>2

\* A price never falls below the cost marked up by the least markup, up to
\* rounding.
LEMMA PriceHolds ==
  ASSUME NEW c \in Nat, NEW hits \in SUBSET Rules
  PROVE  Price(c, hits) \in Nat /\ Price(c, hits) * 100 + 50 >= c * (100 + LeastMarkup)
<1> DEFINE Marked(m) == (2 * c * (100 + m) + 100) \div 200
<1>1. ASSUME NEW m \in Nat, LeastMarkup <= m
      PROVE  Marked(m) \in Nat /\ Marked(m) * 100 + 50 >= c * (100 + LeastMarkup)
  <2>1. m - LeastMarkup \in Nat /\ LeastMarkup \in Nat
    BY <1>1, LeastOfAll
  <2>2. c * (m - LeastMarkup) \in Nat
    BY <2>1, ProductsNat
  <2>3. c * (100 + m) = c * (100 + LeastMarkup) + c * (m - LeastMarkup)
    BY <2>1
  <2>4. c * (100 + LeastMarkup) \in Nat /\ c * (100 + m) \in Nat
    BY <2>1, ProductsNat
  <2>5. c * (100 + LeastMarkup) <= c * (100 + m)
    BY <2>2, <2>3, <2>4
  <2>6. Marked(m) \in Nat /\ Marked(m) * 100 + 50 >= c * (100 + m)
    BY MarkedUp
  <2> HIDE DEF Marked
  <2> QED BY <2>4, <2>5, <2>6
<1>0. ASSUME NEW p \in Nat, p * 100 + 50 >= c * (100 + LeastMarkup),
             Price(c, hits) = IF p > 0 THEN p ELSE c
      PROVE  Price(c, hits) \in Nat /\ Price(c, hits) * 100 + 50 >= c * (100 + LeastMarkup)
  <2>1. c * (100 + LeastMarkup) \in Nat /\ c * LeastMarkup \in Nat /\ LeastMarkup \in Nat
    BY LeastOfAll, ProductsNat
  <2>2. c * (100 + LeastMarkup) = c * 100 + c * LeastMarkup
    BY <2>1
  <2>3. p = 0 => c = 0 /\ c * (100 + LeastMarkup) = 0
    BY <1>0, <2>1, <2>2
  <2> QED BY <1>0, <2>1, <2>3
<1>2. CASE hits = {}
  <2>1. Price(c, hits) = IF Marked(20) > 0 THEN Marked(20) ELSE c
    BY <1>2 DEF Price
  <2>2. Marked(20) \in Nat /\ Marked(20) * 100 + 50 >= c * (100 + LeastMarkup)
    BY <1>1, LeastOfAll
  <2> HIDE DEF Marked
  <2> QED BY <1>0, <2>1, <2>2
<1>3. CASE hits # {}
  <2> DEFINE r == CHOOSE r \in hits : TRUE
  <2>1. r \in Rules
    BY <1>3
  <2>2. r.markup \in Nat /\ LeastMarkup <= r.markup /\ r.floor \in Nat
    BY <2>1, AmountsAssumption, LeastOfAll
  <2> DEFINE p == IF Marked(r.markup) < r.floor THEN r.floor ELSE Marked(r.markup)
  <2>3. Price(c, hits) = IF p > 0 THEN p ELSE c
    BY <1>3 DEF Price
  <2>4. Marked(r.markup) \in Nat /\ Marked(r.markup) * 100 + 50 >= c * (100 + LeastMarkup)
    BY <1>1, <2>2
  <2>5. c * (100 + LeastMarkup) \in Nat
    BY LeastOfAll, ProductsNat
  <2> HIDE DEF Marked, r
  <2>6. p \in Nat /\ p * 100 + 50 >= c * (100 + LeastMarkup)
    BY <2>2, <2>4, <2>5
  <2> HIDE DEF p
  <2> QED BY <1>0, <2>3, <2>6
<1> QED BY <1>2, <1>3

-----------------------------------------------------------------------------
(* Types                                                                     *)

LEMMA LiveFinite == IsFiniteSet(Live(Offers)) /\ IsFiniteSet(Stale(Offers))
<1>1. Live(Offers) \subseteq Items /\ Stale(Offers) \subseteq Items
  BY DEF Live, Stale, Items
<1> QED BY <1>1, ItemsAssumption, FS_Subset

LEMMA Listed == \A i \in Items : ListedAs(i) \in Listings
BY DEF ListedAs, Listings

\* Any price a row gets is a natural number.
LEMMA PriceNat ==
  \A c \in Costs, rs \in SUBSET Rules : \A i : Price(c, ResolveRule(rs, i)) \in Nat
<1> SUFFICES ASSUME NEW c \in Costs, NEW rs \in SUBSET Rules, NEW i
             PROVE  Price(c, ResolveRule(rs, i)) \in Nat
  OBVIOUS
<1>1. c \in Nat /\ ResolveRule(rs, i) \in SUBSET Rules
  BY AmountsAssumption, Resolved
<1> QED BY <1>1, PriceHolds

\* What a write leaves of the rows.
LEMMA UpsertIs ==
  ASSUME TypeOK, NEW d \in Ask, Upsert(d)
  PROVE  /\ row' \in [Items -> Row]
         /\ \A j \in Items : j # d.item => row'[j] = row[j]
         /\ row'[d.item].seen = work.run /\ row'[d.item].cost = d.cost
         /\ row'[d.item].manual = row[d.item].manual
         /\ d.item \notin work.prior => row'[d.item].retail = Price(d.cost, ResolveRule(work.rules, d.item))
         /\ d.item \in work.prior => row'[d.item].retail = row[d.item].retail
         /\ row'[d.item].status # "none"
         /\ row[d.item].status \in {"none", "DRAFT"} => row'[d.item].status = "DRAFT"
<1> DEFINE i == d.item
           price == Price(d.cost, ResolveRule(work.rules, i))
           new == [row[i] EXCEPT !.status = IF @ = "none" THEN "DRAFT" ELSE @, !.cost = d.cost,
                                 !.seen = work.run, !.retail = IF i \in work.prior THEN @ ELSE price]
<1>1. i \in Items /\ d.cost \in Costs /\ work.rules \in SUBSET Rules /\ work.run \in Nat
  BY DEF TypeOK, Work, Ask
<1>2. price \in Nat
  BY <1>1, PriceNat
<1>3. row' = [row EXCEPT ![i] = new] /\ row \in [Items -> Row]
  BY DEF Upsert, TypeOK
<1> HIDE DEF price
<1>4. row[i] \in Row
  BY <1>1, <1>3
<1>5. new \in Row
  BY <1>1, <1>2, <1>4 DEF Row
<1>6. /\ new.seen = work.run /\ new.cost = d.cost /\ new.manual = row[i].manual
      /\ new.retail = IF i \in work.prior THEN row[i].retail ELSE price
      /\ new.status = IF row[i].status = "none" THEN "DRAFT" ELSE row[i].status
  BY <1>4 DEF Row
<1> HIDE DEF new
<1>7. row'[i] = new /\ row' \in [Items -> Row] /\ \A j \in Items : j # i => row'[j] = row[j]
  BY <1>1, <1>3, <1>5
<1> QED BY <1>6, <1>7 DEF price

\* What a sweep leaves of the rows.
LEMMA ArchiveIs ==
  ASSUME TypeOK, NEW s \in SUBSET Items, Archive(s)
  PROVE  /\ row' \in [Items -> Row]
         /\ \A i \in Items :
              /\ row'[i].seen = row[i].seen /\ row'[i].cost = row[i].cost
              /\ row'[i].manual = row[i].manual /\ row'[i].retail = row[i].retail
              /\ row'[i].status = IF i \in Stale(s) THEN "ARCHIVED" ELSE row[i].status
<1>1. \A i \in Items : row[i] \in Row
  BY DEF TypeOK
<1>2. \A i \in Items : row'[i] = IF i \in Stale(s) THEN [row[i] EXCEPT !.status = "ARCHIVED"] ELSE row[i]
  BY DEF Archive
<1>3. \A i \in Items : [row[i] EXCEPT !.status = "ARCHIVED"] \in Row
  BY <1>1 DEF Row
<1>4. row' \in [Items -> Row]
  BY <1>1, <1>3 DEF Archive
<1> QED BY <1>1, <1>2, <1>4 DEF Row

LEMMA TypeInit == Init => TypeOK
<1> SUFFICES ASSUME Init PROVE TypeOK
  OBVIOUS
<1>1. listed \subseteq Items /\ cost \in [Items -> Costs] /\ rules \in SUBSET Rules
  BY DEF Init
<1>2. row \in [Items -> Row] /\ \A i \in Items : row[i].seen = 0
  <2>1. \A i \in Items : Price(cost[i], ResolveRule(rules, i)) \in Nat /\ cost[i] \in Costs
    BY <1>1, PriceNat
  <2> QED BY <2>1 DEF Init, Row
<1>3. work \in Work /\ pc \in Labels /\ pc = "idle"
  BY DEF Init, Idle, Work, Labels, Listings
<1>4. runs = <<>> /\ queued = 0 /\ jobs = 0 /\ edits = 0 /\ changes = 0 /\ faults = 0
  BY DEF Init
<1> QED BY <1>1, <1>2, <1>3, <1>4 DEF TypeOK

\* The work of a step that leaves the rows and the runs alone.
LEMMA GotoType ==
  ASSUME TypeOK, NEW l \in Labels, NEW w \in Work, w.run = work.run, pc # "idle",
         Goto(l, w), row' = row, runs' = runs
  PROVE  TypeOK'
BY DEF TypeOK, Goto, provider, budgets

LEMMA RunsType ==
  ASSUME TypeOK, pc # "idle", NEW st \in {"COMPLETED", "FAILED", "RUNNING"},
         runs' = [runs EXCEPT ![work.run] = st]
  PROVE  runs' \in Seq({"RUNNING", "COMPLETED", "FAILED"}) /\ Len(runs') = Len(runs)
<1>1. runs \in Seq({"RUNNING", "COMPLETED", "FAILED"}) /\ work.run \in 1..Len(runs)
  BY DEF TypeOK, Work
<1> QED BY <1>1, ExceptSeq

LEMMA TypeStep == TypeOK /\ [Next]_vars => TypeOK'
<1> SUFFICES ASSUME TypeOK, [Next]_vars PROVE TypeOK'
  OBVIOUS
<1>0. work \in Work /\ pc \in Labels
  BY DEF TypeOK
<1>1. CASE Enqueue
  BY <1>1 DEF Enqueue, TypeOK, provider
<1>2. CASE StartRun
  <2>1. runs' \in Seq({"RUNNING", "COMPLETED", "FAILED"}) /\ Len(runs') = Len(runs) + 1
    BY <1>2 DEF StartRun, TypeOK
  <2>2. work' \in Work /\ work'.run = Len(runs') /\ pc' = "rules" /\ pc' \in Labels
    <3>1. Idle \in Work /\ "rules" \in Labels
      BY DEF Idle, Work, Listings, Labels
    <3>2. Len(runs') \in Nat
      BY <2>1 DEF TypeOK
    <3> QED BY <1>2, <3>1, <3>2 DEF StartRun, Work
  <2> QED BY <1>2, <2>1, <2>2 DEF StartRun, TypeOK, provider, budgets, Row
<1>3. CASE ReadRules
  <2>1. [work EXCEPT !.rules = rules] \in Work /\ "reference" \in Labels
    BY <1>0 DEF TypeOK, Work, Labels
  <2> QED BY <1>0, <1>3, <2>1, GotoType DEF ReadRules, Work
<1>4. CASE Reference
  BY <1>0, <1>4, GotoType DEF Reference, Labels
<1>5. ASSUME NEW l \in Listings, List(l) PROVE TypeOK'
  <2>1. Answer(l) \in SUBSET Ask
    BY DEF TypeOK, Answer, Ask
  <2> DEFINE w == [work EXCEPT !.listing = l, !.rest = Answer(l)]
  <2>2. w \in Work /\ w.run = work.run
    BY <1>0, <2>1 DEF Work
  <2>3. pc # "idle" /\ {"readOffers", "plans"} \subseteq Labels
    BY <1>5 DEF List, Listings, Labels
  <2> QED BY <1>5, <2>2, <2>3, GotoType DEF List
<1>6. ASSUME NEW l \in Listings, ListFails(l) PROVE TypeOK'
  <2>1. work' \in Work /\ work'.run = work.run /\ pc # "idle" /\ pc' \in Labels
    BY <1>0, <1>6 DEF ListFails, Work, Listings, Labels, After
  <2> QED BY <1>6, <2>1 DEF ListFails, TypeOK, provider
<1>7. CASE ReadOffers
  <2> DEFINE w == [work EXCEPT !.todo = work.rest, !.rest = {}, !.prior = {i \in Offers : row[i].manual}]
  <2>1. w \in Work /\ w.run = work.run
    BY <1>0 DEF Work, Items
  <2> QED BY <1>7, <2>1, GotoType DEF ReadOffers, Labels
<1>8. ASSUME NEW d \in work.todo, WriteOffer(d) \/ WritePlan(d) PROVE TypeOK'
  <2>1. d \in Ask /\ pc # "idle"
    BY <1>0, <1>8 DEF Work, WriteOffer, WritePlan
  <2>2. Upsert(d)
    BY <1>8 DEF WriteOffer, WritePlan
  <2>3. work' \in Work /\ work'.run = work.run /\ pc' \in Labels
    BY <1>0, <1>8 DEF WriteOffer, WritePlan, Goto, Work, Labels
  <2>4. row' \in [Items -> Row] /\ \A j \in Items : row'[j].seen <= Len(runs)
    BY <2>1, <2>2, UpsertIs DEF TypeOK, Ask
  <2>5. /\ runs' = runs /\ listed' = listed /\ cost' = cost /\ rules' = rules /\ queued' = queued
        /\ jobs' = jobs /\ edits' = edits /\ changes' = changes /\ faults' = faults
    BY <1>8 DEF WriteOffer, WritePlan, Goto, provider, budgets
  <2> QED BY <2>1, <2>3, <2>4, <2>5 DEF TypeOK
<1>9. ASSUME NEW d \in work.rest, ReadPlan(d) PROVE TypeOK'
  <2> DEFINE w == [work EXCEPT !.todo = {d}, !.rest = @ \ {d}, !.prior = {i \in {d.item} : row[i].manual}]
  <2>1. w \in Work /\ w.run = work.run
    BY <1>0 DEF Work, Ask
  <2> QED BY <1>9, <2>1, GotoType DEF ReadPlan, Labels
<1>10. CASE NextListing
  <2>1. [work EXCEPT !.prior = {}] \in Work /\ [work EXCEPT !.prior = {}].run = work.run
    BY <1>0 DEF Work
  <2>2. After(work.listing) \in Labels
    BY DEF After, Labels
  <2> QED BY <1>10, <2>1, <2>2, GotoType DEF NextListing
<1>11. CASE CountLive
  <2>1. Cardinality(Live(Offers)) \in Nat
    BY LiveFinite, FS_CardinalityType
  <2> DEFINE w == [work EXCEPT !.live = Cardinality(Live(Offers))]
  <2>2. w \in Work /\ w.run = work.run
    BY <1>0, <2>1 DEF Work
  <2> QED BY <1>11, <2>2, GotoType DEF CountLive, Labels
<1>12. CASE CountStale
  <2> DEFINE skips == work.live > 0 /\ Cardinality(Stale(Offers)) * 100 > MaxPercent * work.live
             w == [work EXCEPT !.swept = ~skips]
  <2>1. w \in Work /\ w.run = work.run
    <3> HIDE DEF skips
    <3>1. (~skips) = TRUE \/ (~skips) = FALSE
      OBVIOUS
    <3> QED BY <1>0, <3>1 DEF Work
  <2>2. Goto(IF skips THEN "finish" ELSE "archiveOffers", w)
    BY <1>12 DEF CountStale
  <2>3. pc # "idle" /\ row' = row /\ runs' = runs /\ {"finish", "archiveOffers"} \subseteq Labels
    BY <1>12 DEF CountStale, Labels
  <2> HIDE DEF w, skips
  <2> QED BY <2>1, <2>2, <2>3, GotoType
<1>13. CASE ArchiveOffers \/ ArchivePlans
  <2>1. PICK s \in SUBSET Items : Archive(s)
    BY <1>13 DEF ArchiveOffers, ArchivePlans, Items
  <2>2. row' \in [Items -> Row] /\ \A j \in Items : row'[j].seen = row[j].seen
    BY <2>1, ArchiveIs
  <2>3. /\ runs' = runs /\ listed' = listed /\ cost' = cost /\ rules' = rules /\ queued' = queued
        /\ jobs' = jobs /\ edits' = edits /\ changes' = changes /\ faults' = faults
        /\ work' = work /\ pc' \in Labels /\ pc # "idle"
    BY <1>13 DEF ArchiveOffers, ArchivePlans, Goto, provider, budgets, Labels
  <2> QED BY <2>2, <2>3 DEF TypeOK
<1>14. CASE Finish \/ RunFails
  <2>1. pc # "idle" /\ \E st \in {"COMPLETED", "FAILED", "RUNNING"} : runs' = [runs EXCEPT ![work.run] = st]
    BY <1>14 DEF Finish, RunFails
  <2>2. runs' \in Seq({"RUNNING", "COMPLETED", "FAILED"}) /\ Len(runs') = Len(runs)
    BY <2>1, RunsType
  <2>3. /\ listed' = listed /\ cost' = cost /\ rules' = rules /\ queued' = queued /\ row' = row
        /\ jobs' = jobs /\ edits' = edits /\ changes' = changes /\ faults' \in Nat
        /\ work' = Idle /\ pc' = "idle"
    BY <1>14 DEF Finish, RunFails, Goto, provider, budgets, TypeOK
  <2>4. Idle \in Work /\ "idle" \in Labels
    BY DEF Idle, Work, Labels, Listings
  <2> QED BY <2>2, <2>3, <2>4 DEF TypeOK
<1>15. CASE Crash
  <2>1. Idle \in Work /\ "idle" \in Labels
    BY DEF Idle, Work, Labels, Listings
  <2> QED BY <1>15, <2>1 DEF Crash, TypeOK, provider
<1>16. ASSUME NEW i \in Items, NEW st \in {"DRAFT", "PUBLISHED", "ARCHIVED"}, SetStatus(i, st) PROVE TypeOK'
  <2>1. row' \in [Items -> Row] /\ \A j \in Items : row'[j].seen = row[j].seen
    BY <1>16 DEF SetStatus, TypeOK, Row
  <2>2. work' \in Work /\ work'.run = work.run
    BY <1>0, <1>16 DEF SetStatus, Touch, Work
  <2> QED BY <1>16, <2>1, <2>2 DEF SetStatus, Edit, TypeOK, provider
<1>17. ASSUME NEW i \in Items, NEW p \in HandPrices, SetRetailPrice(i, p) PROVE TypeOK'
  <2>0. p \in Nat
    BY AmountsAssumption
  <2>1. row' \in [Items -> Row] /\ \A j \in Items : row'[j].seen = row[j].seen
    BY <1>17, <2>0 DEF SetRetailPrice, TypeOK, Row
  <2> QED BY <1>17, <2>1 DEF SetRetailPrice, Edit, TypeOK, provider
<1>18. ASSUME NEW r \in Rules, NEW active \in BOOLEAN, UpsertRule(r, active) PROVE TypeOK'
  <2>1. rules' \in SUBSET Rules
    BY <1>18 DEF UpsertRule, TypeOK
  <2> QED BY <1>18, <2>1 DEF UpsertRule, Edit, TypeOK, provider
<1>19. ASSUME NEW i \in Items, Change(i) PROVE TypeOK'
  <2>1. listed' \subseteq Items /\ cost' \in [Items -> Costs]
    BY <1>19 DEF Change, TypeOK
  <2>2. work' \in Work /\ work'.run = work.run
    BY <1>0, <1>19 DEF Change, Touch, Work
  <2> QED BY <1>19, <2>1, <2>2 DEF Change, TypeOK
<1>20. CASE UNCHANGED vars
  BY <1>20 DEF vars, provider, budgets, TypeOK
<1> QED BY <1>1, <1>2, <1>3, <1>4, <1>5, <1>6, <1>7, <1>8, <1>9, <1>10, <1>11, <1>12, <1>13, <1>14,
           <1>15, <1>16, <1>17, <1>18, <1>19, <1>20 DEF Next, Worker, Admin
-----------------------------------------------------------------------------
(* The invariant of a run                                                    *)

Fetching == {"readOffers", "writeOffers", "plans", "writePlan"}
Sweeping == {"countLive", "countStale", "archiveOffers", "archivePlans", "finish"}

\* A listing is being written, or it is done with.
Underway(l) == pc \in Fetching /\ work.listing = l
Done(l) ==
  \/ pc \in Sweeping
  \/ l = "offers" /\ (pc \in {"extendable", "plain"} \/ (pc \in Fetching /\ work.listing # "offers"))
  \/ l = "extendable" /\ (pc = "plain" \/ (pc \in Fetching /\ work.listing = "plain"))

\* The worker's locals fit the place it is at; what it has yet to write is what
\* SMSPool says, but for items changed since.
LocalsFit ==
  /\ pc \in {"readOffers", "writeOffers"} => work.listing = "offers" /\ "offers" \notin work.failed
  /\ pc \in {"plans", "writePlan"} => work.listing # "offers"
  /\ pc \in {"rules", "reference", "offers"} => work.failed = {}
  /\ pc \notin {"writeOffers", "writePlan"} => work.todo = {}
  /\ pc \notin {"readOffers", "plans", "writePlan"} => work.rest = {}
  /\ \A d \in work.todo \cup work.rest :
       /\ ListedAs(d.item) = work.listing
       /\ d.item \in work.touched \/ (d.item \in listed /\ d.cost = cost[d.item])
  /\ pc = "writePlan" => \A d, e \in work.todo : d = e
  /\ \A i \in work.prior : row[i].manual

\* The row is what this run makes of what SMSPool lists.
Fresh(i) ==
  /\ row[i].seen = work.run /\ row[i].cost = cost[i]
  /\ row[i].manual \/ row[i].retail = Price(cost[i], ResolveRule(work.rules, i))
Pending(i) == \E d \in work.todo \cup work.rest : d.item = i

\* What an answered listing holds is written, or still to be.
ListedIsSeen ==
  \A i \in listed \ work.touched : ListedAs(i) \notin work.failed =>
    /\ Done(ListedAs(i)) => Fresh(i)
    /\ Underway(ListedAs(i)) => Fresh(i) \/ Pending(i)

\* What SMSPool does not list no run at work has seen, and no offer is seen
\* before the offers are asked for or when that fails.
UnlistedIsUnseen ==
  pc # "idle" => \A i \in Items \ (listed \cup work.touched) : row[i].seen < work.run
FailedIsUnseen ==
  pc \in {"rules", "reference", "offers"} \/ (pc # "idle" /\ "offers" \in work.failed) =>
    \A i \in Offers : row[i].seen < work.run

\* After a failed listing of offers the guard lets a sweep pass only if no offer
\* is live, unless some were changed or no share is too large.
GuardHolds ==
  MaxPercent # 100 /\ "offers" \in work.failed /\ work.touched \cap Offers = {} =>
    /\ pc = "countStale" => work.live = Cardinality(Live(Offers))
    /\ pc = "archiveOffers" => Live(Offers) = {}

\* What a sweep has been over and SMSPool does not list is not live.
Gone(s) == \A i \in s \ (listed \cup work.touched) : row[i].status \in {"none", "ARCHIVED"}
SweptIsGone ==
  /\ pc = "archivePlans" \/ (pc = "finish" /\ work.swept) => Gone(Offers)
  /\ pc = "finish" /\ work.swept => Gone(Plans)

Inv ==
  TypeOK /\ LocalsFit /\ ListedIsSeen /\ UnlistedIsUnseen /\ FailedIsUnseen /\ GuardHolds /\ SweptIsGone

-----------------------------------------------------------------------------
(* What the steps leave alone                                                *)

Quiet == Enqueue \/ UNCHANGED vars \/ \E r \in Rules, active \in BOOLEAN : UpsertRule(r, active)
LEMMA QuietIs == Quiet => UNCHANGED <<listed, cost, row, pc, work>>
BY DEF Quiet, Enqueue, UpsertRule, Edit, vars, provider

Ends == Finish \/ RunFails \/ Crash
LEMMA EndsIs == Ends => UNCHANGED <<listed, cost, row>> /\ pc' = "idle" /\ work' = Idle
BY DEF Ends, Finish, RunFails, Crash, Goto, provider

LEMMA StartIs ==
  StartRun /\ TypeOK =>
    /\ UNCHANGED <<listed, cost, row>> /\ pc' = "rules"
    /\ work' = [Idle EXCEPT !.run = Len(runs) + 1]
    /\ \A i \in Items : row[i].seen < Len(runs) + 1
<1> SUFFICES ASSUME StartRun, TypeOK
             PROVE  /\ UNCHANGED <<listed, cost, row>> /\ pc' = "rules"
                    /\ work' = [Idle EXCEPT !.run = Len(runs) + 1]
                    /\ \A i \in Items : row[i].seen < Len(runs) + 1
  OBVIOUS
<1>1. Len(runs') = Len(runs) + 1 /\ Len(runs) \in Nat
  BY DEF StartRun, TypeOK
<1>2. \A i \in Items : row[i].seen \in Nat /\ row[i].seen <= Len(runs)
  BY DEF TypeOK, Row
<1> QED BY <1>1, <1>2 DEF StartRun, provider

\* The cases of a step.
LEMMA StepCases ==
  ASSUME [Next]_vars
  PROVE  \/ Quiet \/ Ends \/ StartRun \/ ReadRules \/ Reference \/ ReadOffers \/ NextListing
         \/ \E l \in Listings : List(l) \/ ListFails(l)
         \/ \E d \in work.todo : WriteOffer(d) \/ WritePlan(d)
         \/ \E d \in work.rest : ReadPlan(d)
         \/ CountLive \/ CountStale \/ ArchiveOffers \/ ArchivePlans
         \/ \E i \in Items, st \in {"DRAFT", "PUBLISHED", "ARCHIVED"} : SetStatus(i, st)
         \/ \E i \in Items, p \in HandPrices : SetRetailPrice(i, p)
         \/ \E i \in Items : Change(i)
BY DEF Next, Worker, Admin, Quiet, Ends

\* A write is of something still to be written.
LEMMA WriteIs ==
  ASSUME TypeOK, NEW d \in work.todo, WriteOffer(d) \/ WritePlan(d)
  PROVE  /\ d \in Ask /\ Upsert(d) /\ UNCHANGED <<listed, cost, runs>>
         /\ \/ pc = "writeOffers" /\ pc' = "writeOffers" /\ work' = [work EXCEPT !.todo = @ \ {d}]
            \/ pc = "writePlan" /\ pc' = "plans" /\ work' = [work EXCEPT !.todo = {}]
BY DEF TypeOK, Work, WriteOffer, WritePlan, Goto, provider

\* What admins leave of the rows.
LEMMA StatusIs ==
  ASSUME TypeOK, NEW i \in Items, NEW st \in {"DRAFT", "PUBLISHED", "ARCHIVED"}, SetStatus(i, st)
  PROVE  /\ UNCHANGED <<listed, cost, pc>>
         /\ work' = IF pc = "idle" THEN work ELSE [work EXCEPT !.touched = @ \cup {i}]
         /\ row'[i].status = st
         /\ \A j \in Items : /\ row'[j].seen = row[j].seen /\ row'[j].cost = row[j].cost
                             /\ row'[j].manual = row[j].manual /\ row'[j].retail = row[j].retail
                             /\ j # i => row'[j].status = row[j].status
BY DEF TypeOK, Row, SetStatus, Touch, Edit, provider

LEMMA RetailIs ==
  ASSUME TypeOK, NEW i \in Items, NEW p \in HandPrices, SetRetailPrice(i, p)
  PROVE  /\ UNCHANGED <<listed, cost, pc, work>>
         /\ row'[i].manual
         /\ \A j \in Items : /\ row'[j].seen = row[j].seen /\ row'[j].cost = row[j].cost
                             /\ row'[j].status = row[j].status
                             /\ j # i => row'[j] = row[j]
BY DEF TypeOK, Row, SetRetailPrice, Edit, provider

LEMMA ChangeIs ==
  ASSUME TypeOK, NEW i \in Items, Change(i)
  PROVE  /\ UNCHANGED <<row, pc>>
         /\ work' = IF pc = "idle" THEN work ELSE [work EXCEPT !.touched = @ \cup {i}]
         /\ \A j \in Items : j # i => (j \in listed' <=> j \in listed) /\ cost'[j] = cost[j]
BY DEF TypeOK, Change, Touch

\* What an answer holds.
LEMMA AnswerIs ==
  \A l : \A d \in Answer(l) : d.item \in listed /\ ListedAs(d.item) = l /\ d.cost = cost[d.item]
BY DEF Answer

\* What a sweep step leaves alone.
LEMMA SweepIs ==
  ASSUME TypeOK, ArchiveOffers \/ ArchivePlans
  PROVE  /\ UNCHANGED <<listed, cost, work>>
         /\ \A i \in Items :
              /\ row'[i].seen = row[i].seen /\ row'[i].cost = row[i].cost
              /\ row'[i].manual = row[i].manual /\ row'[i].retail = row[i].retail
         /\ \/ /\ pc = "archiveOffers" /\ pc' = "archivePlans"
               /\ \A i \in Items : row'[i].status = IF i \in Stale(Offers) THEN "ARCHIVED" ELSE row[i].status
            \/ /\ pc = "archivePlans" /\ pc' = "finish"
               /\ \A i \in Items : row'[i].status = IF i \in Stale(Plans) THEN "ARCHIVED" ELSE row[i].status
<1>1. Offers \in SUBSET Items /\ Plans \in SUBSET Items
  BY DEF Items
<1>2. CASE ArchiveOffers
  BY <1>1, <1>2, ArchiveIs DEF ArchiveOffers, Goto, provider
<1>3. CASE ArchivePlans
  BY <1>1, <1>3, ArchiveIs DEF ArchivePlans, Goto, provider
<1> QED BY <1>2, <1>3

\* A share below one of a positive number falls short of it.
LEMMA NotExceeded ==
  MaxPercent # 100 => \A n \in Nat : ~(n > 0 /\ n * 100 > MaxPercent * n) => n = 0
<1> SUFFICES ASSUME MaxPercent # 100, NEW n \in Nat, n > 0 PROVE n * 100 > MaxPercent * n
  OBVIOUS
<1>1. 100 - MaxPercent \in Nat /\ 100 - MaxPercent > 0 /\ MaxPercent \in Nat
  BY PercentAssumption
<1>2. \A k \in Nat : k > 0 => n * k > 0
  OBVIOUS
<1>3. n * (100 - MaxPercent) > 0
  BY <1>1, <1>2
<1>4. n * 100 = MaxPercent * n + n * (100 - MaxPercent)
  BY <1>1
<1>5. MaxPercent * n \in Nat /\ n * (100 - MaxPercent) \in Nat
  BY <1>1, ProductsNat
<1> QED BY <1>3, <1>4, <1>5

LEMMA LocalsFitStep ==
  ASSUME Inv, [Next]_vars
  PROVE  LocalsFit'
<1>0. TypeOK /\ LocalsFit /\ work \in Work /\ pc \in Labels
  BY DEF Inv, TypeOK, Items
<1>1. CASE Quiet
  BY <1>0, <1>1, QuietIs DEF LocalsFit, Work, Listings
<1>2. CASE Ends
  BY <1>0, <1>2, EndsIs DEF Idle, LocalsFit, Work, Listings
<1>3. CASE StartRun
  BY <1>0, <1>3, StartIs DEF Idle, LocalsFit, Work, Listings
<1>4. CASE ReadRules \/ Reference
  BY <1>0, <1>4 DEF ReadRules, Reference, Goto, provider, LocalsFit, Work, Listings
<1>5. ASSUME NEW l \in Listings, List(l) PROVE LocalsFit'
  <2>1. /\ UNCHANGED <<listed, cost, row>> /\ pc' = IF l = "offers" THEN "readOffers" ELSE "plans"
        /\ work' = [work EXCEPT !.listing = l, !.rest = Answer(l)]
    BY <1>5 DEF List, Goto, provider
  <2>2. /\ work'.listing = l /\ work'.rest = Answer(l) /\ work'.todo = work.todo
        /\ work'.failed = work.failed /\ work'.touched = work.touched /\ work'.prior = work.prior
    BY <1>0, <2>1 DEF Work
  <2>3. work.todo = {} /\ (l = "offers" => work.failed = {})
    BY <1>0, <1>5 DEF List, LocalsFit, Listings
  <2>4. \A d \in work'.todo \cup work'.rest :
          ListedAs(d.item) = l /\ d.item \in listed /\ d.cost = cost[d.item]
    BY <2>2, <2>3, AnswerIs
  <2>5. \A d \in work'.todo \cup work'.rest : ListedAs(d.item)' = l
    BY <2>4 DEF ListedAs
  <2> QED BY <1>0, <2>1, <2>2, <2>3, <2>4, <2>5 DEF LocalsFit
<1>6. ASSUME NEW l \in Listings, ListFails(l) PROVE LocalsFit'
  BY <1>0, <1>6 DEF ListFails, After, provider, LocalsFit, Work, Listings
<1>7. CASE ReadOffers
  BY <1>0, <1>7 DEF ReadOffers, Goto, provider, LocalsFit, Work, Listings
<1>8. ASSUME NEW d \in work.todo, WriteOffer(d) \/ WritePlan(d) PROVE LocalsFit'
  BY <1>0, <1>8, WriteIs, UpsertIs DEF LocalsFit, Work, Listings
<1>9. ASSUME NEW d \in work.rest, ReadPlan(d) PROVE LocalsFit'
  BY <1>0, <1>9 DEF ReadPlan, Goto, provider, LocalsFit, Work, Listings
<1>10. CASE NextListing
  BY <1>0, <1>10 DEF NextListing, After, Goto, provider, LocalsFit, Work, Listings
<1>11. CASE CountLive \/ CountStale
  BY <1>0, <1>11 DEF CountLive, CountStale, Goto, provider, LocalsFit, Work, Listings
<1>12. CASE ArchiveOffers \/ ArchivePlans
  BY <1>0, <1>12, SweepIs DEF LocalsFit, Work, Listings
<1>13. ASSUME NEW i \in Items, NEW st \in {"DRAFT", "PUBLISHED", "ARCHIVED"}, SetStatus(i, st) PROVE LocalsFit'
  BY <1>0, <1>13, StatusIs DEF LocalsFit, Work, Listings
<1>14. ASSUME NEW i \in Items, NEW p \in HandPrices, SetRetailPrice(i, p) PROVE LocalsFit'
  BY <1>0, <1>14, RetailIs DEF LocalsFit, Work, Listings
<1>15. ASSUME NEW i \in Items, Change(i) PROVE LocalsFit'
  <2>1. \A d \in work.todo \cup work.rest : d.item \in Items
    BY <1>0 DEF Work, Ask
  <2>2. CASE pc = "idle"
    BY <1>0, <2>2, <1>15, ChangeIs DEF LocalsFit
  <2>3. CASE pc # "idle"
    <3>1. work' = [work EXCEPT !.touched = @ \cup {i}] /\ row' = row /\ pc' = pc
      BY <1>0, <2>3, <1>15, ChangeIs
    <3>2. ASSUME NEW d \in work.todo \cup work.rest
          PROVE  d.item \in work'.touched \/ (d.item \in listed' /\ d.cost = cost'[d.item])
      <4>1. d.item = i => d.item \in work'.touched
        BY <1>0, <3>1 DEF Work
      <4>2. d.item \in work.touched => d.item \in work'.touched
        BY <1>0, <3>1 DEF Work
      <4>3. d.item # i => (d.item \in listed' <=> d.item \in listed) /\ cost'[d.item] = cost[d.item]
        BY <1>0, <2>1, <1>15, ChangeIs
      <4> QED BY <1>0, <4>1, <4>2, <4>3 DEF LocalsFit
    <3> QED BY <1>0, <3>1, <3>2 DEF LocalsFit, Work
  <2> QED BY <2>2, <2>3
<1> QED BY StepCases, <1>1, <1>2, <1>3, <1>4, <1>5, <1>6, <1>7, <1>8, <1>9, <1>10, <1>11, <1>12, <1>13, <1>14, <1>15

LEMMA UnlistedIsUnseenStep ==
  ASSUME Inv, [Next]_vars
  PROVE  UnlistedIsUnseen'
<1>0. TypeOK /\ LocalsFit /\ UnlistedIsUnseen /\ work \in Work
  BY DEF Inv, TypeOK, Items
<1>1. CASE Quiet
  BY <1>0, <1>1, QuietIs DEF UnlistedIsUnseen, Work, Listings
<1>2. CASE Ends
  BY <1>0, <1>2, EndsIs DEF Idle, UnlistedIsUnseen, Work, Listings
<1>3. CASE StartRun
  BY <1>0, <1>3, StartIs DEF Idle, UnlistedIsUnseen, Work, Listings
<1>4. CASE ReadRules \/ Reference
  BY <1>0, <1>4 DEF ReadRules, Reference, Goto, provider, UnlistedIsUnseen, Work, Listings
<1>5. ASSUME NEW l \in Listings, List(l) PROVE UnlistedIsUnseen'
  BY <1>0, <1>5 DEF List, Goto, provider, UnlistedIsUnseen, Work, Listings
<1>6. ASSUME NEW l \in Listings, ListFails(l) PROVE UnlistedIsUnseen'
  BY <1>0, <1>6 DEF ListFails, After, provider, UnlistedIsUnseen, Work, Listings
<1>7. CASE ReadOffers
  BY <1>0, <1>7 DEF ReadOffers, Goto, provider, UnlistedIsUnseen, Work, Listings
<1>8. ASSUME NEW d \in work.todo, WriteOffer(d) \/ WritePlan(d) PROVE UnlistedIsUnseen'
  <2>1. d \in Ask /\ d.item \in Items /\ (d.item \in listed \/ d.item \in work.touched)
    BY <1>0, <1>8, WriteIs DEF LocalsFit, Ask
  <2>2. \A j \in Items : j # d.item => row'[j] = row[j]
    BY <1>0, <1>8, <2>1, WriteIs, UpsertIs
  <2>3. UNCHANGED <<listed, cost>> /\ work'.touched = work.touched /\ work'.run = work.run /\ pc # "idle"
    BY <1>0, <1>8, WriteIs DEF Work
  <2> QED BY <1>0, <2>1, <2>2, <2>3 DEF UnlistedIsUnseen
<1>9. ASSUME NEW d \in work.rest, ReadPlan(d) PROVE UnlistedIsUnseen'
  BY <1>0, <1>9 DEF ReadPlan, Goto, provider, UnlistedIsUnseen, Work, Listings
<1>10. CASE NextListing
  BY <1>0, <1>10 DEF NextListing, After, Goto, provider, UnlistedIsUnseen, Work, Listings
<1>11. CASE CountLive \/ CountStale
  BY <1>0, <1>11 DEF CountLive, CountStale, Goto, provider, UnlistedIsUnseen, Work, Listings
<1>12. CASE ArchiveOffers \/ ArchivePlans
  BY <1>0, <1>12, SweepIs DEF UnlistedIsUnseen, Work, Listings
<1>13. ASSUME NEW i \in Items, NEW st \in {"DRAFT", "PUBLISHED", "ARCHIVED"}, SetStatus(i, st) PROVE UnlistedIsUnseen'
  BY <1>0, <1>13, StatusIs DEF UnlistedIsUnseen, Work, Listings
<1>14. ASSUME NEW i \in Items, NEW p \in HandPrices, SetRetailPrice(i, p) PROVE UnlistedIsUnseen'
  BY <1>0, <1>14, RetailIs DEF UnlistedIsUnseen, Work, Listings
<1>15. ASSUME NEW i \in Items, Change(i) PROVE UnlistedIsUnseen'
  BY <1>0, <1>15, ChangeIs DEF UnlistedIsUnseen, Work, Listings
<1> QED BY StepCases, <1>1, <1>2, <1>3, <1>4, <1>5, <1>6, <1>7, <1>8, <1>9, <1>10, <1>11, <1>12, <1>13, <1>14, <1>15

LEMMA FailedIsUnseenStep ==
  ASSUME Inv, [Next]_vars
  PROVE  FailedIsUnseen'
<1>0. TypeOK /\ LocalsFit /\ FailedIsUnseen /\ work \in Work /\ Offers \subseteq Items
  BY DEF Inv, TypeOK, Items
<1>1. CASE Quiet
  BY <1>0, <1>1, QuietIs DEF FailedIsUnseen, LocalsFit, Work, Listings
<1>2. CASE Ends
  BY <1>0, <1>2, EndsIs DEF Idle, FailedIsUnseen, LocalsFit, Work, Listings
<1>3. CASE StartRun
  BY <1>0, <1>3, StartIs DEF Idle, FailedIsUnseen, LocalsFit, Work, Listings
<1>4. CASE ReadRules \/ Reference
  BY <1>0, <1>4 DEF ReadRules, Reference, Goto, provider, FailedIsUnseen, LocalsFit, Work, Listings
<1>5. ASSUME NEW l \in Listings, List(l) PROVE FailedIsUnseen'
  BY <1>0, <1>5 DEF List, Goto, provider, FailedIsUnseen, LocalsFit, Work, Listings
<1>6. ASSUME NEW l \in Listings, ListFails(l) PROVE FailedIsUnseen'
  BY <1>0, <1>6 DEF ListFails, After, provider, FailedIsUnseen, LocalsFit, Work, Listings
<1>7. CASE ReadOffers
  BY <1>0, <1>7 DEF ReadOffers, Goto, provider, FailedIsUnseen, LocalsFit, Work, Listings
<1>8. ASSUME NEW d \in work.todo, WriteOffer(d) \/ WritePlan(d) PROVE FailedIsUnseen'
  <2>1. d \in Ask /\ d.item \in Items /\ ListedAs(d.item) = work.listing
    BY <1>0, <1>8, WriteIs DEF LocalsFit, Ask
  <2>2. \A j \in Items : j # d.item => row'[j] = row[j]
    BY <1>0, <1>8, <2>1, WriteIs, UpsertIs
  <2>3. /\ work'.failed = work.failed /\ work'.run = work.run
        /\ pc \in {"writeOffers", "writePlan"} /\ pc' \in {"writeOffers", "plans"}
    BY <1>0, <1>8, WriteIs DEF Work
  <2>4. "offers" \in work.failed => d.item \notin Offers
    BY <1>0, <2>1, <2>3 DEF LocalsFit, ListedAs
  <2> QED BY <1>0, <2>1, <2>2, <2>3, <2>4 DEF FailedIsUnseen
<1>9. ASSUME NEW d \in work.rest, ReadPlan(d) PROVE FailedIsUnseen'
  BY <1>0, <1>9 DEF ReadPlan, Goto, provider, FailedIsUnseen, LocalsFit, Work, Listings
<1>10. CASE NextListing
  BY <1>0, <1>10 DEF NextListing, After, Goto, provider, FailedIsUnseen, LocalsFit, Work, Listings
<1>11. CASE CountLive \/ CountStale
  BY <1>0, <1>11 DEF CountLive, CountStale, Goto, provider, FailedIsUnseen, LocalsFit, Work, Listings
<1>12. CASE ArchiveOffers \/ ArchivePlans
  BY <1>0, <1>12, SweepIs DEF FailedIsUnseen, LocalsFit, Work, Listings
<1>13. ASSUME NEW i \in Items, NEW st \in {"DRAFT", "PUBLISHED", "ARCHIVED"}, SetStatus(i, st) PROVE FailedIsUnseen'
  BY <1>0, <1>13, StatusIs DEF FailedIsUnseen, LocalsFit, Work, Listings
<1>14. ASSUME NEW i \in Items, NEW p \in HandPrices, SetRetailPrice(i, p) PROVE FailedIsUnseen'
  BY <1>0, <1>14, RetailIs DEF FailedIsUnseen, LocalsFit, Work, Listings
<1>15. ASSUME NEW i \in Items, Change(i) PROVE FailedIsUnseen'
  BY <1>0, <1>15, ChangeIs DEF FailedIsUnseen, LocalsFit, Work, Listings
<1> QED BY StepCases, <1>1, <1>2, <1>3, <1>4, <1>5, <1>6, <1>7, <1>8, <1>9, <1>10, <1>11, <1>12, <1>13, <1>14, <1>15

LEMMA GuardHoldsStep ==
  ASSUME Inv, [Next]_vars
  PROVE  GuardHolds'
<1>0. TypeOK /\ GuardHolds /\ FailedIsUnseen /\ work \in Work /\ Offers \subseteq Items
  BY DEF Inv, TypeOK, Items
<1>1. CASE Quiet
  BY <1>0, <1>1, QuietIs DEF GuardHolds, Live
<1>2. CASE Ends
  BY <1>0, <1>2, EndsIs DEF Idle, GuardHolds, Work
<1>3. CASE StartRun
  BY <1>0, <1>3, StartIs DEF Idle, GuardHolds, Work
<1>4. CASE ReadRules \/ Reference
  BY <1>0, <1>4 DEF ReadRules, Reference, Goto, provider, GuardHolds, Work
<1>5. ASSUME NEW l \in Listings, List(l) PROVE GuardHolds'
  BY <1>0, <1>5 DEF List, Goto, provider, GuardHolds, Work
<1>6. ASSUME NEW l \in Listings, ListFails(l) PROVE GuardHolds'
  BY <1>0, <1>6 DEF ListFails, After, provider, GuardHolds, Work
<1>7. CASE ReadOffers
  BY <1>0, <1>7 DEF ReadOffers, Goto, provider, GuardHolds, Work
<1>8. ASSUME NEW d \in work.todo, WriteOffer(d) \/ WritePlan(d) PROVE GuardHolds'
  BY <1>0, <1>8, WriteIs, UpsertIs DEF GuardHolds, Work
<1>9. ASSUME NEW d \in work.rest, ReadPlan(d) PROVE GuardHolds'
  BY <1>0, <1>9 DEF ReadPlan, Goto, provider, GuardHolds, Work
<1>10. CASE NextListing
  BY <1>0, <1>10 DEF NextListing, After, Goto, provider, GuardHolds, Work
<1>11. CASE CountLive \/ CountStale
  <2>1. CASE CountLive
    BY <1>0, <2>1 DEF CountLive, Goto, provider, GuardHolds, Work, Live
  <2>2. CASE CountStale
    <3> SUFFICES ASSUME MaxPercent # 100, "offers" \in work'.failed, work'.touched \cap Offers = {}, pc' = "archiveOffers"
                 PROVE  Live(Offers)' = {}
      BY <2>2 DEF GuardHolds, CountStale, Goto
    <3>1. /\ work'.failed = work.failed /\ work'.touched = work.touched /\ pc = "countStale" /\ row' = row
          /\ ~(work.live > 0 /\ Cardinality(Stale(Offers)) * 100 > MaxPercent * work.live)
      BY <1>0, <2>2 DEF CountStale, Goto, Work
    <3>2. Stale(Offers) = Live(Offers) /\ work.live = Cardinality(Live(Offers))
      BY <1>0, <3>1 DEF FailedIsUnseen, GuardHolds, Stale, Live
    <3>3. work.live = 0
      BY <1>0, <3>1, <3>2, NotExceeded DEF Work
    <3>4. Live(Offers) = {}
      BY <3>2, <3>3, LiveFinite, FS_EmptySet
    <3> QED BY <3>1, <3>4 DEF Live
  <2> QED BY <1>11, <2>1, <2>2
<1>12. CASE ArchiveOffers \/ ArchivePlans
  BY <1>0, <1>12, SweepIs DEF GuardHolds, Work
<1>13. ASSUME NEW i \in Items, NEW st \in {"DRAFT", "PUBLISHED", "ARCHIVED"}, SetStatus(i, st) PROVE GuardHolds'
  <2>1. CASE pc = "idle"
    BY <2>1, <1>13, StatusIs, <1>0 DEF GuardHolds
  <2>2. CASE pc # "idle" /\ i \in Offers
    <3>1. i \in work'.touched
      BY <1>0, <2>2, <1>13, StatusIs DEF Work
    <3> QED BY <2>2, <3>1 DEF GuardHolds
  <2>3. CASE pc # "idle" /\ i \notin Offers
    <3>1. \A j \in Offers : row'[j].status = row[j].status
      BY <1>0, <2>3, <1>13, StatusIs
    <3>2. work'.failed = work.failed /\ work.touched \subseteq work'.touched /\ work'.live = work.live /\ pc' = pc
      BY <1>0, <2>3, <1>13, StatusIs DEF Work
    <3>3. Live(Offers)' = Live(Offers)
      BY <3>1 DEF Live
    <3> QED BY <1>0, <3>2, <3>3 DEF GuardHolds
  <2> QED BY <2>1, <2>2, <2>3
<1>14. ASSUME NEW i \in Items, NEW p \in HandPrices, SetRetailPrice(i, p) PROVE GuardHolds'
  <2>1. (\A j \in Offers : row'[j].status = row[j].status) /\ UNCHANGED <<pc, work>>
    BY <1>0, <1>14, RetailIs
  <2>2. Live(Offers)' = Live(Offers)
    BY <2>1 DEF Live
  <2> QED BY <1>0, <2>1, <2>2 DEF GuardHolds
<1>15. ASSUME NEW i \in Items, Change(i) PROVE GuardHolds'
  <2>1. /\ work'.failed = work.failed /\ work.touched \subseteq work'.touched
        /\ work'.live = work.live /\ pc' = pc /\ row' = row
    BY <1>0, <1>15, ChangeIs DEF Work
  <2>2. Live(Offers)' = Live(Offers)
    BY <2>1 DEF Live
  <2> QED BY <1>0, <2>1, <2>2 DEF GuardHolds
<1> QED BY StepCases, <1>1, <1>2, <1>3, <1>4, <1>5, <1>6, <1>7, <1>8, <1>9, <1>10, <1>11, <1>12, <1>13, <1>14, <1>15

LEMMA SweptIsGoneStep ==
  ASSUME Inv, [Next]_vars
  PROVE  SweptIsGone'
<1>0. TypeOK /\ UnlistedIsUnseen /\ SweptIsGone /\ work \in Work /\ Offers \subseteq Items /\ Plans \subseteq Items
  BY DEF Inv, TypeOK, Items
<1>1. CASE Quiet
  BY <1>0, <1>1, QuietIs DEF SweptIsGone, Gone, Work
<1>2. CASE Ends
  BY <1>0, <1>2, EndsIs DEF Idle, SweptIsGone, Gone, Work
<1>3. CASE StartRun
  BY <1>0, <1>3, StartIs DEF Idle, SweptIsGone, Gone, Work
<1>4. CASE ReadRules \/ Reference
  BY <1>0, <1>4 DEF ReadRules, Reference, Goto, provider, SweptIsGone, Gone, Work
<1>5. ASSUME NEW l \in Listings, List(l) PROVE SweptIsGone'
  BY <1>0, <1>5 DEF List, Goto, provider, SweptIsGone, Gone, Work
<1>6. ASSUME NEW l \in Listings, ListFails(l) PROVE SweptIsGone'
  BY <1>0, <1>6 DEF ListFails, After, provider, SweptIsGone, Gone, Work
<1>7. CASE ReadOffers
  BY <1>0, <1>7 DEF ReadOffers, Goto, provider, SweptIsGone, Gone, Work
<1>8. ASSUME NEW d \in work.todo, WriteOffer(d) \/ WritePlan(d) PROVE SweptIsGone'
  BY <1>0, <1>8, WriteIs, UpsertIs DEF SweptIsGone, Gone, Work
<1>9. ASSUME NEW d \in work.rest, ReadPlan(d) PROVE SweptIsGone'
  BY <1>0, <1>9 DEF ReadPlan, Goto, provider, SweptIsGone, Gone, Work
<1>10. CASE NextListing
  BY <1>0, <1>10 DEF NextListing, After, Goto, provider, SweptIsGone, Gone, Work
<1>11. CASE CountLive \/ CountStale
  BY <1>0, <1>11 DEF CountLive, CountStale, Goto, provider, SweptIsGone, Gone, Work
<1>12. CASE ArchiveOffers \/ ArchivePlans
  <2>1. \A j \in Items : row[j].status \in {"none", "DRAFT", "PUBLISHED", "ARCHIVED"}
    BY <1>0 DEF TypeOK, Row
  <2>2. UNCHANGED <<listed, work>>
    BY <1>0, <1>12, SweepIs
  <2>3. CASE pc = "archiveOffers"
    BY <1>0, <2>1, <2>2, <2>3, <1>12, SweepIs DEF SweptIsGone, Gone, Stale, Live, UnlistedIsUnseen
  <2>4. CASE pc = "archivePlans"
    <3>1. Stale(Plans) \cap Offers = {}
      BY ItemsAssumption DEF Stale, Live
    <3> QED BY <1>0, <2>1, <2>2, <2>4, <3>1, <1>12, SweepIs DEF SweptIsGone, Gone, Stale, Live, UnlistedIsUnseen
  <2> QED BY <1>12, <2>3, <2>4 DEF ArchiveOffers, ArchivePlans
<1>13. ASSUME NEW i \in Items, NEW st \in {"DRAFT", "PUBLISHED", "ARCHIVED"}, SetStatus(i, st) PROVE SweptIsGone'
  BY <1>0, <1>13, StatusIs DEF SweptIsGone, Gone, Work
<1>14. ASSUME NEW i \in Items, NEW p \in HandPrices, SetRetailPrice(i, p) PROVE SweptIsGone'
  BY <1>0, <1>14, RetailIs DEF SweptIsGone, Gone, Work
<1>15. ASSUME NEW i \in Items, Change(i) PROVE SweptIsGone'
  BY <1>0, <1>15, ChangeIs DEF SweptIsGone, Gone, Work
<1> QED BY StepCases, <1>1, <1>2, <1>3, <1>4, <1>5, <1>6, <1>7, <1>8, <1>9, <1>10, <1>11, <1>12, <1>13, <1>14, <1>15

\* A fresh row stays so under steps that leave it, the locals and SMSPool's price
\* alone, or price it by hand.
LEMMA FreshKept ==
  ASSUME NEW i, Fresh(i), work'.run = work.run, work'.rules = work.rules, cost'[i] = cost[i],
         row'[i].seen = row[i].seen, row'[i].cost = row[i].cost,
         row'[i].manual \/ (row'[i].manual = row[i].manual /\ row'[i].retail = row[i].retail)
  PROVE  Fresh(i)'
BY DEF Fresh

LEMMA ListedIsSeenStep ==
  ASSUME Inv, [Next]_vars
  PROVE  ListedIsSeen'
<1>0. /\ TypeOK /\ LocalsFit /\ ListedIsSeen /\ work \in Work /\ pc \in Labels
      /\ listed \subseteq Items /\ TypeOK'
  BY TypeStep DEF Inv, TypeOK
<1> SUFFICES ASSUME NEW i \in listed' \ work'.touched, NEW l \in Listings, l = ListedAs(i),
                    l \notin work'.failed
             PROVE  (Done(l)' => Fresh(i)') /\ (Underway(l)' => Fresh(i)' \/ Pending(i)')
  <2>1. \A j \in listed' : ListedAs(j) \in Listings /\ ListedAs(j)' = ListedAs(j)
    BY <1>0, Listed DEF ListedAs, TypeOK
  <2> QED BY <2>1 DEF ListedIsSeen, Done, Underway, Fresh, Pending
<1>a. i \in Items
  BY <1>0 DEF TypeOK
<1>b. i \in listed \ work.touched /\ l \notin work.failed =>
        (Done(l) => Fresh(i)) /\ (Underway(l) => Fresh(i) \/ Pending(i))
  BY <1>0 DEF ListedIsSeen
<1>1. CASE Quiet
  BY <1>1, <1>b, QuietIs, FreshKept DEF Done, Underway, Pending
<1>2. CASE Ends
  BY <1>2, EndsIs DEF Done, Underway, Fetching, Sweeping
<1>3. CASE StartRun
  BY <1>0, <1>3, StartIs DEF Done, Underway, Fetching, Sweeping
<1>4. CASE ReadRules \/ Reference
  BY <1>4 DEF ReadRules, Reference, Goto, Done, Underway, Fetching, Sweeping
<1>5. ASSUME NEW k \in Listings, List(k)
      PROVE  (Done(l)' => Fresh(i)') /\ (Underway(l)' => Fresh(i)' \/ Pending(i)')
  <2>1. /\ UNCHANGED <<listed, cost, row>> /\ pc = k /\ pc' = (IF k = "offers" THEN "readOffers" ELSE "plans")
        /\ work' = [work EXCEPT !.listing = k, !.rest = Answer(k)]
    BY <1>5 DEF List, Goto, provider
  <2>2. /\ work'.listing = k /\ work'.rest = Answer(k) /\ work'.failed = work.failed
        /\ work'.touched = work.touched /\ work'.run = work.run /\ work'.rules = work.rules
    BY <1>0, <2>1 DEF Work
  <2>3. Done(l)' => Fresh(i)'
    <3>1. Done(l)' => Done(l)
      BY <2>1, <2>2 DEF Done, Fetching, Sweeping, Listings
    <3> QED BY <1>b, <2>1, <2>2, <3>1, FreshKept
  <2>4. Underway(l)' => Pending(i)'
    <3>1. l = k => [item |-> i, cost |-> cost[i]] \in Answer(k)
      BY <2>1 DEF Answer
    <3> QED BY <2>2, <3>1 DEF Underway, Pending
  <2> QED BY <2>3, <2>4
<1>6. ASSUME NEW k \in Listings, ListFails(k)
      PROVE  (Done(l)' => Fresh(i)') /\ (Underway(l)' => Fresh(i)' \/ Pending(i)')
  <2>1. /\ UNCHANGED <<listed, cost, row>> /\ pc = k /\ pc' = After(k)
        /\ work' = [work EXCEPT !.failed = @ \cup {k}]
    BY <1>6 DEF ListFails, provider
  <2>2. /\ work'.failed = work.failed \cup {k} /\ work'.listing = work.listing
        /\ work'.touched = work.touched /\ work'.run = work.run /\ work'.rules = work.rules
    BY <1>0, <2>1 DEF Work
  <2>3. (Done(l)' => Done(l)) /\ ~Underway(l)'
    BY <2>1, <2>2 DEF Done, Underway, Fetching, Sweeping, Listings, After
  <2> QED BY <1>b, <2>1, <2>2, <2>3, FreshKept
<1>7. CASE ReadOffers \/ \E d \in work.rest : ReadPlan(d)
  <2>1. /\ UNCHANGED <<listed, cost, row>> /\ pc \in {"readOffers", "plans"} /\ pc' \in {"writeOffers", "writePlan"}
        /\ work'.listing = work.listing /\ work'.failed = work.failed
        /\ work'.touched = work.touched /\ work'.run = work.run /\ work'.rules = work.rules
        /\ work.todo \cup work.rest \subseteq work'.todo \cup work'.rest
    <3>1. ReadOffers =>
            /\ UNCHANGED <<listed, cost, row>> /\ pc = "readOffers" /\ pc' = "writeOffers"
            /\ work'.listing = work.listing /\ work'.failed = work.failed
            /\ work'.touched = work.touched /\ work'.run = work.run /\ work'.rules = work.rules
            /\ work.todo = {} /\ work'.todo = work.rest
      BY <1>0 DEF ReadOffers, Goto, provider, Work, LocalsFit
    <3>2. ASSUME NEW d \in work.rest, ReadPlan(d)
          PROVE  /\ UNCHANGED <<listed, cost, row>> /\ pc = "plans" /\ pc' = "writePlan"
                 /\ work'.listing = work.listing /\ work'.failed = work.failed
                 /\ work'.touched = work.touched /\ work'.run = work.run /\ work'.rules = work.rules
                 /\ work.todo = {} /\ work'.todo = {d} /\ work'.rest = work.rest \ {d}
      BY <1>0, <3>2 DEF ReadPlan, Goto, provider, Work, LocalsFit
    <3> QED BY <1>7, <3>1, <3>2
  <2>2. (Done(l)' => Done(l)) /\ (Underway(l)' => Underway(l))
    BY <2>1 DEF Done, Underway, Fetching, Sweeping
  <2>3. Pending(i) => Pending(i)'
    BY <2>1 DEF Pending
  <2> QED BY <1>b, <2>1, <2>2, <2>3, FreshKept
<1>8. ASSUME NEW d \in work.todo, WriteOffer(d) \/ WritePlan(d)
      PROVE  (Done(l)' => Fresh(i)') /\ (Underway(l)' => Fresh(i)' \/ Pending(i)')
  <2>1. d \in Ask /\ Upsert(d) /\ UNCHANGED <<listed, cost>>
    BY <1>0, <1>8, WriteIs
  <2>2. /\ work'.listing = work.listing /\ work'.failed = work.failed /\ work'.touched = work.touched
        /\ work'.run = work.run /\ work'.rules = work.rules /\ work'.rest = work.rest
        /\ \A e \in work.todo : e # d => e \in work'.todo
        /\ pc \in {"writeOffers", "writePlan"} /\ pc' \in {"writeOffers", "plans"}
    BY <1>0, <1>8, WriteIs DEF Work, LocalsFit
  <2>3. (Done(l)' => Done(l)) /\ (Underway(l)' => Underway(l))
    BY <2>2 DEF Done, Underway, Fetching, Sweeping
  <2>4. CASE d.item = i
    <3>1. d.cost = cost[i] /\ (i \in work.prior => row[i].manual)
      BY <1>0, <2>2, <2>4, <2>1 DEF LocalsFit
    <3>2. /\ row'[i].seen = work.run /\ row'[i].cost = cost[i] /\ row'[i].manual = row[i].manual
          /\ i \notin work.prior => row'[i].retail = Price(cost[i], ResolveRule(work.rules, i))
      BY <1>0, <2>1, <2>4, <3>1, UpsertIs
    <3>3. Fresh(i)'
      BY <2>1, <2>2, <3>1, <3>2 DEF Fresh
    <3> QED BY <3>3
  <2>5. CASE d.item # i
    <3>1. row'[i] = row[i]
      BY <1>0, <1>a, <2>1, <2>5, UpsertIs
    <3>2. Pending(i) => Pending(i)'
      BY <2>2, <2>5 DEF Pending
    <3> QED BY <1>b, <2>1, <2>2, <2>3, <3>1, <3>2, FreshKept
  <2> QED BY <2>4, <2>5
<1>9. CASE NextListing
  <2>1. /\ UNCHANGED <<listed, cost, row>> /\ work.todo = {} /\ work.rest = {}
        /\ pc \in {"writeOffers", "plans"} /\ pc' = After(work.listing)
        /\ work' = [work EXCEPT !.prior = {}]
    BY <1>9 DEF NextListing, Goto, provider
  <2>2. /\ work'.listing = work.listing /\ work'.failed = work.failed
        /\ work'.touched = work.touched /\ work'.run = work.run /\ work'.rules = work.rules
    BY <1>0, <2>1 DEF Work
  <2>3. ~Pending(i) /\ ~Underway(l)' /\ (Done(l)' => Done(l) \/ Underway(l))
    <3>1. /\ work.listing \in Listings /\ (pc = "writeOffers" => work.listing = "offers")
          /\ pc = "plans" => work.listing # "offers"
      BY <1>0 DEF Work, LocalsFit
    <3> QED BY <2>1, <2>2, <3>1 DEF Done, Underway, Pending, Fetching, Sweeping, Listings, After
  <2> QED BY <1>b, <2>1, <2>2, <2>3, FreshKept
<1>10. CASE CountLive \/ CountStale
  <2>1. /\ UNCHANGED <<listed, cost, row>> /\ pc \in Sweeping /\ pc' \in Sweeping
        /\ work'.failed = work.failed /\ work'.touched = work.touched
        /\ work'.run = work.run /\ work'.rules = work.rules
    BY <1>0, <1>10 DEF CountLive, CountStale, Goto, provider, Work, Sweeping
  <2>2. Done(l) /\ ~Underway(l)'
    BY <2>1 DEF Done, Underway, Fetching, Sweeping
  <2> QED BY <1>b, <2>1, <2>2, FreshKept
<1>11. CASE ArchiveOffers \/ ArchivePlans
  <2>1. UNCHANGED <<listed, cost, work>> /\ pc \in Sweeping /\ pc' \in Sweeping
    BY <1>0, <1>11, SweepIs DEF Sweeping
  <2>2. /\ row'[i].seen = row[i].seen /\ row'[i].cost = row[i].cost
        /\ row'[i].manual = row[i].manual /\ row'[i].retail = row[i].retail
    BY <1>0, <1>a, <1>11, SweepIs
  <2>3. Done(l) /\ ~Underway(l)'
    BY <2>1 DEF Done, Underway, Fetching, Sweeping
  <2> QED BY <1>b, <2>1, <2>2, <2>3, FreshKept
<1>12. ASSUME NEW k \in Items, NEW st \in {"DRAFT", "PUBLISHED", "ARCHIVED"}, SetStatus(k, st)
      PROVE  (Done(l)' => Fresh(i)') /\ (Underway(l)' => Fresh(i)' \/ Pending(i)')
  <2>1. /\ UNCHANGED <<listed, cost, pc>> /\ work.touched \subseteq work'.touched
        /\ work'.listing = work.listing /\ work'.failed = work.failed /\ work'.todo = work.todo
        /\ work'.rest = work.rest /\ work'.run = work.run /\ work'.rules = work.rules
    BY <1>0, <1>12, StatusIs DEF Work
  <2>2. /\ row'[i].seen = row[i].seen /\ row'[i].cost = row[i].cost
        /\ row'[i].manual = row[i].manual /\ row'[i].retail = row[i].retail
    BY <1>0, <1>a, <1>12, StatusIs
  <2>3. (Done(l)' => Done(l)) /\ (Underway(l)' => Underway(l)) /\ (Pending(i) => Pending(i)')
    BY <2>1 DEF Done, Underway, Pending
  <2> QED BY <1>b, <2>1, <2>2, <2>3, FreshKept
<1>13. ASSUME NEW k \in Items, NEW p \in HandPrices, SetRetailPrice(k, p)
      PROVE  (Done(l)' => Fresh(i)') /\ (Underway(l)' => Fresh(i)' \/ Pending(i)')
  <2>1. UNCHANGED <<listed, cost, pc, work>>
    BY <1>0, <1>13, RetailIs
  <2>2. /\ row'[i].seen = row[i].seen /\ row'[i].cost = row[i].cost
        /\ row'[i].manual \/ row'[i] = row[i]
    BY <1>0, <1>a, <1>13, RetailIs
  <2>3. (Done(l)' => Done(l)) /\ (Underway(l)' => Underway(l)) /\ (Pending(i) => Pending(i)')
    BY <2>1 DEF Done, Underway, Pending
  <2> QED BY <1>b, <2>1, <2>2, <2>3, FreshKept
<1>14. ASSUME NEW k \in Items, Change(k)
      PROVE  (Done(l)' => Fresh(i)') /\ (Underway(l)' => Fresh(i)' \/ Pending(i)')
  <2>1. CASE pc = "idle"
    BY <1>0, <1>14, <2>1, ChangeIs DEF Done, Underway, Fetching, Sweeping
  <2>2. CASE pc # "idle"
    <3>1. /\ UNCHANGED <<row, pc>> /\ work'.touched = work.touched \cup {k}
          /\ work'.listing = work.listing /\ work'.failed = work.failed /\ work'.todo = work.todo
          /\ work'.rest = work.rest /\ work'.run = work.run /\ work'.rules = work.rules
      BY <1>0, <1>14, <2>2, ChangeIs DEF Work
    <3>2. i # k /\ i \in listed /\ cost'[i] = cost[i]
      BY <1>0, <1>a, <1>14, <3>1, ChangeIs
    <3>3. (Done(l)' => Done(l)) /\ (Underway(l)' => Underway(l)) /\ (Pending(i) => Pending(i)')
      BY <3>1 DEF Done, Underway, Pending
    <3> QED BY <1>b, <3>1, <3>2, <3>3, FreshKept
  <2> QED BY <2>1, <2>2
<1> QED BY StepCases, <1>1, <1>2, <1>3, <1>4, <1>5, <1>6, <1>7, <1>8, <1>9, <1>10, <1>11, <1>12,
           <1>13, <1>14

-----------------------------------------------------------------------------
(* The theorems                                                              *)

LEMMA InvInit == Init => Inv
<1> SUFFICES ASSUME Init PROVE Inv
  OBVIOUS
<1>1. TypeOK
  BY TypeInit
<1>2. pc = "idle" /\ work = Idle /\ work.failed = {} /\ work.todo = {} /\ work.rest = {} /\ work.prior = {}
  BY DEF Init, Idle
<1>3. LocalsFit /\ UnlistedIsUnseen /\ FailedIsUnseen /\ GuardHolds /\ SweptIsGone
  BY <1>2 DEF LocalsFit, UnlistedIsUnseen, FailedIsUnseen, GuardHolds, SweptIsGone
<1>4. ListedIsSeen
  BY <1>2 DEF ListedIsSeen, Done, Underway, Fetching, Sweeping
<1> QED BY <1>1, <1>3, <1>4 DEF Inv

\* Every step keeps the invariant.
LEMMA Invariance == Spec => []Inv
<1>1. Inv /\ [Next]_vars => Inv'
  BY TypeStep, LocalsFitStep, ListedIsSeenStep, UnlistedIsUnseenStep, FailedIsUnseenStep, GuardHoldsStep,
     SweptIsGoneStep DEF Inv
<1> QED BY InvInit, <1>1, PTL DEF Spec

\* Rows, locals and runs are well formed; the run at work is the latest.
THEOREM TypeCorrect == Spec => []TypeOK
<1>1. Inv => TypeOK
  BY DEF Inv
<1> QED BY Invariance, <1>1, PTL

\* A run that got every listing and swept leaves the shop as SMSPool has it
\* (SmsSyncService.run).
THEOREM CleanRunIsClean == Spec => []CleanRun
<1>1. ASSUME Inv PROVE CleanRun
  <2> SUFFICES ASSUME pc = "finish", work.swept, work.failed = {}, NEW i \in Items \ work.touched
               PROVE  IF i \in listed
                      THEN /\ row[i].seen = work.run /\ row[i].cost = cost[i]
                           /\ row[i].manual \/ row[i].retail = Price(cost[i], ResolveRule(work.rules, i))
                      ELSE row[i].status \in {"none", "ARCHIVED"}
    BY DEF CleanRun
  <2>1. CASE i \in listed
    <3>1. Fresh(i)
      BY <1>1, <2>1 DEF Inv, ListedIsSeen, Done, Sweeping
    <3> QED BY <2>1, <3>1 DEF Fresh
  <2>2. CASE i \notin listed
    BY <1>1, <2>2 DEF Inv, SweptIsGone, Gone, Items
  <2> QED BY <2>1, <2>2
<1> QED BY Invariance, <1>1, PTL

\* The sweep takes from the shop only what SMSPool no longer lists or what was
\* changed meanwhile, with the code's three excuses (SmsSyncService.archiveStale).
THEOREM SweepIsJustified == Spec => SweepJustified
<1> DEFINE Justified ==
      \A i \in Items :
        pc \in {"archiveOffers", "archivePlans"} /\ row'[i].status = "ARCHIVED" =>
          \/ row[i].status = "ARCHIVED"
          \/ i \notin listed
          \/ i \in work.touched \cup work'.touched
          \/ Excused(i)
<1>1. ASSUME Inv, [Next]_vars PROVE Justified
  <2>1. TypeOK /\ work \in Work /\ pc \in Labels
    BY <1>1 DEF Inv, TypeOK
  <2> SUFFICES ASSUME NEW i \in Items, pc \in {"archiveOffers", "archivePlans"},
                      row'[i].status = "ARCHIVED", row[i].status # "ARCHIVED",
                      i \in listed, i \notin work.touched \cup work'.touched
               PROVE  Excused(i)
    OBVIOUS
  <2>2. ArchiveOffers \/ ArchivePlans
    <3>1. ~(\E j \in Items, st \in {"DRAFT", "PUBLISHED", "ARCHIVED"} : SetStatus(j, st))
      BY <2>1, StatusIs DEF Work
    <3>2. ~(\E j \in Items, p \in HandPrices : SetRetailPrice(j, p))
      BY <2>1, RetailIs
    <3>3. ~(\E j \in Items : Change(j))
      BY <2>1, ChangeIs
    <3>4. ~Quiet /\ ~Ends
      BY QuietIs, EndsIs
    <3> QED BY <1>1, <3>1, <3>2, <3>3, <3>4, StepCases
            DEF StartRun, ReadRules, Reference, ReadOffers, NextListing, List, ListFails, Listings,
                WriteOffer, WritePlan, ReadPlan, CountLive, CountStale
  <2>3. \/ i \in Stale(Offers) /\ pc = "archiveOffers"
        \/ i \in Stale(Plans) /\ pc = "archivePlans"
    <3>1. \/ pc = "archiveOffers" /\ row'[i].status = IF i \in Stale(Offers) THEN "ARCHIVED" ELSE row[i].status
          \/ pc = "archivePlans" /\ row'[i].status = IF i \in Stale(Plans) THEN "ARCHIVED" ELSE row[i].status
      BY <2>1, <2>2, SweepIs
    <3> QED BY <3>1
  <2>4. row[i].seen # work.run
    BY <2>1, <2>3 DEF Stale, Work
  <2>5. ListedAs(i) \in work.failed
    BY <1>1, <2>4 DEF Inv, ListedIsSeen, Fresh, Done, Sweeping
  <2>6. CASE i \in Plans
    BY <2>5, <2>6 DEF Excused
  <2>7. CASE i \in Stale(Offers) /\ pc = "archiveOffers"
    <3>1. i \in Live(Offers) /\ i \in Offers
      BY <2>7 DEF Stale, Live
    <3>2. "offers" \in work.failed
      BY <2>5, <3>1 DEF ListedAs
    <3>3. work.touched \cap Offers # {} \/ MaxPercent = 100
      BY <1>1, <2>7, <3>1, <3>2 DEF Inv, GuardHolds
    <3> QED BY <2>5, <3>3 DEF Excused
  <2>8. i \in Stale(Plans) => i \in Plans
    BY DEF Stale, Live
  <2> QED BY <2>3, <2>6, <2>7, <2>8
<1>2. Inv /\ [Next]_vars => [Justified]_vars
  BY <1>1
<1> QED BY Invariance, <1>2, PTL DEF Spec, SweepJustified

\* A price no admin has set never falls below the least markup on the cost on
\* file (SmsPricingService.price).
THEOREM MarkupIsHeld == Spec => []MarkupHeld
<1> DEFINE Held(i) == row[i].status # "none" /\ ~row[i].manual =>
                        row[i].retail * 100 + 50 >= row[i].cost * (100 + LeastMarkup)
<1>1. Init => MarkupHeld
  <2> SUFFICES ASSUME Init, NEW i \in Items PROVE row[i].retail * 100 + 50 >= row[i].cost * (100 + LeastMarkup)
    BY DEF MarkupHeld
  <2>1. cost[i] \in Nat /\ rules \in SUBSET Rules
    BY AmountsAssumption DEF Init
  <2>2. row[i].retail = Price(cost[i], ResolveRule(rules, i)) /\ row[i].cost = cost[i]
    BY DEF Init
  <2>3. ResolveRule(rules, i) \in SUBSET Rules
    BY <2>1, Resolved
  <2> QED BY <2>1, <2>2, <2>3, PriceHolds
<1>2. ASSUME Inv, [Next]_vars, MarkupHeld PROVE MarkupHeld'
  <2>1. TypeOK /\ work \in Work /\ \A i \in work.prior : row[i].manual
    BY <1>2 DEF Inv, TypeOK, LocalsFit
  <2> SUFFICES ASSUME NEW i \in Items, row'[i].status # "none", ~row'[i].manual
               PROVE  row'[i].retail * 100 + 50 >= row'[i].cost * (100 + LeastMarkup)
    BY DEF MarkupHeld, LeastMarkup
  <2>2. row[i].status # "none" => Held(i)
    BY <1>2 DEF MarkupHeld
  <2>3. CASE row' = row
    BY <2>2, <2>3
  <2>4. ASSUME NEW d \in work.todo, WriteOffer(d) \/ WritePlan(d)
        PROVE  row'[i].retail * 100 + 50 >= row'[i].cost * (100 + LeastMarkup)
    <3>1. d \in Ask /\ Upsert(d)
      BY <2>1, <2>4, WriteIs
    <3>2. CASE i # d.item
      BY <2>1, <2>2, <3>1, <3>2, UpsertIs
    <3>3. CASE i = d.item
      <4>1. i \notin work.prior
        BY <2>1, <3>1, <3>3, UpsertIs
      <4>2. row'[i].cost = d.cost /\ row'[i].retail = Price(d.cost, ResolveRule(work.rules, i))
        BY <2>1, <3>1, <3>3, <4>1, UpsertIs
      <4>3. d.cost \in Nat /\ ResolveRule(work.rules, i) \in SUBSET Rules
        BY <2>1, <3>1, Resolved, AmountsAssumption DEF Ask, Work
      <4> QED BY <4>2, <4>3, PriceHolds
    <3> QED BY <3>2, <3>3
  <2>5. CASE ArchiveOffers \/ ArchivePlans
    BY <2>1, <2>2, <2>5, SweepIs DEF Stale, Live
  <2>6. ASSUME NEW k \in Items, NEW st \in {"DRAFT", "PUBLISHED", "ARCHIVED"}, SetStatus(k, st)
        PROVE  row'[i].retail * 100 + 50 >= row'[i].cost * (100 + LeastMarkup)
    <3>1. row[i].status # "none"
      BY <2>1, <2>6, StatusIs DEF SetStatus
    <3> QED BY <2>1, <2>2, <2>6, <3>1, StatusIs
  <2>7. ASSUME NEW k \in Items, NEW p \in HandPrices, SetRetailPrice(k, p)
        PROVE  row'[i].retail * 100 + 50 >= row'[i].cost * (100 + LeastMarkup)
    BY <2>1, <2>2, <2>7, RetailIs
  <2> QED BY <1>2, <2>1, <2>3, <2>4, <2>5, <2>6, <2>7, StepCases, QuietIs, EndsIs, ChangeIs
          DEF StartRun, ReadRules, Reference, ReadOffers, NextListing, List, ListFails, ReadPlan,
              CountLive, CountStale
<1>3. Inv /\ MarkupHeld /\ [Next]_vars => MarkupHeld'
  BY <1>2
<1> QED BY Invariance, <1>1, <1>3, PTL DEF Spec
=============================================================================
