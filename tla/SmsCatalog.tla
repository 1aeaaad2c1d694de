----------------------------- MODULE SmsCatalog -----------------------------
(***************************************************************************)
(* The SMS catalogue: the queued sync of one-time offers and rental plans  *)
(* with SMSPool, its stale sweep and its prices, beside the admin's edits  *)
(* of the same rows.  One action per await; the writes of a batch land in  *)
(* any order, none after its run has ended.  An item counts as listed if   *)
(* SMSPool prices it above zero.  Countries, services, rental SKUs and     *)
(* names, which hold neither a price nor a date the sweep looks at, pins   *)
(* of a rule, which nothing sets, and a run's counters are left out.       *)
(* Amounts are in units of 1/10000, percentages whole.                     *)
(***************************************************************************)
EXTENDS Integers, Sequences, FiniteSets

CONSTANTS Offers,     \* one-time offers: a service in a country from a pool
          Plans,      \* rental plans: days of a rental SKU
          Extendable, \* plans SMSPool lists as extendable (type 1); the others are type 0
          Stored,     \* items earlier syncs have stored
          Costs,      \* prices SMSPool may ask
          Rules,      \* pricing rules an admin may activate
          Keys,       \* Keys[i]: what the scopes of a rule refer to for item i
          HandPrices, \* retail prices an admin may set
          MaxPercent, \* SMSPOOL_ARCHIVE_SWEEP_MAX_PERCENT
          MaxRuns, MaxEdits, MaxChanges, MaxFaults \* bounds: sync jobs, requests of
                      \* admins, changes at SMSPool, failed calls and crashes

Items == Offers \cup Plans
Listings == {"offers", "extendable", "plain"}
ListedAs(i) == IF i \in Offers THEN "offers" ELSE IF i \in Extendable THEN "extendable" ELSE "plain"

VARIABLES listed, cost,  \* SMSPool's side: what it lists and asks
          rules,         \* active pricing rules
          row,           \* SmsOneTimeOffer and SmsRentalPlan rows
          runs,          \* SmsSyncRun rows in the order of startedAt: their statuses
          queued,        \* jobs waiting for the sync worker (concurrency 1)
          pc, work,      \* what the worker awaits; its locals
          jobs, edits, changes, faults  \* how much of each bound is used

ASSUME ItemsAssumption ==
  Offers \cap Plans = {} /\ Extendable \subseteq Plans /\ Stored \subseteq Items /\ IsFiniteSet(Items)
ASSUME AmountsAssumption ==
  /\ Costs \subseteq Nat \ {0} /\ HandPrices \subseteq Nat
  /\ \A r \in Rules : r.markup \in Nat /\ r.floor \in Nat
ASSUME PercentAssumption == MaxPercent \in 0..100

provider == <<listed, cost>>
budgets == <<jobs, edits, changes, faults>>
vars == <<provider, rules, row, runs, queued, pc, work, budgets>>

\* A row's seen is its lastSeenAt, as the number of a run.  Of the locals, todo and
\* rest are what is written and read next, prior the items last read as priced by
\* hand, failed the listings that failed or came back empty, swept whether the sweep
\* was not skipped; touched, for the properties, the items SMSPool or an admin
\* changed during the run.
Idle == [run |-> 0, rules |-> {}, listing |-> "offers", todo |-> {}, rest |-> {}, prior |-> {},
         live |-> 0, failed |-> {}, swept |-> FALSE, touched |-> {}]

-----------------------------------------------------------------------------
(* SmsPricingService                                                         *)

\* The active rule of the most specific scope, or none.
Scopes == <<"RENTAL_SKU", "SERVICE", "COUNTRY", "GLOBAL">>
ResolveRule(rs, i) ==
  LET Of(k) == {r \in rs : r.scope = Scopes[k] /\ r.ref = Keys[i][Scopes[k]]}
      Hits == {k \in 1..4 : Of(k) # {}}
  IN IF Hits = {} THEN {} ELSE Of(CHOOSE k \in Hits : \A l \in Hits : k <= l)

\* Mutant: a floor is taken for the price.
PriceAtFloor(c, hits) ==
  LET r == CHOOSE r \in hits : TRUE
      marked == (2 * c * (100 + r.markup) + 100) \div 200
  IN IF hits = {} THEN (2 * c * 120 + 100) \div 200 ELSE IF r.floor > 0 THEN r.floor ELSE marked

\* cost and markup (20% without a rule), rounded half up, and no less than the
\* floor; the cost itself where that is nothing.
Price(c, hits) ==
  LET Marked(m) == (2 * c * (100 + m) + 100) \div 200
      r == CHOOSE r \in hits : TRUE
      retail == IF hits = {} THEN Marked(20)
                ELSE IF Marked(r.markup) < r.floor THEN r.floor ELSE Marked(r.markup)
  IN IF retail > 0 THEN retail ELSE c

Init ==
  /\ listed = Items /\ cost \in [Items -> Costs]
  /\ \E r \in Rules : r.scope = "GLOBAL" /\ rules = {r}
  /\ row = [i \in Items |->
       [status |-> IF i \in Stored THEN "PUBLISHED" ELSE "none", manual |-> FALSE, seen |-> 0,
        cost |-> cost[i], retail |-> Price(cost[i], ResolveRule(rules, i))]]
  /\ runs = <<>> /\ queued = 0
  /\ pc = "idle" /\ work = Idle
  /\ jobs = 0 /\ edits = 0 /\ changes = 0 /\ faults = 0

-----------------------------------------------------------------------------
(* SmsSyncScheduler and SmsSyncService.run                                   *)

\* The nightly cron or an admin queues a job of its own id; nothing looks
\* whether another one waits or runs.
Enqueue ==
  /\ jobs < MaxRuns /\ jobs' = jobs + 1
  /\ queued' = queued + 1
  /\ UNCHANGED <<provider, rules, row, runs, pc, work, edits, changes, faults>>

\* The worker goes on at `label` with locals `w`.
Goto(label, w) == pc' = label /\ work' = w /\ UNCHANGED <<provider, rules, queued, budgets>>

StartRun ==
  /\ pc = "idle" /\ queued > 0 /\ queued' = queued - 1
  /\ runs' = Append(runs, "RUNNING")
  /\ pc' = "rules" /\ work' = [Idle EXCEPT !.run = Len(runs')]
  /\ UNCHANGED <<provider, rules, row, budgets>>

\* The active rules, for the whole run.
ReadRules ==
  /\ pc = "rules"
  /\ Goto("reference", [work EXCEPT !.rules = rules])
  /\ UNCHANGED <<row, runs>>

\* Countries and services are written.
Reference == pc = "reference" /\ Goto("offers", work) /\ UNCHANGED <<row, runs>>

\* Ask SMSPool for a listing, up to three times; the offers come first.
Answer(l) == {[item |-> i, cost |-> cost[i]] : i \in {j \in listed : ListedAs(j) = l}}
List(l) ==
  /\ pc = l
  /\ Goto(IF l = "offers" THEN "readOffers" ELSE "plans", [work EXCEPT !.listing = l, !.rest = Answer(l)])
  /\ UNCHANGED <<row, runs>>

\* The extendable plans come next, then the others, then the sweep.
After(l) == IF l = "offers" THEN "extendable" ELSE IF l = "extendable" THEN "plain" ELSE "countLive"

\* The call fails for good, which is noted in the run, or is answered without a
\* list, which is not; the run goes on.
ListFails(l) ==
  /\ pc = l
  /\ faults < MaxFaults /\ faults' = faults + 1
  /\ pc' = After(l) /\ work' = [work EXCEPT !.failed = @ \cup {l}]
  /\ UNCHANGED <<provider, rules, row, runs, queued, jobs, edits, changes>>

\* All offers are read before the first one is written.
ReadOffers ==
  /\ pc = "readOffers"
  /\ Goto("writeOffers", [work EXCEPT !.todo = work.rest, !.rest = {},
                                      !.prior = {i \in Offers : row[i].manual}])
  /\ UNCHANGED <<row, runs>>

\* The upsert of one item: a new one is a DRAFT; a price by hand, as it was read, stays.
Upsert(d) ==
  LET i == d.item
      price == Price(d.cost, ResolveRule(work.rules, i))
  IN row' = [row EXCEPT ![i].status = IF @ = "none" THEN "DRAFT" ELSE @, ![i].cost = d.cost,
                        ![i].seen = work.run, ![i].retail = IF i \in work.prior THEN @ ELSE price]

WriteOffer(d) ==
  /\ pc = "writeOffers" /\ d \in work.todo
  /\ Upsert(d)
  /\ Goto("writeOffers", [work EXCEPT !.todo = @ \ {d}])
  /\ UNCHANGED runs

\* Plans, each after its SKU, are read and written one by one.
ReadPlan(d) ==
  /\ pc = "plans" /\ d \in work.rest
  /\ Goto("writePlan", [work EXCEPT !.todo = {d}, !.rest = @ \ {d}, !.prior = {i \in {d.item} : row[i].manual}])
  /\ UNCHANGED <<row, runs>>

WritePlan(d) ==
  /\ pc = "writePlan" /\ d \in work.todo
  /\ Upsert(d)
  /\ Goto("plans", [work EXCEPT !.todo = {}])
  /\ UNCHANGED runs

\* A listing is done with.
NextListing ==
  /\ pc \in {"writeOffers", "plans"} /\ work.todo = {} /\ work.rest = {}
  /\ Goto(After(work.listing), [work EXCEPT !.prior = {}])
  /\ UNCHANGED <<row, runs>>

-----------------------------------------------------------------------------
(* SmsSyncService.archiveStale                                               *)

Live(s) == {i \in s : row[i].status \notin {"none", "ARCHIVED"}}
Stale(s) == {i \in Live(s) : row[i].seen < work.run}

CountLive ==
  /\ pc = "countLive"
  /\ Goto("countStale", [work EXCEPT !.live = Cardinality(Live(Offers))])
  /\ UNCHANGED <<row, runs>>

\* Mutant: the guard is missing.
CountUnguarded ==
  /\ pc = "countStale"
  /\ Goto("archiveOffers", [work EXCEPT !.swept = TRUE])
  /\ UNCHANGED <<row, runs>>

\* Too many stale offers: nothing is swept, the plans neither.
CountStale ==
  /\ pc = "countStale"
  /\ LET skips == work.live > 0 /\ Cardinality(Stale(Offers)) * 100 > MaxPercent * work.live
     IN Goto(IF skips THEN "finish" ELSE "archiveOffers", [work EXCEPT !.swept = ~skips])
  /\ UNCHANGED <<row, runs>>

Archive(s) == row' = [i \in Items |-> IF i \in Stale(s) THEN [row[i] EXCEPT !.status = "ARCHIVED"] ELSE row[i]]

\* Mutant: without stale offers there is nothing to sweep.
ArchiveOffersOrReturn ==
  /\ pc = "archiveOffers"
  /\ Archive(Offers)
  /\ Goto(IF Stale(Offers) = {} THEN "finish" ELSE "archivePlans", work)
  /\ UNCHANGED runs

ArchiveOffers ==
  /\ pc = "archiveOffers"
  /\ Archive(Offers)
  /\ Goto("archivePlans", work)
  /\ UNCHANGED runs

\* Plans have no guard of their own.
ArchivePlans ==
  /\ pc = "archivePlans"
  /\ Archive(Plans)
  /\ Goto("finish", work)
  /\ UNCHANGED runs

-----------------------------------------------------------------------------
(* The end of a run                                                          *)

Finish ==
  /\ pc = "finish"
  /\ runs' = [runs EXCEPT ![work.run] = "COMPLETED"]
  /\ Goto("idle", Idle)
  /\ UNCHANGED row

\* An await throws (a call for countries or services, the database): the run is
\* FAILED, or stays RUNNING if that write fails too.  The job is not retried.
RunFails ==
  /\ pc # "idle"
  /\ faults < MaxFaults /\ faults' = faults + 1
  /\ \E s \in {"FAILED", "RUNNING"} : runs' = [runs EXCEPT ![work.run] = s]
  /\ pc' = "idle" /\ work' = Idle
  /\ UNCHANGED <<provider, rules, row, queued, jobs, edits, changes>>

\* The process dies: the stalled job is queued again, its run stays RUNNING.
Crash ==
  /\ pc # "idle"
  /\ faults < MaxFaults /\ faults' = faults + 1
  /\ queued' = queued + 1
  /\ pc' = "idle" /\ work' = Idle
  /\ UNCHANGED <<provider, rules, row, runs, jobs, edits, changes>>

-----------------------------------------------------------------------------
(* Admins, and SMSPool                                                       *)

Touch(i) == work' = IF pc = "idle" THEN work ELSE [work EXCEPT !.touched = @ \cup {i}]
Edit ==
  /\ edits < MaxEdits /\ edits' = edits + 1
  /\ UNCHANGED <<provider, runs, queued, pc, jobs, changes, faults>>

SetStatus(i, s) ==
  /\ row[i].status # "none"
  /\ row' = [row EXCEPT ![i].status = s]
  /\ Touch(i) /\ Edit /\ UNCHANGED rules

SetRetailPrice(i, price) ==
  /\ row[i].status # "none"
  /\ row' = [row EXCEPT ![i].retail = price, ![i].manual = TRUE]
  /\ Edit /\ UNCHANGED <<rules, work>>

\* A rule is replaced by the one sent for its scope, active or not.
UpsertRule(r, active) ==
  /\ rules' = {q \in rules : q.scope # r.scope \/ q.ref # r.ref} \cup {q \in {r} : active}
  /\ Edit /\ UNCHANGED <<row, work>>

\* SMSPool lists an item, or lists it no longer, or asks another price.
Change(i) ==
  /\ changes < MaxChanges /\ changes' = changes + 1
  /\ \/ listed' = (IF i \in listed THEN listed \ {i} ELSE listed \cup {i}) /\ UNCHANGED cost
     \/ \E c \in Costs : cost' = [cost EXCEPT ![i] = c] /\ UNCHANGED listed
  /\ Touch(i)
  /\ UNCHANGED <<rules, row, runs, queued, pc, jobs, edits, faults>>

-----------------------------------------------------------------------------
Worker ==
  \/ StartRun \/ ReadRules \/ Reference \/ ReadOffers \/ NextListing
  \/ \E l \in Listings : List(l) \/ ListFails(l)
  \/ \E d \in work.todo : WriteOffer(d) \/ WritePlan(d)
  \/ \E d \in work.rest : ReadPlan(d)
  \/ CountLive \/ CountStale \/ ArchiveOffers \/ ArchivePlans
  \/ Finish \/ RunFails

Admin ==
  \/ \E i \in Items : \/ \E s \in {"DRAFT", "PUBLISHED", "ARCHIVED"} : SetStatus(i, s)
                      \/ \E p \in HandPrices : SetRetailPrice(i, p)
  \/ \E r \in Rules, active \in BOOLEAN : UpsertRule(r, active)

Next == Enqueue \/ Worker \/ Crash \/ Admin \/ \E i \in Items : Change(i)

Spec == Init /\ [][Next]_vars

-----------------------------------------------------------------------------
(* Properties                                                                *)

Labels ==
  {"idle", "rules", "reference", "offers", "readOffers", "writeOffers", "extendable", "plain", "plans",
   "writePlan", "countLive", "countStale", "archiveOffers", "archivePlans", "finish"}
Row == [status : {"none", "DRAFT", "PUBLISHED", "ARCHIVED"}, manual : BOOLEAN, seen : Nat,
        cost : Costs, retail : Nat]
Ask == [item : Items, cost : Costs]
Work == [run : Nat, rules : SUBSET Rules, listing : Listings, todo : SUBSET Ask, rest : SUBSET Ask,
         prior : SUBSET Items, live : Nat, failed : SUBSET Listings, swept : BOOLEAN,
         touched : SUBSET Items]

\* The rows and the locals are well formed; while the worker is at work its run
\* is the latest, and no row was seen by a later one.
TypeOK ==
  /\ listed \subseteq Items /\ cost \in [Items -> Costs] /\ rules \subseteq Rules
  /\ row \in [Items -> Row]
  /\ runs \in Seq({"RUNNING", "COMPLETED", "FAILED"})
  /\ queued \in Nat /\ jobs \in Nat /\ edits \in Nat /\ changes \in Nat /\ faults \in Nat
  /\ pc \in Labels /\ work \in Work
  /\ pc # "idle" => work.run = Len(runs) /\ work.run > 0
  /\ \A i \in Items : row[i].seen <= Len(runs)

\* The sweep takes from the shop only what SMSPool no longer lists or what was
\* changed while the run was at work, through every overlap with crashes, failed
\* and skipped runs.  Three excuses are the code's, all for an item whose listing
\* failed in this very run: a plan, as the guard looks at offers alone; an offer
\* while others were changed, as the guard compares two counts; and any offer at a
\* permitted share of 100, which no count exceeds (sms-sync.service.ts archiveStale).
Excused(i) ==
  /\ ListedAs(i) \in work.failed
  /\ i \in Plans \/ work.touched \cap Offers # {} \/ MaxPercent = 100
SweepJustified ==
  [][\A i \in Items :
       pc \in {"archiveOffers", "archivePlans"} /\ row'[i].status = "ARCHIVED" =>
         \/ row[i].status = "ARCHIVED"
         \/ i \notin listed
         \/ i \in work.touched \cup work'.touched
         \/ Excused(i)
    ]_vars

\* A run that got every listing and swept leaves the shop as SMSPool has it: what
\* is no longer listed is not for sale, what is listed has been seen, and, unless
\* priced by hand, costs what the rules of the run say, whatever crashed, failed or
\* was skipped before.  Items changed during the run are the next one's
\* (sms-sync.service.ts run).
CleanRun ==
  pc = "finish" /\ work.swept /\ work.failed = {} =>
    \A i \in Items \ work.touched :
      IF i \in listed
      THEN /\ row[i].seen = work.run /\ row[i].cost = cost[i]
           /\ row[i].manual \/ row[i].retail = Price(cost[i], ResolveRule(work.rules, i))
      ELSE row[i].status \in {"none", "ARCHIVED"}

\* A price no admin has set never falls below the cost on file marked up by the
\* least of the markups in use, 20% if no rule applies, up to rounding
\* (sms-pricing.service.ts price): rows of a run cut short, of old rules and of
\* old costs too.
LeastMarkup == CHOOSE m \in {20} \cup {r.markup : r \in Rules} :
                 \A n \in {20} \cup {r.markup : r \in Rules} : m <= n
MarkupHeld ==
  \A i \in Items : row[i].status # "none" /\ ~row[i].manual =>
    row[i].retail * 100 + 50 >= row[i].cost * (100 + LeastMarkup)
=============================================================================
