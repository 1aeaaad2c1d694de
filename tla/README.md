# TradeVero backend: a TLA+ verification project

This directory models the money and fulfilment paths of the TradeVero backend (a NestJS
application over PostgreSQL, Redis/BullMQ and several suppliers), checks them with TLC on small
instances and proves the most important safety properties with TLAPS. Paths below are relative to
`src/src/` unless they start elsewhere.

Contents: [the system](#the-system) · [modules](#modules) · [runs](#runs) ·
[fairness](#fairness) · [proofs](#proofs) · [disagreements](#where-code-and-docs-disagree) ·
[not modelled](#what-is-not-modelled) · [plan](#plan)

## The system

A customer pays money into a USD wallet (Paystack or OxaPay), and spends it on eSIMs, eSIM top-ups,
gift cards and SMS numbers. Every purchase is charged first and fulfilled later by a queue worker;
what cannot be fulfilled is refunded to the wallet. One Node process runs the HTTP handlers, the
workers and the cron jobs, so every `await` is a point where the others run; PostgreSQL holds the
rows, Redis the jobs.

| component (`modules/…`) | state | operations | interacts with | hard behaviour | what makes it correct |
|---|---|---|---|---|---|
| `wallet` | `Wallet` (balance, version), `WalletTransaction` (unique reference) | credit, debit, refund, adjust | called by every money path; emits `WalletCredited` | concurrent read-check-write, duplicate references, lost answers | no lost or doubled posting, no overdraft, true answers |
| `orders` | `Order.status` | create, retryFulfillment, install details | wallet, purchase queue, fulfillment | crash between debit and job; retry racing settlement | charged iff fulfilled or refunded |
| `esims` | orders of type TOPUP | createTopUp | wallet, top-up queue, advisory lock | two top-ups of one eSIM | one in flight |
| `fulfillment` | `ProviderOrder`, BullMQ jobs | completeFromProfile, completeTopUp, refundAndFail; three workers; sweep | supplier, wallet, webhooks | stale reads, retries, job ids, stalls, poll chains | REFUNDED only with the money back, COMPLETED only if delivered, nothing stuck |
| `usage` | `EsimUsage` | refresh | completeFromProfile | one more path that completes an order | as above |
| `payments` | `PaymentIntent` | initializePaystack, initializeOxapay | providers | failure after the provider opened a payment | a FAILED intent cannot be paid |
| `webhooks` | `WebhookEvent` | five handlers, beginEvent, markProcessed | wallet, all fulfilment services | repeated, overlapping, lost and reordered deliveries | exactly one credit per payment, none lost |
| `giftcards` orders | `GiftCardIssuance`, codes, jobs | create, fulfil, recover, poll, webhook, two sweeps, retry, reveal | Reloadly, wallet, fulfillment | ambiguous answers to an order, dead poll chains, empty code fetches | settled as `OrderLifecycle` says; operators learn of a refund Reloadly keeps the money for; codes land |
| `giftcards` catalogue | products, denominations, price rules, `GiftCardSyncRun` | sync by pages, stale sweep, discount updates, reprice, quote, admin edits | Reloadly, cron, admins | partial syncs, rows read before and written after an await, margins and rounding | nothing sold at a loss by itself; only delisted products are swept |
| `sms` orders | `SmsVerification`, `NumberRental`, jobs | create, fulfil, poll, code webhook, extend, customer refund | SMSPool, wallet, fulfillment | no sweep, a purchase without an identifier, codes crossing refunds | settled as `OrderLifecycle` says; a number is bought again only after a failure, and never one on file |
| `sms` catalogue | `SmsOneTimeOffer`, `SmsRentalPlan`, rules, `SmsSyncRun` | sync, stale sweep, admin edits | SMSPool, cron, admins | failed and empty listings, crashes, prices set meanwhile | the sweep takes only what is gone; no price below its markup by itself |
| `catalog` | products, pricing profiles, top-up products | sync, price, publish | eSIM Access | price overrides | retail price follows the rule |
| `integrations/reloadly` | cached token, shared refresh | calls with a retry loop | Reloadly | expiry between lookup and answer, lost answers | no request meets its token's expiry; no call places an order twice |
| other `integrations/*` | – | one client per supplier | – | lost answers | errors classified as permanent or transient |
| `users`, `admin`, `auth`, `notifications`, `transactions`, `health`, `common`, `config` | profile rows, feeds | plain storage and reads | listeners on domain events | little | – |

`PROJECT.json` lists every component with its modelling status, and under `hazards` the places where
this code is hard to test, each at its line.

## Modules

```
 abstract          detailed                                instance                proofs
 Ledger         <- Wallet                               <- MCWallet                WalletProofs
 Ledger            Deposits                             <- MCDeposits              DepositsProofs
 Ledger            FulfillmentService
 OrderLifecycle <-    ^ EsimFulfillment                 <- MCEsimFulfillment       FulfillmentProofs
 OrderLifecycle <-    ^ GiftCardFulfillment             <- MCGiftCardFulfillment   GiftCardProofs
 OrderLifecycle <-    ^ SmsFulfillment                  <- MCSmsFulfillment        SmsProofs
                   GiftCardPricing ^ GiftCardCatalog    <- MCGiftCardCatalog       PricingProofs
                   SmsCatalog                           <- MCSmsCatalog            SmsCatalogProofs
                   ReloadlyClient                       <- MCReloadlyClient        ReloadlyProofs
```

`A <- B`: B implements A, or instantiates it for TLC; `A ^ B`: B is built on A. The `MC` modules give
the constants their values; the `Proofs` modules extend the module they are about.

**Ledger** is what the rest of the system relies on: a posting is atomic, happens at most once per
reference, and never takes a balance below zero. **Wallet** is `wallet.service.ts` one database round
trip at a time: the lookup of the reference outside the transaction (`Precheck`), the read
(`ReadWallet`), the version-guarded update that takes the row lock (`UpdateWallet`), the insert that
meets the unique index (`InsertRow`), `Commit` and the event (`Emit`). `credit`, `refund`, `debit` and
`adjust` are one set of actions, told apart by the call record: `adjust` with a positive amount *is*
`credit`, and its negative branch is `debit` with an event. `Abort` is a lost connection anywhere.
The isolation is PostgreSQL's READ COMMITTED, Prisma's default here. `ImplementsLedger` says Wallet
implements Ledger, under the mapping of its committed rows, and so licenses the other modules to
treat a charge, refund or credit as one atomic, idempotent step.

**FulfillmentService** holds the state all eSIM actors share and the routines they all call
(`completeFromProfile`, `completeTopUp`, `refundAndFail`, `handleLateFulfillment`), each as the
sequence of its awaits. **EsimFulfillment** adds the actors: checkout of purchases and top-ups, the
three workers, the eSIM Access webhook, usage/install-details refreshes, the admin's retry, the
reconciliation sweep, and the supplier, failures and crashes. The correspondence:

| variable | in the code |
|---|---|
| `status` | `Order.status` |
| `ledger` | the order's rows in `WalletTransaction`: `purchase_<id>`/`topup_<id>` and `refund_<id>` |
| `profile` | `ProviderOrder`: external order id and ICCID present or not |
| `supplier` | what eSIM Access did for the order's transaction id (never visible to the code but through its answers) |
| `notices` | `OrderCompleted`/`TopUpCompleted` and `OrderFailed` emitted |
| `jobs` | waiting or delayed jobs; `tag` 0 is a deterministic job id, another tag a timestamped one; `n` is `attemptsMade`, or the poll number |
| `pollIds` | ids `<order>_poll_<n>` Redis still knows, finished jobs it retains included |
| `pc`, `ctx` | which await a worker or handler is at, and its local variables – the status it *read* in particular |
| `event` | `WebhookEvent` row per notification type of an order |

A step whose answer may be lost has an extra disjunct for it (`Debit`, `CreateOrder`, `TopUpCall`).
`Throw` is the failure of any other await, with BullMQ's reaction to it (retry until the last
attempt; a poll job has one attempt). A write and the code after it are separate steps wherever that
code does something others see: `MarkRefunded` writes REFUNDED, `AnnounceFailed` raises the alert and tells the
customer. A `Throw` or `Crash` at the second label is also the write that commits while its answer is lost. `Crash` empties every process; BullMQ finds the jobs that were
active stalled and queues them again. There is no clock: a delayed job, the ten-minute threshold and
the five-minute cron may be due at any moment, which over-approximates every timing.

**Deposits** is `payments.service.ts` with the Paystack and OxaPay handlers of `webhooks.service.ts`:
an intent is recorded, the provider opens the payment (its answer may be lost), the answer is stored
and only then does the customer get the URL. Notifications are repeated until answered and may come
again afterwards; two handlers may work on one. The event ids are as in the code: `event:reference`
for Paystack, the invoice's track id for OxaPay.

**OrderLifecycle** is what every product line promises a buyer: an order is charged and refunded at
most once each, COMPLETED (and telling or showing the customer so) only follows a delivery, REFUNDED
(and saying so) only a refund in the wallet. It deliberately allows an order that is both delivered and
refunded, because the code does (see [below](#where-code-and-docs-disagree)). All three product lines implement
it; `Honest` is what a buyer may rely on, an invariant that follows from it.

**GiftCardFulfillment** is the life of a gift card order: checkout, the fulfil worker with its
preflight lookup, the order call whose answer may be lost, the recovery by `customIdentifier` and the
duplicate branch; `storeCodes` and `complete`; the poll chain; the webhook; the sweep over stuck orders
and the one over missing codes; the admin's retry; the customer's reveal. `provider` is Reloadly's
transaction, which the code sees only through answers; `issuance` the row; `escalated` that operators were
alerted of a refund the provider may not have reversed; `cut` records, for one property, the orders whose refund was cut off before its alert. The constant `Parts` switches optional actors on, so that one
module serves both runs. It instantiates FulfillmentService for `refundAndFail`, which the code shares as well.

**SmsFulfillment** is the same for one-time verifications, rentals and extensions at SMSPool, which
knows no identifier of ours: what was bought is remembered only once it is stored. `provider` counts the units sold
for an order and whether the number on file delivered or was reversed. No sweep exists, so a chain a
crash ends stays ended. `failAndRefund`, the code webhook, the polls with their expiry and the customer's
refund of a rental are all there.

**GiftCardPricing** is `price` and `resolveRule` in exact integers (decimals are kept in units small
enough for every intermediate result); **GiftCardCatalog** the rows those prices go to: the sync run with its run
guard, pages fetched in groups, product and denomination upserts, hiding, and the guarded sweep; the
discount updates (a page fetched, a row read, the row written, each a step), repricing, quotes for RANGE products, and the admin's edits of products,
denominations and rules. The sweep's two counts are taken one after the other. A sync, a reprice and two requests may each be between a read and the write that uses it.

**SmsCatalog** is the sync of SMSPool's offers and rental plans with its stale sweep, `SmsPricingService`,
and the admin's edits. `row` holds offers and plans, `seen` their `lastSeenAt` as the number of a run,
`work` what the one sync worker holds in local variables; its `touched` and `swept` only serve the properties.

**ReloadlyClient** is the token cache, the refresh that concurrent calls share, and the retry loop, with
a clock: a request is given up at its timeout, and a token is refreshed `Skew` before it expires.

Operators whose comment starts with "Mutant" are deliberate mistakes, each next to the definition it
would replace; no specification uses them. They show that the properties can fail.

## Runs

`cd` here and run, for example, `tlc -config Sms.cfg MCSmsFulfillment.tla`.

| run | instance | states | shows |
|---|---|---|---|
| `Wallet` | 2 callers; deposit 2, charge 2, deduction 1 on one wallet; refund and an invalid call for another | 54 k | no posting lost, doubled, overdrawn; answers and events true; refines Ledger; every call returns |
| `EsimWebhook` | 1 purchase, 2 handlers (webhook, refresh), 2 attempts, 2 polls, 1 failure, 1 crash | 1.9 M | refines OrderLifecycle; COMPLETED ⇒ delivered, notices true, cleanup only after refund, nothing supplied or refunded uncharged; quiet and undisturbed ⇒ every charged order settled |
| `EsimCrash` | 1 purchase, 1 handler (sweep), 1 crash, fairness | 117 k | undisturbed orders settle; a FULFILLING order survives a crash |
| `TopUps` | 2 top-ups, 2 handlers, 2 attempts, 1 retry, 1 failure, 1 crash | 325 k | one in flight, none confirmed and refunded, unless [astray](#two-properties-with-a-memory) |
| `Deposits` | 1 Paystack, 1 OxaPay deposit, 2 handlers, 1 failure, 1 crash, fairness | 148 k | credits are earned, FAILED takes no money, payments are not lost and are credited in the end |
| `GiftCards` | 1 order, 1 handler (webhook, reveal, retry), 2 attempts, 1 poll, one retry, failure or crash | 660 k | refines OrderLifecycle; an alert for every refund Reloadly keeps the money for, unless [cut off](#two-properties-with-a-memory); nothing bought uncharged |
| `GiftCardsSweep` | 1 order, 1 handler (both sweeps), 1 attempt, 1 crash, fairness | 243 k | an order being fulfilled is settled in the end, or FAILED if the crash hit its refund; a completed one gets its codes, or its issuance is overwritten with another state |
| `Sms` | 1 verification, or 1 rental and its extension; 1 handler; 2 attempts, 2 polls, 1 failure or crash, fairness | 225 k | refines OrderLifecycle; a further number is bought only for an order with none on file, and each costs a failure or crash; undisturbed orders settle |
| `Catalog` | 2 products (FIXED, RANGE) on pages of one; 2 requests at once; 3 of: run or edit (2), change at Reloadly (1), failure or crash (1) | 391 k | nothing viable below the least margin by itself; the sweep takes only what Reloadly delisted; runs and rows stay consistent |
| `SmsCatalog` | 3 offers, 2 plans; 2 sync runs; 2 of: edit, change at SMSPool, failure or crash | 201 k | the sweep takes only what is gone, with the code's excuses; a clean run leaves the shop as SMSPool has it; no price below its markup by itself |
| `Reloadly` | 2 callers, 3 calls, 1 retry, 1 revoked token, 6 units of 15 s, fairness | 306 k | no request meets its token's expiry; no order placed twice by one call; every call ends |
| `SmsRefund` | 1 rental, nothing fails | – | violated: [a refunded rental](#where-code-and-docs-disagree) is not credited |

**Bounds, and why they are enough.** *Attempts and polls* (3 or 5, and 20 or 40, in the code) are 2
where a run is about them: a first one that is retried and a last one that gives up, and the code tells no
others apart. They are 1 where the sweep or the refund is the subject, so that every attempt is the
last. *Handlers*: two for eSIMs and deposits, so that two requests overlap with each other and with every
worker; one for gift cards and SMS, beside the two workers, which is already a three-way race on one
row, and the proofs cover any number. *Failures and crashes*: one of each, or (`GiftCards`, `Sms`, `SmsCatalog`:
constraints `OneDisturbance` and `TwoDisturbances`, budget `MaxFaults`) one or two in total, at every point. A second
crash on one job is out of reach because BullMQ fails a job that stalls twice; the modules' assumptions say so. *Tags*: one waiting
timestamped job per order and queue, so that restarted chains coexist with the first one. *Orders*: one purchase or
card, because these share nothing but workers and queue retention; two top-ups, because top-ups of
one eSIM exclude each other; a rental with its extension, which share a number, and `OneProduct` keeps the
unrelated verification out of their way. *Wallet*: two callers on one row cover every pair of round trips.
*Catalogues*: two products are two pages, so one may fail; `MaxPercent` is 50, for two products as for
three offers, so that one stale item is swept and all of them are not; `ThreeThings` allows any two of runs
and edits, which is every pair of racing writers, and one or two changes or failures beside them. The prices are picked at the rounding edges (a floor that
is no whole cent, a cost whose markup is no whole unit). *Reloadly*: 15 s units make the timeout 2 and
the skew 4, the proportion of the code; `MaxTime` 6 is past the expiry of a token issued at once (life 5).

### Two properties with a memory

`TopUpsSafe` and `RefundsEscalated` hold through failures, crashes and retries, but not for orders
a failure caught at certain awaits, and no variable of the code remembers which those are. So each module has a history
variable for it, which no action reads:

- `astray` (EsimFulfillment): the top-ups that an admin or the sweep has put on the purchase queue (whose worker refunds them), and
  those that a failure or crash caught at one of the four `CutPoints`: confirmed by eSIM Access but not yet COMPLETED
  (`completeTopUp`, `markToppedUp`: the retried job is refused as a duplicate and refunds what was applied), or FAILED but not
  yet REFUNDED (`credit`, `markRefunded`: the order does not count as in flight, so another top-up may start, and its own job resumes it).
  Every other top-up is safe, whatever failed elsewhere: at most one in flight, none both confirmed and refunded.
- `cut` (GiftCardFulfillment): the orders whose refund a failure or crash caught between the credit and the alert (`markRefunded`,
  `announceFailed`). Such an order may stay REFUNDED, or be completed by the retried job, without anybody being
  told. Everybody else who was refunded while Reloadly keeps the money of an accepted order has been reported,
  whatever the order reads by then.

No excuse is wider than the code: with any one of the cut points, or `cut`, left out, TLC finds the property violated.

Deadlock is checked for Wallet; the other systems may come to rest (every order settled, no requests), so their
configurations say `CHECK_DEADLOCK FALSE`, and resting in the wrong state is what `QuietMeansSettled` and the
liveness properties are about. The type invariants of GiftCardFulfillment, SmsFulfillment,
SmsCatalog and ReloadlyClient are proved and not among the runs.

## Fairness

Assumed, and why: a call in progress proceeds (Node runs its callbacks; a hung request ends in a
timeout, one of the modelled failures); a worker with due jobs takes one; a queue does not pass over
a poll job forever (delayed jobs run in the order of their time); the crons reach an order that
*keeps being* stuck (strong fairness, as a sweep takes up to 50 each time); a row lock is granted in
queue order; Paystack and OxaPay repeat an unanswered notification; axios answers or times out.
For `GiftCardsSweep` also: Reloadly settles a transaction in the end, and a lookup that is asked again
and again finds a transaction that is there, and codes that are (strong fairness of `FindsIt` and
`GivesCodes`): their failures are transient, and the sweeps keep asking. *Not* assumed: that eSIM Access ever
allocates or SMSPool ever delivers a code, that any supplier's webhook arrives, that a customer opens a page,
that an admin acts, or that Redis forgets retained job ids, which depends on other traffic.

## Proofs

Everything is proved for any number of users, calls, callers, orders, handlers, deposits, attempts,
polls, failures and (within the assumption above) crashes, from the named `ASSUME`s of the modules:
calls with the same reference are the same call, orders of the two kinds are disjoint, handlers are not queues.

- **WalletProofs.** `TypeCorrect`, `LedgerConsistency`, `NoOverdraft`, `ReferencePostedOnce`,
  `AnswersAreTrue`, `EventsAreTrue` and the refinement `WalletImplementsLedger`. The properties are
  not inductive: that a commit chains to the last row needs that nobody committed since the read.
  `MoneyInv` adds `LockDiscipline` (the row lock is held exactly by the transaction between update and
  commit, and what it read is still the committed row) and `ReadsCheckedAndCurrent` (if the version
  read is current, so is the balance). `RefInv` adds that a reference about to be inserted or
  announced is reserved by one caller. `NoDeadlock`: whoever is waited for, for a row lock or an
  uncommitted reference, waits for nobody. Two calls with one reference share a wallet (`CallsKeyed`), so an
  insert would have to meet a second holder of its row lock (`InsertNeverWaits`); only the lock is ever waited for.
- **FulfillmentProofs.** First `TypeCorrect`, `RefundedIsCredited`, `CompletedIsDelivered`,
  `NoticesAreTrue`, `CleanupIsAfterRefund`. The invariant `SettleInv` is the conjunction of type
  correctness, the four properties, and for every process what its position entails (`RouteOK`): a
  process about to write REFUNDED has credited, one on the completion path has seen a delivered
  profile, one in the cleanup read REFUNDED. It is kept by other processes because the ledger and
  what the supplier delivered only grow, even though `status` does not.
  `OnlyChargedIsBought`, in the second half, has an invariant of its own: `NothingUncharged` alone says
  nothing of the queues, and a job of an uncharged order would break it. `Untouched` says that an
  uncharged order has no job, no process beyond its checkout before or after a refused debit, and no
  status the sweep, the webhook or a refresh acts on. `StepConfined` shows that a process's step
  touches the rows and jobs of its own order only.

  `NoneIsLost` (`QuietMeansSettled`) needs an account of where each charged order is. `Carried`: it is settled, or has a
  job, or is in the hands of a process that cannot end without settling it or handing it on. Two steps could hand it to
  nobody: a poll whose id Redis still knows is not queued, so `PollIdsOK` says that an id is known only while the
  chain goes on from there or has been closed; and a worker may resume an order that reads FAILED, so `RefundOK` says that such
  an order is refunded anyway. `CheckoutOK` keeps everybody else off an order until its checkout has started it. `CarryInv`
  demands all this only while nothing has failed, restarted or been retried by hand.

  `OneTopUpInFlight` (`TopUpsSafe`) follows each top-up that is not astray: it is in one place, its checkout, its one job or the
  worker (`TopUpJobs`, `TopUpProcs`), and the place says what it may still become (`TopUpAt`). `TopUpInv` survives a failure or crash
  because it asks nothing of the top-ups these make astray, and one caught anywhere else is back in its one place, the queue,
  or will never be run again.

  `ForgottenForGood` is about the order `NoneIsLost` leaves out: charged and still PAID after a crash (`CrashForgets`), it
  never moves again unless an admin retries that very order. The gap at `orders.service.ts:106` has no other way out.

  `Refinement`: eSIMs and top-ups implement OrderLifecycle. Beyond `SettleInv` that needs that only placed orders
  are worked on, queued or known to the supplier (`PlacedOK`). `Honesty`, here as in the next two modules, is what follows.
- **DepositsProofs.** `TypeCorrect`, `CreditsEarned`, `FailedUnpaid`, `NoPaymentLost`, from
  `DepositsInv`: an event is processed only with its money credited, one request opens a deposit, and
  nobody can pay it before that request is done.

- **GiftCardProofs.** `TypeCorrect`, `UnchargedUnused`, `RefundsAlerted`, `Honesty` and `Refinement` (every step of
  GiftCardFulfillment is a step of OrderLifecycle, or leaves what it shows unchanged). `IInv` is type
  correctness and three groups of facts: `JobFine` (a queued job belongs to a charged or retried order), `RowFine` (what
  status, issuance and notices say of the provider and the wallet), and `ProcFine` (what each process knows at
  each of its awaits, such as that one about to write COMPLETED has seen SUCCESSFUL). Facts of the third kind
  survive the other processes because what they rest on only grows (lemmas named `…Grows`): the ledger, and the provider's
  transaction in its order of states. `RefundsAlerted` has an invariant of its own, `Alerts`: an order with
  its refund in the wallet has been alerted or reversed by Reloadly, which never goes away, or is (was cut off) between credit and alert.
- **SmsProofs.** `TypeCorrect`, `NumberBoughtOnce`, `Refinement`, `Honesty`, from an `IInv` of the same make. `NumberBoughtOnce` adds `Bought`:
  an order's next purchase is in one pair of hands (its checkout, its one job, or the worker), and whoever holds it again after
  a purchase has been through a failure or crash. The refinement
  rests on the fact that only a delivered number leads to the completing path. `AbandonedForGood` says what the missing
  sweep means: an order in FULFILLING that a throw left without job and process (`ThrowAbandons`) stays so,
  unless its code still comes or the customer asks for a rental's refund.
- **PricingProofs.** `PriceWithinRule`: whatever the inputs and the rule, a viable price is at least the floor, above a
  positive net cost and at most the ceiling. `NeverBelowCost` carries that through the catalogue: rows in flight
  (`Prepared`, `Covered`) were priced by a rule that existed (`Known`), so whatever mixture of old cost and new price
  two writers could leave, they write price and cost together. `SweepIsJustified` rests on `WalkOK`: as long as no page
  failed, every listed product has been written in this run or is still to come, on a page not fetched, fetched, or in
  hand, so a clean walk leaves none of them stale. That the pages cover the whole list is arithmetic of its own (`RankPage`).
  `CatalogTypes` rests on `HandsOK`: a run is with one request about to queue it, in the queue, or with the worker.
- **SmsCatalogProofs.** `TypeCorrect`, `CleanRunIsClean`, `SweepIsJustified`, `MarkupIsHeld`. `Inv` follows a run through
  its listings: what an answered listing holds is written as SMSPool says or still waits to be (`ListedIsSeen`), what it does
  not hold keeps the date of an earlier run (`UnlistedIsUnseen`, `FailedIsUnseen`), and after a failed listing of offers
  the guard lets a sweep pass only if no offer is live (`GuardHolds`), which needs that the configured share is below
  100 and that the two counts it compares are of the same rows: the two cases `Excused` makes of an offer. `MaxPercent` is
  any number from 0 to 100, as the schema has it.
- **ReloadlyProofs.** `TypeCorrect`, `NoExpiryMet`, `PlacedOnce`. A refresh ends within one timeout (`RefreshInTime`), so a
  cached token expires no earlier than the cache believes, less that timeout (`TokensLast`); a request ends within
  another (`RequestsInTime`). Hence the assumption `Skew >= 2 * Timeout`: 60 s and 30 s in the code, with nothing to spare.

Every safety invariant, action property and refinement of the passing runs has its theorem. Only model-checked: liveness
(`EveryCallReturns`, `UndisturbedSettles`, `FulfillingResolves`, `PaymentCredited`, `FulfillingSettles`, `CodesLand`,
`EveryCallEnds`), as the prover handles neither fairness nor ENABLED; and `RefundedRentalCredited`, which does not hold.
Induction over data and recursive operators are out of the prover's reach too; none of the modules uses them.

## Where code and docs disagree

One has a run:

- `SmsRefund` (`RefundedRentalCredited`): a customer asks for the refund of an active rental. SMSPool gives the money
  back, `failAndRefund` writes REFUNDED on the rental, and `refundAndFail` returns at once because the order is COMPLETED
  (`fulfillment.service.ts:249`): the wallet is never credited, though `TradeVero_docs/frontend-sms.md:311` calls the status "Failed / refunded".

These are stated as properties at the end of their modules; no run checks them, and each has a short counterexample:

- `NeverDeliveredAndRefunded` (EsimFulfillment): "the two never race each other into an inconsistent state" – poll chain
  and webhook both write on a status read earlier, and an order ends COMPLETED *and* refunded.
- `ChargedSettles`: the sweep "covers: crash between wallet debit and job scheduling" – not while the order is still
  PAID, which it does not select.
- `FulfilQueueOnlyPurchases`: the purchase queue "only ever handles PURCHASE orders" – the sweep puts top-ups on it,
  whose worker refunds them as `missing_product`.
- `TopUpNotCalledAgain`: "the provider call itself is not retried once it succeeds" – it is, when storing its result fails.
- `RestartedChainsEnd`: "orders will eventually be refunded" – a restarted poll chain that meets job ids Redis retains ends silently, every time.
- `DroppedIsProcessed` (Deposits): "already processed or in-flight" – the paid notification of an OxaPay invoice is dropped
  when one of an earlier status was processed.
- `RefundOnlyUnissued` (GiftCardFulfillment): "Only refund once the provider confirms there is nothing under our
  identifier" – a lookup that fails counts as nothing found on the last attempt. `RefundsEscalated` says when operators learn of it.
- `HandPriceKept` (GiftCardCatalog): a sync or reprice that read a denomination before an admin priced it by hand
  overwrites that price while `manualOverride` stays true (`giftcard-sync.service.ts:554`, `906`; the comment at 553 says "A hand-set
  price survives the sync"). The SMS sync does the same between lines 229 and 302 of `sms-sync.service.ts`.
- `ViableClearsCost` (GiftCardCatalog): a hand-priced row "is only marked viable again when the price genuinely clears
  cost" (`giftcard-catalog.service.ts:345-349`) – the next sync or reprice keeps the hand price but writes the `viable` of the automatic one
  (`giftcard-sync.service.ts:549`), so a price below cost is marked viable.

Seen while modelling, with no statement of their own:

- `sms-sync.service.ts:466-482`: the sweep archives rental plans without a guard of their own: the share that stops it counts offers only,
  so a failed (341) or empty rental listing takes every plan of that listing off sale. And that share compares two counts
  taken one after the other (445-448): after a failed listing of offers, admins who archive offers between the two get the rest of them
  swept. With `SMSPOOL_ARCHIVE_SWEEP_MAX_PERCENT` at 100, which the schema allows, offers go the same way. `SweepJustified` of SmsCatalog
  names these three as its excuses, and does not hold without them.
- `smspool.service.ts:174-177` treats "No available rentals" as "an empty catalog, not a hard failure", but `rawRequest` (394)
  has thrown on `success: 0` before: the run notes an error.
- `reloadly.service.ts:276-281`: on a 401 "let the retry loop obtain a fresh one" – a 401 is not an error the loop retries.
  A late 401 also drops a token newer than the one it is about.
- `orders.service.ts:228`, `250`: `retryFulfillment` checks a status it read before it writes FULFILLING. `reconciliation.service.ts:85`: an
  order whose ICCID is stored but whose completion failed is skipped by the sweep, which is why
  `FulfillingResolves` accepts an ICCID on file. `orders.service.ts:97`: a debit that commits while its answer is lost leaves
  a charged FAILED order, and an admin's retry of one that failed unpaid fulfils or refunds it for free; the premises of
  `QuietMeansSettled` and `NothingUncharged` say so.
- The one-time purchase caps what it pays SMSPool at 1.25 times the cost on file, while the markup may be 20%: a number may cost more than it sold for.
- A reprice that is aborted leaves earlier rows at the new and later ones at the old prices until the next one.

## What is not modelled

Amounts of an order (charge and refund are always `order.amount`), usage snapshots, product names,
e-mail and push notifications, authentication and signatures (assumed right), pagination, logging and
read-only endpoints. In Wallet, the `updatedAt`/metadata columns and the user's deletion. Of gift cards: brands,
categories, countries and logos. Of SMS: the inbox of an active rental (a message that comes by webhook and by poll is
stored twice), its auto-extend flag, the status of rental SKUs, and writes of a sync's batch that land after the
run has failed on another write of the batch. Time: delays and thresholds are "any time", but for the Reloadly client. Redis losing its data. More
than one application instance (it would add a second worker per queue). The eSIM catalogue (`catalog`), which is synced by
hand with one markup per product.

## Plan

Done: all product lines, deposits, the wallet, both scheduled catalogues and the Reloadly client. Left, in order of importance:

1. The inbox and auto-extend of rentals; the eSIM catalogue's sync and price overrides.
2. Two application instances: a second worker per queue and two sync workers.
3. The safety half of the liveness properties, as `NoneIsLost` is that of `UndisturbedSettles`: that the sweeps always have
   every FULFILLING gift card order in reach, and that some handler or notification always has every payment to credit.
