# WASSAL: TLA+ models, checks and proofs

WASSAL (SKKA) is a delivery marketplace: merchants publish delivery orders,
couriers accept and carry them, and each completed delivery makes the courier
owe the platform a commission, which is billed weekly and paid outside the
system. This directory holds TLA+ modules of the parts where interleavings,
stale data, crashes and money meet, TLC configurations that check them, and
proofs that TLAPS checks.

Paths below are relative to `src/apps/`; `api` means `src/apps/api/src`,
`worker` means `src/apps/worker/src`. File names without a directory are unique
in the repository.

## 1. The system

One NestJS API serves the merchant web, admin web and courier mobile
applications; one or more BullMQ workers run repeated jobs; both write the same
PostgreSQL database. All protocols are database transactions: they lock a row
(`SELECT … FOR UPDATE`) or run serializably, recheck what they rely on, and
update under a condition on the row's status and version. What is read before a
transaction, in another transaction, or on a screen may be old when it is used.

| component | state it keeps | operations | talks to |
|---|---|---|---|
| order policy (`api/orders/order-domain.ts`, `phase-four-domain.ts`) | none | transitions, cancellation, windows, prices | everyone |
| orders (`orders.service.ts`) | `DeliveryOrder`, `OrderEvent`, `PriceQuote`, `IdempotencyRecord` | quote, recalculate, create, retry the search, cancel | customers, zones, realtime |
| courier marketplace (`api/courier-orders`) | the same order rows | list, accept, nine lifecycle commands, hand back | realtime, eligibility policy |
| delivery operations (`api/operations`) | `DeliveryDispute`, operational settings | dispute, respond, resolve, confirm a return | finalization, notifications |
| finalization (`order-finalization.service.ts`) | commission entry, settlement line and period | complete an order | finance projection |
| finance (`api/finance`) | `CourierLedgerEntry`, `SettlementPeriod`, `SettlementLine`, payments, allocations | close, pay, reverse, adjust, report | – |
| worker | nothing between jobs | expire searches, complete deliveries, close and age settlements, remind, clean up | the database, realtime channel |
| payment proofs (`api/payment-proofs`) | `CourierPaymentProof`, `PaymentProofReview`, receipt files | submit, cancel, approve, reject | finance (records the payment), object storage |
| authentication (`api/auth`, `mobile-session.ts`) | `User`, `Session`, `OtpChallenge`; the app's saved tokens | verify a code, sign in, refresh, sign out, revoke | everyone |
| courier onboarding (`courier.service.ts`, `admin.service.ts`, `App.tsx`) | `CourierProfile`, vehicles, `CourierDocument`, files | save, upload, submit, review, decide | object storage |
| merchants, customers (`merchant.service.ts`, `customers.service.ts`) | `Merchant`, memberships, stores, customers, addresses | register, invite, edit, archive; quotes write on their way | orders |
| zones and pricing (`phase-two-admin.service.ts`, `admin-operations-domain.ts`) | `ServiceZone`, `PricingRule` | create, version, activate, stop, archive, edit | orders |
| merchant web (`merchant-app.tsx`, `new-order.tsx`) | form, quote, list and details on the screen | quote, confirm, command, reload | API, socket |
| courier app (`operational-app.tsx`) | tabs and their rows | load, accept, move on, hand back | API, socket |
| realtime and notifications | rooms, persisted notifications | publish after the commit | clients |
| location (`location.service.ts`, `maps-link-resolver.ts`), the forms' map (`map-picker.tsx`) | the map on the screen, the place in a form | open a link, move the marker, validate a point | zones, map services |
| providers, configuration, admin web | their own | adapters, forms | – |

What is hard here, and what makes each part correct:

- **Stale screens.** Commands carry the version their sender saw. A command may
  take effect only on the row its sender was shown.
- **Races on deadlines.** Acceptance against timeout, dispute against automatic
  completion: the deadline must decide for every actor, although a worker reads
  the clock once per batch and may be killed between two candidates.
- **Trust without locks.** `resolveDispute` and `courierRespond` look at the
  dispute row only; they are right only if an unresolved dispute always means a
  disputed order of that courier.
- **One commission.** Three paths complete an order, two of them in separate
  programs. There must be exactly one commission, owed by who carried the order.
- **Requests of many steps.** A request checks, looks for a recorded answer,
  writes, reads back and explains in transactions of their own; others and its
  own duplicate run between its steps, and the process may die at each.
- **Quotes between reading and writing.** A quote is read, found expired or
  replaceable, and written in a later statement, while it is being confirmed.
- **Receipts that become payments.** A file store knows nothing of transactions;
  staff, courier and duplicates race for one receipt.
- **Credentials that work once.** A code or a refresh token presented twice at
  once must not make two sessions, and a retry after a lost answer must not look
  like theft.
- **Evidence.** A submitted application must stay complete while uploads that
  were let in before it go on.
- **Looked up, then written.** Latest version of a rule, active rules of a zone,
  owners of a merchant, customer of a phone number: each is looked up first.
- **Two codes for one rule.** API, worker and administrators' tools compute
  weeks, totals, statuses and prices separately.
- **Late answers and lost events.** Screens are brought up to date by events
  that get lost and by calls that are answered out of order.

`PROJECT.json` lists every hazard with its line under `hazards`, every component
under `components`, and for each definition the lines it models under `map`.

## 2. Modules

| module | models | checked by | proofs in |
|---|---|---|---|
| `OrderDomain` | pure policy: statuses, transition table, cancellation, windows, commands, resolutions, the database's scope check | `lifecycle`, `courier` | – |
| `OrderLifecycle` | every transaction that writes an order, its dispute or its commission, by clients with stale screens and workers with stale clocks | `lifecycle` | `OrderLifecycleProofs` |
| `DeliveryContract` | abstract: what merchant and courier may rely on | `lifecycle` (refined) | `OrderLifecycleProofs` |
| `CourierAcceptance` | accept requests step by step, with races, duplicates and dying processes | `requests` | `RequestsProofs` |
| `Quotes` | one merchant's quotes from creation over expiry and recalculation to the order, request by request | `requests` | `RequestsProofs` |
| `MCRequests` | the two kinds of requests side by side | `requests` | `RequestsProofs` |
| `Settlement`, `Reports` | one courier's ledger, periods, payments, projections; what reports make of them | `accounts`, `reconcile` | `SettlementProofs` |
| `Sessions` | one account's sessions, its codes, and the app that keeps a session | `once` | `SingleUseProofs` |
| `PaymentProofs` | one courier's receipts and their review beside direct payments, request by request | `once` | `SingleUseProofs` |
| `MCSingleUse` | what can be had once: sessions and payments side by side | `once` | `SingleUseProofs` |
| `CourierOnboarding` | one courier's application, uploads and decisions | `applications`, `edits` | `CourierOnboardingProofs` |
| `Pricing` | the price of a delivery, and the administrators' own arithmetic | `pricing` | `ZonePricingProofs` |
| `ZonePricing` | zones and versions of rules under concurrent administration, and quotes priced meanwhile | `pricing` | `ZonePricingProofs` |
| `LocationForm` | the place in a merchant's form: map, links of Google Maps, validation | `pricing` | `ZonePricingProofs` |
| `MCZonePricing` | zones and places side by side | `pricing` | `ZonePricingProofs` |
| `Merchants`, `AddressBook` | merchants and staff; their stores, customers and addresses, and the quotes that write them | `merchants` | `AddressBookProofs` |
| `Screens` | a merchant's browser | `workspace` | `ClientProofs` |
| `CourierApp` | the courier's delivery screens | `courier`, `disputes` | `ClientProofs` |

`MC…` modules instantiate them for TLC; `MCClients` puts `CourierApp` beside the browser. Definitions named `Mistake: …` in a
comment are plausible errors. No specification uses them: each replaces one
definition to show that the property it is meant for would notice.
`PROJECT.json` pairs them up under `mutants`.

### OrderLifecycle

| variable | code |
|---|---|
| `order` | the columns of `DeliveryOrder` a decision reads: status, courier, version, acceptance deadline, attempt counter, cancellation mark, dispute deadline, report of the return, finalization |
| `dispute` | the one `DeliveryDispute` row an order may have |
| `commission` | `COMMISSION_DUE` ledger entries |
| `trail` | the `OrderEvent` rows the latest transaction on the order appended |
| `setting`, `now` | `PlatformOperationalSetting` in force, the clock |
| `screen` | what some client loaded last |
| `job` | a worker's job: its kind, the clock it read, its remaining candidates |

`CreateOrder`, `Accept`, `Transition`, `CancelBeforePickup`, `Cancel`,
`RetryCourierSearch`, `MerchantDispute`, `CourierRespond`, `ResolveDispute` and
`ConfirmReturn` are the API's transactions, one action each; locks and
serializable isolation justify that. `FinalizeInTransaction` is shared by the
last two as it is in the code. A worker's job is `StartExpiry` or
`StartCompletion` (query and clock) followed by one `ExpireCandidate`,
`CompleteCandidate` or `SkipCandidate` per candidate, and `Crash` at any point.
A command takes the sender's view, `seen`, from a fresh or an old screen.
Which courier is eligible is left open: any may accept. `stageOf` maps the
nineteen statuses to the contract's stages: before a courier, assigned, carried,
free, closed; every transaction is one step of `DeliveryContract` or none.

### CourierAcceptance

`handler[h]` is a request being served: `Receive` (eligibility, outside any
transaction), `Replay` (recorded answer), `Take`/`Refuse`/`DatabaseFails` (the
serializable transaction), `LoadAssigned` (reads the order after the commit),
`Recover` and `Explain` (the catch block: recorded answer, then a read that
words the refusal), `Done` (answer delivered, or the process dies at any step).
`record` holds completed idempotency records: claim and completion are one
transaction, so no other ever sees a record that is `PROCESSING`. `accepted`
remembers the commits. Around it `HandBack`, `Retry`, `Expire`, `Cancel` and
`WindowEnds` change the order, and eligibility and zone membership change at any
time. `NO_COURIER_AVAILABLE` stands for both its variants, and the search may be
retried more often than the code's one time, which only adds behaviours.

### Quotes

`quote` holds the `PriceQuote` rows (a row's index is its id), `order` the
quotes that have their order, `record` the completed idempotency records of
confirmations, `handler` what each request has come to. A request to create a
quote goes through `Lookup` (by key), `PriceQuote` or `PricingFails` (the
serializable transaction and its catch block) and `Read`/`Expire` (`quote()`,
which every such request ends with); a recalculation reads the original first.
A confirmation goes through `Replay`, then `Check` and `Commit`, between which it
holds the quote's row lock (`locked`) while the clock goes on, or `OrderExists`,
or `OrderFails` and `Recover`. `Expire` names the row by its id only, as the code
does. The input's data are abstracted to whether the address was entered or
taken from the saved ones; prices and snapshots cannot change after the
insertion (a database trigger), so a quote's identity stands for its price.
Whether customer, store, zone and pricing rule allow a quote or a confirmation
is open: `PricingFails` and `OrderFails` are always possible.

### Settlement and Reports

One courier. `ledger` holds the append-only entries, `line` the settlement
lines, `period` the rows with their stored totals, `payment` the payment records
with their allocations, `job` a worker's completion batch. `Finalize` is the
API's completion (recomputes totals), `WorkerComplete` the worker's (adds to
them, on the clock of the job's start and the worker's own week), `Close` both
closing codes, `MarkOverdue`, `RecordPayment`, `ReversePayment` and
`CreateAdjustment` their namesakes. `projection`, `settlementStatus` and
`allocateOldestSettlements` are the pure functions of `finance-domain.ts`.
The statuses `NOT_DUE`, `DUE_SOON`, `PARTIALLY_PAID` and `ADJUSTED` count as
`UNPAID`, `WAIVED` as `PAID`: no transaction but a report tells them apart. Time
zones and daylight saving are abstracted to weeks of `Week` days whose starts
differ by `WorkerShift`. An adjustment may name an order of the courier, which
decides the zone that is asked for it, while the ledger is shorter than `MaxNamed`.
`Reports` adds the
account summary, a period's sheet and the zones' dues and payments; the zone of an
order is any, and deadlines, statuses and counters of reports are left out. A
payment for a period in which no zone owes anything is in no zone's report
(`attributePaymentsToZones` skips it), and `ZonesAddUp` says so.

### Sessions

`session` rows carry the current token pair (a pair's index stands for it),
`challenge` the OTP row, `device` what the app has saved, which refresh it waits
for and in which sessions it was killed; `verify`, `refresh`, `signIn` and
`request` say how far each request has come. `readSession`, `rotate` and
`revokeReused` are the steps of a refresh, `checkOtp`, `consumeOtp`, `verifyOtp`
those of a verification; `establish`, `unauthorized`, `restore` are the app's.
Versions of a session change with its token or its revocation only, so those two
stand for the version. Left out: rate limits, registration, the sending of codes,
the lock after failed logins, the expiry of whole sessions.

### PaymentProofs

`proof`, `review` and `payment` are the rows, `stored` the receipts in the object
storage, `record` the completed idempotency records of payments, `owed` what is
outstanding. A submission goes through `Lookup`, `Store`, `Insert` or
`InsertFails` and `Clean`; an approval through `Check` (outside the transaction)
and `Approve`; a direct payment through `Replay` and `Pay`; the last two share
`RecordPayment`, as in the code, and `TransactionFails`. `Reject`, `Cancel` and
`Reverse` are one transaction each. A request may die at every step (`Done`).
An insert is committed or has failed: one that commits although its handler is told
that it failed, whose receipt the handler would then delete, is left out. Versions are left out: a proof is written once more at most, and that write ends
`PENDING_CONFIRMATION`. How a payment is allocated is `Settlement`'s subject.

### CourierOnboarding

`profile`, `account`, `vehicle`, `doc` are the rows, `objects` the storage keys
that hold a file, `handler` the courier's requests under way, `deciding` what an
administrator's transaction has read, `told` what the courier was told is
uploaded. A request passes `assertEditable` before its transaction; an upload
goes through `findCurrent`, `putObject`, `recordDocument` or `recordFails` and
`cleanUp`. `reviewDocument` is one transaction; a decision is `readCourier` and
`transitionCourier`, since it runs at read committed. Left out: expiry dates,
`BLOCKED`, and an older `reviewVersion`, which only refuses.

### Pricing and ZonePricing

`Pricing` is `calculatePrice` with its rounding, the weight bands with their
fallback, and the administrators' `coreDeliveryPriceMinor` and
`returnTripPriceMinor`. In `ZonePricing`, `edit[a]` is an administrator's
request: it looks up a family (`LookUpFamily`) and adds a version in another
transaction (`CreateRule`); it reads a rule (`FindRule`), then locks the zone and
finds its active rules (`LockZone`), then switches (`SetActive`); it stops,
archives or tries to delete by id; it reads a zone and writes it under its
version (`ReadZone`, `ReadZoneStatus`, `WriteZone`). `offer[m]` is a quote request
between its snapshot (`ResolvePrice`) and its commit (`CreateQuote`). A zone is a
narrow or wide circle, a family's terms are a function of family and version, and
effective dates are left out. An update from a screen older than the row is
refused at once. No zone is ever deleted: its audit rows forbid it.

### LocationForm

`draft` is the place in the form of a new order, a new branch or a registration
(`form`), `map` the dialog with its marker and what it waits for, `call` the calls
of device, links, quotes and orders, `review` the points given to the API to
validate. The device and a link only open the map (`TakeCurrentLocation`,
`TakeLink`); `ConfirmMarker` or `validateManualCoordinates` asks the API
(`ServeValidation`), and `confirmLocation` takes its answer whenever it comes.
`resolveGoogleMapsLink` follows a short link over the pages of `Trail`: a page has a
host, perhaps coordinates, and what a request for it is answered. The API finds a
point inside or outside as it likes, since zones change meanwhile. Points are
places with or without more than six decimals; which parts of a URL name a point,
projection and gestures of the map, and the limits of links a minute (any call may
fail) are left out, as are the form's other fields.

### Merchants and AddressBook

`serving[r]` is a request, served once: it is admitted on what it reads outside
any transaction, and writes later, some after one more reading step. Users stand
for phone numbers. `AddressBook` composes `Merchants` with stores, customers,
addresses and the quote's serializable transaction, which renames, restores and
adds them. A refused request ends as a lost one does. All reads before a
transaction happen at one instant, with the current row; serialization conflicts
are must-fail conditions, and any transaction may fail.

### Screens and CourierApp

`call[c]` is a call of the client: sent, answered (with the rows as they were when
it was served), taken, or lost on either way; takes happen in any order.
`Screens` has the form, the quote on the screen with its fingerprint (`offered`),
list, details and socket of the merchant's browser during the life of one access
token; events are lost, late, or early. What the form holds (`draft`) has two parts:
`priced` stands for the twelve values that `quoteInputFingerprint` covers (place,
customer, store, parcel), `unpriced` for the other fields, which go into quote and
order as well: address line, street, building, floor, apartment, landmark, notes,
item description, link, and whether to save the address. Each part can be edited
while a quote is priced. The quote keeps the draft it was asked for, and is confirmed
by its fingerprint alone, so a form edited in its unpriced part meanwhile is
confirmed, and the order keeps what was submitted. The list is one page, the 50
newest orders. `CourierApp` has the tabs, buttons and the order card of the
courier's app with the API's lists (`current`, `available`, `history`) and commands;
events may come at any time. `updates` counts the writes of rows, which order
`updatedAt`. The courier stays eligible and clocks agree.

### MCRequests, MCSingleUse, MCZonePricing and MCClients

Each runs two components that share no row as a sum: a variable says which kind
the requests of this behaviour are of, and the other component rests in one
state. `RequestsProofs`, `SingleUseProofs` and `ZonePricingProofs` extend them, and
carry the components' theorems over to what the runs check. In `MCClients` the
courier's app runs while nobody uses the browser (`AppSpec`): their fairness
differs, so each has a run of its own.

## 3. Runs

| run | bounds | shows |
|---|---|---|
| `lifecycle` | 1 order, 2 couriers, 2 workers, window 1, clock to 2, versions to 5 | rows, disputes, commissions and events agree; commands act on what was seen; deadlines decide; the worker keeps them; the lifecycle implements `DeliveryContract` |
| `requests` | 2 couriers with 1 key and 2 requests at a time, versions to 4; 2 quote keys, 2 requests at a time, 2 quotes that live 1 tick, clock to 1 | one winner per publication, true answers, a quote spent once and as reviewed |
| `accounts` | 2 orders, commission 2, amounts 3, weeks of 2 days, shift 1, no grace, clock to 2, 4 entries, the second of which may adjust an order, 2 zones | totals are rebuildable, everything is billed once, the oldest debt is paid first, the reports agree |
| `once` | 2 refreshes, 2 verifications, 2 of them served at a time, 2 sessions, 3 tokens; amounts 1 and 2, up to 2 owed, 2 uploads, 2 payments | codes, tokens, receipts and keys work once; the app's own retry is not taken for theft; receipts are kept; decisions are final |
| `applications` | 1 document type, 2 files, 2 requests, 1 administrator, 2 documents, versions to 4, 2 reviews; the account is active | evidence is kept, submitted applications are complete, history tells every move |
| `pricing` | 2 administrators, 1 merchant, 1 family, 2 zones, 2 rules, 1 quote, commission 12.5 %; 3 points, 1 link of 2 pages, 2 validations and 1 other call at a time, for each form | one active rule per zone, versions without gaps, prices that add up; forms send reviewed places |
| `merchants` | 2 users, 3 requests, 2 of them at a time, 2 names, 1 phone, 2 points, 2 merchants | owners remain, no doubles, edits meet the row they were made for |
| `workspace` | 3 drafts (2 places, 2 apartments), 2 calls, 2 quotes, 1 order, versions to 2, 3 writes of rows | orders have the priced part of the form that was confirmed; the list catches up |
| `courier` | 1 order in 17 statuses to start with, 2 calls, versions to 3 | no order is stranded; the open tab catches up |
| `reconcile`, `edits`, `disputes` | as above, smaller | a disagreement each: section 7 |

**Why the bounds are enough.** Orders share no rows before settlement, so one
order with all its actors shows every interleaving of an order. A window of one
tick lets each deadline be missed, met and hit exactly, before and after a
republication; versions up to 5 allow an acceptance, a hand-back and a second
acceptance, and thereby an old screen that shows the status a new publication
has again. Two requests are a winner and a loser, or a request and its
duplicate. Four ledger entries are two commissions and two more: a payment that
spans two periods, a reversal, a period that closes over the reversal's entry. An
adjustment that names an order and comes before payments is enough to credit a zone
that owes nothing else (later ones are left to the theorem), and a clock to 2 to
close a week of each kind and see one overdue. `reconcile` has a
longer clock and lets no adjustment name an order: its sums do not depend on that.
Two quotes are an original and its replacement; two uploads a submission and its
duplicate; two rules an old price and a new one. The three writes of `workspace`
are two quotes and an order, or a quote and an order that moves on: a quote touches
no order that exists. What is proved (section 6) holds
for all values. `MaxTime`, `MaxVersion`, `MaxEntries`, `MaxNamed` and their like bound only
clocks, hand-backs and appended rows; every such bound is a named constant.

`CHECK_DEADLOCK FALSE` is set where clocks, versions or requests run out and
orders end in final statuses; `edits` alone checks deadlock. Symmetry is used for
interchangeable requests, orders or administrators in `requests`, `once`,
`applications`, `accounts`, `pricing` and `merchants`, never with liveness.

## 4. Properties

Every property has a comment that says what it means for the code.

- `OrderLifecycle`: `RowsAgree` (invariant); `DecidedOnWhatWasSeen`,
  `DeadlinesDecide`, `EventsExplainStatus` (what no step may do);
  `WorkerKeepsDeadlines` (progress); `ImplementsContract` (refinement).
- `CourierAcceptance`, `Quotes`: `FirstCourierWins`, `RequestsAreAnsweredTruly`,
  `SpentAsReviewed`.
- `Settlement`, `Reports`: `ProjectionIsRebuildable`, `BilledOnce`,
  `ReportsAgree`; `OldestFirst` (what a payment may not do).
- `Sessions`, `PaymentProofs`: `CredentialsWorkOnce`, `RenewingIsNotReuse`,
  `PaidOnce`, `ReceiptsAreKept`; `DecisionsAreFinal` (no step revives a revoked
  session or a decided receipt).
- `CourierOnboarding`: `EvidenceIsKept`, `SubmittedIsComplete`;
  `HistoryTellsEveryMove`.
- `ZonePricing`, `LocationForm`: `RulesAreOrderly`, `PricesAddUp`;
  `PlacesAreReviewed`.
- `Merchants`, `AddressBook`: `OwnersRemain`, `BookIsConsistent`;
  `EditsSeeTheRow`.
- `Screens`: `OrdersAreAsConfirmed` (for the priced part of the form: of the whole
  form it would be false, section 7); `ListCatchesUp` (progress, for up to a page).
- `CourierApp`: `NoOrderIsStranded`; `TabsCatchUp` (progress).

Each module also has its type invariant.

## 5. Fairness

- `OrderLifecycle`: the worker registers its jobs with BullMQ as repeated jobs
  (`worker/main.ts`), so a job whose query has candidates is started again and
  again: weak fairness of `StartExpiry` and `StartCompletion`. A candidate's
  transaction gets strong fairness, because a crash or another job disables it
  meanwhile: we assume only that a worker is not killed every single time between
  its query and its transaction. The clock advances. Nothing is assumed of
  clients, couriers or administrators.
- `Screens`, `CourierApp`: the reload every 30 seconds is repeated (strong
  fairness, since a call under way disables it), a call is answered or given up
  (weak), and not every reload is lost on its way (strong). Nothing is assumed of
  events, users, or the other calls' success.
- The other modules state no fairness: their properties are about what never
  happens.

## 6. Proofs

TLAPS checks every step of the eight proof modules, for all values of the
constants: any orders, couriers, requests, keys, files, administrators, windows,
settings, amounts and terms that the named assumptions admit. Each theorem below
is `Spec => []Invariant`, or `Spec => ` an action property of section 4.

| module | theorems | inductive invariant |
|---|---|---|
| `OrderLifecycleProofs` | `TypeCorrect`, `RowsAgreeHolds` with its five parts; `DecidedOnWhatWasSeenHolds`, `DeadlinesDecideHolds`, `EventsExplainStatusHolds`; `ImplementsContractHolds` | `IInv`: types, `RowInv` of each order with its dispute, `LedgerInv`; `SInv` adds what screens and jobs have read |
| `RequestsProofs` | of couriers: `TypeCorrect`, `FirstCourierWinsHolds`, `AnswersAreTrueHolds`; of merchants: `QuotesTypeCorrect`, `QuotesSpentAsReviewed`, `QuotesAnswersAreTrue`; for the run `requests`: `RequestsTypeCorrect`, `RequestsAreAnsweredTrulyHolds`, `SpentAsReviewedHolds` | `IInv`: types, what a commit, a record, a taken order and a failed request say of each other; `QuotesInv`: types, one lock per quote, keys apart, originals exist, records tell orders, a quote is spent once |
| `SettlementProofs` | `InvariantHolds`, `TypeCorrect`, `ProjectionIsRebuildableHolds`, `BilledOnceHolds`, `OldestFirstHolds`; of reports: `ReportInvHolds`, `SharesAreExact`, `ReportsAgreeHolds` | types, stored totals are the projection; every entry is on one line or of one payment, one commission per order, waivers credit; payments have entries of their own, are allocated to the last piastre, and taken back once; `ReportInv`: an entry is for at most one order, a commission for one, a payment for none, and no payment is allocated twice to a period |
| `SingleUseProofs` | of sessions: `TypeCorrect`, `CredentialsWorkOnceHolds`, `RenewingIsNotReuseHolds`, `RevokedIsFinalHolds`; of payments: `PaymentsTypeCorrect`, `PaymentsKeepReceipts`, `PaymentsArePaidOnce`, `PaymentDecisionsAreFinal`; for the run `once`: `WantedTypeCorrect`, `PaidOnceHolds`, `ReceiptsAreKeptHolds`, `DecisionsAreFinalHolds` | `IInv`: types, requests and rows, one consumer per code, one successor per token, and that the app's saved pair is the newest it was given; `PaymentInv`: types, what requests hold, files apart, each payment named by one proof or key, reviews tell decisions |
| `CourierOnboardingProofs` | `TypeCorrect`, `EvidenceIsKeptHolds`, `SubmittedIsCompleteHolds`, `HistoryTellsEveryMoveHolds` | types, keys of files apart, each line of documents ends in one current one, submitted once, files kept, what the courier was told |
| `AddressBookProofs` | `TypeCorrect`, `OwnersRemainHolds`, `BookIsConsistentHolds`, `EditsSeeTheRowHolds` | types, and of each request: the row it saw is the row, or its version is behind; who is about to remove an owner leaves another |
| `ClientProofs` | of the browser: `TypeCorrect`, `OrdersAreAsConfirmedHolds`; of the courier's app: `AppTypeCorrect`, `NoOrderIsStrandedHolds` | `ScreenInv`: types, a quote on the screen or in an answer was asked for with a draft of its fingerprint, and what is shown or under way is about rows that exist; `AppTyped`: what rows, tabs and calls can be |
| `ZonePricingProofs` | `TypeCorrect`, `RulesAreOrderlyHolds`, `PricesAddUpHolds`; of forms: `FormsSendReviewedPlaces`; for the run `pricing`: `EditedTypeCorrect`, `EditedRulesAreOrderly`, `EditedPricesAddUp`, `PlacesAreReviewedHolds` | `IInv`: types; an activation that holds a zone's lock has found its active rules, and is the only one there; a version looked up is at most one more than the family's rules; `PlaceInv`: types, and a confirmed place has the answer it came with |

**Why the invariants need strengthening.** Hardly a property is inductive as it
stands. That a dispute's resolution leaves a legal row needs to know that its
order is disputed; that a completion adds a new commission, that no unfinished
order has one. That an old screen does no harm needs to know that a version
names one content of the row. That an activation meets no second active rule
depends on what it found *before*, hence on every step that others can take
meanwhile: that none of them activates a rule in a locked zone. That a refresh is
not taken for theft depends on what the app has saved, across answers that were
lost. The invariants say, for each request, what of its readings still holds.

**How the proofs are laid out.** A lemma about each action says that its step
keeps the invariant; those lemmas rest on ones about what every step leaves
(rows are added, versions grow), which are stated once. `OrderLifecycleProofs`
reduces a transaction to the row it writes (`PutPreserves`,
`CompletionPreserves`). `ZonePricingProofs` has the arithmetic: `RoundsWhole` and
`RoundsKilometre` (the quotient is a natural number, off by half a unit at most,
and what the administrators' tools compute), `ShareIsPart`, `MinimumIsCharged`,
`WeightSurchargeIsNat` (a band is always found, whatever the list and its
order) and `PriceAddsUp`. Least elements of sets of natural numbers come from
`WFMin`, since the induction theorems themselves cannot be used.

**Sums.** The totals of `Settlement` are the folds of the module `Functions`
(`SumFunctionOnSet`), as the code's are `reduce`s. `SettlementProofs` begins with a
small theory of them: a claim about the sum over every finite set is proved by
supposing that it fails and taking a smallest set for which it does
(`LeastSet`). So `TotalRemove` shows that the order of adding does not matter,
`TotalUnion` and `TotalOfTotals` that parts come to the whole, `TotalByColumns` that
a table has the same total by rows and by columns. The steps then only say which
entry, line or payment came (`AddsLine`, `AddsPayment`), and `RowsStep` leaves alone
every period that none of them concerns. The worker's increment is right because
the check in the database compares the two sides; the proof needs that guard.
That ledger and settlements agree is no step's doing: `Balance` derives it from
`IInv`, by counting every entry once by the period that bills it and once by the
payment it belongs to. For `OldestFirst`, `OldestTogether` says what the oldest
periods get together, `OlderInFull` that a payment reaches a period only when the
older ones have all they are owed, and `PaidRow` what it leaves of their rows.

**Reports.** `ReportsAgree` speaks of one state, so `ReportInv` is all that must be
kept beside `IInv`. The summary sorts the entries by kind (`EntryKinds`); a sheet's
rows are sets of records, so two equal allocations of a payment would count once:
that there are none is part of `ReportInv`, and lets a row stand for its entry or
allocation (`TotalRenamed`). The zones' dues are a table of periods and zones
(`ZonesDue`), whose rows are the commissions and the adjustments that name an order.
`SharesAreExact` says that the largest remainder loses nothing, for any amount,
zones and dues, credits among them: the remainders come to as many times the total
due as piastres are left (`TotalDivides`), fewer than there are zones
(`SmallProduct`), and in a finite order exactly `k` elements have fewer than `k`
before them (`RanksAre`), so that every piastre left goes to a zone of its own. `ZonesPaid` adds
the shares up by payment, by period and by zone.

**Refinement.** `ImplementsContractHolds` proves that `OrderLifecycle` implements
`DeliveryContract` under the mapping `stageOf`: the initial states map to an
initial state, every transaction to one step of the contract or a stutter.
`RequestsProofs`, `SingleUseProofs` and `ZonePricingProofs` carry the theorems of
the components to the sums that TLC runs: in either kind of behaviour one
component moves and the other rests in an initial state.

**Assumptions.** They are the named `ASSUME`s of the modules, and say no more
than configuration and validation do: windows and lifetimes are positive, `None`
is no courier, the commission is at most the whole, `TermsAssumption` is
`pricingSchema` of the API, `ParcelAssumption` what a quote can be asked for.
`Assumptions` of `Quotes`, `PaymentProofs`, `LocationForm` and `CourierApp` are
named operators, because those are instantiated: hypotheses, or an `ASSUME` of the module that
instantiates them. TLC evaluates all of them.

**What is only model-checked.** Liveness (`WorkerKeepsDeadlines`, `ListCatchesUp`,
`TabsCatchUp`), which needs `ENABLED`. Every invariant and every action property
that a passing run checks is a theorem.

## 7. Findings

Runs that find a disagreement between what the repository says and what its
code does:

1. `reconcile`: a reversed payment is billed a second time when a period closes
   over its ledger entry (`finance.service.ts:879`; `phase-2.md:1019`).
   `BilledOnce` shows that nothing else makes ledger and settlements drift.
2. `edits`: an upload let in before the submission adds its document after it
   (`courier.service.ts:238`; `courier-verification.md:8`). `SubmittedIsComplete`
   shows that the application is complete all the same.
3. `disputes`: a disputed order vanishes from its courier's app, with the only
   button that answers the dispute (`courier-orders.service.ts:38`;
   `phase-4-operations.md:67`).

Seen while modelling, without a run of its own:

- *Orders.* `accept` does not recheck eligibility inside its transaction
  (`phase-3-marketplace-accounting.md:47` says it does). An administrator's
  override uses the return timeout in force then, not the one in force when the
  return was reported (`phase-4-operations.md:86`). One candidate that throws ends
  a worker's batch, and the next begins with it again.
- *Quotes.* `EXPIRED` is written by id over a `SUPERSEDED` written meanwhile
  (`quote-lifecycle.md:13-14`); no quote is confirmed again by it.
- *Finance.* The worker bills Saturday weeks, the API Monday weeks
  (`phase-3-marketplace-accounting.md:130`). The worker's own finalization fails
  where the API's succeeds, when credits exceed a period's dues
  (`phase-4-operations.md:75`). A commission billed late to a settled period is
  never overdue (`phase-2.md:474`). `attributePaymentsToZones` drops the payments of
  a period that bills no order. The summary shows the latest closed period's
  status although an older one may be overdue. The web form draws a new
  idempotency key per submission, so a form sent twice pays twice
  (`phase-three-finance.tsx:252`).
- *Accounts.* An account read as `PENDING` is written `ACTIVE`, and the session made
  after it, although it was suspended in between (`auth.service.ts:183`,
  `auth-sessions.md:20`); an approval overwrites a concurrent suspension
  (`admin.service.ts:401`); failed logins are counted with lost updates (`:292`);
  after signing out, a late refresh answer saves a pair again (`App.tsx:556`).
- *Merchants.* An invitation can demote the last owner (`merchant.service.ts:304`;
  `identity-domain.md:26`): `OwnersRemain` excepts it by `demoted`. Managers can
  deactivate owners (`:381`). Reactivation ignores that the user works elsewhere
  by now (`:375`). A store's address copy keeps old contact data when only name or
  phone changed.
- *Zones and prices.* Deleting an unused draft always raises
  (`phase-two-admin.service.ts:802`), zones created by the API can never be deleted
  (`:496`). Archiving and stopping are unconditional after an earlier read
  (`:766`). Activation stops the other rule instead of rejecting the overlap
  (`service-zones-pricing.md:40`). A parcel heavier than every band pays the *last*
  listed band (`order-domain.ts:264`).
- *Places.* A validation that is answered late closes whatever map is open by
  then, drops a quote on the screen, and fills in the place of the next order's
  form (`new-order.tsx:340`); the place is one that was confirmed all the same. A
  branch keeps its confirmed point when another link is entered
  (`branch-creation-form.tsx:408`), a new order does not.
- *New orders.* The fingerprint (`quote-input.ts:16`) leaves out address line, street,
  building, floor, apartment, landmark, notes, item description and whether to save
  the address, and editing those invalidates nothing (`new-order.tsx:753`, `:893`,
  `:978`), although "a changed pickup, drop-off, package, or pricing condition
  invalidates the prior quote" (`phase-1.md:384`). Apartment 3 submitted, corrected
  to 5 while the quote is priced, and confirmed: the order goes to apartment 3. The
  review shows the quote's address line, but not the apartment or the notes.
- *Screens.* Details are not reloaded by the timer (`phase-4-operations.md:45`); a
  late answer opens an order that was closed (`merchant-app.tsx:628`); an order is
  shown twice until the next reload (`:552`); web clients never renew tokens. The
  courier's app shows one of several orders, lets any finishing load enable its
  buttons, lists handed-back orders with their current rows, and trusts the
  device's clock.

## 8. Not modelled, and the plan

Not modelled: providers, the admin web's pages, read models other than `Reports`, rooms of events and persisted
notifications, duplicate warnings of receipts, idempotency of the other order
commands (versions decide, as `CourierAcceptance` shows) and of reversals and
adjustments, the limit of 100 candidates per batch. Section 2 names what each
module leaves out of its own component.

Order of the work: orders, settlement, quotes and payment proofs; then sessions,
onboarding, prices, merchants and screens; then the proofs above, the reports' last.
What could come next: the batch a throwing candidate stops, the eligibility that
`accept` does not recheck, and the session made for an account suspended meanwhile
(section 7), each of which would be a run that finds a disagreement.
