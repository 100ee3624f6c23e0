# Formal models of the PaySpyre backend

PaySpyre is a FastAPI and PostgreSQL service that takes patient-financing
applications, books and funds the loans, services and collects them, and pays the
clinics that referred them.  This directory holds TLA+ models of the parts that
move money or decide about it, the TLC configurations that check them on small
instances, and TLAPS proofs.  `PROJECT.json` maps every definition to the source
lines it translates.

## 1. Inventory

One PostgreSQL database, four gunicorn workers (`Dockerfile.production:35`) and
cron jobs started by `.github/workflows/*-cron.yml` share all state.  A
SQLAlchemy session does not flush on its own (`app/db/base.py:44`): a handler
reads rows, changes objects, and writes the changed columns at its commit.  The
interleavings modelled are those between commits, reads and vendor calls.

| Component | State | Operations | Talks to | What makes it correct |
|---|---|---|---|---|
| Interest engine (`interest_engine.py`) | none | accrue, replay the ledger, split a payment | called by ledger and servicing | cash in = money off the payoff |
| Ledger, schedule, aging (`loan_servicing.py`, `loan_ledger.py`, `schedule_surgery.py`) | ledger rows, stored principal, installments, loan status | post a payment, charge a fee, suspend and release, age, close, cure | admin endpoints, webhooks, cron | two books of one debt agree; statuses follow the money |
| Servicing status (`servicing_status.py`) | none; computed from ledger and plan | installments earned, amount to move, days past due | servicing screens | agrees with the plan `record_payment` wrote |
| Auto-collection, Pay Now (`auto_collection.py`, `loan_payments.py`) | attempt rows, initiation events, switch | plan, claim, pull, record, settle, fail | Zumrails rail; record_payment | never pull twice; collected cash is posted once |
| Webhooks (`webhooks/v1/endpoints/`) | processed nonces | claim the nonce, dispatch | rail, SignNow, verification vendors; the services | acknowledged means processed |
| Loan lifecycle (`loan_lifecycle.py`) | loan row: status, agreement, payout | book, send, sign, release, push, resolve, reconcile, charge off, activate | SignNow, rail | forward only; pay out once, after a signature |
| Maker-checker (`admin_actions.py`) | request events | file, approve, reject | lifecycle, servicing | a request is decided once |
| Application flow (`flow_orchestrator.py`) | application status, verifications, events | start, vendor result, decide, submit, staff moves | verification vendors, risk | one decision, taken on all results |
| Offers and application agreement (`loan_offers.py`, `application_agreement.py`) | offers, agreed terms, agreement status | offer, withdraw, expire, accept, send, sign, activate | lifecycle, SignNow | one acceptance; a loan only on what was signed |
| Terms, quotes, pricing gate (`loan_quote.py`, `pricing_config.py`, `origination_constraints.py`, `application_agreement_preview.py`, booking in `loan_servicing.py`) | the terms of a file: requested, offered, decided, booked | select, offer, accept, decide, preview, book; edit a product | offers, lifecycle | what was accepted is booked; quote and schedule tie out; no rate at the cap |
| Hardship amendments (`hardship.py`) | requests, schedule | request, send, sign, apply, expire | SignNow, schedule surgery | nothing without a signature, all or nothing |
| Marketplace (`marketplace.py`) | listings, interests, lead charge | list, respond, select, book | applications, clinics | a lead is sold once |
| Vendor wallet (`vendor_disbursements.py`) | payout rows; the wallet is computed | extra payout, monthly sweep, settle | rail, ledger | never pay more than the wallet |
| Notifications (`dunning.py`, `notification_processor.py`) | events, cursor, markers | scan, plan, send, mark | e-mail and SMS vendors | each notice delivered; none skipped or repeated |
| Sign-in codes (`auth/patient_auth_service.py`, the outbox worker) | codes, failed attempts, outbox | request, send, queue, retry, exchange | e-mail and SMS vendors | a code told is a code that works, once |
| Delinquency buckets (`delinquency_buckets.py`) | month-end snapshots, current bucket, insolvency | rate, mark, clear | ledger, schedule | the month-end book follows the plan, and stays |
| Collectors' desk (`collections_worksurface.py`) | promises, maintenance fees | promise, judge, cancel, charge | ledger | judged by cash; one fee a month |
| Portfolio migration (`migration/`) | import batches, receipts, ledger | upload, confirm, cancel, import | ledger | the history arrives once |
| Borrower profiles (`customer_profile.py`) | versioned field rows, snapshots | edit, backfill, lock, delete, attach | applications | a decision can be explained later |

The rest (adapters, HTTP surfaces, scoring, documents, reports, configuration)
is listed in section 8 with the reason it is not modelled.

What is hard: jobs and handlers that read without a lock and write later
(aging, reconcile, senders, snapshots, profile edits); vendor calls between two
commits, with crashes and lost answers; webhooks repeated, racing each other, or
early; a plan, wallet or quote that is stale when used; two books of the same
debt, or two computations of the same deal, that must agree.  The hazards list of
`PROJECT.json` gives each its line and its properties.

## 2. Modules

| Module | Models | State and actions |
|---|---|---|
| `InterestEngine` | `interest_engine.py` | no state; `AccrueInterest`, `ApplyEvent`, `ComputeBalances`, `Accepts`, `Allocate` translate the functions of those names, in integer cents |
| `LoanServicing` (extends it) | one disbursed loan | `ledger` = transaction rows in `seq` order, `principalBalance`, `schedule`, `status`; `posting` = a staff request past its gate; `aging` = what the nightly job has read; `parked` is a history variable for suspended installments |
| `ServicingStatus` (extends `LoanServicing`) | `servicing_status.py` | no state of its own: cash to date, installments earned, amount to move, days past due |
| `LoanTerms` | `loan_quote.py`, `pricing_config.py`, the schedule generator | no state: payments in a term, schedule, the quote's walk, fees, regulatory rate, cap |
| `DealTerms` (extends it) | one file's terms, form to loan | `product`, `request`, `deal`, `decision`, `stage`, `agreement`, `booked`; `booksAt` is the activation flag, chosen once |
| `CashPosting` | abstract | a pull is created once, settled once, posted at most once |
| `Collections` | collecting on one loan | database, rail and a program counter per worker; each action is the work between two commits or vendor calls; refines `CashPosting` |
| `LoanLifecycle` | booking to funding of one loan | loan row, its lock, requests, nonces, documents at SignNow, payout at the rail; `seen`, `claim`, `req`, `arg` are what a worker's session holds |
| `FlowOrchestrator` | one application up to its decision | `file` the status, `verifs` the results, `received` and `logged` the events, `jobs` what a worker holds, `holder` the row lock |
| `LoanOffers` | approval to booking | `app`, `offer`, `loan`, the agreements at the vendor, and per request the record it works on (`from` is the status it loaded) |
| `Hardship` | amendments of one loan | `reqs`, `items`, what was `appended` and `moved`, documents, kept nonces; `sess` is what a session read |
| `Marketplace` | one patient's listings | `status`, `live` (the cached flag), `interest`, `accepted`, sessions in `work` |
| `VendorDisbursements` | one vendor's payouts | ledger totals inside and outside the holdback, payout `rows`, what the `rail` did, a program counter per request |
| `NotificationProcessor` | events to notices | `log` of events in id order with their visibility, `cursor`, `handled` markers, `out` = what the borrower received, `run` = the locals of a processor run |
| `MagicLinks` | sign-in codes of one application | codes minted, issued, in the borrower's hands and consumed; the outbox with its claims; failed attempts per time |
| `DelinquencyBuckets` | buckets of one loan | `items`, `payments`, `insolvency`, `bucket`, `snapshots`; `work` = what a job or a desk read |
| `CollectionsWork` | promises and fees | `ledger`, `markers`, `promises`, `insolvent`; `work` = what a request read |
| `PortfolioImport` | one account being migrated | `batch`, `receipts`, `ledger`; `work` = what a request read |
| `CustomerProfile` | one borrower's profile | version counter and lock (`profile`), field `rows`, applications' snapshots (`app`); `editing` sessions |
| `MCLoanServicing`, `MCCollections`, `MCLoanLifecycle` | model values and definitions for TLC | |
| `BackOffice`, `Records`, `Messaging` | compositions of six, four and two components, parameterised | see below |
| `MCBackOffice`, `MCRecords`, `MCMessaging` | model values and definitions for `BackOffice`, `Records`, `Messaging` | |
| `ServicingProofs` (`InterestEngine` and `LoanServicing`), `CollectionsProofs`, `LoanLifecycleProofs`, `LoanOffersProofs`, `BackOfficeProofs`, `RecordsProofs`, `MessagingProofs` | theorems about the modules of those names | section 5 |
| `SumLemmas` | what `MapThenSumSet` adds up, induction on positions, that the fold of a sequence exists | lemmas for the proofs of the money core and the three compositions |

How they compose.  `LoanServicing` is built on `InterestEngine`; `Collections`
abstracts the posting of `LoanServicing` to installments settled, because
`record_payment` runs under the loan's row lock (`loan_servicing.py:751`), and
implements `CashPosting` (`PostsAsPromised`); `LoanLifecycle` and `LoanOffers`
share the booking of a loan.  Components that share no row would only multiply
each other's states, so `Messaging`, `BackOffice` and `Records`
put each in a *lane*: `lane` is chosen in `Init`, and only that lane moves.  One
module is extended (in the messaging layer `NotificationProcessor`, in the back office
`DealTerms`, in the records `PortfolioImport`), the others are instantiated, some twice with different
constants (a retry queue or none, acceptances or signatures, a paid plan or an
insolvent estate).  The processor has two lanes with the same constants: in `alone` only the runs of
`Crew` move while everything else may fail or change, in `overlap` all runs move while days
pass.  `ConstantsFit` asserts that each lane's constants meet the
assumptions of its module.  A property of such a run is the conjunction of the
modules' properties it names: `ToldOncePerRun`, `LimitsHold`, `EverythingSettles` of the
messaging lanes; `VendorIsOwed`, `DealIsKept`, `AmendmentsAreSigned`, `CountedOnce`, `DealsAreSound`
of the back office; `DecisionsStayExplained`, `BucketsFollowTheLoan`, `DeskKeepsBooks`
of the records.  Likewise `ActedOnce` (payout pushed once, request decided
once) and `PayoutIsEarned` (one funding path, after a signature) in `LoanLifecycle`, and
`PlanTakesCash` (all regular cash, oldest installment first) in `LoanServicing`.

Operators whose comment begins with *Fault* or *Mutant of* are deliberate bugs:
no specification uses them, and replacing the mapped operator after them by one
of them must make TLC report the property it belongs to.  Some break a second part of a
combined property.

## 3. Runs

Passing runs:

| Run | Question | Bounds and why they suffice | Result |
|---|---|---|---|
| `servicing` | do ledger, stored principal, plan, status and servicing screens agree? | 3-cent loan at 1/4 interest a day, two installments of 2 cents, 3 days, 3 ledger rows, payments dated up to 1 day back; an installment moves at 20, 25, 75 or 100 % of it. Rounding (half to even), overpayment, partial fills, spill-over to the second installment, suspension before and after a payment and late fees all occur | 450,630 states |
| `collections` | two overlapping runs, a webhook that may be early, one crash | 2 installments, 2 attempts each, retry after a day, 2 days. Two runs and one crash are the least that can double-claim, two attempts the least that can retry too soon | 678,288 states |
| `collections_paynow` | does the stack implement `CashPosting`, and does collected cash reach the books? | 1 installment, a run, a Pay Now in any mode, 2 handlers, 1 crash; the rail answers at once or later | 89,584 states, with fairness |
| `lifecycle` | is money paid out once, to a signed loan, and recorded? | 2 workers, 1 reconcile job, 1 document, 1 request of any kind, 1 crash or failed call | 182,931 states, with fairness |
| `messaging` | are notices and codes neither lost, repeated nor left for ever? | 4 lanes. `alone`: one processor run at a time, 2 events that may commit in either order, 2 days, batches of at most 1 or 2, 1 switch of a setting, 1 fault. `overlap`: two runs at once over 2 events, nights between them. `links`: two outbox workers on one row with 2 retries, a time to live of 3, 4 faults (a lost answer, a crash and two refusals fit in one behaviour). `exchanges`: two exchanges against a lockout of 2 | 334,611 states, with fairness |
| `back_office` | is money, consent or a sale ever counted twice, or taken without its cause, and is the deal accepted the deal booked? | 7 lanes. `payouts`: 2 requests, 2 months, half of the deposits to the vendor, at most 6 cents collected, 2 payout rows, 1 fault. `amendments`: 1 request over 2 installments, two desks that send, cancel or maintain, a webhook, 1 document, 2 periods and a window that ends with the period of the send, 1 fault. `leads`: 1 listing, 2 clinics, 2 sessions. `decisions`: 2 verifications, 2 workers, 1 event of each, 1 crash. `acceptances`: 2 offers, 2 requests, activation flag off. `signatures`: 1 offer, 1 document, flag on. `terms`: 1 offer, 4 products in the catalogue (the gate refuses one), 2 amounts, 3 terms, 3 rates, 3 frequencies, flag off and on | 1,344,017 states, symmetric |
| `records` | do histories, profiles, buckets and promises stay true to what happened? | 6 lanes. `imports`: 3 histories, 2 batches, 2 confirmations, 1 cancellation, 2 imports, 1 fault. `profiles`: 2 fields, 2 editors, an attachment, a keeper who locks and deletes. `plans` and `estates`: 2 installments and 2 month-ends, 2 jobs, 2 desks, 2 payments, or an insolvency set and cleared. `fees`: 2 loans, a pass and single charges. `promises`: 2 promises, 2 payments | 1,384,397 states, symmetric |

Every hazard needs at most two actors that overlap, of one kind or of two, and the bounds
give each lane two that can.  In the lane `amendments` these are two desks (staff, or staff
and the job) and one webhook, in `signatures` two requests, with one document in either:
a second sender meets the first there, but its document is left to the proofs
(`AmendmentsAreSignedOnce`, `DealsStaySound`), and so is the completion of a deferment, which
takes more periods.  The third installment, month or document would repeat
the second.  Symmetry permutes only interchangeable processes, and
the symmetric runs check no liveness.  The runs of single components check for
deadlock: time and the nightly or planned jobs can go on, and `LoanLifecycle` has a
stuttering step for the state in which all workers are idle, so a worker stuck on
a lock or a nonce would be reported.  The composed runs and those of
`LoanOffers` set `CHECK_DEADLOCK FALSE`: a request ends, and with its events,
months or documents used up a lane really stops.  Where a worker waits for a row lock in
them, its holder can always commit or give up.

Runs that expect a violation each confront the code with its own words; the
findings of `PROJECT.json` quote the line and describe the trace.

| Run | The source says | The code does |
|---|---|---|
| `aging_race` | a terminal status is never overridden | the unlocked aging job writes `delinquent` over it |
| `lost_failure` | a nonce persists iff processing commits | it is committed before the failure is handled |
| `partial_amendment` | an amendment that fails is terminal, with nothing applied | a due-date change stops half-way, what it moved is committed, and the request is then cancelled |
| `closed_reopened` | a closed file stays closed | an offer of a rejected or withdrawn file is accepted |
| `never_lapses` | an approval without an open offer lapses | the expiry job looks for open offers before its flips are flushed |

The other findings were met while modelling and are explained at their line,
without a run of their own: for most of them a passing property names the overlap
as its exception.

The properties of the passing runs are stated where they hold, and the
conditions are part of them.

* `StoredPrincipalMatchesLedger`, and the waiver half of `PaymentSettlesDebt`,
  speak of ledgers without a backdated row (a backdated payment leaves less
  interest for the rows after it, and the replay moves their excess interest to
  principal, which the stored balance does not follow; the comment at
  `loan_servicing.py:829-835` calls the two identical for consistent ledgers).
  `ActiveLoanHasNoLateDebt` and `PlanTakesCash` are checked and proved with `AgingOverlaps = FALSE`, because with the
  overlap `aging_race` already shows what goes wrong.
* `AcknowledgedCashIsPosted` and `CashReachesTheBooks` are checked with
  `EarlyHooks = FALSE`, because an early webhook is acknowledged as an orphan by
  design (`payments.py:258-273`).
* A few history variables record that an overlap which the code does not prevent
  has happened, and the property says that nothing else breaks it: `overtaken` (an event
  passed by the cursor before it was visible), `lost` (the vendor's answer, and
  so the marker), `raced` (two extra payouts computed on one wallet), `resent` (a second
  agreement over the first; in `Hardship`, a mark on the request of which one send was committed over another), `shared` (two edits with one version number), `stale`
  (an attachment that read across an edit), `revised` (a past month whose facts
  were changed later), `misses` (a snapshot that wrote over a marking), `doubled` (two
  promises opened at once) and `onLoan` (an offer accepted over a loan that a staff approval had booked).  Each of these is itself a hazard or a finding of `PROJECT.json`;
  without the exception the property is violated.

## 4. Fairness

* `Collections`: a worker that has started takes its next step (weak fairness), the
  rail settles a pull it took (weak), and redelivers a webhook until it is
  acknowledged (strong, because a handler may be busy or crash; Zumrails retries
  unacknowledged webhooks).
* `LoanLifecycle`: workers go on, and the reconcile cron keeps sweeping (weak);
  nothing is assumed of webhooks or of the rail.
* `NotificationProcessor`: each run goes on and the cron starts the next one
  (weak fairness of a run's `Process`), and morning comes after a night (`Morning`).
* `MagicLinks`: an answered request ends, the outbox workers keep passing (both
  cron jobs), and time goes on (`Tick`).
* `LoanOffers` (`FairSpec`): the expiry cron runs, and a request that holds a lock works on or
  gives up.

All of it is scheduling: processes run, cron fires, clocks tick.  Nothing is
assumed of users: nobody has to pay, sign, approve or toggle.  Crashes and
faults are bounded by `MaxCrashes` and `MaxFaults`.

## 5. Proofs

Checked by `tlapm` for all values of the constants allowed by the named
assumptions of the modules.

* `ServicingProofs`: of the interest engine `PaymentConservesMoney` (an accepted payment's
  split adds up to the cash, and applying it lowers the payoff by the amount less the
  overpayment, for every mode and every configured order); of `LoanServicing` `TypeOK`,
  `StoredPrincipalMatchesLedger`, the two action properties of `PaymentSettlesDebt`,
  and, where the nightly job overlaps no other writer (`~AgingOverlaps`, as in the
  run), `ActiveLoanHasNoLateDebt` and `PlanTakesCash`, for any rate, plan, due dates, amounts,
  fees and number of rows and days.
* `CollectionsProofs`: `TypeOK`, `OnePullPerInstallment`,
  `RetriesFollowFailures`, `CompletedAttemptsArePaid`, `FeesOnlyForReturns`,
  `AcknowledgedCashIsPosted` (assuming `~EarlyHooks`) and the refinement
  `PostsAsPromised`, for any number of installments, attempts and processes.
* `LoanLifecycleProofs`: `TypeOK`, `ActedOnce`, `BooksFollowRail`,
  `PayoutIsEarned`, and the action property `RecordedPayoutStays`, for any number of
  workers, jobs, documents, requests and faults.
* `LoanOffersProofs`: `OneAcceptance` and `BookedOnSignature`, for any offers,
  requests and documents and either value of the activation flag.
* `BackOfficeProofs`: of `BackOffice` as a whole `AllTypesOK`, `VendorIsOwed`,
  `CountedOnce`, `DealsAreSound`, `LastResultDecides` (an action property),
  `AcceptedDealIsBooked` (of `DealIsKept`), and `AmendmentsAreSigned`, for any
  number of desks, jobs, webhooks, requests and documents at work at once.
* `RecordsProofs`: of `Records` as a whole `HistoryOnce`, `BatchKeepsItsWord`,
  `AllTypesOK`, `OneCurrentValue`, `DecisionsStayExplained`, `BucketsFollowTheLoan`,
  `DeskKeepsBooks` and the action property `PastMonthStands`, for any history, fields,
  values, schedule, thresholds, portfolio, amounts and number of sessions.
* `MessagingProofs`: of `Messaging` as a whole `AllTypesOK`, `NoSilentDrop`,
  `ToldOncePerRun`, `SentCodesWork` and `LimitsHold`, for any runs, writers, vendors,
  milestones, workers, requests, rows, delays, limits and faults.

Assumptions.  Each module names what it asks of its constants, and TLC evaluates
them in the runs: `RateAssumption`, `PriorityAssumption` and `LoanAssumption` for the money core say
that rates, amounts and fees are natural, that the three buckets have three places,
that an installment has a positive total, and that a payment is backdated by at most 30
days; `ConstantsFit` for the back office says that numbers are
natural, that a share is a share, that `None` is no worker and no clinic, that desks
and webhooks are different sessions, and that each product's usual term and rate are
among those modelled (`ProductsAssumption`).  That of the records says that `None` is no
value, that batches and imports are told apart, that no history is empty, that the fields
are finitely many, that whoever locks a profile edits it in another session, that amounts and
days are natural, and that snapshot runs and desks are different sessions.  That of the
messaging layer says that numbers are natural, that runs, scanners and exchanging requests are
finitely many, that requesters, workers and exchanging requests are different sessions, that `None` is
none of the ids, and that a lockout takes a failure at least.

Inductive invariants.  None of the properties follows from itself: what keeps it true is
what a worker still knows when it writes.

* `LoanServicing` (`Typed`, `AgingInv`, `PlanInv`).  The replay and the filling are functions by
  recursion on positions, defined with `CHOOSE`.  That such a function exists and obeys its
  law is shown by the least position at which it would not (`RecursionExists`,
  `UpFromZero`); replay order is shown to be a permutation of the rows by counting the rows
  before each (`Place`, `SortedTyped`), and a row that is the latest is replayed last
  (`LatestRow`), while time alone changes interest only (`TimeAlone`).  So the balances are
  never negative, and a payment changes them as the engine says.  `AgingInv`: what the
  nightly job read still is overdue and not settled when it writes, and a pass that leaves
  the status alone found nothing late.  `PlanInv`: what the installments hold is the
  lesser of the regular cash and the plan's total, and a paid installment is full; what is
  left of a payment after each installment (`LeftOf`, `FillAddsUp`) says where the next cent goes.
* `Collections` (`IndInv`).  A run that is about to call the vendor relies on its
  committed claim: the row is `pending`, no other worker is about to create the
  same pull, and the rail has none (`WorkerAgrees`).  A plan may be older than the
  rows it is executed against, so what it planned must still follow failed
  attempts when it is used (`PlanFollows`), which holds because a failed or
  cancelled outcome never changes (`AttemptFollows`).  A handler that holds a
  completed or failed pull relies on the rail being final (`AttemptAgrees`,
  `PullAgrees`).  That `Next` keeps it goes through `Moves`, a summary of what a
  step may do to attempts, rail, counters and nonces: each action is such a move,
  and each part of `IndInv` is kept by moves, by the acting worker
  (`ActorAgrees`) and by bystanders (`BystandersAgree`).
* `LoanLifecycle` (`IndInv`).  A session holds a document or an answer of the rail
  only between the vendor's call and its commit, and the answer is the rail's
  (`HeldAtWork`); while a worker pushes, the payout was not started, and before the booking there
  is nothing (`NothingBeforeBooking`); whoever signs, releases or pushes has a signature
  behind him (`SignedFirst`).
* `LoanOffers` (`DealsInv`).  A request that holds locks of the issued offers is the only
  one and finds none accepted (`HoldersExclude`); what a webhook brings and what an
  activation has read is signed, unless a second sender wrote over it
  (`SignedStands`).  `BackOfficeProofs` instantiates the module twice and carries the
  result over to the two lanes.
* `DealTerms` (`TermsInv`).  The accepted offer is the decision until a staff
  re-decision replaces it, and a loan booked after the acceptance has its terms.
* `FlowOrchestrator` (`DecisionsInv`).  An event under way is claimed by one worker and not
  logged (`Claimed`); a worker that has judged the set of results holds the row lock, so
  what it found still stands when it commits (`JudgedUnderLock`), which is why of two last
  results the later one sees the file complete.
* `Marketplace` (`LeadsInv`).  One session at a time has written to a listing, and one
  that writes a selection finds it active until it commits (`WritersExclude`); a
  listing that took a clinic never becomes active again, whichever stale pause is written
  over it (`TakenForGood`).
* `VendorDisbursements` (`PayoutsInv`).  What a request planned is at most what the
  wallet held when it was computed, the row of an amount in flight exists and counts, and
  a claim that followed an outdated wallet is marked (`raced`).  The wallet is a sum over
  the payout rows: `SumLemmas` counts the units of a sum, so that the library's
  theorems on cardinality say what it does when a row is added, changed or dropped.
* `Hardship` (`AmendmentsInv`, with `DesksInv`).  A signature that a delivery brings
  was given at the vendor, where answers stand (`AnswersBrought`), and the delivery of a
  document is in one session and not acknowledged yet (`ReadsStand`).  A request without a
  document was not sent, so a send either comes first or writes over another and marks it
  (`SentOnce`); unless it is marked, the document, installments and window a webhook has read
  are still those of the row when it applies them, and what was applied is acknowledged
  (`TouchedOnce`).  Desks, the job and other webhooks may do anything in between: what they
  change of the row is its status, which none of this rests on.
* `PortfolioImport` (`ImportsInv`).  The ledger an import has read is the beginning of
  the one that stands (`LedgerKept`), so an import that finds it no longer than that may
  put its copy in place; the references a session has read are still there and contain every
  old spelling (`RefsRead`, `ReceiptsApart`); one confirmation holds a batch
  (`ClaimsHold`).  That a copied history is sound goes through its rows one by one
  (`RowPassed`), by the least row that would break it: the recursion is a function on numbers.
* `CustomerProfile` (`ProfilesInv`).  A write appends a row of each changed field and makes the
  standing ones name them (`Appended`), which keeps the changelog whole and what it says of
  earlier versions (`WholeStays`, `PastStands`).  While no two edits shared a version, no
  session knows one that is to come, a link that no edit overtook knows the newest, and a
  backfill that is not overtaken fills what is still a gap (`SessionSound`).
* `DelinquencyBuckets` (`BucketsInv`).  The two instances move alike (`BucketStep`), so the
  argument is made once for any runs, amounts, modes and kinds of insolvency.  Filling a plan
  is a fold; that it exists (`FoldExists`) and what it leaves (`FillByLeft`) gives a closed form: an
  installment holds its share of what was received (`Share`), whether `record_payment`
  filled it payment by payment (`PayFills`, `PlanFilled`) or the job replays the sum
  (`ReplayFills`), which skips suspended installments and so agrees while they hold no cash.  A
  month that nobody revised is rated as it would be now, and so is every rating a run still
  holds of it (`RatesStand`); a run that took its month for the newest is right, because the day
  does not change under it (`LatestStands`); the status and the bucket agree, as stored and as
  every session read them, until a commit is overtaken (`MarksStand`).
* `CollectionsWork` (`FeesInv`, `PromisesInv`).  The fees of a loan are its markers, row
  by row (`MonthsCharged`).  A verdict, written or still held, stays right
  while the ledger grows and days pass, because it counts only the rows it saw
  (`JudgedRight`, `JudgementStands`).
* `NotificationProcessor` (`ScanInv`, `TellInv`).  Below the newest event a run has taken up, each
  visible one is resolved, held back or in its hands (`NothingMissed`), and what it has in its hands is
  in order (`BatchInOrder`), so the cursor it saves is below whatever is open.  Who told what
  is an account: every notice that was delivered is charged to a run that has told of
  that event once, or to an answer or a marker that was lost, and no loss pays twice
  (`Account`); `SumLemmas` turns the account of the events of a milestone, of which a scan emits
  one each (`KeysOnce`), into the bound.
* `MagicLinks` (`LinksInv`, `ExchangeInv`).  A row that is locked is pending and its worker has a code of that
  row (`HolderFits`); each code of a row took an attempt, or was the last act of a worker
  that died (`RetriesFit`); a code that is about to be committed is in the borrower's hands
  (`SenderFits`), and one that is dead took a fault (`DeadCodes`).  The two limits on exchanges are kept
  with the requests that stand between check and write counted in; both instances share
  that argument (`ExchangesKeepLimits`).  Time only moves failures out of the window.

Model-checked only: the liveness properties (`CashReachesTheBooks`,
`PayoutIsRecorded`, `EverythingSettles`), which are out of the prover's reach;
`StatusFollowsPlan`, which holds of plans with equal installments (the code measures every
installment by the first) and is division with rounding; and `ScheduleTiesOut` and `ApprovedFileIsBookable` of `DealIsKept`: the first is a
recursion over the payments of a schedule, the second holds by the rates and caps of
the catalogue at its corners, which is arithmetic on the values of the run.

## 6. Abstractions

* `LoanServicing`: one loan; reversal and adjustment rows, custom transactions,
  timestamps of closing and event rows are left out; the external reference that
  deduplicates a payment is modelled in `Collections`.  Midnight does not fall inside
  an open request or job.  Rates and amounts are tiny, the rounding is exact.
* `ServicingStatus`: hardship deferments and reversals are left out; dates past the plan are
  `PeriodDays` apart.  Agreement with the plan is stated for regular cash,
  because the code counts an add-on or extra-principal payment as progress too, although it fills
  no installment; and the amount to move earns an installment unless the threshold in cents rounds
  down (`RoundsUp`).
* `Collections`: the status `active` stands for active and delinquent; money is
  in units of one installment without interest; the rail is final; pre-debit
  notices, the `payment_failed` events and the second commit of a COMPLETED event are left out.
  A run's load is one read.
* `LoanLifecycle`: the rule that maker and checker differ, statuses other than
  pending, active and charged off, and the hardship and application-agreement
  lanes of the e-sign webhook are left out.  The vendor deduplicates payouts by
  client transaction id, as the adapter's contract says.  Failed calls and crashes share
  one bound.
* `NotificationProcessor`: an event is what planning distinguishes (dunning or
  not, due when); text, recipients and provider ids are left out.  Time is days with
  a night, in which sending is deferred.
* `MagicLinks`: a code is a number in order of minting; hashing is left out.
  The borrower may use any code he was told, one that expired, or a wrong one.
  `RetriesBounded` allows one send where `NOTIFICATION_MAX_RETRIES` is 0, because
  the request queues its row without asking `is_exhausted`, which the worker first asks after a
  failed send (`tests/test_notification_retry.py:134-136` tests that function alone).
* `Hardship`: a signature takes the row of its request before the schedule is read
  (`RecordSignature`; the code flushes `signed_at` first), and other writers of that row
  wait (`Free`).  Payments go to the oldest installment owed, suspended or not, as in
  `record_payment`.  Lifting the suspension of an installment whose last payment came between a webhook's read
  and its commit (its mark says `partial` until the next payment), and the vendor's simulation
  mode, are left out.
* `CustomerProfile`: edits that clear a value are left out.  `DelinquencyBuckets`: so is
  the bucket of a loan that was charged off and then written off.  `PortfolioImport`: the
  import's two reads, of payment references and of the ledger, are one step; the unique indexes
  refuse what another session commits between them.
* `VendorDisbursements`: `HooksWired = TRUE` explores the two settlement hooks as
  if a webhook called them, which none does.
* `FlowOrchestrator`, `LoanOffers`, `Hardship`, `Marketplace`, `PortfolioImport`,
  `CustomerProfile`, `DelinquencyBuckets`, `CollectionsWork`: a session holds the
  columns it loaded and writes those it changed (the ORM's update), which is what makes two
  writers of different columns compatible and two of the same column a race.  A
  request ends within its day.  Dates are small numbers: periods in `Hardship`, days with
  scaled month-ends and cuts in `DelinquencyBuckets`.  The fee pass reads all its loans at
  once.
* `LoanTerms`, `DealTerms`: one offer per file; interest at 30/360, calendar dates and
  actual/360 are left out, as are provincial caps, listed term options and per-frequency
  overrides.  Rates are small units, the code's floats exact fractions.
  Of staff decisions only approvals are modelled: the others book nothing.
The components' notes in `PROJECT.json` list what each model leaves out.

## 7. Plan

Done: the money core, collections with its refinement, the lifecycle, messaging,
the back office and the records; proofs of the money core, collections, the lifecycle, messaging,
the back office and the records.

Next: collector assignments and action plans, the vendor register, staff accounts.

## 8. Not modelled

* Vendor adapters: HTTP clients.  Their answers (accepted, rejected, unknown, late)
  are environment choices of the models that call them.
* HTTP surfaces and permissions: parsing and role checks around the services;
  endpoints with state of their own are modelled with their component.
* Risk scoring, scorecards, decision rules: pure functions of one
  input, without interaction, whose unit tests reach every branch.
* Documents, storage, reports and metrics: rendering, file I/O, read-only queries.
* Configuration, integrations, database migrations: settings rows and DDL.  What matters
  of the session (no autoflush, one commit per unit of work) shapes every model.
* The archive screens only read.
