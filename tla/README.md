# InsureFlow: TLA+ models and proofs

InsureFlow collects recurring insurance premiums for brokers over Squad virtual
accounts, splits each premium between the bank, the platform, the broker and the
insurer, and settles the insurer's share by a Squad transfer. This directory holds
TLA+ modules of `src/backend` and of the parts of `src/frontend` that keep state: the money
path, the way a broker starts a payment from a browser, the way organizations and users come
on board and get in, and reminders; TLC configurations that check them on small instances, and
TLAPS proofs of what matters most for instances of any size.

`PROJECT.json` relates every definition to the lines it models, lists the runs, the
mutants that show each property can fail, the findings, the hazards and the theorems.

## 1. Inventory

Everything runs as **transactions**. A request opens one through `core/db.py:14-21`, which
commits when the handler returns and rolls back when it raises; a Celery task opens one of
its own. PostgreSQL runs at its default READ COMMITTED. **No handler takes a lock on what
it reads** (no `FOR UPDATE`, no advisory lock, no serializable retry), so every
"check, then write" of the code is open to whatever commits in between, unless a unique
index or a CHECK stands behind it. That is the main source of difficulty in this system;
the second is Squad, which answers late, more than once, with errors after it acted, or
not at all.

| part | state it keeps | operations | depends on |
|---|---|---|---|
| Single payments (`payment_service`) | `payments`: status, amount, account number, webhook reference, locked commission row | `initiate_payment`, `resolve_payment_outcome`, `_mark_success` | installments, commission, ledger, settlement |
| Bulk payments (`bulk_payment_service`) | `payment_batches`, `payment_batch_items` | `initiate_bulk_payment`, `resolve_batch_outcome`, `_mark_batch_success` | the same |
| Webhook (`webhook_service`) | `webhook_events`: one row per transaction reference and event type | `handle_squad_webhook`: claim the event, check the signature of its first delivery, match a row, ask Squad again, resolve | payments, batches, Squad |
| Reconciliation (`reconciliation_service`) | none of its own | `reconcile_transactions`, `reconcile_transfers`, every 30 minutes | webhook references on rows, payouts, Squad |
| Settlement (`settlement_service`) | `settlement_payouts`: status, attempt, previous attempt | `settle_payment` (inside the collecting transaction), `retry_failed_settlement` | ledger, Squad, insurer's bank details |
| Commission (`commission_service`) | `commission_configs`: rates with `effective_from` and `effective_to` per scope | `set_commission_config`, `resolve_commission_config`, `calculate_split` | payments lock a row in |
| Policies (`policy_service`) | `policies`, `premium_installments` (due date, status, links) | `create_policy`, daily top-up of the installment window | payments resolve installments |
| Overdue job (`installment_service`) | `premium_installments.status` | `flag_overdue_installments`, daily | installments |
| Ledger (`ledger_service`) | `ledger_accounts`, `ledger_entries` (balanced posting groups, CHECK amount > 0) | `post_balanced_entries`, `get_or_create_ledger_account` | called by collection and settlement |
| Onboarding (`onboarding_service`) | brokers, insurers, users, assignments, groups, virtual accounts, bank details | registration, approval and rejection, virtual and settlement accounts, assignment, parent companies, reissue of one-time passwords | Squad |
| Authentication (`auth_service`, `core/deps`) | users: password, one-time flag and expiry, activation link | login, password change, activation, the gate of every endpoint | organizations' status |
| Idempotency (`idempotency_service`) | `idempotency_keys` | claim a key, store and replay a response | wraps payment endpoints |
| Reminders (`reminder_service`) | `reminders`, Celery's queue | one reminder, one for every late installment, simulated dispatch in a task | installments |
| Frontend (`src/frontend`) | a tab's selection, its idempotency keys in sessionStorage, the session cookie with routing hints, the status a page polls | server actions and pages over the API, Excel matching, `proxy.ts` | every endpoint |
| Anomaly flags, audit log, encryption, rate limits, dashboards | none, or append-only | recording, counting, reading | |

How they interact: a broker initiates a payment or a batch, which locks a commission row and
shows an account number; a customer sends a bank transfer there; Squad delivers a webhook,
once or many times or never; the handler matches the transfer to the oldest row in flight of
that account number and amount and asks Squad again before it believes it; a success marks
installments paid, posts the split to the ledger and starts the insurer's settlement, all in
the one transaction. The reconciliation job repeats the resolution for stale rows a webhook
left a reference on, and closes payouts from Squad's list of transfers. The top-up job
replaces resolved installments; the overdue job flags the late ones. A browser reaches all this
through server actions, which send the key of the form with the call and redirect to the
payment's page on success; the page polls until the outcome. An insurer's page offers
reminders for what is late; each is a row and a task. Before any of it, an organization
registers, gets one user with a one-time password, is approved, assigned and given its account.

One more fact matters for all requests: FastAPI sends the answer **before** the exit code of
`get_db` commits, so what an answer announces may not be readable yet, and may be rolled back.

What makes each part correct:

* **Collection** (payments, bulk, webhook, reconciliation, overdue): an installment is in at most
  one row in flight, is paid once, by a row a confirmed transfer backs; the ledger and the
  settlement follow the outcome exactly; no outcome is rewritten; one transfer pays one row;
  a missed re-query is recovered.
* **Settlement**: one chain of attempts per source, one of them alive, the payable cleared
  once and for a paid-out attempt; the insurer paid once; open attempts get closed.
* **Commission**: exactly one row in force per key at every moment; the past stays; resolution
  always finds a row; what is posted are the exact shares of the gross at the locked rates.
* **Schedule**: one installment per period, a window refilled and never overfull.
* **Checkout**: one payment per key; what is answered is what was asked; pressing Pay again never
  collects twice; a press is answered; the outcome comes to be shown.
* **Onboarding**: only approved parties are assigned or insured; one row per pair; groups of depth
  one; money goes only to accounts Squad confirmed or issued.
* **Access**: what an admin handed out is changed and expires, what the user chose does not; who is
  entitled gets in, whatever the cookie says.
* **Reminders**: only late installments are chased by the button; what is committed is sent.

The hazards, one by one and at their lines, are in `PROJECT.json`.

## 2. Modules

| module | models | proofs |
|---|---|---|
| `Collection` | the rows of one broker's payments and batches, installments, webhook events, postings and settlements as counts | `CollectionProofs` |
| `Deliveries` | `Collection` with the history of what repeated deliveries matched | in `CollectionProofs` |
| `InstallmentClaims` | abstract specification: what collection promises of a broker's installments | implemented by `Collection` (`KeepsClaims`) |
| `Settlement` | payout rows and Squad's transfers | `SettlementProofs` |
| `PayoutLifecycle` | abstract specification: what settlement promises of one source | implemented by `Settlement` (`KeepsLifecycle`) |
| `Commission` | rate history, three-level resolution, the split and what of it can be posted | `CommissionProofs` |
| `Schedule` | the calendar, policies' first windows, the top-up | `ScheduleProofs` |
| `Checkout` | a broker's tabs, their selection, keys and pages, and the idempotency ledger they call | `CheckoutProofs` |
| `PaymentPromises` | abstract specification: what a 201 answer promises the holder of a key | implemented by `Checkout` (`KeepsPromises`) |
| `Onboarding` | organizations, assignments, groups and accounts under overlapping requests | `OnboardingProofs` |
| `Access` | one user's secrets, browsers, cookies and pages | `AccessProofs` |
| `Reminders` | the reminder endpoints, their tasks and the button | `RemindersProofs` |
| `MC*` | values for TLC | |

Each module has its own view of what they share, as weak as it needs: Checkout's `Outcome` is
Collection's resolution without money, Access' `Decide` Onboarding's decision as one step,
Reminders' `Pay` and `FlagOverdue` Collection's.

### How state and steps correspond to the code

A handler is split where another transaction may commit in between: a `Begin...` step reads
and decides, a `Commit...` (`Resolve...`, `Finish...`) step performs all its writes. `work[w]` is
what worker `w` has read and not yet committed; `Abort` is the rollback `core/db.py` does on any
exception, or a crash. With one worker no two transactions overlap, which is how the "serial" runs
are to be read; the theorems need less (`CommitsAreCurrent`, section 4).

`Collection`:

* `status`, `items`, `claim_va`, `created`, `tx_ref`, `raw_ref` are columns of `payments` and
  `payment_batches`, which the module calls *sources* as `settlement_payouts` does. `postings`
  and `payouts` count posting groups and settlements per source; amounts are in `Commission`,
  attempts in `Settlement`.
* `BeginPayment`/`CommitPayment` and `BeginBulk`/`CommitBulk` are the two initiations. The account
  number is the broker's at the insertion: between reading the broker and the INSERT only the
  commission is resolved, and a number that changes meanwhile leaves the row it would leave by
  changing after the commit.
* A delivery is `WebhookBadSignature`, `WebhookUnmatched`, or `BeginWebhook` followed by
  `WebhookVerifyFails` or `ResolveWebhook`: the call to Squad lies between. `EventKeyHeld` is the
  one wait that is visible, the second INSERT of a unique key. The key is that of
  `webhook_events`, a transaction reference under a transaction type: `Events` are the keys,
  `TransferOf` says whose they are, and a transfer may have several, since the type is a field of
  the body that the signature does not cover.
* A delivery states an account number and an amount, any of `VAs` and `Amounts`. `TakenUp` says
  whose statements the handler goes on to match: the transfer's own (`Genuine`) where the
  event is new, because the signature is tested then, and whatever is stated where the event
  had failed, because the code tests the signature it stored with the first delivery. `Deliveries` remembers the
  rows matched the second way; the program keeps nothing that would tell them apart.
* `Resolve` is what both resolutions write: statuses, installments and links, postings,
  settlements. A status is not read again when it is written, as in the code.
* `BeginReconcile`, `ReadStaleBatches`, `FinishReconcile`: two reads and one commit.
* `SendMoney`, `SquadAdvances`, `GrowStale`: the customer, Squad and the clock.

`Settlement`: a payout row is named by its Squad reference. `Initiate` is the call to Squad with its
three outcomes (refused, taken on, taken on although the call failed); `Record` and
`CommitAttempt` are the re-query and the commit with the clearing entries; `ListTransfers`,
`ReadPayouts`, `FinishReconcile` are the three parts of `reconcile_transfers`.

`Commission`: `CommitSet` closes the row that was read and inserts its own, both at the time taken
before the commit; `Query` is one of the up to three queries of a resolution, each its own
step; `Split` and `Postable` are the arithmetic of `calculate_split` and of the ledger's CHECK.

`Schedule`: `CountOpen` and `InsertMissing` are the two queries of one policy's top-up, with the rows
inserted after the second kept in `work[w].new` until `CommitTopUp`; `Collides` is the unique key
on policy and due date. `AddMonths` is `_add_months` with the Gregorian month lengths.

`Checkout`: a tab is what the installments page, the workspace, the key hook and a payment's page
keep between requests; `Submitted` is what the browser sends from the form, hidden inputs first. A
call is `Claim` or `Replay`, `Reply`, then `Commit` or `Abort`: `Held` is the wait of the second
INSERT. `TakeAnswer` is what the server action makes of the answer, `ShowPayment` the page it
redirects to, read from what is committed.

`Onboarding`: a request is the set of columns of rows (*cells*) it rests on and the cells it is
going to write; only cells whose value differs from the one loaded are written, which is what
SQLAlchemy does and what lets two requests mix one row's columns. `stale` tells that another
request has committed to a cell it rests on, `raced` collects the columns such a request wrote. The
properties say: **nothing but such an overlap breaks this**; in the columns named, it does.

`Access`: `Begin` loads the user's row, `Flush` is the UPDATE that takes its lock and comes just
before the answer, `Commit` writes the columns that differ from the row as loaded. `Dashboard` is the
proxy, the layout and the gate of the back end one after another; a page's name is where the
user ends. `raced` again is the history of overlaps.

`Reminders`: `Insert` is one turn of the loop, which queues the task at once; `Answer` and `Commit` come
after, and `Take` is the worker, which finds the row only if it is committed.

### Abstractions, and why they are sound

* Ids, references and account numbers are model values. Amounts in `Collection` matter for the
  matching only, so small numbers stand for kobo; in `Commission` they are the real numbers.
* `created` is a rank (rows present when the transaction began), which is what orders
  `created_at` for "oldest first".
* `Unpostable` and `Shareless` tell which installments have a split with a zero leg the ledger
  refuses, or nothing for the insurer: `Commission!Postable` and `Split` say when that is.
  `Unpostable` is only a guard of `Post`; the runs leave it empty, which is the instance with the
  most behaviours, and the proofs hold for any.
* The re-query's answer is read when the row is resolved, so Squad may have moved since the
  handler began.
* In `Settlement` the list of transfers is one snapshot, taken before the payouts are read.
* In `Schedule`, due and overdue are both unresolved, and an installment once resolved stays
  so: the overdue job, which may undo that, is in `Collection`. Nothing in the
  code changes a policy's status, so every policy is active. A policy is named by its reference
  number, whose unique index rejects a second creation. Rows are checked against the unique key
  at the commit; the code meets it at the flush, earlier in the same transaction.
* The clock of `Commission` is one clock for all processes.
* In `Checkout` a tab has one submission under way, since a form is disabled while it waits and
  a tab shows one list; a key is taken at the first press and not at the first rendering, which
  no one can tell apart; pages are hydrated; an upload's answer is applied when it is computed. Keys
  are one user's, as the unique index on user, endpoint and key makes them.
* In `Onboarding` the SELECTs of one request are taken together and registrations do not overlap (the
  address is unique). A virtual account is there or not; its number is in `Collection`.
* In `Access` secrets are told apart by kind, as anyone who types the wrong one changes nothing;
  the two SELECTs of a login are taken together; a cookie does not expire while the page after
  an answer loads; a browser has one change under way. The user is the one admin of the
  organization, or the seeded platform admin.
* In `Reminders` the insurer's pages and other clients of the API send one request each at a time.

## 3. Runs

Every passing property has a mutant of a mapped definition, a bug one could write there, that
the same run then refutes. Deadlock is checked in `onboarding` and `access`, where something can
always be done; the other configurations say `CHECK_DEADLOCK FALSE` because the model stops when its
ids, transfers, policies or clock ticks are used up; the program does not.

| run | bounds | what it shows |
|---|---|---|
| `collection_serial` | 1 worker, 2 installments (one without an insurer's share), 2 payments, 1 batch, 2 transfers (one of a batch's amount), the first under 2 transaction types, 2 amounts a repeated delivery may state, 1 account number; `Bound` | types, claims, links, books, events, finality, the claims specification and when a transfer can pay twice, over every order of initiations, deliveries, repeated deliveries, failed re-queries, reconciliations, overdue flags and rollbacks |
| `collection_concurrent` | 2 workers, 1 installment, 2 payments, 1 batch, 1 transfer under one transaction type, 2 account numbers, either of which a repeated delivery may state | what overlapping transactions cannot break: a success is backed, settlements follow postings |
| `collection_liveness` | 1 worker, 1 installment, 2 payments, 1 batch, 2 transfers under one transaction type each | a row whose re-query failed is resolved by reconciliation |
| `settlement` | 1 worker, 2 sources, 3 references | the chain of attempts, one live attempt, one clearing, finality, the payout lifecycle, and that open payouts get closed |
| `commission` | 2 workers, 3 rows, 1 broker, 1 insurer, 1 payment, clock 0..2, rates with the largest remainder and rates of more than the whole | history, resolution, exact shares, while changes and resolutions overlap |
| `schedule` | 2 job processes and 1 server, 2 policies, window 2, at most 2 paid per policy, start December 31, 2027 | one installment per period, window kept (for runs that do not overlap), overfilled to one window per process at most, and refilled |
| `checkout` | 1 tab, 2 installments (one others may pay), 2 keys, 2 payments, 2 calls, a file that names both and repeats one, at most 2 items | one payment per key, answers as promises, retries, early answers, presses answered, outcomes shown |
| `onboarding` | 2 requests at once, 1 broker, 3 insurers, 2 rows per pair, 2 banks and 2 numbers of which 3 pairs are confirmed; `Bound` | approval, assignment, hierarchy and accounts under overlap |
| `access` | 1 browser, 2 reissues | one-time passwords, and a way to the dashboard from every page |
| `reminders` | 2 clients of one insurer, 2 installments, 2 reminders | what the button chases, and what becomes of a committed reminder |
| `transfer_applied_twice`, `insurer_paid_twice` | the smallest instance each | a violation each, see Findings |

Why the bounds are enough: two sources on one installment, two transfers of which one fits several
rows, two keys for one transfer, an amount of a single row and one of a batch, and one row of each
kind are what it takes for every pair of handlers to meet over the same rows; two workers are what
it takes for one to act between another's read and write, and no handler coordinates more than two.
Three references give a source a first attempt, a retry and a retry of the retry, or two sources an
attempt each and one a retry. Three commission rows give a key a seed, a change and two competing
changes. A window of two starting on the last day of December meets a full month, a clamped one
(February 29) and the month after it. Two calls are what it takes for a retry, a wait for a held
key, a replay and a conflict; tabs share nothing but what is committed, and the second installment
is paid by other users instead. Three insurers make a chain of two, the shape `DepthOne` forbids.

`Bound` of `MCCollection` keeps the `collection_serial` run to behaviours in which the second
transaction type is used after the first, with two rows and before the second transfer is sent, in
which only the first event is ever rejected and only the first installment becomes overdue: a second
type needs one transfer and two rows to do its worst, a rejected event is never taken up again, one
installment is enough to be flagged while others are paid, and `CollectionProofs` has no such bound.

`Bound` of `MCOnboarding` keeps the `onboarding` run to behaviours in which at most two of the
independent features (hierarchy, account, assignment, virtual account details, a raced column) are
in use; they share no cells but an organization's status, and `OnboardingProofs` has no such bound.

One browser is enough for `GetsIn`, which a second browser can only delay by what a reissue does as
well; the safety part is proved for any number. The theorems remove the bounds of what they state.

What the runs with one worker cannot show is what two overlapping requests break: two claims of one
installment, the overdue job's late write, two retries of one attempt. The properties are stated,
and proved, for transactions that commit on current reads; section 5 lists what happens to the
others. In the same way the properties of `Onboarding` and `Access` except the columns an overlap
has mixed, and say that nothing else breaks them.

Symmetry is used only where no liveness is checked, over ids and workers that no definition
tells apart. Payment ids and batch ids are different sorts and are not exchanged.

### Fairness

* `Collection`: a transaction ends one way or another (weak fairness of its end, rollback
  included); rows grow stale; the beat schedule (`celery_app.py:25-42`) starts the job again and again and
  it is not rolled back every time (strong fairness of its three steps). Nothing is assumed of
  customers, deliveries or Squad. Rows that cannot be posted are excluded, because with one of
  them among the stale rows every run of the job does fail.
* `Settlement`: the same for attempts and for the transfer reconciliation.
* `Schedule`: again and again some run of the daily job commits or is stopped by a collision; a
  collision is no excuse in the property, which holds although runs collide.
* `Checkout`: the servers run each call to an end, which may be a rollback, answers arrive, and an
  open page polls (weak fairness). Nothing is assumed of the user or of the money.
* `Reminders`: workers go on taking tasks (weak fairness); a task may raise or end with its worker,
  and has no retry.
* `Access`: the user does what the page says (strong fairness of logging in, submitting the new
  password, going on, signing in again), and requests do not fail every time (strong fairness
  of answer and commit). The property needs a user who tries: no server step alone lets one in.

## 4. Proofs

Where a theorem names a property, a run checks the same property on a small instance.

* **`CollectionProofs`**. `TypeCorrect`, `SuccessBacked` and `SettlementMatchesPostings` hold for any number
  of overlapping transactions: the first is inductive with what a worker has read kept in type;
  backing (`Backed`, over `Deliveries`) needs that a worker's target fitted its transfer when it was matched
  or is remembered as matched by a repeated delivery, that every reference left on a row is of either
  kind too, and that amount, account number and transfer of a row never change; settlements follow postings
  because both are written only by `Resolve`, for the same set of rows. `OneClaimAtATime`,
  `InstallmentPaidOnce`, `BooksMatch`, `OutcomesFinal`, `ProcessedDecided` and `CollectionKeepsClaims` have a
  premise on the behavior, for any number of workers: `CommitsAreCurrent`, every commit finds
  what its transaction has read of the rows it works on still so, as locks on them would guarantee.
  `NoOverlapIsCurrent` proves that it holds when transactions take turns, and `SerialIsCurrent` that
  it holds in the serial runs. The invariant, `ClaimsInv`, is the conjunction of types, claims,
  links and books. None of them is inductive alone: that a resolved row was not resolved before
  is the premise, that its installments were not paid by another row needs `OneClaim`, and the
  books need both. `ProcessedDecided` rests on outcomes being final and on a webhook handler
  having exactly one row for its transfer. The refinement maps an installment to the row its
  link names: initiation is a `Claim`, and a resolution of any number of rows one `Decide`,
  whose payer is unique by `OneClaim`; everything else is a stutter. `ReusedOnlyIfMissed` makes the
  first finding below exact: without overlap a transfer pays for a second row only by a reference a
  failed re-query left on it, by a repeated delivery of an event marked failed, or by a first
  delivery under a second transaction type. Its invariant says that a transfer found on any row has
  an event that was taken up (`RowsHaveEvents`), and that event and references are as they were
  read (`ReferencesCurrent`).
* **`SettlementProofs`**. For any overlap: `SettlementTypeCorrect`, and `RowsInv`, which ties a row to the
  reference its transaction was given. `AttemptsChain`, `OneAttemptLives`, `PayableClearedOnce`, `RecordedFinal` and
  `SettlementKeepsLifecycle` have the same premise as above: when an attempt commits, a first
  attempt's source has no row and a retry's predecessor is failed and not yet retried; when a
  reconciliation does, what it read as pending is pending. The refinement maps a source to
  the strongest status among its rows.
* **`CommissionProofs`**. Everything holds for any number of overlapping transactions. `Inv` adds to
  the types: rows lie in the past (no beginning or end after the clock), the seed row stands, a
  key's history is total at all moments, a change in progress has read a time not later than
  the clock and, if any, a row of its own key that began by then, and a locked row exists. `HistoryTotality` rests on the unique index, which lets a change
  commit only if the row it read is still the active one. `SplitExact` proves, for every gross and
  rates within the whole, that the shares are natural numbers, sum to the gross, and give the
  insurer at most three kobo more than its proportional share.
* **`ScheduleProofs`**. `Inv` says that a policy's due dates form a *chain* (one date per month-number,
  each but the first with a predecessor one period before, and a last one) and that what a
  run has inserted continues the chain from its last date, or from a date that was last until
  another run committed its successor; the unique key then makes the commit collide. So
  `OnePerPeriod` holds for any number of overlapping runs and any window. `WindowNeverOverfull` adds `Room`:
  unresolved plus pending installments fit the window, inductive as long as no two runs
  overlap, which is the premise of `WindowKept`. `OverlapOverfillsByWindows` drops the premise and
  bounds the damage: never more unresolved installments than a window for each process. Its
  invariant, `Shares`, adds up what is open and what every run has counted or inserted: no run
  holds more than a window, one that begins takes only what the open installments leave of a window, and
  one that commits moves what it held. The bound is tight in the run: TLC refutes one less.
  `TopUpsFillGaps` says what a run goes on with is a real gap, of one installment to a window, and that
  it finds a latest due date: the fallback to the start date in `top_up_policy_installments` is never
  taken. It needs the chains, which have a last date.

* **`OnboardingProofs`**. Everything holds for any number of overlapping requests. Three lemmas carry
  it: every step is a registration, the beginning of a request of one of nine kinds, or its end
  (`StepKinds`); what a request in progress has read and is to write (`RequestSteps`); and that `db`
  changes only by registration and commit (`DataSteps`). Each property then has an invariant of its
  own that says what the pending writes of a request which is *not* stale still rest on: for
  `DepthOne`, that the chosen parent has no parent and the company no children in `db` itself
  (`HierarchyInv`); for the accounts, that the columns left out of the UPDATE are as loaded
  (`AccountInv`); for the rows of a pair, that no other row exists (`RowsInv`).
  `ApprovedBrokersHaveAccounts` needs no premise about overlaps: BVN and phone number never go
  away, and a broker is approved and given its account in one transaction.
* **`AccessProofs`**. For any number of browsers and reissues. `AccessInv` adds to the property that a
  request which is not stale has read the row as it stands (`ReadIsCurrent`), that an answered
  request exists, and that the platform admin, who never has a one-time password, is apart.

* **`CheckoutProofs`**. For any number of tabs, keys, calls and payments, and without any premise:
  keys do their work whatever overlaps. `StepKinds` reduces every step to what it does to one call and
  its rows; `CheckoutInv` then says that a call carries the key kept for its scope, that a key is
  held by one transaction and has no row meanwhile, that an answer not yet committed names a payment
  nobody else does, and that stored answers agree with the rows. `RetryNeverPaysTwice` follows from
  three of these: same scope, same key; a payment has the key of the calls it answers; a key names
  one payment. `CheckoutKeepsPromises` is the refinement: an answer that leaves early is a promise, a
  commit keeps it, a rollback leaves it open for ever, and claims, waits, conflicts and replays are
  stutters; the mapping takes the requests a payment was promised to from the calls that name it,
  and a replay adds none because the stored body is the call's. `CheckoutTypeCorrect` adds what the tab keeps: that listing a set, matching a file and
  joining hidden and visible rows yield sequences of installments (`ListingIsSeq`, `UploadSelects`,
  `SubmissionIsBody`).
* **`RemindersProofs`**. For any number of overlapping requests. What a press has yet to insert was
  late when it looked (`ToDoIsLate`), late stays late, and an overdue installment can only be paid.

The assumptions are the named `ASSUME`s of the modules (`ConstantsAssumption`, `NoneAssumption`,
`CommissionAssumption`, `ScheduleAssumption`, `OnboardingAssumption`, `AccessAssumption`,
`CheckoutAssumption`, `RemindersAssumption`), which TLC evaluates, and `CommitsAreCurrent` where it is
said (`NoOverlap` for `ReusedOnlyIfMissed`). The premise is not empty: `NoOverlap` implies it. It is not always met either: the
findings below on overlapping requests break it, and with it the properties.

Only model-checked: the liveness properties (`MissedWebhookRecovered`, `OpenPayoutsAreClosed`,
`WindowRefilled`, `PressIsAnswered`, `OutcomeIsShown`, `QueuedIsSent`, `GetsIn`), since fairness and
ENABLED are outside what the prover supports; and all violations. Every invariant and action
property of a passing run is proved.

## 5. Findings

Two have a run, which checks one sentence of the repository's documents against the code.

* `transfer_applied_twice`: an event that failed stays failed after the reconciliation job resolved
  its row; the next delivery of the same transfer pays another row of that amount. Two failed
  re-queries may also leave the reference on two rows, and the job resolves both; and a delivery under
  another transaction type is a new event, which pays the next row. `TransferReusedOnlyIfMissed`
  says that these three are all; TLC refutes it without any one of them.
* `insurer_paid_twice`: a transfer Squad took on although the call failed, or one reconciliation
  closed as failed while still pending, is retried and both succeed.

The others are described in `PROJECT.json` with the sentence they contradict:

* the overdue job, overlapping a webhook, makes a paid installment overdue;
* two overlapping requests put one installment into two rows in flight;
* a payout that reconciliation turns successful never clears the payable;
* a repeated delivery of an event marked failed is matched by the account number and amount it
  states, its own signature untested, and the re-query asks for the reference's status only: a row may succeed
  on a transfer of another amount or account. `SuccessIsBacked` excepts exactly the rows matched that
  way, whatever overlaps, and TLC refutes it without the exception;
* a due date clamped to the end of a short month becomes the base of all later ones;
* a row without a webhook reference is never failed although a comment says it will be;
* a delivery is not persisted before anything else, as it is inserted in the transaction that may
  roll back;
* the key of a form outlives a failed payment, so Pay in the same tab shows the failed one again;
* a reminder can be sent for an installment that is not overdue;
* a dismissed banner stays dismissed when the count grows on the same mounted page;
* every failed login or password change reads "Your session has expired".

What the models also show, and no document contradicts: two overlapping changes of one
hierarchy can build a longer chain or a cycle, of one insurer's account a mixture of two; two first
assignments can leave two rows; a one-time password reissued while its user changes it can
become permanent; a reminder whose task runs too early or raises stays queued for ever; a bulk retry under another
filter sends the ids in another order and is refused as "reused with a different request
body"; the answer "already in flight" (`idempotency_service.py:105`) can never be given, since the
second INSERT waits for the first; Squad may have issued an account for a request that rolled
back.

## 6. Not modelled, and the plan

Not modelled because there is nothing to interleave or to prove: parsing a workbook, anomaly
flags, the audit log, encryption, dashboards and the pages that show one answer, the role table, the
counting of the rate limiter (Redis). Not modelled because it is not this program: PostgreSQL's
row-level security, a vendored React, a generated design bundle with its scripts, and the
generated API types, which together are well over half of the repository's JavaScript and
TypeScript lines; of the rest, most is markup.

Left for later, in the order of what matters most:

1. **Ledger accounts**: `get_or_create_ledger_account` under overlapping collections, and the balance of the
   posting groups of `Commission` and `Settlement` together: payable posted equals payable cleared
   plus payable open.
2. An exact account of when the insurer is paid twice, as `ReusedOnlyIfMissed` gives of a transfer that
   pays twice: it has to follow transfers whose transaction rolled back, which leave no row.
