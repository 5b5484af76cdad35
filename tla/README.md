# Verification of the water billing service

TLA+ models, model-checking configurations and machine-checked proofs for the
API of this repository (`src/apps/api`, with the arithmetic of
`src/packages/billing-core`): a NestJS service over PostgreSQL that reads the
meters of a water utility, bills its customers and keeps their money.

All transactions run at PostgreSQL's default isolation, READ COMMITTED, and
serialize by explicit `SELECT ... FOR UPDATE`, by guarded updates
(`updateMany ... where status = ...`, count checked) and by unique indexes.
Correctness therefore rests on three things: what each transaction does, which
rows it locks before it reads, and what a request made of several transactions
assumes between them. Every module below is cut at those points: what runs under
the locks it needs is one action; what reads first and locks or writes later is
several.

## 1. Inventory

| part | state it keeps | operations | what makes it correct |
| --- | --- | --- | --- |
| payment (`payment.service.ts`) | `payment`, `payment_alloc`, `receipt` | take a counter payment, reverse it | never allocates more than a bill owes; undone once, in whole |
| prepayment (`prepayment.service.ts`) | `prepayment_ledger_entry` | top up, refund, apply to debts, restore, remove a lot | no lot overdrawn, no cent without an explanation |
| bill corrections (`bill.service.ts`) | `bill`, `bill_item` | reverse, replace | applied prepayment returned exactly once, before it is applied again |
| reconciliation (`reconciliation.service.ts`) | `reconciliation`, ADJUSTMENT bills | settle a span against an actual reading, reprice it | the water of a span charged once, at the price of the year |
| penalty (`penalty.service.ts`) | PENALTY items, bill totals | accrue | one line per bill, no penalty on a penalty |
| account close (`close-account.use-case.ts`, `billing-finance.port.ts`) | `water_account.status` | close | nobody owes anybody anything |
| day close (`day-close.service.ts`) | `cashier_day_close`, `payment.status` | close a cashier's drawer | a signed document stays the sum of its payments |
| billing runs (`billing-run.service.ts`) | `billing_run`, DRAFT bills | create in batches, post, retry, discard | one bill per settlement, one pricing per run, failures on record |
| idempotency (`idempotency.service.ts`) | `idempotency_key` | claim, link, complete, release, unlink, replay | one execution per key, its answer to whoever repeats it |
| tariff plans (`tariff-plan.service.ts`) | `tariff_plan`, tiers, items | draft, patch, activate, retire, new version | one plan per day, a plan that a posted bill quotes is frozen |
| pricing (`pricing.ts`, `packages/billing-core`) | - | pick a plan, the ladder cursor, compute a bill, reprice | tiers of a year add up however the year is split and corrected |
| numbering (`sequence.service.ts`, receipt books) | `sys_sequence`, `receipt_book` | next number, aligned numbers, typed numbers | counters lead, receipts in order |
| settlements (`settlement.service.ts`) | `consumption_settlement`, components | settle a period, finalize | each cubic metre settled once |
| readings and plans (`meter-reading`, `reading-plan`, `reading-book`) | books, plans, items, readings | dispatch, supplement, redistribute, enter, check, supersede | one plan per book and period, one effective reading per item |
| remote readings (`modules/remote`) | raw events, devices, bindings | ingest, process, replay, resolve conflicts | a repeated or late event changes nothing twice |
| accounts and meters (`modules/customer`) | accounts, installations, meters | open, suspend, resume, close, install, remove, replace | a meter in one place, a closed account without one |
| installation works, stock | applications, allotments, movements | submit to archive, allocate, return, activate, move | the same |
| service orders, violations, tasks | orders, offences, tasks | create, approve, dispatch, execute, archive, cancel; claim, assign, complete | an order done once, a task open while its business is |
| bank debit (`bank-debit.service.ts`) | agreements, batches, items | sign, generate, execute | a debit booked once, and only if the bank took it |
| exceptions, DMA, routes, write-off, notices, bank reconciliation, identity, reports, dashboard, OCR, web client, pilot scripts | - | - | not modelled (section 5) |

**How they meet.** Requests arrive over HTTP, many with an Idempotency-Key
(`withOptionalIdem`), and run in one transaction; only the billing run is a
chain of transactions, and only the bank debit calls out of one. The tables are
the shared state. A plan item is filled by a reader, an import or a remote event;
its reading, once checked, ends a settlement; a FINAL settlement becomes a bill in
a run, priced by the plan of its month and the year's cursor; `bill` is written by
runs, corrections, reconciliation, penalties, debits and every payment; the money
of a settle account (possibly of several water accounts) is spent by payments and
by `applyForPostedDebtTx`, which every operation that posts a debt calls in its own
transaction. Meters, accounts, orders and tasks share the lock of the water
account. The lock order is payment, water account, settle account, tariff plan,
bill. A close reads what all of these wrote.

**What is hard.** Orders of legal calls nobody wrote a test for (apply, restore,
refund, reverse on one lot; estimate, correct, exchange, reconcile on one dial);
two requests that both read before either writes; an insert that fails inside a
transaction whose caller goes on; a retry that overlaps the execution it is meant
to rescue; a process that dies between two transactions; a client or a vendor that
repeats a request; a bank that is not part of the transaction; a payment committed
while its drawer is being closed. `PROJECT.json` lists each at its line with the
properties that would catch it.

## 2. Modules

| module | models | extends |
| --- | --- | --- |
| `Sums` | SQL sums, and the two walks over an ordered queue | |
| `SettleFunds` | the money of one settle account, one action per committed transaction | `Sums` |
| `DayClose` | cashiers' drawers, around the money of `SettleFunds` | `SettleFunds` |
| `AccountDues` | one account and its bill at the grain of statements: run, payments, penalty scans, reversal, close | `Sums` |
| `BankDebit` | agreements, debit batches and their executions, with the bank outside | `Sums` |
| `Numbering` | counters, aligned and typed numbers, a receipt book | |
| `BillingRun` | concurrent requests that create, post, retry and discard runs | |
| `BillLife` | what becomes of a bill, whoever touches it (abstract); implemented by `SettleFunds`, `BillingRun` and `AccountDues` | |
| `AnswerOnce` | what an idempotency key promises (abstract) | |
| `Idempotency` | the key protocol, statement by statement; implements `AnswerOnce` | |
| `ReadingPlans` | books, members, plans, items, entries | |
| `RemotePipeline` | events, devices, bindings, and the readings of plan items | |
| `Settlements` | dials, checks, settlements, reconciled usage, SUPPLEMENT tasks | |
| `AnnualLadder` | tiers over a year, cursor, corrections, reconciled charges | |
| `TariffBook` | versions of a tariff and the bills that quote them | |
| `TaskDesk` | tasks, and what business steps do to them | |
| `MeterCustody` | meters, installations, accounts, stock, installation works | `TaskDesk` |
| `ServiceOrders` | orders and violations, and what executing them does | `MeterCustody` |
| `SumsProofs`, `...Proofs` | theorems (`ReadingsProofs` about `MCReadings`) | the modules they are about |
| `MC...` | instances for TLC; each composes what its run explores | |

Four `MC` modules put several components into one state and give every behaviour
a `part` that says which of them moves: `MCAccount` (`SettleFunds`,
`Settlements`), `MCCashDesk` (`DayClose`, `BankDebit`, `Numbering`,
`AccountDues`), `MCReadings` (`ReadingPlans`, `RemotePipeline`, `AnnualLadder`,
`TariffBook`) and `MCField` (four corners of `ServiceOrders`). Real composition is
by EXTENDS, where components share rows: `DayClose` around `SettleFunds`, and
`TaskDesk` in `MeterCustody` in `ServiceOrders`, where executing an order changes
the order, its tasks, the account and the meter in one step.

### BillLife

Runs, posting, corrections, reconciliation, penalties and every payment write `bill`,
and each of three modules models some of these writers at the grain its own races
need. `BillLife` is what all of them promise: a bill is drafted with a charge and
dropped or issued; once issued it stands with that charge until a correction reverses
it, and never comes back. `life[b]` forgets the difference between POSTED,
PARTIAL_PAID and PAID (what is paid is the business of other properties), and
`charge[b]` is the total without its penalty. `Draft` and `Drop` take a set of bills,
since a slice of a run commits several and a discard drops all of them in one
transaction.

| module | bills | charge |
| --- | --- | --- |
| `SettleFunds` (`BillsKeepTheirLife`) | all bills of a settle account | `total - penalty` |
| `BillingRun` (`RunsKeepBillLife`) | the NORMAL bill of each settlement | the pricing it was drafted at |
| `AccountDues` (`DueKeepsItsLife`) | the one bill | total without its PENALTY lines |

### SettleFunds

Rows that the code only inserts are kept as inserted, and every balance is a sum
over them, as in the SQL. `pay[p]` is a payment with its allocations and with the
ledger entries that name it; a TOP_UP lot has the name of the payment that made
it (the code's key is `topup:{payment}`). `applied[b][l]` is the APPLY entry with
key `apply:{bill}:{lot}`, and `restored[b][l]` the REVERSAL entry with key
`reverse:{entry}`; the mirror rows in `payment_alloc` are part of both.

| action | code |
| --- | --- |
| `GenerateBill`, `DiscardBill`, `PostBill` | `generateBillFromSnapshot`, `discardTx`, `postOneBill` |
| `Adjust` | `ReconciliationService.createTx`, outcome APPLIED |
| `ReverseBill`, `ReplaceBill` | `BillService.reverseTx`, `replaceTx` |
| `AccruePenalty` | `PenaltyService.accrueTx` (one scan over all bills) |
| `PayBills`, `ReversePayment` | `PaymentService.createTx`, `reverseTx` |
| `TopUp`, `Refund` | `PrepaymentService.topUpTx`, `refundTx` |
| `CloseAccount` | `CloseAccountUseCase.execute` |

`ApplyForPostedDebt` is the nested loop of `applyForPostedDebtTx` in closed form:
what a debt receives from a lot is the overlap of their intervals on the line of
amounts (`ServedFrom`), which is the walk as long as no lot is negative; that no
lot is negative is proved (`LotsStaySolvent`), and the code would skip such a lot.
A replayed key (`ApplyKey`) writes nothing while the walk counts on, as in the
code. A REVERSAL bill enters no sum and no queue; it is the REVERSED status of
the bill it mirrors. One action is one committed transaction, which is what the
settle-account lock gives these operations among themselves; the writers that do
not take it (penalty accrual, account close) are split in `AccountDues`.

Abstracted: amounts are integers; numbers of documents, receipts, channels,
permissions and periods are left out, and the debt queue's order (oldest period,
then creation) is the order of the bill ids.

### DayClose

`MoneyMoves` is any step of `SettleFunds`; a payment it makes gets a cashier and
the date on which its transaction began (`received_at` is the database's `now()`,
the start of the transaction), so it may be yesterday's. A close is two steps,
`StartClose` (staff lock, probe, read of the pending payments) and `FinishClose`
(the document and the flip), so that money moves in between.

### AccountDues

One bill of one account, for the races of writers that share no lock. A billing run
reads the account (`RunReads`), generates and posts. A penalty scan is
`ReadForScan` (bills and items, without a lock) and `WriteScan`; a reversal reads
the head (`ReadHead`) before its locks; a close takes the account
(`LockToClose`), reads the debts (`CheckDebts`), then the prepayments
(`CheckFunds`), then flips (`Close`). Whoever writes a debt asks the account's
row first (`AccountFree`): this is what makes `ClosedOwesNothing` true.

### BankDebit

`executeBatchTx` is one transaction: `Start` locks the batch and reads, per item
`Skip`, or `Charge` (the bank takes the money, `taken` remembers it for ever) and
`Pay` (the payment and SUCCESS), `Finish` commits. `RollBack` undoes the rows of
the whole execution at any point and nothing of `taken`. A generation reads
(`ReadForBatch`) and writes (`SaveBatch`) apart. `PayCash` is a counter payment of
the same household; a bill locked by an execution makes it wait (`Locked`).

### Numbering

`seq[k]` is a row of `sys_sequence`, `row[k][n]` says whether a document has the
number and whether an operator typed it. `DrawOne` is `nextFormatted`,
`DrawAligned` is `nextAligned` (read every counter under its lock, skip suffixes
that rows have, raise all counters to the suffix), `SaveDraw` and `DropDraw` the
commit and the rollback. A receipt is `ReadBook` (no lock), `Advance` (the update
waits for the row and writes what was computed from the read), `PrintReceipt` (the
unique index) or `DropSlip`.

### BillingRun

`billOf[s]` is the NORMAL bill of settlement `s`: the unique index admits one.
`req[w]` is a request in flight with its program counter and what its open
transaction has written and locked. The create batches are taken apart into their
statements (`StartBatch`, `Probe`, `Insert`, `CommitBatch`), because another run
may commit between a probe and an insert; posting and retrying are taken apart
into their transactions (`ReadRun`/`Claim`, `RetryGenerate`, `ReadDrafts`,
`PostOneBill`, `FinalizePost`). `edits` counts changes of the pricing
configuration, which is what the fingerprint compares. PostgreSQL's part is
external: it ends one of two deadlocked transactions (`DeadlockVictim`), and the
COMMIT of a transaction in which a statement failed rolls back without an error
(`CommitBatch`). The claim reads the failures in one statement and flips the
status in the next, so `ReadRun` and `Claim` are two steps.

### Idempotency and AnswerOnce

`row[k]` is the committed key, `holder[k]` the request whose open transaction has
inserted it; another insert of `k` waits (unique index) and then succeeds or ends
in `IdemKeyRace` and a reread. Requests in `Creators` create billing runs and keep
the key PROCESSING across transactions; the others are `runWithKey`. `AnswerOnce`
says what a client may rely on, and `PromiseKept` that `Idempotency` implements
it with `result[k]` the execution whose response a COMPLETED row stores. A key
that a discard releases was never completed, so the promise lets it run again.

### ReadingPlans

`member[b]` are the `book_meter` rows, `plan` and `item` the plans and their items,
`job[r]` a request with the stage it reached, what it read and the locks that
follow from the stage (`HoldsBook`, `HoldsHome`, `HoldsItem`, `HoldsPlan`).

| action | code |
| --- | --- |
| `StartJoin`, `CheckJoin`, `CommitJoin`, `RemoveMember`, `DeleteBook` | `addMemberTx` and `transferMemberTx`, `removeMemberTx`, `deleteTx` of `reading-book.service.ts` |
| `Generate`, `CommitGenerate` | `generateTx`, `autoGenerateForDate` |
| `StartSupplement`, `CommitSupplement` | `supplementTx`, `resolveSupplementBookId` |
| `StartRedistribute`, `CommitRedistribute` | `redistributeTx` |
| `StartEntry`, `Flip`, `CountPending`, `CommitEntry` | `createBatchTx`, `importTx`: context, guarded item updates, `advancePlans`, commit |
| `Supersede`, `StartPlan`, `CancelPlan` | `supersedeTx`, `startTx`, `cancelTx` |

`drained` remembers plans that a redistribution emptied, for which
`CompletedPlanIsFinished` says nothing: the code leaves those open.

### RemotePipeline

`event[k]` is the raw event with external key `k`, `spot[i]` the plan item, `reads`
the readings with the one each supersedes. Messages are delivered any number of
times and in any order. `Ingest` (row, duplicate and body check, binding chain,
plan item) and `Judge` (under the item's lock: the conflict matrix, the reading)
are two steps, and so are `Replay` and `Judge`; `GiveUp` is a rollback or the death
of the process. Manual entry, no-read, correction, quality check, conflict
resolution, bindings, the exchange of the meter and the switching of the device run
in between.

### Settlements

One account, meter 1 and after an exchange meter 2, dials that roll over. A
settlement request is `StartGenerate` (all reads of `generateTx`: the start of each
meter by the chain `StartOf`, its end, estimates, blocks), `Recheck` (the task
block before the write) and `WriteSettlement` (unique index). `Enter`, `Check`,
`Correct`, `ExchangeMeter` change the facts, `Finalize`, `BillPeriod` carry the
settlement on, `ReconcileUsage` absorbs into the DRAFT period, adjusts the
span, or parks it, `CloseTask` ends a SUPPLEMENT task. An estimate is any usage up
to `MaxEstimate`: the estimator chooses the number, the chain must hold for any.
`orderly` is a history flag: true while every fact has been used in the order of
the periods. It ends when a reading is superseded after its period was settled or
its reconciliation applied, when a period is settled after a later one or with an
estimate above the dial accepted, when a reconciliation skips periods that are not
settled or meets a generation of its period under way. The comment at
`settlement.service.ts` 1382-1383 claims that order; nothing enforces it.

### AnnualLadder

`ScaledTiers`, `TieredAmount`, `ComputeBill`, `Allocate`, `CorrectCharge` are
`scaleTierBounds`, `tieredAmount`, `computeBill`, `allocateUsage`, `reprice` of
billing-core; `YtdBefore` is `ytdBeforeQty`, with its four sources (posted bills,
reversed ones skipped, replacements by the sum of their item quantities, the latest
correction of an ADJUSTMENT). Actions: `SettleMonth`, `PriceMonth`, `Post`,
`DropDraft`, `ReverseMonth`, `ReplaceMonth`, `Reconcile`. `habit` fixes the plan's
items, the household's shift of the tiers, the allocation policy and how many
corrections a behaviour makes. `calm` is the flag of `orderly` for bills: each bill
and each correction comes in the order of the periods.

### TariffBook

`tariff[v]` is a plan row, `edit[e]` the transaction an editor has under way,
`quoted[b]` a bill with the facts it was priced by. A PATCH is `ReadPatch` (read,
freeze probe, window), `StartUpdate` (its UPDATE waits for the row) and
`ApplyUpdate` (the guard on the status is asked again, as PostgreSQL does, the
freeze probe is not). Activation is `LockPlan`, `CheckOverlap` under the advisory
lock, `Activate`; `Retire`, `CreatePlan`, `NewVersion` are one step. A bill is
`PickPlan`, `InsertQuote` (plan lock), `LockForPost`, `PostQuote`, or `DropQuote`.

### TaskDesk, MeterCustody, ServiceOrders

`task[j]` is the row of a job, a pair of task type and business object. `Assign` is
two reads apart from its write (`Aim`), which is how a reassignment opens a task
that was DONE meanwhile; `revived` remembers those. Business steps change tasks by
`Created`, `Closed` and `AutoCompleted`, operators on the value of `task` that an
action combines with its own changes.

`work[w]` is what a request has read; `ReadFor...` puts it there and the step of
its own name commits it, with the guards that the code asks again under its lock
(`AccountOpen`, `StillMountable`) and no others.

| action | code |
| --- | --- |
| `ReadForInstall`/`Install`, `Onboard`, `Remove`, `Replace` | `installTx`, `onboardTx`, `removeTx`, `replaceTx` |
| `Suspend`, `Resume`, `Close` | `suspendTx`, `resumeTx`, `closeTx` of `water-account.service.ts` |
| `ReadForMove`/`ReadForPatch`/`Handle`, `File` | `moveTx`, `MeterService.updateTx`, `purchaseInTx`, `createTx` |
| `Submit`, `ReadForStage`/`Stage`, `ReadForFilling`, `Archive` | `InstallService`: create, transitions, meters, archive |
| `ReadForAllocate`/`Allocate`, `ReadForReturn`/`Return`, `ReadForActivate`/`Activate`, `ReadForInfo`/`CompleteInfo` | `AllocationService` |
| `Create`, `ReadForScan`/`Scan`, `Approve`, `Reject`, `Dispatch`, `CancelOrder`, `ArchiveOrder` | `ServiceOrderService` |
| `ReadForExecute`/`Execute` | `executeTx` with `runLinkage` |
| `Report`, `ReadForVerdict`/`Verdict` | `ViolationService` |

`careless` remembers the meters that a write without a check has hit (a stock
movement or patch of a standing meter, an activation of one not free), `effects`
how often an execution of an order has committed.

## 3. Runs

### Runs that pass

| run | instance | distinct states |
| --- | --- | --- |
| `account` | funds: 2 bills, 3 payments, 2 water accounts, amounts to 2, penalty to 1. dials: 3 periods with a correction in the second; 2 periods with an exchange in either; 2 periods, 2 clerks and a correction; dial of 2, estimates to 1 | 1.06 million |
| `batches` | 2 runs, 2 requests, 3 settlements of two plans (one never billed, one blocked at first, one whose account may close), slices of 2, one price change, one discard | 1.9 million |
| `posting` | 2 runs, 2 requests, 3 settlements in one slice that locks the plans in the order 1, 2, 1, one account that may close, no discard | 646 thousand |
| `idem_keys` | 2 creations and 2 payments with one key, 2 crashes | 13 thousand |
| `cash_desk` | drawers: 2 cashiers, 2 days, 3 payments, amounts to 2. debit: 2 households, 2 months, 2 batches, bills of 1. numbers: 2 kinds, numbers to 3, 2 tries, a book of 3, 2 clerks. dues: a bill of 2, funds to 2, scans of 2 days, 1 scanner | 1.9 million |
| `readings` | plans: 2 books, 2 accounts, 2 requests; one plan with two changes of membership and a correction, or two plans. remote: 1 item, 2 keys with 3 messages, 1 binding, 2 readings, 2 workers, 2 instants. ladder: 3 periods, the year ends after the second, tiers to 1, 2 and open, usage to 2. tariff: 2 versions, one month of two days, 2 editors, 1 bill | 861 thousand |
| `field` | 2 accounts, 2 meters, 3 installations, 2 orders, 1 violation, 2 requests, 1 stock movement or patch | 687 thousand |

| run | property | what it says |
| --- | --- | --- |
| `account` | `TypeOK` | types |
| | `LedgerRows` | each payment row balances, no restore beyond its apply |
| | `LotsSolvent` | no lot overdrawn or filled above what was put in |
| | `NeverOverpaid` | counter payments, top-ups and applies together never exceed a bill |
| | `StatusTellsPaid` | the stored status agrees with the allocations, after any reversal |
| | `CashExplained` | net payments are allocations plus balance |
| | `WaterChargedOnce` | up to a period that ends on a dial reading, what is charged is what the dials show |
| | `CloseIsSquare` (action) | an account closes only when nothing is owed either way |
| | `BillsKeepTheirLife` (refinement) | `SettleFunds` implements `BillLife` |
| `batches` | `NoOrphanBill` | no bill without its run |
| | `PostedOnlyOnceClaimed` | no posted bill in a run that nobody claimed |
| | `ReadyAtCurrentPricing` (action) | a run becomes READY only at the prices it started with |
| | `RunsKeepBillLife` (refinement) | `BillingRun` implements `BillLife` |
| `posting` | `PostedRunIsComplete` | a POSTED run has no DRAFT bill, if no run is discarded |
| | `RequestsEnd` (liveness) | every create, post or retry ends, deadlocks included |
| `idem_keys` | `LandedOncePerKey` | one committed execution per key |
| | `PromiseKept` (refinement) | `Idempotency` implements `AnswerOnce` |
| | `RequestsAnswered` (liveness) | every request is answered or dies |
| `cash_desk` | `CloseSplitsItsTotal` | the parts of a close add up to its total |
| | `CloseCountsItsMembers` | a close stays the sum of the payments that name it, none later than its day |
| | `DebitsBookedOnce` | a SUCCESS item was taken by the bank, within its amount, once per household and period; no bill overpaid; DONE leaves nothing PENDING |
| | `CountersLead` | no counter is behind a number drawn from it |
| | `BookInOrder` | receipts are consecutive from the start of the book |
| | `ClosedOwesNothing` | a closed account has no bill that asks to be paid |
| | `DueKeepsItsLife` (refinement) | `AccountDues` implements `BillLife` |
| `readings` | `ReadingTypes` | types of the four parts; bindings disjoint and within their installation |
| | `AccountInOneBook` | one membership per account, although there is no unique index |
| | `OneGeneratedPlan` | one generated plan per book and period, none for a deleted book |
| | `CompletedPlanIsFinished` | a plan with nothing PENDING is finished |
| | `ReadingKeepsItsItem` | redistribution never takes a read item |
| | `ConvertedOnce` | one reading per CONVERTED event, none otherwise |
| | `ItemPointsAtHead` | the readings of an item are one chain and the item points at its end |
| | `LadderExact` | posted bills and adjustments add up to the ladder price of the year in one piece, but for one rounding of each bill and year |
| | `OnePlanPerDay` | no two ACTIVE versions cover a day (one PATCH in flight) |
| | `QuotedFactsStay` | the tiers and the start of a plan that a posted bill quotes stay |
| `field` | `ClosedHasNoMeter` | no installation at a closed account |
| | `MeterInOnePlace` | INSTALLED means exactly one installation, unless an unchecked write hit the meter |
| | `DoneOnce` | an order's work is done once when it says so, never otherwise |
| | `OpenTaskIsDue` | no open task for business that is over, unless reopened by a late reassignment |
| | `DoneMeansDone` | a DONE task's business is done |

The types of the billing runs, the keys, the price book and the field work are theorems
(`BillingTypes`, `TypeCorrect`, `TariffTypes`, `FieldTypes`) and not checked again by a run.
Each of these properties has a mutant in `PROJECT.json`: a variant of a modelled
definition with a plausible bug, kept in the module beside the definition it
varies, under which TLC finds the property violated.

**Why the bounds are enough to be interesting.** Three payments make a lot, a
refund or payment against it, and a reversal; two bills make a queue, and a lot of
2 covers a bill of 1 and a part of a bill of 2. Two sibling accounts are what the
close can confuse. Two runs and two requests give every pairwise race; slices of 2
put a transaction border between the billed settlements, one slice of 3 puts
several inserts and plan locks into a transaction. A settlement without a price,
one with a blocking task and one of a closed account are the three ways to fail.
Four equal-keyed requests give first comer, race loser, replay and mismatch at
once. Two executions of two batches over two households give every order of
charge, cash payment and rollback; one rollback and one rerun let the bank take an
amount twice. Three numbers with two tries let an aligned draw skip one taken
suffix and give up on the second. Two books and two accounts are what a transfer,
a redistribution and a generation can race on; two last items are what two entries
can each leave to the other. Two keys with a repeated key of another body are the
duplicate, the reordered and the contradictory message. Three periods are an
estimate, a correction of it and what follows, and three periods over a year's end
are the least in which a correction straddles it. Three tiers with a usage to 2
cross one or two borders in a bill. Two versions in two days can overlap, follow or
leave a gap. Two accounts, two meters and two requests are what an exchange, a move
and a close need to meet.

**Restrictions beyond the constants**, all in the `MC` modules:

- `Orderly` and `Calm` are state constraints: beyond the first state in which the
  flag is false nothing is explored. The two properties about order are stated
  only for states in which the flag still holds.
- `Scopes`, `Budgets` and `Habits` choose which bounds a behaviour has, so that two
  dimensions are not both large at once.
- `MCCashDesk.Apart`: the counters and the receipt book share no row, so a
  behaviour moves one or the other. `DebitBounds`: either two households share a
  batch or one has two; the bank takes an item's amount at most twice; agreements
  are signed before the first batch.
- `MCField.PartStep`: "places" has no orders and tasks, "apply" follows one
  application to its account, "orders" has two orders on one account without
  reassignment, "desk" has one order and one violation with reassignment.
- `Window = 1`: one PATCH in flight. With 2, `OnePlanPerDay` is violated: of two
  PATCHes of an ACTIVE plan, the second writes back the longer window that the
  first gave up and an activation has filled since.
- One penalty scanner in `cash_desk`; `penalty_twice` has two.
- The ladder's prices are odd and its percentage is 25, so that most bills round
  their PERCENT item; the prices are large beside the roundings that `LadderExact`
  allows (half a cent for each bill and each year), so that usage priced in a wrong
  tier is seen.
- `posting` has no discard: the source documents (`billing-run.service.ts`
  173-176) that a run may count the bills of a sibling that is later discarded.

Symmetry is used where the names are interchangeable and never in a run with a
liveness property. In `readings` the versions of the tariff are named as the books
are, the editors and the workers as the readers; parts never move together, so one
permutation serves all.

`CHECK_DEADLOCK FALSE` in all runs but `idem_keys`: the bounds (payments, plans,
readings, edits) end every behaviour, and the code's own requests end too.
`idem_keys` checks deadlock.

**Fairness.** `BillingRun!FairSpec`: weak fairness of each request's own steps,
since the event loop runs every pending handler and PostgreSQL grants a free row
lock; nothing is assumed of new requests, of crashes (which also end a request) or
of the environment. `Idempotency!FairSpec` adds strong fairness of `Insert`:
waiters for a unique-index entry are woken in the order they came, so a waiter is
not overtaken for ever. The other modules have no liveness: their operations happen
when somebody asks, and their transactions end by themselves.

### Runs that find a disagreement

Each checks one sentence of the source, and TLC's trace shows the code doing
otherwise; `PROJECT.json` quotes both.

| run | sentence | what the code does |
| --- | --- | --- |
| `lost_batch` | a lost unique race is resolved, not a failure | the aborted transaction takes the bills of the whole batch with it, silently |
| `two_places` | a concurrent install loses instead of producing two ACTIVE installations | a stock movement makes a standing meter AVAILABLE; the next install is a second one |
| `charged_twice` | a rerun of a debit batch does not charge twice | the bank is charged inside a transaction that may roll back; the rerun charges again |
| `penalty_twice` | one PENALTY item per bill, repeated accrual updates it | two scans that read before either writes make two |
| `replaced_twice` | the items of a replacement add up to the corrected consumption | a plan with several PER_QTY items writes the quantity once per item; the cursor counts it as often |

### Behaviours met while modelling that no run pins

Read in the code beside the models, at the lines given. They contradict no
sentence a run could quote, or lie in a part the models leave out; the hazards in
`PROJECT.json` carry those a property comes close to.

- *Money.* `closed_debt`: `replaceTx` (`bill.service.ts` 420) posts a new debt for a
  CLOSED account. The total of a REVERSAL bill comes from the head read before the
  locks (204), so a penalty accrued in between is missing from it. A penalty that is
  lowered may leave a PARTIAL_PAID bill with nothing to pay: no payment of zero ever
  recomputes it. The apply of a
  posted bill and its replay differ in the keys they skip
  (`prepayment.service.ts` 351, `billing-run.service.ts` 1135-1137).
- *Billing runs.* A finalizer that started before a retry may mark the retried run
  POSTED (`billing-run.service.ts` 787). A run whose successes are a sibling's DRAFT
  bills stays without bills once the sibling is discarded (173-177). `success_count`
  may go negative (584). A DRAFT bill of an account closed meanwhile fails at every
  retry (1100). The comment that PROCESSING is only observed after a crash (156-159)
  overlooks a create that is still running.
- *Numbers.* `nextAligned` gives up after 50 taken suffixes (`sequence.service.ts`
  127). A number typed by hand that equals the next one makes the next
  `nextFormatted` fail once. A retired receipt book still prints for a payment that
  had read it.
- *Tariffs.* The first-read-then-update of a PATCH (`tariff-plan.service.ts`
  271-288) lets two of them and an activation overlap two windows; its freeze probe
  is not airtight for `effectiveTo`, as the docblock at 544-556 admits. When plans
  change in mid-month the pick takes the plan of the first day.
- *Reconciliation.* An ADJUSTMENT that straddles a new span, and a replacement of a
  bill inside a reconciled span, make the cursor of `pricing.ts` (216-248) count a
  month by the wrong source; `calm` ends there. Replacing a REPLACEMENT prices it
  without the household's snapshot (`bill.service.ts` 396-402).
- *Readings.* A redistribution may move items onto a plan that is DONE
  (`meter-reading.service.ts` 1067-1070). `Ingest` reads a binding that `Rebind` may
  close before `Judge` commits. A first period that was over-estimated has no anchor
  to reconcile against. A reading whose reconciliation was APPLIED while its own
  period was not settled may still be corrected: the period is not billed, so no
  SUPPLEMENT task is made (`meter-reading.service.ts` 736-789), `prevChain` drops the
  superseded reading (`settlement.service.ts` 1218), and the next settlement starts
  from the estimate that the reconciliation had already made good. The same happens
  when a reconciliation is applied while a `generateTx` of its period, which looked
  before the reading had passed its check, is about to write. These two were found
  while `WaterChargedOnce` was being proved; they need more periods or clerks than the run
  has, and `orderly` ends there. A SUPPLEMENT task can wait for a settlement that waits for
  the task. A double click on supplement makes two plans.
- *Field work.* A late reassignment reopens a DONE task (`revived`). An activation
  asks neither the stock nor the state of the application and may complete one that
  was CANCELLED. Two simultaneous check scans make two orders for one meter. A
  binding dated in the future makes the removal of its meter fail.

## 4. Proofs

Every theorem holds for every value of the constants that meets the module's
assumptions: `BoundsAssumption` (`SettleFunds`), `DayAssumption`, `KeyAssumption`,
`NumberingAssumption`, `StartsAssumption`, `OrdersAssumption`, `RemoteAssumption`,
`PlansAssumption`, `TariffAssumption`, `RunAssumption`, `DebitAssumption`,
`DuesAssumption`, `SettlementsAssumption`, `StaffAssumption`, `LadderAssumption`. They
say that bounds are naturals, that functions have their types and that a mark for
"none" is no name; `LadderAssumption` that tiers ascend and only the last is open,
which `tieredAmount` asks (`tariff.ts` 94-119, 147-152);
`StartsAssumption` also says that the states the field work may start from are
consistent (an INSTALLED meter stands somewhere, nothing at a closed account, a meter
that is in no table in no warehouse, an application whose meter was activated past
its submission).

| module | theorem | states |
| --- | --- | --- |
| `SettleFundsProofs` | `TypeCorrect`, `RowsAreSound`, `LotsStaySolvent`, `CashIsExplained` | `TypeOK`, `LedgerRows`, `LotsSolvent`, `CashExplained` |
| | `StatusIsTrue`, `NoBillOverpaid`, `ClosesSquare` | `StatusTellsPaid`, `NeverOverpaid`, `CloseIsSquare` |
| | `BillsLive` | `BillsKeepTheirLife` |
| | `ClosesCountTheirMembers`, `ClosesSplitTheirTotals` (`DayClose`) | `CloseCountsItsMembers`, `CloseSplitsItsTotal` |
| `CashDeskProofs` | `CountersAlwaysLead`, `BookAlwaysInOrder` (`Numbering`) | `CountersLead`, `BookInOrder` |
| | `ClosedAccountsOweNothing`, `OneLinePerBill`, `DueLives` (`AccountDues`, one scanner) | `ClosedOwesNothing`, `OnePenaltyLine`, `DueKeepsItsLife` |
| | `DebitsBooked`, `OnlyLostChargesRepeat` (`BankDebit`) | `DebitsBookedOnce`, `NeverChargedAgain` (while no charge is rolled back) |
| | `TypeCorrect`, `NeverLandsTwice`, `KeepsPromise` (`Idempotency`) | `TypeOK`, `LandedOncePerKey`, `PromiseKept` |
| `BillingRunProofs` | `BillingTypes`, `BillsHaveRuns`, `PostedAreClaimed`, `PostedRunsComplete`, `ReadyAtOnePricing` | `TypeOK`, `NoOrphanBill`, `PostedOnlyOnceClaimed`, `PostedRunIsComplete`, `ReadyAtCurrentPricing` |
| | `RunsLive`, `OnlyAbortsLose` | `RunsKeepBillLife`, `EverySettlementAccounted` (while no batch is aborted and no run discarded) |
| `ServiceOrdersProofs` | `NoMeterAtClosed`, `OneMeterOnePlace`, `OrderDoneOnce`, `DoneTasksAreDone` | `ClosedHasNoMeter`, `MeterInOnePlace`, `DoneOnce`, `DoneMeansDone` |
| | `OpenTasksAreDue`, `FieldTypes` | `OpenTaskIsDue`, `FieldTypeOK` |
| `ReadingsProofs` | `EventReadOnce`, `OneChainPerItem` (`RemotePipeline`) | `ConvertedOnce`, `ItemPointsAtHead` |
| | `OneBookPerAccount`, `OnePlanPerGeneration`, `CompletedPlansFinish`, `ReadItemsStay` (`ReadingPlans`) | `AccountInOneBook`, `OneGeneratedPlan`, `CompletedPlanIsFinished`, `ReadingKeepsItsItem` |
| | `TariffTypes`, `QuotesStayTrue`, `OnePublishedPlan` (`TariffBook`) | `TariffTypeOK`, `QuotedFactsStay`, `OnePlanPerDay` |
| | `ReadingTypesHold` (`MCReadings`) | `ReadingTypes` |
| `LadderProofs` | `LadderIsExact`, `CursorIsExact` (`AnnualLadder`) | `LadderExact`, `CursorCountsUsage` |
| `SettlementsProofs` | `WaterOnce` | `WaterChargedOnce` |

**Sums.** `SumTo(f, n)` is a recursive function. From the least-number principle
(well-foundedness of `<` on the naturals, from the library) `SumsProofs` derives
induction as a statement about sets, then that the function exists and is unique,
then what the other proofs cite: sums are additive, monotone, change by one term when
one term changes, and can be taken by rows or by columns (`SumSwap`); a walk along a
queue serves each debt at most what it needs, each purse at most what it holds, and
in all the smaller of the two (`ServedBounds`, `ServedTotal`, `ServedFromRow`,
`ServedFromColumn`).

**Funds.** The ledger first: `LedgerInv` is the types, `LedgerRows` and `Solvent`
(no lot negative). `LedgerRows` is what makes solvency inductive: that a lot holds
at most what was put in follows from each other row only taking from it. Every
payment is one lemma about `Receive` (`RemainingAfterReceive`: a new row moves each
lot by what it says), every operation that applies is one lemma about
`ApplyForPostedDebt`, whatever bill table and restores it starts from. Conservation
is a double sum read both ways. The bills second: `FundsInv` adds `AllocInv` and
`HonestBills`. What a bill has been paid is a sum in which reversals are negative
terms; to undo a payment without driving a bill below zero one has to know that its
share is still in the sum. `AllocInv` says that: the sum over all payments is the sum
over the live ones, those that reverse nothing and are not reversed, and those terms
are not negative, so one of them is never more than the sum (`LiveIsCounted`).
`HonestBills` is what each status says of the sum; the walk keeps it because a bill
gets from its queue at most its debt (`WalkKeepsHonest`), the penalty scan because
it only raises bills with principal left. `ClosesSquare` is then arithmetic: the two
balances the close reads, conservation, and honesty of every status.

**Lives of bills.** Three refinements, each step by step against the action of
`BillLife` it maps to, or a stutter. For the funds the types suffice, since every
operation there is one committed transaction that asks for the status it changes; the
work is in telling what each leaves alone (`SameLife`). The runs need
`BillingInv`: the bills a batch will commit are still nobody's when it commits (the
probe asked, and the unique index refuses a second), and a bill that an execution
posts is still the DRAFT it read. `AccountDues` needs `DuesInv` and that a scan under
way still knows the lines of its bill (`LineIsRead`), which is where one scanner at a
time is used.

**Drawers.** Around the ledger, `DrawerInv` says that what a close under way has read
stays true until it writes (`SweepGood`: the lock on the staff row keeps other closes
of the cashier out, nothing else stamps a payment, and payments are only added), and
that a signed close is the sum of the payments that bear its stamp (`Counted`). That
its parts add up to its total comes from the ledger: a sound row is wholly a
reversal, a refund, or what it collected and topped up.

**Keys.** The invariant ties every request's phase to what it holds and to the
committed row of its key; at most one request of a key has work that is committed or
can still be. The refinement maps the key rows to `AnswerOnce`, step by step.

**Numbers.** `NumberInv` is the types, at most one clerk with a draw per counter
(`OneDraw`, the row's lock), a number in hand above its counter (`DrawBeyond`), a
saved one not (`DrawnBehind`), and for the book that the printed receipts are the
numbers before the next one and a slip in a clerk's hand is not beyond it
(`BookInOrder`, `SlipBehind`).

**Dues.** `ClosedAccountsOweNothing` assumes that no two penalty scans are under way
at once. A scan runs when an operator asks for it and nothing in the code keeps two
apart; what two do to a bill is shown by the run `penalty_twice`. `DuesInv`: a bill falls to nothing left
while it still asks only by the scan that lowers its penalty, which is over by then,
and the next scan reads a base that is not positive (`StaleHarmless`); so that what
the close has found settled stays settled until the account is closed
(`CloseIsRight`), although the close holds no lock on the bill.

**Billing runs.** `BillingInv` says for each request what its program counter
implies (`Good`: in which state its run is, at which pricing its bills are, what its
open transaction has locked and inserted, which failures it has read), that two
requests never create one run nor lock one plan (`Apart`), and what a bill says of
its run and a run of its bills (`BillsInv`, `RunsInv`). Completeness of a posted run
needs the conjunct about failures: the list an execution works on stays, but for what
has been resolved, that of its run, although other executions overlap it.

**Field work.** `FieldInv` is `PlaceInv` (installations have consecutive ids, one
active per meter and per account, none at a closed account), `WorkInv` (what a
request has read is of its kind) and `OrderInv` (the effects of an order agree with
its status), with `TaskInv` for the tasks. `PlaceInv` holds although the requests
read before they lock, since each of them asks again what it needs; the exceptions
are collected in `careless`. The types of the parts follow from the same invariants.
`OpenTaskIsDue` needs one more, `DueInv`: a task whose business is over is not open
unless a late reassignment has reopened it (`Resting`, `revived`), stated for each
kind of business, and what a request has read still tells that its business goes on
(`RequestsDue`). A step is judged by the tasks it may open (`OpensOnly`); one lemma
per kind of task says what such a step leaves true, and each action shows
that it ends no business without closing the task in the same transaction.

**Water.** `WaterChargedOnce` says of a state that the charges up to a period that
ends on a trusted dial are what the dials show, and says it only while `orderly`
holds. The invariant is `DialInv`: the types always, and `DialFacts` while the facts
are used in order. Where a period ended on a reading that was used, by a settlement or
by a reconciliation, money and dials agree (`Known`, `KnownCharged`). A period that
was estimated may end anywhere; what ties it down is where the next one starts, the
result of `prevChain` (`NextStarts`), and where a draft started (`DraftsStart`). The
rest says that no other record points to a fact that has been superseded: parts
(`PartsFit`), turns of a dial (`TurnsSeen`), adjustments (`ShiftsApplied`), outcomes
(`OutcomesKnown`), and what a clerk holds between decision and write (`DraftsFit`).
The sums over periods come from `SumsProofs`. TLC checked `DialFacts` on instances of
up to four periods first; two of its counterexamples were behaviours of the code and
are listed under *Readings* above.

**Remote readings.** `PipelineInv`: readings are numbered as inserted, a worker's
event is still open, an event has at most one reading (`OnceEach`), and each reading
but the first of an item supersedes exactly one, no two the same (`AllLinked`).

**Reading plans.** `PlanInv` says of each request that what it has read and still
relies on stays true until it writes (`JoinGood`, `GenerateGood`, `PlanGood`,
`CountGood`): the locks of two requests under way never cover the same book, account
or plan (`Clash`, `LocksApart`), and where the code takes no lock the write asks
again. An entry that has counted, under the lock of the plan, whether others are
pending is right about it when it commits (`CountGood`), unless a redistribution has
drained the plan. The plans of a book are numbered without gaps (`IdsInOrder`), so
that a generation never writes over one that exists, and a plan that is not made yet
has no items and no readings (`BlankUntilMade`).

**Price book.** `BookInv`: a plan that a bill quotes has left DRAFT for good, and a
PATCH that found its plan published carries the facts and the start the plan has
(`EditGood`), so that the write of a stale PATCH changes at most the end of the
window. That two published plans share no day needs more: with one PATCH under way at
a time (`Window = 1`) the window of a published plan only shrinks (`OnlyShrinks`),
and what an activation has checked stays true until it flips the status
(`CheckedApart`, `ActiveApart`). Nothing in the code keeps two PATCHes apart; without
the assumption the property is not an invariant.

**Debits.** `DebitInv`: at most one PENDING item per household and period
(`OnePending`), what an execution has written is backed by what the bank took and the
item announced (`ExecInv`), and what an execution is about to pay is still owed and is
in the hands of no other (`AllocInv`, which is the lock of the bill).

**Ladder.** A price first. The walk of `tieredAmount` over the tiers equals a sum over
the tiers of what lies between two of them (`TieredIsCost`), and that sum can be cut
anywhere (`CostAdds`), so that the price of a year's usage is that of its parts in any
division, and taken cubic metre by cubic metre it is `YearPrice`. Then the bills.
`LadderExact` is not inductive: a reconciliation of the periods a + 1 .. m takes the
bills up to a for right and charges the rest anew. `LadderInv` therefore says of every
period at which the corrections can be cut that bills and adjustments up to it add up
to bills for the usage up to it, each priced after those before it (`CutExact`), which
holds to the cent. It rests on the cursor being that usage (`CursorIsUsed`), on drafts
being priced by the cursor they note (`DraftsPriced`), and on periods that an
adjustment has corrected keeping their bills (`CorrectedStand`). Last the percentage:
each bill rounds its own PERCENT item, so the bills of a year may differ by cents from
the price in one piece. Before the percentage they add up to it exactly (`BasesAdd`);
with it they are as near as half a cent for each bill and each year (`YearsAreNear`),
however many corrections there were, and equal to it where the percentage of every
price is a whole number of cents (`PricesExact`). One hypothesis is needed, for both
theorems: `CountedOnce`, a plan under which bills are replaced has one item per
quantity; with two, a replacement counts twice in the cursor, which is the finding of
`replaced_twice`.

**Types side by side.** `ReadingTypesHold` is about the composition that the run
explores. Types that the other proofs did not need are `BindingsInv` (bindings of the
device are apart and within the life of their meter; all are of the first meter until
the exchange, which closes those that are open) and `RowsInv` (an entry that holds
items has room for a row of each, and no two hold the same item).

**What the findings do not touch.** Three of the runs that find a disagreement have a
theorem on the other side, which says that nothing else breaks the sentence.
`OneLinePerBill`: with one penalty scan at a time, a bill has one PENALTY line and its
total is the charge and that line, whatever is paid, posted and reversed meanwhile; so
the duplicate of `penalty_twice` takes two scans. `OnlyLostChargesRepeat`: as long as
every execution that has charged an item commits (`ChargesKept`, a condition on steps),
the bank takes no item beyond its amount, whatever is refused, skipped, paid in cash
or rerun; so `charged_twice` takes a rollback after a charge. `OnlyAbortsLose`: as long
as no transaction of a batch is aborted and no run discarded (`Whole`, a condition on
states), a READY run accounts for each settlement by a bill or a failure record,
through crashes and retries and beside other runs; so `lost_batch` takes the batch that
goes on after a unique violation.

**Only model-checked.** The two liveness properties, `RequestsEnd` and
`RequestsAnswered`: the prover has no ENABLED and no fairness. Every other property of
the passing runs is a theorem.

## 5. Not modelled

The share of the repository's lines that the models stand for is small, because most
of the repository is a web client, controllers, DTOs and validation, reports and
lists, seed data and test harnesses. What keeps state and was left out, and why:

- *Reconciliation*: the parameters of a forced approval and the drift hints, which
  are read only. A reversal of an ADJUSTMENT bill is not modelled.
- *Settlements*: the batch endpoints, which call `generateTx` per account; the
  deduction of sub-meters from a master account.
- *Readings and plans*: the order of a route and the routes learned from readings,
  the anomaly hints; no status depends on them.
- *Estimates*: the choice of the number. Any number to a bound is taken instead.
- *Water accounts*: zone-book sync, transfer to another customer, household
  declarations (their effect on the tiers is a constant of `AnnualLadder`),
  monitoring flags.
- *Service orders and stock*: stock-taking documents, the warehouses' own records,
  photos and payloads.
- *Billing arithmetic*: quantities with four decimals and the printing of money.
- *DMA, master and sub meters, routes; exceptions; reports; dashboard*: registries
  and queries that read the modelled state and write none of it.
- *Write-off, notices, bank reconciliation*: approval records, documents and a
  matching of imported lines, none of which changes a bill or a payment.
- *Identity and permissions*: who may call. Every call is permitted here, and one
  tenant is the whole.
- *OCR and integration stubs*: image recognition, and ports without an
  implementation behind them.
- *Web client*: appears only as the client that repeats a request or sends two at a
  time. It does keep state worth a model of its own: the queue of readings taken
  offline (`MobileReading.tsx`) and the refresh of a session (`client.ts`). The queue
  treats a business error as a lost connection, because the error it gets has no
  `response`, so that one refused reading blocks those behind it; the end of a flush
  writes back the rest it started with, over readings enqueued meanwhile.
- *Pilot and test harnesses*: not the system.

## 6. What is left

- The offline queue and the session refresh of the web client, with lost and late
  answers.
- Two household declarations in one year, and a transfer between customers, in
  `AnnualLadder`.
- A second penalty scanner and a second bill in `AccountDues`, once the scan takes
  its rows under a lock.
