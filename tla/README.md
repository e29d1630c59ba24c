# Verification of the AGAPAY accounting core

AGAPAY is a Cloudflare Worker (TypeScript under `src/src`, compiled siblings and
browser assets beside it) that serves parishes: giving, directory, learning and
bookkeeping. This directory holds the TLA+ specifications of its accounting
core, the configurations TLC checks them with, and the theorems TLAPS proves
about them. Paths below are relative to the repository; `accounting/` stands for
`src/accounting/`.

The accounting core was chosen because it is where the repository makes its
strongest promises: posted books are immutable and balanced, a closed period
stays closed, and a retry never does a thing twice. It keeps them with
optimistic versions, unique indexes and triggers only, on a platform where every
`await` lets another request run and any request may end at any `await`.

## 1. Inventory

### How the parts run

* One Worker handles HTTP requests and cron events. There are no threads, but
  every database call is awaited, so requests interleave between any two calls,
  in one isolate or in several. An isolate may be evicted and a client may
  disconnect: a request can stop after any call, and nothing resumes it.
* Each parish has a D1 (SQLite) accounting database of its own; a central D1
  database holds parishes, identities, billing and the registry of the others.
  A statement is atomic, a `db.batch([...])` is atomic; nothing else is.
* Services call one another as functions with the database handle. The services
  share state only through tables. There are no callbacks between them; a caller
  can, however, hand statements to a callee that commits them in its own batch
  (`additionalStatements` of `postJournalEntry`).

### The components

The table lists each component, the state it keeps, its operations, what is hard
about it and what makes it correct. "Modelled" is answered in the last column;
`PROJECT.json` has the same list with the source files.

| component | state | operations | hard behaviours | correct when | modelled |
|---|---|---|---|---|---|
| Journal ledger (`ledger/`) | entries with lines and version, idempotency keys, entry links | draft, edit, delete, void, post, deposit, reverse | reads before a guarded batch; retries; unfinished reversals | books balanced, append-only, each posting under one key, each reversal the linked mirror of its original | `Ledger`, implementing `Books` |
| Period close (`close/service.ts`) | close sessions, checks, snapshots, hard locks, the period | create, validate, waive, review, complete, reopen | every statement commits alone; unguarded and silently missed updates | one active session, a completed session has its snapshot and a locked period, a close can be repeated after a crash | `PeriodClose` |
| Year-end close (`close/year-end.ts`) | closes rows, fiscal year, closing entry | preview, execute, reopen | many separate commits over several tables | a year is closed only by a close that found it closed out, nothing is booked to it then, a reopened close has its closing entry reversed | `YearEnd` |
| Payables (`payables/`) | bills, payments, payment runs, check numbers | enter, approve, post, pay, void, run | balances committed in posting batches; drafts left by earlier attempts | amounts paid equal posted payments, the control account departs from the bills only by what staff book themselves, nobody approves alone | `Payables`; payment runs, check numbers and vendors are not |
| Recurring transactions (`recurring/`, `payables/recurring-bills.ts`) | schedules, executions | execute due, pause, resume, complete | overlapping runs of the scheduler beside edits; partial execution | no due date skipped, none posted twice, executions tell the truth | `Recurring`; the entry and edit of dates and amounts are not |
| Integration inbox (`integrations/`, `source-wiring.ts`, `service-costs.ts`) | source events, settings, invoices in the control plane | ingest, process, approve, synchronise | repeated and concurrent deliveries, retries after partial work, two databases | one posting per source event, statuses tell the truth, a paid invoice is booked in the end | `Inbox`; fee coverage and backfills are not |
| Chart, funds and periods (`setup/`) | accounts, funds, fiscal years, periods | create, rename, archive, unarchive, open a period | archiving an account beside a posting to it | no account with activity in an open period is archived | archive and unarchive in `Ledger`, opening a period in `PeriodClose` |
| Integrity and protective state (`integrity/`) | scans, findings, protective state | scan, block posting, release | a long scan beside requests; a state set without a version | posting is blocked while a critical finding stands | the state only, as `protective` of `Ledger` |
| Close adjustments (`close/adjustments.ts`) | adjustments | create, post, automatic reversal | draft, posting and status commit separately | an adjustment posted once, reversed once | no |
| Bank reconciliation (`reconciliation/`) | sessions, matches, snapshots | import, match, complete, reopen | two matches of one transaction; a completion from an old summary | a transaction matched at most to its amount; a completed session's difference is zero | no, section 6 |
| Commerce and inventory accounting (`commerce/`) | inbox rows, inventory movements | receive, post, adjust | as the integration inbox | as the integration inbox, quantities follow movements | no |
| Fixed assets (`assets/`) | assets, movements, depreciation lines | acquire, depreciate, correct, dispose | movements guarded by triggers inside posting batches | book value equals posted movements | no |
| Provisioning and control plane (`provisioning/`, `control-plane.ts`) | provisioning jobs, registry | provision, migrate, activate, retry | a saga over an external API | a parish bound to one database that is fully migrated | no |
| Recovery (`src/recovery/`), portability and closure (`src/portability/`) | locks, jobs, leases, fences | snapshot, restore, export, close | leases and write barriers over several databases | no write during a restore; one holder of a lease | no |
| Stripe webhook inbox (`src/lib/core.ts`, `src/handlers/stripe.ts`) | webhook events | claim, finish, fail, reclaim | concurrent redeliveries | an event has one processor at a time | no; `Inbox` assumes nothing of it |
| Audit support, budgets, dimensions, reports, migration and onboarding | rows, packets | forms and queries | none that interleave | — | no: queries, or imports before the books are in use |
| Giving, directory, groups, sacraments, stewardship, learning | rows | forms | settled by webhooks | — | no: outside the books, mostly validation and presentation |
| Identity, sessions, access | sessions, factors | sign in, authorise | — | — | no: left to security review |
| Worker entry, routes, scheduled work | — | dispatch | concurrency and eviction | — | its effect is in every model |
| Browser applications, tests, tooling | — | — | — | — | no: user interface; tests and docs were read as reference |

How they interact around the core:

* every service that moves money ends in `createJournalDraft` followed by
  `postJournalEntry` or `reverseJournalEntry` of the ledger;
* `postJournalEntry` reads what the close services, `openAccountingPeriod`,
  the year-end close and the integrity scanner write: period, lock, fiscal
  year, protective state; its batch tests the first three again;
* a journal entry does not know what it is for beyond its unique source, so that
  staff may void, delete, edit or post the draft of a bill or of an event, and
  reverse what was posted for it, by the ordinary operations: the models of the
  services let them, between any two steps;
* the close services read what all others write, through the evaluation of the
  checks, and lock the period;
* the integrity scanner reads all of it and reports what should be impossible
  as critical, which makes its queries a statement of intended invariants.

The hazards the code is exposed to are listed in `PROJECT.json`, each at its
line, with the property that catches it or with what the code does instead; the
smaller ones that no property covers are in sections 5 and 6 only.

## 2. The modules

| module | content |
|---|---|
| `JournalLines` | line sequences: totals, `Balanced`, `Draftable`, `Mirror` |
| `Ledger` | the journal, its controls and the requests, a step per database round trip |
| `Books` | the journal as its callers see it: every operation one step or refused |
| `Sums` | `SumOver`: what a query adds up over the rows of a table |
| `LedgerRefinement` | the view of a `Ledger` state as a `Books` state; `ImplementsBooks` |
| `PeriodClose` | close sessions of one period and its lock, statement by statement |
| `Payables` | bills and payments, over `Books` |
| `Recurring` | schedules of expenses and bills and the runs of the scheduler, over `Books` |
| `Inbox` | source events, invoices and their processing, over `Books` |
| `YearEnd` | the close of a fiscal year and its reopening, over `Books` |
| `*Properties` | type invariant, safety, action and liveness properties of each |
| `MC*` with `MC*.cfg` | small instances |
| `*Proofs` | theorems; `BooksProofs` has the lemmas about `Books` that `Payables`, `Recurring`, `Inbox` and `YearEnd` share |
| `SumTheorems` | lemmas about `SumOver`, for the proofs about balances |

The services do not contain the journal of `Ledger` but that of `Books`, whose
operators (`Draft`, `Post`, `Reverse`, ...) constrain the next journal only, so
that a service puts them into the step in which it changes its own tables: that
is what `additionalStatements` of `postJournalEntry` does. `Mirror` and `Handle` are
what staff do with the entries of others: a reversal drafted for a posted entry, and
removing, voiding, posting or reversing under keys that no service uses. `LedgerImplementsBooks`
justifies it: whatever the requests inside the ledger do, what is seen from
outside are steps of `Books`.

Conventions of the specifications: a *request* is one invocation of an
operation. `req[r]` holds its program counter and its local variables, what it
was given and what it has read. Every database round trip is one action, a
`db.batch` is one action that happens entirely or not at all, and `Crash(r)`
(`Evict(r)` in the later modules, where requests are also called workers and
runs) forgets a request at any point. Pure checks between two round trips belong to
the action of the round trip that read their data. A handler that refuses
returns to idle. Operators named as mutants in their comments are plausible bugs
of the definition below them; no run uses them unless a mutation is being
tried.

### `Ledger`

State: `entries` (the row of `accounting_journal_entries` with its lines; an id
handed out by `randomUUID` is used once, so a deleted row is remembered as
`"deleted"`), `idempotency`, `reversals` (the link rows of relationship
`reversal`), the controls `periods`, `locks`, `fiscalYear`, `protective`, and
`accounts`.

| code | actions |
|---|---|
| `createJournalDraft` (one batch), `duplicateJournalDraft` which calls it | `CreateDraft`, `InsertDraft` |
| `recordSplitDeposit`, `recordInKindGift` (draft, then post it under a key derived from its id) | `RecordDeposit`, then posting |
| `updateJournalDraft`, `deleteJournalDraft` (select, guarded batch) | `ReadDraft`, `BatchEdit` / `BatchDelete` |
| `voidJournalDraft` (one guarded update) | `VoidDraft` |
| `postJournalEntry` | `BeginPost`, `ReadPrior`, then `validateJournalEntryForPosting` as `ReadEntry`, `ReadLines`, `ReadPeriod`, `ReadLock`, `ReadProtective`, then `BatchPost`, `Answer` |
| `reverseJournalEntry` | `BeginReverse`, `ReadLink`, `ReadOriginalLines`, `ReadUnfinished`, `InsertReversal`, then posting with the link and the original in the same batch |
| `archiveAccount`, `unarchiveAccount` | `ReadAccount`, `ReadActivity` (vendors and open bills that name the account refuse it or not), `WriteArchive`, `Unarchive` |
| close, period, year-end and integrity services | `SetPeriod`, `SetLock`, `SetFiscalYear`, `SetProtective`: unconstrained writes at any time |

`PostGuard` is what aborts the posting batch: the statement of lines 430-452 that
evaluates to NULL unless version, period, year and lock are as validated, the
primary key of the idempotency table, the foreign key of a deleted entry and,
for a reversal, the unique index on entry links. `SourceFree` is the unique
index on (source_type, source_id), which counts voided rows.

Data abstraction: an entry date is the period it falls in; amounts are small
naturals; line sequences come from `LineSets`; descriptions, funds, actors,
capabilities, events and correlation ids are left out. An account is only active
or not, with its version.

### `PeriodClose`

State: the status of one period, its hard locks (one per session that locked
it), the sessions, their checks by code, the snapshots of each session as the
versions of the session they were taken at, and `issues`, the checks that the
books would not pass now.

| code | actions |
|---|---|
| `createCloseSession` | `BeginCreate`, `InsertSession`, `InsertCheck` for each code |
| `validateCloseSession` | `BeginValidate`, `MarkValidating` (guarded by the version, a miss unnoticed), `EvaluateChecks`, `WriteCheck` for each code, `ReadBlockers`, `FinishValidate` (by id alone) |
| `waiveCloseCheck`, `reviewCloseSession` | `BeginWaive`, `WriteWaive`, `BeginReview`, `WriteReview` |
| `completeCloseSession` | `BeginComplete`, `ReadBlocking`, `ReadSequence`, `InsertSnapshot`, `LockPeriod`, `InsertLock`, `FinishComplete` |
| `reopenCloseSession` | `BeginReopen`, `Unlock`, `ReopenPeriod`, `FinishReopen` |
| `openAccountingPeriod` | `BeginOpen`, `ReadLock`, `BatchOpen` |
| work elsewhere in the books | `ChangeRecords` |

Data abstraction: the core checks are a list of codes of which some block; an
evaluation is one read of `issues`; the figures in a snapshot and the policy
that the reviewer is another person than the preparer are left out.

### `Books` and `LedgerRefinement`

`Books` keeps of an entry its status, date and source. A draft that is still what
it was created as is `"draft"`, one that was changed is `"edited"`; services post
with `expectedVersion: 1` and so take only the first. `accepting` is the set of
dates whose period, lock and fiscal year let a posting through, and moves freely.
`LedgerRefinement` maps the rows of `Ledger` to it: the version tells drafts from
edited drafts, the idempotency table is `keys`, the link is dropped. Validation,
reads and answers are stutters; `BatchPost` is `Post` or `Reverse`.

### `Payables`

| code | actions |
|---|---|
| `createBillDraft`, `submitBill` | `CreateBill`, `SubmitBill` |
| `approveBill`, `rejectBill` (decision row first, then the guarded transition) | `Decide`, `ApplyDecision` |
| `postBill` | `BeginPostBill`, `FindDraft`, `CreateDraft`, `PostBill` |
| `createPayment` | `CreatePayment` |
| `postPayment` | `BeginPostPayment`, `ReadBills`, `FindDraft`, `CreateDraft`, `PostPayment` |
| `voidPayment` with `reverseJournalEntry` | `BeginVoid`, `VoidUnposted`, or `ReadPending`, `ReadOriginal` (the entry, then its link), `FindReversal`, `CreateReversal`, `VoidPosted` |
| ordinary operations of staff on the entries: edit, delete, void, post, reverse | `Staff` |
| opening of periods | `OpenPeriod` |

Amounts are naturals, a bill has one total, and a payment applies an amount to
each bill. A bill of nothing can be entered and approved but not posted: its draft
would have a line of nothing, which the journal refuses (`Draftable`). `worth` is what
an entry credits to accounts payable, which an edit may change (`StaffAmounts`). Lines,
vendors, taxes, attachments, payment methods and check numbers are left out, and so are
entries on accounts payable that staff write from nothing: they have no document to
differ from. The keys of staff (`StaffKeys`) are taken to be other ones than those of
documents, which carry the prefixes of the code.

### `Recurring`

| code | actions |
|---|---|
| start of `processDueRecurringTransactions` / `processDueRecurringBills` | `Begin` |
| per schedule: prior execution, draft, posting or bill, execution row, schedule row | `ReadPrior`, `AdvancePast`, `DraftExpense`, `PostExpense`, `MakeBill`, `Record`, `Finish` |
| the `catch` of the loop | `Catch` |
| `updateRecurringTransaction`, `updateRecurringBillSchedule` changing the status to active, paused or completed | `BeginChange`, `Change` |
| calendar | `Tomorrow` |
| periods; ordinary operations of staff on the entries | `Staff` |

Dates are counted from 1: the distance between two due dates and the arithmetic
of `advance` are left out, and so are changes of date, amount and frequency.
A schedule that users complete before its end has dates left that nothing will make.
`made` counts the bills of a date, which no column does. A posting, a draft or a
bill may also fail for reasons of its references, at any time.

### `Inbox`

| code | actions |
|---|---|
| `wireGivingOfferingToAccounting`, `wireGivingRefundsToAccounting` | `DeliverGift`, `DeliverRefund`, `FindOriginal`, `FindRefund` |
| `postServiceInvoices` | `SynchronizeInvoice`, `ReadResult`, `StoreResult` |
| the treasurer's "Review & post" of an invoice | `ReviewInvoice` |
| `ingestAccountingSourceEvent` | `FindEvent` (a repetition with other facts is a conflict), `Ingest` |
| `processAccountingSourceEvent` | `ReadEvent`, `Resolve`, `Hold`, `MarkPosting`, `FindEntry`, `CreateDraft`, `PostEntry`, `MarkPosted`, `Log`, `Fault` for a statement that fails, and `Except` for `exception()` |
| `updateIntegrationSettings` and the mappings | `ChangeSettings` |
| periods; ordinary operations of staff on the entries | `Staff` |

What an event is worth is left out: its proposal is the account it is mapped to,
and the request hash of its posting is that account, because a proposal that is
resolved differently has another hash. `settings.ready` stands for every check
that puts an event into exception. Events that are ignored, wait for a balance
transaction or concern payouts, disputes and fees take the same path or none and
are not told apart.

### `YearEnd`

| code | actions |
|---|---|
| `executeYearEndClose` with `previewYearEndClose` | `BeginExecute`, `ReadActivity`, `ReadMonths`, `ReadClosingPeriod`, `ReadPrior`, `DraftClosing`, `PostClosing`, `CheckBalance`, `InsertClose`, `CloseYear`, `LockPeriods`, `CompleteSession` |
| `reopenYearEndClose` | `BeginReopen`, `ReadLater`, `Unlock`, `OpenPeriods`, `OpenYear`, `ReadOriginal` (the entry, then its link), `FindReversal`, `CreateReversal`, `PostReversal`, `MarkReopened`, `ReopenSession` |
| ordinary drafts, postings and reversals, of the closing entry too | `DraftOrdinary`, `DraftMirror`, `PostOrdinary` |
| month-end close and reopening | `CloseMonth`, `ReopenMonth` |
| ordinary changes of drafts | `StaffEdit`, `StaffCancel` |

The revenue and expense accounts are one balance, an integer per entry; a period
is a date. Trial balances are the set of entries that was read, from which the
totals follow; the row of a close keeps the one it was stored with (`post`). Mappings of net assets, hashes and policies are left out.

## 3. What the runs check

Every property of a passing run also has a mutant: a named one-line change of the
model, of the kind a slip in the code would be, under which TLC finds the property
violated.

| run | instance | distinct states | shows |
|---|---|---|---|
| `ledger_drafts` | 2 entries, 2 requests, 1 key, balanced and unbalanced lines, versions to 2, crashes | 0.41 M | `TypeOK`, `BooksBalance`, `ReversalsMirror`, `PostedUnderOneKey`, `AnsweredIsPosted`, `BooksAreAppendOnly`, `NoLostEdit` and the refinement `ImplementsBooks` while drafts are edited, deleted, voided, posted and reversed in a race |
| `ledger_periods` | 1 entry, 2 requests, 2 periods with all controls moving | 0.94 M | `PostsIntoAcceptingPeriod`: the barriers tested again in the batch suffice |
| `close_checks` | 1 session, 2 requests, 1 blocking and 1 advisory check, records changing, period opening | 2.46 M | `TypeOK`, `CompletesCompletable`, `WaivesWhatWasSeen` |
| `close_rivals` | 2 sessions, 2 requests, versions to 3 | 1.06 M | `OneActiveSession`, `CompletedHasItsSnapshot`, `LockFollowsSnapshot` under races |
| `close_recover` | a ready session, 2 requests, 2 crashes, fair | 2.9 k | `CompletionRecovers`, `ReopeningRecovers` |
| `payables` | 1 bill of 2, 2 payments of 1 or 2, 4 entries, 2 requests, 2 actors, 2 operations of staff | 3.29 M | `TypeOK` (no negative amount due), `BillsBalance`, `ControlAccountAgrees`, `ApprovedByAnother` |
| `payables_retry` | 1 bill, 1 payment, 3 entries, 2 dates, 2 requests, 1 eviction, fair | 0.12 M | `ApprovedIsPosted`, `StartedVoidEnds` |
| `recurring` | 1 schedule of either kind, 2 due dates, 3 entries, 2 runs, 2 mishaps, fair | 0.41 M | `TypeOK`, `NothingSkipped`, `ExecutionsAreTrue`, `DueIsSettled` |
| `inbox` | a gift and its refund, or an invoice; 2 workers, 1 change, 1 eviction or failure, fair | 1.15 M | `TypeOK`, `BookedOnce`, `InvoiceIsBooked`, `InvoiceSettles` |
| `year_end` | 1 period, 3 entries, 2 closes, 2 requests, 1 mishap | 4.02 M | `TypeOK`, `ReopenedIsReversed`, `OneCompletedClose`, `ClosedYearWasClosedOut`, `ClosedYearIsFrozen` |
| `inbox_refunds`, `year_end_late` | as small as shows them | – | section 5 |

Why the bounds are enough. Two requests are the races: the operations compare
one version, take one key, follow one link, so two contenders exhibit every
order of a read of one and a write of the other. A reversal and its original need
two entries, and the replay of a key needs one key. Versions to 2 or 3 leave room
for an edit before, between and after a validation and its batch; `MaxVersion`
bounds only the version from which edits or validations *start*, and the guard
that names it is the bound's only effect. Two sessions are what an index on active
sessions can confuse. Two payments are what can be paid twice from one amount, and
with partial amounts a bill goes through all its statuses and back; a document has
at most an entry and its reversal, and one of the drafts may be deleted and drafted
again. Two due dates are what a schedule can skip or repeat: the one at hand and
the next. In `inbox` a gift and its refund exclude an invoice, since events of
different sources share the settings only. Two closes rows of a year are one close
and one after its reopening or its failure. The theorems of section 4 remove the
bounds for all the safety properties.

What happens beside the requests is bounded by a number of times: `MaxCrashes`
bounds evictions and `MaxChanges` what staff do (in `Inbox` also changes of the
settings, and `MaxCrashes` failures of the database), while `MaxMishaps` of `Recurring`
and `YearEnd` bounds evictions and what staff do together. Two operations of staff are a reversal
that is drafted and posted, or a draft that is edited and then removed; in `inbox` one
is an edit or a posting that an attempt runs into, and in `year_end` ordinary postings
and reversals are not counted among them.

`year_end` lets two requests execute, reopen, post and reverse at once; its one
period is the closing period, which months close and open. The other periods of a year
only make an execution refuse, and a period after the year only a reopening:
`year_end_late` has both. An ordinary operation is one step of a request that is idle,
since `Ledger` has its round trips apart.

Symmetry: requests run the same code, and the ids of entries, sessions, payments
and closes are opaque, so permutations of each are sound for safety; the liveness
runs use none.

Deadlock is not checked: when all ids are used and all bounds reached, the
system has nothing left to do in the model. A request under way has a next step,
a refusal included, except an insertion when the instance has no id left.

Fairness. In every liveness run a request that is not evicted continues (weak
fairness): an isolate that lives runs on. Evictions have no fairness and are
finite (`MaxCrashes`): no system recovers from being evicted for ever. Beyond that:

* `ReadySpec` (`close_recover`): beginning a completion or a reopening while a
  session allows it is weakly fair, because a user whose close has not succeeded
  presses the button again. The run starts from a validated session (`ReadyInit`).
* `FairSpec` of `Payables`: asking again to post an approved bill and to finish a
  void that left its draft is strongly fair, since the requests that could carry it
  are taken by others from time to time, and periods are opened. `payables_retry`
  has no staff operations: a draft that staff have voided holds its source for ever
  (section 5), so that the properties would fail, as the code does.
* `FairSpec` of `Recurring`: the cron trigger starts runs of either kind again and
  again, and a run or a change that is under way ends. Nobody has to ask for a change:
  `BeginChange` has no fairness. `DueIsSettled` allows that a failure is on record or
  users have paused or completed the schedule.
* `FairSpec` of `Inbox`: the pass over outstanding invoices, which requests for the
  accounting pages make, comes again and again. `InvoiceSettles` has premises:
  `Clear`, that in the end settings, period and journal let the invoice through (an
  entry of it that staff have edited, voided or posted does not, section 5), and
  for the control plane `Alone`, that in the end two passes are not forever at the
  same invoice, because each can put it back to posting before the other has read
  that it is posted, and nothing in the code prevents that.

## 4. What is proved

The theorems hold for every set of entries, requests, periods, keys, hashes,
accounts, sessions, checks, bills, payments, schedules, events and closes, every
bound, and any number of crashes. They assume the named `ASSUME`s of the modules:
`None` is not an identifier, bounds are naturals, `LineSets` holds draftable lines
and the mirrors of its members, the check codes are a non-empty list and the
blocking ones are among them, the sources and keys of the journal contain those
that the service uses, staff use other keys, and some request hash exists. Where amounts are added up,
bills, payments and entries are finite, as rows are; where keys of several kinds
share a table, the prefixes the code gives them keep them apart (`KeysAssumption`
of `Payables`, `YearEndAssumption`). TLC evaluates the assumptions in the runs.

| run | properties of the run that are theorems | that only TLC checks |
|---|---|---|
| `ledger_drafts`, `ledger_periods` | all, the refinement included | – |
| `close_checks`, `close_rivals` | all | – |
| `close_recover` | – | `CompletionRecovers`, `ReopeningRecovers` |
| `payables` | all | – |
| `payables_retry` | – | `ApprovedIsPosted`, `StartedVoidEnds` |
| `recurring` | `TypeOK`, `NothingSkipped`, `ExecutionsAreTrue` | `DueIsSettled` |
| `inbox` | `TypeOK`, `BookedOnce`, `InvoiceIsBooked` | `InvoiceSettles` |
| `year_end` | all | – |

`LedgerProofs`: `TypeCorrect`, `BooksBalanceAlways`, `ReversalsMirrorAlways`,
`OneKeyAlways`, `AnswersAlways`, `AppendOnly`, `PostsWhileAccepting` and
`EditsAreKept`, from `Invariant`. None of the safety properties is inductive: the
batch writes totals computed from lines read earlier, and only the unchanged
version says that those lines are still the entry's. `LocalsSound` states that
argument: what a request has read is the row as it stands *unless the version has
moved on*, in which case `PostGuard` fails. `RowSound` adds what makes a prepared
reversal safe: at version 1 its lines are still the mirror of an original that
never leaves the books; an edited draft has a higher version, and a reversal posts
with `expectedVersion: 1`. The proof shows first that types are kept
(`TablesStep`), then groups the actions by what they disturb: steps that only read
(`QuietIsGood`), steps that change a draft (`DraftedStep`, `OthersStep`: other
requests' reads survive because the version rises) and `BatchPost`.

`LedgerImplementsBooks`, in the same module: initial states map to initial states,
and each action maps to a step of `Books` or a stutter, under `Invariant`. The
interesting steps are those where the ledger acts on what it read: that a guarded
batch changes an entry which is still the draft it was read as.

`PeriodCloseProofs`: `TypeCorrect`, `OneActiveSessionAlways`,
`CompletedHasItsSnapshotAlways`, `LockFollowsSnapshotAlways`,
`CompletesCompletableAlways` from `Invariant`, and `WaivesWhatWasSeenAlways` from a
strengthening of it (`WaiveInv`): the version a waiver has read is at most the
check's, and while it is equal the check is as it was read, since every write of a
check raises the version. In the close nothing is atomic, so the invariant says of
each request under way what its earlier statements have established: a completion
that has inserted its snapshot finds one with its version among the session's for
ever, because snapshots only grow; and while the session has the version that was
read it has a completable status, because sessions only move to higher versions
(`KeptSound`). It is notable that `OneActiveSession` holds although validation
makes a reopened session active again by an unguarded update: the partial unique
index refuses the update.

`BooksProofs`: `BooksInvariant`. A source has one stored entry, and a key names an
entry in the books that no other key names, the two unique indexes of the journal.
Beside it, for each operation of the journal, what the services rely on: what is
posted is never undone, a draft that is still one is as it was created, no key is
taken back (`JournalStep`, `KeysStep`).

`PayablesImplementBooks`, `RecurringImplementsBooks`, `InboxImplementsBooks` and
`YearEndImplementsBooks`, each in the module of its service: every behaviour of the
service is a behaviour of the journal it shares, `XSpec => Spec` with `Spec` that
of `Books`. The services constrain the journal by its operators and frame it
themselves, so that this could fail, for a step that drafts at a wrong date, posts
an entry that is no draft or forgets a variable. Together with
`LedgerImplementsBooks` it is the reason for modelling the services over `Books`:
the ledger does nothing else than `Books`, seen from outside, and the services ask
nothing else of it.

`SumTheorems`: how `SumOver` changes with its function and its set, and that two
sums may be exchanged. The prover can not instantiate an induction theorem that
takes a predicate; induction is stated here with a set in its place
(`SetsInductively`), which is first-order, and shown from the well-foundedness of
the naturals and the theorems about cardinality. The sum is a fold of the
community modules, and `FoldDefined` shows that their recursive function exists on
finite sets, whichever order it picks the elements in.

`PayablesProofs`: `ApprovedByAnotherAlways` from `PayablesInvariant`. The approval
is in the table before the status of the bill is looked at, so the invariant says
that a request between the two has its decision on record, by someone other than
the creator, and that bills only move to `approved` through such a request.
`BillsBalanceAlways`, `ControlAccountAgreesAlways` and `PayablesTypeCorrect` follow
from `AccountsInvariant`. The balance of a bill is not inductive alone. Posting a
payment adds to what its bills have paid, which is right only if the payment was
not among the posted ones before: `Linked` ties the status of a payment to its
entry and its key, so that a payment whose key is free has posted nothing, and
`Reads` says that a request which is about to post or void one still finds the
status it has read unless the version, which the batch compares, has moved on.
That no bill is overpaid (`NotOverpaid`, the CHECK on `amount_due`) is a guard of
the posting batch, and the other direction, that a void gives no bill more than
was paid, is a consequence of the balance. For the control account, what the
entries in the books put on it is a sum over bills, payments and what staff have posted
themselves, the entries told apart by their keys (`StaffBeside`); what the bills owe is a
sum over bills of sums over payments, and the proof exchanges the two. The theorem is
that the account differs from the subledger by the postings of staff exactly. It does
not say that there are none: the code lets staff reverse what was posted for a bill.

`RecurringProofs`: `TypeCorrect`, `NothingSkippedEver`, `ExecutionsAreTrueAlways`
from `RecurringInvariant`: a run that is about to write an execution or to move a
schedule has made what the date is due (`Works`), the dates before `next` are
settled, and a run's old date is never beyond what is settled, so that even a
schedule that is moved back by an overtaken run skips nothing. A change by users writes
back the `next` it has read, of which the same holds, whatever status it sets.

`InboxProofs`: `TypeCorrect`, `BookedOnceAlways`, `InvoiceIsBookedAlways` from
`InboxInvariant`: an entry with the source of an event is the only one, a key of an
event names an entry of that event in the books, and a worker about to mark an event
posted, or to store it as posted in the other database, has seen it there.

`YearEndProofs`: `ReopenedIsReversedAlways` from `YearEndInvariant`: a request that
is about to mark a close reopened carries the entry that the close names, and that
entry is reversed, which no step undoes. `YearEndTypeCorrect` is proved from it, and so is
`ClosedYearIsFrozenAlways`, which has nothing to do with what the requests have
read: whatever is booked, a reversal included, is booked at a date that accepts
postings, and a closed year has none.
`OneCompletedCloseAlways` and `ClosedYearWasClosedOutAlways` are from `ClosesInv`: the
unique index lets one row be completed, a row is completed with a trial balance of
entries in the books that add up to nothing, which stay in the books at the amounts
they were posted with, and a request that is about to close the year has stored such a
row. That the year is *still* closed out when it is closed is no theorem, because it is
false: nothing in the code makes the balance that was checked the balance of the year
when it is closed (`year_end_late`).

Only model-checked: the liveness properties of the table above. They depend on
fairness, hence on `ENABLED`, which the prover does not handle. The two runs of
section 5 are counterexamples and have nothing to prove.

## 5. Where the code departs from what the repository says

Shown by runs, quoted in `PROJECT.json`:

* `inbox_refunds` – a refund is posted to the revenue account of its gift only if
  the gift was ingested when the refund was delivered and booked when the refund is
  processed; otherwise the account of the current mapping is used.
* `year_end_late` – an entry posted between the last trial balance of a year-end
  close and the closing of the year is in the closed year and in no closing entry.

Met while modelling. The steps are in the models, and properties stating what the
documents say of them would fail:

* a reversal draft left by a request that stopped before its batch can be posted by
  the ordinary posting operation: the books then hold a reversal that is not linked,
  and the original is still `posted`;
* once an unfinished reversal draft is voided, the unique source index refuses every
  new reversal of that entry, although a message of `assets/corrections.ts` advises
  exactly this; the same holds for the voided draft of a bill, a payment, a gift or
  a due date;
* a reopening of a month that has read a completed session opens the period even if
  the session has been completed again since; a validation begun before a completion
  sets the completed session back; a creation that stops between its inserts leaves
  a session that completes without a critical check; a completion that lost its
  version still locks the period and reports success;
* the draft of a bill or payment that is posted by the ordinary operation is in the
  books, and the bill can not be posted any more; the posted entry of a bill that is
  reversed by it leaves the bill with its amount due, and the control account differs
  from the subledger from then on, which `docs/accounting/01-accounting-philosophy.md:711`
  says it never does (the `PostedByStaff` of `ControlAccountAgrees`). A payment whose
  entry was reversed that way can not be voided any more;
* an invoice whose entry staff have edited or posted themselves is an exception for
  ever: each pass finds the entry by its source and is refused by its version or its
  status (`Clear` names this as something in the way);
* a schedule that users complete while dates are left makes none of them, even when
  they were due;
* a run of recurring bills that stops between a bill and its execution row is
  repeated with a second bill; a schedule paused while its posting is made is active
  again afterwards; a failure may be written over an execution that another run
  recorded as posted;
* a gift whose processing stopped between draft and posting stays an exception on
  every redelivery: only invoices look for an earlier attempt;
* a year-end close evicted between its closing entry and its row is repeated with a
  row that names no entry, whose reopening reverses nothing; evicted after the row,
  it is never closed; a reopened year with new activity can not be closed again,
  since the reversed closing entry still holds the source of the year; once staff have
  reversed the closing entry by the ordinary operation, every reopening opens the year
  and then refuses;
* a reopening between the row of a year-end close and the closing of the year leaves the
  year closed and locked, with its close reopened and its closing entry reversed, which
  no further reopening accepts: that a closed year has a completed close does not hold
  for two requests, and the project claims only that one was completed
  (`ClosedYearWasClosedOut`);
* posting does not test the protective state or the accounts again in its batch; a
  deposit repeated by a client after a lost answer is a second deposit.

## 6. What is not modelled, and why

* Bank reconciliation. Its writes compare nothing with what was read: a match is
  inserted without testing again that its bank line is unmatched, and a session is
  completed by its id from a summary computed before. For concurrent requests
  nothing about matches or completed differences holds, and for one request at a
  time it is arithmetic.
* Close adjustments, commerce accounting and fixed assets: sources of postings of
  the same form as those modelled, a draft, a posting and a row of their own. The
  first two would repeat `Inbox`, the third `Payables`.
* A client of the ledger's interface that gives a draft of its own the source of a
  document, or uses the key of one: the models let staff write under their own only.
* Payment runs, check numbers, vendors; the creation of schedules and the arithmetic
  of due dates; fee coverage, backfills and the replay of retired fee postings.
* The integrity scanner: a long read. What it calls critical is in the properties.
* Provisioning, recovery, portability and closure: sagas over whole databases, files
  and an external API, before or after the books are in use. They share no state
  with the modelled parts except write barriers, and would be the next components.
* Claims of webhook events: `Inbox` takes every event any number of times at once,
  which is weaker than anything the claims promise.
* Reports, budgets, imports, parish life, learning, identity, routing, the browser
  applications, tests and tooling, for the reasons in section 1. They are most of
  the repository's lines, which is why the share of it that is mapped is small
  although the accounting core is covered in depth.
