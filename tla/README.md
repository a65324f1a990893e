# Pravia: specifications

Pravia runs the office of a Mexican notary: quotes, files, parties, documents,
money, archive, compliance and an AI assistant, for many organizations on one
installation. The backend (`src/backend`, TypeScript, Express, Prisma on
PostgreSQL) holds the program's logic; the frontend (`src/frontend`, React)
presents it. This directory specifies the parts of the backend where the order
of events decides whether the data stay right: where several requests, worker
processes, webhooks and clocks act on the same rows, and any of them may die in
between.

* `AiWallet`, `Billing`, `AiGateway`, `PrepaidAccount`: the prepaid AI balance
* `JobQueue`: background jobs claimed by workers under leases
* `Outbox`: domain events and their handlers
* `StorageAccounting`, `TrackedStorage`: the storage quota, and files kept in an
  object store
* `FinancialMovement`, `ExpedienteFinance`: the ledger of movements, their bank
  lines, and the incomes and payment requests settled with them
* `Invoicing`: fiscal documents, their files, accounts and payments
* `Prospects`, `Quotes`, `CaseBudget`: from a prospect through its quote to the
  budget of an expediente
* `Totals`: sums over functions, with their lemmas in `Totals_proofs`
* `*_proofs`: theorems; `MC*`: small instances for TLC

## 1. Inventory

Paths are relative to `src/backend/src`. `PROJECT.json` lists every component
with its sources, and every hazard with its line.

### AI wallet (`platform/aiWallet.service.ts`)

*State:* per organization one row of `ai_wallets` (balance), ledger rows
(`ai_wallet_transactions`), reservations with an expiry, usage events.
*Operations:* reserve, claim for execution, settle, release, manual top-up.
*Interactions:* called by the gateway for each request and by billing for each
paid webhook. *Hard:* two requests reserve from one balance; a hold expires
while its provider runs; a retry finds the reservation of the first call in any
state. Each method is one SERIALIZABLE transaction that locks the wallet row.
*Right when:* balance = sum of the ledger; a reservation is debited once and
only when settled; holds are covered by funds.

### Billing webhooks (`platform/billing.service.ts`)

*State:* `billing_events` by provider event id, storage add-ons, the storage
entitlement, billing cycles, the current period of the subscription.
*Operations:* top-up, paid add-on, paid cycle, refund and chargeback.
*Hard:* webhooks are delivered twice, late and in any order. *Right when:* an
event has an effect exactly once, and a reversal takes back what was given.

### AI gateway (`platform/aiGateway.service.ts`)

*State:* the local variables of each execution, over the wallet's rows.
*Operations:* one long method, with an await at each step: reserve, claim, try
the candidate providers, price, settle; on any error release, and record a usage
event of unverified cost. *Hard:* the process may die, the acknowledgement of a
commit may be lost, and the hold may expire at each await; some callers send two
requests under one trace. *Right when:* a key reaches a provider once, what is
delivered is paid and what is debited was delivered, every external call leaves
evidence, and no hold is kept for ever.

### Background jobs (`platform/backgroundJobs.service.ts`, `platform/platformWorker.service.ts`)

*State:* `background_jobs` (status, attempts, owner, lease) and the local state
of each worker. *Operations:* enqueue, claim, heartbeat, complete, fail; the
worker's run of a claimed job. *Hard:* claims that run together; workers that
die, that pause beyond their lease, or that do not learn that their completion
was committed. *Right when:* one worker runs a job, ended jobs stay ended, every
job ends, a tenant keeps to its share.

### Domain event outbox (`services/domainEventOutbox.service.ts`, `events/`)

*State:* `domain_event_outbox`, a processing log per event and handler, the
batch each process holds. *Operations:* claim a batch, then for each event and
handler look at the log, run, log, and settle the event. *Hard:* slow batches
outlive the five-minute lock; a handler and its log do not commit together; one
of several handlers fails. *Right when:* PROCESADO means that every handler took
effect, and every event gets there or uses up its attempts.

### Storage (`platform/storageAccounting.service.ts`, `storageEntitlements.service.ts`, `trackedStorage.service.ts`)

*State:* bytes in use and on hold, capacity, reservations and ledger; the
locations and references of objects; and the objects themselves, in a store
outside the database. *Operations:* reserve, commit, abort, count a delete, buy
an add-on; upload, link, delete. *Interactions:* called by migrations, exports
and every controller that takes a file. *Hard:* no transaction spans the store
and the database, each upload is four awaits with a clean-up of three more, an
import repeats its key, and two workers may run one item. *Right when:* bytes
are counted once and within the quota; what is available is stored and charged;
what is charged can be found; what is referenced is kept.

### Finance (`services/financialMovement.service.ts`, `expedienteFinance.service.ts`, `bankReconciliation.service.ts`)

*State:* movements with their distribution, receipt and counter-movement; bank
lines and their matches; the reported incomes and payment requests of an
expediente; the AI's proposals about them. *Operations:* draft, distribute,
issue a receipt, apply, cancel, reverse; match a line; apply an income, pay a
request, void either, accept a proposed amount. *Interactions:* settling a record
creates an applied movement in the same transaction; two routes of
`controllers/expedientes.controller.ts` write movements beside the service.
*Hard:* each operation takes an advisory lock of its own name, reads, and writes
by id, so that two operations on one row overlap. *Right when:* what is applied
is fully distributed, an amount is given back once, a line is matched once, and
a record is settled by one movement for good.

### Fiscal documents (`services/financeFiscal.service.ts`)

*State:* documents from draft to prefactura, or imported from an XML; versions
and files; one account and its payments per document; the income whose amount
the drafts share. *Operations:* create, edit and delete a draft, render it,
import an XML, apply a payment. *Hard:* drafts of one income are written at once;
edits and payments of one document hold different locks; files are stored before
the commit and removed after a failure. *Right when:* accounts add up to their
payments, drafts stay within their income, committed documents keep their files.

### Prospects, quotes and the expediente's budget (`services/prospectWorkflow`, `cotizacion*`, `quoteBudget`, `quoteAIProposal`, `expedienteBudget`)

*State:* a prospect's stage; its quote with acts, concepts, versions and
transitions; proposals of the assistant; the budget of the expediente and its
PDFs. *Operations:* the actions of the two workflows, both conversions, saving a
budget, attaching an act, applying or discarding a proposal, rendering a PDF.
*Hard:* stages, budget, proposals and acts are guarded by four different locks or
none, though each asks for the stage; the PDF is read by two queries and recorded
much later. *Right when:* what was accepted is what becomes the expediente, a
proposal is decided once, and a document shows the version it names.

### Not modelled

| Component | State and operations | Why it is left out |
|---|---|---|
| Storage compensation (`workers/storageCompensation.worker`) | clean-up candidates; claim, verify ownership, delete | next on top of `TrackedStorage`, whose property to keep is `ObjectsKept` |
| Tenant migration, export, backup (`platform/`) | steps with checkpoints run by jobs | their use of jobs and of storage is modelled; what they copy is the whole schema |
| Authentication and tenant context (`auth`, `middleware`) | sessions, roles, the actor of a request | every modelled operation starts from a request that was admitted |
| Files (`services/expedienteWorkflow`, `Parties`, `Seguimiento`) | stages, parties, follow-up | the gates read parties, documents and compliance; without those tables a model would admit everything |
| Archive numbering (`services/archivo`) | folio sequences | one statement under a unique index |
| Compliance (`services/complianceH5`, `H6`, `complianceScreening`, `complianceLegalEngine`, `beneficialController`) | screening queries, controllers, legal rules | mostly legal data and questionnaires; the screening's retry is worth a module |
| Parties intake (`services/compareciente*`) | intake session and its temporary documents | to be modelled with the compensation of its documents |
| Assistant (`services/assistant*`) | messages, proposed actions | its gateway requests are in `AiGateway` |
| Documents (`services/openaiDocument`, `projectGeneration`) | prompts and layout around gateway calls | text and layout, which no state space describes |
| Controllers, routes, frontend | request handling, presentation | no state of their own; the outbox timer of `index.ts` is in `Outbox`, two finance routes in `ExpedienteFinance` |

Within the modelled components these are left out: internal transfers
(`createInternalTransfer`), agreed fees, REP documents, stamping (the only
provider of this build refuses, `cfdiProvider.ts:90`), the movement a payment of a
document may name, the quote's own rendered document, quotes older than the
workflow (without a stage), and `executeIncluded` of the gateway.

## 2. Plan

1. Wallet, billing, gateway: done, every safety property and both refinements
   proved.
2. Job queue: done, every safety property proved.
3. Outbox: done, every safety property proved.
4. Storage accounting and tracked storage: done, every safety property proved.
5. Finance movements and settlement; fiscal documents; quotes and budgets: done,
   every property of their passing runs proved.
6. To follow: the compensation worker on top of `TrackedStorage`, migration,
   export and backup as handlers on top of `JobQueue`, sessions, screening.
7. Proofs to follow: those of the modules under 6. Of the modules there are, only
   liveness is left to TLC.

Composition: `Totals` <- `AiWallet` <- `Billing` <- `AiGateway` by EXTENDS, each
adding its variables and actions to the one below. `PrepaidAccount` is the
abstract specification of the wallet, instantiated in `Billing`.
`Totals` <- `StorageAccounting` <- `TrackedStorage` likewise: the tracked storage
adds locations, objects and callers to the transactions of the accounting.
`FinancialMovement` <- `ExpedienteFinance`: records and their settlement over the
ledger. `Prospects`, `CaseBudget` <- `Quotes`: the quote is what joins the two.
`JobQueue`, `Outbox` and `Invoicing` share no variables with the others;
`Invoicing` has the columns it reads of an income, with the operations that
change them, and adds amounts up with `Totals`.

## 3. Modules

### Wallet and billing

`AiWallet` has one variable per table, indexed by the column its unique index is
on. One action per method: `Reserve`, `Claim`, `Settle`, `Release`,
`ApplyTopup`; `RecordUsage` is the usage event the gateway writes by itself and
`Expire` the clock passing the expiry of a hold. A transaction is an atomic
step because the code runs it SERIALIZABLE under a row lock and retries only
what was rolled back. One organization is modelled: no row is shared between
organizations. Amounts are unbounded integers, as BIGINT columns and bigint
arithmetic leave them for any amount of money.

`Billing` adds the tables webhooks write and one action per event type. A
repeated event id writes nothing, and so is a stuttering step. Validation that
fails before the first write is left out.

`PrepaidAccount` is what the wallet promises, in a page: funds move once per
posting key, by the amount of that key, never below zero, and never for a key
that was closed.

### Gateway

`AiGateway` keeps one record per execution: `pc` is the await the method is
suspended at, the other fields are its locals. Each step does what the code does
up to the next await; `SettleStep` has two outcomes, since a commit may succeed
without its caller learning of it; `Crash` ends an execution anywhere. Each write
of the error path may fail as well: the REJECTED event, whose failure takes the
place of the error that led to it (`RejectStep`), the release and the event of the
unverified cost, whose failures are swallowed (`ReleaseStep`, `RecordStep`). The
history field `lost` says that the last of them failed.
`TraceOf` and `After` are what callers send: a trace per key, and the key whose
answer a caller waits for, as the chat does between planning and synthesis.
Configuration checks before the first write are left out. `executeIncluded` is
not modelled: no operation in the repository is billed that way through it.

### Job queue

`JobQueue` has the rows of `background_jobs` and the workers. A claim is two
steps, `BeginClaim` and `FinishClaim`, because the statement takes its snapshot
when it starts, and then waits for the advisory lock. `fail` is two steps for
the same reason: it reads by owner and writes by id. A lease may end while its
worker lives (`LeaseExpires`); the history field `overrun` remembers that it
did. Backoff is taken to have passed when a job is looked at, and the choice
among candidates is free, which includes the order the code uses.

### Outbox

`Outbox` has the rows, the processing log, and each process's place in its two
nested loops. `effects` counts how often a handler returned for an event, and
`overrun` marks events whose lock grew stale in the hands of a live process;
both are history and no guard reads them. `Polled` is the set of events whose
type the server's timer asks for. As in the code, the log of a handler and the
outcome of an event are written by id, whoever holds the event by then.

### Storage

`StorageAccounting` has the rows of the quota and one action per transaction:
`Reserve`, `Commit`, `Abort`, `CountDelete`, `ActivateAddon`. A reservation is
known by its object, since its idempotency key is a digest of the object's key
and content. The reserve and abort rows of a temporary object move no bytes and
are not told from no row.

`TrackedStorage` has the object store (`stored`), the locations, references and
registered documents or artifacts, and where each call is suspended (`at`). Its
steps are the awaits of `uploadFile` (`upload` does the same from memory), `delete`
and `linkReference`, and of two callers: the import of a migrated document and an
export artifact with its clean-up. Each step has the outcomes its await may have:
done; refused or failed without effect; done, with the answer lost; and a call
may die at any of them. `Tasks` says what the calls are asked to do. `shared` and
`lost` are history: objects that two imports handled at once, and objects about
which the answer of a commit, or of a deletion in the store, was lost. The code
has no defence against either, and the properties say which of their promises
survive: references survive imports that run together, the charge and the quota
survive everything.

### Finance

`FinancialMovement` has the rows of the ledger and, per session, the transaction
it has open. `Open` is the advisory lock of an operation on a row together with
what the operation reads under it; `Close` ends it. Each method is a `Read...`,
with the guards of the code, and a `Commit...`, which writes by id alone what the
code writes by id. Transactions are READ COMMITTED, so a commit may find a row
that is no longer what was read; only constraints of the schema refuse it. A
distribution is kept as its sum, the only thing a guard compares.

`ExpedienteFinance` adds incomes and payment requests, in one table with a
`naturaleza`, since the two services differ only in the names of their states
and in where the settled amount comes from. `Write` is a write under the check
constraints of the two tables. `Settle` is both `applyIncome` and `payRequest`:
the movement and the record in one transaction.

A movement that `addMovimientoFinanciero` creates for an expediente waits for a
distribution it is never given: the central service refuses movements of an
expediente. A receipt that was annulled cannot be issued again, because
`movimiento_id` is unique. Both dead ends are in the model as they are in the code.

### Fiscal documents

`Invoicing` has one row per document with its versions, one account per document
(receivable or payable, by its direction), payments, and the object store. Locks
are sets of keys, since a draft of an income locks the document and the income.
`CommitFileUnheard` is a commit whose answer is lost: the caller removes the
files of a document that exists; `perdida` remembers those, and is named in the
property. `tope` is the largest amount an income has had: an amount may be
lowered when it is validated, and the drafts made before stay as they are.

### Quotes

`Prospects` is the prospect's workflow; each action is a step, since one lock per
prospect covers all of them. `Quotes` keeps what each open request has read in
`tx`; `LockFree` is the advisory lock of a kind of operation (`COT001` the
workflow, `PRESUPUESTO` the editor, `IA` the decision on proposals; attaching an
act takes none). Concepts are rows that a save deletes and inserts: a writer
deletes the rows it sees, and so two writers with different locks may leave both
sets (`Replaced`). `CaseBudget` is the budget of the expediente: a save is one
step, a PDF is read, rendered and recorded in three. Any error of the transaction
that records a PDF removes its file, or tries to (`DiscardUpload`), and one such
error is the lost answer of a commit that went through (`RecordUnheard`): the
document stays without its file. `oido` says of each document whether its commit
was heard, and the property promises the file of those only.

## 4. Runs

| Run | Instance | Shows |
|---|---|---|
| `MCBilling` | two keys, three webhooks | balance, ledger, usage, holds, payments and entitlement agree in every order; the wallet implements `PrepaidAccount` |
| `MCAiGateway` | three calls on two keys, one payment | executed once, an answer is delivered exactly when it is paid for, evidence kept unless its last write failed, an unexpired hold finds its funds |
| `MCAiGatewayLive` | two calls, two candidate providers, fallback | the gateway uses the wallet as `Billing` admits; calls end, holds drain |
| `MCJobQueue` | two workers, two jobs of a tenant | types, ownership, one runner, no stranded job without an overrun, every job ends |
| `MCOutbox` | two processes, an event with two handlers and one with none, batches of two | PROCESADO is handled, effects bounded by claims, sharing only by overrun, every polled event settles |
| `MCStorage` | three calls: three imports of a document; two of it and one of another; or an export and two removals | usage is what the reservations say and within the quota, available objects are stored and charged, charged ones located, referenced ones and documents kept |
| `MCFinance` | two sessions, three movements, one record, one proposal, one bank line | types, one reversal in force, a line matched once, a record settled by one movement, for good |
| `MCInvoicing` | two sessions, two drafts on an income or one import, two payments, two files | accounts follow payments, drafts within their income, committed files kept |
| `MCQuotes` | two requests, two acts, two proposals, one captured budget | each link from prospect to expediente backed by the one before, a PDF shows its version and has its file if its commit was heard, decisions stay |

Runs that TLC must refute, each against something the repository says:

| Run | Property | What happens |
|---|---|---|
| `MCAiGatewayChat` | `EvidenceUnlessLost` | with no write failing, the second request of a chat message has its usage event refused by the unique index on the trace, after the provider ran |
| `MCFinanceEdit` | `AppliedIsBalanced` | a distribution is replaced while its movement is being applied, and the applied movement is not fully distributed |
| `MCQuotesBudget` | `AcceptedBudgetKept` | a save that found the quote open commits after its acceptance |

Other behaviour the models show, for which no run is kept:

* a refund and a chargeback of one top-up both debit the wallet;
* a provider fails, the database fails in the write of the unverified cost, and the
  error of that write is swallowed: nothing says that there was a call, although
  `AI_BILLING_POLICY_APPROVED_20261017.md:3` asks for evidence of every one
  (`EvidenceKept` names these calls as its exception);
* a claim that waited for the lock counts a tenant's running jobs in the snapshot
  from before, and the tenant exceeds its share; a late `fail` leaves a job in RETRY
  without attempts;
* `ExpedienteFirmado` is emitted and has handlers, but no timer asks for it, and it
  stays pending (`Polled` holds the types that one asks for);
* a batch slower than five minutes is claimed by a second process, and an event
  whose process dies in its last attempt is not claimed again;
* imports that run together on one object may remove what another of them refers
  to (`ObjectsKept` exempts such objects);
* a PDF of the expediente's budget whose commit was not heard loses its file, and a
  retry with the same key is answered with that document;
* an edit of a draft that has payments writes its whole total as the document's
  balance again, while the account keeps its own;
* a prefactura may be rendered from a draft that is edited before it is recorded;
* an act attached during the acceptance stays unconfirmed, and the accepted quote
  can no longer be converted;
* two saves under two locks leave the concepts of both;
* an accepted proposal changes the amount of a request that is already paid.

The outbox runs a handler again when the process dies between the handler and
its log. `EffectsBounded` states what remains of the "strict idempotency" that
the service's comment names: at most one effect per claim, so at most
`MaxAttempts`.

**Bounds.** Nearly everything is finite by the constants alone: keys, payments, calls,
jobs, workers, events and processes are used once or a bounded number of times
(attempts), and each passing run covers all the reachable states of its instance. Two of each kind is where the interleavings
are: two holds on one balance, two claims of one row, a worker and its
successor. The third call of `MCAiGateway` is the retry that arrives when a
first call is still running and a second one has failed. Amounts are chosen so
that the balance suffices for one request and not for both, and sizes so that
the capacity takes one document, or both once the add-on is bought. Two
sessions are where two operations overlap; the third movement of `MCFinance` is
the counter-movement of a second reversal, or the second settlement of a record.
What else could grow is bounded in guards: `MaxVersions` (1) versions of a
prefactura and `MaxCfdi` (2) documents at once in `MCInvoicing`, and in `MCQuotes`
`MaxVersion` (2) versions of the expediente's budget and `MaxEventos` (5)
transitions: exactly creation, elaboration, sending, acceptance and conversion,
or as many others. Ids that no action distinguishes (calls,
sessions, movements, payments, files, proposals) are symmetric, except in the
run that checks liveness.

**Deadlock** checking is off in all runs: keys, events and attempts are used up,
and then the system rightly stops.

**Fairness.** `GatewaySpec`: weak fairness of each execution's steps, since
provider calls have a timeout (`aiGateway.service.ts:185`) and every other await
is a database call; and of the clock that expires holds. Crashes are never
required. `FairQueueSpec`: workers keep asking for jobs, claimed jobs run to
their end, and time passes. `scripts/platform-worker.ts` leaves its loop when
there is no job and on the first error, so "workers keep asking" assumes that
something outside the repository starts it again; without it nothing can be
promised. `FairOutboxSpec`: the two-second timer of `index.ts` keeps firing,
handlers return or throw, and time passes.

## 5. Proofs

For all values of the constants, infinite sets included, from the assumptions
named in the modules (positive amounts, prices and limits; `None` apart from
the values it stands beside):

* `Billing_proofs`, about `BillingSpec`:
  - `TypeCorrect`: `TypeOK` is inductive; that the balance stays a natural number
    rests on the guards of `Settle` and `ReverseWalletPayment`.
  - `DebitCorrect`: `DebitMatchesReservation` is inductive with `TypeOK`. Only
    `Settle` writes a row of a request; `KeysApart` keeps the rows of requests,
    webhooks and manual top-ups from being each other's.
  - `PaymentsCorrect`: a row and its event are written in one step, and an
    event that was applied is never written again.
  - `BalanceCorrect`: besides `LedgerBalanced` the invariant needs
    `LedgerFinite`, that at any time the ledger holds finitely many units, without
    which its sum is no number. `PostBalanced` shows that a posting moves the
    balance and the sum alike.
  - `EntitlementCorrect`: needs that an event which was not applied has no add-on
    row (`AddonsApplied`), so that a late or repeated webhook adds its row once.
  - `HoldsCoveredCorrect`: `HoldsCovered` is inductive with the types,
    `DebitMatchesReservation` and `PaymentsPosted`. `HoldRows` says what one row contributes to each of the
    three sums; every step changes one row, and the lemmas on sums do the rest: a
    hold begins under the balance that is left, and what ends it takes its funds
    along or leaves them as late charges or as taken back.
  - `WalletImplementsAccount`: each step of wallet and billing is a step of
    `PrepaidAccount` under the mapping of `Billing`, or a stutter.
* `Billing_proofs` goes on about `GatewaySpec`. `GatewayUsesWallet` shows that each
  step of the gateway is a step of `BillingSpec` or leaves its tables alone, so
  that everything proved of the wallet holds under the gateway
  (`GatewayKeepsAccount` names the two results that matter most). The invariant is
  `CallInv`: what a program counter says of the reservation of its key
  (`HoldOfCall`), that one call at most has claimed a key (`OneClaimant`), that a
  settled key has a call which settled it and can no longer forget the answer
  (`SettledByCall`), and that usage events carry the trace of their key. From it
  follow `ExecutedOnceCorrect`, `DeliveredIsPaidCorrect` and, with `HoldsCovered`
  and `TotalRow`, `UnexpiredHoldPaysCorrect`. `EvidenceCorrect` proves
  `EvidenceKept` for any assignment of traces to keys: events are never deleted, so
  only the steps that end a call matter, and each writes an event, is refused by an
  index because of one, or fails in the last write. `EvidenceKept` is weaker than
  what the billing policy promises in two ways: it exempts a failed last write, and
  an event that another key with the same trace took the place of; for the second
  `MCAiGatewayChat` shows that it must.
* `Totals_proofs` has the lemmas on sums: `Totals` defines the sum of a column as
  the number of its single units, so that the theorems on finite sets apply
  and no induction is needed.
* `JobQueue_proofs`, about `QueueSpec`: `QueueTypeCorrect` and `OwnerCorrect`. The
  type invariant is strengthened by `Located`, that a worker which holds a job
  knows which. `OwnerIsCurrent`, that a worker which still owns its row runs that
  row's latest claim, is then inductive: a claim is the only step that raises
  the attempts of a row, and it makes the claimant the owner in the same write.
  `OneRunnerCorrect` and `StrandedCorrect` follow from `LeaseInv`: a row that was
  never held beyond its lease belongs to the worker that holds it, is leased
  to it or just completed by it, and what `fail` read of its attempts is still
  true when it writes (`HeldRow`). Two workers with one job would both own its row.
* `Outbox_proofs`, about `OutboxSpec`: `OutboxTypeCorrect` and
  `ProcessedCorrect`. The type invariant is strengthened by `LoopOK`, that inside
  its loops a process has an event and a handler. `ProcessedIsHandled` needs
  `HandledInv`: a log that is COMPLETADO belongs to a handler that took effect
  (`LoggedIsDone`), and while `ok` is true each registered handler has taken
  effect, is still to do, or is in progress (`AccountsOK`). Both speak of
  effects, which only grow, and so survive a second process on the same event.
  `EffectsBoundedCorrect` and `SharedByOverrunCorrect` follow from `ClaimInv`. Neither
  property is inductive: `ClaimsCover` counts, besides the effects of a handler,
  the processes whose claim still entitles them to run it, and bounds both
  together by the claims of the event; `HandsLocked` says that an event in
  someone's hands is locked and fresh until its lock is overrun.
* `TrackedStorage_proofs`, about `TrackedSpec`: `QuotaCorrect` and
  `ChargeCorrect`. `QuotaKept` is inductive with the types of the columns: only
  `Reserve` raises the sum of bytes in use and on hold, and it compares that sum
  with the capacity; a commit moves bytes from one column to the other.
  `AvailableIsCharged` is strengthened to `Charged`: an object stays charged while
  its delete is under way, because a store that refuses makes it available again,
  and a delete row exists only for a committed reservation.
  `UsageCorrect` states the counters as the sums of three columns (`Held`, `Used`,
  `Gone`), of which every transaction changes one row. `ObjectsKeptCorrect` and
  `ChargedIsLocatedCorrect` share `StoreInv`: what a suspended call relies on about
  its object (`Relies`), what two calls on one object may not both be doing
  (`Apart`), and what holds of each object (`ObjectOK`), where a location whose
  bytes were taken off stays closed. An object that is exempt, because imports
  ran together on it or an answer about it was lost, is exempt for good.

* `Finance_proofs`, about `FinanceSpec`: `FinanceTypeCorrect`, `SettledCorrect` and
  `SettledStaysCorrect`. `SettledByOneMovement` is not inductive, because a commit
  writes a row it has not read again. `SettleInv` adds what keeps that safe: a
  record that a session is about to settle can meanwhile only have been voided
  (`Awaiting`); at most one session
  settles a record by one operation (`OneSettler`); rows obey their constraint and
  agree with their movement (`Consistent`, `Matched`); a movement with a key is in
  force or reversed (`Keyed`); and records and movements name each other
  (`Paired`). `Edited` says what every other step may do to a movement, so that
  all of them are dealt with by one lemma.
  The ledger follows, with `OneReversalCorrect` and
  `BankMatchedCorrect`. To `SettleInv` the invariant `LedgerInv` adds what an open
  transaction relies on until it commits (`Relies`), that no two of one kind hold
  the lock of one row (`OneHolder`), that a counter-movement mirrors its movement
  (`CounterOK`), that one of them is in force (`OneInForce`), and that matches and
  the states of bank lines agree (`BankOK`). The two reversals take different
  locks; what keeps them apart is that one is for movements of an expediente and
  the other for the rest, which no step changes. Steps are sorted into five kinds
  (`Reads`, `Fills`, `Edits`, `Reverses`, `Matches`), each with one lemma.
* `Invoicing_proofs`, about `InvoicingSpec`: `AccountsCorrect`, `ReservedCorrect` and
  `FilesKeptCorrect`. The first two share `InvoicingInv`: what an open transaction
  read and still finds because every change of it takes one of its locks
  (`Relies`), that a lock has one holder, that the amount a draft is about to take
  fits beside all other drafts (`Fits`), and that a document that is gone has left
  no account and no income behind (`DocumentsOK`). Reads are dealt with by one
  lemma (`OpensKeeps`), and so are commits (`WritesKeeps`): `Writes`, `RowOK` and
  `KeepsRoom` say what a commit may do to its document, and each commit is shown
  to do no more. Only the paid amount is safe under the payment's lock: total and
  balance may change under an edit, and then it is the constraint of the account
  (`AccountOK`) that refuses what was computed from the old ones. `FileInv` says
  that the file of an open transaction is in the store and no document's or
  other transaction's, so that whoever fails removes only a file of its own.
* `Quotes_proofs`, about `Spec` of `Quotes`: `ConversionIsBackedCorrect`,
  `DecisionStaysCorrect` and `PdfShowsItsVersionCorrect`. `ConversionInv` holds the
  types, what a request read under its lock and still finds (`Relies`), that
  a lock has one holder, the links from prospect to expediente (`Linked`), that the
  last version is the approved one, and what an expediente was opened with
  (`Backed`). Acts attached under no lock do not break it, because a conversion
  writes the acts it compared and confirmed acts are never taken away. `PdfInv`
  relates a rendered file to a version between the one first read and the last
  (`Rendered`): when they are the same at the commit, the file shows that version.
  It also says that the file of a request is no document's and no other request's,
  so that what loses a race deletes only its own; the exception is a document whose
  commit was not heard, of which the file is not promised.

Only model-checked: the liveness properties `CallsEnd`, `HoldsDrain`, `JobsEnd` and
`EventsSettle`, since fairness and ENABLED are outside the prover. Every invariant
and every action property of the passing runs is stated by a theorem. The
three properties that runs refute have none.
