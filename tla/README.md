# Uniform stock in TLA+

A TLA+ model of hokmis/uniform-co: an HR department asks for uniforms, a
warehouse ships, counts and corrects them, purchasing buys new ones for a
season, and a PostgreSQL database behind Supabase keeps the stock of two
warehouses right while several people, tabs, workers and retries work on it at
once. Paths below are relative to the repository (`src/`); `0094:98` is line 98
of the migration `supabase/migrations/0094_*.sql`.

- [The system](#the-system)
- [Modules](#modules)
- [HrFulfilment](#hrfulfilment-one-request-from-draft-to-shipment)
- [LockOrder and RpcLocks](#lockorder-and-rpclocks-row-locks)
- [HrSubmission](#hrsubmission-the-browser-and-its-keys)
- [DurableImport](#durableimport-files-leases-and-workers)
- [Stocktake](#stocktake-counting-while-stock-moves)
- [CorrectionPosting and CorrectionPanel](#correctionposting-and-correctionpanel)
- [SeasonalProcurement](#seasonalapproval-procurement-and-seasonalprocurement)
- [Runs](#runs)
- [Proofs](#proofs)
- [What the code does otherwise](#what-the-code-does-otherwise)
- [Not modelled](#not-modelled)
- [Plan](#plan)

## The system

A Next.js front end (`src/app`, `src/domain`, `src/lib`) calls PL/pgSQL
functions (`supabase/migrations`) over PostgREST. All rules about stock live in
those functions: browsers may not write the stock tables. A later migration
replaces functions of earlier ones, so the function in force is the last
`create or replace`; the table names it.

| Component | State | Operations (in force) | What makes it correct |
|---|---|---|---|
| HR requests and reservations | `hr_requests`, `hr_request_items`, `inventory_reservations` | create (0015:3), update draft (0089:9), submit (0094:64), submit with lines (0128:32), revise (0089:192), cancel (0089:423, trigger 0093) | reservations follow the request; what is reserved is on hand |
| Warehouse shipments | `warehouse_shipments`, `warehouse_shipment_lines` | draft (0015:197), edit lines (direct UPDATE), post (0095:4), post with lines (0145:5); two-stage: 0136, 0141 | what submit accepted posting can ship; a posted document is final |
| Inventory | `inventory_balances`, `inventory_ledger_entries`, `inventory_item_locks` | written by every posting | never negative; ledger and balances agree; nothing lost |
| Operation commands | `operation_commands` | claimed first by every RPC (0001:29) | a key is carried out once; other data under it is refused |
| Lock order | row locks | every stock RPC | no deadlock (`docs/spec/data-model.md` §12) |
| HR workbench (client) | `operationRef`, `requestEntryState`, `submissionRecovery`, the cache of missing RPCs | press, edit, retry, cancel | one request per form, honest messages |
| Stocktake | `stocktakes`, `stocktake_lines`; `StocktakePanel.tsx` | create (0025), update (0028), recapture (0113), post (0027), complete (0127) | a stale count changes nothing; shortages conflict reservations; a count is posted once |
| Returns, corrections | `return_notes`, `correction_notes`, `*_correction_lines`; five panels | draft and post per kind (0049 to 0055), complete (0131), status (0132) | no line comes to less than nothing, and no transfer or receipt to more than was asked; posted once |
| Durable import | `import_batches`, `_chunks`, `import_rows`; a polling worker, an Edge function, a panel | start, upload, confirm upload, claim, complete, fail (0035 and later), confirm, apply, cancel | a worker whose lease has run out writes nothing; applied once, as it was shown |
| Seasonal campaigns and approval | `seasonal_campaigns`, `_demand_lines`, submissions, approvals | close, correct (0021), submit, review (0008) | what is approved is what was on the screen |
| Procurement and receipts | procurement lines, orders, receipts | decide (0022), limit, order (0008), change, end (0010), draft (0023, 0024), post (0143), complete (0126), correct (0049) | received within the order, ordered within the limit; an end is final, and a cancelled order empty |
| Replenishment | `replenishment_requests`, `_lines` | create, update, submit, cancel, post (0096, 0097) | transfers respect what HR requests have reserved |
| Adjustments | `inventory_adjustments` | complete (0144) | as postings |
| Rendering, storage cleanup | artifacts, attempts, leases | request, claim, finalise, archive | one winner per revision; nothing leased is deleted |
| Accounts, master data, read models, panels, scripts | — | — | authorisation and presentation |

They meet in four places. Documents share the **balances and reservations** of
an item, which is why each RPC first takes the item's mutex row. RPCs share the
**row locks**, held to the end of the transaction. The browser shares the
**idempotency keys** with `operation_commands`: a key is drawn in the browser,
outlives a lost answer there, and decides in the database whether a second call
is a retry. And a worker shares a **lease** with the table that granted it: the
generation of the lease tells whether it still may write.

What is hard to test in it: interleavings of transactions that read rows before
they lock them; reservations counted by several requests at once; deadlocks that
need two RPCs in a precise order; triggers that silently change what a statement
does; a migration that replaces one function but not the table rules another
relies on; lost answers, reloads and retries across a rollout; leases that run
out under a working worker; decisions taken on an old screen; drafts that wait
while the document they are about is changed. `PROJECT.json` lists these hazards
at their lines.

## Modules

| Module | What it is |
|---|---|
| `Inventory` | balances, versions and ledger of two warehouses; state and helpers of `HrFulfilment` |
| `StockPromise` | abstract specification: pieces promised to a request out of the common stock, given back, or taken |
| `HrFulfilment` | HR requests, reservations, shipments and command keys, one action per transaction step; implements `StockPromise` |
| `HrFulfilmentProofs` | its invariants, action properties and refinement, for all constants |
| `LockOrder` | sessions that take row locks one by one and keep them; waiting, deadlock, fairness |
| `RpcLocks` | which rows each stock RPC locks, in which order; the documented global order |
| `LockOrderProofs` | programs that keep the order cannot deadlock, for all constants |
| `SumLemmas` | laws of sums over finite sets, and the set induction they rest on; used by the proofs |
| `HrSubmission` | the workbench's form and keys against the idempotent RPCs over a connection that fails |
| `HrSubmissionProofs` | its four invariants, for all constants |
| `ImportPromise` | abstract specification: a batch is published at most once, as its user saw it |
| `DurableImport` | batches, chunks, leases, workers and the panel; implements `ImportPromise` |
| `DurableImportProofs` | its types, phases and publication, and the refinement, for all constants |
| `Stocktake` | the stocktake panel, the five transactions, and the stock and reservations they meet |
| `StocktakeProofs` | its types, the shortages it shows, the book it replaces, one posting per form and what the panel says of it, for all constants |
| `CorrectionPosting` | corrections of five kinds against stock, reservations and source lines |
| `CorrectionPanel` | the panels that post them, with keys that outlive a reload; implements `CorrectionPosting` |
| `CorrectionProofs` | the invariants of both and the refinement, for all constants |
| `SeasonalApproval` | a season's demand, its submissions and the CEO's screens |
| `Procurement` | the decision, the limit, orders, receipts and their corrections |
| `SeasonalProcurement` | both, with the desks at which receipts are entered |
| `SeasonalProcurementProofs` | the invariants and action properties of the three, for all constants |
| `MC...` | the small instances of each that TLC checks |

Definitions commented "Mutant" are not part of a specification: each is the
definition after it with a plausible bug, kept so that every property can be
shown to notice one. `PROJECT.json` pairs them ("mutants"), gives the source
lines of every definition ("map"), and lists hazards and findings.

Three habits are common to all modules. A transaction that holds the locks of
what it reads and writes is **one step**; where it reads before it locks, it is
two. `operation_commands` is a set of keys with what they have done (`Once`,
`Remember`, `Replay`). And a panel's call is two steps, the **press**, which
decides what is sent, and the **answer**, at which the transaction happens, so
that anything may come in between; the answer may be lost, before or after the
database has done it.

## HrFulfilment: one request, from draft to shipment

**State.** `status`, `owner`, `rowVersion` and `rows` are `hr_requests` and
`hr_request_items`; `reservation[r][i]` the row of `inventory_reservations`;
`shipment[r]` the shipment of the request with its lines; `commands` the pairs
of operation and key that have SUCCEEDED; `onHand`, `version`, `ledger` come
from `Inventory`. `call[s]` is what a session has read before its row locks.
Employee lines are kept as their per-item sums: the functions only ever compare
those with stock, and the snapshot trigger (0001:224) keeps them equal.

**Steps.** An RPC is one PostgreSQL transaction at READ COMMITTED. It reads the
item ids *unlocked*, takes the item mutexes, then the request's row lock, then
reads everything again. So `submit`, `update_hr_request` and the postings are
two actions, `Begin…` (the unlocked read, which others may overtake) and
`Commit…` (all that happens under the locks). Under the locks a single step is
right because (a) every row written, and every row whose value decides, is
either locked or covered by a mutex held to COMMIT, and (b) each statement sees
the newest committed rows. Drafts, cancellation, line edits and submit-with-lines
are single actions: nothing they read before the lock is used after it. `Abort`
is any exception or lost connection: the transaction leaves no trace, its
command included. `Replay` is the second call with a key that succeeded: it
changes nothing.

Triggers are part of the action that fires them. `CleanedShipment` is what
0093's clean-up leaves after the guard of 0002:62-93, a BEFORE DELETE trigger
that ends in `RETURN NEW`: for a DELETE that is null, and PostgreSQL then skips
the row, so the shipment stays (`AfterGuardedDelete`).

**Two schema levels.** The repository holds migrations beyond the level it
documents as deployed. `TwoStage = FALSE` is the level up to 0132,
`TwoStage = TRUE` the functions of 0136 on the tables as they are.

**Properties.** `StockNeverNegative`, `LedgerExplainsBalance`: balances and
ledger agree, although posting writes them in separate statements.
`ReservationTracksRequest`: a request has ACTIVE reservations exactly while it is
SUBMITTED, for exactly its items and quantities. `ReservedUnderMutex`: a
submission or revision that read its items unlocked reserves only items whose
mutex it holds. `ShippedIffPosted`: document and request move together.
`SubmittedIsShippable`: a submitted request can always be prepared, and a
prepared one posted by sending all that GENERAL can give. `KeepsPromises`: with
combined stock for `stock` and ACTIVE quantities for `promise`, every step is a
step of `StockPromise` or a stutter; that no more is promised than there is, and
that nothing is lost, is in its steps.

## LockOrder and RpcLocks: row locks

`LockOrder` is PostgreSQL, as far as it matters: a session runs a program, a
sequence of locks; it takes them one after the other, waits for a lock another
session holds, and releases all at its end. `Waits(s, t)` is the wait-for graph.
A waiting session does not abort by itself: that would be the deadlock detector,
and the question is whether it is ever needed.

`RpcLocks` gives the programs, statement by statement: command, mutexes in item
order, document, rows. Rows that a trigger locks are included: cancelling locks
the shipment and its lines *even where the guard then skips the delete*. Rows
that one statement locks together are one lock, and so are the two balances of
an item. Commands are keyed by document, so that two calls of one RPC about one
document also meet at the command, as duplicates of a press do.

The documented order (`data-model.md:601-610`) is `Rank` for commands, mutexes
and documents. The rows below are not all in one order in the code: submit locks
balance, reservations, next balance; posting locks all balances, then all
reservations. What saves both is that such rows are *guarded*: only a holder of
the item's mutex, or of the document, ever locks them (`Guard`).

`MCRpcLocks` has 23 calls of 14 RPCs as programs (a posted stocktake only where
its count leaves nothing uncovered). Not all of the 15 RPCs modelled follow the
document, and three statements say which do and how far:

- Two leave the order and are *not* among the programs: posting a shipment
  with lines, and posting a stocktake that leaves reservations uncovered. The
  assumption `OutOfOrder`, which the run evaluates, says that neither keeps it;
  "What the code does otherwise" tells the circles.
- Two more claim a command *after* a mutex, which the document forbids: submit with
  lines (0128:70) and `post_replenishment_request_with_lines` (0097). They are among
  the programs, and pass because that command has a guard: `CommandAfterMutex`.
- `RpcsKeepOrder` is about the programs: each takes the locks that have no guard in
  the documented order, and the others under their guard.

`NoWaitCycle` states that no set of sessions waits in a circle, and `EveryRpcEnds`
that each RPC gets its locks and ends; both are about these programs too.
**Fairness** (in `FairSpec` alone): SF on taking a lock, because PostgreSQL queues
waiters in order of arrival, so a lock that is released again and again is not
withheld for ever; WF on commit, because a function that has its locks runs to
its end. Beginning an RPC is never assumed to happen.

## HrSubmission: the browser and its keys

One user and one form after the other. `operation`, `entry` and `recovery` are
`operationRef`, `requestEntryState` and `submissionRecovery` of
`HrRequestWorkbench.tsx`; `missing` is the cache of `optional-rpc.ts`; `call` is
where `submitHrRequestOperation` stands: `atomic` (0128's RPC), or `draft` and
then `submit` on the older path, which is chosen only by an explicit "missing".
The database is reduced to `requests` and `commands` with fingerprints; a command
that is not a replay may also be refused, for the reasons `HrFulfilment` models.

Every call may be answered, or lost before or after the database ran it
(`LoseCall`). `LossForms` says how a loss shows in the browser: `"thrown"`, or
`"error"`, an error *result*. The request may be cancelled or shipped from
another page at any moment (`ChangeElsewhere`), the RPC may be deployed
(`Deploy`), and its absence forgotten (`ForgetMissing`). Keys are drawn from a
counter, as `crypto.randomUUID()` never repeats.

`OneRequestPerForm`, `ToldTheTruth` and `NoKeyConflict` say that however presses,
edits, losses and retries mix, a form makes one request, the user is told what
happened, and no press is refused because of the form's own earlier key.

Assumed: a call the browser has given up reaches the database before the next
press or never; a loss throws (`LossForms = {"thrown"}`), and no retry meets
another deployment than its press (`RolloutSeen = FALSE`). The last two are
parameters because the properties do not hold without them. Entry state
"submitted" is not modelled because no path of the form sets it: it needs a
SUBMITTED record together with an error, which `submitHrRequestOperation` never
returns.

## DurableImport: files, leases and workers

A file is uploaded, confirmed, parsed and validated in chunks, shown, confirmed
by its user and applied in one transaction. `batch` and `chunk` are the tables of
0032, `rows` the preview in `import_rows`, `snapshot` what the preview is compared
with, `master` the master data the import is for, `screen` the panel. A chunk is
one row, and row *n* of every file is about key *n*, so that two versions of a key
are two values of `master[n]`.

**Workers.** The polling process (`scripts/import/import-worker.ts`) and the Edge
function (`functions/import-worker/index.ts`) go through the same steps, one RPC
each: list, confirm or refuse the upload, claim a chunk, take the snapshot,
complete or fail it, claim the apply, apply. They differ in what starts them (its
own loop, or a panel's request for one batch), in how many batches they list and
in how many chunks they complete on end. `worker[w]` holds what a worker has
*listed*, as it was then: the database must refuse what is no longer so.

**Leases.** A claim raises the generation and starts a timer. `TimerEnds` ends a
timer nobody works under, and the delay before a retry; `LeaseOverrun` ends one
whose worker is still at it. Completion, failure and apply compare generation
and timer (`HoldsLease`, `HoldsApply`).

**Faults**, `MaxFaults` together: a worker crashes anywhere and starts again
without memory; a call fails before anything is written; a completion is
committed and not heard of; a lease runs out under its worker.

**Properties.** `PhasesComplete`: validation has chunks only when parsing is
complete, and a batch that waits for its user, or is applied, has every row, no
error among them, and no chunk open that could change one. `PublishedAsShown`:
what was published is one preview, the very one on the screen when it was
confirmed; the panel reads the batch before its rows, so this is not immediate.
`KeepsPromise`: the batch implements `ImportPromise`. `UploadSettles`,
`ConfirmedSettles`: a readable upload gets its preview or ends, a confirmed batch
is applied or ends, whatever fails on the way.

**Fairness.** Weak fairness of each polling worker's steps, because the process
loops for ever and is restarted by its supervisor, of an Edge invocation that has
begun, and of time. Nothing is assumed of users, of uploads, or that a panel asks
for an invocation.

## Stocktake: counting while stock moves

One panel counts the HR warehouse. `db` holds stock with versions, reservations,
requests, stocktakes and commands; `panel` the form, its keys, the document it
shows and the call under way. The transactions are functions from a database to a
database and an answer (`CreateTx`, `UpdateTx`, `RecaptureTx`, `PostTx`,
`CompleteTx`), because `complete_stocktake` (0127) composes two of them and undoes
both when one fails, while `completeStocktakeOperation` calls them one after the
other where 0127 is missing (`atomic = FALSE`). The lines of a posting are gone
through in the order of their items, each compared with what the ones before it
have done to the reservations (`Uncovered`): the code does so in one loop. Any
other posting is a `Move` of one item, and a movement there and back counts as
one that leaves the quantity and changes the version.
A line has a reason where its count differs from the book. Where it has none the
database stores NULL (0025:150) and the panel loads null, which `null` remembers
(a recapture answers `''` instead, 0113:129). A saved draft with such a line can
neither be saved nor completed: `line.reason.trim()` throws before anything is sent,
and the panel stays busy (`Throws`). Reloading the page, which leaves the draft
behind, is not modelled.
Keys are numbered as a panel draws them; they are UUIDs, so that `Once` looks only
among the commands of the same panel's documents.

`OneStocktakePerForm`, `ToldTheTruth`: of one form one count is posted at most,
and the panel tells which. `ShortageNeverHidden`: after any posting the
reservations are covered, and a request that lost one is in review and holds none
that could be shipped. `NothingOverwritten`: a posting makes the book what was
counted, and changes the very version it was saved against.

`ToldTheTruth` claims that a failure is a failure only on the one-transaction
path: on the other the posting may be lost, the retry begins with the update of a
document that is posted by now, is refused, and the user is told it failed. The
document on the screen is not posted twice, though.

## CorrectionPosting and CorrectionPanel

`CorrectionPosting` is the database: five kinds of corrections (issue, return,
transfer, receipt, stocktake) of one item. They share the notes and the stock and
differ in three tables of rules: what a line may come to (`Allowed`), what a piece
does to the two warehouses (`Effect`), and what happens if reservations lose their
cover: an issue correction is refused, the others but a transfer send the requests
to review (`IssueCovered`, `Uncovered`). A receipt correction also moves the
order's status (`Reconciled`). A draft waits while others are posted, so each
rule is applied again by the posting.

`EffectiveWithinLimits` says that no issue, and nothing of it that came back, comes
to less than nothing, and that a transfer or a receipt stays between nothing and
what was asked. It has no upper bound for an issue, as the code has none, and says
nothing of counts, which are corrected one by one from the first count (0055:119).
That no more comes back than was issued (AC-29) is `ReturnedWithinIssued`, which the
code does not keep: run `return_over_issue`. `ReservationsCovered` and
`OrderTellsReceipt` are about what the lines touch.

A note is named by its kind and a number. The column `correction_no` is unique over
all kinds (0009:8); the panels derive the number from that of the source document, so
that two kinds meet at one only if a number is typed twice, which is left out.

`CorrectionPanel` is one panel per kind over it. They are written alike, with
`createDraft`, `postCorrection` and `completeCorrection`, the last through
`complete_*_correction` (0131) or, where it is missing, in two calls. Keys and the
id of the correction are kept in `localStorage`, so that a reload (`Reload`) finds
out what became of the call (`Recovered`, `StatusFails`). "Others" are all steps
of `CorrectionPosting` that do not touch the panel's drafts.
`PostsAsSpecified` says that panels, retries and reloads do nothing to the
database that `CorrectionPosting` does not allow: it is the refinement from the
detailed to the abstract specification, with the same `db`.
`OneCorrectionPerForm` and `ToldTheTruth` are about the user.

A purchase line's order stays open here, and is delivered as it is accepted; the
composition with orders that end and are changed is `Procurement`.

## SeasonalApproval, Procurement and SeasonalProcurement

`SeasonalApproval`: a campaign is closed, HR corrects its demand and submits it,
the CEO approves or returns. `ceo[w]` is a screen: the queue it read, the version
selected, the lines loaded. Two screens may be open, and each may be old:
`ApprovedAsShown` (AC-33) says that what is approved is what was on the screen
and the last version there is.

`Procurement`: the decision sets the limit; orders take of it what they order, or
what they received if they were closed short; receipts are drafted, changed and
posted; corrections change what was received and move an order back
(`REOPENED`) and forth. `SeasonalProcurement` adds the desks: what a desk shows of
a draft and what the database holds of it are two things.

`OrderTellsProgress`: an order that has not ended is RECEIVED when and only when
all of it has been accepted, as corrected. `EndIsFinal` (AC-31): an order that was
cancelled or closed short stays so and receives no more, though drafts may wait,
and a cancelled one has received nothing.
`WithinOrderAndLimit` (AC-30, AC-32): no more is accepted than was ordered and the
limit holds *as long as corrections only take back*; `purchase.added` remembers
whether one has added, and `receipt_over_order` shows what happens then.

## Runs

Each `.cfg` is for the MC module of its component. "States" are distinct states.

| Run | Question | Bounds | Result |
|---|---|---|---|
| `hr_contention` | Can two requests be promised or shipped the same pieces? Do unlocked reads lead to reservations without mutex? | 2 requests, 2 items (1 in HR, 2 in GENERAL of each), 2 sessions, 2 keys, payloads of 1 or 2 pieces of the first item or 1 of the second, line edits to 0 with a reason; while there are two requests both are about the first item and one session is open at a time, and the only request has a second session until it is prepared (`OneRaceAtATime`) | passes, 230,823 states |
| `hr_two_stage_posting` | Can anything be shipped with 0136 applied? | 1 request, `TwoStage` | `SubmittedIsShippable` violated |
| `lock_order` | Can any two RPCs deadlock or starve? | 2 sessions, 2 items, 2 requests that share an item, 1 replenishment, 2 stocktakes, 1 return; 23 calls of 14 RPCs | passes, 19,862 states |
| `hr_submission` | Do retries duplicate or misreport a request? | 2 forms, 2 contents, 4 key generations, losses that throw | passes, 164,236 states |
| `durable_import` | Is a batch applied once, as it was seen, whatever fails? Does it end? | 1 batch of 2 rows, 3 files (good, invalid row, unreadable), a poller and an Edge invocation, 2 attempts, 2 faults | passes, 133,281 states |
| `stocktake` | Is a count posted once, over the book it was saved against, and its shortage shown? | 1 panel, 2 items, 2 requests, counts 0 and 1, 2 numbers, 2 key generations, 1 other posting, 1 fault, with and without 0127 | passes, 1,504,917 states |
| `stocktake_saved_draft` | Is a saved draft ever completed? | 1 panel, 2 items in stock, counted as 0 or not at all, no other posting, no fault; fairness | `SavedDraftCompletes` violated |
| `correction_posting` | What do drafts of all kinds, posted in any order, come to? | 5 kinds, 1 line (2 on record, 1 returned), 2 requests, 2 numbers of a kind, 3 corrections of +1 or -1, 1 more return | passes, 51,093 states |
| `return_over_issue` | Does no more come back than was issued? | issue and return corrections, otherwise the same | `ReturnedWithinIssued` violated |
| `correction_panel` | Is a correction posted once and the user told? | the transfer panel, numbers typed, 2 numbers, 3 key generations, 2 faults (lost answers, reloads, failed status reads), with and without 0131 | passes, 240,670 states |
| `procurement` | Do approval, orders, receipts and corrections agree however they interleave? | 2 CEO screens, 2 submissions, 2 orders, 2 receipts, 2 desks, quantities 1 and 2, 2 corrections | passes, 484,822 states |
| `receipt_over_order` | …also if a correction adds? | the same | `AcceptedWithinOrdered` violated |

Why the bounds are enough to be interesting. In `hr_contention` two requests of
up to two pieces each want up to four of three, so that both cannot always have
their way, and HR alone may have too little, so that posting must transfer. The second item lets the item
set of a request change between read and lock, and the second session has both
sides of that race on one request. The constraint `OneRaceAtATime` keeps these two
questions apart: it leaves out two open sessions, and the second item, while there
are two requests, and two sessions from the preparation of a single request on;
the proofs have no such bound. Two keys per operation let an RPC succeed, be replayed and be
tried again. A circle in `lock_order` needs two sessions; longer ones are the
proof's. The bound on keys in `hr_submission` lets one form rotate its keys twice
after a press; the second form meets the keys, the cache and the deployment the
first left. In `durable_import` two chunks let one be late while the other ends
the phase; two workers let a lease be taken over; two faults let a crash meet a
lost answer; two attempts let a retry be the last. In `stocktake` the first
request wants both items and the second only the second, so that a shortage of
one frees what the other is compared with. In `correction_posting` three
corrections let two drafts be legal one by one and not together. In `procurement`
two receipts of two desks fill one order of two; buying begins when the CEO's
screens have been read again (`ScreensRead`), as no step of buying reads a screen.

Deadlock is checked where the system never stops (`hr_contention`,
`lock_order`); the other runs stop at the user's or the
bound's end, as their `.cfg` says. Symmetry is declared for requests and
keys in the `HrFulfilment` runs and for orders, receipts, screens and desks in the
procurement runs; they check no liveness, and no action tells members apart.

Fairness is assumed in `lock_order`, `durable_import` and
`stocktake_saved_draft`: see the sections above; in the last, that calls end and
that the user goes on pressing the button.

## Proofs

TLAPS checks them with no assumption but the named ones about constants, which
TLC evaluates in every run: `OpeningAssumption`, `RequestsAssumption`,
`PayloadsAssumption`, `EditsAssumption`, `TwoStageAssumption`,
`CorrectionConstants`, `ApprovalConstants`, `ProcurementConstants`,
`ImportConstants`, `StocktakeConstants`, `SubmissionConstants`, `NoneIsNoRow`, and
`ProgramsKeepOrder` for the lock order.
They say that stock, quantities and bounds are natural numbers, that a payload
names an item, that an absent value is none of the values, and that requests,
orders and receipts are finitely many, as rows of a table are: without the last
their sums mean nothing. Nothing bounds how many there are, nor sessions, workers,
screens, keys or faults.

**HrFulfilmentProofs**, at both schema levels unless said otherwise:

- `TypeCorrect`: `TypeOK` is inductive by itself, one lemma for each RPC.
- `Invariance`: `IInv`, the conjunction of `TypeOK`, `StockNeverNegative`,
  `LedgerExplainsBalance`, `ReservationTracksRequest`, `ShippedIffPosted` and
  `SeenCoversPayload`. The parts need each other: stock needs the types of the
  quantities a posting reads; the reservations need `ShippedIffPosted` to know
  that a posted request is closed; and the mutex theorem needs
  `SeenCoversPayload`, which remembers that a pending revision has locked every
  item it will write.
- `StockSafe`, `LedgerSafe`, `ReservationsSafe`, `ShippedSafe` follow from it;
  `PostedStays` (no RPC changes a posted shipment, its lines, or the status, rows
  and reservations of its request) and `ReservingIsExclusive` are the action
  properties.
- `PromisesKept`: the refinement `KeepsPromises`, action by action. It rests on
  `StockInv`, which adds to `IInv` that all reservations of an item *together*
  are backed by the stock of both warehouses, and that a draft shipment was
  prepared from what its request says now.
- `SubmittedShips`: `SubmittedIsShippable`, from the same. It assumes
  `~TwoStage`, because after 0136 the property does not hold: that is what
  `hr_two_stage_posting` shows.

For the balances the argument is that only `CommitPost` moves stock
(`OnlyPostingMoves`), that it writes balance and ledger by the same amounts, and
that its checks keep both warehouses above zero. For the promises it is that a
submission compares what is reserved with what is on hand under the item's
mutex, and that a posting takes no more than the reservation it closes.

**LockOrderProofs**, for any sessions and any programs that satisfy
`ProgramsKeepOrder`, which for the real programs `lock_order` checks as
`RpcsKeepOrder`:

- `LocksExclusive`: types, and no lock is held twice (the inductive invariant).
- `OrderPreventsDeadlock`: `[]NoWaitCycle`. Nobody waits for a guarded lock,
  because its holder has the guard and so has the one that wants it
  (`WaitsUnguarded`). Of two sessions that wait one behind the other, the second
  wants the higher lock (`RankRises`). In a finite or infinite circle ranks
  would rise for ever, but they are bounded (`NoCircle`).

**SumLemmas.** What is reserved, accepted and ordered are sums over requests,
receipts and orders, written with the community modules' folds. That such a sum
does not depend on the order, and changes by exactly what one member changes by,
is proved here by induction over finite sets that are given as sets (the set of
all subsets for which the law holds contains every finite one), because the
library's induction theorem takes an operator.

**SeasonalProcurementProofs**, by one induction over the composition
(`Invariance`). The invariant is `Good(purchase)`, which adds to the types and
the two invariants of `Procurement` that a receipt refers to an order that exists
and an order to a limit that was set; `ApprovalInv`, that only the
last version can be pending, that an approval is of the last one, and that the
lines on a screen are those of the version it selected; and the types of the
desks.

- `TypeCorrect`, `ApprovalIsWhatWasShown`, `OrdersTellProgress` and
  `OrdersWithinLimit` are its parts. The hard step of the last is a correction
  on an order closed short: it takes back from the limit what the order no longer
  received.
- `OrdersEndForGood`: `EndIsFinal`. Each step that could touch an order asks for
  its status first; drafts that wait keep the order they name. That a cancelled
  order is empty needs the invariant `CancelledIsEmpty`, because the step that
  cancels it looks at its receipts once and the later ones do not.

**CorrectionProofs**, of `CorrectionPosting`, for any kinds, lines, drafts and changes: `Good(db)`, the
conjunction of the four invariants, is inductive (`Invariance`), and
`TypeCorrect`, `EffectiveKeepsWithinLimits`, `ReservationsStayCovered` and
`OrdersTellReceipts` are its parts. `EffectiveKeepsWithinLimits` says as much as
`EffectiveWithinLimits` does, and so nothing of AC-29, which is false. A posting changes the sum of one source line
by its own change (`CorrectedPosted`), and the check it made on that sum is
therefore about the sum after it; where stock falls below what is reserved, the
conflict cascade frees reservations until it covers them again.

**CorrectionProofs**, of `CorrectionPanel`, for any kinds, numbers, keys, lost
answers and reloads, and whether or not `complete_*_correction` exists:

- What a call makes of the tables, whichever path it takes, is one of four things
  (`Happens`): nothing, a draft under its key, a posting under its key, or both.
  What each action makes of a panel is a relation between the panel before and
  after (`Chose`, `Pressed`, `Says`, ...). The theorems follow from these.
- `PanelsKeepTypes` is `PanelTypeOK`.
- `PanelsPostAsSpecified` is the refinement: every step of a panel is a step of
  `CorrectionPosting` or leaves its tables alone, a completion that drafts and
  posts at once being the step that does both. It assumes `Cardinality(No) <=
  MaxNotes`: that constant bounds the search of the abstract specification, which
  draws no draft beyond it, while a panel draws numbers up to its own bound.
  `PanelsKeepLimits` takes `EffectiveWithinLimits` over from there.
- `TypedPanelsAreSafe`: for a panel whose number is typed, whatever the other
  panels do, both `OneCorrectionPerForm` and `ToldTheTruth` hold. `FormsPostOnce`
  and `PanelsTellTheTruth` are the two properties, when all are typed. They
  assume `Derived = {}` and `LossForms \subseteq {"thrown"}`. Without the first
  they are false (see below: the derived number moves under a retry); without the
  second a lost answer is taken for an error and the key is drawn anew.
- The invariant is `SafeInv`: the types, and for each such panel `Careful`. Its
  heart is `Sure`: what the form has posted is what the panel has stored as its
  id, or is found under the CREATE key it holds. That is what a retry and a
  recovery after a reload ask for, so that neither can make a second one, and it
  has to hold at every moment between a call that arrived and an answer that did
  not. Around it, `Bounds` says that forms and keys to come are unused,
  `Mine` that the id and the keys are those of the form, and `Honest`, `Resting`
  and `Called` what is said, and what a panel with and without a call knows.

**DurableImportProofs**, for any batches, chunks, files, workers and faults:

- `Invariance`: `TypeOK`, for each batch `Sound` and for each worker `Working`.
  `Sound(b)` is that chunks are open only while the batch is at work and a
  completed one has its row (`Chunks`), that the row of what does not validate is
  an error (`Previewed`), that validation begins after the last chunk is parsed
  and a validated batch is complete (`Phases`), and that whoever saw a validated
  batch saw rows that no longer change, and confirmed only those (`Shown`).
  `Working(w)` is that a worker at a chunk is at one of its own batch, and
  completes it only after the reference data were frozen. A worker whose lease
  has run out needs no clause: completing asks for the generation of the lease,
  and the proof shows that this, with `Chunks`, is enough.
- `TypeCorrect`, `PhasesInOrder` and `PublishedSafe` are its parts;
  `PromiseKept` is the refinement of `ImportPromise`.

**StocktakeProofs**, for any items, requests, panels, counts, keys, movements and
lost answers, with and without 0127. `Inv` is `Good(db)` and the types of the
panels. `Good(db)` is the types of the tables; `Covered`, that the stock of both
warehouses covers what is reserved; and `Orderly`, that only a submitted request
holds something and a conflicted reservation has its request under review.

- Each transaction is a lemma about what it makes of *any* good database
  (`CreateKeeps`, `UpdateKeeps`, `RecaptureKeeps`, `PostKeeps`), so that
  `CompleteTx`, which applies two of them, follows from theirs.
- The lines of a count are gone through in the order of their items by a
  recursive function, and a conflict at one item frees what the next is compared
  with. `UncoveredKeeps` is an induction over the item numbers: of the items gone
  through, each has no more reserved than what was counted and the other
  warehouse hold, because a conflict leaves nothing of its item reserved and later
  conflicts only release. That is why the reservations are covered once the book
  is what was counted, and why they still are when a stale line stops the posting
  half-way.
- `TypeCorrect` and `ShortagesShown` are parts of the invariant;
  `CountsOverwriteNothing` follows from the lemmas, as only `PostTx` makes a
  document `POSTED`, and only when no line has moved.
- What a panel knows of its form is a second invariant, `Honestly`: `Inv`, what the
  commands tell of the documents (`Journal`), and `Careful` of every panel. Its core
  is `Where`: a posted count of the form is the one on the screen, or, while no
  document is there, one that the press under way, or of unknown outcome, has made
  under the very keys and with the very fingerprint that a retry sends again.
  `CountsPostOnce` alone is not inductive: whether a retry posts a second count
  depends on what its keys have done before, and on which document the number on
  the screen names (`Match`).
- `CreateIs`, `UpdateIs`, `RecaptureIs` and `PostIs` say what a transaction does to
  documents and commands and what its answer means, `CallTracks` that any call keeps
  the invariant whether or not its answer arrives, and `CallTouches` that it is
  about the documents of its own panel: the panels can then be taken one by one.
- `CountsPostOnce` and `CountsToldTruly` are theorems about
  `LossForms \subseteq {"thrown"}`: where a lost answer comes as an error, the form
  is free, and TLC finds a count that was posted told as failed, and posted again.
- `Journal` also says that no update of a draft and no recapture has ever succeeded,
  which `SavedCountsStay` states: what `stocktake_saved_draft` shows on one instance
  is so for every count.

**HrSubmissionProofs**, for any contents, forms and keys. `TypeCorrect` holds for
every `LossForms` and `RolloutSeen`; the other three are theorems about
`LossForms \subseteq {"thrown"}` and `RolloutSeen = FALSE`, the two conditions
without which they are not true, and which the theorems therefore name.

- What may be wrong between the browser and the database is how far a press has
  come. `Progress` says it can only be nowhere (`Empty`), at a request the browser
  knows and has not sent (`Known`), or at a request that is saved as the press has
  it, and sent with the fingerprint of the path that is deployed or not at all
  (`Made`); and that the keys of the press are used for exactly that. None of the
  three properties is inductive without it: whether a retry makes a second request
  depends on what its keys have done before.
- Each RPC is a lemma about *any* tables with such progress: `SaveIs`, `SubmitIs`,
  `WithLinesOutcome` (which undoes both), and of a cancellation or a change on
  another page `AgedInv`. None of them can answer `"conflict"`.
- The other parts of `Inv` are the browser's: the key generations drawn
  (`StoreInv`), the draft it knows (`DraftInv`), the input that is kept while an
  outcome is unknown (`InputInv`), the older path only without 0128 (`StageInv`),
  and that a form at rest has sent nothing (`RestInv`). Both conditions are used in
  one place each: `LoseInv`, where a call that is lost must leave its input behind,
  and `DeployInv`, where 0128 must not arrive between the two calls of the older
  path, whose fingerprints it does not share.
- `OneRequest`, `ToldSo` and `KeysFit` follow from `Inv`.

**Only model-checked:** `EveryRpcEnds`, `UploadSettles` and `ConfirmedSettles`,
because liveness under fairness is out of the prover's reach; and `RpcsKeepOrder`,
which evaluates the lock programs of this code. Every other property of a passing
run is stated by a theorem.

## What the code does otherwise

Four disagreements have a run of their own; the lines they contradict are in
`PROJECT.json` ("findings").

1. `hr_two_stage_posting`: after 0136 no shipment can be posted (status
   `'POSTED'` is not in the enum, `posted_at` not in the table).
2. `stocktake_saved_draft`: a saved stocktake can never be completed. The guard
   of `stocktake_lines` (0004:54) ends in `RETURN NEW`, null for a DELETE, so
   that PostgreSQL skips it, and the lines that replace the old ones collide with
   them. A STALE_COUNT is never recaptured for the same reason. The count of the run
   differs from the book; a draft with a line that does not is stopped by the panel
   before it sends anything (`Throws`).
3. `receipt_over_order`: a correction compares its own receipt with the order
   (0049:232), so that one that adds makes more accepted than was ordered.
4. `return_over_issue`: a return correction compares what came back with the issue as
   first posted (0052:170). Two are issued and one comes back; the issue is corrected
   by -1, the return by +1: two have come back of one (AC-29).

Others were met while modelling. They need another value of a constant or a
property the modules do not state; the models have them, as the code does.

*HR requests.* A cancelled or revised request keeps its DRAFT shipment, as the
guard 0002:62-93 skips the DELETE of 0093's clean-up, and a prepared request can
therefore not be revised (0002:49, 0089:335). After 0136 a request without
increase cannot be prepared (0136:123 against the CHECK of 0002:51).

*Locks.* `post_warehouse_shipment_with_lines` takes the lines before the mutexes
(0145:115) and can wait in a circle with a cancellation; a short count takes
reservations of items it does not count (0027:191), and two of them can wait on
each other. `data-model.md:601-610` has the order both leave (`OutOfOrder`), and puts
the command before the mutexes, which 0128:70 and 0097 do not (`CommandAfterMutex`):
no circle comes of that.

*Workbench.* `submitHrRequestOperation` takes every error *result* for a definite
failure (hr-request-submission.ts:160): with `LossForms = {"thrown", "error"}`,
a connection lost after the commit can end in two submitted requests. The path is
chosen anew at each press (157): with `RolloutSeen = TRUE`, a retry across the
rollout of 0128 is refused and reported as failed though the request is SUBMITTED.
If the request moved on elsewhere meanwhile, the form stays locked
(HrRequestWorkbench.tsx:984).

*Import.* `list_import_work` (0045:34) returns the oldest batches, those included
whose file never comes; ten of them starve the poller's list (`PollLimit`,
import-worker.ts:207). A chunk that crashes its worker is claimed again without
end: attempts are compared only when a failure is reported (0035:118).

*Stocktake.* A line found stale returns without an error, so that the conflicts
of earlier lines stay though nothing is posted (0027:160). The book a count is
compared with is the one at saving, not the one on the screen (0127:33): a movement
between counting and completing is taken for a difference.

*Corrections.* A new return, too, is held against the issue as first posted. A
stocktake correction is held against the first count (0055:119). Where the number is derived from the history
(`Derived`), it changes when the history arrives between press and retry: the
retry conflicts, drops its keys, is told as a failure, and the next press posts
again. `createDraft` and `postCorrection` do not catch what a call throws; their
panel stays busy.

*Procurement.* What was rejected counts as delivered (0143:204), so that its
replacement can never be posted, against data-model.md:404. The desk's button
checks the quantities on the screen and posts the draft as last saved
(PurchaseReceiptPanel.tsx:262). For orders and limits, an order closed short counts
as first received, without corrections (0008:810). Demand cannot be entered at
all: `upsert_seasonal_demand_line` reads a field its record does not have
(0020:121-147).

## Not modelled

- Roles, sessions and the "is active" checks of master data: guards taken as
  passed; a failure of one is an `Abort`, or a call that is refused.
- Texts, numbers of documents except where they are unique keys, notes, dates,
  audit columns, prices.
- 0141's completion RPC: it ends in the posting that 0136 makes impossible.
- In the lock model: receipts, corrections, seasonal procurement, adjustments,
  0130's wrapper, the level after 0136, and direct edits of shipment lines (one
  lock, nothing held while waiting).
- In the client models: the automatic split of a request by stock on hand, loading
  a returned draft, change of account and reload of the workbench; the return
  panel and its drafts; lost answers at the receipt desk; the import panel's
  recovery from `localStorage`. Hazards of these are listed with notes.
- Calls that arrive after a later press. Every client model assumes that an
  abandoned call reaches the database before the next press or never.
- The documents on common stock are checked one component at a time:
  `HrFulfilment` has no step into `INVENTORY_REVIEW_REQUIRED`, and `Stocktake` and
  `CorrectionPosting` have requests that reserve a fixed quantity.
- Replenishment (but for its locks), adjustments (but for what they do to counted
  stock), opening balances, rendering, storage clean-up, accounts, master data,
  read models, exports and scripts: see "components" for each reason.

## Plan

1. Done: `Inventory`, `HrFulfilment` with `StockPromise`, its proofs; `LockOrder`,
   `RpcLocks`, the deadlock proof; `HrSubmission`; `DurableImport` with
   `ImportPromise`; `Stocktake`; `CorrectionPosting` and `CorrectionPanel`;
   `SeasonalApproval`, `Procurement` and `SeasonalProcurement`.
   With proofs: `HrFulfilment` and its refinement, the lock order,
   `SeasonalProcurement`, `CorrectionPosting`, `CorrectionPanel` and the
   refinement between them, `DurableImport` and its refinement, `Stocktake`,
   `HrSubmission`.
2. Later, to model: replenishment, and a `Warehouse` that composes all documents
   on one stock with `HrFulfilment`; rendering and storage clean-up, with one
   winner per revision; `hr-request-auto-balance.ts` as a pure operator against a
   reference definition.
