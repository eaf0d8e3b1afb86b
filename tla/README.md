# Verification of the e-commerce workbench

TLA+ models, model-checking runs and machine-checked proofs for the parts of this
repository where several actors change shared state: the ledger of consumables and the documents
that post to it, the flow of materials for production orders, stocktaking, the links between
invoices, purchases, payments and receipts, the synchronisation of orders, and the in-place update
of a native deployment. All paths below are relative to `src/`; services are in
`backend/app/services/`.

Contents: 1 the system · 2 the plan · 3 modules and code · 4 the runs · 5 bounds, assumptions and
fairness · 6 the proofs · 7 what the models say about the code · 8 what is not modelled.

## 1. The system

The program is a FastAPI service over PostgreSQL with a Next.js frontend, Celery workers for
synchronisation and reports, and shell and Python scripts that install and update it. Every HTTP
call runs in a database session of its own (`backend/app/db.py`), at READ COMMITTED and without
autoflush; some tables are guarded by row locks (`SELECT ... FOR UPDATE`), others are not.

| Component | State it keeps | Operations | What is hard | What makes it correct |
|---|---|---|---|---|
| Consumable ledger (`consumable_ledger_service.py`, `models/consumable.py`) | per consumable the counters own / in transit / factory and the totals purchased / used; an append-only table of transactions | `record_transaction`, with an optional request key and a source (type, id) for idempotency | counters are read, computed in Python and written as absolute values; several services post | no update is lost; the ledger explains every counter; one entry per source |
| Production orders and material flow (`production_service.py`, `production_material_flow_service.py`) | order status, reservation rows (required, reserved, dispatched, received, consumed), movements with a request key | create, recalculate, cancel; dispatch, receive at the factory, consume | order lock, then several consumable locks; key looked up before any lock; retries and crashes; two orders compete for one stock | goods move once per key; columns stay ordered; nothing is sent for a cancelled order; what is on the road is in the transit counter; no deadlock |
| Stocktake (`inventory_stocktake_service.py`, `inventory_position_service.py`) | tasks with a status, rows with book and counted quantity | create, save counts, confirm, cancel | no lock on the task; books compared before anything is locked; goods are not posted but summed from completed tasks | a row posts once, to fresh counters, without a deadlock |
| Consumable purchases, inbound usage (`consumable_purchase_service.py`, `consumable_service.py`) | purchases with lines, receipts; usage rows per inbound link | create, edit, receive, cancel, reopen, delete; set, remove and take back usage | receipts in parts, repeated; deletions reverse what was posted; locks in three orders | the stock is that of the documents on record; nothing is received twice or beyond its order |
| Tax invoices and procurement chain (`tax_invoice_service.py`, `procurement_chain_service.py`) | links between invoices and purchases, the share each allocates, a cached status per invoice, red–blue pairs | link, unlink, pair, unpair, import a list, match, confirm, purge | two locks in one order on one path, none on the others; a purchase is on record twice; the status is stored | links fit; the status follows the links; what was rejected by hand stays rejected; where calls that lock nothing break this, section 7 says so |
| Payments and bank (`payment_invoice_match_service.py`) | links between invoices and payments with amounts | link, unlink; the monthly job with a repair and four rounds | rounds draw on one open amount in one transaction; the job revises its own links; two sessions compete | nothing is paid or spent twice; decisions by hand stand; what was paid stays paid |
| Bank statements and receivables (`reconciliation.py`) | entries on record, confirmed and rejected matches, the status of a receivable | import a statement, confirm, reject, refresh the status | statements overlap and come in several forms; each entry is a transaction; status in a second one | an entry is on record once; a receipt counts once; nothing is settled beyond what is expected |
| Order sync (`jky_order_sync_service.py`, `../tasks/sync.py`, `../celery_app.py`) | job rows, a cursor, orders, the verdict on each run | a run over a window and three channels; reclaiming a stale job | redelivery, time limits, killed workers, channels that fail or answer short, late orders | one run at a time; no order left out; no job stays running |
| System update (`system_update_service.py`, `scripts/system_update_runner.py`, `scripts/update-guard.sh`, `scripts/native-start.sh`) | a lock directory with `owner.json`, `status.json`, `maintenance.json`, the working tree, the schema, the processes | check, start, poll; the runner's steps and its rollback; `make` targets through the guard | three processes share files and no memory; the API that starts the runner is restarted by it; steps fail, processes die | the business is open only on code and schema that match; one runner at a time; a rollback that reports the former version has restored it; the lockout ends |
| Procurement workbench and board, purchase documents, warehouses, 1688 import, recycle bin, finance, sales, partners, foreign trade, logistics, dashboards, backups, authentication, frontend | documents and aggregates | single-request edits, imports, reports | arithmetic, parsing, I/O | see section 8 |

How they interact. Flow, stocktake, purchases and inbound usage all post through
`record_transaction`; the consumable's row lock is what they share. The flow reads the own stock
and reserves parts of it; the stocktake reads the counters as its books and posts differences.
Invoices are linked to purchases, to payments and to receipts by three services that do not call
each other: what a bank payment allocates of an invoice and what a purchase allocates of it are
separate tables. Orders come in through the sync alone or as files. The system update stands beside
all of them: its maintenance file makes the API refuse business calls, and it stops the workers.

The hazards of the code, each at its line and with the properties that watch over it, are listed
under `hazards` in `PROJECT.json`.

## 2. The plan

Order of work, the most important behaviour first:

1. `ConsumableLedger`: counters, entries, locks. **Done**; lemmas proved.
2. `ProductionFlow` over it, `MaterialPipeline` as the promise of its flow, and
   `ProductionFlowRefinement` between the two. **Done**; safety and refinement proved.
3. `Stocktake` over the same ledger. **Done**; all its properties proved.
4. `SystemUpdate`. **Done**; its safety proved.
5. `ConsumablePurchases`, purchases and inbound usage over the same ledger. **Done**; all that the
   passing run checks of it proved.
6. `InvoiceLinks`, invoices and purchases. **Done**; its action properties proved.
7. `PaymentMatching`, invoices and payments, with the job apart from the calls and overlapping them.
   **Done**; what the run checks of it proved, and what a job keeps that overlaps the calls.
8. `OrderSync`. **Done**; its safety proved.
9. `BankReceipts`. **Done**; its safety proved.
10. Next: the allocation of inbound quantities to purchases (`local_inbound_service.py`), the
    recycle bin (a purge against a restore), the sync jobs other than that of orders, and publishing
    local changes (`system_update_service.py`, from line 717), each a module of its own.
11. `LedgerClients`: flow, stocktake and purchases over one ledger, with the three orders in which
    they lock consumables (by id, by code, by ledger entry), for waits across services.
    `StockDocumentsProofs` has the invariants of two of them side by side.
12. More proofs: under which condition on inbound documents the total used is that of the usages on
    record, which `purchases_used_total` refutes in general.

## 3. Modules and code

| Module | Models |
|---|---|
| `ConsumableLedger` | `record_transaction`: what each type does to which counter (`Delta`), which counters may not go below zero (`Floored`), the write of absolute values computed from what was read (`Posted`), row locks (`view`) |
| `Totals` | sums over functions to naturals (`Total`) and to integers (`Net`), in a form the provers can work with |
| `ProductionFlow` | the sessions that serve production calls, one action per stretch of code between two points at which other sessions can come in |
| `MaterialPipeline` | the abstract promise: each request key moves its basket once, atomically, from stock to road to factory to use |
| `ProductionFlowRefinement` | the mapping from the first to the second |
| `Stocktake` | the sessions that serve stocktaking calls, other stock movements, and imported goods documents |
| `ConsumablePurchases` | purchases, receipts, inbound usage and their reversals |
| `InvoiceLinks` | links between invoices and purchases, red offsets, the cached status, and the jobs that link |
| `PaymentMatching` | links between invoices and payments by hand, and the monthly job |
| `BankReceipts` | bank statements entry by entry, confirmed and rejected receipts, the status of receivables |
| `OrderSync` | jobs, channels, cursor and workers of the order sync, with a clock |
| `SystemUpdate` | API thread, poller, runner, operator and the world around the deployment |
| `MC...` | the instances for TLC, one per module that is run |
| `...Proofs` | theorems: `ProductionFlowProofs`, `StockDocumentsProofs` (stocktakes and purchases), `InvoiceLinksProofs`, `PaymentMatchingProofs`, `BankReceiptsProofs`, `OrderSyncProofs`, `SystemUpdateProofs` |
| `SharedLemmas` | what several of them need: sums, and copies of rows under locks |

**Ledger.** `bal` is the consumable row, `ledger` the transaction table, `view[w]` the copies session
`w` has read under FOR UPDATE. A session holds the lock of a consumable exactly while the
consumable is in the domain of its view. `Posted` takes the touched counters from the session's copy
and the others from the row: that is how SQLAlchemy writes them, and it is why a missing lock loses
an update. `Explained` compares a counter with the ledger: the opening balance, plus what entries
add, minus what they take. Unit costs, notes and timestamps are left out: no decision reads them.

**Flow.** A call goes through `pc`: `order` (waiting for the order row), `materials` (locking
consumables, smallest id first), `commit`. `StartFlow` is the unlocked lookup of the request key,
`LockOrder` / `RefuseOrder` the checks under the order lock, `LockMaterial` one row lock,
`CommitFlow` / `RefuseFlow` the rest of the handler with all it writes: movements, entries,
counters, reservation columns, status. `ReadOthers` is a step of its own, since the reservations of
other orders are read without a lock and used later. A key whose movements exist is answered
without a change of state, so it needs no step. `gen` counts how often the rows of an order were
rebuilt: a request that names old row ids is refused. `Crash` ends a session anywhere; the database
rolls it back.

**Stocktake.** The definitions that another client of the ledger has too carry the service or the call
in their names (`StocktakeSpec`, `BeginCall`, `request`), so that `StockDocumentsProofs` can extend
both this module and `ConsumablePurchases`. `BeginCall` is the unlocked read of the task and its rows
(`seen`), the commit comes later and writes only the attributes that differ from what was read (`Written`), as the ORM does.
`CheckBooks`, `LockForPosting` and `CommitConfirm` are the three stretches of `confirm_task`; the
prior entries of a row are read under the consumable's lock. The ledger is a set, so a difference posted
a second time would leave it as it is; `OnePostingPerRow` therefore asks the counters too: they must be
what the opening stock and the entries make. `MoveStock` and `ImportDocument` are
everything else that changes the books.

**Purchases.** A call locks its document, reads it, and locks the consumables it is going to move; the
deletion of an inbound document does so link by link. `call[w].on` lists the documents, `RowsOf` says
what a document makes a call lock, `RowsLeft` what of that it does not hold yet, and `NextRow`,
`NextDocument` what it locks next: by id for a receipt, a usage or a link, by ledger entry for the
deletion of a purchase (`EntersFirst`), where the entries of a receipt come in the order of the request.
What is left to lock is thus computed from what is locked; it cannot have changed since, because the
document is held. `LockDocument` / `Refuse` are the checks under the
document's lock, the `Commit...` actions what follows the last lock. `place` is the warehouse's type,
read at each posting, so a reversal goes where the warehouse is then (`ReversalPlace`); where a usage
is drawn from follows `UsagePlace`. `LinesBeforeFlush` is the status of an edited purchase as the
code computes it, from lines a query returns before the session has flushed; `Lowered` the total used
that survives when several usages are reversed in one session. `AbortVictim` is the database ending
one session of a deadlock.

**Invoices.** `links[i][t]` is the row of an invoice and a purchase, `NoLink` if there is none.
`StartLink`, `LockTarget`, `LockInvoice`, `CommitLink` are `link_purchase_order`: the purchase's row,
the invoice's row, the decision, the write of the columns that differ from those read (`Written`) and
of the status. `unlink_purchase` and `confirm_invoice` are users' calls that lock no invoice:
`StartUnlink` and `StartConfirm` have flushed the link and computed the status (`Change`),
`CommitUnlink` and `CommitConfirm` write it if it differs from the one loaded. An import is two steps
as well: `StartImport` reads one invoice of a list and decides on its links (`Followed`, `_auto_link`),
`CommitImport` writes them, or fails where somebody else has added the invoice or the link (`Collides`).
`Match`, `Sweep` (which confirms what is pending) and `Purge` are the jobs of the procurement chain, each
one transaction that runs while no call is under way. `Alone` names the kinds of calls that overlap no
other call; which these are is the assumption of a run or a theorem. `Aliases` are the two
records of one 1688 purchase; `Effective` is what a red invoice leaves of a blue one. `Taken` leaves
open in which order the matcher goes through the invoices: any set it could end with.

**Payments.** `StartLink` to `CommitLink` are the call that links by hand, `Unlink` the update that
takes a link back. `job` is the transaction of the monthly matching: the links it read when the month
began and again after its repair (`loaded`), its `draft` of them, the months left, and per round the
payments or invoices left. It locks nothing it reads. A row it has written is locked until it commits
(`Wrote`), a pair has one row (`MayWrite`: an insertion fails where there is one by now, and with it the
month; a call that would insert it fails as well, in `CommitLink`), and the commit writes the columns that
differ from those read (`Merged`). `JobAlone` says whether calls are kept off while a job runs. `Repair`, `MatchSingle`, `MatchAccount`,
`Split` and `Spread` are what the rounds do with one of them, `NextRound` goes on, `CommitJob`
commits a month and `CrashJob` loses what has not been committed. `Evident`, `SameAccount`,
`SamePartner` and `Days` stand for what names, accounts and dates say.

**Bank statements.** `ReadRow` looks an entry up by its fingerprint and then among the rows that look
like it (`Alike`), `WriteRow` writes it in a transaction of its own, `Clash` is the unique index that
ends an import. `LockReceipt`, `LockSettlement`, `CommitConfirm` are `confirm_match`;
`StartReject`, `LockMatch`, `CommitReject` are `reject_match`, whose flush takes the lock of the match.
`LoadStatus`, `SumUp` and `WriteStatus` are the second transaction, which writes only if the status
found differs from the one loaded.

**Order sync.** A run is a record per worker: where it is (`at`), when it began, its job, its window,
the channel it asks and the answer. `Look`, `Reclaim` and `Insert` are the claim of a job,
`ReadWindow` the start of the window, `ChannelFails` / `ChannelAnswers` the loop over the channels,
`Write` the transaction with orders, cursor and verdict, `Resolve` what follows the commit, `Raise`
the handler, `Crash` a kill. `Show` makes an order visible in the channels, at most `Lateness` after
its time. `Tick` waits for runs that are at their limit.

**System update.** `at[r]` is the next step of runner `r`, labelled as in
`_execute_locked` and `rollback`; every step may fail, and a failure goes where the code's handler
goes (`Raise`, `Resume`, `Noted`). Reading and replacing `status.json` is three steps (`Reads`,
`WriteTmp`, `Rename`), since all writers share one `.tmp` file; `RenameRaises` is `os.replace` on a
file another writer has taken away. `api` is the thread that holds `_LOCK`, `poller` the polling
task, `proc` the runner's process as `os.kill(pid, 0)` sees it: a dead child nobody has waited for
is a `zombie` and still answers. `RestartServices` is what the start script does to the API when it
is started again. `git reset --hard` is two steps: it writes the tree (`Switch`, `Revert`) and then moves
the branch, `head`, unless the hook refuses (`Point`, `Repoint`); it may fail or be cut off before,
between and after them. Versions stand for commits, each with its own migration; `Readable` are those
whose migration id `db_revision` understands.

Mutants. Some definitions in the modules are marked `Mutant`: plausible mistakes in the code (a
dropped lock, a forgotten status, a report before the fact). Nothing refers to them; replacing the
definition they belong to by them must make the property named in `PROJECT.json` fail, which shows
that the property can be broken by the code it is about.

## 4. The runs

| Run | Question | Result |
|---|---|---|
| `flow_compete` | two orders compete for one consumable; two sessions; dispatch, receive, consume, create, recalculate, cancel, a write-off, repeated keys, crashes. Are counters, movements, reservations and status consistent? | holds, 553,832 states |
| `flow_baskets` | requests over two consumables: does every call end, and does the flow implement the atomic pipeline? | holds, 53,834 states |
| `stocktake_shared` | two sessions, two tasks that share a consumable, a good, a purchase and a document meanwhile. Is a difference posted once, in the ledger and in the counters, and without a deadlock? | holds, 346,750 states |
| `purchases_shared` | two sessions, two purchases for one 1688 order, two links of one inbound document, a warehouse that changes its type. Is the stock that of the documents on record, is nothing received twice or beyond its order, who can deadlock? | holds, 563,938 states |
| `invoices_linked` | two sessions, two invoices, a red one, a purchase on record twice and another one, lists and jobs; links and unlinkings overlap. Does a manual link exceed what the invoice or the record is worth, or take an invoice to a purchase twice? Is a status right when more has been allocated? Do rejections stand? | holds, 311,116 states |
| `payments_matched` | two sessions, two invoices, three payments, the job over one month or two, while no call is under way. Is anything paid or spent twice, does the job keep off decisions and move its own links without a gap? | holds, 703,357 states |
| `receipts_settled` | two sessions, two statements in two forms that overlap, two receipts that look alike, two receivables. Is every entry on record once, does every receipt count once, is nothing settled beyond what is expected? | holds, 1,596,349 states |
| `orders_synced` | two workers, two channels, late orders, failing and short answers, kills. Is an order left out, do runs overlap, does a job stay running? | holds, 92,626 states |
| `update_scheduled` | the poller installs two updates and a runner may be killed anywhere: is the lock its owner's, does the poller keep off a living runner, do lockout and status come to an end? | holds, 73,275 states |
| `update_once` | one update of the administrator, killed anywhere, with `make` targets and API crashes around it: is the business only open on matching code and schema, but for two cases (section 7); what has a rollback brought back? One of three migrations is unreadable | holds, 805,444 states |
| `update_retry` | the first of these promises when a second update follows a failed rollback | does not hold (section 7) |
| `purchases_used_total` | is the total used that of the usages on record? | does not hold (section 7) |

`CHECK_DEADLOCK FALSE` is set where the system may come to rest: no client has to send another
request, tasks may all be ended, all versions may be installed, ids may have run out. Whether
sessions block each other is a property (`NoWaitCycle`, `OnlyDeletionsDeadlock`, `EveryCallEnds`), not
left to TLC's deadlock check. The flow runs keep the check on: orders can always be asked for again.

Between them the passing runs take every action and every disjunct of the next-state relations.

## 5. Bounds, assumptions and fairness

*Sessions.* Two. The races in the code are between two calls: one that has read and one that commits.
The theorems have no such bound. Symmetry is used for the sessions, in runs without liveness
properties only.

*Flow and stocktake.* One or two consumables, two orders, stock 2 or 3, quantities 1 and 2: enough
for two orders to exceed the stock together, for a receipt to exceed what one order has on the road
and not what is in transit, and for two requests to lock two rows in opposite orders. `MaxRecalc`
bounds how often the reservation rows of an order are rebuilt; with 2 a request can name rows that
are gone. Counted quantities are below, above and (by a purchase of the same amount) again at the
book quantity, so that a re-opened task passes the book check a second time.

*Purchases.* Two purchases with one 1688 order and different keys, a delivery that fills an order in
part, and wholly once an edit has shrunk its lines, with its lines against their ids; two links of one
inbound document that use the same consumable, one of them another as well. `MaxIssued = 2` bounds
receipts and usages together: two of them can be of one kind or of both, and one can be reversed while
the other is under way. That the second reversal of a document loses the first one's effect on the
total used is the question of `purchases_used_total`.

*Invoices.* Links and unlinkings overlap freely. Confirming, importing and pairing take no lock on what they
read either, but the properties fail when they overlap a link or a rejection (section 7): `Alone` names
them, and each then runs while no other call does. That is an assumption about the users and not something the
code sees to. The theorems name, one by one, the smallest set each property needs: a rejection survives all
but lists, a status all but confirmations and lists. An unlinking that overlaps a link may also leave a wrong
status, so `AdditionsAreJustified` is about whoever allocates more. `MadeByHand` looks at the step that makes a
manual link: what a list or a job adds later is not held against it. `LinkFits` bounds the invoice, after its
red ones, and the record linked to, not the limit that the two records of a purchase share: the code does not
keep that one. The jobs run while no call is under way: each is one transaction over many invoices without a
lock.

*Payments.* In `payments_matched` the job runs while no call is under way and calls start when no job is
(`JobAlone`). The code does not see to that: the job locks nothing it reads, so what is linked by hand
meanwhile is not in the sums it works with. With the two overlapping, `JobKeepsDecisions` fails, and so does
`PaymentsFit`, when a call and the job draw on one open amount (section 7). The model has the overlap
(`JobAlone = FALSE`); what holds even so, `RejectedStaysRejected`, is a theorem. Names, accounts and days are
fixed by the instance so that each of the rounds finds a pair only it can make.

*Bank statements.* One account, and one statement uploaded at a time, though the same one may be
uploaded twice at once: two different ones that name an entry in different forms can both add it. Forms
differ in the numbers they give; the name and the account of the other party are the same in all of them
(`reconciliation.py:284` lets the account be missing).
Entries that look alike but for their numbers share no voucher (section 7). `MaxMatches = 2` lets a
confirmation follow a rejection, or two compete; a session at the bound may crash like any other.
`Tolerance` is the cent that counts as none.

*Order sync.* `TimingAssumption`: the hard limit of a task is not longer than the age at which its
job may be reclaimed (35 and 180 minutes by default), and orders show up no later than the overlap of
two windows (30 minutes). A channel's answer is complete, or so short that the guard notices it. All
channels go by one time of an order. `Jobs` and `MaxNow` bound ids and clock: enough for a success, a
kill, a reclaim and another success. The numbers in the configuration keep the order of the defaults,
not their size.

*System update.* Two versions, or three, and one or two runs: an update, and one after a failed or killed
one. In `update_once` the migration of the middle version is unreadable, so that updates from and to it
are among those checked; in `update_scheduled` that of the last one is. A
third run starts from the same kinds of leftovers. `Mortal` are the runners that may be killed: the
first one. `MaxOutside` bounds `make` targets and crashes (2 in `update_once`, where the administrator
starts the update; 0 in `update_scheduled`, where the poller does): a guard that has judged a lock
stale and removes it late can remove the next runner's lock, a hazard of the code
(`update-guard.sh:55`) that `RunnerOwnsLock` does not survive. `Prompt = TRUE`: `start_update`
returns before the runner has begun. The runner is a Python interpreter that starts up after the
`fork`, while the API has a rename and one small file left to write; without this the handoff races
the claim (hazards at lines 275 and 1856 of the service).

*Fairness.* `ProductionFlow!FairSpec`: strong fairness of each session's step, because PostgreSQL
queues the waiters of a row lock, so a session that can again and again take it does. Nothing is
assumed about new requests or crashes. `SystemUpdate!FairSpec`: weak fairness of each runner, of the
API's thread, the poller and the writes; they are processes that go on unless they are killed, and
none waits for another but the claim of a runner for the thread that spawned it. Nothing is assumed
about the administrator, the operator, pushes or kills. `OrderSync!FairSpec`: weak fairness of each
worker's steps, of the orders that show up and of the clock, since Celery's beat sends the task again
and again (in manual mode a page does) and a worker goes on unless killed; strong fairness of
`Reclaim`, since a worker may be killed, but not each time it is about to reclaim a job.

## 6. The proofs

| Theorem | Says | Argument |
|---|---|---|
| `NoLostUpdate` | `ProductionFlow!Spec => []NoStaleView` | `LocksInv`: a row is in one view at most, views are fresh, only sessions that need rows hold them |
| `TypeCorrect`, `QuantitiesOrdered` | `... => []TypeOK`, `... => []FlowOrdered` | `FullInv` |
| `TransitCoversOrders` | `... => []OutstandingInTransit`, given `NoManualReceipt` | `FullInv`, sums over orders |
| `CancellationSafe` | `... => []CancelledSentNothing` | `SentInv` with `FullInv` |
| `LedgerComplete`, `CountersComplete` | `... => []LedgerExplainsBalance`, `... => []CountersMatchMovements` | `BooksInv`, `MovesInv`, sums over entries and movements |
| `NothingOverbooked` | `... => NoNewOverbooking` | `OthersCover` |
| `FlowImplementsPipeline` | `... => MovesOnce`, given `KeysName` | `RequestsInv`, one step lemma per action |
| `RowsPostOnce`, `PostingsAreFresh` | `StocktakeSpec => []OnePostingPerRow`, `=> []NoStaleView` | `PostingInv` |
| `ConfirmationsNeverDeadlock` | `... => []NoWaitCycle` | `OrderInv` |
| `StocktakeTypes` | `... => []StocktakeTypeOK` | `TypeInv` |
| `PurchaseTypes` | `ConsumablePurchases!Spec => []TypeOK` | `PurchaseInv` |
| `StockIsLiveDocuments` | `... => []BooksAreLiveDocuments` | `BooksInv` over `SessionsInv`, `DocumentsInv`, `CallsFinite` |
| `ReceiptsNeverExceedOrders` | `... => []ReceiptsFitOrders` | `DocumentsInv` over `SessionsInv` |
| `OnlyDeletionsBlock` | `... => []OnlyDeletionsDeadlock` | `SessionsInv`, `DocumentsInv` |
| `TypeCorrect` | `InvoiceLinks!Spec => []TypeOK` | `LinksInv` |
| `RejectionsStand` | `... => DecisionsStand`, given `ListsRunAlone` | `LinksInv` |
| `ManualLinksFit` | `... => LinkFits`, given `RoomsRunAlone` | `RoomInv` over `LinksInv` |
| `StatusFollowsLinks` | `... => AdditionsAreJustified`, given `StatusesRunAlone` | `LinksInv` |
| `NothingPaidTwice`, `DecisionsKept`, `NothingTakenBack` | `PaymentMatching!Spec => []PaymentsFit`, `=> JobKeepsDecisions`, `=> PaidStaysPaid`, given `JobAlone` | `MatchingInv` |
| `TypeCorrect`, `RejectionsOutlastJob` | `... => []TypeOK`, `=> RejectedStaysRejected` | `OverlapInv` |
| `TypeCorrect`, `ReceiptsCountOnce` | `BankReceipts!Spec => []TypeOK`, `=> []CountedOnce` | `ReceiptsInv` |
| `StatementsAreKept` | `... => []StatementKept`, given `NumbersTell` | `KeptInv` |
| `TypeCorrect`, `OneRunAtATime`, `NoOrderSkipped` | `OrderSync!Spec => []TypeOK`, `=> []OneRun`, `=> []NothingSkipped` | `SyncInv` |
| `UpdateTypes` | `SystemUpdate!Spec => []TypeOK` | `TypeInv` |
| `RunnerKeepsLock` | `... => []RunnerOwnsLock`, given `LockUndisturbed` | `LockInv` |
| `OpenIsConsistent`, `RollbackRestores` | `... => []OpenMeansConsistent`, `... => []RolledBackRestores`, given `OneAdmin` | `ConsistentInv` over `ReportInv`, `OneAdminInv` |
| `PollerMarksOnlyDead`, `ChecksLeaveReports` | `... => MarksOnlyDead`, `... => ChecksKeepOff`, given `PollerAlone` | `SettledInv` over `ReportInv`, `LockInv` |

They hold for any set of sessions, consumables, orders, tasks, invoices, payments, entries, requests
and amounts that satisfies the assumptions of the modules, which fix the types of the constants, and,
where the table says so, the assumption named there. (`TimingAssumption` of the order sync is the one
that says more than types; section 5 gives the numbers. `StockDocumentsProofs` extends two modules, and
so declares the constants of both; what it proves of one uses the assumption of that one alone.) What these assume:

| Assumption | Means | Without it |
|---|---|---|
| `NoManualReceipt` | no client books `factory_receive` by hand | the manual entry draws on the orders' transit counter |
| `KeysName` | requests of one key, kind and order name the same reservations | two requests are carried out under one key (section 7) |
| `ListsRunAlone` | a list is imported while no call is under way | the list links a pair again that was rejected meanwhile (section 7) |
| `RoomsRunAlone` | confirmations, lists and pairings overlap no other call | they allocate, or lower what the invoice is worth, under a link that has found room |
| `StatusesRunAlone` | confirmations and lists overlap no other call | a link made meanwhile is not in the status they write (section 7) |
| `JobAlone` | no call is under way while the matching job runs | the job rejects a link made by hand (section 7), or draws on an amount a call has taken |
| `NumbersTell` | every entry has a number, a statement names its entries by number, and no two entries of a day share one | entries that share a voucher are merged (section 7) |
| `LockUndisturbed` | `Prompt`, and no `make` target sweeps the lock late | the sweep or the handoff takes the lock of the next runner (section 5) |
| `OneAdmin` | `Prompt`, one update, started by the administrator | a second update may open what a failed rollback left (`update_retry`) |
| `PollerAlone` | `LockUndisturbed`, and updates and checks come from the poller alone | an administrator's call overwrites the status |

Each is what the run that checks the property assumes: the regimes of `update_once` and
`update_scheduled`, `Alone` in `invoices_linked`, `JobAlone` in `payments_matched`, no manual receipt in `flow_compete`, and
`NumbersTell`, which `MCBankReceipts` states of its instance.

*Flow.* `FlowOrdered` is not inductive: a commit writes columns computed from a snapshot, so one has
to know that the snapshot is what the row still holds. The invariant has three layers, each proved
inductive with the ones below it. `LocksInv` (consumable rows): two sessions never hold one row, and
what a session has read under the lock is still there. `OrdersInv` (order rows): one session at most
is past the lock of an order, and its snapshot equals the order's row (`SnapFresh`), which holds
because every action that writes an order's rows needs its lock or creates the order. `FlowInv`: types, the order of the columns, and
that the reservations of others were read as naturals. The step lemmas have one case per
action.

*Transit.* `OutstandingInTransit` sums over all orders, so one order's dispatch must be shown to
change the sum by its quantity: `TotalChange` and `PartOfTotal` in `SharedLemmas`. `Totals` sums by
the size of a set of units instead of by recursion, since facts about a recursive sum need induction
over data, which the provers cannot do. The assumption `NoManualReceipt` says that no client books
`factory_receive` by hand: the ledger's API allows it, it draws on the same transit counter, and the
property is then false.

*Cancellation.* A dispatch must find the order open under its lock, and a cancellation must find
nothing dispatched; `SentInv` says that movements of an order show in its rows and in its status.

*Books and movements.* A commit adds an entry, and a movement, per consumable. For the sums to grow by
exactly those, they must be new: a commit that meets a movement of its key is refused, and `BooksInv`
says that every entry of the flow belongs to a movement on record. `MovesInv` carries the sums of the
movements for each order, kind and consumable. An entry adds or takes; `Explained` sums the two apart,
since a `Total` is of naturals.

*Reservations.* The rows of other orders are read without a lock. `OthersCover` says that what a
session read still bounds what they reserve: whoever raises a reservation needs the consumable's lock,
which the reader took first.

*Refinement.* The pipeline's state is read off the flow's: what is on the road, at the factory and used
up from the columns of the rows, the keys from the movements. `CommitFlow` is one move of the pipeline,
whose guard `FullInv` gives; the commits that rebuild or close an order leave its goods where they are
(`SentInv`), and every other action leaves the mapped state alone. `RequestsInv` says that calls and
movements come from requests.

*Stocktake.* Nobody locks the task, so the argument rests on the consumable alone: a session that has
locked a row's consumable has also read all entries of the row's source, and none can appear
while it holds the lock (`PriorComplete`). `OrderInv` adds that what a session holds sorts before what
it still has to lock (`HoldsLowest`). In a circle of waiting sessions the consumables asked for would
sort ever later; there are finitely many. `TypeInv` is needed because the book of a good is a sum over
the completed tasks: their rows must have a shape before the sum is an integer. `ExplainedInv` ties the
counters to the ledger: a session that posts finds no entry of the row, adds one, and moves the counter by
it, or finds one and moves nothing. So the second posting of a difference, which the set of entries
would not show, cannot have moved the counter either.

*Purchases.* `SessionsInv` says that a document is held by one session, that what a session has read of
a consumable is still there, that its request names documents and holds only consumables these call
for, and that what it found when it locked its document (`Deliverable`, not `absent`) still holds: nobody
else may write a document that is held, and the one condition that reaches beyond it, that no delivery
is on record twice, is decided by receipts of the same purchase. `DocumentsInv` ties the lines of an
order to the receipts (`OrderOK`), gives every receipt and usage an id of its own, and bounds ids by
`issued`; its hard step is `Update`, where the status is computed from lines that are not the ones
written, and is right all the same because a line that has got something cannot be dropped or shrunk
below that. `IssuedInv` counts the calls that will give an id. `BooksInv` holds the sums: what a commit
changes in the receipts or usages, it changes in the counters and in the entries. A reversal
must be new for the entries to change by as much, which is why `EntryOnRecord` says that the
receipt or usage of a reversed entry is gone; ids are not given twice. A reversal posts where the
warehouse is then, which need not be where the receipt went: so the total over the locations is tied
to the documents, and each location to the ledger only. A deletion reverses several receipts or usages
of one consumable at once, so its sums run over them (`ReceivedOf`, `UsagesReturned`).

A session that does not delete takes its one document first and then consumables by id, so what it
holds sorts before what it still asks for (`Ascends`). In a circle without a deletion take the largest
consumable asked for: a session of the circle holds it, has its document, and so asks for a larger one.

*Invoices.* `LinksInv` has the types, that a row never written is no link (`Sound`), that a link a
call has loaded is still there, that a call of a kind in `Alone` has no other beside it (`Apart`), and that
what such a call has loaded is as it was (`AsLoaded`). It gives the types; with `ListsRunAlone`, that a
list writes over no rejection; with `StatusesRunAlone`, that the status of a confirmation or a list, computed before it is written, is
still right; an unlinking adds nothing, and the others sum up what they have just written. `RoomInv` adds what the sums need: no two calls hold one record or one invoice
(`LocksApart`), and a call about to commit still has the room it found (`RoomFor`). An unlinking only
adds to that room, so it may overlap; each assumption is the smallest set of kinds for which the argument
goes through. TLC finds a counterexample when one of them is left out.

*Payments.* A session about to commit has found room for its link under the locks of payment and
invoice (`RoomFor`), so nobody else takes that room. The draft of the job fits like the links do,
agrees with them on what was decided by hand, and spends at least as much of each payment
(`GoodDraft`); each round is shown to keep this, the split and the spread with `TotalSum`, since they
write several links at once. That the draft agrees with the links needs `JobAlone`. Without it less can be
said: the job has made of each pair it read nothing, a rejection, or a new row where there is none
(`Kept` in `OverlapInv`), and so its commit turns no rejection into a link (`MergedRow`).

*Bank statements.* A confirmation holds the receivable, so between its check and its commit the
others can only lower what is settled (`Room`, `CommitsApart`). An import never changes day, amount
or name of a row, so it never changes what a match is worth (`RowsKept`). That a row has one
fingerprint of its own needs that at most one row is taken over per entry (`KnownOne`). `KeptInv` gives
every row the one entry it belongs to (`OwnedOnce`): the fingerprint, or the look-alike search, finds
the row of the entry and no other, since the numbers tell entries apart. An import about to add a row
knows that a row of its entry, had one come up meanwhile, would clash with it (`KnowsOwn`).

*Order sync.* A run whose job is stale is dead: it would have to be later than `started + Stale` and
no later than `started + Limit`. Hence one run at most is at work. `NothingSkipped` is not inductive: a run that has reported its success may
still be overtaken, so `SyncInv` says for every run, the finished ones too, that all orders before its
window are recorded, and the overlap covers those that were late.

*System update.* The layers correspond to the questions one has to answer in order. Which processes
live, and who can have a draft of `status.json` or `owner.json` (`LivesInv`, `DraftsInv`)? Who owns the
lock at each step of the thread and of the runner (`LockInv`)? From the handover to the runner's last
report, who else may write the status (`HandInv`, `ReportInv`)? Nobody, which is why a runner's reports
succeed and its later steps are reached. The last needs what the regime adds (`Sheltered`): one update
of the administrator (`OneAdminInv`) or the poller's alone. `ConsistentInv` then says, for each step of
a runner, what it remembers of branch, tree and schema and how far they are apart, and of a run that
failed early or could not read its migration which exception applies. `SettledInv` says that
a runner that is about to give up the lock has reported its end, and that no pending report of the
thread says otherwise.

Only model-checked: liveness (`EveryCallEnds`, `LockoutEnds`, `StatusSettles`, `JobsSettle`), since
fairness is out of the prover's reach. Everything else the passing runs check is proved. Only proved:
`RejectedStaysRejected`, since in the run no job overlaps a call.

## 7. What the models say about the code

Most of what the code sets out to do holds. These runs show where it does not:

- **Second update after a failed rollback** (`update_retry`): the early-failure handler
  (`system_update_runner.py:604`) opens the business unconditionally.
- **The total used after a deletion** (`purchases_used_total`): deleting an inbound document lowers
  `used_qty` in the session after `record_transaction` has flushed, and the next usage of the same
  consumable re-reads the row first, so only the last usage counts (`consumable_service.py:532`).

Modelling led to more, each read in the code and kept out of the properties by a named bound or
assumption, or allowed by them:

- *Ledger and flow.* The request key is compared before the order lock
  (`production_material_flow_service.py:117`), so two submissions with different items can both be
  carried out under one key.
- *Stocktake.* The books are compared before anything is locked (`inventory_stocktake_service.py:387`).
  An overlapping cancellation turns a completed task into a cancelled one with its postings left in
  the ledger; a late save overwrites its counts.
- *System update.* `git reset --hard` (`system_update_runner.py:412`) writes the tree before the reference
  transaction, which the guard's hook may refuse, and before its timeout may fall. The runner then takes the
  code for not switched, opens the business on the new tree with the old schema, and reports that the
  version in force was not changed (line 606); `OpenMeansConsistent` excepts this (`Unnoticed`). `db_revision`
  (line 203) takes hexadecimal ids only, and most migrations of this repository have others: their rollback skips the
  downgrade, opens the old code on the new schema, and reports that the former version is back (line 529);
  both properties except this (`Unread`). A write of the verdict that fails after the business was opened is
  taken for a failed update (`system_update_runner.py:577`).
- *Invoices.* `confirm_invoice` (`procurement_chain_service.py:963`) and `unlink_purchase`
  (`tax_invoice_service.py:3718`) take no lock: a link made meanwhile is not in the status they write.
  `_auto_link` (line 1505) reads the pair unlocked and writes it later, so a list links a pair again that
  was rejected in between; it takes over a manual link of the pair; and it heeds a rejection of the record
  the list names, not of the purchase's other record. `link_purchase_order` locks the record it links to, so
  two invoices linked at once to the two records of one purchase exceed the limit that line 3133 wants
  shared. Pairing and unpairing red invoices leaves the status of the blue one as it was (line 767), though
  the docstring says it is kept in step.
- *Payments.* The repair ranks a payment of the same day after all others
  (`payment_invoice_match_service.py:396`: zero days is falsy). A split stops short of a month when a
  rejected pair is skipped (line 881). A link that overlaps an unlinking writes the columns that
  differ from what it read and may leave the pair unconfirmed (line 1457). A job and a call that overlap
  may both draw on what one invoice has left, and the repair rejects a link that a user has confirmed by
  hand since the job read it (line 402), which line 1007 rules out.
- *Bank statements.* `reject_match` (`reconciliation.py:746`) takes any row of the pair: after
  confirm, reject and confirm it may take the old rejected one and change nothing. The status is
  summed up in a second transaction (line 565): two that overlap leave the older sum, and a crash
  leaves none. A receivable within a cent of its amount stays `partial` though `confirm_match` calls it
  settled. Entries that look alike and share a voucher number are merged (line 266); the adapter reads
  the line number as a voucher when there is no other. A clash of fingerprints ends an import with its
  batch left `processing`.
- *Order sync.* An empty answer passes the guard against short ones
  (`jky_order_sync_service.py:591`). The API filters by the time of consignment and the pages by
  another, with one cursor. A later channel's rollback drops the health rows of earlier ones, which
  `docs/external-integrations.md:18` says are recorded as they are. An error after the
  commit is taken for a failure of the channel, the next one is asked, and a job whose orders were
  written may end as failed.

Lesser ones are hazards with a note in `PROJECT.json`: a retried request that is refused although it
was carried out, a lockout that stays after a killed runner, a runner's status overwritten by a late
check, a crash of the API that restarts the workers during the backup.

## 8. Not modelled

- *Orders imported as files* in the sync: they only add records, and the cursor ignores them.
- *Links between orders and inbound documents* of the procurement chain: rebuilt from names and dates
  on each run.
- *Inbound allocation, recycle bin, the other sync jobs, publishing local changes*: planned (section 2).
- *Settings, log tail, clean-up of artifacts* in the system update.
- *Catalogue of consumables, import of 1688 candidates*: single-request edits.
- *Parsing of lists, statements and pages; adapters; browser automation*: I/O; what they return are the
  inputs of the models.
- *Tax categories and accounts, finance, reports, closing, dashboards, exports*: aggregates over
  documents.
- *Partners, foreign trade, logistics, warehouses*: single-request edits of master data.
- *Backups, authentication, frontend, migrations, deployment*: I/O, per-request checks, one-off
  scripts.
- The adapters' formats, texts of messages, and decimal places: quantities and amounts are integers,
  since no decision modelled depends on fractions, but for the cent of `Tolerance`.
