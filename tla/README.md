# Verification of the mini ERP for export trading

TLA+ models, TLC configurations and TLAPS proofs for the back end of this
repository (`src/backend`, NestJS 11 with TypeORM 0.3 on PostgreSQL). Every
definition is translated from the services' code; `PROJECT.json` maps each one
to the lines it stands for.

## 1. The system

One NestJS process serves HTTP requests concurrently; all business state is in
PostgreSQL at its default isolation level, READ COMMITTED. Services call each
other directly, and listeners hear decisions through an in-memory event emitter
after the commit. Two kinds of operation exist side by side:

- operations that take `pessimistic_write` locks on the rows they change, in one
  transaction: an atomic step of the models;
- operations that read a row without a lock, decide, and `save` it later. What
  they write was computed from what they read, and anything may happen in
  between: two or more steps of the models, with the copy kept in a job.

### Inventory of components

| Component | State | Operations | Interacts with | Hard behaviour | What makes it correct |
|---|---|---|---|---|---|
| Inventory stock engine (`inventory.service.ts`, `lots.service.ts`) | `products.currentStock`, `reservedStock`, ledger rows with remaining quantities, lots | `executeInventoryTransaction`, `reserveStock`, `releaseStock` | called by every document that moves goods; posts journal entries | FIFO order by transaction start, lots found and saved without a lock of their own, fallback costs, clamped releases | running balances, layers never over-drawn, account 156 follows FIFO value |
| Sales contracts (`sales-contracts.service.ts`) | contract status, signatures | create, update, submit, decide, sign, confirm, cancel, ship | approval matrix (call and event), inventory, receivables | stale copies, decisions in another transaction, crash between steps | nothing past approval unapproved, no overselling, status tells what is reserved |
| Approval matrix (`approval-matrix.service.ts`) | requests, steps | create, approve, reject, cancel | every approved document, by event | copies saved over each other, row locks | approved means every step approved; nobody waits for ever |
| Approvals centre (`approvals.service.ts`) | none of its own | approve, reject of nine document types | writes the documents directly | bypasses the documents' own checks | same as the documents |
| Shipments (`shipments.service.ts`) | shipment status, stock-issued flag, soft deletion | create, update, updateStatus, issueStock, remove | contracts, export deliveries, accounting | whole-row saves of stale copies | goods leave once, nothing sails unissued |
| Export deliveries (`inventory.service.ts`) | delivery status | create, issue, cancel | shipments, stock engine | issue from two places | one active delivery per shipment |
| Warehouse documents (`inventory.service.ts`) | adjustments, counts, customer returns | create, submit, approve, reject, receive | approval matrix, stock engine | stale snapshots, decisions heard late, out of order or never | each document moves stock once |
| Products (`products.service.ts`) | product rows | create, update | owns the stock columns | whole-row save against locked movements | none: section 4 |
| Goods receipts, purchase returns, quality control, purchase orders | orders, receipts, returns, checks | receive, reverse, return, claim, resolve, cancel | stock engine, vendor invoices, approvals centre | unlocked looks at invoices, decisions whatever was received, claims that change returns | received is what was delivered, a receipt moves what it brought in, a return leaves once |
| Accounting (`accounting.service.ts` and guard) | journal entries, periods | post, reverse, close, reopen, lock | called by almost everything; approval matrix | no locks at all; decisions taken and saved on old copies | locked and reopened only by approvals that were announced, results carried in full |
| Receivables, receipts, commercial invoices | receivables, allocations, receipts, invoices | bill, edit, allocate, approve, issue, cancel | contracts (PAID), accounting, trade finance | five writers of paid amount and status, statuses given by the creator | paid is backed by money, revenue once |
| Portal payments, trade finance, SePay | receipts of buyers, transactions, webhook records | submit, review, deliver, match, post | receivables | redelivery, crash between posting and confirming, receipts confirmed as they come | a transfer is posted once, and recorded in the end |
| Payables, vendor invoices | payables, batches, payment lines, requests | edit, void, batch, decide, pay, reverse | purchase orders, approval matrix, trade finance | late decisions saved over paid batches, requests decided twice, paid amounts entered by clerks | money moves only with an announced approval; paid is what the lines add up to |
| Signature invitations | invitations, one-time passwords | send, verify, sign, revoke, expire | contracts | expiry and attempts against concurrent use | one valid invitation |
| Quotations, proforma invoices, inquiries, purchase requests | status | create, decide, convert | next document | double conversion | each converted once |
| Pricing, dashboards, search, documents, reference data, users, cache, notifications, web client | various | mostly queries and single-row edits | | cache against invalidation | out of the core |

`PROJECT.json` lists every component with its status, and under `hazards` the
places in the code where a test would hardly reach, with the property that
covers each or the reason why none does.

## 2. Modules

| Module | Models | Proofs |
|---|---|---|
| `Sums` | sums of finite functions on `1 .. n` and over finite sets, as recursive functions | `SumTheorems` |
| `Serving` | requests being served: what each worker does next, at the same time or one at a time | |
| `StaleRows` | what TypeORM's `save` writes when the row has changed since it was read | |
| `StockLedger` | the stock engine: ledger, FIFO layers, lots, journal entries | `StockLedgerProofs` |
| `SalesContracts` | contract life cycle with overlapping requests, approval decisions, signatures, reservations | `SalesProofs` |
| `Receivables` | invoices, receivables, allocations and receipts of one contract | `SalesProofs` |
| `Shipments` | shipments edited from stale copies, beside locked export deliveries | `SupplyProofs` |
| `Fulfilment` | `SalesContracts` and an instance of `Shipments` on the same rows | `SalesProofs` |
| `ApprovalMatrix` | requests with steps, decided on copies, row locks | `ApprovalMatrixProofs` |
| `StockDocuments` | abstract: a document moves stock once, when it is applied | `WarehouseDocumentsProofs` |
| `WarehouseDocuments` | adjustments, counts, customer returns, the product form; implements `StockDocuments` | `WarehouseDocumentsProofs` |
| `Purchasing` | one purchase order: receipts, reversals, checks, claims, returns, vendor invoices, cancelling | `SupplyProofs` |
| `Payables` | payables, approved payment batches, reversals, transactions for vendor invoices | `SupplyProofs` |
| `AccountingPeriods` | posting, reversing, closing, reopening and locking periods | `AccountingPeriodsProofs` |
| `PortalPayments` | receipts of buyers, their review, the bank's webhook, transactions | `PortalPaymentsProofs` |

A proof module may hold the proofs of several components: the components stay
independent, each with its own specification, invariant and theorems.

`MC_*` modules instantiate them for TLC. Definitions whose comment says *Mutant*
are faulty variants of the definition that follows; no specification uses
them. They document which mistake each property catches.

Two conventions run through the modules. `jobs[w]` is what a request in progress
knows: the copy it read and the step it does next. `overlap` is chosen in the
initial state and never changes: when it is FALSE a request begins only when no
other is in progress (`Alone`), so one run answers both what holds whatever
overlaps and what holds one request at a time. Properties that begin with
`~ overlap =>` are of the second kind; the code breaks them when requests do
overlap, which section 4 lists.

### How state and actions correspond to the code

**StockLedger.** `stock`, `reserved` and `ledger[p]` are the columns of a
product and its `inventory_ledger` rows. `ExecuteInventoryTransaction` is the
function under the lock on the product: check, FIFO draw, product, ledger row,
journal entry. The lot is not covered by that lock: `LotsService` finds it by its
number and saves it, and movements of several products may name the same lot. A
movement that names one therefore finds it first (`FindLot`, the copy is in
`found[p]`) and saves that copy when it commits, or fails in between (`Rollback`).
Layers are drawn in the order of `createdAt`; PostgreSQL's `now()` is the start
of the transaction, so the creation time of a layer is a free choice and layers
may appear out of order. `TypeORM` returns rows of equal time in any order, so a
draw is any function that satisfies `FifoDraw`. Prices are integers: the unit
price of an issue, an average, only matters through the value of its row, which
is kept. `books` holds debit minus credit per account. `COUNT` and `REJECTION`
movements pass `autoPostAccounting = false`; the entry their callers post in the
same transaction is part of the step. A closed period refuses the movement, and
its transaction is rolled back.

**SalesContracts.** One action per locked operation (`SendForSignature`,
`SignContract`, `ConfirmContract`, `ShipContract`, ...), two or three for
the others: the read and its checks (`ReadForUpdate`, `ReadForSubmit`,
`ReadForCancel`, `ReadForSigning`), the approval request in its own transaction
(`CreateRequest`), the write of the status (`WritePending`, `Update`,
`BuyerSigns`). A decision is loaded, saved and heard in three steps
(`LoadRequest`, `Decide`, `ListenerReads` and `ListenerWrites`, or
`CompleteCancelWorkflow`, which locks). `Abandon` is an exception or a restart
at any of these points. Steps and approvers are in `ApprovalMatrix`; here a
request is decided by whoever acts. Quantities per contract do not change: the
draft's lines may be edited but reservations only follow approval.
`PayInFull` is the effect a final payment has on the contract.

**Shipments.** A clerk's desk holds the copy of a row. `Save` writes it back as
TypeORM does: columns in which copy and row differ at the time of the save. If
the row changes between that comparison and the `UPDATE`, only the clerk's own
change is written: the second alternative of `Save`. `CreateExportDelivery`,
`IssueExportDelivery` and `CancelExportDelivery` lock their rows. Readiness
checks that only look at fields of the row other than the stock flag may pass
or fail: the guard keeps the flag. `ContractServiceStep` stands for the sales
contracts when the module is checked alone; in `Fulfilment` it is replaced by
the real module.

**ApprovalMatrix.** Loading, saving the step, comparing the request with its rows,
and committing are separate steps. `save(currentStep)` locks the row of the
decided step until the commit (`LocksStep`). The cascade of the relation writes
the other steps the copy holds, too, and waits for the rows others have locked
(`WaitsFor`). The `UPDATE`s of one `save` are one step with the commit: they write
values computed before, so with the locks held to the commit the rows end as in
some order of the commits. When requests wait for each other in a circle,
PostgreSQL aborts one of them (`DeadlockBroken`). `acted` is the history of
committed decisions; no action reads it.

**StaleRows.** `Saved(row, read, new)` is the set of rows a `save` of the copy
`new`, made from `read`, may leave: the whole copy when the row had changed
before TypeORM compared, or only the caller's own columns when it changed after.
These are the two extremes; a row that others change both before and after
TypeORM compares it is left with columns of each, which is left out.
`AccountingPeriods`, `Receivables`, `PortalPayments`, `WarehouseDocuments` and
`Purchasing` use it for every unlocked save.

**WarehouseDocuments.** A document is drawn up, submitted and then waits for a
request of the approval matrix. The decision (`DecideRequest`) and the listener
that moves the stock (`HearApproval`, `HearRejection`) are two transactions,
and `HearNothing` loses the event: the listener's errors are only logged.
`CancelRequest` decides on a copy loaded without its steps. Customer returns
are read and saved without a lock (`ReadReturn`, `SaveReturn`), only
`ReceiveCustomerReturn` locks. `ReadProduct` and `SaveProduct` are the product
form, which saves the stock columns of its copy: no property is about it, it is
there for what it does to the stock the others find. `MoveOtherwise` is any other
movement of the stock engine. Two fields of a document are history: `drawn`, the
length of the ledger when a count was taken, and `approvals`, how often a return
was approved.

**Purchasing.** One order of one line from SENT on. `CreateReceipt`,
`CreateInvoice`, `CancelOrder` and `SendReturn` lock what they change. A
reversal looks for vendor invoices first and locks the order afterwards
(`LockReceipt`, `ReverseReceipt`), checks read, save and then recalculate the
order (`ReadForCheck`, `SaveCheck`, `Recalculated`), claims and resolutions save
the copy of a check and overwrite the status of its return (`SaveOutcome`). A
check is about a line of a receipt or about none (line 0), and what it rejects
is bounded by the quantity its client sends, not by the line's (up to `Ordered`
in the model). The recalculation leaves an order alone that it read as CANCELLED
(`SavedOrder`). `DecideOrder` is the approvals centre, which saves SENT or
CANCELLED on a copy read without a lock, whatever was received.
`UpdateInvoiceStatus` sets any status, as the endpoint does.

**AccountingPeriods.** No operation locks. The posting guard and the insert
(`CheckPosting`, `Insert`), the closing items and the save of the period
(`ReadForClose`, `BuildClosingItems`, `ClosePeriod`), the request and the
decision, the listener's read and its save (`ListenerReads`, `ReopenPeriod`,
`SaveDecision`) are steps of their own. An entry is what it adds to revenue
minus expense. A request has one step here (several are in `ApprovalMatrix`) and
is decided on a copy: `LoadRequest`, then `Decide` or `Withdraw`, whatever
others have decided meanwhile. `decisions` is the log of announced decisions,
which the listeners work from; it never shrinks, while a request's status may be
saved over. The close policy and the verification of the audit chain may refuse
an operation at any time; a refused operation has no step. Locking and reopening
are therefore only reached where the chain verifies.

**Receivables.** Issuing an invoice (`IssueOnReceivable`, or `FindNoReceivable`
and `IssueOnNewReceivable`) and allocating money (`AllocatePayment`,
`AllocateFromTradeFinanceTransaction`) lock; edits, receipts and cancellations
decide on a copy. `TakenOver` is what happens to the receivable of the first
invoice when the contract's second one is issued. A transaction is spread over
the receivables in an order the query leaves open: `Takers`. Whoever creates a
receivable may give it any status, which stands until a writer computes one:
`given` is the history of that.

**PortalPayments.** The webhook is recorded, matched and reviewed in separate
transactions (`Deliver`, `Record`, `Match`); a clerk's review takes the same
steps from `CreateTransaction` on. The bank is external: `TransferMoney` tells it of a
transfer, and `Deliver` may happen any number of times, at the same time, until
the transfer is recorded. `Abandon` is an error or a restart between any two
steps. A receipt that says so itself (`autoApprove`, or SePay's webhook as its
source) is created CONFIRMED without a transaction; `auto` remembers which. A
receipt's other fields and its file are left out.

**Payables.** Drawing up a batch, marking it paid, reversing a line, voiding a
payable and changing a transaction's status lock their rows. Submitting commits
the request before the batch (`CreateRequest`, `SaveSubmitted`), requests are
decided on copies as in `AccountingPeriods` (`LoadRequest`, `Decide`,
`Withdraw`, the log `decisions`), the decision of a batch is heard and saved on
a copy (`HearOfBatch`, `SaveDecided`), and payables are approved after the batch
(`ApproveBatchPayables`). `reversals` and `settlements` are the rows of the
settlement audit; `PaymentLines` adds those of a batch in any order, as the
items are read without one. The forms that create and edit a payable write its
paid amount, too (`Written`); `entered` is the history of that.

### The abstract specification and its refinement

`StockDocuments` says what a document of the warehouse promises: it is drawn, then
refused for good or applied for good, and stock moves for it at most once, when
it is applied. `WarehouseDocuments` implements it: the refinement maps a document's
status to its phase and the ledger to the documents its rows refer to.
`PromiseKept` is the abstract specification under that mapping, checked by TLC
and proved (`WarehouseKeepsPromise`). Adjustments and counts keep it whatever
overlaps, because their listener locks the document. Customer returns keep it
only when requests do not overlap: an approval saved over RECEIVED lets a return
be received again, so the mapping leaves returns out when `overlap` is TRUE, and
`ReceivedByApproval` says what they keep then.
`Purchasing` checks the invariant of the same specification for returns to the
vendor (`ReturnMovedOnce`).

## 3. Model checking

All configurations finish within a few minutes with two workers. `CHECK_DEADLOCK
FALSE` is set where the system may really stop: all documents closed, or a bound
reached. Workers and clerks are symmetric where no liveness property is checked.

| Run | Question | Bounds |
|---|---|---|
| `StockLedger` | Do ledger, layers, lots and account 156 stay consistent, whatever the order of receipts, issues, reservations, releases and period closings? | two products and a lot both may name; three rows and two layers of both together, quantities up to 2, two creation times, two prices, one unit of legacy stock |
| `Contracts` | Two requests with stale copies, decisions taken twice, crashes: is stock oversold, does a contract get past approval unapproved? One at a time: does the status tell what is reserved? | two contracts over two units, two workers; two approval requests, three one at a time |
| `Shipments` | Two clerks with stale rows beside the locked deliveries: do goods leave once and only with an issued delivery? | one shipment, two deliveries, one unit moved by others |
| `Fulfilment` | Contracts and shipments on the same rows: is more promised than there is? | one contract, one shipment, one delivery, one worker, one clerk, two requests |
| `Approvals` | Is a request announced as approved while a step was never decided; does everyone who waits for a row lock come to the end? One user at a time: has an approved request the approval of every step, and does it always advance? | three users each of whom may decide two of three steps, one request, two one at a time |
| `WarehouseDocuments` | Do adjustments, counts and returns keep the promise of `StockDocuments`; does a count keep what moved meanwhile; is a return received once for each approval? | two users, one document and two ledger rows, two and three one at a time, an empty shelf at first, stock up to 2 |
| `Purchasing` | Does the order know what was delivered, does stock move for a receipt by what it brought in, does a return leave once? | an order of two units, one in stock; overlapping: two documents out of a receipt, a check, a return and an invoice, besides the return of a failed check; one at a time: two receipts, returns and invoices, four documents in all, no check |
| `AccountingPeriods` | Are periods locked and reopened only by an announced approval, and is a closed period's result carried in full? | two periods, two reopenings each; two entries and two requests, four and three one at a time |
| `Receivables` | Is what was paid backed by money, the status true to it, revenue recognised once, a contract PAID only when nothing is owed? | a contract of two units with two shipments; one receipt; overlapping: one invoice and one receivable; one at a time: two of each and one allocation |
| `PortalPayments` | Is a confirmed receipt posted, a transfer posted once and recorded in the end? | one transfer, a receivable of two units; one receipt and transaction; one at a time two of each and one restart |
| `Payables` | Does money move only with an announced approval, and do payables know what was paid? | one batch, two requests; overlapping: one payable and one transaction; one at a time: two payables; a clerk may enter 1 as paid |
| `PurchasingReversedInvoiced` | expects a violation, see below | as `Purchasing`, one at a time; no invoice changes its status |

The bounds let each hazard happen: three rows make two open layers and an issue
that spans both, or two products' movements of one lot beside a third; two workers make every race between two operations, and the
properties concern pairs; three users and three steps make copies that write each
other's steps and wait for each other in a circle, which two users cannot; three
approval requests are the approval, a refused cancellation and another
cancellation; one shipment with two deliveries is a cancelled delivery and its
successor; two periods are an earlier and a later one, and a request to lock and
one to reopen meet, or one request is approved by two users and its second approval
heard after the period was closed again; one payable, a batch and two requests are
a batch whose approval two users announce and that is paid twice, or one that is
paid and reversed; two receipts with one restart are a transaction
posted again and a receipt rejected because another settled the receivable. With
requests served one at a time, the second document of a kind shows what the first
has left behind.

`TypeOK` of every module documents the values of its variables. It is proved where
there is a proof module; `Contracts` and `Shipments` check it as well, and it can
be added to the invariants of any other configuration.

### What the code says of itself and does not do

`PurchasingReversedInvoiced`: a vendor invoice is refused when it exceeds what was
validly taken into stock, by the words of its error message
(`vendor-invoices.service.ts:282`), but the sum it compares with includes the
lines of reversed receipts (line 196). The run lets no invoice change its status,
so that only creating one counts. TLC finds an order of two units received one by
one, the first receipt reversed, and an invoice of two units accepted.

### Fairness

`ApprovalMatrix` and `PortalPayments` state liveness.

`ApprovalMatrix!FairSpec` assumes strong fairness of `Serve(w)`, the step a
request in progress takes next: Node runs every ready continuation, PostgreSQL
grants row locks in the order of the queue, so whoever is granted a chance again
and again takes it, and its deadlock detector runs after a timeout. Users are not
assumed to come, and requests may be abandoned.

`PortalPayments!FairSpec` assumes weak fairness of `Serve(w)`, for the same
reason and because no step of it waits, and strong fairness of the bank's
delivery: SePay delivers a webhook again until it is acknowledged with success,
whenever the server takes requests. Buyers, clerks and restarts are not fair.
`EveryTransferRecorded` holds although a server may stop between any two steps;
that a recorded transfer is matched does not, since there is no second attempt
once it is recorded.

## 4. What breaks when requests overlap

The models contain these behaviours; the properties are stated so that they hold
beside them.

- Movements of two products that share a lot overwrite each other's change of it:
  `LotsFollowLedger` is about lots that one product only ever named.
- `ReadForUpdate` and `Update` turn a submitted contract back into a draft. A
  cancellation requested on a status that is stale un-confirms a contract, which
  then reserves its goods again. The approvals centre cancels a confirmed
  contract and keeps its stock reserved. `HeldMatchesStatus` is therefore stated
  for contracts neither CANCELLED nor PAID, one request at a time.
- A contract whose goods have left is still CONFIRMED; cancelling it releases its
  reservation a second time, at another contract's expense. `OverReservedOnlyByOthers`
  bounds the damage.
- An edit of a shipment read before its stock was issued takes it back to BOOKED,
  and a shipment can be deleted after its stock was issued.
- A rejected or withdrawn request becomes approved by a user who loaded it before;
  a request may end APPROVED with a step that is REJECTED, and one document may
  have two pending requests. `NoStepSkipped` is what is left: every step was
  decided by someone.
- A customer return received between the read and the save of its approval is
  received again: once for each approval, says `ReceivedByApproval`. The product
  form writes an old stock over movements.
- The approvals centre cancels purchase orders that have receipts and invoices, and
  sends them again; a recalculation that read the order before its cancellation
  revives it. A vendor invoice made between the look for one and the reversal
  stands beside the reversed receipt. So nothing is required of a cancelled order;
  `ReceivedIsDelivered` and `ReceiptMovesSettle` hold whatever its status.
- A request to lock or reopen a period, to pay a batch or to reverse a line may be
  approved by two users, whose approvals are both announced, and rejected or
  withdrawn over its approval: a period is then LOCKED, or a batch paid, and no
  request says APPROVED. The properties count the approvals that were announced
  (`decisions`).
- An entry posted while its period closes lands in a closed period.
- Of two receipts approved at the same time one is lost from the paid amount. The
  contract's second commercial invoice takes over the receivable of the first and
  overwrites its amount.
- Two clerks who confirm the same receipt post its money twice; so does a restart
  between the posting and the receipt, once for each restart
  (`PostedOncePerRestart`).
- A batch that was paid becomes APPROVED by a late decision and is paid again as
  far as its payables have anything open. A vendor invoice is paid by every
  outgoing transaction made for it, whatever happened to its payable since:
  `PaidIsSettled` is stated up to the first of them.
- Two returns to the vendor validated at the same time exceed what was received.

Some columns are set by the client and need no overlap to say what nothing else
says. A payable has paid what a clerk entered, a receivable the status its creator
gave it (PAID or CANCELLED ones count as settled when the contract is set PAID), and
a buyer's receipt may come in CONFIRMED with nothing posted. `PaidIsSettled`,
`StatusFollowsPaid`, `PaidContractOwesNothing` and `ConfirmedIsPosted` leave out
exactly the rows whose history fields (`entered`, `given`, `auto`) say so.

## 5. Proofs

TLC checks the instances above; TLAPS proves the theorems below for all values of
the constants that satisfy the named assumptions of the modules: any number of
contracts, products, documents, periods, workers and requests, any amounts, and
requests that overlap or not. The `TypeOK` of every module and `LayersSound` are
proved and, except in `Contracts` and `Shipments`, not repeated in the runs.

Two kinds of inductive invariant recur.

- *Whatever overlaps.* A request may save a copy that is old, so nothing can be
  said of the row alone. The invariant says of every row **and of every copy still
  held by a request in progress** that it claims no more than what has happened:
  an approval that was given, a delivery that was issued, a decision that was
  heard. What has happened is never undone, so a copy that is too old claims too
  little, never too much, and saving it is harmless.
- *Served one at a time* (`~ overlap => ...`). Then all requests but one are idle,
  and the invariant says that the copy of that one is what the row still says.
  Beside it stands the relation between tables that the property is about.

**`SumTheorems`** holds the lemmas on sums (append, concatenation, change of one
term, pointwise difference, bounds, reordering of a finite set), proved by
induction stated as a least counterexample: the well-foundedness of the naturals
gives a smallest index at which the claim fails, and the step refutes it. The
library's induction theorem takes an operator, which the provers cannot
instantiate.

**`StockLedgerProofs`**: `LedgerChain`, `LayersSound`, `LayersWithinStock`,
`UncostedNeverGrows`, `LotsFollowLedger` and the step property
`ValuationFollowsFifo`. None is inductive alone: `LayersWithinStock` needs an
issue to take exactly `min(need, units)` from the layers; `LedgerChain` needs
the last balance to be the stock before the step; typing needs stock never
negative, hence the guard. `Inductive` is the conjunction. Every operation is
shown to be a *movement* of one product (`Moves`: layers are drawn, one row is
appended, account 156 changes by what the layers are worth), and one lemma shows
what a movement preserves. A lot becomes what was found plus what the row says
(`LotsMoved`). What was found may be old, but not for a lot that only the
movement's own product has named (`FoundIsCurrent`): the lock on that product is
held since, and whoever else has changed the lot has left a row that names it.
Assumptions: `ProductsAssumption` (a finite set: the value of all layers is a
sum over the products), `TimesAssumption`, `PricesAssumption`,
`BoundsAssumption`, `LotsAssumption`.

**`SalesProofs`, contracts**: `NoOverselling` and
`NothingPastApprovalUnapproved`, whatever overlaps. Decisions are records that
are never undone (`History`); who signs or cancels saw an approved contract, who
hears a decision carries one that was taken (`JobSound`); only approved
contracts have cancellation requests, so a refused cancellation restores nothing
that was not approved. `NoOverselling` is inductive beside that invariant: no
step raises what is promised without a check that the stock allows it
(`NoMorePromised`, `StepPromises`), which rests on the product lock under which
lines are checked and reserved. Served one at a time (`SerialInvariant`):
`HeldMatchesStatus` and `ReservedMatchesHeld`. While a cancellation is pending
the contract's status does not tell what it holds, so the invariant finds it in
the newest cancellation request (`LatestCancel`), and every open request is the
newest of its kind (`RequestsCurrent`). Assumptions: `LinesAssumption`,
`OpeningAssumption`, `ContractsAssumption` (contracts are finitely many: what
they hold is added up).

**`SalesProofs`, fulfilment**: both properties in the composition with `Shipments`,
whatever overlaps. `FulfilmentInductive` is the invariant of contracts and what
shipping adds (`ShippingOK`): a delivery belongs to a shipment there is, and a clerk
works on one and has seen its contract in an approved stage only if it was
approved; so what clerks write into the contract's status keeps the contracts'
invariant, and nothing is past approval unapproved in the composition either
(`OnlyApprovedContractsShip`). In the composition more may be reserved than there
is, because goods leave the stock by other ways too. But no step of contracts promises
more than the stock allows, and issuing goods takes them off the stock and off what is
reserved: a product becomes over-reserved only in a step in which another module takes
its stock away (`OverReservedOnlyByOthers`, by `OnlyOthersOverReserved`).

**`SalesProofs`, receivables**: `RevenueOnce` whatever overlaps: an invoice that
is being issued is locked and a draft, so one request at most is issuing it
(`OneIssuer`) and its revenue is not yet booked (`InvoicesOK`). Served one at a
time (`ReceivablesSerialInvariant`): `PaidIsBacked`, `StatusFollowsPaid` and the
action property `PaidContractOwesNothing`. For every receivable, what is paid
lies between what was allocated and that plus what approved receipts say, and,
unless its creator gave it its status, it is PAID just when that reaches the
amount (`BalanceOK`); a receipt about to be posted fits below that bound.
Assumption: `PaymentsAssumption`.

**`SupplyProofs`, shipments**: `OneActiveDelivery`, `NothingSailsUnissued` and
`StockConserved` for every number of clerks who save stale rows. A row, and every
copy on a desk, claims that goods have left only when an issued delivery backs it
(`RowSound`, `DeskSound`), and issued deliveries stay issued.

**`SupplyProofs`, purchase orders**: `ReceivedIsDelivered`, `ReturnMovedOnce`
and `ReceiptMovesSettle`, whatever overlaps and whatever becomes of the order. A
receipt that is being reversed is locked, so one request at most takes it back
(`OneReverser`) and finds it COMPLETED (`RowsKnown`): what moved for it is what
it brought in, and after the reversal nothing (`ReceiptsOK`). Until the first
check the order has received what the receipts brought in (`OrderOK`); a check,
with a line or without, recalculates the order from lines of its own making, so
nothing is said after one. A return that no check is about has at most one
ledger row, and only once it was sent (`ReturnsOK`, `ChecksOK`). Assumptions:
`OrderedAssumption`, `OpeningStockAssumption`.

**`SupplyProofs`, payables**: `PaidIsSettled` and `MovedByApproval`, whatever
overlaps. What is paid of a payable nobody entered a paid amount for changes
only with its lines (`PaidOK`), by as much as a batch adds to them
(`PaymentLines`, a sum over its items in any order) or a reversal takes off one.
The status of a request proves nothing, as decisions are saved over each other;
the log of announced decisions does. A batch has paid each payable at most as
often as approvals of it were carried out, once less while it is APPROVED and
may pay again (`PaidOnce`): an approval that is being heard is not yet
`CarriedOut` and is heard by one request (`HeardOnce`), so that saving it may
make the batch pay once more. A line is reversed once (`ReversedOnce`).
`MovedSoundly` is the conjunction. Served one at a time
(`PayablesSerialInvariant`): `VoidOwesNothing`, because no batch that may still
be paid contains a void payable (`VoidsOK`) and an edit does not resurrect or
bury what it read (`CopyCurrent`). Assumptions: `BilledAssumption`,
`AmountsAssumption`, `EnteredAssumption`.

**`ApprovalMatrixProofs`**: `NoStepSkipped` whatever overlaps: a row or a copy shows
a step as decided, or the request as approved, only when the log of decisions has
it, counting the one the job itself is about to commit (`LogWith`). That every
step of an approved request is approved does not follow, and does not hold when
users overlap. Served one at a time (`SerialInvariant`) it does
(`ApprovedByEveryStepSerially`), and a pending request can always be decided
(`NeverStuck`), because its current step is pending and none was rejected
(`RowTrue`). Assumptions: `DepthAssumption`, `MayActAssumption`.

**`WarehouseDocumentsProofs`**: `WarehouseDocuments` implements `StockDocuments`
(`PromiseKept`), each action being a step of the abstract specification or a
stutter; and `StockDocuments` keeps that stock moves for a document once and
only if it is applied (`WarehouseMovesOnce`). The invariant adds to the types
that ledger rows refer to documents that exist (`LedgerKnown`), so that a new
document starts unmoved, and that with requests served one at a time the copy of
a return about to be saved is what its row says (`CopiesCurrent`).
`ReceivedByApproval` holds whatever overlaps: a return has moved at most as
often as it was approved, and a return that may be received has an approval left
(`ReturnsApproved`). Only an approval makes it so again, and counts. Served one
at a time (`SerialInvariant`): `CountKeepsMovements`. The stock is the opening
stock plus all movements, and the variance of a count is relative to the ledger
as it was when the count was drawn up (`CountOf`, `RowOfCount`). Assumptions:
`StockAssumption`, `QuantitiesAssumption`, `BoundsAssumption`.

**`AccountingPeriodsProofs`**: `LockedByApproval` and `ReopenedByApproval`
whatever overlaps, although no operation locks. Every row and every copy of a
period owes its LOCKED status to an announced approval and its count of
reopenings to approvals already carried out (`RowSound`, `CarriedOut`, over the
log `decisions`): a decision that is being heard is not yet counted, and is
heard by one request (`HeardOnce`), so that saving it may add one. Two
announcements of one request count as two, since both are carried out. Served
one at a time (`SerialInvariant`): `ResultCarried` and `ClosingEntryKnown`. A
closing entry that a period names is its own and every other one is undone, and
what is undone came before what undoes it (`ClosingOK`, `UndoneBefore`,
`ClosingUndone`). Assumptions: `PeriodsAssumption`, `AmountsAssumption`,
`ReopensAssumption`.

**`PortalPaymentsProofs`**: `TransferPostedOnce` and `ConfirmedIsPosted`
whatever overlaps and wherever a server stops, the second but for receipts
created CONFIRMED. The invariant says what a request in progress may rely on
(`JobSound`): its copy was submitted and named no transaction, so that its save
sets both columns whatever the row has become; the transaction it made is still
for this receipt and amount, and stays RECEIVED once it is. A transfer not yet
recorded has no transaction, and one request at most is about to make one
(`TransfersSound`), which rests on the unique key of the webhook's record.
Served one at a time (`SerialInvariant`): `PostedOncePerRestart`, by counting
the transactions of a receipt against the stops (`CountsOK`). Assumptions:
`TotalAssumption`, `PaymentsAssumption`.

All modules of requests share `ModesAssumption`: a mode is TRUE or FALSE.


### Only model-checked

- `EveryRequestServed` and `EveryTransferRecorded`: liveness, fairness and
  `ENABLED` are beyond the prover.
- `InvoicedWithinDelivered` is the property of the run that expects a violation.

## 6. Not modelled

- **Quotations, proforma invoices, inquiries, purchase requests**:
  `updateStatus` sets almost any status without looking at the present one, so
  there is little a property could say; the conversion into the next document is
  one transaction.
- **Signature invitations**: attempts and expiry of one-time passwords are about
  access, not about the state of documents. The effect of a valid signature is
  in `SalesContracts`. Revoking and signing lock contract and invitation in
  opposite orders; PostgreSQL aborts one of the two.
- **Logistics cost allocation**: an allocation of decimal amounts with rounding;
  its inputs are costs as numbers with fractions, and the models have integers.
- **Letters of credit, collections, exchange differences, foreign currency**:
  amounts are in one currency. Trade finance appears where its transactions post
  money (`PortalPayments`, `Payables`, `Receivables`).
- **The audit chain of the accounts**: entries are linked by hashes, which a model
  of their contents cannot tell apart; closing, locking and reopening are modelled
  where the chain verifies.
- **Documents of several lines**: purchase orders, receipts, returns and invoices
  have one line. Contracts have one line per product, in a fixed assignment.
- **Connection pool**: an approval holds one connection and asks for another. The
  size of the pool is a deployment's choice.
- **Approval requests made by hand** (`POST /approval-matrix/requests`): the
  modules have the requests that submitting a document makes. Another request for
  the same document would be decided and announced like those.
- **Purchase orders before SENT, and their soft deletion**: single-row edits.
- **Quality checks that name no order, or another one than their receipt's**: the
  first recalculate nothing, the second the other order in place of their own; the
  model has one order.
- **Cache**: entries expire after a time, and nothing that changes state reads
  them before deciding.
- **Products, pricing policies, partners, vendor evaluations, reference data,
  users and roles**: edits of single rows without rules across requests; of
  products, the edit that carries the stock columns is in `WarehouseDocuments`.
- **Dashboards, search, reports, documents, notifications, web client**: queries,
  rendering and delivery.

The web client is more than half of the lines of the repository and holds no
state that the back end relies on; most of the remaining ones are DTOs,
entities, controllers, queries, reports and seeds.
