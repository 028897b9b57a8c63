------------------------------- MODULE Purchasing -------------------------------
(***************************************************************************)
(* A purchase order of one line, from its sending on: goods receipts and   *)
(* their reversal (GoodsReceiptsService), quality checks and their claims  *)
(* (QualityControlService), returns to the vendor (PurchaseReturnsService),*)
(* vendor invoices (VendorInvoicesService), cancelling it, and the         *)
(* approvals centre, which sends or cancels it whatever its status.        *)
(*                                                                         *)
(* Receipts, invoices and cancelling lock the order and are one step here; *)
(* reversing looks for invoices before it has that lock, quality checks    *)
(* recalculate the order without it, and a return is checked against what  *)
(* was received without any lock.                                          *)
(***************************************************************************)
EXTENDS Integers, Sequences, FiniteSets, Sums, StaleRows, Serving

CONSTANTS
    Ordered,       \* quantity of the order
    OpeningStock,  \* stock of the product before the order
    MaxReceipts,   \* bound: receipts, by whether users may overlap
    MaxChecks,     \* bound: quality checks, likewise
    MaxReturns,    \* bound: returns, likewise
    MaxInvoices,   \* bound: vendor invoices, likewise
    MaxDocuments,  \* bound: all of these together, likewise
    MaxLedger      \* bound: ledger rows, likewise

ASSUME OrderedAssumption      == Ordered \in Nat \ {0}
ASSUME OpeningStockAssumption == OpeningStock \in Nat

VARIABLES
    order,        \* the purchase_orders row, with receivedQuantity of its item
    receipts,     \* goods_receipts with their item, by creation
    checks,       \* quality_checks, by creation
    returns,      \* purchase_returns with their item, by creation
    invoices,     \* vendor_invoices with their item, by creation
    currentStock, \* Product.currentStock
    ledger        \* inventory_ledger of the product, in insertion order

goods          == <<currentStock, ledger>>
purchasingVars == <<order, receipts, checks, returns, invoices, goods, jobs, overlap>>

Order == [status   : {"SENT", "PARTIAL_RECEIPT", "RECEIVED", "COMPLETED", "CANCELLED"},
          received : Int]

Receipt == [quantity : Nat, rejected : Nat, status : {"COMPLETED", "CANCELLED"}]

(* `receipt` and `return` are null when 0: a check need not be about a line*)
(* of a receipt.  An OPEN exception is QUARANTINED, RETURN_CREATED or      *)
(* CLAIM_OPEN.                                                             *)
Check == [receipt   : Nat,
          exception : {"NONE", "OPEN", "CLOSED"},
          claim     : {"NONE", "OPEN", "SENT", "RESOLVED", "CANCELLED"},
          return    : Nat]

(* `claimed`: made by a quality check; SETTLED is CREDITED, REPLACED or    *)
(* CLOSED.                                                                 *)
Return == [quantity : Nat,
           status   : {"DRAFT", "PENDING_VENDOR", "SENT", "SETTLED", "CANCELLED"},
           claimed  : BOOLEAN]

Invoice == [quantity : Nat, active : BOOLEAN]       \* active: not CANCELLED

(* What moved the stock: referenceId, a receipt or a return, or a sale     *)
Reference == {"receipt", "return", "sale"} \X Nat

(* `read` and `new` are the order as a quality check read and recalculated *)
(* it.                                                                     *)
PurchasingJob == {Idle}
    \cup [op : {"reverse"}, receipt : Nat]
    \cup [op : {"createReturn"}, quantity : Nat]
    \cup [op : {"saveCheck"}, receipt : Nat, rejected : Nat,
          result : {"PASSED", "CONDITIONAL", "FAILED"}, read : Order, new : Order]
    \cup [op : {"saveClaim"}, check : Nat, read : Order, new : Order]
    \cup [op : {"saveResolution"}, check : Nat, read : Order, new : Order,
          claim : {"RESOLVED", "CANCELLED"}]

PurchasingTypeOK ==
    /\ order \in Order
    /\ receipts \in Seq(Receipt)
    /\ checks \in Seq(Check)
    /\ returns \in Seq(Return)
    /\ invoices \in Seq(Invoice)
    /\ currentStock \in Nat
    /\ ledger \in Seq([reference : Reference, change : Int])
    /\ jobs \in [Workers -> PurchasingJob]
    /\ overlap \in Overlap

PurchasingInit ==
    /\ order = [status |-> "SENT", received |-> 0]
    /\ receipts = <<>> /\ checks = <<>> /\ returns = <<>> /\ invoices = <<>>
    /\ currentStock = OpeningStock /\ ledger = <<>>
    /\ jobs = [w \in Workers |-> Idle]
    /\ overlap \in Overlap

-----------------------------------------------------------------------------

(* The bound on all documents *)
Room == Len(receipts) + Len(checks) + Len(returns) + Len(invoices) < MaxDocuments[overlap]

Greater(m, n) == IF m < n THEN n ELSE m

Accepted(receipt) == receipt.quantity - receipt.rejected

(* executeInventoryTransaction, under the lock of the product              *)
Movable(q) == currentStock + q >= 0 /\ Len(ledger) < MaxLedger[overlap]

Move(reference, q) ==
    \/ /\ q # 0 /\ Movable(q)
       /\ currentStock' = currentStock + q
       /\ ledger' = Append(ledger, [reference |-> reference, change |-> q])
    \/ q = 0 /\ UNCHANGED goods

(* Goods are sold (other modules)                                          *)
Sell(w) ==
    /\ Free(w)
    /\ Move(<<"sale", 0>>, -1)
    /\ UNCHANGED <<order, receipts, checks, returns, invoices, jobs>>

-----------------------------------------------------------------------------
(* Goods receipts                                                          *)

(* applyPurchaseOrderReceiptStatus *)
ReceiptStatus(status, received) ==
    IF received >= Ordered THEN "RECEIVED"
    ELSE IF received > 0 THEN "PARTIAL_RECEIPT"
    ELSE IF status \in {"RECEIVED", "PARTIAL_RECEIPT"} THEN "SENT" ELSE status

Received(received) == [status |-> ReceiptStatus(order.status, received), received |-> received]

(* create *)
CreateReceipt(w, q, rejected) ==
    /\ Free(w) /\ Room /\ Len(receipts) < MaxReceipts[overlap]
    /\ order.status \in {"SENT", "PARTIAL_RECEIPT"}
    /\ order.received + q - rejected <= Ordered
    /\ receipts' = Append(receipts, [quantity |-> q, rejected |-> rejected, status |-> "COMPLETED"])
    /\ Move(<<"receipt", Len(receipts')>>, q - rejected)
    /\ order' = Received(order.received + q - rejected)
    /\ UNCHANGED <<checks, returns, invoices, jobs>>

ActiveInvoice == \E i \in DOMAIN invoices : invoices[i].active

(* Mutant: the receipt is not locked. *)
LockedReceiptNever(r) == FALSE

LockedReceipt(r) == \E w \in Workers : jobs[w].op = "reverse" /\ jobs[w].receipt = r

Reversible(r) == receipts[r].status = "COMPLETED" /\ ~ ActiveInvoice

(* reverse: the receipt is locked and invoices are looked for              *)
LockReceipt(w, r) ==
    /\ ~ LockedReceipt(r) /\ Reversible(r)
    /\ Begin(w, [op |-> "reverse", receipt |-> r])
    /\ UNCHANGED <<order, receipts, checks, returns, invoices, goods>>

(* A line of which more was rejected than came takes nothing back.         *)
TakenBack(r) == Greater(0, Accepted(receipts[r]))

(* Mutant: the order keeps what it received. *)
UnreceivedNothing(r) == order

Unreceived(r) == Received(Greater(0, order.received - TakenBack(r)))

(* then the order is locked.  A receipt of goods that are gone stays.      *)
ReverseReceipt(w) ==
    /\ jobs[w].op = "reverse"
    /\ LET r == jobs[w].receipt IN
       \/ /\ Move(<<"receipt", r>>, - TakenBack(r))
          /\ receipts' = [receipts EXCEPT ![r].status = "CANCELLED"]
          /\ order' = Unreceived(r)
       \/ /\ currentStock < TakenBack(r)
          /\ UNCHANGED <<order, receipts, goods>>
    /\ Finish(w)
    /\ UNCHANGED <<checks, returns, invoices>>

-----------------------------------------------------------------------------
(* Returns to the vendor                                                   *)

Quantity(rows, counted) ==
    SumTo([i \in 1 .. Len(rows) |-> IF i \in counted THEN rows[i].quantity ELSE 0], Len(rows))

Returned == Quantity(returns, {n \in DOMAIN returns : returns[n].status # "CANCELLED"})

Returnable == Greater(order.received - Returned, 0)

(* create: validateReturnItems, and then the insert                        *)
ValidateReturnItems(w, q) ==
    /\ Room /\ Len(returns) < MaxReturns[overlap]
    /\ q <= Returnable
    /\ Begin(w, [op |-> "createReturn", quantity |-> q])
    /\ UNCHANGED <<order, receipts, checks, returns, invoices, goods>>

CreateReturn(w) ==
    /\ jobs[w].op = "createReturn"
    /\ returns' = Append(returns, [quantity |-> jobs[w].quantity, status |-> "DRAFT",
                                   claimed |-> FALSE])
    /\ Finish(w)
    /\ UNCHANGED <<order, receipts, checks, invoices, goods>>

(* Mutant: a return is cancelled after it was sent. *)
ReturnTransitionsAfterSending(status, next) ==
    \/ status = "DRAFT" /\ next = "PENDING_VENDOR"
    \/ status = "SENT" /\ next = "SETTLED"
    \/ status \in {"DRAFT", "PENDING_VENDOR", "SENT"} /\ next = "CANCELLED"

(* submit, resolve and cancel, under the lock of the return                *)
ReturnTransitions(status, next) ==
    \/ status = "DRAFT" /\ next = "PENDING_VENDOR"
    \/ status = "SENT" /\ next = "SETTLED"
    \/ status \in {"DRAFT", "PENDING_VENDOR"} /\ next = "CANCELLED"

UpdateReturn(w, n, next) ==
    /\ Free(w) /\ ReturnTransitions(returns[n].status, next)
    /\ returns' = [returns EXCEPT ![n].status = next]
    /\ UNCHANGED <<order, receipts, checks, invoices, goods, jobs>>

(* send *)
SendReturn(w, n) ==
    /\ Free(w) /\ returns[n].status \in {"DRAFT", "PENDING_VENDOR"}
    /\ Move(<<"return", n>>, - returns[n].quantity)
    /\ returns' = [returns EXCEPT ![n].status = "SENT"]
    /\ UNCHANGED <<order, receipts, checks, invoices, jobs>>

-----------------------------------------------------------------------------
(* Quality checks                                                          *)

(* recalculatePurchaseOrderStatus: of the lines of all receipts            *)
Recalculated(rows) ==
    LET received == SumTo([r \in 1 .. Len(rows) |-> Accepted(rows[r])], Len(rows)) IN
    [status   |-> IF received >= Ordered THEN "RECEIVED"
                  ELSE IF received > 0 THEN "PARTIAL_RECEIPT" ELSE "SENT",
     received |-> received]

(* The item and the order are saved one after the other, unless the order  *)
(* was read as cancelled.                                                  *)
SavedOrder(read, new) ==
    IF read.status = "CANCELLED" THEN {order}
    ELSE {[status |-> a.status, received |-> b.received] :
             a \in Saved(order, read, new), b \in Saved(order, read, new)}

(* The bound on checks counts those that are being made.                   *)
Checkers == {w \in Workers : jobs[w].op = "saveCheck"}

LineFree(r) == \A w \in Workers : jobs[w].op = "saveCheck" => jobs[w].receipt # r

ActiveCheck(c) == checks[c].exception # "CLOSED" /\ checks[c].claim \notin {"RESOLVED", "CANCELLED"}

Checked(r, rejected) ==
    IF r = 0 THEN receipts ELSE [receipts EXCEPT ![r].rejected = rejected]

(* create, on a receipt's line, which it locks, or on none.  What is       *)
(* rejected is held against the quantity the client says was received.     *)
ReadForCheck(w, r, rejected, result) ==
    /\ Room /\ Len(checks) + Cardinality(Checkers) < MaxChecks[overlap]
    /\ r # 0 => LineFree(r)
    /\ \A c \in DOMAIN checks : r \in {0, checks[c].receipt} => ~ ActiveCheck(c)
    /\ result = "PASSED" => rejected = 0
    /\ Begin(w, [op |-> "saveCheck", receipt |-> r, rejected |-> rejected, result |-> result,
                 read |-> order, new |-> Recalculated(Checked(r, rejected))])
    /\ UNCHANGED <<order, receipts, checks, returns, invoices, goods>>

SaveCheck(w) ==
    /\ jobs[w].op = "saveCheck"
    /\ LET job     == jobs[w]
           returnIt == job.result = "FAILED" /\ job.rejected > 0
       IN  /\ receipts' = Checked(job.receipt, job.rejected)
           /\ \/ /\ returnIt
                 /\ returns' = Append(returns, [quantity |-> job.rejected,
                                                status |-> "PENDING_VENDOR", claimed |-> TRUE])
              \/ ~ returnIt /\ UNCHANGED returns
           /\ checks' = Append(checks,
                  [receipt   |-> job.receipt,
                   exception |-> IF job.result = "PASSED" THEN "NONE" ELSE "OPEN",
                   claim     |-> IF job.result = "PASSED" THEN "NONE" ELSE "OPEN",
                   return    |-> IF returnIt THEN Len(returns') ELSE 0])
           /\ order' \in SavedOrder(job.read, job.new)
    /\ Finish(w)
    /\ UNCHANGED <<invoices, goods>>

CheckFree(c) ==
    \A w \in Workers : jobs[w].op \in {"saveClaim", "saveResolution"} => jobs[w].check # c

(* sendClaim and resolveException lock the check.                          *)
ReadForClaim(w, c) ==
    /\ CheckFree(c)
    /\ checks[c].exception # "NONE" /\ checks[c].claim \in {"OPEN", "SENT"}
    /\ Begin(w, [op |-> "saveClaim", check |-> c, read |-> order, new |-> Recalculated(receipts)])
    /\ UNCHANGED <<order, receipts, checks, returns, invoices, goods>>

ReadForResolution(w, c, claim) ==
    /\ CheckFree(c)
    /\ checks[c].exception # "NONE" /\ checks[c].claim # "RESOLVED"
    /\ Begin(w, [op |-> "saveResolution", check |-> c, claim |-> claim,
                 read |-> order, new |-> Recalculated(receipts)])
    /\ UNCHANGED <<order, receipts, checks, returns, invoices, goods>>

(* The return of the check takes the status, whatever it has; no stock     *)
(* moves.                                                                  *)
SaveOutcome(w, exception, claim, status) ==
    LET c == jobs[w].check
        n == checks[c].return
    IN  /\ checks' = [checks EXCEPT ![c].exception = exception, ![c].claim = claim]
        /\ returns' = IF n = 0 THEN returns ELSE [returns EXCEPT ![n].status = status]
        /\ order' \in SavedOrder(jobs[w].read, jobs[w].new)
        /\ Finish(w)
        /\ UNCHANGED <<receipts, invoices, goods>>

SendClaim(w) == jobs[w].op = "saveClaim" /\ SaveOutcome(w, "OPEN", "SENT", "SENT")

ResolveException(w) ==
    /\ jobs[w].op = "saveResolution"
    /\ SaveOutcome(w, "CLOSED", jobs[w].claim, "SETTLED")

-----------------------------------------------------------------------------
(* Vendor invoices, and cancelling the order                               *)

Invoiced == Quantity(invoices, {i \in DOMAIN invoices : invoices[i].active})

(* What was accepted, on the lines of all receipts, and is not invoiced    *)
Invoiceable == Recalculated(receipts).received - Invoiced

(* create; prices and taxes are those of the order                         *)
CreateInvoice(w, q) ==
    /\ Free(w) /\ Room /\ Len(invoices) < MaxInvoices[overlap]
    /\ order.status \in {"PARTIAL_RECEIPT", "RECEIVED"}
    /\ q <= Invoiceable
    /\ Invoiced + q <= Ordered
    /\ invoices' = Append(invoices, [quantity |-> q, active |-> TRUE])
    /\ LET all == Recalculated(receipts).received IN
       order' = [order EXCEPT !.status =
                    IF all < Ordered THEN "PARTIAL_RECEIPT"
                    ELSE IF Invoiced + q >= all THEN "COMPLETED" ELSE "RECEIVED"]
    /\ UNCHANGED <<receipts, checks, returns, goods, jobs>>

(* updateStatus, to any status                                             *)
UpdateInvoiceStatus(w, i, active) ==
    /\ Free(w)
    /\ invoices' = [invoices EXCEPT ![i].active = active]
    /\ UNCHANGED <<order, receipts, checks, returns, goods, jobs>>

Cancellable ==
    order.status # "CANCELLED" /\ order.received <= 0 /\ ~ ActiveInvoice /\ receipts = <<>>

CancelOrder(w) ==
    /\ Free(w) /\ Cancellable
    /\ order' = [order EXCEPT !.status = "CANCELLED"]
    /\ UNCHANGED <<receipts, checks, returns, invoices, goods, jobs>>

(* approve and reject of the approvals centre.  The copy that is saved is  *)
(* of the order without its item: only its status matters, whatever it was.*)
DecideOrder(w, status) ==
    /\ Free(w)
    /\ order' = [order EXCEPT !.status = status]
    /\ UNCHANGED <<receipts, checks, returns, invoices, goods, jobs>>

(* An error or a restart                                                   *)
AbandonPurchasing(w) ==
    /\ jobs[w] # Idle
    /\ Finish(w)
    /\ UNCHANGED <<order, receipts, checks, returns, invoices, goods>>

-----------------------------------------------------------------------------
Ordering(w) ==
    \/ Sell(w) \/ CancelOrder(w)
    \/ \E status \in {"SENT", "CANCELLED"} : DecideOrder(w, status)
    \/ \E q \in 1 .. Ordered : CreateInvoice(w, q)
    \/ \E i \in DOMAIN invoices, active \in BOOLEAN : UpdateInvoiceStatus(w, i, active)

Receiving(w) ==
    \/ \E q \in 1 .. Ordered : \E rejected \in 0 .. q : CreateReceipt(w, q, rejected)
    \/ \E r \in DOMAIN receipts : LockReceipt(w, r)
    \/ ReverseReceipt(w)

Returning(w) ==
    \/ \E q \in 1 .. Ordered : ValidateReturnItems(w, q)
    \/ CreateReturn(w)
    \/ \E n \in DOMAIN returns :
          \/ SendReturn(w, n)
          \/ \E next \in {"PENDING_VENDOR", "SETTLED", "CANCELLED"} : UpdateReturn(w, n, next)

Checking(w) ==
    \/ \E r \in {0} \cup DOMAIN receipts, rejected \in 0 .. Ordered :
          \E result \in {"PASSED", "CONDITIONAL", "FAILED"} : ReadForCheck(w, r, rejected, result)
    \/ \E c \in DOMAIN checks :
          \/ ReadForClaim(w, c)
          \/ \E claim \in {"RESOLVED", "CANCELLED"} : ReadForResolution(w, c, claim)
    \/ SaveCheck(w) \/ SendClaim(w) \/ ResolveException(w)

PurchasingStep == \E w \in Workers :
    Ordering(w) \/ Receiving(w) \/ Returning(w) \/ Checking(w) \/ AbandonPurchasing(w)

PurchasingNext == PurchasingStep /\ UNCHANGED overlap

PurchasingSpec == PurchasingInit /\ [][PurchasingNext]_purchasingVars

-----------------------------------------------------------------------------
(* Properties                                                              *)

(* What the completed receipts brought in that passed.                     *)
BroughtIn(receipt) == IF receipt.status = "COMPLETED" THEN Accepted(receipt) ELSE 0

Delivered == SumTo([r \in 1 .. Len(receipts) |-> BroughtIn(receipts[r])], Len(receipts))

(* Until a quality check recalculates it, the order has received what its  *)
(* completed receipts brought in, and no more than was ordered, however    *)
(* receipts, reversals, invoices and decisions on the order overlap.       *)
ReceivedIsDelivered ==
    checks = <<>> => order.received = Delivered /\ order.received <= Ordered

ReturnPhase(return) ==
    CASE return.status \in {"DRAFT", "PENDING_VENDOR"} -> "open"
      [] return.status = "CANCELLED" -> "refused"
      [] OTHER -> "applied"

Promise == INSTANCE StockDocuments WITH
    Everything <- Reference,
    phase      <- [ref \in {<<"return", n>> : n \in {m \in DOMAIN returns : ~ returns[m].claimed}}
                      |-> ReturnPhase(returns[ref[2]])],
    movers     <- [i \in DOMAIN ledger |-> ledger[i].reference]

(* A return that no claim is about leaves the warehouse once, when it is   *)
(* sent, and never once it is cancelled.                                   *)
ReturnMovedOnce == Promise!MovedOnce

(* What moved the stock for a receipt, in and out again.                   *)
MovedFor(r) ==
    SumTo([i \in 1 .. Len(ledger) |->
              IF ledger[i].reference = <<"receipt", r>> THEN ledger[i].change ELSE 0],
          Len(ledger))

(* The stock moves for a receipt by what it brought in, and once it is     *)
(* reversed by nothing, whoever reverses it, whatever overlaps and whatever*)
(* becomes of the order, until a quality check changes its line.           *)
ReceiptMovesSettle ==
    \A r \in DOMAIN receipts :
        (\A c \in DOMAIN checks : checks[c].receipt # r) => MovedFor(r) = BroughtIn(receipts[r])

(* "So luong hoa don ... vuot qua so luong hang da nhap kho hop le con     *)
(* lai" (the invoice exceeds what was accepted into stock and is not yet   *)
(* invoiced): served one at a time and before any quality check, vendors   *)
(* are not owed for more than the completed receipts brought in.           *)
InvoicedWithinDelivered ==
    ~ overlap /\ checks = <<>> => Invoiced <= Delivered
=============================================================================
