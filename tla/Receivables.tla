------------------------------ MODULE Receivables ------------------------------
(***************************************************************************)
(* What a buyer owes under one sales contract: its commercial invoices     *)
(* (CommercialInvoicesService), the receivables they make and the payments *)
(* on them (AccountReceivablesService, PaymentReceiptsService).            *)
(*                                                                         *)
(* Issuing an invoice and allocating money lock the rows they change: one  *)
(* action each.  Receipts, edits and cancellations decide on a copy: two.  *)
(*                                                                         *)
(* Amounts are whole units of the contract's currency.  UNPAID, PARTIAL and*)
(* OVERDUE, which no operation tells apart, are one status OPEN.           *)
(***************************************************************************)
EXTENDS Integers, Sequences, SequencesExt, Sums, StaleRows, Serving

CONSTANTS
    Shipments,       \* shipments of the contract
    Total,           \* amount of the contract, and of each invoice made from it
    Payments,        \* amounts buyers pay and clerks enter
    MaxInvoices,     \* bound: invoices drawn up, by whether requests may overlap
    MaxReceivables,  \* bound: receivables after which none is entered by hand
    MaxReceipts,     \* bound: payment receipts, by whether requests may overlap
    MaxAllocations   \* bound: allocations after which none is made, likewise

ASSUME TotalAssumption    == Total \in Nat \ {0}
ASSUME PaymentsAssumption == Payments \subseteq Nat \ {0}

VARIABLES
    invoices,      \* commercial_invoices, in order of creation
    revenue,       \* the invoice of each revenue entry in the journal
    receivables,   \* account_receivables of the contract
    allocations,   \* payment_allocations
    receipts,      \* payment_receipts
    contractPaid   \* the contract has status PAID

receivablesVars ==
    <<invoices, revenue, receivables, allocations, receipts, contractPaid, jobs, overlap>>

sales    == <<invoices, revenue>>
payments == <<allocations, contractPaid>>

(* `receivable` is null when 0.                                            *)
Invoice == [shipment   : Shipments,
            status     : {"DRAFT", "ISSUED", "CANCELLED"},
            receivable : Nat]                  \* accountReceivable_id

(* `invoice` is 0 in a receivable no invoice was issued on; `given` is     *)
(* history: its status is the one its creator gave, not yet computed.      *)
Receivable == [invoice : Nat,                  \* commercialInvoice_id
               amount  : Nat,                  \* amountForeign
               paid    : Nat,                  \* paidAmountForeign
               status  : {"OPEN", "PAID", "CANCELLED"},
               given   : BOOLEAN]

Allocation == [receivable : Nat, amount : Nat]

Receipt == [receivable : Nat,
            amount     : Payments,
            status     : {"PENDING", "APPROVED", "REJECTED", "CANCELLED"}]

(* `read` is the copy of a row a worker decides on.                        *)
ReceivableJob == {Idle}
    \cup [op : {"invoice"}, shipment : Shipments]
    \cup [op : {"issue"}, invoice : Nat]
    \cup [op : {"cancelInvoice"}, invoice : Nat, read : Invoice]
    \cup [op : {"edit"}, receivable : Nat, read : Receivable, amount : Nat]
    \cup [op : {"receive", "receiveApproved"}, receivable : Nat, read : Receivable,
          amount : Payments]
    \cup [op : {"approve", "reject", "cancel"}, receipt : Nat, read : Receipt]
    \cup [op : {"post"}, receivable : Nat, read : Receivable, amount : Payments]

ReceivablesTypeOK ==
    /\ invoices \in Seq(Invoice)
    /\ revenue \in Seq(DOMAIN invoices)
    /\ receivables \in Seq(Receivable)
    /\ allocations \in Seq(Allocation)
    /\ receipts \in Seq(Receipt)
    /\ contractPaid \in BOOLEAN
    /\ jobs \in [Workers -> ReceivableJob]
    /\ overlap \in Overlap

NewReceivable(i, amount, status) ==
    [invoice |-> i, amount |-> amount, paid |-> 0, status |-> status,
     given |-> status # "OPEN"]

(* A contract confirmed by hand has a receivable (confirmContract); one    *)
(* confirmed by its signatures has none.                                   *)
ReceivablesInit ==
    /\ invoices = <<>> /\ revenue = <<>> /\ allocations = <<>> /\ receipts = <<>>
    /\ \/ receivables = <<>>
       \/ receivables = <<NewReceivable(0, Total, "OPEN")>>
    /\ contractPaid = FALSE
    /\ jobs = [w \in Workers |-> Idle]
    /\ overlap \in Overlap

-----------------------------------------------------------------------------

StatusOf(paid, amount) == IF paid >= amount THEN "PAID" ELSE "OPEN"

(* normalizeStatus, which refuses more than the amount *)
Normalised(row) == [row EXCEPT !.status = StatusOf(row.paid, row.amount), !.given = FALSE]

Acceptable(row) == row.paid <= row.amount

Left(row) == row.amount - row.paid

-----------------------------------------------------------------------------
(* Commercial invoices                                                     *)

Active(s) == \E i \in DOMAIN invoices : /\ invoices[i].shipment = s
                                        /\ invoices[i].status # "CANCELLED"

(* createFromShipment looks for an active invoice, then makes one.         *)
LookForActiveInvoice(w, s) ==
    /\ ~ Active(s)
    /\ Begin(w, [op |-> "invoice", shipment |-> s])
    /\ UNCHANGED <<sales, receivables, payments, receipts>>

CreateFromShipment(w) ==
    /\ jobs[w].op = "invoice" /\ Len(invoices) < MaxInvoices[overlap]
    /\ invoices' = Append(invoices, [shipment |-> jobs[w].shipment, status |-> "DRAFT",
                                     receivable |-> 0])
    /\ Finish(w)
    /\ UNCHANGED <<revenue, receivables, payments, receipts>>

BeingIssued(i) == \E w \in Workers : jobs[w].op = "issue" /\ jobs[w].invoice = i

(* Mutant: an invoice that is not issued may be issued. *)
IssuableUnlessIssued(i) == invoices[i].status # "ISSUED" /\ ~ BeingIssued(i)

Issuable(i) == invoices[i].status = "DRAFT" /\ ~ BeingIssued(i)

Issued(i, a) ==
    /\ invoices' = [invoices EXCEPT ![i].status = "ISSUED", ![i].receivable = a]
    /\ revenue' = Append(revenue, i)

(* Mutant: the payments of the row that is taken over are forgotten. *)
TakenOverUnpaid(row, i) ==
    IF row.status = "PAID" THEN row
    ELSE Normalised([row EXCEPT !.invoice = i, !.amount = Total, !.paid = 0])

(* createFromCommercialInvoice, when the contract has a receivable already *)
TakenOver(row, i) ==
    IF row.status = "PAID" THEN row
    ELSE Normalised([row EXCEPT !.invoice = i, !.amount = Total])

IssueOnReceivable(w, i, a) ==
    /\ Issuable(i)
    /\ Acceptable(TakenOver(receivables[a], i)) \/ receivables[a].status = "PAID"
    /\ receivables' = [receivables EXCEPT ![a] = TakenOver(@, i)]
    /\ Issued(i, a)
    /\ AtOnce(w)
    /\ UNCHANGED <<payments, receipts>>

(* ... and when it finds none: there is no row to lock while it makes one. *)
FindNoReceivable(w, i) ==
    /\ Issuable(i)
    /\ receivables = <<>>
    /\ Begin(w, [op |-> "issue", invoice |-> i])
    /\ UNCHANGED <<sales, receivables, payments, receipts>>

IssueOnNewReceivable(w) ==
    /\ jobs[w].op = "issue"
    /\ receivables' = Append(receivables, NewReceivable(jobs[w].invoice, Total, "OPEN"))
    /\ Issued(jobs[w].invoice, Len(receivables'))
    /\ Finish(w)
    /\ UNCHANGED <<payments, receipts>>

ReadForCancelInvoice(w, i) ==
    /\ invoices[i].status = "DRAFT"
    /\ Begin(w, [op |-> "cancelInvoice", invoice |-> i, read |-> invoices[i]])
    /\ UNCHANGED <<sales, receivables, payments, receipts>>

CancelInvoice(w) ==
    /\ jobs[w].op = "cancelInvoice"
    /\ LET i == jobs[w].invoice IN
       /\ ~ BeingIssued(i)
       /\ \E row \in Saved(invoices[i], jobs[w].read,
                           [jobs[w].read EXCEPT !.status = "CANCELLED"]) :
             invoices' = [invoices EXCEPT ![i] = row]
    /\ Finish(w)
    /\ UNCHANGED <<revenue, receivables, payments, receipts>>

-----------------------------------------------------------------------------
(* Money that is allocated under a lock                                    *)

RoomForAllocation == Len(allocations) < MaxAllocations[overlap]

Pay(row, amount) == Normalised([row EXCEPT !.paid = @ + amount])

Payable(row, amount) == amount <= Left(row)

AllocatePayment(w, a, amount) ==
    /\ RoomForAllocation
    /\ Payable(receivables[a], amount)
    /\ receivables' = [receivables EXCEPT ![a] = Pay(@, amount)]
    /\ allocations' = Append(allocations, [receivable |-> a, amount |-> amount])
    /\ AtOnce(w)
    /\ UNCHANGED <<sales, contractPaid, receipts>>

(* Who can take of the money of a transaction.                             *)
Wants(a) == receivables[a].status = "OPEN" /\ Left(receivables[a]) > 0

Lesser(x, y) == IF x < y THEN x ELSE y

(* `order` is who gets some of it, by due date: everybody who wants some,  *)
(* or as many as it lasts for.                                             *)
Before(order, k) == SumTo([j \in 1 .. k - 1 |-> Left(receivables[order[j]])], k - 1)

Takers(order, amount) ==
    /\ \A k \in DOMAIN order : Wants(order[k]) /\ Before(order, k) < amount
    /\ \/ Before(order, Len(order) + 1) >= amount
       \/ \A a \in DOMAIN receivables : Wants(a) => a \in Range(order)

Share(order, amount, k) == Lesser(Left(receivables[order[k]]), amount - Before(order, k))

(* Mutant: the contract is paid as soon as one receivable is. *)
AllPaidOrAny(rows) == \E a \in DOMAIN rows : rows[a].status # "OPEN"

AllPaid(rows) == \A a \in DOMAIN rows : rows[a].status # "OPEN"

(* allocateFromTradeFinanceTransaction: a transaction of the contract is   *)
(* received.  Without a receivable the money is not allocated at all.      *)
AllocateFromTradeFinanceTransaction(w, order, amount) ==
    /\ RoomForAllocation
    /\ receivables # <<>>
    /\ Takers(order, amount)
    /\ receivables' = [a \in DOMAIN receivables |->
           IF a \notin Range(order) THEN receivables[a]
           ELSE LET k == CHOOSE j \in DOMAIN order : order[j] = a
                IN  Pay(receivables[a], Share(order, amount, k))]
    /\ allocations' = allocations \o
           [k \in DOMAIN order |-> [receivable |-> order[k], amount |-> Share(order, amount, k)]]
    /\ contractPaid' = (contractPaid \/ AllPaid(receivables'))
    /\ AtOnce(w)
    /\ UNCHANGED <<sales, receipts>>

-----------------------------------------------------------------------------
(* Receivables entered and edited by hand (create, update)                 *)

(* The status the caller gives is stored as it is, whatever is paid: the   *)
(* one computed for a new receivable would be OPEN.                        *)
CreateReceivable(w, amount, status) ==
    /\ Len(receivables) < MaxReceivables[overlap]
    /\ receivables' = Append(receivables, NewReceivable(0, amount, status))
    /\ AtOnce(w)
    /\ UNCHANGED <<sales, payments, receipts>>

ReadForEdit(w, a, amount) ==
    /\ Acceptable([receivables[a] EXCEPT !.amount = amount])
    /\ Begin(w, [op |-> "edit", receivable |-> a, read |-> receivables[a], amount |-> amount])
    /\ UNCHANGED <<sales, receivables, payments, receipts>>

(* Mutant: the status is left as it is. *)
EditedAmount(row, read, amount) == [row EXCEPT !.amount = amount]

(* Amount and status are written, the status as the paid amount of the copy*)
(* has it: an edit computes it, whatever the caller gives.                 *)
Edited(row, read, amount) ==
    [row EXCEPT !.amount = amount, !.status = StatusOf(read.paid, amount), !.given = FALSE]

Edit(w) ==
    /\ jobs[w].op = "edit"
    /\ receivables' = [receivables EXCEPT ![jobs[w].receivable] =
                          Edited(@, jobs[w].read, jobs[w].amount)]
    /\ Finish(w)
    /\ UNCHANGED <<sales, payments, receipts>>

-----------------------------------------------------------------------------
(* Payment receipts                                                        *)

(* create: a receipt that comes from the bank is approved at once.         *)
ReadForReceipt(w, a, amount) ==
    /\ amount <= Left(receivables[a])
    /\ \E op \in {"receive", "receiveApproved"} :
          Begin(w, [op |-> op, receivable |-> a, read |-> receivables[a], amount |-> amount])
    /\ UNCHANGED <<sales, receivables, payments, receipts>>

CreateReceipt(w) ==
    /\ jobs[w].op \in {"receive", "receiveApproved"} /\ Len(receipts) < MaxReceipts[overlap]
    /\ LET job    == jobs[w]
           status == IF job.op = "receive" THEN "PENDING" ELSE "APPROVED"
       IN  /\ receipts' = Append(receipts, [receivable |-> job.receivable,
                                            amount |-> job.amount, status |-> status])
           /\ IF status = "PENDING" THEN Finish(w)
              ELSE jobs' = [jobs EXCEPT ![w] = [op |-> "post", receivable |-> job.receivable,
                                                read |-> job.read, amount |-> job.amount]]
    /\ UNCHANGED <<sales, receivables, payments>>

Decidable(op, status) ==
    IF op = "cancel" THEN status # "APPROVED" ELSE status = "PENDING"

ReadReceipt(w, op, r) ==
    /\ Decidable(op, receipts[r].status)
    /\ Begin(w, [op |-> op, receipt |-> r, read |-> receipts[r]])
    /\ UNCHANGED <<sales, receivables, payments, receipts>>

StatusFor(op) == CASE op = "approve" -> "APPROVED"
                   [] op = "reject"  -> "REJECTED"
                   [] op = "cancel"  -> "CANCELLED"

(* approve, reject and cancel save the receipt; approve then reads the     *)
(* receivable.                                                             *)
SaveReceipt(w) ==
    /\ jobs[w].op \in {"approve", "reject", "cancel"}
    /\ LET job == jobs[w] IN
       /\ \E row \in Saved(receipts[job.receipt], job.read,
                           [job.read EXCEPT !.status = StatusFor(job.op)]) :
             receipts' = [receipts EXCEPT ![job.receipt] = row]
       /\ IF job.op # "approve" THEN Finish(w)
          ELSE jobs' = [jobs EXCEPT ![w] =
                  [op |-> "post", receivable |-> job.read.receivable,
                   read |-> receivables[job.read.receivable], amount |-> job.read.amount]]
    /\ UNCHANGED <<sales, receivables, payments>>

(* Balance and status are written, as the copy and the receipt have them.  *)
Posted(row, read, amount) ==
    [row EXCEPT !.paid = read.paid + amount,
                !.status = StatusOf(read.paid + amount, read.amount),
                !.given = FALSE]

UpdateArBalance(w) ==
    /\ jobs[w].op = "post"
    /\ receivables' = [receivables EXCEPT ![jobs[w].receivable] =
                          Posted(@, jobs[w].read, jobs[w].amount)]
    /\ Finish(w)
    /\ UNCHANGED <<sales, payments, receipts>>

(* A refusal, an error or a restart half-way *)
AbandonReceivables(w) ==
    /\ jobs[w] # Idle
    /\ Finish(w)
    /\ UNCHANGED <<sales, receivables, payments, receipts>>

-----------------------------------------------------------------------------
Invoicing(w) ==
    \/ \E s \in Shipments : LookForActiveInvoice(w, s)
    \/ \E i \in DOMAIN invoices : \/ FindNoReceivable(w, i) \/ ReadForCancelInvoice(w, i)
                                  \/ \E a \in DOMAIN receivables : IssueOnReceivable(w, i, a)
    \/ CreateFromShipment(w) \/ IssueOnNewReceivable(w) \/ CancelInvoice(w)

Paying(w) ==
    \/ \E amount \in Payments :
          \/ \E status \in {"OPEN", "PAID", "CANCELLED"} : CreateReceivable(w, amount, status)
          \/ \E order \in SetToAllKPermutations(DOMAIN receivables) :
                AllocateFromTradeFinanceTransaction(w, order, amount)
          \/ \E a \in DOMAIN receivables : \/ AllocatePayment(w, a, amount)
                                           \/ ReadForReceipt(w, a, amount)
                                           \/ ReadForEdit(w, a, amount)
    \/ \E r \in DOMAIN receipts, op \in {"approve", "reject", "cancel"} : ReadReceipt(w, op, r)
    \/ Edit(w) \/ CreateReceipt(w) \/ SaveReceipt(w) \/ UpdateArBalance(w)

ReceivablesStep == \E w \in Workers : Invoicing(w) \/ Paying(w) \/ AbandonReceivables(w)

ReceivablesNext == ReceivablesStep /\ UNCHANGED overlap

ReceivablesSpec == ReceivablesInit /\ [][ReceivablesNext]_receivablesVars

-----------------------------------------------------------------------------
(* Properties                                                              *)

Allocated(a) ==
    SumTo([n \in DOMAIN allocations |->
              IF allocations[n].receivable = a THEN allocations[n].amount ELSE 0],
          Len(allocations))

Received(a) ==
    SumTo([r \in DOMAIN receipts |->
              IF receipts[r].receivable = a /\ receipts[r].status = "APPROVED"
              THEN receipts[r].amount ELSE 0],
          Len(receipts))

(* What a receivable says is paid is what was allocated to it and what     *)
(* approved receipts say, served one at a time; a restart may lose the     *)
(* posting of a receipt, and nothing else.                                 *)
PaidIsBacked ==
    ~ overlap => \A a \in DOMAIN receivables :
        /\ Allocated(a) <= receivables[a].paid
        /\ receivables[a].paid <= Allocated(a) + Received(a)

(* The stored status says whether a receivable is paid, whichever of its   *)
(* writers wrote last, served one at a time: only the status its creator   *)
(* gave may say otherwise, until a writer computes it.                     *)
StatusFollowsPaid ==
    ~ overlap => \A a \in DOMAIN receivables : ~ receivables[a].given =>
        receivables[a].status = StatusOf(receivables[a].paid, receivables[a].amount)

(* However requests overlap, the revenue of an invoice is recognised once, *)
(* even when a stale cancellation is saved over the issued invoice.        *)
RevenueOnce == \A n, m \in DOMAIN revenue : revenue[n] = revenue[m] => n = m

(* A contract becomes PAID when nothing is owed under it, served one at a  *)
(* time, but for receivables whose creator gave them a status: PAID or     *)
(* CANCELLED ones count as settled, whatever is paid on them.              *)
PaidContractOwesNothing ==
    [][~ overlap /\ ~ contractPaid /\ contractPaid' =>
          \A a \in DOMAIN receivables' :
              \/ receivables'[a].given
              \/ receivables'[a].paid >= receivables'[a].amount]_receivablesVars
=============================================================================
