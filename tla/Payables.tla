-------------------------------- MODULE Payables --------------------------------
(***************************************************************************)
(* What the company owes its vendors and the two ways of paying it: batches*)
(* of payments that are approved, paid and, line by line, reversed         *)
(* (AccountPayablesService), and outgoing transactions for vendor invoices *)
(* (TradeFinanceService).                                                  *)
(*                                                                         *)
(* Drawing up a batch, paying it, reversing a line and voiding a payable   *)
(* lock the rows they change: one action each.  Submitting a batch, hearing*)
(* of its decision and editing a payable decide on what they read before.  *)
(*                                                                         *)
(* UNPAID and PARTIAL, which no operation tells apart, are one status OPEN.*)
(* Amounts are units of one currency.                                      *)
(***************************************************************************)
EXTENDS Integers, FiniteSets, Sequences, Sums, Serving

CONSTANTS
    Billed,           \* amount of a vendor invoice
    Amounts,          \* amounts of payables that clerks enter, edit and pay
    Entered,          \* what a clerk may enter as paid already
    MaxPayables,      \* bound: payables, by whether requests may overlap
    MaxBatches,       \* bound: batches, likewise
    MaxRequests,      \* bound: approval requests, likewise
    MaxTransactions   \* bound: outgoing transactions, likewise

ASSUME BilledAssumption  == Billed \in Nat \ {0}
ASSUME AmountsAssumption == Amounts \subseteq Nat \ {0}
ASSUME EnteredAssumption == Entered \subseteq Nat

VARIABLES
    payables,      \* account_payables, with the status of their invoice
    batches,       \* account_payable_payment_batches with their items
    settlements,   \* audits of type SETTLEMENT, in order of creation
    reversals,     \* the settlement of each audit of type REVERSAL
    requests,      \* approval_workflow_requests of batches and reversals
    decisions,     \* the decisions announced to the listeners, in order
    transactions   \* outgoing trade_finance_transactions

approvals == <<requests, decisions>>

payablesVars == <<payables, batches, settlements, reversals, approvals, transactions, jobs, overlap>>

money == <<payables, settlements, reversals>>

(* `invoice` is the status of the vendor invoice, "none" without one;      *)
(* `entered` is no column: it records that a clerk has set what is paid.   *)
Payable == [amount   : Nat,
            paid     : Nat,
            entered  : BOOLEAN,
            status   : {"OPEN", "PAID", "VOID"},
            approved : BOOLEAN,                       \* isApprovedForPayment
            invoice  : {"none", "PENDING", "PAID", "CANCELLED"}]

BatchStatus == {"DRAFT", "SUBMITTED", "APPROVED", "REJECTED", "PAID"}

(* `items` is what is to be paid of each payable of the batch.             *)
IsBatch(batch) ==
    /\ DOMAIN batch = {"items", "status"} /\ batch.status \in BatchStatus
    /\ DOMAIN batch.items \subseteq DOMAIN payables
    /\ \A p \in DOMAIN batch.items : batch.items[p] \in Amounts

Settlement == [payable : Nat, batch : Nat, amount : Amounts, reversed : BOOLEAN]

Request == [kind   : {"batch", "reversal"},
            of     : Nat,
            status : {"PENDING", "APPROVED", "REJECTED", "CANCELLED"}]

Outcomes == {"APPROVED", "REJECTED"}

Decision == [req : Nat, outcome : Outcomes]

Transaction == [payable : Nat, status : {"PENDING", "PAID", "REJECTED", "CANCELLED"}]

(* A clerk's edit may leave a column as it is.                             *)
NotGiven == -1

PayablesJob == {Idle}
    \cup [op : {"edit"}, payable : Nat, amount : Amounts \cup {NotGiven},
          paid : Entered \cup {NotGiven}, status : {"OPEN", "PAID"}]
    \cup [op : {"submit", "saveSubmitted", "flag"}, batch : Nat]
    \cup [op : {"act", "withdraw"}, req : Nat]
    \cup [op : {"hear"}, decision : Nat]
    \cup [op : {"saveDecided"}, batch : Nat, decision : Nat, status : Outcomes]

PayablesTypeOK ==
    /\ payables \in Seq(Payable)
    /\ \A b \in DOMAIN batches : IsBatch(batches[b])
    /\ settlements \in Seq(Settlement)
    /\ reversals \in Seq(DOMAIN settlements)
    /\ requests \in Seq(Request)
    /\ decisions \in Seq(Decision)
    /\ transactions \in Seq(Transaction)
    /\ jobs \in [Workers -> PayablesJob]
    /\ overlap \in Overlap

PayablesInit ==
    /\ payables = <<>> /\ batches = <<>> /\ settlements = <<>> /\ reversals = <<>>
    /\ requests = <<>> /\ decisions = <<>> /\ transactions = <<>>
    /\ jobs = [w \in Workers |-> Idle]
    /\ overlap \in Overlap

-----------------------------------------------------------------------------

StatusOf(paid, amount) == IF paid > 0 /\ paid >= amount THEN "PAID" ELSE "OPEN"

(* normalizeStatus: VOID stays.                                            *)
Normalised(row) ==
    [row EXCEPT !.status = IF @ = "VOID" THEN @ ELSE StatusOf(row.paid, row.amount)]

Acceptable(row) == row.status = "VOID" \/ row.paid <= row.amount

Left(row) == row.amount - row.paid

-----------------------------------------------------------------------------
(* Payables                                                                *)

NewPayable(amount, paid, invoice) ==
    [amount |-> amount, paid |-> paid, entered |-> paid > 0, status |-> StatusOf(paid, amount),
     approved |-> FALSE, invoice |-> invoice]

(* create, and what VendorInvoicesService makes of an invoice              *)
CreatePayable(w, row) ==
    /\ Len(payables) < MaxPayables[overlap]
    /\ row \in {NewPayable(amount, paid, "none") : amount \in Amounts, paid \in Entered \cup {0}}
                  \cup {NewPayable(Billed, 0, "PENDING")}
    /\ Acceptable(row)
    /\ payables' = Append(payables, row)
    /\ AtOnce(w)
    /\ UNCHANGED <<batches, settlements, reversals, approvals, transactions>>

Written(row, amount, paid) ==
    [row EXCEPT !.amount  = IF amount = NotGiven THEN @ ELSE amount,
                !.paid    = IF paid = NotGiven THEN @ ELSE paid,
                !.entered = @ \/ paid # NotGiven]

(* update *)
ReadForEdit(w, p, amount, paid) ==
    LET merged == Written(payables[p], amount, paid) IN
    /\ merged.status # "VOID" /\ Acceptable(merged)
    /\ Begin(w, [op |-> "edit", payable |-> p, amount |-> amount, paid |-> paid,
                 status |-> Normalised(merged).status])
    /\ UNCHANGED <<money, batches, approvals, transactions>>

(* What was given is written, and the status, which the copy read decides. *)
Edit(w) ==
    /\ jobs[w].op = "edit"
    /\ LET job == jobs[w] IN
       payables' = [payables EXCEPT ![job.payable] =
           [Written(@, job.amount, job.paid) EXCEPT !.status = job.status]]
    /\ Finish(w)
    /\ UNCHANGED <<batches, settlements, reversals, approvals, transactions>>

(* Mutant: a draft does not stop it. *)
OpenBatchButDraft(batch) == batch.status \in {"SUBMITTED", "APPROVED"}

OpenBatch(batch) == batch.status \in {"DRAFT", "SUBMITTED", "APPROVED"}

VoidPayable(w, p) ==
    /\ payables[p].status = "OPEN" /\ payables[p].paid = 0
    /\ \A b \in DOMAIN batches : OpenBatch(batches[b]) => p \notin DOMAIN batches[b].items
    /\ payables' = [payables EXCEPT ![p].status = "VOID", ![p].approved = FALSE,
                       ![p].invoice = IF @ = "none" THEN @ ELSE "CANCELLED"]
    /\ AtOnce(w)
    /\ UNCHANGED <<batches, settlements, reversals, approvals, transactions>>

-----------------------------------------------------------------------------
(* Batches, up to their approval                                           *)

Payments(p) == {amount \in Amounts : amount <= Left(payables[p])}

CreatePaymentBatch(w, items) ==
    /\ Len(batches) < MaxBatches[overlap]
    /\ DOMAIN items # {}
    /\ \A p \in DOMAIN items : payables[p].status = "OPEN" /\ items[p] \in Payments(p)
    /\ batches' = Append(batches, [items |-> items, status |-> "DRAFT"])
    /\ AtOnce(w)
    /\ UNCHANGED <<money, approvals, transactions>>

(* submitPaymentBatch *)
ReadForSubmit(w, b) ==
    /\ batches[b].status = "DRAFT"
    /\ Begin(w, [op |-> "submit", batch |-> b])
    /\ UNCHANGED <<money, batches, approvals, transactions>>

(* createRequest refuses a document with a pending request.                *)
NewRequest(kind, of) ==
    /\ Len(requests) < MaxRequests[overlap]
    /\ \A r \in DOMAIN requests :
          ~ (requests[r].kind = kind /\ requests[r].of = of /\ requests[r].status = "PENDING")
    /\ requests' = Append(requests, [kind |-> kind, of |-> of, status |-> "PENDING"])

CreateRequest(w) ==
    /\ jobs[w].op = "submit"
    /\ NewRequest("batch", jobs[w].batch)
    /\ Proceed(w, [jobs[w] EXCEPT !.op = "saveSubmitted"])
    /\ UNCHANGED <<money, batches, decisions, transactions>>

SaveSubmitted(w) ==
    /\ jobs[w].op = "saveSubmitted"
    /\ batches' = [batches EXCEPT ![jobs[w].batch].status = "SUBMITTED"]
    /\ Finish(w)
    /\ UNCHANGED <<money, approvals, transactions>>

(* ApprovalMatrixService loads a pending request and later saves its copy  *)
(* with the decision, whatever others have decided meanwhile, and announces*)
(* it; a withdrawn request is not announced.  (Module ApprovalMatrix has   *)
(* the steps of a request.)                                                *)
LoadRequest(w, r) ==
    /\ requests[r].status = "PENDING"
    /\ \E op \in {"act", "withdraw"} : Begin(w, [op |-> op, req |-> r])
    /\ UNCHANGED <<money, batches, approvals, transactions>>

Decide(w, outcome) ==
    /\ jobs[w].op = "act"
    /\ requests' = [requests EXCEPT ![jobs[w].req].status = outcome]
    /\ decisions' = Append(decisions, [req |-> jobs[w].req, outcome |-> outcome])
    /\ Proceed(w, [op |-> "hear", decision |-> Len(decisions')])
    /\ UNCHANGED <<money, batches, transactions>>

Withdraw(w) ==
    /\ jobs[w].op = "withdraw"
    /\ requests' = [requests EXCEPT ![jobs[w].req].status = "CANCELLED"]
    /\ Finish(w)
    /\ UNCHANGED <<money, batches, decisions, transactions>>

Decided(d) == requests[decisions[d].req]

(* Mutant: a decision is an approval. *)
OutcomeAnyhow(d) == "APPROVED"

OutcomeOf(d) == decisions[d].outcome

(* The listener of a batch: completePaymentBatchWorkflowApproval,          *)
(* rejectPaymentBatchWorkflow                                              *)
HearOfBatch(w) ==
    /\ jobs[w].op = "hear" /\ Decided(jobs[w].decision).kind = "batch"
    /\ LET d == jobs[w].decision
           b == Decided(d).of
       IN  IF batches[b].status = "SUBMITTED"
           THEN Proceed(w, [op |-> "saveDecided", batch |-> b, decision |-> d,
                            status |-> OutcomeOf(d)])
           ELSE Finish(w)
    /\ UNCHANGED <<money, batches, approvals, transactions>>

SaveDecided(w) ==
    /\ jobs[w].op = "saveDecided"
    /\ LET job == jobs[w] IN
       /\ batches' = [batches EXCEPT ![job.batch].status = job.status]
       /\ IF job.status = "APPROVED" THEN Proceed(w, [op |-> "flag", batch |-> job.batch])
          ELSE Finish(w)
    /\ UNCHANGED <<money, approvals, transactions>>

(* approveBatchPayables *)
ApproveBatchPayables(w) ==
    /\ jobs[w].op = "flag"
    /\ payables' = [p \in DOMAIN payables |->
           IF p \in DOMAIN batches[jobs[w].batch].items
           THEN [payables[p] EXCEPT !.approved = TRUE] ELSE payables[p]]
    /\ Finish(w)
    /\ UNCHANGED <<batches, settlements, reversals, approvals, transactions>>

-----------------------------------------------------------------------------
(* Payment and reversal                                                    *)

Approved(b) == batches[b].status = "APPROVED"

(* The payable may have been paid, edited or voided since; only what is    *)
(* open is looked at.                                                      *)
StillOpen(p, amount) == amount <= Left(payables[p])

Paid(row, amount) ==
    LET new == Normalised([row EXCEPT !.paid = @ + amount, !.approved = TRUE])
    IN  [new EXCEPT !.invoice = IF new.status = "PAID" /\ @ # "none" THEN "PAID" ELSE @]

(* A payment line for every item, the items in any order.                  *)
PaymentLines(b) ==
    LET items == batches[b].items
        order == Enumeration(DOMAIN items)
    IN  [i \in 1 .. Cardinality(DOMAIN items) |->
            [payable |-> order[i], batch |-> b, amount |-> items[order[i]], reversed |-> FALSE]]

MarkPaymentBatchPaid(w, b) ==
    /\ Approved(b)
    /\ LET items == batches[b].items IN
       /\ \A p \in DOMAIN items : StillOpen(p, items[p])
       /\ payables' = [p \in DOMAIN payables |->
              IF p \in DOMAIN items THEN Paid(payables[p], items[p]) ELSE payables[p]]
    /\ settlements' = settlements \o PaymentLines(b)
    /\ batches' = [batches EXCEPT ![b].status = "PAID"]
    /\ AtOnce(w)
    /\ UNCHANGED <<reversals, approvals, transactions>>

(* reverseSettlementAudit asks for approval, under the lock of the line.   *)
ReverseSettlementAudit(w, s) ==
    /\ ~ settlements[s].reversed
    /\ NewRequest("reversal", s)
    /\ AtOnce(w)
    /\ UNCHANGED <<money, batches, decisions, transactions>>

Unpaid(row, amount) ==
    LET new == Normalised([row EXCEPT !.paid = @ - amount])
    IN  [new EXCEPT !.invoice = IF new.status # "PAID" /\ @ # "none" THEN "PENDING" ELSE @]

LineReversible(s) ==
    /\ ~ settlements[s].reversed
    /\ settlements[s].amount <= payables[settlements[s].payable].paid

(* Mutant: the line is not marked. *)
MarkedReversedNot(line) == line

MarkedReversed(line) == [line EXCEPT !.reversed = TRUE]

(* The listener of a reversal: completeSettlementReversalWorkflow.  A      *)
(* rejection leaves everything as it is.                                   *)
HearOfReversal(w) ==
    /\ jobs[w].op = "hear" /\ Decided(jobs[w].decision).kind = "reversal"
    /\ LET d == jobs[w].decision
           s == Decided(d).of
           p == settlements[s].payable
       IN  IF OutcomeOf(d) = "APPROVED" /\ LineReversible(s)
              /\ Acceptable([payables[p] EXCEPT !.paid = @ - settlements[s].amount])
           THEN /\ payables' = [payables EXCEPT ![p] = Unpaid(@, settlements[s].amount)]
                /\ settlements' = [settlements EXCEPT ![s] = MarkedReversed(@)]
                /\ reversals' = Append(reversals, s)
           ELSE UNCHANGED money
    /\ Finish(w)
    /\ UNCHANGED <<batches, approvals, transactions>>

-----------------------------------------------------------------------------
(* Outgoing transactions (TradeFinanceService)                             *)

(* createTransaction.  Nothing looks at the row before its status is       *)
(* updated: what was read is decided upon at once.                         *)
CreateTransaction(w, p) ==
    /\ Len(transactions) < MaxTransactions[overlap]
    /\ payables[p].invoice = "PENDING" /\ payables[p].approved
    /\ transactions' = Append(transactions, [payable |-> p, status |-> "PENDING"])
    /\ AtOnce(w)
    /\ UNCHANGED <<money, batches, approvals>>

(* validateTransactionStatusTransition; RECEIVED does what PAID does.      *)
PaymentTransitions(status, next) ==
    \/ status = "PENDING" /\ next \in {"PAID", "REJECTED", "CANCELLED"}
    \/ status = "REJECTED" /\ next = "PENDING"

UpdateTransactionStatus(w, x, next) ==
    /\ PaymentTransitions(transactions[x].status, next)
    /\ transactions' = [transactions EXCEPT ![x].status = next]
    /\ payables' = IF next # "PAID" THEN payables
                   ELSE [payables EXCEPT ![transactions[x].payable] =
                            [@ EXCEPT !.paid = Billed, !.status = "PAID", !.invoice = "PAID"]]
    /\ AtOnce(w)
    /\ UNCHANGED <<batches, settlements, reversals, approvals>>

(* An error or a restart                                                   *)
AbandonPayment(w) ==
    /\ jobs[w] # Idle
    /\ Finish(w)
    /\ UNCHANGED <<money, batches, approvals, transactions>>

-----------------------------------------------------------------------------
Arrive(w) ==
    \/ \E amount \in Amounts \cup {Billed}, paid \in Entered \cup {0},
          invoice \in {"none", "PENDING"} :
          CreatePayable(w, NewPayable(amount, paid, invoice))
    \/ \E p \in DOMAIN payables :
          \/ VoidPayable(w, p) \/ CreateTransaction(w, p)
          \/ \E amount \in Amounts \cup {NotGiven}, paid \in Entered \cup {NotGiven} :
                ReadForEdit(w, p, amount, paid)
    \/ \E ps \in SUBSET DOMAIN payables : \E items \in [ps -> Amounts] :
          CreatePaymentBatch(w, items)
    \/ \E b \in DOMAIN batches : ReadForSubmit(w, b) \/ MarkPaymentBatchPaid(w, b)
    \/ \E s \in DOMAIN settlements : ReverseSettlementAudit(w, s)
    \/ \E r \in DOMAIN requests : LoadRequest(w, r)
    \/ \E x \in DOMAIN transactions, next \in {"PENDING", "PAID", "REJECTED", "CANCELLED"} :
          UpdateTransactionStatus(w, x, next)

ServePayables(w) ==
    \/ Edit(w) \/ CreateRequest(w) \/ SaveSubmitted(w)
    \/ \E outcome \in Outcomes : Decide(w, outcome)
    \/ Withdraw(w)
    \/ HearOfBatch(w) \/ SaveDecided(w) \/ ApproveBatchPayables(w) \/ HearOfReversal(w)

PayablesStep == \E w \in Workers : Arrive(w) \/ ServePayables(w) \/ AbandonPayment(w)

PayablesNext == PayablesStep /\ UNCHANGED overlap

PayablesSpec == PayablesInit /\ [][PayablesNext]_payablesVars

-----------------------------------------------------------------------------
(* Properties                                                              *)

(* What the lines of a payable that stand add up to.                       *)
Settled(p) ==
    SumTo([s \in DOMAIN settlements |->
              IF settlements[s].payable = p /\ ~ settlements[s].reversed
              THEN settlements[s].amount ELSE 0],
          Len(settlements))

PaidFor(p) == {x \in DOMAIN transactions :
                  transactions[x].payable = p /\ transactions[x].status = "PAID"}

(* However requests overlap: until a transaction pays its invoice or a     *)
(* clerk enters what is paid, a payable has paid what its payment lines    *)
(* that are not reversed add up to, though copies of it are saved that     *)
(* were read before it was paid.                                           *)
PaidIsSettled ==
    \A p \in DOMAIN payables :
        PaidFor(p) = {} /\ ~ payables[p].entered => payables[p].paid = Settled(p)

(* The approvals of a batch, or of the reversal of a line, that were       *)
(* announced; the request may have been rejected or withdrawn over since.  *)
Approvals(kind, of) ==
    {d \in DOMAIN decisions : /\ decisions[d].outcome = "APPROVED"
                              /\ Decided(d).kind = kind /\ Decided(d).of = of}

LinesOf(b, p) == {s \in DOMAIN settlements : settlements[s].batch = b /\ settlements[s].payable = p}

(* However stale the batch a decision or a submission is saved over: a     *)
(* batch pays each of its payables at most as often as an approval of it   *)
(* was announced, and a line comes back once, on an approval of its own.   *)
(* (A batch submitted, or approved, by two at once may be paid twice.)     *)
MovedByApproval ==
    /\ \A b \in DOMAIN batches, p \in DOMAIN payables :
           Cardinality(LinesOf(b, p)) <= Cardinality(Approvals("batch", b))
    /\ \A i \in DOMAIN reversals : Approvals("reversal", reversals[i]) # {}
    /\ \A i, j \in DOMAIN reversals : reversals[i] = reversals[j] => i = j

(* Served one at a time, nothing was paid on a payable that is void, and   *)
(* no batch that may still be paid contains it.                            *)
VoidOwesNothing ==
    ~ overlap => \A p \in DOMAIN payables : payables[p].status = "VOID" =>
        /\ payables[p].paid = 0
        /\ \A b \in DOMAIN batches :
              batches[b].status \in {"DRAFT", "SUBMITTED", "APPROVED"}
              => p \notin DOMAIN batches[b].items
=============================================================================
