----------------------------- MODULE PortalPayments ----------------------------
(***************************************************************************)
(* Payments of one receivable that buyers announce in the portal: receipts *)
(* (PortalService), the bank's webhook that confirms them (SepayService)   *)
(* and the transactions that post the money (TradeFinanceService).         *)
(*                                                                         *)
(* Confirming a receipt is a chain of transactions without one around it:  *)
(* the receipt is read, a trade finance transaction is made, received (that*)
(* locks it and allocates), and the receipt is saved.  A server may stop   *)
(* anywhere, and the bank delivers a webhook again until it is answered.   *)
(***************************************************************************)
EXTENDS Integers, Sequences, FiniteSets, Sums, StaleRows, Serving

CONSTANTS
    Transfers,        \* bank transfers, by their external id
    Total,            \* amount of the receivable
    Payments,         \* amounts of receipts and transactions
    MaxReceipts,      \* bound: receipts, by whether requests may overlap
    MaxTransactions,  \* bound: transactions after which clerks make none, likewise
    MaxRestarts       \* bound: requests that stop half-way, likewise

ASSUME TotalAssumption    == Total \in Nat \ {0}
ASSUME PaymentsAssumption == Payments \subseteq Nat \ {0}

VARIABLES
    receipts,      \* portal_payment_receipts, in order of creation
    transactions,  \* trade_finance_transactions, in order of creation
    paid,          \* what is allocated to the receivable
    bank,          \* what the bank was told: the receipt each transfer is for
    sepay,         \* sepay_transactions, by external id
    restarts       \* how many requests stopped half-way

vars == <<receipts, transactions, paid, bank, sepay, jobs, restarts, overlap>>

rows == <<receipts, transactions, paid, bank, sepay>>

(* `transaction` is null when 0; `auto` is history: it was made confirmed. *)
Receipt == [amount      : Payments,
            auto        : BOOLEAN,
            status      : {"SUBMITTED", "CONFIRMED", "REJECTED"},
            transaction : Nat]                 \* tradeFinanceTransactionId

(* `receipt` is the receipt the transaction was made for and `transfer` the*)
(* webhook's transfer ("none": a clerk's review); a clerk's own has neither.*)
Transaction == [amount   : Payments,
                status   : {"PENDING", "RECEIVED", "PAID", "REJECTED", "CANCELLED"},
                receipt  : Nat,
                transfer : Transfers \cup {"none"}]

Told == [receipt : Nat, exact : BOOLEAN]

(* `read` is the copy of the receipt a worker decides on, `open` what the  *)
(* receivable lacked then.                                                 *)
Review == [op : {"create", "post", "confirm"}, receipt : Nat, read : Receipt, open : Nat,
           transfer : Transfers \cup {"none"}, transaction : Nat]

Job == {Idle} \cup Review
    \cup [op : {"submit"}, amount : Payments]
    \cup [op : {"reject"}, receipt : Nat, read : Receipt]
    \cup [op : {"record", "match"}, transfer : Transfers]

RejectingOthers(job) ==
    /\ job.op = "rejectOthers" /\ job.transfer \in Transfers \cup {"none"}
    /\ \A r \in DOMAIN job.copies : r \in DOMAIN receipts /\ job.copies[r] \in Receipt

TypeOK ==
    /\ receipts \in Seq(Receipt)
    /\ transactions \in Seq(Transaction)
    /\ paid \in 0 .. Total
    /\ bank \in [Transfers -> Told]
    /\ sepay \in [Transfers -> {"none", "RECEIVED", "MATCHED", "CONFIRMED"}]
    /\ DOMAIN jobs = Workers
    /\ \A w \in Workers : jobs[w] \in Job \/ RejectingOthers(jobs[w])
    /\ restarts \in Nat
    /\ overlap \in Overlap

Init ==
    /\ receipts = <<>> /\ transactions = <<>> /\ paid = 0
    /\ bank = [t \in Transfers |-> [receipt |-> 0, exact |-> TRUE]]
    /\ sepay = [t \in Transfers |-> "none"]
    /\ jobs = [w \in Workers |-> Idle]
    /\ restarts = 0
    /\ overlap \in Overlap

-----------------------------------------------------------------------------

Open == Total - paid

Submitted(r) == receipts[r].status = "SUBMITTED"

-----------------------------------------------------------------------------
(* The buyer (createPaymentReceipt)                                        *)

(* No receipt of the same amount waits for review; bank references differ. *)
LookForDuplicate(w, amount) ==
    /\ Len(receipts) < MaxReceipts[overlap]
    /\ amount <= Open
    /\ ~ \E r \in DOMAIN receipts : Submitted(r) /\ receipts[r].amount = amount
    /\ Begin(w, [op |-> "submit", amount |-> amount])
    /\ UNCHANGED rows

(* The request says whether the receipt waits for review or, as one with   *)
(* autoApprove or of the bank's own source, is confirmed with no posting.  *)
CreatePaymentReceipt(w) ==
    /\ jobs[w].op = "submit"
    /\ \E auto \in BOOLEAN :
          receipts' = Append(receipts, [amount |-> jobs[w].amount, auto |-> auto,
              status |-> IF auto THEN "CONFIRMED" ELSE "SUBMITTED", transaction |-> 0])
    /\ Finish(w)
    /\ UNCHANGED <<transactions, paid, bank, sepay>>

(* The buyer transfers money for a receipt, the right amount or another.   *)
TransferMoney(t, r, exact) ==
    /\ bank[t].receipt = 0
    /\ bank' = [bank EXCEPT ![t] = [receipt |-> r, exact |-> exact]]
    /\ UNCHANGED <<receipts, transactions, paid, sepay, jobs>>

-----------------------------------------------------------------------------
(* The bank's webhook (handleWebhook)                                      *)

(* Mutant: what is recorded already is handled again. *)
RecordableAgain(t) == TRUE

(* Mutant: only a transfer whose receipt waits is recorded. *)
RecordableWhileSubmitted(t) == sepay[t] = "none" /\ receipts[bank[t].receipt].status = "SUBMITTED"

(* externalTransactionId is looked for, and is unique.                     *)
Recordable(t) == sepay[t] = "none"

Deliver(w, t) ==
    /\ bank[t].receipt # 0
    /\ Recordable(t)
    /\ Begin(w, [op |-> "record", transfer |-> t])
    /\ UNCHANGED rows

Record(w) ==
    /\ jobs[w].op = "record"
    /\ LET t == jobs[w].transfer IN
       \/ /\ Recordable(t)
          /\ sepay' = [sepay EXCEPT ![t] = "RECEIVED"]
          /\ Proceed(w, [op |-> "match", transfer |-> t])
       \/ /\ ~ Recordable(t)
          /\ Finish(w) /\ UNCHANGED sepay
    /\ UNCHANGED <<receipts, transactions, paid, bank>>

-----------------------------------------------------------------------------
(* The review (reviewPaymentReceipt)                                       *)

Acceptable(r) == Submitted(r) /\ Open > 0 /\ receipts[r].amount <= Open

ReviewOf(op, r, transfer) ==
    [op |-> op, receipt |-> r, read |-> receipts[r], open |-> Open, transfer |-> transfer,
     transaction |-> 0]

ReadForReview(w, r) ==
    /\ \/ /\ Acceptable(r) /\ Len(transactions) < MaxTransactions[overlap]
          /\ Begin(w, ReviewOf("create", r, "none"))
       \/ Submitted(r) /\ Begin(w, [op |-> "reject", receipt |-> r, read |-> receipts[r]])
    /\ UNCHANGED rows

(* matchAndConfirmReceipt: a transfer of another amount is only noted, and *)
(* one without a submitted receipt, or refused by the review, is left.     *)
Match(w) ==
    /\ jobs[w].op = "match"
    /\ LET t == jobs[w].transfer
           r == bank[t].receipt
       IN  \/ /\ bank[t].exact /\ Acceptable(r)
              /\ Proceed(w, ReviewOf("create", r, t)) /\ UNCHANGED sepay
           \/ /\ bank[t].exact /\ ~ Acceptable(r)
              /\ Finish(w) /\ UNCHANGED sepay
           \/ /\ ~ bank[t].exact
              /\ sepay' = [sepay EXCEPT ![t] = IF Submitted(r) THEN "MATCHED" ELSE @]
              /\ Finish(w)
    /\ UNCHANGED <<receipts, transactions, paid, bank>>

CreateTransaction(w) ==
    /\ jobs[w].op = "create"
    /\ LET job == jobs[w] IN
       /\ transactions' = Append(transactions,
              [amount |-> job.read.amount, status |-> "PENDING", receipt |-> job.receipt,
               transfer |-> job.transfer])
       /\ Proceed(w, [job EXCEPT !.op = "post", !.transaction = Len(transactions')])
    /\ UNCHANGED <<receipts, paid, bank, sepay>>

(* validateTransactionStatusTransition *)
Transitions(status, next) ==
    \/ status = "PENDING" /\ next \in {"RECEIVED", "PAID", "REJECTED", "CANCELLED"}
    \/ status = "REJECTED" /\ next = "PENDING"

(* allocateFromTradeFinanceTransaction: what the receivable does not lack  *)
(* is not allocated.                                                       *)
AllocatedOf(amount) == IF amount < Open THEN amount ELSE Open

(* updateTransactionStatus, under the lock of the transaction              *)
UpdateStatus(x, next) ==
    /\ Transitions(transactions[x].status, next)
    /\ transactions' = [transactions EXCEPT ![x].status = next]
    /\ paid' = IF next = "RECEIVED" THEN paid + AllocatedOf(transactions[x].amount) ELSE paid

PostTransaction(w) ==
    /\ jobs[w].op = "post"
    /\ UpdateStatus(jobs[w].transaction, "RECEIVED")
    /\ Proceed(w, [jobs[w] EXCEPT !.op = "confirm"])
    /\ UNCHANGED <<receipts, bank, sepay>>

PostingRefused(w) ==
    /\ jobs[w].op = "post"
    /\ ~ Transitions(transactions[jobs[w].transaction].status, "RECEIVED")
    /\ Finish(w)
    /\ UNCHANGED rows

(* Mutant: the receipt names no transaction. *)
ConfirmedUnnamed(read, x) == [read EXCEPT !.status = "CONFIRMED"]

(* Mutant: the receipt stays submitted. *)
ConfirmedUnmarked(read, x) == [read EXCEPT !.transaction = x]

Confirmed(read, x) == [read EXCEPT !.status = "CONFIRMED", !.transaction = x]

(* The receipt is saved.  When it settled what was open, the other receipts*)
(* that wait for review are read.                                          *)
SaveConfirmed(w) ==
    /\ jobs[w].op = "confirm"
    /\ LET job == jobs[w]
           r   == job.receipt
       IN  /\ \E row \in Saved(receipts[r], job.read, Confirmed(job.read, job.transaction)) :
                 receipts' = [receipts EXCEPT ![r] = row]
           /\ Proceed(w, [op |-> "rejectOthers", transfer |-> job.transfer, copies |->
                  [o \in {o \in DOMAIN receipts \ {r} : job.read.amount >= job.open /\ Submitted(o)}
                      |-> receipts[o]]])
    /\ UNCHANGED <<transactions, paid, bank, sepay>>

(* They are rejected, and the webhook notes that it is done.  Of each row  *)
(* the whole copy is saved, or its status (see StaleRows).                 *)
RejectOthers(w) ==
    /\ jobs[w].op = "rejectOthers"
    /\ LET copies == jobs[w].copies IN
       \E whole \in SUBSET DOMAIN copies :
          receipts' = [r \in DOMAIN receipts |->
              IF r \in whole THEN [copies[r] EXCEPT !.status = "REJECTED"]
              ELSE IF r \in DOMAIN copies THEN [receipts[r] EXCEPT !.status = "REJECTED"]
              ELSE receipts[r]]
    /\ sepay' = [t \in Transfers |-> IF t = jobs[w].transfer THEN "CONFIRMED" ELSE sepay[t]]
    /\ Finish(w)
    /\ UNCHANGED <<transactions, paid, bank>>

SaveRejected(w) ==
    /\ jobs[w].op = "reject"
    /\ LET r == jobs[w].receipt IN
       \E row \in Saved(receipts[r], jobs[w].read, [jobs[w].read EXCEPT !.status = "REJECTED"]) :
          receipts' = [receipts EXCEPT ![r] = row]
    /\ Finish(w)
    /\ UNCHANGED <<transactions, paid, bank, sepay>>

-----------------------------------------------------------------------------
(* The clerk: transactions of his own, and the status of any               *)

EnterTransaction(w, amount) ==
    /\ Free(w) /\ Len(transactions) < MaxTransactions[overlap]
    /\ transactions' = Append(transactions, [amount |-> amount, status |-> "PENDING",
                                             receipt |-> 0, transfer |-> "none"])
    /\ UNCHANGED <<receipts, paid, bank, sepay, jobs>>

UpdateTransactionStatus(w, x, next) ==
    /\ Free(w)
    /\ UpdateStatus(x, next)
    /\ UNCHANGED <<receipts, bank, sepay, jobs>>

(* An error or a restart half-way *)
Abandon(w) ==
    /\ jobs[w] # Idle /\ restarts < MaxRestarts[overlap]
    /\ restarts' = restarts + 1
    /\ Finish(w)
    /\ UNCHANGED rows

-----------------------------------------------------------------------------
Serve(w) ==
    \/ CreatePaymentReceipt(w) \/ Record(w) \/ Match(w)
    \/ CreateTransaction(w) \/ PostTransaction(w) \/ PostingRefused(w)
    \/ SaveConfirmed(w) \/ RejectOthers(w) \/ SaveRejected(w)

Arrive(w) ==
    \/ \E amount \in Payments : LookForDuplicate(w, amount) \/ EnterTransaction(w, amount)
    \/ \E r \in DOMAIN receipts : ReadForReview(w, r)
    \/ \E x \in DOMAIN transactions, next \in {"RECEIVED", "PAID", "REJECTED", "CANCELLED", "PENDING"} :
          UpdateTransactionStatus(w, x, next)

Step ==
    \/ \E w \in Workers : \/ Serve(w) \/ Arrive(w)
                          \/ \E t \in Transfers : Deliver(w, t)
    \/ \E t \in Transfers, r \in DOMAIN receipts, exact \in BOOLEAN : TransferMoney(t, r, exact)

Next == \/ Step /\ UNCHANGED <<restarts, overlap>>
        \/ (\E w \in Workers : Abandon(w)) /\ UNCHANGED overlap

Spec == Init /\ [][Next]_vars

(* A server goes on with what it has begun, and the bank delivers a        *)
(* transfer until it is recorded.                                          *)
Fairness ==
    /\ \A w \in Workers : WF_vars(Serve(w) /\ UNCHANGED <<restarts, overlap>>)
    /\ \A t \in Transfers :
          SF_vars((\E w \in Workers : Deliver(w, t)) /\ UNCHANGED <<restarts, overlap>>)

FairSpec == Spec /\ Fairness

-----------------------------------------------------------------------------
(* Properties                                                              *)

PostedFor(r) ==
    {x \in DOMAIN transactions : transactions[x].receipt = r /\ transactions[x].status = "RECEIVED"}

(* However reviews overlap, and however stale the copies they save: a      *)
(* receipt that was reviewed, by a clerk or by the webhook, and confirmed, *)
(* names a transaction of its own that posted its amount.                  *)
ConfirmedIsPosted ==
    \A r \in DOMAIN receipts : receipts[r].status = "CONFIRMED" /\ ~ receipts[r].auto =>
        /\ receipts[r].transaction \in PostedFor(r)
        /\ transactions[receipts[r].transaction].amount = receipts[r].amount

(* A bank transfer posts money once, however often its webhook is          *)
(* delivered, at the same time or after a restart.                         *)
TransferPostedOnce ==
    \A x, y \in DOMAIN transactions :
        transactions[x].transfer = transactions[y].transfer /\ transactions[x].transfer # "none"
        => x = y

(* Served one at a time, a receipt is posted twice only when a server      *)
(* stopped between the posting and the receipt: once more for each stop.   *)
PostedOncePerRestart ==
    ~ overlap => \A r \in DOMAIN receipts : Cardinality(PostedFor(r)) <= 1 + restarts

(* A transfer the bank keeps delivering is recorded in the end.            *)
EveryTransferRecorded == \A t \in Transfers : bank[t].receipt # 0 ~> sepay[t] # "none"
=============================================================================
