-------------------------- MODULE PortalPaymentsProofs --------------------------
(***************************************************************************)
(* A bank transfer posts money once, and a confirmed receipt names the     *)
(* transaction that posted it: for any number of buyers, transfers and     *)
(* requests, which may overlap, work on stale copies and stop half-way.    *)
(*                                                                         *)
(* Both rest on what a request in progress knows.  A copy of a receipt was *)
(* submitted and unposted when it was read, and its amount never changes;  *)
(* a transaction made for a review stays what it was made for; and of a    *)
(* transfer that is recorded one request at most is about to make one.     *)
(***************************************************************************)
EXTENDS PortalPayments, FiniteSetTheorems, TLAPS

(* A copy of a receipt, as it was read                                     *)
CopyOf(copy, r) ==
    /\ r \in DOMAIN receipts
    /\ copy.status = "SUBMITTED" /\ copy.transaction = 0
    /\ copy.amount = receipts[r].amount

(* The transaction that was made for a receipt of this amount              *)
MadeFor(x, r, amount) ==
    /\ x \in DOMAIN transactions
    /\ transactions[x].receipt = r /\ transactions[x].amount = amount

Posted(x) == transactions[x].status = "RECEIVED"

(* What a request in progress may rely on                                  *)
JobSound(job) ==
    /\ job.op \in {"create", "post", "confirm", "reject"} => CopyOf(job.read, job.receipt)
    /\ job.op \in {"post", "confirm"} =>
          MadeFor(job.transaction, job.receipt, job.read.amount)
    /\ job.op = "confirm" => Posted(job.transaction)
    /\ job.op = "rejectOthers" => \A r \in DOMAIN job.copies : CopyOf(job.copies[r], r)
    /\ job.op \in {"record", "match"} => bank[job.transfer].receipt # 0

JobsSound == \A w \in Workers : JobSound(jobs[w])

(* A row that was reviewed claims to be confirmed only with the transaction*)
(* behind it.                                                              *)
ReceiptSound(row, r) ==
    row.status = "CONFIRMED" /\ ~ row.auto =>
        MadeFor(row.transaction, r, row.amount) /\ Posted(row.transaction)

ReceiptsSound ==
    \A r \in DOMAIN receipts :
        /\ receipts[r].status = "SUBMITTED" => receipts[r].transaction = 0
        /\ ReceiptSound(receipts[r], r)

BankSound == \A t \in Transfers : bank[t].receipt # 0 => bank[t].receipt \in DOMAIN receipts

(* Whether a request will make the transaction of a transfer               *)
Making(job, t) == job.op \in {"match", "create"} /\ job.transfer = t

Unmade(t) == \A x \in DOMAIN transactions : transactions[x].transfer # t

(* A transfer is worked on once it is recorded, by one request, which stops*)
(* being the one when it makes the transaction.                            *)
TransfersSound ==
    \A t \in Transfers \ {"none"} :
        /\ sepay[t] = "none" => Unmade(t)
        /\ \A w \in Workers : Making(jobs[w], t) => Unmade(t) /\ sepay[t] # "none"
        /\ \A v, w \in Workers : Making(jobs[v], t) /\ Making(jobs[w], t) => v = w

Inductive ==
    /\ TypeOK /\ JobsSound /\ ReceiptsSound /\ BankSound /\ TransfersSound
    /\ TransferPostedOnce

(* At first there is nothing to rely on.                                   *)
LEMMA InitInductive == Init => Inductive
<1> SUFFICES ASSUME Init PROVE Inductive
  OBVIOUS
<1>1. receipts = <<>> /\ transactions = <<>> /\ DOMAIN receipts = {} /\ DOMAIN transactions = {}
  BY DEF Init
<1>2. TypeOK
  BY TotalAssumption DEF Init, TypeOK, Job, Idle, Told
<1>3. JobsSound
  BY DEF Init, JobsSound, JobSound, Idle
<1>4. ReceiptsSound /\ BankSound /\ TransferPostedOnce
  BY <1>1 DEF Init, ReceiptsSound, BankSound, TransferPostedOnce
<1>5. TransfersSound
  BY <1>1 DEF Init, TransfersSound, Making, Unmade, Idle
<1> QED
  BY <1>2, <1>3, <1>4, <1>5 DEF Inductive

-----------------------------------------------------------------------------
(* What every action leaves to those who rely on it                        *)

RowsKept ==
    /\ DOMAIN receipts \subseteq DOMAIN receipts'
    /\ \A r \in DOMAIN receipts : receipts'[r].amount = receipts[r].amount
    /\ DOMAIN transactions \subseteq DOMAIN transactions'
    /\ \A x \in DOMAIN transactions :
          /\ transactions'[x].amount = transactions[x].amount
          /\ transactions'[x].receipt = transactions[x].receipt
          /\ transactions'[x].transfer = transactions[x].transfer
          /\ Posted(x) => Posted(x)'
    /\ \A t \in Transfers : bank[t].receipt # 0 => bank'[t] = bank[t]

TypedJob(job) == job \in Job \/ RejectingOthers(job)

(* What a request in progress relies on stays true.                        *)
LEMMA JobStays ==
    ASSUME RowsKept, NEW w \in Workers, TypedJob(jobs[w]), JobSound(jobs[w]), jobs'[w] = jobs[w]
    PROVE  TypedJob(jobs[w])' /\ JobSound(jobs[w])'
<1>1. TypedJob(jobs[w])'
  BY DEF TypedJob, RejectingOthers, RowsKept
<1>2. ASSUME NEW copy, NEW r, CopyOf(copy, r) PROVE CopyOf(copy, r)'
  BY <1>2 DEF CopyOf, RowsKept
<1>3. ASSUME NEW x, NEW r, NEW amount, MadeFor(x, r, amount)
      PROVE  MadeFor(x, r, amount)' /\ (Posted(x) => Posted(x)')
  BY <1>3 DEF MadeFor, RowsKept
<1>4. jobs[w].op \in {"record", "match"} => jobs[w].transfer \in Transfers
  BY DEF TypedJob, RejectingOthers, Job, Review, Idle
<1>5. JobSound(jobs[w])'
  BY <1>2, <1>3, <1>4 DEF JobSound, RowsKept
<1> QED
  BY <1>1, <1>5

(* What the jobs become when one worker goes on with another               *)
Becomes(w, job) ==
    DOMAIN jobs' = Workers /\ jobs'[w] = job /\ \A v \in Workers \ {w} : jobs'[v] = jobs[v]

LEMMA JobsBecome ==
    ASSUME TypeOK, NEW w \in Workers
    PROVE  /\ \A job : Begin(w, job) \/ Proceed(w, job) => Becomes(w, job)
           /\ Finish(w) => Becomes(w, Idle)
           /\ UNCHANGED jobs => Becomes(w, jobs[w])
  BY DEF TypeOK, Becomes, Begin, Proceed, Finish

(* What an action of one worker has to do to keep the invariant            *)
LEMMA ActionKeepsInductive ==
    ASSUME Inductive, RowsKept, NEW w \in Workers, NEW job, Becomes(w, job),
           receipts' \in Seq(Receipt), transactions' \in Seq(Transaction), paid' \in 0 .. Total,
           bank' \in [Transfers -> Told],
           sepay' \in [Transfers -> {"none", "RECEIVED", "MATCHED", "CONFIRMED"}],
           restarts' \in Nat, overlap' = overlap,
           TypedJob(jobs[w])', JobSound(jobs[w])',
           ReceiptsSound', BankSound', TransfersSound', TransferPostedOnce'
    PROVE  Inductive'
<1>1. DOMAIN jobs' = Workers /\ jobs'[w] = job /\ \A v \in Workers \ {w} : jobs'[v] = jobs[v]
  BY DEF Becomes
<1>2. \A v \in Workers : TypedJob(jobs[v])' /\ JobSound(jobs[v])'
  <2> TAKE v \in Workers
  <2>1. CASE v = w
    BY <2>1
  <2>2. CASE v # w
    BY <1>1, <2>2, JobStays DEF Inductive, TypeOK, TypedJob, JobsSound
  <2> QED
    BY <2>1, <2>2
<1>3. TypeOK'
  BY <1>1, <1>2 DEF Inductive, TypeOK, TypedJob
<1> QED
  BY <1>2, <1>3 DEF Inductive, JobsSound

(* When no transaction is made for a transfer, and no request starts to be *)
(* the one that will make it                                               *)
LEMMA TransfersStay ==
    ASSUME Inductive, NEW w \in Workers, NEW job, Becomes(w, job),
           \A t \in Transfers : sepay[t] # "none" => sepay'[t] # "none",
           \A x \in DOMAIN transactions' :
              \/ transactions'[x].transfer = "none"
              \/ x \in DOMAIN transactions /\ transactions'[x].transfer = transactions[x].transfer,
           \A t \in Transfers \ {"none"} : Making(job, t) => Making(jobs[w], t)
    PROVE  TransfersSound' /\ TransferPostedOnce'
<1>1. DOMAIN jobs' = Workers /\ jobs'[w] = job /\ \A v \in Workers \ {w} : jobs'[v] = jobs[v]
  BY DEF Becomes
<1>2. ASSUME NEW t \in Transfers \ {"none"}
      PROVE  /\ Unmade(t) => Unmade(t)'
             /\ \A v \in Workers : Making(jobs[v], t)' => Making(jobs[v], t)
  BY <1>1 DEF Unmade, Making
<1>3. TransfersSound'
  BY <1>2 DEF Inductive, TransfersSound
<1>4. TransferPostedOnce'
  BY DEF Inductive, TransferPostedOnce
<1> QED
  BY <1>3, <1>4

(* When only the jobs and what the webhook noted change                    *)
LEMMA JobKeepsInductive ==
    ASSUME Inductive, UNCHANGED <<receipts, transactions, paid, bank, overlap>>, restarts' \in Nat,
           NEW w \in Workers, NEW job, Becomes(w, job),
           sepay' \in [Transfers -> {"none", "RECEIVED", "MATCHED", "CONFIRMED"}],
           TypedJob(job), JobSound(job), TransfersSound'
    PROVE  Inductive'
<1>1. jobs'[w] = job
  BY DEF Becomes
<1>2. TypedJob(jobs[w])' /\ JobSound(jobs[w])'
  BY <1>1 DEF TypedJob, RejectingOthers, JobSound, CopyOf, MadeFor, Posted
<1>3. RowsKept
  BY DEF RowsKept, Posted
<1>4. ReceiptsSound' /\ BankSound' /\ TransferPostedOnce'
  BY DEF Inductive, ReceiptsSound, ReceiptSound, MadeFor, Posted, BankSound, TransferPostedOnce
<1>5. /\ receipts' \in Seq(Receipt) /\ transactions' \in Seq(Transaction) /\ paid' \in 0 .. Total
      /\ bank' \in [Transfers -> Told]
  BY DEF Inductive, TypeOK
<1> QED
  BY <1>2, <1>3, <1>4, <1>5, ActionKeepsInductive

(* Who does nothing relies on nothing.                                     *)
LEMMA IdleIsJob ==
    /\ TypedJob(Idle) /\ JobSound(Idle) /\ TypedJob(Idle)' /\ JobSound(Idle)'
    /\ \A t : ~ Making(Idle, t)
<1>1. Idle \in Job /\ Idle.op = "idle"
  BY DEF Job, Idle
<1> QED
  BY <1>1 DEF TypedJob, JobSound, Making

(* What the receipts become when rows of them are rewritten                *)
LEMMA ReceiptsRewritten ==
    ASSUME Inductive, UNCHANGED <<transactions, bank>>, NEW after \in [DOMAIN receipts -> Receipt],
           receipts' = after,
           \A r \in DOMAIN receipts :
              \/ after[r] = receipts[r]
              \/ /\ after[r].amount = receipts[r].amount
                 /\ after[r].status # "SUBMITTED"
                 /\ ReceiptSound(after[r], r)
    PROVE  RowsKept /\ receipts' \in Seq(Receipt) /\ ReceiptsSound' /\ BankSound'
<1>1. DOMAIN receipts = 1 .. Len(receipts) /\ Len(receipts) \in Nat
  BY DEF Inductive, TypeOK
<1>2. receipts' \in Seq(Receipt) /\ DOMAIN receipts' = DOMAIN receipts
  <2>1. after \in [1 .. Len(receipts) -> Receipt]
    BY <1>1
  <2>2. after \in Seq(Receipt)
    BY <1>1, <2>1
  <2> QED
    BY <2>2
<1>3. RowsKept
  BY <1>2 DEF RowsKept, Posted
<1>4. ReceiptsSound' /\ BankSound'
  BY <1>2 DEF Inductive, ReceiptsSound, ReceiptSound, MadeFor, Posted, BankSound
<1> QED
  BY <1>2, <1>3, <1>4

Entered(amount, auto) ==
    [amount |-> amount, auto |-> auto, status |-> IF auto THEN "CONFIRMED" ELSE "SUBMITTED",
     transaction |-> 0]

(* What the receipts of buyers become when one is entered                  *)
LEMMA ReceiptEntered ==
    ASSUME Inductive, UNCHANGED <<transactions, bank>>, NEW amount \in Payments,
           NEW auto \in BOOLEAN, NEW row, row = Entered(amount, auto),
           receipts' = Append(receipts, row)
    PROVE  RowsKept /\ receipts' \in Seq(Receipt) /\ ReceiptsSound' /\ BankSound'
<1>1. row \in Receipt /\ row.transaction = 0 /\ (row.status = "CONFIRMED" => row.auto)
  <2>1. CASE auto
    BY <2>1 DEF Receipt, Entered
  <2>2. CASE ~ auto
    BY <2>2 DEF Receipt, Entered
  <2> QED
    BY <2>1, <2>2
<1>2. /\ receipts' \in Seq(Receipt)
      /\ DOMAIN receipts = 1 .. Len(receipts) /\ Len(receipts) \in Nat
      /\ DOMAIN receipts' = 1 .. Len(receipts) + 1
      /\ \A r \in DOMAIN receipts : receipts'[r] = receipts[r]
      /\ receipts'[Len(receipts) + 1] = row
  BY <1>1 DEF Inductive, TypeOK
<1>3. RowsKept
  BY <1>2 DEF RowsKept, Posted
<1>4. ReceiptsSound' /\ BankSound'
  BY <1>1, <1>2 DEF Inductive, ReceiptsSound, ReceiptSound, MadeFor, Posted, BankSound
<1> QED
  BY <1>2, <1>3, <1>4

(* What the transactions become when one is made, for a receipt or not     *)
LEMMA TransactionMade ==
    ASSUME Inductive, UNCHANGED <<receipts, bank>>, NEW row \in Transaction,
           transactions' = Append(transactions, row)
    PROVE  /\ RowsKept /\ transactions' \in Seq(Transaction) /\ ReceiptsSound' /\ BankSound'
           /\ DOMAIN transactions = 1 .. Len(transactions) /\ Len(transactions) \in Nat
           /\ DOMAIN transactions' = 1 .. Len(transactions) + 1
           /\ Len(transactions') = Len(transactions) + 1
           /\ \A x \in DOMAIN transactions : transactions'[x] = transactions[x]
           /\ transactions'[Len(transactions) + 1] = row
<1>1. /\ transactions' \in Seq(Transaction)
      /\ DOMAIN transactions = 1 .. Len(transactions) /\ Len(transactions) \in Nat
      /\ DOMAIN transactions' = 1 .. Len(transactions) + 1
      /\ Len(transactions') = Len(transactions) + 1
      /\ \A x \in DOMAIN transactions : transactions'[x] = transactions[x]
      /\ transactions'[Len(transactions) + 1] = row
  BY DEF Inductive, TypeOK
<1>2. RowsKept
  BY <1>1 DEF RowsKept, Posted
<1>3. ReceiptsSound' /\ BankSound'
  BY <1>1 DEF Inductive, ReceiptsSound, ReceiptSound, MadeFor, Posted, BankSound
<1> QED
  BY <1>1, <1>2, <1>3

(* A transaction that is received stays so, and pays no more than is owed. *)
LEMMA StatusUpdated ==
    ASSUME Inductive, UNCHANGED <<receipts, bank>>, NEW x \in DOMAIN transactions,
           NEW next \in {"RECEIVED", "PAID", "REJECTED", "CANCELLED", "PENDING"},
           UpdateStatus(x, next)
    PROVE  /\ RowsKept /\ transactions' \in Seq(Transaction) /\ ReceiptsSound' /\ BankSound'
           /\ paid' \in 0 .. Total
           /\ DOMAIN transactions' = DOMAIN transactions
           /\ \A y \in DOMAIN transactions : transactions'[y].transfer = transactions[y].transfer
           /\ transactions'[x].status = next
<1>1. /\ transactions \in Seq(Transaction) /\ transactions[x] \in Transaction
      /\ paid \in 0 .. Total
  BY DEF Inductive, TypeOK
<1>2. [transactions[x] EXCEPT !.status = next] \in Transaction
  BY <1>1 DEF Transaction
<1>3. transactions' = [transactions EXCEPT ![x] = [transactions[x] EXCEPT !.status = next]]
  BY DEF UpdateStatus
<1>4. /\ transactions' \in Seq(Transaction) /\ DOMAIN transactions' = DOMAIN transactions
      /\ \A y \in DOMAIN transactions \ {x} : transactions'[y] = transactions[y]
      /\ transactions'[x] = [transactions[x] EXCEPT !.status = next]
  BY <1>1, <1>2, <1>3
<1>5. transactions[x].status # "RECEIVED"
  BY DEF UpdateStatus, Transitions
<1>6. /\ transactions'[x].amount = transactions[x].amount
      /\ transactions'[x].receipt = transactions[x].receipt
      /\ transactions'[x].transfer = transactions[x].transfer
      /\ transactions'[x].status = next
  BY <1>1, <1>4 DEF Transaction
<1>7. RowsKept
  BY <1>4, <1>5, <1>6 DEF RowsKept, Posted
<1>8. paid' \in 0 .. Total
  <2>1. transactions[x].amount \in Nat
    BY <1>1, PaymentsAssumption DEF Transaction
  <2> QED
    BY <1>1, <2>1, TotalAssumption DEF UpdateStatus, AllocatedOf, Open
<1>9. ReceiptsSound' /\ BankSound'
  BY <1>4, <1>5, <1>6 DEF Inductive, ReceiptsSound, ReceiptSound, MadeFor, Posted, BankSound
<1> QED
  BY <1>4, <1>6, <1>7, <1>8, <1>9

(* What saving a copy leaves                                               *)
LEMMA SavedReceipt ==
    ASSUME NEW row \in Receipt, NEW read \in Receipt, NEW new \in Receipt,
           NEW after \in Saved(row, read, new)
    PROVE  /\ after \in Receipt
           /\ after.amount \in {new.amount, row.amount}
           /\ after.status = new.status \/ new.status = read.status
           /\ after.transaction = new.transaction \/ new.transaction = read.transaction
<1> DEFINE fields == [f \in DOMAIN row |-> IF new[f] # read[f] THEN new[f] ELSE row[f]]
<1>1. after = new \/ after = fields
  BY DEF Saved
<1>2. DOMAIN row = {"amount", "auto", "status", "transaction"}
  BY DEF Receipt
<1>3. fields = [amount |-> fields.amount, auto |-> fields.auto, status |-> fields.status,
                transaction |-> fields.transaction]
  BY <1>2
<1>4. /\ fields.amount \in {new.amount, row.amount}
      /\ fields.auto \in {new.auto, row.auto}
      /\ fields.status \in {new.status, row.status}
      /\ fields.transaction \in {new.transaction, row.transaction}
      /\ fields.status = new.status \/ new.status = read.status
      /\ fields.transaction = new.transaction \/ new.transaction = read.transaction
  BY <1>2
<1>5. fields \in Receipt
  BY <1>3, <1>4 DEF Receipt
<1> QED
  BY <1>1, <1>4, <1>5

(* What a review that begins knows                                         *)
LEMMA ReviewBegins ==
    ASSUME Inductive, NEW r \in DOMAIN receipts, Submitted(r),
           NEW transfer \in Transfers \cup {"none"}
    PROVE  /\ TypedJob(ReviewOf("create", r, transfer)) /\ JobSound(ReviewOf("create", r, transfer))
           /\ \A t : Making(ReviewOf("create", r, transfer), t) => t = transfer
           /\ TypedJob([op |-> "reject", receipt |-> r, read |-> receipts[r]])
           /\ JobSound([op |-> "reject", receipt |-> r, read |-> receipts[r]])
           /\ \A t : ~ Making([op |-> "reject", receipt |-> r, read |-> receipts[r]], t)
<1>1. receipts[r] \in Receipt /\ r \in Nat /\ Open \in Nat
  BY TotalAssumption DEF Inductive, TypeOK, Open
<1>2. CopyOf(receipts[r], r)
  BY DEF Inductive, ReceiptsSound, CopyOf, Submitted
<1> QED
  BY <1>1, <1>2 DEF ReviewOf, TypedJob, Job, Review, JobSound, Making

(* What a review knows once its transaction is made                        *)
LEMMA ReviewGoesOn ==
    ASSUME NEW review \in Review, NEW x \in Nat
    PROVE  LET next == [review EXCEPT !.op = "post", !.transaction = x]
           IN  /\ next \in Review /\ next.op = "post" /\ next.receipt = review.receipt
               /\ next.read = review.read /\ next.transaction = x
  BY DEF Review

-----------------------------------------------------------------------------
(* Every step keeps the invariant.                                         *)
LEMMA StepKeepsInductive == Inductive /\ [Next]_vars => Inductive'
<1> SUFFICES ASSUME Inductive, [Next]_vars PROVE Inductive'
  OBVIOUS
<1>t. /\ TypeOK /\ receipts \in Seq(Receipt) /\ transactions \in Seq(Transaction)
      /\ paid \in 0 .. Total /\ bank \in [Transfers -> Told] /\ restarts \in Nat
      /\ sepay \in [Transfers -> {"none", "RECEIVED", "MATCHED", "CONFIRMED"}]
      /\ TransfersSound
  BY DEF Inductive, TypeOK
<1>1. CASE UNCHANGED vars
  BY <1>1 DEF vars, Inductive, TypeOK, RejectingOthers, JobsSound, JobSound, CopyOf, MadeFor,
              Posted, ReceiptsSound, ReceiptSound, BankSound, TransfersSound, Making, Unmade,
              TransferPostedOnce
<1>2. ASSUME NEW t \in Transfers, NEW r \in DOMAIN receipts, NEW exact \in BOOLEAN,
             TransferMoney(t, r, exact), UNCHANGED <<restarts, overlap>>
      PROVE  Inductive'
  <2>1. /\ UNCHANGED <<receipts, transactions, paid, sepay, jobs>> /\ r \in Nat
        /\ bank[t].receipt = 0 /\ bank' = [bank EXCEPT ![t] = [receipt |-> r, exact |-> exact]]
    BY <1>2, <1>t DEF TransferMoney
  <2>2. bank' \in [Transfers -> Told]
    BY <1>t, <2>1 DEF Told
  <2>3. RowsKept
    BY <1>t, <2>1 DEF RowsKept, Posted
  <2>4. \A w \in Workers : TypedJob(jobs[w])' /\ JobSound(jobs[w])'
    BY <2>1, <2>3, JobStays DEF Inductive, TypeOK, TypedJob, JobsSound
  <2>5. ReceiptsSound' /\ BankSound' /\ TransfersSound' /\ TransferPostedOnce'
    BY <1>t, <2>1 DEF Inductive, ReceiptsSound, ReceiptSound, MadeFor, Posted, BankSound,
                      TransfersSound, Making, Unmade, TransferPostedOnce
  <2> QED
    BY <1>2, <1>t, <2>1, <2>2, <2>4, <2>5 DEF Inductive, TypeOK, TypedJob, JobsSound
<1>3. ASSUME NEW w \in Workers, Abandon(w), UNCHANGED overlap PROVE Inductive'
  <2>1. /\ UNCHANGED rows /\ Becomes(w, Idle) /\ restarts' \in Nat
    BY <1>3, <1>t, JobsBecome DEF Abandon
  <2>2. TransfersSound'
    BY <2>1, IdleIsJob, TransfersStay DEF rows
  <2> QED
    BY <1>3, <1>t, <2>1, <2>2, IdleIsJob, JobKeepsInductive DEF rows
<1>4. ASSUME NEW w \in Workers, NEW amount \in Payments, LookForDuplicate(w, amount),
             UNCHANGED <<restarts, overlap>>
      PROVE  Inductive'
  <2> DEFINE job == [op |-> "submit", amount |-> amount]
  <2>1. UNCHANGED rows /\ Becomes(w, job)
    BY <1>4, <1>t, JobsBecome DEF LookForDuplicate
  <2>2. TypedJob(job) /\ JobSound(job) /\ \A t : ~ Making(job, t)
    BY DEF TypedJob, Job, JobSound, Making
  <2> HIDE DEF job
  <2>3. TransfersSound'
    BY <2>1, <2>2, TransfersStay DEF rows
  <2> QED
    BY <1>4, <1>t, <2>1, <2>2, <2>3, JobKeepsInductive DEF rows
<1>5. ASSUME NEW w \in Workers, NEW amount \in Payments, EnterTransaction(w, amount),
             UNCHANGED <<restarts, overlap>>
      PROVE  Inductive'
  <2> DEFINE row == [amount |-> amount, status |-> "PENDING", receipt |-> 0, transfer |-> "none"]
  <2>1. /\ transactions' = Append(transactions, row)
        /\ UNCHANGED <<receipts, paid, bank, sepay, jobs>> /\ jobs[w] = Idle
    BY <1>5 DEF EnterTransaction, Free
  <2>2. row \in Transaction /\ row.transfer = "none"
    BY DEF Transaction
  <2> HIDE DEF row
  <2>3. /\ RowsKept /\ transactions' \in Seq(Transaction) /\ ReceiptsSound' /\ BankSound'
        /\ DOMAIN transactions = 1 .. Len(transactions) /\ Len(transactions) \in Nat
        /\ DOMAIN transactions' = 1 .. Len(transactions) + 1
        /\ \A x \in DOMAIN transactions : transactions'[x] = transactions[x]
        /\ transactions'[Len(transactions) + 1] = row
    BY <2>1, <2>2, TransactionMade
  <2>4. Becomes(w, Idle) /\ jobs'[w] = Idle
    BY <1>t, <2>1, JobsBecome
  <2>5. TransfersSound' /\ TransferPostedOnce'
    BY <2>1, <2>2, <2>3, <2>4, IdleIsJob, TransfersStay
  <2>6. TypedJob(jobs[w])' /\ JobSound(jobs[w])'
    BY <2>4, IdleIsJob DEF TypedJob, JobSound
  <2> QED
    BY <1>5, <1>t, <2>1, <2>3, <2>4, <2>5, <2>6, ActionKeepsInductive
<1>6. ASSUME NEW w \in Workers, NEW r \in DOMAIN receipts, ReadForReview(w, r),
             UNCHANGED <<restarts, overlap>>
      PROVE  Inductive'
  <2>1. PICK job \in {ReviewOf("create", r, "none"),
                      [op |-> "reject", receipt |-> r, read |-> receipts[r]]} : Begin(w, job)
    BY <1>6 DEF ReadForReview
  <2>2. UNCHANGED rows /\ Submitted(r) /\ Becomes(w, job)
    BY <1>6, <1>t, <2>1, JobsBecome DEF ReadForReview, Acceptable
  <2>3. TypedJob(job) /\ JobSound(job) /\ \A t \in Transfers \ {"none"} : ~ Making(job, t)
    <3>1. CASE job = ReviewOf("create", r, "none")
      BY <2>2, <3>1, ReviewBegins
    <3>2. CASE job = [op |-> "reject", receipt |-> r, read |-> receipts[r]]
      BY <2>2, <3>2, ReviewBegins
    <3> QED
      BY <2>1, <3>1, <3>2
  <2>4. TransfersSound'
    BY <2>2, <2>3, TransfersStay DEF rows
  <2> QED
    BY <1>6, <1>t, <2>2, <2>3, <2>4, JobKeepsInductive DEF rows
<1>7. ASSUME NEW w \in Workers, NEW x \in DOMAIN transactions,
             NEW next \in {"RECEIVED", "PAID", "REJECTED", "CANCELLED", "PENDING"},
             UpdateTransactionStatus(w, x, next), UNCHANGED <<restarts, overlap>>
      PROVE  Inductive'
  <2>1. /\ UpdateStatus(x, next) /\ UNCHANGED <<receipts, bank, sepay, jobs>> /\ jobs[w] = Idle
    BY <1>7 DEF UpdateTransactionStatus, Free
  <2>2. /\ RowsKept /\ transactions' \in Seq(Transaction) /\ ReceiptsSound' /\ BankSound'
        /\ paid' \in 0 .. Total /\ DOMAIN transactions' = DOMAIN transactions
        /\ \A y \in DOMAIN transactions : transactions'[y].transfer = transactions[y].transfer
    BY <2>1, StatusUpdated
  <2>3. Becomes(w, Idle) /\ jobs'[w] = Idle
    BY <1>t, <2>1, JobsBecome
  <2>4. TransfersSound' /\ TransferPostedOnce'
    BY <2>1, <2>2, <2>3, IdleIsJob, TransfersStay
  <2>5. TypedJob(jobs[w])' /\ JobSound(jobs[w])'
    BY <2>3, IdleIsJob DEF TypedJob, JobSound
  <2> QED
    BY <1>7, <1>t, <2>1, <2>2, <2>3, <2>4, <2>5, ActionKeepsInductive
<1>8. ASSUME NEW w \in Workers, NEW t \in Transfers, Deliver(w, t), UNCHANGED <<restarts, overlap>>
      PROVE  Inductive'
  <2> DEFINE job == [op |-> "record", transfer |-> t]
  <2>1. UNCHANGED rows /\ Becomes(w, job) /\ bank[t].receipt # 0
    BY <1>8, <1>t, JobsBecome DEF Deliver
  <2>2. TypedJob(job) /\ JobSound(job) /\ \A u : ~ Making(job, u)
    BY <2>1 DEF TypedJob, Job, JobSound, Making
  <2> HIDE DEF job
  <2>3. TransfersSound'
    BY <2>1, <2>2, TransfersStay DEF rows
  <2> QED
    BY <1>8, <1>t, <2>1, <2>2, <2>3, JobKeepsInductive DEF rows
<1>9. ASSUME NEW w \in Workers, Serve(w), UNCHANGED <<restarts, overlap>> PROVE Inductive'
  <2>1. CASE CreatePaymentReceipt(w)
    <3>1. jobs[w].amount \in Payments
      <4>1. jobs[w].op = "submit" /\ jobs[w] \in Job
        BY <1>t, <2>1 DEF CreatePaymentReceipt, TypeOK, RejectingOthers
      <4>2. jobs[w] \notin Review /\ jobs[w] # Idle
        BY <4>1 DEF Review, Idle
      <4> QED
        BY <4>1, <4>2 DEF Job
    <3>a. PICK auto, row : /\ auto \in BOOLEAN
                           /\ row = Entered(jobs[w].amount, auto)
                           /\ receipts' = Append(receipts, row)
      BY <2>1 DEF CreatePaymentReceipt, Entered
    <3>2. /\ RowsKept /\ receipts' \in Seq(Receipt) /\ ReceiptsSound' /\ BankSound'
          /\ UNCHANGED <<transactions, paid, bank, sepay>> /\ Becomes(w, Idle)
      <4>1. UNCHANGED <<transactions, paid, bank, sepay>> /\ Becomes(w, Idle)
        BY <1>t, <2>1, JobsBecome DEF CreatePaymentReceipt
      <4> QED
        BY <1>t, <3>1, <3>a, <4>1, ReceiptEntered
    <3>3. TransfersSound' /\ TransferPostedOnce'
      BY <3>2, IdleIsJob, TransfersStay
    <3>4. TypedJob(jobs[w])' /\ JobSound(jobs[w])'
      BY <3>2, IdleIsJob DEF TypedJob, JobSound, Becomes
    <3> QED
      BY <1>9, <1>t, <3>2, <3>3, <3>4, ActionKeepsInductive
  <2>2. CASE Record(w)
    <3> DEFINE t == jobs[w].transfer
               job == [op |-> "match", transfer |-> t]
    <3>1. /\ t \in Transfers /\ bank[t].receipt # 0
      BY <1>t, <2>2 DEF Record, TypeOK, Job, Review, RejectingOthers, Idle, Inductive, JobsSound, JobSound
    <3>2. CASE UNCHANGED sepay /\ Finish(w)
      <4>1. UNCHANGED rows /\ Becomes(w, Idle)
        BY <1>t, <2>2, <3>2, JobsBecome DEF Record, rows
      <4>2. TransfersSound'
        BY <4>1, IdleIsJob, TransfersStay DEF rows
      <4> QED
        BY <1>9, <1>t, <4>1, <4>2, IdleIsJob, JobKeepsInductive DEF rows
    <3>3. CASE Recordable(t) /\ sepay' = [sepay EXCEPT ![t] = "RECEIVED"] /\ Proceed(w, job)
      <4>1. /\ UNCHANGED <<receipts, transactions, paid, bank>> /\ Becomes(w, job)
            /\ sepay[t] = "none"
        BY <1>t, <2>2, <3>3, JobsBecome DEF Record, Recordable
      <4>2. /\ TypedJob(job) /\ JobSound(job) /\ \A u : Making(job, u) => u = t
        BY <3>1 DEF TypedJob, Job, JobSound, Making
      <4> HIDE DEF job
      <4>3. ASSUME NEW u \in Transfers \ {"none"}
            PROVE  /\ Unmade(u)' <=> Unmade(u)
                   /\ sepay'[u] = "none" => sepay[u] = "none"
                   /\ \A v \in Workers : Making(jobs[v], u)' =>
                         Making(jobs[v], u) \/ (v = w /\ u = t)
        BY <4>1, <4>2, <3>3, <1>t DEF Unmade, Becomes, Making
      <4>4. sepay'[t] # "none" /\ \A v \in Workers : t # "none" => ~ Making(jobs[v], t)
        BY <4>1, <3>1, <3>3, <1>t DEF TransfersSound
      <4>5. \A u \in Transfers : sepay[u] # "none" => sepay'[u] # "none"
        BY <3>1, <3>3, <1>t
      <4>6. TransfersSound'
        BY <4>1, <4>3, <4>4, <4>5, <1>t DEF TransfersSound
      <4> QED
        BY <1>9, <1>t, <3>1, <3>3, <4>1, <4>2, <4>6, JobKeepsInductive
    <3> QED
      BY <2>2, <3>2, <3>3 DEF Record
  <2>3. CASE Match(w)
    <3> DEFINE t == jobs[w].transfer
               r == bank[t].receipt
    <3>1. /\ t \in Transfers /\ r \in DOMAIN receipts /\ jobs[w].op = "match"
      BY <1>t, <2>3 DEF Match, TypeOK, Job, Review, RejectingOthers, Idle, Inductive, JobsSound,
                       JobSound, BankSound
    <3>2. CASE Acceptable(r) /\ Proceed(w, ReviewOf("create", r, t)) /\ UNCHANGED sepay
      <4> DEFINE job == ReviewOf("create", r, t)
      <4>1. /\ UNCHANGED <<receipts, transactions, paid, bank, sepay>> /\ Becomes(w, job)
            /\ Submitted(r)
        BY <1>t, <2>3, <3>2, JobsBecome DEF Match, Acceptable
      <4>2. TypedJob(job) /\ JobSound(job) /\ \A u : Making(job, u) => u = t
        BY <3>1, <4>1, ReviewBegins
      <4> HIDE DEF job
      <4>3. \A u : Making(job, u) => Making(jobs[w], u)
        BY <3>1, <4>2 DEF Making
      <4>4. TransfersSound'
        BY <4>1, <4>3, TransfersStay
      <4> QED
        BY <1>9, <1>t, <4>1, <4>2, <4>4, JobKeepsInductive
    <3>3. CASE Finish(w) /\ sepay' \in {sepay, [sepay EXCEPT ![t] = "MATCHED"]}
      <4>1. UNCHANGED <<receipts, transactions, paid, bank>> /\ Becomes(w, Idle)
        BY <1>t, <2>3, <3>3, JobsBecome DEF Match
      <4>2. /\ sepay' \in [Transfers -> {"none", "RECEIVED", "MATCHED", "CONFIRMED"}]
            /\ \A u \in Transfers : sepay[u] # "none" => sepay'[u] # "none"
        BY <1>t, <3>3
      <4>3. TransfersSound'
        BY <4>1, <4>2, IdleIsJob, TransfersStay
      <4> QED
        BY <1>9, <1>t, <4>1, <4>2, <4>3, IdleIsJob, JobKeepsInductive
    <3>4. [sepay EXCEPT ![t] = sepay[t]] = sepay
      BY <1>t
    <3> QED
      BY <2>3, <3>2, <3>3, <3>4 DEF Match
  <2>4. CASE CreateTransaction(w)
    <3> DEFINE job == jobs[w]
               row == [amount |-> job.read.amount, status |-> "PENDING", receipt |-> job.receipt,
                       transfer |-> job.transfer]
               next == [job EXCEPT !.op = "post", !.transaction = Len(transactions')]
    <3>1. /\ job \in Review /\ job.op = "create" /\ CopyOf(job.read, job.receipt)
      BY <1>t, <2>4 DEF CreateTransaction, TypeOK, Job, RejectingOthers, Idle, Inductive, JobsSound,
                       JobSound
    <3>2. /\ transactions' = Append(transactions, row) /\ Becomes(w, next)
          /\ UNCHANGED <<receipts, paid, bank, sepay>>
      BY <1>t, <2>4, JobsBecome DEF CreateTransaction
    <3>3. /\ row \in Transaction /\ row.transfer = job.transfer /\ row.receipt = job.receipt
          /\ row.amount = job.read.amount
      BY <3>1 DEF Review, Receipt, Transaction
    <3> HIDE DEF row
    <3>4. /\ RowsKept /\ transactions' \in Seq(Transaction) /\ ReceiptsSound' /\ BankSound'
          /\ DOMAIN transactions = 1 .. Len(transactions) /\ Len(transactions) \in Nat
          /\ DOMAIN transactions' = 1 .. Len(transactions) + 1
          /\ Len(transactions') = Len(transactions) + 1
          /\ \A x \in DOMAIN transactions : transactions'[x] = transactions[x]
          /\ transactions'[Len(transactions) + 1] = row
      BY <3>2, <3>3, TransactionMade
    <3>5. /\ next \in Review /\ next.op = "post" /\ next.receipt = job.receipt
          /\ next.read = job.read /\ next.transaction = Len(transactions) + 1
      <4>1. Len(transactions') = Len(transactions) + 1 /\ Len(transactions) + 1 \in Nat
        BY <3>4
      <4>2. next = [job EXCEPT !.op = "post", !.transaction = Len(transactions) + 1]
        BY <4>1
      <4> HIDE DEF next
      <4> QED
        BY <3>1, <4>1, <4>2, ReviewGoesOn
    <3> HIDE DEF next
    <3>6. jobs'[w] = next
      BY <3>2 DEF Becomes
    <3>7. TypedJob(jobs[w])'
      BY <3>5, <3>6 DEF TypedJob, Job
    <3>8. JobSound(jobs[w])'
      BY <3>1, <3>2, <3>3, <3>4, <3>5, <3>6 DEF JobSound, CopyOf, MadeFor
    <3>9. ASSUME NEW t \in Transfers \ {"none"}
          PROVE  /\ Unmade(t) /\ t # job.transfer => Unmade(t)'
                 /\ \A v \in Workers : Making(jobs[v], t)' => Making(jobs[v], t) /\ v # w
                 /\ t = job.transfer => Making(jobs[w], t)
      BY <3>1, <3>2, <3>3, <3>4, <3>5, <3>6 DEF Unmade, Becomes, Making
    <3>10. TransfersSound'
      BY <1>t, <3>2, <3>9 DEF TransfersSound
    <3>11. TransferPostedOnce'
      <4>1. job.transfer # "none" => job.transfer \in Transfers \ {"none"} /\ Unmade(job.transfer)
        BY <1>t, <3>1, <3>9 DEF Review, TransfersSound
      <4>2. ASSUME NEW x \in DOMAIN transactions', NEW y \in DOMAIN transactions',
                   transactions'[x].transfer = transactions'[y].transfer,
                   transactions'[x].transfer # "none"
            PROVE  x = y
        <5>1. CASE x \in DOMAIN transactions /\ y \in DOMAIN transactions
          BY <3>4, <4>2, <5>1 DEF Inductive, TransferPostedOnce
        <5>2. CASE x = Len(transactions) + 1 \/ y = Len(transactions) + 1
          BY <3>3, <3>4, <4>1, <4>2, <5>2 DEF Unmade
        <5> QED
          BY <3>4, <5>1, <5>2
      <4> QED
        BY <4>2 DEF TransferPostedOnce
    <3> QED
      BY <1>9, <1>t, <3>2, <3>4, <3>7, <3>8, <3>10, <3>11, ActionKeepsInductive
  <2>5. CASE PostTransaction(w)
    <3> DEFINE x == jobs[w].transaction
               next == [jobs[w] EXCEPT !.op = "confirm"]
    <3>1. /\ jobs[w] \in Review /\ jobs[w].op = "post" /\ JobSound(jobs[w])
      BY <1>t, <2>5 DEF PostTransaction, TypeOK, Job, RejectingOthers, Idle, Inductive, JobsSound
    <3>2. /\ CopyOf(jobs[w].read, jobs[w].receipt) /\ MadeFor(x, jobs[w].receipt, jobs[w].read.amount)
          /\ x \in DOMAIN transactions
      BY <3>1 DEF JobSound, MadeFor
    <3>3. /\ UpdateStatus(x, "RECEIVED") /\ Becomes(w, next) /\ UNCHANGED <<receipts, bank, sepay>>
      BY <1>t, <2>5, JobsBecome DEF PostTransaction
    <3>4. /\ next \in Review /\ next.op = "confirm" /\ next.receipt = jobs[w].receipt
          /\ next.read = jobs[w].read /\ next.transaction = x
      BY <3>1 DEF Review
    <3> HIDE DEF next
    <3>5. /\ RowsKept /\ transactions' \in Seq(Transaction) /\ ReceiptsSound' /\ BankSound'
          /\ paid' \in 0 .. Total
          /\ DOMAIN transactions' = DOMAIN transactions
          /\ \A y \in DOMAIN transactions : transactions'[y].transfer = transactions[y].transfer
          /\ transactions'[x].status = "RECEIVED"
      BY <3>2, <3>3, StatusUpdated
    <3>6. TransfersSound' /\ TransferPostedOnce'
      BY <3>3, <3>4, <3>5, TransfersStay DEF Making
    <3>7. jobs'[w] = next
      BY <3>3 DEF Becomes
    <3>8. TypedJob(jobs[w])'
      BY <3>4, <3>7 DEF TypedJob, Job
    <3>9. JobSound(jobs[w])'
      BY <3>2, <3>3, <3>4, <3>5, <3>7 DEF JobSound, CopyOf, MadeFor, Posted, RowsKept
    <3> QED
      BY <1>9, <1>t, <3>3, <3>5, <3>6, <3>8, <3>9, ActionKeepsInductive
  <2>6. CASE PostingRefused(w)
    <3>1. UNCHANGED rows /\ Becomes(w, Idle)
      BY <1>t, <2>6, JobsBecome DEF PostingRefused
    <3>2. TransfersSound'
      BY <3>1, IdleIsJob, TransfersStay DEF rows
    <3> QED
      BY <1>9, <1>t, <3>1, <3>2, IdleIsJob, JobKeepsInductive DEF rows
  <2>7. CASE SaveConfirmed(w)
    <3> DEFINE r == jobs[w].receipt
               read == jobs[w].read
               x == jobs[w].transaction
               new == Confirmed(read, x)
               others == {o \in DOMAIN receipts \ {r} : read.amount >= jobs[w].open /\ Submitted(o)}
               next == [op |-> "rejectOthers", transfer |-> jobs[w].transfer,
                        copies |-> [o \in others |-> receipts[o]]]
    <3>1. /\ jobs[w] \in Review /\ CopyOf(read, r) /\ MadeFor(x, r, read.amount) /\ Posted(x)
      BY <1>t, <2>7 DEF SaveConfirmed, TypeOK, Job, RejectingOthers, Idle, Inductive, JobsSound,
                       JobSound
    <3>2. /\ read \in Receipt /\ r \in DOMAIN receipts /\ receipts[r] \in Receipt
          /\ x \in Nat \ {0} /\ jobs[w].transfer \in Transfers \cup {"none"}
      BY <1>t, <3>1 DEF Review, CopyOf, MadeFor
    <3>3. PICK row \in Saved(receipts[r], read, new) : receipts' = [receipts EXCEPT ![r] = row]
      BY <2>7 DEF SaveConfirmed
    <3>4. /\ new \in Receipt /\ new.amount = receipts[r].amount /\ new.status = "CONFIRMED"
          /\ new.transaction = x /\ read.status = "SUBMITTED" /\ read.transaction = 0
      BY <3>1, <3>2 DEF Receipt, CopyOf, Confirmed
    <3> HIDE DEF new
    <3>5. /\ row \in Receipt /\ row.amount = receipts[r].amount /\ row.status = "CONFIRMED"
          /\ row.transaction = x
      BY <3>2, <3>4, SavedReceipt
    <3>6. UNCHANGED <<transactions, paid, bank, sepay>> /\ Becomes(w, next)
      BY <1>t, <2>7, JobsBecome DEF SaveConfirmed
    <3> DEFINE after == [receipts EXCEPT ![r] = row]
    <3>7. /\ after \in [DOMAIN receipts -> Receipt] /\ after[r] = row
          /\ \A o \in DOMAIN receipts \ {r} : after[o] = receipts[o]
      BY <1>t, <3>2, <3>5
    <3>8. receipts' = after
      BY <3>3
    <3> HIDE DEF after
    <3>9. ReceiptSound(row, r)
      BY <3>1, <3>5 DEF ReceiptSound, CopyOf
    <3>10. /\ RowsKept /\ receipts' \in Seq(Receipt) /\ ReceiptsSound' /\ BankSound'
           /\ DOMAIN receipts' = DOMAIN receipts
      BY <3>5, <3>6, <3>7, <3>8, <3>9, ReceiptsRewritten
    <3>11. /\ next.op = "rejectOthers" /\ next.transfer = jobs[w].transfer
           /\ next.copies = [o \in others |-> receipts[o]]
      OBVIOUS
    <3> HIDE DEF next
    <3>12. TransfersSound' /\ TransferPostedOnce'
      BY <3>6, <3>11, TransfersStay DEF Making
    <3>13. jobs'[w] = next
      BY <3>6 DEF Becomes
    <3>14. \A o \in DOMAIN next.copies :
              /\ o \in DOMAIN receipts /\ next.copies[o] = receipts[o] /\ receipts[o] \in Receipt
              /\ CopyOf(receipts[o], o)
      BY <1>t, <3>11 DEF Submitted, CopyOf, Inductive, ReceiptsSound
    <3>15. TypedJob(jobs[w])'
      BY <3>2, <3>10, <3>11, <3>13, <3>14 DEF TypedJob, RejectingOthers
    <3>16. JobSound(jobs[w])'
      BY <3>10, <3>11, <3>13, <3>14, ZenonT(30) DEF JobSound, CopyOf, RowsKept
    <3> QED
      BY <1>9, <1>t, <3>6, <3>10, <3>12, <3>15, <3>16, ActionKeepsInductive
  <2>8. CASE RejectOthers(w)
    <3> DEFINE copies == jobs[w].copies
    <3>1. \A r \in DOMAIN copies :
             r \in DOMAIN receipts /\ copies[r] \in Receipt /\ CopyOf(copies[r], r)
      BY <1>t, <2>8 DEF RejectOthers, TypeOK, Job, Review, RejectingOthers, Idle, Inductive, JobsSound,
                       JobSound
    <3>2. PICK whole \in SUBSET DOMAIN copies :
             receipts' = [r \in DOMAIN receipts |->
                 IF r \in whole THEN [copies[r] EXCEPT !.status = "REJECTED"]
                 ELSE IF r \in DOMAIN copies THEN [receipts[r] EXCEPT !.status = "REJECTED"]
                 ELSE receipts[r]]
      BY <2>8 DEF RejectOthers
    <3>3. /\ UNCHANGED <<transactions, paid, bank>> /\ Becomes(w, Idle)
          /\ sepay' = [t \in Transfers |-> IF t = jobs[w].transfer THEN "CONFIRMED" ELSE sepay[t]]
      BY <1>t, <2>8, JobsBecome DEF RejectOthers
    <3>4. ASSUME NEW r \in DOMAIN receipts
          PROVE  /\ receipts'[r] \in Receipt
                 /\ \/ receipts'[r] = receipts[r]
                    \/ /\ receipts'[r].amount = receipts[r].amount
                       /\ receipts'[r].status = "REJECTED"
      <4>1. receipts[r] \in Receipt
        BY <1>t
      <4>2. CASE r \in whole
        <5>1. /\ receipts'[r] = [copies[r] EXCEPT !.status = "REJECTED"]
              /\ copies[r] \in Receipt /\ copies[r].amount = receipts[r].amount
          BY <3>1, <3>2, <4>2 DEF CopyOf
        <5> QED
          BY <5>1 DEF Receipt
      <4>3. CASE r \in DOMAIN copies \ whole
        <5>1. receipts'[r] = [receipts[r] EXCEPT !.status = "REJECTED"]
          BY <3>2, <4>3
        <5> QED
          BY <4>1, <5>1 DEF Receipt
      <4>4. CASE r \notin DOMAIN copies
        BY <3>2, <4>1, <4>4
      <4> QED
        BY <4>2, <4>3, <4>4
    <3> DEFINE after == [r \in DOMAIN receipts |-> receipts'[r]]
    <3>5. receipts' = after /\ after \in [DOMAIN receipts -> Receipt]
      BY <3>2, <3>4
    <3>6. \A r \in DOMAIN receipts : after[r] = receipts'[r]
      OBVIOUS
    <3> HIDE DEF after
    <3>7. RowsKept /\ receipts' \in Seq(Receipt) /\ ReceiptsSound' /\ BankSound'
      BY <3>3, <3>4, <3>5, <3>6, ReceiptsRewritten DEF ReceiptSound
    <3>8. /\ sepay' \in [Transfers -> {"none", "RECEIVED", "MATCHED", "CONFIRMED"}]
          /\ \A t \in Transfers : sepay[t] # "none" => sepay'[t] # "none"
      BY <1>t, <3>3
    <3>9. TransfersSound' /\ TransferPostedOnce'
      BY <3>3, <3>8, IdleIsJob, TransfersStay
    <3>10. TypedJob(jobs[w])' /\ JobSound(jobs[w])'
      BY <3>3, IdleIsJob DEF TypedJob, JobSound, Becomes
    <3> QED
      BY <1>9, <1>t, <3>3, <3>7, <3>8, <3>9, <3>10, ActionKeepsInductive
  <2>9. CASE SaveRejected(w)
    <3> DEFINE r == jobs[w].receipt
               read == jobs[w].read
               new == [read EXCEPT !.status = "REJECTED"]
    <3>1. /\ CopyOf(read, r) /\ read \in Receipt /\ r \in DOMAIN receipts
          /\ receipts[r] \in Receipt
      BY <1>t, <2>9 DEF SaveRejected, TypeOK, Job, Review, RejectingOthers, Idle, Inductive, JobsSound,
                       JobSound, CopyOf
    <3>2. PICK row \in Saved(receipts[r], read, new) : receipts' = [receipts EXCEPT ![r] = row]
      BY <2>9 DEF SaveRejected
    <3>3. /\ new \in Receipt /\ new.amount = receipts[r].amount /\ new.status = "REJECTED"
          /\ read.status = "SUBMITTED"
      BY <3>1 DEF Receipt, CopyOf
    <3> HIDE DEF new
    <3>4. row \in Receipt /\ row.amount = receipts[r].amount /\ row.status = "REJECTED"
      BY <3>1, <3>3, SavedReceipt
    <3>5. UNCHANGED <<transactions, paid, bank, sepay>> /\ Becomes(w, Idle)
      BY <1>t, <2>9, JobsBecome DEF SaveRejected
    <3> DEFINE after == [receipts EXCEPT ![r] = row]
    <3>6. /\ after \in [DOMAIN receipts -> Receipt] /\ after[r] = row
          /\ \A o \in DOMAIN receipts \ {r} : after[o] = receipts[o]
      BY <1>t, <3>1, <3>4
    <3>7. receipts' = after
      BY <3>2
    <3> HIDE DEF after
    <3>8. /\ RowsKept /\ receipts' \in Seq(Receipt) /\ ReceiptsSound' /\ BankSound'
      BY <3>4, <3>5, <3>6, <3>7, ReceiptsRewritten DEF ReceiptSound
    <3>9. TransfersSound' /\ TransferPostedOnce'
      BY <3>5, IdleIsJob, TransfersStay
    <3>10. TypedJob(jobs[w])' /\ JobSound(jobs[w])'
      BY <3>5, IdleIsJob DEF TypedJob, JobSound, Becomes
    <3> QED
      BY <1>9, <1>t, <3>5, <3>8, <3>9, <3>10, ActionKeepsInductive
  <2> QED
    BY <1>9, <2>1, <2>2, <2>3, <2>4, <2>5, <2>6, <2>7, <2>8, <2>9 DEF Serve
<1>10. CASE Next
  BY <1>2, <1>3, <1>4, <1>5, <1>6, <1>7, <1>8, <1>9, <1>10 DEF Next, Step, Arrive
<1> QED
  BY <1>1, <1>10

-----------------------------------------------------------------------------
(* The inductive invariant: typing, what the requests in progress know, and*)
(* that one request at most makes the transaction of a transfer.           *)
THEOREM PortalInvariant == Spec => []Inductive
  BY InitInductive, StepKeepsInductive, PTL DEF Spec

(* Receipts, transactions and requests in progress stay well typed: the    *)
(* receivable is never paid more than it is for (AllocatedOf).             *)
THEOREM PortalTypeCorrect == Spec => []TypeOK
<1>1. Inductive => TypeOK
  BY DEF Inductive
<1> QED
  BY <1>1, PortalInvariant, PTL

(* A bank transfer posts money once, however often its webhook is delivered*)
(* and whatever stops half-way (handleWebhook).                            *)
THEOREM TransferPostedOnceHolds == Spec => []TransferPostedOnce
<1>1. Inductive => TransferPostedOnce
  BY DEF Inductive
<1> QED
  BY <1>1, PortalInvariant, PTL

(* A receipt that was reviewed and confirmed names a transaction of its own*)
(* that posted its amount, however stale the copy it was saved from        *)
(* (reviewPaymentReceipt).                                                 *)
THEOREM ConfirmedIsPostedHolds == Spec => []ConfirmedIsPosted
<1>1. Inductive => ConfirmedIsPosted
  BY DEF Inductive, ReceiptsSound, ReceiptSound, MadeFor, Posted, ConfirmedIsPosted, PostedFor
<1> QED
  BY <1>1, PortalInvariant, PTL

-----------------------------------------------------------------------------
(* Requests served one at a time: how often a receipt is posted            *)

MadeOf(r) == {x \in DOMAIN transactions : transactions[x].receipt = r}

(* The request has made its transaction and has not saved the receipt yet. *)
Between(job, r) == job.op \in {"post", "confirm"} /\ job.receipt = r

(* Every transaction made for a receipt that still waits is one of a stop  *)
(* half-way, but that of the request that is at it.                        *)
CountsOK ==
    \A r \in DOMAIN receipts :
        /\ Cardinality(MadeOf(r)) <= 1 + restarts
        /\ Submitted(r) /\ (\A w \in Workers : ~ Between(jobs[w], r)) =>
              Cardinality(MadeOf(r)) <= restarts

(* What the request in progress has read and made is still so.             *)
JobCurrent(job) ==
    /\ job.op = "create" => Submitted(job.receipt)
    /\ job.op = "post" => transactions[job.transaction].status = "PENDING"

MadeForKnown == \A x \in DOMAIN transactions : transactions[x].receipt \in 0 .. Len(receipts)

Current ==
    /\ \A v, w \in Workers : jobs[v] # Idle /\ jobs[w] # Idle => v = w
    /\ CountsOK /\ MadeForKnown
    /\ \A w \in Workers : JobCurrent(jobs[w])

Serial == ~ overlap => Current

LEMMA MadeFinite ==
    ASSUME Inductive, NEW r
    PROVE  /\ IsFiniteSet(MadeOf(r)) /\ Cardinality(MadeOf(r)) \in Nat
           /\ Cardinality(PostedFor(r)) \in Nat /\ Cardinality(PostedFor(r)) <= Cardinality(MadeOf(r))
<1>1. /\ DOMAIN transactions = 1 .. Len(transactions) /\ 1 \in Int /\ Len(transactions) \in Int
      /\ MadeOf(r) \in SUBSET DOMAIN transactions /\ PostedFor(r) \in SUBSET MadeOf(r)
  BY DEF Inductive, TypeOK, MadeOf, PostedFor
<1>2. IsFiniteSet(DOMAIN transactions)
  BY <1>1, FS_Interval
<1>3. IsFiniteSet(MadeOf(r))
  BY <1>1, <1>2, FS_Subset
<1>4. IsFiniteSet(PostedFor(r)) /\ Cardinality(PostedFor(r)) <= Cardinality(MadeOf(r))
  BY <1>1, <1>3, FS_Subset
<1> QED
  BY <1>3, <1>4, FS_CardinalityType

(* What an action of the one request in progress has to do to keep Current *)
(* when it makes no transaction for a receipt                              *)
LEMMA RequestKeepsCurrent ==
    ASSUME Inductive, Current, NEW w \in Workers, NEW job, Becomes(w, job),
           \A v \in Workers \ {w} : jobs[v] = Idle,
           restarts' = restarts, receipts' \in Seq(Receipt),
           \A r \in Nat \ {0} : MadeOf(r)' = MadeOf(r), MadeForKnown',
           DOMAIN receipts \subseteq DOMAIN receipts',
           \A r \in DOMAIN receipts : Submitted(r)' =>
              Submitted(r) /\ (Between(jobs[w], r) => Between(job, r)),
           JobCurrent(jobs[w])'
    PROVE  Current'
<1>1. jobs'[w] = job /\ \A v \in Workers \ {w} : jobs'[v] = Idle
  BY DEF Becomes
<1>2. \A r \in DOMAIN receipts' : r \in Nat \ {0}
  OBVIOUS
<1>3. ASSUME NEW r \in DOMAIN receipts'
      PROVE  /\ Cardinality(MadeOf(r))' <= 1 + restarts
             /\ Submitted(r)' /\ (\A v \in Workers : ~ Between(jobs'[v], r)) =>
                   Cardinality(MadeOf(r))' <= restarts
  <2>1. Cardinality(MadeOf(r))' = Cardinality(MadeOf(r)) /\ restarts \in Nat
    BY <1>2 DEF Inductive, TypeOK
  <2>2. CASE r \in DOMAIN receipts
    <3>1. ASSUME Submitted(r)', \A v \in Workers : ~ Between(jobs'[v], r)
          PROVE  Submitted(r) /\ \A v \in Workers : ~ Between(jobs[v], r)
      BY <1>1, <2>2, <3>1 DEF Between, Idle
    <3> QED
      BY <2>1, <2>2, <3>1 DEF Current, CountsOK
  <2>3. CASE r \notin DOMAIN receipts
    <3>1. MadeOf(r) = {}
      BY <1>2, <2>3 DEF Current, MadeForKnown, MadeOf, Inductive, TypeOK
    <3> QED
      BY <2>1, <3>1, FS_EmptySet
  <2> QED
    BY <2>2, <2>3
<1>4. CountsOK'
  BY <1>3 DEF CountsOK
<1>5. \A v \in Workers : JobCurrent(jobs[v])'
  BY <1>1 DEF JobCurrent, Idle
<1>6. \A u, v \in Workers : jobs'[u] # Idle /\ jobs'[v] # Idle => u = v
  BY <1>1
<1> QED
  BY <1>4, <1>5, <1>6 DEF Current

(* The same when only the jobs change, or what the webhook noted           *)
LEMMA JobKeepsCurrent ==
    ASSUME Inductive, Current, NEW w \in Workers, NEW job, Becomes(w, job),
           \A v \in Workers \ {w} : jobs[v] = Idle,
           UNCHANGED <<receipts, transactions, restarts>>,
           \A r : ~ Between(jobs[w], r), JobCurrent(job)
    PROVE  Current'
<1>1. /\ receipts' \in Seq(Receipt) /\ MadeForKnown' /\ \A r : MadeOf(r)' = MadeOf(r)
      /\ \A r : Submitted(r)' => Submitted(r)
  BY DEF Inductive, TypeOK, Current, MadeForKnown, MadeOf, Submitted
<1>2. JobCurrent(jobs[w])'
  BY DEF Becomes, JobCurrent, Submitted
<1> QED
  BY <1>1, <1>2, RequestKeepsCurrent

(* The same when receipts are rewritten, and nothing else                  *)
LEMMA ReceiptsKeepCurrent ==
    ASSUME Inductive, Current, NEW w \in Workers, NEW job, Becomes(w, job),
           \A v \in Workers \ {w} : jobs[v] = Idle,
           UNCHANGED <<transactions, restarts>>, receipts' \in Seq(Receipt),
           DOMAIN receipts' = DOMAIN receipts,
           \A r \in DOMAIN receipts : Submitted(r)' => Submitted(r) /\ ~ Between(jobs[w], r),
           job.op \notin {"create", "post"}
    PROVE  Current'
<1>1. Len(receipts') = Len(receipts)
  BY DEF Inductive, TypeOK
<1>2. MadeForKnown' /\ \A r : MadeOf(r)' = MadeOf(r)
  BY <1>1 DEF Current, MadeForKnown, MadeOf
<1>3. JobCurrent(jobs[w])'
  BY DEF Becomes, JobCurrent
<1> QED
  BY <1>2, <1>3, RequestKeepsCurrent

(* The transaction is made for a receipt that waited.                      *)
LEMMA CreateKeepsCurrent ==
    ASSUME Inductive, Current, NEW w \in Workers, CreateTransaction(w),
           \A v \in Workers \ {w} : jobs[v] = Idle, UNCHANGED restarts
    PROVE  Current'
<1>0. jobs[w] \in Review /\ jobs[w].op = "create" /\ CopyOf(jobs[w].read, jobs[w].receipt)
  BY DEF CreateTransaction, TypeOK, Job, RejectingOthers, Idle, Inductive, JobsSound, JobSound
<1> PICK r \in DOMAIN receipts : r = jobs[w].receipt
  BY <1>0 DEF CopyOf
<1> DEFINE job == jobs[w]
           row == [amount |-> job.read.amount, status |-> "PENDING", receipt |-> r,
                   transfer |-> job.transfer]
           next == [job EXCEPT !.op = "post", !.transaction = Len(transactions')]
           n   == Len(transactions)
<1>1. job \in Review /\ job.op = "create" /\ job.receipt = r
  BY <1>0
<1>2. /\ transactions' = Append(transactions, row) /\ Becomes(w, next) /\ UNCHANGED <<receipts, bank>>
  BY <1>1, JobsBecome DEF CreateTransaction, Inductive
<1>3. /\ row \in Transaction /\ row.receipt = r /\ row.status = "PENDING"
  BY <1>1 DEF Review, Receipt, Transaction
<1> HIDE DEF row
<1>4. /\ DOMAIN transactions = 1 .. n /\ n \in Nat
      /\ DOMAIN transactions' = 1 .. n + 1 /\ Len(transactions') = n + 1
      /\ \A x \in DOMAIN transactions : transactions'[x] = transactions[x]
      /\ transactions'[n + 1] = row
  BY <1>2, <1>3, TransactionMade
<1>5. /\ next \in Review /\ next.op = "post" /\ next.receipt = r /\ next.transaction = n + 1
  <2>1. next = [job EXCEPT !.op = "post", !.transaction = n + 1] /\ n + 1 \in Nat
    BY <1>4
  <2> HIDE DEF next, n, job
  <2> QED
    BY <1>1, <2>1, ReviewGoesOn
<1> HIDE DEF next, n
<1>6. jobs'[w] = next /\ \A v \in Workers \ {w} : jobs'[v] = Idle
  BY <1>2 DEF Becomes
<1>7. /\ MadeOf(r)' = MadeOf(r) \cup {n + 1}
      /\ \A o \in DOMAIN receipts \ {r} : MadeOf(o)' = MadeOf(o)
  BY <1>3, <1>4 DEF MadeOf
<1>8. Submitted(r) /\ \A v \in Workers, o \in DOMAIN receipts : ~ Between(jobs[v], o)
  BY <1>1 DEF Current, JobCurrent, Between, Idle
<1>9. Cardinality(MadeOf(r))' <= 1 + restarts
  <2>1. Cardinality(MadeOf(r)) <= restarts
    BY <1>1, <1>8 DEF Current, CountsOK
  <2>2. IsFiniteSet(MadeOf(r)) /\ Cardinality(MadeOf(r)) \in Nat
    BY MadeFinite
  <2>3. /\ Cardinality(MadeOf(r) \cup {n + 1}) = IF n + 1 \in MadeOf(r) THEN Cardinality(MadeOf(r))
                                                                       ELSE Cardinality(MadeOf(r)) + 1
    BY <2>2, FS_AddElement
  <2>4. restarts \in Nat
    BY DEF Inductive, TypeOK
  <2> QED
    BY <1>7, <2>1, <2>2, <2>3, <2>4
<1>10. CountsOK'
  <2>1. ASSUME NEW o \in DOMAIN receipts \ {r}
        PROVE  /\ Cardinality(MadeOf(o))' <= 1 + restarts
               /\ Submitted(o)' => Cardinality(MadeOf(o))' <= restarts
    BY <1>2, <1>7, <1>8 DEF Current, CountsOK, Submitted
  <2>2. Between(jobs'[w], r)
    BY <1>5, <1>6 DEF Between
  <2> QED
    BY <1>2, <1>9, <2>1, <2>2 DEF CountsOK
<1>11. MadeForKnown'
  BY <1>1, <1>2, <1>3, <1>4 DEF Current, MadeForKnown, Inductive, TypeOK
<1>12. \A v \in Workers : JobCurrent(jobs[v])'
  BY <1>3, <1>4, <1>5, <1>6 DEF JobCurrent, Idle
<1>13. \A u, v \in Workers : jobs'[u] # Idle /\ jobs'[v] # Idle => u = v
  BY <1>6
<1> QED
  BY <1>10, <1>11, <1>12, <1>13 DEF Current

(* A stop half-way may leave a transaction behind, and is counted.         *)
LEMMA AbandonKeepsCurrent ==
    ASSUME Inductive, Current, NEW w \in Workers, Abandon(w)
    PROVE  Current'
<1>1. /\ UNCHANGED <<receipts, transactions>> /\ restarts' = restarts + 1 /\ restarts \in Nat
      /\ Becomes(w, Idle) /\ \A v \in Workers \ {w} : jobs[v] = Idle
  BY JobsBecome DEF Abandon, rows, Inductive, TypeOK, Current
<1>2. \A v \in Workers : jobs'[v] = Idle
  BY <1>1 DEF Becomes
<1>3. ASSUME NEW r \in DOMAIN receipts
      PROVE  Cardinality(MadeOf(r))' <= restarts' /\ Cardinality(MadeOf(r))' <= 1 + restarts'
  <2>1. Cardinality(MadeOf(r))' = Cardinality(MadeOf(r)) /\ Cardinality(MadeOf(r)) \in Nat
    BY <1>1, MadeFinite DEF MadeOf
  <2>2. Cardinality(MadeOf(r)) <= 1 + restarts
    BY DEF Current, CountsOK
  <2> QED
    BY <1>1, <2>1, <2>2
<1>4. CountsOK' /\ MadeForKnown'
  BY <1>1, <1>3 DEF CountsOK, MadeForKnown, Current
<1>5. \A v \in Workers : JobCurrent(jobs[v])'
  BY <1>2 DEF JobCurrent, Idle
<1> QED
  BY <1>2, <1>4, <1>5 DEF Current

(* Every step of requests served one at a time keeps Current.              *)
LEMMA StepKeepsCurrent ==
    ASSUME Inductive, Inductive', Current, ~ overlap, Next
    PROVE  Current'
<1>t. /\ TypeOK /\ receipts' \in Seq(Receipt) /\ transactions' \in Seq(Transaction)
      /\ receipts \in Seq(Receipt) /\ transactions \in Seq(Transaction)
  BY DEF Inductive, TypeOK
<1>f. ASSUME NEW w \in Workers, Free(w)
      PROVE  jobs[w] = Idle /\ (\A v \in Workers \ {w} : jobs[v] = Idle) /\ \A r : ~ Between(jobs[w], r)
  BY <1>f DEF Free, Alone, Between, Idle
<1>b. ASSUME NEW w \in Workers, jobs[w] # Idle PROVE \A v \in Workers \ {w} : jobs[v] = Idle
  BY <1>b DEF Current
<1>i. Idle.op = "idle" /\ JobCurrent(Idle)
  BY DEF Idle, JobCurrent
<1>1. ASSUME NEW t \in Transfers, NEW r \in DOMAIN receipts, NEW exact \in BOOLEAN,
             TransferMoney(t, r, exact), UNCHANGED restarts
      PROVE  Current'
  BY <1>1 DEF TransferMoney, Current, CountsOK, MadeForKnown, MadeOf, Submitted, JobCurrent
<1>2. ASSUME NEW w \in Workers, Abandon(w) PROVE Current'
  BY <1>2, AbandonKeepsCurrent
<1>3. ASSUME NEW w \in Workers, NEW amount \in Payments, LookForDuplicate(w, amount),
             UNCHANGED restarts
      PROVE  Current'
  <2> DEFINE job == [op |-> "submit", amount |-> amount]
  <2>1. UNCHANGED rows /\ Becomes(w, job) /\ Free(w)
    BY <1>3, <1>t, JobsBecome DEF LookForDuplicate, Begin, Free
  <2>2. JobCurrent(job)
    BY DEF JobCurrent
  <2> HIDE DEF job
  <2> QED
    BY <1>3, <1>f, <2>1, <2>2, JobKeepsCurrent DEF rows
<1>4. ASSUME NEW w \in Workers, NEW amount \in Payments, EnterTransaction(w, amount),
             UNCHANGED restarts
      PROVE  Current'
  <2> DEFINE row == [amount |-> amount, status |-> "PENDING", receipt |-> 0, transfer |-> "none"]
  <2>1. /\ transactions' = Append(transactions, row) /\ Free(w)
        /\ UNCHANGED <<receipts, paid, bank, sepay, jobs>>
    BY <1>4 DEF EnterTransaction
  <2>2. row \in Transaction /\ row.receipt = 0
    BY DEF Transaction
  <2> HIDE DEF row
  <2>3. /\ DOMAIN transactions = 1 .. Len(transactions) /\ Len(transactions) \in Nat
        /\ DOMAIN transactions' = 1 .. Len(transactions) + 1
        /\ \A x \in DOMAIN transactions : transactions'[x] = transactions[x]
        /\ transactions'[Len(transactions) + 1] = row
    BY <2>1, <2>2, TransactionMade
  <2>4. Becomes(w, Idle) /\ jobs'[w] = Idle /\ jobs[w] = Idle
    BY <1>f, <1>t, <2>1, JobsBecome
  <2>5. /\ MadeForKnown' /\ \A r \in Nat \ {0} : MadeOf(r)' = MadeOf(r)
    BY <1>t, <2>1, <2>2, <2>3 DEF Current, MadeForKnown, MadeOf
  <2>6. /\ \A r : Submitted(r)' => Submitted(r) /\ ~ Between(jobs[w], r)
        /\ JobCurrent(jobs[w])'
    BY <1>f, <1>i, <2>1, <2>4 DEF Submitted, JobCurrent
  <2> QED
    BY <1>4, <1>f, <1>t, <2>1, <2>4, <2>5, <2>6, RequestKeepsCurrent
<1>5. ASSUME NEW w \in Workers, NEW r \in DOMAIN receipts, ReadForReview(w, r), UNCHANGED restarts
      PROVE  Current'
  <2>1. PICK job \in {ReviewOf("create", r, "none"),
                      [op |-> "reject", receipt |-> r, read |-> receipts[r]]} : Begin(w, job)
    BY <1>5 DEF ReadForReview
  <2>2. UNCHANGED rows /\ Submitted(r) /\ Becomes(w, job) /\ Free(w)
    BY <1>5, <1>t, <2>1, JobsBecome DEF ReadForReview, Acceptable, Begin, Free
  <2>3. JobCurrent(job)
    BY <2>1, <2>2 DEF JobCurrent, ReviewOf
  <2> QED
    BY <1>5, <1>f, <2>2, <2>3, JobKeepsCurrent DEF rows
<1>6. ASSUME NEW w \in Workers, NEW x \in DOMAIN transactions,
             NEW next \in {"RECEIVED", "PAID", "REJECTED", "CANCELLED", "PENDING"},
             UpdateTransactionStatus(w, x, next), UNCHANGED restarts
      PROVE  Current'
  <2>1. UpdateStatus(x, next) /\ UNCHANGED <<receipts, bank, sepay, jobs>> /\ Free(w)
    BY <1>6 DEF UpdateTransactionStatus
  <2>2. RowsKept /\ DOMAIN transactions' = DOMAIN transactions
    BY <2>1, StatusUpdated
  <2>3. Becomes(w, Idle) /\ jobs'[w] = Idle
    BY <1>f, <1>t, <2>1, JobsBecome
  <2>4. MadeForKnown' /\ \A r \in Nat \ {0} : MadeOf(r)' = MadeOf(r)
    BY <2>1, <2>2 DEF RowsKept, Current, MadeForKnown, MadeOf
  <2>5. /\ \A r : Submitted(r)' => Submitted(r) /\ ~ Between(jobs[w], r)
        /\ JobCurrent(jobs[w])'
    BY <1>f, <1>i, <2>1, <2>3 DEF Submitted, JobCurrent
  <2> QED
    BY <1>6, <1>f, <1>t, <2>1, <2>3, <2>4, <2>5, RequestKeepsCurrent
<1>7. ASSUME NEW w \in Workers, NEW t \in Transfers, Deliver(w, t), UNCHANGED restarts PROVE Current'
  <2> DEFINE job == [op |-> "record", transfer |-> t]
  <2>1. UNCHANGED rows /\ Becomes(w, job) /\ Free(w)
    BY <1>7, <1>t, JobsBecome DEF Deliver, Begin, Free
  <2>2. JobCurrent(job)
    BY DEF JobCurrent
  <2> HIDE DEF job
  <2> QED
    BY <1>7, <1>f, <2>1, <2>2, JobKeepsCurrent DEF rows
<1>8. ASSUME NEW w \in Workers, Serve(w), UNCHANGED restarts PROVE Current'
  <2>1. CASE CreatePaymentReceipt(w)
    <3> PICK row : receipts' = Append(receipts, row)
      BY <2>1 DEF CreatePaymentReceipt
    <3>1. /\ jobs[w].op = "submit" /\ jobs[w] # Idle /\ receipts' = Append(receipts, row)
          /\ UNCHANGED <<transactions, paid, bank, sepay>> /\ Becomes(w, Idle) /\ jobs'[w] = Idle
      BY <1>i, <1>t, <2>1, JobsBecome DEF CreatePaymentReceipt, Becomes
    <3>2. /\ Len(receipts') = Len(receipts) + 1 /\ Len(receipts) \in Nat
          /\ DOMAIN receipts \subseteq DOMAIN receipts'
          /\ \A r \in DOMAIN receipts : receipts'[r] = receipts[r]
      BY <1>t, <3>1
    <3>3. MadeForKnown' /\ \A r \in Nat \ {0} : MadeOf(r)' = MadeOf(r)
      BY <3>1, <3>2 DEF Current, MadeForKnown, MadeOf
    <3>4. /\ \A r \in DOMAIN receipts : Submitted(r)' => Submitted(r) /\ ~ Between(jobs[w], r)
          /\ JobCurrent(jobs[w])'
      BY <1>i, <3>1, <3>2 DEF Submitted, JobCurrent, Between
    <3> QED
      BY <1>8, <1>b, <1>t, <3>1, <3>2, <3>3, <3>4, RequestKeepsCurrent
  <2>2. CASE Record(w)
    <3> DEFINE job == [op |-> "match", transfer |-> jobs[w].transfer]
    <3>1. /\ jobs[w].op = "record" /\ jobs[w] # Idle /\ UNCHANGED <<receipts, transactions, paid, bank>>
          /\ Becomes(w, Idle) \/ Becomes(w, job)
      BY <1>i, <1>t, <2>2, JobsBecome DEF Record
    <3>2. JobCurrent(job) /\ \A r : ~ Between(jobs[w], r)
      BY <3>1 DEF JobCurrent, Between
    <3> HIDE DEF job
    <3> QED
      BY <1>8, <1>b, <1>i, <3>1, <3>2, JobKeepsCurrent
  <2>3. CASE Match(w)
    <3> DEFINE job == ReviewOf("create", bank[jobs[w].transfer].receipt, jobs[w].transfer)
    <3>1. /\ jobs[w].op = "match" /\ jobs[w] # Idle /\ UNCHANGED <<receipts, transactions, paid, bank>>
          /\ \/ Becomes(w, Idle)
             \/ Becomes(w, job) /\ Submitted(bank[jobs[w].transfer].receipt)
      BY <1>i, <1>t, <2>3, JobsBecome DEF Match, Acceptable
    <3>2. /\ \A r : ~ Between(jobs[w], r)
          /\ Submitted(bank[jobs[w].transfer].receipt) => JobCurrent(job)
      BY <3>1 DEF JobCurrent, Between, ReviewOf
    <3> HIDE DEF job
    <3> QED
      BY <1>8, <1>b, <1>i, <3>1, <3>2, JobKeepsCurrent
  <2>4. CASE CreateTransaction(w)
    <3>1. jobs[w] # Idle
      BY <1>i, <2>4 DEF CreateTransaction
    <3> QED
      BY <1>8, <1>b, <2>4, <3>1, CreateKeepsCurrent
  <2>5. CASE PostTransaction(w)
    <3> DEFINE next == [jobs[w] EXCEPT !.op = "confirm"]
    <3>1. /\ jobs[w] \in Review /\ jobs[w].op = "post" /\ jobs[w] # Idle
          /\ jobs[w].transaction \in DOMAIN transactions
      BY <1>i, <1>t, <2>5 DEF PostTransaction, TypeOK, Job, RejectingOthers, Idle, Inductive, JobsSound,
                             JobSound, MadeFor
    <3>2. /\ UpdateStatus(jobs[w].transaction, "RECEIVED") /\ Becomes(w, next)
          /\ UNCHANGED <<receipts, bank, sepay>>
      BY <1>t, <2>5, JobsBecome DEF PostTransaction
    <3>3. next.op = "confirm" /\ next.receipt = jobs[w].receipt
      BY <3>1 DEF Review
    <3> HIDE DEF next
    <3>4. RowsKept /\ DOMAIN transactions' = DOMAIN transactions
      BY <3>1, <3>2, StatusUpdated
    <3>5. MadeForKnown' /\ \A r \in Nat \ {0} : MadeOf(r)' = MadeOf(r)
      BY <3>2, <3>4 DEF RowsKept, Current, MadeForKnown, MadeOf
    <3>6. /\ \A r : Submitted(r)' => Submitted(r) /\ (Between(jobs[w], r) => Between(next, r))
          /\ JobCurrent(jobs[w])'
      BY <3>1, <3>2, <3>3 DEF Submitted, Between, Becomes, JobCurrent
    <3> QED
      BY <1>8, <1>b, <1>t, <3>1, <3>2, <3>5, <3>6, RequestKeepsCurrent
  <2>6. CASE PostingRefused(w)
    <3>1. jobs[w].op = "post" /\ transactions[jobs[w].transaction].status # "PENDING"
      BY <2>6 DEF PostingRefused, Transitions
    <3> QED
      BY <3>1 DEF Current, JobCurrent
  <2>7. CASE SaveConfirmed(w)
    <3>1. PICK r \in DOMAIN receipts : r = jobs[w].receipt
      BY <1>t, <2>7 DEF SaveConfirmed, TypeOK, Job, RejectingOthers, Idle, Inductive, JobsSound,
                       JobSound, CopyOf
    <3> DEFINE read == jobs[w].read
               x    == jobs[w].transaction
               new  == Confirmed(read, x)
               next == [op |-> "rejectOthers", transfer |-> jobs[w].transfer, copies |->
                          [o \in {o \in DOMAIN receipts \ {r} : read.amount >= jobs[w].open /\ Submitted(o)}
                              |-> receipts[o]]]
    <3>2. /\ jobs[w] \in Review /\ jobs[w] # Idle /\ CopyOf(read, r) /\ x \in Nat
      BY <1>i, <1>t, <2>7, <3>1 DEF SaveConfirmed, TypeOK, Job, Review, RejectingOthers, Idle, Inductive,
                             JobsSound, JobSound
    <3>3. PICK row \in Saved(receipts[r], read, new) : receipts' = [receipts EXCEPT ![r] = row]
      BY <2>7, <3>1 DEF SaveConfirmed
    <3>4. /\ read \in Receipt /\ receipts[r] \in Receipt /\ new \in Receipt
          /\ new.status = "CONFIRMED" /\ read.status = "SUBMITTED"
      <4>1. read \in Receipt /\ receipts[r] \in Receipt /\ read.status = "SUBMITTED"
        BY <1>t, <3>2 DEF Review, CopyOf
      <4>2. ASSUME NEW copy \in Receipt
            PROVE  Confirmed(copy, x) \in Receipt /\ Confirmed(copy, x).status = "CONFIRMED"
        BY <3>2 DEF Receipt, Confirmed
      <4> QED
        BY <4>1, <4>2
    <3> HIDE DEF new
    <3>5. row.status = "CONFIRMED"
      BY <3>4, SavedReceipt
    <3>6. UNCHANGED <<transactions, paid, bank, sepay>> /\ Becomes(w, next) /\ next.op = "rejectOthers"
      BY <1>t, <2>7, <3>1, JobsBecome DEF SaveConfirmed
    <3> HIDE DEF next
    <3>7. /\ DOMAIN receipts' = DOMAIN receipts
          /\ \A o \in DOMAIN receipts : Submitted(o)' => Submitted(o) /\ ~ Between(jobs[w], o)
      BY <3>1, <3>3, <3>5 DEF Submitted, Between
    <3> QED
      BY <1>8, <1>b, <1>t, <3>2, <3>6, <3>7, ReceiptsKeepCurrent
  <2>8. CASE RejectOthers(w)
    <3>1. /\ jobs[w].op = "rejectOthers" /\ jobs[w] # Idle
          /\ UNCHANGED <<transactions, paid, bank>> /\ Becomes(w, Idle)
      BY <1>i, <1>t, <2>8, JobsBecome DEF RejectOthers
    <3>2. /\ RejectingOthers(jobs[w])
      BY <1>t, <3>1 DEF TypeOK, Job, Review, Idle
    <3>3. PICK whole \in SUBSET DOMAIN jobs[w].copies :
             receipts' = [r \in DOMAIN receipts |->
                 IF r \in whole THEN [jobs[w].copies[r] EXCEPT !.status = "REJECTED"]
                 ELSE IF r \in DOMAIN jobs[w].copies THEN [receipts[r] EXCEPT !.status = "REJECTED"]
                 ELSE receipts[r]]
      BY <2>8 DEF RejectOthers
    <3>4. \A row \in Receipt : [row EXCEPT !.status = "REJECTED"].status = "REJECTED"
      BY DEF Receipt
    <3>5. /\ DOMAIN receipts' = DOMAIN receipts
          /\ \A o \in DOMAIN receipts : Submitted(o)' => Submitted(o) /\ ~ Between(jobs[w], o)
      BY <1>t, <3>1, <3>2, <3>3, <3>4 DEF Submitted, Between, RejectingOthers
    <3> QED
      BY <1>8, <1>b, <1>i, <1>t, <3>1, <3>5, ReceiptsKeepCurrent
  <2>9. CASE SaveRejected(w)
    <3>1. PICK r \in DOMAIN receipts : r = jobs[w].receipt
      BY <1>t, <2>9 DEF SaveRejected, TypeOK, Job, Review, RejectingOthers, Idle, Inductive, JobsSound,
                       JobSound, CopyOf
    <3> DEFINE read == jobs[w].read
               new  == [read EXCEPT !.status = "REJECTED"]
    <3>2. /\ jobs[w].op = "reject" /\ jobs[w] # Idle /\ read \in Receipt /\ read.status = "SUBMITTED"
      BY <1>i, <1>t, <2>9 DEF SaveRejected, TypeOK, Job, Review, RejectingOthers, Idle, Inductive,
                             JobsSound, JobSound, CopyOf
    <3>3. PICK row \in Saved(receipts[r], read, new) : receipts' = [receipts EXCEPT ![r] = row]
      BY <2>9, <3>1 DEF SaveRejected
    <3>4. new \in Receipt /\ new.status = "REJECTED" /\ receipts[r] \in Receipt
      <4>1. ASSUME NEW copy \in Receipt
            PROVE  LET after == [copy EXCEPT !.status = "REJECTED"]
                   IN  after \in Receipt /\ after.status = "REJECTED"
        BY DEF Receipt
      <4> QED
        BY <1>t, <3>2, <4>1
    <3> HIDE DEF new
    <3>5. row.status = "REJECTED"
      BY <3>2, <3>4, SavedReceipt
    <3>6. UNCHANGED <<transactions, paid, bank, sepay>> /\ Becomes(w, Idle)
      BY <1>t, <2>9, JobsBecome DEF SaveRejected
    <3>7. /\ DOMAIN receipts' = DOMAIN receipts
          /\ \A o \in DOMAIN receipts : Submitted(o)' => Submitted(o) /\ ~ Between(jobs[w], o)
      BY <3>2, <3>3, <3>5 DEF Submitted, Between
    <3> QED
      BY <1>8, <1>b, <1>i, <1>t, <3>2, <3>6, <3>7, ReceiptsKeepCurrent
  <2> QED
    BY <1>8, <2>1, <2>2, <2>3, <2>4, <2>5, <2>6, <2>7, <2>8, <2>9 DEF Serve
<1> QED
  BY <1>1, <1>2, <1>3, <1>4, <1>5, <1>6, <1>7, <1>8 DEF Next, Step, Arrive

(* Serial holds in every reachable state.                                  *)
THEOREM SerialInvariant == Spec => []Serial
<1>1. Init => Serial
  BY DEF Init, Serial, Current, CountsOK, MadeForKnown, JobCurrent, Idle
<1>2. Inductive /\ Inductive' /\ Serial /\ [Next]_vars => Serial'
  <2>1. ASSUME Inductive, Inductive', Serial, Next PROVE Serial'
    BY <2>1, StepKeepsCurrent DEF Serial, Next
  <2>2. ASSUME Serial, UNCHANGED vars PROVE Serial'
    BY <2>2 DEF vars, Serial, Current, CountsOK, MadeForKnown, MadeOf, Submitted, JobCurrent
  <2> QED
    BY <2>1, <2>2
<1> QED
  BY <1>1, <1>2, PortalInvariant, PTL DEF Spec

(* Requests served one at a time: a receipt is posted once, and once more  *)
(* for each request that stopped half-way at most (reviewPaymentReceipt).  *)
THEOREM PostedOncePerStop == Spec => []PostedOncePerRestart
<1>1. Inductive /\ Serial => PostedOncePerRestart
  <2> SUFFICES ASSUME Inductive, Current, NEW r \in DOMAIN receipts
               PROVE  Cardinality(PostedFor(r)) <= 1 + restarts
    BY DEF Serial, PostedOncePerRestart
  <2>1. /\ Cardinality(MadeOf(r)) <= 1 + restarts
        /\ restarts \in Nat
    BY DEF Current, CountsOK, Inductive, TypeOK
  <2>2. /\ Cardinality(MadeOf(r)) \in Nat /\ Cardinality(PostedFor(r)) \in Nat
        /\ Cardinality(PostedFor(r)) <= Cardinality(MadeOf(r))
    BY MadeFinite
  <2> QED
    BY <2>1, <2>2
<1> QED
  BY <1>1, SerialInvariant, PortalInvariant, PTL
=============================================================================
