---------------------------- MODULE SalesContracts ----------------------------
(***************************************************************************)
(* The life of a sales contract (SalesContractsService), from draft to     *)
(* confirmation and cancellation, with the stock it reserves.              *)
(*                                                                         *)
(* Some operations lock the contract row and are one action each.  The     *)
(* others read the contract without a lock and write it later in a         *)
(* statement of its own: a worker (one HTTP request being served) keeps    *)
(* what it has read in its job, and anything may happen before it writes.  *)
(* A worker may also stop half-way: an exception or a restart.             *)
(***************************************************************************)
EXTENDS Integers, FiniteSets, Sequences, FiniteSetsExt, Sums, Serving

CONSTANTS
    Contracts,     \* contract rows
    Products,      \* product rows
    Lines,         \* Lines[c][p]: quantity of product p in contract c
    Opening,       \* Opening[p]: stock at the start
    MaxRequests    \* bound: approval requests ever created, by whether they may

ASSUME ContractsAssumption == IsFiniteSet(Contracts)
ASSUME LinesAssumption   == Lines \in [Contracts -> [Products -> Nat]]
ASSUME OpeningAssumption == Opening \in [Products -> Nat]

Statuses ==
    {"DRAFT", "PENDING_APPROVAL", "REJECTED", "APPROVED", "PENDING_BUYER_SIGNATURE",
     "BUYER_SIGNED", "CONFIRMED", "SHIPPED", "PENDING_CANCEL_APPROVAL", "CANCELLED",
     "PAID"}

Editable    == {"DRAFT", "REJECTED"}
Confirmable == {"APPROVED", "BUYER_SIGNED"}

(* Mutant: a contract may be cancelled while it waits for approval. *)
CancellableEarly == {"PENDING_APPROVAL", "APPROVED", "PENDING_BUYER_SIGNATURE",
                     "BUYER_SIGNED", "CONFIRMED"}

Cancellable == {"APPROVED", "PENDING_BUYER_SIGNATURE", "BUYER_SIGNED", "CONFIRMED"}

Outcomes == {"APPROVED", "REJECTED"}

VARIABLES
    contract,        \* SalesContract.status
    counterSigned,   \* contracts with an INTERNAL signature row
    requests,        \* approval_workflow_requests, in order of creation
    decisions,       \* decision events emitted: <<request, outcome>>
    stock,           \* Product.currentStock, which contracts do not move
    reserved,        \* Product.reservedStock
    held             \* RESERVE minus RELEASE ledger rows that name the contract

contractVars == <<counterSigned, requests, jobs, decisions, overlap>>
vars == <<contract, stock, reserved, held, contractVars>>

Request == [type     : {"SALES_CONTRACT", "SALES_CONTRACT_CANCEL"},
            contract : Contracts,
            previous : Statuses,          \* metadata.previousStatus
            status   : {"PENDING", "APPROVED", "REJECTED", "CANCELLED"}]

(* A job on a contract: `seen` is the status it read.  `req` is the request*)
(* it has created or acts upon.                                            *)
Job == {Idle}
    \cup [op : {"update", "sign", "submit", "requestCancel"}, contract : Contracts,
          seen : Statuses]
    \cup [op : {"submitted", "cancelRequested"}, contract : Contracts]
    \cup [op : {"act", "withdraw"}, req : Nat]
    \cup [op : {"notify", "complete"}, req : Nat, outcome : Outcomes]

TypeOK ==
    /\ contract \in [Contracts -> Statuses]
    /\ counterSigned \subseteq Contracts
    /\ requests \in Seq(Request)
    /\ jobs \in [Workers -> Job]
    /\ decisions \subseteq (Nat \X Outcomes)
    /\ stock \in [Products -> Nat]
    /\ reserved \in [Products -> Nat]
    /\ held \in [Contracts -> Int]
    /\ overlap \in Overlap

Init ==
    /\ contract = [c \in Contracts |-> "DRAFT"]
    /\ counterSigned = {}
    /\ requests = <<>>
    /\ jobs = [w \in Workers |-> Idle]
    /\ decisions = {}
    /\ stock = Opening
    /\ reserved = [p \in Products |-> 0]
    /\ held = [c \in Contracts |-> 0]
    /\ overlap \in Overlap

-----------------------------------------------------------------------------
(* Stock of a contract: the loops over contract.items                      *)

(* Mutants: the wrong sign; what is reserved already is left out of the    *)
(* availability check.                                                     *)
ReserveLinesNegative(c) ==
    /\ \A p \in Products : stock[p] - reserved[p] >= Lines[c][p]
    /\ reserved' = [p \in Products |-> reserved[p] - Lines[c][p]]
    /\ held' = [held EXCEPT ![c] = @ + 1]
    /\ UNCHANGED stock

ReserveLinesOfStock(c) ==
    /\ \A p \in Products : stock[p] >= Lines[c][p]
    /\ reserved' = [p \in Products |-> reserved[p] + Lines[c][p]]
    /\ held' = [held EXCEPT ![c] = @ + 1]
    /\ UNCHANGED stock

ReserveLines(c) ==
    /\ \A p \in Products : stock[p] - reserved[p] >= Lines[c][p]
    /\ reserved' = [p \in Products |-> reserved[p] + Lines[c][p]]
    /\ held' = [held EXCEPT ![c] = @ + 1]
    /\ UNCHANGED stock

(* Mutant: the ledger row is written, the product is not saved. *)
ReleaseLinesUnsaved(c) ==
    /\ held' = [held EXCEPT ![c] = @ - 1]
    /\ UNCHANGED <<stock, reserved>>

ReleaseLines(c) ==
    /\ reserved' = [p \in Products |-> IF reserved[p] < Lines[c][p]
                                       THEN 0 ELSE reserved[p] - Lines[c][p]]
    /\ held' = [held EXCEPT ![c] = @ - 1]
    /\ UNCHANGED stock

StockUnchanged == UNCHANGED <<stock, reserved, held>>

-----------------------------------------------------------------------------
(* Jobs                                                                    *)

(* Nobody else is at work, unless requests may overlap. *)
AllIdle  == overlap \/ \A v \in Workers : jobs[v] = Idle

SetStatus(c, status) == contract' = [contract EXCEPT ![c] = status]

(* update reads the contract in its transaction but without a lock, and    *)
(* saves the whole row as a DRAFT.                                         *)
ReadForUpdate(w, c) ==
    /\ contract[c] \in Editable
    /\ Begin(w, [op |-> "update", contract |-> c, seen |-> contract[c]])
    /\ UNCHANGED <<contract, counterSigned, requests, decisions>> /\ StockUnchanged

Update(w) ==
    /\ jobs[w].op = "update"
    /\ SetStatus(jobs[w].contract, "DRAFT")
    /\ Finish(w)
    /\ UNCHANGED <<counterSigned, requests, decisions>> /\ StockUnchanged

(* submitForApproval and requestCancelContract: read the contract, create  *)
(* the request in a transaction, then write the status whatever it is now. *)
ReadForSubmit(w, c) ==
    /\ contract[c] \in Editable
    /\ Begin(w, [op |-> "submit", contract |-> c, seen |-> contract[c]])
    /\ UNCHANGED <<contract, counterSigned, requests, decisions>> /\ StockUnchanged

ReadForCancel(w, c) ==
    /\ contract[c] \in Cancellable
    /\ Begin(w, [op |-> "requestCancel", contract |-> c, seen |-> contract[c]])
    /\ UNCHANGED <<contract, counterSigned, requests, decisions>> /\ StockUnchanged

TypeOf(op) == IF op = "submit" THEN "SALES_CONTRACT" ELSE "SALES_CONTRACT_CANCEL"

CreateRequest(w) ==
    /\ jobs[w].op \in {"submit", "requestCancel"}
    /\ Len(requests) < MaxRequests[overlap]
    /\ LET job  == jobs[w]
           type == TypeOf(job.op)
       IN  /\ \A r \in DOMAIN requests :
                 ~ (requests[r].type = type /\ requests[r].contract = job.contract
                    /\ requests[r].status = "PENDING")
           /\ requests' = Append(requests, [type     |-> type,
                                            contract |-> job.contract,
                                            previous |-> job.seen,
                                            status   |-> "PENDING"])
           /\ Proceed(w, [op |-> IF job.op = "submit" THEN "submitted"
                                                      ELSE "cancelRequested",
                          contract |-> job.contract])
    /\ UNCHANGED <<contract, counterSigned, decisions>> /\ StockUnchanged

WritePending(w) ==
    /\ \/ /\ jobs[w].op = "submitted"
          /\ SetStatus(jobs[w].contract, "PENDING_APPROVAL")
       \/ /\ jobs[w].op = "cancelRequested"
          /\ SetStatus(jobs[w].contract, "PENDING_CANCEL_APPROVAL")
    /\ Finish(w)
    /\ UNCHANGED <<counterSigned, requests, decisions>> /\ StockUnchanged

(* ApprovalMatrixService, seen from the contract: an approver loads a      *)
(* pending request, later saves the decision, then the event is emitted.   *)
(* (Module ApprovalMatrix has its steps and approvers.)                    *)
LoadRequest(w, r) ==
    /\ requests[r].status = "PENDING"
    /\ \E op \in {"act", "withdraw"} : Begin(w, [op |-> op, req |-> r])
    /\ UNCHANGED <<contract, counterSigned, requests, decisions>> /\ StockUnchanged

Decide(w, outcome) ==
    /\ jobs[w].op = "act"
    /\ requests' = [requests EXCEPT ![jobs[w].req].status = outcome]
    /\ decisions' = decisions \cup {<<jobs[w].req, outcome>>}
    /\ Proceed(w, [op |-> "notify", req |-> jobs[w].req, outcome |-> outcome])
    /\ UNCHANGED <<contract, counterSigned>> /\ StockUnchanged

Withdraw(w) ==
    /\ jobs[w].op = "withdraw"
    /\ requests' = [requests EXCEPT ![jobs[w].req].status = "CANCELLED"]
    /\ Finish(w)
    /\ UNCHANGED <<contract, counterSigned, decisions>> /\ StockUnchanged

(* The listener.  completeCancelWorkflow locks the contract and is one     *)
(* step; the other three read the contract, then save it.                  *)
Subject(r)    == requests[r].contract
PendingFor(r) == IF requests[r].type = "SALES_CONTRACT"
                 THEN "PENDING_APPROVAL" ELSE "PENDING_CANCEL_APPROVAL"

ListenerReads(w) ==
    /\ jobs[w].op = "notify"
    /\ LET r == jobs[w].req IN
       /\ ~ (requests[r].type = "SALES_CONTRACT_CANCEL" /\ jobs[w].outcome = "APPROVED")
       /\ IF contract[Subject(r)] = PendingFor(r)
          THEN Proceed(w, [jobs[w] EXCEPT !.op = "complete"])
          ELSE Finish(w)
    /\ UNCHANGED <<contract, counterSigned, requests, decisions>> /\ StockUnchanged

(* Mutant: a refused cancellation always goes back to APPROVED. *)
StatusAfterDefault(r, outcome) ==
    IF requests[r].type = "SALES_CONTRACT" THEN outcome ELSE "APPROVED"

StatusAfter(r, outcome) ==
    IF requests[r].type = "SALES_CONTRACT" THEN outcome ELSE requests[r].previous

ListenerWrites(w) ==
    /\ jobs[w].op = "complete"
    /\ SetStatus(Subject(jobs[w].req), StatusAfter(jobs[w].req, jobs[w].outcome))
    /\ Finish(w)
    /\ UNCHANGED <<counterSigned, requests, decisions>> /\ StockUnchanged

CompleteCancelWorkflow(w) ==
    /\ jobs[w].op = "notify" /\ jobs[w].outcome = "APPROVED"
    /\ LET r == jobs[w].req
           c == Subject(r)
       IN  /\ requests[r].type = "SALES_CONTRACT_CANCEL"
           /\ IF contract[c] = "PENDING_CANCEL_APPROVAL"
              THEN /\ SetStatus(c, "CANCELLED")
                   /\ IF requests[r].previous = "CONFIRMED"
                      THEN ReleaseLines(c) ELSE StockUnchanged
              ELSE UNCHANGED contract /\ StockUnchanged
    /\ Finish(w)
    /\ UNCHANGED <<counterSigned, requests, decisions>>

(* signContractFromInvitation locks the invitation, not the contract.      *)
ReadForSigning(w, c) ==
    /\ contract[c] = "PENDING_BUYER_SIGNATURE"
    /\ Begin(w, [op |-> "sign", contract |-> c, seen |-> contract[c]])
    /\ UNCHANGED <<contract, counterSigned, requests, decisions>> /\ StockUnchanged

BuyerSigns(w) ==
    /\ jobs[w].op = "sign"
    /\ SetStatus(jobs[w].contract, "BUYER_SIGNED")
    /\ Finish(w)
    /\ UNCHANGED <<counterSigned, requests, decisions>> /\ StockUnchanged

(* An exception or a restart between two steps of an operation. *)
Abandon(w) ==
    /\ jobs[w] # Idle
    /\ Finish(w)
    /\ UNCHANGED <<contract, counterSigned, requests, decisions>> /\ StockUnchanged

-----------------------------------------------------------------------------
(* Operations that lock the contract row                                   *)

NoJobs == UNCHANGED <<jobs, requests, decisions>> /\ AllIdle

(* A buyer who is signing holds the row of the invitation that sending     *)
(* again or revoking has to write.                                         *)
NotSigning(c) == \A w \in Workers : ~ (jobs[w].op = "sign" /\ jobs[w].contract = c)

SendForSignature(c) ==
    /\ contract[c] \in {"APPROVED", "PENDING_BUYER_SIGNATURE"}
    /\ NotSigning(c)
    /\ SetStatus(c, "PENDING_BUYER_SIGNATURE")
    /\ NoJobs /\ StockUnchanged /\ UNCHANGED counterSigned

RevokeSignatureInvitation(c) ==
    /\ contract[c] = "PENDING_BUYER_SIGNATURE"
    /\ NotSigning(c)
    /\ SetStatus(c, "APPROVED")
    /\ NoJobs /\ StockUnchanged /\ UNCHANGED counterSigned

ReserveAndConfirm(c) ==
    /\ contract[c] \in Confirmable
    /\ ReserveLines(c)
    /\ SetStatus(c, "CONFIRMED")

(* signContract: the internal counter-signature *)
SignContract(c) ==
    /\ contract[c] = "BUYER_SIGNED"
    /\ c \notin counterSigned
    /\ counterSigned' = counterSigned \cup {c}
    /\ ReserveAndConfirm(c)
    /\ NoJobs

ConfirmContract(c) ==
    /\ ReserveAndConfirm(c)
    /\ NoJobs /\ UNCHANGED counterSigned

ShipContract(c) ==
    /\ contract[c] = "CONFIRMED"
    /\ SetStatus(c, "SHIPPED")
    /\ NoJobs /\ StockUnchanged /\ UNCHANGED counterSigned

(* ApprovalsService.reject of a SALES_CONTRACT: no condition on the status. *)
RejectInApprovalCenter(c) ==
    /\ SetStatus(c, "CANCELLED")
    /\ NoJobs /\ StockUnchanged /\ UNCHANGED counterSigned

(* AccountReceivablesService: a payment leaves none of the contract's      *)
(* receivables open.  Receivables are entered by hand, too: any status.    *)
PayInFull(c) ==
    /\ SetStatus(c, "PAID")
    /\ NoJobs /\ StockUnchanged /\ UNCHANGED counterSigned

WorkerStep(w) ==
    \/ \E c \in Contracts : \/ ReadForUpdate(w, c) \/ ReadForSubmit(w, c)
                            \/ ReadForCancel(w, c) \/ ReadForSigning(w, c)
    \/ Update(w) \/ CreateRequest(w) \/ WritePending(w) \/ BuyerSigns(w)
    \/ \E r \in DOMAIN requests : LoadRequest(w, r)
    \/ \E outcome \in Outcomes : Decide(w, outcome)
    \/ Withdraw(w) \/ ListenerReads(w) \/ ListenerWrites(w) \/ CompleteCancelWorkflow(w)
    \/ Abandon(w)

LockedStep(c) ==
    \/ SendForSignature(c) \/ RevokeSignatureInvitation(c)
    \/ SignContract(c) \/ ConfirmContract(c) \/ ShipContract(c)
    \/ RejectInApprovalCenter(c) \/ PayInFull(c)

Step ==
    \/ \E w \in Workers : WorkerStep(w)
    \/ \E c \in Contracts : LockedStep(c)

Next == Step /\ UNCHANGED overlap

Spec == Init /\ [][Next]_vars

-----------------------------------------------------------------------------
(* Properties                                                              *)

(* No overselling: contracts confirmed at the same time, by counter-       *)
(* signature or from the approval centre, never reserve more than there is *)
(* (the availability check of reserveStock).                               *)
NoOverselling == \A p \in Products : reserved[p] <= stock[p]

(* Statuses only an approved contract may be in. *)
ApprovedStages == Cancellable \cup {"SHIPPED", "PENDING_CANCEL_APPROVAL"}

(* No path, stale write or restored status lets a contract past PENDING_   *)
(* APPROVAL unless an approver approved it: APPROVED is only ever reached  *)
(* through an approval decision (completeApprovalWorkflow).                *)
NothingPastApprovalUnapproved ==
    \A c \in Contracts : contract[c] \in ApprovedStages =>
        \E r \in DOMAIN requests :
            /\ requests[r].type = "SALES_CONTRACT" /\ requests[r].contract = c
            /\ <<r, "APPROVED">> \in decisions

(* The contract counts as holding its stock.  A pending cancellation keeps *)
(* the stock of a CONFIRMED contract until it is decided.                  *)
CancelRequests(c) ==
    {r \in DOMAIN requests : requests[r].type = "SALES_CONTRACT_CANCEL" /\ Subject(r) = c}

HoldsStock(c) ==
    \/ contract[c] \in {"CONFIRMED", "SHIPPED"}
    \/ /\ contract[c] = "PENDING_CANCEL_APPROVAL"
       /\ requests[Max(CancelRequests(c))].previous = "CONFIRMED"

(* What the status says is what the inventory ledger says: a contract holds*)
(* its reservation exactly once from confirmation on, whatever requests to *)
(* cancel come, are refused, withdrawn, approved or lost half-way: as long *)
(* as requests are served one at a time.                                   *)
HeldMatchesStatus ==
    ~ overlap => \A c \in Contracts :
        contract[c] \notin {"CANCELLED", "PAID"} => held[c] = IF HoldsStock(c) THEN 1 ELSE 0

(* The reserved quantity of a product is what its contracts hold, as long  *)
(* as requests are served one at a time.                                   *)
ReservedMatchesHeld ==
    ~ overlap => \A p \in Products :
        reserved[p] = SumOver([c \in Contracts |-> held[c] * Lines[c][p]], Contracts)
=============================================================================
