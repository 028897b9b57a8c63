--------------------------- MODULE WarehouseDocuments ---------------------------
(***************************************************************************)
(* The documents by which the warehouse moves the stock of one product     *)
(* (InventoryService): adjustments, counts and customer returns, and the   *)
(* product form (ProductsService), which saves the stock columns it read.  *)
(*                                                                         *)
(* Adjustments and counts wait for an approval request.  The request is    *)
(* decided in one transaction and the document hears of it in another:     *)
(* that one locks the document, the one of the request locks nothing.      *)
(* Customer returns are submitted, approved and rejected on an unlocked    *)
(* copy; only receiving one locks it.                                      *)
(***************************************************************************)
EXTENDS Integers, Sequences, FiniteSets, Sums, StaleRows, Serving

CONSTANTS
    Quantities,     \* what documents and other movements change the stock by
    MaxStock,       \* bound: the stock
    MaxDocuments,   \* bound: documents, by whether users may overlap
    MaxLedger,      \* bound: ledger rows, likewise
    Opening         \* opening stock

ASSUME QuantitiesAssumption == Quantities \subseteq Int \ {0}
ASSUME StockAssumption      == MaxStock \in Nat /\ Opening \in 0 .. MaxStock
ASSUME BoundsAssumption     == MaxDocuments \in [BOOLEAN -> Nat]

VARIABLES
    stock,       \* Product.currentStock
    ledger,      \* inventory_ledger, in insertion order
    documents    \* inventory_adjustments, inventory_counts, customer_returns, by creation

vars == <<stock, ledger, documents, jobs, overlap>>

Kinds == {"adjustment", "count", "return"}

(* `document` is the referenceId: 0 for any other movement.                *)
Movement == [document : Nat, change : Int, balance : Nat]

(* Document.quantity is adjustmentQuantity, the count's varianceQuantity or*)
(* the returned quantity; `counted` is the count's.  No code reads `drawn`,*)
(* the length of the ledger when the document was made, and `approvals`,   *)
(* how often it was saved as an approved return.                           *)
Document == [kind      : Kinds,
             status    : {"DRAFT", "SUBMITTED", "PENDING_APPROVAL", "APPROVED", "RECEIVED",
                          "REJECTED", "CANCELLED"},
             quantity  : Int,
             counted   : Nat,
             drawn     : Nat,
             approvals : Nat,
             user      : Workers,                                \* who asks for approval
             request   : {"none", "PENDING", "APPROVED", "REJECTED", "CANCELLED"}]

Job == {Idle}
    \cup [op : {"decide", "hear"}, doc : Nat, outcome : {"APPROVED", "REJECTED"}]
    \cup [op : {"cancelRequest"}, doc : Nat]
    \cup [op : {"saveReturn"}, doc : Nat, next : {"SUBMITTED", "APPROVED", "REJECTED"}]
    \cup [op : {"saveProduct"}, read : Nat]

TypeOK ==
    /\ stock \in Nat
    /\ ledger \in Seq(Movement)
    /\ documents \in Seq(Document)
    /\ jobs \in [Workers -> Job]
    /\ \A w \in Workers :
          jobs[w].op \notin {"idle", "saveProduct"} => jobs[w].doc \in DOMAIN documents
    /\ overlap \in Overlap

Init ==
    /\ stock = Opening
    /\ ledger = <<>>
    /\ documents = <<>>
    /\ jobs = [w \in Workers |-> Idle]
    /\ overlap \in Overlap

-----------------------------------------------------------------------------

(* executeInventoryTransaction, under the lock of the product row: module  *)
(* StockLedger has its details.                                            *)
Movable(q) == stock + q \in 0 .. MaxStock /\ Len(ledger) < MaxLedger[overlap]

Move(d, q) ==
    /\ Movable(q)
    /\ stock' = stock + q
    /\ ledger' = Append(ledger, [document |-> d, change |-> q, balance |-> stock + q])

(* Receipts, issues and reservations that other modules model              *)
MoveOtherwise(w, q) ==
    /\ Free(w)
    /\ Move(0, q)
    /\ UNCHANGED <<documents, jobs>>

NewDocument(kind, status, quantity, counted, w, request) ==
    [kind |-> kind, status |-> status, quantity |-> quantity, counted |-> counted,
     drawn |-> Len(ledger), approvals |-> 0, user |-> w, request |-> request]

DrawUp(w, document) ==
    /\ Free(w) /\ Len(documents) < MaxDocuments[overlap]
    /\ documents' = Append(documents, document)
    /\ UNCHANGED <<stock, ledger, jobs>>

Is(d, kind, status) == documents[d].kind = kind /\ documents[d].status = status

Amend(d, document) == documents' = [documents EXCEPT ![d] = document]

-----------------------------------------------------------------------------
(* Adjustments and counts                                                  *)

(* adjustStock; without a rule that matches it is refused.                 *)
AdjustStock(w, q) == DrawUp(w, NewDocument("adjustment", "PENDING_APPROVAL", q, 0, w, "PENDING"))

(* createInventoryCount takes the stock as it is, without a lock           *)
CreateInventoryCount(w, counted) ==
    DrawUp(w, NewDocument("count", "DRAFT", counted - stock, counted, w, "none"))

(* Mutant: the variance is taken from the stock as it is by now. *)
RecountedNow(d, counted) ==
    [documents[d] EXCEPT !.counted = counted, !.quantity = counted - stock]

(* applyInventoryCountLines: the difference with systemQuantity, which is  *)
(* counted - variance                                                      *)
Recounted(d, counted) ==
    [documents[d] EXCEPT !.counted = counted, !.quantity = @ + counted - documents[d].counted]

UpdateInventoryCountItems(w, d, counted) ==
    /\ Free(w) /\ Is(d, "count", "DRAFT")
    /\ Amend(d, Recounted(d, counted))
    /\ UNCHANGED <<stock, ledger, jobs>>

SubmitInventoryCount(w, d, counted) ==
    /\ Free(w) /\ Is(d, "count", "DRAFT")
    /\ Amend(d, [Recounted(d, counted) EXCEPT !.status = "SUBMITTED", !.user = w,
                                              !.request = "PENDING"])
    /\ UNCHANGED <<stock, ledger, jobs>>

(* approveRequest, rejectRequest and cancelRequest: module ApprovalMatrix. *)
(* One's own count is not approved, but may be rejected.                   *)
Decidable(w, d, outcome) ==
    /\ documents[d].request = "PENDING"
    /\ outcome = "APPROVED" /\ documents[d].kind = "count" => documents[d].user # w

LoadRequest(w, d, outcome) ==
    /\ Decidable(w, d, outcome)
    /\ Begin(w, [op |-> "decide", doc |-> d, outcome |-> outcome])
    /\ UNCHANGED <<stock, ledger, documents>>

LoadRequestToCancel(w, d) ==
    /\ documents[d].request = "PENDING"
    /\ Begin(w, [op |-> "cancelRequest", doc |-> d])
    /\ UNCHANGED <<stock, ledger, documents>>

DecideRequest(w) ==
    /\ jobs[w].op = "decide"
    /\ Amend(jobs[w].doc, [documents[jobs[w].doc] EXCEPT !.request = jobs[w].outcome])
    /\ Proceed(w, [jobs[w] EXCEPT !.op = "hear"])
    /\ UNCHANGED <<stock, ledger>>

CancelRequest(w) ==
    /\ jobs[w].op = "cancelRequest"
    /\ Amend(jobs[w].doc, [documents[jobs[w].doc] EXCEPT !.request = "CANCELLED"])
    /\ Finish(w)
    /\ UNCHANGED <<stock, ledger>>

(* Mutant: a document that was decided hears the next decision too. *)
WaitsAlways(w, d) == documents[d].kind # "return"

(* The listener's transaction; whoever asked for a count does not decide it*)
Waits(w, d) ==
    \/ Is(d, "adjustment", "PENDING_APPROVAL")
    \/ Is(d, "count", "SUBMITTED") /\ documents[d].user # w

(* approveInventoryAdjustmentFromWorkflow, approveInventoryCount           *)
HearApproval(w) ==
    /\ jobs[w].op = "hear" /\ jobs[w].outcome = "APPROVED"
    /\ LET d == jobs[w].doc
           q == documents[d].quantity
       IN  /\ Waits(w, d)
           /\ \/ q # 0 /\ Move(d, q)
              \/ q = 0 /\ UNCHANGED <<stock, ledger>>
           /\ Amend(d, [documents[d] EXCEPT !.status = "APPROVED"])
    /\ Finish(w)

(* rejectInventoryAdjustmentFromWorkflow, rejectInventoryCount             *)
HearRejection(w) ==
    /\ jobs[w].op = "hear" /\ jobs[w].outcome = "REJECTED"
    /\ LET d == jobs[w].doc IN
       /\ Waits(w, d)
       /\ Amend(d, [documents[d] EXCEPT !.status =
                       IF documents[d].kind = "count" THEN "CANCELLED" ELSE "REJECTED"])
    /\ Finish(w)
    /\ UNCHANGED <<stock, ledger>>

(* The document does not wait any more, or the stock does not suffice: the *)
(* request stays as it was decided.                                        *)
HearNothing(w) ==
    /\ jobs[w].op = "hear"
    /\ \/ ~ Waits(w, jobs[w].doc)
       \/ jobs[w].outcome = "APPROVED" /\ stock + documents[jobs[w].doc].quantity < 0
    /\ Finish(w)
    /\ UNCHANGED <<stock, ledger, documents>>

-----------------------------------------------------------------------------
(* Customer returns                                                        *)

CreateCustomerReturn(w, q) ==
    /\ q > 0
    /\ DrawUp(w, NewDocument("return", "DRAFT", q, 0, w, "none"))

(* submitCustomerReturn, approveCustomerReturn, rejectCustomerReturn       *)
FromWhich(next) ==
    CASE next = "SUBMITTED" -> {"DRAFT"}
      [] next = "APPROVED"  -> {"SUBMITTED"}
      [] next = "REJECTED"  -> {"SUBMITTED", "APPROVED"}

ReadReturn(w, d, next) ==
    /\ documents[d].kind = "return" /\ documents[d].status \in FromWhich(next)
    /\ Begin(w, [op |-> "saveReturn", doc |-> d, next |-> next])
    /\ UNCHANGED <<stock, ledger, documents>>

(* The status is what the copy changes: it is saved over any other.        *)
SavedReturn(d, next) ==
    [documents[d] EXCEPT !.status = next, !.approvals = IF next = "APPROVED" THEN @ + 1 ELSE @]

SaveReturn(w) ==
    /\ jobs[w].op = "saveReturn"
    /\ Amend(jobs[w].doc, SavedReturn(jobs[w].doc, jobs[w].next))
    /\ Finish(w)
    /\ UNCHANGED <<stock, ledger>>

(* Mutant: a return already received may be received. *)
ReceivableAgain(d) == Is(d, "return", "APPROVED") \/ Is(d, "return", "RECEIVED")

Receivable(d) == Is(d, "return", "APPROVED")

(* receiveCustomerReturn, under the lock of the return                     *)
ReceiveCustomerReturn(w, d) ==
    /\ Free(w) /\ Receivable(d)
    /\ Move(d, documents[d].quantity)
    /\ Amend(d, [documents[d] EXCEPT !.status = "RECEIVED"])
    /\ UNCHANGED jobs

-----------------------------------------------------------------------------
(* The product form: update reads the product, stock included, and saves it*)

ReadProduct(w) ==
    /\ Begin(w, [op |-> "saveProduct", read |-> stock])
    /\ UNCHANGED <<stock, ledger, documents>>

SavedStock(read) == {row.stock : row \in Saved([stock |-> stock], [stock |-> read], [stock |-> read])}

SaveProduct(w) ==
    /\ jobs[w].op = "saveProduct"
    /\ stock' \in SavedStock(jobs[w].read)
    /\ Finish(w)
    /\ UNCHANGED <<ledger, documents>>

(* An error or a restart, after a decision that nobody hears of then       *)
Abandon(w) ==
    /\ jobs[w] # Idle
    /\ Finish(w)
    /\ UNCHANGED <<stock, ledger, documents>>

-----------------------------------------------------------------------------
DrawSome(w) ==
    \/ \E q \in Quantities : AdjustStock(w, q) \/ CreateCustomerReturn(w, q)
    \/ \E counted \in 0 .. MaxStock : CreateInventoryCount(w, counted)

Arrive(w, d) ==
    \/ \E counted \in 0 .. MaxStock :
          UpdateInventoryCountItems(w, d, counted) \/ SubmitInventoryCount(w, d, counted)
    \/ \E outcome \in {"APPROVED", "REJECTED"} : LoadRequest(w, d, outcome)
    \/ LoadRequestToCancel(w, d)
    \/ \E next \in {"SUBMITTED", "APPROVED", "REJECTED"} : ReadReturn(w, d, next)
    \/ ReceiveCustomerReturn(w, d)

Serve(w) ==
    \/ DecideRequest(w) \/ CancelRequest(w)
    \/ HearApproval(w) \/ HearRejection(w) \/ HearNothing(w)
    \/ SaveReturn(w) \/ SaveProduct(w)

Step == \E w \in Workers :
    \/ DrawSome(w) \/ Serve(w) \/ ReadProduct(w) \/ Abandon(w)
    \/ \E q \in Quantities : MoveOtherwise(w, q)
    \/ \E d \in DOMAIN documents : Arrive(w, d)

Next == Step /\ UNCHANGED overlap

Spec == Init /\ [][Next]_vars

-----------------------------------------------------------------------------
(* Properties                                                              *)

Applied(document) == document.status \in IF document.kind = "return" THEN {"RECEIVED"} ELSE {"APPROVED"}

PhaseOf(document) ==
    IF Applied(document) THEN "applied"
    ELSE IF document.status \in {"REJECTED", "CANCELLED"} THEN "refused" ELSE "open"

(* Whose promise is kept: that of documents that are locked when they are  *)
(* decided, and of returns when users are served one at a time.            *)
Promised(d) == ~ overlap \/ documents[d].kind # "return"

Phase  == [d \in {e \in DOMAIN documents : Promised(e)} |-> PhaseOf(documents[d])]

Movers == [i \in DOMAIN ledger |-> ledger[i].document]

Promise == INSTANCE StockDocuments WITH
    Everything <- 0 .. MaxDocuments[TRUE] + MaxDocuments[FALSE],
    phase      <- Phase,
    movers     <- Movers

(* An adjustment or a count moves stock at most once, when it is approved, *)
(* and never once refused, whatever decisions overlap, are heard late, out *)
(* of order or not at all; a customer return likewise, unless users overlap*)
PromiseKept == Promise!Spec

(* A customer return brings stock back once for each time it was approved, *)
(* although approvals and rejections are saved over one that was received  *)
(* meanwhile (approveCustomerReturn, receiveCustomerReturn).               *)
MovesFor(d) == {i \in DOMAIN ledger : ledger[i].document = d}

ReceivedByApproval ==
    \A d \in DOMAIN documents : documents[d].kind = "return" =>
        Cardinality(MovesFor(d)) <= documents[d].approvals

(* Served one at a time, a count keeps what moved while it was counted: the*)
(* stock it leaves is what was counted and what moved since it was drawn.  *)
CountKeepsMovements ==
    ~ overlap => \A i \in DOMAIN ledger : \A d \in DOMAIN documents :
        ledger[i].document = d /\ documents[d].kind = "count" =>
            ledger[i].balance = documents[d].counted
                + SumTo([k \in 1 .. i - 1 |->
                            IF k <= documents[d].drawn THEN 0 ELSE ledger[k].change], i - 1)
=============================================================================
