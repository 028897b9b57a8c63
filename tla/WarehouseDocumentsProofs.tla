------------------------ MODULE WarehouseDocumentsProofs ------------------------
(***************************************************************************)
(* The documents of the warehouse keep their promise, for any number of    *)
(* documents and users: WarehouseDocuments implements StockDocuments.      *)
(*                                                                         *)
(* Adjustments and counts keep it because they are decided under a lock.   *)
(* For customer returns one has to know that a copy about to be saved, when*)
(* users are served one at a time, is still what the row says.  Stock and  *)
(* counts agree with the ledger then, because the ledger only grows.       *)
(***************************************************************************)
EXTENDS WarehouseDocuments, SumTheorems, FiniteSetTheorems

(* Stock moves for documents that exist.                                   *)
LedgerKnown ==
    /\ Len(documents) <= MaxDocuments[overlap]
    /\ \A i \in DOMAIN ledger : ledger[i].document \in 0 .. Len(documents)

(* One user at a time, whose copy is up to date                            *)
CopiesCurrent ==
    /\ \A w \in Workers : jobs[w].op = "saveReturn" =>
          /\ documents[jobs[w].doc].kind = "return"
          /\ ~ overlap => documents[jobs[w].doc].status \in FromWhich(jobs[w].next)
    /\ ~ overlap => \A v, w \in Workers : jobs[v] # Idle /\ jobs[w] # Idle => v = w

Inductive == TypeOK /\ LedgerKnown /\ CopiesCurrent

LEMMA InitInductive == Init => Inductive
<1> SUFFICES ASSUME Init PROVE Inductive
  OBVIOUS
<1>1. TypeOK
  BY StockAssumption DEF Init, TypeOK, Job, Idle
<1>2. LedgerKnown
  BY ModesAssumption, BoundsAssumption DEF Init, LedgerKnown
<1>3. CopiesCurrent
  BY DEF Init, CopiesCurrent, Idle
<1> QED
  BY <1>1, <1>2, <1>3 DEF Inductive

-----------------------------------------------------------------------------
(* A job that is taken up or ended keeps everything that speaks of jobs.   *)

LEMMA JobsTyped ==
    ASSUME TypeOK, NEW w \in Workers, NEW job \in Job, jobs' = [jobs EXCEPT ![w] = job],
           Len(documents') \in Nat, DOMAIN documents \subseteq DOMAIN documents',
           job.op \notin {"idle", "saveProduct"} => job.doc \in DOMAIN documents'
    PROVE  /\ jobs' \in [Workers -> Job]
           /\ \A v \in Workers :
                 jobs'[v].op \notin {"idle", "saveProduct"} => jobs'[v].doc \in DOMAIN documents'
  BY DEF TypeOK

LEMMA IdleIsJob == Idle \in Job /\ Idle.op = "idle"
  BY DEF Job, Idle

(* What a movement does to stock and ledger                                *)
LEMMA MoveTyped ==
    ASSUME TypeOK, NEW d \in Nat, NEW q \in Int, Move(d, q)
    PROVE  /\ stock' \in Nat /\ ledger' \in Seq(Movement)
           /\ DOMAIN ledger' = 1 .. Len(ledger) + 1
           /\ DOMAIN ledger = 1 .. Len(ledger) /\ Len(ledger) \in Nat
           /\ \A i \in DOMAIN ledger : ledger'[i] = ledger[i]
           /\ ledger'[Len(ledger) + 1].document = d
<1> DEFINE row == [document |-> d, change |-> q, balance |-> stock + q]
<1>1. stock + q \in Nat /\ row \in Movement
  BY StockAssumption DEF Move, Movable, Movement, TypeOK
<1>2. ledger' = Append(ledger, row) /\ stock' = stock + q
  BY DEF Move
<1> QED
  BY <1>1, <1>2 DEF TypeOK

(* What a new document does to the others                                  *)
LEMMA DocumentsGrow ==
    ASSUME TypeOK, NEW document \in Document, documents' = Append(documents, document)
    PROVE  /\ documents' \in Seq(Document)
           /\ DOMAIN documents = 1 .. Len(documents) /\ Len(documents) \in Nat
           /\ DOMAIN documents' = 1 .. Len(documents) + 1
           /\ Len(documents') = Len(documents) + 1
           /\ \A e \in DOMAIN documents : documents'[e] = documents[e]
           /\ documents'[Len(documents) + 1] = document
  BY DEF TypeOK

LEMMA DocumentsAmended ==
    ASSUME TypeOK, NEW d \in DOMAIN documents, NEW document \in Document, Amend(d, document)
    PROVE  /\ documents' \in Seq(Document)
           /\ DOMAIN documents' = DOMAIN documents /\ Len(documents') = Len(documents)
           /\ \A e \in DOMAIN documents \ {d} : documents'[e] = documents[e]
           /\ documents'[d] = document
  BY DEF TypeOK, Amend

(* One user at a time: whoever acts is alone.                              *)
LEMMA WhoActsIsAlone ==
    ASSUME CopiesCurrent, NEW w \in Workers, jobs[w] # Idle
    PROVE  Alone(w)
  BY DEF CopiesCurrent, Alone

(* What an action of one worker has to do to keep the invariant            *)
LEMMA ActionKeepsInductive ==
    ASSUME Inductive, UNCHANGED overlap, NEW w \in Workers, Alone(w),
           NEW job \in Job, jobs' = [jobs EXCEPT ![w] = job],
           stock' \in Nat, ledger' \in Seq(Movement), documents' \in Seq(Document),
           Len(documents) <= Len(documents'), Len(documents') <= MaxDocuments[overlap],
           \A e \in DOMAIN documents : documents'[e].kind = documents[e].kind,
           \A i \in DOMAIN ledger' : ledger'[i].document \in 0 .. Len(documents'),
           job.op \notin {"idle", "saveProduct"} => job.doc \in DOMAIN documents',
           job.op = "saveReturn" =>
              /\ documents'[job.doc].kind = "return"
              /\ ~ overlap => documents'[job.doc].status \in FromWhich(job.next)
    PROVE  Inductive'
<1>1. DOMAIN documents \subseteq DOMAIN documents'
  BY DEF Inductive, TypeOK
<1>2. /\ jobs' \in [Workers -> Job] /\ jobs'[w] = job
      /\ \A v \in Workers \ {w} : jobs'[v] = jobs[v]
  BY DEF Inductive, TypeOK
<1>3. \A v \in Workers :
         jobs'[v].op \notin {"idle", "saveProduct"} => jobs'[v].doc \in DOMAIN documents'
  BY <1>1, <1>2 DEF Inductive, TypeOK
<1>4. TypeOK'
  BY <1>2, <1>3 DEF Inductive, TypeOK
<1>5. LedgerKnown'
  BY DEF LedgerKnown
<1>6. ASSUME NEW v \in Workers, jobs'[v].op = "saveReturn"
      PROVE  /\ documents'[jobs'[v].doc].kind = "return"
             /\ ~ overlap' => documents'[jobs'[v].doc].status \in FromWhich(jobs'[v].next)
  <2>1. CASE v = w
    BY <1>2, <1>6, <2>1
  <2>2. CASE v # w
    <3>1. jobs'[v] = jobs[v] /\ jobs[v] # Idle
      BY <1>2, <1>6, <2>2 DEF Idle
    <3>2. overlap
      BY <2>2, <3>1 DEF Alone
    <3>3. /\ documents[jobs[v].doc].kind = "return"
          /\ jobs[v].doc \in DOMAIN documents
      BY <1>6, <3>1 DEF Inductive, TypeOK, CopiesCurrent
    <3> QED
      BY <3>1, <3>2, <3>3
  <2> QED
    BY <2>1, <2>2
<1>7. ~ overlap' => \A u, v \in Workers : jobs'[u] # Idle /\ jobs'[v] # Idle => u = v
  BY <1>2 DEF Alone
<1> QED
  BY <1>4, <1>5, <1>6, <1>7 DEF Inductive, CopiesCurrent

(* The same when neither stock nor documents change                        *)
LEMMA JobKeepsInductive ==
    ASSUME Inductive, UNCHANGED <<ledger, documents, overlap>>, stock' \in Nat,
           NEW w \in Workers, Alone(w), NEW job \in Job, jobs' = [jobs EXCEPT ![w] = job],
           job.op \notin {"idle", "saveProduct"} => job.doc \in DOMAIN documents,
           job.op = "saveReturn" =>
              /\ documents[job.doc].kind = "return"
              /\ ~ overlap => documents[job.doc].status \in FromWhich(job.next)
    PROVE  Inductive'
<1>1. /\ ledger' \in Seq(Movement) /\ documents' \in Seq(Document)
      /\ Len(documents) <= Len(documents') /\ Len(documents') <= MaxDocuments[overlap]
      /\ \A e \in DOMAIN documents : documents'[e].kind = documents[e].kind
      /\ \A i \in DOMAIN ledger' : ledger'[i].document \in 0 .. Len(documents')
  BY DEF Inductive, TypeOK, LedgerKnown
<1>2. /\ job.op \notin {"idle", "saveProduct"} => job.doc \in DOMAIN documents'
      /\ job.op = "saveReturn" =>
            /\ documents'[job.doc].kind = "return"
            /\ ~ overlap => documents'[job.doc].status \in FromWhich(job.next)
  OBVIOUS
<1> QED
  BY <1>1, <1>2, ActionKeepsInductive

(* The same when a document is amended and no stock moves                  *)
LEMMA AmendKeepsInductive ==
    ASSUME Inductive, UNCHANGED <<stock, ledger, overlap>>,
           NEW w \in Workers, Alone(w), NEW job \in Job, jobs' = [jobs EXCEPT ![w] = job],
           job.op # "saveReturn", job.op \notin {"idle", "saveProduct"} => job.doc \in DOMAIN documents,
           NEW d \in DOMAIN documents, NEW document \in Document, Amend(d, document),
           document.kind = documents[d].kind
    PROVE  Inductive'
<1>1. /\ documents' \in Seq(Document) /\ DOMAIN documents' = DOMAIN documents
      /\ Len(documents') = Len(documents)
      /\ \A e \in DOMAIN documents : documents'[e].kind = documents[e].kind
  BY DocumentsAmended DEF Inductive
<1>2. /\ ledger \in Seq(Movement) /\ stock \in Nat
      /\ Len(documents) \in Nat /\ Len(documents) <= MaxDocuments[overlap]
      /\ \A i \in DOMAIN ledger : ledger[i].document \in 0 .. Len(documents)
  BY DEF Inductive, TypeOK, LedgerKnown
<1>3. Len(documents) <= Len(documents')
  BY <1>1, <1>2
<1> QED
  BY <1>1, <1>2, <1>3, ActionKeepsInductive

(* The same when stock moves for the document that is amended              *)
LEMMA MoveKeepsInductive ==
    ASSUME Inductive, UNCHANGED overlap,
           NEW w \in Workers, Alone(w), NEW job \in Job, jobs' = [jobs EXCEPT ![w] = job],
           job.op = "idle",
           NEW d \in DOMAIN documents, NEW document \in Document, Amend(d, document),
           document.kind = documents[d].kind,
           Move(d, documents[d].quantity)
    PROVE  Inductive'
<1>1. /\ documents' \in Seq(Document) /\ DOMAIN documents' = DOMAIN documents
      /\ Len(documents') = Len(documents)
      /\ \A e \in DOMAIN documents : documents'[e].kind = documents[e].kind
  BY DocumentsAmended DEF Inductive
<1>2. /\ Len(documents) \in Nat /\ Len(documents) <= MaxDocuments[overlap]
      /\ d \in 1 .. Len(documents) /\ documents[d].quantity \in Int
      /\ \A i \in DOMAIN ledger : ledger[i].document \in 0 .. Len(documents)
  <2>1. documents \in Seq(Document)
    BY DEF Inductive, TypeOK
  <2>2. documents[d] \in Document
    BY <2>1
  <2> QED
    BY <2>1, <2>2 DEF Inductive, LedgerKnown, Document
<1>3. /\ stock' \in Nat /\ ledger' \in Seq(Movement)
      /\ \A i \in DOMAIN ledger' : ledger'[i].document \in 0 .. Len(documents)
  <2>1. TypeOK /\ d \in Nat
    BY <1>2 DEF Inductive
  <2>2. /\ stock' \in Nat /\ ledger' \in Seq(Movement)
        /\ DOMAIN ledger' = 1 .. Len(ledger) + 1
        /\ DOMAIN ledger = 1 .. Len(ledger) /\ Len(ledger) \in Nat
        /\ \A i \in DOMAIN ledger : ledger'[i] = ledger[i]
        /\ ledger'[Len(ledger) + 1].document = d
    BY <1>2, <2>1, MoveTyped
  <2> QED
    BY <1>2, <2>2
<1>4. Len(documents) <= Len(documents')
  BY <1>1, <1>2
<1> QED
  BY <1>1, <1>2, <1>3, <1>4, ActionKeepsInductive

(* The same when a document is drawn up                                    *)
LEMMA DrawUpKeepsInductive ==
    ASSUME Inductive, UNCHANGED overlap, NEW w \in Workers, NEW document \in Document,
           DrawUp(w, document)
    PROVE  Inductive'
<1>1. /\ documents' = Append(documents, document) /\ Len(documents) < MaxDocuments[overlap]
      /\ UNCHANGED <<stock, ledger, jobs>> /\ Alone(w) /\ jobs[w] = Idle
  BY DEF DrawUp, Free
<1>2. /\ documents' \in Seq(Document) /\ Len(documents') = Len(documents) + 1
      /\ Len(documents) \in Nat
      /\ \A e \in DOMAIN documents : documents'[e].kind = documents[e].kind
  BY <1>1, DocumentsGrow DEF Inductive
<1>3. MaxDocuments[overlap] \in Nat
  BY ModesAssumption, BoundsAssumption DEF Inductive, TypeOK
<1>4. /\ stock' \in Nat /\ ledger' \in Seq(Movement)
      /\ jobs' = [jobs EXCEPT ![w] = Idle]
      /\ \A i \in DOMAIN ledger' : ledger'[i].document \in 0 .. Len(documents')
  BY <1>1, <1>2 DEF Inductive, TypeOK, LedgerKnown
<1>5. Len(documents) <= Len(documents') /\ Len(documents') <= MaxDocuments[overlap]
  BY <1>1, <1>2, <1>3
<1> QED
  BY <1>1, <1>2, <1>4, <1>5, IdleIsJob, ActionKeepsInductive

(* What becomes of a document is a document of the same kind.              *)
LEMMA AmendedDocuments ==
    ASSUME Inductive, NEW d \in DOMAIN documents
    PROVE  /\ documents[d] \in Document
           /\ \A status \in {"SUBMITTED", "APPROVED", "RECEIVED", "REJECTED", "CANCELLED"} :
                 LET after == [documents[d] EXCEPT !.status = status]
                 IN  after \in Document /\ after.kind = documents[d].kind /\ after.status = status
           /\ \A request \in {"APPROVED", "REJECTED", "CANCELLED"} :
                 LET after == [documents[d] EXCEPT !.request = request]
                 IN  /\ after \in Document /\ after.kind = documents[d].kind
                     /\ after.status = documents[d].status
           /\ \A counted \in Nat, w \in Workers :
                 LET submitted == [Recounted(d, counted) EXCEPT
                                      !.status = "SUBMITTED", !.user = w, !.request = "PENDING"]
                 IN  /\ Recounted(d, counted) \in Document
                     /\ Recounted(d, counted).kind = documents[d].kind
                     /\ Recounted(d, counted).status = documents[d].status
                     /\ submitted \in Document /\ submitted.kind = documents[d].kind
                     /\ submitted.status = "SUBMITTED"
<1>1. documents[d] \in Document
  BY DEF Inductive, TypeOK
<1>2. ASSUME NEW status \in {"SUBMITTED", "APPROVED", "RECEIVED", "REJECTED", "CANCELLED"}
      PROVE  LET after == [documents[d] EXCEPT !.status = status]
             IN  after \in Document /\ after.kind = documents[d].kind /\ after.status = status
  BY <1>1 DEF Document
<1>3. ASSUME NEW request \in {"APPROVED", "REJECTED", "CANCELLED"}
      PROVE  LET after == [documents[d] EXCEPT !.request = request]
             IN  /\ after \in Document /\ after.kind = documents[d].kind
                 /\ after.status = documents[d].status
  BY <1>1 DEF Document
<1>4. ASSUME NEW counted \in Nat
      PROVE  /\ Recounted(d, counted) \in Document
             /\ Recounted(d, counted).kind = documents[d].kind
             /\ Recounted(d, counted).status = documents[d].status
  <2>1. documents[d].quantity + counted - documents[d].counted \in Int
    BY <1>1 DEF Document
  <2> QED
    BY <1>1, <2>1 DEF Document, Recounted
<1>5. ASSUME NEW counted \in Nat, NEW w \in Workers
      PROVE  LET submitted == [Recounted(d, counted) EXCEPT
                                  !.status = "SUBMITTED", !.user = w, !.request = "PENDING"]
             IN  /\ submitted \in Document /\ submitted.kind = documents[d].kind
                 /\ submitted.status = "SUBMITTED"
  <2>1. ASSUME NEW before \in Document
        PROVE  LET after == [before EXCEPT !.status = "SUBMITTED", !.user = w, !.request = "PENDING"]
               IN  after \in Document /\ after.kind = before.kind /\ after.status = "SUBMITTED"
    BY DEF Document
  <2> QED
    BY <1>4, <2>1
<1> QED
  BY <1>1, <1>2, <1>3, <1>4, <1>5

LEMMA NewDocumentsTyped ==
    ASSUME Inductive, NEW w \in Workers
    PROVE  /\ \A q \in Quantities :
                 /\ NewDocument("adjustment", "PENDING_APPROVAL", q, 0, w, "PENDING") \in Document
                 /\ NewDocument("return", "DRAFT", q, 0, w, "none") \in Document
           /\ \A counted \in 0 .. MaxStock :
                 NewDocument("count", "DRAFT", counted - stock, counted, w, "none") \in Document
<1>1. Len(ledger) \in Nat /\ stock \in Nat
  BY DEF Inductive, TypeOK
<1> QED
  BY <1>1, QuantitiesAssumption, StockAssumption DEF NewDocument, Document, Kinds

(* What submitting, approving or rejecting makes of a return               *)
LEMMA SavedReturns ==
    ASSUME Inductive, NEW d \in DOMAIN documents, NEW next \in {"SUBMITTED", "APPROVED", "REJECTED"}
    PROVE  LET after == SavedReturn(d, next)
           IN  /\ after \in Document /\ after.kind = documents[d].kind /\ after.status = next
               /\ after.quantity = documents[d].quantity
               /\ after.approvals = IF next = "APPROVED" THEN documents[d].approvals + 1
                                                        ELSE documents[d].approvals
<1>1. documents[d] \in Document
  BY AmendedDocuments
<1>2. ASSUME NEW before \in Document
      PROVE  LET after == [before EXCEPT !.status = next,
                                         !.approvals = IF next = "APPROVED" THEN @ + 1 ELSE @]
             IN  /\ after \in Document /\ after.kind = before.kind /\ after.status = next
                 /\ after.quantity = before.quantity
                 /\ after.approvals = IF next = "APPROVED" THEN before.approvals + 1
                                                           ELSE before.approvals
  <2>1. before.approvals \in Nat /\ before.approvals + 1 \in Nat
    BY DEF Document
  <2>2. CASE next = "APPROVED"
    BY <2>1, <2>2 DEF Document
  <2>3. CASE next # "APPROVED"
    BY <2>1, <2>3 DEF Document
  <2> QED
    BY <2>2, <2>3
<1> QED
  BY <1>1, <1>2 DEF SavedReturn

LEMMA StepKeepsInductive == Inductive /\ Step /\ UNCHANGED overlap => Inductive'
<1> SUFFICES ASSUME Inductive, Step, UNCHANGED overlap PROVE Inductive'
  OBVIOUS
<1> PICK w \in Workers :
        \/ DrawSome(w) \/ Serve(w) \/ ReadProduct(w) \/ Abandon(w)
        \/ \E q \in Quantities : MoveOtherwise(w, q)
        \/ \E d \in DOMAIN documents : Arrive(w, d)
  BY DEF Step
<1>t. /\ TypeOK /\ CopiesCurrent /\ stock \in Nat /\ jobs[w] \in Job
      /\ ledger \in Seq(Movement)
  BY DEF Inductive, TypeOK
<1>0. ASSUME jobs[w].op \notin {"idle", "saveProduct"}
      PROVE  Alone(w) /\ jobs[w].doc \in DOMAIN documents
  BY <1>0, <1>t, WhoActsIsAlone, IdleIsJob DEF TypeOK
<1>1. CASE DrawSome(w)
  BY <1>1, NewDocumentsTyped, DrawUpKeepsInductive
     DEF DrawSome, AdjustStock, CreateCustomerReturn, CreateInventoryCount
<1>2. CASE \E q \in Quantities : MoveOtherwise(w, q)
  <2> PICK q \in Quantities : MoveOtherwise(w, q)
    BY <1>2
  <2>1. /\ Move(0, q) /\ UNCHANGED <<documents, jobs>> /\ Alone(w) /\ jobs[w] = Idle /\ q \in Int
    BY QuantitiesAssumption DEF MoveOtherwise, Free
  <2>2. /\ stock' \in Nat /\ ledger' \in Seq(Movement)
        /\ DOMAIN ledger' = 1 .. Len(ledger) + 1
        /\ DOMAIN ledger = 1 .. Len(ledger) /\ Len(ledger) \in Nat
        /\ \A i \in DOMAIN ledger : ledger'[i] = ledger[i]
        /\ ledger'[Len(ledger) + 1].document = 0
    BY <1>t, <2>1, MoveTyped
  <2>3. /\ documents' \in Seq(Document) /\ Len(documents) \in Nat
        /\ Len(documents) <= Len(documents') /\ Len(documents') <= MaxDocuments[overlap]
        /\ \A e \in DOMAIN documents : documents'[e].kind = documents[e].kind
        /\ \A i \in DOMAIN ledger : ledger[i].document \in 0 .. Len(documents')
        /\ jobs' = [jobs EXCEPT ![w] = Idle]
    BY <2>1 DEF Inductive, TypeOK, LedgerKnown
  <2>4. \A i \in DOMAIN ledger' : ledger'[i].document \in 0 .. Len(documents')
    BY <2>1, <2>2, <2>3
  <2> QED
    BY <2>1, <2>2, <2>3, <2>4, IdleIsJob, ActionKeepsInductive
<1>3. CASE ReadProduct(w)
  <2>1. [op |-> "saveProduct", read |-> stock] \in Job
    BY <1>t DEF Job
  <2> QED
    BY <1>3, <1>t, <2>1, JobKeepsInductive DEF ReadProduct, Begin, Free
<1>4. CASE Abandon(w)
  BY <1>4, <1>t, IdleIsJob, WhoActsIsAlone, JobKeepsInductive DEF Abandon, Finish
<1>5. CASE Serve(w)
  <2>1. CASE DecideRequest(w)
    <3>1. /\ jobs[w].op = "decide" /\ jobs[w].outcome \in {"APPROVED", "REJECTED"}
          /\ jobs[w] \in [op : {"decide", "hear"}, doc : Nat, outcome : {"APPROVED", "REJECTED"}]
      BY <1>t, <2>1 DEF DecideRequest, Job, Idle
    <3>2. [jobs[w] EXCEPT !.op = "hear"] \in Job /\ [jobs[w] EXCEPT !.op = "hear"].op = "hear"
          /\ [jobs[w] EXCEPT !.op = "hear"].doc = jobs[w].doc
      BY <3>1 DEF Job
    <3> QED
      BY <1>0, <2>1, <3>1, <3>2, AmendedDocuments, AmendKeepsInductive, ZenonT(30) DEF DecideRequest, Proceed
  <2>2. CASE CancelRequest(w)
    BY <1>0, <2>2, IdleIsJob, AmendedDocuments, AmendKeepsInductive DEF CancelRequest, Finish
  <2>3. CASE HearApproval(w)
    <3> DEFINE d == jobs[w].doc
    <3>1. /\ Alone(w) /\ d \in DOMAIN documents /\ jobs' = [jobs EXCEPT ![w] = Idle]
          /\ Amend(d, [documents[d] EXCEPT !.status = "APPROVED"])
          /\ Move(d, documents[d].quantity) \/ UNCHANGED <<stock, ledger>>
      BY <1>0, <2>3 DEF HearApproval, Finish
    <3> QED
      BY <3>1, IdleIsJob, AmendedDocuments, AmendKeepsInductive, MoveKeepsInductive
  <2>4. CASE HearRejection(w)
    <3> DEFINE d == jobs[w].doc
               status == IF documents[d].kind = "count" THEN "CANCELLED" ELSE "REJECTED"
    <3>1. /\ Alone(w) /\ d \in DOMAIN documents /\ jobs' = [jobs EXCEPT ![w] = Idle]
          /\ Amend(d, [documents[d] EXCEPT !.status = status])
          /\ UNCHANGED <<stock, ledger>>
      BY <1>0, <2>4 DEF HearRejection, Finish
    <3> QED
      BY <3>1, IdleIsJob, AmendedDocuments, AmendKeepsInductive
  <2>5. CASE HearNothing(w)
    BY <1>0, <1>t, <2>5, IdleIsJob, JobKeepsInductive DEF HearNothing, Finish
  <2>6. CASE SaveReturn(w)
    <3>1. jobs[w].next \in {"SUBMITTED", "APPROVED", "REJECTED"}
      BY <1>t, <2>6 DEF SaveReturn, Job, Idle
    <3> QED
      BY <1>0, <2>6, <3>1, IdleIsJob, SavedReturns, AmendKeepsInductive DEF SaveReturn, Finish
  <2>7. CASE SaveProduct(w)
    <3>1. jobs[w].op = "saveProduct" /\ Alone(w) /\ jobs[w].read \in Nat
      BY <1>t, <2>7, WhoActsIsAlone, IdleIsJob DEF SaveProduct, Job, Idle
    <3>2. stock' \in Nat
      BY <1>t, <2>7, <3>1 DEF SaveProduct, SavedStock, Saved
    <3> QED
      BY <2>7, <3>1, <3>2, IdleIsJob, JobKeepsInductive DEF SaveProduct, Finish
  <2> QED
    BY <1>5, <2>1, <2>2, <2>3, <2>4, <2>5, <2>6, <2>7 DEF Serve
<1>6. CASE \E d \in DOMAIN documents : Arrive(w, d)
  <2> PICK d \in DOMAIN documents : Arrive(w, d)
    BY <1>6
  <2>0. d \in Nat
    BY <1>t DEF TypeOK
  <2>i. ASSUME Free(w) PROVE Alone(w) /\ jobs = [jobs EXCEPT ![w] = Idle]
    BY <1>t, <2>i DEF Free, TypeOK
  <2>1. CASE \E counted \in 0 .. MaxStock :
                UpdateInventoryCountItems(w, d, counted) \/ SubmitInventoryCount(w, d, counted)
    <3> PICK counted \in 0 .. MaxStock :
                UpdateInventoryCountItems(w, d, counted) \/ SubmitInventoryCount(w, d, counted)
      BY <2>1
    <3>1. counted \in Nat
      BY StockAssumption
    <3> DEFINE submitted == [Recounted(d, counted) EXCEPT
                                !.status = "SUBMITTED", !.user = w, !.request = "PENDING"]
    <3>2. /\ Alone(w) /\ jobs' = [jobs EXCEPT ![w] = Idle] /\ UNCHANGED <<stock, ledger>>
          /\ Amend(d, Recounted(d, counted)) \/ Amend(d, submitted)
      BY <2>i DEF UpdateInventoryCountItems, SubmitInventoryCount
    <3>3. /\ Recounted(d, counted) \in Document /\ submitted \in Document
          /\ Recounted(d, counted).kind = documents[d].kind
          /\ submitted.kind = documents[d].kind
      BY <3>1, AmendedDocuments, ZenonT(30)
    <3> HIDE DEF submitted
    <3> QED
      BY <3>2, <3>3, IdleIsJob, AmendKeepsInductive
  <2>2. CASE \E outcome \in {"APPROVED", "REJECTED"} : LoadRequest(w, d, outcome)
    <3> PICK outcome \in {"APPROVED", "REJECTED"} : LoadRequest(w, d, outcome)
      BY <2>2
    <3> DEFINE job == [op |-> "decide", doc |-> d, outcome |-> outcome]
    <3>1. job \in Job /\ job.op = "decide" /\ job.doc = d
      BY <2>0 DEF Job
    <3>2. Alone(w) /\ jobs' = [jobs EXCEPT ![w] = job] /\ UNCHANGED <<stock, ledger, documents>>
      BY DEF LoadRequest, Begin, Free
    <3> QED
      BY <1>t, <3>1, <3>2, JobKeepsInductive
  <2>3. CASE LoadRequestToCancel(w, d)
    <3> DEFINE job == [op |-> "cancelRequest", doc |-> d]
    <3>1. job \in Job /\ job.op = "cancelRequest" /\ job.doc = d
      BY <2>0 DEF Job
    <3>2. Alone(w) /\ jobs' = [jobs EXCEPT ![w] = job] /\ UNCHANGED <<stock, ledger, documents>>
      BY <2>3 DEF LoadRequestToCancel, Begin, Free
    <3> QED
      BY <1>t, <3>1, <3>2, JobKeepsInductive
  <2>4. CASE \E next \in {"SUBMITTED", "APPROVED", "REJECTED"} : ReadReturn(w, d, next)
    <3> PICK next \in {"SUBMITTED", "APPROVED", "REJECTED"} : ReadReturn(w, d, next)
      BY <2>4
    <3> DEFINE job == [op |-> "saveReturn", doc |-> d, next |-> next]
    <3>1. job \in Job /\ job.op = "saveReturn" /\ job.doc = d /\ job.next = next
      BY <2>0 DEF Job
    <3>2. /\ Alone(w) /\ jobs' = [jobs EXCEPT ![w] = job] /\ UNCHANGED <<stock, ledger, documents>>
          /\ documents[d].kind = "return" /\ documents[d].status \in FromWhich(next)
      BY DEF ReadReturn, Begin, Free
    <3> QED
      BY <1>t, <3>1, <3>2, JobKeepsInductive
  <2>5. CASE ReceiveCustomerReturn(w, d)
    BY <2>5, <2>i, IdleIsJob, AmendedDocuments, MoveKeepsInductive DEF ReceiveCustomerReturn
  <2> QED
    BY <2>1, <2>2, <2>3, <2>4, <2>5 DEF Arrive
<1> QED
  BY <1>1, <1>2, <1>3, <1>4, <1>5, <1>6

(* Inductive holds in every reachable state.                               *)
THEOREM WarehouseInvariant == Spec => []Inductive
<1>1. Inductive /\ [Next]_vars => Inductive'
  <2>1. ASSUME Inductive, Next PROVE Inductive'
    BY <2>1, StepKeepsInductive DEF Next
  <2>2. ASSUME Inductive, UNCHANGED vars PROVE Inductive'
    BY <2>2 DEF vars, Inductive, TypeOK, LedgerKnown, CopiesCurrent
  <2> QED
    BY <2>1, <2>2
<1> QED
  BY <1>1, InitInductive, PTL DEF Spec

(* Stock, ledger, documents and jobs stay well typed: above all, stock is  *)
(* never negative (executeInventoryTransaction).                           *)
THEOREM WarehouseTypeCorrect == Spec => []TypeOK
  BY WarehouseInvariant, PTL DEF Inductive

-----------------------------------------------------------------------------
(* Returns: approved as often as they are received                         *)

(* One that may be received has an approval left.                          *)
ApprovedReturn(d) ==
    documents[d].kind = "return" =>
        /\ Cardinality(MovesFor(d)) <= documents[d].approvals
        /\ Receivable(d) => Cardinality(MovesFor(d)) < documents[d].approvals

ReturnsApproved == \A d \in DOMAIN documents : ApprovedReturn(d)

LEMMA MovesForCounted ==
    ASSUME Inductive, NEW d
    PROVE  IsFiniteSet(MovesFor(d)) /\ Cardinality(MovesFor(d)) \in Nat
<1>1. DOMAIN ledger = 1 .. Len(ledger) /\ Len(ledger) \in Nat
  BY DEF Inductive, TypeOK
<1>2. IsFiniteSet(1 .. Len(ledger)) /\ MovesFor(d) \subseteq 1 .. Len(ledger)
  BY <1>1, FS_Interval DEF MovesFor
<1> QED
  BY <1>2, FS_Subset, FS_CardinalityType

LEMMA MovesForMoved ==
    ASSUME Inductive, NEW e \in Nat, NEW q \in Int, Move(e, q)
    PROVE  /\ \A d : d # e => MovesFor(d)' = MovesFor(d)
           /\ Cardinality(MovesFor(e)') = Cardinality(MovesFor(e)) + 1
<1> DEFINE n == Len(ledger) + 1
<1>1. /\ DOMAIN ledger' = DOMAIN ledger \cup {n} /\ n \notin DOMAIN ledger
      /\ \A i \in DOMAIN ledger : ledger'[i] = ledger[i]
      /\ ledger'[n].document = e
  <2>1. /\ DOMAIN ledger' = 1 .. Len(ledger) + 1
        /\ DOMAIN ledger = 1 .. Len(ledger) /\ Len(ledger) \in Nat
        /\ \A i \in DOMAIN ledger : ledger'[i] = ledger[i]
        /\ ledger'[Len(ledger) + 1].document = e
    BY MoveTyped DEF Inductive
  <2> QED
    BY <2>1
<1>2. \A d : d # e => MovesFor(d)' = MovesFor(d)
  BY <1>1 DEF MovesFor
<1>3. MovesFor(e)' = MovesFor(e) \cup {n} /\ n \notin MovesFor(e)
  BY <1>1 DEF MovesFor
<1> QED
  BY <1>2, <1>3, MovesForCounted, FS_AddElement

(* A document is amended and nothing moves: it becomes receivable only by  *)
(* one more approval.                                                      *)
LEMMA AmendKeepsReturns ==
    ASSUME Inductive, ReturnsApproved, UNCHANGED ledger,
           NEW d \in DOMAIN documents, NEW document \in Document, Amend(d, document),
           document.kind = documents[d].kind,
           document.kind = "return" =>
              \/ document.approvals = documents[d].approvals + 1
              \/ /\ document.approvals = documents[d].approvals
                 /\ document.status # "APPROVED" \/ document.status = documents[d].status
    PROVE  ReturnsApproved'
<1>1. /\ DOMAIN documents' = DOMAIN documents /\ documents'[d] = document
      /\ \A e \in DOMAIN documents \ {d} : documents'[e] = documents[e]
  BY DocumentsAmended DEF Inductive
<1>2. \A e : MovesFor(e)' = MovesFor(e) /\ Cardinality(MovesFor(e)) \in Nat
  BY MovesForCounted DEF MovesFor
<1>3. \A e \in DOMAIN documents : documents[e].approvals \in Nat
  BY AmendedDocuments DEF Document
<1> QED
  BY <1>1, <1>2, <1>3 DEF ReturnsApproved, ApprovedReturn, Receivable, Is

(* Stock moves for the document that is amended, which is not receivable   *)
(* any more.                                                               *)
LEMMA MoveKeepsReturns ==
    ASSUME Inductive, ReturnsApproved,
           NEW d \in DOMAIN documents, NEW document \in Document, Amend(d, document),
           document.kind = documents[d].kind, Move(d, documents[d].quantity),
           document.kind = "return" =>
              Receivable(d) /\ document.status # "APPROVED"
                 /\ document.approvals = documents[d].approvals
    PROVE  ReturnsApproved'
<1>1. /\ DOMAIN documents' = DOMAIN documents /\ documents'[d] = document
      /\ \A e \in DOMAIN documents \ {d} : documents'[e] = documents[e]
  BY DocumentsAmended DEF Inductive
<1>2. d \in Nat /\ documents[d].quantity \in Int
  <2>1. documents[d] \in Document /\ documents \in Seq(Document)
    BY AmendedDocuments DEF Inductive, TypeOK
  <2> QED
    BY <2>1 DEF Document
<1>3. /\ \A e : e # d => MovesFor(e)' = MovesFor(e)
      /\ Cardinality(MovesFor(d)') = Cardinality(MovesFor(d)) + 1
  BY <1>2, MovesForMoved
<1>4. /\ \A e : Cardinality(MovesFor(e)) \in Nat
      /\ \A e \in DOMAIN documents : documents[e].approvals \in Nat
  BY AmendedDocuments, MovesForCounted DEF Document
<1>5. ASSUME NEW e \in DOMAIN documents, e # d PROVE ApprovedReturn(e)'
  BY <1>1, <1>3, <1>5 DEF ReturnsApproved, ApprovedReturn, Receivable, Is
<1>6. ApprovedReturn(d)'
  <2>1. CASE document.kind = "return"
    <3>1. /\ Cardinality(MovesFor(d)) < documents[d].approvals
          /\ ~ Receivable(d)' /\ documents'[d].approvals = documents[d].approvals
      BY <1>1, <2>1 DEF ReturnsApproved, ApprovedReturn, Receivable, Is
    <3>2. Cardinality(MovesFor(d)') <= documents'[d].approvals
      BY <1>3, <1>4, <3>1
    <3> QED
      BY <3>1, <3>2 DEF ApprovedReturn
  <2>2. CASE document.kind # "return"
    BY <1>1, <2>2 DEF ApprovedReturn
  <2> QED
    BY <2>1, <2>2
<1> QED
  BY <1>1, <1>5, <1>6 DEF ReturnsApproved

LEMMA DrawUpKeepsReturns ==
    ASSUME Inductive, ReturnsApproved, NEW w \in Workers, NEW document \in Document,
           DrawUp(w, document), document.kind = "return" => document.status # "APPROVED"
    PROVE  ReturnsApproved'
<1> PICK d \in Nat : d = Len(documents) + 1
  BY DEF Inductive, TypeOK
<1>1. /\ DOMAIN documents' = DOMAIN documents \cup {d} /\ documents'[d] = document
      /\ \A e \in DOMAIN documents : documents'[e] = documents[e] /\ e # d
      /\ d \notin 0 .. Len(documents)
  BY DocumentsGrow DEF Inductive, DrawUp
<1>2. \A e : MovesFor(e)' = MovesFor(e)
  BY DEF MovesFor, DrawUp
<1>3. MovesFor(d) = {}
  BY <1>1 DEF MovesFor, Inductive, LedgerKnown
<1>4. Cardinality(MovesFor(d)) = 0 /\ document.approvals \in Nat
  BY <1>3, FS_EmptySet DEF Document
<1>5. ASSUME NEW e \in DOMAIN documents PROVE ApprovedReturn(e)'
  BY <1>1, <1>2 DEF ReturnsApproved, ApprovedReturn, Receivable, Is
<1>6. ApprovedReturn(d)'
  <2>1. Cardinality(MovesFor(d)') = 0
    BY <1>2, <1>4
  <2> QED
    BY <1>1, <1>4, <2>1 DEF ApprovedReturn, Receivable, Is
<1>7. \A e \in DOMAIN documents \cup {d} : ApprovedReturn(e)'
  BY <1>5, <1>6
<1> QED
  BY <1>1, <1>7 DEF ReturnsApproved

LEMMA StepKeepsReturns ==
    ASSUME Inductive, ReturnsApproved, Step
    PROVE  ReturnsApproved'
<1> PICK w \in Workers :
        \/ DrawSome(w) \/ Serve(w) \/ ReadProduct(w) \/ Abandon(w)
        \/ \E q \in Quantities : MoveOtherwise(w, q)
        \/ \E d \in DOMAIN documents : Arrive(w, d)
  BY DEF Step
<1>t. TypeOK /\ jobs[w] \in Job
  BY DEF Inductive, TypeOK
<1>0. ASSUME jobs[w].op \notin {"idle", "saveProduct"}
      PROVE  jobs[w].doc \in DOMAIN documents
  BY <1>0, <1>t DEF TypeOK
<1>s. UNCHANGED <<ledger, documents>> => ReturnsApproved'
  BY DEF ReturnsApproved, ApprovedReturn, MovesFor, Receivable, Is
<1>1. CASE DrawSome(w)
  <2>1. PICK document \in Document :
           /\ document.status \in {"DRAFT", "PENDING_APPROVAL"} /\ DrawUp(w, document)
    BY <1>1, NewDocumentsTyped
       DEF DrawSome, AdjustStock, CreateCustomerReturn, CreateInventoryCount, NewDocument
  <2> QED
    BY <2>1, DrawUpKeepsReturns
<1>2. CASE \E q \in Quantities : MoveOtherwise(w, q)
  <2>1. PICK q \in Quantities : Move(0, q) /\ UNCHANGED documents
    BY <1>2 DEF MoveOtherwise
  <2>2. 0 \notin DOMAIN documents /\ q \in Int /\ 0 \in Nat
    BY <1>t, QuantitiesAssumption DEF TypeOK
  <2>3. \A d \in DOMAIN documents : MovesFor(d)' = MovesFor(d)
    BY <2>1, <2>2, MovesForMoved
  <2> QED
    BY <2>1, <2>3 DEF ReturnsApproved, ApprovedReturn, Receivable, Is
<1>3. CASE ReadProduct(w) \/ Abandon(w)
  BY <1>3, <1>s DEF ReadProduct, Abandon
<1>4. CASE Serve(w)
  <2>1. CASE DecideRequest(w) \/ CancelRequest(w)
    <3> DEFINE d == jobs[w].doc
    <3>1. PICK request \in {"APPROVED", "REJECTED", "CANCELLED"} :
             Amend(d, [documents[d] EXCEPT !.request = request])
      BY <1>t, <2>1 DEF DecideRequest, CancelRequest, Job, Idle
    <3>2. d \in DOMAIN documents /\ UNCHANGED ledger
      BY <1>0, <2>1 DEF DecideRequest, CancelRequest
    <3> DEFINE after == [documents[d] EXCEPT !.request = request]
    <3>3. documents[d] \in Document
      BY <3>2, AmendedDocuments
    <3>4. /\ after \in Document /\ after.kind = documents[d].kind
          /\ after.status = documents[d].status /\ after.approvals = documents[d].approvals
      BY <3>3 DEF Document
    <3> HIDE DEF after
    <3> QED
      BY <3>1, <3>2, <3>4, AmendKeepsReturns DEF after
  <2>2. CASE HearApproval(w) \/ HearRejection(w)
    <3> DEFINE d == jobs[w].doc
               status == IF jobs[w].outcome = "APPROVED" THEN "APPROVED"
                         ELSE IF documents[d].kind = "count" THEN "CANCELLED" ELSE "REJECTED"
               after == [documents[d] EXCEPT !.status = status]
    <3>1. /\ d \in DOMAIN documents /\ Waits(w, d) /\ Amend(d, after)
          /\ UNCHANGED ledger \/ Move(d, documents[d].quantity)
      BY <1>0, <2>2 DEF HearApproval, HearRejection
    <3>s. status \in {"APPROVED", "REJECTED", "CANCELLED"}
      OBVIOUS
    <3> HIDE DEF status
    <3>2. after \in Document /\ after.kind = documents[d].kind
      <4>1. documents[d] \in Document
        BY <3>1, AmendedDocuments
      <4> QED
        BY <3>s, <4>1 DEF Document
    <3>3. documents[d].kind # "return"
      BY <3>1 DEF Waits, Is
    <3> HIDE DEF after
    <3> QED
      BY <3>1, <3>2, <3>3, AmendKeepsReturns, MoveKeepsReturns
  <2>3. CASE HearNothing(w) \/ SaveProduct(w)
    BY <1>s, <2>3 DEF HearNothing, SaveProduct
  <2>4. CASE SaveReturn(w)
    <3> DEFINE d == jobs[w].doc
               next == jobs[w].next
               after == SavedReturn(d, next)
    <3>1. /\ d \in DOMAIN documents /\ Amend(d, after) /\ UNCHANGED ledger
          /\ next \in {"SUBMITTED", "APPROVED", "REJECTED"}
      BY <1>0, <1>t, <2>4 DEF SaveReturn, Job, Idle
    <3>2. /\ after \in Document /\ after.kind = documents[d].kind /\ after.status = next
          /\ after.approvals = IF next = "APPROVED" THEN documents[d].approvals + 1
                                                    ELSE documents[d].approvals
      BY <3>1, SavedReturns
    <3> HIDE DEF after, d, next
    <3> QED
      BY <3>1, <3>2, AmendKeepsReturns
  <2> QED
    BY <1>4, <2>1, <2>2, <2>3, <2>4 DEF Serve
<1>5. CASE \E d \in DOMAIN documents : Arrive(w, d)
  <2> PICK d \in DOMAIN documents : Arrive(w, d)
    BY <1>5
  <2>1. CASE \E counted \in 0 .. MaxStock :
                UpdateInventoryCountItems(w, d, counted) \/ SubmitInventoryCount(w, d, counted)
    <3> PICK counted \in 0 .. MaxStock :
                UpdateInventoryCountItems(w, d, counted) \/ SubmitInventoryCount(w, d, counted)
      BY <2>1
    <3> DEFINE submitted == [Recounted(d, counted) EXCEPT
                                !.status = "SUBMITTED", !.user = w, !.request = "PENDING"]
    <3>1. /\ UNCHANGED ledger /\ documents[d].kind = "count"
          /\ Amend(d, Recounted(d, counted)) \/ Amend(d, submitted)
      BY DEF UpdateInventoryCountItems, SubmitInventoryCount, Is
    <3>2. counted \in Nat
      BY StockAssumption
    <3>3. /\ Recounted(d, counted) \in Document /\ submitted \in Document
          /\ Recounted(d, counted).kind = documents[d].kind
          /\ submitted.kind = documents[d].kind
      BY <3>2, AmendedDocuments, ZenonT(30)
    <3> HIDE DEF submitted
    <3> QED
      BY <3>1, <3>3, AmendKeepsReturns
  <2>2. CASE \/ \E outcome \in {"APPROVED", "REJECTED"} : LoadRequest(w, d, outcome)
             \/ LoadRequestToCancel(w, d)
             \/ \E next \in {"SUBMITTED", "APPROVED", "REJECTED"} : ReadReturn(w, d, next)
    BY <1>s, <2>2 DEF LoadRequest, LoadRequestToCancel, ReadReturn
  <2>3. CASE ReceiveCustomerReturn(w, d)
    <3> DEFINE after == [documents[d] EXCEPT !.status = "RECEIVED"]
    <3>1. Move(d, documents[d].quantity) /\ Amend(d, after) /\ Receivable(d)
      BY <2>3 DEF ReceiveCustomerReturn
    <3>2. documents[d] \in Document
      BY AmendedDocuments
    <3>3. /\ after \in Document /\ after.kind = documents[d].kind /\ after.status = "RECEIVED"
          /\ after.approvals = documents[d].approvals
      BY <3>2 DEF Document
    <3> HIDE DEF after
    <3> QED
      BY <3>1, <3>3, MoveKeepsReturns
  <2> QED
    BY <2>1, <2>2, <2>3 DEF Arrive
<1> QED
  BY <1>1, <1>2, <1>3, <1>4, <1>5

(* Whatever overlaps, stock comes back once at most for each approval of a *)
(* customer return (approveCustomerReturn, receiveCustomerReturn).         *)
THEOREM ReturnsReceivedByApproval == Spec => []ReceivedByApproval
<1>1. Init => ReturnsApproved
  BY DEF Init, ReturnsApproved
<1>2. Inductive /\ ReturnsApproved /\ [Next]_vars => ReturnsApproved'
  <2>1. ASSUME Inductive, ReturnsApproved, Next PROVE ReturnsApproved'
    BY <2>1, StepKeepsReturns DEF Next
  <2>2. ASSUME ReturnsApproved, UNCHANGED vars PROVE ReturnsApproved'
    BY <2>2 DEF vars, ReturnsApproved, ApprovedReturn, MovesFor, Receivable, Is
  <2> QED
    BY <2>1, <2>2
<1>3. ReturnsApproved => ReceivedByApproval
  BY DEF ReturnsApproved, ApprovedReturn, ReceivedByApproval
<1> QED
  BY <1>1, <1>2, <1>3, WarehouseInvariant, PTL DEF Spec

-----------------------------------------------------------------------------
(* The refinement: what every step is in terms of phases and movements     *)

LEMMA DocumentsWithinBounds ==
    ASSUME Inductive, NEW n \in Nat, n <= MaxDocuments[overlap]
    PROVE  n \in 0 .. MaxDocuments[TRUE] + MaxDocuments[FALSE]
<1>1. \A b \in BOOLEAN : MaxDocuments[b] \in Nat
  BY BoundsAssumption
<1>2. MaxDocuments[TRUE] \in Nat /\ MaxDocuments[FALSE] \in Nat
  BY <1>1, Zenon
<1>3. overlap \in BOOLEAN
  BY ModesAssumption DEF Inductive, TypeOK
<1>4. MaxDocuments[overlap] = MaxDocuments[TRUE] \/ MaxDocuments[overlap] = MaxDocuments[FALSE]
  BY <1>3, Zenon
<1> DEFINE a == MaxDocuments[TRUE]
           b == MaxDocuments[FALSE]
           c == MaxDocuments[overlap]
<1>5. a \in Nat /\ b \in Nat /\ (c = a \/ c = b) /\ n <= c
  BY <1>2, <1>4, Zenon
<1>6. n \in 0 .. a + b
  <2> HIDE DEF a, b, c
  <2> QED
    BY <1>5
<1> QED
  BY <1>6, Zenon

LEMMA PhasesOfDocuments ==
    /\ \A a, b \in Document : a.kind = b.kind /\ a.status = b.status => PhaseOf(a) = PhaseOf(b)
    /\ \A a \in Document :
          /\ a.status \in {"DRAFT", "SUBMITTED", "PENDING_APPROVAL"} => PhaseOf(a) = "open"
          /\ a.status \in {"REJECTED", "CANCELLED"} => PhaseOf(a) = "refused"
          /\ a.kind = "return" /\ a.status = "APPROVED" => PhaseOf(a) = "open"
          /\ a.kind = "return" /\ a.status = "RECEIVED" => PhaseOf(a) = "applied"
          /\ a.kind # "return" /\ a.status = "APPROVED" => PhaseOf(a) = "applied"
  BY DEF PhaseOf, Applied

LEMMA PhaseDefined ==
    ASSUME TypeOK
    PROVE  /\ DOMAIN Phase = {e \in DOMAIN documents : Promised(e)}
           /\ \A e \in DOMAIN documents : Promised(e) => Phase[e] = PhaseOf(documents[e])
           /\ \A e \in DOMAIN Phase : e \in Nat /\ e > 0
  BY DEF Phase, TypeOK

LEMMA PhaseAmended ==
    ASSUME TypeOK, UNCHANGED overlap, NEW d \in DOMAIN documents, NEW document \in Document,
           document.kind = documents[d].kind, Amend(d, document)
    PROVE  /\ Promised(d) => Phase' = [Phase EXCEPT ![d] = PhaseOf(document)]
           /\ ~ Promised(d) \/ PhaseOf(document) = PhaseOf(documents[d]) => Phase' = Phase
<1>1. /\ DOMAIN documents' = DOMAIN documents /\ documents'[d] = document
      /\ \A e \in DOMAIN documents \ {d} : documents'[e] = documents[e]
  BY DocumentsAmended
<1>2. /\ Phase' = [e \in {e \in DOMAIN documents' : Promised(e)'} |-> PhaseOf(documents'[e])]
      /\ Phase = [e \in {e \in DOMAIN documents : Promised(e)} |-> PhaseOf(documents[e])]
  BY DEF Phase
<1>3. \A e \in DOMAIN documents : Promised(e)' <=> Promised(e)
  BY <1>1 DEF Promised
<1>4. {e \in DOMAIN documents' : Promised(e)'} = {e \in DOMAIN documents : Promised(e)}
  BY <1>1, <1>3
<1>5. Phase' = [e \in {e \in DOMAIN documents : Promised(e)} |-> PhaseOf(documents'[e])]
  BY <1>2, <1>4
<1> QED
  BY <1>1, <1>2, <1>5

LEMMA PhaseGrown ==
    ASSUME Inductive, UNCHANGED <<overlap, ledger>>, NEW document \in Document,
           PhaseOf(document) = "open", documents' = Append(documents, document),
           Len(documents) < MaxDocuments[overlap]
    PROVE  Promise!Next \/ UNCHANGED <<Phase, Movers>>
<1> DEFINE d == Len(documents) + 1
<1>1. /\ DOMAIN documents = 1 .. Len(documents) /\ Len(documents) \in Nat
      /\ DOMAIN documents' = DOMAIN documents \cup {d}
      /\ \A e \in DOMAIN documents : documents'[e] = documents[e]
      /\ documents'[d] = document
  BY DocumentsGrow DEF Inductive
<1> DEFINE Kept  == {e \in DOMAIN documents : ~ overlap \/ documents[e].kind # "return"}
           KeptNow == {e \in DOMAIN documents' : ~ overlap \/ documents'[e].kind # "return"}
<1>2. /\ Phase' = [e \in KeptNow |-> PhaseOf(documents'[e])]
      /\ Phase = [e \in Kept |-> PhaseOf(documents[e])]
      /\ Movers' = Movers
  BY DEF Phase, Promised, Movers
<1>4. CASE overlap /\ document.kind = "return"
  <2>1. KeptNow = Kept
    BY <1>1, <1>4
  <2>2. Phase' = Phase
    BY <1>1, <1>2, <2>1
  <2> QED
    BY <1>2, <2>2
<1>5. CASE ~ overlap \/ document.kind # "return"
  <2>1. KeptNow = Kept \cup {d}
    BY <1>1, <1>5
  <2>2. Phase' = [e \in DOMAIN Phase \cup {d} |-> IF e = d THEN "open" ELSE Phase[e]]
    BY <1>1, <1>2, <2>1
  <2>3. d \notin DOMAIN Phase
    BY <1>1, <1>2
  <2>4. ~ Promise!Moved(d)
    BY <1>1 DEF Promise!Moved, Movers, Inductive, LedgerKnown
  <2>5. d \in 0 .. MaxDocuments[TRUE] + MaxDocuments[FALSE]
    <3>1. MaxDocuments[overlap] \in Nat
      BY ModesAssumption, BoundsAssumption DEF Inductive, TypeOK
    <3>2. d \in Nat /\ d <= MaxDocuments[overlap]
      BY <1>1, <3>1
    <3> QED
      BY <3>2, DocumentsWithinBounds
  <2>6. Promise!Draw(d)
    BY <1>2, <2>2, <2>3, <2>4 DEF Promise!Draw
  <2> QED
    BY <2>5, <2>6 DEF Promise!Next
<1> QED
  BY <1>4, <1>5

LEMMA MoversGrow ==
    ASSUME TypeOK, NEW d \in Nat, NEW q \in Int, Move(d, q)
    PROVE  Movers' = Append(Movers, d)
<1>1. /\ ledger' \in Seq(Movement) /\ ledger \in Seq(Movement)
      /\ DOMAIN ledger' = 1 .. Len(ledger) + 1
      /\ DOMAIN ledger = 1 .. Len(ledger) /\ Len(ledger) \in Nat
      /\ \A i \in DOMAIN ledger : ledger'[i] = ledger[i]
      /\ ledger'[Len(ledger) + 1].document = d
  BY MoveTyped DEF TypeOK
<1>2. /\ Movers' = [i \in 1 .. Len(ledger) + 1 |-> ledger'[i].document]
      /\ Movers = [i \in 1 .. Len(ledger) |-> ledger[i].document]
  BY <1>1 DEF Movers
<1>3. \A i \in 1 .. Len(ledger) : ledger[i].document \in Nat
  <2>1. \A i \in 1 .. Len(ledger) : ledger[i] \in Movement
    BY <1>1
  <2> QED
    BY <2>1 DEF Movement
<1>4. Movers \in Seq(Nat) /\ Len(Movers) = Len(ledger)
  BY <1>1, <1>2, <1>3
<1> QED
  BY <1>1, <1>2, <1>4

(* A document hears of its decision, or of its receipt, or its copy is     *)
(* saved: it takes the step of its phase.                                  *)
LEMMA PhaseStep ==
    ASSUME Inductive, UNCHANGED overlap, NEW d \in DOMAIN documents,
           NEW document \in Document, document.kind = documents[d].kind, Amend(d, document),
           \/ UNCHANGED <<stock, ledger>> /\ PhaseOf(document) = PhaseOf(documents[d])
           \/ UNCHANGED <<stock, ledger>> /\ ~ Promised(d)
           \/ UNCHANGED <<stock, ledger>> /\ PhaseOf(documents[d]) = "open"
                                         /\ PhaseOf(document) \in {"applied", "refused"}
           \/ Move(d, documents[d].quantity) /\ ~ Promised(d)
           \/ Move(d, documents[d].quantity) /\ PhaseOf(documents[d]) = "open"
                                            /\ PhaseOf(document) = "applied"
    PROVE  Promise!Next \/ UNCHANGED <<Phase, Movers>>
<1>0. TypeOK /\ documents[d] \in Document
  BY AmendedDocuments DEF Inductive
<1>1. /\ d \in Nat /\ documents[d].quantity \in Int
      /\ d \in 0 .. MaxDocuments[TRUE] + MaxDocuments[FALSE]
  <2>1. d \in Nat /\ d <= MaxDocuments[overlap]
    <3>1. /\ d \in 1 .. Len(documents) /\ Len(documents) \in Nat
          /\ Len(documents) <= MaxDocuments[overlap]
      BY DEF Inductive, TypeOK, LedgerKnown
    <3>2. MaxDocuments[overlap] \in Nat
      BY ModesAssumption, BoundsAssumption DEF Inductive, TypeOK
    <3> QED
      BY <3>1, <3>2
  <2> QED
    BY <1>0, <2>1, DocumentsWithinBounds DEF Document
<1>2. /\ Promised(d) => Phase' = [Phase EXCEPT ![d] = PhaseOf(document)]
      /\ ~ Promised(d) \/ PhaseOf(document) = PhaseOf(documents[d]) => Phase' = Phase
  BY <1>0, PhaseAmended
<1>3. /\ d \in DOMAIN Phase <=> Promised(d)
      /\ Promised(d) => Phase[d] = PhaseOf(documents[d])
  BY <1>0, PhaseDefined
<1>4. /\ UNCHANGED ledger => UNCHANGED Movers
      /\ Move(d, documents[d].quantity) => Movers' = Append(Movers, d)
  BY <1>0, <1>1, MoversGrow DEF Movers
<1>5. CASE UNCHANGED ledger /\ (PhaseOf(document) = PhaseOf(documents[d]) \/ ~ Promised(d))
  BY <1>2, <1>4, <1>5
<1>6. CASE Move(d, documents[d].quantity) /\ ~ Promised(d)
  <2>1. Promise!Other(d)
    BY <1>2, <1>3, <1>4, <1>6 DEF Promise!Other
  <2> QED
    BY <1>1, <2>1 DEF Promise!Next
<1>7. CASE /\ Promised(d) /\ PhaseOf(documents[d]) = "open"
           /\ \/ UNCHANGED ledger /\ PhaseOf(document) \in {"applied", "refused"}
              \/ Move(d, documents[d].quantity) /\ PhaseOf(document) = "applied"
  <2>1. Promise!Apply(d) \/ Promise!Refuse(d)
    BY <1>2, <1>3, <1>4, <1>7 DEF Promise!Apply, Promise!Refuse
  <2> QED
    BY <1>1, <2>1 DEF Promise!Next
<1> QED
  BY <1>5, <1>6, <1>7

LEMMA StepRefines ==
    Inductive /\ Step /\ UNCHANGED overlap => Promise!Next \/ UNCHANGED <<Phase, Movers>>
<1> SUFFICES ASSUME Inductive, Step, UNCHANGED overlap
             PROVE  Promise!Next \/ UNCHANGED <<Phase, Movers>>
  OBVIOUS
<1> PICK w \in Workers :
        \/ DrawSome(w) \/ Serve(w) \/ ReadProduct(w) \/ Abandon(w)
        \/ \E q \in Quantities : MoveOtherwise(w, q)
        \/ \E d \in DOMAIN documents : Arrive(w, d)
  BY DEF Step
<1>t. /\ TypeOK /\ CopiesCurrent /\ jobs[w] \in Job
      /\ \A d \in DOMAIN documents : documents[d] \in Document
  BY AmendedDocuments DEF Inductive, TypeOK
<1>0. ASSUME jobs[w].op \notin {"idle", "saveProduct"}
      PROVE  jobs[w].doc \in DOMAIN documents
  BY <1>0, <1>t DEF TypeOK
<1>s. UNCHANGED <<documents, ledger>> => UNCHANGED <<Phase, Movers>>
  BY DEF Phase, Promised, Movers
<1>1. CASE DrawSome(w)
  <2>1. PICK document \in Document :
           /\ document.status \in {"DRAFT", "PENDING_APPROVAL"} /\ DrawUp(w, document)
    BY <1>1, NewDocumentsTyped
       DEF DrawSome, AdjustStock, CreateCustomerReturn, CreateInventoryCount, NewDocument
  <2> QED
    BY <2>1, PhasesOfDocuments, PhaseGrown DEF DrawUp
<1>2. CASE \E q \in Quantities : MoveOtherwise(w, q)
  <2> PICK q \in Quantities : MoveOtherwise(w, q)
    BY <1>2
  <2>1. Move(0, q) /\ UNCHANGED documents /\ q \in Int
    BY QuantitiesAssumption DEF MoveOtherwise
  <2>2. Movers' = Append(Movers, 0) /\ Phase' = Phase
    BY <1>t, <2>1, MoversGrow DEF Phase, Promised
  <2>3. 0 \notin DOMAIN Phase
    BY <1>t, PhaseDefined
  <2>4. 0 \in 0 .. MaxDocuments[TRUE] + MaxDocuments[FALSE]
    <3>1. 0 <= MaxDocuments[overlap]
      BY ModesAssumption, BoundsAssumption DEF Inductive, TypeOK
    <3> QED
      BY <3>1, DocumentsWithinBounds
  <2>5. Promise!Other(0)
    BY <2>2, <2>3 DEF Promise!Other
  <2> QED
    BY <2>4, <2>5 DEF Promise!Next
<1>3. CASE ReadProduct(w) \/ Abandon(w)
  BY <1>3, <1>s DEF ReadProduct, Abandon
<1>5. CASE Serve(w)
  <2>1. CASE DecideRequest(w) \/ CancelRequest(w)
    <3> DEFINE d == jobs[w].doc
    <3>1. PICK request \in {"APPROVED", "REJECTED", "CANCELLED"} :
             Amend(d, [documents[d] EXCEPT !.request = request])
      BY <1>t, <2>1 DEF DecideRequest, CancelRequest, Job, Idle
    <3>2. d \in DOMAIN documents /\ UNCHANGED <<stock, ledger>>
      BY <1>0, <2>1 DEF DecideRequest, CancelRequest
    <3> DEFINE after == [documents[d] EXCEPT !.request = request]
    <3>3. after \in Document /\ after.kind = documents[d].kind /\ after.status = documents[d].status
      BY <3>2, AmendedDocuments
    <3> HIDE DEF after
    <3>4. PhaseOf(after) = PhaseOf(documents[d])
      BY <1>t, <3>2, <3>3, PhasesOfDocuments
    <3> QED
      BY <3>1, <3>2, <3>3, <3>4, PhaseStep DEF after
  <2>2. CASE HearApproval(w) \/ HearRejection(w)
    <3> DEFINE d == jobs[w].doc
               status == IF jobs[w].outcome = "APPROVED" THEN "APPROVED"
                         ELSE IF documents[d].kind = "count" THEN "CANCELLED" ELSE "REJECTED"
               after == [documents[d] EXCEPT !.status = status]
    <3>1. /\ d \in DOMAIN documents /\ Waits(w, d) /\ Amend(d, after)
          /\ \/ UNCHANGED <<stock, ledger>>
             \/ jobs[w].outcome = "APPROVED" /\ Move(d, documents[d].quantity)
      BY <1>0, <2>2 DEF HearApproval, HearRejection
    <3>s. /\ status \in {"APPROVED", "REJECTED", "CANCELLED"}
          /\ jobs[w].outcome = "APPROVED" => status = "APPROVED"
      OBVIOUS
    <3> HIDE DEF status
    <3>2. after \in Document /\ after.kind = documents[d].kind /\ after.status = status
      BY <1>t, <3>1, <3>s DEF Document
    <3>3. /\ documents[d] \in Document /\ documents[d].kind # "return"
          /\ documents[d].status \in {"PENDING_APPROVAL", "SUBMITTED"}
      BY <1>t, <3>1 DEF Waits, Is
    <3> HIDE DEF after
    <3>4. /\ PhaseOf(documents[d]) = "open" /\ PhaseOf(after) \in {"applied", "refused"}
          /\ jobs[w].outcome = "APPROVED" => PhaseOf(after) = "applied"
      BY <3>s, <3>2, <3>3, PhasesOfDocuments
    <3> QED
      BY <3>1, <3>2, <3>4, PhaseStep
  <2>3. CASE HearNothing(w) \/ SaveProduct(w)
    BY <1>s, <2>3 DEF HearNothing, SaveProduct
  <2>4. CASE SaveReturn(w)
    <3> DEFINE d == jobs[w].doc
               next == jobs[w].next
               after == SavedReturn(d, next)
    <3>1. /\ d \in DOMAIN documents /\ Amend(d, after) /\ UNCHANGED <<stock, ledger>>
          /\ next \in {"SUBMITTED", "APPROVED", "REJECTED"}
      BY <1>0, <1>t, <2>4 DEF SaveReturn, Job, Idle
    <3>2. after \in Document /\ after.kind = documents[d].kind /\ after.status = next
      BY <3>1, SavedReturns
    <3>3. /\ documents[d] \in Document /\ documents[d].kind = "return"
          /\ ~ overlap => documents[d].status \in FromWhich(next)
      BY <1>t, <2>4, <3>1 DEF SaveReturn, CopiesCurrent
    <3> HIDE DEF after
    <3>4. CASE overlap
      <4>1. ~ Promised(d)
        BY <3>3, <3>4 DEF Promised
      <4> QED
        BY <3>1, <3>2, <4>1, PhaseStep
    <3>5. CASE ~ overlap
      <4>1. /\ documents[d].status \in {"DRAFT", "SUBMITTED", "APPROVED"}
            /\ next = "REJECTED" \/ next = "SUBMITTED" \/ next = "APPROVED"
        BY <3>1, <3>3, <3>5 DEF FromWhich
      <4>2. PhaseOf(documents[d]) = "open" /\ PhaseOf(after) \in {"open", "refused"}
        BY <3>2, <3>3, <4>1, PhasesOfDocuments
      <4> QED
        BY <3>1, <3>2, <4>2, PhaseStep
    <3> QED
      BY <3>4, <3>5
  <2> QED
    BY <1>5, <2>1, <2>2, <2>3, <2>4 DEF Serve
<1>6. CASE \E d \in DOMAIN documents : Arrive(w, d)
  <2> PICK d \in DOMAIN documents : Arrive(w, d)
    BY <1>6
  <2>1. CASE \E counted \in 0 .. MaxStock :
                UpdateInventoryCountItems(w, d, counted) \/ SubmitInventoryCount(w, d, counted)
    <3> PICK counted \in 0 .. MaxStock :
                UpdateInventoryCountItems(w, d, counted) \/ SubmitInventoryCount(w, d, counted)
      BY <2>1
    <3> DEFINE submitted == [Recounted(d, counted) EXCEPT
                                !.status = "SUBMITTED", !.user = w, !.request = "PENDING"]
    <3>1. /\ UNCHANGED <<stock, ledger>> /\ documents[d].status = "DRAFT"
          /\ Amend(d, Recounted(d, counted)) \/ Amend(d, submitted)
      BY DEF UpdateInventoryCountItems, SubmitInventoryCount, Is
    <3>2. /\ Recounted(d, counted) \in Document /\ submitted \in Document
          /\ Recounted(d, counted).kind = documents[d].kind
          /\ Recounted(d, counted).status = documents[d].status
          /\ submitted.kind = documents[d].kind /\ submitted.status = "SUBMITTED"
      <4>1. counted \in Nat
        BY StockAssumption
      <4>2. /\ Recounted(d, counted) \in Document
            /\ Recounted(d, counted).kind = documents[d].kind
            /\ Recounted(d, counted).status = documents[d].status
        BY <4>1, AmendedDocuments
      <4>3. /\ submitted \in Document
            /\ submitted.kind = documents[d].kind /\ submitted.status = "SUBMITTED"
        <5>1. ASSUME NEW before \in Document
              PROVE  LET after == [before EXCEPT !.status = "SUBMITTED", !.user = w,
                                                 !.request = "PENDING"]
                     IN  after \in Document /\ after.kind = before.kind /\ after.status = "SUBMITTED"
          BY DEF Document
        <5> QED
          BY <4>2, <5>1
      <4> QED
        BY <4>2, <4>3
    <3> HIDE DEF submitted
    <3>3. /\ PhaseOf(Recounted(d, counted)) = PhaseOf(documents[d])
          /\ PhaseOf(submitted) = PhaseOf(documents[d])
      BY <1>t, <3>1, <3>2, PhasesOfDocuments
    <3> QED
      BY <3>1, <3>2, <3>3, PhaseStep
  <2>2. CASE \/ \E outcome \in {"APPROVED", "REJECTED"} : LoadRequest(w, d, outcome)
             \/ LoadRequestToCancel(w, d)
             \/ \E next \in {"SUBMITTED", "APPROVED", "REJECTED"} : ReadReturn(w, d, next)
    BY <1>s, <2>2 DEF LoadRequest, LoadRequestToCancel, ReadReturn
  <2>3. CASE ReceiveCustomerReturn(w, d)
    <3> DEFINE after == [documents[d] EXCEPT !.status = "RECEIVED"]
    <3>1. /\ Move(d, documents[d].quantity) /\ Amend(d, after)
          /\ documents[d].kind = "return" /\ documents[d].status = "APPROVED"
      BY <2>3 DEF ReceiveCustomerReturn, Receivable, Is
    <3>2. after \in Document /\ after.kind = documents[d].kind /\ after.status = "RECEIVED"
      BY AmendedDocuments
    <3> HIDE DEF after
    <3>3. PhaseOf(documents[d]) = "open" /\ PhaseOf(after) = "applied"
      BY <1>t, <3>1, <3>2, PhasesOfDocuments
    <3> QED
      BY <3>1, <3>2, <3>3, PhaseStep
  <2> QED
    BY <2>1, <2>2, <2>3 DEF Arrive
<1> QED
  BY <1>1, <1>2, <1>3, <1>5, <1>6

(* Every document of the warehouse keeps its promise: InventoryService     *)
(* implements StockDocuments.                                              *)
THEOREM WarehouseKeepsPromise == Spec => PromiseKept
<1>1. Init => Promise!Init
  BY DEF Init, Promise!Init, Phase, Movers
<1>2. Inductive /\ [Next]_vars => [Promise!Next]_(Promise!vars)
  <2>1. ASSUME Inductive, Next PROVE Promise!Next \/ UNCHANGED Promise!vars
    BY <2>1, StepRefines DEF Next, Promise!vars
  <2>2. ASSUME UNCHANGED vars PROVE UNCHANGED Promise!vars
    BY <2>2 DEF vars, Promise!vars, Phase, Promised, Movers
  <2> QED
    BY <2>1, <2>2
<1> QED
  BY <1>1, <1>2, WarehouseInvariant, PTL DEF Spec, PromiseKept, Promise!Spec

-----------------------------------------------------------------------------
(* Users served one at a time: the stock is what the ledger adds up to     *)

(* What the first n rows of ledger l moved, and what those after the m-th. *)
Moves(l, n)    == SumTo([k \in 1 .. n |-> l[k].change], n)
Since(l, m, n) == SumTo([k \in 1 .. n |-> IF k <= m THEN 0 ELSE l[k].change], n)

(* The variance of a count is of the stock there was when it was drawn.    *)
CountOf(document, l) ==
    document.kind = "count" =>
        /\ document.drawn <= Len(l)
        /\ document.quantity = document.counted - (Opening + Moves(l, document.drawn))

(* A movement for a count leaves what was counted and moved since, and the *)
(* count is approved, which nobody amends.                                 *)
RowOfCount(l, i, document) ==
    document.kind = "count" =>
        /\ document.status = "APPROVED"
        /\ l[i].balance = document.counted + Since(l, document.drawn, i - 1)

CountsOK(l, ds) ==
    /\ \A d \in DOMAIN ds : CountOf(ds[d], l)
    /\ \A i \in DOMAIN l : \A d \in DOMAIN ds :
          l[i].document = d => RowOfCount(l, i, ds[d])

StockOK(units, l, js) ==
    /\ units = Opening + Moves(l, Len(l))
    /\ l # <<>> => units = l[Len(l)].balance
    /\ \A w \in Workers : js[w].op = "saveProduct" => js[w].read = units

Shelf == StockOK(stock, ledger, jobs) /\ CountsOK(ledger, documents)

Serial == ~ overlap => Shelf

LEMMA MovementsOfLedger ==
    ASSUME NEW l \in Seq(Movement)
    PROVE  /\ Len(l) \in Nat /\ DOMAIN l = 1 .. Len(l)
           /\ \A k \in 1 .. Len(l) : l[k].change \in Int /\ l[k].balance \in Nat
<1>1. ASSUME NEW k \in 1 .. Len(l) PROVE l[k].change \in Int /\ l[k].balance \in Nat
  <2>1. l[k] \in Movement
    OBVIOUS
  <2> QED
    BY <2>1 DEF Movement
<1> QED
  BY <1>1

LEMMA MovesInt ==
    ASSUME NEW l \in Seq(Movement), NEW n \in 0 .. Len(l)
    PROVE  Moves(l, n) \in Int
<1> DEFINE f == [k \in 1 .. n |-> l[k].change]
<1>1. n \in Nat /\ f \in [1 .. n -> Int]
  BY MovementsOfLedger
<1> HIDE DEF f
<1>2. SumTo(f, n) \in Int
  BY <1>1, SumToInt
<1> QED
  BY <1>2 DEF Moves, f

(* What moved since is the difference of what moved until then and now.    *)
LEMMA SinceIsDifference ==
    ASSUME NEW l \in Seq(Movement), NEW n \in 0 .. Len(l), NEW m \in 0 .. n
    PROVE  Since(l, m, n) = Moves(l, n) - Moves(l, m)
<1> DEFINE f == [k \in 1 .. n |-> l[k].change]
           g == [k \in 1 .. n |-> IF k <= m THEN l[k].change ELSE 0]
           h == [k \in 1 .. n |-> IF k <= m THEN 0 ELSE l[k].change]
           e == [k \in 1 .. m |-> l[k].change]
<1>1. n \in Nat /\ m \in Nat /\ \A k \in 1 .. n : l[k].change \in Int
  BY MovementsOfLedger
<1>2. /\ f \in [1 .. n -> Int] /\ g \in [1 .. n -> Int] /\ h \in [1 .. n -> Int]
      /\ e \in [1 .. m -> Int]
      /\ \A k \in 1 .. n : h[k] = f[k] - g[k]
      /\ \A k \in 1 .. n : g[k] = IF k <= m THEN e[k] ELSE 0
  BY <1>1
<1> HIDE DEF e, f, g, h
<1>3. SumTo(h, n) = SumTo(f, n) - SumTo(g, n)
  BY <1>1, <1>2, SumDifference
<1>4. SumTo(g, n) = SumTo(e, m)
  BY <1>1, <1>2, SumPrefix
<1> QED
  BY <1>3, <1>4 DEF Since, Moves, e, f, h

(* A movement is added: sums of what was there stay.                       *)
LEMMA LedgerGrows ==
    ASSUME NEW l \in Seq(Movement), NEW row \in Movement
    PROVE  LET l2 == Append(l, row)
               n  == Len(l)
           IN  /\ l2 \in Seq(Movement) /\ n \in Nat /\ Len(l2) = n + 1
               /\ DOMAIN l = 1 .. n /\ DOMAIN l2 = 1 .. n + 1
               /\ l2[n + 1] = row /\ \A k \in 1 .. n : l2[k] = l[k]
               /\ Moves(l2, n + 1) = Moves(l, n) + row.change
               /\ \A k \in 0 .. n : Moves(l2, k) = Moves(l, k)
               /\ \A k \in 0 .. n, m \in Nat : Since(l2, m, k) = Since(l, m, k)
<1> DEFINE l2 == Append(l, row)
           n  == Len(l)
           f  == [k \in 1 .. n |-> l[k].change]
           g  == [k \in 1 .. n + 1 |-> l2[k].change]
<1>1. /\ l2 \in Seq(Movement) /\ n \in Nat /\ Len(l2) = n + 1
      /\ DOMAIN l = 1 .. n /\ DOMAIN l2 = 1 .. n + 1
      /\ l2[n + 1] = row /\ \A k \in 1 .. n : l2[k] = l[k]
  OBVIOUS
<1>2. \A k \in 1 .. n + 1 : l2[k].change \in Int
  BY <1>1, MovementsOfLedger
<1> HIDE DEF l2
<1>3. /\ f \in [1 .. n -> Int] /\ g \in [1 .. n + 1 -> Int]
      /\ \A k \in 1 .. n : g[k] = f[k]
      /\ g[n + 1] = row.change
  BY <1>1, <1>2, MovementsOfLedger
<1> HIDE DEF f, g, n
<1>4. SumTo(g, n + 1) = SumTo(f, n) + g[n + 1]
  BY <1>1, <1>3, SumExtend
<1>5. Moves(l2, n + 1) = Moves(l, n) + row.change
  BY <1>3, <1>4 DEF Moves, f, g
<1>6. ASSUME NEW k \in 0 .. n
      PROVE  Moves(l2, k) = Moves(l, k) /\ \A m \in Nat : Since(l2, m, k) = Since(l, m, k)
  <2>1. \A j \in 1 .. k : l2[j] = l[j]
    BY <1>1
  <2>2. [j \in 1 .. k |-> l2[j].change] = [j \in 1 .. k |-> l[j].change]
    BY <2>1
  <2>3. ASSUME NEW m \in Nat
        PROVE  [j \in 1 .. k |-> IF j <= m THEN 0 ELSE l2[j].change]
                 = [j \in 1 .. k |-> IF j <= m THEN 0 ELSE l[j].change]
    BY <2>1
  <2> QED
    BY <2>2, <2>3 DEF Moves, Since
<1> QED
  BY <1>1, <1>5, <1>6 DEF l2, n

(* The documents after a movement for d, which is approved if it is a count*)
LEMMA MoveKeepsShelf ==
    ASSUME TypeOK, StockOK(stock, ledger, jobs), NEW ds \in Seq(Document),
           CountsOK(ledger, ds),
           NEW d \in Nat, NEW q \in Int, Move(d, q),
           d \in DOMAIN ds /\ ds[d].kind = "count" =>
              ds[d].status = "APPROVED" /\ ds[d].quantity = q,
           \A w \in Workers : jobs'[w].op # "saveProduct"
    PROVE  StockOK(stock', ledger', jobs') /\ CountsOK(ledger', ds)
<1> DEFINE row == [document |-> d, change |-> q, balance |-> stock + q]
           n   == Len(ledger)
<1>1. /\ ledger \in Seq(Movement) /\ stock \in Nat /\ stock + q \in Nat
      /\ row \in Movement /\ ledger' = Append(ledger, row) /\ stock' = stock + q
  BY StockAssumption DEF Move, Movable, Movement, TypeOK
<1>2. row.change = q /\ row.balance = stock + q /\ row.document = d
  OBVIOUS
<1> HIDE DEF row
<1>3. /\ ledger' \in Seq(Movement) /\ n \in Nat /\ Len(ledger') = n + 1
      /\ DOMAIN ledger = 1 .. n /\ DOMAIN ledger' = 1 .. n + 1
      /\ ledger'[n + 1] = row /\ \A k \in 1 .. n : ledger'[k] = ledger[k]
      /\ Moves(ledger', n + 1) = Moves(ledger, n) + q
      /\ \A k \in 0 .. n : Moves(ledger', k) = Moves(ledger, k)
      /\ \A k \in 0 .. n, m \in Nat : Since(ledger', m, k) = Since(ledger, m, k)
  BY <1>1, <1>2, LedgerGrows
<1>4. stock = Opening + Moves(ledger, n) /\ Opening \in Int
  BY StockAssumption DEF StockOK
<1> HIDE DEF n
<1>5. Moves(ledger, n) \in Int
  BY <1>1, <1>3, MovesInt DEF n
<1>6. StockOK(stock', ledger', jobs')
  BY <1>1, <1>2, <1>3, <1>4, <1>5 DEF StockOK
<1>7. \A e \in DOMAIN ds : ds[e] \in Document
  OBVIOUS
<1>8. ASSUME NEW e \in DOMAIN ds PROVE CountOf(ds[e], ledger')
  <2>1. CountOf(ds[e], ledger) /\ ds[e].drawn \in Nat
    BY <1>7 DEF CountsOK, Document
  <2> QED
    BY <1>3, <2>1 DEF CountOf, n
<1>9. ASSUME NEW i \in DOMAIN ledger', NEW e \in DOMAIN ds, ledger'[i].document = e
      PROVE  RowOfCount(ledger', i, ds[e])
  <2>1. ds[e].drawn \in Nat /\ ds[e].counted \in Nat /\ CountOf(ds[e], ledger)
    BY <1>7 DEF CountsOK, Document
  <2>2. CASE i \in DOMAIN ledger
    <3>1. RowOfCount(ledger, i, ds[e])
      BY <1>3, <1>9, <2>2 DEF CountsOK
    <3>2. i - 1 \in 0 .. n /\ ledger'[i] = ledger[i]
      BY <1>3, <2>2
    <3> QED
      BY <1>3, <2>1, <3>1, <3>2 DEF RowOfCount
  <2>3. CASE i = n + 1 /\ ds[e].kind = "count"
    <3>1. e = d /\ ds[e].status = "APPROVED" /\ ds[e].quantity = q
      BY <1>2, <1>3, <1>9, <2>3
    <3>2. /\ ds[e].drawn \in 0 .. n
          /\ q = ds[e].counted - (Opening + Moves(ledger, ds[e].drawn))
      BY <1>3, <2>1, <2>3, <3>1 DEF CountOf, n
    <3> DEFINE m == ds[e].drawn
               a == Moves(ledger, n)
               b == Moves(ledger, m)
    <3> HIDE DEF m, a, b
    <3>3. /\ m \in 0 .. Len(ledger) /\ n \in 0 .. Len(ledger) /\ m \in 0 .. n
      BY <1>3, <3>2 DEF m, n
    <3>4. Since(ledger, m, n) = a - b
      BY <1>1, <3>3, SinceIsDifference DEF a, b
    <3>5. a \in Int /\ b \in Int
      BY <1>1, <3>3, MovesInt DEF a, b
    <3>6. n + 1 - 1 = n /\ n \in 0 .. n
      BY <1>3
    <3>7. stock = Opening + a /\ q = ds[e].counted - (Opening + b) /\ Opening \in Int
      BY <1>4, <3>2 DEF a, b, m
    <3>8. ledger'[i].balance = stock + q
      BY <1>2, <1>3, <2>3
    <3>9. ledger'[i].balance = ds[e].counted + (a - b)
      BY <2>1, <3>5, <3>7, <3>8
    <3>10. Since(ledger', m, i - 1) = a - b
      BY <1>3, <2>1, <2>3, <3>4, <3>6 DEF m
    <3> QED
      BY <3>1, <3>9, <3>10 DEF RowOfCount, m
  <2> QED
    BY <1>3, <2>2, <2>3 DEF RowOfCount
<1> QED
  BY <1>6, <1>8, <1>9 DEF CountsOK

(* What amending may not do to a count: change when it was drawn, what was *)
(* there then, or anything once it is approved.                            *)
KeepsCount(before, after) ==
    /\ after.kind = before.kind
    /\ before.kind = "count" =>
          /\ after.drawn = before.drawn
          /\ after.quantity - after.counted = before.quantity - before.counted
          /\ before.status = "APPROVED" =>
                after.status = "APPROVED" /\ after.counted = before.counted

LEMMA CountStays ==
    ASSUME NEW before \in Document, NEW after \in Document, KeepsCount(before, after),
           NEW l, \A m \in Nat : m <= Len(l) => Moves(l, m) \in Int,
           CountOf(before, l)
    PROVE  CountOf(after, l)
<1>1. /\ before.quantity \in Int /\ before.counted \in Nat /\ before.drawn \in Nat
      /\ after.quantity \in Int /\ after.counted \in Nat
  BY DEF Document
<1>2. SUFFICES ASSUME before.kind = "count"
               PROVE  /\ after.drawn <= Len(l)
                      /\ after.quantity = after.counted - (Opening + Moves(l, after.drawn))
  BY DEF CountOf, KeepsCount
<1> DEFINE m == Moves(l, before.drawn)
<1>3. /\ after.drawn = before.drawn /\ before.drawn <= Len(l)
      /\ after.quantity - after.counted = before.quantity - before.counted
      /\ before.quantity = before.counted - (Opening + m)
  BY <1>2 DEF CountOf, KeepsCount
<1>4. m \in Int /\ Opening \in Int
  BY <1>1, <1>3, StockAssumption
<1> HIDE DEF m
<1>5. after.quantity = after.counted - (Opening + m)
  BY <1>1, <1>3, <1>4
<1> QED
  BY <1>3, <1>5 DEF m

LEMMA AmendKeepsCounts ==
    ASSUME Inductive, CountsOK(ledger, documents),
           NEW d \in DOMAIN documents, NEW document \in Document, Amend(d, document),
           KeepsCount(documents[d], document)
    PROVE  CountsOK(ledger, documents')
<1>1. /\ documents' \in Seq(Document) /\ DOMAIN documents' = DOMAIN documents
      /\ \A e \in DOMAIN documents \ {d} : documents'[e] = documents[e]
      /\ documents'[d] = document
  BY DocumentsAmended DEF Inductive
<1>2. \A m \in Nat : m <= Len(ledger) => Moves(ledger, m) \in Int
  BY MovesInt DEF Inductive, TypeOK
<1>3. documents[d] \in Document
  BY AmendedDocuments
<1>4. CountOf(document, ledger)
  BY <1>2, <1>3, CountStays DEF CountsOK
<1>5. ASSUME NEW i \in DOMAIN ledger, ledger[i].document = d
      PROVE  RowOfCount(ledger, i, document)
  BY <1>5 DEF CountsOK, RowOfCount, KeepsCount
<1> QED
  BY <1>1, <1>4, <1>5 DEF CountsOK

LEMMA DrawUpKeepsCounts ==
    ASSUME Inductive, CountsOK(ledger, documents), NEW document \in Document,
           documents' = Append(documents, document), CountOf(document, ledger)
    PROVE  CountsOK(ledger, documents')
<1>1. /\ DOMAIN documents = 1 .. Len(documents) /\ Len(documents) \in Nat
      /\ DOMAIN documents' = 1 .. Len(documents) + 1
      /\ \A e \in DOMAIN documents : documents'[e] = documents[e]
      /\ documents'[Len(documents) + 1] = document
  BY DocumentsGrow DEF Inductive
<1>2. \A i \in DOMAIN ledger : ledger[i].document # Len(documents) + 1
  BY <1>1 DEF Inductive, LedgerKnown
<1> QED
  BY <1>1, <1>2 DEF CountsOK

(* What the code amends keeps counts: a status, unless the count is        *)
(* approved; what became of the request; what was counted, in a draft.     *)
LEMMA AmendedCounts ==
    ASSUME Inductive, NEW d \in DOMAIN documents
    PROVE  /\ \A status \in {"SUBMITTED", "APPROVED", "RECEIVED", "REJECTED", "CANCELLED"} :
                 [documents[d] EXCEPT !.status = status].quantity = documents[d].quantity
           /\ \A status \in {"SUBMITTED", "APPROVED", "RECEIVED", "REJECTED", "CANCELLED"} :
                 ~ Is(d, "count", "APPROVED") =>
                    KeepsCount(documents[d], [documents[d] EXCEPT !.status = status])
           /\ \A request \in {"APPROVED", "REJECTED", "CANCELLED"} :
                 KeepsCount(documents[d], [documents[d] EXCEPT !.request = request])
           /\ \A counted \in Nat, w \in Workers : Is(d, "count", "DRAFT") =>
                 /\ KeepsCount(documents[d], Recounted(d, counted))
                 /\ KeepsCount(documents[d], [Recounted(d, counted) EXCEPT
                                 !.status = "SUBMITTED", !.user = w, !.request = "PENDING"])
<1>1. /\ documents[d] \in Document /\ documents[d].quantity \in Int
      /\ documents[d].counted \in Nat
  BY AmendedDocuments DEF Document
<1>2. ASSUME NEW status \in {"SUBMITTED", "APPROVED", "RECEIVED", "REJECTED", "CANCELLED"},
             ~ Is(d, "count", "APPROVED")
      PROVE  KeepsCount(documents[d], [documents[d] EXCEPT !.status = status])
  BY <1>1, <1>2 DEF Is, KeepsCount, Document
<1>3. ASSUME NEW request \in {"APPROVED", "REJECTED", "CANCELLED"}
      PROVE  KeepsCount(documents[d], [documents[d] EXCEPT !.request = request])
  BY <1>1 DEF KeepsCount, Document
<1>4. ASSUME NEW counted \in Nat, NEW w \in Workers, Is(d, "count", "DRAFT")
      PROVE  /\ KeepsCount(documents[d], Recounted(d, counted))
             /\ KeepsCount(documents[d], [Recounted(d, counted) EXCEPT
                              !.status = "SUBMITTED", !.user = w, !.request = "PENDING"])
  <2> DEFINE before == documents[d]
             quantity == before.quantity + counted - before.counted
             after == [before EXCEPT !.counted = counted, !.quantity = quantity]
             submitted == [after EXCEPT !.status = "SUBMITTED", !.user = w, !.request = "PENDING"]
  <2>1. before.kind = "count" /\ before.status = "DRAFT" /\ before \in Document
    BY <1>1, <1>4 DEF Is
  <2>2. quantity - counted = before.quantity - before.counted
    BY <1>1
  <2> HIDE DEF quantity
  <2>3. KeepsCount(before, after) /\ KeepsCount(before, submitted)
    <3> HIDE DEF before
    <3> QED
      BY <2>1, <2>2 DEF KeepsCount, Document
  <2> QED
    BY <2>3 DEF Recounted, quantity
<1>5. ASSUME NEW before \in Document, NEW status
      PROVE  [before EXCEPT !.status = status].quantity = before.quantity
  BY DEF Document
<1> QED
  BY <1>1, <1>2, <1>3, <1>4, <1>5

(* Nothing moves, and no product form is open afterwards.                  *)
LEMMA StillShelf ==
    ASSUME Shelf, UNCHANGED <<stock, ledger>>, CountsOK(ledger, documents'),
           \A w \in Workers : jobs'[w].op # "saveProduct"
    PROVE  Shelf'
  BY DEF Shelf, StockOK

LEMMA AmendKeepsShelf ==
    ASSUME Inductive, Shelf, UNCHANGED <<stock, ledger>>,
           \A w \in Workers : jobs'[w].op # "saveProduct",
           NEW d \in DOMAIN documents, NEW document \in Document, Amend(d, document),
           KeepsCount(documents[d], document)
    PROVE  Shelf'
<1>1. CountsOK(ledger, documents')
  BY AmendKeepsCounts DEF Shelf
<1> QED
  BY <1>1, StillShelf

(* Stock moves for the document that is amended.                           *)
LEMMA MoveAndAmendKeepsShelf ==
    ASSUME Inductive, Shelf, \A w \in Workers : jobs'[w].op # "saveProduct",
           NEW d \in DOMAIN documents, Move(d, documents[d].quantity),
           NEW document \in Document, Amend(d, document), KeepsCount(documents[d], document),
           document.quantity = documents[d].quantity,
           document.kind = "count" => document.status = "APPROVED"
    PROVE  Shelf'
<1> DEFINE q == documents[d].quantity
<1>1. CountsOK(ledger, documents')
  BY AmendKeepsCounts DEF Shelf
<1>2. /\ documents' \in Seq(Document) /\ documents'[d] = document
      /\ DOMAIN documents' = DOMAIN documents
  BY DocumentsAmended DEF Inductive
<1>3. d \in Nat /\ q \in Int
  <2>1. documents[d] \in Document /\ documents \in Seq(Document)
    BY AmendedDocuments DEF Inductive, TypeOK
  <2> QED
    BY <2>1 DEF Document
<1>4. StockOK(stock, ledger, jobs) /\ TypeOK
  BY DEF Shelf, Inductive
<1>5. d \in DOMAIN documents' /\ documents'[d].kind = "count" =>
         documents'[d].status = "APPROVED" /\ documents'[d].quantity = q
  BY <1>2
<1> HIDE DEF q
<1>6. Move(d, q)
  BY DEF q
<1>7. StockOK(stock', ledger', jobs') /\ CountsOK(ledger', documents')
  BY <1>1, <1>2, <1>3, <1>4, <1>5, <1>6, MoveKeepsShelf
<1> QED
  BY <1>7 DEF Shelf

(* Every step of users served one at a time keeps the shelf.               *)
LEMMA StepKeepsShelf ==
    ASSUME Inductive, Shelf, ~ overlap, Step
    PROVE  Shelf'
<1> PICK w \in Workers :
        \/ DrawSome(w) \/ Serve(w) \/ ReadProduct(w) \/ Abandon(w)
        \/ \E q \in Quantities : MoveOtherwise(w, q)
        \/ \E d \in DOMAIN documents : Arrive(w, d)
  BY DEF Step
<1>t. /\ TypeOK /\ CopiesCurrent /\ stock \in Nat /\ jobs[w] \in Job
      /\ ledger \in Seq(Movement) /\ jobs \in [Workers -> Job]
      /\ documents \in Seq(Document)
  BY DEF Inductive, TypeOK
<1>s. StockOK(stock, ledger, jobs) /\ CountsOK(ledger, documents)
  BY DEF Shelf
<1>a. jobs[w] # Idle => Alone(w)
  BY <1>t, WhoActsIsAlone
<1>n. ASSUME Alone(w), NEW job, job.op # "saveProduct", jobs' = [jobs EXCEPT ![w] = job]
      PROVE  \A v \in Workers : jobs'[v].op # "saveProduct"
  BY <1>t, <1>n, IdleIsJob DEF Alone
<1>f. ASSUME Free(w), UNCHANGED jobs
      PROVE  \A v \in Workers : jobs'[v].op # "saveProduct"
  BY <1>t, <1>f, IdleIsJob DEF Free, Alone
<1>0. ASSUME jobs[w].op \notin {"idle", "saveProduct"}
      PROVE  Alone(w) /\ jobs[w].doc \in DOMAIN documents
  BY <1>0, <1>t, <1>a, IdleIsJob DEF TypeOK
<1>e. ASSUME jobs[w] # Idle, Finish(w)
      PROVE  \A v \in Workers : jobs'[v].op # "saveProduct"
  BY <1>a, <1>e, <1>n, IdleIsJob DEF Finish
<1>1. CASE DrawSome(w)
  <2>1. ASSUME NEW document \in Document, CountOf(document, ledger), DrawUp(w, document)
        PROVE  Shelf'
    <3>1. CountsOK(ledger, documents')
      BY <1>s, <2>1, DrawUpKeepsCounts DEF DrawUp
    <3> QED
      BY <1>f, <2>1, <3>1, StillShelf DEF DrawUp
  <2>2. ASSUME NEW q \in Quantities
        PROVE  /\ NewDocument("adjustment", "PENDING_APPROVAL", q, 0, w, "PENDING") \in Document
               /\ NewDocument("return", "DRAFT", q, 0, w, "none") \in Document
               /\ CountOf(NewDocument("adjustment", "PENDING_APPROVAL", q, 0, w, "PENDING"), ledger)
               /\ CountOf(NewDocument("return", "DRAFT", q, 0, w, "none"), ledger)
    BY NewDocumentsTyped DEF CountOf, NewDocument
  <2>3. ASSUME NEW counted \in 0 .. MaxStock
        PROVE  LET document == NewDocument("count", "DRAFT", counted - stock, counted, w, "none")
               IN  document \in Document /\ CountOf(document, ledger)
    <3>1. NewDocument("count", "DRAFT", counted - stock, counted, w, "none") \in Document
      BY NewDocumentsTyped
    <3>2. stock = Opening + Moves(ledger, Len(ledger)) /\ Len(ledger) \in Nat
      BY <1>s, <1>t DEF StockOK
    <3> QED
      BY <3>1, <3>2 DEF CountOf, NewDocument
  <2> QED
    BY <1>1, <2>1, <2>2, <2>3 DEF DrawSome, AdjustStock, CreateCustomerReturn, CreateInventoryCount
<1>2. CASE \E q \in Quantities : MoveOtherwise(w, q)
  <2> PICK q \in Quantities : MoveOtherwise(w, q)
    BY <1>2
  <2>1. /\ Move(0, q) /\ UNCHANGED <<documents, jobs>> /\ Free(w) /\ q \in Int
        /\ 0 \notin DOMAIN documents /\ 0 \in Nat
    BY <1>t, QuantitiesAssumption DEF MoveOtherwise
  <2>2. \A v \in Workers : jobs'[v].op # "saveProduct"
    BY <1>f, <2>1
  <2>3. StockOK(stock', ledger', jobs') /\ CountsOK(ledger', documents)
    BY <1>s, <1>t, <2>1, <2>2, MoveKeepsShelf
  <2> QED
    BY <2>1, <2>3 DEF Shelf
<1>3. CASE ReadProduct(w)
  <2> DEFINE job == [op |-> "saveProduct", read |-> stock]
  <2>1. /\ Alone(w) /\ jobs' = [jobs EXCEPT ![w] = job] /\ UNCHANGED <<stock, ledger, documents>>
    BY <1>3 DEF ReadProduct, Begin, Free
  <2>2. \A v \in Workers : jobs'[v].op = "saveProduct" => jobs'[v].read = stock
    BY <1>t, <2>1, IdleIsJob DEF Alone
  <2> QED
    BY <1>s, <2>1, <2>2 DEF Shelf, StockOK
<1>4. CASE Abandon(w)
  BY <1>4, <1>e, <1>s, StillShelf DEF Abandon
<1>5. CASE Serve(w)
  <2>1. CASE DecideRequest(w)
    <3>1. /\ jobs[w].op = "decide" /\ jobs[w].outcome \in {"APPROVED", "REJECTED"}
          /\ jobs[w] \in [op : {"decide", "hear"}, doc : Nat, outcome : {"APPROVED", "REJECTED"}]
      BY <1>t, <2>1 DEF DecideRequest, Job, Idle
    <3>2. [jobs[w] EXCEPT !.op = "hear"].op # "saveProduct"
      BY <3>1
    <3>3. \A v \in Workers : jobs'[v].op # "saveProduct"
      BY <1>0, <1>n, <2>1, <3>1, <3>2 DEF DecideRequest, Proceed
    <3> QED
      BY <1>0, <2>1, <3>1, <3>3, AmendedDocuments, AmendedCounts, AmendKeepsShelf DEF DecideRequest
  <2>2. CASE CancelRequest(w)
    <3>1. jobs[w].op = "cancelRequest" /\ jobs[w] # Idle
      BY <2>2 DEF CancelRequest, Idle
    <3>2. \A v \in Workers : jobs'[v].op # "saveProduct"
      BY <1>e, <2>2, <3>1 DEF CancelRequest
    <3> QED
      BY <1>0, <2>2, <3>1, <3>2, AmendedDocuments, AmendedCounts, AmendKeepsShelf DEF CancelRequest
  <2>3. CASE HearApproval(w)
    <3> DEFINE d == jobs[w].doc
               document == [documents[d] EXCEPT !.status = "APPROVED"]
    <3>1. /\ jobs[w] # Idle /\ Finish(w) /\ d \in DOMAIN documents
          /\ Amend(d, document) /\ Waits(w, d)
          /\ Move(d, documents[d].quantity) \/ UNCHANGED <<stock, ledger>>
      BY <1>0, <2>3, IdleIsJob DEF HearApproval
    <3>2. \A v \in Workers : jobs'[v].op # "saveProduct"
      BY <1>e, <3>1
    <3>3. ~ Is(d, "count", "APPROVED")
      BY <3>1 DEF Waits, Is
    <3>4. document \in Document /\ KeepsCount(documents[d], document)
      BY <3>1, <3>3, AmendedDocuments, AmendedCounts
    <3>5. document.status = "APPROVED" /\ document.quantity = documents[d].quantity
      BY <3>1, AmendedDocuments, AmendedCounts
    <3> HIDE DEF document, d
    <3> QED
      BY <3>1, <3>2, <3>4, <3>5, AmendKeepsShelf, MoveAndAmendKeepsShelf
  <2>4. CASE HearRejection(w)
    <3> DEFINE d == jobs[w].doc
               status == IF documents[d].kind = "count" THEN "CANCELLED" ELSE "REJECTED"
    <3>1. /\ jobs[w] # Idle /\ Finish(w) /\ d \in DOMAIN documents
          /\ Amend(d, [documents[d] EXCEPT !.status = status]) /\ Waits(w, d)
          /\ UNCHANGED <<stock, ledger>>
      BY <1>0, <2>4, IdleIsJob DEF HearRejection
    <3>2. \A v \in Workers : jobs'[v].op # "saveProduct"
      BY <1>e, <3>1
    <3>3. ~ Is(d, "count", "APPROVED")
      BY <3>1 DEF Waits, Is
    <3> QED
      BY <3>1, <3>2, <3>3, AmendedDocuments, AmendedCounts, AmendKeepsShelf
  <2>5. CASE HearNothing(w)
    <3>1. jobs[w] # Idle /\ Finish(w) /\ UNCHANGED <<stock, ledger, documents>>
      BY <2>5, IdleIsJob DEF HearNothing
    <3> QED
      BY <1>e, <1>s, <3>1, StillShelf
  <2>6. CASE SaveReturn(w)
    <3> DEFINE d == jobs[w].doc
    <3>1. /\ jobs[w].next \in {"SUBMITTED", "APPROVED", "REJECTED"}
          /\ jobs[w].op = "saveReturn" /\ jobs[w] # Idle
      BY <1>t, <2>6 DEF SaveReturn, Job, Idle
    <3>2. \A v \in Workers : jobs'[v].op # "saveProduct"
      BY <1>e, <2>6, <3>1 DEF SaveReturn
    <3> DEFINE document == SavedReturn(d, jobs[w].next)
    <3>3. d \in DOMAIN documents /\ documents[d].kind = "return"
      BY <1>0, <1>t, <3>1 DEF CopiesCurrent
    <3>4. document \in Document /\ KeepsCount(documents[d], document)
      BY <3>1, <3>3, SavedReturns DEF KeepsCount
    <3>5. UNCHANGED <<stock, ledger>> /\ Amend(d, document)
      BY <2>6 DEF SaveReturn
    <3> HIDE DEF document, d
    <3> QED
      BY <3>2, <3>3, <3>4, <3>5, AmendKeepsShelf
  <2>7. CASE SaveProduct(w)
    <3>1. jobs[w].op = "saveProduct" /\ jobs[w] # Idle /\ jobs[w].read = stock
      BY <1>s, <2>7, IdleIsJob DEF SaveProduct, StockOK
    <3>2. stock' = stock /\ UNCHANGED <<ledger, documents>> /\ Finish(w)
      BY <2>7, <3>1 DEF SaveProduct, SavedStock, Saved
    <3> QED
      BY <1>e, <1>s, <3>1, <3>2, StillShelf
  <2> QED
    BY <1>5, <2>1, <2>2, <2>3, <2>4, <2>5, <2>6, <2>7 DEF Serve
<1>6. CASE \E d \in DOMAIN documents : Arrive(w, d)
  <2> PICK d \in DOMAIN documents : Arrive(w, d)
    BY <1>6
  <2>1. CASE \E counted \in 0 .. MaxStock :
                UpdateInventoryCountItems(w, d, counted) \/ SubmitInventoryCount(w, d, counted)
    <3> PICK counted \in 0 .. MaxStock :
                UpdateInventoryCountItems(w, d, counted) \/ SubmitInventoryCount(w, d, counted)
      BY <2>1
    <3>1. counted \in Nat
      BY StockAssumption
    <3> DEFINE submitted == [Recounted(d, counted) EXCEPT
                                !.status = "SUBMITTED", !.user = w, !.request = "PENDING"]
    <3>2. /\ Free(w) /\ UNCHANGED <<stock, ledger, jobs>> /\ Is(d, "count", "DRAFT")
          /\ Amend(d, Recounted(d, counted)) \/ Amend(d, submitted)
      BY DEF UpdateInventoryCountItems, SubmitInventoryCount
    <3>3. /\ Recounted(d, counted) \in Document /\ submitted \in Document
      BY <3>1, AmendedDocuments
    <3>4. /\ KeepsCount(documents[d], Recounted(d, counted))
          /\ KeepsCount(documents[d], submitted)
      BY <3>1, <3>2, AmendedCounts
    <3>5. \A v \in Workers : jobs'[v].op # "saveProduct"
      BY <1>f, <3>2
    <3> HIDE DEF submitted
    <3> QED
      BY <3>2, <3>3, <3>4, <3>5, AmendKeepsShelf
  <2>2. CASE \E job : /\ job.op # "saveProduct" /\ Begin(w, job)
                      /\ UNCHANGED <<stock, ledger, documents>>
    BY <1>n, <1>s, <2>2, StillShelf DEF Begin, Free
  <2>3. CASE ReceiveCustomerReturn(w, d)
    <3> DEFINE document == [documents[d] EXCEPT !.status = "RECEIVED"]
    <3>1. /\ Free(w) /\ UNCHANGED jobs /\ documents[d].kind = "return"
          /\ Move(d, documents[d].quantity) /\ Amend(d, document)
      BY <2>3 DEF ReceiveCustomerReturn, Receivable, Is
    <3>2. /\ document \in Document /\ KeepsCount(documents[d], document)
          /\ document.kind = "return"
      BY <3>1, AmendedDocuments, AmendedCounts DEF Is
    <3>3. document.quantity = documents[d].quantity
      BY AmendedCounts
    <3>4. \A v \in Workers : jobs'[v].op # "saveProduct"
      BY <1>f, <3>1
    <3> HIDE DEF document
    <3> QED
      BY <3>1, <3>2, <3>3, <3>4, MoveAndAmendKeepsShelf
  <2>4. CASE \/ \E outcome \in {"APPROVED", "REJECTED"} : LoadRequest(w, d, outcome)
             \/ LoadRequestToCancel(w, d)
             \/ \E next \in {"SUBMITTED", "APPROVED", "REJECTED"} : ReadReturn(w, d, next)
    <3>1. /\ \A outcome : [op |-> "decide", doc |-> d, outcome |-> outcome].op # "saveProduct"
          /\ [op |-> "cancelRequest", doc |-> d].op # "saveProduct"
          /\ \A next : [op |-> "saveReturn", doc |-> d, next |-> next].op # "saveProduct"
      OBVIOUS
    <3> QED
      BY <2>2, <2>4, <3>1 DEF LoadRequest, LoadRequestToCancel, ReadReturn
  <2> QED
    BY <2>1, <2>3, <2>4 DEF Arrive
<1> QED
  BY <1>1, <1>2, <1>3, <1>4, <1>5, <1>6

(* Serial holds in every reachable state.                                  *)
THEOREM SerialInvariant == Spec => []Serial
<1>1. Init => Serial
  <2> SUFFICES ASSUME Init PROVE Shelf
    BY DEF Serial
  <2>1. Moves(ledger, 0) = 0 /\ Len(ledger) = 0
    <3> DEFINE none == [k \in 1 .. 0 |-> ledger[k].change]
    <3>1. none \in [1 .. 0 -> Int] /\ 0 \in Nat /\ \A k \in 1 .. 0 : none[k] = 0
      OBVIOUS
    <3> HIDE DEF none
    <3>2. SumTo(none, 0) = 0
      BY <3>1, SumToZero
    <3> QED
      BY <3>2 DEF Init, Moves, none
  <2>2. StockOK(stock, ledger, jobs)
    BY <2>1, StockAssumption, IdleIsJob DEF Init, StockOK
  <2>3. CountsOK(ledger, documents)
    BY DEF Init, CountsOK
  <2> QED
    BY <2>2, <2>3 DEF Shelf
<1>2. Inductive /\ Serial /\ [Next]_vars => Serial'
  <2>1. ASSUME Inductive, Serial, Next PROVE Serial'
    BY <2>1, StepKeepsShelf DEF Serial, Next
  <2>2. ASSUME Serial, UNCHANGED vars PROVE Serial'
    BY <2>2 DEF vars, Serial, Shelf, StockOK, CountsOK
  <2> QED
    BY <2>1, <2>2
<1> QED
  BY <1>1, <1>2, WarehouseInvariant, PTL DEF Spec

(* Users served one at a time: an approved count leaves what was counted   *)
(* and what moved since it was drawn (applyInventoryCountLines).           *)
THEOREM CountsKeepWhatMoved == Spec => []CountKeepsMovements
<1>1. Serial => CountKeepsMovements
  BY DEF Serial, Shelf, CountsOK, RowOfCount, Since, CountKeepsMovements
<1> QED
  BY <1>1, SerialInvariant, PTL

-----------------------------------------------------------------------------
(* What the promise is worth: stock moves once                             *)

LEMMA PromiseTyped ==
    ASSUME Inductive
    PROVE  /\ Movers \in Seq(Nat)
           /\ Phase \in [DOMAIN Phase -> {"open", "applied", "refused"}]
<1>1. \A i \in DOMAIN ledger : ledger[i].document \in Nat
  <2>1. ledger \in Seq(Movement)
    BY DEF Inductive, TypeOK
  <2>2. \A i \in DOMAIN ledger : ledger[i] \in Movement
    BY <2>1
  <2> QED
    BY <2>2 DEF Movement
<1>2. Movers \in Seq(Nat)
  BY <1>1 DEF Inductive, TypeOK, Movers
<1>3. \A d \in DOMAIN documents : PhaseOf(documents[d]) \in {"open", "applied", "refused"}
  BY DEF PhaseOf
<1> QED
  BY <1>2, <1>3 DEF Phase

(* Every step the promise allows keeps MovedOnce.                          *)
LEMMA PromiseMovesOnce ==
    ASSUME Movers \in Seq(Nat), Phase \in [DOMAIN Phase -> {"open", "applied", "refused"}],
           Promise!MovedOnce, [Promise!Next]_(Promise!vars)
    PROVE  Promise!MovedOnce'
<1>a. ASSUME NEW d, Movers' = Append(Movers, d)
      PROVE  /\ DOMAIN Movers' = 1 .. Len(Movers) + 1
             /\ \A i \in DOMAIN Movers : Movers'[i] = Movers[i]
             /\ Movers'[Len(Movers) + 1] = d
             /\ DOMAIN Movers = 1 .. Len(Movers) /\ Len(Movers) \in Nat
  BY <1>a
<1>0. CASE UNCHANGED Promise!vars
  BY <1>0 DEF Promise!MovedOnce, Promise!vars
<1>1. ASSUME NEW d, Promise!Draw(d) PROVE Promise!MovedOnce'
  BY <1>1 DEF Promise!MovedOnce, Promise!Draw, Promise!Moved
<1>2. ASSUME NEW d, Promise!Apply(d) PROVE Promise!MovedOnce'
  <2>1. \A i \in DOMAIN Movers : Movers[i] # d
    BY <1>2 DEF Promise!MovedOnce, Promise!Apply
  <2>2. CASE Movers' = Append(Movers, d)
    BY <1>2, <1>a, <2>1, <2>2 DEF Promise!MovedOnce, Promise!Apply
  <2>3. CASE UNCHANGED Movers
    BY <1>2, <2>3 DEF Promise!MovedOnce, Promise!Apply
  <2> QED
    BY <1>2, <2>2, <2>3 DEF Promise!Apply
<1>3. ASSUME NEW d, Promise!Refuse(d) PROVE Promise!MovedOnce'
  BY <1>3 DEF Promise!MovedOnce, Promise!Refuse
<1>4. ASSUME NEW d, Promise!Other(d) PROVE Promise!MovedOnce'
  BY <1>4, <1>a DEF Promise!MovedOnce, Promise!Other
<1> QED
  BY <1>0, <1>1, <1>2, <1>3, <1>4 DEF Promise!Next

(* The stock moves for a document at most once, and only when it is applied*)
(* (approveInventoryAdjustmentFromWorkflow, approveInventoryCount and, when*)
(* users are served one at a time, receiveCustomerReturn).                 *)
THEOREM WarehouseMovesOnce == Spec => []Promise!MovedOnce
<1>1. Init => Promise!MovedOnce
  BY DEF Init, Promise!MovedOnce, Movers
<1>2. Inductive /\ Promise!MovedOnce /\ [Promise!Next]_(Promise!vars) => Promise!MovedOnce'
  BY PromiseTyped, PromiseMovesOnce
<1> QED
  BY <1>1, <1>2, WarehouseInvariant, WarehouseKeepsPromise, PTL DEF Spec, PromiseKept, Promise!Spec
=============================================================================
