------------------------------- MODULE SalesProofs -------------------------------
(***************************************************************************)
(* What holds of sales contracts, of the shipments that share their rows,  *)
(* and of what buyers owe, for every number of contracts, products,        *)
(* shipments, workers and requests, with requests that overlap or not.     *)
(* Contracts and receivables share no state but the workers: each has its  *)
(* own specification, invariant and theorems.                              *)
(***************************************************************************)
EXTENDS Fulfilment, Receivables, SumTheorems

-----------------------------------------------------------------------------
(* SALES CONTRACTS                                                         *)

-----------------------------------------------------------------------------
(* The inductive invariant, in parts that name the state they speak of     *)

(* An approver has approved contract c. *)
ApprovedIn(c, reqs, dec) ==
    \E r \in DOMAIN reqs : /\ reqs[r].type = "SALES_CONTRACT" /\ reqs[r].contract = c
                           /\ <<r, "APPROVED">> \in dec

(* Nothing undoes an approval: requests keep their subject, and decisions  *)
(* are only added.                                                         *)
History(reqs, dec, reqs2, dec2) ==
    /\ DOMAIN reqs \subseteq DOMAIN reqs2
    /\ \A r \in DOMAIN reqs : /\ reqs2[r].type = reqs[r].type
                              /\ reqs2[r].contract = reqs[r].contract
    /\ dec \subseteq dec2

(* What a job knows stays true until it writes: a contract that is being   *)
(* signed or cancelled was approved; a decision to be heard was taken.     *)
JobSound(job, reqs, dec) ==
    /\ job.op \in {"sign", "requestCancel", "cancelRequested"} =>
          ApprovedIn(job.contract, reqs, dec)
    /\ job.op \in {"act", "withdraw", "notify", "complete"} => job.req \in DOMAIN reqs
    /\ job.op \in {"notify", "complete"} => <<job.req, job.outcome>> \in dec

JobsOK(js, reqs, dec) ==
    /\ js \in [Workers -> Job]
    /\ \A w \in Workers : JobSound(js[w], reqs, dec)

(* Only an approved contract is ever asked to be cancelled. *)
RequestsOK(reqs, dec) ==
    /\ reqs \in Seq(Request)
    /\ \A r \in DOMAIN reqs :
          reqs[r].type = "SALES_CONTRACT_CANCEL" => ApprovedIn(reqs[r].contract, reqs, dec)

ContractsOK(status, reqs, dec) ==
    /\ status \in [Contracts -> Statuses]
    /\ \A c \in Contracts : status[c] \in ApprovedStages => ApprovedIn(c, reqs, dec)

StockOK(units, promised) ==
    /\ units \in [Products -> Nat]
    /\ promised \in [Products -> Nat]

Inductive ==
    /\ ContractsOK(contract, requests, decisions)
    /\ RequestsOK(requests, decisions)
    /\ JobsOK(jobs, requests, decisions)
    /\ StockOK(stock, reserved)
    /\ counterSigned \subseteq Contracts
    /\ decisions \subseteq (Nat \X Outcomes)
    /\ held \in [Contracts -> Int]

-----------------------------------------------------------------------------
(* Jobs                                                                    *)

LEMMA JobFields ==
    ASSUME NEW job \in Job
    PROVE  /\ job.op \in {"update", "sign", "submit", "requestCancel"} =>
                 job.contract \in Contracts /\ job.seen \in Statuses
           /\ job.op \in {"submitted", "cancelRequested"} => job.contract \in Contracts
           /\ job.op \in {"act", "withdraw", "notify", "complete"} => job.req \in Nat
           /\ job.op \in {"notify", "complete"} =>
                 /\ job.outcome \in Outcomes
                 /\ job = [op |-> job.op, req |-> job.req, outcome |-> job.outcome]
BY DEF Job, Idle

LEMMA IdleJob ==
    ASSUME NEW reqs, NEW dec
    PROVE  Idle \in Job /\ JobSound(Idle, reqs, dec)
BY DEF Job, Idle, JobSound

LEMMA ApprovedStays ==
    ASSUME NEW reqs, NEW dec, NEW reqs2, NEW dec2, History(reqs, dec, reqs2, dec2),
           NEW c, ApprovedIn(c, reqs, dec)
    PROVE  ApprovedIn(c, reqs2, dec2)
BY DEF History, ApprovedIn

LEMMA JobStays ==
    ASSUME NEW reqs, NEW dec, NEW reqs2, NEW dec2, History(reqs, dec, reqs2, dec2),
           NEW job, JobSound(job, reqs, dec)
    PROVE  JobSound(job, reqs2, dec2)
<1>1. job.op \in {"sign", "requestCancel", "cancelRequested"} =>
          ApprovedIn(job.contract, reqs2, dec2)
  BY ApprovedStays DEF JobSound
<1> QED
  BY <1>1 DEF JobSound, History

(* One worker goes on to another job, the others keep theirs.              *)
LEMMA SetJob ==
    ASSUME NEW reqs, NEW dec, NEW reqs2, NEW dec2, History(reqs, dec, reqs2, dec2),
           NEW js, JobsOK(js, reqs, dec),
           NEW w \in Workers, NEW job \in Job, JobSound(job, reqs2, dec2)
    PROVE  JobsOK([js EXCEPT ![w] = job], reqs2, dec2)
<1> DEFINE new == [js EXCEPT ![w] = job]
<1>1. new \in [Workers -> Job]
  BY DEF JobsOK
<1>2. ASSUME NEW v \in Workers PROVE JobSound(new[v], reqs2, dec2)
  <2>1. CASE v = w
    BY <2>1 DEF JobsOK
  <2>2. CASE v # w
    <3>1. new[v] = js[v]
      BY <2>2 DEF JobsOK
    <3> QED
      BY <3>1, JobStays DEF JobsOK
  <2> QED
    BY <2>1, <2>2
<1> QED
  BY <1>1, <1>2 DEF JobsOK

LEMMA SameHistory ==
    ASSUME NEW reqs, NEW dec
    PROVE  History(reqs, dec, reqs, dec)
BY DEF History

(* The status of one contract changes.                                     *)
LEMMA SetStatusOK ==
    ASSUME NEW status, NEW reqs, NEW dec, ContractsOK(status, reqs, dec),
           NEW c \in Contracts, NEW to \in Statuses,
           to \in ApprovedStages => ApprovedIn(c, reqs, dec)
    PROVE  ContractsOK([status EXCEPT ![c] = to], reqs, dec)
BY DEF ContractsOK

(* Every contract keeps its status while requests and decisions are added. *)
LEMMA ContractsStay ==
    ASSUME NEW reqs, NEW dec, NEW reqs2, NEW dec2, History(reqs, dec, reqs2, dec2),
           NEW status, ContractsOK(status, reqs, dec)
    PROVE  ContractsOK(status, reqs2, dec2)
BY ApprovedStays DEF ContractsOK

-----------------------------------------------------------------------------
(* Steps of a worker                                                       *)

(* The operations that lock nothing of the stock leave all of these alone. *)
Rest == /\ UNCHANGED <<stock, reserved, held>>
        /\ UNCHANGED counterSigned

(* A worker reads, stops, or finds nothing to do: only its job changes.    *)
LEMMA OnlyJobChanges ==
    ASSUME Inductive, NEW w \in Workers, NEW job \in Job,
           JobSound(job, requests, decisions),
           jobs' = [jobs EXCEPT ![w] = job],
           UNCHANGED <<contract, requests, decisions>>, Rest
    PROVE  Inductive'
<1>1. JobsOK(jobs', requests', decisions')
  BY SetJob, SameHistory DEF Inductive
<1> QED
  BY <1>1 DEF Inductive, Rest

(* A worker writes the status of a contract and is done.                   *)
LEMMA StatusIsWritten ==
    ASSUME Inductive, NEW w \in Workers, NEW c \in Contracts, NEW to \in Statuses,
           to \in ApprovedStages => ApprovedIn(c, requests, decisions),
           jobs' = [jobs EXCEPT ![w] = Idle],
           contract' = [contract EXCEPT ![c] = to],
           UNCHANGED <<requests, decisions>>, Rest
    PROVE  Inductive'
<1>1. JobsOK(jobs', requests', decisions')
  BY SetJob, SameHistory, IdleJob DEF Inductive
<1>2. ContractsOK(contract', requests', decisions')
  BY SetStatusOK DEF Inductive
<1> QED
  BY <1>1, <1>2 DEF Inductive, Rest

LEMMA JobOf ==
    ASSUME Inductive, NEW w \in Workers
    PROVE  jobs[w] \in Job /\ JobSound(jobs[w], requests, decisions)
BY DEF Inductive, JobsOK

LEMMA ReadersInductive ==
    ASSUME Inductive, NEW w \in Workers, NEW c \in Contracts,
           \/ ReadForUpdate(w, c) \/ ReadForSubmit(w, c)
           \/ ReadForCancel(w, c) \/ ReadForSigning(w, c)
    PROVE  Inductive'
<1>1. contract[c] \in Statuses
  BY DEF Inductive, ContractsOK
<1>2. contract[c] \in ApprovedStages => ApprovedIn(c, requests, decisions)
  BY DEF Inductive, ContractsOK
<1>3. CASE ReadForUpdate(w, c)
  <2> DEFINE job == [op |-> "update", contract |-> c, seen |-> contract[c]]
  <2>1. job \in Job /\ JobSound(job, requests, decisions)
    BY <1>1 DEF Job, JobSound
  <2>2. jobs' = [jobs EXCEPT ![w] = job]
    BY <1>3 DEF ReadForUpdate, Begin
  <2> HIDE DEF job
  <2> QED
    BY <1>3, <2>1, <2>2, OnlyJobChanges DEF ReadForUpdate, StockUnchanged, Rest
<1>4. CASE ReadForSubmit(w, c)
  <2> DEFINE job == [op |-> "submit", contract |-> c, seen |-> contract[c]]
  <2>1. job \in Job /\ JobSound(job, requests, decisions)
    BY <1>1 DEF Job, JobSound
  <2>2. jobs' = [jobs EXCEPT ![w] = job]
    BY <1>4 DEF ReadForSubmit, Begin
  <2> HIDE DEF job
  <2> QED
    BY <1>4, <2>1, <2>2, OnlyJobChanges DEF ReadForSubmit, StockUnchanged, Rest
<1>5. CASE ReadForCancel(w, c)
  <2> DEFINE job == [op |-> "requestCancel", contract |-> c, seen |-> contract[c]]
  <2>1. ApprovedIn(c, requests, decisions)
    BY <1>2, <1>5 DEF ReadForCancel, ApprovedStages
  <2>2. job \in Job /\ JobSound(job, requests, decisions)
    BY <1>1, <2>1 DEF Job, JobSound
  <2>3. jobs' = [jobs EXCEPT ![w] = job]
    BY <1>5 DEF ReadForCancel, Begin
  <2> HIDE DEF job
  <2> QED
    BY <1>5, <2>2, <2>3, OnlyJobChanges DEF ReadForCancel, StockUnchanged, Rest
<1>6. CASE ReadForSigning(w, c)
  <2> DEFINE job == [op |-> "sign", contract |-> c, seen |-> contract[c]]
  <2>1. ApprovedIn(c, requests, decisions)
    BY <1>2, <1>6 DEF ReadForSigning, ApprovedStages, Cancellable
  <2>2. job \in Job /\ JobSound(job, requests, decisions)
    BY <1>1, <2>1 DEF Job, JobSound
  <2>3. jobs' = [jobs EXCEPT ![w] = job]
    BY <1>6 DEF ReadForSigning, Begin
  <2> HIDE DEF job
  <2> QED
    BY <1>6, <2>2, <2>3, OnlyJobChanges DEF ReadForSigning, StockUnchanged, Rest
<1> QED
  BY <1>3, <1>4, <1>5, <1>6

LEMMA LoadRequestInductive ==
    ASSUME Inductive, NEW w \in Workers, NEW r \in DOMAIN requests, LoadRequest(w, r)
    PROVE  Inductive'
<1>1. PICK op \in {"act", "withdraw"} : jobs' = [jobs EXCEPT ![w] = [op |-> op, req |-> r]]
  BY DEF LoadRequest, Begin
<1> DEFINE job == [op |-> op, req |-> r]
<1>2. r \in Nat
  BY DEF Inductive, RequestsOK
<1>3. job \in Job /\ JobSound(job, requests, decisions)
  BY <1>2 DEF Job, JobSound
<1> HIDE DEF job
<1>4. jobs' = [jobs EXCEPT ![w] = job]
  BY <1>1 DEF job
<1> QED
  BY <1>3, <1>4, OnlyJobChanges DEF LoadRequest, StockUnchanged, Rest

LEMMA AbandonInductive ==
    ASSUME Inductive, NEW w \in Workers, Abandon(w)
    PROVE  Inductive'
BY IdleJob, OnlyJobChanges DEF Abandon, Finish, StockUnchanged, Rest

LEMMA StaleWritesInductive ==
    ASSUME Inductive, NEW w \in Workers, Update(w) \/ WritePending(w) \/ BuyerSigns(w)
    PROVE  Inductive'
<1>1. jobs' = [jobs EXCEPT ![w] = Idle] /\ UNCHANGED <<requests, decisions>> /\ Rest
  BY DEF Update, WritePending, BuyerSigns, Finish, StockUnchanged, Rest
<1>2. CASE Update(w)
  <2>1. jobs[w].contract \in Contracts
    BY <1>2, JobOf, JobFields DEF Update
  <2>2. "DRAFT" \in Statuses \ ApprovedStages
    BY DEF Statuses, ApprovedStages, Cancellable
  <2>3. contract' = [contract EXCEPT ![jobs[w].contract] = "DRAFT"]
    BY <1>2 DEF Update, SetStatus
  <2> QED
    BY <1>1, <2>1, <2>2, <2>3, StatusIsWritten
<1>3. CASE WritePending(w)
  <2>1. CASE jobs[w].op = "submitted"
    <3>1. jobs[w].contract \in Contracts
      BY <2>1, JobOf, JobFields
    <3>2. "PENDING_APPROVAL" \in Statuses \ ApprovedStages
      BY DEF Statuses, ApprovedStages, Cancellable
    <3>3. contract' = [contract EXCEPT ![jobs[w].contract] = "PENDING_APPROVAL"]
      BY <1>3, <2>1 DEF WritePending, SetStatus
    <3> QED
      BY <1>1, <3>1, <3>2, <3>3, StatusIsWritten
  <2>2. CASE jobs[w].op = "cancelRequested"
    <3>1. /\ jobs[w].contract \in Contracts
          /\ ApprovedIn(jobs[w].contract, requests, decisions)
      BY <2>2, JobOf, JobFields DEF JobSound
    <3>2. "PENDING_CANCEL_APPROVAL" \in Statuses
      BY DEF Statuses
    <3>3. contract' = [contract EXCEPT ![jobs[w].contract] = "PENDING_CANCEL_APPROVAL"]
      BY <1>3, <2>2 DEF WritePending, SetStatus
    <3> QED
      BY <1>1, <3>1, <3>2, <3>3, StatusIsWritten
  <2> QED
    BY <1>3, <2>1, <2>2 DEF WritePending
<1>4. CASE BuyerSigns(w)
  <2>1. /\ jobs[w].contract \in Contracts
        /\ ApprovedIn(jobs[w].contract, requests, decisions)
    BY <1>4, JobOf, JobFields DEF BuyerSigns, JobSound
  <2>2. "BUYER_SIGNED" \in Statuses
    BY DEF Statuses
  <2>3. contract' = [contract EXCEPT ![jobs[w].contract] = "BUYER_SIGNED"]
    BY <1>4 DEF BuyerSigns, SetStatus
  <2> QED
    BY <1>1, <2>1, <2>2, <2>3, StatusIsWritten
<1> QED
  BY <1>2, <1>3, <1>4

(* A new request: its subject was approved if it asks for a cancellation.  *)
LEMMA CreateRequestInductive ==
    ASSUME Inductive, NEW w \in Workers, CreateRequest(w)
    PROVE  Inductive'
<1> DEFINE c   == jobs[w].contract
           row == [type |-> TypeOf(jobs[w].op), contract |-> c,
                   previous |-> jobs[w].seen, status |-> "PENDING"]
           job == [op |-> IF jobs[w].op = "submit" THEN "submitted" ELSE "cancelRequested",
                   contract |-> c]
<1>1. /\ jobs[w].op \in {"submit", "requestCancel"}
      /\ requests' = Append(requests, row)
      /\ jobs' = [jobs EXCEPT ![w] = job]
      /\ UNCHANGED <<contract, decisions>> /\ Rest
  BY DEF CreateRequest, Proceed, StockUnchanged, Rest
<1>2. c \in Contracts /\ jobs[w].seen \in Statuses
  BY <1>1, JobOf, JobFields
<1>3. jobs[w].op = "requestCancel" => ApprovedIn(c, requests, decisions)
  BY JobOf DEF JobSound
<1>4. row \in Request /\ row.contract = c
  BY <1>2 DEF Request, TypeOf
<1>5. row.type = "SALES_CONTRACT_CANCEL" => jobs[w].op = "requestCancel"
  BY <1>1 DEF TypeOf
<1>6. requests \in Seq(Request)
  BY DEF Inductive, RequestsOK
<1> HIDE DEF row
<1>7. /\ requests' \in Seq(Request)
      /\ DOMAIN requests' = DOMAIN requests \cup {Len(requests) + 1}
      /\ \A r \in DOMAIN requests : requests'[r] = requests[r]
      /\ requests'[Len(requests) + 1] = row
  BY <1>1, <1>4, <1>6
<1>8. History(requests, decisions, requests', decisions')
  BY <1>1, <1>7 DEF History
<1>9. RequestsOK(requests', decisions')
  <2>1. ASSUME NEW r \in DOMAIN requests', requests'[r].type = "SALES_CONTRACT_CANCEL"
        PROVE  ApprovedIn(requests'[r].contract, requests', decisions')
    <3>1. CASE r \in DOMAIN requests
      <4>1. ApprovedIn(requests[r].contract, requests, decisions)
        BY <1>7, <2>1, <3>1 DEF Inductive, RequestsOK
      <4> QED
        BY <1>7, <1>8, <3>1, <4>1, ApprovedStays
    <3>2. CASE r = Len(requests) + 1
      <4>1. ApprovedIn(c, requests, decisions) /\ requests'[r].contract = c
        BY <1>3, <1>4, <1>5, <1>7, <2>1, <3>2
      <4> QED
        BY <1>8, <4>1, ApprovedStays
    <3> QED
      BY <1>7, <3>1, <3>2
  <2> QED
    BY <1>7, <2>1 DEF RequestsOK
<1>10. job \in Job /\ JobSound(job, requests', decisions')
  <2>1. job.op = "cancelRequested" => ApprovedIn(c, requests', decisions')
    BY <1>1, <1>3, <1>8, ApprovedStays
  <2> QED
    BY <1>1, <1>2, <2>1 DEF Job, JobSound
<1> HIDE DEF job
<1>11. JobsOK(jobs', requests', decisions')
  BY <1>1, <1>8, <1>10, SetJob DEF Inductive
<1>12. ContractsOK(contract', requests', decisions')
  BY <1>1, <1>8, ContractsStay DEF Inductive
<1> QED
  BY <1>1, <1>9, <1>11, <1>12 DEF Inductive, Rest

LEMMA RequestWithStatus ==
    ASSUME NEW row \in Request, NEW status \in {"APPROVED", "REJECTED", "CANCELLED"}
    PROVE  [row EXCEPT !.status = status] \in Request
BY DEF Request

LEMMA ReplaceInSequence ==
    ASSUME NEW S, NEW s \in Seq(S), NEW i, NEW e \in S
    PROVE  /\ [s EXCEPT ![i] = e] \in Seq(S)
           /\ DOMAIN [s EXCEPT ![i] = e] = DOMAIN s
<1>1. s \in [1 .. Len(s) -> S] /\ Len(s) \in Nat
  OBVIOUS
<1>2. [s EXCEPT ![i] = e] \in [1 .. Len(s) -> S]
  BY <1>1
<1> QED
  BY <1>1, <1>2

(* The status of a request changes, perhaps with a decision.               *)
LEMMA RequestStatusChanges ==
    ASSUME Inductive, NEW w \in Workers, NEW r \in DOMAIN requests,
           NEW status \in {"APPROVED", "REJECTED", "CANCELLED"},
           requests' = [requests EXCEPT ![r].status = status],
           decisions \subseteq decisions', decisions' \subseteq (Nat \X Outcomes),
           NEW job \in Job, JobSound(job, requests', decisions'),
           jobs' = [jobs EXCEPT ![w] = job],
           UNCHANGED contract, Rest
    PROVE  Inductive'
<1>1. requests \in Seq(Request)
  BY DEF Inductive, RequestsOK
<1>2. /\ requests' \in Seq(Request)
      /\ DOMAIN requests' = DOMAIN requests
      /\ \A q \in DOMAIN requests : /\ requests'[q].type = requests[q].type
                                    /\ requests'[q].contract = requests[q].contract
  <2>1. ASSUME NEW q \in DOMAIN requests
        PROVE  /\ requests'[q] \in Request
               /\ requests'[q].type = requests[q].type
               /\ requests'[q].contract = requests[q].contract
    <3>1. requests[q] \in Request
      BY <1>1
    <3>2. CASE q = r
      BY <3>1, <3>2 DEF Request
    <3>3. CASE q # r
      BY <3>1, <3>3
    <3> QED
      BY <3>2, <3>3
  <2>2. requests[r] \in Request
    BY <1>1
  <2>3. [requests[r] EXCEPT !.status = status] \in Request
    BY <2>2, RequestWithStatus
  <2> QED
    BY <1>1, <2>1, <2>3, ReplaceInSequence
<1>3. History(requests, decisions, requests', decisions')
  BY <1>2 DEF History
<1>4. RequestsOK(requests', decisions')
  BY <1>2, <1>3, ApprovedStays DEF Inductive, RequestsOK
<1>5. JobsOK(jobs', requests', decisions')
  BY <1>3, SetJob DEF Inductive
<1>6. ContractsOK(contract', requests', decisions')
  BY <1>3, ContractsStay DEF Inductive
<1> QED
  BY <1>4, <1>5, <1>6 DEF Inductive, Rest

LEMMA DecideInductive ==
    ASSUME Inductive, NEW w \in Workers, NEW outcome \in Outcomes, Decide(w, outcome)
    PROVE  Inductive'
<1> DEFINE r   == jobs[w].req
           job == [op |-> "notify", req |-> r, outcome |-> outcome]
<1>1. r \in Nat /\ r \in DOMAIN requests
  BY JobOf, JobFields DEF Decide, JobSound
<1>2. /\ requests' = [requests EXCEPT ![r].status = outcome]
      /\ decisions' = decisions \cup {<<r, outcome>>}
      /\ jobs' = [jobs EXCEPT ![w] = job]
      /\ UNCHANGED contract /\ Rest
  BY DEF Decide, Proceed, StockUnchanged, Rest
<1>3. decisions \subseteq decisions' /\ decisions' \subseteq (Nat \X Outcomes)
  BY <1>1, <1>2 DEF Inductive
<1>4. DOMAIN requests' = DOMAIN requests
  BY <1>2
<1>5. job \in Job /\ JobSound(job, requests', decisions')
  BY <1>1, <1>2, <1>4 DEF Job, JobSound
<1>6. outcome \in {"APPROVED", "REJECTED", "CANCELLED"}
  BY DEF Outcomes
<1> HIDE DEF r, job
<1> QED
  BY <1>1, <1>2, <1>3, <1>5, <1>6, RequestStatusChanges

LEMMA WithdrawInductive ==
    ASSUME Inductive, NEW w \in Workers, Withdraw(w)
    PROVE  Inductive'
<1>1. jobs[w].req \in DOMAIN requests
  BY JobOf DEF Withdraw, JobSound
<1>2. decisions \subseteq decisions' /\ decisions' \subseteq (Nat \X Outcomes)
  BY DEF Withdraw, Inductive
<1> QED
  BY <1>1, <1>2, IdleJob, RequestStatusChanges DEF Withdraw, Finish, StockUnchanged, Rest

LEMMA ListenerReadsInductive ==
    ASSUME Inductive, NEW w \in Workers, ListenerReads(w)
    PROVE  Inductive'
<1>1. CASE jobs' = [jobs EXCEPT ![w] = Idle]
  BY <1>1, IdleJob, OnlyJobChanges DEF ListenerReads, StockUnchanged, Rest
<1>2. CASE jobs' = [jobs EXCEPT ![w] = [jobs[w] EXCEPT !.op = "complete"]]
  <2> DEFINE job == [op |-> "complete", req |-> jobs[w].req, outcome |-> jobs[w].outcome]
  <2>1. jobs[w].op = "notify"
    BY DEF ListenerReads
  <2>2. job \in Job
    BY <2>1, JobOf, JobFields DEF Job
  <2>3. JobSound(job, requests, decisions)
    BY <2>1, JobOf DEF JobSound
  <2>4. [jobs[w] EXCEPT !.op = "complete"] = job
    <3>1. jobs[w] = [op |-> jobs[w].op, req |-> jobs[w].req, outcome |-> jobs[w].outcome]
      BY <2>1, JobOf, JobFields
    <3> QED
      BY <3>1
  <2> HIDE DEF job
  <2> QED
    BY <1>2, <2>2, <2>3, <2>4, OnlyJobChanges DEF ListenerReads, StockUnchanged, Rest
<1> QED
  BY <1>1, <1>2 DEF ListenerReads, Finish, Proceed

LEMMA ListenerWritesInductive ==
    ASSUME Inductive, NEW w \in Workers, ListenerWrites(w)
    PROVE  Inductive'
<1> DEFINE r  == jobs[w].req
           c  == Subject(r)
           to == StatusAfter(r, jobs[w].outcome)
<1>1. r \in DOMAIN requests /\ jobs[w].outcome \in Outcomes
      /\ <<r, jobs[w].outcome>> \in decisions
  BY JobOf, JobFields DEF ListenerWrites, JobSound
<1>2. requests[r] \in Request
  BY <1>1 DEF Inductive, RequestsOK
<1>3. c \in Contracts /\ to \in Statuses
  BY <1>1, <1>2 DEF Subject, StatusAfter, Request, Outcomes, Statuses
<1>4. ASSUME to \in ApprovedStages PROVE ApprovedIn(c, requests, decisions)
  <2>1. CASE requests[r].type = "SALES_CONTRACT"
    <3>1. jobs[w].outcome = "APPROVED"
      BY <1>1, <1>4, <2>1 DEF StatusAfter, Outcomes, ApprovedStages, Cancellable
    <3> QED
      BY <1>1, <2>1, <3>1 DEF ApprovedIn, Subject
  <2>2. CASE requests[r].type = "SALES_CONTRACT_CANCEL"
    BY <1>1, <2>2 DEF Inductive, RequestsOK, Subject
  <2> QED
    BY <1>2, <2>1, <2>2 DEF Request
<1>5. /\ jobs' = [jobs EXCEPT ![w] = Idle] /\ contract' = [contract EXCEPT ![c] = to]
      /\ UNCHANGED <<requests, decisions>> /\ Rest
  BY DEF ListenerWrites, SetStatus, Finish, StockUnchanged, Rest
<1> HIDE DEF r, c, to
<1> QED
  BY <1>3, <1>4, <1>5, StatusIsWritten

(* Reserving checks what is free; releasing only ever takes away.          *)
NoMorePromised ==
    /\ UNCHANGED stock
    /\ \A p \in Products : reserved'[p] <= reserved[p] \/ reserved'[p] <= stock[p]

LEMMA ReserveLinesOK ==
    ASSUME StockOK(stock, reserved), held \in [Contracts -> Int],
           NEW c \in Contracts, ReserveLines(c)
    PROVE  /\ StockOK(stock', reserved') /\ held' \in [Contracts -> Int]
           /\ NoMorePromised
<1>1. ASSUME NEW p \in Products
      PROVE  reserved'[p] \in Nat /\ reserved'[p] <= stock[p]
  <2>1. Lines[c][p] \in Nat /\ stock[p] \in Nat /\ reserved[p] \in Nat
    BY LinesAssumption DEF StockOK
  <2>2. stock[p] - reserved[p] >= Lines[c][p] /\ reserved'[p] = reserved[p] + Lines[c][p]
    BY DEF ReserveLines
  <2> QED
    BY <2>1, <2>2
<1>2. reserved' \in [Products -> Nat]
  BY <1>1 DEF ReserveLines
<1>3. held' \in [Contracts -> Int]
  BY DEF ReserveLines
<1> QED
  BY <1>1, <1>2, <1>3 DEF StockOK, ReserveLines, NoMorePromised

LEMMA ReleaseLinesOK ==
    ASSUME StockOK(stock, reserved), held \in [Contracts -> Int],
           NEW c \in Contracts, ReleaseLines(c)
    PROVE  /\ StockOK(stock', reserved') /\ held' \in [Contracts -> Int]
           /\ NoMorePromised
<1>1. ASSUME NEW p \in Products
      PROVE  reserved'[p] \in Nat /\ reserved'[p] <= reserved[p]
  <2>1. Lines[c][p] \in Nat /\ reserved[p] \in Nat
    BY LinesAssumption DEF StockOK
  <2>2. reserved'[p] = IF reserved[p] < Lines[c][p] THEN 0 ELSE reserved[p] - Lines[c][p]
    BY DEF ReleaseLines
  <2> QED
    BY <2>1, <2>2
<1>2. reserved' \in [Products -> Nat]
  BY <1>1 DEF ReleaseLines
<1>3. held' \in [Contracts -> Int]
  BY DEF ReleaseLines
<1> QED
  BY <1>1, <1>2, <1>3 DEF StockOK, ReleaseLines, NoMorePromised

LEMMA SamePromises ==
    ASSUME StockOK(stock, reserved), UNCHANGED <<stock, reserved>>
    PROVE  NoMorePromised
BY DEF StockOK, NoMorePromised

(* A decision that is heard is about a contract there is.                  *)
LEMMA SubjectKnown ==
    ASSUME Inductive, NEW w \in Workers, jobs[w].op = "notify"
    PROVE  Subject(jobs[w].req) \in Contracts
<1>1. jobs[w].req \in DOMAIN requests
  BY JobOf DEF JobSound
<1>2. requests[jobs[w].req] \in Request
  BY <1>1 DEF Inductive, RequestsOK
<1> QED
  BY <1>2 DEF Request, Subject

LEMMA CompleteCancelInductive ==
    ASSUME Inductive, NEW w \in Workers, CompleteCancelWorkflow(w)
    PROVE  Inductive'
<1> DEFINE c == Subject(jobs[w].req)
<1>1. jobs[w].op = "notify"
  BY DEF CompleteCancelWorkflow
<1>2. c \in Contracts
  BY <1>1, SubjectKnown
<1>3. JobsOK(jobs', requests', decisions')
  BY SetJob, SameHistory, IdleJob DEF Inductive, CompleteCancelWorkflow, Finish
<1>4. ContractsOK(contract', requests', decisions')
  <2>1. "CANCELLED" \in Statuses \ ApprovedStages
    BY DEF Statuses, ApprovedStages, Cancellable
  <2>2. contract' = [contract EXCEPT ![c] = "CANCELLED"] \/ UNCHANGED contract
    BY DEF CompleteCancelWorkflow, SetStatus
  <2> QED
    BY <1>2, <2>1, <2>2, SetStatusOK DEF Inductive, CompleteCancelWorkflow
<1>5. StockOK(stock', reserved') /\ held' \in [Contracts -> Int]
  <2>1. ReleaseLines(c) \/ StockUnchanged
    BY DEF CompleteCancelWorkflow
  <2> QED
    BY <1>2, <2>1, ReleaseLinesOK DEF Inductive, StockUnchanged
<1> QED
  BY <1>3, <1>4, <1>5 DEF Inductive, CompleteCancelWorkflow

LEMMA WorkerStepInductive ==
    ASSUME Inductive, NEW w \in Workers, WorkerStep(w)
    PROVE  Inductive'
BY ReadersInductive, StaleWritesInductive, CreateRequestInductive, LoadRequestInductive,
   DecideInductive, WithdrawInductive, ListenerReadsInductive, ListenerWritesInductive,
   CompleteCancelInductive, AbandonInductive
   DEF WorkerStep

-----------------------------------------------------------------------------
(* Operations that lock the contract row                                   *)

LEMMA LockedStepInductive ==
    ASSUME Inductive, NEW c \in Contracts, LockedStep(c)
    PROVE  Inductive'
<1>1. UNCHANGED <<jobs, requests, decisions>>
  BY DEF LockedStep, SendForSignature, RevokeSignatureInvitation, SignContract,
         ConfirmContract, ShipContract, RejectInApprovalCenter, PayInFull, NoJobs
<1>2. counterSigned' \subseteq Contracts
  BY DEF LockedStep, SendForSignature, RevokeSignatureInvitation, SignContract,
         ConfirmContract, ShipContract, RejectInApprovalCenter, PayInFull, Inductive
<1>3. StockOK(stock', reserved') /\ held' \in [Contracts -> Int]
  <2>1. ReserveLines(c) \/ StockUnchanged
    BY DEF LockedStep, SendForSignature, RevokeSignatureInvitation, SignContract,
           ConfirmContract, ShipContract, RejectInApprovalCenter, PayInFull,
           ReserveAndConfirm
  <2> QED
    BY <2>1, ReserveLinesOK DEF Inductive, StockUnchanged
(* CANCELLED and PAID are no approved stage; every other locked operation  *)
(* starts from one.                                                        *)
<1>4. \E to \in Statuses :
         /\ contract' = [contract EXCEPT ![c] = to]
         /\ to \in ApprovedStages => contract[c] \in ApprovedStages
  BY DEF LockedStep, SendForSignature, RevokeSignatureInvitation, SignContract,
         ConfirmContract, ShipContract, RejectInApprovalCenter, PayInFull,
         ReserveAndConfirm, SetStatus, Statuses, Confirmable, ApprovedStages, Cancellable
<1>5. ContractsOK(contract', requests', decisions')
  <2>1. contract[c] \in ApprovedStages => ApprovedIn(c, requests, decisions)
    BY DEF Inductive, ContractsOK
  <2>2. PICK to \in Statuses :
           /\ contract' = [contract EXCEPT ![c] = to]
           /\ to \in ApprovedStages => contract[c] \in ApprovedStages
    BY <1>4
  <2>3. ContractsOK([contract EXCEPT ![c] = to], requests, decisions)
    BY <2>1, <2>2, SetStatusOK DEF Inductive
  <2> QED
    BY <1>1, <2>2, <2>3
<1> QED
  BY <1>1, <1>2, <1>3, <1>5 DEF Inductive

-----------------------------------------------------------------------------
(* The theorems                                                            *)

LEMMA InitInductive == Init => Inductive
<1> SUFFICES ASSUME Init PROVE Inductive
  OBVIOUS
<1>1. ContractsOK(contract, requests, decisions)
  BY DEF Init, ContractsOK, Statuses, ApprovedStages, Cancellable
<1>2. RequestsOK(requests, decisions)
  BY DEF Init, RequestsOK
<1>3. JobsOK(jobs, requests, decisions)
  BY IdleJob DEF Init, JobsOK
<1>4. StockOK(stock, reserved)
  BY OpeningAssumption DEF Init, StockOK
<1> QED
  BY <1>1, <1>2, <1>3, <1>4 DEF Init, Inductive

(* The parts of the invariant hold together in every reachable state.      *)
THEOREM ContractsInvariant == Spec => []Inductive
<1>1. Inductive /\ [Next]_vars => Inductive'
  <2> SUFFICES ASSUME Inductive, [Next]_vars PROVE Inductive'
    OBVIOUS
  <2>1. CASE Next
    BY <2>1, WorkerStepInductive, LockedStepInductive DEF Next, Step
  <2>2. CASE UNCHANGED vars
    BY <2>2 DEF vars, contractVars, Inductive
  <2> QED
    BY <2>1, <2>2
<1> QED
  BY InitInductive, <1>1, PTL DEF Spec

(* No step of a contract promises more than the warehouse holds.           *)
LEMMA StepPromises ==
    ASSUME Inductive, Next
    PROVE  NoMorePromised
<1>0. StockOK(stock, reserved) /\ held \in [Contracts -> Int]
  BY DEF Inductive
<1>1. ASSUME NEW w \in Workers, WorkerStep(w)
      PROVE  NoMorePromised
  <2>1. CASE CompleteCancelWorkflow(w)
    <3>1. ReleaseLines(Subject(jobs[w].req)) \/ StockUnchanged
      BY <2>1 DEF CompleteCancelWorkflow
    <3>2. Subject(jobs[w].req) \in Contracts
      BY <2>1, SubjectKnown DEF CompleteCancelWorkflow
    <3> QED
      BY <1>0, <3>1, <3>2, ReleaseLinesOK, SamePromises DEF StockUnchanged
  <2>2. CASE ~ CompleteCancelWorkflow(w)
    <3>1. UNCHANGED <<stock, reserved>>
      BY <1>1, <2>2 DEF WorkerStep, ReadForUpdate, ReadForSubmit, ReadForCancel,
         ReadForSigning, Update, CreateRequest, WritePending, BuyerSigns, LoadRequest,
         Decide, Withdraw, ListenerReads, ListenerWrites, Abandon, StockUnchanged
    <3> QED
      BY <1>0, <3>1, SamePromises
  <2> QED
    BY <2>1, <2>2
<1>2. ASSUME NEW c \in Contracts, LockedStep(c)
      PROVE  NoMorePromised
  <2>1. ReserveLines(c) \/ StockUnchanged
    BY <1>2 DEF LockedStep, SendForSignature, RevokeSignatureInvitation, SignContract,
           ConfirmContract, ShipContract, RejectInApprovalCenter, PayInFull,
           ReserveAndConfirm
  <2> QED
    BY <1>0, <2>1, ReserveLinesOK, SamePromises DEF StockUnchanged
<1> QED
  BY <1>1, <1>2 DEF Next, Step

(* Whether requests overlap is settled at the start.                       *)
LEMMA OverlapStays == Spec => [](overlap \in Overlap)
<1>1. Init => overlap \in Overlap
  BY DEF Init
<1>2. overlap \in Overlap /\ [Next]_vars => (overlap \in Overlap)'
  BY DEF Next, vars, contractVars
<1> QED
  BY <1>1, <1>2, PTL DEF Spec

(* Every row of a contract, request and product stays well-formed.         *)
THEOREM ContractsTypeCorrect == Spec => []TypeOK
<1>1. Inductive /\ overlap \in Overlap => TypeOK
  BY DEF Inductive, TypeOK, ContractsOK, RequestsOK, JobsOK, StockOK
<1> QED
  BY ContractsInvariant, OverlapStays, <1>1, PTL

(* Confirming contracts never promises more than there is in stock: the    *)
(* availability check of reserveStock suffices for any number of contracts *)
(* and whatever is cancelled, released twice or lost half-way.             *)
THEOREM StockIsNeverOversold == Spec => []NoOverselling
<1>1. Init => NoOverselling
  BY OpeningAssumption DEF Init, NoOverselling
<1>2. Inductive /\ NoOverselling /\ [Next]_vars => NoOverselling'
  <2> SUFFICES ASSUME Inductive, NoOverselling, [Next]_vars PROVE NoOverselling'
    OBVIOUS
  <2>1. CASE Next
    <3>1. StockOK(stock, reserved) /\ Inductive'
      BY <2>1, WorkerStepInductive, LockedStepInductive DEF Next, Step, Inductive
    <3>2. StockOK(stock', reserved')
      BY <3>1 DEF Inductive
    <3>3. NoMorePromised
      BY <2>1, StepPromises
    <3> QED
      BY <3>1, <3>2, <3>3 DEF NoMorePromised, NoOverselling, StockOK
  <2>2. CASE UNCHANGED vars
    BY <2>2 DEF vars, NoOverselling
  <2> QED
    BY <2>1, <2>2
<1> QED
  BY ContractsInvariant, <1>1, <1>2, PTL DEF Spec

(* No stale copy, restored status or late event takes a contract past      *)
(* PENDING_APPROVAL that no approver has approved.                         *)
THEOREM OnlyApprovedContractsProceed == Spec => []NothingPastApprovalUnapproved
<1>1. Inductive => NothingPastApprovalUnapproved
  BY DEF Inductive, ContractsOK, NothingPastApprovalUnapproved, ApprovedIn
<1> QED
  BY ContractsInvariant, <1>1, PTL

-----------------------------------------------------------------------------
(* Requests served one at a time: what a worker has read is still true     *)

(* No later request asks the same of the same contract. *)
Newest(r, reqs) ==
    \A q \in DOMAIN reqs :
        q > r => ~ (reqs[q].type = reqs[r].type /\ reqs[q].contract = reqs[r].contract)

LatestCancel(r, c, reqs) ==
    /\ r \in DOMAIN reqs
    /\ reqs[r].type = "SALES_CONTRACT_CANCEL" /\ reqs[r].contract = c
    /\ Newest(r, reqs)

Units(status) == IF status \in {"CONFIRMED", "SHIPPED"} THEN 1 ELSE 0

(* A contract of this status holds h reservations. *)
StatusHeld(status, c, h, reqs) ==
    /\ status \notin {"CANCELLED", "PAID", "PENDING_CANCEL_APPROVAL"} => h = Units(status)
    /\ status = "PENDING_CANCEL_APPROVAL" =>
          \E r \in DOMAIN reqs : LatestCancel(r, c, reqs) /\ h = Units(reqs[r].previous)

HeldOK(status, h, reqs) ==
    /\ h \in [Contracts -> Nat]
    /\ \A c \in Contracts : StatusHeld(status[c], c, h[c], reqs)

JobCurrent(job, status, reqs) ==
    /\ job.op \in {"update", "submit", "submitted"} => status[job.contract] \in Editable
    /\ job.op = "sign" => status[job.contract] = "PENDING_BUYER_SIGNATURE"
    /\ job.op = "requestCancel" =>
          job.seen \in Cancellable /\ status[job.contract] = job.seen
    /\ job.op = "cancelRequested" =>
          /\ status[job.contract] \in Cancellable
          /\ \E r \in DOMAIN reqs : /\ LatestCancel(r, job.contract, reqs)
                                    /\ reqs[r].previous = status[job.contract]
    /\ job.op \in {"act", "withdraw", "notify", "complete"} => Newest(job.req, reqs)
    /\ job.op = "complete" =>
          LET row == reqs[job.req] IN
          /\ status[row.contract] = IF row.type = "SALES_CONTRACT"
                                    THEN "PENDING_APPROVAL" ELSE "PENDING_CANCEL_APPROVAL"
          /\ row.type = "SALES_CONTRACT_CANCEL" => job.outcome = "REJECTED"

(* One worker at most is at work, and its copy is as the rows are. *)
JobsCurrent(js, status, reqs) ==
    /\ \A v, w \in Workers : v # w => js[v] = Idle \/ js[w] = Idle
    /\ \A w \in Workers : JobCurrent(js[w], status, reqs)

(* A request that is still open is the newest of its kind, and what asks   *)
(* for a cancellation was made of a contract that may be cancelled.        *)
RequestsCurrent(reqs) ==
    /\ \A r \in DOMAIN reqs : reqs[r].status = "PENDING" => Newest(r, reqs)
    /\ \A r \in DOMAIN reqs :
          reqs[r].type = "SALES_CONTRACT_CANCEL" => reqs[r].previous \in Cancellable

Promised(h, p) == [c \in Contracts |-> h[c] * Lines[c][p]]

ReservedOK(promised, h) ==
    \A p \in Products : promised[p] = SumOver(Promised(h, p), Contracts)

Current ==
    /\ HeldOK(contract, held, requests)
    /\ JobsCurrent(jobs, contract, requests)
    /\ RequestsCurrent(requests)
    /\ ReservedOK(reserved, held)

Serial == ~ overlap => Current

-----------------------------------------------------------------------------
(* Requests                                                                *)

(* Two newest requests of one kind for one contract are the same.          *)
LEMMA NewestIsUnique ==
    ASSUME NEW reqs \in Seq(Request), NEW c, NEW r, NEW q,
           LatestCancel(r, c, reqs), LatestCancel(q, c, reqs)
    PROVE  q = r
<1>1. r \in Nat /\ q \in Nat
  BY DEF LatestCancel
<1> QED
  BY <1>1 DEF LatestCancel, Newest

(* Requests keep their subject and what they would restore.                *)
SameSubjects(reqs, reqs2) ==
    /\ DOMAIN reqs2 = DOMAIN reqs
    /\ \A r \in DOMAIN reqs : /\ reqs2[r].type = reqs[r].type
                              /\ reqs2[r].contract = reqs[r].contract
                              /\ reqs2[r].previous = reqs[r].previous

LEMMA LatestStays ==
    ASSUME NEW reqs, NEW reqs2, SameSubjects(reqs, reqs2)
    PROVE  /\ \A r \in DOMAIN reqs : Newest(r, reqs) => Newest(r, reqs2)
           /\ \A r, c : LatestCancel(r, c, reqs) => LatestCancel(r, c, reqs2)
BY DEF SameSubjects, Newest, LatestCancel

(* A request of another kind or contract is added.                         *)
LEMMA LatestStaysOnAppend ==
    ASSUME NEW reqs \in Seq(Request), NEW row \in Request, NEW c, NEW r,
           LatestCancel(r, c, reqs),
           ~ (row.type = "SALES_CONTRACT_CANCEL" /\ row.contract = c)
    PROVE  /\ LatestCancel(r, c, Append(reqs, row))
           /\ Append(reqs, row)[r] = reqs[r]
BY DEF LatestCancel, Newest

-----------------------------------------------------------------------------
(* One worker at a time                                                    *)

LEMMA OthersIdle ==
    ASSUME NEW js, NEW status, NEW reqs, JobsCurrent(js, status, reqs),
           NEW w \in Workers, js[w] # Idle
    PROVE  \A v \in Workers \ {w} : js[v] = Idle
BY DEF JobsCurrent

LEMMA IdleCurrent ==
    ASSUME NEW status, NEW reqs
    PROVE  JobCurrent(Idle, status, reqs)
BY DEF JobCurrent, Idle

LEMMA SetJobCurrent ==
    ASSUME NEW js \in [Workers -> Job], NEW w \in Workers,
           \A v \in Workers \ {w} : js[v] = Idle,
           NEW job, NEW status, NEW reqs, JobCurrent(job, status, reqs)
    PROVE  JobsCurrent([js EXCEPT ![w] = job], status, reqs)
<1> DEFINE new == [js EXCEPT ![w] = job]
<1>1. new[w] = job /\ \A v \in Workers \ {w} : new[v] = Idle
  OBVIOUS
<1> HIDE DEF new
<1>2. \A u, v \in Workers : u # v => new[u] = Idle \/ new[v] = Idle
  BY <1>1
<1>3. \A v \in Workers : JobCurrent(new[v], status, reqs)
  BY <1>1, IdleCurrent
<1> QED
  BY <1>2, <1>3 DEF JobsCurrent, new

LEMMA SetStatusHeld ==
    ASSUME NEW status \in [Contracts -> Statuses], NEW h, NEW reqs, HeldOK(status, h, reqs),
           NEW c \in Contracts, NEW to, StatusHeld(to, c, h[c], reqs)
    PROVE  HeldOK([status EXCEPT ![c] = to], h, reqs)
BY DEF HeldOK

(* The worker at work reads, stops, or finds nothing to do.                *)
LEMMA OnlyJobCurrent ==
    ASSUME Inductive, Current, NEW w \in Workers,
           \A v \in Workers \ {w} : jobs[v] = Idle,
           NEW job, JobCurrent(job, contract, requests),
           jobs' = [jobs EXCEPT ![w] = job],
           UNCHANGED <<contract, requests>>, Rest
    PROVE  Current'
<1>1. jobs \in [Workers -> Job]
  BY DEF Inductive, JobsOK
<1>2. JobsCurrent(jobs', contract', requests')
  BY <1>1, SetJobCurrent
<1> QED
  BY <1>2 DEF Current, Rest

(* The worker at work writes a status that fits what the contract holds.   *)
LEMMA StatusWriteCurrent ==
    ASSUME Inductive, Current, NEW w \in Workers, jobs[w] # Idle,
           NEW c \in Contracts, NEW to, StatusHeld(to, c, held[c], requests),
           jobs' = [jobs EXCEPT ![w] = Idle],
           contract' = [contract EXCEPT ![c] = to],
           UNCHANGED requests, Rest
    PROVE  Current'
<1>1. jobs \in [Workers -> Job] /\ contract \in [Contracts -> Statuses]
  BY DEF Inductive, JobsOK, ContractsOK
<1>2. JobsCurrent(jobs', contract', requests')
  BY <1>1, OthersIdle, IdleCurrent, SetJobCurrent DEF Current
<1>3. HeldOK(contract', held', requests')
  BY <1>1, SetStatusHeld DEF Current, Rest
<1> QED
  BY <1>2, <1>3 DEF Current, Rest

LEMMA ContractStatus ==
    ASSUME Inductive, Current, NEW c \in Contracts
    PROVE  /\ contract[c] \in Statuses
           /\ held[c] \in Nat
           /\ StatusHeld(contract[c], c, held[c], requests)
BY DEF Inductive, Current, ContractsOK, HeldOK

LEMMA JobOfCurrent ==
    ASSUME Current, NEW w \in Workers
    PROVE  JobCurrent(jobs[w], contract, requests)
BY DEF Current, JobsCurrent

LEMMA AtWork ==
    ASSUME NEW w \in Workers,
           jobs[w].op \in {"update", "sign", "submit", "requestCancel", "submitted",
                           "cancelRequested", "act", "withdraw", "notify", "complete"}
    PROVE  jobs[w] # Idle
BY DEF Idle

-----------------------------------------------------------------------------
(* Steps of a worker, one request at a time                                *)

LEMMA ReadersCurrent ==
    ASSUME Inductive, Current, ~ overlap, NEW w \in Workers, NEW c \in Contracts,
           \/ ReadForUpdate(w, c) \/ ReadForSubmit(w, c)
           \/ ReadForCancel(w, c) \/ ReadForSigning(w, c)
    PROVE  Current'
<1>1. UNCHANGED <<contract, requests>> /\ Rest
  BY DEF ReadForUpdate, ReadForSubmit, ReadForCancel, ReadForSigning, StockUnchanged, Rest
<1>2. \A v \in Workers \ {w} : jobs[v] = Idle
  BY DEF ReadForUpdate, ReadForSubmit, ReadForCancel, ReadForSigning, Begin, Alone
<1>3. \E op \in {"update", "submit", "requestCancel", "sign"} :
         LET job == [op |-> op, contract |-> c, seen |-> contract[c]]
         IN  /\ jobs' = [jobs EXCEPT ![w] = job]
             /\ op \in {"update", "submit"} => contract[c] \in Editable
             /\ op = "requestCancel" => contract[c] \in Cancellable
             /\ op = "sign" => contract[c] = "PENDING_BUYER_SIGNATURE"
  BY DEF ReadForUpdate, ReadForSubmit, ReadForCancel, ReadForSigning, Begin
<1>4. PICK op \in {"update", "submit", "requestCancel", "sign"} :
         LET job == [op |-> op, contract |-> c, seen |-> contract[c]]
         IN  /\ jobs' = [jobs EXCEPT ![w] = job]
             /\ op \in {"update", "submit"} => contract[c] \in Editable
             /\ op = "requestCancel" => contract[c] \in Cancellable
             /\ op = "sign" => contract[c] = "PENDING_BUYER_SIGNATURE"
  BY <1>3
<1> DEFINE job == [op |-> op, contract |-> c, seen |-> contract[c]]
<1>5. JobCurrent(job, contract, requests)
  BY <1>4 DEF JobCurrent
<1>6. jobs' = [jobs EXCEPT ![w] = job]
  BY <1>4
<1> HIDE DEF job
<1> QED
  BY <1>1, <1>2, <1>5, <1>6, OnlyJobCurrent

LEMMA LoadRequestCurrent ==
    ASSUME Inductive, Current, ~ overlap, NEW w \in Workers, NEW r \in DOMAIN requests,
           LoadRequest(w, r)
    PROVE  Current'
<1>1. PICK op \in {"act", "withdraw"} : jobs' = [jobs EXCEPT ![w] = [op |-> op, req |-> r]]
  BY DEF LoadRequest, Begin
<1> DEFINE job == [op |-> op, req |-> r]
<1>2. Newest(r, requests)
  BY DEF LoadRequest, Current, RequestsCurrent
<1>3. JobCurrent(job, contract, requests)
  BY <1>2 DEF JobCurrent
<1>4. jobs' = [jobs EXCEPT ![w] = job]
  BY <1>1
<1>5. \A v \in Workers \ {w} : jobs[v] = Idle
  BY DEF LoadRequest, Begin, Alone
<1> HIDE DEF job
<1> QED
  BY <1>3, <1>4, <1>5, OnlyJobCurrent DEF LoadRequest, StockUnchanged, Rest

LEMMA AbandonCurrent ==
    ASSUME Inductive, Current, NEW w \in Workers, Abandon(w)
    PROVE  Current'
<1>1. \A v \in Workers \ {w} : jobs[v] = Idle
  BY OthersIdle DEF Abandon, Current
<1> QED
  BY <1>1, IdleCurrent, OnlyJobCurrent DEF Abandon, Finish, StockUnchanged, Rest

(* The status an unlocked operation writes is reached from the one it read.*)
LEMMA StaleWritesCurrent ==
    ASSUME Inductive, Current, NEW w \in Workers,
           Update(w) \/ WritePending(w) \/ BuyerSigns(w)
    PROVE  Current'
<1> DEFINE c == jobs[w].contract
<1>1. /\ jobs' = [jobs EXCEPT ![w] = Idle] /\ UNCHANGED requests /\ Rest
      /\ jobs[w].op \in {"update", "submitted", "cancelRequested", "sign"}
  BY DEF Update, WritePending, BuyerSigns, Finish, StockUnchanged, Rest
<1>2. c \in Contracts /\ jobs[w] # Idle
  BY <1>1, JobOf, JobFields, AtWork
<1>3. JobCurrent(jobs[w], contract, requests) /\ StatusHeld(contract[c], c, held[c], requests)
  BY <1>2, JobOfCurrent, ContractStatus
<1>4. \E to : contract' = [contract EXCEPT ![c] = to] /\ StatusHeld(to, c, held[c], requests)
  <2>1. CASE Update(w)
    <3>1. contract' = [contract EXCEPT ![c] = "DRAFT"]
      BY <2>1 DEF Update, SetStatus
    <3>2. contract[c] \in Editable
      BY <1>3, <2>1 DEF JobCurrent, Update
    <3>3. StatusHeld("DRAFT", c, held[c], requests)
      BY <1>3, <3>2 DEF StatusHeld, Units, Editable
    <3> QED
      BY <3>1, <3>3
  <2>2. CASE WritePending(w) /\ jobs[w].op = "submitted"
    <3>1. contract' = [contract EXCEPT ![c] = "PENDING_APPROVAL"]
      BY <2>2 DEF WritePending, SetStatus
    <3>2. contract[c] \in Editable
      BY <1>3, <2>2 DEF JobCurrent
    <3>3. StatusHeld("PENDING_APPROVAL", c, held[c], requests)
      BY <1>3, <3>2 DEF StatusHeld, Units, Editable
    <3> QED
      BY <3>1, <3>3
  <2>3. CASE WritePending(w) /\ jobs[w].op = "cancelRequested"
    <3>1. contract' = [contract EXCEPT ![c] = "PENDING_CANCEL_APPROVAL"]
      BY <2>3 DEF WritePending, SetStatus
    <3>2. /\ contract[c] \in Cancellable
          /\ \E r \in DOMAIN requests : /\ LatestCancel(r, c, requests)
                                        /\ requests[r].previous = contract[c]
      BY <1>3, <2>3 DEF JobCurrent
    <3>3. held[c] = Units(contract[c])
      BY <1>3, <3>2 DEF StatusHeld, Cancellable
    <3>4. StatusHeld("PENDING_CANCEL_APPROVAL", c, held[c], requests)
      BY <3>2, <3>3 DEF StatusHeld
    <3> QED
      BY <3>1, <3>4
  <2>4. CASE BuyerSigns(w)
    <3>1. contract' = [contract EXCEPT ![c] = "BUYER_SIGNED"]
      BY <2>4 DEF BuyerSigns, SetStatus
    <3>2. contract[c] = "PENDING_BUYER_SIGNATURE"
      BY <1>3, <2>4 DEF JobCurrent, BuyerSigns
    <3>3. StatusHeld("BUYER_SIGNED", c, held[c], requests)
      BY <1>3, <3>2 DEF StatusHeld, Units
    <3> QED
      BY <3>1, <3>3
  <2> QED
    BY <2>1, <2>2, <2>3, <2>4 DEF WritePending
<1> HIDE DEF c
<1> QED
  BY <1>1, <1>2, <1>4, StatusWriteCurrent

LEMMA ListenerReadsCurrent ==
    ASSUME Inductive, Current, NEW w \in Workers, ListenerReads(w)
    PROVE  Current'
<1> DEFINE r == jobs[w].req
<1>1. /\ jobs[w].op = "notify"
      /\ ~ (requests[r].type = "SALES_CONTRACT_CANCEL" /\ jobs[w].outcome = "APPROVED")
      /\ UNCHANGED <<contract, requests>> /\ Rest
  BY DEF ListenerReads, StockUnchanged, Rest
<1>2. \A v \in Workers \ {w} : jobs[v] = Idle
  BY <1>1, AtWork, OthersIdle DEF Current
<1>3. Newest(r, requests)
  BY <1>1, JobOfCurrent DEF JobCurrent
<1>4. CASE jobs' = [jobs EXCEPT ![w] = Idle]
  BY <1>1, <1>2, <1>4, IdleCurrent, OnlyJobCurrent
<1>5. CASE /\ contract[Subject(r)] = PendingFor(r)
           /\ jobs' = [jobs EXCEPT ![w] = [jobs[w] EXCEPT !.op = "complete"]]
  <2> DEFINE job == [op |-> "complete", req |-> r, outcome |-> jobs[w].outcome]
  <2>1. /\ jobs[w].outcome \in Outcomes
        /\ jobs[w] = [op |-> jobs[w].op, req |-> r, outcome |-> jobs[w].outcome]
    BY <1>1, JobOf, JobFields
  <2>2. [jobs[w] EXCEPT !.op = "complete"] = job
    BY <2>1
  <2>3. requests[r].type = "SALES_CONTRACT_CANCEL" => jobs[w].outcome = "REJECTED"
    BY <1>1, <2>1 DEF Outcomes
  <2>4. JobCurrent(job, contract, requests)
    BY <1>3, <1>5, <2>3 DEF JobCurrent, Subject, PendingFor
  <2> HIDE DEF job
  <2> QED
    BY <1>1, <1>2, <1>5, <2>2, <2>4, OnlyJobCurrent
<1> QED
  BY <1>4, <1>5 DEF ListenerReads, Finish, Proceed

LEMMA RequestOfJob ==
    ASSUME Inductive, NEW w \in Workers,
           jobs[w].op \in {"act", "withdraw", "notify", "complete"}
    PROVE  /\ jobs[w].req \in DOMAIN requests
           /\ requests[jobs[w].req] \in Request
           /\ Subject(jobs[w].req) \in Contracts
<1>1. jobs[w].req \in DOMAIN requests
  BY JobOf DEF JobSound
<1>2. requests[jobs[w].req] \in Request
  BY <1>1 DEF Inductive, RequestsOK
<1> QED
  BY <1>1, <1>2 DEF Request, Subject

(* What a pending cancellation would restore is what the contract holds.   *)
LEMMA PendingCancelHolds ==
    ASSUME Inductive, Current, NEW c \in Contracts, NEW r,
           LatestCancel(r, c, requests), contract[c] = "PENDING_CANCEL_APPROVAL"
    PROVE  held[c] = Units(requests[r].previous) /\ requests[r].previous \in Cancellable
<1>1. PICK q \in DOMAIN requests : /\ LatestCancel(q, c, requests)
                                   /\ held[c] = Units(requests[q].previous)
  BY ContractStatus DEF StatusHeld
<1>2. requests \in Seq(Request)
  BY DEF Inductive, RequestsOK
<1>3. q = r
  BY <1>1, <1>2, NewestIsUnique
<1> QED
  BY <1>1, <1>3 DEF Current, RequestsCurrent, LatestCancel

LEMMA ListenerWritesCurrent ==
    ASSUME Inductive, Current, NEW w \in Workers, ListenerWrites(w)
    PROVE  Current'
<1> DEFINE r  == jobs[w].req
           c  == Subject(r)
           to == StatusAfter(r, jobs[w].outcome)
<1>1. /\ jobs[w].op = "complete"
      /\ jobs' = [jobs EXCEPT ![w] = Idle] /\ contract' = [contract EXCEPT ![c] = to]
      /\ UNCHANGED requests /\ Rest
  BY DEF ListenerWrites, SetStatus, Finish, StockUnchanged, Rest
<1>2. r \in DOMAIN requests /\ requests[r] \in Request /\ c \in Contracts
  BY <1>1, RequestOfJob
<1>3. /\ Newest(r, requests)
      /\ contract[c] = IF requests[r].type = "SALES_CONTRACT"
                       THEN "PENDING_APPROVAL" ELSE "PENDING_CANCEL_APPROVAL"
  BY <1>1, JobOfCurrent DEF JobCurrent, Subject
<1>4. StatusHeld(to, c, held[c], requests)
  <2>1. CASE requests[r].type = "SALES_CONTRACT"
    <3>1. to \in Outcomes
      BY <1>1, <2>1, JobOf, JobFields DEF StatusAfter
    <3>2. StatusHeld("PENDING_APPROVAL", c, held[c], requests)
      BY <1>2, <1>3, <2>1, ContractStatus
    <3> QED
      BY <3>1, <3>2 DEF StatusHeld, Units, Outcomes
  <2>2. CASE requests[r].type = "SALES_CONTRACT_CANCEL"
    <3>1. LatestCancel(r, c, requests)
      BY <1>2, <1>3, <2>2 DEF LatestCancel, Subject
    <3>2. held[c] = Units(to) /\ to \in Cancellable
      BY <1>2, <1>3, <2>2, <3>1, PendingCancelHolds DEF StatusAfter
    <3> QED
      BY <3>2 DEF StatusHeld, Cancellable
  <2> QED
    BY <1>2, <2>1, <2>2 DEF Request
<1>5. jobs[w] # Idle
  BY <1>1, AtWork
<1> HIDE DEF r, c, to
<1> QED
  BY <1>1, <1>2, <1>4, <1>5, StatusWriteCurrent

LEMMA SubjectsStay ==
    ASSUME NEW reqs \in Seq(Request), NEW r \in DOMAIN reqs, NEW status
    PROVE  SameSubjects(reqs, [reqs EXCEPT ![r].status = status])
<1> DEFINE reqs2 == [reqs EXCEPT ![r].status = status]
<1>1. ASSUME NEW q \in DOMAIN reqs
      PROVE  /\ reqs2[q].type = reqs[q].type
             /\ reqs2[q].contract = reqs[q].contract
             /\ reqs2[q].previous = reqs[q].previous
  <2>1. reqs[q] \in Request
    OBVIOUS
  <2>2. CASE q = r
    BY <2>1, <2>2 DEF Request
  <2>3. CASE q # r
    BY <2>1, <2>3
  <2> QED
    BY <2>2, <2>3
<1> QED
  BY <1>1 DEF SameSubjects

(* An approver decides or withdraws: no subject changes.                   *)
LEMMA DecisionCurrent ==
    ASSUME Inductive, Current, NEW w \in Workers, jobs[w] # Idle,
           NEW r \in DOMAIN requests,
           NEW status \in {"APPROVED", "REJECTED", "CANCELLED"},
           requests' = [requests EXCEPT ![r].status = status],
           NEW job, JobCurrent(job, contract, requests'),
           jobs' = [jobs EXCEPT ![w] = job],
           UNCHANGED contract, Rest
    PROVE  Current'
<1>1. requests \in Seq(Request) /\ jobs \in [Workers -> Job]
  BY DEF Inductive, RequestsOK, JobsOK
<1>2. SameSubjects(requests, requests')
  BY <1>1, SubjectsStay
<1>3. \A q \in DOMAIN requests : requests'[q].status = "PENDING" =>
                                    requests[q].status = "PENDING"
  <2>1. ASSUME NEW q \in DOMAIN requests, requests'[q].status = "PENDING"
        PROVE  requests[q].status = "PENDING"
    <3>1. requests[r] \in Request
      BY <1>1
    <3>2. CASE q = r
      <4>1. requests'[q].status = status
        BY <3>1, <3>2 DEF Request
      <4> QED
        BY <2>1, <4>1
    <3>3. CASE q # r
      BY <2>1, <3>3
    <3> QED
      BY <3>2, <3>3
  <2> QED
    BY <2>1
<1>4. HeldOK(contract', held', requests')
  <2>1. ASSUME NEW c \in Contracts PROVE StatusHeld(contract[c], c, held[c], requests')
    <3>1. StatusHeld(contract[c], c, held[c], requests)
      BY ContractStatus
    <3>2. ASSUME NEW q \in DOMAIN requests, LatestCancel(q, c, requests)
          PROVE  /\ q \in DOMAIN requests' /\ LatestCancel(q, c, requests')
                 /\ requests'[q].previous = requests[q].previous
      BY <1>2, <3>2, LatestStays DEF SameSubjects
    <3> QED
      BY <3>1, <3>2 DEF StatusHeld
  <2> QED
    BY <2>1 DEF Current, HeldOK, Rest
<1>5. RequestsCurrent(requests')
  BY <1>2, <1>3, LatestStays DEF Current, RequestsCurrent, SameSubjects
<1>6. JobsCurrent(jobs', contract', requests')
  BY <1>1, OthersIdle, SetJobCurrent DEF Current
<1> QED
  BY <1>4, <1>5, <1>6 DEF Current, Rest

LEMMA DecideCurrent ==
    ASSUME Inductive, Current, NEW w \in Workers, NEW outcome \in Outcomes, Decide(w, outcome)
    PROVE  Current'
<1> DEFINE r   == jobs[w].req
           job == [op |-> "notify", req |-> r, outcome |-> outcome]
<1>1. /\ jobs[w].op = "act"
      /\ requests' = [requests EXCEPT ![r].status = outcome]
      /\ jobs' = [jobs EXCEPT ![w] = job]
      /\ UNCHANGED contract /\ Rest
  BY DEF Decide, Proceed, StockUnchanged, Rest
<1>2. /\ r \in DOMAIN requests /\ jobs[w] # Idle
      /\ outcome \in {"APPROVED", "REJECTED", "CANCELLED"}
  BY <1>1, RequestOfJob, AtWork DEF Outcomes
<1>3. Newest(r, requests)
  BY <1>1, JobOfCurrent DEF JobCurrent
<1>4. Newest(r, requests')
  <2>1. requests \in Seq(Request)
    BY DEF Inductive, RequestsOK
  <2> QED
    BY <1>1, <1>2, <1>3, <2>1, SubjectsStay, LatestStays
<1>5. JobCurrent(job, contract, requests')
  BY <1>4 DEF JobCurrent
<1> HIDE DEF r, job
<1> QED
  BY <1>1, <1>2, <1>5, DecisionCurrent

LEMMA WithdrawCurrent ==
    ASSUME Inductive, Current, NEW w \in Workers, Withdraw(w)
    PROVE  Current'
<1>1. jobs[w].op = "withdraw"
  BY DEF Withdraw
<1>2. jobs[w].req \in DOMAIN requests /\ jobs[w] # Idle
  BY <1>1, RequestOfJob, AtWork
<1> QED
  BY <1>2, IdleCurrent, DecisionCurrent DEF Withdraw, Finish, StockUnchanged, Rest

(* A new request: it is the newest of its kind, for none of them is open.  *)
LEMMA CreateRequestCurrent ==
    ASSUME Inductive, Current, NEW w \in Workers, CreateRequest(w)
    PROVE  Current'
<1> DEFINE c   == jobs[w].contract
           row == [type |-> TypeOf(jobs[w].op), contract |-> c,
                   previous |-> jobs[w].seen, status |-> "PENDING"]
           job == [op |-> IF jobs[w].op = "submit" THEN "submitted" ELSE "cancelRequested",
                   contract |-> c]
           n   == Len(requests) + 1
<1>1. /\ jobs[w].op \in {"submit", "requestCancel"}
      /\ requests' = Append(requests, row)
      /\ jobs' = [jobs EXCEPT ![w] = job]
      /\ UNCHANGED contract /\ Rest
  BY DEF CreateRequest, Proceed, StockUnchanged, Rest
<1>2. \A r \in DOMAIN requests :
         ~ (requests[r].type = row.type /\ requests[r].contract = c
            /\ requests[r].status = "PENDING")
  BY DEF CreateRequest
<1>3. c \in Contracts /\ jobs[w].seen \in Statuses /\ jobs[w] # Idle
  BY <1>1, JobOf, JobFields, AtWork
<1>4. /\ jobs[w].op = "submit" => contract[c] \in Editable
      /\ jobs[w].op = "requestCancel" => jobs[w].seen \in Cancellable
                                         /\ contract[c] = jobs[w].seen
  BY JobOfCurrent DEF JobCurrent
<1>5. /\ row \in Request /\ row.contract = c /\ row.previous = jobs[w].seen
      /\ row.type = "SALES_CONTRACT_CANCEL" <=> jobs[w].op = "requestCancel"
  BY <1>1, <1>3 DEF Request, TypeOf
<1>6. requests \in Seq(Request) /\ jobs \in [Workers -> Job]
  BY DEF Inductive, RequestsOK, JobsOK
<1> HIDE DEF row
<1>7. /\ n \in Nat
      /\ DOMAIN requests' = DOMAIN requests \cup {n}
      /\ \A r \in DOMAIN requests : requests'[r] = requests[r] /\ r \in Nat /\ r < n
      /\ requests'[n] = row
  BY <1>1, <1>5, <1>6
<1> HIDE DEF n
<1>8. Newest(n, requests')
  BY <1>7 DEF Newest
<1>9. HeldOK(contract', held', requests')
  <2>1. ASSUME NEW d \in Contracts PROVE StatusHeld(contract[d], d, held[d], requests')
    <3>1. StatusHeld(contract[d], d, held[d], requests)
      BY ContractStatus
    <3>2. CASE contract[d] = "PENDING_CANCEL_APPROVAL"
      <4>1. ~ (row.type = "SALES_CONTRACT_CANCEL" /\ row.contract = d)
        BY <1>4, <1>5, <3>2 DEF Cancellable
      <4>2. PICK q \in DOMAIN requests : /\ LatestCancel(q, d, requests)
                                         /\ held[d] = Units(requests[q].previous)
        BY <3>1, <3>2 DEF StatusHeld
      <4>3. LatestCancel(q, d, requests') /\ requests'[q] = requests[q]
        BY <1>1, <1>5, <1>6, <4>1, <4>2, LatestStaysOnAppend
      <4> QED
        BY <1>7, <3>2, <4>2, <4>3 DEF StatusHeld
    <3> QED
      BY <3>1, <3>2 DEF StatusHeld
  <2> QED
    BY <1>1, <2>1 DEF Current, HeldOK, Rest
<1>10. RequestsCurrent(requests')
  <2>1. ASSUME NEW r \in DOMAIN requests', requests'[r].status = "PENDING"
        PROVE  Newest(r, requests')
    <3>1. CASE r = n
      BY <1>8, <3>1
    <3>2. CASE r \in DOMAIN requests
      <4>1. Newest(r, requests)
        BY <1>7, <2>1, <3>2 DEF Current, RequestsCurrent
      <4>2. ~ (row.type = requests[r].type /\ row.contract = requests[r].contract)
        BY <1>2, <1>5, <1>7, <2>1, <3>2
      <4> QED
        BY <1>7, <3>2, <4>1, <4>2 DEF Newest
    <3> QED
      BY <1>7, <3>1, <3>2
  <2>2. ASSUME NEW r \in DOMAIN requests', requests'[r].type = "SALES_CONTRACT_CANCEL"
        PROVE  requests'[r].previous \in Cancellable
    <3>1. CASE r = n
      BY <1>4, <1>5, <1>7, <2>2, <3>1
    <3>2. CASE r \in DOMAIN requests
      BY <1>7, <2>2, <3>2 DEF Current, RequestsCurrent
    <3> QED
      BY <1>7, <3>1, <3>2
  <2> QED
    BY <2>1, <2>2 DEF RequestsCurrent
<1>11. JobCurrent(job, contract', requests')
  <2>1. job.op = "submitted" => contract[c] \in Editable
    BY <1>1, <1>4
  <2>2. ASSUME job.op = "cancelRequested"
        PROVE  /\ contract[c] \in Cancellable
               /\ LatestCancel(n, c, requests') /\ requests'[n].previous = contract[c]
    <3>1. jobs[w].op = "requestCancel"
      BY <1>1, <2>2
    <3> QED
      BY <1>4, <1>5, <1>7, <1>8, <3>1 DEF LatestCancel
  <2>3. job.op \in {"submitted", "cancelRequested"} /\ job.contract = c
    OBVIOUS
  <2> QED
    BY <1>1, <1>7, <2>1, <2>2, <2>3 DEF JobCurrent
<1> HIDE DEF job
<1>12. JobsCurrent(jobs', contract', requests')
  BY <1>1, <1>3, <1>6, <1>11, OthersIdle, SetJobCurrent DEF Current
<1> QED
  BY <1>1, <1>9, <1>10, <1>12 DEF Current, Rest

-----------------------------------------------------------------------------
(* Stock, one request at a time                                            *)

(* What the contracts hold changes by the lines of the one contract.       *)
LEMMA PromisedChanges ==
    ASSUME NEW h \in [Contracts -> Nat], NEW c \in Contracts, NEW k \in Nat,
           NEW p \in Products
    PROVE  LET before == SumOver(Promised(h, p), Contracts)
               after  == SumOver(Promised([h EXCEPT ![c] = k], p), Contracts)
           IN  /\ before \in Nat /\ h[c] * Lines[c][p] \in Nat
               /\ h[c] * Lines[c][p] <= before
               /\ after = before + (k * Lines[c][p] - h[c] * Lines[c][p])
<1> DEFINE g == [h EXCEPT ![c] = k]
           before == Promised(h, p)
           after  == Promised(g, p)
<1>1. \A n \in Nat, d \in Contracts : n * Lines[d][p] \in Nat
  BY LinesAssumption
<1>2. g \in [Contracts -> Nat] /\ g[c] = k /\ \A d \in Contracts : d # c => g[d] = h[d]
  OBVIOUS
<1> HIDE DEF g
<1>3. /\ before \in [Contracts -> Nat] /\ after \in [Contracts -> Nat]
      /\ before[c] = h[c] * Lines[c][p] /\ after[c] = k * Lines[c][p]
      /\ \A d \in Contracts : d # c => after[d] = before[d]
  BY <1>1, <1>2 DEF Promised
<1> HIDE DEF before, after
<1>4. before \in [Contracts -> Int] /\ after \in [Contracts -> Int]
  BY <1>3
<1>5. /\ SumOver(before, Contracts) \in Nat
      /\ before[c] <= SumOver(before, Contracts)
      /\ SumOver(after, Contracts) = SumOver(before, Contracts) + (after[c] - before[c])
  BY <1>3, <1>4, ContractsAssumption, SumOverNat, SumOverBound, SumOverChange
<1> QED
  BY <1>1, <1>3, <1>5 DEF before, after, g

(* A contract that holds nothing reserves its lines.                       *)
LEMMA ReserveLinesHeld ==
    ASSUME HeldOK(contract, held, requests), ReservedOK(reserved, held),
           StockOK(stock, reserved), NEW c \in Contracts, held[c] = 0, ReserveLines(c)
    PROVE  held' = [held EXCEPT ![c] = 1] /\ ReservedOK(reserved', held')
<1>1. held \in [Contracts -> Nat]
  BY DEF HeldOK
<1>2. held' = [held EXCEPT ![c] = 1]
  BY <1>1 DEF ReserveLines
<1>3. ASSUME NEW p \in Products
      PROVE  reserved'[p] = SumOver(Promised(held', p), Contracts)
  <2>1. /\ reserved[p] = SumOver(Promised(held, p), Contracts)
        /\ reserved'[p] = reserved[p] + Lines[c][p]
        /\ Lines[c][p] \in Nat /\ reserved[p] \in Nat
    BY LinesAssumption DEF ReservedOK, ReserveLines, StockOK
  <2>2. SumOver(Promised(held', p), Contracts)
          = SumOver(Promised(held, p), Contracts) + (1 * Lines[c][p] - held[c] * Lines[c][p])
    BY <1>1, <1>2, PromisedChanges
  <2> QED
    BY <2>1, <2>2
<1> QED
  BY <1>2, <1>3 DEF ReservedOK

(* A contract that holds its lines releases them: nothing is cut off at 0. *)
LEMMA ReleaseLinesHeld ==
    ASSUME HeldOK(contract, held, requests), ReservedOK(reserved, held),
           StockOK(stock, reserved), NEW c \in Contracts, held[c] = 1, ReleaseLines(c)
    PROVE  held' = [held EXCEPT ![c] = 0] /\ ReservedOK(reserved', held')
<1>1. held \in [Contracts -> Nat]
  BY DEF HeldOK
<1>2. held' = [held EXCEPT ![c] = 0]
  BY <1>1 DEF ReleaseLines
<1>3. ASSUME NEW p \in Products
      PROVE  reserved'[p] = SumOver(Promised(held', p), Contracts)
  <2>1. /\ reserved[p] = SumOver(Promised(held, p), Contracts)
        /\ reserved'[p] = IF reserved[p] < Lines[c][p]
                          THEN 0 ELSE reserved[p] - Lines[c][p]
        /\ Lines[c][p] \in Nat /\ reserved[p] \in Nat
    BY LinesAssumption DEF ReservedOK, ReleaseLines, StockOK
  <2>2. /\ held[c] * Lines[c][p] <= SumOver(Promised(held, p), Contracts)
        /\ SumOver(Promised(held', p), Contracts)
             = SumOver(Promised(held, p), Contracts)
               + (0 * Lines[c][p] - held[c] * Lines[c][p])
    BY <1>1, <1>2, PromisedChanges
  <2> QED
    BY <2>1, <2>2
<1> QED
  BY <1>2, <1>3 DEF ReservedOK

(* What one contract holds changes along with its status.                  *)
LEMMA SetStatusAndHeld ==
    ASSUME NEW status \in [Contracts -> Statuses], NEW h, NEW reqs, HeldOK(status, h, reqs),
           NEW c \in Contracts, NEW to, NEW k \in Nat, StatusHeld(to, c, k, reqs)
    PROVE  HeldOK([status EXCEPT ![c] = to], [h EXCEPT ![c] = k], reqs)
BY DEF HeldOK

LEMMA CompleteCancelCurrent ==
    ASSUME Inductive, Current, NEW w \in Workers, CompleteCancelWorkflow(w)
    PROVE  Current'
<1> DEFINE r == jobs[w].req
           c == Subject(r)
<1>1. /\ jobs[w].op = "notify"
      /\ requests[r].type = "SALES_CONTRACT_CANCEL"
      /\ jobs' = [jobs EXCEPT ![w] = Idle] /\ UNCHANGED requests
  BY DEF CompleteCancelWorkflow, Finish
<1>2. r \in DOMAIN requests /\ c \in Contracts /\ jobs[w] # Idle
  BY <1>1, RequestOfJob, AtWork
<1>3. jobs \in [Workers -> Job] /\ contract \in [Contracts -> Statuses]
  BY DEF Inductive, JobsOK, ContractsOK
<1>4. JobsCurrent(jobs', contract', requests')
  BY <1>1, <1>2, <1>3, OthersIdle, IdleCurrent, SetJobCurrent DEF Current
<1>5. LatestCancel(r, c, requests)
  <2>1. Newest(r, requests)
    BY <1>1, JobOfCurrent DEF JobCurrent
  <2> QED
    BY <1>1, <1>2, <2>1 DEF LatestCancel, Subject
<1>6. HeldOK(contract', held', requests') /\ ReservedOK(reserved', held')
  <2>1. CASE UNCHANGED contract /\ StockUnchanged
    BY <1>1, <2>1 DEF StockUnchanged, Current
  <2>2. CASE /\ contract[c] = "PENDING_CANCEL_APPROVAL"
             /\ contract' = [contract EXCEPT ![c] = "CANCELLED"]
    <3>1. held[c] = Units(requests[r].previous)
      BY <1>2, <1>5, <2>2, PendingCancelHolds
    <3>2. StatusHeld("CANCELLED", c, 0, requests)
          /\ StatusHeld("CANCELLED", c, held[c], requests)
      BY DEF StatusHeld
    <3>3. CASE ReleaseLines(c) /\ requests[r].previous = "CONFIRMED"
      <4>1. held[c] = 1
        BY <3>1, <3>3 DEF Units
      <4>2. held' = [held EXCEPT ![c] = 0] /\ ReservedOK(reserved', held')
        BY <1>2, <3>3, <4>1, ReleaseLinesHeld DEF Current, Inductive
      <4>3. HeldOK(contract', held', requests)
        BY <1>2, <1>3, <2>2, <3>2, <4>2, SetStatusAndHeld DEF Current
      <4> QED
        BY <1>1, <4>2, <4>3
    <3>4. CASE StockUnchanged
      <4>1. HeldOK(contract', held, requests)
        BY <1>2, <1>3, <2>2, <3>2, SetStatusHeld DEF Current
      <4> QED
        BY <1>1, <3>4, <4>1 DEF StockUnchanged, Current
    <3> QED
      BY <2>2, <3>3, <3>4 DEF CompleteCancelWorkflow, SetStatus
  <2> QED
    BY <2>1, <2>2 DEF CompleteCancelWorkflow, SetStatus
<1> QED
  BY <1>1, <1>4, <1>6 DEF Current, RequestsCurrent

LEMMA WorkerStepCurrent ==
    ASSUME Inductive, Current, ~ overlap, NEW w \in Workers, WorkerStep(w)
    PROVE  Current'
BY ReadersCurrent, StaleWritesCurrent, CreateRequestCurrent, LoadRequestCurrent,
   DecideCurrent, WithdrawCurrent, ListenerReadsCurrent, ListenerWritesCurrent,
   CompleteCancelCurrent, AbandonCurrent
   DEF WorkerStep

(* Only confirming takes stock, and a contract that may be confirmed holds *)
(* none yet.                                                               *)
LEMMA LockedStepCurrent ==
    ASSUME Inductive, Current, ~ overlap, NEW c \in Contracts, LockedStep(c)
    PROVE  Current'
<1>1. UNCHANGED <<jobs, requests>> /\ \A v \in Workers : jobs[v] = Idle
  BY DEF LockedStep, SendForSignature, RevokeSignatureInvitation, SignContract,
         ConfirmContract, ShipContract, RejectInApprovalCenter, PayInFull, NoJobs, AllIdle
<1>2. JobsCurrent(jobs', contract', requests')
  BY <1>1, IdleCurrent DEF JobsCurrent
<1>3. contract \in [Contracts -> Statuses]
  BY DEF Inductive, ContractsOK
<1>4. HeldOK(contract', held', requests') /\ ReservedOK(reserved', held')
  <2>1. CASE ReserveAndConfirm(c)
    <3>1. held[c] = 0
      BY <2>1, ContractStatus DEF ReserveAndConfirm, Confirmable, StatusHeld, Units
    <3>2. held' = [held EXCEPT ![c] = 1] /\ ReservedOK(reserved', held')
      BY <2>1, <3>1, ReserveLinesHeld DEF ReserveAndConfirm, Current, Inductive
    <3>3. StatusHeld("CONFIRMED", c, 1, requests)
      BY DEF StatusHeld, Units
    <3>4. HeldOK(contract', held', requests)
      BY <1>3, <2>1, <3>2, <3>3, SetStatusAndHeld DEF ReserveAndConfirm, SetStatus, Current
    <3> QED
      BY <1>1, <3>2, <3>4
  <2>2. CASE /\ StockUnchanged
             /\ \E to : /\ contract' = [contract EXCEPT ![c] = to]
                        /\ StatusHeld(to, c, held[c], requests)
    <3>1. PICK to : /\ contract' = [contract EXCEPT ![c] = to]
                    /\ StatusHeld(to, c, held[c], requests)
      BY <2>2
    <3>2. HeldOK([contract EXCEPT ![c] = to], held, requests)
      BY <1>3, <3>1, SetStatusHeld DEF Current
    <3> QED
      BY <1>1, <2>2, <3>1, <3>2 DEF StockUnchanged, Current
  <2>3. StatusHeld(contract[c], c, held[c], requests)
    BY ContractStatus
  <2>4. CASE SendForSignature(c)
    <3>1. StatusHeld("PENDING_BUYER_SIGNATURE", c, held[c], requests)
      BY <2>3, <2>4 DEF SendForSignature, StatusHeld, Units
    <3> QED
      BY <2>2, <2>4, <3>1 DEF SendForSignature, SetStatus
  <2>5. CASE RevokeSignatureInvitation(c)
    <3>1. StatusHeld("APPROVED", c, held[c], requests)
      BY <2>3, <2>5 DEF RevokeSignatureInvitation, StatusHeld, Units
    <3> QED
      BY <2>2, <2>5, <3>1 DEF RevokeSignatureInvitation, SetStatus
  <2>6. CASE ShipContract(c)
    <3>1. StatusHeld("SHIPPED", c, held[c], requests)
      BY <2>3, <2>6 DEF ShipContract, StatusHeld, Units
    <3> QED
      BY <2>2, <2>6, <3>1 DEF ShipContract, SetStatus
  <2>7. CASE RejectInApprovalCenter(c) \/ PayInFull(c)
    <3>1. StatusHeld("CANCELLED", c, held[c], requests)
          /\ StatusHeld("PAID", c, held[c], requests)
      BY DEF StatusHeld
    <3> QED
      BY <2>2, <2>7, <3>1 DEF RejectInApprovalCenter, PayInFull, SetStatus
  <2> QED
    BY <2>1, <2>4, <2>5, <2>6, <2>7 DEF LockedStep, SignContract, ConfirmContract
<1> QED
  BY <1>1, <1>2, <1>4 DEF Current, RequestsCurrent

-----------------------------------------------------------------------------
(* The theorems for requests served one at a time                          *)

LEMMA InitSerial == Init => Serial
<1> SUFFICES ASSUME Init PROVE Current
  BY DEF Serial
<1>1. HeldOK(contract, held, requests)
  BY DEF Init, HeldOK, StatusHeld, Units
<1>2. JobsCurrent(jobs, contract, requests)
  BY IdleCurrent DEF Init, JobsCurrent
<1>3. RequestsCurrent(requests)
  BY DEF Init, RequestsCurrent
<1>4. ReservedOK(reserved, held)
  <2>1. ASSUME NEW p \in Products PROVE SumOver(Promised(held, p), Contracts) = 0
    <3>1. /\ Promised(held, p) \in [Contracts -> Int]
          /\ \A c \in Contracts : Promised(held, p)[c] = 0
      BY LinesAssumption DEF Init, Promised
    <3> QED
      BY <3>1, ContractsAssumption, SumOverZero
  <2> QED
    BY <2>1 DEF Init, ReservedOK
<1> QED
  BY <1>1, <1>2, <1>3, <1>4 DEF Current

(* With requests served one at a time, what a worker has read is still so  *)
(* when it writes, and each status tells how much is held.                 *)
THEOREM SerialInvariant == Spec => []Serial
<1>1. Inductive /\ Serial /\ [Next]_vars => Serial'
  <2> SUFFICES ASSUME Inductive, Serial, [Next]_vars, ~ overlap' PROVE Current'
    BY DEF Serial
  <2>1. UNCHANGED overlap
    BY DEF Next, vars, contractVars
  <2>2. Current
    BY <2>1 DEF Serial
  <2>3. CASE Next
    BY <2>1, <2>2, <2>3, WorkerStepCurrent, LockedStepCurrent DEF Next, Step
  <2>4. CASE UNCHANGED vars
    BY <2>2, <2>4 DEF vars, contractVars, Current
  <2> QED
    BY <2>3, <2>4
<1> QED
  BY InitSerial, ContractsInvariant, <1>1, PTL DEF Spec

LEMMA LatestIsMax ==
    ASSUME requests \in Seq(Request), NEW c, NEW r, LatestCancel(r, c, requests)
    PROVE  Max(CancelRequests(c)) = r
<1> DEFINE S == CancelRequests(c)
<1>1. r \in S /\ S \subseteq Nat
  BY DEF LatestCancel, CancelRequests, Subject
<1>2. \A q \in S : r >= q
  BY <1>1 DEF LatestCancel, CancelRequests, Subject, Newest
<1>3. \A q \in S : (\A x \in S : q >= x) => q = r
  BY <1>1, <1>2
<1> HIDE DEF S
<1>4. Max(S) = CHOOSE x \in S : \A y \in S : x >= y
  BY DEF Max
<1> QED
  BY <1>1, <1>2, <1>3, <1>4 DEF S

(* Status and inventory ledger agree about every contract, for any number  *)
(* of requests to cancel it that are refused, withdrawn, approved or lost  *)
(* half-way: it is reserved once and released once.                        *)
THEOREM StatusTellsWhatIsHeld == Spec => []HeldMatchesStatus
<1>1. Inductive /\ Serial => HeldMatchesStatus
  <2> SUFFICES ASSUME Inductive, Current, NEW c \in Contracts,
                      contract[c] \notin {"CANCELLED", "PAID"}
               PROVE  held[c] = IF HoldsStock(c) THEN 1 ELSE 0
    BY DEF Serial, HeldMatchesStatus
  <2>1. StatusHeld(contract[c], c, held[c], requests)
    BY ContractStatus
  <2>2. CASE contract[c] = "PENDING_CANCEL_APPROVAL"
    <3>1. requests \in Seq(Request)
      BY DEF Inductive, RequestsOK
    <3>2. PICK r \in DOMAIN requests : LatestCancel(r, c, requests)
      BY <2>1, <2>2 DEF StatusHeld
    <3>3. Max(CancelRequests(c)) = r
      BY <3>1, <3>2, LatestIsMax
    <3>4. held[c] = Units(requests[r].previous) /\ requests[r].previous \in Cancellable
      BY <2>2, <3>2, PendingCancelHolds
    <3> QED
      BY <2>2, <3>3, <3>4 DEF HoldsStock, Units, Cancellable
  <2>3. CASE contract[c] # "PENDING_CANCEL_APPROVAL"
    BY <2>1, <2>3 DEF StatusHeld, HoldsStock, Units
  <2> QED
    BY <2>2, <2>3
<1> QED
  BY ContractsInvariant, SerialInvariant, <1>1, PTL

(* The reserved quantity of every product is the sum of what the contracts *)
(* hold of it, for any number of contracts, products and quantities.       *)
THEOREM ReservedIsWhatContractsHold == Spec => []ReservedMatchesHeld
<1>1. Serial => ReservedMatchesHeld
  BY DEF Serial, Current, ReservedOK, Promised, ReservedMatchesHeld
<1> QED
  BY SerialInvariant, <1>1, PTL

-----------------------------------------------------------------------------
(* FULFILMENT: sales contracts and shipments on the same rows              *)

-----------------------------------------------------------------------------
(* What shipping adds to the inductive invariant                           *)

(* A delivery belongs to a shipment there is. *)
DeliveriesKnown(ds, ss) ==
    /\ ds \in Seq(Shipping!Delivery)
    /\ \A d \in DOMAIN ds : ds[d].shipment \in DOMAIN ss

(* A clerk works on a shipment there is, and has seen its contract in an   *)
(* approved stage only if it was approved.                                 *)
DeskKnown(desk, ss, reqs, dec) ==
    /\ desk.op \notin {"idle", "create"} => desk.shipment \in DOMAIN ss
    /\ desk.op # "idle" /\ desk.seen \in ApprovedStages =>
          ApprovedIn(desk.row.contract, reqs, dec)

DesksKnown(dk, ss, reqs, dec) ==
    /\ dk \in [Clerks -> Shipping!Desk]
    /\ \A k \in Clerks : DeskKnown(dk[k], ss, reqs, dec)

ShippingOK ==
    /\ shipments \in Seq(Shipping!Shipment)
    /\ DeliveriesKnown(deliveries, shipments)
    /\ DesksKnown(desks, shipments, requests, decisions)
    /\ otherMoves \in [Products -> Int]

FulfilmentInductive == Inductive /\ ShippingOK

(* What all of shipping, and what a clerk who moves no goods leaves alone. *)
ApprovalsRest == UNCHANGED <<counterSigned, requests, jobs, decisions>>

GoodsRest == UNCHANGED <<stock, reserved, held, otherMoves, deliveries>>

-----------------------------------------------------------------------------
(* Desks                                                                   *)

LEMMA ShippingDeskFields ==
    ASSUME NEW desk \in Shipping!Desk, desk.op # "idle"
    PROVE  /\ desk = [op |-> desk.op, shipment |-> desk.shipment, row |-> desk.row,
                      seen |-> desk.seen]
           /\ desk.shipment \in Nat /\ desk.row \in Shipping!Shipment
           /\ desk.seen \in Statuses
BY DEF Shipping!Desk, Shipping!EmptyDesk, Shipping!ContractStatuses, Statuses

LEMMA EmptyDeskKnown ==
    ASSUME NEW ss, NEW reqs, NEW dec
    PROVE  Shipping!EmptyDesk \in Shipping!Desk
           /\ DeskKnown(Shipping!EmptyDesk, ss, reqs, dec)
BY DEF Shipping!Desk, Shipping!EmptyDesk, DeskKnown

LEMMA KnownDesk ==
    ASSUME ShippingOK, NEW k \in Clerks
    PROVE  desks[k] \in Shipping!Desk
           /\ DeskKnown(desks[k], shipments, requests, decisions)
BY DEF ShippingOK, DesksKnown

LEMMA DesksStayKnown ==
    ASSUME NEW ss, NEW reqs, NEW dec, NEW ss2, NEW reqs2, NEW dec2,
           NEW dk, DesksKnown(dk, ss, reqs, dec),
           DOMAIN ss \subseteq DOMAIN ss2, History(reqs, dec, reqs2, dec2)
    PROVE  DesksKnown(dk, ss2, reqs2, dec2)
<1>1. ASSUME NEW k \in Clerks PROVE DeskKnown(dk[k], ss2, reqs2, dec2)
  <2>1. DeskKnown(dk[k], ss, reqs, dec)
    BY DEF DesksKnown
  <2> QED
    BY <2>1, ApprovedStays DEF DeskKnown
<1> QED
  BY <1>1 DEF DesksKnown

LEMMA SetKnownDesk ==
    ASSUME NEW ss, NEW reqs, NEW dec, NEW dk, DesksKnown(dk, ss, reqs, dec),
           NEW k \in Clerks, NEW desk \in Shipping!Desk, DeskKnown(desk, ss, reqs, dec)
    PROVE  DesksKnown([dk EXCEPT ![k] = desk], ss, reqs, dec)
BY DEF DesksKnown

LEMMA RowOfShipment ==
    ASSUME FulfilmentInductive, NEW s \in DOMAIN shipments
    PROVE  /\ s \in Nat /\ shipments[s] \in Shipping!Shipment
           /\ shipments[s].contract \in Contracts
           /\ contract[shipments[s].contract] \in Statuses
           /\ contract[shipments[s].contract] \in ApprovedStages =>
                 ApprovedIn(shipments[s].contract, requests, decisions)
<1>1. s \in Nat /\ shipments[s] \in Shipping!Shipment
  BY DEF FulfilmentInductive, ShippingOK
<1>2. shipments[s].contract \in Contracts
  BY <1>1 DEF Shipping!Shipment
<1> QED
  BY <1>1, <1>2 DEF FulfilmentInductive, Inductive, ContractsOK

LEMMA DeskAtWork ==
    ASSUME FulfilmentInductive, NEW k \in Clerks, desks[k].op # "idle"
    PROVE  /\ desks[k].op # "create" => desks[k].shipment \in DOMAIN shipments
           /\ desks[k].shipment \in Nat /\ desks[k].row \in Shipping!Shipment
           /\ desks[k].row.contract \in Contracts /\ desks[k].seen \in Statuses
           /\ desks[k].seen \in ApprovedStages =>
                 ApprovedIn(desks[k].row.contract, requests, decisions)
<1>1. desks[k] \in Shipping!Desk /\ DeskKnown(desks[k], shipments, requests, decisions)
  BY KnownDesk DEF FulfilmentInductive
<1>2. /\ desks[k].shipment \in Nat /\ desks[k].row \in Shipping!Shipment
      /\ desks[k].seen \in Statuses
  BY <1>1, ShippingDeskFields
<1>3. desks[k].row.contract \in Contracts
  BY <1>2 DEF Shipping!Shipment
<1> QED
  BY <1>1, <1>2, <1>3 DEF DeskKnown

-----------------------------------------------------------------------------
(* Steps of a clerk that move no goods                                     *)

(* Rows of shipments, the status of contracts and one desk change.         *)
LEMMA ClerkKeepsInductive ==
    ASSUME FulfilmentInductive, NEW k \in Clerks, NEW desk \in Shipping!Desk,
           DeskKnown(desk, shipments, requests, decisions),
           desks' = [desks EXCEPT ![k] = desk],
           shipments' \in Seq(Shipping!Shipment), DOMAIN shipments \subseteq DOMAIN shipments',
           ContractsOK(contract', requests, decisions), ApprovalsRest, GoodsRest
    PROVE  FulfilmentInductive'
<1>1. DesksKnown(desks', shipments, requests, decisions)
  BY SetKnownDesk DEF FulfilmentInductive, ShippingOK
<1>2. DesksKnown(desks', shipments', requests', decisions')
  BY <1>1, SameHistory, DesksStayKnown DEF ApprovalsRest
<1>3. DeliveriesKnown(deliveries', shipments')
  BY DEF GoodsRest, FulfilmentInductive, ShippingOK, DeliveriesKnown
<1>4. Inductive'
  BY DEF ApprovalsRest, GoodsRest, FulfilmentInductive, Inductive
<1> QED
  BY <1>2, <1>3, <1>4 DEF GoodsRest, FulfilmentInductive, ShippingOK

(* A clerk takes a copy of a row.                                          *)
LEMMA ClerkReads ==
    ASSUME FulfilmentInductive, NEW k \in Clerks, NEW op, NEW s, NEW row, NEW seen,
           Shipping!Start(k, op, s, row, seen), ApprovalsRest,
           op \in {"create", "update", "remove", "issue", "ship", "advance"},
           s \in Nat, op # "create" => s \in DOMAIN shipments,
           row \in Shipping!Shipment, seen \in Statuses,
           seen \in ApprovedStages => ApprovedIn(row.contract, requests, decisions)
    PROVE  FulfilmentInductive'
<1> DEFINE desk == [op |-> op, shipment |-> s, row |-> row, seen |-> seen]
<1>1. desk \in Shipping!Desk
  BY DEF Shipping!Desk, Shipping!ContractStatuses, Statuses
<1>2. DeskKnown(desk, shipments, requests, decisions)
  BY DEF DeskKnown
<1>3. desks' = [desks EXCEPT ![k] = desk] /\ UNCHANGED <<contract, shipments>> /\ GoodsRest
  BY DEF Shipping!Start, GoodsRest
<1> HIDE DEF desk
<1> QED
  BY <1>1, <1>2, <1>3, ClerkKeepsInductive
     DEF FulfilmentInductive, ShippingOK, Inductive

LEMMA ShippingReaders ==
    ASSUME FulfilmentInductive, NEW k \in Clerks, ApprovalsRest,
           \/ \E c \in Contracts : Shipping!ReadForCreate(k, c)
           \/ \E s \in DOMAIN shipments :
                 \/ Shipping!ReadForUpdate(k, s) \/ Shipping!ReadForRemove(k, s)
                 \/ Shipping!ReadForIssue(k, s)
                 \/ \E to \in Shipping!Stages : Shipping!ReadForStatus(k, s, to)
    PROVE  FulfilmentInductive'
<1>1. ASSUME NEW c \in Contracts, Shipping!ReadForCreate(k, c) PROVE FulfilmentInductive'
  <2> DEFINE row == [contract |-> c, status |-> "BOOKED", issued |-> FALSE, deleted |-> FALSE]
  <2>1. row \in Shipping!Shipment /\ row.contract = c
    BY DEF Shipping!Shipment, Shipping!Stages, Shipping!Transitions
  <2>2. /\ contract[c] \in Statuses
        /\ contract[c] \in ApprovedStages => ApprovedIn(c, requests, decisions)
    BY DEF FulfilmentInductive, Inductive, ContractsOK
  <2>3. Shipping!Start(k, "create", 0, row, contract[c])
    BY <1>1 DEF Shipping!ReadForCreate
  <2> HIDE DEF row
  <2> QED
    BY <2>1, <2>2, <2>3, ClerkReads
<1>2. ASSUME NEW s \in DOMAIN shipments, NEW op \in {"update", "remove", "issue"},
             Shipping!Read(k, op, s)
      PROVE  FulfilmentInductive'
  <2>1. Shipping!Start(k, op, s, shipments[s], contract[shipments[s].contract])
    BY <1>2 DEF Shipping!Read
  <2> QED
    BY <2>1, RowOfShipment, ClerkReads
<1>3. ASSUME NEW s \in DOMAIN shipments, NEW to \in Shipping!Stages,
             Shipping!ReadForStatus(k, s, to)
      PROVE  FulfilmentInductive'
  <2> DEFINE row == [shipments[s] EXCEPT !.status = to]
             op  == IF to = "ON_BOARD" /\ contract[shipments[s].contract] = "CONFIRMED"
                    THEN "ship" ELSE "advance"
  <2>1. row \in Shipping!Shipment /\ row.contract = shipments[s].contract
    <3>1. shipments[s] \in Shipping!Shipment
      BY RowOfShipment
    <3> QED
      BY <3>1 DEF Shipping!Shipment
  <2>2. op \in {"ship", "advance"}
    OBVIOUS
  <2>3. Shipping!Start(k, op, s, row, contract[shipments[s].contract])
    BY <1>3 DEF Shipping!ReadForStatus
  <2> HIDE DEF row, op
  <2> QED
    BY <2>1, <2>2, <2>3, RowOfShipment, ClerkReads
<1> QED
  BY <1>1, <1>2, <1>3
     DEF Shipping!ReadForUpdate, Shipping!ReadForRemove, Shipping!ReadForIssue

(* The clerk turns to the next step with the same copy.                    *)
LEMMA TurnsTo ==
    ASSUME FulfilmentInductive, NEW k \in Clerks, desks[k].op \notin {"idle", "create"},
           NEW op \in {"sync", "resync", "audit", "delete", "advance"}, NEW seen \in Statuses,
           seen \in ApprovedStages =>
               ApprovedIn(desks[k].row.contract, requests, decisions)
    PROVE  LET desk == [op |-> op, shipment |-> desks[k].shipment, row |-> desks[k].row,
                        seen |-> seen]
           IN  /\ desk \in Shipping!Desk
               /\ DeskKnown(desk, shipments, requests, decisions)
<1> DEFINE desk == [op |-> op, shipment |-> desks[k].shipment, row |-> desks[k].row,
                    seen |-> seen]
<1>1. /\ desks[k].shipment \in DOMAIN shipments /\ desks[k].shipment \in Nat
      /\ desks[k].row \in Shipping!Shipment
  BY DeskAtWork
<1>2. desk \in Shipping!Desk
  BY <1>1 DEF Shipping!Desk, Shipping!ContractStatuses, Statuses
<1>3. DeskKnown(desk, shipments, requests, decisions)
  BY <1>1 DEF DeskKnown
<1> QED
  BY <1>2, <1>3

LEMMA ContinuesWith ==
    ASSUME FulfilmentInductive, NEW k \in Clerks, desks[k].op # "idle", NEW op,
           Shipping!Continue(k, op)
    PROVE  desks' = [desks EXCEPT ![k] = [op |-> op, shipment |-> desks[k].shipment,
                                          row |-> desks[k].row, seen |-> desks[k].seen]]
<1>1. desks[k] = [op |-> desks[k].op, shipment |-> desks[k].shipment, row |-> desks[k].row,
                  seen |-> desks[k].seen]
  BY KnownDesk, ShippingDeskFields DEF FulfilmentInductive
<1>2. [desks[k] EXCEPT !.op = op]
         = [op |-> op, shipment |-> desks[k].shipment, row |-> desks[k].row,
            seen |-> desks[k].seen]
  BY <1>1
<1>3. desks' = [desks EXCEPT ![k] = [desks[k] EXCEPT !.op = op]]
  BY DEF Shipping!Continue
<1> QED
  BY <1>2, <1>3

(* A desk is cleared, or the clerk goes on; rows may change with it.       *)
LEMMA ClerkGoesOn ==
    ASSUME FulfilmentInductive, NEW k \in Clerks, desks[k].op \notin {"idle", "create"},
           \/ Shipping!Clear(k)
           \/ \E op \in {"sync", "resync", "audit", "delete", "advance"} :
                 Shipping!Continue(k, op),
           shipments' \in Seq(Shipping!Shipment), DOMAIN shipments \subseteq DOMAIN shipments',
           ContractsOK(contract', requests, decisions), ApprovalsRest, GoodsRest
    PROVE  FulfilmentInductive'
<1>1. CASE Shipping!Clear(k)
  BY <1>1, EmptyDeskKnown, ClerkKeepsInductive DEF Shipping!Clear
<1>2. ASSUME NEW op \in {"sync", "resync", "audit", "delete", "advance"},
             Shipping!Continue(k, op)
      PROVE  FulfilmentInductive'
  <2> DEFINE desk == [op |-> op, shipment |-> desks[k].shipment, row |-> desks[k].row,
                      seen |-> desks[k].seen]
  <2>1. desk \in Shipping!Desk /\ DeskKnown(desk, shipments, requests, decisions)
    BY DeskAtWork, TurnsTo
  <2>2. desks' = [desks EXCEPT ![k] = desk]
    BY <1>2, ContinuesWith
  <2> HIDE DEF desk
  <2> QED
    BY <2>1, <2>2, ClerkKeepsInductive
<1> QED
  BY <1>1, <1>2

LEMMA ShipmentWritten ==
    ASSUME FulfilmentInductive, NEW s \in DOMAIN shipments, NEW row \in Shipping!Shipment
    PROVE  /\ [shipments EXCEPT ![s] = row] \in Seq(Shipping!Shipment)
           /\ DOMAIN [shipments EXCEPT ![s] = row] = DOMAIN shipments
<1>1. shipments \in Seq(Shipping!Shipment)
  BY DEF FulfilmentInductive, ShippingOK
<1> QED
  BY <1>1, ReplaceInSequence

LEMMA ShipmentSaved ==
    ASSUME FulfilmentInductive, NEW k \in Clerks, desks[k].op \notin {"idle", "create"},
           Shipping!Save(k)
    PROVE  shipments' \in Seq(Shipping!Shipment) /\ DOMAIN shipments' = DOMAIN shipments
<1> DEFINE s == desks[k].shipment
<1>1. s \in DOMAIN shipments /\ desks[k].row \in Shipping!Shipment
  BY DeskAtWork
<1>2. CASE shipments' = [shipments EXCEPT ![s] = desks[k].row]
  BY <1>1, <1>2, ShipmentWritten
<1>3. CASE shipments' = [shipments EXCEPT ![s].status = IF Shipping!At(k, "advance")
                                                         THEN desks[k].row.status ELSE @]
  <2> DEFINE to  == IF Shipping!At(k, "advance") THEN desks[k].row.status
                                                 ELSE shipments[s].status
             row == [shipments[s] EXCEPT !.status = to]
  <2>1. shipments[s] \in Shipping!Shipment
    BY <1>1, RowOfShipment
  <2>2. to \in Shipping!Stages
    BY <1>1, <2>1 DEF Shipping!Shipment
  <2>3. row \in Shipping!Shipment
    BY <2>1, <2>2 DEF Shipping!Shipment
  <2>4. shipments' = [shipments EXCEPT ![s] = row]
    BY <1>1, <1>3
  <2> HIDE DEF row, to
  <2> QED
    BY <1>1, <2>3, <2>4, ShipmentWritten
<1> QED
  BY <1>2, <1>3 DEF Shipping!Save

(* UpdateShipment, SaveAudit, SaveBeforeDelete, UpdateStatus               *)
LEMMA ShippingSavers ==
    ASSUME FulfilmentInductive, NEW k \in Clerks, ApprovalsRest,
           \/ Shipping!UpdateShipment(k) \/ Shipping!SaveAudit(k)
           \/ Shipping!SaveBeforeDelete(k) \/ Shipping!UpdateStatus(k)
    PROVE  FulfilmentInductive'
<1>1. /\ desks[k].op \notin {"idle", "create"} /\ Shipping!Save(k)
      /\ UNCHANGED contract /\ GoodsRest
  BY DEF Shipping!UpdateShipment, Shipping!SaveAudit, Shipping!SaveBeforeDelete,
         Shipping!UpdateStatus, Shipping!At, Shipping!RestOfShipping, GoodsRest
<1>2. Shipping!Clear(k) \/ \E op \in {"sync", "delete"} : Shipping!Continue(k, op)
  BY DEF Shipping!UpdateShipment, Shipping!SaveAudit, Shipping!SaveBeforeDelete,
         Shipping!UpdateStatus
<1>3. ContractsOK(contract', requests, decisions)
  BY <1>1 DEF FulfilmentInductive, Inductive
<1>4. shipments' \in Seq(Shipping!Shipment) /\ DOMAIN shipments' = DOMAIN shipments
  BY <1>1, ShipmentSaved
<1> QED
  BY <1>1, <1>2, <1>3, <1>4, ClerkGoesOn

(* What a clerk has seen is written back: approved stages only if approved.*)
LEMMA CreateShipmentKeeps ==
    ASSUME FulfilmentInductive, NEW k \in Clerks, ApprovalsRest, Shipping!CreateShipment(k)
    PROVE  FulfilmentInductive'
<1> DEFINE row == desks[k].row
<1>1. /\ row \in Shipping!Shipment /\ row.contract \in Contracts
      /\ desks[k].seen \in Statuses
      /\ desks[k].seen \in ApprovedStages => ApprovedIn(row.contract, requests, decisions)
  BY DeskAtWork DEF Shipping!CreateShipment, Shipping!At
<1>2. shipments' = Append(shipments, row) /\ shipments \in Seq(Shipping!Shipment)
  BY DEF Shipping!CreateShipment, FulfilmentInductive, ShippingOK
<1>3. ContractsOK(contract, requests, decisions)
  BY DEF FulfilmentInductive, Inductive
<1>4. ContractsOK(contract', requests, decisions)
  <2>1. CASE contract' = [contract EXCEPT ![row.contract] = desks[k].seen]
    BY <1>1, <1>3, <2>1, SetStatusOK
  <2>2. CASE contract' = contract
    BY <1>3, <2>2
  <2> QED
    BY <2>1, <2>2 DEF Shipping!CreateShipment
<1> HIDE DEF row
<1>5. shipments' \in Seq(Shipping!Shipment) /\ DOMAIN shipments \subseteq DOMAIN shipments'
  BY <1>1, <1>2
<1>6. desks' = [desks EXCEPT ![k] = Shipping!EmptyDesk] /\ GoodsRest
  BY DEF Shipping!CreateShipment, Shipping!Clear, Shipping!RestOfShipping, GoodsRest
<1> QED
  BY <1>4, <1>5, <1>6, EmptyDeskKnown, ClerkKeepsInductive

(* SyncContract, ShipContractOnBoard: the contract is written.             *)
LEMMA ContractWriters ==
    ASSUME FulfilmentInductive, NEW k \in Clerks, ApprovalsRest,
           Shipping!SyncContract(k) \/ Shipping!ShipContractOnBoard(k)
    PROVE  FulfilmentInductive'
<1> DEFINE c == desks[k].row.contract
<1>1. desks[k].op \notin {"idle", "create"} /\ UNCHANGED shipments /\ GoodsRest
  BY DEF Shipping!SyncContract, Shipping!ShipContractOnBoard, Shipping!At,
         Shipping!RestOfShipping, GoodsRest
<1>2. \E op \in {"audit", "advance"} : Shipping!Continue(k, op)
  BY DEF Shipping!SyncContract, Shipping!ShipContractOnBoard
<1>3. /\ c \in Contracts /\ desks[k].seen \in Statuses
      /\ desks[k].seen \in ApprovedStages => ApprovedIn(c, requests, decisions)
  BY <1>1, DeskAtWork
<1>4. ContractsOK(contract, requests, decisions)
  BY DEF FulfilmentInductive, Inductive
<1>5. ContractsOK(contract', requests, decisions)
  <2>1. CASE contract' = [contract EXCEPT ![c] = desks[k].seen]
    BY <1>3, <1>4, <2>1, SetStatusOK
  <2>2. CASE contract' = contract
    BY <1>4, <2>2
  <2>3. CASE contract[c] = "CONFIRMED" /\ contract' = [contract EXCEPT ![c] = "SHIPPED"]
    <3>1. "SHIPPED" \in Statuses /\ contract[c] \in ApprovedStages
      BY <2>3 DEF Statuses, ApprovedStages, Cancellable
    <3>2. ApprovedIn(c, requests, decisions)
      BY <1>3, <1>4, <3>1 DEF ContractsOK
    <3> QED
      BY <1>3, <1>4, <2>3, <3>1, <3>2, SetStatusOK
  <2> QED
    BY <2>1, <2>2, <2>3 DEF Shipping!SyncContract, Shipping!ShipContractOnBoard
<1>6. shipments' \in Seq(Shipping!Shipment) /\ DOMAIN shipments' = DOMAIN shipments
  BY <1>1 DEF FulfilmentInductive, ShippingOK
<1> QED
  BY <1>1, <1>2, <1>5, <1>6, ClerkGoesOn

(* The contract is read again before it is written.                        *)
LEMMA ReadContractKeeps ==
    ASSUME FulfilmentInductive, NEW k \in Clerks, ApprovalsRest,
           Shipping!ReadContractForSync(k)
    PROVE  FulfilmentInductive'
<1> DEFINE c == desks[k].row.contract
<1> PICK seen : seen = contract[c]
  OBVIOUS
<1>1. desks[k].op \notin {"idle", "create"} /\ UNCHANGED <<contract, shipments>> /\ GoodsRest
  BY DEF Shipping!ReadContractForSync, Shipping!At, Shipping!RestOfShipping, GoodsRest
<1>2. c \in Contracts
  BY <1>1, DeskAtWork
<1>3. /\ seen \in Statuses
      /\ seen \in ApprovedStages => ApprovedIn(c, requests, decisions)
  BY <1>2 DEF FulfilmentInductive, Inductive, ContractsOK
<1> DEFINE desk == [op |-> "resync", shipment |-> desks[k].shipment, row |-> desks[k].row,
                    seen |-> seen]
<1>4. desk \in Shipping!Desk /\ DeskKnown(desk, shipments, requests, decisions)
  BY <1>1, <1>3, TurnsTo
<1>5. desks' = [desks EXCEPT ![k] = desk]
  <2>1. desks[k] = [op |-> desks[k].op, shipment |-> desks[k].shipment,
                    row |-> desks[k].row, seen |-> desks[k].seen]
    BY <1>1, KnownDesk, ShippingDeskFields DEF FulfilmentInductive
  <2> DEFINE moved == [op |-> "resync", shipment |-> desks[k].shipment,
                       row |-> desks[k].row, seen |-> desks[k].seen]
  <2>2. [desks[k] EXCEPT !.op = "resync"] = moved
    BY <2>1
  <2>3. [moved EXCEPT !.seen = seen] = desk
    OBVIOUS
  <2>4. desks' = [desks EXCEPT ![k] = [[desks[k] EXCEPT !.op = "resync"] EXCEPT !.seen = seen]]
    <3>1. desks' = [desks EXCEPT ![k].op = "resync", ![k].seen = contract[c]]
      BY DEF Shipping!ReadContractForSync
    <3>2. desks \in [Clerks -> Shipping!Desk]
      BY DEF FulfilmentInductive, ShippingOK, DesksKnown
    <3> QED
      BY <3>1, <3>2
  <2> HIDE DEF moved, desk
  <2> QED
    BY <2>2, <2>3, <2>4
<1> HIDE DEF desk
<1>6. /\ ContractsOK(contract', requests, decisions)
      /\ shipments' \in Seq(Shipping!Shipment) /\ DOMAIN shipments' = DOMAIN shipments
  BY <1>1 DEF FulfilmentInductive, Inductive, ShippingOK
<1> QED
  BY <1>1, <1>4, <1>5, <1>6, ClerkKeepsInductive

LEMMA SoftDeleteKeeps ==
    ASSUME FulfilmentInductive, NEW k \in Clerks, ApprovalsRest, Shipping!SoftDelete(k)
    PROVE  FulfilmentInductive'
<1> DEFINE s   == desks[k].shipment
           row == [shipments[s] EXCEPT !.deleted = TRUE]
<1>1. desks[k].op = "delete" /\ Shipping!Clear(k) /\ UNCHANGED contract /\ GoodsRest
  BY DEF Shipping!SoftDelete, Shipping!At, Shipping!RestOfShipping, GoodsRest
<1>2. s \in DOMAIN shipments
  BY <1>1, DeskAtWork
<1>3. row \in Shipping!Shipment
  <2>1. shipments[s] \in Shipping!Shipment
    BY <1>2, RowOfShipment
  <2> QED
    BY <2>1 DEF Shipping!Shipment
<1>4. shipments' = [shipments EXCEPT ![s] = row]
  BY <1>2 DEF Shipping!SoftDelete
<1> HIDE DEF row
<1>5. shipments' \in Seq(Shipping!Shipment) /\ DOMAIN shipments' = DOMAIN shipments
  BY <1>2, <1>3, <1>4, ShipmentWritten
<1>6. ContractsOK(contract', requests, decisions)
  BY <1>1 DEF FulfilmentInductive, Inductive
<1> QED
  BY <1>1, <1>5, <1>6, ClerkGoesOn

LEMMA AbandonShipping ==
    ASSUME FulfilmentInductive, NEW k \in Clerks, ApprovalsRest, Shipping!Abandon(k)
    PROVE  FulfilmentInductive'
<1>1. /\ desks' = [desks EXCEPT ![k] = Shipping!EmptyDesk]
      /\ UNCHANGED <<contract, shipments>> /\ GoodsRest
  BY DEF Shipping!Abandon, Shipping!Clear, Shipping!RestOfShipping, GoodsRest
<1> QED
  BY <1>1, EmptyDeskKnown, ClerkKeepsInductive DEF FulfilmentInductive, Inductive, ShippingOK

-----------------------------------------------------------------------------
(* Steps that move goods                                                   *)

LEMMA DeliveryIsAdded ==
    ASSUME NEW ds, NEW ss \in Seq(Shipping!Shipment), DeliveriesKnown(ds, ss),
           NEW s \in DOMAIN ss, NEW status \in {"DRAFT", "ISSUED"}
    PROVE  DeliveriesKnown(Append(ds, [shipment |-> s, status |-> status]), ss)
<1> PICK row : row = [shipment |-> s, status |-> status]
  OBVIOUS
<1>1. row \in Shipping!Delivery /\ row.shipment = s
  BY DEF Shipping!Delivery
<1>2. ds \in Seq(Shipping!Delivery)
  BY DEF DeliveriesKnown
<1>3. /\ Append(ds, row) \in Seq(Shipping!Delivery)
      /\ \A d \in DOMAIN Append(ds, row) :
            (d \in DOMAIN ds /\ Append(ds, row)[d] = ds[d]) \/ Append(ds, row)[d] = row
  BY <1>1, <1>2
<1> QED
  BY <1>1, <1>3 DEF DeliveriesKnown

LEMMA DeliveryDecided ==
    ASSUME NEW ds, NEW ss, DeliveriesKnown(ds, ss), NEW d \in DOMAIN ds,
           NEW status \in {"ISSUED", "CANCELLED"}
    PROVE  DeliveriesKnown([ds EXCEPT ![d].status = status], ss)
<1> PICK row : row = [ds[d] EXCEPT !.status = status]
  OBVIOUS
<1>1. ds \in Seq(Shipping!Delivery) /\ ds[d] \in Shipping!Delivery
  BY DEF DeliveriesKnown
<1>2. row \in Shipping!Delivery /\ row.shipment = ds[d].shipment
  BY <1>1 DEF Shipping!Delivery
<1>3. [ds EXCEPT ![d].status = status] = [ds EXCEPT ![d] = row]
  BY <1>1
<1>4. /\ [ds EXCEPT ![d] = row] \in Seq(Shipping!Delivery)
      /\ DOMAIN [ds EXCEPT ![d] = row] = DOMAIN ds
  BY <1>1, <1>2, ReplaceInSequence
<1>5. \A e \in DOMAIN ds : [ds EXCEPT ![d] = row][e].shipment = ds[e].shipment
  BY <1>1, <1>2
<1> QED
  BY <1>3, <1>4, <1>5 DEF DeliveriesKnown

(* Taking goods out lowers the reservation with the stock, so it never     *)
(* leaves more reserved than there is.                                     *)
LEMMA GoodsTakenOut ==
    ASSUME FulfilmentInductive, NEW s \in DOMAIN shipments, Shipping!TakeOut(s)
    PROVE  /\ StockOK(stock', reserved') /\ held' \in [Contracts -> Int]
           /\ shipments' \in Seq(Shipping!Shipment) /\ DOMAIN shipments' = DOMAIN shipments
           /\ \A p \in Products : reserved[p] <= stock[p] => reserved'[p] <= stock'[p]
<1> DEFINE c   == shipments[s].contract
           row == [shipments[s] EXCEPT !.issued = TRUE, !.status = "LOADING"]
<1>1. shipments[s] \in Shipping!Shipment /\ c \in Contracts
  BY RowOfShipment
<1>2. StockOK(stock, reserved) /\ held \in [Contracts -> Int]
  BY DEF FulfilmentInductive, Inductive
<1>3. ASSUME NEW p \in Products
      PROVE  /\ stock'[p] \in Nat /\ reserved'[p] \in Nat
             /\ reserved[p] <= stock[p] => reserved'[p] <= stock'[p]
  <2>1. Lines[c][p] \in Nat /\ stock[p] \in Nat /\ reserved[p] \in Nat
    BY <1>1, <1>2, LinesAssumption DEF StockOK
  <2>2. /\ stock[p] >= Lines[c][p] /\ stock'[p] = stock[p] - Lines[c][p]
        /\ reserved'[p] = IF reserved[p] < Lines[c][p] THEN 0 ELSE reserved[p] - Lines[c][p]
    BY DEF Shipping!TakeOut
  <2> QED
    BY <2>1, <2>2
<1>4. stock' \in [Products -> Nat] /\ reserved' \in [Products -> Nat]
  BY <1>3 DEF Shipping!TakeOut
<1>5. held' \in [Contracts -> Int]
  BY <1>1, <1>2 DEF Shipping!TakeOut
<1>6. row \in Shipping!Shipment
  BY <1>1 DEF Shipping!Shipment, Shipping!Stages, Shipping!Transitions
<1>7. shipments' = [shipments EXCEPT ![s] = row]
  BY <1>1 DEF Shipping!TakeOut
<1> HIDE DEF row
<1>8. shipments' \in Seq(Shipping!Shipment) /\ DOMAIN shipments' = DOMAIN shipments
  BY <1>6, <1>7, ShipmentWritten
<1> QED
  BY <1>3, <1>4, <1>5, <1>8 DEF StockOK

(* Only other modules leave more of a product reserved than there is.      *)
OnlyOthersOverReserve ==
    \A p \in Products :
        reserved[p] <= stock[p] /\ reserved'[p] > stock'[p] => otherMoves'[p] < otherMoves[p]

LEMMA SameGoods ==
    ASSUME FulfilmentInductive, UNCHANGED <<stock, reserved>>
    PROVE  OnlyOthersOverReserve
BY DEF FulfilmentInductive, Inductive, StockOK, OnlyOthersOverReserve

LEMMA StillCovered ==
    ASSUME FulfilmentInductive, StockOK(stock', reserved'),
           \A p \in Products : reserved[p] <= stock[p] => reserved'[p] <= stock'[p]
    PROVE  OnlyOthersOverReserve
BY DEF StockOK, OnlyOthersOverReserve

(* Goods, deliveries and desks change, contracts do not.                   *)
LEMMA GoodsKeepInductive ==
    ASSUME FulfilmentInductive, ApprovalsRest, UNCHANGED contract,
           StockOK(stock', reserved'), held' \in [Contracts -> Int],
           otherMoves' \in [Products -> Int],
           shipments' \in Seq(Shipping!Shipment), DOMAIN shipments' = DOMAIN shipments,
           DeliveriesKnown(deliveries', shipments),
           DesksKnown(desks', shipments, requests, decisions)
    PROVE  FulfilmentInductive'
<1>1. DesksKnown(desks', shipments', requests', decisions')
  BY SameHistory, DesksStayKnown DEF ApprovalsRest
<1>2. DeliveriesKnown(deliveries', shipments')
  BY DEF DeliveriesKnown
<1>3. Inductive'
  BY DEF ApprovalsRest, FulfilmentInductive, Inductive
<1> QED
  BY <1>1, <1>2, <1>3 DEF FulfilmentInductive, ShippingOK

LEMMA PartsOfFulfilment ==
    ASSUME FulfilmentInductive
    PROVE  /\ StockOK(stock, reserved) /\ held \in [Contracts -> Int]
           /\ otherMoves \in [Products -> Int]
           /\ shipments \in Seq(Shipping!Shipment)
           /\ DeliveriesKnown(deliveries, shipments)
           /\ DesksKnown(desks, shipments, requests, decisions)
BY DEF FulfilmentInductive, Inductive, ShippingOK

LEMMA IssueStockKeeps ==
    ASSUME FulfilmentInductive, NEW k \in Clerks, ApprovalsRest, Shipping!IssueStock(k)
    PROVE  FulfilmentInductive' /\ OnlyOthersOverReserve
<1> DEFINE s == desks[k].shipment
<1>1. /\ desks[k].op = "issue" /\ Shipping!TakeOut(s)
      /\ desks' = [desks EXCEPT ![k] = Shipping!EmptyDesk]
      /\ UNCHANGED <<contract, otherMoves>>
  BY DEF Shipping!IssueStock, Shipping!At, Shipping!Clear
<1>2. s \in DOMAIN shipments
  BY <1>1, DeskAtWork
<1>3. DeliveriesKnown(deliveries', shipments)
  <2>1. CASE \E d \in Shipping!Active(s) :
                deliveries' = [deliveries EXCEPT ![d].status = "ISSUED"]
    <3>1. PICK d \in DOMAIN deliveries :
                deliveries' = [deliveries EXCEPT ![d].status = "ISSUED"]
      BY <2>1 DEF Shipping!Active
    <3> QED
      BY <3>1, PartsOfFulfilment, DeliveryDecided
  <2>2. CASE deliveries' = Append(deliveries, [shipment |-> s, status |-> "ISSUED"])
    BY <1>2, <2>2, PartsOfFulfilment, DeliveryIsAdded
  <2> QED
    BY <2>1, <2>2 DEF Shipping!IssueStock
<1>4. DesksKnown(desks', shipments, requests, decisions)
  BY <1>1, EmptyDeskKnown, SetKnownDesk, PartsOfFulfilment
<1>5. /\ StockOK(stock', reserved') /\ held' \in [Contracts -> Int]
      /\ shipments' \in Seq(Shipping!Shipment) /\ DOMAIN shipments' = DOMAIN shipments
      /\ \A p \in Products : reserved[p] <= stock[p] => reserved'[p] <= stock'[p]
  BY <1>1, <1>2, GoodsTakenOut
<1>6. FulfilmentInductive'
  BY <1>1, <1>3, <1>4, <1>5, PartsOfFulfilment, GoodsKeepInductive
<1> QED
  BY <1>5, <1>6, StillCovered

LEMMA DeliveryStepKeeps ==
    ASSUME FulfilmentInductive, ApprovalsRest, Shipping!DeliveryStep
    PROVE  FulfilmentInductive' /\ OnlyOthersOverReserve
<1>1. ASSUME NEW s \in DOMAIN shipments, Shipping!CreateExportDelivery(s)
      PROVE  FulfilmentInductive' /\ OnlyOthersOverReserve
  <2>1. /\ deliveries' = Append(deliveries, [shipment |-> s, status |-> "DRAFT"])
        /\ UNCHANGED <<contract, stock, reserved, held, otherMoves, shipments, desks>>
    BY <1>1 DEF Shipping!CreateExportDelivery
  <2>2. DeliveriesKnown(deliveries', shipments)
    BY <2>1, PartsOfFulfilment, DeliveryIsAdded
  <2> QED
    BY <2>1, <2>2, PartsOfFulfilment, GoodsKeepInductive, SameGoods
<1>2. ASSUME NEW d \in DOMAIN deliveries, Shipping!CancelExportDelivery(d)
      PROVE  FulfilmentInductive' /\ OnlyOthersOverReserve
  <2>1. /\ deliveries' = [deliveries EXCEPT ![d].status = "CANCELLED"]
        /\ UNCHANGED <<contract, stock, reserved, held, otherMoves, shipments, desks>>
    BY <1>2 DEF Shipping!CancelExportDelivery
  <2>2. DeliveriesKnown(deliveries', shipments)
    BY <2>1, PartsOfFulfilment, DeliveryDecided
  <2> QED
    BY <2>1, <2>2, PartsOfFulfilment, GoodsKeepInductive, SameGoods
<1>3. ASSUME NEW d \in DOMAIN deliveries, Shipping!IssueExportDelivery(d)
      PROVE  FulfilmentInductive' /\ OnlyOthersOverReserve
  <2>1. /\ Shipping!TakeOut(deliveries[d].shipment)
        /\ deliveries' = [deliveries EXCEPT ![d].status = "ISSUED"]
        /\ UNCHANGED <<contract, otherMoves, desks>>
    BY <1>3 DEF Shipping!IssueExportDelivery
  <2>2. DeliveriesKnown(deliveries', shipments)
    BY <2>1, PartsOfFulfilment, DeliveryDecided
  <2>3. deliveries[d].shipment \in DOMAIN shipments
    BY PartsOfFulfilment DEF DeliveriesKnown
  <2>4. /\ StockOK(stock', reserved') /\ held' \in [Contracts -> Int]
        /\ shipments' \in Seq(Shipping!Shipment) /\ DOMAIN shipments' = DOMAIN shipments
        /\ \A p \in Products : reserved[p] <= stock[p] => reserved'[p] <= stock'[p]
    BY <2>1, <2>3, GoodsTakenOut
  <2>5. FulfilmentInductive'
    BY <2>1, <2>2, <2>4, PartsOfFulfilment, GoodsKeepInductive
  <2> QED
    BY <2>4, <2>5, StillCovered
<1> QED
  BY <1>1, <1>2, <1>3 DEF Shipping!DeliveryStep

(* A receipt, adjustment or return looks at the stock only.                *)
LEMMA OtherMoveKeeps ==
    ASSUME FulfilmentInductive, ApprovalsRest, NEW p \in Products, NEW change \in {-1, 1},
           Shipping!MoveStock(p, change)
    PROVE  FulfilmentInductive' /\ OnlyOthersOverReserve
<1>1. /\ stock[p] + change >= 0
      /\ stock' = [stock EXCEPT ![p] = @ + change]
      /\ otherMoves' = [otherMoves EXCEPT ![p] = @ + change]
      /\ UNCHANGED <<contract, reserved, held, shipments, deliveries, desks>>
  BY DEF Shipping!MoveStock
<1>2. stock \in [Products -> Nat] /\ reserved \in [Products -> Nat]
  BY PartsOfFulfilment DEF StockOK
<1>3. otherMoves \in [Products -> Int] /\ change \in Int
  BY PartsOfFulfilment
<1>4. stock' \in [Products -> Nat] /\ otherMoves' \in [Products -> Int]
  BY <1>1, <1>2, <1>3
<1>5. StockOK(stock', reserved')
  BY <1>1, <1>2, <1>4 DEF StockOK
<1>6. FulfilmentInductive'
  BY <1>1, <1>4, <1>5, PartsOfFulfilment, GoodsKeepInductive
<1>7. OnlyOthersOverReserve
  <2>1. ASSUME NEW q \in Products, reserved[q] <= stock[q], reserved'[q] > stock'[q]
        PROVE  otherMoves'[q] < otherMoves[q]
    <3>1. q = p
      BY <1>1, <1>2, <2>1
    <3>2. stock'[p] = stock[p] + change /\ otherMoves'[p] = otherMoves[p] + change
      BY <1>1, <1>2, <1>3
    <3>3. stock[p] \in Nat /\ reserved[p] \in Nat /\ otherMoves[p] \in Int
      BY <1>2, <1>3
    <3> QED
      BY <1>1, <1>3, <2>1, <3>1, <3>2, <3>3
  <2> QED
    BY <2>1 DEF OnlyOthersOverReserve
<1> QED
  BY <1>6, <1>7

LEMMA ShippingStepKeeps ==
    ASSUME FulfilmentInductive, ApprovalsRest, Shipping!ShipmentStep
    PROVE  FulfilmentInductive' /\ OnlyOthersOverReserve
<1>1. ASSUME NEW k \in Clerks, Shipping!ClerkStep(k)
      PROVE  FulfilmentInductive' /\ OnlyOthersOverReserve
  <2>1. CASE Shipping!IssueStock(k)
    BY <2>1, IssueStockKeeps
  <2>2. CASE ~ Shipping!IssueStock(k)
    <3>1. UNCHANGED <<stock, reserved>>
      BY <1>1, <2>2 DEF Shipping!ClerkStep, Shipping!ReadForCreate, Shipping!ReadForUpdate,
         Shipping!ReadForRemove, Shipping!ReadForIssue, Shipping!ReadForStatus,
         Shipping!Read, Shipping!Start, Shipping!CreateShipment, Shipping!UpdateShipment,
         Shipping!ReadContractForSync, Shipping!SyncContract, Shipping!SaveAudit,
         Shipping!SaveBeforeDelete, Shipping!SoftDelete, Shipping!ShipContractOnBoard,
         Shipping!UpdateStatus, Shipping!Abandon, Shipping!RestOfShipping
    <3>2. FulfilmentInductive'
      BY <1>1, <2>2, ShippingReaders, CreateShipmentKeeps, ShippingSavers,
         ReadContractKeeps, ContractWriters, SoftDeleteKeeps, AbandonShipping
         DEF Shipping!ClerkStep
    <3> QED
      BY <3>1, <3>2, SameGoods
  <2> QED
    BY <2>1, <2>2
<1> QED
  BY <1>1, DeliveryStepKeeps, OtherMoveKeeps DEF Shipping!ShipmentStep

-----------------------------------------------------------------------------
(* Steps of the contracts, seen from shipping                              *)

(* Requests keep their subject, decisions are never taken back.            *)
LEMMA StepKeepsHistory ==
    ASSUME Inductive, Next
    PROVE  History(requests, decisions, requests', decisions')
<1>0. requests \in Seq(Request)
  BY DEF Inductive, RequestsOK
<1>1. ASSUME NEW w \in Workers, CreateRequest(w)
      PROVE  History(requests, decisions, requests', decisions')
  <2>1. PICK row : requests' = Append(requests, row) /\ UNCHANGED decisions
    BY <1>1 DEF CreateRequest
  <2> QED
    BY <1>0, <2>1 DEF History
<1>2. ASSUME NEW w \in Workers, NEW status, decisions \subseteq decisions',
             requests' = [requests EXCEPT ![jobs[w].req].status = status]
      PROVE  History(requests, decisions, requests', decisions')
  <2>1. ASSUME NEW q \in DOMAIN requests
        PROVE  /\ requests'[q].type = requests[q].type
               /\ requests'[q].contract = requests[q].contract
    <3>1. requests[q] \in Request
      BY <1>0
    <3>2. CASE q = jobs[w].req
      <4>1. requests'[q] = [requests[q] EXCEPT !.status = status]
        BY <1>2, <3>2
      <4> QED
        BY <3>1, <4>1 DEF Request
    <3>3. CASE q # jobs[w].req
      BY <1>2, <3>3
    <3> QED
      BY <3>2, <3>3
  <2> QED
    BY <1>2, <2>1 DEF History
<1>3. ASSUME UNCHANGED <<requests, decisions>>
      PROVE  History(requests, decisions, requests', decisions')
  BY <1>3, SameHistory
<1>4. ASSUME NEW w \in Workers, WorkerStep(w)
      PROVE  History(requests, decisions, requests', decisions')
  <2>1. CASE CreateRequest(w)
    BY <1>1, <2>1
  <2>2. CASE Withdraw(w) \/ \E outcome \in Outcomes : Decide(w, outcome)
    <3>1. /\ decisions \subseteq decisions'
          /\ \E status : requests' = [requests EXCEPT ![jobs[w].req].status = status]
      BY <2>2 DEF Withdraw, Decide
    <3> QED
      BY <1>2, <3>1
  <2>3. CASE /\ ~ CreateRequest(w) /\ ~ Withdraw(w)
             /\ ~ \E outcome \in Outcomes : Decide(w, outcome)
    <3>1. UNCHANGED <<requests, decisions>>
      BY <1>4, <2>3 DEF WorkerStep, ReadForUpdate, ReadForSubmit, ReadForCancel,
         ReadForSigning, Update, WritePending, BuyerSigns, LoadRequest,
         ListenerReads, ListenerWrites, CompleteCancelWorkflow, Abandon
    <3> QED
      BY <1>3, <3>1
  <2> QED
    BY <2>1, <2>2, <2>3
<1>5. ASSUME NEW c \in Contracts, LockedStep(c)
      PROVE  History(requests, decisions, requests', decisions')
  <2>1. UNCHANGED <<requests, decisions>>
    BY <1>5 DEF LockedStep, SendForSignature, RevokeSignatureInvitation, SignContract,
           ConfirmContract, ShipContract, RejectInApprovalCenter, PayInFull, NoJobs
  <2> QED
    BY <1>3, <2>1
<1> QED
  BY <1>4, <1>5 DEF Next, Step

LEMMA ContractStepKeeps ==
    ASSUME FulfilmentInductive, Next, UNCHANGED shippingVars
    PROVE  FulfilmentInductive' /\ OnlyOthersOverReserve
<1>1. Inductive'
  BY WorkerStepInductive, LockedStepInductive DEF Next, Step, FulfilmentInductive
<1>2. DesksKnown(desks', shipments', requests', decisions')
  BY StepKeepsHistory, DesksStayKnown, PartsOfFulfilment
     DEF shippingVars, FulfilmentInductive
<1>3. FulfilmentInductive'
  BY <1>1, <1>2, PartsOfFulfilment DEF FulfilmentInductive, ShippingOK, shippingVars
<1>4. \A p \in Products : reserved[p] <= stock[p] => reserved'[p] <= stock'[p]
  <2>1. NoMorePromised /\ StockOK(stock, reserved) /\ StockOK(stock', reserved')
    BY <1>1, StepPromises DEF FulfilmentInductive, Inductive
  <2> QED
    BY <2>1 DEF NoMorePromised, StockOK
<1>5. StockOK(stock', reserved')
  BY <1>1 DEF Inductive
<1> QED
  BY <1>3, <1>4, <1>5, StillCovered

LEMMA FulfilmentStepKeeps ==
    ASSUME FulfilmentInductive, [FulfilmentNext]_fulfilmentVars
    PROVE  FulfilmentInductive' /\ OnlyOthersOverReserve
<1>1. CASE ContractStep
  BY <1>1, ContractStepKeeps DEF ContractStep
<1>2. CASE ShippingStep
  BY <1>2, ShippingStepKeeps DEF ShippingStep, contractVars, ApprovalsRest
<1>3. CASE UNCHANGED fulfilmentVars
  <2>1. FulfilmentInductive'
    BY <1>3, PartsOfFulfilment DEF FulfilmentInductive, Inductive, ShippingOK,
       fulfilmentVars, vars, contractVars, shippingVars
  <2> QED
    BY <1>3, <2>1, SameGoods DEF fulfilmentVars, vars
<1> QED
  BY <1>1, <1>2, <1>3 DEF FulfilmentNext

-----------------------------------------------------------------------------
(* The theorems                                                            *)

LEMMA InitFulfilment == FulfilmentInit => FulfilmentInductive
<1> SUFFICES ASSUME FulfilmentInit PROVE FulfilmentInductive
  OBVIOUS
<1>1. Inductive
  BY InitInductive DEF FulfilmentInit
<1>2. DesksKnown(desks, shipments, requests, decisions)
  BY EmptyDeskKnown DEF FulfilmentInit, Shipping!ShipmentInit, DesksKnown
<1>3. DeliveriesKnown(deliveries, shipments) /\ shipments \in Seq(Shipping!Shipment)
      /\ otherMoves \in [Products -> Int]
  BY DEF FulfilmentInit, Shipping!ShipmentInit, DeliveriesKnown
<1> QED
  BY <1>1, <1>2, <1>3 DEF FulfilmentInductive, ShippingOK

(* Contracts and shipments keep each other's rows in order: what clerks    *)
(* write back of a contract is no status it has not been approved for.     *)
THEOREM FulfilmentInvariant == FulfilmentSpec => []FulfilmentInductive
<1>1. FulfilmentInductive /\ [FulfilmentNext]_fulfilmentVars => FulfilmentInductive'
  BY FulfilmentStepKeeps
<1> QED
  BY InitFulfilment, <1>1, PTL DEF FulfilmentSpec

(* The stale status a shipment writes back, and the shipping of a contract *)
(* on board, do not take an unapproved contract past PENDING_APPROVAL.     *)
THEOREM OnlyApprovedContractsShip == FulfilmentSpec => []NothingPastApprovalUnapproved
<1>1. FulfilmentInductive => NothingPastApprovalUnapproved
  BY DEF FulfilmentInductive, Inductive, ContractsOK, NothingPastApprovalUnapproved,
         ApprovedIn
<1> QED
  BY FulfilmentInvariant, <1>1, PTL

(* Reserving, releasing and issuing never promise more than the warehouse  *)
(* holds, for any number of contracts, products, clerks and workers: only  *)
(* a movement of another module that takes stock away does.                *)
THEOREM OnlyOthersOverReserved == FulfilmentSpec => OverReservedOnlyByOthers
<1>1. FulfilmentInductive /\ [FulfilmentNext]_fulfilmentVars
         => [\A p \in Products :
                reserved[p] <= stock[p] /\ reserved'[p] > stock'[p]
                   => otherMoves'[p] < otherMoves[p]]_fulfilmentVars
  BY FulfilmentStepKeeps DEF OnlyOthersOverReserve
<1> QED
  BY FulfilmentInvariant, <1>1, PTL DEF FulfilmentSpec, OverReservedOnlyByOthers

-----------------------------------------------------------------------------
(* WHAT BUYERS OWE                                                         *)

-----------------------------------------------------------------------------
(* What a buyer owes: the inductive invariant, in parts that name the      *)
(* state they speak of                                                     *)

(* No invoice is posted twice, nor one that may still be issued.           *)
InvoicesOK(inv, rev) ==
    /\ inv \in Seq(Invoice)
    /\ rev \in Seq(DOMAIN inv)
    /\ \A n \in DOMAIN rev : inv[rev[n]].status # "DRAFT"
    /\ \A n, m \in DOMAIN rev : rev[n] = rev[m] => n = m

(* Money is allocated to receivables, and received for receivables, there are. *)
MoneyOK(rec, als, rcp) ==
    /\ rec \in Seq(Receivable)
    /\ als \in Seq(Allocation)
    /\ rcp \in Seq(Receipt)
    /\ \A n \in DOMAIN als : als[n].receivable \in DOMAIN rec
    /\ \A r \in DOMAIN rcp : rcp[r].receivable \in DOMAIN rec

(* Rows are never deleted; an invoice that is being issued stays a draft.  *)
RowsExist(job, inv, rec, rcp) ==
    /\ job.op = "issue" => job.invoice \in DOMAIN inv /\ inv[job.invoice].status = "DRAFT"
    /\ job.op = "cancelInvoice" => job.invoice \in DOMAIN inv /\ job.read.status = "DRAFT"
    /\ job.op \in {"edit", "receive", "receiveApproved", "post"} => job.receivable \in DOMAIN rec
    /\ job.op \in {"approve", "reject", "cancel"} =>
          job.receipt \in DOMAIN rcp /\ job.read.receivable \in DOMAIN rec

OneIssuer(js) ==
    \A v, w \in Workers :
        js[v].op = "issue" /\ js[w].op = "issue" /\ js[v].invoice = js[w].invoice => v = w

ReceivableJobsOK(js, inv, rec, rcp) ==
    /\ js \in [Workers -> ReceivableJob]
    /\ OneIssuer(js)
    /\ \A w \in Workers : RowsExist(js[w], inv, rec, rcp)

ReceivablesInductive ==
    /\ InvoicesOK(invoices, revenue)
    /\ MoneyOK(receivables, allocations, receipts)
    /\ ReceivableJobsOK(jobs, invoices, receivables, receipts)
    /\ contractPaid \in BOOLEAN

-----------------------------------------------------------------------------
(* Jobs                                                                    *)

LEMMA ReceivableJobFields ==
    ASSUME NEW job \in ReceivableJob
    PROVE  /\ job.op = "invoice" => job.shipment \in Shipments
           /\ job.op = "issue" => job.invoice \in Nat
           /\ job.op = "cancelInvoice" => job.invoice \in Nat /\ job.read \in Invoice
           /\ job.op \in {"edit", "receive", "receiveApproved", "post"} =>
                 /\ job.receivable \in Nat /\ job.read \in Receivable
                 /\ job.amount \in Nat
           /\ job.op \in {"receive", "receiveApproved", "post"} => job.amount \in Payments
           /\ job.op \in {"approve", "reject", "cancel"} =>
                 job.receipt \in Nat /\ job.read \in Receipt
<1>1. /\ job.op = "invoice" => job.shipment \in Shipments
      /\ job.op = "issue" => job.invoice \in Nat
      /\ job.op = "cancelInvoice" => job.invoice \in Nat /\ job.read \in Invoice
  BY DEF ReceivableJob, Idle
<1>2. job.op = "edit" =>
          job.receivable \in Nat /\ job.read \in Receivable /\ job.amount \in Nat
  BY DEF ReceivableJob, Idle
<1>3. job.op \in {"receive", "receiveApproved", "post"} =>
          job.receivable \in Nat /\ job.read \in Receivable /\ job.amount \in Payments
  BY DEF ReceivableJob, Idle
<1>4. job.op \in {"approve", "reject", "cancel"} =>
          job.receipt \in Nat /\ job.read \in Receipt
  BY DEF ReceivableJob, Idle
<1> QED
  BY <1>1, <1>2, <1>3, <1>4, PaymentsAssumption

LEMMA IdleExists ==
    ASSUME NEW inv, NEW rec, NEW rcp
    PROVE  Idle \in ReceivableJob /\ RowsExist(Idle, inv, rec, rcp) /\ Idle.op # "issue"
BY DEF ReceivableJob, Idle, RowsExist

(* One worker goes on to another job while rows are added and changed.     *)
LEMMA SetReceivableJob ==
    ASSUME NEW inv, NEW rec, NEW rcp, NEW inv2, NEW rec2, NEW rcp2, NEW js,
           ReceivableJobsOK(js, inv, rec, rcp),
           DOMAIN inv \subseteq DOMAIN inv2, DOMAIN rec \subseteq DOMAIN rec2,
           DOMAIN rcp \subseteq DOMAIN rcp2,
           NEW w \in Workers, NEW job \in ReceivableJob, RowsExist(job, inv2, rec2, rcp2),
           \A v \in Workers \ {w} : js[v].op = "issue" =>
               /\ inv2[js[v].invoice].status = inv[js[v].invoice].status
               /\ ~ (job.op = "issue" /\ js[v].invoice = job.invoice)
    PROVE  ReceivableJobsOK([js EXCEPT ![w] = job], inv2, rec2, rcp2)
<1> PICK new : new = [js EXCEPT ![w] = job]
  OBVIOUS
<1>1. /\ new \in [Workers -> ReceivableJob]
      /\ new[w] = job /\ \A v \in Workers \ {w} : new[v] = js[v]
  BY DEF ReceivableJobsOK
<1>2. ASSUME NEW v \in Workers PROVE RowsExist(new[v], inv2, rec2, rcp2)
  <2>1. CASE v = w
    BY <1>1, <2>1
  <2>2. CASE v # w
    <3>1. new[v] = js[v] /\ RowsExist(js[v], inv, rec, rcp)
      BY <1>1, <2>2 DEF ReceivableJobsOK
    <3> QED
      BY <2>2, <3>1 DEF RowsExist
  <2> QED
    BY <2>1, <2>2
<1>3. OneIssuer(new)
  <2> SUFFICES ASSUME NEW u \in Workers, NEW v \in Workers, new[u].op = "issue",
                      new[v].op = "issue", new[u].invoice = new[v].invoice
               PROVE  u = v
    BY DEF OneIssuer
  <2>1. CASE u = w /\ v = w
    BY <2>1
  <2>2. CASE u = w /\ v # w
    BY <1>1, <2>2
  <2>3. CASE u # w /\ v = w
    BY <1>1, <2>3
  <2>4. CASE u # w /\ v # w
    <3>1. new[u] = js[u] /\ new[v] = js[v] /\ OneIssuer(js)
      BY <1>1, <2>4 DEF ReceivableJobsOK
    <3> QED
      BY <3>1 DEF OneIssuer
  <2> QED
    BY <2>1, <2>2, <2>3, <2>4
<1> QED
  BY <1>1, <1>2, <1>3 DEF ReceivableJobsOK

LEMMA ReceivableJobOf ==
    ASSUME ReceivablesInductive, NEW w \in Workers
    PROVE  jobs[w] \in ReceivableJob /\ RowsExist(jobs[w], invoices, receivables, receipts)
BY DEF ReceivablesInductive, ReceivableJobsOK

(* A request that is served in one transaction leaves its worker idle.     *)
LEMMA AtOnceIdle ==
    ASSUME ReceivablesInductive, NEW w \in Workers, AtOnce(w)
    PROVE  jobs' = [jobs EXCEPT ![w] = Idle]
BY DEF ReceivablesInductive, ReceivableJobsOK, AtOnce

-----------------------------------------------------------------------------
(* Steps                                                                   *)

MoneyUnchanged == UNCHANGED <<receivables, allocations, receipts, contractPaid>>

(* A worker reads, refuses or stops: only its job changes.                 *)
LEMMA OnlyReceivableJob ==
    ASSUME ReceivablesInductive, NEW w \in Workers, NEW job \in ReceivableJob,
           RowsExist(job, invoices, receivables, receipts),
           job.op = "issue" => ~ BeingIssued(job.invoice),
           jobs' = [jobs EXCEPT ![w] = job],
           UNCHANGED <<invoices, revenue>>, MoneyUnchanged
    PROVE  ReceivablesInductive'
<1>1. ReceivableJobsOK(jobs, invoices, receivables, receipts)
  BY DEF ReceivablesInductive
<1>2. ReceivableJobsOK([jobs EXCEPT ![w] = job], invoices, receivables, receipts)
  <2>1. \A v \in Workers \ {w} : jobs[v].op = "issue" =>
            /\ invoices[jobs[v].invoice].status = invoices[jobs[v].invoice].status
            /\ ~ (job.op = "issue" /\ jobs[v].invoice = job.invoice)
    BY DEF BeingIssued
  <2> QED
    BY <1>1, <2>1, SetReceivableJob
<1>3. ReceivableJobsOK(jobs', invoices', receivables', receipts')
  BY <1>2 DEF MoneyUnchanged
<1> QED
  BY <1>3 DEF ReceivablesInductive, MoneyUnchanged

LEMMA InvoiceReadersInductive ==
    ASSUME ReceivablesInductive, NEW w \in Workers,
           \/ \E s \in Shipments : LookForActiveInvoice(w, s)
           \/ \E i \in DOMAIN invoices : FindNoReceivable(w, i) \/ ReadForCancelInvoice(w, i)
    PROVE  ReceivablesInductive'
<1>0. \A i \in DOMAIN invoices : i \in Nat /\ invoices[i] \in Invoice
  BY DEF ReceivablesInductive, InvoicesOK
<1>1. ASSUME NEW s \in Shipments, LookForActiveInvoice(w, s) PROVE ReceivablesInductive'
  <2> PICK job : job = [op |-> "invoice", shipment |-> s]
    OBVIOUS
  <2>1. /\ job \in ReceivableJob /\ RowsExist(job, invoices, receivables, receipts)
        /\ job.op # "issue"
    BY DEF ReceivableJob, RowsExist
  <2> QED
    BY <1>1, <2>1, OnlyReceivableJob
    DEF LookForActiveInvoice, Begin, sales, payments, MoneyUnchanged
<1>2. ASSUME NEW i \in DOMAIN invoices, FindNoReceivable(w, i) PROVE ReceivablesInductive'
  <2> PICK job : job = [op |-> "issue", invoice |-> i]
    OBVIOUS
  <2>1. invoices[i].status = "DRAFT" /\ ~ BeingIssued(i)
    BY <1>2 DEF FindNoReceivable, Issuable
  <2>2. /\ job \in ReceivableJob /\ RowsExist(job, invoices, receivables, receipts)
        /\ job.invoice = i
    BY <1>0, <2>1 DEF ReceivableJob, RowsExist
  <2> QED
    BY <1>2, <2>1, <2>2, OnlyReceivableJob
    DEF FindNoReceivable, Begin, sales, payments, MoneyUnchanged
<1>3. ASSUME NEW i \in DOMAIN invoices, ReadForCancelInvoice(w, i) PROVE ReceivablesInductive'
  <2> PICK job : job = [op |-> "cancelInvoice", invoice |-> i, read |-> invoices[i]]
    OBVIOUS
  <2>1. invoices[i].status = "DRAFT"
    BY <1>3 DEF ReadForCancelInvoice
  <2>2. /\ job \in ReceivableJob /\ RowsExist(job, invoices, receivables, receipts)
        /\ job.op # "issue"
    BY <1>0, <2>1 DEF ReceivableJob, RowsExist
  <2> QED
    BY <1>3, <2>2, OnlyReceivableJob
    DEF ReadForCancelInvoice, Begin, sales, payments, MoneyUnchanged
<1> QED
  BY <1>1, <1>2, <1>3

LEMMA MoneyReadersInductive ==
    ASSUME ReceivablesInductive, NEW w \in Workers,
           \/ \E a \in DOMAIN receivables, amount \in Payments :
                 ReadForReceipt(w, a, amount) \/ ReadForEdit(w, a, amount)
           \/ \E r \in DOMAIN receipts, op \in {"approve", "reject", "cancel"} :
                 ReadReceipt(w, op, r)
           \/ AbandonReceivables(w)
    PROVE  ReceivablesInductive'
<1>0. /\ \A a \in DOMAIN receivables : a \in Nat /\ receivables[a] \in Receivable
      /\ \A r \in DOMAIN receipts : /\ r \in Nat /\ receipts[r] \in Receipt
                                    /\ receipts[r].receivable \in DOMAIN receivables
      /\ Payments \subseteq Nat
  BY PaymentsAssumption DEF ReceivablesInductive, MoneyOK
<1>1. ASSUME NEW a \in DOMAIN receivables, NEW amount \in Payments,
             ReadForReceipt(w, a, amount)
      PROVE  ReceivablesInductive'
  <2>1. PICK op \in {"receive", "receiveApproved"} : jobs' = [jobs EXCEPT ![w] =
            [op |-> op, receivable |-> a, read |-> receivables[a], amount |-> amount]]
    BY <1>1 DEF ReadForReceipt, Begin
  <2> PICK job : job = [op |-> op, receivable |-> a, read |-> receivables[a],
                        amount |-> amount]
    OBVIOUS
  <2>2. /\ job \in ReceivableJob /\ RowsExist(job, invoices, receivables, receipts)
        /\ job.op # "issue"
    BY <1>0 DEF ReceivableJob, RowsExist
  <2> QED
    BY <1>1, <2>1, <2>2, OnlyReceivableJob
    DEF ReadForReceipt, sales, payments, MoneyUnchanged
<1>2. ASSUME NEW a \in DOMAIN receivables, NEW amount \in Payments, ReadForEdit(w, a, amount)
      PROVE  ReceivablesInductive'
  <2> PICK job : job = [op |-> "edit", receivable |-> a, read |-> receivables[a],
                        amount |-> amount]
    OBVIOUS
  <2>1. /\ job \in ReceivableJob /\ RowsExist(job, invoices, receivables, receipts)
        /\ job.op # "issue"
    BY <1>0 DEF ReceivableJob, RowsExist
  <2> QED
    BY <1>2, <2>1, OnlyReceivableJob
    DEF ReadForEdit, Begin, sales, payments, MoneyUnchanged
<1>3. ASSUME NEW r \in DOMAIN receipts, NEW op \in {"approve", "reject", "cancel"},
             ReadReceipt(w, op, r)
      PROVE  ReceivablesInductive'
  <2> PICK job : job = [op |-> op, receipt |-> r, read |-> receipts[r]]
    OBVIOUS
  <2>1. /\ job \in ReceivableJob /\ RowsExist(job, invoices, receivables, receipts)
        /\ job.op # "issue"
    BY <1>0 DEF ReceivableJob, RowsExist
  <2> QED
    BY <1>3, <2>1, OnlyReceivableJob
    DEF ReadReceipt, Begin, sales, payments, MoneyUnchanged
<1>4. ASSUME AbandonReceivables(w) PROVE ReceivablesInductive'
  BY <1>4, IdleExists, OnlyReceivableJob
  DEF AbandonReceivables, Finish, sales, payments, MoneyUnchanged
<1> QED
  BY <1>1, <1>2, <1>3, <1>4

-----------------------------------------------------------------------------
(* Rows that are added and changed                                         *)

LEMMA RowReplaced ==
    ASSUME NEW S, NEW s \in Seq(S), NEW i \in DOMAIN s, NEW e \in S,
           NEW t, t = [s EXCEPT ![i] = e]
    PROVE  /\ t \in Seq(S) /\ DOMAIN t = DOMAIN s
           /\ t[i] = e /\ \A j \in DOMAIN s \ {i} : t[j] = s[j]
<1>1. s \in [1 .. Len(s) -> S] /\ Len(s) \in Nat
  OBVIOUS
<1>2. t \in [1 .. Len(s) -> S]
  BY <1>1
<1> QED
  BY <1>1, <1>2

LEMMA InvoiceAdded ==
    ASSUME NEW inv, NEW rev, InvoicesOK(inv, rev), NEW row \in Invoice
    PROVE  /\ InvoicesOK(Append(inv, row), rev)
           /\ DOMAIN Append(inv, row) = DOMAIN inv \cup {Len(inv) + 1}
           /\ \A i \in DOMAIN inv : Append(inv, row)[i] = inv[i]
<1>1. PICK inv2 : inv2 = Append(inv, row)
  OBVIOUS
<1>2. /\ inv2 \in Seq(Invoice)
      /\ DOMAIN inv2 = DOMAIN inv \cup {Len(inv) + 1}
      /\ \A i \in DOMAIN inv : inv2[i] = inv[i]
  BY <1>1 DEF InvoicesOK
<1>3. rev \in Seq(DOMAIN inv2)
  BY <1>2 DEF InvoicesOK
<1>4. InvoicesOK(inv2, rev)
  BY <1>2, <1>3 DEF InvoicesOK
<1> QED
  BY <1>1, <1>2, <1>4

LEMMA InvoiceChanged ==
    ASSUME NEW inv, NEW rev, InvoicesOK(inv, rev), NEW i \in DOMAIN inv,
           NEW inv2 \in Seq(Invoice), DOMAIN inv2 = DOMAIN inv, inv2[i].status # "DRAFT",
           \A j \in DOMAIN inv \ {i} : inv2[j] = inv[j]
    PROVE  InvoicesOK(inv2, rev)
<1>1. rev \in Seq(DOMAIN inv2)
  BY DEF InvoicesOK
<1>2. \A n \in DOMAIN rev : inv2[rev[n]].status # "DRAFT"
  <2>1. \A n \in DOMAIN rev : rev[n] \in DOMAIN inv
    BY DEF InvoicesOK
  <2> QED
    BY <2>1 DEF InvoicesOK
<1> QED
  BY <1>1, <1>2 DEF InvoicesOK

IssuedIn(inv, i, a) == [inv EXCEPT ![i].status = "ISSUED", ![i].receivable = a]

LEMMA IssuedInvoice ==
    ASSUME NEW inv \in Seq(Invoice), NEW i \in DOMAIN inv, NEW a, a \in Nat,
           NEW inv2, inv2 = IssuedIn(inv, i, a)
    PROVE  /\ inv2 \in Seq(Invoice) /\ DOMAIN inv2 = DOMAIN inv
           /\ inv2[i].status = "ISSUED"
           /\ \A j \in DOMAIN inv \ {i} : inv2[j] = inv[j]
<1>1. PICK row : row = [inv[i] EXCEPT !.status = "ISSUED", !.receivable = a]
  OBVIOUS
<1>2. ASSUME NEW r \in Invoice, NEW new,
             new = [r EXCEPT !.status = "ISSUED", !.receivable = a]
      PROVE  new \in Invoice /\ new.status = "ISSUED"
  BY <1>2 DEF Invoice
<1>3. row \in Invoice /\ row.status = "ISSUED"
  <2>1. inv[i] \in Invoice
    OBVIOUS
  <2> QED
    BY <1>1, <1>2, <2>1
<1>4. inv2 = [inv EXCEPT ![i] = row]
  BY <1>1 DEF IssuedIn
<1> QED
  BY <1>3, <1>4, RowReplaced

(* Revenue is posted for an invoice that was a draft, so for no other entry.*)
LEMMA RevenuePosted ==
    ASSUME NEW inv, NEW rev, InvoicesOK(inv, rev), NEW i \in DOMAIN inv,
           inv[i].status = "DRAFT",
           NEW inv2 \in Seq(Invoice), DOMAIN inv2 = DOMAIN inv, inv2[i].status = "ISSUED",
           \A j \in DOMAIN inv \ {i} : inv2[j] = inv[j]
    PROVE  InvoicesOK(inv2, Append(rev, i))
<1>5. InvoicesOK(inv2, rev)
  BY InvoiceChanged
<1>6. \A n \in DOMAIN rev : rev[n] # i
  BY DEF InvoicesOK
<1>7. /\ Append(rev, i) \in Seq(DOMAIN inv2)
      /\ DOMAIN Append(rev, i) = DOMAIN rev \cup {Len(rev) + 1}
      /\ \A n \in DOMAIN rev : Append(rev, i)[n] = rev[n]
      /\ Append(rev, i)[Len(rev) + 1] = i
  BY <1>5 DEF InvoicesOK
<1>8. InvoicesOK(inv2, Append(rev, i))
  <2> PICK new : new = Append(rev, i)
    OBVIOUS
  <2>1. \A n \in DOMAIN new : inv2[new[n]].status # "DRAFT"
    BY <1>5, <1>7 DEF InvoicesOK
  <2>2. \A n, m \in DOMAIN new : new[n] = new[m] => n = m
    BY <1>5, <1>6, <1>7 DEF InvoicesOK
  <2> QED
    BY <1>5, <1>7, <2>1, <2>2 DEF InvoicesOK
<1> QED
  BY <1>8

LEMMA ReceivableChanged ==
    ASSUME NEW rec, NEW als, NEW rcp, MoneyOK(rec, als, rcp), NEW a \in DOMAIN rec,
           NEW row \in Receivable,
           NEW rec2, rec2 = [rec EXCEPT ![a] = row]
    PROVE  /\ MoneyOK(rec2, als, rcp)
           /\ DOMAIN rec2 = DOMAIN rec
           /\ rec2[a] = row
           /\ \A b \in DOMAIN rec \ {a} : rec2[b] = rec[b]
<1>1. /\ rec2 \in Seq(Receivable) /\ DOMAIN rec2 = DOMAIN rec
      /\ rec2[a] = row /\ \A b \in DOMAIN rec \ {a} : rec2[b] = rec[b]
  BY RowReplaced DEF MoneyOK
<1> QED
  BY <1>1 DEF MoneyOK

LEMMA ReceivableAdded ==
    ASSUME NEW rec, NEW als, NEW rcp, MoneyOK(rec, als, rcp), NEW row \in Receivable,
           NEW rec2, rec2 = Append(rec, row)
    PROVE  /\ MoneyOK(rec2, als, rcp)
           /\ DOMAIN rec2 = DOMAIN rec \cup {Len(rec) + 1}
           /\ rec2[Len(rec) + 1] = row
           /\ \A b \in DOMAIN rec : rec2[b] = rec[b]
<1>1. /\ rec2 \in Seq(Receivable) /\ DOMAIN rec2 = DOMAIN rec \cup {Len(rec) + 1}
      /\ rec2[Len(rec) + 1] = row /\ \A b \in DOMAIN rec : rec2[b] = rec[b]
  BY DEF MoneyOK
<1> QED
  BY <1>1 DEF MoneyOK

LEMMA ReceiptChanged ==
    ASSUME NEW rec, NEW als, NEW rcp, MoneyOK(rec, als, rcp), NEW r \in DOMAIN rcp,
           NEW row \in Receipt, row.receivable \in DOMAIN rec,
           NEW rcp2, rcp2 = [rcp EXCEPT ![r] = row]
    PROVE  /\ MoneyOK(rec, als, rcp2)
           /\ DOMAIN rcp2 = DOMAIN rcp
           /\ rcp2[r] = row
           /\ \A q \in DOMAIN rcp \ {r} : rcp2[q] = rcp[q]
<1>1. /\ rcp2 \in Seq(Receipt) /\ DOMAIN rcp2 = DOMAIN rcp
      /\ rcp2[r] = row /\ \A q \in DOMAIN rcp \ {r} : rcp2[q] = rcp[q]
  BY RowReplaced DEF MoneyOK
<1> QED
  BY <1>1 DEF MoneyOK

-----------------------------------------------------------------------------
(* What the operations on a receivable leave: they keep to the type, take  *)
(* over or add to what was paid, and write the status that goes with it.   *)

LEMMA NewReceivableRow ==
    ASSUME NEW i \in Nat, NEW amount \in Nat, NEW status \in {"OPEN", "PAID", "CANCELLED"}
    PROVE  /\ NewReceivable(i, amount, status) \in Receivable
           /\ NewReceivable(i, amount, status).paid = 0
           /\ NewReceivable(i, amount, status).amount = amount
           /\ NewReceivable(i, amount, status).given
                 \/ NewReceivable(i, amount, status).status = "OPEN"
<1>1. CASE status = "OPEN"
  BY <1>1 DEF NewReceivable, Receivable
<1>2. CASE status # "OPEN"
  BY <1>2 DEF NewReceivable, Receivable
<1> QED
  BY <1>1, <1>2

LEMMA TakenOverRow ==
    ASSUME NEW row \in Receivable, NEW i \in Nat
    PROVE  /\ TakenOver(row, i) \in Receivable /\ TakenOver(row, i).paid = row.paid
           /\ \/ TakenOver(row, i) = row
              \/ /\ TakenOver(row, i).status = StatusOf(row.paid, TakenOver(row, i).amount)
                 /\ ~ TakenOver(row, i).given
<1>1. CASE row.status = "PAID"
  BY <1>1 DEF TakenOver
<1>2. CASE row.status # "PAID"
  <2>1. TakenOver(row, i) = Normalised([row EXCEPT !.invoice = i, !.amount = Total])
    BY <1>2 DEF TakenOver
  <2>2. ASSUME NEW x \in Receivable, NEW new,
               new = Normalised([x EXCEPT !.invoice = i, !.amount = Total])
        PROVE  new \in Receivable /\ new.paid = x.paid /\ new.amount = Total
                 /\ new.status = StatusOf(x.paid, new.amount) /\ ~ new.given
    BY <2>2, TotalAssumption DEF Receivable, Normalised, StatusOf
  <2> QED
    BY <2>1, <2>2
<1> QED
  BY <1>1, <1>2

LEMMA PaidRow ==
    ASSUME NEW row \in Receivable, NEW amount \in Nat
    PROVE  /\ Pay(row, amount) \in Receivable
           /\ Pay(row, amount).paid = row.paid + amount
           /\ Pay(row, amount).amount = row.amount
           /\ Pay(row, amount).status = StatusOf(row.paid + amount, row.amount)
<1> PICK paid, status : paid = row.paid + amount /\ status = StatusOf(paid, row.amount)
  OBVIOUS
<1>1. paid \in Nat /\ status \in {"OPEN", "PAID"}
  BY DEF Receivable, StatusOf
<1>2. Pay(row, amount) = [row EXCEPT !.paid = paid, !.status = status, !.given = FALSE]
  BY DEF Pay, Normalised, Receivable
<1>3. ASSUME NEW x \in Receivable, NEW new,
             new = [x EXCEPT !.paid = paid, !.status = status, !.given = FALSE]
      PROVE  /\ new \in Receivable /\ new.paid = paid
             /\ new.amount = x.amount /\ new.status = status
  BY <1>1, <1>3 DEF Receivable
<1> QED
  BY <1>1, <1>2, <1>3

LEMMA EditedRow ==
    ASSUME NEW row \in Receivable, NEW read \in Receivable, NEW amount \in Nat
    PROVE  /\ Edited(row, read, amount) \in Receivable
           /\ Edited(row, read, amount).paid = row.paid
           /\ Edited(row, read, amount).amount = amount
           /\ Edited(row, read, amount).status = StatusOf(read.paid, amount)
BY DEF Receivable, Edited, StatusOf

LEMMA PostedRow ==
    ASSUME NEW row \in Receivable, NEW read \in Receivable, NEW amount \in Nat
    PROVE  /\ Posted(row, read, amount) \in Receivable
           /\ Posted(row, read, amount).paid = read.paid + amount
           /\ Posted(row, read, amount).amount = row.amount
           /\ Posted(row, read, amount).status = StatusOf(read.paid + amount, read.amount)
<1> PICK paid, status : paid = read.paid + amount /\ status = StatusOf(paid, read.amount)
  OBVIOUS
<1>1. paid \in Nat /\ status \in {"OPEN", "PAID"}
  BY DEF Receivable, StatusOf
<1>2. Posted(row, read, amount) = [row EXCEPT !.paid = paid, !.status = status, !.given = FALSE]
  BY DEF Posted
<1>3. ASSUME NEW x \in Receivable, NEW new,
             new = [x EXCEPT !.paid = paid, !.status = status, !.given = FALSE]
      PROVE  /\ new \in Receivable /\ new.paid = paid
             /\ new.amount = x.amount /\ new.status = status
  BY <1>1, <1>3 DEF Receivable
<1> QED
  BY <1>1, <1>2, <1>3

-----------------------------------------------------------------------------
(* Every step keeps the inductive invariant                                *)

(* Rows are added and changed by a worker that is not issuing any more.    *)
LEMMA ReceivablesStepInductive ==
    ASSUME ReceivablesInductive, NEW w \in Workers, NEW job \in ReceivableJob,
           jobs' = [jobs EXCEPT ![w] = job], job.op # "issue",
           RowsExist(job, invoices', receivables', receipts'),
           InvoicesOK(invoices', revenue'), MoneyOK(receivables', allocations', receipts'),
           DOMAIN invoices \subseteq DOMAIN invoices',
           DOMAIN receivables \subseteq DOMAIN receivables',
           DOMAIN receipts \subseteq DOMAIN receipts',
           \A v \in Workers \ {w} : jobs[v].op = "issue" =>
               invoices'[jobs[v].invoice].status = invoices[jobs[v].invoice].status,
           contractPaid' \in BOOLEAN
    PROVE  ReceivablesInductive'
<1>1. ReceivableJobsOK(jobs, invoices, receivables, receipts)
  BY DEF ReceivablesInductive
<1>2. ReceivableJobsOK([jobs EXCEPT ![w] = job], invoices', receivables', receipts')
  BY <1>1, SetReceivableJob
<1>3. ReceivableJobsOK(jobs', invoices', receivables', receipts')
  BY <1>2
<1> QED
  BY <1>3 DEF ReceivablesInductive

LEMMA CreateFromShipmentInductive ==
    ASSUME ReceivablesInductive, NEW w \in Workers, CreateFromShipment(w)
    PROVE  ReceivablesInductive'
<1>1. PICK row : row = [shipment |-> jobs[w].shipment, status |-> "DRAFT", receivable |-> 0]
  OBVIOUS
<1>2. row \in Invoice
  BY <1>1, ReceivableJobOf, ReceivableJobFields DEF CreateFromShipment, Invoice
<1>3. /\ invoices' = Append(invoices, row) /\ jobs' = [jobs EXCEPT ![w] = Idle]
      /\ UNCHANGED <<revenue, receivables, allocations, receipts, contractPaid>>
  BY <1>1 DEF CreateFromShipment, Finish, payments
<1>4. /\ InvoicesOK(invoices', revenue)
      /\ DOMAIN invoices' = DOMAIN invoices \cup {Len(invoices) + 1}
      /\ \A i \in DOMAIN invoices : invoices'[i] = invoices[i]
  <2>1. InvoicesOK(invoices, revenue)
    BY DEF ReceivablesInductive
  <2>2. /\ InvoicesOK(Append(invoices, row), revenue)
        /\ DOMAIN Append(invoices, row) = DOMAIN invoices \cup {Len(invoices) + 1}
        /\ \A i \in DOMAIN invoices : Append(invoices, row)[i] = invoices[i]
    BY <1>2, <2>1, InvoiceAdded
  <2> QED
    BY <1>3, <2>2
<1>5. \A v \in Workers : jobs[v].op = "issue" => jobs[v].invoice \in DOMAIN invoices
  BY ReceivableJobOf DEF RowsExist
<1> QED
  BY <1>3, <1>4, <1>5, IdleExists, ReceivablesStepInductive DEF ReceivablesInductive

(* An invoice is issued: it was a draft, and nobody else is issuing it.    *)
LEMMA IssueInductive ==
    ASSUME ReceivablesInductive, NEW w \in Workers, NEW i \in DOMAIN invoices,
           NEW a \in DOMAIN receivables',
           invoices[i].status = "DRAFT", Issued(i, a), jobs' = [jobs EXCEPT ![w] = Idle],
           \A v \in Workers \ {w} : ~ (jobs[v].op = "issue" /\ jobs[v].invoice = i),
           MoneyOK(receivables', allocations, receipts),
           DOMAIN receivables \subseteq DOMAIN receivables',
           UNCHANGED <<allocations, receipts, contractPaid>>
    PROVE  ReceivablesInductive'
<1>1. a \in Nat /\ invoices \in Seq(Invoice) /\ InvoicesOK(invoices, revenue)
  BY DEF MoneyOK, ReceivablesInductive, InvoicesOK
<1>2. /\ invoices' \in Seq(Invoice) /\ DOMAIN invoices' = DOMAIN invoices
      /\ invoices'[i].status = "ISSUED"
      /\ \A j \in DOMAIN invoices \ {i} : invoices'[j] = invoices[j]
  <2>1. invoices' = IssuedIn(invoices, i, a)
    BY DEF Issued, IssuedIn
  <2> QED
    BY <1>1, <2>1, IssuedInvoice
<1>3. InvoicesOK(invoices', revenue')
  BY <1>1, <1>2, RevenuePosted DEF Issued
<1>4. \A v \in Workers \ {w} : jobs[v].op = "issue" =>
          invoices'[jobs[v].invoice].status = invoices[jobs[v].invoice].status
  BY <1>2, ReceivableJobOf DEF RowsExist
<1> QED
  BY <1>2, <1>3, <1>4, IdleExists, ReceivablesStepInductive DEF ReceivablesInductive

LEMMA IssueOnReceivableInductive ==
    ASSUME ReceivablesInductive, NEW w \in Workers, NEW i \in DOMAIN invoices,
           NEW a \in DOMAIN receivables, IssueOnReceivable(w, i, a)
    PROVE  ReceivablesInductive'
<1> PICK row : row = TakenOver(receivables[a], i)
  OBVIOUS
<1>1. /\ receivables' = [receivables EXCEPT ![a] = row]
      /\ invoices[i].status = "DRAFT" /\ Issued(i, a)
      /\ \A v \in Workers \ {w} : ~ (jobs[v].op = "issue" /\ jobs[v].invoice = i)
      /\ UNCHANGED <<allocations, receipts, contractPaid>>
  BY DEF IssueOnReceivable, Issuable, BeingIssued, payments
<1>2. jobs' = [jobs EXCEPT ![w] = Idle]
  BY AtOnceIdle DEF IssueOnReceivable
<1>3. receivables[a] \in Receivable /\ i \in Nat
  BY DEF ReceivablesInductive, MoneyOK, InvoicesOK
<1>4. row \in Receivable
  BY <1>3, TakenOverRow
<1>5. MoneyOK(receivables', allocations, receipts) /\ DOMAIN receivables' = DOMAIN receivables
  <2>1. MoneyOK(receivables, allocations, receipts)
    BY DEF ReceivablesInductive
  <2> QED
    BY <1>1, <1>4, <2>1, ReceivableChanged
<1> QED
  BY <1>1, <1>2, <1>5, IssueInductive

LEMMA IssueOnNewReceivableInductive ==
    ASSUME ReceivablesInductive, NEW w \in Workers, IssueOnNewReceivable(w)
    PROVE  ReceivablesInductive'
<1>1. PICK row : row = NewReceivable(jobs[w].invoice, Total, "OPEN")
  OBVIOUS
<1>2. PICK i : i = jobs[w].invoice
  OBVIOUS
<1>3. /\ jobs[w].op = "issue"
      /\ receivables' = Append(receivables, row)
      /\ Issued(i, Len(receivables')) /\ jobs' = [jobs EXCEPT ![w] = Idle]
      /\ UNCHANGED <<allocations, receipts, contractPaid>>
  BY <1>1, <1>2 DEF IssueOnNewReceivable, Finish, payments
<1>4. i \in DOMAIN invoices /\ invoices[i].status = "DRAFT" /\ i \in Nat
  BY <1>2, <1>3, ReceivableJobOf, ReceivableJobFields DEF RowsExist
<1>5. row \in Receivable
  BY <1>1, <1>2, <1>4, TotalAssumption, NewReceivableRow
<1>6. /\ MoneyOK(receivables', allocations, receipts)
      /\ DOMAIN receivables' = DOMAIN receivables \cup {Len(receivables) + 1}
  BY <1>3, <1>5, ReceivableAdded DEF ReceivablesInductive
<1>7. Len(receivables') = Len(receivables) + 1
  BY <1>3 DEF ReceivablesInductive, MoneyOK
<1>8. \A v \in Workers \ {w} : ~ (jobs[v].op = "issue" /\ jobs[v].invoice = i)
  BY <1>2, <1>3 DEF ReceivablesInductive, ReceivableJobsOK, OneIssuer
<1> QED
  BY <1>3, <1>4, <1>6, <1>7, <1>8, IssueInductive

(* A cancellation is saved over the row, whichever columns come with it.   *)
LEMMA SavedInvoice ==
    ASSUME NEW now \in Invoice, NEW read \in Invoice, read.status = "DRAFT",
           NEW row \in Saved(now, read, [read EXCEPT !.status = "CANCELLED"])
    PROVE  row \in Invoice /\ row.status = "CANCELLED"
<1>1. PICK new : new = [read EXCEPT !.status = "CANCELLED"]
  OBVIOUS
<1>2. /\ new \in Invoice /\ new.status = "CANCELLED" /\ new.shipment = read.shipment
      /\ new.receivable = read.receivable
  BY <1>1 DEF Invoice
<1>3. CASE row = new
  BY <1>2, <1>3
<1>4. CASE row = [f \in DOMAIN now |-> IF new[f] # read[f] THEN new[f] ELSE now[f]]
  <2>1. row = [now EXCEPT !.status = "CANCELLED"]
    <3>1. DOMAIN now = {"shipment", "status", "receivable"}
      BY DEF Invoice
    <3>2. \A f \in DOMAIN now : row[f] = IF f = "status" THEN "CANCELLED" ELSE now[f]
      BY <1>2, <1>4, <3>1
    <3> QED
      BY <1>4, <3>1, <3>2
  <2> QED
    BY <2>1 DEF Invoice
<1> QED
  BY <1>1, <1>3, <1>4 DEF Saved

LEMMA CancelInvoiceInductive ==
    ASSUME ReceivablesInductive, NEW w \in Workers, CancelInvoice(w)
    PROVE  ReceivablesInductive'
<1>1. PICK i, read : i = jobs[w].invoice /\ read = jobs[w].read
  OBVIOUS
<1>2. /\ i \in DOMAIN invoices /\ read \in Invoice /\ read.status = "DRAFT"
  BY <1>1, ReceivableJobOf, ReceivableJobFields DEF CancelInvoice, RowsExist
<1>3. PICK row \in Saved(invoices[i], read, [read EXCEPT !.status = "CANCELLED"]) :
          invoices' = [invoices EXCEPT ![i] = row]
  BY <1>1 DEF CancelInvoice
<1>4. /\ ~ BeingIssued(i) /\ jobs' = [jobs EXCEPT ![w] = Idle]
      /\ UNCHANGED <<revenue, receivables, allocations, receipts, contractPaid>>
  BY <1>1 DEF CancelInvoice, Finish, payments
<1>5. invoices \in Seq(Invoice) /\ InvoicesOK(invoices, revenue) /\ invoices[i] \in Invoice
  BY <1>2 DEF ReceivablesInductive, InvoicesOK
<1>6. row \in Invoice /\ row.status = "CANCELLED"
  BY <1>2, <1>3, <1>5, SavedInvoice
<1>7. /\ invoices' \in Seq(Invoice) /\ DOMAIN invoices' = DOMAIN invoices
      /\ invoices'[i] = row
      /\ \A j \in DOMAIN invoices \ {i} : invoices'[j] = invoices[j]
  BY <1>2, <1>3, <1>5, <1>6, RowReplaced
<1>8. InvoicesOK(invoices', revenue)
  <2>1. invoices'[i].status # "DRAFT"
    BY <1>6, <1>7
  <2> QED
    BY <1>2, <1>5, <1>7, <2>1, InvoiceChanged
<1>9. \A v \in Workers \ {w} : jobs[v].op = "issue" =>
          invoices'[jobs[v].invoice].status = invoices[jobs[v].invoice].status
  BY <1>4, <1>7, ReceivableJobOf DEF RowsExist, BeingIssued
<1> QED
  BY <1>4, <1>7, <1>8, <1>9, IdleExists, ReceivablesStepInductive DEF ReceivablesInductive

(* One receivable changes, at once or as the last step of a job.           *)
LEMMA ReceivableWritten ==
    ASSUME ReceivablesInductive, NEW w \in Workers, NEW a \in DOMAIN receivables,
           NEW row \in Receivable, receivables' = [receivables EXCEPT ![a] = row],
           jobs' = [jobs EXCEPT ![w] = Idle],
           UNCHANGED <<invoices, revenue, allocations, receipts, contractPaid>>
    PROVE  ReceivablesInductive'
<1>1. MoneyOK(receivables, allocations, receipts)
  BY DEF ReceivablesInductive
<1>2. MoneyOK(receivables', allocations, receipts) /\ DOMAIN receivables' = DOMAIN receivables
  BY <1>1, ReceivableChanged
<1> QED
  BY <1>2, IdleExists, ReceivablesStepInductive DEF ReceivablesInductive

LEMMA EditInductive ==
    ASSUME ReceivablesInductive, NEW w \in Workers, Edit(w)
    PROVE  ReceivablesInductive'
<1> PICK a, read, amount :
        a = jobs[w].receivable /\ read = jobs[w].read /\ amount = jobs[w].amount
  OBVIOUS
<1>1. a \in DOMAIN receivables /\ read \in Receivable /\ amount \in Nat
  BY ReceivableJobOf, ReceivableJobFields DEF Edit, RowsExist
<1> PICK row : row = Edited(receivables[a], read, amount)
  OBVIOUS
<1>2. receivables[a] \in Receivable
  BY <1>1 DEF ReceivablesInductive, MoneyOK
<1>3. row \in Receivable
  BY <1>1, <1>2, EditedRow
<1>4. /\ receivables' = [receivables EXCEPT ![a] = row] /\ jobs' = [jobs EXCEPT ![w] = Idle]
      /\ UNCHANGED <<invoices, revenue, allocations, receipts, contractPaid>>
  BY DEF Edit, Finish, sales, payments
<1> QED
  BY <1>1, <1>3, <1>4, ReceivableWritten

LEMMA UpdateArBalanceInductive ==
    ASSUME ReceivablesInductive, NEW w \in Workers, UpdateArBalance(w)
    PROVE  ReceivablesInductive'
<1> PICK a, read, amount :
        a = jobs[w].receivable /\ read = jobs[w].read /\ amount = jobs[w].amount
  OBVIOUS
<1>1. a \in DOMAIN receivables /\ read \in Receivable /\ amount \in Nat
  BY ReceivableJobOf, ReceivableJobFields DEF UpdateArBalance, RowsExist
<1> PICK row : row = Posted(receivables[a], read, amount)
  OBVIOUS
<1>2. receivables[a] \in Receivable
  BY <1>1 DEF ReceivablesInductive, MoneyOK
<1>3. row \in Receivable
  BY <1>1, <1>2, PostedRow
<1>4. /\ receivables' = [receivables EXCEPT ![a] = row] /\ jobs' = [jobs EXCEPT ![w] = Idle]
      /\ UNCHANGED <<invoices, revenue, allocations, receipts, contractPaid>>
  BY DEF UpdateArBalance, Finish, sales, payments
<1> QED
  BY <1>1, <1>3, <1>4, ReceivableWritten

LEMMA CreateReceivableInductive ==
    ASSUME ReceivablesInductive, NEW w \in Workers, NEW amount \in Payments,
           NEW status \in {"OPEN", "PAID", "CANCELLED"}, CreateReceivable(w, amount, status)
    PROVE  ReceivablesInductive'
<1>0. PICK row : row = NewReceivable(0, amount, status)
  OBVIOUS
<1>1. row \in Receivable
  BY <1>0, PaymentsAssumption, NewReceivableRow
<1>2. /\ receivables' = Append(receivables, row)
      /\ UNCHANGED <<invoices, revenue, allocations, receipts, contractPaid>>
  BY <1>0 DEF CreateReceivable, sales, payments
<1>3. jobs' = [jobs EXCEPT ![w] = Idle]
  BY AtOnceIdle DEF CreateReceivable
<1>4. MoneyOK(receivables, allocations, receipts) /\ receivables \in Seq(Receivable)
  BY DEF ReceivablesInductive, MoneyOK
<1>5. /\ MoneyOK(receivables', allocations, receipts)
      /\ DOMAIN receivables' = DOMAIN receivables \cup {Len(receivables) + 1}
  BY <1>1, <1>2, <1>4, ReceivableAdded
<1> QED
  BY <1>2, <1>3, <1>5, IdleExists, ReceivablesStepInductive DEF ReceivablesInductive

LEMMA AllocatePaymentInductive ==
    ASSUME ReceivablesInductive, NEW w \in Workers, NEW a \in DOMAIN receivables,
           NEW amount \in Payments, AllocatePayment(w, a, amount)
    PROVE  ReceivablesInductive'
<1> PICK row, new : row = Pay(receivables[a], amount)
                      /\ new = [receivable |-> a, amount |-> amount]
  OBVIOUS
<1>1. receivables[a] \in Receivable /\ amount \in Nat /\ a \in Nat
  BY PaymentsAssumption DEF ReceivablesInductive, MoneyOK
<1>2. row \in Receivable /\ new \in Allocation
  BY <1>1, PaidRow DEF Allocation
<1>3. /\ receivables' = [receivables EXCEPT ![a] = row]
      /\ allocations' = Append(allocations, new)
      /\ UNCHANGED <<invoices, revenue, receipts, contractPaid>>
  BY DEF AllocatePayment, sales
<1>4. jobs' = [jobs EXCEPT ![w] = Idle]
  BY AtOnceIdle DEF AllocatePayment
<1>5. MoneyOK(receivables, allocations, receipts)
  BY DEF ReceivablesInductive
<1>6. MoneyOK(receivables', allocations, receipts) /\ DOMAIN receivables' = DOMAIN receivables
  BY <1>2, <1>3, <1>5, ReceivableChanged
<1>7. /\ allocations' \in Seq(Allocation)
      /\ \A n \in DOMAIN allocations' : allocations'[n].receivable \in DOMAIN receivables
  <2>1. new.receivable = a /\ allocations \in Seq(Allocation)
    BY <1>5 DEF MoneyOK
  <2> QED
    BY <1>2, <1>3, <1>5, <2>1 DEF MoneyOK
<1>8. MoneyOK(receivables', allocations', receipts')
  BY <1>3, <1>6, <1>7 DEF MoneyOK
<1> QED
  BY <1>3, <1>4, <1>6, <1>8, IdleExists, ReceivablesStepInductive DEF ReceivablesInductive

LEMMA CreateReceiptInductive ==
    ASSUME ReceivablesInductive, NEW w \in Workers, CreateReceipt(w)
    PROVE  ReceivablesInductive'
<1>a. PICK a, read, amount, status :
        /\ a = jobs[w].receivable /\ read = jobs[w].read /\ amount = jobs[w].amount
        /\ status = IF jobs[w].op = "receive" THEN "PENDING" ELSE "APPROVED"
  OBVIOUS
<1>b. PICK row, job : /\ row = [receivable |-> a, amount |-> amount, status |-> status]
                    /\ job = IF status = "PENDING" THEN Idle
                             ELSE [op |-> "post", receivable |-> a, read |-> read,
                                   amount |-> amount]
  OBVIOUS
<1>1. a \in DOMAIN receivables /\ a \in Nat /\ read \in Receivable /\ amount \in Payments
  BY <1>a, ReceivableJobOf, ReceivableJobFields DEF CreateReceipt, RowsExist
<1>2. row \in Receipt /\ row.receivable = a
  BY <1>a, <1>b, <1>1 DEF Receipt
<1>3. /\ receipts' = Append(receipts, row) /\ jobs' = [jobs EXCEPT ![w] = job]
      /\ UNCHANGED <<invoices, revenue, receivables, allocations, contractPaid>>
  BY <1>a, <1>b DEF CreateReceipt, Finish, sales, payments
<1>4. MoneyOK(receivables, allocations, receipts) /\ receipts \in Seq(Receipt)
  BY DEF ReceivablesInductive, MoneyOK
<1>5. /\ MoneyOK(receivables, allocations, receipts')
      /\ DOMAIN receipts' = DOMAIN receipts \cup {Len(receipts) + 1}
  <2>1. row \in Receipt /\ row.receivable \in DOMAIN receivables
    BY <1>1, <1>2
  <2>2. receipts' = Append(receipts, row)
    BY <1>3
  <2>3. /\ receipts' \in Seq(Receipt) /\ DOMAIN receipts' = DOMAIN receipts \cup {Len(receipts) + 1}
        /\ receipts'[Len(receipts) + 1] = row /\ \A q \in DOMAIN receipts : receipts'[q] = receipts[q]
    BY <1>4, <2>1, <2>2
  <2> QED
    BY <1>4, <2>1, <2>3 DEF MoneyOK
<1>6. job \in ReceivableJob /\ job.op # "issue" /\ RowsExist(job, invoices, receivables, receipts')
  <2>1. CASE status = "PENDING"
    BY <1>b, <2>1, IdleExists
  <2>2. CASE status # "PENDING"
    <3>1. job = [op |-> "post", receivable |-> a, read |-> read, amount |-> amount]
      BY <1>b, <2>2
    <3> QED
      BY <1>1, <3>1 DEF ReceivableJob, RowsExist
  <2> QED
    BY <2>1, <2>2
<1> QED
  BY <1>3, <1>5, <1>6, ReceivablesStepInductive DEF ReceivablesInductive

LEMMA SavedReceipt ==
    ASSUME NEW now \in Receipt, NEW read \in Receipt,
           NEW status, status \in {"APPROVED", "REJECTED", "CANCELLED"},
           NEW row \in Saved(now, read, [read EXCEPT !.status = status])
    PROVE  /\ row \in Receipt /\ row.receivable \in {now.receivable, read.receivable}
           /\ now = read => row = [read EXCEPT !.status = status]
<1>1. PICK new : new = [read EXCEPT !.status = status]
  OBVIOUS
<1>2. /\ new \in Receipt /\ new.status = status /\ new.receivable = read.receivable
      /\ new.amount = read.amount
  BY <1>1 DEF Receipt
<1>3. CASE row = new
  BY <1>1, <1>2, <1>3
<1>4. CASE row = [f \in DOMAIN now |-> IF new[f] # read[f] THEN new[f] ELSE now[f]]
  <2>1. DOMAIN now = {"receivable", "amount", "status"}
    BY DEF Receipt
  <2>2. row = [now EXCEPT !.status = IF status # read.status THEN status ELSE now.status]
    <3>1. \A f \in DOMAIN now : row[f] =
              IF f = "status" THEN (IF status # read.status THEN status ELSE now.status)
              ELSE now[f]
      BY <1>2, <1>4, <2>1
    <3> QED
      BY <1>4, <2>1, <3>1
  <2>3. row \in Receipt /\ row.receivable = now.receivable
    <3>1. now.status \in {"PENDING", "APPROVED", "REJECTED", "CANCELLED"}
      BY DEF Receipt
    <3> QED
      BY <2>2, <3>1 DEF Receipt
  <2>4. now = read => row = [read EXCEPT !.status = status]
    BY <2>2
  <2> QED
    BY <2>3, <2>4
<1> QED
  BY <1>1, <1>3, <1>4 DEF Saved

LEMMA SaveReceiptInductive ==
    ASSUME ReceivablesInductive, NEW w \in Workers, SaveReceipt(w)
    PROVE  ReceivablesInductive'
<1>a. PICK r, read, status :
        r = jobs[w].receipt /\ read = jobs[w].read /\ status = StatusFor(jobs[w].op)
  OBVIOUS
<1>1. /\ r \in DOMAIN receipts /\ read \in Receipt /\ read.receivable \in DOMAIN receivables
      /\ status \in {"APPROVED", "REJECTED", "CANCELLED"}
  BY <1>a, ReceivableJobOf, ReceivableJobFields DEF SaveReceipt, RowsExist, StatusFor
<1>2. PICK row \in Saved(receipts[r], read, [read EXCEPT !.status = status]) :
          receipts' = [receipts EXCEPT ![r] = row]
  BY <1>a DEF SaveReceipt
<1>3. MoneyOK(receivables, allocations, receipts)
  BY DEF ReceivablesInductive
<1>4. receipts[r] \in Receipt /\ receipts[r].receivable \in DOMAIN receivables
  BY <1>1, <1>3 DEF MoneyOK
<1>5. row \in Receipt /\ row.receivable \in DOMAIN receivables
  BY <1>1, <1>2, <1>4, SavedReceipt
<1>6. MoneyOK(receivables, allocations, receipts') /\ DOMAIN receipts' = DOMAIN receipts
  BY <1>1, <1>2, <1>3, <1>5, ReceiptChanged
<1>b. PICK job : job = IF jobs[w].op # "approve" THEN Idle
                     ELSE [op |-> "post", receivable |-> read.receivable,
                           read |-> receivables[read.receivable], amount |-> read.amount]
  OBVIOUS
<1>7. /\ jobs' = [jobs EXCEPT ![w] = job]
      /\ UNCHANGED <<invoices, revenue, receivables, allocations, contractPaid>>
  BY <1>a, <1>b DEF SaveReceipt, Finish, sales, payments
<1>8. job \in ReceivableJob /\ job.op # "issue" /\ RowsExist(job, invoices, receivables, receipts')
  <2>1. CASE jobs[w].op # "approve"
    BY <1>b, <2>1, IdleExists
  <2>2. CASE jobs[w].op = "approve"
    <3>1. /\ read.receivable \in Nat /\ read.amount \in Payments
          /\ receivables[read.receivable] \in Receivable
      BY <1>1, <1>3 DEF MoneyOK, Receipt
    <3> QED
      BY <1>1, <1>b, <2>2, <3>1 DEF ReceivableJob, RowsExist
  <2> QED
    BY <2>1, <2>2
<1> QED
  BY <1>6, <1>7, <1>8, ReceivablesStepInductive DEF ReceivablesInductive

-----------------------------------------------------------------------------
(* Money of a transaction, shared out                                      *)

LEMMA Concatenated ==
    ASSUME NEW S, NEW s \in Seq(S), NEW t \in Seq(S), NEW u, u = s \o t
    PROVE  /\ u \in Seq(S) /\ Len(u) = Len(s) + Len(t)
           /\ \A i \in 1 .. Len(s) : u[i] = s[i]
           /\ \A i \in 1 .. Len(t) : u[Len(s) + i] = t[i]
OBVIOUS

(* Who gets money, in which order: each at most once.                      *)
LEMMA OrderFacts ==
    ASSUME NEW n \in Nat, NEW order \in SetToAllKPermutations(1 .. n)
    PROVE  /\ order \in Seq(1 .. n)
           /\ \A i, j \in DOMAIN order : order[i] = order[j] => i = j
<1>1. PICK S \in SUBSET (1 .. n) : order \in SetToSeqs(S)
  BY DEF SetToAllKPermutations
<1>2. Cardinality(S) \in Nat
  <2>1. IsFiniteSet(1 .. n)
    BY FS_Interval
  <2> QED
    BY <2>1, FS_Subset, FS_CardinalityType
<1>3. /\ order \in [1 .. Cardinality(S) -> S]
      /\ \A i, j \in 1 .. Cardinality(S) : i # j => order[i] # order[j]
  BY <1>1 DEF SetToSeqs
<1>4. order \in Seq(1 .. n) /\ DOMAIN order = 1 .. Cardinality(S)
  <2>1. order \in [1 .. Cardinality(S) -> 1 .. n]
    BY <1>1, <1>3
  <2> QED
    BY <1>2, <2>1
<1> QED
  BY <1>3, <1>4

LEMMA ShareFacts ==
    ASSUME ReceivablesInductive, NEW order \in SetToAllKPermutations(DOMAIN receivables),
           NEW amount \in Payments, Takers(order, amount)
    PROVE  /\ order \in Seq(DOMAIN receivables)
           /\ \A i, j \in DOMAIN order : order[i] = order[j] => i = j
           /\ \A k \in DOMAIN order : Share(order, amount, k) \in Nat
<1>1. receivables \in Seq(Receivable) /\ DOMAIN receivables = 1 .. Len(receivables)
      /\ Len(receivables) \in Nat /\ amount \in Nat
  BY PaymentsAssumption DEF ReceivablesInductive, MoneyOK
<1>2. /\ order \in Seq(DOMAIN receivables)
      /\ \A i, j \in DOMAIN order : order[i] = order[j] => i = j
  BY <1>1, OrderFacts
<1>3. ASSUME NEW k \in DOMAIN order PROVE Share(order, amount, k) \in Nat
  <2>1. \A j \in DOMAIN order : Left(receivables[order[j]]) \in Int
    <3>1. \A j \in DOMAIN order : receivables[order[j]] \in Receivable
      BY <1>1, <1>2
    <3> QED
      BY <3>1 DEF Left, Receivable
  <2> DEFINE f == [j \in 1 .. k - 1 |-> Left(receivables[order[j]])]
  <2>2. k - 1 \in Nat /\ f \in [1 .. k - 1 -> Int]
    <3>1. k \in 1 .. Len(order)
      BY <1>2
    <3>2. \A j \in 1 .. k - 1 : j \in DOMAIN order
      BY <1>2, <3>1
    <3> QED
      BY <2>1, <3>1, <3>2
  <2> HIDE DEF f
  <2>3. SumTo(f, k - 1) \in Int
    BY <2>2, SumToInt
  <2>4. Before(order, k) \in Int
    BY <2>3 DEF f, Before
  <2>5. Before(order, k) < amount /\ Left(receivables[order[k]]) > 0
    BY DEF Takers, Wants
  <2> QED
    BY <1>1, <2>1, <2>4, <2>5 DEF Share, Lesser
<1> QED
  BY <1>2, <1>3

(* What each receivable and the list of allocations get.                   *)
LEMMA TransactionAllocated ==
    ASSUME ReceivablesInductive, NEW w \in Workers,
           NEW order \in SetToAllKPermutations(DOMAIN receivables),
           NEW amount \in Payments, AllocateFromTradeFinanceTransaction(w, order, amount),
           NEW new, new = [k \in DOMAIN order |->
                              [receivable |-> order[k], amount |-> Share(order, amount, k)]]
    PROVE  /\ new \in Seq(Allocation) /\ allocations' = allocations \o new
           /\ DOMAIN new = DOMAIN order
           /\ \A k \in DOMAIN new : new[k].receivable \in DOMAIN receivables
           /\ \A i, j \in DOMAIN new : new[i].receivable = new[j].receivable => i = j
           /\ receivables' \in Seq(Receivable) /\ DOMAIN receivables' = DOMAIN receivables
           /\ \A a \in DOMAIN receivables :
                 (\A k \in DOMAIN new : new[k].receivable # a) =>
                     receivables'[a] = receivables[a]
           /\ \A k \in DOMAIN new :
                 receivables'[new[k].receivable] =
                     Pay(receivables[new[k].receivable], new[k].amount)
<1>1. /\ order \in Seq(DOMAIN receivables)
      /\ \A i, j \in DOMAIN order : order[i] = order[j] => i = j
      /\ \A k \in DOMAIN order : Share(order, amount, k) \in Nat
  BY ShareFacts DEF AllocateFromTradeFinanceTransaction
<1>2. receivables \in Seq(Receivable) /\ DOMAIN receivables \subseteq Nat
  BY DEF ReceivablesInductive, MoneyOK
<1>3. \A k \in DOMAIN order : /\ new[k] \in Allocation /\ new[k].receivable = order[k]
                              /\ new[k].amount = Share(order, amount, k)
                              /\ order[k] \in DOMAIN receivables
  BY <1>1, <1>2 DEF Allocation
<1>4. new \in Seq(Allocation) /\ DOMAIN new = DOMAIN order
  <2>1. new \in [1 .. Len(order) -> Allocation] /\ Len(order) \in Nat
    BY <1>1, <1>3
  <2> QED
    BY <2>1
<1>5. allocations' = allocations \o new
  BY DEF AllocateFromTradeFinanceTransaction
<1>6. receivables' = [a \in DOMAIN receivables |->
           IF a \notin Range(order) THEN receivables[a]
           ELSE LET k == CHOOSE j \in DOMAIN order : order[j] = a
                IN  Pay(receivables[a], Share(order, amount, k))]
  BY DEF AllocateFromTradeFinanceTransaction
<1>7. ASSUME NEW a \in DOMAIN receivables, \A k \in DOMAIN order : order[k] # a
      PROVE  receivables'[a] = receivables[a]
  BY <1>6, <1>7 DEF Range
<1>8. ASSUME NEW k \in DOMAIN order
      PROVE  receivables'[order[k]] = Pay(receivables[order[k]], Share(order, amount, k))
  <2>1. order[k] \in Range(order) /\ order[k] \in DOMAIN receivables
    BY <1>3 DEF Range
  <2>2. (CHOOSE j \in DOMAIN order : order[j] = order[k]) = k
    BY <1>1
  <2> QED
    BY <1>6, <2>1, <2>2
<1>9. receivables' \in Seq(Receivable) /\ DOMAIN receivables' = DOMAIN receivables
  <2>1. DOMAIN receivables' = 1 .. Len(receivables) /\ Len(receivables) \in Nat
    BY <1>2, <1>6
  <2>2. ASSUME NEW a \in DOMAIN receivables PROVE receivables'[a] \in Receivable
    <3>1. receivables[a] \in Receivable
      BY <1>2
    <3>2. CASE \A k \in DOMAIN order : order[k] # a
      BY <1>7, <3>1, <3>2
    <3>3. ASSUME NEW k \in DOMAIN order, order[k] = a PROVE receivables'[a] \in Receivable
      BY <1>1, <1>8, <3>1, <3>3, PaidRow
    <3> QED
      BY <3>2, <3>3
  <2>3. receivables' \in [1 .. Len(receivables) -> Receivable]
    BY <1>2, <1>6, <2>1, <2>2
  <2> QED
    BY <1>2, <2>1, <2>3
<1> HIDE DEF Receivable
<1>10. /\ \A a \in DOMAIN receivables :
             (\A k \in DOMAIN new : new[k].receivable # a) => receivables'[a] = receivables[a]
       /\ \A k \in DOMAIN new :
             receivables'[new[k].receivable] =
                 Pay(receivables[new[k].receivable], new[k].amount)
  BY <1>3, <1>4, <1>7, <1>8, Zenon
<1>11. /\ \A k \in DOMAIN new : new[k].receivable \in DOMAIN receivables
       /\ \A i, j \in DOMAIN new : new[i].receivable = new[j].receivable => i = j
  BY <1>1, <1>3, <1>4
<1> QED
  BY <1>4, <1>5, <1>9, <1>10, <1>11

LEMMA AllocateFromTradeFinanceInductive ==
    ASSUME ReceivablesInductive, NEW w \in Workers,
           NEW order \in SetToAllKPermutations(DOMAIN receivables),
           NEW amount \in Payments, AllocateFromTradeFinanceTransaction(w, order, amount)
    PROVE  ReceivablesInductive'
<1>1. PICK new : new = [k \in DOMAIN order |->
                           [receivable |-> order[k], amount |-> Share(order, amount, k)]]
  OBVIOUS
<1>2. /\ new \in Seq(Allocation) /\ allocations' = allocations \o new
      /\ \A k \in DOMAIN new : new[k].receivable \in DOMAIN receivables
      /\ receivables' \in Seq(Receivable) /\ DOMAIN receivables' = DOMAIN receivables
  BY <1>1, TransactionAllocated
<1>3. MoneyOK(receivables, allocations, receipts)
  BY DEF ReceivablesInductive
<1>4. /\ allocations' \in Seq(Allocation)
      /\ \A n \in DOMAIN allocations' : allocations'[n].receivable \in DOMAIN receivables
  <2>1. allocations \in Seq(Allocation)
    BY <1>3 DEF MoneyOK
  <2>2. /\ allocations' \in Seq(Allocation) /\ Len(allocations') = Len(allocations) + Len(new)
        /\ \A i \in 1 .. Len(allocations) : allocations'[i] = allocations[i]
        /\ \A i \in 1 .. Len(new) : allocations'[Len(allocations) + i] = new[i]
    BY <1>2, <2>1, Concatenated
  <2>3. ASSUME NEW n \in DOMAIN allocations'
        PROVE  allocations'[n].receivable \in DOMAIN receivables
    <3>1. n \in 1 .. Len(allocations) + Len(new) /\ Len(allocations) \in Nat /\ Len(new) \in Nat
      BY <1>2, <2>1, <2>2
    <3>2. CASE n <= Len(allocations)
      <4>1. n \in DOMAIN allocations /\ allocations'[n] = allocations[n]
        BY <2>1, <2>2, <3>1, <3>2
      <4> QED
        BY <1>3, <4>1 DEF MoneyOK
    <3>3. CASE n > Len(allocations)
      <4>1. PICK k \in 1 .. Len(new) : n = Len(allocations) + k
        <5>1. n - Len(allocations) \in 1 .. Len(new)
              /\ n = Len(allocations) + (n - Len(allocations))
          BY <3>1, <3>3
        <5> QED
          BY <5>1
      <4>2. allocations'[n] = new[k] /\ k \in DOMAIN new
        BY <1>2, <2>2, <4>1
      <4> QED
        BY <1>2, <4>2
    <3> QED
      BY <2>1, <3>1, <3>2, <3>3
  <2> QED
    BY <2>2, <2>3
<1>5. /\ UNCHANGED <<invoices, revenue, receipts>> /\ contractPaid' \in BOOLEAN
  BY DEF AllocateFromTradeFinanceTransaction, sales, ReceivablesInductive
<1>6. jobs' = [jobs EXCEPT ![w] = Idle]
  BY AtOnceIdle DEF AllocateFromTradeFinanceTransaction
<1>7. MoneyOK(receivables', allocations', receipts')
  BY <1>2, <1>3, <1>4, <1>5 DEF MoneyOK
<1> QED
  BY <1>2, <1>5, <1>6, <1>7, IdleExists, ReceivablesStepInductive DEF ReceivablesInductive

-----------------------------------------------------------------------------
LEMMA ReceivablesNextInductive ==
    ASSUME ReceivablesInductive, [ReceivablesNext]_receivablesVars
    PROVE  ReceivablesInductive'
<1>1. CASE UNCHANGED receivablesVars
  BY <1>1 DEF receivablesVars, ReceivablesInductive, InvoicesOK, MoneyOK, ReceivableJobsOK,
              OneIssuer, RowsExist
<1>2. CASE ReceivablesNext
  <2>1. PICK w \in Workers : Invoicing(w) \/ Paying(w) \/ AbandonReceivables(w)
    BY <1>2 DEF ReceivablesNext, ReceivablesStep
  <2>2. CASE Invoicing(w)
    BY <2>2, InvoiceReadersInductive, IssueOnReceivableInductive,
       CreateFromShipmentInductive, IssueOnNewReceivableInductive, CancelInvoiceInductive
    DEF Invoicing
  <2>3. CASE Paying(w)
    BY <2>3, CreateReceivableInductive, AllocateFromTradeFinanceInductive,
       AllocatePaymentInductive, MoneyReadersInductive, EditInductive,
       CreateReceiptInductive, SaveReceiptInductive, UpdateArBalanceInductive
    DEF Paying
  <2>4. CASE AbandonReceivables(w)
    BY <2>4, MoneyReadersInductive
  <2> QED
    BY <2>1, <2>2, <2>3, <2>4
<1> QED
  BY <1>1, <1>2

LEMMA ReceivablesInitInductive == ReceivablesInit => ReceivablesInductive
<1> SUFFICES ASSUME ReceivablesInit PROVE ReceivablesInductive
  OBVIOUS
<1>1. InvoicesOK(invoices, revenue)
  BY DEF ReceivablesInit, InvoicesOK
<1>2. MoneyOK(receivables, allocations, receipts)
  <2>1. NewReceivable(0, Total, "OPEN") \in Receivable
    BY TotalAssumption, NewReceivableRow
  <2>2. CASE receivables = <<>>
    BY <2>2 DEF ReceivablesInit, MoneyOK
  <2>3. CASE receivables = <<NewReceivable(0, Total, "OPEN")>>
    <3>1. receivables \in Seq(Receivable)
      BY <2>1, <2>3
    <3> QED
      BY <3>1 DEF ReceivablesInit, MoneyOK
  <2> QED
    BY <2>2, <2>3 DEF ReceivablesInit
<1>3. ReceivableJobsOK(jobs, invoices, receivables, receipts)
  BY IdleExists DEF ReceivablesInit, ReceivableJobsOK, OneIssuer
<1> QED
  BY <1>1, <1>2, <1>3 DEF ReceivablesInit, ReceivablesInductive

(* The parts of the inductive invariant hold in every state.               *)
THEOREM ReceivablesInvariant == ReceivablesSpec => []ReceivablesInductive
<1> QED
  BY ReceivablesInitInductive, ReceivablesNextInductive, PTL DEF ReceivablesSpec

(* Type correctness of what buyers owe.                                    *)
THEOREM ReceivablesTypeCorrect == ReceivablesSpec => []ReceivablesTypeOK
<1>1. ReceivablesInit => overlap \in Overlap
  BY DEF ReceivablesInit
<1>2. overlap \in Overlap /\ [ReceivablesNext]_receivablesVars => (overlap \in Overlap)'
  BY DEF ReceivablesNext, receivablesVars
<1>3. ReceivablesInductive /\ overlap \in Overlap => ReceivablesTypeOK
  BY DEF ReceivablesInductive, InvoicesOK, MoneyOK, ReceivableJobsOK, ReceivablesTypeOK
<1> QED
  BY <1>1, <1>2, <1>3, ReceivablesInvariant, PTL DEF ReceivablesSpec

(* However requests overlap, the revenue of an invoice is recognised once  *)
(* (issueInvoice, createFromCommercialInvoice, cancelInvoice).             *)
THEOREM RevenueIsRecognisedOnce == ReceivablesSpec => []RevenueOnce
<1>1. ReceivablesInductive => RevenueOnce
  BY DEF ReceivablesInductive, InvoicesOK, RevenueOnce
<1> QED
  BY <1>1, ReceivablesInvariant, PTL

-----------------------------------------------------------------------------
(* Requests served one at a time: what is paid is backed, the stored       *)
(* status says whether it is all, and every copy is what it was copied from*)

AllocatedIn(a, als) ==
    SumTo([n \in DOMAIN als |-> IF als[n].receivable = a THEN als[n].amount ELSE 0], Len(als))

(* What a receipt adds to what receivable a received. *)
Counted(a, row) ==
    IF row.receivable = a /\ row.status = "APPROVED" THEN row.amount ELSE 0

ReceivedIn(a, rcp) == SumTo([r \in DOMAIN rcp |-> Counted(a, rcp[r])], Len(rcp))

BalanceOK(row, allocated, received) ==
    /\ allocated <= row.paid /\ row.paid <= allocated + received
    /\ row.given \/ row.status = StatusOf(row.paid, row.amount)

BalancesOK(rec, als, rcp) ==
    \A a \in DOMAIN rec : BalanceOK(rec[a], AllocatedIn(a, als), ReceivedIn(a, rcp))

CopyCurrent(job, rec, als, rcp) ==
    /\ job.op \in {"edit", "receive", "receiveApproved", "post"} =>
          job.read = rec[job.receivable]
    /\ job.op \in {"approve", "reject", "cancel"} =>
          job.read = rcp[job.receipt] /\ Decidable(job.op, job.read.status)
    /\ job.op \in {"post"} =>
          job.read.paid + job.amount
              <= AllocatedIn(job.receivable, als) + ReceivedIn(job.receivable, rcp)

ReceivablesCurrent ==
    /\ \A v, w \in Workers : jobs[v] # Idle /\ jobs[w] # Idle => v = w
    /\ \A w \in Workers : CopyCurrent(jobs[w], receivables, allocations, receipts)
    /\ BalancesOK(receivables, allocations, receipts)

ReceivablesSerial == ~ overlap => ReceivablesCurrent

-----------------------------------------------------------------------------
(* Tallies                                                                 *)

LEMMA AmountsNat ==
    ASSUME NEW als \in Seq(Allocation)
    PROVE  \A n \in DOMAIN als : als[n].amount \in Nat
<1>1. \A n \in DOMAIN als : als[n] \in Allocation
  OBVIOUS
<1>2. \A row \in Allocation : row.amount \in Nat
  BY DEF Allocation
<1> QED
  BY <1>1, <1>2

LEMMA AllocatedNat ==
    ASSUME NEW a, NEW als \in Seq(Allocation)
    PROVE  AllocatedIn(a, als) \in Nat
<1> DEFINE f == [n \in DOMAIN als |-> IF als[n].receivable = a THEN als[n].amount ELSE 0]
<1>1. \A n \in DOMAIN als : als[n].amount \in Nat
  BY AmountsNat
<1>2. f \in [1 .. Len(als) -> Nat] /\ Len(als) \in Nat
  BY <1>1
<1> HIDE DEF f
<1>3. SumTo(f, Len(als)) \in Nat
  BY <1>2, SumToNat
<1> QED
  BY <1>3 DEF f, AllocatedIn

LEMMA AllocatedAppend ==
    ASSUME NEW a, NEW als \in Seq(Allocation), NEW row \in Allocation,
           NEW als2, als2 = Append(als, row)
    PROVE  AllocatedIn(a, als2)
             = AllocatedIn(a, als) + (IF row.receivable = a THEN row.amount ELSE 0)
<1> DEFINE f == [n \in DOMAIN als |-> IF als[n].receivable = a THEN als[n].amount ELSE 0]
           g == [n \in DOMAIN als2 |-> IF als2[n].receivable = a THEN als2[n].amount ELSE 0]
           n == Len(als)
<1>1. /\ n \in Nat /\ Len(als2) = n + 1 /\ DOMAIN als2 = 1 .. n + 1 /\ DOMAIN als = 1 .. n
      /\ als2[n + 1] = row /\ \A k \in 1 .. n : als2[k] = als[k]
      /\ als2 \in Seq(Allocation)
  OBVIOUS
<1>2. /\ \A k \in DOMAIN als : als[k].amount \in Nat
      /\ \A k \in DOMAIN als2 : als2[k].amount \in Nat
  BY <1>1, AmountsNat
<1>3. f \in [1 .. n -> Int] /\ g \in [1 .. n + 1 -> Int]
  BY <1>1, <1>2
<1>4. /\ \A k \in 1 .. n : g[k] = f[k]
      /\ g[n + 1] = IF row.receivable = a THEN row.amount ELSE 0
  BY <1>1
<1> HIDE DEF f, g, n
<1>5. SumTo(g, n + 1) = SumTo(f, n) + g[n + 1]
  BY <1>1, <1>3, <1>4, SumExtend
<1> QED
  BY <1>1, <1>4, <1>5 DEF f, g, n, AllocatedIn

LEMMA AllocatedConcat ==
    ASSUME NEW a, NEW als \in Seq(Allocation), NEW new \in Seq(Allocation),
           NEW als2, als2 = als \o new
    PROVE  AllocatedIn(a, als2) = AllocatedIn(a, als) + AllocatedIn(a, new)
<1> DEFINE f == [n \in DOMAIN als |-> IF als[n].receivable = a THEN als[n].amount ELSE 0]
           g == [n \in DOMAIN new |-> IF new[n].receivable = a THEN new[n].amount ELSE 0]
           h == [n \in DOMAIN als2 |-> IF als2[n].receivable = a THEN als2[n].amount ELSE 0]
           m == Len(als)
           n == Len(new)
<1>1. /\ als2 \in Seq(Allocation) /\ Len(als2) = m + n
      /\ \A i \in 1 .. m : als2[i] = als[i]
      /\ \A i \in 1 .. n : als2[m + i] = new[i]
  BY Concatenated
<1>2. /\ m \in Nat /\ n \in Nat
      /\ DOMAIN als = 1 .. m /\ DOMAIN new = 1 .. n /\ DOMAIN als2 = 1 .. m + n
  BY <1>1
<1>3. /\ \A k \in DOMAIN als : als[k].amount \in Nat
      /\ \A k \in DOMAIN new : new[k].amount \in Nat
      /\ \A k \in DOMAIN als2 : als2[k].amount \in Nat
  BY <1>1, AmountsNat
<1>4. f \in [1 .. m -> Int] /\ g \in [1 .. n -> Int] /\ h \in [1 .. m + n -> Int]
  BY <1>2, <1>3
<1>5. /\ \A k \in 1 .. m : h[k] = f[k]
      /\ \A k \in 1 .. n : h[m + k] = g[k]
  <2>1. /\ \A k \in 1 .. m : k \in 1 .. m + n
        /\ \A k \in 1 .. n : m + k \in 1 .. m + n
    BY <1>2
  <2> QED
    BY <1>1, <1>2, <2>1
<1> HIDE DEF f, g, h, m, n
<1>6. SumTo(h, m + n) = SumTo(f, m) + SumTo(g, n)
  BY <1>2, <1>4, <1>5, SumConcat
<1> QED
  BY <1>1, <1>6 DEF f, g, h, m, n, AllocatedIn

(* Of allocations to different receivables, one at most is to receivable a.*)
LEMMA AllocatedOnce ==
    ASSUME NEW a, NEW new \in Seq(Allocation),
           \A i, j \in DOMAIN new : new[i].receivable = new[j].receivable => i = j
    PROVE  /\ (\A k \in DOMAIN new : new[k].receivable # a) => AllocatedIn(a, new) = 0
           /\ \A k \in DOMAIN new : new[k].receivable = a => AllocatedIn(a, new) = new[k].amount
<1> DEFINE f == [n \in DOMAIN new |-> IF new[n].receivable = a THEN new[n].amount ELSE 0]
           z == [n \in DOMAIN new |-> 0]
           n == Len(new)
<1>1. n \in Nat /\ DOMAIN new = 1 .. n /\ \A k \in DOMAIN new : new[k].amount \in Nat
  BY AmountsNat
<1>2. f \in [1 .. n -> Int] /\ z \in [1 .. n -> Int] /\ \A k \in 1 .. n : z[k] = 0
  BY <1>1
<1>3. AllocatedIn(a, new) = SumTo(f, n)
  BY DEF AllocatedIn
<1>4. SumTo(z, n) = 0
  <2> HIDE DEF z
  <2> QED
    BY <1>1, <1>2, SumToZero
<1>5. ASSUME \A k \in DOMAIN new : new[k].receivable # a PROVE SumTo(f, n) = 0
  <2>1. \A k \in 1 .. n : f[k] = 0
    BY <1>1, <1>5
  <2> HIDE DEF f, n
  <2> QED
    BY <1>1, <1>2, <2>1, SumToZero
<1>6. ASSUME NEW k \in DOMAIN new, new[k].receivable = a PROVE SumTo(f, n) = new[k].amount
  <2>1. /\ k \in 1 .. n /\ f[k] = new[k].amount /\ z[k] = 0
        /\ \A j \in 1 .. n : j # k => f[j] = z[j]
    BY <1>1, <1>6
  <2>2. new[k].amount \in Nat
    BY <1>1
  <2> HIDE DEF f, z, n
  <2>3. SumTo(f, n) = SumTo(z, n) + (f[k] - z[k])
    BY <1>1, <1>2, <2>1, SumToChange, SMTT(30)
  <2> QED
    BY <1>4, <2>1, <2>2, <2>3
<1> QED
  BY <1>3, <1>5, <1>6

LEMMA CountedNat ==
    ASSUME NEW a, NEW rcp \in Seq(Receipt)
    PROVE  \A r \in DOMAIN rcp : Counted(a, rcp[r]) \in Nat
<1>1. \A r \in DOMAIN rcp : rcp[r] \in Receipt
  OBVIOUS
<1>2. \A row \in Receipt : Counted(a, row) \in Nat
  BY PaymentsAssumption DEF Receipt, Counted
<1> QED
  BY <1>1, <1>2

LEMMA ReceivedNat ==
    ASSUME NEW a, NEW rcp \in Seq(Receipt)
    PROVE  ReceivedIn(a, rcp) \in Nat
<1> DEFINE f == [r \in DOMAIN rcp |-> Counted(a, rcp[r])]
<1>1. f \in [1 .. Len(rcp) -> Nat] /\ Len(rcp) \in Nat
  BY CountedNat
<1> HIDE DEF f
<1>2. SumTo(f, Len(rcp)) \in Nat
  BY <1>1, SumToNat
<1> QED
  BY <1>2 DEF f, ReceivedIn

LEMMA ReceivedAppend ==
    ASSUME NEW a, NEW rcp \in Seq(Receipt), NEW row \in Receipt,
           NEW rcp2, rcp2 = Append(rcp, row)
    PROVE  ReceivedIn(a, rcp2) = ReceivedIn(a, rcp) + Counted(a, row)
<1> DEFINE f == [r \in DOMAIN rcp |-> Counted(a, rcp[r])]
           g == [r \in DOMAIN rcp2 |-> Counted(a, rcp2[r])]
           n == Len(rcp)
<1>1. /\ n \in Nat /\ Len(rcp2) = n + 1 /\ DOMAIN rcp2 = 1 .. n + 1 /\ DOMAIN rcp = 1 .. n
      /\ rcp2[n + 1] = row /\ \A k \in 1 .. n : rcp2[k] = rcp[k]
      /\ rcp2 \in Seq(Receipt)
  OBVIOUS
<1>2. f \in [1 .. n -> Int] /\ g \in [1 .. n + 1 -> Int]
  <2>1. /\ \A k \in DOMAIN rcp : Counted(a, rcp[k]) \in Nat
        /\ \A k \in DOMAIN rcp2 : Counted(a, rcp2[k]) \in Nat
    BY <1>1, CountedNat
  <2> QED
    BY <1>1, <2>1
<1>3. (\A k \in 1 .. n : g[k] = f[k]) /\ g[n + 1] = Counted(a, row)
  BY <1>1
<1> HIDE DEF f, g, n
<1>4. SumTo(g, n + 1) = SumTo(f, n) + g[n + 1]
  BY <1>1, <1>2, <1>3, SumExtend
<1> QED
  BY <1>1, <1>3, <1>4 DEF f, g, n, ReceivedIn

LEMMA ReceivedChange ==
    ASSUME NEW a, NEW rcp \in Seq(Receipt), NEW r \in DOMAIN rcp, NEW row \in Receipt,
           NEW rcp2, rcp2 = [rcp EXCEPT ![r] = row]
    PROVE  ReceivedIn(a, rcp2)
             = ReceivedIn(a, rcp) + (Counted(a, row) - Counted(a, rcp[r]))
<1> DEFINE f == [q \in DOMAIN rcp |-> Counted(a, rcp[q])]
           g == [q \in DOMAIN rcp2 |-> Counted(a, rcp2[q])]
           n == Len(rcp)
<1>1. /\ rcp2 \in Seq(Receipt) /\ DOMAIN rcp2 = DOMAIN rcp
      /\ rcp2[r] = row /\ \A q \in DOMAIN rcp \ {r} : rcp2[q] = rcp[q]
  BY RowReplaced
<1>2. n \in Nat /\ DOMAIN rcp = 1 .. n /\ Len(rcp2) = n
  BY <1>1
<1>3. f \in [1 .. n -> Int] /\ g \in [1 .. n -> Int]
  <2>1. /\ \A k \in DOMAIN rcp : Counted(a, rcp[k]) \in Nat
        /\ \A k \in DOMAIN rcp2 : Counted(a, rcp2[k]) \in Nat
    BY <1>1, CountedNat
  <2> QED
    BY <1>1, <1>2, <2>1
<1>4. /\ r \in 1 .. n /\ \A k \in 1 .. n : k # r => g[k] = f[k]
      /\ g[r] = Counted(a, row) /\ f[r] = Counted(a, rcp[r])
  BY <1>1, <1>2
<1> HIDE DEF f, g, n
<1>5. SumTo(g, n) = SumTo(f, n) + (g[r] - f[r])
  BY <1>2, <1>3, <1>4, SumToChange
<1> QED
  BY <1>2, <1>4, <1>5 DEF f, g, n, ReceivedIn

(* Nothing was allocated to a receivable, nor received for it, before it   *)
(* was made.                                                               *)
LEMMA NewReceivableTallies ==
    ASSUME NEW rec, NEW als, NEW rcp, MoneyOK(rec, als, rcp), NEW a, a \notin DOMAIN rec
    PROVE  AllocatedIn(a, als) = 0 /\ ReceivedIn(a, rcp) = 0
<1>1. AllocatedIn(a, als) = 0
  <2> DEFINE f == [n \in DOMAIN als |-> IF als[n].receivable = a THEN als[n].amount ELSE 0]
  <2>1. /\ Len(als) \in Nat /\ f \in [1 .. Len(als) -> Int]
        /\ \A k \in 1 .. Len(als) : f[k] = 0
    <3>1. Len(als) \in Nat /\ DOMAIN als = 1 .. Len(als)
          /\ \A n \in DOMAIN als : als[n].receivable # a
      BY DEF MoneyOK
    <3> QED
      BY <3>1
  <2> HIDE DEF f
  <2>2. SumTo(f, Len(als)) = 0
    BY <2>1, SumToZero
  <2> QED
    BY <2>2 DEF f, AllocatedIn
<1>2. ReceivedIn(a, rcp) = 0
  <2> DEFINE f == [r \in DOMAIN rcp |-> Counted(a, rcp[r])]
  <2>1. /\ Len(rcp) \in Nat /\ f \in [1 .. Len(rcp) -> Int]
        /\ \A k \in 1 .. Len(rcp) : f[k] = 0
    <3>1. Len(rcp) \in Nat /\ DOMAIN rcp = 1 .. Len(rcp)
          /\ \A r \in DOMAIN rcp : Counted(a, rcp[r]) = 0
      BY DEF MoneyOK, Counted
    <3> QED
      BY <3>1
  <2> HIDE DEF f
  <2>2. SumTo(f, Len(rcp)) = 0
    BY <2>1, SumToZero
  <2> QED
    BY <2>2 DEF f, ReceivedIn
<1> QED
  BY <1>1, <1>2

-----------------------------------------------------------------------------
(* Steps of requests that are served one at a time                         *)

(* The others have nothing to do, so what they copied cannot be stale.     *)
LEMMA ReceivablesStepCurrent ==
    ASSUME ReceivablesInductive, ReceivablesCurrent, ~ overlap, NEW w \in Workers,
           jobs[w] # Idle \/ Alone(w), NEW job, jobs' = [jobs EXCEPT ![w] = job],
           CopyCurrent(job, receivables', allocations', receipts'),
           BalancesOK(receivables', allocations', receipts')
    PROVE  ReceivablesCurrent'
<1>1. \A v \in Workers \ {w} : jobs[v] = Idle
  BY DEF Alone, ReceivablesCurrent
<1>2. jobs'[w] = job /\ \A v \in Workers \ {w} : jobs'[v] = Idle
  BY <1>1 DEF ReceivablesInductive, ReceivableJobsOK
<1>3. CopyCurrent(Idle, receivables', allocations', receipts')
  BY DEF CopyCurrent, Idle
<1>4. \A v \in Workers : CopyCurrent(jobs'[v], receivables', allocations', receipts')
  BY <1>2, <1>3
<1>5. \A u, v \in Workers : jobs'[u] # Idle /\ jobs'[v] # Idle => u = v
  BY <1>2
<1> QED
  BY <1>4, <1>5 DEF ReceivablesCurrent

LEMMA BusyOnReceivable ==
    ASSUME NEW w \in Workers, jobs[w].op # "idle"
    PROVE  jobs[w] # Idle
BY DEF Idle

(* Only the job changes, or something besides money.                       *)
LEMMA OnlyReceivableJobCurrent ==
    ASSUME ReceivablesInductive, ReceivablesCurrent, ~ overlap, NEW w \in Workers,
           jobs[w] # Idle \/ Alone(w), NEW job, jobs' = [jobs EXCEPT ![w] = job],
           CopyCurrent(job, receivables, allocations, receipts),
           UNCHANGED <<receivables, allocations, receipts>>
    PROVE  ReceivablesCurrent'
<1>1. /\ CopyCurrent(job, receivables', allocations', receipts')
      /\ BalancesOK(receivables', allocations', receipts')
  BY DEF ReceivablesCurrent
<1> QED
  BY <1>1, ReceivablesStepCurrent

LEMMA InvoiceStepsCurrent ==
    ASSUME ReceivablesInductive, ReceivablesCurrent, ~ overlap, NEW w \in Workers,
           \/ \E s \in Shipments : LookForActiveInvoice(w, s)
           \/ \E i \in DOMAIN invoices : FindNoReceivable(w, i) \/ ReadForCancelInvoice(w, i)
           \/ CreateFromShipment(w) \/ CancelInvoice(w) \/ AbandonReceivables(w)
    PROVE  ReceivablesCurrent'
<1>1. UNCHANGED <<receivables, allocations, receipts>>
  BY DEF LookForActiveInvoice, FindNoReceivable, ReadForCancelInvoice, CreateFromShipment,
         CancelInvoice, AbandonReceivables, payments
<1>2. PICK job : /\ job.op \in {"idle", "invoice", "issue", "cancelInvoice"}
                 /\ jobs' = [jobs EXCEPT ![w] = job]
  <2>1. ASSUME NEW s \in Shipments, LookForActiveInvoice(w, s)
        PROVE  jobs' = [jobs EXCEPT ![w] = [op |-> "invoice", shipment |-> s]]
    BY <2>1 DEF LookForActiveInvoice, Begin
  <2>2. ASSUME NEW i \in DOMAIN invoices, FindNoReceivable(w, i)
        PROVE  jobs' = [jobs EXCEPT ![w] = [op |-> "issue", invoice |-> i]]
    BY <2>2 DEF FindNoReceivable, Begin
  <2>3. ASSUME NEW i \in DOMAIN invoices, ReadForCancelInvoice(w, i)
        PROVE  jobs' = [jobs EXCEPT ![w] =
                           [op |-> "cancelInvoice", invoice |-> i, read |-> invoices[i]]]
    BY <2>3 DEF ReadForCancelInvoice, Begin
  <2>4. CreateFromShipment(w) \/ CancelInvoice(w) \/ AbandonReceivables(w)
            => jobs' = [jobs EXCEPT ![w] = Idle]
    BY DEF CreateFromShipment, CancelInvoice, AbandonReceivables, Finish
  <2>5. Idle.op = "idle"
    BY DEF Idle
  <2> QED
    BY <2>1, <2>2, <2>3, <2>4, <2>5
<1>3. jobs[w] # Idle \/ Alone(w)
  BY DEF LookForActiveInvoice, FindNoReceivable, ReadForCancelInvoice, Begin, Idle,
         CreateFromShipment, CancelInvoice, AbandonReceivables
<1>4. CopyCurrent(job, receivables, allocations, receipts)
  BY <1>2 DEF CopyCurrent
<1> QED
  BY <1>1, <1>2, <1>3, <1>4, OnlyReceivableJobCurrent

LEMMA MoneyReadersCurrent ==
    ASSUME ReceivablesInductive, ReceivablesCurrent, ~ overlap, NEW w \in Workers,
           \/ \E a \in DOMAIN receivables, amount \in Payments :
                 ReadForReceipt(w, a, amount) \/ ReadForEdit(w, a, amount)
           \/ \E r \in DOMAIN receipts, op \in {"approve", "reject", "cancel"} :
                 ReadReceipt(w, op, r)
    PROVE  ReceivablesCurrent'
<1>1. ASSUME NEW a \in DOMAIN receivables, NEW amount \in Payments,
             ReadForReceipt(w, a, amount)
      PROVE  ReceivablesCurrent'
  <2>1. PICK op \in {"receive", "receiveApproved"} : jobs' = [jobs EXCEPT ![w] =
            [op |-> op, receivable |-> a, read |-> receivables[a], amount |-> amount]]
    BY <1>1 DEF ReadForReceipt, Begin
  <2>2. PICK job : job = [op |-> op, receivable |-> a, read |-> receivables[a],
                          amount |-> amount]
    OBVIOUS
  <2>3. CopyCurrent(job, receivables, allocations, receipts)
    BY <2>2 DEF CopyCurrent
  <2>4. /\ Alone(w) /\ UNCHANGED <<receivables, allocations, receipts>>
        /\ jobs' = [jobs EXCEPT ![w] = job]
    BY <1>1, <2>1, <2>2 DEF ReadForReceipt, Begin, payments
  <2> QED
    BY <2>3, <2>4, OnlyReceivableJobCurrent
<1>2. ASSUME NEW a \in DOMAIN receivables, NEW amount \in Payments, ReadForEdit(w, a, amount)
      PROVE  ReceivablesCurrent'
  <2>1. PICK job : job = [op |-> "edit", receivable |-> a, read |-> receivables[a],
                          amount |-> amount]
    OBVIOUS
  <2>2. CopyCurrent(job, receivables, allocations, receipts)
    BY <2>1 DEF CopyCurrent
  <2>3. /\ Alone(w) /\ UNCHANGED <<receivables, allocations, receipts>>
        /\ jobs' = [jobs EXCEPT ![w] = job]
    BY <1>2, <2>1 DEF ReadForEdit, Begin, payments
  <2> QED
    BY <2>2, <2>3, OnlyReceivableJobCurrent
<1>3. ASSUME NEW r \in DOMAIN receipts, NEW op \in {"approve", "reject", "cancel"},
             ReadReceipt(w, op, r)
      PROVE  ReceivablesCurrent'
  <2>1. PICK job : job = [op |-> op, receipt |-> r, read |-> receipts[r]]
    OBVIOUS
  <2>2. Decidable(op, receipts[r].status)
    BY <1>3 DEF ReadReceipt
  <2>3. CopyCurrent(job, receivables, allocations, receipts)
    BY <2>1, <2>2 DEF CopyCurrent
  <2>4. /\ Alone(w) /\ UNCHANGED <<receivables, allocations, receipts>>
        /\ jobs' = [jobs EXCEPT ![w] = job]
    BY <1>3, <2>1 DEF ReadReceipt, Begin, payments
  <2> QED
    BY <2>3, <2>4, OnlyReceivableJobCurrent
<1> QED
  BY <1>1, <1>2, <1>3

(* One receivable is written and the worker is done.                       *)
LEMMA ReceivableWrittenCurrent ==
    ASSUME ReceivablesInductive, ReceivablesCurrent, ~ overlap, NEW w \in Workers,
           jobs[w] # Idle \/ Alone(w), jobs' = [jobs EXCEPT ![w] = Idle],
           NEW a \in DOMAIN receivables, NEW row \in Receivable,
           receivables' = [receivables EXCEPT ![a] = row],
           BalanceOK(row, AllocatedIn(a, allocations), ReceivedIn(a, receipts)),
           UNCHANGED <<allocations, receipts>>
    PROVE  ReceivablesCurrent'
<1>1. /\ DOMAIN receivables' = DOMAIN receivables
      /\ receivables'[a] = row /\ \A b \in DOMAIN receivables \ {a} : receivables'[b] = receivables[b]
  <2>1. receivables \in Seq(Receivable)
    BY DEF ReceivablesInductive, MoneyOK
  <2> QED
    BY <2>1, RowReplaced
<1>2. BalancesOK(receivables', allocations', receipts')
  BY <1>1 DEF ReceivablesCurrent, BalancesOK
<1>3. CopyCurrent(Idle, receivables', allocations', receipts')
  BY DEF CopyCurrent, Idle
<1> QED
  BY <1>2, <1>3, ReceivablesStepCurrent

(* A receivable is made: nothing is paid, and something is owed, whatever  *)
(* its creator says.                                                       *)
LEMMA ReceivableAddedCurrent ==
    ASSUME ReceivablesInductive, ReceivablesCurrent, ~ overlap, NEW w \in Workers,
           jobs[w] # Idle \/ Alone(w), jobs' = [jobs EXCEPT ![w] = Idle],
           NEW row \in Receivable, row.paid = 0, row.amount > 0,
           row.given \/ row.status = "OPEN",
           receivables' = Append(receivables, row),
           UNCHANGED <<allocations, receipts>>
    PROVE  ReceivablesCurrent'
<1>1. PICK a : a = Len(receivables) + 1
  OBVIOUS
<1>2. /\ a \notin DOMAIN receivables /\ DOMAIN receivables' = DOMAIN receivables \cup {a}
      /\ receivables'[a] = row /\ \A b \in DOMAIN receivables : receivables'[b] = receivables[b]
      /\ MoneyOK(receivables, allocations, receipts)
  <2>1. MoneyOK(receivables, allocations, receipts) /\ receivables \in Seq(Receivable)
    BY DEF ReceivablesInductive, MoneyOK
  <2> QED
    BY <1>1, <2>1
<1>3. BalanceOK(row, AllocatedIn(a, allocations), ReceivedIn(a, receipts))
  BY <1>2, NewReceivableTallies DEF BalanceOK, Receivable, StatusOf
<1>4. BalancesOK(receivables', allocations', receipts')
  BY <1>2, <1>3 DEF ReceivablesCurrent, BalancesOK
<1>5. CopyCurrent(Idle, receivables', allocations', receipts')
  BY DEF CopyCurrent, Idle
<1> QED
  BY <1>4, <1>5, ReceivablesStepCurrent

LEMMA TalliesNat ==
    ASSUME ReceivablesInductive, NEW a \in DOMAIN receivables
    PROVE  /\ receivables[a] \in Receivable
           /\ receivables[a].paid \in Nat /\ receivables[a].amount \in Nat
           /\ AllocatedIn(a, allocations) \in Nat /\ ReceivedIn(a, receipts) \in Nat
<1>1. /\ receivables[a] \in Receivable /\ allocations \in Seq(Allocation)
      /\ receipts \in Seq(Receipt)
  BY DEF ReceivablesInductive, MoneyOK
<1>2. AllocatedIn(a, allocations) \in Nat /\ ReceivedIn(a, receipts) \in Nat
  BY <1>1, AllocatedNat, ReceivedNat
<1>3. \A row \in Receivable : row.paid \in Nat /\ row.amount \in Nat
  BY DEF Receivable
<1> QED
  BY <1>1, <1>2, <1>3

LEMMA IssuingCurrent ==
    ASSUME ReceivablesInductive, ReceivablesCurrent, ~ overlap, NEW w \in Workers,
           \/ \E i \in DOMAIN invoices, a \in DOMAIN receivables : IssueOnReceivable(w, i, a)
           \/ IssueOnNewReceivable(w)
    PROVE  ReceivablesCurrent'
<1>1. ASSUME NEW i \in DOMAIN invoices, NEW a \in DOMAIN receivables, IssueOnReceivable(w, i, a)
      PROVE  ReceivablesCurrent'
  <2>1. PICK row : row = TakenOver(receivables[a], i)
    OBVIOUS
  <2>2. /\ receivables[a] \in Receivable /\ i \in Nat
        /\ receivables[a].paid \in Nat /\ receivables[a].amount \in Nat
        /\ AllocatedIn(a, allocations) \in Nat /\ ReceivedIn(a, receipts) \in Nat
    BY TalliesNat DEF ReceivablesInductive, InvoicesOK
  <2>3. /\ row \in Receivable /\ row.paid = receivables[a].paid
        /\ \/ row = receivables[a]
           \/ row.status = StatusOf(receivables[a].paid, row.amount) /\ ~ row.given
    BY <2>1, <2>2, TakenOverRow
  <2>4. BalanceOK(receivables[a], AllocatedIn(a, allocations), ReceivedIn(a, receipts))
    BY DEF ReceivablesCurrent, BalancesOK
  <2>5. BalanceOK(row, AllocatedIn(a, allocations), ReceivedIn(a, receipts))
    BY <2>3, <2>4 DEF BalanceOK, StatusOf
  <2>6. /\ receivables' = [receivables EXCEPT ![a] = row] /\ Alone(w)
        /\ UNCHANGED <<allocations, receipts>>
    BY <1>1, <2>1 DEF IssueOnReceivable, AtOnce, payments
  <2>7. jobs' = [jobs EXCEPT ![w] = Idle]
    BY <1>1, AtOnceIdle DEF IssueOnReceivable
  <2> QED
    BY <2>3, <2>5, <2>6, <2>7, ReceivableWrittenCurrent
<1>2. CASE IssueOnNewReceivable(w)
  <2>1. PICK row : row = NewReceivable(jobs[w].invoice, Total, "OPEN")
    OBVIOUS
  <2>2. jobs[w].invoice \in Nat /\ jobs[w].op = "issue"
    BY <1>2, ReceivableJobOf, ReceivableJobFields DEF IssueOnNewReceivable
  <2>3. /\ row \in Receivable /\ row.paid = 0 /\ row.amount > 0
        /\ row.given \/ row.status = "OPEN"
    BY <2>1, <2>2, TotalAssumption, NewReceivableRow
  <2>4. /\ receivables' = Append(receivables, row) /\ jobs' = [jobs EXCEPT ![w] = Idle]
        /\ UNCHANGED <<allocations, receipts>>
    BY <1>2, <2>1 DEF IssueOnNewReceivable, Finish, payments
  <2>5. jobs[w] # Idle
    BY <2>2, BusyOnReceivable
  <2> QED
    BY <2>3, <2>4, <2>5, ReceivableAddedCurrent
<1> QED
  BY <1>1, <1>2

LEMMA CreateReceivableCurrent ==
    ASSUME ReceivablesInductive, ReceivablesCurrent, ~ overlap, NEW w \in Workers,
           NEW amount \in Payments, NEW status \in {"OPEN", "PAID", "CANCELLED"},
           CreateReceivable(w, amount, status)
    PROVE  ReceivablesCurrent'
<1>1. PICK row : row = NewReceivable(0, amount, status)
  OBVIOUS
<1>2. /\ row \in Receivable /\ row.paid = 0 /\ row.amount > 0
      /\ row.given \/ row.status = "OPEN"
  BY <1>1, PaymentsAssumption, NewReceivableRow
<1>3. /\ receivables' = Append(receivables, row) /\ Alone(w)
      /\ UNCHANGED <<allocations, receipts>>
  BY <1>1 DEF CreateReceivable, AtOnce, payments
<1>4. jobs' = [jobs EXCEPT ![w] = Idle]
  BY AtOnceIdle DEF CreateReceivable
<1> QED
  BY <1>2, <1>3, <1>4, ReceivableAddedCurrent

(* An edit writes the status that the copy, which is current, calls for.   *)
LEMMA EditCurrent ==
    ASSUME ReceivablesInductive, ReceivablesCurrent, ~ overlap, NEW w \in Workers, Edit(w)
    PROVE  ReceivablesCurrent'
<1>0. PICK a, amount : a = jobs[w].receivable /\ amount = jobs[w].amount
  OBVIOUS
<1>1. a \in DOMAIN receivables /\ amount \in Nat /\ jobs[w].read = receivables[a]
  BY <1>0, ReceivableJobOf, ReceivableJobFields
  DEF Edit, RowsExist, ReceivablesCurrent, CopyCurrent
<1>2. PICK row : row = Edited(receivables[a], receivables[a], amount)
  OBVIOUS
<1>3. /\ receivables[a] \in Receivable
      /\ receivables[a].paid \in Nat /\ receivables[a].amount \in Nat
      /\ AllocatedIn(a, allocations) \in Nat /\ ReceivedIn(a, receipts) \in Nat
  BY <1>1, TalliesNat
<1>4. /\ row \in Receivable /\ row.paid = receivables[a].paid /\ row.amount = amount
      /\ row.status = StatusOf(receivables[a].paid, amount)
  BY <1>1, <1>2, <1>3, EditedRow
<1>5. BalanceOK(receivables[a], AllocatedIn(a, allocations), ReceivedIn(a, receipts))
  BY <1>1 DEF ReceivablesCurrent, BalancesOK
<1>6. BalanceOK(row, AllocatedIn(a, allocations), ReceivedIn(a, receipts))
  BY <1>4, <1>5 DEF BalanceOK, StatusOf
<1>7. /\ receivables' = [receivables EXCEPT ![a] = row] /\ jobs' = [jobs EXCEPT ![w] = Idle]
      /\ UNCHANGED <<allocations, receipts>> /\ jobs[w] # Idle
  BY <1>0, <1>1, <1>2, BusyOnReceivable DEF Edit, Finish, payments
<1> QED
  BY <1>1, <1>4, <1>6, <1>7, ReceivableWrittenCurrent

(* A receipt is posted: it is among what was received already.             *)
LEMMA UpdateArBalanceCurrent ==
    ASSUME ReceivablesInductive, ReceivablesCurrent, ~ overlap, NEW w \in Workers,
           UpdateArBalance(w)
    PROVE  ReceivablesCurrent'
<1>0. PICK a, amount : a = jobs[w].receivable /\ amount = jobs[w].amount
  OBVIOUS
<1>1. /\ a \in DOMAIN receivables /\ amount \in Nat /\ jobs[w].read = receivables[a]
      /\ receivables[a].paid + amount <= AllocatedIn(a, allocations) + ReceivedIn(a, receipts)
  BY <1>0, ReceivableJobOf, ReceivableJobFields
  DEF UpdateArBalance, RowsExist, ReceivablesCurrent, CopyCurrent
<1>2. PICK row : row = Posted(receivables[a], receivables[a], amount)
  OBVIOUS
<1>3. /\ receivables[a] \in Receivable
      /\ receivables[a].paid \in Nat /\ receivables[a].amount \in Nat
      /\ AllocatedIn(a, allocations) \in Nat /\ ReceivedIn(a, receipts) \in Nat
  BY <1>1, TalliesNat
<1>4. /\ row \in Receivable /\ row.paid = receivables[a].paid + amount
      /\ row.amount = receivables[a].amount
      /\ row.status = StatusOf(receivables[a].paid + amount, receivables[a].amount)
  BY <1>1, <1>2, <1>3, PostedRow
<1>5. BalanceOK(receivables[a], AllocatedIn(a, allocations), ReceivedIn(a, receipts))
  BY <1>1 DEF ReceivablesCurrent, BalancesOK
<1>6. BalanceOK(row, AllocatedIn(a, allocations), ReceivedIn(a, receipts))
  BY <1>1, <1>3, <1>4, <1>5 DEF BalanceOK, StatusOf
<1>7. /\ receivables' = [receivables EXCEPT ![a] = row] /\ jobs' = [jobs EXCEPT ![w] = Idle]
      /\ UNCHANGED <<allocations, receipts>> /\ jobs[w] # Idle
  BY <1>0, <1>1, <1>2, BusyOnReceivable DEF UpdateArBalance, Finish, payments
<1> QED
  BY <1>1, <1>4, <1>6, <1>7, ReceivableWrittenCurrent

(* What is allocated is added to the balance in the same transaction.      *)
LEMMA PayBalance ==
    ASSUME NEW row \in Receivable, NEW amount \in Nat, NEW got \in Nat, NEW took \in Nat,
           BalanceOK(row, got, took)
    PROVE  BalanceOK(Pay(row, amount), got + amount, took)
<1>1. row.paid \in Nat /\ row.amount \in Nat
  BY DEF Receivable
<1>2. /\ Pay(row, amount).paid = row.paid + amount /\ Pay(row, amount).amount = row.amount
      /\ Pay(row, amount).status = StatusOf(row.paid + amount, row.amount)
  BY PaidRow
<1> QED
  BY <1>1, <1>2 DEF BalanceOK, StatusOf

LEMMA AllocatePaymentCurrent ==
    ASSUME ReceivablesInductive, ReceivablesCurrent, ~ overlap, NEW w \in Workers,
           NEW a \in DOMAIN receivables, NEW amount \in Payments, AllocatePayment(w, a, amount)
    PROVE  ReceivablesCurrent'
<1>0. PICK row, new : row = Pay(receivables[a], amount)
                        /\ new = [receivable |-> a, amount |-> amount]
  OBVIOUS
<1>1. /\ receivables[a] \in Receivable /\ amount \in Nat /\ a \in Nat
      /\ AllocatedIn(a, allocations) \in Nat /\ ReceivedIn(a, receipts) \in Nat
      /\ allocations \in Seq(Allocation) /\ receivables \in Seq(Receivable)
  BY PaymentsAssumption, TalliesNat DEF ReceivablesInductive, MoneyOK
<1>2. row \in Receivable /\ new \in Allocation /\ new.receivable = a /\ new.amount = amount
  BY <1>0, <1>1, PaidRow DEF Allocation
<1>3. /\ receivables' = [receivables EXCEPT ![a] = row]
      /\ allocations' = Append(allocations, new) /\ receipts' = receipts /\ Alone(w)
  BY <1>0 DEF AllocatePayment, AtOnce
<1>4. jobs' = [jobs EXCEPT ![w] = Idle]
  BY AtOnceIdle DEF AllocatePayment
<1>5. /\ DOMAIN receivables' = DOMAIN receivables /\ receivables'[a] = row
      /\ \A b \in DOMAIN receivables \ {a} : receivables'[b] = receivables[b]
  BY <1>1, <1>2, <1>3, RowReplaced
<1>6. \A b \in DOMAIN receivables :
          AllocatedIn(b, allocations') = AllocatedIn(b, allocations) + (IF a = b THEN amount ELSE 0)
  BY <1>1, <1>2, <1>3, AllocatedAppend, ZenonT(30)
<1>7. BalanceOK(receivables[a], AllocatedIn(a, allocations), ReceivedIn(a, receipts))
  BY DEF ReceivablesCurrent, BalancesOK
<1>8. BalanceOK(row, AllocatedIn(a, allocations'), ReceivedIn(a, receipts))
  <2>1. BalanceOK(row, AllocatedIn(a, allocations) + amount, ReceivedIn(a, receipts))
    BY <1>0, <1>1, <1>7, PayBalance
  <2>2. AllocatedIn(a, allocations') = AllocatedIn(a, allocations) + amount
    BY <1>6
  <2> QED
    BY <2>1, <2>2
<1>9. \A b \in DOMAIN receivables \ {a} :
          AllocatedIn(b, allocations') = AllocatedIn(b, allocations)
  BY <1>6, TalliesNat
<1>10. BalancesOK(receivables', allocations', receipts')
  BY <1>3, <1>5, <1>8, <1>9 DEF ReceivablesCurrent, BalancesOK
<1>11. CopyCurrent(Idle, receivables', allocations', receipts')
  BY DEF CopyCurrent, Idle
<1> QED
  BY <1>3, <1>4, <1>10, <1>11, ReceivablesStepCurrent

LEMMA AllocateFromTradeFinanceCurrent ==
    ASSUME ReceivablesInductive, ReceivablesCurrent, ~ overlap, NEW w \in Workers,
           NEW order \in SetToAllKPermutations(DOMAIN receivables),
           NEW amount \in Payments, AllocateFromTradeFinanceTransaction(w, order, amount)
    PROVE  ReceivablesCurrent'
<1>0. PICK new : new = [k \in DOMAIN order |->
                           [receivable |-> order[k], amount |-> Share(order, amount, k)]]
  OBVIOUS
<1>1. /\ new \in Seq(Allocation) /\ allocations' = allocations \o new
      /\ \A k \in DOMAIN new : new[k].receivable \in DOMAIN receivables
      /\ \A i, j \in DOMAIN new : new[i].receivable = new[j].receivable => i = j
      /\ DOMAIN receivables' = DOMAIN receivables
      /\ \A a \in DOMAIN receivables :
            (\A k \in DOMAIN new : new[k].receivable # a) => receivables'[a] = receivables[a]
      /\ \A k \in DOMAIN new :
            receivables'[new[k].receivable] = Pay(receivables[new[k].receivable], new[k].amount)
  <2>0. allocations' = allocations \o new
    BY <1>0 DEF AllocateFromTradeFinanceTransaction
  <2>1. /\ new \in Seq(Allocation)
        /\ \A k \in DOMAIN new : new[k].receivable \in DOMAIN receivables
    BY <1>0, TransactionAllocated
  <2>4. \A i, j \in DOMAIN new : new[i].receivable = new[j].receivable => i = j
    BY <1>0, TransactionAllocated
  <2>2. /\ DOMAIN receivables' = DOMAIN receivables
        /\ \A a \in DOMAIN receivables :
              (\A k \in DOMAIN new : new[k].receivable # a) => receivables'[a] = receivables[a]
    BY <1>0, TransactionAllocated
  <2>3. \A k \in DOMAIN new :
            receivables'[new[k].receivable] = Pay(receivables[new[k].receivable], new[k].amount)
    BY <1>0, TransactionAllocated
  <2> QED
    BY <2>0, <2>1, <2>2, <2>3, <2>4, Zenon
<1>2. receipts' = receipts /\ Alone(w)
  BY DEF AllocateFromTradeFinanceTransaction, AtOnce
<1>3. jobs' = [jobs EXCEPT ![w] = Idle]
  BY AtOnceIdle DEF AllocateFromTradeFinanceTransaction
<1>4. ASSUME NEW a \in DOMAIN receivables
      PROVE  BalanceOK(receivables'[a], AllocatedIn(a, allocations'), ReceivedIn(a, receipts))
  <2>1. BalanceOK(receivables[a], AllocatedIn(a, allocations), ReceivedIn(a, receipts))
    BY DEF ReceivablesCurrent, BalancesOK
  <2>2. /\ receivables[a] \in Receivable
        /\ AllocatedIn(a, allocations) \in Nat /\ ReceivedIn(a, receipts) \in Nat
    BY TalliesNat
  <2>3. AllocatedIn(a, allocations') = AllocatedIn(a, allocations) + AllocatedIn(a, new)
    <3>1. allocations \in Seq(Allocation)
      BY DEF ReceivablesInductive, MoneyOK
    <3> QED
      BY <1>1, <3>1, AllocatedConcat
  <2>4. CASE \A k \in DOMAIN new : new[k].receivable # a
    <3>1. AllocatedIn(a, new) = 0 /\ receivables'[a] = receivables[a]
      BY <1>1, <2>4, AllocatedOnce
    <3>2. AllocatedIn(a, allocations') = AllocatedIn(a, allocations)
      BY <2>2, <2>3, <3>1
    <3> QED
      BY <2>1, <3>1, <3>2
  <2>5. ASSUME NEW k \in DOMAIN new, new[k].receivable = a
        PROVE  BalanceOK(receivables'[a], AllocatedIn(a, allocations'), ReceivedIn(a, receipts))
    <3>1. AllocatedIn(a, new) = new[k].amount
      BY <1>1, <2>5, AllocatedOnce
    <3>2. new[k].amount \in Nat
      BY <1>1, AmountsNat
    <3>3. receivables'[a] = Pay(receivables[a], new[k].amount)
      BY <1>1, <2>5
    <3>4. BalanceOK(Pay(receivables[a], new[k].amount),
                    AllocatedIn(a, allocations) + new[k].amount, ReceivedIn(a, receipts))
      BY <2>1, <2>2, <3>2, PayBalance
    <3> QED
      BY <2>3, <3>1, <3>3, <3>4
  <2> QED
    BY <2>4, <2>5
<1>5. BalancesOK(receivables', allocations', receipts')
  BY <1>1, <1>2, <1>4 DEF BalancesOK
<1>6. CopyCurrent(Idle, receivables', allocations', receipts')
  BY DEF CopyCurrent, Idle
<1> QED
  BY <1>2, <1>3, <1>5, <1>6, ReceivablesStepCurrent

(* More was received than before, and nothing was posted yet.              *)
LEMMA MoreReceived ==
    ASSUME ReceivablesInductive, ReceivablesCurrent,
           UNCHANGED <<receivables, allocations>>,
           \A a \in DOMAIN receivables : /\ ReceivedIn(a, receipts') \in Nat
                                         /\ ReceivedIn(a, receipts) <= ReceivedIn(a, receipts')
    PROVE  BalancesOK(receivables', allocations', receipts')
<1> SUFFICES ASSUME NEW a \in DOMAIN receivables
             PROVE  BalanceOK(receivables[a], AllocatedIn(a, allocations),
                              ReceivedIn(a, receipts'))
  BY DEF BalancesOK
<1>1. BalanceOK(receivables[a], AllocatedIn(a, allocations), ReceivedIn(a, receipts))
  BY DEF ReceivablesCurrent, BalancesOK
<1>2. /\ receivables[a].paid \in Nat /\ AllocatedIn(a, allocations) \in Nat
      /\ ReceivedIn(a, receipts) \in Nat
  BY TalliesNat
<1> QED
  BY <1>1, <1>2 DEF BalanceOK

(* The posting of an approved receipt stays within what was received.      *)
LEMMA PostingIsBacked ==
    ASSUME ReceivablesInductive, ReceivablesCurrent, NEW a \in DOMAIN receivables,
           NEW amount \in Nat,
           UNCHANGED <<receivables, allocations>>,
           ReceivedIn(a, receipts') = ReceivedIn(a, receipts) + amount,
           NEW job, job = [op |-> "post", receivable |-> a, read |-> receivables[a],
                           amount |-> amount]
    PROVE  CopyCurrent(job, receivables', allocations', receipts')
<1>1. BalanceOK(receivables[a], AllocatedIn(a, allocations), ReceivedIn(a, receipts))
  BY DEF ReceivablesCurrent, BalancesOK
<1>2. /\ receivables[a].paid \in Nat /\ AllocatedIn(a, allocations) \in Nat
      /\ ReceivedIn(a, receipts) \in Nat
  BY TalliesNat
<1>3. receivables[a].paid + amount <= AllocatedIn(a, allocations) + ReceivedIn(a, receipts')
  BY <1>1, <1>2 DEF BalanceOK
<1> QED
  BY <1>3 DEF CopyCurrent

LEMMA CreateReceiptCurrent ==
    ASSUME ReceivablesInductive, ReceivablesCurrent, ~ overlap, NEW w \in Workers,
           CreateReceipt(w)
    PROVE  ReceivablesCurrent'
<1>1. PICK a, amount, status :
        /\ a = jobs[w].receivable /\ amount = jobs[w].amount
        /\ status = IF jobs[w].op = "receive" THEN "PENDING" ELSE "APPROVED"
  OBVIOUS
<1>2. /\ a \in DOMAIN receivables /\ a \in Nat /\ amount \in Payments
      /\ jobs[w].read = receivables[a] /\ jobs[w] # Idle
  BY <1>1, ReceivableJobOf, ReceivableJobFields, BusyOnReceivable
  DEF CreateReceipt, RowsExist, ReceivablesCurrent, CopyCurrent
<1>3. PICK row, job : /\ row = [receivable |-> a, amount |-> amount, status |-> status]
                      /\ job = IF status = "PENDING" THEN Idle
                               ELSE [op |-> "post", receivable |-> a, read |-> receivables[a],
                                     amount |-> amount]
  OBVIOUS
<1>4. /\ row \in Receipt
      /\ \A b : Counted(b, row) = IF b = a /\ status = "APPROVED" THEN amount ELSE 0
  BY <1>1, <1>2, <1>3 DEF Receipt, Counted
<1>5. /\ receipts' = Append(receipts, row) /\ jobs' = [jobs EXCEPT ![w] = job]
      /\ UNCHANGED <<receivables, allocations>>
  BY <1>1, <1>2, <1>3 DEF CreateReceipt, Finish, payments
<1>6. receipts \in Seq(Receipt) /\ amount \in Nat
  BY <1>2, PaymentsAssumption DEF ReceivablesInductive, MoneyOK
<1>7. \A b \in DOMAIN receivables :
          ReceivedIn(b, receipts') = ReceivedIn(b, receipts) + Counted(b, row)
  BY <1>4, <1>5, <1>6, ReceivedAppend
<1>8. BalancesOK(receivables', allocations', receipts')
  <2>1. \A b \in DOMAIN receivables : /\ Counted(b, row) \in Nat
                                      /\ ReceivedIn(b, receipts) \in Nat
    BY <1>4, <1>6, TalliesNat
  <2>2. \A b \in DOMAIN receivables : /\ ReceivedIn(b, receipts') \in Nat
                                      /\ ReceivedIn(b, receipts) <= ReceivedIn(b, receipts')
    BY <1>7, <2>1
  <2> QED
    BY <1>5, <2>2, MoreReceived
<1>9. CopyCurrent(job, receivables', allocations', receipts')
  <2>1. CASE status = "PENDING"
    BY <1>3, <2>1 DEF CopyCurrent, Idle
  <2>2. CASE status # "PENDING"
    <3>1. job = [op |-> "post", receivable |-> a, read |-> receivables[a], amount |-> amount]
      BY <1>3, <2>2
    <3>2. ReceivedIn(a, receipts') = ReceivedIn(a, receipts) + amount
      BY <1>1, <1>2, <1>4, <1>7, <2>2
    <3> QED
      BY <1>2, <1>5, <1>6, <3>1, <3>2, PostingIsBacked
  <2> QED
    BY <2>1, <2>2
<1> QED
  BY <1>2, <1>5, <1>8, <1>9, ReceivablesStepCurrent

(* A decision on a receipt that is as it was read: an approval counts it.  *)
LEMMA SaveReceiptCurrent ==
    ASSUME ReceivablesInductive, ReceivablesCurrent, ~ overlap, NEW w \in Workers,
           SaveReceipt(w)
    PROVE  ReceivablesCurrent'
<1>1. PICK r, op, read, status :
        r = jobs[w].receipt /\ op = jobs[w].op /\ read = jobs[w].read /\ status = StatusFor(op)
  OBVIOUS
<1>2. /\ op \in {"approve", "reject", "cancel"} /\ jobs[w] # Idle
      /\ r \in DOMAIN receipts /\ read \in Receipt /\ read.receivable \in DOMAIN receivables
      /\ read = receipts[r] /\ Decidable(op, read.status)
  BY <1>1, ReceivableJobOf, ReceivableJobFields, BusyOnReceivable
  DEF SaveReceipt, RowsExist, ReceivablesCurrent, CopyCurrent
<1>3. /\ status \in {"APPROVED", "REJECTED", "CANCELLED"}
      /\ status = "APPROVED" <=> op = "approve"
      /\ read.status # "APPROVED"
  BY <1>1, <1>2 DEF StatusFor, Decidable
<1>4. PICK row \in Saved(receipts[r], read, [read EXCEPT !.status = status]) :
          receipts' = [receipts EXCEPT ![r] = row]
  BY <1>1 DEF SaveReceipt
<1>5. row \in Receipt /\ row = [read EXCEPT !.status = status]
  BY <1>2, <1>3, <1>4, SavedReceipt
<1>6. \A a : /\ Counted(a, read) = 0
             /\ Counted(a, row) =
                   IF a = read.receivable /\ op = "approve" THEN read.amount ELSE 0
  BY <1>2, <1>3, <1>5 DEF Counted, Receipt
<1>7. receipts \in Seq(Receipt) /\ read.amount \in Nat
  <2>1. read.amount \in Payments
    BY <1>2 DEF Receipt
  <2> QED
    BY <2>1, PaymentsAssumption DEF ReceivablesInductive, MoneyOK
<1>8. \A a \in DOMAIN receivables :
          ReceivedIn(a, receipts') = ReceivedIn(a, receipts) + Counted(a, row)
  <2> TAKE a \in DOMAIN receivables
  <2>1. ReceivedIn(a, receipts')
          = ReceivedIn(a, receipts) + (Counted(a, row) - Counted(a, receipts[r]))
    <3>1. /\ receipts \in Seq(Receipt) /\ r \in DOMAIN receipts /\ row \in Receipt
          /\ receipts' = [receipts EXCEPT ![r] = row]
      BY <1>2, <1>4, <1>5, <1>7
    <3> QED
      BY <3>1, ReceivedChange, Zenon
  <2>2. Counted(a, row) \in Nat /\ Counted(a, receipts[r]) = 0
    BY <1>2, <1>6, <1>7
  <2>3. ReceivedIn(a, receipts) \in Nat
    BY TalliesNat
  <2> QED
    BY <2>1, <2>2, <2>3
<1>9. PICK job : job = IF op # "approve" THEN Idle
                       ELSE [op |-> "post", receivable |-> read.receivable,
                             read |-> receivables[read.receivable], amount |-> read.amount]
  OBVIOUS
<1>10. jobs' = [jobs EXCEPT ![w] = job] /\ UNCHANGED <<receivables, allocations>>
  BY <1>1, <1>9 DEF SaveReceipt, Finish, payments
<1>11. BalancesOK(receivables', allocations', receipts')
  <2>1. \A a \in DOMAIN receivables : /\ Counted(a, row) \in Nat
                                      /\ ReceivedIn(a, receipts) \in Nat
    BY <1>6, <1>7, TalliesNat
  <2>2. \A a \in DOMAIN receivables : /\ ReceivedIn(a, receipts') \in Nat
                                      /\ ReceivedIn(a, receipts) <= ReceivedIn(a, receipts')
    BY <1>8, <2>1
  <2> QED
    BY <1>10, <2>2, MoreReceived
<1>12. CopyCurrent(job, receivables', allocations', receipts')
  <2>1. CASE op # "approve"
    BY <1>9, <2>1 DEF CopyCurrent, Idle
  <2>2. CASE op = "approve"
    <3>1. PICK a, amount : a = read.receivable /\ amount = read.amount
      OBVIOUS
    <3>2. job = [op |-> "post", receivable |-> a, read |-> receivables[a], amount |-> amount]
      BY <1>9, <2>2, <3>1
    <3>3. ReceivedIn(a, receipts') = ReceivedIn(a, receipts) + amount /\ a \in DOMAIN receivables
      BY <1>2, <1>6, <1>8, <2>2, <3>1
    <3> QED
      BY <1>7, <1>10, <3>1, <3>2, <3>3, PostingIsBacked
  <2> QED
    BY <2>1, <2>2
<1> QED
  BY <1>2, <1>10, <1>11, <1>12, ReceivablesStepCurrent

-----------------------------------------------------------------------------
LEMMA ReceivablesNextCurrent ==
    ASSUME ReceivablesInductive, ReceivablesSerial, [ReceivablesNext]_receivablesVars
    PROVE  ReceivablesSerial'
<1> SUFFICES ASSUME ~ overlap' PROVE ReceivablesCurrent'
  BY DEF ReceivablesSerial
<1>0. ~ overlap /\ ReceivablesCurrent
  BY DEF ReceivablesNext, receivablesVars, ReceivablesSerial
<1>1. CASE UNCHANGED receivablesVars
  BY <1>0, <1>1 DEF receivablesVars, ReceivablesCurrent
<1>2. CASE ReceivablesNext
  <2>1. PICK w \in Workers : Invoicing(w) \/ Paying(w) \/ AbandonReceivables(w)
    BY <1>2 DEF ReceivablesNext, ReceivablesStep
  <2>2. CASE Invoicing(w)
    BY <1>0, <2>2, InvoiceStepsCurrent, IssuingCurrent DEF Invoicing
  <2>3. CASE Paying(w)
    BY <1>0, <2>3, CreateReceivableCurrent, AllocateFromTradeFinanceCurrent,
       AllocatePaymentCurrent, MoneyReadersCurrent, EditCurrent,
       CreateReceiptCurrent, SaveReceiptCurrent, UpdateArBalanceCurrent
    DEF Paying
  <2>4. CASE AbandonReceivables(w)
    BY <1>0, <2>4, InvoiceStepsCurrent
  <2> QED
    BY <2>1, <2>2, <2>3, <2>4
<1> QED
  BY <1>1, <1>2

LEMMA ReceivablesInitCurrent == ReceivablesInit => ReceivablesSerial
<1> SUFFICES ASSUME ReceivablesInit PROVE ReceivablesCurrent
  BY DEF ReceivablesSerial
<1>1. \A w \in Workers : jobs[w] = Idle
  BY DEF ReceivablesInit
<1>2. CopyCurrent(Idle, receivables, allocations, receipts)
  BY DEF CopyCurrent, Idle
<1>3. BalancesOK(receivables, allocations, receipts)
  <2> SUFFICES ASSUME NEW a \in DOMAIN receivables
               PROVE  BalanceOK(receivables[a], AllocatedIn(a, allocations),
                                ReceivedIn(a, receipts))
    BY DEF BalancesOK
  <2>1. /\ receivables[a].paid = 0 /\ receivables[a].amount = Total
        /\ receivables[a].given \/ receivables[a].status = "OPEN"
    BY TotalAssumption, NewReceivableRow DEF ReceivablesInit
  <2>2. AllocatedIn(a, allocations) = 0 /\ ReceivedIn(a, receipts) = 0
    <3>1. MoneyOK(<<>>, allocations, receipts) /\ a \notin DOMAIN <<>>
      BY DEF ReceivablesInit, MoneyOK
    <3> QED
      BY <3>1, NewReceivableTallies
  <2> QED
    BY <2>1, <2>2, TotalAssumption DEF BalanceOK, StatusOf
<1> QED
  BY <1>1, <1>2, <1>3 DEF ReceivablesCurrent

(* With requests served one at a time, copies are current, balances are    *)
(* backed and statuses follow them.                                        *)
THEOREM ReceivablesSerialInvariant == ReceivablesSpec => []ReceivablesSerial
<1> QED
  BY ReceivablesInitCurrent, ReceivablesNextCurrent, ReceivablesInvariant, PTL
  DEF ReceivablesSpec

(* What a receivable says is paid was allocated to it or received for it   *)
(* (allocatePayment, updateArBalance).                                     *)
THEOREM PaidIsAlwaysBacked == ReceivablesSpec => []PaidIsBacked
<1>1. ReceivablesSerial => PaidIsBacked
  BY DEF ReceivablesSerial, ReceivablesCurrent, BalancesOK, BalanceOK, PaidIsBacked,
         Allocated, AllocatedIn, Received, ReceivedIn, Counted
<1> QED
  BY <1>1, ReceivablesSerialInvariant, PTL

(* The stored status of a receivable says whether it is paid, whichever of *)
(* its writers wrote last (normalizeStatus, update, updateArBalance), from *)
(* the first of them that computes it.                                     *)
THEOREM StatusAlwaysFollowsPaid == ReceivablesSpec => []StatusFollowsPaid
<1>1. ReceivablesSerial => StatusFollowsPaid
  BY DEF ReceivablesSerial, ReceivablesCurrent, BalancesOK, BalanceOK, StatusFollowsPaid
<1> QED
  BY <1>1, ReceivablesSerialInvariant, PTL

(* A contract becomes PAID in a step after which nothing is owed under it, *)
(* but on receivables that still have the status their creator gave them   *)
(* (allocateFromTradeFinanceTransaction).                                  *)
THEOREM PaidContractsOweNothing == ReceivablesSpec => PaidContractOwesNothing
<1>1. ASSUME ReceivablesInductive', ReceivablesSerial', [ReceivablesNext]_receivablesVars,
             ~ overlap, ~ contractPaid, contractPaid'
      PROVE  \A a \in DOMAIN receivables' :
                 \/ receivables'[a].given
                 \/ receivables'[a].paid >= receivables'[a].amount
  <2>1. ~ overlap' /\ ReceivablesNext
    <3>1. ReceivablesNext \/ contractPaid' = contractPaid
      BY <1>1 DEF receivablesVars
    <3>2. contractPaid' # contractPaid
      BY <1>1, Zenon
    <3>3. ReceivablesNext => overlap' = overlap
      BY DEF ReceivablesNext
    <3>4. ReceivablesNext
      BY <3>1, <3>2, Zenon
    <3>5. ~ overlap'
      BY <1>1, <3>3, <3>4
    <3> QED
      BY <3>4, <3>5
  <2>2. PICK w \in Workers : Invoicing(w) \/ Paying(w) \/ AbandonReceivables(w)
    BY <2>1 DEF ReceivablesNext, ReceivablesStep
  <2>3. AllPaid(receivables')
    <3>1. ~ Invoicing(w) /\ ~ AbandonReceivables(w)
      BY <1>1 DEF Invoicing, LookForActiveInvoice, FindNoReceivable, ReadForCancelInvoice,
                  IssueOnReceivable, CreateFromShipment, IssueOnNewReceivable, CancelInvoice,
                  AbandonReceivables, payments
    <3>2. PICK order \in SetToAllKPermutations(DOMAIN receivables), amount \in Payments :
              AllocateFromTradeFinanceTransaction(w, order, amount)
      BY <1>1, <2>2, <3>1
      DEF Paying, CreateReceivable, AllocatePayment, ReadForReceipt, ReadForEdit, ReadReceipt,
          Edit, CreateReceipt, SaveReceipt, UpdateArBalance, payments
    <3> QED
      BY <1>1, <3>2 DEF AllocateFromTradeFinanceTransaction
  <2>4. ASSUME NEW a \in DOMAIN receivables', ~ receivables'[a].given
        PROVE  receivables'[a].paid >= receivables'[a].amount
    <3>1. receivables'[a].status # "OPEN"
      BY <2>3 DEF AllPaid
    <3>2. receivables'[a].status = StatusOf(receivables'[a].paid, receivables'[a].amount)
      BY <1>1, <2>1, <2>4 DEF ReceivablesSerial, ReceivablesCurrent, BalancesOK, BalanceOK
    <3> QED
      BY <3>1, <3>2 DEF StatusOf
  <2> QED
    BY <2>4
<1>2. ReceivablesInductive' /\ ReceivablesSerial' /\ [ReceivablesNext]_receivablesVars =>
        [~ overlap /\ ~ contractPaid /\ contractPaid' =>
            \A a \in DOMAIN receivables' :
                \/ receivables'[a].given
                \/ receivables'[a].paid >= receivables'[a].amount]_receivablesVars
  BY <1>1
<1> QED
  BY <1>2, ReceivablesInvariant, ReceivablesSerialInvariant, PTL
  DEF ReceivablesSpec, PaidContractOwesNothing
=============================================================================
