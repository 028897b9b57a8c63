---------------------------- MODULE ApprovalMatrix ----------------------------
(***************************************************************************)
(* Approval requests (ApprovalMatrixService): a request goes through the   *)
(* steps of its rule, each step is decided by a user who may act on it.    *)
(*                                                                         *)
(* createRequest looks for a pending request of the document, then inserts.*)
(* approveRequest and rejectRequest load the request and its steps without *)
(* a lock, decide on that copy and save it, steps included (the relation   *)
(* cascades).  TypeORM's save first looks at the rows as they are and then *)
(* updates the columns in which the copy differs: two steps here.  The     *)
(* row of the step that is decided stays locked from its own save to the   *)
(* commit.                                                                 *)
(***************************************************************************)
EXTENDS Integers, Sequences, FiniteSets, Serving

CONSTANTS
    Documents,     \* documents that need approval
    Depth,         \* steps of the rule
    MayAct,        \* MayAct[w]: the steps whose role or user name is w's
    MaxRequests    \* bound: approval requests, by whether they may

ASSUME DepthAssumption  == Depth \in Nat \ {0}
ASSUME MayActAssumption == MayAct \in [Workers -> SUBSET (1 .. Depth)]

Steps    == 1 .. Depth
Outcomes == {"APPROVED", "REJECTED", "CANCELLED"}
Statuses == Outcomes \cup {"PENDING"}

VARIABLES
    requests,     \* approval_workflow_requests with their steps, by creation
    acted,        \* <<request, step, outcome>>: step decisions that were committed
    emitted       \* decision events emitted: <<request, outcome>>

vars == <<requests, jobs, acted, emitted, overlap>>

Request == [document : Documents,
            status   : Statuses,
            current  : Steps,                                  \* currentStepOrder
            steps    : [Steps -> {"PENDING", "APPROVED", "REJECTED"}]]

(* `copy` is the loaded request, `step` the step acted on; `columns` and   *)
(* `stepRows` are what the save will update.                               *)
Job == {Idle}
    \cup [op : {"insert"}, document : Documents]
    \cup [op : {"act"}, req : Nat, copy : Request, step : Steps]
    \cup [op : {"save"}, req : Nat, copy : Request, step : Steps, outcome : Outcomes]
    \cup [op : {"commit"}, req : Nat, copy : Request, step : Steps, outcome : Outcomes,
          columns : SUBSET {"status", "current"}, stepRows : SUBSET Steps]

TypeOK ==
    /\ requests \in Seq(Request)
    /\ jobs \in [Workers -> Job]
    /\ acted \subseteq (Nat \X Steps \X Outcomes)
    /\ emitted \subseteq (Nat \X Outcomes)
    /\ overlap \in Overlap

Init ==
    /\ requests = <<>>
    /\ jobs = [w \in Workers |-> Idle]
    /\ acted = {}
    /\ emitted = {}
    /\ overlap \in Overlap

-----------------------------------------------------------------------------

Pending(r) == requests[r].status = "PENDING"

(* createRequestInTransaction *)
Inserting == {w \in Workers : jobs[w].op = "insert"}

LookForPending(w, document) ==
    /\ Len(requests) + Cardinality(Inserting) < MaxRequests[overlap]
    /\ \A r \in DOMAIN requests : requests[r].document = document => ~ Pending(r)
    /\ Begin(w, [op |-> "insert", document |-> document])
    /\ UNCHANGED <<requests, acted, emitted>>

InsertRequest(w) ==
    /\ jobs[w].op = "insert"
    /\ requests' = Append(requests, [document |-> jobs[w].document,
                                     status   |-> "PENDING",
                                     current  |-> 1,
                                     steps    |-> [i \in Steps |-> "PENDING"]])
    /\ Finish(w)
    /\ UNCHANGED <<acted, emitted>>

(* loadRequestForAction and canActOnStep *)
LoadForAction(w, r) ==
    /\ Pending(r)
    /\ requests[r].steps[requests[r].current] = "PENDING"
    /\ requests[r].current \in MayAct[w]
    /\ Begin(w, [op |-> "act", req |-> r, copy |-> requests[r],
                 step |-> requests[r].current])
    /\ UNCHANGED <<requests, acted, emitted>>

(* cancelRequest decides on its copy at once; it has loaded no steps and   *)
(* saves none.                                                             *)
CancelOnCopy(w, r) ==
    /\ Begin(w, [op |-> "save", req |-> r, step |-> 1, outcome |-> "CANCELLED",
                 copy |-> [requests[r] EXCEPT !.status = "CANCELLED"]])
    /\ UNCHANGED <<requests, acted, emitted>>

LoadForCancel(w, r) == Pending(r) /\ CancelOnCopy(w, r)

(* Mutant: the last step is forgotten. *)
LaterButLast(copy, i) == {j \in Steps \ {i, Depth} : copy.steps[j] = "PENDING"}

(* The decision on the copy: the next pending step, or the end.            *)
Later(copy, i) == {j \in Steps \ {i} : copy.steps[j] = "PENDING"}

Earliest(S) == CHOOSE i \in S : \A j \in S : i <= j

(* Mutant: the request stays at its step. *)
ApprovedInPlace(copy, i) ==
    LET signed == [copy EXCEPT !.steps[i] = "APPROVED"]
    IN  IF Later(copy, i) # {} THEN signed ELSE [signed EXCEPT !.status = "APPROVED"]

Approved(copy, i) ==
    LET signed == [copy EXCEPT !.steps[i] = "APPROVED"]
    IN  IF Later(copy, i) # {} THEN [signed EXCEPT !.current = Earliest(Later(copy, i))]
                               ELSE [signed EXCEPT !.status = "APPROVED"]

Rejected(copy, i) == [copy EXCEPT !.steps[i] = "REJECTED", !.status = "REJECTED"]

(* save(currentStep) locks the row of the step, until the commit.          *)
LocksStep(w, r, i) ==
    /\ jobs[w].op \in {"save", "commit"} /\ jobs[w].outcome # "CANCELLED"
    /\ jobs[w].req = r /\ jobs[w].step = i

(* Mutant: loading takes a shared lock, saving waits for all others' locks.*)
StepRowUpgradable(r, i) ==
    /\ \A w \in Workers : ~ LocksStep(w, r, i)
    /\ Cardinality({w \in Workers : /\ jobs[w].op = "act"
                                    /\ jobs[w].req = r /\ jobs[w].step = i}) <= 1

StepRowFree(r, i) == \A w \in Workers : ~ LocksStep(w, r, i)

(* The UPDATEs of save(request) wait for the rows others have locked.      *)
WaitsFor(w, v) ==
    /\ w # v /\ jobs[w].op = "commit"
    /\ \E i \in jobs[w].stepRows : LocksStep(v, jobs[w].req, i)

SaveStep(w, outcome) ==
    /\ jobs[w].op = "act"
    /\ StepRowFree(jobs[w].req, jobs[w].step)
    /\ LET job == jobs[w] IN
       Proceed(w, [op |-> "save", req |-> job.req, step |-> job.step, outcome |-> outcome,
                   copy |-> IF outcome = "APPROVED" THEN Approved(job.copy, job.step)
                                                    ELSE Rejected(job.copy, job.step)])
    /\ UNCHANGED <<requests, acted, emitted>>

(* save(request), first half: compare the copy with the rows as they are   *)
CompareWithRows(w) ==
    /\ jobs[w].op = "save"
    /\ LET job == jobs[w]
           row == requests[job.req]
       IN  Proceed(w, [op       |-> "commit", req |-> job.req, copy |-> job.copy,
                       step     |-> job.step, outcome |-> job.outcome,
                       columns  |-> {f \in {"status", "current"} : job.copy[f] # row[f]},
                       stepRows |-> IF job.outcome = "CANCELLED" THEN {}
                                    ELSE {i \in Steps : job.copy.steps[i] # row.steps[i]}
                                           \cup {job.step}])
    /\ UNCHANGED <<requests, acted, emitted>>

Updated(row, job) ==
    [row EXCEPT !.status  = IF "status" \in job.columns THEN job.copy.status ELSE @,
                !.current = IF "current" \in job.columns THEN job.copy.current ELSE @,
                !.steps   = [i \in Steps |-> IF i \in job.stepRows THEN job.copy.steps[i]
                                                                   ELSE @[i]]]

(* Second half, the commit, and the event: emitted when the request, read  *)
(* again, has the status of the decision.  cancelRequest emits none.       *)
Commit(w) ==
    /\ jobs[w].op = "commit"
    /\ \A v \in Workers : ~ WaitsFor(w, v)
    /\ LET job == jobs[w]
           new == Updated(requests[job.req], job)
       IN  /\ requests' = [requests EXCEPT ![job.req] = new]
           /\ acted' = IF job.outcome = "CANCELLED"
                       THEN acted ELSE acted \cup {<<job.req, job.step, job.outcome>>}
           /\ \/ /\ job.outcome # "CANCELLED" /\ new.status = job.outcome
                 /\ emitted' = emitted \cup {<<job.req, job.outcome>>}
              \/ /\ job.outcome = "CANCELLED" \/ new.status # job.outcome
                 /\ UNCHANGED emitted
    /\ Finish(w)

(* An error or a restart *)
Abandon(w) ==
    /\ jobs[w] # Idle
    /\ Finish(w)
    /\ UNCHANGED <<requests, acted, emitted>>

(* PostgreSQL aborts one of those who wait for each other's rows.          *)
DeadlockBroken(w) ==
    /\ \E D \in SUBSET Workers :
          w \in D /\ \A v \in D : (\E u \in D : WaitsFor(v, u)) /\ (\E u \in D : WaitsFor(u, v))
    /\ Abandon(w)

Arrive(w) ==
    \/ \E d \in Documents : LookForPending(w, d)
    \/ \E r \in DOMAIN requests : LoadForAction(w, r) \/ LoadForCancel(w, r)

Act(w) == \E outcome \in {"APPROVED", "REJECTED"} : SaveStep(w, outcome)

Serve(w) ==
    \/ InsertRequest(w) \/ Act(w)
    \/ CompareWithRows(w) \/ Commit(w) \/ DeadlockBroken(w)

Step == \E w \in Workers : Arrive(w) \/ Serve(w) \/ Abandon(w)

Next == Step /\ UNCHANGED overlap

Spec == Init /\ [][Next]_vars

(* A request that is being served goes on; the database grants row locks   *)
(* to those who wait for them in turn, hence strong fairness.              *)
FairSpec == Spec /\ \A w \in Workers : SF_vars(Serve(w) /\ UNCHANGED overlap)

-----------------------------------------------------------------------------
(* Properties                                                              *)

(* An APPROVED event is never emitted while a step of the request has not  *)
(* been decided by a user who may act on it, whatever copies were saved    *)
(* over each other in between (approveRequest).                            *)
NoStepSkipped ==
    \A r \in DOMAIN requests : <<r, "APPROVED">> \in emitted =>
        \A i \in Steps : \E outcome \in {"APPROVED", "REJECTED"} : <<r, i, outcome>> \in acted

(* Multi-level approval: an approved request was approved by a user of     *)
(* every step.                                                             *)
ApprovedByEveryStep ==
    \A r \in DOMAIN requests :
        <<r, "APPROVED">> \in emitted => \A i \in Steps : <<r, i, "APPROVED">> \in acted

(* The same as long as users are served one at a time.                     *)
ApprovedByEveryStepSerially == ~ overlap => ApprovedByEveryStep

(* A pending request can be acted on: its current step is pending, else    *)
(* loadRequestForAction refuses it for ever.                               *)
NeverStuck ==
    ~ overlap => \A r \in DOMAIN requests :
        Pending(r) => requests[r].steps[requests[r].current] = "PENDING"

(* Nobody waits for a row lock for ever: every request is served to its    *)
(* end, whoever acts on the same steps (the lock order of approveRequest). *)
EveryRequestServed == \A w \in Workers : jobs[w] # Idle ~> jobs[w] = Idle
=============================================================================
