-------------------------- MODULE ApprovalMatrixProofs --------------------------
(***************************************************************************)
(* What holds of approval requests for every number of requests, steps and *)
(* users, however stale the copies they decide on; and what holds besides  *)
(* when users are served one at a time, because no copy is stale then.     *)
(***************************************************************************)
EXTENDS ApprovalMatrix, WellFoundedInduction, TLAPS

-----------------------------------------------------------------------------
(* The inductive invariant, in parts that name the state they speak of     *)

Decided(r, i, log) == \E outcome \in {"APPROVED", "REJECTED"} : <<r, i, outcome>> \in log

(* A row, or a copy, of request r says no more than was decided.           *)
RowSound(row, r, log) ==
    /\ \A i \in Steps : row.steps[i] # "PENDING" => Decided(r, i, log)
    /\ row.status = "APPROVED" => \A i \in Steps : Decided(r, i, log)

(* The decisions there will be once the job has committed.                 *)
LogWith(job, log) == IF job.outcome = "CANCELLED"
                     THEN log ELSE log \cup {<<job.req, job.step, job.outcome>>}

JobSound(job, reqs, log) ==
    /\ job.op \in {"act", "save", "commit"} => job.req \in DOMAIN reqs
    /\ job.op = "act" => RowSound(job.copy, job.req, log)
    /\ job.op \in {"save", "commit"} => RowSound(job.copy, job.req, LogWith(job, log))

JobsOK(js, reqs, log) ==
    /\ js \in [Workers -> Job]
    /\ \A w \in Workers : JobSound(js[w], reqs, log)

RequestsOK(reqs, log) ==
    /\ reqs \in Seq(Request)
    /\ \A r \in DOMAIN reqs : RowSound(reqs[r], r, log)

EventsOK(events, log) ==
    /\ events \subseteq (Nat \X Outcomes)
    /\ \A r : <<r, "APPROVED">> \in events => \A i \in Steps : Decided(r, i, log)

Inductive ==
    /\ RequestsOK(requests, acted)
    /\ JobsOK(jobs, requests, acted)
    /\ EventsOK(emitted, acted)
    /\ acted \subseteq (Nat \X Steps \X Outcomes)

-----------------------------------------------------------------------------
(* Helpers                                                                 *)

LEMMA EarliestIsAStep ==
    ASSUME NEW S, S \subseteq Steps, S # {}
    PROVE  Earliest(S) \in S
<1>1. S \subseteq Nat
  BY DEF Steps
<1>2. PICK m \in S : \A k \in S : ~ (<<k, m>> \in OpToRel(<, Nat))
  BY <1>1, NatLessThanWellFounded, WFMin
<1>3. ASSUME NEW k \in S PROVE m <= k
  <2>1. <<k, m>> \in Nat \X Nat
    BY <1>1
  <2>2. <<k, m>>[1] = k /\ <<k, m>>[2] = m
    OBVIOUS
  <2>3. ~ (k < m)
    BY <1>2, <2>1, <2>2, Zenon DEF OpToRel
  <2> QED
    BY <1>1, <2>3
<1>4. \E i \in S : \A j \in S : i <= j
  BY <1>3
<1> QED
  BY <1>4, Zenon DEF Earliest

LEMMA DecidedStays ==
    ASSUME NEW log, NEW log2, log \subseteq log2, NEW r, NEW i, Decided(r, i, log)
    PROVE  Decided(r, i, log2)
BY DEF Decided

LEMMA RowStays ==
    ASSUME NEW log, NEW log2, log \subseteq log2, NEW r, NEW row, RowSound(row, r, log)
    PROVE  RowSound(row, r, log2)
BY DecidedStays DEF RowSound

LEMMA LogGrows ==
    ASSUME NEW job, NEW log, NEW log2, log \subseteq log2
    PROVE  /\ log \subseteq LogWith(job, log)
           /\ LogWith(job, log) \subseteq LogWith(job, log2)
BY DEF LogWith

LEMMA JobStays ==
    ASSUME NEW reqs, NEW reqs2, DOMAIN reqs \subseteq DOMAIN reqs2,
           NEW log, NEW log2, log \subseteq log2, NEW job, JobSound(job, reqs, log)
    PROVE  JobSound(job, reqs2, log2)
<1>1. job.op = "act" => RowSound(job.copy, job.req, log2)
  BY RowStays DEF JobSound
<1>2. LogWith(job, log) \subseteq LogWith(job, log2)
  BY LogGrows
<1>3. job.op \in {"save", "commit"} => RowSound(job.copy, job.req, LogWith(job, log2))
  BY <1>2, RowStays DEF JobSound
<1> QED
  BY <1>1, <1>3 DEF JobSound

LEMMA IdleJob ==
    ASSUME NEW reqs, NEW log
    PROVE  Idle \in Job /\ JobSound(Idle, reqs, log)
BY DEF Job, Idle, JobSound

(* One worker goes on to another job, the others keep theirs.              *)
LEMMA SetJob ==
    ASSUME NEW reqs, NEW reqs2, DOMAIN reqs \subseteq DOMAIN reqs2,
           NEW log, NEW log2, log \subseteq log2, NEW js, JobsOK(js, reqs, log),
           NEW w \in Workers, NEW job \in Job, JobSound(job, reqs2, log2)
    PROVE  JobsOK([js EXCEPT ![w] = job], reqs2, log2)
<1> DEFINE new == [js EXCEPT ![w] = job]
<1>1. new \in [Workers -> Job]
  BY DEF JobsOK
<1>2. ASSUME NEW v \in Workers PROVE JobSound(new[v], reqs2, log2)
  <2>1. CASE v = w
    BY <2>1 DEF JobsOK
  <2>2. CASE v # w
    <3>1. new[v] = js[v]
      BY <2>2 DEF JobsOK
    <3> QED
      BY <3>1, JobStays DEF JobsOK
  <2> QED
    BY <2>1, <2>2
<1> QED
  BY <1>1, <1>2 DEF JobsOK

LEMMA JobOf ==
    ASSUME Inductive, NEW w \in Workers
    PROVE  jobs[w] \in Job /\ JobSound(jobs[w], requests, acted)
BY DEF Inductive, JobsOK

LEMMA JobFields ==
    ASSUME NEW job \in Job
    PROVE  /\ job.op = "insert" => job.document \in Documents
           /\ job.op \in {"act", "save", "commit"} =>
                 job.req \in Nat /\ job.copy \in Request /\ job.step \in Steps
           /\ job.op \in {"save", "commit"} => job.outcome \in Outcomes
BY DEF Job, Idle

LEMMA RowOf ==
    ASSUME Inductive, NEW r \in DOMAIN requests
    PROVE  /\ r \in Nat /\ requests[r] \in Request
           /\ requests[r].current \in Steps
           /\ RowSound(requests[r], r, acted)
<1>1. r \in Nat /\ requests[r] \in Request /\ RowSound(requests[r], r, acted)
  BY DEF Inductive, RequestsOK
<1> QED
  BY <1>1 DEF Request

(* A worker loads, decides on its copy, compares or stops.                 *)
LEMMA OnlyJobChanges ==
    ASSUME Inductive, NEW w \in Workers, NEW job \in Job, JobSound(job, requests, acted),
           jobs' = [jobs EXCEPT ![w] = job], UNCHANGED <<requests, acted, emitted>>
    PROVE  Inductive'
<1>1. JobsOK(jobs', requests', acted')
  BY SetJob DEF Inductive
<1> QED
  BY <1>1 DEF Inductive

-----------------------------------------------------------------------------
(* The decision on a copy                                                  *)

LEMMA RequestFields ==
    ASSUME NEW row \in Request
    PROVE  /\ row.steps \in [Steps -> {"PENDING", "APPROVED", "REJECTED"}]
           /\ row.current \in Steps /\ row.status \in Statuses /\ row.document \in Documents
BY DEF Request

(* The step acted on is set, the others stay as they were on the copy.     *)
LEMMA StepSet ==
    ASSUME NEW copy \in Request, NEW i \in Steps, NEW r, NEW log,
           RowSound(copy, r, log), NEW outcome \in {"APPROVED", "REJECTED"}
    PROVE  LET signed == [copy EXCEPT !.steps[i] = outcome]
               log2   == log \cup {<<r, i, outcome>>}
           IN  /\ signed \in Request
               /\ signed.status = copy.status
               /\ \A j \in Steps : signed.steps[j] # "PENDING" => Decided(r, j, log2)
               /\ \A j \in Steps : Decided(r, j, log) => Decided(r, j, log2)
               /\ Decided(r, i, log2)
<1> DEFINE signed == [copy EXCEPT !.steps[i] = outcome]
           log2   == log \cup {<<r, i, outcome>>}
<1>1. /\ signed \in Request
      /\ signed.status = copy.status
      /\ \A j \in Steps : signed.steps[j] = IF j = i THEN outcome ELSE copy.steps[j]
  BY RequestFields DEF Request
<1>2. \A j \in Steps : Decided(r, j, log) => Decided(r, j, log2)
  BY DecidedStays
<1>3. Decided(r, i, log2)
  BY DEF Decided
<1> HIDE DEF signed, log2
<1>4. \A j \in Steps : signed.steps[j] # "PENDING" => Decided(r, j, log2)
  BY <1>1, <1>2, <1>3 DEF RowSound
<1> QED
  BY <1>1, <1>2, <1>3, <1>4 DEF signed, log2

LEMMA ApprovedSound ==
    ASSUME NEW copy \in Request, NEW i \in Steps, NEW r, NEW log, RowSound(copy, r, log)
    PROVE  /\ Approved(copy, i) \in Request
           /\ RowSound(Approved(copy, i), r, log \cup {<<r, i, "APPROVED">>})
<1> DEFINE signed == [copy EXCEPT !.steps[i] = "APPROVED"]
           log2   == log \cup {<<r, i, "APPROVED">>}
<1>1. /\ signed \in Request
      /\ signed.status = copy.status
      /\ \A j \in Steps : signed.steps[j] # "PENDING" => Decided(r, j, log2)
      /\ \A j \in Steps : Decided(r, j, log) => Decided(r, j, log2)
      /\ Decided(r, i, log2)
  BY StepSet
<1>2. Approved(copy, i) = IF Later(copy, i) # {}
                          THEN [signed EXCEPT !.current = Earliest(Later(copy, i))]
                          ELSE [signed EXCEPT !.status = "APPROVED"]
  BY DEF Approved
<1> HIDE DEF signed, log2
<1>3. CASE Later(copy, i) # {}
  <2>1. Earliest(Later(copy, i)) \in Steps
    BY <1>3, EarliestIsAStep DEF Later
  <2>2. /\ Approved(copy, i) \in Request
        /\ Approved(copy, i).steps = signed.steps /\ Approved(copy, i).status = copy.status
    BY <1>1, <1>2, <1>3, <2>1 DEF Request
  <2> QED
    BY <1>1, <2>2 DEF RowSound, log2
<1>4. CASE Later(copy, i) = {}
  <2>1. \A j \in Steps : Decided(r, j, log2)
    BY <1>1, <1>4 DEF Later, RowSound
  <2>2. Approved(copy, i) \in Request
    BY <1>1, <1>2, <1>4 DEF Request, Statuses, Outcomes
  <2> QED
    BY <2>1, <2>2 DEF RowSound, log2
<1> QED
  BY <1>3, <1>4

LEMMA RejectedSound ==
    ASSUME NEW copy \in Request, NEW i \in Steps, NEW r, NEW log, RowSound(copy, r, log)
    PROVE  /\ Rejected(copy, i) \in Request
           /\ RowSound(Rejected(copy, i), r, log \cup {<<r, i, "REJECTED">>})
<1> DEFINE signed == [copy EXCEPT !.steps[i] = "REJECTED"]
           log2   == log \cup {<<r, i, "REJECTED">>}
<1>1. /\ signed \in Request
      /\ \A j \in Steps : signed.steps[j] # "PENDING" => Decided(r, j, log2)
  BY StepSet
<1>2. Rejected(copy, i) = [signed EXCEPT !.status = "REJECTED"]
  BY DEF Rejected
<1> HIDE DEF signed, log2
<1>3. /\ Rejected(copy, i) \in Request
      /\ Rejected(copy, i).steps = signed.steps /\ Rejected(copy, i).status = "REJECTED"
  BY <1>1, <1>2 DEF Request, Statuses, Outcomes
<1> QED
  BY <1>1, <1>3 DEF RowSound, log2

-----------------------------------------------------------------------------
(* One lemma per action                                                    *)

LEMMA LookForPendingInductive ==
    ASSUME Inductive, NEW w \in Workers, NEW d \in Documents, LookForPending(w, d)
    PROVE  Inductive'
<1> DEFINE job == [op |-> "insert", document |-> d]
<1>1. job \in Job /\ JobSound(job, requests, acted)
  BY DEF Job, JobSound
<1>2. jobs' = [jobs EXCEPT ![w] = job]
  BY DEF LookForPending, Begin
<1> HIDE DEF job
<1> QED
  BY <1>1, <1>2, OnlyJobChanges DEF LookForPending

LEMMA InsertRequestInductive ==
    ASSUME Inductive, NEW w \in Workers, InsertRequest(w)
    PROVE  Inductive'
<1> DEFINE row == [document |-> jobs[w].document, status |-> "PENDING", current |-> 1,
                   steps |-> [i \in Steps |-> "PENDING"]]
<1>1. row \in Request
  <2>1. jobs[w].document \in Documents
    BY JobOf, JobFields DEF InsertRequest
  <2>2. 1 \in Steps
    BY DepthAssumption DEF Steps
  <2> QED
    BY <2>1, <2>2 DEF Request, Statuses
<1>2. \A r : RowSound(row, r, acted)
  BY DEF RowSound
<1>3. requests \in Seq(Request)
  BY DEF Inductive, RequestsOK
<1>4. /\ requests' = Append(requests, row) /\ jobs' = [jobs EXCEPT ![w] = Idle]
      /\ UNCHANGED <<acted, emitted>>
  BY DEF InsertRequest, Finish
<1> HIDE DEF row
<1>5. /\ requests' \in Seq(Request)
      /\ DOMAIN requests' = DOMAIN requests \cup {Len(requests) + 1}
      /\ \A r \in DOMAIN requests : requests'[r] = requests[r]
      /\ requests'[Len(requests) + 1] = row
  BY <1>1, <1>3, <1>4
<1>6. RequestsOK(requests', acted')
  <2>1. ASSUME NEW r \in DOMAIN requests' PROVE RowSound(requests'[r], r, acted)
    <3>1. CASE r \in DOMAIN requests
      BY <1>5, <3>1, RowOf
    <3>2. CASE r = Len(requests) + 1
      BY <1>2, <1>5, <3>2
    <3> QED
      BY <1>5, <3>1, <3>2
  <2> QED
    BY <1>4, <1>5, <2>1 DEF RequestsOK
<1>7. JobsOK(jobs', requests', acted')
  BY <1>4, <1>5, SetJob, IdleJob DEF Inductive
<1> QED
  BY <1>4, <1>6, <1>7 DEF Inductive

LEMMA LoadInductive ==
    ASSUME Inductive, NEW w \in Workers, NEW r \in DOMAIN requests,
           LoadForAction(w, r)
    PROVE  Inductive'
<1> DEFINE step == requests[r].current
           job  == [op |-> "act", req |-> r, copy |-> requests[r], step |-> step]
<1>2. job \in Job
  BY RowOf DEF Job
<1>3. JobSound(job, requests, acted)
  BY RowOf DEF JobSound
<1>4. jobs' = [jobs EXCEPT ![w] = job]
  BY DEF LoadForAction, Begin
<1> HIDE DEF job
<1> QED
  BY <1>2, <1>3, <1>4, OnlyJobChanges DEF LoadForAction

LEMMA SaveStepInductive ==
    ASSUME Inductive, NEW w \in Workers, NEW outcome \in {"APPROVED", "REJECTED"},
           SaveStep(w, outcome)
    PROVE  Inductive'
<1> DEFINE r   == jobs[w].req
           i   == jobs[w].step
           new == IF outcome = "APPROVED" THEN Approved(jobs[w].copy, i)
                                          ELSE Rejected(jobs[w].copy, i)
           job == [op |-> "save", req |-> r, step |-> i, outcome |-> outcome, copy |-> new]
<1>1. /\ r \in Nat /\ r \in DOMAIN requests /\ i \in Steps
      /\ jobs[w].copy \in Request /\ RowSound(jobs[w].copy, r, acted)
  BY JobOf, JobFields DEF SaveStep, JobSound
<1>2. new \in Request /\ RowSound(new, r, acted \cup {<<r, i, outcome>>})
  BY <1>1, ApprovedSound, RejectedSound
<1>3. jobs' = [jobs EXCEPT ![w] = job]
  BY DEF SaveStep, Proceed
<1> HIDE DEF r, i, new
<1>4. job \in Job
  BY <1>1, <1>2 DEF Job, Outcomes
<1>5. LogWith(job, acted) = acted \cup {<<r, i, outcome>>}
  BY DEF LogWith
<1>6. JobSound(job, requests, acted)
  BY <1>1, <1>2, <1>5 DEF JobSound
<1> HIDE DEF job
<1> QED
  BY <1>3, <1>4, <1>6, OnlyJobChanges DEF SaveStep

LEMMA CancelOnCopyInductive ==
    ASSUME Inductive, NEW w \in Workers, NEW r \in DOMAIN requests,
           CancelOnCopy(w, r)
    PROVE  Inductive'
<1> DEFINE new == [requests[r] EXCEPT !.status = "CANCELLED"]
           job == [op |-> "save", req |-> r, step |-> 1, outcome |-> "CANCELLED",
                   copy |-> new]
<1>1. r \in Nat /\ requests[r] \in Request /\ RowSound(requests[r], r, acted)
  BY RowOf
<1>2. new \in Request /\ new.steps = requests[r].steps /\ new.status = "CANCELLED"
  BY <1>1 DEF Request, Statuses, Outcomes
<1>3. RowSound(new, r, acted)
  BY <1>1, <1>2 DEF RowSound
<1>4. jobs' = [jobs EXCEPT ![w] = job]
  BY DEF CancelOnCopy, Begin
<1> HIDE DEF new
<1>5. 1 \in Steps
  BY DepthAssumption DEF Steps
<1>6. job \in Job
  BY <1>1, <1>2, <1>5 DEF Job, Outcomes
<1>7. JobSound(job, requests, acted)
  BY <1>1, <1>3 DEF JobSound, LogWith
<1> HIDE DEF job
<1> QED
  BY <1>4, <1>6, <1>7, OnlyJobChanges DEF CancelOnCopy

LEMMA CompareWithRowsInductive ==
    ASSUME Inductive, NEW w \in Workers, CompareWithRows(w)
    PROVE  Inductive'
<1> DEFINE old  == jobs[w]
           row  == requests[old.req]
           cols == {f \in {"status", "current"} : old.copy[f] # row[f]}
           rows == IF old.outcome = "CANCELLED" THEN {}
                   ELSE {i \in Steps : old.copy.steps[i] # row.steps[i]} \cup {old.step}
           job  == [op |-> "commit", req |-> old.req, copy |-> old.copy, step |-> old.step,
                    outcome |-> old.outcome, columns |-> cols, stepRows |-> rows]
<1>1. /\ old.req \in Nat /\ old.req \in DOMAIN requests /\ old.copy \in Request
      /\ old.step \in Steps /\ old.outcome \in Outcomes
      /\ RowSound(old.copy, old.req, LogWith(old, acted))
  BY JobOf, JobFields DEF CompareWithRows, JobSound
<1>2. jobs' = [jobs EXCEPT ![w] = job]
  BY DEF CompareWithRows, Proceed
<1>3. cols \in SUBSET {"status", "current"} /\ rows \in SUBSET Steps
  BY <1>1
<1> HIDE DEF old, row, cols, rows
<1>4. job \in Job
  BY <1>1, <1>3 DEF Job
<1>5. LogWith(job, acted) = LogWith(old, acted)
  BY DEF LogWith
<1>6. JobSound(job, requests, acted)
  BY <1>1, <1>5 DEF JobSound
<1> HIDE DEF job
<1> QED
  BY <1>2, <1>4, <1>6, OnlyJobChanges DEF CompareWithRows

LEMMA AbandonInductive ==
    ASSUME Inductive, NEW w \in Workers, Abandon(w)
    PROVE  Inductive'
BY IdleJob, OnlyJobChanges DEF Abandon, Finish

(* The row after the commit mixes columns of the copy and of the row, each *)
(* of which says no more than was decided.                                 *)
LEMMA UpdatedSound ==
    ASSUME NEW row \in Request, NEW job, job.copy \in Request, NEW r, NEW log,
           RowSound(row, r, log), RowSound(job.copy, r, log)
    PROVE  Updated(row, job) \in Request /\ RowSound(Updated(row, job), r, log)
<1> DEFINE new == Updated(row, job)
           st  == IF "status" \in job.columns THEN job.copy.status ELSE row.status
           cur == IF "current" \in job.columns THEN job.copy.current ELSE row.current
           sts == [i \in Steps |-> IF i \in job.stepRows THEN job.copy.steps[i]
                                                         ELSE row.steps[i]]
<1>1. st \in Statuses /\ cur \in Steps
      /\ sts \in [Steps -> {"PENDING", "APPROVED", "REJECTED"}]
  BY RequestFields
<1>2. new = [row EXCEPT !.status = st, !.current = cur, !.steps = sts]
  BY DEF Updated
<1> HIDE DEF st, cur, sts
<1>3. new \in Request /\ new.status = st /\ new.steps = sts
  BY <1>1, <1>2 DEF Request
<1> USE DEF st, cur, sts
<1>4. \A i \in Steps : sts[i] # "PENDING" => Decided(r, i, log)
  BY DEF RowSound
<1>5. st = "APPROVED" => \A i \in Steps : Decided(r, i, log)
  BY DEF RowSound
<1> HIDE DEF new, st, cur, sts
<1> QED
  BY <1>3, <1>4, <1>5 DEF RowSound, new

LEMMA ReplaceInSequence ==
    ASSUME NEW S, NEW s \in Seq(S), NEW i, NEW e \in S
    PROVE  /\ [s EXCEPT ![i] = e] \in Seq(S)
           /\ DOMAIN [s EXCEPT ![i] = e] = DOMAIN s
<1>1. s \in [1 .. Len(s) -> S] /\ Len(s) \in Nat
  OBVIOUS
<1>2. [s EXCEPT ![i] = e] \in [1 .. Len(s) -> S]
  BY <1>1
<1> QED
  BY <1>1, <1>2

LEMMA CommitInductive ==
    ASSUME Inductive, NEW w \in Workers, Commit(w)
    PROVE  Inductive'
<1> DEFINE job == jobs[w]
           r   == job.req
           new == Updated(requests[r], job)
<1>1. /\ r \in Nat /\ r \in DOMAIN requests /\ job.copy \in Request
      /\ job.step \in Steps /\ job.outcome \in Outcomes
      /\ RowSound(job.copy, r, LogWith(job, acted))
  BY JobOf, JobFields DEF Commit, JobSound
<1>2. /\ requests' = [requests EXCEPT ![r] = new]
      /\ acted' = LogWith(job, acted)
      /\ jobs' = [jobs EXCEPT ![w] = Idle]
      /\ \/ new.status = job.outcome /\ emitted' = emitted \cup {<<r, job.outcome>>}
         \/ UNCHANGED emitted
  BY DEF Commit, Finish, LogWith
<1>3. acted \subseteq acted' /\ acted' \subseteq (Nat \X Steps \X Outcomes)
  BY <1>1, <1>2 DEF LogWith, Inductive
<1>4. new \in Request /\ RowSound(new, r, acted')
  <2>1. requests[r] \in Request /\ RowSound(requests[r], r, acted')
    BY <1>1, <1>3, RowOf, RowStays
  <2> QED
    BY <1>1, <1>2, <2>1, UpdatedSound
<1> HIDE DEF job, r, new
<1>5. requests \in Seq(Request)
  BY DEF Inductive, RequestsOK
<1>6. /\ requests' \in Seq(Request) /\ DOMAIN requests' = DOMAIN requests
      /\ requests'[r] = new
      /\ \A q \in DOMAIN requests : q # r => requests'[q] = requests[q]
  BY <1>1, <1>2, <1>4, <1>5, ReplaceInSequence
<1>7. RequestsOK(requests', acted')
  <2>1. ASSUME NEW q \in DOMAIN requests' PROVE RowSound(requests'[q], q, acted')
    <3>1. CASE q = r
      BY <1>4, <1>6, <3>1
    <3>2. CASE q # r
      BY <1>3, <1>6, <3>2, RowOf, RowStays
    <3> QED
      BY <3>1, <3>2
  <2> QED
    BY <1>6, <2>1 DEF RequestsOK
<1>8. JobsOK(jobs', requests', acted')
  BY <1>2, <1>3, <1>6, SetJob, IdleJob DEF Inductive
<1>9. EventsOK(emitted', acted')
  <2>1. EventsOK(emitted, acted')
    BY <1>3, DecidedStays DEF Inductive, EventsOK
  <2>2. CASE new.status = job.outcome /\ emitted' = emitted \cup {<<r, job.outcome>>}
    <3>1. job.outcome = "APPROVED" => \A i \in Steps : Decided(r, i, acted')
      BY <1>4, <2>2 DEF RowSound
    <3>2. emitted' \subseteq (Nat \X Outcomes)
      BY <1>1, <2>1, <2>2 DEF EventsOK
    <3> QED
      BY <2>1, <2>2, <3>1, <3>2 DEF EventsOK
  <2>3. CASE UNCHANGED emitted
    BY <2>1, <2>3
  <2> QED
    BY <1>2, <2>2, <2>3
<1> QED
  BY <1>3, <1>7, <1>8, <1>9 DEF Inductive

-----------------------------------------------------------------------------
(* The theorems                                                            *)

LEMMA InitInductive == Init => Inductive
<1> SUFFICES ASSUME Init PROVE Inductive
  OBVIOUS
<1>1. JobsOK(jobs, requests, acted)
  BY IdleJob DEF Init, JobsOK
<1>2. RequestsOK(requests, acted) /\ EventsOK(emitted, acted)
  BY DEF Init, RequestsOK, EventsOK
<1> QED
  BY <1>1, <1>2 DEF Init, Inductive

(* The parts of the invariant hold together in every reachable state.      *)
THEOREM ApprovalsInvariant == Spec => []Inductive
<1>1. Inductive /\ [Next]_vars => Inductive'
  <2> SUFFICES ASSUME Inductive, [Next]_vars PROVE Inductive'
    OBVIOUS
  <2>1. ASSUME NEW w \in Workers, Arrive(w) PROVE Inductive'
    BY <2>1, LookForPendingInductive, LoadInductive, CancelOnCopyInductive
    DEF Arrive, LoadForCancel
  <2>2. ASSUME NEW w \in Workers, Serve(w) PROVE Inductive'
    BY <2>2, InsertRequestInductive, SaveStepInductive,
       CompareWithRowsInductive, CommitInductive, AbandonInductive
    DEF Serve, Act, DeadlockBroken
  <2>3. ASSUME NEW w \in Workers, Abandon(w) PROVE Inductive'
    BY <2>3, AbandonInductive
  <2>4. CASE UNCHANGED vars
    BY <2>4 DEF vars, Inductive
  <2> QED
    BY <2>1, <2>2, <2>3, <2>4 DEF Next, Step
<1> QED
  BY InitInductive, <1>1, PTL DEF Spec

(* Whether requests overlap is settled at the start.                       *)
LEMMA OverlapStays == Spec => [](overlap \in Overlap)
<1>1. Init => overlap \in Overlap
  BY DEF Init
<1>2. overlap \in Overlap /\ [Next]_vars => (overlap \in Overlap)'
  BY DEF Next, vars
<1> QED
  BY <1>1, <1>2, PTL DEF Spec

(* Requests, copies and events stay well-formed: a request always has a    *)
(* current step of its rule.                                               *)
THEOREM ApprovalsTypeCorrect == Spec => []TypeOK
<1>1. Inductive /\ overlap \in Overlap => TypeOK
  BY DEF Inductive, TypeOK, RequestsOK, JobsOK, EventsOK
<1> QED
  BY ApprovalsInvariant, OverlapStays, <1>1, PTL

(* However copies are saved over each other, a request is only reported as *)
(* approved when every step of its rule has been decided by somebody.      *)
THEOREM EveryStepIsDecided == Spec => []NoStepSkipped
<1>1. Inductive => NoStepSkipped
  BY DEF Inductive, EventsOK, Decided, NoStepSkipped
<1> QED
  BY ApprovalsInvariant, <1>1, PTL

-----------------------------------------------------------------------------
(* Users served one at a time: what a copy was, the row still is           *)

(* A row of request r: its approvals were given, an approved one has all of*)
(* them, and a pending one waits at a step nobody has decided.             *)
RowTrue(row, r, log) ==
    /\ \A i \in Steps : row.steps[i] = "APPROVED" => <<r, i, "APPROVED">> \in log
    /\ row.status = "APPROVED" => \A i \in Steps : row.steps[i] = "APPROVED"
    /\ row.status = "PENDING" =>
          /\ row.steps[row.current] = "PENDING"
          /\ \A i \in Steps : row.steps[i] # "REJECTED"

(* The job's copy: as it was loaded, and what the decision made of it; when*)
(* it is committed the row becomes the copy.                               *)
JobTrue(job, reqs, log) ==
    /\ job.op = "act" =>
          /\ job.copy = reqs[job.req] /\ job.copy.status = "PENDING"
          /\ job.step = job.copy.current
    /\ job.op \in {"save", "commit"} => RowTrue(job.copy, job.req, LogWith(job, log))
    /\ job.op = "save" =>
          /\ job.copy.document = reqs[job.req].document
          /\ job.outcome = "CANCELLED" => job.copy.steps = reqs[job.req].steps
    /\ job.op = "commit" => Updated(reqs[job.req], job) = job.copy

(* Whatever was reported as approved was approved at every step.           *)
AllApproved(events, log) ==
    \A r : <<r, "APPROVED">> \in events => \A i \in Steps : <<r, i, "APPROVED">> \in log

Current ==
    /\ \A v, w \in Workers : jobs[v] # Idle /\ jobs[w] # Idle => v = w
    /\ \A r \in DOMAIN requests : RowTrue(requests[r], r, acted)
    /\ \A w \in Workers : JobTrue(jobs[w], requests, acted)
    /\ AllApproved(emitted, acted)

Serial == ~ overlap => Current

LEMMA IdleTrue == \A reqs, log : JobTrue(Idle, reqs, log)
  BY DEF JobTrue, Idle

(* Nobody else has anything to lose: the worker and the row are what counts*)
LEMMA OneWorkerKeepsCurrent ==
    ASSUME Inductive, Current, NEW w \in Workers,
           jobs[w] # Idle \/ \A v \in Workers \ {w} : jobs[v] = Idle,
           NEW job, jobs' = [jobs EXCEPT ![w] = job], JobTrue(job, requests', acted'),
           \A r \in DOMAIN requests' : RowTrue(requests'[r], r, acted'),
           AllApproved(emitted', acted')
    PROVE  Current'
<1>1. \A v \in Workers \ {w} : jobs[v] = Idle
  BY DEF Current
<1>2. /\ jobs'[w] = job
      /\ \A v \in Workers \ {w} : jobs'[v] = Idle
  BY <1>1 DEF Inductive, JobsOK
<1>3. \A u, v \in Workers : jobs'[u] # Idle /\ jobs'[v] # Idle => u = v
  BY <1>2
<1>4. \A v \in Workers : JobTrue(jobs'[v], requests', acted')
  BY <1>2, IdleTrue
<1> QED
  BY <1>3, <1>4 DEF Current

LEMMA JobAloneKeepsCurrent ==
    ASSUME Inductive, Current, NEW w \in Workers,
           jobs[w] # Idle \/ \A v \in Workers \ {w} : jobs[v] = Idle,
           NEW job, jobs' = [jobs EXCEPT ![w] = job], JobTrue(job, requests, acted),
           UNCHANGED <<requests, acted, emitted>>
    PROVE  Current'
<1>1. AllApproved(emitted', acted')
  BY DEF Current
<1>2. /\ JobTrue(job, requests', acted')
      /\ \A r \in DOMAIN requests' : RowTrue(requests'[r], r, acted')
  BY DEF Current
<1> QED
  BY <1>1, <1>2, OneWorkerKeepsCurrent

(* A decision on a pending row is true once it has been written down.      *)
LEMMA DecisionTrue ==
    ASSUME NEW copy \in Request, NEW r, NEW log, RowTrue(copy, r, log),
           copy.status = "PENDING", NEW i \in Steps, i = copy.current
    PROVE  /\ RowTrue(Approved(copy, i), r, log \cup {<<r, i, "APPROVED">>})
           /\ RowTrue(Rejected(copy, i), r, log \cup {<<r, i, "REJECTED">>})
           /\ Approved(copy, i).document = copy.document
           /\ Rejected(copy, i).document = copy.document
<1>1. /\ copy.steps \in [Steps -> {"PENDING", "APPROVED", "REJECTED"}]
      /\ \A j \in Steps : copy.steps[j] # "REJECTED"
      /\ \A j \in Steps : copy.steps[j] = "APPROVED" => <<r, j, "APPROVED">> \in log
  BY RequestFields DEF RowTrue
<1>2. ASSUME NEW outcome \in {"APPROVED", "REJECTED"}
      PROVE  LET signed == [copy EXCEPT !.steps[i] = outcome]
             IN  /\ signed \in Request /\ signed.document = copy.document
                 /\ signed.status = "PENDING"
                 /\ \A j \in Steps : signed.steps[j] = IF j = i THEN outcome ELSE copy.steps[j]
  BY RequestFields DEF Request
<1>3. ASSUME NEW signed \in Request, NEW status \in Statuses
      PROVE  LET after == [signed EXCEPT !.status = status]
             IN  after.steps = signed.steps /\ after.status = status /\ after.document = signed.document
  BY DEF Request
<1>4. ASSUME NEW signed \in Request, NEW current \in Steps
      PROVE  LET after == [signed EXCEPT !.current = current]
             IN  /\ after.steps = signed.steps /\ after.status = signed.status
                 /\ after.current = current /\ after.document = signed.document
  BY DEF Request
<1>5. /\ RowTrue(Rejected(copy, i), r, log \cup {<<r, i, "REJECTED">>})
      /\ Rejected(copy, i).document = copy.document
  <2> DEFINE signed == [copy EXCEPT !.steps[i] = "REJECTED"]
             after  == [signed EXCEPT !.status = "REJECTED"]
  <2>1. /\ signed \in Request /\ signed.document = copy.document
        /\ \A j \in Steps : signed.steps[j] = IF j = i THEN "REJECTED" ELSE copy.steps[j]
    BY <1>2
  <2>2. Rejected(copy, i) = after
    BY DEF Rejected
  <2> HIDE DEF signed
  <2>3. after.steps = signed.steps /\ after.status = "REJECTED" /\ after.document = signed.document
    BY <1>3, <2>1 DEF Statuses, Outcomes
  <2> HIDE DEF after
  <2> QED
    BY <1>1, <2>1, <2>2, <2>3 DEF RowTrue
<1>6. /\ RowTrue(Approved(copy, i), r, log \cup {<<r, i, "APPROVED">>})
      /\ Approved(copy, i).document = copy.document
  <2> DEFINE signed == [copy EXCEPT !.steps[i] = "APPROVED"]
             onward == [signed EXCEPT !.current = Earliest(Later(copy, i))]
             ended  == [signed EXCEPT !.status = "APPROVED"]
  <2>1. /\ signed \in Request /\ signed.document = copy.document /\ signed.status = "PENDING"
        /\ \A j \in Steps : signed.steps[j] = IF j = i THEN "APPROVED" ELSE copy.steps[j]
    BY <1>2
  <2>2. Approved(copy, i) = IF Later(copy, i) # {} THEN onward ELSE ended
    BY DEF Approved
  <2> HIDE DEF signed
  <2>3. CASE Later(copy, i) # {}
    <3>1. /\ Earliest(Later(copy, i)) \in Steps \ {i}
          /\ copy.steps[Earliest(Later(copy, i))] = "PENDING"
      BY <2>3, EarliestIsAStep DEF Later
    <3>2. /\ onward.steps = signed.steps /\ onward.status = "PENDING"
          /\ onward.current = Earliest(Later(copy, i)) /\ onward.document = signed.document
      BY <1>4, <2>1, <3>1
    <3> HIDE DEF onward
    <3> QED
      BY <1>1, <2>1, <2>2, <2>3, <3>1, <3>2 DEF RowTrue
  <2>4. CASE Later(copy, i) = {}
    <3>1. \A j \in Steps \ {i} : copy.steps[j] = "APPROVED"
      BY <1>1, <2>4 DEF Later
    <3>2. ended.steps = signed.steps /\ ended.status = "APPROVED" /\ ended.document = signed.document
      BY <1>3, <2>1 DEF Statuses, Outcomes
    <3> HIDE DEF ended
    <3> QED
      BY <1>1, <2>1, <2>2, <2>4, <3>1, <3>2 DEF RowTrue
  <2> QED
    BY <2>3, <2>4
<1> QED
  BY <1>5, <1>6

(* What the copy differs in is what is written: the row becomes the copy.  *)
LEMMA WhatDiffersIsWritten ==
    ASSUME NEW row \in Request, NEW job, job.copy \in Request,
           job.copy.document = row.document,
           job.columns = {f \in {"status", "current"} : job.copy[f] # row[f]},
           \A i \in Steps : i \notin job.stepRows => job.copy.steps[i] = row.steps[i]
    PROVE  Updated(row, job) = job.copy
<1> DEFINE st  == IF "status" \in job.columns THEN job.copy.status ELSE row.status
           cur == IF "current" \in job.columns THEN job.copy.current ELSE row.current
           sts == [i \in Steps |-> IF i \in job.stepRows THEN job.copy.steps[i]
                                                         ELSE row.steps[i]]
<1>1. st = job.copy.status /\ cur = job.copy.current
  OBVIOUS
<1>2. sts = job.copy.steps
  BY RequestFields
<1>3. Updated(row, job) = [row EXCEPT !.status = st, !.current = cur, !.steps = sts]
  BY DEF Updated
<1> HIDE DEF st, cur, sts
<1>4. [row EXCEPT !.status = st, !.current = cur, !.steps = sts] = job.copy
  BY <1>1, <1>2 DEF Request
<1> QED
  BY <1>3, <1>4

LEMMA ServeKeepsCurrent ==
    ASSUME Inductive, Current, NEW w \in Workers, Serve(w) \/ Abandon(w)
    PROVE  Current'
<1>0. /\ jobs[w] \in Job
      /\ jobs[w].op \in {"act", "save", "commit"} => jobs[w].req \in DOMAIN requests
  BY JobOf DEF JobSound
<1>i. Idle.op = "idle"
  BY DEF Idle
<1>j. JobTrue(jobs[w], requests, acted)
  BY DEF Current
<1>1. CASE InsertRequest(w)
  <2> DEFINE row == [document |-> jobs[w].document, status |-> "PENDING", current |-> 1,
                     steps |-> [i \in Steps |-> "PENDING"]]
  <2>1. /\ jobs[w] # Idle /\ requests' = Append(requests, row)
        /\ jobs' = [jobs EXCEPT ![w] = Idle] /\ UNCHANGED <<acted, emitted>>
    BY <1>1, <1>i DEF InsertRequest, Finish
  <2>2. \A r : RowTrue(row, r, acted)
    BY DepthAssumption DEF RowTrue, Steps
  <2> HIDE DEF row
  <2>3. /\ DOMAIN requests' = DOMAIN requests \cup {Len(requests) + 1}
        /\ \A r \in DOMAIN requests : requests'[r] = requests[r]
        /\ requests'[Len(requests) + 1] = row
        /\ Len(requests) + 1 \notin DOMAIN requests
    BY <2>1 DEF Inductive, RequestsOK
  <2>4. \A r \in DOMAIN requests' : RowTrue(requests'[r], r, acted')
    BY <2>1, <2>2, <2>3 DEF Current
  <2>5. AllApproved(emitted', acted')
    BY <2>1 DEF Current
  <2> QED
    BY <2>1, <2>4, <2>5, IdleTrue, OneWorkerKeepsCurrent
<1>2. ASSUME NEW outcome \in {"APPROVED", "REJECTED"}, SaveStep(w, outcome) PROVE Current'
  <2> DEFINE r    == jobs[w].req
             i    == jobs[w].step
             copy == jobs[w].copy
             new  == IF outcome = "APPROVED" THEN Approved(copy, i) ELSE Rejected(copy, i)
             job  == [op |-> "save", req |-> r, step |-> i, outcome |-> outcome, copy |-> new]
  <2>1. /\ jobs[w] # Idle /\ jobs[w].op = "act" /\ jobs' = [jobs EXCEPT ![w] = job]
        /\ UNCHANGED <<requests, acted, emitted>>
    BY <1>2, <1>i DEF SaveStep, Proceed
  <2>2. /\ copy \in Request /\ copy = requests[r] /\ copy.status = "PENDING"
        /\ i \in Steps /\ i = copy.current /\ r \in DOMAIN requests
    BY <1>0, <1>j, <2>1, JobFields DEF JobTrue
  <2>3. RowTrue(copy, r, acted)
    BY <2>2 DEF Current
  <2> HIDE DEF r, i, copy
  <2>4. /\ RowTrue(new, r, acted \cup {<<r, i, outcome>>})
        /\ new.document = copy.document
    BY <2>2, <2>3, DecisionTrue
  <2> HIDE DEF new
  <2>5. LogWith(job, acted) = acted \cup {<<r, i, outcome>>}
    BY DEF LogWith
  <2>6. JobTrue(job, requests, acted)
    BY <2>2, <2>4, <2>5 DEF JobTrue
  <2> HIDE DEF job
  <2> QED
    BY <2>1, <2>6, JobAloneKeepsCurrent
<1>3. CASE CompareWithRows(w)
  <2> DEFINE old  == jobs[w]
             row  == requests[old.req]
             cols == {f \in {"status", "current"} : old.copy[f] # row[f]}
             rows == IF old.outcome = "CANCELLED" THEN {}
                     ELSE {i \in Steps : old.copy.steps[i] # row.steps[i]} \cup {old.step}
             job  == [op |-> "commit", req |-> old.req, copy |-> old.copy, step |-> old.step,
                      outcome |-> old.outcome, columns |-> cols, stepRows |-> rows]
  <2>1. /\ old # Idle /\ old.op = "save" /\ jobs' = [jobs EXCEPT ![w] = job]
        /\ UNCHANGED <<requests, acted, emitted>>
    BY <1>3, <1>i DEF CompareWithRows, Proceed
  <2>2. /\ old.copy \in Request /\ row \in Request
        /\ RowTrue(old.copy, old.req, LogWith(old, acted))
        /\ old.copy.document = row.document
        /\ old.outcome = "CANCELLED" => old.copy.steps = row.steps
    BY <1>0, <1>j, <2>1, JobFields, RowOf DEF JobTrue
  <2>3. \A i \in Steps : i \notin rows => old.copy.steps[i] = row.steps[i]
    BY <2>2
  <2>4. LogWith(job, acted) = LogWith(old, acted)
    BY DEF LogWith
  <2> HIDE DEF row, rows, cols
  <2>5. /\ job.copy = old.copy /\ job.columns = cols /\ job.stepRows = rows
        /\ job.req = old.req /\ job.op = "commit"
    OBVIOUS
  <2> HIDE DEF job, old
  <2>6. Updated(row, job) = job.copy
    BY <2>2, <2>3, <2>5, WhatDiffersIsWritten DEF cols
  <2>7. JobTrue(job, requests, acted)
    BY <2>2, <2>4, <2>5, <2>6 DEF JobTrue, row
  <2> QED
    BY <2>1, <2>7, JobAloneKeepsCurrent DEF old
<1>4. CASE Commit(w)
  <2> DEFINE job == jobs[w]
             r   == job.req
             new == Updated(requests[r], job)
  <2>1. /\ job # Idle /\ job.op = "commit" /\ requests' = [requests EXCEPT ![r] = new]
        /\ jobs' = [jobs EXCEPT ![w] = Idle] /\ acted' = LogWith(job, acted)
        /\ \/ new.status = job.outcome /\ emitted' = emitted \cup {<<r, job.outcome>>}
           \/ UNCHANGED emitted
    BY <1>4, <1>i DEF Commit, Finish, LogWith
  <2>2. RowTrue(new, r, acted') /\ r \in DOMAIN requests
    BY <1>0, <1>j, <2>1 DEF JobTrue
  <2>3. acted \subseteq acted'
    BY <2>1 DEF LogWith
  <2> HIDE DEF job, r, new
  <2>4. /\ DOMAIN requests' = DOMAIN requests /\ requests'[r] = new
        /\ \A q \in DOMAIN requests \ {r} : requests'[q] = requests[q]
    BY <2>1, <2>2
  <2>5. \A q \in DOMAIN requests' : RowTrue(requests'[q], q, acted')
    BY <2>2, <2>3, <2>4 DEF Current, RowTrue
  <2>6. AllApproved(emitted', acted')
    BY <2>1, <2>2, <2>3 DEF Current, AllApproved, RowTrue
  <2> QED
    BY <2>1, <2>5, <2>6, IdleTrue, OneWorkerKeepsCurrent DEF job
<1>5. CASE Abandon(w)
  BY <1>5, IdleTrue, JobAloneKeepsCurrent DEF Abandon, Finish
<1> QED
  BY <1>1, <1>2, <1>3, <1>4, <1>5 DEF Serve, Act, DeadlockBroken

LEMMA ArriveKeepsCurrent ==
    ASSUME Inductive, Current, ~ overlap, NEW w \in Workers, Arrive(w)
    PROVE  Current'
<1>1. ASSUME NEW d \in Documents, LookForPending(w, d) PROVE Current'
  <2> DEFINE job == [op |-> "insert", document |-> d]
  <2>1. JobTrue(job, requests, acted)
    BY DEF JobTrue
  <2>2. /\ \A v \in Workers \ {w} : jobs[v] = Idle
        /\ jobs' = [jobs EXCEPT ![w] = job] /\ UNCHANGED <<requests, acted, emitted>>
    BY <1>1 DEF LookForPending, Begin, Alone
  <2> HIDE DEF job
  <2> QED
    BY <2>1, <2>2, JobAloneKeepsCurrent
<1>2. ASSUME NEW r \in DOMAIN requests, LoadForAction(w, r) PROVE Current'
  <2> DEFINE job == [op |-> "act", req |-> r, copy |-> requests[r],
                     step |-> requests[r].current]
  <2>1. JobTrue(job, requests, acted)
    BY <1>2 DEF JobTrue, LoadForAction, Pending
  <2>2. /\ \A v \in Workers \ {w} : jobs[v] = Idle
        /\ jobs' = [jobs EXCEPT ![w] = job] /\ UNCHANGED <<requests, acted, emitted>>
    BY <1>2 DEF LoadForAction, Begin, Alone
  <2> HIDE DEF job
  <2> QED
    BY <2>1, <2>2, JobAloneKeepsCurrent
<1>3. ASSUME NEW r \in DOMAIN requests, CancelOnCopy(w, r) PROVE Current'
  <2> DEFINE new == [requests[r] EXCEPT !.status = "CANCELLED"]
             job == [op |-> "save", req |-> r, step |-> 1, outcome |-> "CANCELLED",
                     copy |-> new]
  <2>1. requests[r] \in Request /\ RowTrue(requests[r], r, acted)
    BY RowOf DEF Current
  <2>2. /\ new.steps = requests[r].steps /\ new.document = requests[r].document
        /\ new.status = "CANCELLED"
    BY <2>1 DEF Request
  <2>3. /\ \A v \in Workers \ {w} : jobs[v] = Idle
        /\ jobs' = [jobs EXCEPT ![w] = job] /\ UNCHANGED <<requests, acted, emitted>>
    BY <1>3 DEF CancelOnCopy, Begin, Alone
  <2> HIDE DEF new
  <2>4. RowTrue(new, r, acted)
    BY <2>1, <2>2 DEF RowTrue
  <2>5. JobTrue(job, requests, acted)
    BY <2>2, <2>4 DEF JobTrue, LogWith
  <2> HIDE DEF job
  <2> QED
    BY <2>3, <2>5, JobAloneKeepsCurrent
<1> QED
  BY <1>1, <1>2, <1>3 DEF Arrive, LoadForCancel

(* Serial holds in every reachable state.                                  *)
THEOREM SerialInvariant == Spec => []Serial
<1>1. Init => Serial
  BY IdleTrue DEF Init, Serial, Current, AllApproved
<1>2. Inductive /\ Serial /\ [Next]_vars => Serial'
  <2> SUFFICES ASSUME Inductive, Current, ~ overlap, [Next]_vars PROVE Current'
    BY DEF Serial, Next, vars
  <2>1. CASE UNCHANGED vars
    BY <2>1 DEF vars, Current
  <2> QED
    BY <2>1, ArriveKeepsCurrent, ServeKeepsCurrent DEF Next, Step
<1> QED
  BY <1>1, <1>2, ApprovalsInvariant, PTL DEF Spec

(* Users served one at a time: what is reported as approved was approved by*)
(* a user of every step of the rule (approveRequest).                      *)
THEOREM EveryStepApproved == Spec => []ApprovedByEveryStepSerially
<1>1. Serial => ApprovedByEveryStepSerially
  BY DEF Serial, Current, AllApproved, ApprovedByEveryStep, ApprovedByEveryStepSerially
<1> QED
  BY <1>1, SerialInvariant, PTL

(* Users served one at a time: a pending request waits at a step that can  *)
(* still be decided, for loadRequestForAction to load.                     *)
THEOREM PendingCanBeDecided == Spec => []NeverStuck
<1>1. Serial => NeverStuck
  BY DEF Serial, Current, RowTrue, NeverStuck, Pending
<1> QED
  BY <1>1, SerialInvariant, PTL
=============================================================================
