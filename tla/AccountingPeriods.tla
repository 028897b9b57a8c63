--------------------------- MODULE AccountingPeriods ---------------------------
(***************************************************************************)
(* Accounting periods and the journal (AccountingService,                  *)
(* AccountingPeriodGuardService): posting and reversing entries, closing a *)
(* period with its closing entry, reopening and locking it with approval.  *)
(*                                                                         *)
(* No operation locks a row.  Each is split where it may decide on what it *)
(* has read before: the posting guard and the insert, the closing items and*)
(* the save of the period, the read and the save of the listener.          *)
(*                                                                         *)
(* The audit chain, the close policy and the approval rules may refuse an  *)
(* operation at any time: the operation then has no step.                  *)
(***************************************************************************)
EXTENDS Integers, Sequences, FiniteSets, Sums, StaleRows, Serving

CONSTANTS
    Periods,       \* accounting periods, numbered in the order of their dates
    Amounts,       \* what an entry may add to revenue minus expense
    MaxReopens,    \* how often a period may be reopened
    MaxEntries,    \* bound: journal entries, by whether requests may overlap
    MaxRequests    \* bound: approval requests, by whether they may

ASSUME PeriodsAssumption == Periods \subseteq Nat
ASSUME AmountsAssumption == Amounts \subseteq Int
ASSUME ReopensAssumption == MaxReopens \in Nat

VARIABLES
    periods,     \* accounting_periods
    entries,     \* journal_entries, in order of creation
    requests,    \* approval_workflow_requests of periods, in order of creation
    decisions    \* the decisions announced to the listeners, in order

vars == <<periods, entries, requests, decisions, jobs, overlap>>

(* closing, reopenReq and lockReq are null when 0.                         *)
Period == [status    : {"OPEN", "CLOSED", "LOCKED"},
           closing   : Nat,         \* closingJournalEntryId
           reopens   : Nat,         \* reopenCount
           reopenReq : Nat,         \* reopenApprovalWorkflowRequest_id
           lockReq   : Nat]         \* lockApprovalWorkflowRequest_id

(* `result` is the net of the entry on revenue and expense accounts, `of`  *)
(* the entry it reverses.                                                  *)
Entry == [kind   : {"POSTED", "CLOSE", "REOPEN", "REVERSAL"},
          period : Periods,
          result : Int,
          of     : Nat]

Request == [type   : {"REOPEN", "LOCK"},
            period : Periods,
            status : {"PENDING", "APPROVED", "REJECTED", "CANCELLED"}]

Outcomes == {"APPROVED", "REJECTED"}

Decision == [req : Nat, outcome : Outcomes]

(* `read` is the copy of the period row a worker decides on.               *)
Job == {Idle}
    \cup [op : {"post"}, period : Periods, kind : {"POSTED", "REVERSAL"}, of : Nat]
    \cup [op : {"close", "askReopen", "askLock"}, period : Periods, read : Period]
    \cup [op : {"closing"}, period : Periods, read : Period, balance : Int]
    \cup [op : {"act", "withdraw"}, req : Nat]
    \cup [op : {"hear"}, decision : Nat]
    \cup [op : {"complete"}, decision : Nat, read : Period]

TypeOK ==
    /\ periods \in [Periods -> Period]
    /\ entries \in Seq(Entry)
    /\ requests \in Seq(Request)
    /\ decisions \in Seq(Decision)
    /\ jobs \in [Workers -> Job]
    /\ overlap \in Overlap

(* openPeriod *)
Init ==
    /\ periods = [p \in Periods |-> [status |-> "OPEN", closing |-> 0, reopens |-> 0,
                                     reopenReq |-> 0, lockReq |-> 0]]
    /\ entries = <<>>
    /\ requests = <<>>
    /\ decisions = <<>>
    /\ jobs = [w \in Workers |-> Idle]
    /\ overlap \in Overlap

-----------------------------------------------------------------------------

Status(p) == periods[p].status

(* assertPostingAllowed *)
PostingAllowed(p) == Status(p) = "OPEN"

NoEarlierOpen(p) == \A q \in Periods : q < p => Status(q) # "OPEN"

NoLaterClosed(p) == \A q \in Periods : q > p => Status(q) = "OPEN"

RoomForEntry == Len(entries) < MaxEntries[overlap]

NewEntry(kind, p, result, of) ==
    [kind |-> kind, period |-> p, result |-> result, of |-> of]

Reversed(e) == \E f \in DOMAIN entries : entries[f].kind = "REVERSAL" /\ entries[f].of = e

(* What the entries of a period leave on revenue and expense accounts      *)
Balance(p) ==
    SumTo([e \in DOMAIN entries |-> IF entries[e].period = p THEN entries[e].result ELSE 0],
          Len(entries))

-----------------------------------------------------------------------------
(* Entries                                                                 *)

(* createJournalEntry: the guard, then the insert *)
CheckPosting(w, p) ==
    /\ PostingAllowed(p)
    /\ Begin(w, [op |-> "post", period |-> p, kind |-> "POSTED", of |-> 0])
    /\ UNCHANGED <<periods, entries, requests, decisions>>

(* deleteJournalEntriesByReference: the reversal is dated today, p.        *)
CheckReversal(w, p, e) ==
    /\ entries[e].kind = "POSTED" /\ ~ Reversed(e)
    /\ PostingAllowed(p)
    /\ Begin(w, [op |-> "post", period |-> p, kind |-> "REVERSAL", of |-> e])
    /\ UNCHANGED <<periods, entries, requests, decisions>>

Insert(w, amount) ==
    /\ jobs[w].op = "post" /\ RoomForEntry
    /\ LET job == jobs[w] IN
       entries' = Append(entries,
           NewEntry(job.kind, job.period,
                    IF job.kind = "REVERSAL" THEN - entries[job.of].result ELSE amount, job.of))
    /\ Finish(w)
    /\ UNCHANGED <<periods, requests, decisions>>

-----------------------------------------------------------------------------
(* Closing (closePeriod)                                                   *)

ReadForClose(w, p) ==
    /\ Status(p) = "OPEN"
    /\ NoEarlierOpen(p)
    /\ Begin(w, [op |-> "close", period |-> p, read |-> periods[p]])
    /\ UNCHANGED <<periods, entries, requests, decisions>>

(* buildClosingItems, and the posting guard of the closing entry *)
BuildClosingItems(w) ==
    /\ jobs[w].op = "close"
    /\ LET job == jobs[w] IN
       /\ Balance(job.period) # 0 => PostingAllowed(job.period)
       /\ Proceed(w, [op |-> "closing", period |-> job.period, read |-> job.read,
                      balance |-> Balance(job.period)])
    /\ UNCHANGED <<periods, entries, requests, decisions>>

(* Mutant: the closing entry books the balance on the side it is on. *)
ClosingEntryOnSameSide(job) == NewEntry("CLOSE", job.period, job.balance, 0)

ClosingEntry(job) == NewEntry("CLOSE", job.period, - job.balance, 0)

(* An empty closing entry is not made, and the period has none then.       *)
ClosePeriod(w) ==
    /\ jobs[w].op = "closing" /\ RoomForEntry
    /\ LET job == jobs[w]
           new == [job.read EXCEPT !.status  = "CLOSED",
                                   !.closing = IF job.balance = 0 THEN 0 ELSE Len(entries')]
       IN  /\ entries' = IF job.balance = 0 THEN entries
                                            ELSE Append(entries, ClosingEntry(job))
           /\ \E row \in Saved(periods[job.period], job.read, new) :
                 periods' = [periods EXCEPT ![job.period] = row]
    /\ Finish(w)
    /\ UNCHANGED <<requests, decisions>>

-----------------------------------------------------------------------------
(* Asking for approval (reopenPeriod, lockPeriod)                          *)

ReadForReopen(w, p) ==
    /\ Status(p) = "CLOSED"
    /\ periods[p].reopens < MaxReopens
    /\ periods[p].reopenReq = 0
    /\ NoLaterClosed(p)
    /\ Begin(w, [op |-> "askReopen", period |-> p, read |-> periods[p]])
    /\ UNCHANGED <<periods, entries, requests, decisions>>

ReadForLock(w, p) ==
    /\ Status(p) = "CLOSED"
    /\ periods[p].lockReq = 0
    /\ Begin(w, [op |-> "askLock", period |-> p, read |-> periods[p]])
    /\ UNCHANGED <<periods, entries, requests, decisions>>

TypeOf(op) == IF op = "askReopen" THEN "REOPEN" ELSE "LOCK"

RequestApproval(w) ==
    /\ jobs[w].op \in {"askReopen", "askLock"}
    /\ Len(requests) < MaxRequests[overlap]
    /\ LET job  == jobs[w]
           type == TypeOf(job.op)
           id   == Len(requests) + 1
           new  == IF type = "REOPEN" THEN [job.read EXCEPT !.reopenReq = id]
                                      ELSE [job.read EXCEPT !.lockReq = id]
       IN  /\ \A r \in DOMAIN requests :
                 ~ (requests[r].type = type /\ requests[r].period = job.period
                    /\ requests[r].status = "PENDING")
           /\ requests' = Append(requests, [type |-> type, period |-> job.period,
                                            status |-> "PENDING"])
           /\ \E row \in Saved(periods[job.period], job.read, new) :
                 periods' = [periods EXCEPT ![job.period] = row]
    /\ Finish(w)
    /\ UNCHANGED <<entries, decisions>>

(* ApprovalMatrixService loads a pending request and later saves its copy  *)
(* with the decision, whatever others have decided meanwhile, and announces*)
(* it; a withdrawn request is not announced.  (Module ApprovalMatrix has   *)
(* the steps of a request.)                                                *)
LoadRequest(w, r) ==
    /\ requests[r].status = "PENDING"
    /\ \E op \in {"act", "withdraw"} : Begin(w, [op |-> op, req |-> r])
    /\ UNCHANGED <<periods, entries, requests, decisions>>

Decide(w, outcome) ==
    /\ jobs[w].op = "act"
    /\ requests' = [requests EXCEPT ![jobs[w].req].status = outcome]
    /\ decisions' = Append(decisions, [req |-> jobs[w].req, outcome |-> outcome])
    /\ Proceed(w, [op |-> "hear", decision |-> Len(decisions')])
    /\ UNCHANGED <<periods, entries>>

Withdraw(w) ==
    /\ jobs[w].op = "withdraw"
    /\ requests' = [requests EXCEPT ![jobs[w].req].status = "CANCELLED"]
    /\ Finish(w)
    /\ UNCHANGED <<periods, entries, decisions>>

-----------------------------------------------------------------------------
(* The listener                                                            *)

Decided(d) == requests[decisions[d].req]

Grants(d, type) == decisions[d].outcome = "APPROVED" /\ Decided(d).type = type

Subject(w) == Decided(jobs[w].decision).period

(* The request the period waits for; none or this one is accepted.         *)
Awaited(d, row) == IF Decided(d).type = "REOPEN" THEN row.reopenReq ELSE row.lockReq

(* Mutant: the limit of reopenings is not looked at again. *)
MayCompleteAnyReopen(d, p) ==
    /\ Awaited(d, periods[p]) \in {0, decisions[d].req}
    /\ Status(p) = "CLOSED"
    /\ Grants(d, "REOPEN") => NoLaterClosed(p)

MayComplete(d, p) ==
    /\ Awaited(d, periods[p]) \in {0, decisions[d].req}
    /\ Status(p) = "CLOSED"
    /\ Grants(d, "REOPEN") => periods[p].reopens < MaxReopens /\ NoLaterClosed(p)

(* completePeriod...WorkflowApproval and rejectPeriod...Workflow read      *)
ListenerReads(w) ==
    /\ jobs[w].op = "hear"
    /\ LET d == jobs[w].decision
           p == Subject(w)
           mayGoOn == IF decisions[d].outcome = "APPROVED"
                      THEN MayComplete(d, p)
                      ELSE Awaited(d, periods[p]) = decisions[d].req
       IN  IF mayGoOn
           THEN Proceed(w, [op |-> "complete", decision |-> d, read |-> periods[p]])
           ELSE Finish(w)
    /\ UNCHANGED <<periods, entries, requests, decisions>>

(* Mutant: the closing entry stays as it is. *)
ReopenPeriodOnly(w) ==
    /\ jobs[w].op = "complete"
    /\ Grants(jobs[w].decision, "REOPEN")
    /\ LET read == jobs[w].read IN
       periods' = [periods EXCEPT ![Subject(w)] =
           [read EXCEPT !.status = "OPEN", !.closing = 0, !.reopenReq = 0,
                        !.reopens = @ + 1]]
    /\ Finish(w)
    /\ UNCHANGED <<entries, requests, decisions>>

(* completePeriodReopenWorkflowApproval saves the period twice; the second *)
(* save compares the copy with a row it has locked.                        *)
ReopenPeriod(w) ==
    /\ jobs[w].op = "complete" /\ RoomForEntry
    /\ Grants(jobs[w].decision, "REOPEN")
    /\ LET p    == Subject(w)
           read == jobs[w].read
       IN  /\ entries' = IF read.closing = 0 THEN entries
                         ELSE Append(entries, NewEntry("REOPEN", p,
                                         - entries[read.closing].result, read.closing))
           /\ periods' = [periods EXCEPT ![p] =
                  [read EXCEPT !.status = "OPEN", !.closing = 0, !.reopenReq = 0,
                               !.reopens = @ + 1]]
    /\ Finish(w)
    /\ UNCHANGED <<requests, decisions>>

(* Mutant: a decision to lock is a lock. *)
StatusDecidedAnyhow(d, status) == IF Decided(d).type = "LOCK" THEN "LOCKED" ELSE status

StatusDecided(d, status) == IF Grants(d, "LOCK") THEN "LOCKED" ELSE status

(* completePeriodLockWorkflowApproval, rejectPeriodReopenWorkflow and      *)
(* rejectPeriodLockWorkflow                                                *)
SaveDecision(w) ==
    /\ jobs[w].op = "complete"
    /\ ~ Grants(jobs[w].decision, "REOPEN")
    /\ LET d    == jobs[w].decision
           read == jobs[w].read
           new  == IF Decided(d).type = "REOPEN"
                   THEN [read EXCEPT !.reopenReq = 0]
                   ELSE [read EXCEPT !.lockReq = 0, !.status = StatusDecided(d, @)]
       IN  \E row \in Saved(periods[Subject(w)], read, new) :
              periods' = [periods EXCEPT ![Subject(w)] = row]
    /\ Finish(w)
    /\ UNCHANGED <<entries, requests, decisions>>

(* A refusal, an error or a restart half-way *)
Abandon(w) ==
    /\ jobs[w] # Idle
    /\ Finish(w)
    /\ UNCHANGED <<periods, entries, requests, decisions>>

-----------------------------------------------------------------------------
Arrive(w) ==
    \/ \E p \in Periods : \/ CheckPosting(w, p) \/ ReadForClose(w, p)
                          \/ ReadForReopen(w, p) \/ ReadForLock(w, p)
                          \/ \E e \in DOMAIN entries : CheckReversal(w, p, e)
    \/ \E r \in DOMAIN requests : LoadRequest(w, r)

Serve(w) ==
    \/ \E amount \in Amounts : Insert(w, amount)
    \/ BuildClosingItems(w) \/ ClosePeriod(w) \/ RequestApproval(w)
    \/ \E outcome \in Outcomes : Decide(w, outcome)
    \/ Withdraw(w) \/ ListenerReads(w) \/ ReopenPeriod(w) \/ SaveDecision(w)

Step == \E w \in Workers : Arrive(w) \/ Serve(w) \/ Abandon(w)

Next == Step /\ UNCHANGED overlap

Spec == Init /\ [][Next]_vars

-----------------------------------------------------------------------------
(* Properties                                                              *)

(* No copy of a period, however stale, locks it for good unless the        *)
(* approval of a request to lock it was announced                          *)
(* (completePeriodLockWorkflowApproval).  The request may have been        *)
(* rejected or withdrawn over that since.                                  *)
LockedByApproval ==
    \A p \in Periods : Status(p) = "LOCKED" =>
        \E d \in DOMAIN decisions : Grants(d, "LOCK") /\ Decided(d).period = p

(* A period is reopened at most as often as an approval to reopen it was   *)
(* announced, and never beyond the limit, whichever copies of its counter  *)
(* are saved over each other.  (Two approvers who have loaded the same     *)
(* request announce two approvals of it.)                                  *)
Approvals(p) == {d \in DOMAIN decisions : Grants(d, "REOPEN") /\ Decided(d).period = p}

ReopenedByApproval ==
    \A p \in Periods : /\ periods[p].reopens <= Cardinality(Approvals(p))
                       /\ periods[p].reopens <= MaxReopens

(* The result of a closed period was carried to account 421 in full: what  *)
(* was posted, reversed, closed, reopened and closed again leaves nothing  *)
(* on its revenue and expense accounts, served one at a time.              *)
ResultCarried == ~ overlap => \A p \in Periods : Status(p) # "OPEN" => Balance(p) = 0

(* The closing entry a period names is the only one that is not undone,    *)
(* served one at a time: reopening undoes exactly that one.                *)
Undone(e) == \E f \in DOMAIN entries : entries[f].kind = "REOPEN" /\ entries[f].of = e

ClosingEntryKnown ==
    ~ overlap => \A e \in DOMAIN entries :
        entries[e].kind = "CLOSE" => (Undone(e) <=> periods[entries[e].period].closing # e)
=============================================================================
