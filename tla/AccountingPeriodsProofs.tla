------------------------ MODULE AccountingPeriodsProofs ------------------------
(***************************************************************************)
(* A period is locked and reopened by approval only, however stale the     *)
(* copies that are saved; and, for requests served one at a time, the      *)
(* closing entries carry the result of a period exactly once.  For any     *)
(* number of periods, amounts and requests.                                *)
(*                                                                         *)
(* The first two rest on what every copy of a period owes to decisions     *)
(* already heard; the others on what a request served alone has read being *)
(* what the tables still say.                                              *)
(***************************************************************************)
EXTENDS AccountingPeriods, SumTheorems

-----------------------------------------------------------------------------
(* Whatever overlaps                                                       *)

Hears(job) == job.op \in {"hear", "complete"}

(* Whether a job holds a copy of period p                                  *)
HasCopyOf(job, p) ==
    \/ job.op \in {"close", "closing", "askReopen", "askLock"} /\ job.period = p
    \/ job.op = "complete" /\ Decided(job.decision).period = p

(* The approvals to reopen a period that no worker has still to carry out  *)
CarriedOut(p) ==
    {d \in Approvals(p) : \A w \in Workers : Hears(jobs[w]) => jobs[w].decision # d}

LockApproved(p) ==
    \E d \in DOMAIN decisions : Grants(d, "LOCK") /\ Decided(d).period = p

(* What the row of a period, or a copy of it, owes to decisions            *)
RowSound(row, p) ==
    /\ row.closing \in 0 .. Len(entries)
    /\ row.status = "LOCKED" => LockApproved(p)
    /\ row.reopens <= Cardinality(CarriedOut(p))
    /\ row.reopens <= MaxReopens

JobSound(job) ==
    /\ \A p \in Periods : HasCopyOf(job, p) => RowSound(job.read, p)
    /\ job.op = "post" => /\ job.of \in 0 .. Len(entries)
                          /\ job.kind = "REVERSAL" => job.of # 0
    /\ job.op \in {"act", "withdraw"} => job.req \in DOMAIN requests
    /\ Hears(job) => job.decision \in DOMAIN decisions
    /\ job.op = "complete" /\ Grants(job.decision, "REOPEN") => job.read.reopens < MaxReopens

RowsSound == \A p \in Periods : RowSound(periods[p], p)
JobsSound == \A w \in Workers : JobSound(jobs[w])

(* A decision is about a request that there is, and is heard once.         *)
DecisionsSound == \A d \in DOMAIN decisions : decisions[d].req \in DOMAIN requests

HeardOnce ==
    \A v, w \in Workers :
        Hears(jobs[v]) /\ Hears(jobs[w]) /\ jobs[v].decision = jobs[w].decision => v = w

Inductive == TypeOK /\ DecisionsSound /\ RowsSound /\ JobsSound /\ HeardOnce

-----------------------------------------------------------------------------
(* Served one at a time                                                    *)

AtMostOne == \A v, w \in Workers : jobs[v] # Idle /\ jobs[w] # Idle => v = w

(* What a request served alone has read is what the tables say.            *)
JobCurrent(job) ==
    /\ \A p \in Periods : HasCopyOf(job, p) => job.read = periods[p]
    /\ job.op \in {"post", "close", "closing"} => Status(job.period) = "OPEN"
    /\ job.op = "closing" => job.balance = Balance(job.period)
    /\ job.op = "complete" /\ decisions[job.decision].outcome = "APPROVED" =>
          Status(Decided(job.decision).period) = "CLOSED"

(* A closing entry that a period names is its own, and an open period names none. *)
ClosingOK ==
    \A p \in Periods :
        /\ Status(p) = "OPEN" => periods[p].closing = 0
        /\ periods[p].closing # 0 =>
              /\ entries[periods[p].closing].kind = "CLOSE"
              /\ entries[periods[p].closing].period = p

(* An entry undoes an earlier one.                                         *)
UndoneBefore == \A f \in DOMAIN entries : entries[f].of < f

Carried == \A p \in Periods : Status(p) # "OPEN" => Balance(p) = 0

ClosingUndone ==
    \A e \in DOMAIN entries :
        entries[e].kind = "CLOSE" => (Undone(e) <=> periods[entries[e].period].closing # e)

Ledger == ClosingOK /\ UndoneBefore /\ Carried /\ ClosingUndone
Serial ==
    ~ overlap =>
        /\ AtMostOne
        /\ \A w \in Workers : JobCurrent(jobs[w])
        /\ Ledger

-----------------------------------------------------------------------------
(* Types                                                                   *)

(* What a job of each kind holds                                           *)
LEMMA JobFacts ==
    ASSUME NEW job \in Job
    PROVE  /\ job.op \in {"idle", "post", "close", "askReopen", "askLock", "closing",
                           "act", "withdraw", "hear", "complete"}
           /\ job.op = "idle" => job = Idle
           /\ job.op = "post" =>
                 /\ job.period \in Periods /\ job.of \in Nat
                 /\ job.kind \in {"POSTED", "REVERSAL"}
           /\ job.op \in {"close", "closing", "askReopen", "askLock"} =>
                 job.period \in Periods /\ job.read \in Period
           /\ job.op = "closing" => job.balance \in Int
           /\ job.op \in {"act", "withdraw"} => job.req \in Nat
           /\ Hears(job) => job.decision \in Nat
           /\ job.op = "complete" => job.read \in Period
  BY DEF Job, Idle, Hears

LEMMA IdleFacts ==
    Idle \in Job /\ ~ Hears(Idle) /\ JobSound(Idle) /\ \A p : ~ HasCopyOf(Idle, p)
  BY DEF Idle, Job, Hears, JobSound, HasCopyOf

(* What a saved row holds comes from the row or from the copy.             *)
LEMMA SavedPeriod ==
    ASSUME NEW row \in Period, NEW read \in Period, NEW new \in Period,
           NEW after \in Saved(row, read, new)
    PROVE  /\ after \in Period
           /\ after.status = new.status \/ (new.status = read.status /\ after.status = row.status)
           /\ after.closing = new.closing \/ (new.closing = read.closing /\ after.closing = row.closing)
           /\ after.reopens = new.reopens \/ (new.reopens = read.reopens /\ after.reopens = row.reopens)
           /\ row = read => after.status = new.status /\ after.closing = new.closing
<1> DEFINE merged == [f \in DOMAIN row |-> IF new[f] # read[f] THEN new[f] ELSE row[f]]
<1>1. DOMAIN row = {"status", "closing", "reopens", "reopenReq", "lockReq"}
  BY DEF Period
<1>2. /\ merged.status = IF new.status # read.status THEN new.status ELSE row.status
      /\ merged.closing = IF new.closing # read.closing THEN new.closing ELSE row.closing
      /\ merged.reopens = IF new.reopens # read.reopens THEN new.reopens ELSE row.reopens
      /\ merged.reopenReq = IF new.reopenReq # read.reopenReq THEN new.reopenReq ELSE row.reopenReq
      /\ merged.lockReq = IF new.lockReq # read.lockReq THEN new.lockReq ELSE row.lockReq
  BY <1>1
<1>3. merged = [status |-> merged.status, closing |-> merged.closing,
                reopens |-> merged.reopens, reopenReq |-> merged.reopenReq,
                lockReq |-> merged.lockReq]
  BY <1>1
<1> HIDE DEF merged
<1>4. merged \in Period
  BY <1>2, <1>3 DEF Period
<1>5. after = new \/ after = merged
  BY DEF Saved, merged
<1> QED
  BY <1>2, <1>4, <1>5

(* At first there is nothing to rely on.                                   *)
LEMMA InitInductive == Init => Inductive
<1> SUFFICES ASSUME Init PROVE Inductive
  OBVIOUS
<1>1. /\ entries = <<>> /\ requests = <<>> /\ decisions = <<>>
      /\ DOMAIN decisions = {} /\ Len(entries) = 0
      /\ \A w \in Workers : jobs[w] = Idle
  BY DEF Init
<1>2. TypeOK
  <2>1. periods \in [Periods -> Period]
    BY DEF Init, Period
  <2>2. jobs \in [Workers -> Job]
    BY IdleFacts DEF Init
  <2> QED
    BY <1>1, <2>1, <2>2 DEF Init, TypeOK
<1>3. JobsSound /\ HeardOnce /\ DecisionsSound
  BY <1>1, IdleFacts DEF JobsSound, HeardOnce, DecisionsSound
<1>4. ASSUME NEW p \in Periods PROVE RowSound(periods[p], p)
  <2>1. periods[p].closing = 0 /\ periods[p].status = "OPEN" /\ periods[p].reopens = 0
    BY DEF Init
  <2>2. CarriedOut(p) = {}
    BY <1>1 DEF CarriedOut, Approvals
  <2>3. Cardinality(CarriedOut(p)) = 0
    BY <2>2, FS_EmptySet
  <2> QED
    BY <1>1, <2>1, <2>3, ReopensAssumption DEF RowSound
<1> QED
  BY <1>2, <1>3, <1>4 DEF Inductive, RowsSound

-----------------------------------------------------------------------------
(* What every action leaves to those who rely on it                        *)

Grown ==
    /\ Len(entries) \in Nat /\ Len(entries)' \in Nat /\ Len(entries) <= Len(entries)'
    /\ DOMAIN requests \subseteq DOMAIN requests'
    /\ \A r \in DOMAIN requests :
          /\ requests'[r].type = requests[r].type
          /\ requests'[r].period = requests[r].period
    /\ DOMAIN decisions \subseteq DOMAIN decisions'
    /\ \A d \in DOMAIN decisions : decisions'[d] = decisions[d]
    /\ DecisionsSound'

(* What the jobs become when one worker goes on with another: it hears of  *)
(* a decision that it heard of before, or that was just announced.         *)
Becomes(w, job) ==
    /\ DOMAIN jobs' = Workers /\ jobs'[w] = job
    /\ \A v \in Workers \ {w} : jobs'[v] = jobs[v]

Hearing(w, job) ==
    Hears(job) =>
        \/ Hears(jobs[w]) /\ jobs[w].decision = job.decision
        \/ job.decision \notin DOMAIN decisions

LEMMA JobsBecome ==
    ASSUME TypeOK, NEW w \in Workers
    PROVE  /\ \A job : Begin(w, job) \/ Proceed(w, job) => Becomes(w, job)
           /\ Finish(w) => Becomes(w, Idle)
           /\ UNCHANGED jobs => Becomes(w, jobs[w])
  BY DEF TypeOK, Becomes, Begin, Proceed, Finish

(* A decision that was announced stays what it is.                         *)
LEMMA DecisionStays ==
    ASSUME DecisionsSound, Grown, NEW d \in DOMAIN decisions
    PROVE  /\ d \in DOMAIN decisions' /\ decisions'[d] = decisions[d]
           /\ Decided(d)'.type = Decided(d).type /\ Decided(d)'.period = Decided(d).period
           /\ \A type : Grants(d, type)' <=> Grants(d, type)
<1>1. d \in DOMAIN decisions' /\ decisions'[d] = decisions[d]
  BY DEF Grown
<1>2. decisions[d].req \in DOMAIN requests
  BY DEF DecisionsSound
<1>3. Decided(d)'.type = Decided(d).type /\ Decided(d)'.period = Decided(d).period
  BY <1>1, <1>2 DEF Grown, Decided
<1> QED
  BY <1>1, <1>3 DEF Grants

(* Approvals that were carried out stay carried out.                       *)
LEMMA CarriedOutGrows ==
    ASSUME TypeOK, DecisionsSound, TypeOK', Grown, NEW w \in Workers, NEW job, Becomes(w, job),
           Hearing(w, job), NEW p \in Periods
    PROVE  /\ CarriedOut(p) \subseteq CarriedOut(p)'
           /\ IsFiniteSet(CarriedOut(p)) /\ IsFiniteSet(CarriedOut(p)')
           /\ Cardinality(CarriedOut(p)) \in Nat /\ Cardinality(CarriedOut(p)') \in Nat
           /\ Cardinality(CarriedOut(p)) <= Cardinality(CarriedOut(p)')
<1>1. ASSUME NEW d \in CarriedOut(p) PROVE d \in CarriedOut(p)'
  <2>1. /\ d \in DOMAIN decisions /\ Grants(d, "REOPEN") /\ Decided(d).period = p
        /\ \A v \in Workers : Hears(jobs[v]) => jobs[v].decision # d
    BY DEF CarriedOut, Approvals
  <2>2. d \in Approvals(p)'
    BY <2>1, DecisionStays DEF Approvals
  <2>3. ASSUME NEW v \in Workers, Hears(jobs'[v]) PROVE jobs'[v].decision # d
    BY <2>1, <2>3 DEF Becomes, Hearing
  <2>4. \A v \in Workers : Hears(jobs[v])' => jobs'[v].decision # d
    BY <2>3 DEF Hears
  <2> QED
    BY <2>2, <2>4 DEF CarriedOut
<1>2. CarriedOut(p) \subseteq CarriedOut(p)'
  BY <1>1
<1>3. IsFiniteSet(CarriedOut(p)')
  <2>1. CarriedOut(p)' \subseteq 1 .. Len(decisions)'
    BY DEF CarriedOut, Approvals, TypeOK
  <2>2. Len(decisions)' \in Nat
    BY DEF TypeOK
  <2>3. IsFiniteSet(1 .. Len(decisions)')
    BY <2>2, FS_Interval
  <2> QED
    BY <2>1, <2>3, FS_Subset
<1> QED
  BY <1>2, <1>3, FS_Subset, FS_CardinalityType

(* What a row owed to decisions it still owes.                             *)
LEMMA RowStays ==
    ASSUME TypeOK, DecisionsSound, TypeOK', Grown, NEW w \in Workers, NEW job, Becomes(w, job),
           Hearing(w, job), NEW p \in Periods, NEW row \in Period, RowSound(row, p)
    PROVE  RowSound(row, p)'
<1>1. row.closing \in 0 .. Len(entries)'
  BY DEF RowSound, Grown
<1>2. LockApproved(p) => LockApproved(p)'
  BY DecisionStays DEF LockApproved
<1>3. row.reopens <= Cardinality(CarriedOut(p)')
  <2>1. row.reopens \in Nat /\ row.reopens <= Cardinality(CarriedOut(p))
    BY DEF RowSound, Period
  <2> QED
    BY <2>1, CarriedOutGrows
<1> QED
  BY <1>1, <1>2, <1>3 DEF RowSound

(* What a request in progress relies on stays true.                        *)
LEMMA JobStays ==
    ASSUME TypeOK, DecisionsSound, TypeOK', Grown, NEW w \in Workers, NEW next, Becomes(w, next),
           Hearing(w, next), NEW job \in Job, JobSound(job)
    PROVE  JobSound(job)'
<1>1. Hears(job) => job.decision \in DOMAIN decisions
  BY DEF JobSound
<1>2. Hears(job) =>
         /\ job.decision \in DOMAIN decisions'
         /\ Decided(job.decision)'.period = Decided(job.decision).period
         /\ Grants(job.decision, "REOPEN")' <=> Grants(job.decision, "REOPEN")
  BY <1>1, DecisionStays
<1>3. ASSUME NEW p \in Periods, HasCopyOf(job, p)' PROVE RowSound(job.read, p)'
  <2>1. HasCopyOf(job, p)
    BY <1>2, <1>3 DEF HasCopyOf, Hears
  <2>2. job.read \in Period
    BY <2>1, JobFacts DEF HasCopyOf
  <2> QED
    BY <2>1, <2>2, RowStays DEF JobSound
<1>4. job.op = "post" => /\ job.of \in 0 .. Len(entries)'
                         /\ job.kind = "REVERSAL" => job.of # 0
  BY DEF JobSound, Grown
<1>5. job.op \in {"act", "withdraw"} => job.req \in DOMAIN requests'
  BY DEF JobSound, Grown
<1>6. job.op = "complete" /\ Grants(job.decision, "REOPEN")' => job.read.reopens < MaxReopens
  BY <1>2 DEF JobSound, Hears
<1> QED
  BY <1>2, <1>3, <1>4, <1>5, <1>6 DEF JobSound, Hears

(* What an action of one worker has to do to keep the invariant            *)
LEMMA ActionKeepsInductive ==
    ASSUME Inductive, TypeOK', Grown, NEW w \in Workers, NEW job \in Job, Becomes(w, job),
           Hearing(w, job), JobSound(job) \/ JobSound(jobs[w])',
           \A p \in Periods : RowSound(periods'[p], p) \/ RowSound(periods[p], p)'
    PROVE  Inductive'
<1>1. RowsSound'
  <2> SUFFICES ASSUME NEW p \in Periods PROVE RowSound(periods[p], p)'
    BY DEF RowsSound
  <2>1. PICK row \in Period : row = periods'[p]
    BY DEF TypeOK
  <2>2. RowSound(row, p) => RowSound(row, p)'
    BY <2>1, RowStays DEF Inductive
  <2>3. RowSound(row, p)' => RowSound(periods[p], p)'
    BY <2>1 DEF RowSound
  <2> QED
    BY <2>1, <2>2, <2>3
<1>2. ASSUME NEW v \in Workers PROVE JobSound(jobs[v])'
  <2>1. PICK old \in Job : old = jobs'[v]
    BY DEF TypeOK
  <2>2. JobSound(old)' => JobSound(jobs[v])'
    BY <2>1 DEF JobSound, Hears, HasCopyOf, RowSound, Decided, Grants
  <2>3. CASE v # w
    <3>1. JobSound(old)
      BY <2>1, <2>3 DEF Becomes, Inductive, JobsSound
    <3> QED
      BY <2>2, <3>1, JobStays DEF Inductive
  <2>4. CASE v = w
    <3>1. old = job
      BY <2>1, <2>4 DEF Becomes
    <3> QED
      BY <2>2, <2>4, <3>1, JobStays DEF Inductive
  <2> QED
    BY <2>3, <2>4
<1>3. ASSUME NEW u \in Workers, NEW v \in Workers, Hears(jobs'[u]), Hears(jobs'[v]),
             jobs'[u].decision = jobs'[v].decision
      PROVE  u = v
  <2>1. \A x \in Workers : Hears(jobs[x]) => jobs[x].decision \in DOMAIN decisions
    BY DEF Inductive, JobsSound, JobSound
  <2>2. \A x, y \in Workers :
           Hears(jobs[x]) /\ Hears(jobs[y]) /\ jobs[x].decision = jobs[y].decision => x = y
    BY DEF Inductive, HeardOnce
  <2> QED
    BY <1>3, <2>1, <2>2 DEF Becomes, Hearing
<1>4. HeardOnce'
  BY <1>3 DEF HeardOnce, Hears
<1> QED
  BY <1>1, <1>2, <1>4 DEF Inductive, JobsSound, Grown

LEMMA TablesGrow ==
    ASSUME TypeOK, DecisionsSound, TypeOK', UNCHANGED decisions
    PROVE  /\ UNCHANGED <<entries, requests>> => Grown
           /\ \A entry : entries' = Append(entries, entry) /\ UNCHANGED requests => Grown
           /\ \A new : requests' = Append(requests, new) /\ UNCHANGED entries => Grown
<1>1. Len(entries) \in Nat /\ Len(entries)' \in Nat
  BY DEF TypeOK
<1>2. UNCHANGED <<entries, requests>> => Grown
  BY <1>1 DEF Grown, DecisionsSound
<1>3. ASSUME NEW entry, entries' = Append(entries, entry), UNCHANGED requests PROVE Grown
  <2>1. Len(entries) <= Len(entries)'
    BY <1>3 DEF TypeOK
  <2> QED
    BY <1>1, <1>3, <2>1 DEF Grown, DecisionsSound
<1>4. ASSUME NEW new, requests' = Append(requests, new), UNCHANGED entries PROVE Grown
  <2>1. DOMAIN requests = 1 .. Len(requests) /\ DOMAIN requests' = 1 .. Len(requests) + 1
    BY <1>4 DEF TypeOK
  <2>2. \A r \in DOMAIN requests : requests'[r] = requests[r]
    BY <1>4 DEF TypeOK
  <2>3. Len(requests) \in Nat
    BY DEF TypeOK
  <2>4. DOMAIN requests \subseteq DOMAIN requests'
    BY <2>1, <2>3
  <2> QED
    BY <1>1, <1>4, <2>2, <2>4 DEF Grown, DecisionsSound
<1> QED
  BY <1>2, <1>3, <1>4

-----------------------------------------------------------------------------
(* Every action keeps the invariant.                                       *)

LEMMA CheckKeepsInductive ==
    ASSUME Inductive, NEW w \in Workers, NEW p \in Periods, UNCHANGED overlap,
           CheckPosting(w, p) \/ \E e \in DOMAIN entries : CheckReversal(w, p, e)
    PROVE  Inductive'
<1>1. PICK kind \in {"POSTED", "REVERSAL"}, of \in 0 .. Len(entries) :
         /\ Begin(w, [op |-> "post", period |-> p, kind |-> kind, of |-> of])
         /\ kind = "REVERSAL" => of # 0
  <2>1. DOMAIN entries = 1 .. Len(entries) /\ Len(entries) \in Nat
    BY DEF Inductive, TypeOK
  <2>2. DOMAIN entries \subseteq (0 .. Len(entries)) \ {0} /\ 0 \in 0 .. Len(entries)
    BY <2>1
  <2>3. CASE CheckPosting(w, p)
    BY <2>2, <2>3 DEF CheckPosting
  <2>4. CASE \E e \in DOMAIN entries : CheckReversal(w, p, e)
    BY <2>2, <2>4 DEF CheckReversal
  <2> QED
    BY <2>3, <2>4
<1>2. UNCHANGED <<periods, entries, requests, decisions>>
  BY DEF CheckPosting, CheckReversal
<1>3. PICK job : job = [op |-> "post", period |-> p, kind |-> kind, of |-> of]
  OBVIOUS
<1>4. job \in Job
  <2>1. of \in Nat
    BY DEF Inductive, TypeOK
  <2> QED
    BY <1>3, <2>1 DEF Job
<1>5. Becomes(w, job)
  BY <1>1, <1>3, JobsBecome DEF Inductive
<1>6. TypeOK'
  BY <1>1, <1>2, <1>3, <1>4 DEF Inductive, TypeOK, Begin
<1>7. JobSound(job)
  BY <1>1, <1>3 DEF JobSound, HasCopyOf, Hears
<1>8. Hearing(w, job)
  BY <1>3 DEF Hearing, Hears
<1>9. \A q \in Periods : RowSound(periods'[q], q)
  BY <1>2 DEF Inductive, RowsSound
<1> QED
  BY <1>2, <1>4, <1>5, <1>6, <1>7, <1>8, <1>9, TablesGrow, ActionKeepsInductive DEF Inductive

(* A request reads a period: its copy is as sound as the row.              *)
LEMMA ReadKeepsInductive ==
    ASSUME Inductive, NEW w \in Workers, NEW p \in Periods, UNCHANGED overlap,
           ReadForClose(w, p) \/ ReadForReopen(w, p) \/ ReadForLock(w, p)
    PROVE  Inductive'
<1>1. PICK op \in {"close", "askReopen", "askLock"} :
         Begin(w, [op |-> op, period |-> p, read |-> periods[p]])
  BY DEF ReadForClose, ReadForReopen, ReadForLock
<1>2. UNCHANGED <<periods, entries, requests, decisions>>
  BY DEF ReadForClose, ReadForReopen, ReadForLock
<1>3. PICK job : job = [op |-> op, period |-> p, read |-> periods[p]]
  OBVIOUS
<1>4. job \in Job
  BY <1>3 DEF Job, Inductive, TypeOK
<1>5. Becomes(w, job)
  BY <1>1, <1>3, JobsBecome DEF Inductive
<1>6. TypeOK'
  BY <1>1, <1>2, <1>3, <1>4 DEF Inductive, TypeOK, Begin
<1>7. JobSound(job)
  BY <1>3 DEF JobSound, HasCopyOf, Hears, Inductive, RowsSound
<1>8. Hearing(w, job)
  BY <1>3 DEF Hearing, Hears
<1>9. \A q \in Periods : RowSound(periods'[q], q)
  BY <1>2 DEF Inductive, RowsSound
<1> QED
  BY <1>2, <1>4, <1>5, <1>6, <1>7, <1>8, <1>9, TablesGrow, ActionKeepsInductive DEF Inductive

LEMMA ReversedEntry ==
    ASSUME Inductive, NEW w \in Workers, jobs[w].op = "post", jobs[w].kind = "REVERSAL"
    PROVE  jobs[w].of \in DOMAIN entries
<1>1. DOMAIN entries = 1 .. Len(entries) /\ Len(entries) \in Nat
  BY DEF Inductive, TypeOK
<1>2. jobs[w].of \in 0 .. Len(entries) /\ jobs[w].of # 0
  BY DEF Inductive, JobsSound, JobSound
<1> QED
  BY <1>1, <1>2

(* The entry that Insert makes                                             *)
LEMMA InsertedEntry ==
    ASSUME Inductive, NEW w \in Workers, NEW amount \in Amounts, Insert(w, amount)
    PROVE  \E entry \in Entry :
              /\ entries' = Append(entries, entry)
              /\ entry.kind \in {"POSTED", "REVERSAL"}
              /\ entry.period = jobs[w].period /\ entry.of = jobs[w].of
<1>1. PICK job \in Job : job = jobs[w] /\ job.op = "post"
  BY DEF Inductive, TypeOK, Insert
<1>2. job.period \in Periods /\ job.of \in Nat /\ job.kind \in {"POSTED", "REVERSAL"}
  BY <1>1, JobFacts
<1>3. PICK result : result = IF job.kind = "REVERSAL" THEN - entries[job.of].result ELSE amount
  OBVIOUS
<1>4. result \in Int
  <2>1. CASE job.kind = "REVERSAL"
    <3>1. entries[job.of] \in Entry
      BY <1>1, <2>1, ReversedEntry DEF Inductive, TypeOK
    <3>2. entries[job.of].result \in Int
      BY <3>1 DEF Entry
    <3> QED
      BY <1>3, <2>1, <3>2
  <2> QED
    BY <1>3, <2>1, AmountsAssumption
<1>5. PICK entry : entry = NewEntry(job.kind, job.period, result, job.of)
  OBVIOUS
<1>6. entry \in Entry
  BY <1>2, <1>4, <1>5 DEF NewEntry, Entry
<1>7. entries' = Append(entries, entry)
  BY <1>1, <1>3, <1>5 DEF Insert
<1> QED
  BY <1>1, <1>2, <1>5, <1>6, <1>7 DEF NewEntry

LEMMA InsertKeepsInductive ==
    ASSUME Inductive, NEW w \in Workers, NEW amount \in Amounts, Insert(w, amount),
           UNCHANGED overlap
    PROVE  Inductive'
<1>1. PICK entry \in Entry : entries' = Append(entries, entry)
  BY InsertedEntry
<1>2. UNCHANGED <<periods, requests, decisions>> /\ Becomes(w, Idle)
  BY JobsBecome DEF Insert, Inductive
<1>3. TypeOK'
  <2>1. entries' \in Seq(Entry)
    BY <1>1 DEF Inductive, TypeOK
  <2>2. jobs' \in [Workers -> Job]
    BY IdleFacts DEF Inductive, TypeOK, Insert, Finish
  <2> QED
    BY <1>2, <2>1, <2>2 DEF Inductive, TypeOK
<1>4. \A q \in Periods : RowSound(periods'[q], q)
  BY <1>2 DEF Inductive, RowsSound
<1>5. Hearing(w, Idle) /\ Grown
  BY <1>1, <1>2, <1>3, TablesGrow, IdleFacts DEF Hearing, Inductive
<1> QED
  BY <1>2, <1>3, <1>4, <1>5, IdleFacts, ActionKeepsInductive

LEMMA AbandonKeepsInductive ==
    ASSUME Inductive, NEW w \in Workers, UNCHANGED overlap,
           UNCHANGED <<periods, entries, requests, decisions>>, Finish(w)
    PROVE  Inductive'
<1>1. Becomes(w, Idle)
  BY JobsBecome DEF Inductive
<1>2. TypeOK'
  BY IdleFacts DEF Inductive, TypeOK, Finish
<1>3. \A q \in Periods : RowSound(periods'[q], q)
  BY DEF Inductive, RowsSound
<1>4. Hearing(w, Idle) /\ Grown
  BY <1>2, TablesGrow, IdleFacts DEF Hearing, Inductive
<1> QED
  BY <1>1, <1>2, <1>3, <1>4, IdleFacts, ActionKeepsInductive

(* The balance of a period is an integer.                                  *)
LEMMA BalanceFacts ==
    ASSUME TypeOK, NEW p \in Periods
    PROVE  Balance(p) \in Int
<1>1. PICK f : f = [e \in DOMAIN entries |-> IF entries[e].period = p THEN entries[e].result
                                                                    ELSE 0]
  OBVIOUS
<1>2. DOMAIN entries = 1 .. Len(entries) /\ Len(entries) \in Nat
  BY DEF TypeOK
<1>3. ASSUME NEW e \in DOMAIN entries PROVE entries[e].result \in Int
  <2>1. entries[e] \in Entry
    BY DEF TypeOK
  <2> QED
    BY <2>1 DEF Entry
<1>4. f \in [1 .. Len(entries) -> Int]
  BY <1>1, <1>2, <1>3
<1> QED
  BY <1>1, <1>2, <1>4, SumToInt DEF Balance

LEMMA BuildClosingItemsKeepsInductive ==
    ASSUME Inductive, NEW w \in Workers, BuildClosingItems(w), UNCHANGED overlap
    PROVE  Inductive'
<1>1. PICK old \in Job : old = jobs[w] /\ old.op = "close"
  BY DEF Inductive, TypeOK, BuildClosingItems
<1>2. old.period \in Periods /\ old.read \in Period
  BY <1>1, JobFacts
<1>3. PICK balance \in Int : balance = Balance(old.period)
  BY <1>2, BalanceFacts DEF Inductive
<1>4. PICK job : job = [op |-> "closing", period |-> old.period, read |-> old.read,
                        balance |-> balance]
  OBVIOUS
<1>5. UNCHANGED <<periods, entries, requests, decisions>> /\ Proceed(w, job)
  BY <1>1, <1>3, <1>4 DEF BuildClosingItems
<1>6. job \in Job
  BY <1>2, <1>4 DEF Job
<1>7. Becomes(w, job)
  BY <1>5, JobsBecome DEF Inductive
<1>8. TypeOK'
  BY <1>5, <1>6 DEF Inductive, TypeOK, Proceed
<1>9. JobSound(job)
  <2>1. JobSound(old)
    BY <1>1 DEF Inductive, JobsSound
  <2> QED
    BY <1>1, <1>4, <2>1 DEF JobSound, HasCopyOf, Hears
<1>10. Hearing(w, job)
  BY <1>4 DEF Hearing, Hears
<1>11. \A q \in Periods : RowSound(periods'[q], q)
  BY <1>5 DEF Inductive, RowsSound
<1> QED
  BY <1>5, <1>6, <1>7, <1>8, <1>9, <1>10, <1>11, TablesGrow, ActionKeepsInductive DEF Inductive

(* The copy a worker saves is a row of a period.                           *)
LEMMA CopyFacts ==
    ASSUME Inductive, NEW w \in Workers, NEW p \in Periods, HasCopyOf(jobs[w], p)
    PROVE  /\ jobs[w].read \in Period /\ RowSound(jobs[w].read, p)
           /\ periods[p] \in Period /\ RowSound(periods[p], p)
<1>1. jobs[w] \in Job
  BY DEF Inductive, TypeOK
<1>2. jobs[w].read \in Period
  BY <1>1, JobFacts DEF HasCopyOf
<1> QED
  BY <1>2 DEF Inductive, TypeOK, RowsSound, JobsSound, JobSound

LEMMA ClosePeriodKeepsInductive ==
    ASSUME Inductive, NEW w \in Workers, ClosePeriod(w), UNCHANGED overlap
    PROVE  Inductive'
<1>1. PICK job \in Job : job = jobs[w] /\ job.op = "closing"
  BY DEF Inductive, TypeOK, ClosePeriod
<1>2. /\ job.period \in Periods /\ job.balance \in Int
      /\ Len(entries) \in Nat
  BY <1>1, JobFacts DEF Inductive, TypeOK
<1>3. PICK p \in Periods : p = job.period
  BY <1>2
<1>4. /\ job.read \in Period /\ RowSound(job.read, p)
      /\ periods[p] \in Period /\ RowSound(periods[p], p)
  BY <1>1, <1>3, CopyFacts DEF HasCopyOf
<1>5. ClosingEntry(job) \in Entry
  BY <1>2 DEF ClosingEntry, NewEntry, Entry
<1>6. entries' = IF job.balance = 0 THEN entries ELSE Append(entries, ClosingEntry(job))
  BY <1>1 DEF ClosePeriod
<1>7. PICK closing \in 0 .. Len(entries)' :
         closing = IF job.balance = 0 THEN 0 ELSE Len(entries')
  <2>1. Len(entries)' \in Nat
    BY <1>2, <1>5, <1>6 DEF Inductive, TypeOK
  <2> QED
    BY <2>1
<1>8. PICK new : new = [job.read EXCEPT !.status = "CLOSED", !.closing = closing]
  OBVIOUS
<1>9. PICK row \in Saved(periods[p], job.read, new) : periods' = [periods EXCEPT ![p] = row]
  BY <1>1, <1>3, <1>7, <1>8 DEF ClosePeriod
<1>10. /\ new \in Period /\ new.status = "CLOSED" /\ new.closing = closing
       /\ new.reopens = job.read.reopens
  <2>1. closing \in Nat
    BY <1>7
  <2>2. ASSUME NEW read \in Period
        PROVE  LET changed == [read EXCEPT !.status = "CLOSED", !.closing = closing]
               IN  /\ changed \in Period /\ changed.status = "CLOSED"
                   /\ changed.closing = closing /\ changed.reopens = read.reopens
    BY <2>1 DEF Period
  <2> QED
    BY <1>4, <1>8, <2>2
<1>11. /\ row \in Period /\ row.status \in {"CLOSED", periods[p].status}
       /\ row.closing \in {closing, periods[p].closing}
       /\ row.reopens \in {job.read.reopens, periods[p].reopens}
  BY <1>4, <1>10, SavedPeriod
<1>12. UNCHANGED <<requests, decisions>> /\ Becomes(w, Idle) /\ Hearing(w, Idle)
  BY JobsBecome, IdleFacts DEF ClosePeriod, Inductive, Hearing
<1>13. TypeOK'
  <2>1. jobs' \in [Workers -> Job]
    BY IdleFacts DEF Inductive, TypeOK, ClosePeriod, Finish
  <2>2. periods' \in [Periods -> Period]
    BY <1>9, <1>11 DEF Inductive, TypeOK
  <2>3. entries' \in Seq(Entry)
    BY <1>5, <1>6 DEF Inductive, TypeOK
  <2> QED
    BY <1>12, <2>1, <2>2, <2>3 DEF Inductive, TypeOK
<1>14. Grown
  BY <1>6, <1>12, <1>13, TablesGrow DEF Inductive
<1>15. RowSound(row, p)'
  <2>1. PICK before \in Period, read \in Period : before = periods[p] /\ read = job.read
    BY <1>4
  <2>2. RowSound(before, p)' /\ RowSound(read, p)'
    BY <1>4, <1>12, <1>13, <1>14, <2>1, RowStays DEF Inductive
  <2>3. row.status \in {"CLOSED", before.status} /\ row.closing \in {closing, before.closing}
        /\ row.reopens \in {read.reopens, before.reopens}
    BY <1>11, <2>1
  <2> QED
    BY <1>7, <2>2, <2>3 DEF RowSound
<1>16. \A q \in Periods : RowSound(periods'[q], q) \/ RowSound(periods[q], q)'
  <2>1. RowSound(row, p)' => RowSound(periods[p], p)'
    BY <1>9 DEF RowSound, Inductive, TypeOK
  <2> QED
    BY <1>9, <1>15, <2>1 DEF Inductive, RowsSound, TypeOK
<1> QED
  BY <1>12, <1>13, <1>14, <1>16, IdleFacts, ActionKeepsInductive

(* A save that leaves the closing entry and the counter of the copy alone  *)
(* and locks only by approval leaves a sound row.                          *)
LEMMA SoundSave ==
    ASSUME Inductive, NEW w \in Workers, NEW p \in Periods, HasCopyOf(jobs[w], p),
           NEW new \in Period, new.closing = jobs[w].read.closing,
           new.reopens = jobs[w].read.reopens,
           new.status = jobs[w].read.status \/ (new.status = "LOCKED" /\ LockApproved(p)),
           NEW row \in Saved(periods[p], jobs[w].read, new),
           periods' = [periods EXCEPT ![p] = row]
    PROVE  /\ periods' \in [Periods -> Period]
           /\ \A q \in Periods : RowSound(periods'[q], q)
<1>1. /\ jobs[w].read \in Period /\ RowSound(jobs[w].read, p)
      /\ periods[p] \in Period /\ RowSound(periods[p], p)
  BY CopyFacts
<1>2. PICK before \in Period, read \in Period : before = periods[p] /\ read = jobs[w].read
  BY <1>1
<1>3. /\ row \in Period /\ row.status \in {new.status, before.status}
      /\ row.closing \in {new.closing, before.closing}
      /\ row.reopens \in {new.reopens, before.reopens}
  BY <1>2, SavedPeriod
<1>4. RowSound(row, p)
  BY <1>1, <1>2, <1>3 DEF RowSound
<1> QED
  BY <1>3, <1>4 DEF Inductive, TypeOK, RowsSound

LEMMA RequestApprovalKeepsInductive ==
    ASSUME Inductive, NEW w \in Workers, RequestApproval(w), UNCHANGED overlap
    PROVE  Inductive'
<1>1. PICK job \in Job : job = jobs[w] /\ job.op \in {"askReopen", "askLock"}
  BY DEF Inductive, TypeOK, RequestApproval
<1>2. PICK p \in Periods : p = job.period
  BY <1>1, JobFacts
<1>3. HasCopyOf(jobs[w], p) /\ job.read \in Period
  BY <1>1, <1>2, JobFacts DEF HasCopyOf
<1>4. PICK request \in Request :
         requests' = Append(requests, request)
  <2>1. [type |-> TypeOf(job.op), period |-> p, status |-> "PENDING"] \in Request
    BY DEF TypeOf, Request
  <2> QED
    BY <1>1, <1>2, <2>1 DEF RequestApproval
<1>5. PICK new \in Period :
         /\ new.closing = job.read.closing /\ new.reopens = job.read.reopens
         /\ new.status = job.read.status
         /\ \E row \in Saved(periods[p], job.read, new) : periods' = [periods EXCEPT ![p] = row]
  <2>1. PICK id \in Nat : id = Len(requests) + 1
    BY DEF Inductive, TypeOK
  <2>2. PICK new :
           /\ new = IF TypeOf(job.op) = "REOPEN" THEN [job.read EXCEPT !.reopenReq = id]
                                                 ELSE [job.read EXCEPT !.lockReq = id]
           /\ \E row \in Saved(periods[p], job.read, new) : periods' = [periods EXCEPT ![p] = row]
    BY <1>1, <1>2, <2>1 DEF RequestApproval
  <2>3. ASSUME NEW read \in Period
        PROVE  /\ [read EXCEPT !.reopenReq = id] \in Period
               /\ [read EXCEPT !.lockReq = id] \in Period
    BY DEF Period
  <2>4. ASSUME NEW read \in Period, NEW changed,
               changed = [read EXCEPT !.reopenReq = id] \/ changed = [read EXCEPT !.lockReq = id]
        PROVE  /\ changed.closing = read.closing /\ changed.reopens = read.reopens
               /\ changed.status = read.status
    BY <2>4 DEF Period
  <2> QED
    BY <1>3, <2>2, <2>3, <2>4
<1>6. PICK row \in Saved(periods[p], job.read, new) : periods' = [periods EXCEPT ![p] = row]
  BY <1>5
<1>7. periods' \in [Periods -> Period] /\ \A q \in Periods : RowSound(periods'[q], q)
  BY <1>1, <1>3, <1>5, <1>6, SoundSave
<1>8. UNCHANGED <<entries, decisions>> /\ Becomes(w, Idle) /\ Hearing(w, Idle)
  BY JobsBecome, IdleFacts DEF RequestApproval, Inductive, Hearing
<1>9. TypeOK'
  <2>1. jobs' \in [Workers -> Job]
    BY IdleFacts DEF Inductive, TypeOK, RequestApproval, Finish
  <2>2. requests' \in Seq(Request)
    BY <1>4 DEF Inductive, TypeOK
  <2> QED
    BY <1>7, <1>8, <2>1, <2>2 DEF Inductive, TypeOK
<1> QED
  BY <1>4, <1>7, <1>8, <1>9, TablesGrow, IdleFacts, ActionKeepsInductive DEF Inductive

(* A request is loaded to be decided or withdrawn.                         *)
LEMMA LoadRequestKeepsInductive ==
    ASSUME Inductive, NEW w \in Workers, NEW r \in DOMAIN requests, LoadRequest(w, r),
           UNCHANGED overlap
    PROVE  Inductive'
<1>1. PICK op \in {"act", "withdraw"} : Begin(w, [op |-> op, req |-> r])
  BY DEF LoadRequest
<1>2. UNCHANGED <<periods, entries, requests, decisions>>
  BY DEF LoadRequest
<1>3. PICK job : job = [op |-> op, req |-> r]
  OBVIOUS
<1>4. job \in Job
  <2>1. r \in Nat
    BY DEF Inductive, TypeOK
  <2> QED
    BY <1>3, <2>1 DEF Job
<1>5. Becomes(w, job)
  BY <1>1, <1>3, JobsBecome DEF Inductive
<1>6. TypeOK'
  BY <1>1, <1>2, <1>3, <1>4 DEF Inductive, TypeOK, Begin
<1>7. JobSound(job) /\ Hearing(w, job)
  BY <1>3 DEF JobSound, HasCopyOf, Hears, Hearing
<1>8. \A q \in Periods : RowSound(periods'[q], q)
  BY <1>2 DEF Inductive, RowsSound
<1> QED
  BY <1>2, <1>4, <1>5, <1>6, <1>7, <1>8, TablesGrow, ActionKeepsInductive DEF Inductive

(* Only the status of a request is written when it is decided.             *)
LEMMA StatusWritten ==
    ASSUME Inductive, NEW r \in DOMAIN requests,
           NEW status \in {"APPROVED", "REJECTED", "CANCELLED"},
           requests' = [requests EXCEPT ![r].status = status]
    PROVE  /\ requests' \in Seq(Request) /\ DOMAIN requests' = DOMAIN requests
           /\ \A q \in DOMAIN requests :
                 /\ requests'[q].type = requests[q].type
                 /\ requests'[q].period = requests[q].period
<1>1. requests \in Seq(Request) /\ requests[r] \in Request
  BY DEF Inductive, TypeOK
<1>2. ASSUME NEW request \in Request
      PROVE  LET changed == [request EXCEPT !.status = status]
             IN  /\ changed \in Request /\ changed.type = request.type
                 /\ changed.period = request.period
  BY DEF Request
<1>3. PICK changed : changed = [requests[r] EXCEPT !.status = status]
  OBVIOUS
<1>4. /\ changed \in Request /\ changed.type = requests[r].type
      /\ changed.period = requests[r].period
  BY <1>1, <1>2, <1>3
<1>5. requests' = [requests EXCEPT ![r] = changed]
  BY <1>3
<1> QED
  BY <1>1, <1>4, <1>5

(* A decision is a new one, so nobody hears of it yet.                     *)
LEMMA DecideKeepsInductive ==
    ASSUME Inductive, NEW w \in Workers, NEW outcome \in Outcomes, Decide(w, outcome),
           UNCHANGED overlap
    PROVE  Inductive'
<1>1. PICK r \in DOMAIN requests : r = jobs[w].req
  BY DEF Decide, Inductive, JobsSound, JobSound
<1>2. PICK n \in Nat : n = Len(decisions)
  BY DEF Inductive, TypeOK
<1>3. /\ UNCHANGED <<periods, entries>>
      /\ requests' = [requests EXCEPT ![r].status = outcome]
      /\ decisions' = Append(decisions, [req |-> r, outcome |-> outcome])
  BY <1>1 DEF Decide
<1>4. PICK decision : decision = [req |-> r, outcome |-> outcome]
  OBVIOUS
<1>5. decision \in Decision /\ decision.req = r
  <2>1. r \in Nat
    BY DEF Inductive, TypeOK
  <2> QED
    BY <1>4, <2>1 DEF Decision
<1>6. /\ decisions' \in Seq(Decision) /\ Len(decisions') = n + 1
      /\ DOMAIN decisions = 1 .. n /\ DOMAIN decisions' = 1 .. n + 1
      /\ \A d \in 1 .. n : decisions'[d] = decisions[d]
      /\ decisions'[n + 1] = decision
  BY <1>2, <1>3, <1>4, <1>5 DEF Inductive, TypeOK
<1>7. PICK job : job = [op |-> "hear", decision |-> n + 1]
  OBVIOUS
<1>8. job \in Job
  BY <1>7 DEF Job
<1>9. Becomes(w, job) /\ jobs' \in [Workers -> Job]
  <2>1. Proceed(w, job)
    BY <1>6, <1>7 DEF Decide
  <2> QED
    BY <1>8, <2>1, JobsBecome DEF Inductive, TypeOK, Proceed
<1>10. /\ requests' \in Seq(Request) /\ DOMAIN requests' = DOMAIN requests
       /\ \A q \in DOMAIN requests :
             requests'[q].type = requests[q].type /\ requests'[q].period = requests[q].period
  BY <1>3, StatusWritten DEF Outcomes
<1>11. TypeOK'
  BY <1>3, <1>6, <1>9, <1>10 DEF Inductive, TypeOK
<1>12. Grown
  <2>1. Len(entries) \in Nat /\ UNCHANGED entries
    BY <1>3 DEF Inductive, TypeOK
  <2>2. DecisionsSound'
    <3> SUFFICES ASSUME NEW d \in DOMAIN decisions' PROVE decisions'[d].req \in DOMAIN requests'
      BY DEF DecisionsSound
    <3>1. d \in 1 .. n \/ d = n + 1
      BY <1>2, <1>6
    <3> QED
      BY <1>5, <1>6, <1>10, <3>1 DEF Inductive, DecisionsSound
  <2>3. DOMAIN decisions \subseteq DOMAIN decisions'
    BY <1>2, <1>6
  <2> QED
    BY <1>6, <1>10, <2>1, <2>2, <2>3 DEF Grown
<1>13. Hearing(w, job)
  BY <1>2, <1>6, <1>7 DEF Hearing
<1>14. JobSound(jobs[w])'
  <2>1. jobs'[w] = job
    BY <1>9 DEF Becomes
  <2>2. n + 1 \in DOMAIN decisions'
    BY <1>2, <1>6
  <2> QED
    BY <1>7, <2>1, <2>2 DEF JobSound, HasCopyOf, Hears
<1>15. \A q \in Periods : RowSound(periods'[q], q)
  BY <1>3 DEF Inductive, RowsSound
<1> QED
  BY <1>8, <1>9, <1>11, <1>12, <1>13, <1>14, <1>15, ActionKeepsInductive

LEMMA WithdrawKeepsInductive ==
    ASSUME Inductive, NEW w \in Workers, Withdraw(w), UNCHANGED overlap
    PROVE  Inductive'
<1>1. PICK r \in DOMAIN requests : r = jobs[w].req
  BY DEF Withdraw, Inductive, JobsSound, JobSound
<1>2. /\ UNCHANGED <<periods, entries, decisions>> /\ Finish(w)
      /\ requests' = [requests EXCEPT ![r].status = "CANCELLED"]
  BY <1>1 DEF Withdraw
<1>3. /\ requests' \in Seq(Request) /\ DOMAIN requests' = DOMAIN requests
      /\ \A q \in DOMAIN requests :
            requests'[q].type = requests[q].type /\ requests'[q].period = requests[q].period
  BY <1>2, StatusWritten
<1>4. TypeOK'
  BY <1>2, <1>3, IdleFacts DEF Inductive, TypeOK, Finish
<1>5. Grown
  BY <1>2, <1>3 DEF Grown, Inductive, TypeOK, DecisionsSound
<1>6. Becomes(w, Idle) /\ Hearing(w, Idle)
  BY <1>2, JobsBecome, IdleFacts DEF Inductive, Hearing
<1>7. \A q \in Periods : RowSound(periods'[q], q)
  BY <1>2 DEF Inductive, RowsSound
<1> QED
  BY <1>4, <1>5, <1>6, <1>7, IdleFacts, ActionKeepsInductive

(* The decision a worker hears of was announced, and its period is known.  *)
LEMMA HeardFacts ==
    ASSUME Inductive, NEW w \in Workers, Hears(jobs[w])
    PROVE  /\ jobs[w].decision \in DOMAIN decisions /\ jobs[w].decision \in Nat
           /\ Subject(w) \in Periods
<1>1. jobs[w].decision \in DOMAIN decisions
  BY DEF Inductive, JobsSound, JobSound
<1>2. jobs[w].decision \in Nat /\ Decided(jobs[w].decision) \in Request
  BY <1>1 DEF Inductive, TypeOK, DecisionsSound, Decided
<1> QED
  BY <1>1, <1>2 DEF Subject, Request

LEMMA ListenerReadsKeepsInductive ==
    ASSUME Inductive, NEW w \in Workers, ListenerReads(w), UNCHANGED overlap
    PROVE  Inductive'
<1>1. UNCHANGED <<periods, entries, requests, decisions>> /\ jobs[w].op = "hear"
  BY DEF ListenerReads
<1>2. CASE Finish(w)
  BY <1>1, <1>2, AbandonKeepsInductive
<1>3. CASE ~ Finish(w)
  <2>1. PICK d, p : d = jobs[w].decision /\ p = Subject(w)
    OBVIOUS
  <2>2. d \in DOMAIN decisions /\ d \in Nat /\ p \in Periods /\ Hears(jobs[w])
    BY <1>1, <2>1, HeardFacts DEF Hears
  <2>3. PICK job : job = [op |-> "complete", decision |-> d, read |-> periods[p]]
    OBVIOUS
  <2>4. /\ Proceed(w, job)
        /\ decisions[d].outcome = "APPROVED" => MayComplete(d, p)
    BY <1>3, <2>1, <2>3 DEF ListenerReads
  <2>5. job \in Job
    BY <2>2, <2>3 DEF Job, Inductive, TypeOK
  <2>6. Becomes(w, job)
    BY <2>4, JobsBecome DEF Inductive
  <2>7. TypeOK'
    BY <1>1, <2>4, <2>5 DEF Inductive, TypeOK, Proceed
  <2>8. JobSound(job)
    <3>1. RowSound(periods[p], p) /\ Decided(d).period = p
      BY <2>1, <2>2 DEF Inductive, RowsSound, Subject
    <3>2. Grants(d, "REOPEN") => periods[p].reopens < MaxReopens
      BY <2>4 DEF MayComplete, Grants
    <3> QED
      BY <2>2, <2>3, <3>1, <3>2 DEF JobSound, HasCopyOf, Hears
  <2>9. Hearing(w, job)
    BY <2>1, <2>2, <2>3 DEF Hearing
  <2>10. \A q \in Periods : RowSound(periods'[q], q)
    BY <1>1 DEF Inductive, RowsSound
  <2> QED
    BY <1>1, <2>5, <2>6, <2>7, <2>8, <2>9, <2>10, TablesGrow, ActionKeepsInductive DEF Inductive
<1> QED
  BY <1>2, <1>3

(* The entry that undoes the closing entry a copy names                    *)
LEMMA ReopeningEntry ==
    ASSUME Inductive, NEW p \in Periods, NEW read \in Period, RowSound(read, p),
           read.closing # 0
    PROVE  /\ read.closing \in DOMAIN entries
           /\ entries[read.closing] \in Entry /\ entries[read.closing].result \in Int
           /\ NewEntry("REOPEN", p, - entries[read.closing].result, read.closing) \in Entry
<1>1. DOMAIN entries = 1 .. Len(entries) /\ Len(entries) \in Nat
  BY DEF Inductive, TypeOK
<1>2. read.closing \in DOMAIN entries /\ read.closing \in Nat
  BY <1>1 DEF RowSound, Period
<1>3. entries[read.closing] \in Entry
  BY <1>2 DEF Inductive, TypeOK
<1>4. entries[read.closing].result \in Int
  BY <1>3 DEF Entry
<1>5. - entries[read.closing].result \in Int
  BY <1>4
<1> QED
  BY <1>2, <1>3, <1>4, <1>5 DEF NewEntry, Entry

LEMMA ReopenPeriodKeepsInductive ==
    ASSUME Inductive, NEW w \in Workers, ReopenPeriod(w), UNCHANGED overlap
    PROVE  Inductive'
<1>1. PICK d, p, read : d = jobs[w].decision /\ p = Subject(w) /\ read = jobs[w].read
  OBVIOUS
<1>2. jobs[w].op = "complete" /\ Hears(jobs[w]) /\ Grants(d, "REOPEN")
  BY <1>1 DEF ReopenPeriod, Hears
<1>3. d \in DOMAIN decisions /\ p \in Periods /\ Decided(d).period = p
  BY <1>1, <1>2, HeardFacts DEF Subject
<1>4. read \in Period /\ RowSound(read, p) /\ read.reopens < MaxReopens
  <2>1. HasCopyOf(jobs[w], p)
    BY <1>1, <1>2, <1>3 DEF HasCopyOf
  <2>2. JobSound(jobs[w])
    BY DEF Inductive, JobsSound
  <2>3. read.reopens < MaxReopens
    BY <1>1, <1>2, <2>2 DEF JobSound
  <2> QED
    BY <1>1, <1>3, <2>1, <2>3, CopyFacts
<1>5. /\ UNCHANGED <<requests, decisions>>
      /\ entries' = IF read.closing = 0 THEN entries
                    ELSE Append(entries, NewEntry("REOPEN", p, - entries[read.closing].result,
                                                  read.closing))
  BY <1>1 DEF ReopenPeriod
<1>6. PICK row : /\ row = [read EXCEPT !.status = "OPEN", !.closing = 0, !.reopenReq = 0,
                                       !.reopens = @ + 1]
                 /\ periods' = [periods EXCEPT ![p] = row]
  BY <1>1 DEF ReopenPeriod
<1>7. /\ row \in Period /\ row.status = "OPEN" /\ row.closing = 0
      /\ row.reopens = read.reopens + 1 /\ read.reopens \in Nat
  <2>1. ASSUME NEW copy \in Period
        PROVE  copy.reopens \in Nat /\ copy.reopens + 1 \in Nat
    <3>1. copy.reopens \in Nat
      BY DEF Period
    <3> QED
      BY <3>1
  <2>2. PICK n : n = read.reopens + 1
    OBVIOUS
  <2>3. n \in Nat /\ read.reopens \in Nat
    BY <1>4, <2>1, <2>2
  <2>4. ASSUME NEW copy \in Period
        PROVE  LET changed == [copy EXCEPT !.status = "OPEN", !.closing = 0, !.reopenReq = 0,
                                          !.reopens = n]
               IN  /\ changed \in Period /\ changed.status = "OPEN" /\ changed.closing = 0
                   /\ changed.reopens = n
    BY <2>3 DEF Period
  <2>5. row = [read EXCEPT !.status = "OPEN", !.closing = 0, !.reopenReq = 0, !.reopens = n]
    BY <1>6, <2>2
  <2> QED
    BY <1>4, <2>2, <2>3, <2>4, <2>5
<1>8. Becomes(w, Idle) /\ Hearing(w, Idle)
  BY JobsBecome, IdleFacts DEF ReopenPeriod, Inductive, Hearing
<1>9. TypeOK'
  <2>1. jobs' \in [Workers -> Job]
    BY IdleFacts DEF Inductive, TypeOK, ReopenPeriod, Finish
  <2>2. periods' \in [Periods -> Period]
    BY <1>6, <1>7 DEF Inductive, TypeOK
  <2>3. entries' \in Seq(Entry)
    BY <1>3, <1>4, <1>5, ReopeningEntry DEF Inductive, TypeOK
  <2> QED
    BY <1>5, <2>1, <2>2, <2>3 DEF Inductive, TypeOK
<1>10. Grown
  BY <1>5, <1>9, TablesGrow DEF Inductive
<1>11. d \in CarriedOut(p)' /\ d \notin CarriedOut(p)
  <2>1. d \in Approvals(p)'
    BY <1>2, <1>3, <1>10, DecisionStays DEF Approvals, Inductive
  <2>2. \A u, v \in Workers :
           Hears(jobs[u]) /\ Hears(jobs[v]) /\ jobs[u].decision = jobs[v].decision => u = v
    BY DEF Inductive, HeardOnce
  <2>3. ASSUME NEW v \in Workers, Hears(jobs'[v]) PROVE jobs'[v].decision # d
    <3>1. v # w
      BY <1>8, <2>3, IdleFacts DEF Becomes
    <3> QED
      BY <1>1, <1>2, <1>8, <2>2, <2>3, <3>1 DEF Becomes
  <2>4. \A v \in Workers : Hears(jobs[v])' => jobs'[v].decision # d
    BY <2>3 DEF Hears
  <2> QED
    BY <1>1, <1>2, <2>1, <2>4 DEF CarriedOut
<1>12. Cardinality(CarriedOut(p)) + 1 <= Cardinality(CarriedOut(p)')
  <2>1. /\ CarriedOut(p) \cup {d} \subseteq CarriedOut(p)'
        /\ IsFiniteSet(CarriedOut(p)) /\ IsFiniteSet(CarriedOut(p)')
    BY <1>3, <1>8, <1>9, <1>10, <1>11, CarriedOutGrows DEF Inductive
  <2>2. Cardinality(CarriedOut(p) \cup {d}) = Cardinality(CarriedOut(p)) + 1
    BY <1>11, <2>1, FS_AddElement
  <2> QED
    BY <2>1, <2>2, FS_Subset
<1>13. RowSound(row, p)'
  <2>1. Cardinality(CarriedOut(p)) \in Nat /\ Cardinality(CarriedOut(p)') \in Nat
    BY <1>3, <1>8, <1>9, <1>10, CarriedOutGrows DEF Inductive
  <2>2. read.reopens <= Cardinality(CarriedOut(p))
    BY <1>4 DEF RowSound
  <2>3. row.reopens <= Cardinality(CarriedOut(p)')
    BY <1>7, <1>12, <2>1, <2>2
  <2>4. row.reopens <= MaxReopens
    BY <1>4, <1>7, ReopensAssumption
  <2>5. 0 \in 0 .. Len(entries)'
    BY <1>10 DEF Grown
  <2> QED
    BY <1>7, <2>3, <2>4, <2>5 DEF RowSound
<1>14. \A q \in Periods : RowSound(periods'[q], q) \/ RowSound(periods[q], q)'
  <2>1. RowSound(row, p)' => RowSound(periods[p], p)'
    BY <1>3, <1>6 DEF RowSound, Inductive, TypeOK
  <2> QED
    BY <1>3, <1>6, <1>13, <2>1 DEF Inductive, RowsSound, TypeOK
<1> QED
  BY <1>8, <1>9, <1>10, <1>14, IdleFacts, ActionKeepsInductive

(* What SaveDecision sets of the copy it saves                             *)
LEMMA DecidedRow ==
    ASSUME Inductive, NEW w \in Workers, SaveDecision(w)
    PROVE  \E new \in Period :
              /\ new.closing = jobs[w].read.closing /\ new.reopens = jobs[w].read.reopens
              /\ \/ new.status = jobs[w].read.status
                 \/ /\ new.status = "LOCKED" /\ LockApproved(Subject(w))
                    /\ decisions[jobs[w].decision].outcome = "APPROVED"
              /\ \E row \in Saved(periods[Subject(w)], jobs[w].read, new) :
                    periods' = [periods EXCEPT ![Subject(w)] = row]
<1>1. PICK d, p, read : d = jobs[w].decision /\ p = Subject(w) /\ read = jobs[w].read
  OBVIOUS
<1>2. /\ d \in DOMAIN decisions /\ p \in Periods /\ Decided(d).period = p
      /\ jobs[w].op = "complete"
  BY <1>1, HeardFacts DEF Subject, Hears, SaveDecision
<1>3. read \in Period
  BY <1>1, <1>2, CopyFacts DEF HasCopyOf
<1>4. PICK status : status = StatusDecided(d, read.status)
  OBVIOUS
<1>5. PICK new :
         /\ new = IF Decided(d).type = "REOPEN"
                  THEN [read EXCEPT !.reopenReq = 0]
                  ELSE [read EXCEPT !.lockReq = 0, !.status = status]
         /\ \E row \in Saved(periods[p], read, new) : periods' = [periods EXCEPT ![p] = row]
  BY <1>1, <1>4 DEF SaveDecision
<1>6. \/ status = read.status
      \/ status = "LOCKED" /\ Grants(d, "LOCK")
  BY <1>4 DEF StatusDecided
<1>7. status \in {"OPEN", "CLOSED", "LOCKED"}
  BY <1>3, <1>6 DEF Period
<1>8. ASSUME NEW copy \in Period, NEW changed,
             \/ changed = [copy EXCEPT !.reopenReq = 0]
             \/ changed = [copy EXCEPT !.lockReq = 0, !.status = status]
      PROVE  /\ changed \in Period /\ changed.closing = copy.closing
             /\ changed.reopens = copy.reopens /\ changed.status \in {copy.status, status}
  <2>1. CASE changed = [copy EXCEPT !.reopenReq = 0]
    BY <2>1 DEF Period
  <2>2. CASE changed = [copy EXCEPT !.lockReq = 0, !.status = status]
    BY <1>7, <2>2 DEF Period
  <2> QED
    BY <1>8, <2>1, <2>2
<1>9. /\ new \in Period /\ new.closing = read.closing
      /\ new.reopens = read.reopens /\ new.status \in {read.status, status}
  BY <1>3, <1>5, <1>8
<1>10. Grants(d, "LOCK") => LockApproved(p) /\ decisions[d].outcome = "APPROVED"
  BY <1>2 DEF LockApproved, Grants
<1> QED
  BY <1>1, <1>5, <1>6, <1>9, <1>10

LEMMA SaveDecisionKeepsInductive ==
    ASSUME Inductive, NEW w \in Workers, SaveDecision(w), UNCHANGED overlap
    PROVE  Inductive'
<1>1. PICK p \in Periods : p = Subject(w) /\ HasCopyOf(jobs[w], p)
  BY HeardFacts DEF Subject, Hears, SaveDecision, HasCopyOf
<1>2. PICK new \in Period :
         /\ new.closing = jobs[w].read.closing /\ new.reopens = jobs[w].read.reopens
         /\ new.status = jobs[w].read.status \/ (new.status = "LOCKED" /\ LockApproved(p))
         /\ \E row \in Saved(periods[p], jobs[w].read, new) :
               periods' = [periods EXCEPT ![p] = row]
  BY <1>1, DecidedRow
<1>3. periods' \in [Periods -> Period] /\ \A q \in Periods : RowSound(periods'[q], q)
  BY <1>1, <1>2, SoundSave
<1>4. UNCHANGED <<entries, requests, decisions>> /\ Becomes(w, Idle) /\ Hearing(w, Idle)
  BY JobsBecome, IdleFacts DEF SaveDecision, Inductive, Hearing
<1>5. TypeOK'
  <2>1. jobs' \in [Workers -> Job]
    BY IdleFacts DEF Inductive, TypeOK, SaveDecision, Finish
  <2> QED
    BY <1>3, <1>4, <2>1 DEF Inductive, TypeOK
<1> QED
  BY <1>3, <1>4, <1>5, TablesGrow, IdleFacts, ActionKeepsInductive DEF Inductive

LEMMA NextKeepsInductive == Inductive /\ [Next]_vars => Inductive'
<1> SUFFICES ASSUME Inductive, [Next]_vars PROVE Inductive'
  OBVIOUS
<1>1. CASE UNCHANGED vars
  <2>1. TypeOK' /\ HeardOnce' /\ DecisionsSound'
    BY <1>1 DEF vars, Inductive, TypeOK, HeardOnce, Hears, DecisionsSound
  <2>2. ASSUME NEW p \in Periods PROVE CarriedOut(p)' = CarriedOut(p)
    BY <1>1 DEF vars, CarriedOut, Approvals, Hears, Grants, Decided
  <2>3. ASSUME NEW p \in Periods, NEW row, RowSound(row, p) PROVE RowSound(row, p)'
    BY <1>1, <2>2, <2>3 DEF vars, RowSound, LockApproved, Grants, Decided
  <2>4. RowsSound'
    BY <1>1, <2>3 DEF vars, Inductive, RowsSound
  <2>5. JobsSound'
    <3> SUFFICES ASSUME NEW w \in Workers PROVE JobSound(jobs[w])'
      BY DEF JobsSound
    <3>1. PICK job : job = jobs[w] /\ job = jobs'[w]
      BY <1>1 DEF vars
    <3>2. JobSound(job)
      BY <3>1 DEF Inductive, JobsSound
    <3>3. JobSound(job)'
      BY <1>1, <2>3, <3>2 DEF vars, JobSound, HasCopyOf, Hears, Grants, Decided
    <3>4. JobSound(job)' => JobSound(jobs[w])'
      BY <3>1 DEF JobSound, HasCopyOf, Hears, RowSound, Grants, Decided
    <3> QED
      BY <3>3, <3>4
  <2> QED
    BY <2>1, <2>4, <2>5 DEF Inductive
<1>2. ASSUME Next PROVE Inductive'
  <2>1. PICK w \in Workers : (Arrive(w) \/ Serve(w) \/ Abandon(w)) /\ UNCHANGED overlap
    BY <1>2 DEF Next, Step
  <2>2. CASE Arrive(w)
    BY <2>1, <2>2, CheckKeepsInductive, ReadKeepsInductive, LoadRequestKeepsInductive DEF Arrive
  <2>3. CASE Serve(w)
    BY <2>1, <2>3, InsertKeepsInductive, BuildClosingItemsKeepsInductive,
       ClosePeriodKeepsInductive, RequestApprovalKeepsInductive, DecideKeepsInductive,
       WithdrawKeepsInductive, ListenerReadsKeepsInductive, ReopenPeriodKeepsInductive,
       SaveDecisionKeepsInductive DEF Serve
  <2>4. CASE Abandon(w)
    BY <2>1, <2>4, AbandonKeepsInductive DEF Abandon
  <2> QED
    BY <2>1, <2>2, <2>3, <2>4
<1> QED
  BY <1>1, <1>2

(* The invariant holds whatever overlaps.                                  *)
THEOREM InductiveInvariant == Spec => []Inductive
  BY InitInductive, NextKeepsInductive, PTL DEF Spec

(* Every table holds rows of its type (AccountingPeriod, JournalEntry).    *)
THEOREM TypeCorrect == Spec => []TypeOK
<1>1. Inductive => TypeOK
  BY DEF Inductive
<1> QED
  BY <1>1, InductiveInvariant, PTL

(* A period is locked only when an approval of a request to lock it was    *)
(* announced, however stale the copies saved, of periods and of requests   *)
(* (completePeriodLockWorkflowApproval).                                   *)
THEOREM LockedOnlyByApproval == Spec => []LockedByApproval
<1>1. Inductive => LockedByApproval
  BY DEF Inductive, RowsSound, RowSound, LockApproved, LockedByApproval, Status
<1> QED
  BY <1>1, InductiveInvariant, PTL

(* A period is reopened at most as often as an approval to reopen it was   *)
(* announced, though a request may be approved twice, and at most          *)
(* MaxReopens times (completePeriodReopenWorkflowApproval).                *)
THEOREM ReopenedOnlyByApproval == Spec => []ReopenedByApproval
<1>1. Inductive => ReopenedByApproval
  <2> SUFFICES ASSUME Inductive, NEW p \in Periods
               PROVE  periods[p].reopens <= Cardinality(Approvals(p))
                      /\ periods[p].reopens <= MaxReopens
    BY DEF ReopenedByApproval
  <2>1. /\ periods[p].reopens <= Cardinality(CarriedOut(p))
        /\ periods[p].reopens <= MaxReopens /\ periods[p] \in Period
    BY DEF Inductive, RowsSound, RowSound, TypeOK
  <2>2. IsFiniteSet(Approvals(p))
    <3>1. Approvals(p) \subseteq 1 .. Len(decisions) /\ Len(decisions) \in Nat
      BY DEF Approvals, Inductive, TypeOK
    <3>2. IsFiniteSet(1 .. Len(decisions))
      BY <3>1, FS_Interval
    <3> QED
      BY <3>1, <3>2, FS_Subset
  <2>3. /\ IsFiniteSet(CarriedOut(p))
        /\ Cardinality(CarriedOut(p)) <= Cardinality(Approvals(p))
    <3>1. CarriedOut(p) \subseteq Approvals(p)
      BY DEF CarriedOut
    <3> QED
      BY <2>2, <3>1, FS_Subset
  <2>4. /\ periods[p].reopens \in Nat /\ Cardinality(CarriedOut(p)) \in Nat
        /\ Cardinality(Approvals(p)) \in Nat
    BY <2>1, <2>2, <2>3, FS_CardinalityType DEF Period
  <2> QED
    BY <2>1, <2>3, <2>4
<1> QED
  BY <1>1, InductiveInvariant, PTL

-----------------------------------------------------------------------------
(* Requests served one at a time                                           *)

LEMMA OthersIdle ==
    ASSUME Serial, ~ overlap, NEW w \in Workers, jobs[w] # Idle \/ Alone(w)
    PROVE  \A v \in Workers \ {w} : jobs[v] = Idle
  BY DEF Serial, AtMostOne, Alone

LEMMA IdleCurrent == JobCurrent(Idle)
  BY DEF JobCurrent, HasCopyOf, Idle

(* What an action of one worker has to do to keep the serial invariant     *)
LEMMA ActionKeepsSerial ==
    ASSUME Serial, ~ overlap, UNCHANGED overlap, NEW w \in Workers, NEW job, Becomes(w, job),
           jobs[w] # Idle \/ Alone(w), JobCurrent(jobs[w])', Ledger'
    PROVE  Serial'
<1>1. \A v \in Workers \ {w} : jobs'[v] = Idle
  BY OthersIdle DEF Becomes
<1>2. AtMostOne'
  BY <1>1 DEF AtMostOne
<1>3. ASSUME NEW v \in Workers PROVE JobCurrent(jobs[v])'
  <2>1. CASE v # w
    BY <1>1, <2>1 DEF JobCurrent, HasCopyOf, Idle
  <2> QED
    BY <2>1
<1> QED
  BY <1>2, <1>3 DEF Serial

(* An idle worker has nothing to keep.                                     *)
LEMMA FinishKeepsSerial ==
    ASSUME Serial, ~ overlap, UNCHANGED overlap, NEW w \in Workers, TypeOK, Finish(w),
           jobs[w] # Idle, Ledger'
    PROVE  Serial'
<1>1. Becomes(w, Idle)
  BY JobsBecome
<1>2. JobCurrent(jobs[w])'
  BY <1>1 DEF Becomes, JobCurrent, HasCopyOf, Idle
<1> QED
  BY <1>1, <1>2, ActionKeepsSerial

LEMMA BalanceStays ==
    ASSUME UNCHANGED entries, NEW p
    PROVE  Balance(p)' = Balance(p)
  BY DEF Balance

(* An entry changes the balance of its own period by its result.           *)
LEMMA BalanceAppend ==
    ASSUME TypeOK, TypeOK', NEW entry \in Entry, entries' = Append(entries, entry),
           NEW p \in Periods
    PROVE  Balance(p)' = Balance(p) + (IF entry.period = p THEN entry.result ELSE 0)
<1>1. PICK f : f = [e \in DOMAIN entries |-> IF entries[e].period = p THEN entries[e].result
                                                                    ELSE 0]
  OBVIOUS
<1>2. PICK g : g = [e \in DOMAIN entries' |-> IF entries'[e].period = p
                                              THEN entries'[e].result ELSE 0]
  OBVIOUS
<1>3. PICK n \in Nat : n = Len(entries)
  BY DEF TypeOK
<1>4. /\ DOMAIN entries = 1 .. n /\ DOMAIN entries' = 1 .. n + 1 /\ Len(entries') = n + 1
      /\ \A k \in 1 .. n : entries'[k] = entries[k]
      /\ entries'[n + 1] = entry
  BY <1>3 DEF TypeOK
<1>5. ASSUME NEW k \in DOMAIN entries' PROVE entries'[k].result \in Int
  <2>1. entries'[k] \in Entry
    BY DEF TypeOK
  <2> QED
    BY <2>1 DEF Entry
<1>6. g \in [1 .. n + 1 -> Int]
  BY <1>2, <1>4, <1>5
<1>7. \A k \in 1 .. n : k \in 1 .. n + 1
  BY <1>3
<1>8. f \in [1 .. n -> Int] /\ \A k \in 1 .. n : g[k] = f[k]
  BY <1>1, <1>2, <1>4, <1>5, <1>7
<1>9. SumTo(g, n + 1) = SumTo(f, n) + g[n + 1]
  BY <1>3, <1>6, <1>8, SumExtend
<1>10. g[n + 1] = IF entry.period = p THEN entry.result ELSE 0
  BY <1>2, <1>3, <1>4
<1>11. Balance(p) = SumTo(f, n) /\ Balance(p)' = SumTo(g, n + 1)
  BY <1>1, <1>2, <1>3, <1>4 DEF Balance
<1> QED
  BY <1>9, <1>10, <1>11

(* A save that opens or closes nothing and keeps the closing entries       *)
LEMMA LedgerStays ==
    ASSUME Inductive, Ledger, UNCHANGED entries,
           \A p \in Periods : /\ periods'[p].closing = periods[p].closing
                              /\ Status(p) = "OPEN" <=> periods'[p].status = "OPEN"
    PROVE  Ledger'
<1>1. \A p \in Periods : (Status(p)' = "OPEN" <=> Status(p) = "OPEN")
  BY DEF Status
<1>2. ClosingOK'
  BY <1>1 DEF Ledger, ClosingOK
<1>3. UndoneBefore'
  BY DEF Ledger, UndoneBefore
<1>4. Carried'
  BY <1>1, BalanceStays DEF Ledger, Carried
<1>5. ClosingUndone'
  <2>1. ASSUME NEW e \in DOMAIN entries, entries[e].kind = "CLOSE"
        PROVE  Undone(e)' <=> periods'[entries[e].period].closing # e
    <3>1. entries[e] \in Entry
      BY DEF Inductive, TypeOK
    <3>2. entries[e].period \in Periods
      BY <3>1 DEF Entry
    <3> QED
      BY <2>1, <3>2 DEF Ledger, ClosingUndone, Undone
  <2> QED
    BY <2>1 DEF ClosingUndone
<1> QED
  BY <1>2, <1>3, <1>4, <1>5 DEF Ledger

LEMMA TablesKeepLedger ==
    ASSUME Inductive, Serial, ~ overlap, UNCHANGED <<periods, entries>>
    PROVE  Ledger'
  BY LedgerStays DEF Serial, Status

LEMMA InitSerial == Init => Serial
<1> SUFFICES ASSUME Init PROVE Serial
  OBVIOUS
<1>1. /\ entries = <<>> /\ DOMAIN entries = {}
      /\ \A w \in Workers : jobs[w] = Idle
      /\ \A p \in Periods : Status(p) = "OPEN" /\ periods[p].closing = 0
  BY DEF Init, Status
<1>2. Ledger
  BY <1>1 DEF Ledger, ClosingOK, UndoneBefore, Carried, ClosingUndone
<1> QED
  BY <1>1, <1>2, IdleCurrent DEF Serial, AtMostOne

(* A request that begins has read what the tables say.                     *)
LEMMA ArriveKeepsSerial ==
    ASSUME Inductive, Serial, ~ overlap, UNCHANGED overlap, NEW w \in Workers, Arrive(w)
    PROVE  Serial'
<1>1. UNCHANGED <<periods, entries>>
  BY DEF Arrive, CheckPosting, CheckReversal, ReadForClose, ReadForReopen, ReadForLock, LoadRequest
<1>2. Ledger'
  BY <1>1, TablesKeepLedger
<1>3. Alone(w)
  BY DEF Arrive, CheckPosting, CheckReversal, ReadForClose, ReadForReopen, ReadForLock, LoadRequest,
         Begin
<1>4. CASE \E p \in Periods :
             CheckPosting(w, p) \/ \E e \in DOMAIN entries : CheckReversal(w, p, e)
  <2>1. PICK p \in Periods :
             CheckPosting(w, p) \/ \E e \in DOMAIN entries : CheckReversal(w, p, e)
    BY <1>4
  <2>2. PICK kind, of : /\ Begin(w, [op |-> "post", period |-> p, kind |-> kind, of |-> of])
                        /\ Status(p) = "OPEN"
    BY <2>1 DEF CheckPosting, CheckReversal, PostingAllowed
  <2>3. PICK job : job = [op |-> "post", period |-> p, kind |-> kind, of |-> of]
    OBVIOUS
  <2>4. Becomes(w, job)
    BY <2>2, <2>3, JobsBecome DEF Inductive
  <2>5. Status(p)' = "OPEN"
    BY <1>1, <2>2 DEF Status
  <2>6. JobCurrent(jobs[w])'
    BY <2>3, <2>4, <2>5 DEF Becomes, JobCurrent, HasCopyOf
  <2> QED
    BY <1>2, <1>3, <2>4, <2>6, ActionKeepsSerial
<1>5. CASE \E p \in Periods : ReadForClose(w, p) \/ ReadForReopen(w, p) \/ ReadForLock(w, p)
  <2>1. PICK p \in Periods : ReadForClose(w, p) \/ ReadForReopen(w, p) \/ ReadForLock(w, p)
    BY <1>5
  <2>2. PICK op \in {"close", "askReopen", "askLock"} :
           /\ Begin(w, [op |-> op, period |-> p, read |-> periods[p]])
           /\ op = "close" => Status(p) = "OPEN"
    BY <2>1 DEF ReadForClose, ReadForReopen, ReadForLock
  <2>3. PICK job : job = [op |-> op, period |-> p, read |-> periods[p]]
    OBVIOUS
  <2>4. Becomes(w, job)
    BY <2>2, <2>3, JobsBecome DEF Inductive
  <2>5. op = "close" => Status(p)' = "OPEN"
    BY <1>1, <2>2 DEF Status
  <2>6. JobCurrent(jobs[w])'
    BY <1>1, <2>3, <2>4, <2>5 DEF Becomes, JobCurrent, HasCopyOf
  <2> QED
    BY <1>2, <1>3, <2>4, <2>6, ActionKeepsSerial
<1>6. CASE \E r \in DOMAIN requests : LoadRequest(w, r)
  <2>1. PICK r \in DOMAIN requests : LoadRequest(w, r)
    BY <1>6
  <2>2. PICK op \in {"act", "withdraw"} : Begin(w, [op |-> op, req |-> r])
    BY <2>1 DEF LoadRequest
  <2>3. PICK job : job = [op |-> op, req |-> r]
    OBVIOUS
  <2>4. Becomes(w, job)
    BY <2>2, <2>3, JobsBecome DEF Inductive
  <2>5. JobCurrent(jobs[w])'
    BY <2>3, <2>4 DEF Becomes, JobCurrent, HasCopyOf
  <2> QED
    BY <1>2, <1>3, <2>4, <2>5, ActionKeepsSerial
<1> QED
  BY <1>4, <1>5, <1>6 DEF Arrive

LEMMA AppendedEntry ==
    ASSUME TypeOK, NEW entry \in Entry, entries' = Append(entries, entry)
    PROVE  /\ Len(entries) \in Nat /\ Len(entries)' = Len(entries) + 1
           /\ DOMAIN entries = 1 .. Len(entries) /\ DOMAIN entries' = 1 .. Len(entries) + 1
           /\ \A e \in DOMAIN entries : e \in DOMAIN entries' /\ entries'[e] = entries[e]
           /\ Len(entries) + 1 \in DOMAIN entries' /\ entries'[Len(entries) + 1] = entry
           /\ \A e : Undone(e)' <=> Undone(e) \/ (entry.kind = "REOPEN" /\ entry.of = e)
<1>1. PICK n \in Nat : n = Len(entries)
  BY DEF TypeOK
<1>2. /\ Len(entries)' = n + 1
      /\ DOMAIN entries = 1 .. n /\ DOMAIN entries' = 1 .. n + 1
      /\ \A e \in 1 .. n : entries'[e] = entries[e]
      /\ entries'[n + 1] = entry
  BY <1>1 DEF TypeOK
<1>3. n + 1 \in 1 .. n + 1 /\ 1 .. n + 1 = (1 .. n) \cup {n + 1}
  BY <1>1
<1>4. ASSUME NEW e PROVE Undone(e)' <=> Undone(e) \/ (entry.kind = "REOPEN" /\ entry.of = e)
  BY <1>2, <1>3 DEF Undone
<1> QED
  BY <1>1, <1>2, <1>3, <1>4

(* What an action on the books of one period has to do to keep the ledger  *)
LEMMA PeriodKeepsLedger ==
    ASSUME Inductive, Inductive', Ledger, NEW p \in Periods,
           \A q \in Periods \ {p} : periods'[q] = periods[q],
           \/ UNCHANGED entries
           \/ \E entry \in Entry :
                 /\ entries' = Append(entries, entry)
                 /\ entry.period = p /\ entry.of <= Len(entries)
                 /\ entry.kind = "REOPEN" =>
                       entry.of \in DOMAIN entries /\ entries[entry.of].period = p,
           Status(p)' = "OPEN" => periods'[p].closing = 0,
           periods'[p].closing # 0 => /\ entries'[periods'[p].closing].kind = "CLOSE"
                                      /\ entries'[periods'[p].closing].period = p,
           Status(p)' # "OPEN" => Balance(p)' = 0,
           \A e \in DOMAIN entries' : entries'[e].kind = "CLOSE" /\ entries'[e].period = p =>
               (Undone(e)' <=> periods'[p].closing # e)
    PROVE  Ledger'
<1>1. /\ \A e \in DOMAIN entries : e \in DOMAIN entries' /\ entries'[e] = entries[e]
      /\ \A e \in DOMAIN entries' \ DOMAIN entries :
            entries'[e].period = p /\ entries'[e].of < e
      /\ \A q \in Periods \ {p} : Balance(q)' = Balance(q)
      /\ \A e \in DOMAIN entries : entries[e].period # p => (Undone(e)' <=> Undone(e))
  <2>1. CASE UNCHANGED entries
    BY <2>1, BalanceStays DEF Undone
  <2>2. CASE ~ UNCHANGED entries
    <3>1. PICK entry \in Entry :
             /\ entries' = Append(entries, entry)
             /\ entry.period = p /\ entry.of <= Len(entries)
             /\ entry.kind = "REOPEN" =>
                   entry.of \in DOMAIN entries /\ entries[entry.of].period = p
      BY <2>2
    <3>2. \A q \in Periods : Balance(q)' = Balance(q)
                              + (IF entry.period = q THEN entry.result ELSE 0)
      BY <3>1, BalanceAppend DEF Inductive
    <3>3. \A q \in Periods \ {p} : Balance(q)' = Balance(q)
      <4> SUFFICES ASSUME NEW q \in Periods \ {p} PROVE Balance(q)' = Balance(q)
        OBVIOUS
      <4>1. Balance(q) \in Int /\ Balance(q)' = Balance(q) + 0
        BY <3>1, <3>2, BalanceFacts DEF Inductive
      <4> QED
        BY <4>1
    <3>4. entry.of \in Nat
      BY DEF Entry
    <3>5. \A e \in DOMAIN entries' \ DOMAIN entries : e = Len(entries) + 1
      BY <3>1, AppendedEntry DEF Inductive
    <3>6. \A e \in DOMAIN entries : entries[e].period # p => (Undone(e)' <=> Undone(e))
      BY <3>1, AppendedEntry DEF Inductive
    <3>7. Len(entries) \in Nat
      BY <3>1, AppendedEntry DEF Inductive
    <3>8. \A e \in DOMAIN entries' \ DOMAIN entries :
             entries'[e].period = p /\ entries'[e].of < e
      BY <3>1, <3>4, <3>5, <3>7, AppendedEntry DEF Inductive
    <3> QED
      BY <3>1, <3>3, <3>6, <3>8, AppendedEntry DEF Inductive
  <2> QED
    BY <2>1, <2>2
<1>2. \A q \in Periods \ {p} : Status(q)' = Status(q)
  BY DEF Status
<1>3. ClosingOK'
  <2>1. ASSUME NEW q \in Periods \ {p}
        PROVE  /\ Status(q)' = "OPEN" => periods'[q].closing = 0
               /\ periods'[q].closing # 0 =>
                     /\ entries'[periods'[q].closing].kind = "CLOSE"
                     /\ entries'[periods'[q].closing].period = q
    <3>1. periods[q].closing \in 0 .. Len(entries) /\ DOMAIN entries = 1 .. Len(entries)
          /\ Len(entries) \in Nat
      BY DEF Inductive, RowsSound, RowSound, TypeOK
    <3>2. periods[q].closing # 0 => periods[q].closing \in DOMAIN entries
      BY <3>1
    <3> QED
      BY <1>1, <1>2, <3>2 DEF Ledger, ClosingOK
  <2> QED
    BY <2>1 DEF ClosingOK
<1>4. UndoneBefore'
  BY <1>1 DEF Ledger, UndoneBefore
<1>5. Carried'
  BY <1>1, <1>2 DEF Ledger, Carried
<1>6. ClosingUndone'
  <2>1. ASSUME NEW e \in DOMAIN entries', entries'[e].kind = "CLOSE", entries'[e].period # p
        PROVE  Undone(e)' <=> periods'[entries'[e].period].closing # e
    <3>1. e \in DOMAIN entries /\ entries'[e] = entries[e]
      BY <1>1, <2>1
    <3>2. entries[e] \in Entry
      BY <3>1 DEF Inductive, TypeOK
    <3>3. entries[e].period \in Periods
      BY <3>2 DEF Entry
    <3> QED
      BY <1>1, <2>1, <3>1, <3>3 DEF Ledger, ClosingUndone
  <2> QED
    BY <2>1 DEF ClosingUndone
<1> QED
  BY <1>3, <1>4, <1>5, <1>6 DEF Ledger

(* An entry posted or reversed goes into an open period.                   *)
LEMMA InsertKeepsSerial ==
    ASSUME Inductive, Inductive', Serial, ~ overlap, UNCHANGED overlap, NEW w \in Workers,
           NEW amount \in Amounts, Insert(w, amount)
    PROVE  Serial'
<1>1. jobs[w] \in Job /\ jobs[w].op = "post" /\ Finish(w) /\ UNCHANGED periods
  BY DEF Inductive, TypeOK, Insert
<1>2. PICK p \in Periods : p = jobs[w].period /\ Status(p) = "OPEN"
  BY <1>1, JobFacts DEF Serial, JobCurrent
<1>3. jobs[w].of \in 0 .. Len(entries) /\ Len(entries) \in Nat
  BY <1>1 DEF Inductive, JobsSound, JobSound, TypeOK
<1>4. PICK entry \in Entry :
         /\ entries' = Append(entries, entry) /\ entry.kind \in {"POSTED", "REVERSAL"}
         /\ entry.period = p /\ entry.of <= Len(entries)
  BY <1>2, <1>3, InsertedEntry
<1>5. Ledger /\ periods[p].closing = 0
  BY <1>2 DEF Serial, Ledger, ClosingOK
<1>6. Status(p)' = "OPEN" /\ periods'[p].closing = 0
  BY <1>1, <1>2, <1>5 DEF Status
<1>7. ASSUME NEW e \in DOMAIN entries', entries'[e].kind = "CLOSE", entries'[e].period = p
      PROVE  Undone(e)' <=> periods'[p].closing # e
  <2>1. e \in DOMAIN entries /\ entries'[e] = entries[e] /\ e # 0
    <3>1. Len(entries) \in Nat /\ DOMAIN entries = 1 .. Len(entries)
          /\ DOMAIN entries' = 1 .. Len(entries) + 1
          /\ entries'[Len(entries) + 1] = entry
          /\ \A d \in DOMAIN entries : entries'[d] = entries[d]
      BY <1>4, AppendedEntry DEF Inductive
    <3> QED
      BY <1>4, <1>7, <3>1
  <2>2. Undone(e)
    BY <1>5, <1>7, <2>1 DEF Ledger, ClosingUndone
  <2>3. Undone(e)'
    BY <1>4, <2>2, AppendedEntry DEF Inductive
  <2> QED
    BY <1>6, <2>1, <2>3
<1>8. Ledger'
  BY <1>1, <1>4, <1>5, <1>6, <1>7, PeriodKeepsLedger
<1> QED
  BY <1>1, <1>8, FinishKeepsSerial DEF Inductive, Idle

(* The closing entry takes the balance of the period to zero, and the      *)
(* period names it.                                                        *)
LEMMA ClosePeriodKeepsSerial ==
    ASSUME Inductive, Inductive', Serial, ~ overlap, UNCHANGED overlap, NEW w \in Workers,
           ClosePeriod(w)
    PROVE  Serial'
<1>1. PICK job \in Job : job = jobs[w] /\ job.op = "closing"
  BY DEF Inductive, TypeOK, ClosePeriod
<1>2. PICK p \in Periods : p = job.period
  BY <1>1, JobFacts
<1>3. /\ job.balance \in Int /\ job.read \in Period /\ job.read = periods[p]
      /\ job.balance = Balance(p) /\ Status(p) = "OPEN"
  <2>1. JobCurrent(jobs[w])
    BY DEF Serial
  <2> QED
    BY <1>1, <1>2, <2>1, JobFacts DEF JobCurrent, HasCopyOf
<1>4. Ledger /\ periods[p].closing = 0
  BY <1>3 DEF Serial, Ledger, ClosingOK
<1>5. /\ Len(entries) \in Nat /\ DOMAIN entries = 1 .. Len(entries)
      /\ 0 \notin DOMAIN entries /\ Len(entries) + 1 \notin DOMAIN entries
  BY DEF Inductive, TypeOK
<1>6. entries' = IF job.balance = 0 THEN entries ELSE Append(entries, ClosingEntry(job))
  BY <1>1 DEF ClosePeriod
<1>7. PICK closing \in Nat : closing = IF job.balance = 0 THEN 0 ELSE Len(entries')
  <2>1. Len(entries)' \in Nat
    BY DEF Inductive, TypeOK
  <2> QED
    BY <2>1
<1>8. PICK new : /\ new = [job.read EXCEPT !.status = "CLOSED", !.closing = closing]
                 /\ new \in Period /\ new.status = "CLOSED" /\ new.closing = closing
  <2>1. ASSUME NEW read \in Period
        PROVE  LET changed == [read EXCEPT !.status = "CLOSED", !.closing = closing]
               IN  /\ changed \in Period /\ changed.status = "CLOSED"
                   /\ changed.closing = closing
    BY <1>7 DEF Period
  <2> QED
    BY <1>3, <2>1
<1>9. PICK row \in Saved(periods[p], job.read, new) : periods' = [periods EXCEPT ![p] = row]
  BY <1>1, <1>2, <1>7, <1>8 DEF ClosePeriod
<1>10. row.status = "CLOSED" /\ row.closing = closing
  <2>1. PICK read \in Period : read = job.read /\ read = periods[p]
    BY <1>3
  <2>2. row \in Saved(read, read, new)
    BY <2>1
  <2>3. new \in Period
    BY <1>8
  <2>4. row.status = new.status /\ row.closing = new.closing
    BY <2>2, <2>3, SavedPeriod
  <2> QED
    BY <1>8, <2>4
<1>11. /\ periods'[p].closing = closing /\ Status(p)' = "CLOSED"
       /\ \A q \in Periods \ {p} : periods'[q] = periods[q]
  BY <1>9, <1>10 DEF Inductive, TypeOK, Status
<1>12. \A e \in DOMAIN entries :
          entries[e].kind = "CLOSE" /\ entries[e].period = p => Undone(e)
  BY <1>4, <1>5 DEF Ledger, ClosingUndone
<1>13. Ledger'
  <2>1. CASE job.balance = 0
    <3>1. UNCHANGED entries /\ closing = 0
      BY <1>6, <1>7, <2>1
    <3>2. Balance(p)' = 0
      BY <1>3, <2>1, <3>1, BalanceStays
    <3>3. \A e \in DOMAIN entries' : entries'[e].kind = "CLOSE" /\ entries'[e].period = p =>
             (Undone(e)' <=> periods'[p].closing # e)
      BY <1>5, <1>11, <1>12, <3>1 DEF Undone
    <3> QED
      BY <1>4, <1>11, <3>1, <3>2, <3>3, PeriodKeepsLedger
  <2>2. CASE job.balance # 0
    <3>1. PICK entry \in Entry :
             /\ entries' = Append(entries, entry)
             /\ entry.kind = "CLOSE" /\ entry.period = p /\ entry.of = 0
             /\ entry.result = - job.balance
      <4>1. PICK result \in Int : result = - job.balance
        BY <1>3
      <4>2. PICK entry : entry = NewEntry("CLOSE", p, result, 0)
        OBVIOUS
      <4>3. entry \in Entry
        BY <4>2 DEF NewEntry, Entry
      <4> QED
        BY <1>2, <1>6, <2>2, <4>1, <4>2, <4>3 DEF ClosingEntry, NewEntry
    <3>2. /\ Len(entries)' = Len(entries) + 1 /\ DOMAIN entries' = 1 .. Len(entries) + 1
          /\ \A e \in DOMAIN entries : e \in DOMAIN entries' /\ entries'[e] = entries[e]
          /\ entries'[Len(entries) + 1] = entry
          /\ \A e : Undone(e)' <=> Undone(e)
      BY <3>1, AppendedEntry DEF Inductive
    <3>3. closing = Len(entries) + 1
      BY <1>7, <2>2, <3>2
    <3>4. Balance(p)' = 0
      <4>1. Balance(p)' = Balance(p) + - job.balance
        BY <3>1, BalanceAppend DEF Inductive
      <4> QED
        BY <1>3, <4>1
    <3>5. ~ Undone(Len(entries) + 1)
      <4>1. ASSUME NEW f \in DOMAIN entries PROVE entries[f].of # Len(entries) + 1
        <5>1. entries[f] \in Entry /\ entries[f].of < f
          BY <1>4 DEF Ledger, UndoneBefore, Inductive, TypeOK
        <5>2. entries[f].of \in Nat
          BY <5>1 DEF Entry
        <5> QED
          BY <1>5, <5>1, <5>2
      <4> QED
        BY <4>1 DEF Undone
    <3>6. ASSUME NEW e \in DOMAIN entries', entries'[e].kind = "CLOSE", entries'[e].period = p
          PROVE  Undone(e)' <=> periods'[p].closing # e
      <4>1. CASE e \in DOMAIN entries
        BY <1>5, <1>11, <1>12, <3>2, <3>3, <3>6, <4>1
      <4>2. CASE e \notin DOMAIN entries
        <5>1. e = Len(entries) + 1
          BY <1>5, <3>2, <3>6, <4>2
        <5> QED
          BY <1>11, <3>2, <3>3, <3>5, <5>1
      <4> QED
        BY <4>1, <4>2
    <3>7. entry.of <= Len(entries)
      BY <1>5, <3>1
    <3>8. entries'[periods'[p].closing] = entry
      BY <1>11, <3>2, <3>3
    <3> QED
      BY <1>4, <1>11, <3>1, <3>4, <3>6, <3>7, <3>8, PeriodKeepsLedger
  <2> QED
    BY <2>1, <2>2
<1>14. Finish(w) /\ jobs[w] # Idle
  BY <1>1 DEF ClosePeriod, Idle
<1> QED
  BY <1>13, <1>14, FinishKeepsSerial DEF Inductive

(* Reopening undoes the closing entry that the period names.               *)
LEMMA ReopenPeriodKeepsSerial ==
    ASSUME Inductive, Inductive', Serial, ~ overlap, UNCHANGED overlap, NEW w \in Workers,
           ReopenPeriod(w)
    PROVE  Serial'
<1>1. PICK p \in Periods : p = Subject(w) /\ HasCopyOf(jobs[w], p)
  BY HeardFacts DEF Subject, Hears, ReopenPeriod, HasCopyOf
<1>2. PICK read \in Period : read = jobs[w].read /\ read = periods[p] /\ RowSound(read, p)
  <2>1. JobCurrent(jobs[w])
    BY DEF Serial
  <2> QED
    BY <1>1, <2>1, CopyFacts DEF JobCurrent
<1>3. /\ Len(entries) \in Nat /\ DOMAIN entries = 1 .. Len(entries)
      /\ 0 \notin DOMAIN entries
  BY DEF Inductive, TypeOK
<1>4. entries' = IF read.closing = 0 THEN entries
                 ELSE Append(entries, NewEntry("REOPEN", p, - entries[read.closing].result,
                                               read.closing))
  BY <1>1, <1>2 DEF ReopenPeriod
<1>5. /\ periods'[p].closing = 0 /\ Status(p)' = "OPEN"
      /\ \A q \in Periods \ {p} : periods'[q] = periods[q]
  <2>1. PICK row : /\ row = [read EXCEPT !.status = "OPEN", !.closing = 0, !.reopenReq = 0,
                                         !.reopens = @ + 1]
                   /\ periods' = [periods EXCEPT ![p] = row]
    BY <1>1, <1>2 DEF ReopenPeriod
  <2>2. row.status = "OPEN" /\ row.closing = 0
    BY <2>1 DEF Period
  <2> QED
    BY <2>1, <2>2 DEF Inductive, TypeOK, Status
<1>6. Ledger
  BY DEF Serial
<1>7. \A e \in DOMAIN entries :
         entries[e].kind = "CLOSE" /\ entries[e].period = p => Undone(e) \/ read.closing = e
  BY <1>2, <1>6 DEF Ledger, ClosingUndone
<1>8. Ledger'
  <2>1. CASE read.closing = 0
    <3>1. UNCHANGED entries
      BY <1>4, <2>1
    <3>2. \A e \in DOMAIN entries' : entries'[e].kind = "CLOSE" /\ entries'[e].period = p =>
             (Undone(e)' <=> periods'[p].closing # e)
      BY <1>3, <1>5, <1>7, <2>1, <3>1 DEF Undone
    <3> QED
      BY <1>5, <1>6, <3>1, <3>2, PeriodKeepsLedger
  <2>2. CASE read.closing # 0
    <3>1. PICK entry \in Entry :
             /\ entries' = Append(entries, entry)
             /\ entry.kind = "REOPEN" /\ entry.period = p /\ entry.of = read.closing
      BY <1>2, <1>4, <2>2, ReopeningEntry DEF NewEntry
    <3>2. /\ DOMAIN entries' = 1 .. Len(entries) + 1
          /\ \A e \in DOMAIN entries : e \in DOMAIN entries' /\ entries'[e] = entries[e]
          /\ entries'[Len(entries) + 1] = entry
          /\ \A e : Undone(e)' <=> Undone(e) \/ read.closing = e
      BY <3>1, AppendedEntry DEF Inductive
    <3>3. /\ entry.of \in DOMAIN entries /\ entry.of <= Len(entries)
          /\ entries[entry.of].period = p
      <4>1. read.closing \in 0 .. Len(entries)
        BY <1>2 DEF RowSound
      <4>2. entries[read.closing].period = p
        BY <1>2, <1>6, <2>2 DEF Ledger, ClosingOK
      <4> QED
        BY <1>3, <2>2, <3>1, <4>1, <4>2
    <3>4. ASSUME NEW e \in DOMAIN entries', entries'[e].kind = "CLOSE", entries'[e].period = p
          PROVE  Undone(e)' <=> periods'[p].closing # e
      <4>1. e \in DOMAIN entries /\ e # 0
        BY <1>3, <3>1, <3>2, <3>4
      <4> QED
        BY <1>5, <1>7, <3>2, <3>4, <4>1
    <3> QED
      BY <1>5, <1>6, <3>1, <3>3, <3>4, PeriodKeepsLedger
  <2> QED
    BY <2>1, <2>2
<1>9. Finish(w) /\ jobs[w] # Idle
  BY DEF ReopenPeriod, Idle
<1> QED
  BY <1>8, <1>9, FinishKeepsSerial DEF Inductive

(* Asking for approval and saving a decision: the row keeps its closing    *)
(* entry, and what is locked was closed.                                   *)
LEMMA SaveKeepsSerial ==
    ASSUME Inductive, Serial, ~ overlap, UNCHANGED overlap, NEW w \in Workers,
           RequestApproval(w) \/ SaveDecision(w)
    PROVE  Serial'
<1>1. /\ UNCHANGED entries /\ Finish(w) /\ jobs[w] # Idle
      /\ jobs[w].op \in {"askReopen", "askLock", "complete"}
  BY DEF RequestApproval, SaveDecision, Idle
<1>2. PICK p \in Periods, new \in Period :
         /\ HasCopyOf(jobs[w], p) /\ new.closing = jobs[w].read.closing
         /\ \/ new.status = jobs[w].read.status
            \/ new.status = "LOCKED" /\ Status(p) # "OPEN"
         /\ \E row \in Saved(periods[p], jobs[w].read, new) :
               periods' = [periods EXCEPT ![p] = row]
  <2>1. CASE RequestApproval(w)
    <3>1. PICK job \in Job : job = jobs[w] /\ job.op \in {"askReopen", "askLock"}
      BY <2>1 DEF Inductive, TypeOK, RequestApproval
    <3>2. PICK p \in Periods : p = job.period
      BY <3>1, JobFacts
    <3>3. PICK id \in Nat : id = Len(requests) + 1
      BY DEF Inductive, TypeOK
    <3>4. PICK new :
             /\ new = IF TypeOf(job.op) = "REOPEN" THEN [job.read EXCEPT !.reopenReq = id]
                                                   ELSE [job.read EXCEPT !.lockReq = id]
             /\ \E row \in Saved(periods[p], job.read, new) :
                   periods' = [periods EXCEPT ![p] = row]
      BY <2>1, <3>1, <3>2, <3>3 DEF RequestApproval
    <3>5. job.read \in Period
      BY <3>1, JobFacts
    <3>6. /\ new \in Period /\ new.closing = job.read.closing
          /\ new.status = job.read.status
      BY <3>4, <3>5 DEF Period
    <3>7. HasCopyOf(jobs[w], p)
      BY <3>1, <3>2 DEF HasCopyOf
    <3>8. \E row \in Saved(periods[p], jobs[w].read, new) :
             periods' = [periods EXCEPT ![p] = row]
      BY <3>1, <3>4
    <3> QED
      BY <3>1, <3>6, <3>7, <3>8
  <2>2. CASE SaveDecision(w)
    <3>1. PICK p \in Periods : p = Subject(w) /\ HasCopyOf(jobs[w], p)
      BY <2>2, HeardFacts DEF Subject, Hears, SaveDecision, HasCopyOf
    <3>2. JobCurrent(jobs[w]) /\ jobs[w].op = "complete"
      BY <2>2 DEF Serial, SaveDecision
    <3>3. decisions[jobs[w].decision].outcome = "APPROVED" => Status(p) = "CLOSED"
      BY <3>1, <3>2 DEF JobCurrent, Subject
    <3>4. PICK new \in Period :
             /\ new.closing = jobs[w].read.closing
             /\ \/ new.status = jobs[w].read.status
                \/ /\ new.status = "LOCKED"
                   /\ decisions[jobs[w].decision].outcome = "APPROVED"
             /\ \E row \in Saved(periods[p], jobs[w].read, new) :
                   periods' = [periods EXCEPT ![p] = row]
      BY <2>2, <3>1, DecidedRow
    <3>5. \/ new.status = jobs[w].read.status
          \/ new.status = "LOCKED" /\ Status(p) # "OPEN"
      BY <3>3, <3>4
    <3> QED
      BY <3>1, <3>4, <3>5
  <2> QED
    BY <2>1, <2>2
<1>3. PICK row \in Saved(periods[p], jobs[w].read, new) : periods' = [periods EXCEPT ![p] = row]
  BY <1>2
<1>4. jobs[w].read = periods[p] /\ periods[p] \in Period
  BY <1>2 DEF Serial, JobCurrent, Inductive, TypeOK
<1>5. row.closing = periods[p].closing /\ row.status = new.status
  BY <1>2, <1>3, <1>4, SavedPeriod
<1>6. \A q \in Periods : /\ periods'[q].closing = periods[q].closing
                         /\ Status(q) = "OPEN" <=> periods'[q].status = "OPEN"
  BY <1>2, <1>3, <1>4, <1>5 DEF Inductive, TypeOK, Status
<1>7. Ledger'
  <2>1. Ledger
    BY DEF Serial
  <2> QED
    BY <1>1, <1>6, <2>1, LedgerStays
<1> QED
  BY <1>1, <1>7, FinishKeepsSerial DEF Inductive

(* Steps that change no table: what was read is passed on, or dropped.     *)
LEMMA PassKeepsSerial ==
    ASSUME Inductive, Serial, ~ overlap, UNCHANGED overlap, NEW w \in Workers,
           BuildClosingItems(w) \/ ListenerReads(w) \/ Abandon(w)
    PROVE  Serial'
<1>1. UNCHANGED <<periods, entries, requests, decisions>> /\ jobs[w] # Idle
  BY DEF BuildClosingItems, ListenerReads, Abandon, Idle
<1>2. Ledger' /\ \A p \in Periods : Status(p)' = Status(p)
  BY <1>1, TablesKeepLedger DEF Status
<1>3. CASE Finish(w)
  BY <1>1, <1>2, <1>3, FinishKeepsSerial DEF Inductive
<1>4. CASE BuildClosingItems(w)
  <2>1. PICK old \in Job : old = jobs[w] /\ old.op = "close"
    BY <1>4 DEF Inductive, TypeOK, BuildClosingItems
  <2>2. PICK p \in Periods : p = old.period
    BY <2>1, JobFacts
  <2>3. old.read = periods[p] /\ Status(p) = "OPEN"
    BY <2>1, <2>2 DEF Serial, JobCurrent, HasCopyOf
  <2>4. PICK balance : balance = Balance(p)
    OBVIOUS
  <2>5. PICK job : job = [op |-> "closing", period |-> p, read |-> old.read,
                          balance |-> balance]
    OBVIOUS
  <2>6. Becomes(w, job)
    BY <1>4, <2>1, <2>2, <2>4, <2>5, JobsBecome DEF Inductive, BuildClosingItems
  <2>7. balance = Balance(p)'
    BY <1>1, <2>4, BalanceStays
  <2>8. JobCurrent(jobs[w])'
    BY <1>1, <1>2, <2>3, <2>5, <2>6, <2>7 DEF Becomes, JobCurrent, HasCopyOf
  <2> QED
    BY <1>1, <1>2, <2>6, <2>8, ActionKeepsSerial
<1>5. CASE ListenerReads(w) /\ ~ Finish(w)
  <2>1. PICK d, p : d = jobs[w].decision /\ p = Subject(w)
    OBVIOUS
  <2>2. PICK job : job = [op |-> "complete", decision |-> d, read |-> periods[p]]
    OBVIOUS
  <2>3. /\ Proceed(w, job)
        /\ decisions[d].outcome = "APPROVED" => MayComplete(d, p)
    BY <1>5, <2>1, <2>2 DEF ListenerReads
  <2>4. Becomes(w, job)
    BY <2>3, JobsBecome DEF Inductive
  <2>5. /\ Decided(d).period = p /\ p \in Periods
        /\ decisions[d].outcome = "APPROVED" => Status(p) = "CLOSED"
    BY <1>5, <2>1, <2>3, HeardFacts DEF ListenerReads, Hears, Subject, MayComplete
  <2>6. Decided(d)' = Decided(d) /\ decisions'[d] = decisions[d]
    BY <1>1 DEF Decided
  <2>7. JobCurrent(jobs[w])'
    BY <1>1, <1>2, <2>2, <2>4, <2>5, <2>6 DEF Becomes, JobCurrent, HasCopyOf
  <2> QED
    BY <1>1, <1>2, <2>4, <2>7, ActionKeepsSerial
<1> QED
  BY <1>3, <1>4, <1>5 DEF Abandon

(* A decision is announced, or a request withdrawn: the books stay.        *)
LEMMA DecisionKeepsSerial ==
    ASSUME Inductive, Serial, ~ overlap, UNCHANGED overlap, NEW w \in Workers,
           Withdraw(w) \/ \E outcome \in Outcomes : Decide(w, outcome)
    PROVE  Serial'
<1>1. UNCHANGED <<periods, entries>> /\ jobs[w].op \in {"withdraw", "act"}
  BY DEF Withdraw, Decide
<1>2. Ledger' /\ jobs[w] # Idle
  BY <1>1, TablesKeepLedger DEF Idle
<1>3. CASE Withdraw(w)
  BY <1>2, <1>3, FinishKeepsSerial DEF Inductive, Withdraw
<1>4. CASE \E outcome \in Outcomes : Decide(w, outcome)
  <2>1. PICK job : Proceed(w, job) /\ job.op = "hear"
    BY <1>4 DEF Decide
  <2>2. Becomes(w, job)
    BY <2>1, JobsBecome DEF Inductive
  <2>3. JobCurrent(jobs[w])'
    BY <2>1, <2>2 DEF Becomes, JobCurrent, HasCopyOf
  <2> QED
    BY <1>2, <2>2, <2>3, ActionKeepsSerial
<1> QED
  BY <1>3, <1>4

LEMMA NextKeepsSerial == Inductive /\ Inductive' /\ Serial /\ [Next]_vars => Serial'
<1> SUFFICES ASSUME Inductive, Inductive', Serial, [Next]_vars PROVE Serial'
  OBVIOUS
<1>1. CASE overlap
  BY <1>1 DEF Next, vars, Serial
<1>2. CASE ~ overlap /\ UNCHANGED vars
  <2>1. Ledger'
    BY <1>2, TablesKeepLedger DEF vars
  <2>2. \A p \in Periods : Balance(p)' = Balance(p)
    BY <1>2, BalanceStays DEF vars
  <2>3. AtMostOne'
    BY <1>2 DEF vars, Serial, AtMostOne
  <2>4. ASSUME NEW w \in Workers PROVE JobCurrent(jobs[w])'
    <3>1. JobCurrent(jobs[w]) /\ jobs[w] \in Job
      BY <1>2 DEF Serial, Inductive, TypeOK
    <3>2. jobs[w].op = "closing" => jobs[w].period \in Periods
      BY <3>1, JobFacts
    <3> QED
      BY <1>2, <2>2, <3>1, <3>2 DEF vars, JobCurrent, HasCopyOf, Status, Decided
  <2> QED
    BY <2>1, <2>3, <2>4 DEF Serial
<1>3. ASSUME ~ overlap, Next PROVE Serial'
  <2>1. PICK w \in Workers : (Arrive(w) \/ Serve(w) \/ Abandon(w)) /\ UNCHANGED overlap
    BY <1>3 DEF Next, Step
  <2>2. CASE Arrive(w)
    BY <1>3, <2>1, <2>2, ArriveKeepsSerial
  <2>3. CASE Serve(w)
    BY <1>3, <2>1, <2>3, InsertKeepsSerial, ClosePeriodKeepsSerial, ReopenPeriodKeepsSerial,
       SaveKeepsSerial, DecisionKeepsSerial, PassKeepsSerial DEF Serve
  <2>4. CASE Abandon(w)
    BY <1>3, <2>1, <2>4, PassKeepsSerial
  <2> QED
    BY <2>1, <2>2, <2>3, <2>4
<1> QED
  BY <1>1, <1>2, <1>3

(* What requests served one at a time read is what the tables say.         *)
THEOREM SerialInvariant == Spec => []Serial
  BY InitSerial, NextKeepsSerial, InductiveInvariant, PTL DEF Spec

(* Nothing is left on the revenue and expense accounts of a period that is *)
(* not open, however often it was closed and reopened (closePeriod).       *)
THEOREM ClosingCarriesResult == Spec => []ResultCarried
<1>1. Serial => ResultCarried
  BY DEF Serial, Ledger, Carried, ResultCarried
<1> QED
  BY <1>1, SerialInvariant, PTL

(* The closing entry a period names is the only one not undone             *)
(* (completePeriodReopenWorkflowApproval reverses exactly that one).       *)
THEOREM OneClosingEntryStands == Spec => []ClosingEntryKnown
<1>1. Serial => ClosingEntryKnown
  BY DEF Serial, Ledger, ClosingUndone, ClosingEntryKnown
<1> QED
  BY <1>1, SerialInvariant, PTL
=============================================================================
