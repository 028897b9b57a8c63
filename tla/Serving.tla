-------------------------------- MODULE Serving --------------------------------
(***************************************************************************)
(* Requests being served.  Serving one takes one or more transactions: what*)
(* a worker has read and does next is its job, and other workers come in   *)
(* between, unless requests are served one at a time.                      *)
(***************************************************************************)
EXTENDS Integers

CONSTANTS
    Workers,   \* requests served at the same time
    Overlap    \* may requests be served at the same time: TRUE, FALSE or either

ASSUME ModesAssumption == Overlap \subseteq BOOLEAN

VARIABLES
    jobs,      \* what each worker is doing
    overlap    \* FALSE: requests are served one at a time; never changes

Idle == [op |-> "idle"]

Alone(w) == overlap \/ \A v \in Workers \ {w} : jobs[v] = Idle

Free(w) == jobs[w] = Idle /\ Alone(w)

(* A request of several transactions, and one that takes a single one      *)
Begin(w, job)   == jobs[w] = Idle /\ Alone(w) /\ jobs' = [jobs EXCEPT ![w] = job]
Proceed(w, job) == jobs' = [jobs EXCEPT ![w] = job]
Finish(w)       == jobs' = [jobs EXCEPT ![w] = Idle]
AtOnce(w)       == jobs[w] = Idle /\ Alone(w) /\ UNCHANGED jobs
=============================================================================
