---------------------------------- MODULE Sums ----------------------------------
(***************************************************************************)
(* Sums of the values of a function on 1 .. n, or on a finite set, in a    *)
(* form that TLC evaluates and that module SumTheorems reasons about.      *)
(***************************************************************************)
EXTENDS Integers, FiniteSets

(* PartialSums(f, n)[k] = f[1] + ... + f[k] *)
PartialSums(f, n) ==
    LET sum[k \in 0 .. n] == IF k = 0 THEN 0 ELSE sum[k - 1] + f[k]
    IN  sum

SumTo(f, n) == PartialSums(f, n)[n]

(* The elements of a finite set, each once, in some order *)
Enumeration(S) ==
    CHOOSE e \in [1 .. Cardinality(S) -> S] :
        \A i, j \in 1 .. Cardinality(S) : e[i] = e[j] => i = j

(* The sum of f[x] for every x in S *)
SumOver(f, S) ==
    SumTo([i \in 1 .. Cardinality(S) |-> f[Enumeration(S)[i]]], Cardinality(S))
=============================================================================
