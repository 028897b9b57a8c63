--------------------------- MODULE MC_ApprovalMatrix ---------------------------
(***************************************************************************)
(* One document.  Each user may act on all steps of the rule but one.      *)
(***************************************************************************)
EXTENDS ApprovalMatrix, TLC

Rank == CHOOSE rank \in [Workers -> 1 .. Depth] :
            \A v, w \in Workers : v # w => rank[v] # rank[w]

MCAllButOne == [w \in Workers |-> (1 .. Depth) \ {Rank[w]}]

MCMaxRequests == [mode \in BOOLEAN |-> IF mode THEN 1 ELSE 2]
=============================================================================
