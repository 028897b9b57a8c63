--------------------------- MODULE MC_SalesContracts ---------------------------
(***************************************************************************)
(* Two contracts that compete for the two units of one product: c1 needs   *)
(* one of them, c2 both.                                                   *)
(***************************************************************************)
EXTENDS SalesContracts, TLC

CONSTANTS c1, c2, p1, w1, w2

MCLines == [c \in Contracts |-> [p \in Products |-> IF c = c1 THEN 1 ELSE 2]]
MCOpening == [p \in Products |-> 2]

MCMaxRequests == [mode \in BOOLEAN |-> IF mode THEN 2 ELSE 3]

WorkersAlike == Permutations(Workers)
=============================================================================
