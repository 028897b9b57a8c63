------------------------- MODULE MC_AccountingPeriods --------------------------
(***************************************************************************)
(* Two periods, the earlier and the later, reopened twice at most.         *)
(***************************************************************************)
EXTENDS AccountingPeriods, TLC

MCPeriods == 1 .. 2
MCAmounts == {1}
MCMaxEntries  == [mode \in BOOLEAN |-> IF mode THEN 2 ELSE 4]
MCMaxRequests == [mode \in BOOLEAN |-> IF mode THEN 2 ELSE 3]

WorkersAlike == Permutations(Workers)
=============================================================================
