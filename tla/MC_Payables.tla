------------------------------ MODULE MC_Payables ------------------------------
(***************************************************************************)
(* One batch.  When requests overlap: one payable, and a transaction; the  *)
(* two approval requests are two of the batch, or one of it and one of a   *)
(* reversal.  When they are served one at a time: two payables.            *)
(***************************************************************************)
EXTENDS Payables, TLC

MCAmounts         == 1 .. 2
MCMaxPayables     == [mode \in BOOLEAN |-> IF mode THEN 1 ELSE 2]
MCMaxBatches      == [mode \in BOOLEAN |-> 1]
MCMaxRequests     == [mode \in BOOLEAN |-> 2]
MCMaxTransactions == [mode \in BOOLEAN |-> IF mode THEN 1 ELSE 0]
WorkersAlike      == Permutations(Workers)
=============================================================================
