----------------------------- MODULE MC_Receivables ----------------------------
(***************************************************************************)
(* A contract for two units with two shipments, paid in ones and twos.     *)
(***************************************************************************)
EXTENDS Receivables, TLC

MCPayments       == 1 .. 2
MCMaxInvoices    == [mode \in BOOLEAN |-> IF mode THEN 1 ELSE 2]
MCMaxReceivables == [mode \in BOOLEAN |-> IF mode THEN 1 ELSE 2]
MCMaxReceipts    == [mode \in BOOLEAN |-> 1]
MCMaxAllocations == [mode \in BOOLEAN |-> IF mode THEN 0 ELSE 1]
Alike            == Permutations(Workers) \cup Permutations(Shipments)
=============================================================================
