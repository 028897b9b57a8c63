--------------------------- MODULE MC_PortalPayments ---------------------------
(***************************************************************************)
(* A receivable of two units, paid in ones and twos.                       *)
(***************************************************************************)
EXTENDS PortalPayments, TLC

MCPayments        == 1 .. 2
MCMaxReceipts     == [mode \in BOOLEAN |-> IF mode THEN 1 ELSE 2]
MCMaxTransactions == [mode \in BOOLEAN |-> IF mode THEN 1 ELSE 2]
MCMaxRestarts     == [mode \in BOOLEAN |-> IF mode THEN 0 ELSE 1]
=============================================================================
