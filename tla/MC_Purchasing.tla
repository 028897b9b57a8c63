----------------------------- MODULE MC_Purchasing -----------------------------
(***************************************************************************)
(* An order of two units, one of the product in stock.  When users overlap *)
(* there are two receipts, checks, returns and invoices together, besides  *)
(* the return that a failed check makes.                                   *)
(***************************************************************************)
EXTENDS Purchasing, TLC

MCMaxReceipts  == [mode \in BOOLEAN |-> IF mode THEN 1 ELSE 2]
MCMaxChecks    == [mode \in BOOLEAN |-> IF mode THEN 1 ELSE 0]
MCMaxReturns   == [mode \in BOOLEAN |-> IF mode THEN 1 ELSE 2]
MCMaxInvoices  == [mode \in BOOLEAN |-> IF mode THEN 1 ELSE 2]
MCMaxDocuments == [mode \in BOOLEAN |-> IF mode THEN 2 ELSE 4]
MCMaxLedger    == [mode \in BOOLEAN |-> IF mode THEN 3 ELSE 5]
Symmetry       == Permutations(Workers)

(* The behaviours in which no vendor invoice changes its status: what is   *)
(* owed then comes from creating invoices alone.                           *)
InvoicesStand ==
    \A i \in DOMAIN invoices : invoices'[i].active = invoices[i].active

InvoicesStandSpec == PurchasingInit /\ [][PurchasingNext /\ InvoicesStand]_purchasingVars
=============================================================================
