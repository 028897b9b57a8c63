------------------------- MODULE MC_WarehouseDocuments -------------------------
(***************************************************************************)
(* One unit at a time in and out of a shelf of two.                        *)
(***************************************************************************)
EXTENDS WarehouseDocuments, TLC

MCQuantities   == {-1, 1}
MCMaxDocuments == [mode \in BOOLEAN |-> IF mode THEN 1 ELSE 2]
MCMaxLedger    == [mode \in BOOLEAN |-> IF mode THEN 2 ELSE 3]
Symmetry       == Permutations(Workers)
=============================================================================
