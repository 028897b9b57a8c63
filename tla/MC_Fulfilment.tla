----------------------------- MODULE MC_Fulfilment -----------------------------
(***************************************************************************)
(* A contract over a unit of one product.                                  *)
(***************************************************************************)
EXTENDS Fulfilment

MCLines == [c \in Contracts |-> [p \in Products |-> 1]]
MCMaxRequests == [mode \in BOOLEAN |-> IF mode THEN 2 ELSE 3]
MCOpening == [p \in Products |-> Cardinality(Contracts)]
=============================================================================
