------------------------------ MODULE MC_Shipments ------------------------------
(***************************************************************************)
(* One contract over a unit of one product, which is in stock, and one     *)
(* more unit that the other modules bring or take away.                    *)
(***************************************************************************)
EXTENDS Shipments, TLC

MCLines   == [c \in Contracts |-> [p \in Products |-> 1]]
MCOpening == [p \in Products |-> 1]

ClerksAlike == Permutations(Clerks)
=============================================================================
