---------------------------- MODULE MC_StockLedger ----------------------------
EXTENDS StockLedger, TLC

(* Two creation times let a late insert be older than a layer already there. *)
MCTimes == {1, 2}
MCPrices == {0, 2}

Symmetry == Permutations(Products)
=============================================================================
