----------------------------- MODULE StockDocuments -----------------------------
(***************************************************************************)
(* What a document of the warehouse promises, whatever its kind and its    *)
(* way through approvals: it is drawn, and then either refused, for good,  *)
(* or applied, once and for good; the stock moves for it at most once, when*)
(* it is applied, and never without that.                                  *)
(*                                                                         *)
(* Modules of documents implement it: WarehouseDocuments shows how.        *)
(***************************************************************************)
EXTENDS Integers, Sequences

CONSTANT Everything   \* what stock may move for, documents included

VARIABLES
    phase,    \* of each document that was drawn
    movers    \* what each stock movement was for, in order

vars == <<phase, movers>>

Init == phase = <<>> /\ movers = <<>>

Moved(d) == \E i \in DOMAIN movers : movers[i] = d

(* A document comes into being.                                            *)
Draw(d) ==
    /\ d \notin DOMAIN phase /\ ~ Moved(d)
    /\ phase' = [e \in DOMAIN phase \cup {d} |-> IF e = d THEN "open" ELSE phase[e]]
    /\ UNCHANGED movers

(* It is applied; when its quantity is zero no stock moves.                *)
Apply(d) ==
    /\ d \in DOMAIN phase /\ phase[d] = "open"
    /\ phase' = [phase EXCEPT ![d] = "applied"]
    /\ movers' = Append(movers, d) \/ UNCHANGED movers

Refuse(d) ==
    /\ d \in DOMAIN phase /\ phase[d] = "open"
    /\ phase' = [phase EXCEPT ![d] = "refused"]
    /\ UNCHANGED movers

(* Stock moves for something else.                                         *)
Other(e) ==
    /\ e \notin DOMAIN phase
    /\ movers' = Append(movers, e)
    /\ UNCHANGED phase

Next == \E d \in Everything : Draw(d) \/ Apply(d) \/ Refuse(d) \/ Other(d)

Spec == Init /\ [][Next]_vars

-----------------------------------------------------------------------------
(* The stock moves for an applied document only, and only once.            *)
MovedOnce ==
    /\ \A i \in DOMAIN movers : movers[i] \in DOMAIN phase => phase[movers[i]] = "applied"
    /\ \A i, j \in DOMAIN movers :
          movers[i] = movers[j] /\ movers[i] \in DOMAIN phase => i = j
=============================================================================
