------------------------------ MODULE Fulfilment ------------------------------
(***************************************************************************)
(* Sales contracts and shipments together: they share the contract rows    *)
(* and the stock, and each goes on while the other is half-way.            *)
(***************************************************************************)
EXTENDS SalesContracts

CONSTANTS Clerks, MaxShipments, MaxDeliveries, MaxMoves

VARIABLES otherMoves, shipments, deliveries, desks

Shipping == INSTANCE Shipments

shippingVars == <<otherMoves, shipments, deliveries, desks>>
fulfilmentVars == <<vars, shippingVars>>

FulfilmentInit == Init /\ Shipping!ShipmentInit

(* Requests overlap, or each is served to its end before the next. *)
ClerksIdle  == overlap \/ \A k \in Clerks : desks[k] = Shipping!EmptyDesk
WorkersIdle == AllIdle

ContractStep == Next /\ ClerksIdle /\ UNCHANGED shippingVars

ShippingStep ==
    /\ Shipping!ShipmentStep
    /\ WorkersIdle
    /\ overlap \/ \A k \in Clerks : desks[k] # Shipping!EmptyDesk => desks'[k] # desks[k]
    /\ UNCHANGED contractVars

FulfilmentNext == ContractStep \/ ShippingStep

FulfilmentSpec == FulfilmentInit /\ [][FulfilmentNext]_fulfilmentVars

-----------------------------------------------------------------------------
(* Properties                                                              *)

(* Reserving, releasing and issuing never promise more than the warehouse  *)
(* holds: a product gets over-reserved only when another module takes its  *)
(* stock away, which executeInventoryTransaction allows.                   *)
OverReservedOnlyByOthers ==
    [][\A p \in Products :
          reserved[p] <= stock[p] /\ reserved'[p] > stock'[p]
             => otherMoves'[p] < otherMoves[p]]_fulfilmentVars
=============================================================================
