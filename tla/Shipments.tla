------------------------------- MODULE Shipments -------------------------------
(***************************************************************************)
(* Shipments (ShipmentsService) and the export deliveries that take their  *)
(* goods out of stock (InventoryService).                                  *)
(*                                                                         *)
(* Export deliveries lock their rows and are one action per transaction.   *)
(* Creating, editing, advancing and deleting a shipment read it without a  *)
(* lock and save the whole row later: TypeORM's save compares the entity   *)
(* with the row as it is then and writes every column that differs, so the *)
(* status and the stock-issued flag a clerk has read come back with it.    *)
(***************************************************************************)
EXTENDS Integers, Sequences, Sums

CONSTANTS
    Contracts,       \* sales contracts
    Products,        \* products
    Lines,           \* Lines[c][p]: quantity of product p in contract c
    Opening,         \* Opening[p]: stock at the start
    Clerks,          \* requests on shipments served at the same time
    MaxShipments,    \* bound: shipment rows
    MaxDeliveries,   \* bound: export delivery rows
    MaxMoves         \* bound: net stock movement of the other modules

ASSUME ContractsAssumption == IsFiniteSet(Contracts)
ASSUME LinesAssumption   == Lines \in [Contracts -> [Products -> Nat]]
ASSUME OpeningAssumption ==
    /\ Opening \in [Products -> Nat]
    /\ \A p \in Products :
          SumOver([c \in Contracts |-> Lines[c][p]], Contracts) <= Opening[p]

VARIABLES
    contract,     \* SalesContract.status
    stock,        \* Product.currentStock
    reserved,     \* Product.reservedStock
    held,         \* RESERVE minus RELEASE ledger rows that name the contract
    otherMoves,   \* sum of the ledger rows of a product that are not SALES
    shipments,    \* shipment rows, in order of creation
    deliveries,   \* export delivery rows, in order of creation
    desks         \* what each clerk is doing

shipmentVars == <<otherMoves, shipments, deliveries, desks>>
vars == <<contract, stock, reserved, held, shipmentVars>>

ContractStatuses ==
    {"DRAFT", "PENDING_APPROVAL", "REJECTED", "APPROVED", "PENDING_BUYER_SIGNATURE",
     "BUYER_SIGNED", "CONFIRMED", "SHIPPED", "PENDING_CANCEL_APPROVAL", "CANCELLED",
     "PAID"}

(* SHIPMENT_STATUS_TRANSITIONS *)
Transitions ==
    [BOOKED          |-> {"LOADING"},
     LOADING         |-> {"CUSTOMS_CLEARED", "ON_BOARD"},
     CUSTOMS_CLEARED |-> {"ON_BOARD"},
     ON_BOARD        |-> {"ARRIVED"},
     ARRIVED         |-> {"CLOSED"},
     CLOSED          |-> {}]

Stages == DOMAIN Transitions

Shipment == [contract : Contracts, status : Stages, issued : BOOLEAN, deleted : BOOLEAN]

Delivery == [shipment : Nat, status : {"DRAFT", "ISSUED", "CANCELLED"}]

EmptyDesk == [op |-> "idle"]

(* `row` is the copy of the shipment a clerk will save, `seen` the status  *)
(* of its contract when last read.                                         *)
Desk == {EmptyDesk}
    \cup [op       : {"create", "update", "sync", "resync", "audit", "remove", "delete",
                      "ship", "advance", "issue"},
          shipment : Nat,
          row      : Shipment,
          seen     : ContractStatuses]

TypeOK ==
    /\ contract \in [Contracts -> ContractStatuses]
    /\ stock \in [Products -> Nat]
    /\ reserved \in [Products -> Nat]
    /\ held \in [Contracts -> Int]
    /\ otherMoves \in [Products -> Int]
    /\ shipments \in Seq(Shipment)
    /\ deliveries \in Seq(Delivery)
    /\ desks \in [Clerks -> Desk]

ShipmentInit ==
    /\ otherMoves = [p \in Products |-> 0]
    /\ shipments = <<>>
    /\ deliveries = <<>>
    /\ desks = [k \in Clerks |-> EmptyDesk]

(* Every contract is confirmed and holds its reservation. *)
Init ==
    /\ contract = [c \in Contracts |-> "CONFIRMED"]
    /\ stock = Opening
    /\ reserved = [p \in Products |-> SumOver([c \in Contracts |-> Lines[c][p]], Contracts)]
    /\ held = [c \in Contracts |-> 1]
    /\ ShipmentInit

-----------------------------------------------------------------------------
(* Export deliveries                                                       *)

Active(s) == {d \in DOMAIN deliveries :
                 deliveries[d].shipment = s /\ deliveries[d].status # "CANCELLED"}

Present(s) == ~ shipments[s].deleted

(* Mutant: the shipment may have a delivery already. *)
CreateAnotherDelivery(s) ==
    /\ Len(deliveries) < MaxDeliveries
    /\ Present(s)
    /\ ~ shipments[s].issued
    /\ deliveries' = Append(deliveries, [shipment |-> s, status |-> "DRAFT"])
    /\ UNCHANGED <<contract, stock, reserved, held, otherMoves, shipments, desks>>

CreateExportDelivery(s) ==
    /\ Len(deliveries) < MaxDeliveries
    /\ Present(s)
    /\ ~ shipments[s].issued
    /\ Active(s) = {}
    /\ deliveries' = Append(deliveries, [shipment |-> s, status |-> "DRAFT"])
    /\ UNCHANGED <<contract, stock, reserved, held, otherMoves, shipments, desks>>

(* Mutants: stock may go negative; the reservation is not released. *)
TakeOutUnchecked(s) ==
    LET c == shipments[s].contract
    IN  /\ Present(s)
        /\ ~ shipments[s].issued
        /\ stock' = [p \in Products |-> stock[p] - Lines[c][p]]
        /\ reserved' = [p \in Products |-> IF reserved[p] < Lines[c][p]
                                           THEN 0 ELSE reserved[p] - Lines[c][p]]
        /\ held' = [held EXCEPT ![c] = @ - 1]
        /\ shipments' = [shipments EXCEPT ![s].issued = TRUE, ![s].status = "LOADING"]

TakeOutUnreleased(s) ==
    LET c == shipments[s].contract
    IN  /\ Present(s)
        /\ ~ shipments[s].issued
        /\ \A p \in Products : stock[p] >= Lines[c][p]
        /\ stock' = [p \in Products |-> stock[p] - Lines[c][p]]
        /\ UNCHANGED <<reserved, held>>
        /\ shipments' = [shipments EXCEPT ![s].issued = TRUE, ![s].status = "LOADING"]

(* What issuing does besides the delivery row: per line releaseStock, then *)
(* executeInventoryTransaction (refused when stock would go negative).     *)
TakeOut(s) ==
    LET c == shipments[s].contract
    IN  /\ Present(s)
        /\ ~ shipments[s].issued
        /\ \A p \in Products : stock[p] >= Lines[c][p]
        /\ stock' = [p \in Products |-> stock[p] - Lines[c][p]]
        /\ reserved' = [p \in Products |-> IF reserved[p] < Lines[c][p]
                                           THEN 0 ELSE reserved[p] - Lines[c][p]]
        /\ held' = [held EXCEPT ![c] = @ - 1]
        /\ shipments' = [shipments EXCEPT ![s].issued = TRUE, ![s].status = "LOADING"]

IssueExportDelivery(d) ==
    /\ deliveries[d].status = "DRAFT"
    /\ TakeOut(deliveries[d].shipment)
    /\ deliveries' = [deliveries EXCEPT ![d].status = "ISSUED"]
    /\ UNCHANGED <<contract, otherMoves, desks>>

(* Mutant: an issued delivery may be cancelled. *)
CancelAnyDelivery(d) ==
    /\ deliveries[d].status # "CANCELLED"
    /\ deliveries' = [deliveries EXCEPT ![d].status = "CANCELLED"]
    /\ UNCHANGED <<contract, stock, reserved, held, otherMoves, shipments, desks>>

CancelExportDelivery(d) ==
    /\ deliveries[d].status = "DRAFT"
    /\ deliveries' = [deliveries EXCEPT ![d].status = "CANCELLED"]
    /\ UNCHANGED <<contract, stock, reserved, held, otherMoves, shipments, desks>>

-----------------------------------------------------------------------------
(* Shipments                                                               *)

Start(k, op, s, row, seen) ==
    /\ desks[k] = EmptyDesk
    /\ desks' = [desks EXCEPT ![k] =
          [op |-> op, shipment |-> s, row |-> row, seen |-> seen]]
    /\ UNCHANGED <<contract, stock, reserved, held, otherMoves, shipments, deliveries>>

Continue(k, op) == desks' = [desks EXCEPT ![k].op = op]
Clear(k)        == desks' = [desks EXCEPT ![k] = EmptyDesk]

At(k, op)  == desks[k].op = op

(* save(): the row becomes the copy.  When it changed since save compared  *)
(* the two, only what the copy itself changed is written: a new status.    *)
Save(k) ==
    LET s == desks[k].shipment IN
    \/ shipments' = [shipments EXCEPT ![s] = desks[k].row]
    \/ shipments' = [shipments EXCEPT ![s].status = IF At(k, "advance")
                                                     THEN desks[k].row.status ELSE @]

RestOfShipping == UNCHANGED <<stock, reserved, held, otherMoves, deliveries>>

(* create: the contract is read without a lock; syncContractBooking writes *)
(* it back when the booking number or the ETD is new to it.                *)
ReadForCreate(k, c) ==
    /\ contract[c] = "CONFIRMED"
    /\ Start(k, "create", 0,
             [contract |-> c, status |-> "BOOKED", issued |-> FALSE, deleted |-> FALSE],
             contract[c])

CreateShipment(k) ==
    /\ At(k, "create")
    /\ Len(shipments) < MaxShipments
    /\ shipments' = Append(shipments, desks[k].row)
    /\ \E sync \in BOOLEAN :
          contract' = IF sync THEN [contract EXCEPT ![desks[k].row.contract] = desks[k].seen]
                              ELSE contract
    /\ Clear(k)
    /\ RestOfShipping

Read(k, op, s) ==
    Start(k, op, s, shipments[s], contract[shipments[s].contract])

ReadForUpdate(k, s) == Present(s) /\ Read(k, "update", s)

(* With a new booking number or ETD, update goes on to the contract and    *)
(* then saves the shipment once more for its audit trail.                  *)
UpdateShipment(k) ==
    /\ At(k, "update")
    /\ Save(k)
    /\ Clear(k) \/ Continue(k, "sync")
    /\ UNCHANGED contract /\ RestOfShipping

ReadContractForSync(k) ==
    /\ At(k, "sync")
    /\ desks' = [desks EXCEPT ![k].op = "resync",
                              ![k].seen = contract[desks[k].row.contract]]
    /\ UNCHANGED <<contract, shipments>> /\ RestOfShipping

SyncContract(k) ==
    /\ At(k, "resync")
    /\ contract' \in {contract, [contract EXCEPT ![desks[k].row.contract] = desks[k].seen]}
    /\ Continue(k, "audit")
    /\ UNCHANGED shipments /\ RestOfShipping

SaveAudit(k) ==
    /\ At(k, "audit")
    /\ Save(k)
    /\ Clear(k)
    /\ UNCHANGED contract /\ RestOfShipping

(* remove: check, save the audit trail, soft-delete. *)
ReadForRemove(k, s) ==
    /\ Present(s)
    /\ ~ shipments[s].issued /\ shipments[s].status = "BOOKED"
    /\ Read(k, "remove", s)

SaveBeforeDelete(k) ==
    /\ At(k, "remove")
    /\ Save(k)
    /\ Continue(k, "delete")
    /\ UNCHANGED contract /\ RestOfShipping

SoftDelete(k) ==
    /\ At(k, "delete")
    /\ shipments' = [shipments EXCEPT ![desks[k].shipment].deleted = TRUE]
    /\ Clear(k)
    /\ UNCHANGED contract /\ RestOfShipping

(* Mutant: the readiness check is left out. *)
ReadForStatusUnready(k, s, to) ==
    /\ Present(s)
    /\ to \in Transitions[shipments[s].status]
    /\ Start(k, IF to = "ON_BOARD" /\ contract[shipments[s].contract] = "CONFIRMED"
                THEN "ship" ELSE "advance",
             s, [shipments[s] EXCEPT !.status = to], contract[shipments[s].contract])

(* updateStatus: the new status is set on the copy that was read; going on *)
(* board ships a CONFIRMED contract (a transaction of its own) first.      *)
ReadForStatus(k, s, to) ==
    /\ Present(s)
    /\ to \in Transitions[shipments[s].status]
    /\ to \in {"LOADING", "ON_BOARD"} => shipments[s].issued
    /\ Start(k, IF to = "ON_BOARD" /\ contract[shipments[s].contract] = "CONFIRMED"
                THEN "ship" ELSE "advance",
             s, [shipments[s] EXCEPT !.status = to], contract[shipments[s].contract])

ShipContractOnBoard(k) ==
    /\ At(k, "ship")
    /\ contract[desks[k].row.contract] = "CONFIRMED"
    /\ contract' = [contract EXCEPT ![desks[k].row.contract] = "SHIPPED"]
    /\ Continue(k, "advance")
    /\ UNCHANGED shipments /\ RestOfShipping

UpdateStatus(k) ==
    /\ At(k, "advance")
    /\ Save(k)
    /\ Clear(k)
    /\ UNCHANGED contract /\ RestOfShipping

(* issueStock: checks on a copy, then the transaction of the delivery: the *)
(* active one, or a new one.                                               *)
ReadForIssue(k, s) ==
    /\ Present(s)
    /\ ~ shipments[s].issued /\ shipments[s].status = "BOOKED"
    /\ Read(k, "issue", s)

IssueStock(k) ==
    /\ At(k, "issue")
    /\ LET s == desks[k].shipment IN
       /\ TakeOut(s)
       /\ \/ \E d \in Active(s) :
                /\ deliveries[d].status = "DRAFT"
                /\ deliveries' = [deliveries EXCEPT ![d].status = "ISSUED"]
          \/ /\ Active(s) = {}
             /\ Len(deliveries) < MaxDeliveries
             /\ deliveries' = Append(deliveries, [shipment |-> s, status |-> "ISSUED"])
    /\ Clear(k)
    /\ UNCHANGED <<contract, otherMoves>>

(* A check fails, or the server stops, between two steps. *)
Abandon(k) ==
    /\ desks[k] # EmptyDesk
    /\ Clear(k)
    /\ UNCHANGED <<contract, shipments>> /\ RestOfShipping

-----------------------------------------------------------------------------
(* Receipts, adjustments, returns: they look at currentStock only.         *)
MoveStock(p, change) ==
    /\ stock[p] + change >= 0
    /\ otherMoves[p] + change \in -MaxMoves .. MaxMoves
    /\ stock' = [stock EXCEPT ![p] = @ + change]
    /\ otherMoves' = [otherMoves EXCEPT ![p] = @ + change]
    /\ UNCHANGED <<contract, reserved, held, shipments, deliveries, desks>>

ClerkStep(k) ==
    \/ \E c \in Contracts : ReadForCreate(k, c)
    \/ \E s \in DOMAIN shipments :
          \/ ReadForUpdate(k, s) \/ ReadForRemove(k, s) \/ ReadForIssue(k, s)
          \/ \E to \in Stages : ReadForStatus(k, s, to)
    \/ CreateShipment(k) \/ UpdateShipment(k) \/ ReadContractForSync(k) \/ SyncContract(k)
    \/ SaveAudit(k) \/ SaveBeforeDelete(k) \/ SoftDelete(k)
    \/ ShipContractOnBoard(k) \/ UpdateStatus(k) \/ IssueStock(k) \/ Abandon(k)

DeliveryStep ==
    \/ \E s \in DOMAIN shipments : CreateExportDelivery(s)
    \/ \E d \in DOMAIN deliveries : IssueExportDelivery(d) \/ CancelExportDelivery(d)

ShipmentStep ==
    \/ \E k \in Clerks : ClerkStep(k)
    \/ DeliveryStep
    \/ \E p \in Products, change \in {-1, 1} : MoveStock(p, change)

(* What SalesContracts and the approvals may do to the shared rows, as far *)
(* as a shipment can tell: the contract's status and reservation change.   *)
ContractServiceStep ==
    /\ \E c \in Contracts, status \in {"CONFIRMED", "SHIPPED", "PAID"} :
          contract' = [contract EXCEPT ![c] = status]
    /\ \E p \in Products : \E r \in 0 .. Opening[p] : reserved' = [reserved EXCEPT ![p] = r]
    /\ UNCHANGED <<stock, held, shipmentVars>>

Next == ShipmentStep \/ ContractServiceStep

Spec == Init /\ [][Next]_vars

-----------------------------------------------------------------------------
(* Properties                                                              *)

IssuedDeliveries == {d \in DOMAIN deliveries : deliveries[d].status = "ISSUED"}

(* What the deliveries of ds took out, by the shipments of ss              *)
TakenOut(p, ds, ss) ==
    SumTo([d \in 1 .. Len(ds) |->
              IF ds[d].status = "ISSUED" THEN Lines[ss[ds[d].shipment].contract][p] ELSE 0],
          Len(ds))

(* Goods leave the warehouse with the issue of a delivery and only then,   *)
(* and a delivery is issued once: stock is what there was, plus the other  *)
(* movements, minus the lines of the issued deliveries, however stale the  *)
(* shipment rows that clerks write back.                                   *)
StockConserved ==
    \A p \in Products :
        stock[p] + TakenOut(p, deliveries, shipments) = Opening[p] + otherMoves[p]

(* A shipment has one delivery that is not cancelled, even when the flag   *)
(* isStockIssued was reset by a stale save: its goods leave once.          *)
OneActiveDelivery ==
    \A d, e \in DOMAIN deliveries :
        /\ deliveries[d].shipment = deliveries[e].shipment
        /\ deliveries[d].status # "CANCELLED" /\ deliveries[e].status # "CANCELLED"
        => d = e

Issued(s) == \E d \in IssuedDeliveries : deliveries[d].shipment = s

(* A shipment that is loading, on board or beyond, or flagged as issued,   *)
(* has an issued delivery: nothing sails without leaving the warehouse,    *)
(* whatever rows were read before (validateStatusReadiness).               *)
NothingSailsUnissued ==
    \A s \in DOMAIN shipments :
        shipments[s].issued \/ shipments[s].status # "BOOKED" => Issued(s)
=============================================================================
