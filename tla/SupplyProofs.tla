------------------------------ MODULE SupplyProofs ------------------------------
(***************************************************************************)
(* What holds of goods that leave, with shipments and their export         *)
(* deliveries, of goods that come in and go back, with purchase orders, and*)
(* of what is owed and paid for them, for every number of each, of clerks  *)
(* who save stale rows and of requests that overlap.  The three components *)
(* are independent: each has its own specification, invariant and theorems.*)
(***************************************************************************)
EXTENDS Shipments, Purchasing, Payables, SumTheorems

-----------------------------------------------------------------------------
(* SHIPMENTS                                                               *)

(* The inductive invariant, in parts that name the state they speak of     *)

(* The goods of shipment s have left with a delivery. *)
Backed(s, ds) == \E d \in DOMAIN ds : ds[d].shipment = s /\ ds[d].status = "ISSUED"

(* A row of shipment s says no more than its deliveries do.                *)
RowSound(row, s, ds) == row.issued \/ row.status # "BOOKED" => Backed(s, ds)

OneActive(ds) ==
    \A d, e \in DOMAIN ds :
        /\ ds[d].shipment = ds[e].shipment
        /\ ds[d].status # "CANCELLED" /\ ds[e].status # "CANCELLED"
        => d = e

DeliveriesOK(ds, ss) ==
    /\ ds \in Seq(Delivery)
    /\ \A d \in DOMAIN ds : ds[d].shipment \in DOMAIN ss
    /\ OneActive(ds)

ShipmentsOK(ss, ds) ==
    /\ ss \in Seq(Shipment)
    /\ \A s \in DOMAIN ss : RowSound(ss[s], s, ds)

(* The copy on a desk is of a shipment that exists, and as sound as a row; *)
(* the row of a shipment to be created is still BOOKED.                    *)
DeskSound(desk, ss, ds) ==
    /\ desk.op = "create" => desk.row.status = "BOOKED" /\ ~ desk.row.issued
    /\ desk.op \notin {"idle", "create"} =>
          /\ desk.shipment \in DOMAIN ss
          /\ RowSound(desk.row, desk.shipment, ds)

DesksOK(dk, ss, ds) ==
    /\ dk \in [Clerks -> Desk]
    /\ \A k \in Clerks : DeskSound(dk[k], ss, ds)

(* A delivery that was issued stays issued, and shipments are only added.  *)
IssuesStay(ds, ds2) ==
    \A d \in DOMAIN ds : ds[d].status = "ISSUED" =>
        d \in DOMAIN ds2 /\ ds2[d].status = "ISSUED" /\ ds2[d].shipment = ds[d].shipment

History(ss, ds, ss2, ds2) == DOMAIN ss \subseteq DOMAIN ss2 /\ IssuesStay(ds, ds2)

StockOK ==
    /\ contract \in [Contracts -> ContractStatuses]
    /\ stock \in [Products -> Nat]
    /\ reserved \in [Products -> Nat]
    /\ held \in [Contracts -> Int]
    /\ otherMoves \in [Products -> Int]

Inductive ==
    /\ StockOK
    /\ DeliveriesOK(deliveries, shipments)
    /\ ShipmentsOK(shipments, deliveries)
    /\ DesksOK(desks, shipments, deliveries)

-----------------------------------------------------------------------------
(* Rows                                                                    *)

LEMMA BackedStays ==
    ASSUME NEW ss, NEW ds, NEW ss2, NEW ds2, History(ss, ds, ss2, ds2),
           NEW s, Backed(s, ds)
    PROVE  Backed(s, ds2)
BY DEF History, IssuesStay, Backed

LEMMA RowStays ==
    ASSUME NEW ss, NEW ds, NEW ss2, NEW ds2, History(ss, ds, ss2, ds2),
           NEW s, NEW row, RowSound(row, s, ds)
    PROVE  RowSound(row, s, ds2)
BY BackedStays DEF RowSound

LEMMA DeskStays ==
    ASSUME NEW ss, NEW ds, NEW ss2, NEW ds2, History(ss, ds, ss2, ds2),
           NEW desk, DeskSound(desk, ss, ds)
    PROVE  DeskSound(desk, ss2, ds2)
<1>1. DOMAIN ss \subseteq DOMAIN ss2
  BY DEF History
<1> QED
  BY <1>1, RowStays DEF DeskSound

LEMMA DesksStay ==
    ASSUME NEW ss, NEW ds, NEW ss2, NEW ds2, History(ss, ds, ss2, ds2),
           NEW dk, DesksOK(dk, ss, ds)
    PROVE  DesksOK(dk, ss2, ds2)
BY DeskStays DEF DesksOK

(* One clerk turns to something else, the others keep their copies.        *)
LEMMA SetDesk ==
    ASSUME NEW ss, NEW ds, NEW dk, DesksOK(dk, ss, ds),
           NEW k \in Clerks, NEW desk \in Desk, DeskSound(desk, ss, ds)
    PROVE  DesksOK([dk EXCEPT ![k] = desk], ss, ds)
BY DEF DesksOK

LEMMA IdleDesk ==
    ASSUME NEW ss, NEW ds
    PROVE  EmptyDesk \in Desk /\ DeskSound(EmptyDesk, ss, ds)
BY DEF Desk, EmptyDesk, DeskSound

LEMMA DeskFields ==
    ASSUME NEW desk \in Desk, desk.op # "idle"
    PROVE  /\ desk = [op |-> desk.op, shipment |-> desk.shipment, row |-> desk.row,
                      seen |-> desk.seen]
           /\ desk.shipment \in Nat /\ desk.row \in Shipment
           /\ desk.seen \in ContractStatuses
BY DEF Desk, EmptyDesk

LEMMA DeskOf ==
    ASSUME Inductive, NEW k \in Clerks
    PROVE  desks[k] \in Desk /\ DeskSound(desks[k], shipments, deliveries)
BY DEF Inductive, DesksOK

LEMMA SequenceFields ==
    ASSUME NEW S, NEW s \in Seq(S), NEW e \in S
    PROVE  /\ \A i \in DOMAIN s : s[i] \in S /\ i \in Nat
           /\ Append(s, e) \in Seq(S)
           /\ DOMAIN Append(s, e) = DOMAIN s \cup {Len(s) + 1}
           /\ Len(s) + 1 \notin DOMAIN s
           /\ \A i \in DOMAIN s : Append(s, e)[i] = s[i]
           /\ Append(s, e)[Len(s) + 1] = e
OBVIOUS

LEMMA ReplaceInSequence ==
    ASSUME NEW S, NEW s \in Seq(S), NEW i, NEW e \in S
    PROVE  /\ [s EXCEPT ![i] = e] \in Seq(S)
           /\ DOMAIN [s EXCEPT ![i] = e] = DOMAIN s
<1>1. s \in [1 .. Len(s) -> S] /\ Len(s) \in Nat
  OBVIOUS
<1>2. [s EXCEPT ![i] = e] \in [1 .. Len(s) -> S]
  BY <1>1
<1> QED
  BY <1>1, <1>2

(* One row of a shipment is written.                                       *)
LEMMA WriteRow ==
    ASSUME NEW ss, NEW ds, ShipmentsOK(ss, ds), NEW s \in DOMAIN ss,
           NEW row \in Shipment, RowSound(row, s, ds)
    PROVE  /\ ShipmentsOK([ss EXCEPT ![s] = row], ds)
           /\ DOMAIN [ss EXCEPT ![s] = row] = DOMAIN ss
<1> DEFINE new == [ss EXCEPT ![s] = row]
<1>1. new \in Seq(Shipment) /\ DOMAIN new = DOMAIN ss
  BY ReplaceInSequence DEF ShipmentsOK
<1>2. ASSUME NEW t \in DOMAIN new PROVE RowSound(new[t], t, ds)
  <2>1. CASE t = s
    BY <2>1
  <2>2. CASE t # s
    BY <1>1, <2>2 DEF ShipmentsOK
  <2> QED
    BY <2>1, <2>2
<1> QED
  BY <1>1, <1>2 DEF ShipmentsOK

-----------------------------------------------------------------------------
(* Delivery rows                                                           *)

(* A draft is issued or cancelled. *)
LEMMA DraftDecided ==
    ASSUME NEW ds, NEW ss, DeliveriesOK(ds, ss),
           NEW d \in DOMAIN ds, ds[d].status = "DRAFT",
           NEW status \in {"ISSUED", "CANCELLED"}
    PROVE  LET new == [ds EXCEPT ![d].status = status]
           IN  /\ DeliveriesOK(new, ss)
               /\ IssuesStay(ds, new)
               /\ status = "ISSUED" => Backed(ds[d].shipment, new)
<1> DEFINE row == [ds[d] EXCEPT !.status = status]
           new == [ds EXCEPT ![d] = row]
<1>1. ds \in Seq(Delivery) /\ ds[d] \in Delivery
  BY DEF DeliveriesOK
<1>2. row \in Delivery /\ row.status = status /\ row.shipment = ds[d].shipment
  BY <1>1 DEF Delivery
<1> HIDE DEF row
<1>3. new \in Seq(Delivery) /\ DOMAIN new = DOMAIN ds
  BY <1>1, <1>2, ReplaceInSequence
<1>4. /\ new[d] = row
      /\ \A e \in DOMAIN ds : e # d => new[e] = ds[e]
  OBVIOUS
<1> HIDE DEF new
<1>5. \A e \in DOMAIN ds : /\ new[e].shipment = ds[e].shipment
                           /\ new[e].status # "CANCELLED" => ds[e].status # "CANCELLED"
  BY <1>2, <1>4
<1>6. DeliveriesOK(new, ss)
  BY <1>3, <1>5 DEF DeliveriesOK, OneActive
<1>7. IssuesStay(ds, new)
  BY <1>3, <1>4 DEF IssuesStay
<1>8. status = "ISSUED" => Backed(ds[d].shipment, new)
  BY <1>2, <1>3, <1>4 DEF Backed
<1> QED
  BY <1>6, <1>7, <1>8 DEF new, row

(* A delivery is added for a shipment that has no active one. *)
LEMMA DeliveryAdded ==
    ASSUME NEW ds, NEW ss, DeliveriesOK(ds, ss), ss \in Seq(Shipment), NEW s \in DOMAIN ss,
           \A d \in DOMAIN ds : ds[d].shipment = s => ds[d].status = "CANCELLED",
           NEW status \in {"DRAFT", "ISSUED"}
    PROVE  LET new == Append(ds, [shipment |-> s, status |-> status])
           IN  /\ DeliveriesOK(new, ss)
               /\ IssuesStay(ds, new)
               /\ status = "ISSUED" => Backed(s, new)
<1> DEFINE row == [shipment |-> s, status |-> status]
           new == Append(ds, row)
<1>1. s \in Nat
  OBVIOUS
<1>2. row \in Delivery /\ row.status = status /\ row.shipment = s
  BY <1>1 DEF Delivery
<1> HIDE DEF row
<1>3. /\ new \in Seq(Delivery)
      /\ DOMAIN new = DOMAIN ds \cup {Len(ds) + 1}
      /\ \A d \in DOMAIN ds : new[d] = ds[d]
      /\ new[Len(ds) + 1] = row
  BY <1>2, SequenceFields DEF DeliveriesOK
<1> HIDE DEF new
<1>4. DeliveriesOK(new, ss)
  <2>1. \A d \in DOMAIN new : new[d].shipment \in DOMAIN ss
    BY <1>2, <1>3 DEF DeliveriesOK
  <2>2. OneActive(new)
    BY <1>2, <1>3 DEF DeliveriesOK, OneActive
  <2> QED
    BY <1>3, <2>1, <2>2 DEF DeliveriesOK
<1>5. IssuesStay(ds, new)
  BY <1>3 DEF IssuesStay
<1>6. status = "ISSUED" => Backed(s, new)
  BY <1>2, <1>3 DEF Backed
<1> QED
  BY <1>4, <1>5, <1>6 DEF new, row

LEMMA ShipmentsStay ==
    ASSUME NEW ss, NEW ds, NEW ds2, IssuesStay(ds, ds2), ShipmentsOK(ss, ds)
    PROVE  ShipmentsOK(ss, ds2)
<1>1. History(ss, ds, ss, ds2)
  BY DEF History
<1> QED
  BY <1>1, RowStays DEF ShipmentsOK

(* The deliveries change, shipments and desks do not.                      *)
LEMMA DeliveriesChange ==
    ASSUME Inductive, DeliveriesOK(deliveries', shipments), IssuesStay(deliveries, deliveries'),
           UNCHANGED <<contract, stock, reserved, held, otherMoves, shipments, desks>>
    PROVE  Inductive'
<1>1. History(shipments, deliveries, shipments', deliveries')
  BY DEF History
<1>2. ShipmentsOK(shipments', deliveries')
  BY ShipmentsStay DEF Inductive
<1>3. DesksOK(desks', shipments', deliveries')
  BY <1>1, DesksStay DEF Inductive
<1> QED
  BY <1>2, <1>3 DEF Inductive, StockOK

LEMMA CreateExportDeliveryInductive ==
    ASSUME Inductive, NEW s \in DOMAIN shipments, CreateExportDelivery(s)
    PROVE  Inductive'
<1>1. \A d \in DOMAIN deliveries :
         deliveries[d].shipment = s => deliveries[d].status = "CANCELLED"
  BY DEF CreateExportDelivery, Active
<1>2. deliveries' = Append(deliveries, [shipment |-> s, status |-> "DRAFT"])
  BY DEF CreateExportDelivery
<1>3. DeliveriesOK(deliveries', shipments) /\ IssuesStay(deliveries, deliveries')
  BY <1>1, <1>2, DeliveryAdded DEF Inductive, ShipmentsOK
<1> QED
  BY <1>3, DeliveriesChange DEF CreateExportDelivery

LEMMA CancelExportDeliveryInductive ==
    ASSUME Inductive, NEW d \in DOMAIN deliveries, CancelExportDelivery(d)
    PROVE  Inductive'
<1>1. deliveries[d].status = "DRAFT"
      /\ deliveries' = [deliveries EXCEPT ![d].status = "CANCELLED"]
  BY DEF CancelExportDelivery
<1>2. DeliveriesOK(deliveries', shipments) /\ IssuesStay(deliveries, deliveries')
  BY <1>1, DraftDecided DEF Inductive
<1> QED
  BY <1>2, DeliveriesChange DEF CancelExportDelivery

(* Goods leave with a delivery that is now issued.                         *)
LEMMA GoodsLeave ==
    ASSUME Inductive, NEW s \in DOMAIN shipments, TakeOut(s),
           DeliveriesOK(deliveries', shipments), IssuesStay(deliveries, deliveries'),
           Backed(s, deliveries'), UNCHANGED <<contract, otherMoves>>
    PROVE  /\ StockOK'
           /\ DeliveriesOK(deliveries', shipments')
           /\ ShipmentsOK(shipments', deliveries')
           /\ DesksOK(desks, shipments', deliveries')
<1> DEFINE c   == shipments[s].contract
           row == [shipments[s] EXCEPT !.issued = TRUE, !.status = "LOADING"]
<1>1. shipments[s] \in Shipment /\ c \in Contracts
  <2>1. shipments[s] \in Shipment
    BY DEF Inductive, ShipmentsOK
  <2> QED
    BY <2>1 DEF Shipment
<1>2. StockOK'
  <2>1. ASSUME NEW p \in Products
        PROVE  stock'[p] \in Nat /\ reserved'[p] \in Nat
    <3>1. Lines[c][p] \in Nat /\ stock[p] \in Nat /\ reserved[p] \in Nat
      BY <1>1, LinesAssumption DEF Inductive, StockOK
    <3>2. /\ stock[p] >= Lines[c][p] /\ stock'[p] = stock[p] - Lines[c][p]
          /\ reserved'[p] = IF reserved[p] < Lines[c][p] THEN 0 ELSE reserved[p] - Lines[c][p]
      BY DEF TakeOut
    <3> QED
      BY <3>1, <3>2
  <2>2. stock' \in [Products -> Nat] /\ reserved' \in [Products -> Nat]
    BY <2>1 DEF TakeOut
  <2>3. held' \in [Contracts -> Int]
    BY <1>1 DEF TakeOut, Inductive, StockOK
  <2> QED
    BY <2>2, <2>3 DEF Inductive, StockOK
<1>3. row \in Shipment
  BY <1>1 DEF Shipment, Stages, Transitions
<1>4. shipments' = [shipments EXCEPT ![s] = row]
  BY <1>1 DEF TakeOut
<1>5. ShipmentsOK(shipments, deliveries')
  BY ShipmentsStay DEF Inductive
<1>6. RowSound(row, s, deliveries')
  BY DEF RowSound
<1> HIDE DEF row
<1>7. ShipmentsOK(shipments', deliveries') /\ DOMAIN shipments' = DOMAIN shipments
  BY <1>3, <1>4, <1>5, <1>6, WriteRow
<1>8. DesksOK(desks, shipments', deliveries')
  BY <1>7, DesksStay DEF Inductive, History
<1>9. DeliveriesOK(deliveries', shipments')
  BY <1>7 DEF DeliveriesOK
<1> QED
  BY <1>2, <1>7, <1>8, <1>9

LEMMA IssueExportDeliveryInductive ==
    ASSUME Inductive, NEW d \in DOMAIN deliveries, IssueExportDelivery(d)
    PROVE  Inductive'
<1>1. deliveries[d].status = "DRAFT"
      /\ deliveries' = [deliveries EXCEPT ![d].status = "ISSUED"]
  BY DEF IssueExportDelivery
<1>2. /\ DeliveriesOK(deliveries', shipments) /\ IssuesStay(deliveries, deliveries')
      /\ Backed(deliveries[d].shipment, deliveries')
  BY <1>1, DraftDecided DEF Inductive
<1>3. deliveries[d].shipment \in DOMAIN shipments
  BY DEF Inductive, DeliveriesOK
<1> QED
  BY <1>2, <1>3, GoodsLeave DEF IssueExportDelivery, Inductive

-----------------------------------------------------------------------------
(* Steps of a clerk                                                        *)

LEMMA RowOf ==
    ASSUME Inductive, NEW s \in DOMAIN shipments
    PROVE  /\ s \in Nat
           /\ shipments[s] \in Shipment
           /\ shipments[s].contract \in Contracts /\ shipments[s].status \in Stages
           /\ contract[shipments[s].contract] \in ContractStatuses
           /\ RowSound(shipments[s], s, deliveries)
<1>1. s \in Nat /\ shipments[s] \in Shipment /\ RowSound(shipments[s], s, deliveries)
  BY SequenceFields DEF Inductive, ShipmentsOK
<1>2. shipments[s].contract \in Contracts /\ shipments[s].status \in Stages
  BY <1>1 DEF Shipment
<1> QED
  BY <1>1, <1>2 DEF Inductive, StockOK

(* A clerk only looks, or stops: nothing but the desk changes.             *)
LEMMA OnlyDeskChanges ==
    ASSUME Inductive, NEW k \in Clerks, NEW desk \in Desk,
           DeskSound(desk, shipments, deliveries),
           desks' = [desks EXCEPT ![k] = desk],
           contract' \in [Contracts -> ContractStatuses],
           UNCHANGED <<stock, reserved, held, otherMoves, shipments, deliveries>>
    PROVE  Inductive'
<1>1. DesksOK(desks', shipments', deliveries')
  BY SetDesk DEF Inductive
<1> QED
  BY <1>1 DEF Inductive, StockOK

(* A clerk takes a copy of a shipment, perhaps with its next status.       *)
LEMMA TakesCopy ==
    ASSUME Inductive, NEW k \in Clerks, NEW s \in DOMAIN shipments,
           NEW op \in {"update", "remove", "issue", "ship", "advance"},
           NEW row \in Shipment, RowSound(row, s, deliveries),
           Start(k, op, s, row, contract[shipments[s].contract])
    PROVE  Inductive'
<1> DEFINE desk == [op |-> op, shipment |-> s, row |-> row,
                    seen |-> contract[shipments[s].contract]]
<1>1. desk \in Desk
  BY RowOf DEF Desk
<1>2. DeskSound(desk, shipments, deliveries)
  BY DEF DeskSound
<1>3. desks' = [desks EXCEPT ![k] = desk]
  BY DEF Start
<1> HIDE DEF desk
<1> QED
  BY <1>1, <1>2, <1>3, OnlyDeskChanges DEF Start, Inductive, StockOK

LEMMA ReadersInductive ==
    ASSUME Inductive, NEW k \in Clerks, NEW s \in DOMAIN shipments,
           \/ ReadForUpdate(k, s) \/ ReadForRemove(k, s) \/ ReadForIssue(k, s)
           \/ \E to \in Stages : ReadForStatus(k, s, to)
    PROVE  Inductive'
<1>1. CASE ReadForUpdate(k, s) \/ ReadForRemove(k, s) \/ ReadForIssue(k, s)
  BY <1>1, RowOf, TakesCopy DEF ReadForUpdate, ReadForRemove, ReadForIssue, Read
<1>2. CASE \E to \in Stages : ReadForStatus(k, s, to)
  <2>1. PICK to \in Stages : ReadForStatus(k, s, to)
    BY <1>2
  <2> DEFINE row == [shipments[s] EXCEPT !.status = to]
             op  == IF to = "ON_BOARD" /\ contract[shipments[s].contract] = "CONFIRMED"
                    THEN "ship" ELSE "advance"
  <2>2. row \in Shipment
    BY RowOf DEF Shipment
  <2>3. Backed(s, deliveries)
    <3>1. CASE shipments[s].status = "BOOKED"
      <4>1. to = "LOADING"
        BY <2>1, <3>1 DEF ReadForStatus, Transitions
      <4> QED
        BY <2>1, <4>1, RowOf DEF ReadForStatus, RowSound
    <3>2. CASE shipments[s].status # "BOOKED"
      BY <3>2, RowOf DEF RowSound
    <3> QED
      BY <3>1, <3>2
  <2>4. RowSound(row, s, deliveries)
    BY <2>3 DEF RowSound
  <2>5. op \in {"ship", "advance"}
    OBVIOUS
  <2>6. Start(k, op, s, row, contract[shipments[s].contract])
    BY <2>1 DEF ReadForStatus
  <2> HIDE DEF row, op
  <2> QED
    BY <2>2, <2>4, <2>5, <2>6, TakesCopy
<1> QED
  BY <1>1, <1>2

LEMMA ReadForCreateInductive ==
    ASSUME Inductive, NEW k \in Clerks, NEW c \in Contracts, ReadForCreate(k, c)
    PROVE  Inductive'
<1> DEFINE row  == [contract |-> c, status |-> "BOOKED", issued |-> FALSE, deleted |-> FALSE]
           desk == [op |-> "create", shipment |-> 0, row |-> row, seen |-> contract[c]]
<1>1. row \in Shipment
  BY DEF Shipment, Stages, Transitions
<1>2. contract[c] \in ContractStatuses
  BY DEF Inductive, StockOK
<1>3. desk \in Desk
  BY <1>1, <1>2 DEF Desk
<1>4. DeskSound(desk, shipments, deliveries)
  BY DEF DeskSound
<1>5. desks' = [desks EXCEPT ![k] = desk]
  BY DEF ReadForCreate, Start
<1> HIDE DEF desk
<1> QED
  BY <1>3, <1>4, <1>5, OnlyDeskChanges DEF ReadForCreate, Start, Inductive, StockOK

(* What a clerk who is at work on a shipment has before him.               *)
LEMMA CopyOf ==
    ASSUME Inductive, NEW k \in Clerks, desks[k].op \notin {"idle", "create"}
    PROVE  /\ desks[k].shipment \in DOMAIN shipments
           /\ desks[k].row \in Shipment
           /\ RowSound(desks[k].row, desks[k].shipment, deliveries)
           /\ desks[k].row.contract \in Contracts
           /\ desks[k].seen \in ContractStatuses
<1>1. desks[k].row \in Shipment /\ desks[k].seen \in ContractStatuses
  BY DeskOf, DeskFields
<1> QED
  BY <1>1, DeskOf DEF DeskSound, Shipment

(* The clerk turns to the next step with the same copy, or is done.        *)
LEMMA NextOnDesk ==
    ASSUME Inductive, NEW k \in Clerks, desks[k].op \notin {"idle", "create"},
           NEW op \in {"sync", "audit", "delete", "advance", "resync"},
           NEW seen \in ContractStatuses
    PROVE  LET desk == [desks[k] EXCEPT !.op = op, !.seen = seen]
           IN  desk \in Desk /\ DeskSound(desk, shipments, deliveries)
<1> DEFINE desk == [op |-> op, shipment |-> desks[k].shipment, row |-> desks[k].row,
                    seen |-> seen]
<1>1. [desks[k] EXCEPT !.op = op, !.seen = seen] = desk
  <2> DEFINE moved == [op |-> op, shipment |-> desks[k].shipment, row |-> desks[k].row,
                       seen |-> desks[k].seen]
  <2>1. [desks[k] EXCEPT !.op = op] = moved
    <3>1. desks[k] = [op |-> desks[k].op, shipment |-> desks[k].shipment,
                      row |-> desks[k].row, seen |-> desks[k].seen]
      BY DeskOf, DeskFields
    <3> QED
      BY <3>1
  <2>2. [moved EXCEPT !.seen = seen] = desk
    OBVIOUS
  <2>3. [desks[k] EXCEPT !.op = op, !.seen = seen]
           = [[desks[k] EXCEPT !.op = op] EXCEPT !.seen = seen]
    BY Zenon
  <2> HIDE DEF moved, desk
  <2> QED
    BY <2>1, <2>2, <2>3
<1>2. desks[k].shipment \in Nat
  BY DeskOf, DeskFields
<1>3. desk \in Desk
  BY <1>2, CopyOf DEF Desk
<1>4. DeskSound(desk, shipments, deliveries)
  BY CopyOf DEF DeskSound
<1> QED
  BY <1>1, <1>3, <1>4

(* Rows of shipments change, and one desk.                                 *)
LEMMA RowsChange ==
    ASSUME Inductive, NEW k \in Clerks, NEW desk \in Desk,
           DeskSound(desk, shipments, deliveries),
           desks' = [desks EXCEPT ![k] = desk],
           ShipmentsOK(shipments', deliveries), DOMAIN shipments \subseteq DOMAIN shipments',
           contract' \in [Contracts -> ContractStatuses], RestOfShipping
    PROVE  Inductive'
<1>1. deliveries' = deliveries /\ History(shipments, deliveries, shipments', deliveries')
  BY DEF RestOfShipping, History, IssuesStay
<1>2. DesksOK(desks', shipments', deliveries')
  <2>1. DesksOK(desks', shipments, deliveries)
    BY SetDesk DEF Inductive
  <2> QED
    BY <1>1, <2>1, DesksStay
<1>3. DeliveriesOK(deliveries', shipments')
  BY <1>1 DEF DeliveriesOK, Inductive
<1> QED
  BY <1>1, <1>2, <1>3 DEF Inductive, StockOK, RestOfShipping

(* A saved copy is as sound as the row it overwrites: its flag and its     *)
(* status were true of a delivery, and that delivery stays issued.         *)
LEMMA SaveOK ==
    ASSUME Inductive, NEW k \in Clerks, desks[k].op \notin {"idle", "create"}, Save(k)
    PROVE  ShipmentsOK(shipments', deliveries) /\ DOMAIN shipments' = DOMAIN shipments
<1> DEFINE s == desks[k].shipment
<1>1. CASE shipments' = [shipments EXCEPT ![s] = desks[k].row]
  BY <1>1, CopyOf, WriteRow DEF Inductive
<1>2. CASE shipments' = [shipments EXCEPT ![s].status = IF At(k, "advance")
                                                         THEN desks[k].row.status ELSE @]
  <2> DEFINE to  == IF At(k, "advance") THEN desks[k].row.status ELSE shipments[s].status
             row == [shipments[s] EXCEPT !.status = to]
  <2>1. s \in DOMAIN shipments
    BY CopyOf
  <2>2. to \in Stages
    BY <2>1, CopyOf, RowOf DEF Shipment
  <2>3. shipments[s] \in Shipment
    BY <2>1, RowOf
  <2>4. row \in Shipment /\ row.status = to /\ row.issued = shipments[s].issued
    BY <2>2, <2>3 DEF Shipment
  <2>5. RowSound(row, s, deliveries)
    BY <2>1, <2>4, CopyOf, RowOf DEF RowSound
  <2>6. shipments' = [shipments EXCEPT ![s] = row]
    BY <1>2, <2>1
  <2> HIDE DEF row, to
  <2> QED
    BY <2>1, <2>4, <2>5, <2>6, WriteRow DEF Inductive
<1> QED
  BY <1>1, <1>2 DEF Save

LEMMA CreateShipmentInductive ==
    ASSUME Inductive, NEW k \in Clerks, CreateShipment(k)
    PROVE  Inductive'
<1> DEFINE row == desks[k].row
<1>1. /\ row \in Shipment /\ row.status = "BOOKED" /\ ~ row.issued
      /\ row.contract \in Contracts /\ desks[k].seen \in ContractStatuses
  BY DeskOf, DeskFields DEF CreateShipment, At, DeskSound, Shipment
<1>2. shipments' = Append(shipments, row)
  BY DEF CreateShipment
<1>3. shipments \in Seq(Shipment)
  BY DEF Inductive, ShipmentsOK
<1> HIDE DEF row
<1>4. /\ shipments' \in Seq(Shipment)
      /\ DOMAIN shipments' = DOMAIN shipments \cup {Len(shipments) + 1}
      /\ \A s \in DOMAIN shipments : shipments'[s] = shipments[s]
      /\ shipments'[Len(shipments) + 1] = row
  BY <1>1, <1>2, <1>3, SequenceFields
<1>5. ShipmentsOK(shipments', deliveries)
  <2>1. ASSUME NEW s \in DOMAIN shipments'
        PROVE  RowSound(shipments'[s], s, deliveries)
    <3>1. CASE s \in DOMAIN shipments
      BY <1>4, <3>1, RowOf
    <3>2. CASE s = Len(shipments) + 1
      BY <1>1, <1>4, <3>2 DEF RowSound
    <3> QED
      BY <1>4, <3>1, <3>2
  <2> QED
    BY <1>4, <2>1 DEF ShipmentsOK
<1>6. contract' \in [Contracts -> ContractStatuses]
  BY <1>1 DEF CreateShipment, Inductive, StockOK, row
<1>7. desks' = [desks EXCEPT ![k] = EmptyDesk] /\ RestOfShipping
  BY DEF CreateShipment, Clear
<1> QED
  BY <1>4, <1>5, <1>6, <1>7, IdleDesk, RowsChange

(* UpdateShipment, SaveAudit, SaveBeforeDelete, UpdateStatus               *)
LEMMA SaversInductive ==
    ASSUME Inductive, NEW k \in Clerks,
           \/ UpdateShipment(k) \/ SaveAudit(k) \/ SaveBeforeDelete(k) \/ UpdateStatus(k)
    PROVE  Inductive'
<1>1. /\ desks[k].op \notin {"idle", "create"} /\ Save(k)
      /\ UNCHANGED contract /\ RestOfShipping
  BY DEF UpdateShipment, SaveAudit, SaveBeforeDelete, UpdateStatus, At
<1>2. ShipmentsOK(shipments', deliveries) /\ DOMAIN shipments' = DOMAIN shipments
  BY <1>1, SaveOK
<1>3. contract' \in [Contracts -> ContractStatuses]
  BY <1>1 DEF Inductive, StockOK
<1>4. CASE Clear(k)
  BY <1>1, <1>2, <1>3, <1>4, IdleDesk, RowsChange DEF Clear
<1>5. ASSUME NEW op \in {"sync", "delete"}, Continue(k, op)
      PROVE  Inductive'
  <2> DEFINE desk == [desks[k] EXCEPT !.op = op, !.seen = desks[k].seen]
  <2>1. desk \in Desk /\ DeskSound(desk, shipments, deliveries)
    BY <1>1, CopyOf, NextOnDesk
  <2>2. desks' = [desks EXCEPT ![k] = desk]
    BY <1>5 DEF Continue
  <2> HIDE DEF desk
  <2> QED
    BY <1>1, <1>2, <1>3, <2>1, <2>2, RowsChange
<1> QED
  BY <1>4, <1>5 DEF UpdateShipment, SaveAudit, SaveBeforeDelete, UpdateStatus

(* ReadContractForSync, SyncContract, ShipContractOnBoard: the contract is *)
(* read or written, the copy stays where it is.                            *)
LEMMA ContractStepsInductive ==
    ASSUME Inductive, NEW k \in Clerks,
           ReadContractForSync(k) \/ SyncContract(k) \/ ShipContractOnBoard(k)
    PROVE  Inductive'
<1>1. /\ desks[k].op \notin {"idle", "create"}
      /\ UNCHANGED shipments /\ RestOfShipping
  BY DEF ReadContractForSync, SyncContract, ShipContractOnBoard, At
<1>2. contract \in [Contracts -> ContractStatuses]
  BY DEF Inductive, StockOK
<1>3. desks[k].row.contract \in Contracts /\ desks[k].seen \in ContractStatuses
  BY <1>1, CopyOf
<1>4. contract' \in [Contracts -> ContractStatuses]
  BY <1>2, <1>3 DEF ReadContractForSync, SyncContract, ShipContractOnBoard, ContractStatuses
<1>5. \E op \in {"resync", "audit", "advance"}, seen \in ContractStatuses :
         desks' = [desks EXCEPT ![k] = [desks[k] EXCEPT !.op = op, !.seen = seen]]
  <2>1. CASE ReadContractForSync(k)
    <3>1. contract[desks[k].row.contract] \in ContractStatuses
      BY <1>2, <1>3
    <3>2. desks' = [desks EXCEPT ![k] =
             [desks[k] EXCEPT !.op = "resync", !.seen = contract[desks[k].row.contract]]]
      BY <2>1 DEF ReadContractForSync
    <3> QED
      BY <3>1, <3>2
  <2>2. CASE SyncContract(k) \/ ShipContractOnBoard(k)
    <3>1. PICK op \in {"audit", "advance"} : Continue(k, op)
      BY <2>2 DEF SyncContract, ShipContractOnBoard
    <3>2. desks' = [desks EXCEPT ![k] = [desks[k] EXCEPT !.op = op, !.seen = desks[k].seen]]
      BY <3>1 DEF Continue
    <3> QED
      BY <1>3, <3>1, <3>2
  <2> QED
    BY <2>1, <2>2
<1>6. PICK op \in {"resync", "audit", "advance"}, seen \in ContractStatuses :
         desks' = [desks EXCEPT ![k] = [desks[k] EXCEPT !.op = op, !.seen = seen]]
  BY <1>5
<1> DEFINE desk == [desks[k] EXCEPT !.op = op, !.seen = seen]
<1>7. desk \in Desk /\ DeskSound(desk, shipments, deliveries)
  BY <1>1, NextOnDesk
<1>8. desks' = [desks EXCEPT ![k] = desk]
  BY <1>6
<1> HIDE DEF desk
<1> QED
  BY <1>1, <1>4, <1>7, <1>8, OnlyDeskChanges DEF RestOfShipping

LEMMA SoftDeleteInductive ==
    ASSUME Inductive, NEW k \in Clerks, SoftDelete(k)
    PROVE  Inductive'
<1> DEFINE s   == desks[k].shipment
           row == [shipments[s] EXCEPT !.deleted = TRUE]
<1>1. s \in DOMAIN shipments
  BY CopyOf DEF SoftDelete, At
<1>2. /\ row \in Shipment /\ row.issued = shipments[s].issued
      /\ row.status = shipments[s].status
  <2>1. shipments[s] \in Shipment
    BY <1>1, RowOf
  <2> QED
    BY <2>1 DEF Shipment
<1>3. shipments' = [shipments EXCEPT ![s] = row]
  BY <1>1 DEF SoftDelete
<1>4. RowSound(row, s, deliveries)
  BY <1>1, <1>2, RowOf DEF RowSound
<1> HIDE DEF row
<1>5. ShipmentsOK(shipments', deliveries) /\ DOMAIN shipments' = DOMAIN shipments
  BY <1>1, <1>2, <1>3, <1>4, WriteRow DEF Inductive
<1>6. desks' = [desks EXCEPT ![k] = EmptyDesk] /\ UNCHANGED contract /\ RestOfShipping
  BY DEF SoftDelete, Clear
<1> QED
  BY <1>5, <1>6, IdleDesk, RowsChange DEF Inductive, StockOK

LEMMA AbandonInductive ==
    ASSUME Inductive, NEW k \in Clerks, Abandon(k)
    PROVE  Inductive'
<1>1. desks' = [desks EXCEPT ![k] = EmptyDesk] /\ UNCHANGED <<contract, shipments>>
      /\ RestOfShipping
  BY DEF Abandon, Clear
<1> QED
  BY <1>1, IdleDesk, RowsChange DEF Inductive, StockOK

LEMMA IssueStockInductive ==
    ASSUME Inductive, NEW k \in Clerks, IssueStock(k)
    PROVE  Inductive'
<1> DEFINE s == desks[k].shipment
<1>1. s \in DOMAIN shipments /\ TakeOut(s)
  BY CopyOf DEF IssueStock, At
<1>2. /\ DeliveriesOK(deliveries', shipments) /\ IssuesStay(deliveries, deliveries')
      /\ Backed(s, deliveries')
  <2>1. CASE \E d \in Active(s) :
                /\ deliveries[d].status = "DRAFT"
                /\ deliveries' = [deliveries EXCEPT ![d].status = "ISSUED"]
    <3>1. PICK d \in Active(s) :
                /\ deliveries[d].status = "DRAFT"
                /\ deliveries' = [deliveries EXCEPT ![d].status = "ISSUED"]
      BY <2>1
    <3>2. d \in DOMAIN deliveries /\ deliveries[d].shipment = s
      BY DEF Active
    <3> QED
      BY <3>1, <3>2, DraftDecided DEF Inductive
  <2>2. CASE /\ Active(s) = {}
             /\ deliveries' = Append(deliveries, [shipment |-> s, status |-> "ISSUED"])
    <3>1. \A d \in DOMAIN deliveries :
             deliveries[d].shipment = s => deliveries[d].status = "CANCELLED"
      BY <2>2 DEF Active
    <3> QED
      BY <1>1, <2>2, <3>1, DeliveryAdded DEF Inductive, ShipmentsOK
  <2> QED
    BY <2>1, <2>2 DEF IssueStock
<1>3. UNCHANGED <<contract, otherMoves>> /\ desks' = [desks EXCEPT ![k] = EmptyDesk]
  BY DEF IssueStock, Clear
<1>4. /\ StockOK' /\ DeliveriesOK(deliveries', shipments')
      /\ ShipmentsOK(shipments', deliveries') /\ DesksOK(desks, shipments', deliveries')
  BY <1>1, <1>2, <1>3, GoodsLeave
<1>5. DesksOK(desks', shipments', deliveries')
  BY <1>3, <1>4, IdleDesk, SetDesk
<1> QED
  BY <1>4, <1>5 DEF Inductive

LEMMA ClerkStepInductive ==
    ASSUME Inductive, NEW k \in Clerks, ClerkStep(k)
    PROVE  Inductive'
BY ReadForCreateInductive, ReadersInductive, CreateShipmentInductive, SaversInductive,
   ContractStepsInductive, SoftDeleteInductive, IssueStockInductive, AbandonInductive
   DEF ClerkStep

-----------------------------------------------------------------------------
(* Other movements, and the sales contracts                                *)

LEMMA OutsideInductive ==
    ASSUME Inductive,
           \/ \E p \in Products, change \in {-1, 1} : MoveStock(p, change)
           \/ ContractServiceStep
    PROVE  Inductive'
<1>1. UNCHANGED <<shipments, deliveries, desks>>
  BY DEF MoveStock, ContractServiceStep, shipmentVars
<1>2. CASE \E p \in Products, change \in {-1, 1} : MoveStock(p, change)
  <2>1. PICK p \in Products, change \in {-1, 1} : MoveStock(p, change)
    BY <1>2
  <2>2. StockOK'
    BY <2>1 DEF MoveStock, Inductive, StockOK
  <2> QED
    BY <1>1, <2>2 DEF Inductive
<1>3. CASE ContractServiceStep
  <2>1. contract' \in [Contracts -> ContractStatuses]
    BY <1>3 DEF ContractServiceStep, Inductive, StockOK, ContractStatuses
  <2>2. PICK p \in Products : \E r \in 0 .. Opening[p] : reserved' = [reserved EXCEPT ![p] = r]
    BY <1>3 DEF ContractServiceStep
  <2>3. reserved' \in [Products -> Nat]
    BY <2>2, OpeningAssumption DEF Inductive, StockOK
  <2> QED
    BY <1>1, <1>3, <2>1, <2>3 DEF ContractServiceStep, shipmentVars, Inductive, StockOK
<1> QED
  BY <1>2, <1>3

-----------------------------------------------------------------------------
(* The theorems                                                            *)

LEMMA InitInductive == Init => Inductive
<1> SUFFICES ASSUME Init PROVE Inductive
  OBVIOUS
<1> DEFINE promised(p) == SumOver([c \in Contracts |-> Lines[c][p]], Contracts)
<1>1. StockOK
  <2>1. ASSUME NEW p \in Products PROVE promised(p) \in Nat
    <3>1. [c \in Contracts |-> Lines[c][p]] \in [Contracts -> Nat]
      BY LinesAssumption
    <3> QED
      BY <3>1, ContractsAssumption, SumOverNat
  <2>2. reserved = [p \in Products |-> promised(p)]
    BY DEF Init
  <2> HIDE DEF promised
  <2>3. reserved \in [Products -> Nat]
    BY <2>1, <2>2
  <2>4. /\ contract = [c \in Contracts |-> "CONFIRMED"]
        /\ stock = Opening /\ Opening \in [Products -> Nat]
        /\ held = [c \in Contracts |-> 1]
        /\ otherMoves = [p \in Products |-> 0]
    BY OpeningAssumption, Zenon DEF Init, ShipmentInit
  <2> QED
    BY <2>3, <2>4 DEF StockOK, ContractStatuses
<1>2. DeliveriesOK(deliveries, shipments) /\ ShipmentsOK(shipments, deliveries)
  BY DEF Init, ShipmentInit, DeliveriesOK, OneActive, ShipmentsOK
<1>3. DesksOK(desks, shipments, deliveries)
  BY IdleDesk DEF Init, ShipmentInit, DesksOK
<1> QED
  BY <1>1, <1>2, <1>3 DEF Inductive

(* The parts of the invariant hold together in every reachable state.      *)
THEOREM ShipmentsInvariant == Spec => []Inductive
<1>1. Inductive /\ [Next]_vars => Inductive'
  <2> SUFFICES ASSUME Inductive, [Next]_vars PROVE Inductive'
    OBVIOUS
  <2>1. CASE \E k \in Clerks : ClerkStep(k)
    BY <2>1, ClerkStepInductive
  <2>2. CASE DeliveryStep
    BY <2>2, CreateExportDeliveryInductive, IssueExportDeliveryInductive,
       CancelExportDeliveryInductive DEF DeliveryStep
  <2>3. CASE (\E p \in Products, change \in {-1, 1} : MoveStock(p, change))
             \/ ContractServiceStep
    BY <2>3, OutsideInductive
  <2>4. CASE UNCHANGED vars
    BY <2>4 DEF vars, shipmentVars, Inductive, StockOK
  <2> QED
    BY <2>1, <2>2, <2>3, <2>4 DEF Next, ShipmentStep
<1> QED
  BY InitInductive, <1>1, PTL DEF Spec

(* Rows stay well-formed and stock is never negative.                      *)
THEOREM ShipmentsTypeCorrect == Spec => []TypeOK
<1>1. Inductive => TypeOK
  BY DEF Inductive, TypeOK, StockOK, DeliveriesOK, ShipmentsOK, DesksOK
<1> QED
  BY ShipmentsInvariant, <1>1, PTL

(* A shipment never has two active deliveries, whichever of creating,      *)
(* issuing and cancelling come in whichever order, and whatever the flag   *)
(* on the shipment was reset to by a stale save.                           *)
THEOREM AtMostOneActiveDelivery == Spec => []OneActiveDelivery
<1>1. Inductive => OneActiveDelivery
  BY DEF Inductive, DeliveriesOK, OneActive, OneActiveDelivery
<1> QED
  BY ShipmentsInvariant, <1>1, PTL

(* However stale the rows that clerks save, a shipment beyond BOOKED has   *)
(* had its goods issued.                                                   *)
THEOREM GoodsAreIssuedBeforeSailing == Spec => []NothingSailsUnissued
<1>1. Inductive => NothingSailsUnissued
  BY DEF Inductive, ShipmentsOK, RowSound, Backed, NothingSailsUnissued, Issued,
         IssuedDeliveries
<1> QED
  BY ShipmentsInvariant, <1>1, PTL

-----------------------------------------------------------------------------
(* Shipments keep their contract: so do the copies that clerks write back  *)

SubjectsStay(ss, ss2) ==
    /\ DOMAIN ss \subseteq DOMAIN ss2
    /\ \A s \in DOMAIN ss : ss2[s].contract = ss[s].contract

(* The copy on a desk is of the contract its shipment has.                 *)
CopyTrue(desk, ss) ==
    desk.op \notin {"idle", "create"} =>
        /\ desk.shipment \in DOMAIN ss
        /\ desk.row.contract = ss[desk.shipment].contract

CopiesTrue(dk, ss) == \A k \in Clerks : CopyTrue(dk[k], ss)

LEMMA CopiesStay ==
    ASSUME NEW dk, NEW ss, NEW ss2, CopiesTrue(dk, ss), SubjectsStay(ss, ss2)
    PROVE  CopiesTrue(dk, ss2)
BY DEF CopiesTrue, CopyTrue, SubjectsStay

LEMMA SetCopy ==
    ASSUME NEW dk \in [Clerks -> Desk], NEW ss, NEW ss2,
           CopiesTrue(dk, ss), SubjectsStay(ss, ss2),
           NEW k \in Clerks, NEW desk, CopyTrue(desk, ss)
    PROVE  CopiesTrue([dk EXCEPT ![k] = desk], ss2)
<1>1. CopiesTrue([dk EXCEPT ![k] = desk], ss)
  BY DEF CopiesTrue
<1> QED
  BY <1>1, CopiesStay

LEMMA SameSubjects == ASSUME NEW ss PROVE SubjectsStay(ss, ss)
BY DEF SubjectsStay

LEMMA IdleCopy == ASSUME NEW ss PROVE CopyTrue(EmptyDesk, ss)
BY DEF CopyTrue, EmptyDesk

(* The copy stays on the desk while the clerk goes on.                     *)
LEMMA SameCopy ==
    ASSUME Inductive, NEW k \in Clerks, desks[k].op \notin {"idle", "create"},
           CopyTrue(desks[k], shipments), NEW op, NEW seen
    PROVE  /\ CopyTrue([desks[k] EXCEPT !.op = op], shipments)
           /\ CopyTrue([desks[k] EXCEPT !.op = op, !.seen = seen], shipments)
<1> DEFINE one == [desks[k] EXCEPT !.op = op]
           two == [one EXCEPT !.seen = seen]
<1>1. desks[k] = [op |-> desks[k].op, shipment |-> desks[k].shipment,
                  row |-> desks[k].row, seen |-> desks[k].seen]
  BY DeskOf, DeskFields
<1>2. one.row = desks[k].row /\ one.shipment = desks[k].shipment
  BY <1>1
<1>3. two.row = desks[k].row /\ two.shipment = desks[k].shipment
  BY <1>1
<1>4. [desks[k] EXCEPT !.op = op, !.seen = seen] = two
  BY Zenon
<1> HIDE DEF one, two
<1>5. CopyTrue(one, shipments) /\ CopyTrue(two, shipments)
  BY <1>2, <1>3 DEF CopyTrue
<1> QED
  BY <1>4, <1>5 DEF one

LEMMA RowReplaced ==
    ASSUME Inductive, NEW s \in DOMAIN shipments, NEW row,
           row.contract = shipments[s].contract
    PROVE  SubjectsStay(shipments, [shipments EXCEPT ![s] = row])
BY DEF SubjectsStay

(* Saving a copy, whole or only its status, leaves the contract alone.     *)
LEMMA SaveKeepsSubjects ==
    ASSUME Inductive, NEW k \in Clerks, desks[k].op \notin {"idle", "create"},
           CopyTrue(desks[k], shipments), Save(k)
    PROVE  SubjectsStay(shipments, shipments')
<1> DEFINE s == desks[k].shipment
<1>1. s \in DOMAIN shipments /\ desks[k].row.contract = shipments[s].contract
  BY DEF CopyTrue
<1>2. CASE shipments' = [shipments EXCEPT ![s] = desks[k].row]
  BY <1>1, <1>2, RowReplaced
<1>3. CASE shipments' = [shipments EXCEPT ![s].status = IF At(k, "advance")
                                                         THEN desks[k].row.status ELSE @]
  <2> DEFINE to  == IF At(k, "advance") THEN desks[k].row.status ELSE shipments[s].status
             row == [shipments[s] EXCEPT !.status = to]
  <2>1. shipments[s] \in Shipment
    BY <1>1, RowOf
  <2>2. row.contract = shipments[s].contract
    BY <2>1 DEF Shipment
  <2>3. shipments' = [shipments EXCEPT ![s] = row]
    BY <1>1, <1>3
  <2> HIDE DEF row
  <2> QED
    BY <1>1, <2>2, <2>3, RowReplaced
<1> QED
  BY <1>2, <1>3 DEF Save

(* A clerk takes a copy of a shipment, or of the contract of a new one.    *)
LEMMA ReadersCopy ==
    ASSUME Inductive, NEW k \in Clerks,
           \/ \E c \in Contracts : ReadForCreate(k, c)
           \/ \E s \in DOMAIN shipments :
                 \/ ReadForUpdate(k, s) \/ ReadForRemove(k, s) \/ ReadForIssue(k, s)
                 \/ \E to \in Stages : ReadForStatus(k, s, to)
    PROVE  /\ UNCHANGED <<stock, otherMoves, shipments, deliveries>>
           /\ \E desk : desks' = [desks EXCEPT ![k] = desk] /\ CopyTrue(desk, shipments)
<1>1. ASSUME NEW c \in Contracts, ReadForCreate(k, c)
      PROVE  /\ UNCHANGED <<stock, otherMoves, shipments, deliveries>>
             /\ \E desk : desks' = [desks EXCEPT ![k] = desk] /\ CopyTrue(desk, shipments)
  <2>1. PICK row, seen : Start(k, "create", 0, row, seen)
    BY <1>1 DEF ReadForCreate
  <2> DEFINE desk == [op |-> "create", shipment |-> 0, row |-> row, seen |-> seen]
  <2>2. CopyTrue(desk, shipments) /\ desks' = [desks EXCEPT ![k] = desk]
    BY <2>1 DEF CopyTrue, Start
  <2> QED
    BY <2>1, <2>2 DEF Start
<1>2. ASSUME NEW s \in DOMAIN shipments, NEW op, NEW row, NEW seen,
             row.contract = shipments[s].contract, Start(k, op, s, row, seen)
      PROVE  /\ UNCHANGED <<stock, otherMoves, shipments, deliveries>>
             /\ \E desk : desks' = [desks EXCEPT ![k] = desk] /\ CopyTrue(desk, shipments)
  <2> DEFINE desk == [op |-> op, shipment |-> s, row |-> row, seen |-> seen]
  <2>1. CopyTrue(desk, shipments) /\ desks' = [desks EXCEPT ![k] = desk]
    BY <1>2 DEF CopyTrue, Start
  <2> QED
    BY <1>2, <2>1 DEF Start
<1>3. ASSUME NEW s \in DOMAIN shipments,
             ReadForUpdate(k, s) \/ ReadForRemove(k, s) \/ ReadForIssue(k, s)
      PROVE  \E op, row, seen : /\ row.contract = shipments[s].contract
                                /\ Start(k, op, s, row, seen)
  BY <1>3 DEF ReadForUpdate, ReadForRemove, ReadForIssue, Read
<1>4. ASSUME NEW s \in DOMAIN shipments, NEW to \in Stages, ReadForStatus(k, s, to)
      PROVE  \E op, row, seen : /\ row.contract = shipments[s].contract
                                /\ Start(k, op, s, row, seen)
  <2> DEFINE row == [shipments[s] EXCEPT !.status = to]
  <2>1. row.contract = shipments[s].contract
    BY RowOf DEF Shipment
  <2> QED
    BY <1>4, <2>1 DEF ReadForStatus
<1>5. CASE \E s \in DOMAIN shipments :
              \/ ReadForUpdate(k, s) \/ ReadForRemove(k, s) \/ ReadForIssue(k, s)
              \/ \E to \in Stages : ReadForStatus(k, s, to)
  <2>1. PICK s \in DOMAIN shipments :
              \/ ReadForUpdate(k, s) \/ ReadForRemove(k, s) \/ ReadForIssue(k, s)
              \/ \E to \in Stages : ReadForStatus(k, s, to)
    BY <1>5
  <2>2. PICK op, row, seen : /\ row.contract = shipments[s].contract
                             /\ Start(k, op, s, row, seen)
    BY <2>1, <1>3, <1>4
  <2> QED
    BY <2>2, <1>2
<1> QED
  BY <1>1, <1>5

(* No step of a clerk changes the contract of a shipment.                  *)
LEMMA ClerksKeepSubjects ==
    ASSUME Inductive, CopiesTrue(desks, shipments), NEW k \in Clerks, ClerkStep(k)
    PROVE  /\ SubjectsStay(shipments, shipments')
           /\ CopiesTrue(desks', shipments')
           /\ ~ IssueStock(k) => UNCHANGED <<stock, otherMoves, deliveries>>
<1>1. desks \in [Clerks -> Desk] /\ CopyTrue(desks[k], shipments)
  BY DEF Inductive, DesksOK, CopiesTrue
<1>2. SUFFICES /\ SubjectsStay(shipments, shipments')
               /\ \E desk : desks' = [desks EXCEPT ![k] = desk] /\ CopyTrue(desk, shipments)
               /\ ~ IssueStock(k) => UNCHANGED <<stock, otherMoves, deliveries>>
  <2>1. ASSUME SubjectsStay(shipments, shipments'),
               NEW desk, desks' = [desks EXCEPT ![k] = desk], CopyTrue(desk, shipments)
        PROVE  CopiesTrue(desks', shipments')
    BY <1>1, <2>1, SetCopy
  <2> QED
    BY <2>1
<1>3. CASE \/ \E c \in Contracts : ReadForCreate(k, c)
           \/ \E s \in DOMAIN shipments :
                 \/ ReadForUpdate(k, s) \/ ReadForRemove(k, s) \/ ReadForIssue(k, s)
                 \/ \E to \in Stages : ReadForStatus(k, s, to)
  BY <1>3, ReadersCopy, SameSubjects
<1>4. CASE CreateShipment(k)
  <2>1. SubjectsStay(shipments, shipments')
    <3>1. shipments \in Seq(Shipment) /\ desks[k].row \in Shipment
      BY <1>4, DeskOf, DeskFields DEF CreateShipment, At, Inductive, ShipmentsOK
    <3>2. shipments' = Append(shipments, desks[k].row)
      BY <1>4 DEF CreateShipment
    <3> QED
      BY <3>1, <3>2, SequenceFields DEF SubjectsStay
  <2> QED
    BY <1>4, <2>1, IdleCopy DEF CreateShipment, Clear, RestOfShipping
<1>5. CASE \/ UpdateShipment(k) \/ SaveAudit(k) \/ SaveBeforeDelete(k) \/ UpdateStatus(k)
  <2>1. desks[k].op \notin {"idle", "create"} /\ Save(k) /\ RestOfShipping
    BY <1>5 DEF UpdateShipment, SaveAudit, SaveBeforeDelete, UpdateStatus, At
  <2>2. Clear(k) \/ \E op \in {"sync", "delete"} : Continue(k, op)
    BY <1>5 DEF UpdateShipment, SaveAudit, SaveBeforeDelete, UpdateStatus
  <2>3. \E desk : desks' = [desks EXCEPT ![k] = desk] /\ CopyTrue(desk, shipments)
    <3>1. CASE Clear(k)
      BY <3>1, IdleCopy DEF Clear
    <3>2. ASSUME NEW op, Continue(k, op)
          PROVE  \E desk : desks' = [desks EXCEPT ![k] = desk] /\ CopyTrue(desk, shipments)
      <4>1. desks' = [desks EXCEPT ![k] = [desks[k] EXCEPT !.op = op]]
        BY <3>2 DEF Continue
      <4> QED
        BY <1>1, <2>1, <4>1, SameCopy
    <3> QED
      BY <2>2, <3>1, <3>2
  <2> QED
    BY <1>1, <2>1, <2>3, SaveKeepsSubjects DEF RestOfShipping
<1>6. CASE ReadContractForSync(k) \/ SyncContract(k) \/ ShipContractOnBoard(k)
  <2>1. desks[k].op \notin {"idle", "create"} /\ UNCHANGED shipments /\ RestOfShipping
    BY <1>6 DEF ReadContractForSync, SyncContract, ShipContractOnBoard, At
  <2>2. CASE ReadContractForSync(k)
    <3>1. desks' = [desks EXCEPT ![k] =
             [desks[k] EXCEPT !.op = "resync", !.seen = contract[desks[k].row.contract]]]
      BY <2>2 DEF ReadContractForSync
    <3> QED
      BY <1>1, <2>1, <3>1, SameCopy, SameSubjects DEF RestOfShipping
  <2>3. CASE SyncContract(k) \/ ShipContractOnBoard(k)
    <3>1. PICK op : Continue(k, op)
      BY <2>3 DEF SyncContract, ShipContractOnBoard
    <3>2. desks' = [desks EXCEPT ![k] = [desks[k] EXCEPT !.op = op]]
      BY <3>1 DEF Continue
    <3> QED
      BY <1>1, <2>1, <3>2, SameCopy, SameSubjects DEF RestOfShipping
  <2> QED
    BY <1>6, <2>2, <2>3
<1>7. CASE SoftDelete(k)
  <2> DEFINE s   == desks[k].shipment
             row == [shipments[s] EXCEPT !.deleted = TRUE]
  <2>1. s \in DOMAIN shipments
    BY <1>7, CopyOf DEF SoftDelete, At
  <2>2. row.contract = shipments[s].contract
    BY <2>1, RowOf DEF Shipment
  <2>3. shipments' = [shipments EXCEPT ![s] = row]
    BY <1>7, <2>1 DEF SoftDelete
  <2> HIDE DEF row
  <2> QED
    <3>1. SubjectsStay(shipments, shipments')
      BY <2>1, <2>2, <2>3, RowReplaced
    <3> QED
      BY <1>7, <3>1, IdleCopy DEF SoftDelete, Clear, RestOfShipping
<1>8. CASE IssueStock(k)
  <2> DEFINE s   == desks[k].shipment
             row == [shipments[s] EXCEPT !.issued = TRUE, !.status = "LOADING"]
  <2>1. s \in DOMAIN shipments
    BY <1>8, CopyOf DEF IssueStock, At
  <2>2. row.contract = shipments[s].contract
    BY <2>1, RowOf DEF Shipment
  <2>3. shipments' = [shipments EXCEPT ![s] = row]
    BY <1>8, <2>1 DEF IssueStock, TakeOut
  <2> HIDE DEF row
  <2> QED
    BY <1>8, <2>1, <2>2, <2>3, RowReplaced, IdleCopy DEF IssueStock, Clear
<1>9. CASE Abandon(k)
  BY <1>9, IdleCopy, SameSubjects DEF Abandon, Clear, RestOfShipping
<1> QED
  BY <1>3, <1>4, <1>5, <1>6, <1>7, <1>8, <1>9 DEF ClerkStep

-----------------------------------------------------------------------------
(* Stock: what was there, plus the other movements, minus what was issued  *)

(* What delivery d of ds took out of product p. *)
GoodsOut(p, ds, ss) ==
    [d \in 1 .. Len(ds) |->
        IF ds[d].status = "ISSUED" THEN Lines[ss[ds[d].shipment].contract][p] ELSE 0]

LEMMA GoodsOutFacts ==
    ASSUME NEW ds, NEW ss \in Seq(Shipment), DeliveriesOK(ds, ss), NEW p \in Products
    PROVE  /\ Len(ds) \in Nat /\ DOMAIN ds = 1 .. Len(ds)
           /\ GoodsOut(p, ds, ss) \in [1 .. Len(ds) -> Int]
           /\ TakenOut(p, ds, ss) = SumTo(GoodsOut(p, ds, ss), Len(ds))
           /\ TakenOut(p, ds, ss) \in Int
<1>1. Len(ds) \in Nat /\ DOMAIN ds = 1 .. Len(ds)
  BY DEF DeliveriesOK
<1>2. ASSUME NEW d \in 1 .. Len(ds)
      PROVE  Lines[ss[ds[d].shipment].contract][p] \in Nat
  <2>1. ss[ds[d].shipment] \in Shipment
    BY <1>1, SequenceFields DEF DeliveriesOK
  <2>2. ss[ds[d].shipment].contract \in Contracts
    BY <2>1 DEF Shipment
  <2> QED
    BY <2>2, LinesAssumption
<1>3. GoodsOut(p, ds, ss) \in [1 .. Len(ds) -> Int]
  BY <1>2 DEF GoodsOut
<1>4. TakenOut(p, ds, ss) = SumTo(GoodsOut(p, ds, ss), Len(ds))
  BY DEF TakenOut, GoodsOut
<1> QED
  BY <1>1, <1>3, <1>4, SumToInt

(* Whatever clerks write to the shipments, the deliveries took out what    *)
(* they took out.                                                          *)
LEMMA TakenOutStays ==
    ASSUME NEW ds, NEW ss, NEW ss2, DeliveriesOK(ds, ss), SubjectsStay(ss, ss2),
           NEW p \in Products
    PROVE  TakenOut(p, ds, ss2) = TakenOut(p, ds, ss)
<1>1. DOMAIN ds = 1 .. Len(ds)
  BY DEF DeliveriesOK
<1>2. GoodsOut(p, ds, ss2) = GoodsOut(p, ds, ss)
  BY <1>1 DEF GoodsOut, DeliveriesOK, SubjectsStay
<1> QED
  BY <1>2 DEF TakenOut, GoodsOut

(* What a delivery takes out when it is added.                             *)
LEMMA DeliveryAddedTakes ==
    ASSUME NEW ds, NEW ss \in Seq(Shipment), DeliveriesOK(ds, ss),
           NEW s \in DOMAIN ss, NEW status \in {"DRAFT", "ISSUED"}, NEW p \in Products
    PROVE  LET after == TakenOut(p, Append(ds, [shipment |-> s, status |-> status]), ss)
           IN  /\ status = "ISSUED" =>
                     after = TakenOut(p, ds, ss) + Lines[ss[s].contract][p]
               /\ status # "ISSUED" => after = TakenOut(p, ds, ss)
<1> DEFINE row == [shipment |-> s, status |-> status]
           new == Append(ds, row)
           f   == GoodsOut(p, ds, ss)
           g   == GoodsOut(p, new, ss)
           n   == Len(ds)
<1>1. n \in Nat /\ DOMAIN ds = 1 .. n /\ f \in [1 .. n -> Int]
      /\ TakenOut(p, ds, ss) = SumTo(f, n)
  BY GoodsOutFacts
<1>2. ds \in Seq(Delivery)
  BY DEF DeliveriesOK
<1>3. /\ Len(new) = n + 1
      /\ \A d \in 1 .. n : new[d] = ds[d]
      /\ new[n + 1] = row
  BY <1>1, <1>2
<1>4. row.shipment = s /\ row.status = status
  OBVIOUS
<1> HIDE DEF new, row, n
<1>5. /\ \A d \in 1 .. n : g[d] = f[d]
      /\ g[n + 1] = IF status = "ISSUED" THEN Lines[ss[s].contract][p] ELSE 0
      /\ DOMAIN g = 1 .. n + 1
      /\ g = [d \in 1 .. n + 1 |-> g[d]]
  <2>1. g = [d \in 1 .. n + 1 |->
              IF new[d].status = "ISSUED" THEN Lines[ss[new[d].shipment].contract][p] ELSE 0]
    BY <1>3 DEF GoodsOut
  <2>2. f = [d \in 1 .. n |->
              IF ds[d].status = "ISSUED" THEN Lines[ss[ds[d].shipment].contract][p] ELSE 0]
    BY DEF GoodsOut, n
  <2>3. n + 1 \in 1 .. n + 1 /\ \A d \in 1 .. n : d \in 1 .. n + 1
    BY <1>1 DEF n
  <2> HIDE DEF f, g
  <2>4. \A d \in 1 .. n : g[d] = f[d]
    BY <1>3, <2>1, <2>2, <2>3
  <2>5. g[n + 1] = IF status = "ISSUED" THEN Lines[ss[s].contract][p] ELSE 0
    BY <1>3, <1>4, <2>1, <2>3
  <2>6. DOMAIN g = 1 .. n + 1 /\ g = [d \in 1 .. n + 1 |-> g[d]]
    BY <2>1
  <2> QED
    BY <2>4, <2>5, <2>6
<1>6. Lines[ss[s].contract][p] \in Nat
  <2>1. ss[s] \in Shipment
    BY SequenceFields
  <2>2. ss[s].contract \in Contracts
    BY <2>1 DEF Shipment
  <2> QED
    BY <2>2, LinesAssumption
<1>7. TakenOut(p, new, ss) = SumTo(g, n + 1)
  BY <1>3 DEF TakenOut, GoodsOut
<1> HIDE DEF f, g
<1>8. g \in [1 .. n + 1 -> Int]
  <2>1. ASSUME NEW d \in 1 .. n + 1 PROVE g[d] \in Int
    <3>1. CASE d = n + 1
      BY <1>5, <1>6, <3>1
    <3>2. CASE d # n + 1
      <4>1. d \in 1 .. n
        BY <1>1, <3>2 DEF n
      <4> QED
        BY <1>1, <1>5, <4>1
    <3> QED
      BY <3>1, <3>2
  <2> QED
    BY <1>5, <2>1
<1>9. SumTo(g, n + 1) = SumTo(f, n) + g[n + 1]
  BY <1>1, <1>5, <1>8, SumExtend
<1>10. SumTo(f, n) \in Int
  BY <1>1, SumToInt
<1> QED
  BY <1>1, <1>5, <1>7, <1>9, <1>10 DEF new, row

(* What a draft takes out when it is issued or cancelled.                  *)
LEMMA DraftDecidedTakes ==
    ASSUME NEW ds, NEW ss \in Seq(Shipment), DeliveriesOK(ds, ss),
           NEW d \in DOMAIN ds, ds[d].status = "DRAFT",
           NEW status \in {"ISSUED", "CANCELLED"}, NEW p \in Products
    PROVE  LET after == TakenOut(p, [ds EXCEPT ![d].status = status], ss)
           IN  /\ status = "ISSUED" =>
                     after = TakenOut(p, ds, ss) + Lines[ss[ds[d].shipment].contract][p]
               /\ status # "ISSUED" => after = TakenOut(p, ds, ss)
<1> DEFINE row == [ds[d] EXCEPT !.status = status]
           new == [ds EXCEPT ![d] = row]
           f   == GoodsOut(p, ds, ss)
           g   == GoodsOut(p, new, ss)
           n   == Len(ds)
<1>1. n \in Nat /\ DOMAIN ds = 1 .. n /\ f \in [1 .. n -> Int]
      /\ TakenOut(p, ds, ss) = SumTo(f, n)
  BY GoodsOutFacts
<1>2. ds \in Seq(Delivery) /\ ds[d] \in Delivery
  BY DEF DeliveriesOK
<1>3. row.shipment = ds[d].shipment /\ row.status = status
  BY <1>2 DEF Delivery
<1>4. DeliveriesOK(new, ss)
  BY DraftDecided
<1>5. Len(new) = n /\ new[d] = row /\ \A e \in DOMAIN ds : e # d => new[e] = ds[e]
  BY <1>2
<1> HIDE DEF new, row, n
<1>6. g \in [1 .. n -> Int] /\ TakenOut(p, new, ss) = SumTo(g, n)
  BY <1>4, <1>5, GoodsOutFacts
<1>7. /\ \A e \in 1 .. n : e # d => g[e] = f[e]
      /\ f[d] = 0
      /\ g[d] = IF status = "ISSUED" THEN Lines[ss[ds[d].shipment].contract][p] ELSE 0
  BY <1>1, <1>3, <1>5 DEF GoodsOut, n
<1> HIDE DEF f, g
<1>8. SumTo(g, n) = SumTo(f, n) + (g[d] - f[d])
  <2>1. d \in 1 .. n
    BY <1>1
  <2> QED
    BY <1>1, <1>6, <1>7, <2>1, SumToChange
<1>9. SumTo(f, n) \in Int /\ g[d] \in Int
  BY <1>1, <1>6, SumToInt
<1> QED
  BY <1>1, <1>6, <1>7, <1>8, <1>9 DEF new, row

(* Goods leave the stock with the delivery that is issued.                 *)
Conserved == CopiesTrue(desks, shipments) /\ StockConserved

LEMMA StockFacts ==
    ASSUME Inductive, NEW p \in Products
    PROVE  /\ shipments \in Seq(Shipment) /\ DeliveriesOK(deliveries, shipments)
           /\ stock[p] \in Nat /\ otherMoves[p] \in Int /\ Opening[p] \in Nat
           /\ TakenOut(p, deliveries, shipments) \in Int
<1>1. shipments \in Seq(Shipment) /\ DeliveriesOK(deliveries, shipments)
  BY DEF Inductive, ShipmentsOK
<1>2. stock[p] \in Nat /\ otherMoves[p] \in Int /\ Opening[p] \in Nat
  BY OpeningAssumption DEF Inductive, StockOK
<1> QED
  BY <1>1, <1>2, GoodsOutFacts

(* The shipment whose goods leave, and what leaves.                        *)
LEMMA TakeOutLeaves ==
    ASSUME Inductive, NEW s \in DOMAIN shipments, TakeOut(s)
    PROVE  /\ SubjectsStay(shipments, shipments')
           /\ \A p \in Products :
                 /\ Lines[shipments[s].contract][p] \in Nat
                 /\ stock'[p] = stock[p] - Lines[shipments[s].contract][p]
<1> DEFINE row == [shipments[s] EXCEPT !.issued = TRUE, !.status = "LOADING"]
<1>1. row.contract = shipments[s].contract
  BY RowOf DEF Shipment
<1>2. shipments' = [shipments EXCEPT ![s] = row]
  BY DEF TakeOut
<1> HIDE DEF row
<1>3. SubjectsStay(shipments, shipments')
  BY <1>1, <1>2, RowReplaced
<1>4. shipments[s].contract \in Contracts
  BY RowOf
<1> QED
  BY <1>3, <1>4, LinesAssumption DEF TakeOut

(* What leaves the stock is what the issued deliveries have more.          *)
LEMMA IssueConserves ==
    ASSUME Inductive, Inductive', StockConserved, NEW s \in DOMAIN shipments, TakeOut(s),
           DeliveriesOK(deliveries', shipments),
           \A p \in Products :
              TakenOut(p, deliveries', shipments)
                = TakenOut(p, deliveries, shipments) + Lines[shipments[s].contract][p],
           UNCHANGED otherMoves
    PROVE  StockConserved'
<1> SUFFICES ASSUME NEW p \in Products
             PROVE  stock'[p] + TakenOut(p, deliveries', shipments')
                      = Opening[p] + otherMoves'[p]
  BY DEF StockConserved
<1>1. TakenOut(p, deliveries', shipments') = TakenOut(p, deliveries', shipments)
  BY TakeOutLeaves, TakenOutStays
<1>2. stock[p] + TakenOut(p, deliveries, shipments) = Opening[p] + otherMoves[p]
  BY DEF StockConserved
<1> QED
  BY <1>1, <1>2, TakeOutLeaves, StockFacts

LEMMA IssueExportDeliveryConserves ==
    ASSUME Inductive, Inductive', StockConserved, NEW d \in DOMAIN deliveries,
           IssueExportDelivery(d)
    PROVE  StockConserved' /\ SubjectsStay(shipments, shipments')
<1> DEFINE s == deliveries[d].shipment
<1>1. /\ deliveries[d].status = "DRAFT" /\ TakeOut(s)
      /\ deliveries' = [deliveries EXCEPT ![d].status = "ISSUED"]
      /\ UNCHANGED otherMoves
  BY DEF IssueExportDelivery
<1>2. s \in DOMAIN shipments
  BY DEF Inductive, DeliveriesOK
<1>3. DeliveriesOK(deliveries', shipments)
  BY <1>1, DraftDecided DEF Inductive
<1>4. ASSUME NEW p \in Products
      PROVE  TakenOut(p, deliveries', shipments)
               = TakenOut(p, deliveries, shipments) + Lines[shipments[s].contract][p]
  <2>1. shipments \in Seq(Shipment) /\ DeliveriesOK(deliveries, shipments)
    BY StockFacts
  <2> QED
    BY <1>1, <2>1, DraftDecidedTakes, ZenonT(30)
<1> QED
  BY <1>1, <1>2, <1>3, <1>4, IssueConserves, TakeOutLeaves

LEMMA IssueStockConserves ==
    ASSUME Inductive, Inductive', StockConserved, NEW k \in Clerks, IssueStock(k)
    PROVE  StockConserved'
<1> DEFINE s == desks[k].shipment
<1>1. s \in DOMAIN shipments /\ TakeOut(s) /\ UNCHANGED otherMoves
  BY CopyOf DEF IssueStock, At
<1>2. CASE \E d \in Active(s) :
              /\ deliveries[d].status = "DRAFT"
              /\ deliveries' = [deliveries EXCEPT ![d].status = "ISSUED"]
  <2>1. PICK d \in Active(s) :
              /\ deliveries[d].status = "DRAFT"
              /\ deliveries' = [deliveries EXCEPT ![d].status = "ISSUED"]
    BY <1>2
  <2>2. d \in DOMAIN deliveries /\ deliveries[d].shipment = s
    BY DEF Active
  <2>3. DeliveriesOK(deliveries', shipments)
    BY <2>1, <2>2, DraftDecided DEF Inductive
  <2>4. ASSUME NEW p \in Products
        PROVE  TakenOut(p, deliveries', shipments)
                 = TakenOut(p, deliveries, shipments) + Lines[shipments[s].contract][p]
    <3>1. shipments \in Seq(Shipment) /\ DeliveriesOK(deliveries, shipments)
      BY StockFacts
    <3>2. TakenOut(p, deliveries', shipments)
            = TakenOut(p, deliveries, shipments)
              + Lines[shipments[deliveries[d].shipment].contract][p]
      BY <2>1, <2>2, <3>1, DraftDecidedTakes, Zenon
    <3> QED
      BY <2>2, <3>2
  <2> QED
    BY <1>1, <2>3, <2>4, IssueConserves
<1>3. CASE /\ Active(s) = {}
           /\ deliveries' = Append(deliveries, [shipment |-> s, status |-> "ISSUED"])
  <2>1. \A d \in DOMAIN deliveries :
           deliveries[d].shipment = s => deliveries[d].status = "CANCELLED"
    BY <1>3 DEF Active
  <2>2. DeliveriesOK(deliveries', shipments)
    BY <1>1, <1>3, <2>1, DeliveryAdded DEF Inductive, ShipmentsOK
  <2>3. ASSUME NEW p \in Products
        PROVE  TakenOut(p, deliveries', shipments)
                 = TakenOut(p, deliveries, shipments) + Lines[shipments[s].contract][p]
    <3>1. shipments \in Seq(Shipment) /\ DeliveriesOK(deliveries, shipments)
      BY StockFacts
    <3> QED
      BY <1>1, <1>3, <3>1, DeliveryAddedTakes, Zenon
  <2> QED
    BY <1>1, <2>2, <2>3, IssueConserves
<1> QED
  BY <1>2, <1>3 DEF IssueStock

(* Shipments are written while stock and deliveries stay as they are.      *)
LEMMA RowsConserve ==
    ASSUME Inductive, StockConserved, SubjectsStay(shipments, shipments'),
           UNCHANGED <<stock, otherMoves, deliveries>>
    PROVE  StockConserved'
<1> SUFFICES ASSUME NEW p \in Products
             PROVE  stock[p] + TakenOut(p, deliveries, shipments')
                      = Opening[p] + otherMoves[p]
  BY DEF StockConserved
<1> QED
  BY TakenOutStays, StockFacts DEF StockConserved

(* A draft is made or cancelled: nothing leaves.                           *)
LEMMA DraftsConserve ==
    ASSUME Inductive, StockConserved,
           \/ \E s \in DOMAIN shipments : CreateExportDelivery(s)
           \/ \E d \in DOMAIN deliveries : CancelExportDelivery(d)
    PROVE  StockConserved' /\ UNCHANGED <<shipments, desks>>
<1>1. UNCHANGED <<stock, otherMoves, shipments, desks>>
  BY DEF CreateExportDelivery, CancelExportDelivery
<1>2. ASSUME NEW p \in Products
      PROVE  TakenOut(p, deliveries', shipments) = TakenOut(p, deliveries, shipments)
  <2>1. CASE \E s \in DOMAIN shipments : CreateExportDelivery(s)
    <3>1. PICK s \in DOMAIN shipments :
             deliveries' = Append(deliveries, [shipment |-> s, status |-> "DRAFT"])
      BY <2>1 DEF CreateExportDelivery
    <3>2. shipments \in Seq(Shipment) /\ DeliveriesOK(deliveries, shipments)
      BY StockFacts
    <3>3. "DRAFT" # "ISSUED"
      OBVIOUS
    <3> QED
      BY <3>1, <3>2, <3>3, DeliveryAddedTakes, Zenon
  <2>2. CASE \E d \in DOMAIN deliveries : CancelExportDelivery(d)
    <3>1. PICK d \in DOMAIN deliveries :
             /\ deliveries[d].status = "DRAFT"
             /\ deliveries' = [deliveries EXCEPT ![d].status = "CANCELLED"]
      BY <2>2 DEF CancelExportDelivery
    <3>2. shipments \in Seq(Shipment) /\ DeliveriesOK(deliveries, shipments)
      BY StockFacts
    <3>3. "CANCELLED" # "ISSUED"
      OBVIOUS
    <3> QED
      BY <3>1, <3>2, <3>3, DraftDecidedTakes, Zenon
  <2> QED
    BY <2>1, <2>2
<1> QED
  BY <1>1, <1>2 DEF StockConserved

LEMMA MoveStockConserves ==
    ASSUME Inductive, StockConserved, NEW p \in Products, NEW change \in {-1, 1},
           MoveStock(p, change)
    PROVE  StockConserved' /\ UNCHANGED <<shipments, deliveries, desks>>
<1>1. UNCHANGED <<shipments, deliveries, desks>>
  BY DEF MoveStock
<1>2. stock \in [Products -> Nat] /\ otherMoves \in [Products -> Int]
  BY DEF Inductive, StockOK
<1>3. ASSUME NEW q \in Products
      PROVE  stock'[q] + TakenOut(q, deliveries, shipments) = Opening[q] + otherMoves'[q]
  <2>1. stock[q] + TakenOut(q, deliveries, shipments) = Opening[q] + otherMoves[q]
    BY DEF StockConserved
  <2>2. CASE q = p
    <3>1. stock'[q] = stock[q] + change /\ otherMoves'[q] = otherMoves[q] + change
      BY <1>2, <2>2 DEF MoveStock
    <3>2. /\ stock[q] \in Nat /\ otherMoves[q] \in Int /\ Opening[q] \in Nat
          /\ TakenOut(q, deliveries, shipments) \in Int /\ change \in Int
      BY StockFacts
    <3> QED
      BY <2>1, <3>1, <3>2
  <2>3. CASE q # p
    <3>1. stock'[q] = stock[q] /\ otherMoves'[q] = otherMoves[q]
      BY <1>2, <2>3 DEF MoveStock
    <3> QED
      BY <2>1, <3>1
  <2> QED
    BY <2>2, <2>3
<1> QED
  BY <1>1, <1>3 DEF StockConserved

LEMMA InitConserved == Init => Conserved
<1> SUFFICES ASSUME Init PROVE Conserved
  OBVIOUS
<1>1. CopiesTrue(desks, shipments)
  BY IdleCopy DEF Init, ShipmentInit, CopiesTrue
<1>2. ASSUME NEW p \in Products
      PROVE  stock[p] + TakenOut(p, deliveries, shipments) = Opening[p] + otherMoves[p]
  <2>1. Len(deliveries) = 0
    BY DEF Init, ShipmentInit
  <2>2. TakenOut(p, deliveries, shipments) = 0
    <3> DEFINE f == GoodsOut(p, deliveries, shipments)
    <3>1. f \in [1 .. 0 -> Int] /\ \A d \in 1 .. 0 : f[d] = 0
      BY <2>1 DEF GoodsOut
    <3>2. TakenOut(p, deliveries, shipments) = SumTo(f, 0)
      BY <2>1 DEF TakenOut, GoodsOut
    <3> HIDE DEF f
    <3> QED
      BY <3>1, <3>2, SumToZero
  <2> QED
    BY <2>2, OpeningAssumption DEF Init, ShipmentInit
<1> QED
  BY <1>1, <1>2 DEF Conserved, StockConserved

(* Goods leave once per issued delivery and for no other reason, for any   *)
(* number of shipments, deliveries and clerks who save stale rows.         *)
THEOREM StockIsConserved == Spec => []StockConserved
<1>1. Inductive /\ Inductive' /\ Conserved /\ [Next]_vars => Conserved'
  <2> SUFFICES ASSUME Inductive, Inductive', Conserved, [Next]_vars PROVE Conserved'
    OBVIOUS
  <2>1. CopiesTrue(desks, shipments) /\ StockConserved
    BY DEF Conserved
  <2>2. CASE \E k \in Clerks : ClerkStep(k)
    <3>1. PICK k \in Clerks : ClerkStep(k)
      BY <2>2
    <3>2. CASE IssueStock(k)
      BY <2>1, <3>1, <3>2, ClerksKeepSubjects, IssueStockConserves DEF Conserved
    <3>3. CASE ~ IssueStock(k)
      BY <2>1, <3>1, <3>3, ClerksKeepSubjects, RowsConserve DEF Conserved
    <3> QED
      BY <3>2, <3>3
  <2>3. CASE \E d \in DOMAIN deliveries : IssueExportDelivery(d)
    <3>1. UNCHANGED desks
      BY <2>3 DEF IssueExportDelivery
    <3> QED
      BY <2>1, <2>3, <3>1, IssueExportDeliveryConserves, CopiesStay DEF Conserved
  <2>4. CASE \/ \E s \in DOMAIN shipments : CreateExportDelivery(s)
             \/ \E d \in DOMAIN deliveries : CancelExportDelivery(d)
    BY <2>1, <2>4, DraftsConserve DEF Conserved
  <2>5. CASE \E p \in Products, change \in {-1, 1} : MoveStock(p, change)
    BY <2>1, <2>5, MoveStockConserves DEF Conserved
  <2>6. CASE ContractServiceStep \/ UNCHANGED vars
    <3>1. UNCHANGED <<stock, otherMoves, shipments, deliveries, desks>>
      BY <2>6 DEF ContractServiceStep, vars, shipmentVars
    <3> QED
      BY <2>1, <3>1, RowsConserve, SameSubjects DEF Conserved
  <2> QED
    BY <2>2, <2>3, <2>4, <2>5, <2>6 DEF Next, ShipmentStep, DeliveryStep
<1>2. Conserved => StockConserved
  BY DEF Conserved
<1> QED
  BY InitConserved, ShipmentsInvariant, <1>1, <1>2, PTL DEF Spec

-----------------------------------------------------------------------------
(* PURCHASE ORDERS                                                         *)

(* The inductive invariant, in parts that name the state they speak of     *)

SoundReceipt == {row \in Receipt : row.rejected <= row.quantity}

Movement == [reference : Reference, change : Int]

(* What all receipts brought in. *)
DeliveredBy(rcp) == SumTo([r \in 1 .. Len(rcp) |-> BroughtIn(rcp[r])], Len(rcp))

(* Until a check changes it, the order received what its receipts brought. *)
OrderOK(ord, rcp, chk, inv) ==
    /\ ord \in Order
    /\ rcp \in Seq(Receipt)
    /\ inv \in Seq(Invoice)
    /\ chk = <<>> => ord.received = DeliveredBy(rcp) /\ ord.received <= Ordered

(* What moved the stock for a receipt. *)
MovedBy(led, r) ==
    SumTo([i \in 1 .. Len(led) |->
              IF led[i].reference = <<"receipt", r>> THEN led[i].change ELSE 0], Len(led))

Unchecked(r, chk) == \A c \in DOMAIN chk : chk[c].receipt # r

(* A receipt no check is about brought in what moved for it.               *)
Settles(row, moved) == row.rejected <= row.quantity /\ moved = BroughtIn(row)

ReceiptsOK(rcp, chk, led) ==
    /\ \A r \in Nat \ DOMAIN rcp : MovedBy(led, r) = 0
    /\ \A r \in DOMAIN rcp : Unchecked(r, chk) => Settles(rcp[r], MovedBy(led, r))

(* The return of a quality check is one that was made by a check.          *)
ChecksOK(chk, ret) ==
    /\ chk \in Seq(Check)
    /\ \A c \in DOMAIN chk :
          chk[c].return # 0 => /\ chk[c].return \in DOMAIN ret
                               /\ ret[chk[c].return].claimed

(* A return that no check is about moved when it was sent, and once.       *)
MovesOf(led, n) == {i \in DOMAIN led : led[i].reference = <<"return", n>>}

SentOnce(row, moves) ==
    ~ row.claimed => /\ moves # {} => row.status \in {"SENT", "SETTLED"}
                     /\ \A i, j \in moves : i = j

ReturnsOK(ret, led) ==
    /\ ret \in Seq(Return)
    /\ led \in Seq(Movement)
    /\ \A n \in Nat \ DOMAIN ret : MovesOf(led, n) = {}
    /\ \A n \in DOMAIN ret : SentOnce(ret[n], MovesOf(led, n))

(* Rows are never deleted, and a receipt that is being reversed is locked. *)
RowsKnown(job, rcp, chk) ==
    /\ job.op = "reverse" => /\ job.receipt \in DOMAIN rcp
                             /\ rcp[job.receipt].status = "COMPLETED"
    /\ job.op = "saveCheck" => job.receipt \in {0} \cup DOMAIN rcp
    /\ job.op \in {"saveClaim", "saveResolution"} => job.check \in DOMAIN chk

OneReverser(js) ==
    \A v, w \in Workers :
        js[v].op = "reverse" /\ js[w].op = "reverse" /\ js[v].receipt = js[w].receipt => v = w

PurchasingJobsOK(js, rcp, chk) ==
    /\ js \in [Workers -> PurchasingJob]
    /\ OneReverser(js)
    /\ \A w \in Workers : RowsKnown(js[w], rcp, chk)

PurchasingInductive ==
    /\ OrderOK(order, receipts, checks, invoices)
    /\ ReceiptsOK(receipts, checks, ledger)
    /\ ChecksOK(checks, returns)
    /\ ReturnsOK(returns, ledger)
    /\ PurchasingJobsOK(jobs, receipts, checks)
    /\ currentStock \in Nat

-----------------------------------------------------------------------------
(* Jobs                                                                    *)

(* What a request in progress knows, by what it is doing. *)
LEMMA PurchasingJobFields ==
    ASSUME NEW job \in PurchasingJob
    PROVE  /\ job.op = "reverse" => job.receipt \in Nat
           /\ job.op = "createReturn" => job.quantity \in Nat
           /\ job.op = "saveCheck" =>
                 /\ job.receipt \in Nat /\ job.rejected \in Nat
                 /\ job.read \in Order /\ job.new \in Order
           /\ job.op \in {"saveClaim", "saveResolution"} =>
                 job.check \in Nat /\ job.read \in Order /\ job.new \in Order
           /\ job.op = "saveResolution" => job.claim \in {"RESOLVED", "CANCELLED"}
<1>1. /\ job.op = "reverse" => job.receipt \in Nat
      /\ job.op = "createReturn" => job.quantity \in Nat
  BY DEF PurchasingJob, Idle
<1>2. job.op = "saveCheck" =>
          job.receipt \in Nat /\ job.rejected \in Nat /\ job.read \in Order /\ job.new \in Order
  BY DEF PurchasingJob, Idle
<1>3. job.op \in {"saveClaim", "saveResolution"} =>
          job.check \in Nat /\ job.read \in Order /\ job.new \in Order
  BY DEF PurchasingJob, Idle
<1>4. job.op = "saveResolution" => job.claim \in {"RESOLVED", "CANCELLED"}
  BY DEF PurchasingJob, Idle
<1> QED
  BY <1>1, <1>2, <1>3, <1>4

(* An idle worker knows nothing. *)
LEMMA IdlePurchasing ==
    ASSUME NEW rcp, NEW chk
    PROVE  Idle \in PurchasingJob /\ RowsKnown(Idle, rcp, chk) /\ Idle.op # "reverse"
BY DEF PurchasingJob, Idle, RowsKnown

LEMMA PurchasingJobOf ==
    ASSUME PurchasingInductive, NEW w \in Workers
    PROVE  jobs[w] \in PurchasingJob /\ RowsKnown(jobs[w], receipts, checks)
BY DEF PurchasingInductive, PurchasingJobsOK

(* Rows that other workers know stay known when rows are added, and when   *)
(* those change that nobody else has locked.                               *)
RowsStay(js, w, rcp, rcp2, chk, chk2) ==
    /\ DOMAIN rcp \subseteq DOMAIN rcp2
    /\ DOMAIN chk \subseteq DOMAIN chk2
    /\ \A v \in Workers \ {w} : js[v].op = "reverse" =>
          rcp2[js[v].receipt].status = rcp[js[v].receipt].status

LEMMA KnownStays ==
    ASSUME NEW rcp, NEW rcp2, NEW chk, NEW chk2, NEW js, NEW w, NEW v \in Workers, v # w,
           RowsStay(js, w, rcp, rcp2, chk, chk2), RowsKnown(js[v], rcp, chk)
    PROVE  RowsKnown(js[v], rcp2, chk2)
<1>1. js[v].op = "reverse" => /\ js[v].receipt \in DOMAIN rcp2
                              /\ rcp2[js[v].receipt].status = "COMPLETED"
  BY DEF RowsStay, RowsKnown
<1> QED
  BY <1>1 DEF RowsStay, RowsKnown

LEMMA SetPurchasingJob ==
    ASSUME NEW rcp, NEW rcp2, NEW chk, NEW chk2, NEW js, PurchasingJobsOK(js, rcp, chk),
           NEW w \in Workers, NEW job \in PurchasingJob, RowsKnown(job, rcp2, chk2),
           RowsStay(js, w, rcp, rcp2, chk, chk2),
           \A v \in Workers \ {w} : ~ (/\ job.op = "reverse" /\ js[v].op = "reverse"
                                       /\ js[v].receipt = job.receipt),
           NEW new, new = [js EXCEPT ![w] = job]
    PROVE  PurchasingJobsOK(new, rcp2, chk2)
<1>1. /\ new \in [Workers -> PurchasingJob]
      /\ new[w] = job /\ \A v \in Workers \ {w} : new[v] = js[v]
  BY DEF PurchasingJobsOK
<1>2. ASSUME NEW v \in Workers PROVE RowsKnown(new[v], rcp2, chk2)
  <2>1. CASE v = w
    BY <1>1, <2>1
  <2>2. CASE v # w
    <3>1. new[v] = js[v] /\ RowsKnown(js[v], rcp, chk)
      BY <1>1, <2>2 DEF PurchasingJobsOK
    <3> QED
      BY <2>2, <3>1, KnownStays
  <2> QED
    BY <2>1, <2>2
<1>3. OneReverser(new)
  <2> SUFFICES ASSUME NEW u \in Workers, NEW v \in Workers, new[u].op = "reverse",
                      new[v].op = "reverse", new[u].receipt = new[v].receipt
               PROVE  u = v
    BY DEF OneReverser
  <2>1. CASE u = w /\ v # w
    BY <1>1, <2>1
  <2>2. CASE u # w /\ v = w
    BY <1>1, <2>2
  <2>3. CASE u # w /\ v # w
    <3>1. new[u] = js[u] /\ new[v] = js[v] /\ OneReverser(js)
      BY <1>1, <2>3 DEF PurchasingJobsOK
    <3> QED
      BY <3>1 DEF OneReverser
  <2> QED
    BY <2>1, <2>2, <2>3
<1> QED
  BY <1>1, <1>2, <1>3 DEF PurchasingJobsOK

(* A worker goes on to another job while rows are added and changed.       *)
LEMMA PurchasingStepInductive ==
    ASSUME PurchasingInductive, NEW w \in Workers, NEW job \in PurchasingJob,
           jobs' = [jobs EXCEPT ![w] = job], job.op # "reverse",
           RowsKnown(job, receipts', checks'),
           RowsStay(jobs, w, receipts, receipts', checks, checks'),
           OrderOK(order', receipts', checks', invoices'),
           ReceiptsOK(receipts', checks', ledger'),
           ChecksOK(checks', returns'), ReturnsOK(returns', ledger'), currentStock' \in Nat
    PROVE  PurchasingInductive'
<1>1. PurchasingJobsOK(jobs, receipts, checks)
  BY DEF PurchasingInductive
<1>2. PurchasingJobsOK(jobs', receipts', checks')
  BY <1>1, SetPurchasingJob
<1> QED
  BY <1>2 DEF PurchasingInductive

(* A worker reads, refuses or stops: only its job changes.                 *)
LEMMA OnlyPurchasingJob ==
    ASSUME PurchasingInductive, NEW w \in Workers, NEW job \in PurchasingJob,
           RowsKnown(job, receipts, checks), job.op = "reverse" => ~ LockedReceipt(job.receipt),
           jobs' = [jobs EXCEPT ![w] = job],
           UNCHANGED <<order, receipts, checks, returns, invoices, goods>>
    PROVE  PurchasingInductive'
<1>1. PurchasingJobsOK(jobs, receipts, checks)
  BY DEF PurchasingInductive
<1>2. RowsStay(jobs, w, receipts, receipts, checks, checks)
  BY DEF RowsStay
<1>3. \A v \in Workers \ {w} : ~ (/\ job.op = "reverse" /\ jobs[v].op = "reverse"
                                  /\ jobs[v].receipt = job.receipt)
  BY DEF LockedReceipt
<1>4. PurchasingJobsOK(jobs', receipts, checks)
  BY <1>1, <1>2, <1>3, SetPurchasingJob
<1> QED
  BY <1>4 DEF PurchasingInductive, goods

(* A request that is served in one transaction leaves its worker idle.     *)
LEMMA FreeIdle ==
    ASSUME PurchasingInductive, NEW w \in Workers, Free(w), UNCHANGED jobs
    PROVE  jobs' = [jobs EXCEPT ![w] = Idle]
BY DEF PurchasingInductive, PurchasingJobsOK, Free

-----------------------------------------------------------------------------
(* What receipts brought in                                                *)

LEMMA BroughtInInt ==
    ASSUME NEW rcp \in Seq(Receipt)
    PROVE  \A r \in DOMAIN rcp : BroughtIn(rcp[r]) \in Int /\ Accepted(rcp[r]) \in Int
<1>1. \A r \in DOMAIN rcp : rcp[r] \in Receipt
  OBVIOUS
<1>2. ASSUME NEW row \in Receipt PROVE BroughtIn(row) \in Int /\ Accepted(row) \in Int
  BY DEF Receipt, BroughtIn, Accepted
<1> QED
  BY <1>1, <1>2

LEMMA BroughtInNat ==
    ASSUME NEW rcp \in Seq(SoundReceipt)
    PROVE  \A r \in DOMAIN rcp : BroughtIn(rcp[r]) \in Nat /\ Accepted(rcp[r]) \in Nat
<1>1. \A r \in DOMAIN rcp : rcp[r] \in SoundReceipt
  OBVIOUS
<1>2. ASSUME NEW row \in SoundReceipt PROVE BroughtIn(row) \in Nat /\ Accepted(row) \in Nat
  BY DEF SoundReceipt, Receipt, BroughtIn, Accepted
<1> QED
  BY <1>1, <1>2

LEMMA DeliveredInt ==
    ASSUME NEW rcp \in Seq(Receipt)
    PROVE  DeliveredBy(rcp) \in Int
<1> DEFINE f == [r \in 1 .. Len(rcp) |-> BroughtIn(rcp[r])]
<1>1. f \in [1 .. Len(rcp) -> Int] /\ Len(rcp) \in Nat
  BY BroughtInInt
<1> HIDE DEF f
<1>2. SumTo(f, Len(rcp)) \in Int
  BY <1>1, SumToInt
<1> QED
  BY <1>2 DEF f, DeliveredBy

LEMMA DeliveredNat ==
    ASSUME NEW rcp \in Seq(SoundReceipt)
    PROVE  DeliveredBy(rcp) \in Nat
<1> DEFINE f == [r \in 1 .. Len(rcp) |-> BroughtIn(rcp[r])]
<1>1. f \in [1 .. Len(rcp) -> Nat] /\ Len(rcp) \in Nat
  BY BroughtInNat
<1> HIDE DEF f
<1>2. SumTo(f, Len(rcp)) \in Nat
  BY <1>1, SumToNat
<1> QED
  BY <1>2 DEF f, DeliveredBy

LEMMA DeliveredNothing ==
    ASSUME NEW rcp, rcp = <<>>
    PROVE  DeliveredBy(rcp) = 0
<1>1. PICK f : f = [r \in 1 .. Len(rcp) |-> BroughtIn(rcp[r])]
  OBVIOUS
<1>2. Len(rcp) = 0
  OBVIOUS
<1>3. f \in [1 .. 0 -> Int]
  BY <1>1, <1>2
<1>4. SumTo(f, 0) = 0
  <2>1. \A k \in 1 .. 0 : f[k] = 0
    OBVIOUS
  <2> QED
    BY <1>3, <2>1, SumToZero
<1> QED
  BY <1>1, <1>2, <1>4 DEF DeliveredBy

LEMMA DeliveredAppend ==
    ASSUME NEW rcp \in Seq(Receipt), NEW row \in Receipt,
           NEW rcp2, rcp2 = Append(rcp, row)
    PROVE  DeliveredBy(rcp2) = DeliveredBy(rcp) + BroughtIn(row)
<1> DEFINE f == [r \in 1 .. Len(rcp) |-> BroughtIn(rcp[r])]
           g == [r \in 1 .. Len(rcp2) |-> BroughtIn(rcp2[r])]
           n == Len(rcp)
<1>1. /\ n \in Nat /\ Len(rcp2) = n + 1 /\ DOMAIN rcp2 = 1 .. n + 1 /\ DOMAIN rcp = 1 .. n
      /\ rcp2[n + 1] = row /\ \A k \in 1 .. n : rcp2[k] = rcp[k]
      /\ rcp2 \in Seq(Receipt)
  OBVIOUS
<1>2. f \in [1 .. n -> Int] /\ g \in [1 .. n + 1 -> Int]
  <2>1. /\ \A k \in DOMAIN rcp : BroughtIn(rcp[k]) \in Int
        /\ \A k \in DOMAIN rcp2 : BroughtIn(rcp2[k]) \in Int
    BY <1>1, BroughtInInt
  <2> QED
    BY <1>1, <2>1
<1>3. (\A k \in 1 .. n : g[k] = f[k]) /\ g[n + 1] = BroughtIn(row)
  BY <1>1
<1> HIDE DEF f, g, n
<1>4. SumTo(g, n + 1) = SumTo(f, n) + g[n + 1]
  BY <1>1, <1>2, <1>3, SumExtend
<1> QED
  BY <1>1, <1>3, <1>4 DEF f, g, n, DeliveredBy

LEMMA PurchaseRowReplaced ==
    ASSUME NEW S, NEW s \in Seq(S), NEW i \in DOMAIN s, NEW e \in S,
           NEW t, t = [s EXCEPT ![i] = e]
    PROVE  /\ t \in Seq(S) /\ DOMAIN t = DOMAIN s /\ Len(t) = Len(s)
           /\ t[i] = e /\ \A j \in DOMAIN s \ {i} : t[j] = s[j]
<1>1. s \in [1 .. Len(s) -> S] /\ Len(s) \in Nat
  OBVIOUS
<1>2. t \in [1 .. Len(s) -> S]
  BY <1>1
<1> QED
  BY <1>1, <1>2

LEMMA DeliveredChange ==
    ASSUME NEW rcp \in Seq(Receipt), NEW r \in DOMAIN rcp, NEW row \in Receipt,
           NEW rcp2, rcp2 = [rcp EXCEPT ![r] = row]
    PROVE  DeliveredBy(rcp2) = DeliveredBy(rcp) + (BroughtIn(row) - BroughtIn(rcp[r]))
<1> DEFINE f == [k \in 1 .. Len(rcp) |-> BroughtIn(rcp[k])]
           g == [k \in 1 .. Len(rcp2) |-> BroughtIn(rcp2[k])]
           n == Len(rcp)
<1>1. /\ rcp2 \in Seq(Receipt) /\ DOMAIN rcp2 = DOMAIN rcp
      /\ rcp2[r] = row /\ \A k \in DOMAIN rcp \ {r} : rcp2[k] = rcp[k]
  BY PurchaseRowReplaced
<1>2. n \in Nat /\ DOMAIN rcp = 1 .. n /\ Len(rcp2) = n
  BY <1>1
<1>3. f \in [1 .. n -> Int] /\ g \in [1 .. n -> Int]
  <2>1. /\ \A k \in DOMAIN rcp : BroughtIn(rcp[k]) \in Int
        /\ \A k \in DOMAIN rcp2 : BroughtIn(rcp2[k]) \in Int
    BY <1>1, BroughtInInt
  <2> QED
    BY <1>1, <1>2, <2>1
<1>4. /\ r \in 1 .. n /\ \A k \in 1 .. n : k # r => g[k] = f[k]
      /\ g[r] = BroughtIn(row) /\ f[r] = BroughtIn(rcp[r])
  BY <1>1, <1>2
<1> HIDE DEF f, g, n
<1>5. SumTo(g, n) = SumTo(f, n) + (g[r] - f[r])
  BY <1>2, <1>3, <1>4, SumToChange
<1> QED
  BY <1>2, <1>4, <1>5 DEF f, g, n, DeliveredBy

(* A single receipt brought in no more than all of them. *)
LEMMA OneOfDelivered ==
    ASSUME NEW rcp \in Seq(SoundReceipt), NEW r \in DOMAIN rcp
    PROVE  BroughtIn(rcp[r]) <= DeliveredBy(rcp)
<1>1. PICK row : row = [quantity |-> 0, rejected |-> 0, status |-> "CANCELLED"]
  OBVIOUS
<1>2. row \in SoundReceipt /\ BroughtIn(row) = 0
  BY <1>1 DEF SoundReceipt, Receipt, BroughtIn
<1>3. PICK rcp2 : rcp2 = [rcp EXCEPT ![r] = row]
  OBVIOUS
<1>4. DeliveredBy(rcp2) = DeliveredBy(rcp) + (BroughtIn(row) - BroughtIn(rcp[r]))
  <2>1. rcp \in Seq(Receipt) /\ row \in Receipt
    BY <1>2 DEF SoundReceipt
  <2> QED
    BY <1>2, <1>3, <2>1, DeliveredChange
<1>5. rcp2 \in Seq(SoundReceipt)
  BY <1>2, <1>3, PurchaseRowReplaced
<1>6. DeliveredBy(rcp2) \in Nat /\ DeliveredBy(rcp) \in Nat /\ BroughtIn(rcp[r]) \in Nat
  BY <1>5, DeliveredNat, BroughtInNat
<1> QED
  BY <1>2, <1>4, <1>6

(* Quality checks recalculate an order.                                    *)
LEMMA RecalculatedOrder ==
    ASSUME NEW rcp \in Seq(Receipt)
    PROVE  Recalculated(rcp) \in Order
<1> DEFINE f == [r \in 1 .. Len(rcp) |-> Accepted(rcp[r])]
           received == SumTo(f, Len(rcp))
<1>1. f \in [1 .. Len(rcp) -> Int] /\ Len(rcp) \in Nat
  BY BroughtInInt
<1> HIDE DEF f
<1>2. received \in Int
  BY <1>1, SumToInt
<1> HIDE DEF received
<1>3. Recalculated(rcp) = [status |-> IF received >= Ordered THEN "RECEIVED"
                                      ELSE IF received > 0 THEN "PARTIAL_RECEIPT" ELSE "SENT",
                           received |-> received]
  BY DEF received, f, Recalculated
<1> QED
  BY <1>2, <1>3 DEF Order

OneMore(led2, led, row) == led2 = Append(led, row)

(* What a movement adds to what moved for a receipt. *)
LEMMA MovedByAppend ==
    ASSUME NEW led \in Seq(Movement), NEW row \in Movement,
           NEW led2, OneMore(led2, led, row), NEW r
    PROVE  /\ MovedBy(led, r) \in Int
           /\ MovedBy(led2, r) = MovedBy(led, r)
                                   + IF row.reference = <<"receipt", r>> THEN row.change ELSE 0
<1> DEFINE f == [i \in 1 .. Len(led) |->
                    IF led[i].reference = <<"receipt", r>> THEN led[i].change ELSE 0]
           g == [i \in 1 .. Len(led2) |->
                    IF led2[i].reference = <<"receipt", r>> THEN led2[i].change ELSE 0]
           n == Len(led)
<1>1. /\ n \in Nat /\ Len(led2) = n + 1
      /\ led2[n + 1] = row /\ \A k \in 1 .. n : led2[k] = led[k]
      /\ \A k \in 1 .. n : led[k] \in Movement
      /\ \A k \in 1 .. n + 1 : led2[k] \in Movement
  BY DEF OneMore
<1>2. f \in [1 .. n -> Int] /\ g \in [1 .. n + 1 -> Int]
  <2>1. \A x \in Movement : x.change \in Int
    BY DEF Movement
  <2> QED
    BY <1>1, <2>1
<1>3. /\ \A k \in 1 .. n : g[k] = f[k]
      /\ g[n + 1] = IF row.reference = <<"receipt", r>> THEN row.change ELSE 0
  BY <1>1
<1> HIDE DEF f, g, n
<1>4. SumTo(g, n + 1) = SumTo(f, n) + g[n + 1] /\ SumTo(f, n) \in Int
  BY <1>1, <1>2, <1>3, SumExtend, SumToInt
<1> QED
  BY <1>1, <1>3, <1>4 DEF f, g, n, MovedBy

LEMMA MovedByNothing ==
    ASSUME NEW led, led = <<>>, NEW r
    PROVE  MovedBy(led, r) = 0
<1>1. PICK f : f = [i \in 1 .. Len(led) |->
                       IF led[i].reference = <<"receipt", r>> THEN led[i].change ELSE 0]
  OBVIOUS
<1>2. Len(led) = 0
  OBVIOUS
<1>3. f \in [1 .. 0 -> Int]
  BY <1>1, <1>2
<1>4. SumTo(f, 0) = 0
  <2>1. \A k \in 1 .. 0 : f[k] = 0
    OBVIOUS
  <2> QED
    BY <1>3, <2>1, SumToZero
<1> QED
  BY <1>1, <1>2, <1>4 DEF MovedBy

-----------------------------------------------------------------------------
(* Orders that are written                                                 *)

LEMMA OrderSaved ==
    ASSUME order \in Order, NEW read \in Order, NEW new \in Order,
           NEW saved, saved \in SavedOrder(read, new)
    PROVE  saved \in Order
<1>1. ASSUME NEW a \in Saved(order, read, new) PROVE a \in Order
  <2>1. DOMAIN order = {"status", "received"}
    BY DEF Order
  <2>2. CASE a = new
    BY <2>2
  <2>3. CASE a = [f \in DOMAIN order |-> IF new[f] # read[f] THEN new[f] ELSE order[f]]
    <3>1. a = [status   |-> IF new.status # read.status THEN new.status ELSE order.status,
               received |-> IF new.received # read.received THEN new.received
                            ELSE order.received]
      BY <2>1, <2>3
    <3> QED
      BY <3>1 DEF Order
  <2> QED
    BY <1>1, <2>2, <2>3 DEF Saved
<1>2. CASE read.status = "CANCELLED"
  BY <1>2 DEF SavedOrder
<1>3. CASE read.status # "CANCELLED"
  <2>1. PICK a \in Saved(order, read, new), b \in Saved(order, read, new) :
            saved = [status |-> a.status, received |-> b.received]
    BY <1>3 DEF SavedOrder
  <2>2. a \in Order /\ b \in Order
    BY <1>1
  <2> QED
    BY <2>1, <2>2 DEF Order
<1> QED
  BY <1>2, <1>3

LEMMA ReceiptStatusKnown ==
    ASSUME NEW ord \in Order, NEW n \in Int, NEW ord2,
           ord2 = [status |-> ReceiptStatus(ord.status, n), received |-> n]
    PROVE  ord2 \in Order /\ ord2.received = n
BY DEF Order, ReceiptStatus

(* Only what an order has received so far matters to it.                   *)
LEMMA StatusWritten ==
    ASSUME NEW ord, NEW rcp, NEW chk, NEW inv, OrderOK(ord, rcp, chk, inv),
           NEW ord2 \in Order, ord2.received = ord.received
    PROVE  OrderOK(ord2, rcp, chk, inv)
BY DEF OrderOK

-----------------------------------------------------------------------------
(* Returns and what moved for them                                         *)

(* Stock moves for something else than a return. *)
LEMMA OtherMoved ==
    ASSUME NEW ret, NEW led, ReturnsOK(ret, led), NEW row \in Movement,
           \A n \in Nat : row.reference # <<"return", n>>,
           NEW led2, led2 = Append(led, row)
    PROVE  ReturnsOK(ret, led2)
<1>1. /\ led2 \in Seq(Movement) /\ DOMAIN led2 = DOMAIN led \cup {Len(led) + 1}
      /\ led2[Len(led) + 1] = row /\ \A i \in DOMAIN led : led2[i] = led[i]
  BY DEF ReturnsOK
<1>2. \A n \in Nat : MovesOf(led2, n) = MovesOf(led, n)
  BY <1>1 DEF MovesOf
<1>3. ret \in Seq(Return) /\ \A n \in DOMAIN ret : n \in Nat
  BY DEF ReturnsOK
<1> QED
  BY <1>1, <1>2, <1>3 DEF ReturnsOK

LEMMA RowAdded ==
    ASSUME NEW S, NEW s \in Seq(S), NEW row \in S, NEW s2, s2 = Append(s, row)
    PROVE  /\ s2 \in Seq(S) /\ s2 # <<>>
           /\ Len(s2) \in Nat /\ s2[Len(s2)] = row
           /\ DOMAIN s2 = DOMAIN s \cup {Len(s2)}
           /\ \A n \in DOMAIN s : s2[n] = s[n]
OBVIOUS

(* A return is added: nothing can have moved for it. *)
LEMMA ReturnAdded ==
    ASSUME NEW ret, NEW led, ReturnsOK(ret, led), NEW row \in Return,
           NEW ret2, ret2 = Append(ret, row)
    PROVE  ReturnsOK(ret2, led)
<1>1. /\ ret2 \in Seq(Return) /\ Len(ret2) = Len(ret) + 1 /\ Len(ret) \in Nat
      /\ DOMAIN ret2 = DOMAIN ret \cup {Len(ret2)}
      /\ Len(ret2) \in Nat \ DOMAIN ret
      /\ ret2[Len(ret2)] = row /\ \A n \in DOMAIN ret : ret2[n] = ret[n]
  BY DEF ReturnsOK
<1>2. \A n \in DOMAIN ret2 : SentOnce(ret2[n], MovesOf(led, n))
  <2> SUFFICES ASSUME NEW n \in DOMAIN ret2 PROVE SentOnce(ret2[n], MovesOf(led, n))
    OBVIOUS
  <2>1. CASE n \in DOMAIN ret
    <3>1. SentOnce(ret[n], MovesOf(led, n)) /\ ret2[n] = ret[n]
      BY <1>1, <2>1 DEF ReturnsOK
    <3> QED
      BY <3>1
  <2>2. CASE n = Len(ret2)
    <3>1. MovesOf(led, n) = {}
      BY <1>1, <2>2 DEF ReturnsOK
    <3> QED
      BY <3>1 DEF SentOnce
  <2> QED
    BY <1>1, <2>1, <2>2
<1> QED
  BY <1>1, <1>2 DEF ReturnsOK

(* The status of a return is changed, of one that has moved to one that    *)
(* may have.                                                               *)
StillMoved(old, new) ==
    /\ new.claimed = old.claimed
    /\ \/ new.claimed \/ new.status \in {"SENT", "SETTLED"}
       \/ old.status \notin {"SENT", "SETTLED"}

LEMMA ReturnChanged ==
    ASSUME NEW ret, NEW led, ReturnsOK(ret, led), NEW n \in DOMAIN ret, NEW row \in Return,
           StillMoved(ret[n], row), NEW ret2, ret2 = [ret EXCEPT ![n] = row]
    PROVE  ReturnsOK(ret2, led)
<1>0. ret \in Seq(Return)
  BY DEF ReturnsOK
<1>1. /\ ret2 \in Seq(Return) /\ DOMAIN ret2 = DOMAIN ret
      /\ ret2[n] = row /\ \A m \in DOMAIN ret \ {n} : ret2[m] = ret[m]
  BY <1>0, PurchaseRowReplaced
<1>2. SentOnce(row, MovesOf(led, n))
  <2>1. SentOnce(ret[n], MovesOf(led, n))
    BY DEF ReturnsOK
  <2> QED
    BY <2>1 DEF SentOnce, StillMoved
<1>3. \A m \in DOMAIN ret2 : SentOnce(ret2[m], MovesOf(led, m))
  BY <1>1, <1>2 DEF ReturnsOK
<1> QED
  BY <1>1, <1>3 DEF ReturnsOK

(* A return is sent: nothing moved for it before. *)
LEMMA ReturnSent ==
    ASSUME NEW ret, NEW led, ReturnsOK(ret, led), NEW n \in DOMAIN ret, NEW row \in Return,
           StillMoved(ret[n], row), row.status = "SENT",
           ret[n].status \notin {"SENT", "SETTLED"},
           NEW ret2, ret2 = [ret EXCEPT ![n] = row],
           NEW move \in Movement, move.reference = <<"return", n>>,
           NEW led2, led2 = Append(led, move)
    PROVE  ReturnsOK(ret2, led2)
<1>0. ret \in Seq(Return) /\ led \in Seq(Movement) /\ n \in Nat
  BY DEF ReturnsOK
<1>1. /\ ret2 \in Seq(Return) /\ DOMAIN ret2 = DOMAIN ret
      /\ ret2[n] = row /\ \A m \in DOMAIN ret \ {n} : ret2[m] = ret[m]
  BY <1>0, PurchaseRowReplaced
<1>2. /\ led2 \in Seq(Movement) /\ DOMAIN led2 = DOMAIN led \cup {Len(led) + 1}
      /\ led2[Len(led) + 1] = move /\ \A i \in DOMAIN led : led2[i] = led[i]
  BY <1>0
<1>3. \A m \in Nat \ {n} : MovesOf(led2, m) = MovesOf(led, m)
  BY <1>2 DEF MovesOf
<1>4. SentOnce(row, MovesOf(led2, n))
  <2>1. ~ row.claimed => MovesOf(led, n) = {}
    <3>1. SentOnce(ret[n], MovesOf(led, n))
      BY DEF ReturnsOK
    <3> QED
      BY <3>1 DEF SentOnce, StillMoved
  <2>2. MovesOf(led2, n) = MovesOf(led, n) \cup {Len(led) + 1}
    BY <1>2 DEF MovesOf
  <2> QED
    BY <2>1, <2>2 DEF SentOnce
<1>5. \A m \in DOMAIN ret2 : SentOnce(ret2[m], MovesOf(led2, m))
  <2> SUFFICES ASSUME NEW m \in DOMAIN ret2 PROVE SentOnce(ret2[m], MovesOf(led2, m))
    OBVIOUS
  <2>1. CASE m = n
    BY <1>1, <1>4, <2>1
  <2>2. CASE m # n
    <3>1. ret2[m] = ret[m] /\ MovesOf(led2, m) = MovesOf(led, m) /\ m \in DOMAIN ret
      BY <1>0, <1>1, <1>3, <2>2
    <3> QED
      BY <3>1 DEF ReturnsOK
  <2> QED
    BY <2>1, <2>2
<1>6. \A m \in Nat \ DOMAIN ret2 : MovesOf(led2, m) = {}
  BY <1>1, <1>3 DEF ReturnsOK
<1> QED
  BY <1>1, <1>2, <1>5, <1>6 DEF ReturnsOK

(* Checks refer to returns that stay claimed. *)
LEMMA ChecksKeepReturns ==
    ASSUME NEW chk, NEW ret, ChecksOK(chk, ret), NEW ret2,
           DOMAIN ret \subseteq DOMAIN ret2,
           \A n \in DOMAIN ret : ret2[n].claimed = ret[n].claimed
    PROVE  ChecksOK(chk, ret2)
BY DEF ChecksOK

LEMMA CheckAdded ==
    ASSUME NEW chk, NEW ret, ChecksOK(chk, ret), NEW row \in Check,
           row.return # 0 => row.return \in DOMAIN ret /\ ret[row.return].claimed,
           NEW chk2, chk2 = Append(chk, row)
    PROVE  ChecksOK(chk2, ret)
<1>1. /\ chk2 \in Seq(Check) /\ DOMAIN chk2 = DOMAIN chk \cup {Len(chk) + 1}
      /\ chk2[Len(chk) + 1] = row /\ \A c \in DOMAIN chk : chk2[c] = chk[c]
      /\ Len(chk) \in Nat
  BY DEF ChecksOK
<1> QED
  BY <1>1 DEF ChecksOK

LEMMA CheckChanged ==
    ASSUME NEW chk, NEW ret, ChecksOK(chk, ret), NEW c \in DOMAIN chk, NEW row \in Check,
           row.return = chk[c].return, NEW chk2, chk2 = [chk EXCEPT ![c] = row]
    PROVE  ChecksOK(chk2, ret)
<1>0. chk \in Seq(Check)
  BY DEF ChecksOK
<1>1. /\ chk2 \in Seq(Check) /\ DOMAIN chk2 = DOMAIN chk
      /\ chk2[c] = row /\ \A d \in DOMAIN chk \ {c} : chk2[d] = chk[d]
  BY <1>0, PurchaseRowReplaced
<1> QED
  BY <1>1 DEF ChecksOK

LEMMA MovedByInt ==
    ASSUME NEW led \in Seq(Movement), NEW r
    PROVE  MovedBy(led, r) \in Int
<1>1. PICK row : row = [reference |-> <<"sale", 0>>, change |-> 0]
  OBVIOUS
<1>2. row \in Movement
  BY <1>1 DEF Movement, Reference
<1>3. PICK led2 : OneMore(led2, led, row)
  BY DEF OneMore
<1> QED
  BY <1>2, <1>3, MovedByAppend

(* A movement leaves stock, and one more row in the ledger if any.         *)
LEMMA StockMoved ==
    ASSUME currentStock \in Nat, ledger \in Seq(Movement),
           NEW ref \in Reference, NEW q \in Int, Move(ref, q)
    PROVE  /\ currentStock' \in Nat
           /\ \/ ledger' = ledger
              \/ \E row \in Movement : row.reference = ref /\ ledger' = Append(ledger, row)
           /\ \A r : MovedBy(ledger', r)
                       = MovedBy(ledger, r) + IF ref = <<"receipt", r>> THEN q ELSE 0
<1>1. CASE q # 0 /\ Movable(q) /\ currentStock' = currentStock + q
             /\ ledger' = Append(ledger, [reference |-> ref, change |-> q])
  <2>1. PICK row : row = [reference |-> ref, change |-> q]
    OBVIOUS
  <2>2. row \in Movement /\ row.reference = ref /\ row.change = q
    BY <2>1 DEF Movement
  <2>3. PICK led2 : led2 = ledger'
    OBVIOUS
  <2>4. led2 = Append(ledger, row)
    BY <1>1, <2>1, <2>3
  <2>5. OneMore(led2, ledger, row)
    BY <2>4 DEF OneMore
  <2>6. \A r : MovedBy(led2, r) = MovedBy(ledger, r) + IF ref = <<"receipt", r>> THEN q ELSE 0
    <3> SUFFICES ASSUME NEW r
                 PROVE  MovedBy(led2, r)
                          = MovedBy(ledger, r) + IF ref = <<"receipt", r>> THEN q ELSE 0
      OBVIOUS
    <3>1. MovedBy(led2, r) = MovedBy(ledger, r)
                               + IF row.reference = <<"receipt", r>> THEN row.change ELSE 0
      BY <2>2, <2>5, MovedByAppend
    <3> QED
      BY <2>2, <3>1
  <2> QED
    BY <1>1, <2>2, <2>3, <2>4, <2>6 DEF Movable
<1>2. CASE q = 0 /\ UNCHANGED <<currentStock, ledger>>
  <2>1. ASSUME NEW r PROVE MovedBy(ledger, r) \in Int
    BY MovedByInt
  <2> QED
    BY <1>2, <2>1
<1> QED
  BY <1>1, <1>2 DEF Move, goods

(* Nothing moved for a receipt.                                            *)
LEMMA ReceiptsKept ==
    ASSUME NEW rcp \in Seq(Receipt), NEW chk, NEW led, NEW led2, ReceiptsOK(rcp, chk, led),
           \A r \in Nat : MovedBy(led2, r) = MovedBy(led, r)
    PROVE  ReceiptsOK(rcp, chk, led2)
<1>1. \A r \in DOMAIN rcp : r \in Nat
  OBVIOUS
<1> QED
  BY <1>1 DEF ReceiptsOK

(* More is checked, and what is not checked stays as it is.                *)
LEMMA ReceiptsChecked ==
    ASSUME NEW rcp, NEW chk, NEW rcp2, NEW chk2, NEW led, ReceiptsOK(rcp, chk, led),
           DOMAIN rcp2 = DOMAIN rcp,
           \A r \in DOMAIN rcp : Unchecked(r, chk2) => Unchecked(r, chk) /\ rcp2[r] = rcp[r]
    PROVE  ReceiptsOK(rcp2, chk2, led)
BY DEF ReceiptsOK

(* Before any check no receipt has more rejected than it brought.          *)
LEMMA SoundUntilChecked ==
    ASSUME NEW rcp \in Seq(Receipt), NEW led, ReceiptsOK(rcp, <<>>, led)
    PROVE  rcp \in Seq(SoundReceipt)
<1>1. ASSUME NEW r \in DOMAIN rcp PROVE rcp[r] \in SoundReceipt
  <2>1. Unchecked(r, <<>>)
    BY DEF Unchecked
  <2>2. rcp[r] \in Receipt /\ rcp[r].rejected <= rcp[r].quantity
    BY <2>1 DEF ReceiptsOK, Settles
  <2> QED
    BY <2>2 DEF SoundReceipt
<1> QED
  BY <1>1

-----------------------------------------------------------------------------
(* Steps that only read                                                    *)

LEMMA PurchasingRows ==
    ASSUME PurchasingInductive
    PROVE  /\ order \in Order /\ receipts \in Seq(Receipt) /\ invoices \in Seq(Invoice)
           /\ returns \in Seq(Return) /\ ledger \in Seq(Movement) /\ checks \in Seq(Check)
           /\ \A r \in DOMAIN receipts : r \in Nat /\ receipts[r] \in Receipt
           /\ \A n \in DOMAIN returns : n \in Nat /\ returns[n] \in Return
           /\ \A c \in DOMAIN checks : c \in Nat /\ checks[c] \in Check
<1>1. /\ order \in Order /\ receipts \in Seq(Receipt) /\ invoices \in Seq(Invoice)
      /\ returns \in Seq(Return) /\ ledger \in Seq(Movement) /\ checks \in Seq(Check)
  BY DEF PurchasingInductive, OrderOK, ReturnsOK, ChecksOK
<1> QED
  BY <1>1

LEMMA OrderReadersInductive ==
    ASSUME PurchasingInductive, NEW w \in Workers,
           \/ \E r \in DOMAIN receipts : LockReceipt(w, r)
           \/ \E q \in 1 .. Ordered : ValidateReturnItems(w, q)
           \/ AbandonPurchasing(w)
    PROVE  PurchasingInductive'
<1>1. ASSUME NEW r \in DOMAIN receipts, LockReceipt(w, r) PROVE PurchasingInductive'
  <2>0. PICK job : job = [op |-> "reverse", receipt |-> r]
    OBVIOUS
  <2>1. receipts[r].status = "COMPLETED" /\ ~ LockedReceipt(r) /\ r \in Nat
    BY <1>1, PurchasingRows DEF LockReceipt, Reversible
  <2>2. /\ job \in PurchasingJob /\ RowsKnown(job, receipts, checks)
        /\ job.receipt = r
    BY <2>0, <2>1 DEF PurchasingJob, RowsKnown
  <2>3. jobs' = [jobs EXCEPT ![w] = job]
    BY <1>1, <2>0 DEF LockReceipt, Begin
  <2> QED
    BY <1>1, <2>1, <2>2, <2>3, OnlyPurchasingJob DEF LockReceipt
<1>2. ASSUME NEW q \in 1 .. Ordered, ValidateReturnItems(w, q) PROVE PurchasingInductive'
  <2>0. PICK job : job = [op |-> "createReturn", quantity |-> q]
    OBVIOUS
  <2>1. q \in Nat
    BY OrderedAssumption
  <2>2. /\ job \in PurchasingJob /\ RowsKnown(job, receipts, checks) /\ job.op # "reverse"
    BY <2>0, <2>1 DEF PurchasingJob, RowsKnown
  <2>3. jobs' = [jobs EXCEPT ![w] = job]
    BY <1>2, <2>0 DEF ValidateReturnItems, Begin
  <2> QED
    BY <1>2, <2>2, <2>3, OnlyPurchasingJob DEF ValidateReturnItems
<1>3. ASSUME AbandonPurchasing(w) PROVE PurchasingInductive'
  BY <1>3, IdlePurchasing, OnlyPurchasingJob DEF AbandonPurchasing, Finish
<1> QED
  BY <1>1, <1>2, <1>3

(* A line with what a check rejects of it. *)
LEMMA LineRejected ==
    ASSUME NEW rcp \in Seq(Receipt), NEW r \in DOMAIN rcp, NEW rejected \in Nat,
           NEW rcp2, rcp2 = [rcp EXCEPT ![r].rejected = rejected]
    PROVE  /\ rcp2 \in Seq(Receipt) /\ DOMAIN rcp2 = DOMAIN rcp
           /\ rcp2[r].status = rcp[r].status
           /\ \A k \in DOMAIN rcp \ {r} : rcp2[k] = rcp[k]
<1>1. PICK row : row = [rcp[r] EXCEPT !.rejected = rejected]
  OBVIOUS
<1>2. ASSUME NEW x \in Receipt, NEW y, y = [x EXCEPT !.rejected = rejected]
      PROVE  y \in Receipt /\ y.status = x.status
  BY <1>2 DEF Receipt
<1>3. rcp[r] \in Receipt
  OBVIOUS
<1>4. row \in Receipt /\ row.status = rcp[r].status /\ rcp2 = [rcp EXCEPT ![r] = row]
  BY <1>1, <1>2, <1>3
<1> QED
  BY <1>4, PurchaseRowReplaced

LEMMA ReadForCheckInductive ==
    ASSUME PurchasingInductive, NEW w \in Workers, NEW r, r \in {0} \cup DOMAIN receipts,
           NEW rejected, rejected \in 0 .. Ordered,
           NEW result \in {"PASSED", "CONDITIONAL", "FAILED"}, ReadForCheck(w, r, rejected, result)
    PROVE  PurchasingInductive'
<1>1. /\ receipts \in Seq(Receipt) /\ r \in Nat /\ order \in Order
      /\ rejected \in Nat
  BY PurchasingRows, OrderedAssumption
<1>2. PICK rcp : rcp = Checked(r, rejected)
  OBVIOUS
<1>3. rcp \in Seq(Receipt)
  <2>1. CASE r = 0
    BY <1>1, <1>2, <2>1 DEF Checked
  <2>2. CASE r # 0
    <3>1. r \in DOMAIN receipts /\ rcp = [receipts EXCEPT ![r].rejected = rejected]
      BY <1>2, <2>2 DEF Checked
    <3> QED
      BY <1>1, <3>1, LineRejected
  <2> QED
    BY <2>1, <2>2
<1>4. PICK new : new = Recalculated(rcp)
  OBVIOUS
<1>5. new \in Order
  BY <1>3, <1>4, RecalculatedOrder
<1>6. PICK job : job = [op |-> "saveCheck", receipt |-> r, rejected |-> rejected,
                        result |-> result, read |-> order, new |-> new]
  OBVIOUS
<1>8. /\ job \in PurchasingJob /\ RowsKnown(job, receipts, checks) /\ job.op # "reverse"
  BY <1>1, <1>5, <1>6 DEF PurchasingJob, RowsKnown
<1>9. jobs' = [jobs EXCEPT ![w] = job]
  BY <1>2, <1>4, <1>6 DEF ReadForCheck, Begin
<1> QED
  BY <1>8, <1>9, OnlyPurchasingJob DEF ReadForCheck

LEMMA ExceptionReadersInductive ==
    ASSUME PurchasingInductive, NEW w \in Workers, NEW c \in DOMAIN checks,
           \/ ReadForClaim(w, c)
           \/ \E claim \in {"RESOLVED", "CANCELLED"} : ReadForResolution(w, c, claim)
    PROVE  PurchasingInductive'
<1>1. /\ receipts \in Seq(Receipt) /\ order \in Order /\ c \in Nat
  BY PurchasingRows
<1>2. PICK new : new = Recalculated(receipts)
  OBVIOUS
<1>3. new \in Order
  BY <1>1, <1>2, RecalculatedOrder
<1>4. ASSUME ReadForClaim(w, c) PROVE PurchasingInductive'
  <2>0. PICK job : job = [op |-> "saveClaim", check |-> c, read |-> order, new |-> new]
    OBVIOUS
  <2>1. /\ job \in PurchasingJob /\ RowsKnown(job, receipts, checks) /\ job.op # "reverse"
    BY <1>1, <1>3, <2>0 DEF PurchasingJob, RowsKnown
  <2>2. jobs' = [jobs EXCEPT ![w] = job]
    BY <1>2, <1>4, <2>0 DEF ReadForClaim, Begin
  <2> QED
    BY <1>4, <2>1, <2>2, OnlyPurchasingJob DEF ReadForClaim
<1>5. ASSUME NEW claim \in {"RESOLVED", "CANCELLED"}, ReadForResolution(w, c, claim)
      PROVE  PurchasingInductive'
  <2>0. PICK job : job = [op |-> "saveResolution", check |-> c, claim |-> claim,
                          read |-> order, new |-> new]
    OBVIOUS
  <2>1. /\ job \in PurchasingJob /\ RowsKnown(job, receipts, checks) /\ job.op # "reverse"
    BY <1>1, <1>3, <2>0 DEF PurchasingJob, RowsKnown
  <2>2. jobs' = [jobs EXCEPT ![w] = job]
    BY <1>2, <1>5, <2>0 DEF ReadForResolution, Begin
  <2> QED
    BY <1>5, <2>1, <2>2, OnlyPurchasingJob DEF ReadForResolution
<1> QED
  BY <1>4, <1>5

-----------------------------------------------------------------------------
(* Steps on orders, receipts and invoices                                  *)

(* Goods leave for something that is no return; nothing else changes.      *)
LEMMA SellInductive ==
    ASSUME PurchasingInductive, NEW w \in Workers, Sell(w)
    PROVE  PurchasingInductive'
<1>1. PICK ref : ref = <<"sale", 0>>
  OBVIOUS
<1>2. ref \in Reference /\ \A n \in Nat : ref # <<"return", n>>
  BY <1>1 DEF Reference
<1>3. /\ Move(ref, -1) /\ currentStock \in Nat /\ ReturnsOK(returns, ledger)
      /\ ledger \in Seq(Movement) /\ ReceiptsOK(receipts, checks, ledger)
      /\ receipts \in Seq(Receipt)
  BY <1>1, PurchasingRows DEF Sell, PurchasingInductive
<1>4. /\ currentStock' \in Nat
      /\ \/ ledger' = ledger
         \/ \E row \in Movement : row.reference = ref /\ ledger' = Append(ledger, row)
      /\ \A r : MovedBy(ledger', r)
                  = MovedBy(ledger, r) + IF ref = <<"receipt", r>> THEN -1 ELSE 0
  BY <1>2, <1>3, StockMoved
<1>5. ReturnsOK(returns, ledger')
  BY <1>2, <1>3, <1>4, OtherMoved
<1>6. ReceiptsOK(receipts, checks, ledger')
  <2>1. ASSUME NEW r \in Nat PROVE MovedBy(ledger', r) = MovedBy(ledger, r)
    BY <1>1, <1>3, <1>4, MovedByInt
  <2> QED
    BY <1>3, <2>1, ReceiptsKept
<1> QED
  BY <1>4, <1>5, <1>6 DEF Sell, PurchasingInductive

LEMMA RowsUntouched ==
    ASSUME NEW js, NEW w, NEW rcp, NEW chk
    PROVE  RowsStay(js, w, rcp, rcp, chk, chk)
BY DEF RowsStay

LEMMA CreateInvoiceInductive ==
    ASSUME PurchasingInductive, NEW w \in Workers, NEW q, q \in 1 .. Ordered, CreateInvoice(w, q)
    PROVE  PurchasingInductive'
<1>0. /\ OrderOK(order, receipts, checks, invoices)
      /\ order \in Order /\ invoices \in Seq(Invoice)
      /\ q \in Nat
  BY OrderedAssumption DEF PurchasingInductive, OrderOK
<1>2. invoices' \in Seq(Invoice)
  <2>1. [quantity |-> q, active |-> TRUE] \in Invoice
    BY <1>0 DEF Invoice
  <2> QED
    BY <1>0, <2>1 DEF CreateInvoice
<1>3. \E status \in {"PARTIAL_RECEIPT", "COMPLETED", "RECEIVED"} :
          order' = [order EXCEPT !.status = status]
  BY DEF CreateInvoice
<1>4. order' \in Order /\ order'.received = order.received
  BY <1>0, <1>3 DEF Order
<1>5. OrderOK(order', receipts, checks, invoices')
  BY <1>0, <1>2, <1>4 DEF OrderOK
<1> QED
  BY <1>5 DEF CreateInvoice, PurchasingInductive, goods

LEMMA OrderEditsInductive ==
    ASSUME PurchasingInductive, NEW w \in Workers,
           \/ \E i \in DOMAIN invoices, active \in BOOLEAN : UpdateInvoiceStatus(w, i, active)
           \/ CancelOrder(w)
           \/ \E status \in {"SENT", "CANCELLED"} : DecideOrder(w, status)
    PROVE  PurchasingInductive'
<1>0. /\ OrderOK(order, receipts, checks, invoices)
      /\ order \in Order /\ invoices \in Seq(Invoice)
  BY DEF PurchasingInductive, OrderOK
<1>1. ASSUME NEW i \in DOMAIN invoices, NEW active \in BOOLEAN,
             UpdateInvoiceStatus(w, i, active)
      PROVE  PurchasingInductive'
  <2>1. PICK row : row = [invoices[i] EXCEPT !.active = active]
    OBVIOUS
  <2>2. ASSUME NEW x \in Invoice, NEW y, y = [x EXCEPT !.active = active]
        PROVE  y \in Invoice
    BY <2>2 DEF Invoice
  <2>3. row \in Invoice /\ invoices' = [invoices EXCEPT ![i] = row]
    <3>1. invoices[i] \in Invoice
      BY <1>0
    <3> QED
      BY <1>1, <2>1, <2>2, <3>1 DEF UpdateInvoiceStatus
  <2>4. invoices' \in Seq(Invoice)
    BY <1>0, <2>3, PurchaseRowReplaced
  <2>5. OrderOK(order, receipts, checks, invoices')
    BY <1>0, <2>4 DEF OrderOK
  <2> QED
    BY <1>1, <2>5 DEF UpdateInvoiceStatus, PurchasingInductive, goods
<1>2. ASSUME NEW status \in {"SENT", "CANCELLED"}, order' = [order EXCEPT !.status = status],
             UNCHANGED <<receipts, checks, returns, invoices, goods, jobs>>
      PROVE  PurchasingInductive'
  <2>1. order' \in Order /\ order'.received = order.received
    BY <1>0, <1>2 DEF Order
  <2>2. OrderOK(order', receipts, checks, invoices)
    BY <1>0, <2>1, StatusWritten
  <2> QED
    BY <1>2, <2>2 DEF PurchasingInductive, goods
<1> QED
  BY <1>1, <1>2 DEF CancelOrder, DecideOrder

LEMMA CreateReceiptInductive ==
    ASSUME PurchasingInductive, NEW w \in Workers, NEW q, q \in 1 .. Ordered,
           NEW rejected, rejected \in 0 .. q, CreateReceipt(w, q, rejected)
    PROVE  PurchasingInductive'
<1>0. /\ OrderOK(order, receipts, checks, invoices) /\ ReturnsOK(returns, ledger)
      /\ ReceiptsOK(receipts, checks, ledger) /\ ledger \in Seq(Movement)
      /\ order \in Order /\ order.received \in Int /\ receipts \in Seq(Receipt)
      /\ q \in Nat /\ rejected \in Nat /\ rejected <= q /\ currentStock \in Nat
      /\ Ordered \in Nat
  BY OrderedAssumption, PurchasingRows DEF PurchasingInductive, Order
<1>1. PICK row : row = [quantity |-> q, rejected |-> rejected, status |-> "COMPLETED"]
  OBVIOUS
<1>2. row \in Receipt /\ BroughtIn(row) = q - rejected /\ row.rejected <= row.quantity
  BY <1>0, <1>1 DEF Receipt, BroughtIn, Accepted
<1>3. receipts' = Append(receipts, row)
  BY <1>1 DEF CreateReceipt
<1>4. PICK k : k = Len(receipts')
  OBVIOUS
<1>14. /\ receipts' \in Seq(Receipt) /\ k \in Nat /\ k \notin DOMAIN receipts
       /\ DOMAIN receipts' = DOMAIN receipts \cup {k}
       /\ receipts'[k] = row
       /\ \A r \in DOMAIN receipts : r \in Nat /\ receipts'[r] = receipts[r]
  BY <1>0, <1>2, <1>3, <1>4
<1>5. DeliveredBy(receipts') = DeliveredBy(receipts) + (q - rejected)
  BY <1>0, <1>2, <1>3, DeliveredAppend
<1>6. PICK n : n = order.received + q - rejected
  OBVIOUS
<1>7. n \in Int /\ n <= Ordered /\ n = order.received + (q - rejected)
  BY <1>0, <1>6 DEF CreateReceipt
<1>8. order' = [status |-> ReceiptStatus(order.status, n), received |-> n]
  BY <1>6 DEF CreateReceipt, Received
<1>9. order' \in Order /\ order'.received = n
  BY <1>0, <1>7, <1>8, ReceiptStatusKnown
<1>10. OrderOK(order', receipts', checks, invoices)
  <2>1. ASSUME checks = <<>> PROVE n = DeliveredBy(receipts')
    BY <1>0, <1>5, <1>7, <2>1, DeliveredInt DEF OrderOK
  <2> QED
    BY <1>0, <1>7, <1>9, <1>14, <2>1 DEF OrderOK
<1>11. /\ currentStock' \in Nat /\ ReturnsOK(returns, ledger')
       /\ \A r \in Nat : MovedBy(ledger', r)
                           = MovedBy(ledger, r) + IF r = k THEN q - rejected ELSE 0
  <2>1. PICK ref : ref = <<"receipt", k>>
    OBVIOUS
  <2>2. ref \in Reference /\ \A m \in Nat : ref # <<"return", m>>
    BY <1>14, <2>1 DEF Reference
  <2>3. Move(ref, q - rejected) /\ q - rejected \in Int
    BY <1>0, <1>4, <2>1 DEF CreateReceipt
  <2>4. /\ currentStock' \in Nat
        /\ \/ ledger' = ledger
           \/ \E move \in Movement : move.reference = ref /\ ledger' = Append(ledger, move)
        /\ \A r : MovedBy(ledger', r)
                    = MovedBy(ledger, r) + IF ref = <<"receipt", r>> THEN q - rejected ELSE 0
    BY <1>0, <2>2, <2>3, StockMoved
  <2> QED
    BY <1>0, <2>1, <2>2, <2>4, OtherMoved
<1>15. ReceiptsOK(receipts', checks, ledger')
  <2>1. ASSUME NEW r \in Nat, r # k PROVE MovedBy(ledger', r) = MovedBy(ledger, r)
    BY <1>0, <1>11, <2>1, MovedByInt
  <2>2. Settles(row, MovedBy(ledger', k))
    <3>1. MovedBy(ledger, k) = 0
      BY <1>0, <1>14 DEF ReceiptsOK
    <3>2. MovedBy(ledger', k) = q - rejected
      BY <1>0, <1>11, <1>14, <3>1
    <3> QED
      BY <1>2, <3>2 DEF Settles
  <2> QED
    BY <1>0, <1>14, <2>1, <2>2 DEF ReceiptsOK
<1>12. RowsStay(jobs, w, receipts, receipts', checks, checks)
  <2>1. \A v \in Workers : jobs[v].op = "reverse" => jobs[v].receipt \in DOMAIN receipts
    BY PurchasingJobOf DEF RowsKnown
  <2> QED
    BY <1>14, <2>1 DEF RowsStay
<1>13. jobs' = [jobs EXCEPT ![w] = Idle] /\ UNCHANGED <<checks, returns, invoices>>
  BY FreeIdle DEF CreateReceipt
<1> QED
  BY <1>10, <1>11, <1>12, <1>13, <1>15, IdlePurchasing, PurchasingStepInductive
  DEF PurchasingInductive

LEMMA ReverseReceiptInductive ==
    ASSUME PurchasingInductive, NEW w \in Workers, ReverseReceipt(w)
    PROVE  PurchasingInductive'
<1>1. PICK r : r = jobs[w].receipt
  OBVIOUS
<1>2. /\ r \in DOMAIN receipts /\ receipts[r].status = "COMPLETED" /\ r \in Nat
      /\ receipts \in Seq(Receipt) /\ receipts[r] \in Receipt
  BY <1>1, PurchasingJobOf, PurchasingRows DEF ReverseReceipt, RowsKnown
<1>3. /\ jobs' = [jobs EXCEPT ![w] = Idle] /\ UNCHANGED <<checks, returns, invoices>>
  BY DEF ReverseReceipt, Finish
<1>4. ASSUME UNCHANGED <<order, receipts, goods>> PROVE PurchasingInductive'
  BY <1>3, <1>4, IdlePurchasing, OnlyPurchasingJob
<1>5. ASSUME Move(<<"receipt", r>>, - TakenBack(r)),
             receipts' = [receipts EXCEPT ![r].status = "CANCELLED"],
             order' = Unreceived(r)
      PROVE  PurchasingInductive'
  <2>0. /\ OrderOK(order, receipts, checks, invoices) /\ ReturnsOK(returns, ledger)
        /\ ReceiptsOK(receipts, checks, ledger) /\ ledger \in Seq(Movement)
        /\ order \in Order /\ order.received \in Int
        /\ currentStock \in Nat /\ Ordered \in Nat
        /\ Accepted(receipts[r]) \in Int /\ BroughtIn(receipts[r]) = Accepted(receipts[r])
    BY <1>2, OrderedAssumption, PurchasingRows, BroughtInInt
    DEF PurchasingInductive, Order, BroughtIn
  <2>1. PICK row : row = [receipts[r] EXCEPT !.status = "CANCELLED"]
    OBVIOUS
  <2>2. /\ row \in Receipt /\ row.status = "CANCELLED"
        /\ row.quantity = receipts[r].quantity /\ row.rejected = receipts[r].rejected
    <3>1. ASSUME NEW x \in Receipt, NEW y, y = [x EXCEPT !.status = "CANCELLED"]
          PROVE  /\ y \in Receipt /\ y.status = "CANCELLED"
                 /\ y.quantity = x.quantity /\ y.rejected = x.rejected
      BY <3>1 DEF Receipt
    <3> QED
      BY <1>2, <2>1, <3>1
  <2>3. receipts' = [receipts EXCEPT ![r] = row] /\ BroughtIn(row) = 0
    BY <1>5, <2>1, <2>2 DEF BroughtIn
  <2>4. /\ receipts' \in Seq(Receipt) /\ DOMAIN receipts' = DOMAIN receipts
        /\ receipts'[r] = row /\ \A k \in DOMAIN receipts \ {r} : receipts'[k] = receipts[k]
    BY <1>2, <2>2, <2>3, PurchaseRowReplaced
  <2>5. DeliveredBy(receipts') = DeliveredBy(receipts) - Accepted(receipts[r])
    <3>1. DeliveredBy(receipts')
            = DeliveredBy(receipts) + (BroughtIn(row) - BroughtIn(receipts[r]))
      BY <1>2, <2>2, <2>3, DeliveredChange
    <3> QED
      BY <1>2, <2>0, <2>3, <3>1, DeliveredInt
  <2>14. Unchecked(r, checks) => /\ Accepted(receipts[r]) >= 0
                                 /\ TakenBack(r) = Accepted(receipts[r])
                                 /\ MovedBy(ledger, r) = Accepted(receipts[r])
    <3>1. ASSUME Unchecked(r, checks)
          PROVE  /\ receipts[r].rejected <= receipts[r].quantity
                 /\ MovedBy(ledger, r) = Accepted(receipts[r])
      BY <1>2, <2>0, <3>1 DEF ReceiptsOK, Settles
    <3>2. \A x \in Receipt : x.rejected <= x.quantity => Accepted(x) >= 0
      BY DEF Receipt, Accepted
    <3> QED
      BY <1>2, <2>0, <3>1, <3>2 DEF TakenBack, Greater
  <2>13. TakenBack(r) \in Int
    BY <2>0 DEF TakenBack, Greater
  <2>6. PICK n : n = Greater(0, order.received - TakenBack(r))
    OBVIOUS
  <2>7. /\ n \in Int
        /\ order.received >= TakenBack(r) => n = order.received - TakenBack(r)
    BY <2>0, <2>6, <2>13 DEF Greater
  <2>8. order' = [status |-> ReceiptStatus(order.status, n), received |-> n]
    BY <1>5, <2>6 DEF Unreceived, Received
  <2>9. order' \in Order /\ order'.received = n
    BY <2>0, <2>7, <2>8, ReceiptStatusKnown
  <2>10. OrderOK(order', receipts', checks, invoices)
    <3>1. ASSUME checks = <<>>
          PROVE  order'.received = DeliveredBy(receipts') /\ order'.received <= Ordered
      <4>1. order.received = DeliveredBy(receipts) /\ order.received <= Ordered
        BY <2>0, <3>1 DEF OrderOK
      <4>2. Unchecked(r, checks) /\ receipts \in Seq(SoundReceipt)
        BY <1>2, <2>0, <3>1, SoundUntilChecked DEF Unchecked
      <4>3. Accepted(receipts[r]) <= order.received
        BY <1>2, <2>0, <4>1, <4>2, OneOfDelivered
      <4> QED
        BY <2>0, <2>5, <2>7, <2>9, <2>14, <4>1, <4>2, <4>3
    <3> QED
      BY <2>0, <2>4, <2>9, <3>1 DEF OrderOK
  <2>11. /\ currentStock' \in Nat /\ ReturnsOK(returns, ledger')
         /\ \A k \in Nat : MovedBy(ledger', k)
                             = MovedBy(ledger, k) + IF k = r THEN - TakenBack(r) ELSE 0
    <3>1. PICK ref : ref = <<"receipt", r>>
      OBVIOUS
    <3>2. ref \in Reference /\ \A m \in Nat : ref # <<"return", m>>
      BY <1>2, <3>1 DEF Reference
    <3>3. PICK q : q = - TakenBack(r)
      OBVIOUS
    <3>4. Move(ref, q) /\ q \in Int
      BY <1>5, <2>13, <3>1, <3>3
    <3>5. /\ currentStock' \in Nat
          /\ \/ ledger' = ledger
             \/ \E move \in Movement : move.reference = ref /\ ledger' = Append(ledger, move)
          /\ \A k : MovedBy(ledger', k)
                      = MovedBy(ledger, k) + IF ref = <<"receipt", k>> THEN q ELSE 0
      BY <2>0, <3>2, <3>4, StockMoved
    <3>6. \A k \in Nat : MovedBy(ledger', k)
                           = MovedBy(ledger, k) + IF k = r THEN q ELSE 0
      BY <3>1, <3>5
    <3> QED
      BY <2>0, <3>2, <3>3, <3>5, <3>6, OtherMoved
  <2>15. ReceiptsOK(receipts', checks, ledger')
    <3>1. ASSUME NEW k \in Nat, k # r PROVE MovedBy(ledger', k) = MovedBy(ledger, k)
      BY <2>0, <2>11, <3>1, MovedByInt
    <3>2. Unchecked(r, checks) => Settles(row, MovedBy(ledger', r))
      <4>1. ASSUME Unchecked(r, checks) PROVE MovedBy(ledger', r) = 0
        BY <1>2, <2>0, <2>11, <2>14, <4>1
      <4>2. Unchecked(r, checks) => row.rejected <= row.quantity
        BY <1>2, <2>0, <2>2 DEF ReceiptsOK, Settles
      <4> QED
        BY <2>3, <4>1, <4>2 DEF Settles
    <3>3. \A k \in DOMAIN receipts : k \in Nat
      BY <1>2
    <3> QED
      BY <1>2, <2>0, <2>4, <3>1, <3>2, <3>3 DEF ReceiptsOK
  <2>12. RowsStay(jobs, w, receipts, receipts', checks, checks)
    <3>1. \A v \in Workers \ {w} : jobs[v].op = "reverse" =>
              jobs[v].receipt \in DOMAIN receipts \ {r}
      <4>1. OneReverser(jobs) /\ jobs[w].op = "reverse"
        BY DEF PurchasingInductive, PurchasingJobsOK, ReverseReceipt
      <4>2. \A v \in Workers : jobs[v].op = "reverse" => jobs[v].receipt \in DOMAIN receipts
        BY PurchasingJobOf DEF RowsKnown
      <4> QED
        BY <1>1, <4>1, <4>2 DEF OneReverser
    <3> QED
      BY <2>4, <3>1 DEF RowsStay
  <2> QED
    BY <1>3, <2>10, <2>11, <2>12, <2>15, IdlePurchasing, PurchasingStepInductive
    DEF PurchasingInductive
<1> QED
  BY <1>1, <1>4, <1>5 DEF ReverseReceipt

-----------------------------------------------------------------------------
(* Steps on returns                                                        *)

LEMMA ReturnStepInductive ==
    ASSUME PurchasingInductive, NEW w \in Workers, jobs' = [jobs EXCEPT ![w] = Idle],
           ReturnsOK(returns', ledger'), currentStock' \in Nat,
           \A r \in Nat : MovedBy(ledger', r) = MovedBy(ledger, r),
           DOMAIN returns \subseteq DOMAIN returns',
           \A n \in DOMAIN returns : returns'[n].claimed = returns[n].claimed,
           UNCHANGED <<order, receipts, checks, invoices>>
    PROVE  PurchasingInductive'
<1>1. ChecksOK(checks, returns')
  BY ChecksKeepReturns DEF PurchasingInductive
<1>2. ReceiptsOK(receipts, checks, ledger')
  <2>1. receipts \in Seq(Receipt) /\ ReceiptsOK(receipts, checks, ledger)
    BY DEF PurchasingInductive, OrderOK
  <2> QED
    BY <2>1, ReceiptsKept
<1> QED
  BY <1>1, <1>2, IdlePurchasing, RowsUntouched, PurchasingStepInductive DEF PurchasingInductive

LEMMA CreateReturnInductive ==
    ASSUME PurchasingInductive, NEW w \in Workers, CreateReturn(w)
    PROVE  PurchasingInductive'
<1>1. PICK row : row = [quantity |-> jobs[w].quantity, status |-> "DRAFT", claimed |-> FALSE]
  OBVIOUS
<1>2. row \in Return
  BY <1>1, PurchasingJobOf, PurchasingJobFields DEF CreateReturn, Return
<1>3. returns' = Append(returns, row) /\ ReturnsOK(returns, ledger) /\ ledger' = ledger
  BY <1>1 DEF CreateReturn, PurchasingInductive, goods
<1>4. /\ DOMAIN returns' = DOMAIN returns \cup {Len(returns')}
      /\ \A n \in DOMAIN returns : returns'[n] = returns[n]
  <2>1. returns \in Seq(Return)
    BY <1>3 DEF ReturnsOK
  <2> QED
    BY <1>2, <1>3, <2>1, RowAdded
<1>6. ReturnsOK(returns', ledger')
  BY <1>2, <1>3, ReturnAdded
<1>5. /\ jobs' = [jobs EXCEPT ![w] = Idle] /\ currentStock' \in Nat
      /\ UNCHANGED <<order, receipts, checks, invoices>>
  BY DEF CreateReturn, Finish, goods, PurchasingInductive
<1> QED
  BY <1>3, <1>4, <1>5, <1>6, ReturnStepInductive

(* A return with another status. *)
LEMMA ReturnWithStatus ==
    ASSUME NEW x \in Return,
           NEW status \in {"DRAFT", "PENDING_VENDOR", "SENT", "SETTLED", "CANCELLED"},
           NEW y, y = [x EXCEPT !.status = status]
    PROVE  y \in Return /\ y.status = status /\ y.claimed = x.claimed
BY DEF Return

LEMMA UpdateReturnInductive ==
    ASSUME PurchasingInductive, NEW w \in Workers, NEW n \in DOMAIN returns,
           NEW next \in {"PENDING_VENDOR", "SETTLED", "CANCELLED"}, UpdateReturn(w, n, next)
    PROVE  PurchasingInductive'
<1>1. /\ ReturnsOK(returns, ledger) /\ returns \in Seq(Return) /\ ledger' = ledger
      /\ returns' = [returns EXCEPT ![n].status = next]
  BY DEF UpdateReturn, PurchasingInductive, ReturnsOK, goods
<1>2. PICK row : row = [returns[n] EXCEPT !.status = next]
  OBVIOUS
<1>7. /\ row \in Return /\ returns[n] \in Return /\ returns' = [returns EXCEPT ![n] = row]
      /\ row.status = next /\ row.claimed = returns[n].claimed
  BY <1>1, <1>2, ReturnWithStatus
<1>3. StillMoved(returns[n], row)
  BY <1>7 DEF UpdateReturn, ReturnTransitions, StillMoved
<1>4. /\ DOMAIN returns' = DOMAIN returns
      /\ returns'[n] = row /\ \A m \in DOMAIN returns \ {n} : returns'[m] = returns[m]
  BY <1>1, <1>7, PurchaseRowReplaced
<1>8. ReturnsOK(returns', ledger')
  BY <1>1, <1>3, <1>7, ReturnChanged
<1>5. /\ jobs' = [jobs EXCEPT ![w] = Idle] /\ currentStock' \in Nat
      /\ UNCHANGED <<order, receipts, checks, invoices>>
  BY FreeIdle DEF UpdateReturn, goods, PurchasingInductive
<1>6. \A m \in DOMAIN returns : returns'[m].claimed = returns[m].claimed
  BY <1>4, <1>7
<1> QED
  BY <1>1, <1>4, <1>5, <1>6, <1>8, ReturnStepInductive

LEMMA SendReturnInductive ==
    ASSUME PurchasingInductive, NEW w \in Workers, NEW n \in DOMAIN returns, SendReturn(w, n)
    PROVE  PurchasingInductive'
<1>11. returns' = [returns EXCEPT ![n].status = "SENT"]
  BY DEF SendReturn
<1>1. /\ ReturnsOK(returns, ledger) /\ returns \in Seq(Return) /\ n \in Nat
      /\ returns[n].status \notin {"SENT", "SETTLED"}
      /\ currentStock \in Nat /\ ledger \in Seq(Movement)
  BY DEF SendReturn, PurchasingInductive, ReturnsOK
<1>2. PICK row : row = [returns[n] EXCEPT !.status = "SENT"]
  OBVIOUS
<1>9. /\ row \in Return /\ returns[n] \in Return /\ returns' = [returns EXCEPT ![n] = row]
      /\ row.status = "SENT" /\ row.claimed = returns[n].claimed
  BY <1>1, <1>2, <1>11, ReturnWithStatus
<1>3. /\ DOMAIN returns' = DOMAIN returns
      /\ returns'[n] = row /\ \A m \in DOMAIN returns \ {n} : returns'[m] = returns[m]
  BY <1>1, <1>9, PurchaseRowReplaced
<1>4. PICK ref : ref = <<"return", n>>
  OBVIOUS
<1>10. StillMoved(returns[n], row)
  BY <1>9 DEF StillMoved
<1>5. /\ currentStock' \in Nat
      /\ \/ ledger' = ledger
         \/ \E move \in Movement : move.reference = ref /\ ledger' = Append(ledger, move)
      /\ \A r \in Nat : MovedBy(ledger', r) = MovedBy(ledger, r)
  <2>1. ref \in Reference /\ \A r \in Nat : ref # <<"receipt", r>>
    BY <1>1, <1>4 DEF Reference
  <2>2. PICK q : q = - returns[n].quantity
    OBVIOUS
  <2>3. q \in Int
    <3>1. returns[n] \in Return
      BY <1>1
    <3> QED
      BY <2>2, <3>1 DEF Return
  <2>4. Move(ref, q)
    BY <1>4, <2>2 DEF SendReturn
  <2>5. /\ currentStock' \in Nat
        /\ \/ ledger' = ledger
           \/ \E move \in Movement : move.reference = ref /\ ledger' = Append(ledger, move)
        /\ \A r : MovedBy(ledger', r)
                    = MovedBy(ledger, r) + IF ref = <<"receipt", r>> THEN q ELSE 0
    BY <1>1, <2>1, <2>3, <2>4, StockMoved
  <2>6. ASSUME NEW r \in Nat PROVE MovedBy(ledger', r) = MovedBy(ledger, r)
    BY <1>1, <2>1, <2>5, MovedByInt
  <2> QED
    BY <2>5, <2>6
<1>6. ReturnsOK(returns', ledger')
  <2>0. ReturnsOK(returns', ledger)
    BY <1>1, <1>9, <1>10, ReturnChanged
  <2>1. CASE ledger' = ledger
    BY <2>0, <2>1
  <2>2. CASE \E move \in Movement : move.reference = ref /\ ledger' = Append(ledger, move)
    <3>1. PICK move \in Movement : move.reference = ref /\ ledger' = Append(ledger, move)
      BY <2>2
    <3>2. move.reference = <<"return", n>>
      BY <1>4, <3>1
    <3>3. PICK ret2, led2 : ret2 = returns' /\ led2 = ledger'
      OBVIOUS
    <3>4. ReturnsOK(ret2, led2)
      BY <1>1, <1>9, <1>10, <3>1, <3>2, <3>3, ReturnSent
    <3> QED
      BY <3>3, <3>4
  <2> QED
    BY <1>5, <2>1, <2>2
<1>7. /\ jobs' = [jobs EXCEPT ![w] = Idle]
      /\ UNCHANGED <<order, receipts, checks, invoices>>
  BY FreeIdle DEF SendReturn
<1>8. \A m \in DOMAIN returns : returns'[m].claimed = returns[m].claimed
  BY <1>3, <1>9
<1> QED
  BY <1>3, <1>5, <1>6, <1>7, <1>8, ReturnStepInductive

-----------------------------------------------------------------------------
(* Steps on quality checks                                                 *)

(* The order is saved as a check has it: a check there is now.             *)
LEMMA OrderOfCheck ==
    ASSUME PurchasingInductive, NEW w \in Workers,
           jobs[w].op \in {"saveCheck", "saveClaim", "saveResolution"},
           order' \in SavedOrder(jobs[w].read, jobs[w].new),
           receipts' \in Seq(Receipt), checks' # <<>>, invoices' = invoices
    PROVE  OrderOK(order', receipts', checks', invoices')
<1>1. jobs[w].read \in Order /\ jobs[w].new \in Order
  BY PurchasingJobOf, PurchasingJobFields
<1>2. order \in Order /\ invoices \in Seq(Invoice)
  BY PurchasingRows
<1>3. PICK read, new, saved : read = jobs[w].read /\ new = jobs[w].new /\ saved = order'
  OBVIOUS
<1>4. read \in Order /\ new \in Order /\ saved \in SavedOrder(read, new)
  BY <1>1, <1>3
<1>5. saved \in Order
  BY <1>2, <1>4, OrderSaved
<1> QED
  BY <1>2, <1>3, <1>5 DEF OrderOK

LEMMA SaveCheckInductive ==
    ASSUME PurchasingInductive, NEW w \in Workers, SaveCheck(w)
    PROVE  PurchasingInductive'
<1>1. PICK r, rejected : r = jobs[w].receipt /\ rejected = jobs[w].rejected
  OBVIOUS
<1>2. /\ r \in {0} \cup DOMAIN receipts /\ receipts \in Seq(Receipt)
      /\ r \in Nat /\ rejected \in Nat
      /\ jobs[w].op = "saveCheck"
  BY <1>1, PurchasingJobOf, PurchasingJobFields, PurchasingRows DEF SaveCheck, RowsKnown
<1>3. /\ receipts' \in Seq(Receipt) /\ DOMAIN receipts' = DOMAIN receipts
      /\ \A k \in DOMAIN receipts : receipts'[k].status = receipts[k].status
      /\ \A k \in DOMAIN receipts \ {r} : receipts'[k] = receipts[k]
  <2>1. receipts' = Checked(r, rejected)
    BY <1>1 DEF SaveCheck
  <2>2. CASE r = 0
    <3>1. receipts' = receipts
      BY <2>1, <2>2 DEF Checked
    <3> QED
      BY <1>2, <3>1
  <2>3. CASE r # 0
    <3>1. PICK rcp : rcp = receipts'
      OBVIOUS
    <3>2. r \in DOMAIN receipts /\ rcp = [receipts EXCEPT ![r].rejected = rejected]
      BY <1>2, <2>1, <2>3, <3>1 DEF Checked
    <3>3. /\ rcp \in Seq(Receipt) /\ DOMAIN rcp = DOMAIN receipts
          /\ rcp[r].status = receipts[r].status
          /\ \A k \in DOMAIN receipts \ {r} : rcp[k] = receipts[k]
      BY <1>2, <3>2, LineRejected
    <3> QED
      BY <3>1, <3>3
  <2> QED
    BY <2>2, <2>3
<1>4. PICK returnIt \in BOOLEAN : returnIt <=> jobs[w].result = "FAILED" /\ rejected > 0
  OBVIOUS
<1>5. /\ ReturnsOK(returns', ledger) /\ DOMAIN returns \subseteq DOMAIN returns'
      /\ \A n \in DOMAIN returns : returns'[n].claimed = returns[n].claimed
      /\ returnIt => /\ Len(returns') \in DOMAIN returns' /\ Len(returns') \in Nat
                     /\ returns'[Len(returns')].claimed
  <2>0. ReturnsOK(returns, ledger)
    BY DEF PurchasingInductive
  <2>1. CASE returnIt
    <3>1. PICK row : row = [quantity |-> rejected, status |-> "PENDING_VENDOR", claimed |-> TRUE]
      OBVIOUS
    <3>2. row \in Return /\ row.claimed
      BY <1>2, <3>1 DEF Return
    <3>3. returns' = Append(returns, row)
      BY <1>1, <1>4, <2>1, <3>1 DEF SaveCheck
    <3>4. /\ DOMAIN returns' = DOMAIN returns \cup {Len(returns')}
          /\ Len(returns') \in Nat /\ returns'[Len(returns')] = row
          /\ \A n \in DOMAIN returns : returns'[n] = returns[n]
      <4>1. returns \in Seq(Return)
        BY <2>0 DEF ReturnsOK
      <4> QED
        BY <3>2, <3>3, <4>1, RowAdded
    <3>5. ReturnsOK(returns', ledger)
      BY <2>0, <3>2, <3>3, ReturnAdded
    <3> QED
      BY <3>2, <3>4, <3>5
  <2>2. CASE ~ returnIt
    <3>1. returns' = returns
      BY <1>1, <1>4, <2>2 DEF SaveCheck
    <3> QED
      BY <2>0, <2>2, <3>1
  <2> QED
    BY <2>1, <2>2
<1>6. /\ ChecksOK(checks', returns') /\ DOMAIN checks \subseteq DOMAIN checks'
      /\ checks' # <<>>
      /\ \E c \in DOMAIN checks' : checks'[c].receipt = r
      /\ \A c \in DOMAIN checks : checks'[c] = checks[c]
  <2>1. PICK passed \in BOOLEAN : passed <=> jobs[w].result = "PASSED"
    OBVIOUS
  <2>2. PICK row : row = [receipt   |-> r,
                          exception |-> IF passed THEN "NONE" ELSE "OPEN",
                          claim     |-> IF passed THEN "NONE" ELSE "OPEN",
                          return    |-> IF returnIt THEN Len(returns') ELSE 0]
    OBVIOUS
  <2>3. row \in Check /\ row.return # 0 => row.return \in DOMAIN returns' /\ returns'[row.return].claimed
    BY <1>2, <1>5, <2>2 DEF Check
  <2>4. row \in Check /\ row.receipt = r
    BY <1>2, <1>5, <2>2 DEF Check
  <2>5. checks' = Append(checks, row)
    BY <1>1, <1>4, <2>1, <2>2 DEF SaveCheck
  <2>6. ChecksOK(checks, returns')
    BY <1>5, ChecksKeepReturns DEF PurchasingInductive
  <2>7. ChecksOK(checks', returns')
    BY <2>3, <2>4, <2>5, <2>6, CheckAdded
  <2>8. checks \in Seq(Check)
    BY <2>6 DEF ChecksOK
  <2>9. /\ checks' # <<>> /\ checks'[Len(checks')] = row
        /\ DOMAIN checks' = DOMAIN checks \cup {Len(checks')}
        /\ \A c \in DOMAIN checks : checks'[c] = checks[c]
    BY <2>4, <2>5, <2>8, RowAdded
  <2> QED
    BY <2>4, <2>7, <2>9
<1>7. /\ jobs' = [jobs EXCEPT ![w] = Idle] /\ UNCHANGED <<invoices, ledger>>
      /\ currentStock' \in Nat /\ order' \in SavedOrder(jobs[w].read, jobs[w].new)
  BY DEF SaveCheck, Finish, goods, PurchasingInductive
<1>8. OrderOK(order', receipts', checks', invoices')
  BY <1>2, <1>3, <1>6, <1>7, OrderOfCheck
<1>10. ReceiptsOK(receipts', checks', ledger')
  <2>1. ReceiptsOK(receipts, checks, ledger) /\ ledger' = ledger
    BY <1>7 DEF PurchasingInductive
  <2>2. ~ Unchecked(r, checks')
    BY <1>6 DEF Unchecked
  <2>3. \A k \in DOMAIN receipts : Unchecked(k, checks') => Unchecked(k, checks)
    BY <1>6 DEF Unchecked
  <2> QED
    BY <1>3, <2>1, <2>2, <2>3, ReceiptsChecked
<1>9. RowsStay(jobs, w, receipts, receipts', checks, checks')
  <2>1. \A v \in Workers : jobs[v].op = "reverse" => jobs[v].receipt \in DOMAIN receipts
    BY PurchasingJobOf DEF RowsKnown
  <2> QED
    BY <1>3, <1>6, <2>1 DEF RowsStay
<1> QED
  BY <1>5, <1>6, <1>7, <1>8, <1>9, <1>10, IdlePurchasing, PurchasingStepInductive

(* Sending a claim and resolving an exception. *)
LEMMA SaveOutcomeInductive ==
    ASSUME PurchasingInductive, NEW w \in Workers,
           jobs[w].op \in {"saveClaim", "saveResolution"},
           NEW exception \in {"OPEN", "CLOSED"}, NEW claim \in {"SENT", "RESOLVED", "CANCELLED"},
           NEW status \in {"SENT", "SETTLED"}, SaveOutcome(w, exception, claim, status)
    PROVE  PurchasingInductive'
<1>1. PICK c : c = jobs[w].check
  OBVIOUS
<1>2. /\ c \in DOMAIN checks /\ checks[c] \in Check /\ checks \in Seq(Check)
      /\ receipts \in Seq(Receipt)
  BY <1>1, PurchasingJobOf, PurchasingRows DEF RowsKnown
<1>3. PICK n : n = checks[c].return
  OBVIOUS
<1>4. /\ checks' = [checks EXCEPT ![c].exception = exception, ![c].claim = claim]
      /\ returns' = IF n = 0 THEN returns ELSE [returns EXCEPT ![n].status = status]
      /\ order' \in SavedOrder(jobs[w].read, jobs[w].new)
      /\ jobs' = [jobs EXCEPT ![w] = Idle]
      /\ UNCHANGED <<receipts, invoices, currentStock, ledger>>
  BY <1>1, <1>3 DEF SaveOutcome, Finish, goods
<1>5. /\ ReturnsOK(returns', ledger) /\ DOMAIN returns' = DOMAIN returns
      /\ \A m \in DOMAIN returns : returns'[m].claimed = returns[m].claimed
  <2>0. ReturnsOK(returns, ledger) /\ returns \in Seq(Return) /\ ChecksOK(checks, returns)
    BY DEF PurchasingInductive, ReturnsOK
  <2>1. CASE n = 0
    BY <1>4, <2>0, <2>1
  <2>2. CASE n # 0
    <3>1. n \in DOMAIN returns /\ returns[n].claimed
      BY <1>2, <1>3, <2>0, <2>2 DEF ChecksOK
    <3>2. returns' = [returns EXCEPT ![n].status = status]
      BY <1>4, <2>2
    <3>3. PICK row : row = [returns[n] EXCEPT !.status = status]
      OBVIOUS
    <3>4. /\ row \in Return /\ returns[n] \in Return /\ returns' = [returns EXCEPT ![n] = row]
          /\ row.claimed = returns[n].claimed
      <4>1. returns[n] \in Return
        BY <2>0, <3>1
      <4>2. row \in Return /\ row.claimed = returns[n].claimed
        BY <3>3, <4>1, ReturnWithStatus
      <4> QED
        BY <3>2, <3>3, <4>1, <4>2
    <3>5. /\ DOMAIN returns' = DOMAIN returns
          /\ returns'[n] = row /\ \A m \in DOMAIN returns \ {n} : returns'[m] = returns[m]
      BY <2>0, <3>1, <3>4, PurchaseRowReplaced
    <3>6. StillMoved(returns[n], row)
      BY <3>1, <3>4 DEF StillMoved
    <3>7. ReturnsOK(returns', ledger)
      BY <2>0, <3>1, <3>4, <3>6, ReturnChanged
    <3> QED
      BY <3>4, <3>5, <3>7
  <2> QED
    BY <2>1, <2>2
<1>6. /\ ChecksOK(checks', returns') /\ DOMAIN checks' = DOMAIN checks /\ checks' # <<>>
      /\ \A d \in DOMAIN checks : checks'[d].receipt = checks[d].receipt
  <2>1. ASSUME NEW x \in Check, NEW y, y = [x EXCEPT !.exception = exception, !.claim = claim]
        PROVE  y \in Check /\ y.return = x.return /\ y.receipt = x.receipt
    BY <2>1 DEF Check
  <2>2. PICK row : row = [checks[c] EXCEPT !.exception = exception, !.claim = claim]
    OBVIOUS
  <2>3. row \in Check /\ row.return = checks[c].return /\ row.receipt = checks[c].receipt
    BY <1>2, <2>1, <2>2
  <2>4. checks' = [checks EXCEPT ![c] = row]
    BY <1>4, <2>2
  <2>5. ChecksOK(checks, returns')
    BY <1>5, ChecksKeepReturns DEF PurchasingInductive
  <2>6. ChecksOK(checks', returns')
    BY <1>2, <2>3, <2>4, <2>5, CheckChanged
  <2>7. DOMAIN checks' = DOMAIN checks
    BY <2>4
  <2>8. checks' # <<>>
    BY <1>2, <2>7
  <2>9. checks'[c] = row /\ \A d \in DOMAIN checks \ {c} : checks'[d] = checks[d]
    BY <1>2, <2>3, <2>4, PurchaseRowReplaced
  <2> QED
    BY <2>3, <2>6, <2>7, <2>8, <2>9
<1>7. OrderOK(order', receipts', checks', invoices')
  BY <1>2, <1>4, <1>6, OrderOfCheck
<1>8. RowsStay(jobs, w, receipts, receipts', checks, checks')
  BY <1>4, <1>6 DEF RowsStay
<1>9. ReturnsOK(returns', ledger') /\ currentStock' \in Nat
  BY <1>4, <1>5 DEF PurchasingInductive
<1>10. ReceiptsOK(receipts', checks', ledger')
  <2>1. ReceiptsOK(receipts, checks, ledger) /\ ledger' = ledger /\ receipts' = receipts
    BY <1>4 DEF PurchasingInductive
  <2>2. \A k \in DOMAIN receipts : Unchecked(k, checks') => Unchecked(k, checks)
    BY <1>6 DEF Unchecked
  <2> QED
    BY <2>1, <2>2, ReceiptsChecked
<1> QED
  BY <1>4, <1>6, <1>7, <1>8, <1>9, <1>10, IdlePurchasing, PurchasingStepInductive

LEMMA ExceptionsInductive ==
    ASSUME PurchasingInductive, NEW w \in Workers, SendClaim(w) \/ ResolveException(w)
    PROVE  PurchasingInductive'
<1>1. CASE SendClaim(w)
  BY <1>1, SaveOutcomeInductive DEF SendClaim
<1>2. CASE ResolveException(w)
  <2>1. jobs[w].claim \in {"SENT", "RESOLVED", "CANCELLED"}
    BY <1>2, PurchasingJobOf, PurchasingJobFields DEF ResolveException
  <2> QED
    BY <1>2, <2>1, SaveOutcomeInductive DEF ResolveException
<1> QED
  BY <1>1, <1>2

-----------------------------------------------------------------------------
(* Every step                                                              *)

LEMMA OrderingInductive ==
    ASSUME PurchasingInductive, NEW w \in Workers, Ordering(w)
    PROVE  PurchasingInductive'
<1>1. CASE Sell(w)
  BY <1>1, SellInductive
<1>2. CASE \/ CancelOrder(w) \/ \E status \in {"SENT", "CANCELLED"} : DecideOrder(w, status)
           \/ \E i \in DOMAIN invoices, active \in BOOLEAN : UpdateInvoiceStatus(w, i, active)
  BY <1>2, OrderEditsInductive
<1>3. CASE \E q \in 1 .. Ordered : CreateInvoice(w, q)
  BY <1>3, CreateInvoiceInductive
<1> QED
  BY <1>1, <1>2, <1>3 DEF Ordering

LEMMA ReceivingInductive ==
    ASSUME PurchasingInductive, NEW w \in Workers, Receiving(w)
    PROVE  PurchasingInductive'
<1>1. CASE \E q \in 1 .. Ordered : \E rejected \in 0 .. q : CreateReceipt(w, q, rejected)
  BY <1>1, CreateReceiptInductive
<1>2. CASE \E r \in DOMAIN receipts : LockReceipt(w, r)
  BY <1>2, OrderReadersInductive
<1>3. CASE ReverseReceipt(w)
  BY <1>3, ReverseReceiptInductive
<1> QED
  BY <1>1, <1>2, <1>3 DEF Receiving

LEMMA ReturningInductive ==
    ASSUME PurchasingInductive, NEW w \in Workers, Returning(w)
    PROVE  PurchasingInductive'
<1>1. CASE \E q \in 1 .. Ordered : ValidateReturnItems(w, q)
  BY <1>1, OrderReadersInductive
<1>2. CASE CreateReturn(w)
  BY <1>2, CreateReturnInductive
<1>3. CASE \E n \in DOMAIN returns : SendReturn(w, n)
  BY <1>3, SendReturnInductive
<1>4. CASE \E n \in DOMAIN returns : \E next \in {"PENDING_VENDOR", "SETTLED", "CANCELLED"} :
               UpdateReturn(w, n, next)
  BY <1>4, UpdateReturnInductive
<1> QED
  BY <1>1, <1>2, <1>3, <1>4 DEF Returning

LEMMA CheckingInductive ==
    ASSUME PurchasingInductive, NEW w \in Workers, Checking(w)
    PROVE  PurchasingInductive'
<1>1. CASE \E r \in {0} \cup DOMAIN receipts, rejected \in 0 .. Ordered :
               \E result \in {"PASSED", "CONDITIONAL", "FAILED"} :
                   ReadForCheck(w, r, rejected, result)
  BY <1>1, ReadForCheckInductive
<1>2. CASE \E c \in DOMAIN checks :
               \/ ReadForClaim(w, c)
               \/ \E claim \in {"RESOLVED", "CANCELLED"} : ReadForResolution(w, c, claim)
  BY <1>2, ExceptionReadersInductive
<1>3. CASE SaveCheck(w)
  BY <1>3, SaveCheckInductive
<1>4. CASE SendClaim(w) \/ ResolveException(w)
  BY <1>4, ExceptionsInductive
<1> QED
  BY <1>1, <1>2, <1>3, <1>4 DEF Checking

LEMMA PurchasingNextInductive ==
    PurchasingInductive /\ [PurchasingNext]_purchasingVars => PurchasingInductive'
<1> SUFFICES ASSUME PurchasingInductive, [PurchasingNext]_purchasingVars
             PROVE  PurchasingInductive'
  OBVIOUS
<1>1. CASE PurchasingNext
  <2>1. PICK w \in Workers : \/ Ordering(w) \/ Receiving(w) \/ Returning(w)
                             \/ Checking(w) \/ AbandonPurchasing(w)
    BY <1>1 DEF PurchasingNext, PurchasingStep
  <2> QED
    BY <2>1, OrderingInductive, ReceivingInductive, ReturningInductive, CheckingInductive,
       OrderReadersInductive
<1>2. CASE UNCHANGED purchasingVars
  BY <1>2 DEF purchasingVars, goods, PurchasingInductive
<1> QED
  BY <1>1, <1>2

LEMMA PurchasingInitInductive == PurchasingInit => PurchasingInductive
<1> SUFFICES ASSUME PurchasingInit PROVE PurchasingInductive
  OBVIOUS
<1>1. /\ order = [status |-> "SENT", received |-> 0] /\ receipts = <<>> /\ checks = <<>>
      /\ returns = <<>> /\ invoices = <<>> /\ ledger = <<>> /\ currentStock = OpeningStock
      /\ jobs = [w \in Workers |-> Idle]
  BY DEF PurchasingInit
<1>2. DeliveredBy(receipts) = 0
  BY <1>1, DeliveredNothing
<1>3. OrderOK(order, receipts, checks, invoices)
  BY <1>1, <1>2, OrderedAssumption DEF OrderOK, Order
<1>4. ChecksOK(checks, returns) /\ ReturnsOK(returns, ledger)
  BY <1>1 DEF ChecksOK, ReturnsOK, MovesOf
<1>6. ReceiptsOK(receipts, checks, ledger)
  BY <1>1, MovedByNothing DEF ReceiptsOK
<1>5. PurchasingJobsOK(jobs, receipts, checks)
  BY <1>1, IdlePurchasing DEF PurchasingJobsOK, OneReverser
<1> QED
  BY <1>1, <1>3, <1>4, <1>5, <1>6, OpeningStockAssumption DEF PurchasingInductive

(* Receipts, checks, returns and requests in progress keep agreeing.       *)
THEOREM PurchasingInvariant == PurchasingSpec => []PurchasingInductive
BY PurchasingInitInductive, PurchasingNextInductive, PTL DEF PurchasingSpec

(* The rows of a purchase order stay rows, and its stock a natural number. *)
THEOREM PurchasingTypeCorrect == PurchasingSpec => []PurchasingTypeOK
<1>1. PurchasingInductive /\ overlap \in Overlap => PurchasingTypeOK
  BY DEF PurchasingTypeOK, PurchasingInductive, OrderOK, ChecksOK, ReturnsOK, PurchasingJobsOK,
         Movement
<1>2. PurchasingInit => overlap \in Overlap
  BY DEF PurchasingInit
<1>3. overlap \in Overlap /\ [PurchasingNext]_purchasingVars => (overlap \in Overlap)'
  BY DEF PurchasingNext, purchasingVars
<1> QED
  BY <1>1, <1>2, <1>3, PurchasingInvariant, PTL DEF PurchasingSpec

(* Until a quality check recalculates the order, it has received what its  *)
(* completed receipts brought in, and no more than was ordered, however    *)
(* receipts, reversals, invoices and decisions on the order overlap.       *)
THEOREM ReceivedAsDelivered == PurchasingSpec => []ReceivedIsDelivered
<1>1. PurchasingInductive => ReceivedIsDelivered
  <2>1. Delivered = DeliveredBy(receipts)
    BY DEF Delivered, DeliveredBy
  <2> QED
    BY <2>1 DEF PurchasingInductive, OrderOK, ReceivedIsDelivered
<1> QED
  BY <1>1, PurchasingInvariant, PTL

(* What moved the stock for a receipt is what it brought in, and nothing   *)
(* once it is reversed, until a quality check changes its line: for any    *)
(* number of receipts and of users who reverse them.                       *)
THEOREM ReceiptMovesAsBrought == PurchasingSpec => []ReceiptMovesSettle
<1>1. PurchasingInductive => ReceiptMovesSettle
  <2> SUFFICES ASSUME PurchasingInductive, NEW r \in DOMAIN receipts,
                      \A c \in DOMAIN checks : checks[c].receipt # r
               PROVE  MovedFor(r) = BroughtIn(receipts[r])
    BY DEF ReceiptMovesSettle
  <2>1. MovedFor(r) = MovedBy(ledger, r)
    BY DEF MovedFor, MovedBy
  <2> QED
    BY <2>1 DEF PurchasingInductive, ReceiptsOK, Unchecked, Settles
<1> QED
  BY <1>1, PurchasingInvariant, PTL

(* A return that no claim is about leaves the warehouse once, when it is   *)
(* sent, for any number of returns and of users who overlap.               *)
THEOREM ReturnMovesOnce == PurchasingSpec => []ReturnMovedOnce
<1>1. PurchasingInductive => ReturnMovedOnce
  <2> SUFFICES ASSUME PurchasingInductive PROVE ReturnMovedOnce
    OBVIOUS
  <2> DEFINE Unclaimed == {m \in DOMAIN returns : ~ returns[m].claimed}
             Drawn     == {<<"return", n>> : n \in Unclaimed}
             phase     == [ref \in Drawn |-> ReturnPhase(returns[ref[2]])]
             movers    == [i \in DOMAIN ledger |-> ledger[i].reference]
  <2>1. \A n \in Unclaimed : SentOnce(returns[n], MovesOf(ledger, n))
    BY DEF PurchasingInductive, ReturnsOK
  <2>2. ASSUME NEW i \in DOMAIN ledger, ledger[i].reference \in Drawn
        PROVE  /\ ReturnPhase(returns[ledger[i].reference[2]]) = "applied"
               /\ \A j \in DOMAIN ledger : ledger[j].reference = ledger[i].reference => i = j
    <3>1. PICK n \in Unclaimed : ledger[i].reference = <<"return", n>>
      BY <2>2
    <3>2. /\ i \in MovesOf(ledger, n)
          /\ \A j \in DOMAIN ledger :
                 ledger[j].reference = ledger[i].reference => j \in MovesOf(ledger, n)
      BY <3>1 DEF MovesOf
    <3>3. /\ returns[n].status \in {"SENT", "SETTLED"}
          /\ \A k, j \in MovesOf(ledger, n) : k = j
      BY <2>1, <3>2 DEF SentOnce
    <3>4. ReturnPhase(returns[n]) = "applied" /\ ledger[i].reference[2] = n
      BY <3>1, <3>3 DEF ReturnPhase
    <3> QED
      BY <3>2, <3>3, <3>4
  <2>3. /\ \A i \in DOMAIN movers : movers[i] \in DOMAIN phase => phase[movers[i]] = "applied"
        /\ \A i, j \in DOMAIN movers :
               movers[i] = movers[j] /\ movers[i] \in DOMAIN phase => i = j
    BY <2>2
  <2> QED
    BY <2>3 DEF ReturnMovedOnce, Promise!MovedOnce
<1> QED
  BY <1>1, PurchasingInvariant, PTL

-----------------------------------------------------------------------------
(* PAYABLES                                                                *)

(* The inductive invariant, in parts that name the state they speak of     *)

BatchRow == [items : UNION {[ps -> Amounts] : ps \in SUBSET Nat}, status : BatchStatus]

BatchesOK(bs, pays) ==
    /\ bs \in Seq(BatchRow)
    /\ \A b \in DOMAIN bs : DOMAIN bs[b].items \subseteq DOMAIN pays

LinesOK(lines, revs, pays, bs) ==
    /\ lines \in Seq(Settlement)
    /\ \A s \in DOMAIN lines : lines[s].payable \in DOMAIN pays /\ lines[s].batch \in DOMAIN bs
    /\ revs \in Seq(DOMAIN lines)

RequestsOK(reqs, bs, lines) ==
    /\ reqs \in Seq(Request)
    /\ \A r \in DOMAIN reqs : /\ reqs[r].kind = "batch" => reqs[r].of \in DOMAIN bs
                              /\ reqs[r].kind = "reversal" => reqs[r].of \in DOMAIN lines

DecisionsOK(decs, reqs) ==
    decs \in Seq(Decision) /\ \A d \in DOMAIN decs : decs[d].req \in DOMAIN reqs

(* What a line that stands has paid of payable p, and what they all have.  *)
Standing(line, p) == IF line.payable = p /\ ~ line.reversed THEN line.amount ELSE 0

SettledBy(lines, p) == SumTo([s \in 1 .. Len(lines) |-> Standing(lines[s], p)], Len(lines))

PaidByTransaction(txs, p) == \E x \in DOMAIN txs : txs[x].payable = p /\ txs[x].status = "PAID"

PaidOK(pays, lines, txs) ==
    /\ pays \in Seq(Payable) /\ txs \in Seq(Transaction)
    /\ \A p \in DOMAIN pays :
          PaidByTransaction(txs, p) \/ pays[p].entered \/ pays[p].paid = SettledBy(lines, p)

(* What a request in progress has read exists, and a decision it has heard *)
(* or saves was announced.                                                 *)
DecisionKnown(job, pays, bs, reqs, decs) ==
    /\ job.op = "edit" => job.payable \in DOMAIN pays
    /\ job.op \in {"submit", "saveSubmitted", "saveDecided", "flag"} => job.batch \in DOMAIN bs
    /\ job.op \in {"act", "withdraw"} => job.req \in DOMAIN reqs
    /\ job.op \in {"hear", "saveDecided"} => job.decision \in DOMAIN decs
    /\ job.op = "saveDecided" => /\ decs[job.decision].outcome = job.status
                                 /\ reqs[decs[job.decision].req].kind = "batch"
                                 /\ reqs[decs[job.decision].req].of = job.batch

PayablesJobsOK(js, pays, bs, reqs, decs) ==
    /\ js \in [Workers -> PayablesJob]
    /\ \A w \in Workers : DecisionKnown(js[w], pays, bs, reqs, decs)

PayablesInductive ==
    /\ BatchesOK(batches, payables)
    /\ LinesOK(settlements, reversals, payables, batches)
    /\ RequestsOK(requests, batches, settlements)
    /\ DecisionsOK(decisions, requests)
    /\ PaidOK(payables, settlements, transactions)
    /\ PayablesJobsOK(jobs, payables, batches, requests, decisions)

(* Served one at a time, what was read still holds when it is used, and    *)
(* nothing was paid, or may still be, on a payable that is void.           *)
CopyCurrent(job, pays, bs) ==
    /\ job.op = "edit" => pays[job.payable].status # "VOID"
    /\ job.op \in {"submit", "saveSubmitted"} => bs[job.batch].status = "DRAFT"
    /\ job.op = "saveDecided" => bs[job.batch].status = "SUBMITTED"

VoidsOK(pays, bs) ==
    \A p \in DOMAIN pays : pays[p].status = "VOID" =>
        /\ pays[p].paid = 0
        /\ \A b \in DOMAIN bs : OpenBatch(bs[b]) => p \notin DOMAIN bs[b].items

PayablesSerial ==
    ~ overlap =>
        /\ \A v, w \in Workers : jobs[v] # Idle /\ jobs[w] # Idle => v = w
        /\ \A w \in Workers : CopyCurrent(jobs[w], payables, batches)
        /\ VoidsOK(payables, batches)

-----------------------------------------------------------------------------
(* Rows                                                                    *)

LEMMA BatchRowFacts ==
    ASSUME NEW row \in BatchRow
    PROVE  /\ DOMAIN row.items \subseteq Nat /\ row.status \in BatchStatus
           /\ \A p \in DOMAIN row.items : row.items[p] \in Amounts
           /\ DOMAIN row = {"items", "status"}
<1>1. /\ row.items \in UNION {[ps -> Amounts] : ps \in SUBSET Nat} /\ row.status \in BatchStatus
      /\ DOMAIN row = {"items", "status"}
  BY DEF BatchRow
<1>2. PICK ps \in SUBSET Nat : row.items \in [ps -> Amounts]
  BY <1>1
<1> QED
  BY <1>1, <1>2

LEMMA BatchRowMade ==
    ASSUME NEW ps \in SUBSET Nat, NEW items \in [ps -> Amounts], NEW status \in BatchStatus,
           NEW row, row = [items |-> items, status |-> status]
    PROVE  row \in BatchRow
<1>1. items \in UNION {[qs -> Amounts] : qs \in SUBSET Nat}
  OBVIOUS
<1> QED
  BY <1>1 DEF BatchRow

LEMMA BatchRowSaved ==
    ASSUME NEW row \in BatchRow, NEW status \in BatchStatus,
           NEW new, new = [row EXCEPT !.status = status]
    PROVE  new \in BatchRow /\ new.items = row.items /\ new.status = status
<1> DEFINE I == UNION {[ps -> Amounts] : ps \in SUBSET Nat}
<1> HIDE DEF I
<1>1. BatchRow = [items : I, status : BatchStatus]
  BY DEF BatchRow, I
<1> QED
  BY <1>1

(* A request stays what it is about, and a decision what it is.            *)
Grown(pays, pays2, bs, bs2, reqs, reqs2, decs, decs2) ==
    /\ DOMAIN pays \subseteq DOMAIN pays2 /\ DOMAIN bs \subseteq DOMAIN bs2
    /\ DOMAIN reqs \subseteq DOMAIN reqs2 /\ DOMAIN decs \subseteq DOMAIN decs2
    /\ \A r \in DOMAIN reqs : reqs2[r].kind = reqs[r].kind /\ reqs2[r].of = reqs[r].of
    /\ \A d \in DOMAIN decs : decs2[d] = decs[d]

LEMMA DecisionStaysKnown ==
    ASSUME NEW pays, NEW pays2, NEW bs, NEW bs2, NEW reqs, NEW reqs2, NEW decs, NEW decs2,
           Grown(pays, pays2, bs, bs2, reqs, reqs2, decs, decs2), DecisionsOK(decs, reqs),
           NEW job, DecisionKnown(job, pays, bs, reqs, decs)
    PROVE  DecisionKnown(job, pays2, bs2, reqs2, decs2)
<1>1. job.op = "edit" => job.payable \in DOMAIN pays2
  BY DEF DecisionKnown, Grown
<1>2. job.op \in {"submit", "saveSubmitted", "saveDecided", "flag"} => job.batch \in DOMAIN bs2
  BY DEF DecisionKnown, Grown
<1>3. job.op \in {"act", "withdraw"} => job.req \in DOMAIN reqs2
  BY DEF DecisionKnown, Grown
<1>4. job.op \in {"hear", "saveDecided"} => /\ job.decision \in DOMAIN decs
                                            /\ job.decision \in DOMAIN decs2
                                            /\ decs2[job.decision] = decs[job.decision]
  BY DEF DecisionKnown, Grown
<1>5. job.op = "saveDecided" => /\ decs2[job.decision].outcome = job.status
                               /\ reqs2[decs2[job.decision].req].kind = "batch"
                               /\ reqs2[decs2[job.decision].req].of = job.batch
  BY <1>4 DEF DecisionKnown, Grown, DecisionsOK
<1> QED
  BY <1>1, <1>2, <1>3, <1>4, <1>5 DEF DecisionKnown

LEMMA BatchesStay ==
    ASSUME NEW pays, NEW pays2, NEW bs, DOMAIN pays \subseteq DOMAIN pays2, BatchesOK(bs, pays)
    PROVE  BatchesOK(bs, pays2)
BY DEF BatchesOK

LEMMA LinesStay ==
    ASSUME NEW pays, NEW pays2, NEW bs, NEW bs2, DOMAIN pays \subseteq DOMAIN pays2,
           DOMAIN bs \subseteq DOMAIN bs2,
           NEW lines, NEW revs, LinesOK(lines, revs, pays, bs)
    PROVE  LinesOK(lines, revs, pays2, bs2)
BY DEF LinesOK

(* Requests go on being about batches and lines that exist.                *)
LEMMA RequestsStay ==
    ASSUME NEW reqs, NEW bs, NEW bs2, NEW lines, NEW lines2, RequestsOK(reqs, bs, lines),
           DOMAIN bs \subseteq DOMAIN bs2, DOMAIN lines \subseteq DOMAIN lines2
    PROVE  RequestsOK(reqs, bs2, lines2)
BY DEF RequestsOK

(* Amounts and statuses change, what was paid does not, unless a clerk     *)
(* enters it.                                                              *)
LEMMA PaidStays ==
    ASSUME NEW pays, NEW pays2, NEW lines, NEW txs, PaidOK(pays, lines, txs),
           pays2 \in Seq(Payable), DOMAIN pays \subseteq DOMAIN pays2,
           \A p \in DOMAIN pays :
               \/ pays2[p].entered
               \/ pays2[p].paid = pays[p].paid /\ pays2[p].entered = pays[p].entered,
           \A p \in DOMAIN pays2 \ DOMAIN pays :
               pays2[p].entered \/ pays2[p].paid = SettledBy(lines, p)
    PROVE  PaidOK(pays2, lines, txs)
<1>1. ASSUME NEW p \in DOMAIN pays2
      PROVE  \/ PaidByTransaction(txs, p) \/ pays2[p].entered
             \/ pays2[p].paid = SettledBy(lines, p)
  BY DEF PaidOK
<1> QED
  BY <1>1 DEF PaidOK

-----------------------------------------------------------------------------
(* Requests in progress                                                    *)

LEMMA PayablesJobFields ==
    ASSUME NEW job \in PayablesJob
    PROVE  /\ job.op = "edit" => /\ job.payable \in Nat /\ job.status \in {"OPEN", "PAID"}
                                 /\ job.amount \in Amounts \cup {NotGiven}
                                 /\ job.paid \in Entered \cup {NotGiven}
           /\ job.op \in {"submit", "saveSubmitted", "saveDecided", "flag"} => job.batch \in Nat
           /\ job.op = "saveDecided" => job.status \in Outcomes /\ job.decision \in Nat
           /\ job.op \in {"act", "withdraw"} => job.req \in Nat
           /\ job.op = "hear" => job.decision \in Nat
           /\ job.op # "idle" => job # Idle
<1>1. job.op = "edit" => /\ job.payable \in Nat /\ job.status \in {"OPEN", "PAID"}
                         /\ job.amount \in Amounts \cup {NotGiven}
                         /\ job.paid \in Entered \cup {NotGiven}
  BY DEF PayablesJob, Idle
<1>2. job.op \in {"submit", "saveSubmitted", "saveDecided", "flag"} => job.batch \in Nat
  BY DEF PayablesJob, Idle
<1>3. job.op = "saveDecided" => job.status \in Outcomes /\ job.decision \in Nat
  BY DEF PayablesJob, Idle
<1>4. /\ job.op \in {"act", "withdraw"} => job.req \in Nat
      /\ job.op = "hear" => job.decision \in Nat
  BY DEF PayablesJob, Idle
<1>5. job.op # "idle" => job # Idle
  BY DEF Idle
<1> QED
  BY <1>1, <1>2, <1>3, <1>4, <1>5

LEMMA IdlePayables ==
    ASSUME NEW pays, NEW bs, NEW reqs, NEW decs
    PROVE  /\ Idle \in PayablesJob /\ DecisionKnown(Idle, pays, bs, reqs, decs)
           /\ CopyCurrent(Idle, pays, bs)
BY DEF PayablesJob, Idle, DecisionKnown, CopyCurrent

LEMMA PayablesJobOf ==
    ASSUME PayablesInductive, NEW w \in Workers
    PROVE  jobs[w] \in PayablesJob /\ DecisionKnown(jobs[w], payables, batches, requests, decisions)
BY DEF PayablesInductive, PayablesJobsOK

(* A request that takes a single transaction leaves its worker idle.       *)
LEMMA AtOnceIdle ==
    ASSUME PayablesInductive, NEW w \in Workers, AtOnce(w)
    PROVE  jobs' = [jobs EXCEPT ![w] = Idle]
<1>1. jobs \in [Workers -> PayablesJob] /\ jobs[w] = Idle /\ jobs' = jobs
  BY DEF PayablesInductive, PayablesJobsOK, AtOnce
<1> QED
  BY <1>1

(* Every step grows the tables.                                            *)
PayablesGrow ==
    Grown(payables, payables', batches, batches', requests, requests', decisions, decisions')

LEMMA PayablesStepInductive ==
    ASSUME PayablesInductive, NEW w \in Workers, NEW job \in PayablesJob,
           jobs' = [jobs EXCEPT ![w] = job],
           DecisionKnown(job, payables', batches', requests', decisions'),
           Grown(payables, payables', batches, batches', requests, requests', decisions, decisions'),
           BatchesOK(batches', payables'),
           LinesOK(settlements', reversals', payables', batches'),
           RequestsOK(requests', batches', settlements'), DecisionsOK(decisions', requests'),
           PaidOK(payables', settlements', transactions')
    PROVE  PayablesInductive' /\ PayablesGrow
<1>1. PICK js2, pays2, bs2, reqs2, decs2 :
          /\ js2 = jobs' /\ pays2 = payables' /\ bs2 = batches' /\ reqs2 = requests'
          /\ decs2 = decisions'
  OBVIOUS
<1>2. js2 \in [Workers -> PayablesJob] /\ \A v \in Workers : js2[v] = IF v = w THEN job ELSE jobs[v]
  BY <1>1 DEF PayablesInductive, PayablesJobsOK
<1>3. ASSUME NEW v \in Workers PROVE DecisionKnown(js2[v], pays2, bs2, reqs2, decs2)
  <2>1. CASE v = w
    BY <1>1, <1>2, <2>1
  <2>2. CASE v # w
    <3>1. DecisionKnown(jobs[v], payables, batches, requests, decisions) /\ js2[v] = jobs[v]
      BY <1>2, <2>2, PayablesJobOf
    <3>2. /\ Grown(payables, pays2, batches, bs2, requests, reqs2, decisions, decs2)
          /\ DecisionsOK(decisions, requests)
      BY <1>1 DEF PayablesInductive
    <3> QED
      BY <3>1, <3>2, DecisionStaysKnown
  <2> QED
    BY <2>1, <2>2
<1>4. PayablesJobsOK(js2, pays2, bs2, reqs2, decs2)
  BY <1>2, <1>3 DEF PayablesJobsOK
<1> QED
  BY <1>1, <1>4 DEF PayablesInductive, PayablesGrow

(* Nothing but requests in progress changes.                               *)
LEMMA OnlyPayablesJob ==
    ASSUME PayablesInductive, NEW w \in Workers, NEW job \in PayablesJob,
           jobs' = [jobs EXCEPT ![w] = job],
           DecisionKnown(job, payables, batches, requests, decisions),
           UNCHANGED <<payables, batches, settlements, reversals, approvals, transactions>>
    PROVE  PayablesInductive' /\ PayablesGrow
<1>1. Grown(payables, payables', batches, batches', requests, requests', decisions, decisions')
  BY DEF Grown, approvals
<1> QED
  BY <1>1, PayablesStepInductive DEF PayablesInductive, approvals

(* Payables change, not what was paid of them, unless a clerk enters it.   *)
LEMMA PayablesChange ==
    ASSUME PayablesInductive, NEW w \in Workers, jobs' = [jobs EXCEPT ![w] = Idle],
           payables' \in Seq(Payable), DOMAIN payables \subseteq DOMAIN payables',
           \A p \in DOMAIN payables :
               \/ payables'[p].entered
               \/ /\ payables'[p].paid = payables[p].paid
                  /\ payables'[p].entered = payables[p].entered,
           \A p \in DOMAIN payables' \ DOMAIN payables :
               payables'[p].entered \/ payables'[p].paid = SettledBy(settlements, p),
           UNCHANGED <<batches, settlements, reversals, approvals, transactions>>
    PROVE  PayablesInductive' /\ PayablesGrow
<1>1. PICK pays2 : pays2 = payables'
  OBVIOUS
<1>2. Grown(payables, pays2, batches, batches, requests, requests, decisions, decisions)
  BY <1>1 DEF Grown
<1>3. BatchesOK(batches, pays2) /\ LinesOK(settlements, reversals, pays2, batches)
  BY <1>1, BatchesStay, LinesStay DEF PayablesInductive
<1>4. PaidOK(payables, settlements, transactions)
  BY DEF PayablesInductive
<1>5. PaidOK(pays2, settlements, transactions)
  BY <1>1, <1>4, PaidStays
<1> QED
  BY <1>1, <1>2, <1>3, <1>5, IdlePayables, PayablesStepInductive DEF PayablesInductive, approvals

(* Batches change.                                                         *)
LEMMA BatchesChange ==
    ASSUME PayablesInductive, NEW w \in Workers, NEW job \in PayablesJob,
           jobs' = [jobs EXCEPT ![w] = job],
           DecisionKnown(job, payables, batches', requests, decisions),
           BatchesOK(batches', payables), DOMAIN batches \subseteq DOMAIN batches',
           UNCHANGED <<payables, settlements, reversals, approvals, transactions>>
    PROVE  PayablesInductive' /\ PayablesGrow
<1>1. PICK bs2 : bs2 = batches'
  OBVIOUS
<1>2. Grown(payables, payables, batches, bs2, requests, requests, decisions, decisions)
  BY <1>1 DEF Grown
<1>3. RequestsOK(requests, bs2, settlements) /\ LinesOK(settlements, reversals, payables, bs2)
  BY <1>1, RequestsStay, LinesStay DEF PayablesInductive
<1> QED
  BY <1>1, <1>2, <1>3, PayablesStepInductive DEF PayablesInductive, approvals

(* Requests are added and decided, and decisions announced.                *)
LEMMA RequestsChange ==
    ASSUME PayablesInductive, NEW w \in Workers, NEW job \in PayablesJob,
           jobs' = [jobs EXCEPT ![w] = job],
           DecisionKnown(job, payables, batches, requests', decisions'),
           RequestsOK(requests', batches, settlements), DecisionsOK(decisions', requests'),
           Grown(payables, payables, batches, batches, requests, requests', decisions, decisions'),
           UNCHANGED <<payables, batches, settlements, reversals, transactions>>
    PROVE  PayablesInductive' /\ PayablesGrow
BY PayablesStepInductive DEF PayablesInductive

-----------------------------------------------------------------------------
(* What lines pay                                                          *)

LEMMA StandingNat ==
    ASSUME NEW line \in Settlement, NEW p
    PROVE  Standing(line, p) \in Nat
BY AmountsAssumption DEF Settlement, Standing

LEMMA SettledNat ==
    ASSUME NEW lines \in Seq(Settlement), NEW p
    PROVE  SettledBy(lines, p) \in Nat
<1> DEFINE f == [s \in 1 .. Len(lines) |-> Standing(lines[s], p)]
<1>1. f \in [1 .. Len(lines) -> Nat] /\ Len(lines) \in Nat
  BY StandingNat
<1> HIDE DEF f
<1>2. SumTo(f, Len(lines)) \in Nat
  BY <1>1, SumToNat
<1> QED
  BY <1>2 DEF f, SettledBy

(* Nothing was paid of a payable that no line is about.                    *)
LEMMA NothingSettled ==
    ASSUME NEW lines \in Seq(Settlement), NEW p, \A s \in DOMAIN lines : lines[s].payable # p
    PROVE  SettledBy(lines, p) = 0
<1> DEFINE f == [s \in 1 .. Len(lines) |-> Standing(lines[s], p)]
<1>1. f \in [1 .. Len(lines) -> Int] /\ Len(lines) \in Nat /\ \A s \in 1 .. Len(lines) : f[s] = 0
  BY DEF Standing
<1> HIDE DEF f
<1>2. SumTo(f, Len(lines)) = 0
  BY <1>1, SumToZero
<1> QED
  BY <1>2 DEF f, SettledBy

(* A line is reversed.                                                     *)
LEMMA SettledLess ==
    ASSUME NEW lines, lines \in Seq(Settlement), NEW s \in DOMAIN lines,
           NEW line, line \in Settlement
    PROVE  \A p : SettledBy([lines EXCEPT ![s] = line], p)
                    = SettledBy(lines, p) + (Standing(line, p) - Standing(lines[s], p))
<1> SUFFICES ASSUME NEW p, NEW lines2, lines2 = [lines EXCEPT ![s] = line]
             PROVE  SettledBy(lines2, p)
                      = SettledBy(lines, p) + (Standing(line, p) - Standing(lines[s], p))
  OBVIOUS
<1> DEFINE n == Len(lines)
           f == [k \in 1 .. n |-> Standing(lines[k], p)]
           g == [k \in 1 .. n |-> Standing(lines2[k], p)]
<1>1. /\ lines2 \in Seq(Settlement) /\ Len(lines2) = n /\ lines2[s] = line
      /\ \A k \in DOMAIN lines \ {s} : lines2[k] = lines[k]
      /\ DOMAIN lines = 1 .. n /\ n \in Nat /\ DOMAIN lines2 = DOMAIN lines
  BY PurchaseRowReplaced
<1>2. f \in [1 .. n -> Int] /\ g \in [1 .. n -> Int]
  BY <1>1, StandingNat
<1>3. /\ \A k \in 1 .. n : k # s => g[k] = f[k]
      /\ g[s] = Standing(line, p) /\ f[s] = Standing(lines[s], p) /\ s \in 1 .. n
  BY <1>1
<1>4. SumTo(f, n) = SettledBy(lines, p) /\ SumTo(g, n) = SettledBy(lines2, p)
  BY <1>1 DEF SettledBy
<1>5. n \in Nat
  OBVIOUS
<1> HIDE DEF f, g, n
<1>6. SumTo(g, n) = SumTo(f, n) + (g[s] - f[s])
  BY <1>2, <1>3, <1>5, SumToChange
<1> QED
  BY <1>3, <1>4, <1>6

(* Lines are added.                                                        *)
LEMMA SettledMore ==
    ASSUME NEW lines, NEW more, lines \in Seq(Settlement), more \in Seq(Settlement)
    PROVE  \A p : SettledBy(lines \o more, p) = SettledBy(lines, p) + SettledBy(more, p)
<1> SUFFICES ASSUME NEW p, NEW lines2, lines2 = lines \o more
             PROVE  SettledBy(lines2, p) = SettledBy(lines, p) + SettledBy(more, p)
  OBVIOUS
<1> DEFINE m == Len(lines)
           n == Len(more)
           f == [k \in 1 .. m |-> Standing(lines[k], p)]
           g == [k \in 1 .. n |-> Standing(more[k], p)]
           h == [k \in 1 .. m + n |-> Standing(lines2[k], p)]
<1>1. /\ m \in Nat /\ n \in Nat /\ Len(lines2) = m + n /\ lines2 \in Seq(Settlement)
      /\ \A k \in 1 .. m : lines2[k] = lines[k]
      /\ \A k \in 1 .. n : lines2[m + k] = more[k]
  OBVIOUS
<1>2. f \in [1 .. m -> Int] /\ g \in [1 .. n -> Int] /\ h \in [1 .. m + n -> Int]
  BY <1>1, StandingNat
<1>3. /\ \A k \in 1 .. m : h[k] = f[k]
      /\ \A k \in 1 .. n : h[m + k] = g[k]
  BY <1>1
<1>4. /\ SumTo(f, m) = SettledBy(lines, p) /\ SumTo(g, n) = SettledBy(more, p)
      /\ SumTo(h, m + n) = SettledBy(lines2, p)
  BY <1>1 DEF SettledBy
<1> HIDE DEF f, g, h, m, n
<1>5. SumTo(h, m + n) = SumTo(f, m) + SumTo(g, n)
  BY <1>1, <1>2, <1>3, SumConcat
<1> QED
  BY <1>4, <1>5

(* The lines of a batch pay of each payable what the batch has of it.      *)
LEMMA PaymentLinesOf ==
    ASSUME NEW items, IsFiniteSet(DOMAIN items), DOMAIN items \subseteq Nat,
           \A q \in DOMAIN items : items[q] \in Amounts, items \in [DOMAIN items -> Amounts],
           NEW b \in Nat, b \in DOMAIN batches, batches[b].items = items
    PROVE  /\ PaymentLines(b) \in Seq(Settlement)
           /\ \A s \in DOMAIN PaymentLines(b) : /\ PaymentLines(b)[s].payable \in DOMAIN items
                                                /\ PaymentLines(b)[s].batch = b
           /\ \A p : SettledBy(PaymentLines(b), p) = IF p \in DOMAIN items THEN items[p] ELSE 0
<1> DEFINE D     == DOMAIN items
           n     == Cardinality(D)
           listed == Enumeration(D)
           row(i) == [payable |-> listed[i], batch |-> b, amount |-> items[listed[i]],
                      reversed |-> FALSE]
<1>1. n \in Nat /\ listed \in [1 .. n -> D]
  BY EnumerationFacts
<1>2. PaymentLines(b) = [i \in 1 .. n |-> row(i)]
  BY DEF PaymentLines
<1> HIDE DEF D, n, listed
<1>3. \A i \in 1 .. n : /\ listed[i] \in D /\ listed[i] \in Nat /\ items[listed[i]] \in Amounts
                        /\ row(i) \in Settlement
  BY <1>1 DEF D, Settlement
<1>4. /\ PaymentLines(b) \in Seq(Settlement) /\ Len(PaymentLines(b)) = n
      /\ DOMAIN PaymentLines(b) = 1 .. n
  BY <1>1, <1>2, <1>3
<1>5. ASSUME NEW p PROVE SettledBy(PaymentLines(b), p) = IF p \in D THEN items[p] ELSE 0
  <2> DEFINE f == [q \in D |-> IF q = p THEN items[q] ELSE 0]
             z == [q \in D |-> 0]
  <2>1. f \in [D -> Int] /\ z \in [D -> Int] /\ \A q \in D : z[q] = 0
    BY AmountsAssumption DEF D
  <2>2. SettledBy(PaymentLines(b), p) = SumOver(f, D)
    <3>1. [s \in 1 .. n |-> Standing(PaymentLines(b)[s], p)] = [i \in 1 .. n |-> f[listed[i]]]
      BY <1>2, <1>3 DEF Standing
    <3> QED
      BY <1>4, <3>1 DEF SettledBy, SumOver, n, listed
  <2>3. IsFiniteSet(D)
    BY DEF D
  <2>4. SumOver(z, D) = 0
    BY <2>1, <2>3, SumOverZero
  <2>5. CASE p \in D
    <3>1. f[p] = items[p] /\ z[p] = 0 /\ \A q \in D : q # p => f[q] = z[q]
      BY <2>5
    <3>2. items[p] \in Int
      BY <2>5, AmountsAssumption DEF D
    <3> HIDE DEF f, z
    <3>3. SumOver(f, D) = SumOver(z, D) + (f[p] - z[p])
      BY <2>1, <2>3, <2>5, <3>1, SumOverChange
    <3> QED
      BY <2>2, <2>4, <2>5, <3>1, <3>2, <3>3
  <2>6. CASE p \notin D
    <3>1. \A q \in D : f[q] = 0
      BY <2>6
    <3> HIDE DEF f
    <3>2. SumOver(f, D) = 0
      BY <2>1, <2>3, <3>1, SumOverZero
    <3> QED
      BY <2>2, <2>6, <3>2
  <2> QED
    BY <2>5, <2>6
<1>6. \A s \in DOMAIN PaymentLines(b) : /\ PaymentLines(b)[s].payable \in D
                                        /\ PaymentLines(b)[s].batch = b
  BY <1>2, <1>3, <1>4
<1> QED
  BY <1>4, <1>5, <1>6 DEF D

-----------------------------------------------------------------------------
(* Steps on payables and on batches                                        *)

LEMMA PayableRows ==
    ASSUME PayablesInductive
    PROVE  /\ payables \in Seq(Payable) /\ batches \in Seq(BatchRow) /\ requests \in Seq(Request)
           /\ settlements \in Seq(Settlement) /\ transactions \in Seq(Transaction)
           /\ \A p \in DOMAIN payables : p \in Nat /\ payables[p] \in Payable
           /\ \A b \in DOMAIN batches : b \in Nat /\ batches[b] \in BatchRow
           /\ \A r \in DOMAIN requests : r \in Nat /\ requests[r] \in Request
           /\ \A s \in DOMAIN settlements : s \in Nat /\ settlements[s] \in Settlement
<1>1. /\ payables \in Seq(Payable) /\ batches \in Seq(BatchRow) /\ requests \in Seq(Request)
      /\ settlements \in Seq(Settlement) /\ transactions \in Seq(Transaction)
  BY DEF PayablesInductive, PaidOK, BatchesOK, RequestsOK, LinesOK
<1> QED
  BY <1>1

LEMMA CreatePayableInductive ==
    ASSUME PayablesInductive, NEW w \in Workers, NEW row, CreatePayable(w, row)
    PROVE  PayablesInductive' /\ PayablesGrow
<1>1. row \in Payable /\ (row.entered \/ row.paid = 0)
  <2>1. ASSUME NEW amount \in Nat, NEW paid \in Nat, NEW invoice \in {"none", "PENDING"},
               row = NewPayable(amount, paid, invoice)
        PROVE  row \in Payable /\ (row.entered \/ row.paid = 0)
    <3>1. PICK status : status = StatusOf(paid, amount)
      OBVIOUS
    <3>2. status \in {"OPEN", "PAID"}
      BY <3>1 DEF StatusOf
    <3>3. CASE paid > 0
      <4>1. row = [amount |-> amount, paid |-> paid, entered |-> TRUE, status |-> status,
                   approved |-> FALSE, invoice |-> invoice]
        BY <2>1, <3>1, <3>3 DEF NewPayable
      <4> QED
        BY <3>2, <4>1 DEF Payable
    <3>4. CASE paid = 0
      <4>1. (paid > 0) = FALSE
        BY <3>4
      <4>2. row = [amount |-> amount, paid |-> 0, entered |-> FALSE, status |-> status,
                   approved |-> FALSE, invoice |-> invoice]
        BY <2>1, <3>1, <3>4, <4>1, Zenon DEF NewPayable
      <4> QED
        BY <3>2, <4>2 DEF Payable
    <3> QED
      BY <3>3, <3>4
  <2>2. CASE row \in {NewPayable(amount, paid, "none") : amount \in Amounts, paid \in Entered \cup {0}}
    <3>1. PICK amount \in Amounts, paid \in Entered \cup {0} : row = NewPayable(amount, paid, "none")
      BY <2>2
    <3> QED
      BY <2>1, <3>1, AmountsAssumption, EnteredAssumption
  <2>3. CASE row = NewPayable(Billed, 0, "PENDING")
    BY <2>1, <2>3, BilledAssumption
  <2> QED
    BY <2>2, <2>3 DEF CreatePayable
<1>2. /\ payables' = Append(payables, row) /\ jobs' = [jobs EXCEPT ![w] = Idle]
      /\ UNCHANGED <<batches, settlements, reversals, approvals, transactions>>
  BY AtOnceIdle DEF CreatePayable
<1>3. PICK pays2 : pays2 = payables'
  OBVIOUS
<1>4. /\ pays2 \in Seq(Payable) /\ Len(pays2) \in Nat /\ pays2[Len(pays2)] = row
      /\ DOMAIN pays2 = DOMAIN payables \cup {Len(pays2)}
      /\ \A p \in DOMAIN payables : pays2[p] = payables[p]
  <2>1. payables \in Seq(Payable) /\ pays2 = Append(payables, row)
    BY <1>2, <1>3, PayableRows
  <2> QED
    BY <1>1, <2>1, RowAdded
<1>5. ASSUME NEW p \in DOMAIN pays2 \ DOMAIN payables
      PROVE  pays2[p].entered \/ pays2[p].paid = SettledBy(settlements, p)
  <2>1. \A s \in DOMAIN settlements : settlements[s].payable # p
    BY <1>5 DEF PayablesInductive, LinesOK
  <2>2. SettledBy(settlements, p) = 0
    BY <2>1, PayableRows, NothingSettled
  <2> QED
    BY <1>1, <1>4, <2>2
<1> QED
  BY <1>2, <1>3, <1>4, <1>5, PayablesChange

(* A row is replaced whose paid amount stays, or was entered by a clerk.   *)
LEMMA PayableSaved ==
    ASSUME PayablesInductive, NEW w \in Workers, jobs' = [jobs EXCEPT ![w] = Idle],
           NEW p \in DOMAIN payables, NEW row \in Payable,
           row.entered \/ (row.paid = payables[p].paid /\ row.entered = payables[p].entered),
           payables' = [payables EXCEPT ![p] = row],
           UNCHANGED <<batches, settlements, reversals, approvals, transactions>>
    PROVE  PayablesInductive' /\ PayablesGrow
<1>1. /\ payables' \in Seq(Payable) /\ DOMAIN payables' = DOMAIN payables
      /\ payables'[p] = row /\ \A q \in DOMAIN payables \ {p} : payables'[q] = payables[q]
  BY PayableRows, PurchaseRowReplaced
<1> QED
  BY <1>1, PayablesChange

EditedRow(x, amount, paid, status) == [Written(x, amount, paid) EXCEPT !.status = status]

LEMMA WrittenRow ==
    ASSUME NEW x \in Payable, NEW amount \in Amounts \cup {NotGiven},
           NEW paid \in Entered \cup {NotGiven}, NEW status \in {"OPEN", "PAID"},
           NEW row, row = EditedRow(x, amount, paid, status)
    PROVE  /\ row \in Payable /\ row.status = status
           /\ row.entered \/ (row.paid = x.paid /\ row.entered = x.entered)
<1>1. PICK a, b, e : /\ a = IF amount = NotGiven THEN x.amount ELSE amount
                     /\ b = IF paid = NotGiven THEN x.paid ELSE paid
                     /\ e = (x.entered \/ paid # NotGiven)
  OBVIOUS
<1>2. a \in Nat /\ b \in Nat /\ e \in BOOLEAN
  BY <1>1, AmountsAssumption, EnteredAssumption DEF Payable
<1>3. row = [[x EXCEPT !.amount = a, !.paid = b, !.entered = e] EXCEPT !.status = status]
  BY <1>1 DEF Written, EditedRow
<1>4. row \in Payable /\ row.status = status /\ row.paid = b /\ row.entered = e
  BY <1>2, <1>3 DEF Payable
<1>5. e \/ (b = x.paid /\ e = x.entered)
  BY <1>1 DEF Payable
<1> QED
  BY <1>4, <1>5

LEMMA EditInductive ==
    ASSUME PayablesInductive, NEW w \in Workers, Edit(w)
    PROVE  PayablesInductive' /\ PayablesGrow
<1>1. PICK p, amount, paid, status :
          /\ p = jobs[w].payable /\ amount = jobs[w].amount /\ paid = jobs[w].paid
          /\ status = jobs[w].status
  OBVIOUS
<1>2. /\ p \in DOMAIN payables /\ payables[p] \in Payable /\ status \in {"OPEN", "PAID"}
      /\ amount \in Amounts \cup {NotGiven} /\ paid \in Entered \cup {NotGiven}
  BY <1>1, PayablesJobOf, PayablesJobFields, PayableRows DEF Edit, DecisionKnown
<1>3. PICK row : row = EditedRow(payables[p], amount, paid, status)
  OBVIOUS
<1>4. /\ row \in Payable /\ row.status = status
      /\ row.entered \/ (row.paid = payables[p].paid /\ row.entered = payables[p].entered)
  BY <1>2, <1>3, WrittenRow
<1>5. payables' = [payables EXCEPT ![p] = row]
  BY <1>1, <1>2, <1>3, PayableRows DEF Edit, EditedRow
<1> QED
  BY <1>2, <1>4, <1>5, PayableSaved DEF Edit, Finish

LEMMA VoidPayableInductive ==
    ASSUME PayablesInductive, NEW w \in Workers, NEW p \in DOMAIN payables, VoidPayable(w, p)
    PROVE  PayablesInductive' /\ PayablesGrow
<1>1. PICK invoice : invoice = IF payables[p].invoice = "none" THEN payables[p].invoice
                               ELSE "CANCELLED"
  OBVIOUS
<1>2. PICK row : row = [payables[p] EXCEPT !.status = "VOID", !.approved = FALSE,
                                           !.invoice = invoice]
  OBVIOUS
<1>3. row \in Payable /\ row.paid = payables[p].paid /\ row.entered = payables[p].entered
  <2>1. ASSUME NEW x \in Payable,
               NEW y, y = [x EXCEPT !.status = "VOID", !.approved = FALSE, !.invoice = invoice]
        PROVE  y \in Payable /\ y.paid = x.paid /\ y.entered = x.entered
    BY <1>1, <2>1, PayableRows DEF Payable
  <2> QED
    BY <1>2, <2>1, PayableRows
<1>4. payables' = [payables EXCEPT ![p] = row]
  BY <1>1, <1>2, PayableRows DEF VoidPayable
<1> QED
  BY <1>3, <1>4, AtOnceIdle, PayableSaved DEF VoidPayable

LEMMA ApproveBatchPayablesInductive ==
    ASSUME PayablesInductive, NEW w \in Workers, ApproveBatchPayables(w)
    PROVE  PayablesInductive' /\ PayablesGrow
<1>1. ASSUME NEW x \in Payable
      PROVE  /\ [x EXCEPT !.approved = TRUE] \in Payable
             /\ [x EXCEPT !.approved = TRUE].paid = x.paid
             /\ [x EXCEPT !.approved = TRUE].entered = x.entered
  BY DEF Payable
<1>2. ASSUME NEW p \in DOMAIN payables
      PROVE  /\ p \in DOMAIN payables' /\ payables'[p] \in Payable
             /\ payables'[p].paid = payables[p].paid /\ payables'[p].entered = payables[p].entered
  BY <1>1, PayableRows DEF ApproveBatchPayables
<1>3. DOMAIN payables' = DOMAIN payables /\ payables' = [p \in DOMAIN payables |-> payables'[p]]
  BY DEF ApproveBatchPayables
<1>4. payables' \in Seq(Payable)
  <2>1. DOMAIN payables = 1 .. Len(payables) /\ Len(payables) \in Nat
    BY PayableRows
  <2> QED
    BY <1>2, <1>3, <2>1
<1> QED
  BY <1>2, <1>3, <1>4, PayablesChange DEF ApproveBatchPayables, Finish

LEMMA CreatePaymentBatchInductive ==
    ASSUME PayablesInductive, NEW w \in Workers, NEW ps \in SUBSET DOMAIN payables,
           NEW items \in [ps -> Amounts], CreatePaymentBatch(w, items)
    PROVE  PayablesInductive' /\ PayablesGrow
<1>1. PICK row : row = [items |-> items, status |-> "DRAFT"]
  OBVIOUS
<1>2. row \in BatchRow
  BY <1>1, PayableRows, BatchRowMade DEF BatchStatus
<1>3. batches \in Seq(BatchRow) /\ batches' = Append(batches, row)
  BY <1>1, PayableRows DEF CreatePaymentBatch
<1>4. PICK bs2 : bs2 = batches'
  OBVIOUS
<1>5. /\ bs2 \in Seq(BatchRow) /\ Len(bs2) \in Nat /\ bs2[Len(bs2)] = row
      /\ DOMAIN bs2 = DOMAIN batches \cup {Len(bs2)}
      /\ \A b \in DOMAIN batches : bs2[b] = batches[b]
  BY <1>2, <1>3, <1>4, RowAdded
<1>6. row.status = "DRAFT" /\ DOMAIN row.items \subseteq DOMAIN payables
  BY <1>1
<1>7. BatchesOK(bs2, payables)
  BY <1>5, <1>6 DEF PayablesInductive, BatchesOK
<1>8. DecisionKnown(Idle, payables, bs2, requests, decisions)
  BY IdlePayables
<1> QED
  BY <1>4, <1>5, <1>7, <1>8, IdlePayables, AtOnceIdle, BatchesChange DEF CreatePaymentBatch, money

(* A batch gets another status.                                            *)
LEMMA BatchSaved ==
    ASSUME PayablesInductive, NEW w \in Workers, NEW job \in PayablesJob,
           jobs' = [jobs EXCEPT ![w] = job], NEW b \in DOMAIN batches,
           NEW status \in BatchStatus,
           job = Idle \/ (job.op = "flag" /\ job.batch = b),
           NEW row, row = [batches[b] EXCEPT !.status = status],
           batches' = [batches EXCEPT ![b] = row],
           UNCHANGED <<payables, settlements, reversals, approvals, transactions>>
    PROVE  PayablesInductive' /\ PayablesGrow
<1>1. row \in BatchRow /\ row.items = batches[b].items /\ row.status = status
  BY PayableRows, BatchRowSaved
<1>2. PICK bs2 : bs2 = batches'
  OBVIOUS
<1>3. /\ bs2 \in Seq(BatchRow) /\ DOMAIN bs2 = DOMAIN batches
      /\ bs2[b] = row /\ \A c \in DOMAIN batches \ {b} : bs2[c] = batches[c]
  BY <1>1, <1>2, PayableRows, PurchaseRowReplaced
<1>4. BatchesOK(bs2, payables)
  BY <1>1, <1>3 DEF PayablesInductive, BatchesOK
<1>5. DecisionKnown(job, payables, bs2, requests, decisions)
  <2>1. CASE job = Idle
    BY <2>1, IdlePayables
  <2>2. CASE job.op = "flag" /\ job.batch = b
    BY <1>3, <2>2 DEF DecisionKnown
  <2> QED
    BY <2>1, <2>2
<1> QED
  BY <1>2, <1>3, <1>4, <1>5, BatchesChange

LEMMA SaveSubmittedInductive ==
    ASSUME PayablesInductive, NEW w \in Workers, SaveSubmitted(w)
    PROVE  PayablesInductive' /\ PayablesGrow
<1>1. PICK b : b = jobs[w].batch
  OBVIOUS
<1>2. b \in DOMAIN batches
  BY <1>1, PayablesJobOf DEF SaveSubmitted, DecisionKnown
<1>3. PICK status, row, job : /\ status = "SUBMITTED" /\ job = Idle
                              /\ row = [batches[b] EXCEPT !.status = status]
  OBVIOUS
<1>4. batches' = [batches EXCEPT ![b] = row] /\ status \in BatchStatus
  BY <1>1, <1>2, <1>3 DEF SaveSubmitted, BatchStatus
<1>5. job \in PayablesJob /\ jobs' = [jobs EXCEPT ![w] = job]
  BY <1>3, IdlePayables DEF SaveSubmitted, Finish
<1>6. UNCHANGED <<payables, settlements, reversals, approvals, transactions>>
  BY DEF SaveSubmitted, money
<1> QED
  BY <1>2, <1>3, <1>4, <1>5, <1>6, BatchSaved

LEMMA SaveDecidedInductive ==
    ASSUME PayablesInductive, NEW w \in Workers, SaveDecided(w)
    PROVE  PayablesInductive' /\ PayablesGrow
<1>1. PICK b, status : b = jobs[w].batch /\ status = jobs[w].status
  OBVIOUS
<1>2. b \in DOMAIN batches /\ b \in Nat /\ status \in Outcomes
  BY <1>1, PayablesJobOf, PayablesJobFields, PayableRows DEF SaveDecided, DecisionKnown
<1>3. PICK row : row = [batches[b] EXCEPT !.status = status]
  OBVIOUS
<1>4. batches' = [batches EXCEPT ![b] = row] /\ status \in BatchStatus
  BY <1>1, <1>2, <1>3 DEF SaveDecided, BatchStatus, Outcomes
<1>5. PICK job : job = IF status = "APPROVED" THEN [op |-> "flag", batch |-> b] ELSE Idle
  OBVIOUS
<1>6. job \in PayablesJob /\ (job = Idle \/ (job.op = "flag" /\ job.batch = b))
  BY <1>2, <1>5 DEF PayablesJob
<1>7. jobs' = [jobs EXCEPT ![w] = job]
  BY <1>1, <1>5 DEF SaveDecided, Proceed, Finish
<1>8. UNCHANGED <<payables, settlements, reversals, approvals, transactions>>
  BY DEF SaveDecided, money
<1> QED
  BY <1>2, <1>3, <1>4, <1>6, <1>7, <1>8, BatchSaved

-----------------------------------------------------------------------------
(* Steps on requests, and those that only read                             *)

LEMMA NewRequestKept ==
    ASSUME PayablesInductive, NEW kind \in {"batch", "reversal"}, NEW of \in Nat,
           kind = "batch" => of \in DOMAIN batches,
           kind = "reversal" => of \in DOMAIN settlements, NewRequest(kind, of),
           UNCHANGED decisions
    PROVE  /\ RequestsOK(requests', batches, settlements)
           /\ DecisionsOK(decisions', requests')
           /\ Grown(payables, payables, batches, batches, requests, requests', decisions, decisions')
<1>1. PICK row : row = [kind |-> kind, of |-> of, status |-> "PENDING"]
  OBVIOUS
<1>2. row \in Request /\ row.kind = kind /\ row.of = of
  BY <1>1 DEF Request
<1>3. PICK reqs2 : reqs2 = requests'
  OBVIOUS
<1>4. requests \in Seq(Request) /\ reqs2 = Append(requests, row)
  BY <1>1, <1>3, PayableRows DEF NewRequest
<1>5. /\ reqs2 \in Seq(Request) /\ reqs2[Len(reqs2)] = row
      /\ DOMAIN reqs2 = DOMAIN requests \cup {Len(reqs2)}
      /\ \A r \in DOMAIN requests : reqs2[r] = requests[r]
  BY <1>2, <1>4, RowAdded
<1>6. RequestsOK(reqs2, batches, settlements)
  BY <1>2, <1>5 DEF PayablesInductive, RequestsOK
<1>7. /\ DecisionsOK(decisions, reqs2)
      /\ Grown(payables, payables, batches, batches, requests, reqs2, decisions, decisions)
  BY <1>5 DEF PayablesInductive, DecisionsOK, Grown
<1> QED
  BY <1>3, <1>6, <1>7

LEMMA CreateRequestInductive ==
    ASSUME PayablesInductive, NEW w \in Workers, CreateRequest(w)
    PROVE  PayablesInductive' /\ PayablesGrow
<1>1. PICK b : b = jobs[w].batch
  OBVIOUS
<1>2. b \in DOMAIN batches /\ b \in Nat /\ jobs[w] \in PayablesJob /\ jobs[w].op = "submit"
  BY <1>1, PayablesJobOf, PayableRows DEF CreateRequest, DecisionKnown
<1>3. NewRequest("batch", b) /\ UNCHANGED decisions
  BY <1>1 DEF CreateRequest
<1>4. /\ RequestsOK(requests', batches, settlements) /\ DecisionsOK(decisions', requests')
      /\ Grown(payables, payables, batches, batches, requests, requests', decisions, decisions')
  BY <1>2, <1>3, NewRequestKept
<1>5. PICK job : job = [jobs[w] EXCEPT !.op = "saveSubmitted"]
  OBVIOUS
<1>6. job \in PayablesJob /\ job.op = "saveSubmitted" /\ job.batch = b
  BY <1>1, <1>2, <1>5 DEF PayablesJob, Idle
<1>7. DecisionKnown(job, payables, batches, requests', decisions')
  BY <1>2, <1>6 DEF DecisionKnown
<1>8. jobs' = [jobs EXCEPT ![w] = job]
  BY <1>5 DEF CreateRequest, Proceed
<1>9. UNCHANGED <<payables, batches, settlements, reversals, transactions>>
  BY DEF CreateRequest, money
<1> QED
  BY <1>4, <1>6, <1>7, <1>8, <1>9, RequestsChange

LEMMA ReverseSettlementAuditInductive ==
    ASSUME PayablesInductive, NEW w \in Workers, NEW s \in DOMAIN settlements,
           ReverseSettlementAudit(w, s)
    PROVE  PayablesInductive' /\ PayablesGrow
<1>1. NewRequest("reversal", s) /\ s \in Nat /\ UNCHANGED decisions
  BY PayableRows DEF ReverseSettlementAudit
<1>2. /\ RequestsOK(requests', batches, settlements) /\ DecisionsOK(decisions', requests')
      /\ Grown(payables, payables, batches, batches, requests, requests', decisions, decisions')
  BY <1>1, NewRequestKept
<1>3. PICK job : job = Idle
  OBVIOUS
<1>4. /\ job \in PayablesJob /\ DecisionKnown(job, payables, batches, requests', decisions')
      /\ jobs' = [jobs EXCEPT ![w] = job]
  BY <1>3, IdlePayables, AtOnceIdle DEF ReverseSettlementAudit
<1>5. UNCHANGED <<payables, batches, settlements, reversals, transactions>>
  BY DEF ReverseSettlementAudit, money
<1> QED
  BY <1>2, <1>4, <1>5, RequestsChange

(* A request gets another status.                                          *)
LEMMA RequestWith ==
    ASSUME NEW row \in Request, NEW status \in {"APPROVED", "REJECTED", "CANCELLED"},
           NEW new, new = [row EXCEPT !.status = status]
    PROVE  new \in Request /\ new.kind = row.kind /\ new.of = row.of
BY DEF Request

LEMMA RequestSaved ==
    ASSUME PayablesInductive, NEW r \in DOMAIN requests, NEW new \in Request,
           new.kind = requests[r].kind, new.of = requests[r].of,
           NEW reqs2, reqs2 = [requests EXCEPT ![r] = new]
    PROVE  /\ RequestsOK(reqs2, batches, settlements) /\ DOMAIN reqs2 = DOMAIN requests
           /\ \A q \in DOMAIN requests : reqs2[q].kind = requests[q].kind
                                         /\ reqs2[q].of = requests[q].of
<1>1. requests \in Seq(Request)
  BY PayableRows
<1>2. /\ reqs2 \in Seq(Request) /\ DOMAIN reqs2 = DOMAIN requests
      /\ reqs2[r] = new /\ \A q \in DOMAIN requests \ {r} : reqs2[q] = requests[q]
  BY <1>1, PurchaseRowReplaced
<1>3. RequestsOK(reqs2, batches, settlements)
  BY <1>2 DEF PayablesInductive, RequestsOK
<1> QED
  BY <1>2, <1>3

LEMMA DecideInductive ==
    ASSUME PayablesInductive, NEW w \in Workers, NEW outcome \in Outcomes, Decide(w, outcome)
    PROVE  PayablesInductive' /\ PayablesGrow
<1>1. PICK r : r = jobs[w].req
  OBVIOUS
<1>2. r \in DOMAIN requests /\ r \in Nat
  BY <1>1, PayablesJobOf, PayableRows DEF Decide, DecisionKnown
<1>3. PICK reqs2, decs2, new, row : /\ reqs2 = requests' /\ decs2 = decisions'
                                    /\ new = [requests[r] EXCEPT !.status = outcome]
                                    /\ row = [req |-> r, outcome |-> outcome]
  OBVIOUS
<1>4. reqs2 = [requests EXCEPT ![r] = new] /\ decs2 = Append(decisions, row)
  BY <1>1, <1>3 DEF Decide
<1>5. /\ RequestsOK(reqs2, batches, settlements) /\ DOMAIN reqs2 = DOMAIN requests
      /\ \A q \in DOMAIN requests : reqs2[q].kind = requests[q].kind
                                    /\ reqs2[q].of = requests[q].of
  <2>1. new \in Request /\ new.kind = requests[r].kind /\ new.of = requests[r].of
    BY <1>2, <1>3, PayableRows, RequestWith DEF Outcomes
  <2> QED
    BY <1>2, <1>4, <2>1, RequestSaved
<1>6. decisions \in Seq(Decision) /\ row \in Decision /\ row.req = r
  BY <1>2, <1>3 DEF PayablesInductive, DecisionsOK, Decision
<1>7. /\ decs2 \in Seq(Decision) /\ Len(decs2) \in Nat /\ decs2[Len(decs2)] = row
      /\ DOMAIN decs2 = DOMAIN decisions \cup {Len(decs2)}
      /\ \A d \in DOMAIN decisions : decs2[d] = decisions[d]
  BY <1>4, <1>6, RowAdded
<1>8. /\ DecisionsOK(decs2, reqs2)
      /\ Grown(payables, payables, batches, batches, requests, reqs2, decisions, decs2)
  BY <1>2, <1>5, <1>6, <1>7 DEF PayablesInductive, DecisionsOK, Grown
<1>9. PICK job : job = [op |-> "hear", decision |-> Len(decs2)]
  OBVIOUS
<1>10. job \in PayablesJob /\ DecisionKnown(job, payables, batches, reqs2, decs2)
  BY <1>7, <1>9 DEF PayablesJob, DecisionKnown
<1>11. /\ jobs' = [jobs EXCEPT ![w] = job]
       /\ UNCHANGED <<payables, batches, settlements, reversals, transactions>>
  BY <1>3, <1>9 DEF Decide, Proceed, money
<1> QED
  BY <1>3, <1>5, <1>8, <1>10, <1>11, RequestsChange

LEMMA WithdrawInductive ==
    ASSUME PayablesInductive, NEW w \in Workers, Withdraw(w)
    PROVE  PayablesInductive' /\ PayablesGrow
<1>1. PICK r, reqs2 : r = jobs[w].req /\ reqs2 = requests'
  OBVIOUS
<1>2. r \in DOMAIN requests
  BY <1>1, PayablesJobOf DEF Withdraw, DecisionKnown
<1>3. PICK new : new = [requests[r] EXCEPT !.status = "CANCELLED"]
  OBVIOUS
<1>9. reqs2 = [requests EXCEPT ![r] = new]
  BY <1>1, <1>3 DEF Withdraw
<1>4. /\ RequestsOK(reqs2, batches, settlements) /\ DOMAIN reqs2 = DOMAIN requests
      /\ \A q \in DOMAIN requests : reqs2[q].kind = requests[q].kind
                                    /\ reqs2[q].of = requests[q].of
  <2>1. new \in Request /\ new.kind = requests[r].kind /\ new.of = requests[r].of
    BY <1>2, <1>3, PayableRows, RequestWith
  <2> QED
    BY <1>2, <1>9, <2>1, RequestSaved
<1>5. /\ DecisionsOK(decisions, reqs2)
      /\ Grown(payables, payables, batches, batches, requests, reqs2, decisions, decisions)
  BY <1>4 DEF PayablesInductive, DecisionsOK, Grown
<1>6. PICK job : job = Idle
  OBVIOUS
<1>7. job \in PayablesJob /\ DecisionKnown(job, payables, batches, reqs2, decisions)
  BY <1>6, IdlePayables
<1>8. /\ jobs' = [jobs EXCEPT ![w] = job]
      /\ UNCHANGED <<payables, batches, settlements, reversals, decisions, transactions>>
  BY <1>6 DEF Withdraw, Finish, money
<1> QED
  BY <1>1, <1>4, <1>5, <1>7, <1>8, RequestsChange

LEMMA HearOfBatchInductive ==
    ASSUME PayablesInductive, NEW w \in Workers, HearOfBatch(w)
    PROVE  PayablesInductive' /\ PayablesGrow
<1>1. PICK d : d = jobs[w].decision
  OBVIOUS
<1>2. PICK r, status : r = decisions[d].req /\ status = decisions[d].outcome
  OBVIOUS
<1>3. PICK b : b = requests[r].of
  OBVIOUS
<1>4. /\ d \in DOMAIN decisions /\ d \in Nat /\ r \in DOMAIN requests /\ status \in Outcomes
      /\ requests[r].kind = "batch"
  <2>1. d \in DOMAIN decisions /\ requests[r].kind = "batch"
    BY <1>1, <1>2, PayablesJobOf DEF HearOfBatch, DecisionKnown, Decided
  <2>2. decisions[d] \in Decision /\ d \in Nat /\ r \in DOMAIN requests
    BY <1>2, <2>1 DEF PayablesInductive, DecisionsOK
  <2> QED
    BY <1>2, <2>1, <2>2 DEF Decision
<1>5. b \in DOMAIN batches /\ b \in Nat
  BY <1>3, <1>4, PayableRows DEF PayablesInductive, RequestsOK
<1>6. PICK job : job = IF batches[b].status = "SUBMITTED"
                       THEN [op |-> "saveDecided", batch |-> b, decision |-> d, status |-> status]
                       ELSE Idle
  OBVIOUS
<1>7. job \in PayablesJob /\ DecisionKnown(job, payables, batches, requests, decisions)
  <2>1. CASE batches[b].status = "SUBMITTED"
    <3>1. job = [op |-> "saveDecided", batch |-> b, decision |-> d, status |-> status]
      BY <1>6, <2>1
    <3>2. job \in PayablesJob
      BY <1>4, <1>5, <3>1 DEF PayablesJob
    <3>3. DecisionKnown(job, payables, batches, requests, decisions)
      BY <1>2, <1>3, <1>4, <1>5, <3>1 DEF DecisionKnown
    <3> QED
      BY <3>2, <3>3
  <2>2. CASE batches[b].status # "SUBMITTED"
    BY <1>6, <2>2, IdlePayables
  <2> QED
    BY <2>1, <2>2
<1>8. jobs' = [jobs EXCEPT ![w] = job]
  BY <1>1, <1>2, <1>3, <1>6 DEF HearOfBatch, Decided, OutcomeOf, Proceed, Finish
<1>9. UNCHANGED <<payables, batches, settlements, reversals, approvals, transactions>>
  BY DEF HearOfBatch, money
<1> QED
  BY <1>7, <1>8, <1>9, OnlyPayablesJob

LEMMA NormalisedStatus ==
    ASSUME NEW x \in Payable, NEW amount, NEW paid, Written(x, amount, paid).status # "VOID"
    PROVE  Normalised(Written(x, amount, paid)).status \in {"OPEN", "PAID"}
<1>1. PICK y : y = Written(x, amount, paid)
  OBVIOUS
<1>2. DOMAIN y = DOMAIN x
  BY <1>1 DEF Written
<1>3. PICK status : status = IF y.status = "VOID" THEN y.status ELSE StatusOf(y.paid, y.amount)
  OBVIOUS
<1>4. status \in {"OPEN", "PAID"}
  BY <1>1, <1>3 DEF StatusOf
<1>5. Normalised(y) = [y EXCEPT !.status = status]
  BY <1>3 DEF Normalised
<1> QED
  BY <1>1, <1>2, <1>4, <1>5 DEF Payable

LEMMA ReadersOfPayablesInductive ==
    ASSUME PayablesInductive, NEW w \in Workers,
           \/ \E p \in DOMAIN payables, amount \in Amounts \cup {NotGiven},
                 paid \in Entered \cup {NotGiven} : ReadForEdit(w, p, amount, paid)
           \/ \E b \in DOMAIN batches : ReadForSubmit(w, b)
           \/ \E r \in DOMAIN requests : LoadRequest(w, r)
           \/ AbandonPayment(w)
    PROVE  PayablesInductive' /\ PayablesGrow
<1>1. ASSUME NEW p \in DOMAIN payables, NEW amount \in Amounts \cup {NotGiven},
             NEW paid \in Entered \cup {NotGiven}, ReadForEdit(w, p, amount, paid)
      PROVE  PayablesInductive' /\ PayablesGrow
  <2>1. PICK status : status = Normalised(Written(payables[p], amount, paid)).status
    OBVIOUS
  <2>2. status \in {"OPEN", "PAID"}
    BY <1>1, <2>1, PayableRows, NormalisedStatus DEF ReadForEdit
  <2>3. PICK job : job = [op |-> "edit", payable |-> p, amount |-> amount, paid |-> paid,
                          status |-> status]
    OBVIOUS
  <2>4. job \in PayablesJob /\ DecisionKnown(job, payables, batches, requests, decisions)
    BY <2>2, <2>3, PayableRows DEF PayablesJob, DecisionKnown
  <2>5. /\ jobs' = [jobs EXCEPT ![w] = job]
        /\ UNCHANGED <<payables, batches, settlements, reversals, approvals, transactions>>
    BY <1>1, <2>1, <2>3 DEF ReadForEdit, Begin, money
  <2> QED
    BY <2>4, <2>5, OnlyPayablesJob
<1>2. ASSUME NEW b \in DOMAIN batches, ReadForSubmit(w, b) PROVE PayablesInductive' /\ PayablesGrow
  <2>1. PICK job : job = [op |-> "submit", batch |-> b]
    OBVIOUS
  <2>2. job \in PayablesJob /\ DecisionKnown(job, payables, batches, requests, decisions)
    BY <2>1, PayableRows DEF PayablesJob, DecisionKnown
  <2>3. /\ jobs' = [jobs EXCEPT ![w] = job]
        /\ UNCHANGED <<payables, batches, settlements, reversals, approvals, transactions>>
    BY <1>2, <2>1 DEF ReadForSubmit, Begin, money
  <2> QED
    BY <2>2, <2>3, OnlyPayablesJob
<1>3. ASSUME AbandonPayment(w) PROVE PayablesInductive' /\ PayablesGrow
  BY <1>3, IdlePayables, OnlyPayablesJob DEF AbandonPayment, Finish, money
<1>4. ASSUME NEW r \in DOMAIN requests, LoadRequest(w, r) PROVE PayablesInductive' /\ PayablesGrow
  <2>1. PICK op \in {"act", "withdraw"} : Begin(w, [op |-> op, req |-> r])
    BY <1>4 DEF LoadRequest
  <2>2. PICK job : job = [op |-> op, req |-> r]
    OBVIOUS
  <2>3. job \in PayablesJob /\ DecisionKnown(job, payables, batches, requests, decisions)
    BY <2>2, PayableRows DEF PayablesJob, DecisionKnown
  <2>4. /\ jobs' = [jobs EXCEPT ![w] = job]
        /\ UNCHANGED <<payables, batches, settlements, reversals, approvals, transactions>>
    BY <1>4, <2>1, <2>2 DEF LoadRequest, Begin, money
  <2> QED
    BY <2>3, <2>4, OnlyPayablesJob
<1> QED
  BY <1>1, <1>2, <1>3, <1>4

-----------------------------------------------------------------------------
(* Steps that move money                                                   *)

LEMMA CreateTransactionInductive ==
    ASSUME PayablesInductive, NEW w \in Workers, NEW p \in DOMAIN payables,
           CreateTransaction(w, p)
    PROVE  PayablesInductive' /\ PayablesGrow
<1>1. PICK row : row = [payable |-> p, status |-> "PENDING"]
  OBVIOUS
<1>2. row \in Transaction /\ row.status # "PAID"
  BY <1>1, PayableRows DEF Transaction
<1>3. PICK txs2 : txs2 = transactions'
  OBVIOUS
<1>4. transactions \in Seq(Transaction) /\ txs2 = Append(transactions, row)
  BY <1>1, <1>3, PayableRows DEF CreateTransaction
<1>5. /\ txs2 \in Seq(Transaction)
      /\ DOMAIN transactions \subseteq DOMAIN txs2
      /\ \A x \in DOMAIN transactions : txs2[x] = transactions[x]
  BY <1>2, <1>4, RowAdded
<1>6. \A q : PaidByTransaction(transactions, q) => PaidByTransaction(txs2, q)
  BY <1>5 DEF PaidByTransaction
<1>7. PaidOK(payables, settlements, txs2)
  BY <1>5, <1>6 DEF PayablesInductive, PaidOK
<1>8. Grown(payables, payables', batches, batches', requests, requests', decisions, decisions')
  BY DEF CreateTransaction, Grown, money, approvals
<1>9. PICK job : job = Idle
  OBVIOUS
<1>10. /\ job \in PayablesJob /\ DecisionKnown(job, payables', batches', requests', decisions')
       /\ jobs' = [jobs EXCEPT ![w] = job]
  BY <1>9, IdlePayables, AtOnceIdle DEF CreateTransaction
<1>11. /\ BatchesOK(batches', payables')
       /\ LinesOK(settlements', reversals', payables', batches')
       /\ RequestsOK(requests', batches', settlements') /\ DecisionsOK(decisions', requests')
       /\ PaidOK(payables', settlements', transactions')
  BY <1>3, <1>7 DEF CreateTransaction, money, approvals, PayablesInductive
<1> QED
  BY <1>8, <1>10, <1>11, PayablesStepInductive

LEMMA UpdateTransactionInductive ==
    ASSUME PayablesInductive, NEW w \in Workers, NEW x \in DOMAIN transactions,
           NEW next \in {"PENDING", "PAID", "REJECTED", "CANCELLED"},
           UpdateTransactionStatus(w, x, next)
    PROVE  PayablesInductive' /\ PayablesGrow
<1>0. PICK p : p = transactions[x].payable
  OBVIOUS
<1>1. PICK row : row = [transactions[x] EXCEPT !.status = next]
  OBVIOUS
<1>2. row \in Transaction /\ row.status = next /\ row.payable = p
  <2>1. ASSUME NEW t \in Transaction, NEW y, y = [t EXCEPT !.status = next]
        PROVE  y \in Transaction /\ y.status = next /\ y.payable = t.payable
    BY <2>1 DEF Transaction
  <2>2. transactions[x] \in Transaction
    BY PayableRows
  <2> QED
    BY <1>0, <1>1, <2>1, <2>2
<1>3. PICK txs2, pays2 : txs2 = transactions' /\ pays2 = payables'
  OBVIOUS
<1>4. txs2 = [transactions EXCEPT ![x] = row] /\ transactions \in Seq(Transaction)
  BY <1>1, <1>3, PayableRows DEF UpdateTransactionStatus
<1>5. /\ txs2 \in Seq(Transaction) /\ DOMAIN txs2 = DOMAIN transactions
      /\ txs2[x] = row /\ \A y \in DOMAIN transactions \ {x} : txs2[y] = transactions[y]
  BY <1>2, <1>4, PurchaseRowReplaced
<1>6. /\ \A q : PaidByTransaction(transactions, q) => PaidByTransaction(txs2, q)
      /\ next = "PAID" => PaidByTransaction(txs2, p)
  <2>1. transactions[x].status # "PAID"
    BY DEF UpdateTransactionStatus, PaymentTransitions
  <2> QED
    BY <1>2, <1>5, <2>1 DEF PaidByTransaction
<1>7. /\ pays2 \in Seq(Payable) /\ DOMAIN pays2 = DOMAIN payables
      /\ \A q \in DOMAIN payables : q # p \/ next # "PAID" => pays2[q] = payables[q]
  <2>1. CASE next # "PAID"
    BY <1>3, <2>1, PayableRows DEF UpdateTransactionStatus
  <2>2. CASE next = "PAID"
    <3>1. PICK new : new = [payables[p] EXCEPT !.paid = Billed, !.status = "PAID", !.invoice = "PAID"]
      OBVIOUS
    <3>2. pays2 = [payables EXCEPT ![p] = new]
      BY <1>0, <1>3, <2>2, <3>1, PayableRows DEF UpdateTransactionStatus
    <3>3. CASE p \in DOMAIN payables
      <4>1. ASSUME NEW y \in Payable,
                   NEW z, z = [y EXCEPT !.paid = Billed, !.status = "PAID", !.invoice = "PAID"]
            PROVE  z \in Payable
        BY <4>1, BilledAssumption DEF Payable
      <4>2. new \in Payable /\ payables \in Seq(Payable)
        BY <3>1, <3>3, <4>1, PayableRows
      <4>3. /\ pays2 \in Seq(Payable) /\ DOMAIN pays2 = DOMAIN payables
            /\ \A q \in DOMAIN payables \ {p} : pays2[q] = payables[q]
        BY <3>2, <3>3, <4>2, PurchaseRowReplaced
      <4> QED
        BY <2>2, <4>3
    <3>4. CASE p \notin DOMAIN payables
      <4>1. pays2 = payables
        BY <3>2, <3>4, PayableRows
      <4> QED
        BY <4>1, PayableRows
    <3> QED
      BY <3>3, <3>4
  <2> QED
    BY <2>1, <2>2
<1>8. PaidOK(pays2, settlements, txs2)
  <2>1. ASSUME NEW q \in DOMAIN pays2
        PROVE  \/ PaidByTransaction(txs2, q) \/ pays2[q].entered
               \/ pays2[q].paid = SettledBy(settlements, q)
    BY <1>6, <1>7 DEF PayablesInductive, PaidOK
  <2> QED
    BY <1>5, <1>7, <2>1 DEF PaidOK
<1>9. Grown(payables, pays2, batches, batches, requests, requests, decisions, decisions)
  BY <1>7 DEF Grown
<1>10. /\ BatchesOK(batches, pays2)
       /\ LinesOK(settlements, reversals, pays2, batches)
  BY <1>7, BatchesStay, LinesStay DEF PayablesInductive
<1>11. PICK job : job = Idle
  OBVIOUS
<1>12. /\ job \in PayablesJob /\ DecisionKnown(job, payables', batches', requests', decisions')
       /\ jobs' = [jobs EXCEPT ![w] = job]
  BY <1>11, IdlePayables, AtOnceIdle DEF UpdateTransactionStatus
<1>13. /\ Grown(payables, payables', batches, batches', requests, requests', decisions, decisions')
       /\ BatchesOK(batches', payables')
       /\ LinesOK(settlements', reversals', payables', batches')
       /\ RequestsOK(requests', batches', settlements') /\ DecisionsOK(decisions', requests')
       /\ PaidOK(payables', settlements', transactions')
  BY <1>3, <1>8, <1>9, <1>10 DEF UpdateTransactionStatus, approvals, PayablesInductive
<1> QED
  BY <1>12, <1>13, PayablesStepInductive

(* What paying, and paying back, does to the row of a payable.             *)
LEMMA PaidRow ==
    ASSUME NEW row \in Payable, NEW amount \in Nat
    PROVE  /\ Paid(row, amount) \in Payable /\ Paid(row, amount).paid = row.paid + amount
           /\ Paid(row, amount).entered = row.entered
<1>1. PICK x : x = [row EXCEPT !.paid = @ + amount, !.approved = TRUE]
  OBVIOUS
<1>2. x \in Payable /\ x.paid = row.paid + amount /\ x.entered = row.entered
  <2>1. PICK paid : paid = row.paid + amount
    OBVIOUS
  <2>2. paid \in Nat
    BY <2>1 DEF Payable
  <2>3. x = [row EXCEPT !.paid = paid, !.approved = TRUE]
    BY <1>1, <2>1
  <2>4. x \in Payable /\ x.paid = paid /\ x.entered = row.entered
    BY <2>2, <2>3 DEF Payable
  <2> QED
    BY <2>1, <2>4
<1>3. PICK new : new = Normalised(x)
  OBVIOUS
<1>4. new \in Payable /\ new.paid = x.paid /\ new.entered = x.entered
  BY <1>2, <1>3 DEF Normalised, StatusOf, Payable
<1>5. Paid(row, amount)
        = [new EXCEPT !.invoice = IF new.status = "PAID" /\ new.invoice # "none" THEN "PAID"
                                  ELSE new.invoice]
  BY <1>1, <1>3 DEF Paid
<1> QED
  BY <1>2, <1>4, <1>5 DEF Payable

LEMMA UnpaidRow ==
    ASSUME NEW row \in Payable, NEW amount \in Nat, amount <= row.paid
    PROVE  /\ Unpaid(row, amount) \in Payable /\ Unpaid(row, amount).paid = row.paid - amount
           /\ Unpaid(row, amount).entered = row.entered
<1>1. PICK x : x = [row EXCEPT !.paid = @ - amount]
  OBVIOUS
<1>2. x \in Payable /\ x.paid = row.paid - amount /\ x.entered = row.entered
  BY <1>1 DEF Payable
<1>3. PICK new : new = Normalised(x)
  OBVIOUS
<1>4. new \in Payable /\ new.paid = x.paid /\ new.entered = x.entered
  BY <1>2, <1>3 DEF Normalised, StatusOf, Payable
<1>5. Unpaid(row, amount)
        = [new EXCEPT !.invoice = IF new.status # "PAID" /\ new.invoice # "none" THEN "PENDING"
                                  ELSE new.invoice]
  BY <1>1, <1>3 DEF Unpaid
<1> QED
  BY <1>2, <1>4, <1>5 DEF Payable

(* What is paid of each payable is what its new line says.                 *)
LEMMA MarkPaymentBatchPaidInductive ==
    ASSUME PayablesInductive, NEW w \in Workers, NEW b \in DOMAIN batches,
           MarkPaymentBatchPaid(w, b)
    PROVE  PayablesInductive' /\ PayablesGrow
<1>1. PICK items : items = batches[b].items
  OBVIOUS
<1>2. /\ b \in Nat /\ DOMAIN items \subseteq DOMAIN payables /\ DOMAIN items \subseteq Nat
      /\ \A p \in DOMAIN items : items[p] \in Amounts /\ items[p] \in Nat
      /\ items \in [DOMAIN items -> Amounts]
  <2>1. batches[b] \in BatchRow /\ b \in Nat
    BY PayableRows
  <2>2. /\ DOMAIN items \subseteq Nat /\ \A p \in DOMAIN items : items[p] \in Amounts
        /\ items \in [DOMAIN items -> Amounts]
    <3>1. PICK ps \in SUBSET Nat : items \in [ps -> Amounts]
      BY <1>1, <2>1 DEF BatchRow
    <3> QED
      BY <3>1
  <2>3. DOMAIN items \subseteq DOMAIN payables
    BY <1>1 DEF PayablesInductive, BatchesOK
  <2> QED
    BY <2>1, <2>2, <2>3, AmountsAssumption
<1>3. PICK more : more = PaymentLines(b)
  OBVIOUS
<1>4. /\ more \in Seq(Settlement)
      /\ \A s \in DOMAIN more : more[s].payable \in DOMAIN items /\ more[s].batch = b
      /\ \A p : SettledBy(more, p) = IF p \in DOMAIN items THEN items[p] ELSE 0
  <2>1. IsFiniteSet(DOMAIN items)
    <3>1. DOMAIN payables = 1 .. Len(payables) /\ Len(payables) \in Nat
      BY PayableRows
    <3>2. IsFiniteSet(DOMAIN payables)
      BY <3>1, FS_Interval
    <3> QED
      BY <1>2, <3>2, FS_Subset
  <2> QED
    BY <1>1, <1>2, <1>3, <2>1, PaymentLinesOf
<1>5. PICK pays2, bs2, lines2 : pays2 = payables' /\ bs2 = batches' /\ lines2 = settlements'
  OBVIOUS
<1>6. /\ DOMAIN pays2 = DOMAIN payables /\ pays2 \in Seq(Payable)
      /\ \A p \in DOMAIN payables :
             /\ pays2[p].paid = payables[p].paid + (IF p \in DOMAIN items THEN items[p] ELSE 0)
             /\ pays2[p].entered = payables[p].entered
  <2>1. pays2 = [p \in DOMAIN payables |->
                    IF p \in DOMAIN items THEN Paid(payables[p], items[p]) ELSE payables[p]]
    BY <1>1, <1>5 DEF MarkPaymentBatchPaid
  <2>2. ASSUME NEW p \in DOMAIN payables
        PROVE  /\ pays2[p] \in Payable /\ pays2[p].entered = payables[p].entered
               /\ pays2[p].paid = payables[p].paid + (IF p \in DOMAIN items THEN items[p] ELSE 0)
    <3>1. payables[p] \in Payable /\ payables[p].paid \in Nat
      BY PayableRows DEF Payable
    <3>2. CASE p \in DOMAIN items
      <4>1. items[p] \in Nat /\ pays2[p] = Paid(payables[p], items[p])
        BY <1>2, <2>1, <3>2
      <4> QED
        BY <3>1, <3>2, <4>1, PaidRow
    <3>3. CASE p \notin DOMAIN items
      BY <2>1, <3>1, <3>3
    <3> QED
      BY <3>2, <3>3
  <2>3. DOMAIN payables = 1 .. Len(payables) /\ Len(payables) \in Nat
    BY PayableRows
  <2> QED
    BY <2>1, <2>2, <2>3
<1>7. /\ lines2 \in Seq(Settlement) /\ DOMAIN settlements \subseteq DOMAIN lines2
      /\ \A s \in DOMAIN lines2 :
             IF s \in DOMAIN settlements THEN lines2[s] = settlements[s]
             ELSE s - Len(settlements) \in DOMAIN more /\ lines2[s] = more[s - Len(settlements)]
      /\ \A p : SettledBy(lines2, p) = SettledBy(settlements, p) + SettledBy(more, p)
  <2>1. lines2 = settlements \o more /\ settlements \in Seq(Settlement)
    BY <1>3, <1>5, PayableRows DEF MarkPaymentBatchPaid
  <2>2. \A p : SettledBy(lines2, p) = SettledBy(settlements, p) + SettledBy(more, p)
    <3>1. more \in Seq(Settlement)
      BY <1>4
    <3> QED
      BY <2>1, <3>1, SettledMore
  <2>3. lines2 \in Seq(Settlement) /\ Len(lines2) = Len(settlements) + Len(more)
    BY <1>4, <2>1
  <2>4. \A s \in DOMAIN lines2 :
             IF s \in DOMAIN settlements THEN lines2[s] = settlements[s]
             ELSE s - Len(settlements) \in DOMAIN more /\ lines2[s] = more[s - Len(settlements)]
    BY <1>4, <2>1, <2>3
  <2>5. DOMAIN settlements \subseteq DOMAIN lines2
    BY <1>4, <2>1, <2>3
  <2> QED
    BY <2>2, <2>3, <2>4, <2>5
<1>8. PICK row : row = [batches[b] EXCEPT !.status = "PAID"]
  OBVIOUS
<1>9. row \in BatchRow /\ row.items = items /\ row.status = "PAID"
  BY <1>1, <1>8, PayableRows, BatchRowSaved DEF BatchStatus
<1>10. /\ bs2 \in Seq(BatchRow) /\ DOMAIN bs2 = DOMAIN batches
       /\ bs2[b] = row /\ \A c \in DOMAIN batches \ {b} : bs2[c] = batches[c]
  <2>1. bs2 = [batches EXCEPT ![b] = row] /\ batches \in Seq(BatchRow)
    BY <1>5, <1>8, PayableRows DEF MarkPaymentBatchPaid
  <2> QED
    BY <1>9, <2>1, PurchaseRowReplaced
<1>11. BatchesOK(bs2, pays2)
  <2>1. \A c \in DOMAIN bs2 : DOMAIN bs2[c].items \subseteq DOMAIN pays2
    BY <1>2, <1>6, <1>9, <1>10 DEF PayablesInductive, BatchesOK
  <2> QED
    BY <1>10, <2>1 DEF BatchesOK
<1>12. LinesOK(lines2, reversals, pays2, bs2)
  <2>1. LinesOK(settlements, reversals, payables, batches)
    BY DEF PayablesInductive
  <2>2. ASSUME NEW s \in DOMAIN lines2
        PROVE  lines2[s].payable \in DOMAIN pays2 /\ lines2[s].batch \in DOMAIN bs2
    <3>1. CASE s \in DOMAIN settlements
      BY <1>6, <1>7, <1>10, <2>1, <3>1 DEF LinesOK
    <3>2. CASE s \notin DOMAIN settlements
      BY <1>2, <1>4, <1>6, <1>7, <1>10, <3>2
    <3> QED
      BY <3>1, <3>2
  <2>3. reversals \in Seq(DOMAIN lines2)
    BY <1>7, <2>1 DEF LinesOK
  <2> QED
    BY <1>7, <2>1, <2>2, <2>3 DEF LinesOK
<1>13. RequestsOK(requests, bs2, lines2)
  <2>1. RequestsOK(requests, batches, settlements)
    BY DEF PayablesInductive
  <2> QED
    BY <1>7, <1>10, <2>1, RequestsStay
<1>14. PaidOK(pays2, lines2, transactions)
  <2>1. ASSUME NEW p \in DOMAIN pays2, ~ PaidByTransaction(transactions, p), ~ pays2[p].entered
        PROVE  pays2[p].paid = SettledBy(lines2, p)
    <3>1. payables[p].paid = SettledBy(settlements, p)
      BY <1>6, <2>1 DEF PayablesInductive, PaidOK
    <3>2. SettledBy(more, p) = IF p \in DOMAIN items THEN items[p] ELSE 0
      BY <1>4
    <3> QED
      BY <1>6, <1>7, <3>1, <3>2
  <2> QED
    BY <1>6, <2>1, PayableRows DEF PaidOK
<1>15. Grown(payables, pays2, batches, bs2, requests, requests, decisions, decisions)
  BY <1>6, <1>10 DEF Grown
<1>16. PICK job : job = Idle
  OBVIOUS
<1>17. /\ job \in PayablesJob /\ DecisionKnown(job, pays2, bs2, requests, decisions)
       /\ jobs' = [jobs EXCEPT ![w] = job]
  BY <1>16, IdlePayables, AtOnceIdle DEF MarkPaymentBatchPaid
<1>18. UNCHANGED <<reversals, approvals, transactions>>
  BY DEF MarkPaymentBatchPaid
<1> QED
  BY <1>5, <1>11, <1>12, <1>13, <1>14, <1>15, <1>17, <1>18, PayablesStepInductive
  DEF PayablesInductive, approvals

LEMMA HearOfReversalInductive ==
    ASSUME PayablesInductive, NEW w \in Workers, HearOfReversal(w)
    PROVE  PayablesInductive' /\ PayablesGrow
<1>1. PICK d, s : d = jobs[w].decision /\ s = requests[decisions[d].req].of
  OBVIOUS
<1>2. PICK p, amount : p = settlements[s].payable /\ amount = settlements[s].amount
  OBVIOUS
<1>3. jobs' = [jobs EXCEPT ![w] = Idle] /\ UNCHANGED <<batches, approvals, transactions>>
  BY DEF HearOfReversal, Finish
<1>4. CASE UNCHANGED money
  BY <1>3, <1>4, IdlePayables, OnlyPayablesJob DEF money
<1>5. CASE /\ LineReversible(s)
           /\ payables' = [payables EXCEPT ![p] = Unpaid(payables[p], amount)]
           /\ settlements' = [settlements EXCEPT ![s] = MarkedReversed(settlements[s])]
           /\ reversals' = Append(reversals, s)
  <2>1. s \in DOMAIN settlements /\ p \in DOMAIN payables
    <3>1. decisions[d].req \in DOMAIN requests /\ requests[decisions[d].req].kind = "reversal"
      BY <1>1, PayablesJobOf
      DEF HearOfReversal, DecisionKnown, Decided, PayablesInductive, DecisionsOK
    <3>2. s \in DOMAIN settlements
      BY <1>1, <3>1 DEF PayablesInductive, RequestsOK
    <3> QED
      BY <1>2, <3>2 DEF PayablesInductive, LinesOK
  <2>2. /\ settlements[s] \in Settlement /\ payables[p] \in Payable /\ amount \in Nat
        /\ settlements \in Seq(Settlement) /\ payables \in Seq(Payable)
        /\ ~ settlements[s].reversed /\ amount <= payables[p].paid
    BY <1>2, <1>5, <2>1, PayableRows, AmountsAssumption DEF Settlement, LineReversible
  <2>3. PICK line : line = MarkedReversed(settlements[s])
    OBVIOUS
  <2>4. /\ line \in Settlement /\ line.payable = p /\ line.batch = settlements[s].batch
        /\ line.reversed
    <3>1. ASSUME NEW x \in Settlement
          PROVE  /\ MarkedReversed(x) \in Settlement /\ MarkedReversed(x).payable = x.payable
                 /\ MarkedReversed(x).batch = x.batch /\ MarkedReversed(x).reversed
      BY DEF Settlement, MarkedReversed
    <3> QED
      BY <1>2, <2>2, <2>3, <3>1
  <2>5. PICK pays2, lines2, revs2 :
            pays2 = payables' /\ lines2 = settlements' /\ revs2 = reversals'
    OBVIOUS
  <2>6. PICK row : row = Unpaid(payables[p], amount)
    OBVIOUS
  <2>7. /\ row \in Payable /\ row.paid = payables[p].paid - amount
        /\ row.entered = payables[p].entered
    BY <2>2, <2>6, UnpaidRow
  <2>8. /\ pays2 \in Seq(Payable) /\ DOMAIN pays2 = DOMAIN payables
        /\ pays2[p] = row /\ \A q \in DOMAIN payables \ {p} : pays2[q] = payables[q]
    <3>1. pays2 = [payables EXCEPT ![p] = row]
      BY <1>5, <2>5, <2>6
    <3> QED
      BY <2>1, <2>2, <2>7, <3>1, PurchaseRowReplaced
  <2>9. lines2 = [settlements EXCEPT ![s] = line]
    BY <1>5, <2>3, <2>5
  <2>10. /\ lines2 \in Seq(Settlement) /\ DOMAIN lines2 = DOMAIN settlements
         /\ lines2[s] = line /\ \A k \in DOMAIN settlements \ {s} : lines2[k] = settlements[k]
    BY <2>1, <2>2, <2>4, <2>9, PurchaseRowReplaced
  <2>11. LinesOK(settlements, reversals, payables, batches)
    BY DEF PayablesInductive
  <2>12. revs2 \in Seq(DOMAIN settlements)
    BY <1>5, <2>1, <2>5, <2>11, RowAdded DEF LinesOK
  <2>13. LinesOK(lines2, revs2, pays2, batches)
    <3>1. \A k \in DOMAIN lines2 : /\ lines2[k].payable \in DOMAIN pays2
                                   /\ lines2[k].batch \in DOMAIN batches
      BY <2>1, <2>4, <2>8, <2>10, <2>11 DEF LinesOK
    <3> QED
      BY <2>10, <2>12, <3>1 DEF LinesOK
  <2>14. PaidOK(pays2, lines2, transactions)
    <3>1. ASSUME NEW q \in DOMAIN pays2, ~ PaidByTransaction(transactions, q), ~ pays2[q].entered
          PROVE  pays2[q].paid = SettledBy(lines2, q)
      <4>1. payables[q].paid = SettledBy(settlements, q)
        BY <2>7, <2>8, <3>1 DEF PayablesInductive, PaidOK
      <4>2. SettledBy(lines2, q)
              = SettledBy(settlements, q) + (Standing(line, q) - Standing(settlements[s], q))
        <5>1. line \in Settlement /\ settlements \in Seq(Settlement)
          BY <2>2, <2>4
        <5>2. s \in DOMAIN settlements
          BY <2>1
        <5> QED
          BY <2>9, <5>1, <5>2, SettledLess
      <4>3. Standing(line, q) = 0 /\ Standing(settlements[s], q) = IF q = p THEN amount ELSE 0
        BY <1>2, <2>2, <2>4 DEF Standing
      <4>4. payables[q].paid \in Nat /\ SettledBy(settlements, q) \in Nat
        <5>1. payables[q] \in Payable
          BY <2>2, <2>8, <3>1
        <5>2. SettledBy(settlements, q) \in Nat
          BY <2>2, SettledNat
        <5> QED
          BY <5>1, <5>2 DEF Payable
      <4> QED
        BY <2>2, <2>7, <2>8, <4>1, <4>2, <4>3, <4>4
    <3> QED
      BY <2>8, <3>1, PayableRows DEF PaidOK
  <2>15. Grown(payables, pays2, batches, batches, requests, requests, decisions, decisions)
    BY <2>8 DEF Grown
  <2>16. BatchesOK(batches, pays2)
    BY <2>8, BatchesStay DEF PayablesInductive
  <2>17. RequestsOK(requests, batches, lines2)
    BY <2>10, RequestsStay DEF PayablesInductive
  <2>18. PICK job : job = Idle
    OBVIOUS
  <2>19. /\ job \in PayablesJob /\ DecisionKnown(job, pays2, batches, requests, decisions)
         /\ jobs' = [jobs EXCEPT ![w] = job]
    BY <1>3, <2>18, IdlePayables
  <2> QED
    BY <1>3, <2>5, <2>13, <2>14, <2>15, <2>16, <2>17, <2>19, PayablesStepInductive
    DEF PayablesInductive, approvals
<1> QED
  BY <1>1, <1>2, <1>4, <1>5 DEF HearOfReversal, Decided

-----------------------------------------------------------------------------
(* Theorems                                                                *)

LEMMA PayablesNextInductive ==
    PayablesInductive /\ [PayablesNext]_payablesVars => PayablesInductive' /\ PayablesGrow
<1> SUFFICES ASSUME PayablesInductive, [PayablesNext]_payablesVars
             PROVE  PayablesInductive' /\ PayablesGrow
  OBVIOUS
<1>1. ASSUME NEW w \in Workers, Arrive(w) PROVE PayablesInductive' /\ PayablesGrow
  <2>1. CASE \E amount \in Amounts \cup {Billed}, paid \in Entered \cup {0},
                invoice \in {"none", "PENDING"} :
                 CreatePayable(w, NewPayable(amount, paid, invoice))
    BY <2>1, CreatePayableInductive
  <2>2. CASE \E p \in DOMAIN payables : VoidPayable(w, p) \/ CreateTransaction(w, p)
    BY <2>2, VoidPayableInductive, CreateTransactionInductive
  <2>3. CASE \/ \E p \in DOMAIN payables, amount \in Amounts \cup {NotGiven},
                   paid \in Entered \cup {NotGiven} : ReadForEdit(w, p, amount, paid)
             \/ \E b \in DOMAIN batches : ReadForSubmit(w, b)
             \/ \E r \in DOMAIN requests : LoadRequest(w, r)
    BY <2>3, ReadersOfPayablesInductive
  <2>4. CASE \E ps \in SUBSET DOMAIN payables : \E items \in [ps -> Amounts] :
                 CreatePaymentBatch(w, items)
    BY <2>4, CreatePaymentBatchInductive
  <2>5. CASE \E b \in DOMAIN batches : MarkPaymentBatchPaid(w, b)
    BY <2>5, MarkPaymentBatchPaidInductive
  <2>6. CASE \E s \in DOMAIN settlements : ReverseSettlementAudit(w, s)
    BY <2>6, ReverseSettlementAuditInductive
  <2>7. CASE \E x \in DOMAIN transactions, next \in {"PENDING", "PAID", "REJECTED", "CANCELLED"} :
                 UpdateTransactionStatus(w, x, next)
    BY <2>7, UpdateTransactionInductive
  <2> QED
    BY <1>1, <2>1, <2>2, <2>3, <2>4, <2>5, <2>6, <2>7 DEF Arrive
<1>2. ASSUME NEW w \in Workers, ServePayables(w) PROVE PayablesInductive' /\ PayablesGrow
  BY <1>2, EditInductive, CreateRequestInductive, SaveSubmittedInductive, DecideInductive,
     WithdrawInductive, HearOfBatchInductive, SaveDecidedInductive,
     ApproveBatchPayablesInductive, HearOfReversalInductive
  DEF ServePayables
<1>3. ASSUME NEW w \in Workers, AbandonPayment(w) PROVE PayablesInductive' /\ PayablesGrow
  BY <1>3, ReadersOfPayablesInductive
<1>4. CASE UNCHANGED payablesVars
  BY <1>4 DEF payablesVars, approvals, PayablesInductive, PayablesGrow, Grown
<1> QED
  BY <1>1, <1>2, <1>3, <1>4 DEF PayablesNext, PayablesStep

LEMMA PayablesInitInductive == PayablesInit => PayablesInductive
<1> SUFFICES ASSUME PayablesInit PROVE PayablesInductive
  OBVIOUS
<1>1. /\ payables = <<>> /\ batches = <<>> /\ settlements = <<>> /\ reversals = <<>>
      /\ requests = <<>> /\ decisions = <<>> /\ transactions = <<>>
      /\ jobs = [w \in Workers |-> Idle]
  BY DEF PayablesInit
<1>2. /\ BatchesOK(batches, payables) /\ RequestsOK(requests, batches, settlements)
      /\ DecisionsOK(decisions, requests)
  BY <1>1 DEF BatchesOK, RequestsOK, DecisionsOK
<1>3. LinesOK(settlements, reversals, payables, batches)
  BY <1>1 DEF LinesOK
<1>4. PaidOK(payables, settlements, transactions)
  BY <1>1 DEF PaidOK
<1>5. PayablesJobsOK(jobs, payables, batches, requests, decisions)
  BY <1>1, IdlePayables DEF PayablesJobsOK
<1> QED
  BY <1>2, <1>3, <1>4, <1>5 DEF PayablesInductive

(* Batches, lines, requests and payables keep agreeing.                    *)
THEOREM PayablesInvariant == PayablesSpec => []PayablesInductive
BY PayablesInitInductive, PayablesNextInductive, PTL DEF PayablesSpec

(* The rows stay rows: no payable has paid less than nothing.              *)
THEOREM PayablesTypeCorrect == PayablesSpec => []PayablesTypeOK
<1>1. PayablesInductive /\ overlap \in Overlap => PayablesTypeOK
  <2> SUFFICES ASSUME PayablesInductive, overlap \in Overlap PROVE PayablesTypeOK
    OBVIOUS
  <2>1. ASSUME NEW b \in DOMAIN batches PROVE IsBatch(batches[b])
    BY PayableRows, BatchRowFacts DEF PayablesInductive, BatchesOK, IsBatch
  <2>2. reversals \in Seq(DOMAIN settlements) /\ jobs \in [Workers -> PayablesJob]
    BY DEF PayablesInductive, LinesOK, PayablesJobsOK
  <2>3. decisions \in Seq(Decision)
    BY DEF PayablesInductive, DecisionsOK
  <2> QED
    BY <2>1, <2>2, <2>3, PayableRows DEF PayablesTypeOK
<1>2. PayablesInit => overlap \in Overlap
  BY DEF PayablesInit
<1>3. overlap \in Overlap /\ [PayablesNext]_payablesVars => (overlap \in Overlap)'
  BY DEF PayablesNext, payablesVars
<1> QED
  BY <1>1, <1>2, <1>3, PayablesInvariant, PTL DEF PayablesSpec

(* Until a transaction pays its invoice or a clerk enters what is paid, a  *)
(* payable has paid what its lines that stand add up to, however edits,    *)
(* payments and reversals overlap.                                         *)
THEOREM PaidAsSettled == PayablesSpec => []PaidIsSettled
<1>1. PayablesInductive => PaidIsSettled
  <2> SUFFICES ASSUME PayablesInductive, NEW p \in DOMAIN payables, PaidFor(p) = {},
                      ~ payables[p].entered
               PROVE  payables[p].paid = Settled(p)
    BY DEF PaidIsSettled
  <2>1. ~ PaidByTransaction(transactions, p)
    BY DEF PaidFor, PaidByTransaction
  <2>2. payables[p].paid = SettledBy(settlements, p)
    BY <2>1 DEF PayablesInductive, PaidOK
  <2>3. DOMAIN settlements = 1 .. Len(settlements)
    BY PayableRows
  <2>4. Settled(p) = SettledBy(settlements, p)
    BY <2>3 DEF Settled, SettledBy, Standing
  <2> QED
    BY <2>2, <2>4
<1> QED
  BY <1>1, PayablesInvariant, PTL

-----------------------------------------------------------------------------
(* What was moved, and on which approval                                   *)

Hears(job, d) == job.op \in {"hear", "saveDecided"} /\ job.decision = d

ApprovalsIn(decs, reqs, kind, of) ==
    {d \in DOMAIN decs : /\ decs[d].outcome = "APPROVED"
                         /\ reqs[decs[d].req].kind = kind /\ reqs[decs[d].req].of = of}

(* The approvals of batch b that no listener is still at                   *)
CarriedOut(js, decs, reqs, b) ==
    {d \in ApprovalsIn(decs, reqs, "batch", b) : \A w \in Workers : ~ Hears(js[w], d)}

LinesIn(lines, b, p) == {s \in DOMAIN lines : lines[s].batch = b /\ lines[s].payable = p}

(* A batch that is approved may pay once more.                             *)
Paying(batch) == IF batch.status = "APPROVED" THEN 1 ELSE 0

PaidOnce(lines, bs, js, decs, reqs) ==
    \A b \in DOMAIN bs, p \in Nat :
        Cardinality(LinesIn(lines, b, p)) + Paying(bs[b])
            <= Cardinality(CarriedOut(js, decs, reqs, b))

HeardOnce(js) == \A v, w \in Workers, d \in Nat : Hears(js[v], d) /\ Hears(js[w], d) => v = w

ReversedOnce(lines, revs, decs, reqs) ==
    /\ \A i \in DOMAIN revs : /\ lines[revs[i]].reversed
                              /\ ApprovalsIn(decs, reqs, "reversal", revs[i]) # {}
    /\ \A i, j \in DOMAIN revs : revs[i] = revs[j] => i = j

MovedSoundly ==
    /\ PaidOnce(settlements, batches, jobs, decisions, requests)
    /\ HeardOnce(jobs)
    /\ ReversedOnce(settlements, reversals, decisions, requests)

(* Only w is at something else now, and at no decision it was not at, but  *)
(* for a new one.                                                          *)
Listens(w) ==
    /\ \A v \in Workers \ {w} : jobs'[v] = jobs[v]
    /\ \A d \in DOMAIN decisions : Hears(jobs'[w], d) => Hears(jobs[w], d)

LEMMA ListensTo ==
    ASSUME PayablesInductive, NEW w \in Workers, NEW job, jobs' = [jobs EXCEPT ![w] = job],
           \A d \in DOMAIN decisions : Hears(job, d) => Hears(jobs[w], d)
    PROVE  Listens(w)
<1>1. jobs \in [Workers -> PayablesJob]
  BY DEF PayablesInductive, PayablesJobsOK
<1>2. jobs'[w] = job /\ \A v \in Workers \ {w} : jobs'[v] = jobs[v]
  BY <1>1
<1> QED
  BY <1>2 DEF Listens

LEMMA ListensToNothing ==
    ASSUME PayablesInductive, NEW w \in Workers, NEW job, jobs' = [jobs EXCEPT ![w] = job],
           job.op \notin {"hear", "saveDecided"}
    PROVE  Listens(w)
<1>1. \A d \in DOMAIN decisions : ~ Hears(job, d)
  BY DEF Hears
<1> QED
  BY <1>1, ListensTo

LEMMA ListensAsBefore ==
    ASSUME NEW w \in Workers, Finish(w) \/ AtOnce(w), PayablesInductive
    PROVE  Listens(w)
<1>1. CASE Finish(w)
  <2>1. PICK job : job = Idle
    OBVIOUS
  <2>2. job.op \notin {"hear", "saveDecided"}
    BY <2>1 DEF Idle
  <2> QED
    BY <1>1, <2>1, <2>2, ListensToNothing DEF Finish
<1>2. CASE AtOnce(w)
  BY <1>2 DEF AtOnce, Listens
<1> QED
  BY <1>1, <1>2

LEMMA ApprovalsStay ==
    ASSUME PayablesInductive, PayablesGrow, NEW kind, NEW of
    PROVE  ApprovalsIn(decisions, requests, kind, of)
             \subseteq ApprovalsIn(decisions', requests', kind, of)
<1>1. PICK decs2, reqs2 : decs2 = decisions' /\ reqs2 = requests'
  OBVIOUS
<1>2. /\ DOMAIN decisions \subseteq DOMAIN decs2
      /\ \A r \in DOMAIN requests : reqs2[r].kind = requests[r].kind /\ reqs2[r].of = requests[r].of
      /\ \A d \in DOMAIN decisions : decs2[d] = decisions[d]
  BY <1>1 DEF PayablesGrow, Grown
<1>3. \A d \in DOMAIN decisions : decisions[d].req \in DOMAIN requests
  BY DEF PayablesInductive, DecisionsOK
<1> QED
  BY <1>1, <1>2, <1>3 DEF ApprovalsIn

LEMMA CarriedOutFinite ==
    ASSUME NEW js, NEW decs, NEW reqs, NEW b, DecisionsOK(decs, reqs)
    PROVE  /\ IsFiniteSet(CarriedOut(js, decs, reqs, b))
           /\ Cardinality(CarriedOut(js, decs, reqs, b)) \in Nat
<1>1. DOMAIN decs = 1 .. Len(decs) /\ Len(decs) \in Nat
  BY DEF DecisionsOK
<1>2. IsFiniteSet(1 .. Len(decs))
  BY <1>1, FS_Interval
<1>3. CarriedOut(js, decs, reqs, b) \subseteq 1 .. Len(decs)
  BY <1>1 DEF CarriedOut, ApprovalsIn
<1> QED
  BY <1>2, <1>3, FS_Subset, FS_CardinalityType

LEMMA LinesInFinite ==
    ASSUME NEW lines \in Seq(Settlement), NEW b, NEW p
    PROVE  IsFiniteSet(LinesIn(lines, b, p)) /\ Cardinality(LinesIn(lines, b, p)) \in Nat
<1>1. DOMAIN lines = 1 .. Len(lines) /\ Len(lines) \in Nat
  OBVIOUS
<1>2. IsFiniteSet(1 .. Len(lines))
  BY <1>1, FS_Interval
<1>3. LinesIn(lines, b, p) \subseteq 1 .. Len(lines)
  BY <1>1 DEF LinesIn
<1> QED
  BY <1>2, <1>3, FS_Subset, FS_CardinalityType

LEMMA CarriedOutStays ==
    ASSUME PayablesInductive, PayablesInductive', PayablesGrow, NEW w \in Workers, Listens(w),
           NEW b
    PROVE  LET old == CarriedOut(jobs, decisions, requests, b)
               new == CarriedOut(jobs', decisions', requests', b)
           IN  /\ old \subseteq new /\ IsFiniteSet(old) /\ IsFiniteSet(new)
               /\ Cardinality(old) \in Nat /\ Cardinality(new) \in Nat
               /\ Cardinality(old) <= Cardinality(new)
<1> DEFINE old == CarriedOut(jobs, decisions, requests, b)
           new == CarriedOut(jobs', decisions', requests', b)
<1>1. ASSUME NEW d \in old PROVE d \in new
  <2>1. d \in ApprovalsIn(decisions', requests', "batch", b) /\ d \in DOMAIN decisions
    BY <1>1, ApprovalsStay DEF CarriedOut, ApprovalsIn
  <2>2. \A v \in Workers : ~ Hears(jobs[v], d)
    BY <1>1 DEF CarriedOut
  <2>3. \A v \in Workers : ~ Hears(jobs'[v], d)
    BY <2>1, <2>2 DEF Listens
  <2> QED
    BY <2>1, <2>3 DEF CarriedOut
<1>2. IsFiniteSet(old) /\ Cardinality(old) \in Nat
  BY CarriedOutFinite DEF PayablesInductive
<1>3. IsFiniteSet(new) /\ Cardinality(new) \in Nat
  <2>1. PICK js2, decs2, reqs2 : js2 = jobs' /\ decs2 = decisions' /\ reqs2 = requests'
    OBVIOUS
  <2>2. DecisionsOK(decs2, reqs2)
    BY <2>1 DEF PayablesInductive
  <2>3. /\ IsFiniteSet(CarriedOut(js2, decs2, reqs2, b))
        /\ Cardinality(CarriedOut(js2, decs2, reqs2, b)) \in Nat
    BY <2>2, CarriedOutFinite
  <2> QED
    BY <2>1, <2>3
<1> HIDE DEF old, new
<1>4. old \subseteq new
  BY <1>1
<1>5. Cardinality(old) <= Cardinality(new)
  BY <1>2, <1>3, <1>4, FS_Subset
<1> QED
  BY <1>2, <1>3, <1>4, <1>5 DEF old, new

LEMMA HeardOnceStays ==
    ASSUME PayablesInductive, HeardOnce(jobs), NEW w \in Workers, Listens(w)
    PROVE  HeardOnce(jobs')
<1>1. PICK js2 : js2 = jobs'
  OBVIOUS
<1>2. /\ \A v \in Workers \ {w} : js2[v] = jobs[v]
      /\ \A d \in DOMAIN decisions : Hears(js2[w], d) => Hears(jobs[w], d)
  BY <1>1 DEF Listens
<1>3. \A v \in Workers : \A d : Hears(jobs[v], d) => d \in DOMAIN decisions
  BY PayablesJobOf DEF Hears, DecisionKnown
<1>4. HeardOnce(js2)
  <2> SUFFICES ASSUME NEW u \in Workers, NEW v \in Workers, NEW d \in Nat,
                      Hears(js2[u], d), Hears(js2[v], d), u # v
               PROVE  FALSE
    BY DEF HeardOnce
  <2>1. Hears(jobs[u], d) /\ Hears(jobs[v], d)
    BY <1>2, <1>3
  <2> QED
    BY <2>1 DEF HeardOnce
<1> QED
  BY <1>1, <1>4

(* What holds of the lines in all steps that add none                      *)
LEMMA ReversedOnceStays ==
    ASSUME PayablesInductive, MovedSoundly, PayablesGrow, reversals' = reversals,
           \A s \in DOMAIN settlements : settlements'[s] = settlements[s]
    PROVE  ReversedOnce(settlements', reversals', decisions', requests')
<1>1. PICK lines2, decs2, reqs2 :
          lines2 = settlements' /\ decs2 = decisions' /\ reqs2 = requests'
  OBVIOUS
<1>2. ReversedOnce(settlements, reversals, decisions, requests)
  BY DEF MovedSoundly
<1>3. \A i \in DOMAIN reversals : reversals[i] \in DOMAIN settlements
  BY DEF PayablesInductive, LinesOK
<1>4. \A i \in DOMAIN reversals :
          ApprovalsIn(decisions, requests, "reversal", reversals[i])
            \subseteq ApprovalsIn(decs2, reqs2, "reversal", reversals[i])
  BY <1>1, ApprovalsStay
<1>5. \A s \in DOMAIN settlements : lines2[s] = settlements[s]
  BY <1>1
<1>6. ReversedOnce(lines2, reversals, decs2, reqs2)
  BY <1>2, <1>3, <1>4, <1>5 DEF ReversedOnce
<1> QED
  BY <1>1, <1>6

(* No line is added, nothing comes back, and no batch becomes payable.     *)
LEMMA MovedStays ==
    ASSUME PayablesInductive, PayablesInductive', MovedSoundly, PayablesGrow,
           NEW w \in Workers, Listens(w), settlements' = settlements, reversals' = reversals,
           \A b \in DOMAIN batches' : Paying(batches'[b]) = 0 \/ (b \in DOMAIN batches
                                                          /\ batches'[b] = batches[b])
    PROVE  MovedSoundly'
<1>1. PICK bs2, js2, decs2, reqs2 :
          /\ bs2 = batches' /\ js2 = jobs' /\ decs2 = decisions' /\ reqs2 = requests'
  OBVIOUS
<1>2. \A b \in DOMAIN bs2 : Paying(bs2[b]) = 0 \/ (b \in DOMAIN batches /\ bs2[b] = batches[b])
  BY <1>1
<1>3. ASSUME NEW b \in DOMAIN bs2, NEW p \in Nat
      PROVE  Cardinality(LinesIn(settlements, b, p)) + Paying(bs2[b])
                 <= Cardinality(CarriedOut(js2, decs2, reqs2, b))
  <2>1. /\ Cardinality(CarriedOut(jobs, decisions, requests, b)) \in Nat
        /\ Cardinality(CarriedOut(js2, decs2, reqs2, b)) \in Nat
        /\ Cardinality(CarriedOut(jobs, decisions, requests, b))
             <= Cardinality(CarriedOut(js2, decs2, reqs2, b))
    BY <1>1, CarriedOutStays
  <2>2. CASE b \in DOMAIN batches
    <3>1. Paying(bs2[b]) <= Paying(batches[b]) /\ Paying(bs2[b]) \in Nat /\ Paying(batches[b]) \in Nat
      BY <1>2, <2>2 DEF Paying
    <3>2. Cardinality(LinesIn(settlements, b, p)) + Paying(batches[b])
              <= Cardinality(CarriedOut(jobs, decisions, requests, b))
      BY <2>2 DEF MovedSoundly, PaidOnce
    <3>3. Cardinality(LinesIn(settlements, b, p)) \in Nat
      BY PayableRows, LinesInFinite
    <3> QED
      BY <2>1, <3>1, <3>2, <3>3
  <2>3. CASE b \notin DOMAIN batches
    <3>1. Paying(bs2[b]) = 0
      BY <1>2, <2>3
    <3>2. LinesIn(settlements, b, p) = {}
      BY <2>3 DEF LinesIn, PayablesInductive, LinesOK
    <3>3. Cardinality(LinesIn(settlements, b, p)) = 0
      BY <3>2, FS_EmptySet
    <3> QED
      BY <2>1, <3>1, <3>3
  <2> QED
    BY <2>2, <2>3
<1>4. PaidOnce(settlements, bs2, js2, decs2, reqs2)
  BY <1>3 DEF PaidOnce
<1>5. HeardOnce(jobs')
  BY HeardOnceStays DEF MovedSoundly
<1>6. ReversedOnce(settlements', reversals', decisions', requests')
  BY ReversedOnceStays
<1> QED
  BY <1>1, <1>4, <1>5, <1>6 DEF MovedSoundly

LEMMA MovedQuietly ==
    ASSUME PayablesInductive, PayablesInductive', MovedSoundly, PayablesGrow,
           NEW w \in Workers, Listens(w), UNCHANGED <<batches, settlements, reversals>>
    PROVE  MovedSoundly'
BY MovedStays

(* A batch is saved with another status than APPROVED.                     *)
LEMMA NotPayingSaved ==
    ASSUME PayablesInductive, NEW b \in DOMAIN batches, NEW status \in BatchStatus,
           status # "APPROVED", NEW bs2, bs2 = [batches EXCEPT ![b].status = status]
    PROVE  \A c \in DOMAIN bs2 : Paying(bs2[c]) = 0 \/ (c \in DOMAIN batches /\ bs2[c] = batches[c])
<1>1. PICK row : row = [batches[b] EXCEPT !.status = status]
  OBVIOUS
<1>2. row.status = status
  BY <1>1, PayableRows, BatchRowSaved
<1>3. bs2 = [batches EXCEPT ![b] = row] /\ DOMAIN batches = 1 .. Len(batches)
  BY <1>1, PayableRows
<1>4. bs2[b] = row /\ \A c \in DOMAIN batches \ {b} : bs2[c] = batches[c]
  BY <1>3
<1> QED
  BY <1>2, <1>3, <1>4 DEF Paying

LEMMA SaveSubmittedMoved ==
    ASSUME PayablesInductive, PayablesInductive', MovedSoundly, PayablesGrow,
           NEW w \in Workers, SaveSubmitted(w)
    PROVE  MovedSoundly'
<1>1. PICK b, status, bs2 : b = jobs[w].batch /\ status = "SUBMITTED" /\ bs2 = batches'
  OBVIOUS
<1>2. /\ b \in DOMAIN batches /\ status \in BatchStatus /\ status # "APPROVED"
  BY <1>1, PayablesJobOf DEF SaveSubmitted, DecisionKnown, BatchStatus
<1>3. bs2 = [batches EXCEPT ![b].status = status]
  BY <1>1 DEF SaveSubmitted
<1>4. \A c \in DOMAIN bs2 : Paying(bs2[c]) = 0 \/ (c \in DOMAIN batches /\ bs2[c] = batches[c])
  BY <1>2, <1>3, NotPayingSaved
<1>5. Listens(w) /\ settlements' = settlements /\ reversals' = reversals
  BY ListensAsBefore DEF SaveSubmitted, money
<1> QED
  BY <1>1, <1>4, <1>5, MovedStays

LEMMA CreatePaymentBatchMoved ==
    ASSUME PayablesInductive, PayablesInductive', MovedSoundly, PayablesGrow,
           NEW w \in Workers, NEW items, CreatePaymentBatch(w, items)
    PROVE  MovedSoundly'
<1>1. PICK row, bs2 : row = [items |-> items, status |-> "DRAFT"] /\ bs2 = batches'
  OBVIOUS
<1>2. bs2 = Append(batches, row) /\ batches \in Seq(BatchRow) /\ Paying(row) = 0
  BY <1>1, PayableRows DEF CreatePaymentBatch, Paying
<1>3. \A c \in DOMAIN bs2 : bs2[c] = row \/ (c \in DOMAIN batches /\ bs2[c] = batches[c])
  BY <1>2
<1>4. \A c \in DOMAIN bs2 : Paying(bs2[c]) = 0 \/ (c \in DOMAIN batches /\ bs2[c] = batches[c])
  BY <1>2, <1>3
<1>5. Listens(w) /\ settlements' = settlements /\ reversals' = reversals
  BY ListensAsBefore DEF CreatePaymentBatch, money
<1> QED
  BY <1>1, <1>4, <1>5, MovedStays

(* The listener that saves an approval has done with it.                   *)
LEMMA SaveDecidedMoved ==
    ASSUME PayablesInductive, PayablesInductive', MovedSoundly, PayablesGrow,
           NEW w \in Workers, SaveDecided(w)
    PROVE  MovedSoundly'
<1>1. PICK b, status, d : b = jobs[w].batch /\ status = jobs[w].status /\ d = jobs[w].decision
  OBVIOUS
<1>2. /\ b \in DOMAIN batches /\ status \in Outcomes /\ d \in DOMAIN decisions
      /\ decisions[d].outcome = status /\ requests[decisions[d].req].kind = "batch"
      /\ requests[decisions[d].req].of = b /\ Hears(jobs[w], d) /\ d \in Nat
  BY <1>1, PayablesJobOf, PayablesJobFields DEF SaveDecided, DecisionKnown, Hears
<1>3. PICK bs2, js2 : bs2 = batches' /\ js2 = jobs'
  OBVIOUS
<1>4. bs2 = [batches EXCEPT ![b].status = status] /\ status \in BatchStatus
  BY <1>1, <1>2, <1>3 DEF SaveDecided, Outcomes, BatchStatus
<1>5. PICK job : job = IF status = "APPROVED" THEN [op |-> "flag", batch |-> b] ELSE Idle
  OBVIOUS
<1>6. jobs' = [jobs EXCEPT ![w] = job] /\ job.op \notin {"hear", "saveDecided"}
  BY <1>1, <1>5 DEF SaveDecided, Proceed, Finish, Idle
<1>7. Listens(w)
  BY <1>6, ListensToNothing
<1>8. UNCHANGED <<settlements, reversals, decisions, requests>>
  BY DEF SaveDecided, money, approvals
<1>9. CASE status # "APPROVED"
  <2>1. \A c \in DOMAIN bs2 : Paying(bs2[c]) = 0 \/ (c \in DOMAIN batches /\ bs2[c] = batches[c])
    BY <1>2, <1>4, <1>9, NotPayingSaved
  <2> QED
    BY <1>3, <1>7, <1>8, <2>1, MovedStays
<1>10. CASE status = "APPROVED"
  <2>1. DOMAIN bs2 = DOMAIN batches /\ \A c \in DOMAIN batches \ {b} : bs2[c] = batches[c]
    BY <1>4
  <2>2. ASSUME NEW c \in DOMAIN batches, NEW p \in Nat
        PROVE  Cardinality(LinesIn(settlements, c, p)) + Paying(bs2[c])
                   <= Cardinality(CarriedOut(js2, decisions, requests, c))
    <3> DEFINE old == CarriedOut(jobs, decisions, requests, c)
               new == CarriedOut(js2, decisions, requests, c)
    <3>1. /\ old \subseteq new /\ IsFiniteSet(old) /\ IsFiniteSet(new)
          /\ Cardinality(old) \in Nat /\ Cardinality(new) \in Nat
          /\ Cardinality(old) <= Cardinality(new)
      <4>1. LET new2 == CarriedOut(jobs', decisions', requests', c)
            IN  /\ old \subseteq new2 /\ IsFiniteSet(old) /\ IsFiniteSet(new2)
                /\ Cardinality(old) \in Nat /\ Cardinality(new2) \in Nat
                /\ Cardinality(old) <= Cardinality(new2)
        BY <1>7, CarriedOutStays
      <4> QED
        BY <1>3, <1>8, <4>1
    <3>2. /\ Cardinality(LinesIn(settlements, c, p)) + Paying(batches[c]) <= Cardinality(old)
          /\ Cardinality(LinesIn(settlements, c, p)) \in Nat
      BY PayableRows, LinesInFinite DEF MovedSoundly, PaidOnce
    <3>3. Paying(batches[c]) \in Nat /\ Paying(bs2[c]) \in 0 .. 1
      BY DEF Paying
    <3>4. CASE c # b
      BY <2>1, <3>1, <3>2, <3>3, <3>4
    <3>5. CASE c = b
      <4>1. d \notin old
        BY <1>2 DEF CarriedOut
      <4>2. d \in new
        <5>1. d \in ApprovalsIn(decisions, requests, "batch", c)
          BY <1>2, <1>10, <3>5 DEF ApprovalsIn
        <5>2. \A v \in Workers : ~ Hears(js2[v], d)
          <6>1. jobs \in [Workers -> PayablesJob]
            BY DEF PayablesInductive, PayablesJobsOK
          <6>2. js2[w] = job /\ \A v \in Workers \ {w} : js2[v] = jobs[v]
            BY <1>3, <1>6, <6>1
          <6>3. \A v \in Workers : Hears(jobs[v], d) => v = w
            BY <1>2 DEF MovedSoundly, HeardOnce
          <6>4. ~ Hears(job, d)
            BY <1>6 DEF Hears
          <6> QED
            BY <6>2, <6>3, <6>4
        <5> QED
          BY <5>1, <5>2 DEF CarriedOut
      <4>3. Cardinality(old) + 1 <= Cardinality(new)
        <5> HIDE DEF old, new
        <5>1. old \cup {d} \subseteq new
          BY <3>1, <4>2
        <5>2. Cardinality(old \cup {d}) = Cardinality(old) + 1 /\ IsFiniteSet(old \cup {d})
          BY <3>1, <4>1, FS_AddElement
        <5>3. Cardinality(old \cup {d}) <= Cardinality(new)
          BY <3>1, <5>1, FS_Subset
        <5> QED
          BY <5>2, <5>3
      <4> QED
        BY <3>1, <3>2, <3>3, <4>3
    <3> QED
      BY <3>4, <3>5
  <2>3. PaidOnce(settlements, bs2, js2, decisions, requests)
    BY <2>1, <2>2 DEF PaidOnce
  <2>4. HeardOnce(jobs')
    BY <1>7, HeardOnceStays DEF MovedSoundly
  <2>5. ReversedOnce(settlements', reversals', decisions', requests')
    BY <1>8, ReversedOnceStays
  <2> QED
    BY <1>3, <1>8, <2>3, <2>4, <2>5 DEF MovedSoundly
<1> QED
  BY <1>9, <1>10

(* A batch has one line more for each of its payables when it is paid.     *)
LEMMA OneLineMore ==
    ASSUME NEW b \in DOMAIN batches, IsFiniteSet(DOMAIN batches[b].items),
           NEW lines \in Seq(Settlement), NEW lines2, lines2 = lines \o PaymentLines(b),
           PaymentLines(b) \in Seq(Settlement), NEW c, NEW p
    PROVE  Cardinality(LinesIn(lines2, c, p))
             <= Cardinality(LinesIn(lines, c, p)) + (IF c = b THEN 1 ELSE 0)
<1> DEFINE D      == DOMAIN batches[b].items
           n      == Cardinality(D)
           listed == Enumeration(D)
           more   == PaymentLines(b)
           m      == Len(lines)
<1>1. n \in Nat /\ listed \in [1 .. n -> D] /\ \A i, j \in 1 .. n : listed[i] = listed[j] => i = j
  BY EnumerationFacts
<1>2. more = [i \in 1 .. n |-> [payable |-> listed[i], batch |-> b,
                                amount |-> batches[b].items[listed[i]], reversed |-> FALSE]]
  BY DEF PaymentLines
<1> HIDE DEF D, n, listed
<1>3. /\ DOMAIN more = 1 .. n
      /\ \A i \in DOMAIN more : more[i].payable = listed[i] /\ more[i].batch = b
  BY <1>2
<1> HIDE DEF more
<1>4. /\ m \in Nat /\ Len(more) = n /\ DOMAIN lines = 1 .. m /\ DOMAIN lines2 = 1 .. (m + n)
      /\ \A s \in 1 .. m : lines2[s] = lines[s]
      /\ \A i \in 1 .. n : lines2[m + i] = more[i]
  <2>1. more \in Seq(Settlement) /\ lines2 = lines \o more
    BY DEF more
  <2>2. Len(more) = n
    BY <1>1, <1>3, <2>1
  <2>3. /\ m \in Nat /\ DOMAIN lines = 1 .. m /\ Len(lines2) = m + Len(more)
        /\ DOMAIN lines2 = 1 .. (m + Len(more))
    BY <2>1
  <2>4. /\ \A s \in 1 .. m : lines2[s] = lines[s]
        /\ \A i \in 1 .. Len(more) : lines2[m + i] = more[i]
    BY <2>1
  <2> QED
    BY <2>2, <2>3, <2>4
<1> HIDE DEF m
<1>5. ASSUME NEW s \in DOMAIN lines2, s \notin DOMAIN lines
      PROVE  \E i \in 1 .. n : s = m + i
  <2>1. s - m \in 1 .. n /\ s = m + (s - m)
    BY <1>1, <1>4, <1>5
  <2> QED
    BY <2>1
<1>6. CASE \E s \in LinesIn(lines2, c, p) : s \notin LinesIn(lines, c, p)
  <2>1. PICK s \in LinesIn(lines2, c, p) : s \notin LinesIn(lines, c, p)
    BY <1>6
  <2>2. s \in DOMAIN lines2 /\ s \notin DOMAIN lines /\ lines2[s].batch = c /\ lines2[s].payable = p
    BY <1>4, <2>1 DEF LinesIn
  <2>3. PICK i \in 1 .. n : s = m + i
    BY <1>5, <2>2
  <2>4. c = b /\ listed[i] = p
    BY <1>3, <1>4, <2>2, <2>3
  <2>5. ASSUME NEW x \in LinesIn(lines2, c, p) PROVE x \in LinesIn(lines, c, p) \cup {s}
    <3>1. CASE x \in DOMAIN lines
      BY <1>4, <2>5, <3>1 DEF LinesIn
    <3>2. CASE x \notin DOMAIN lines
      <4>1. x \in DOMAIN lines2 /\ lines2[x].payable = p
        BY <2>5 DEF LinesIn
      <4>2. PICK j \in 1 .. n : x = m + j
        BY <1>5, <3>2, <4>1
      <4>3. listed[j] = p
        BY <1>3, <1>4, <4>1, <4>2
      <4> QED
        BY <1>1, <2>3, <2>4, <4>2, <4>3
    <3> QED
      BY <3>1, <3>2
  <2>6. LinesIn(lines, c, p) \subseteq LinesIn(lines2, c, p)
    BY <1>1, <1>4 DEF LinesIn
  <2>7. LinesIn(lines2, c, p) = LinesIn(lines, c, p) \cup {s}
    BY <2>1, <2>5, <2>6
  <2>8. Cardinality(LinesIn(lines, c, p) \cup {s}) = Cardinality(LinesIn(lines, c, p)) + 1
    BY <2>1, LinesInFinite, FS_AddElement
  <2> QED
    BY <2>4, <2>7, <2>8, LinesInFinite
<1>7. CASE \A s \in LinesIn(lines2, c, p) : s \in LinesIn(lines, c, p)
  <2>1. LinesIn(lines, c, p) \subseteq LinesIn(lines2, c, p)
    BY <1>1, <1>4 DEF LinesIn
  <2>2. LinesIn(lines, c, p) = LinesIn(lines2, c, p)
    BY <1>7, <2>1
  <2> QED
    BY <2>2, LinesInFinite
<1> QED
  BY <1>6, <1>7

LEMMA MarkPaymentBatchPaidMoved ==
    ASSUME PayablesInductive, PayablesInductive', MovedSoundly, PayablesGrow,
           NEW w \in Workers, NEW b \in DOMAIN batches, MarkPaymentBatchPaid(w, b)
    PROVE  MovedSoundly'
<1>1. PICK bs2, lines2, row : /\ bs2 = batches' /\ lines2 = settlements'
                              /\ row = [batches[b] EXCEPT !.status = "PAID"]
  OBVIOUS
<1>2. Paying(row) = 0 /\ Paying(batches[b]) = 1
  <2>1. row.status = "PAID"
    BY <1>1, PayableRows, BatchRowSaved DEF BatchStatus
  <2> QED
    BY <2>1 DEF Paying, MarkPaymentBatchPaid, Approved
<1>3. DOMAIN bs2 = DOMAIN batches /\ bs2[b] = row
      /\ \A c \in DOMAIN batches \ {b} : bs2[c] = batches[c]
  BY <1>1, PayableRows DEF MarkPaymentBatchPaid
<1>4. IsFiniteSet(DOMAIN batches[b].items)
  <2>1. DOMAIN payables = 1 .. Len(payables) /\ Len(payables) \in Nat
    BY PayableRows
  <2>2. IsFiniteSet(DOMAIN payables)
    BY <2>1, FS_Interval
  <2>3. DOMAIN batches[b].items \subseteq DOMAIN payables
    BY DEF PayablesInductive, BatchesOK
  <2> QED
    BY <2>2, <2>3, FS_Subset
<1>5. lines2 = settlements \o PaymentLines(b) /\ PaymentLines(b) \in Seq(Settlement)
  <2>1. PICK items : items = batches[b].items
    OBVIOUS
  <2>2. batches[b] \in BatchRow /\ b \in Nat
    BY PayableRows
  <2>3. /\ DOMAIN items \subseteq Nat /\ \A q \in DOMAIN items : items[q] \in Amounts
        /\ items \in [DOMAIN items -> Amounts]
    <3>1. PICK ps \in SUBSET Nat : items \in [ps -> Amounts]
      BY <2>1, <2>2 DEF BatchRow
    <3> QED
      BY <3>1
  <2>4. PaymentLines(b) \in Seq(Settlement)
    BY <1>4, <2>1, <2>2, <2>3, PaymentLinesOf
  <2> QED
    BY <1>1, <2>4 DEF MarkPaymentBatchPaid
<1>6. settlements \in Seq(Settlement) /\ lines2 \in Seq(Settlement)
  BY <1>5, PayableRows
<1>7. ASSUME NEW c \in DOMAIN batches, NEW p \in Nat
      PROVE  Cardinality(LinesIn(lines2, c, p)) + Paying(bs2[c])
                 <= Cardinality(CarriedOut(jobs, decisions, requests, c))
  <2>1. /\ Cardinality(LinesIn(settlements, c, p)) + Paying(batches[c])
             <= Cardinality(CarriedOut(jobs, decisions, requests, c))
        /\ Cardinality(CarriedOut(jobs, decisions, requests, c)) \in Nat
        /\ Paying(bs2[c]) \in Nat /\ Paying(batches[c]) \in Nat
    BY CarriedOutFinite DEF MovedSoundly, PaidOnce, PayablesInductive, Paying
  <2>2. /\ IsFiniteSet(LinesIn(settlements, c, p)) /\ Cardinality(LinesIn(settlements, c, p)) \in Nat
        /\ Cardinality(LinesIn(lines2, c, p)) \in Nat
    BY <1>6, LinesInFinite
  <2>3. Paying(bs2[c]) <= Paying(batches[c]) /\ (c = b => Paying(bs2[c]) + 1 <= Paying(batches[c]))
    BY <1>2, <1>3 DEF Paying
  <2>4. Cardinality(LinesIn(lines2, c, p))
          <= Cardinality(LinesIn(settlements, c, p)) + (IF c = b THEN 1 ELSE 0)
    <3>1. PICK lines : lines = settlements
      OBVIOUS
    <3>2. lines \in Seq(Settlement) /\ lines2 = lines \o PaymentLines(b)
      BY <1>5, <1>6, <3>1
    <3>3. Cardinality(LinesIn(lines2, c, p))
            <= Cardinality(LinesIn(lines, c, p)) + (IF c = b THEN 1 ELSE 0)
      BY <1>4, <1>5, <3>2, OneLineMore
    <3> QED
      BY <3>1, <3>3
  <2> QED
    BY <2>1, <2>2, <2>3, <2>4
<1>8. PaidOnce(lines2, bs2, jobs, decisions, requests)
  BY <1>3, <1>7 DEF PaidOnce
<1>9. UNCHANGED <<reversals, decisions, requests, jobs>>
  BY DEF MarkPaymentBatchPaid, approvals, AtOnce
<1>10. ReversedOnce(settlements', reversals', decisions', requests')
  <2>1. \A s \in DOMAIN settlements : lines2[s] = settlements[s]
    BY <1>5, <1>6
  <2> QED
    BY <1>1, <1>9, <2>1, ReversedOnceStays
<1> QED
  BY <1>1, <1>8, <1>9, <1>10 DEF MovedSoundly

(* A line that comes back had not come back.                               *)
LEMMA HearOfReversalMoved ==
    ASSUME PayablesInductive, PayablesInductive', MovedSoundly, PayablesGrow,
           NEW w \in Workers, HearOfReversal(w)
    PROVE  MovedSoundly'
<1>1. PICK d, s : d = jobs[w].decision /\ s = requests[decisions[d].req].of
  OBVIOUS
<1>2. Listens(w) /\ UNCHANGED <<batches, decisions, requests>>
  BY ListensAsBefore DEF HearOfReversal, approvals
<1>3. CASE UNCHANGED money
  BY <1>2, <1>3, MovedQuietly DEF money
<1>4. CASE /\ decisions[d].outcome = "APPROVED" /\ ~ settlements[s].reversed
           /\ settlements' = [settlements EXCEPT ![s] = MarkedReversed(settlements[s])]
           /\ reversals' = Append(reversals, s)
  <2>1. /\ d \in DOMAIN decisions /\ requests[decisions[d].req].kind = "reversal"
        /\ decisions[d].req \in DOMAIN requests
    BY <1>1, PayablesJobOf DEF HearOfReversal, DecisionKnown, Decided, PayablesInductive, DecisionsOK
  <2>2. s \in DOMAIN settlements /\ settlements[s] \in Settlement /\ settlements \in Seq(Settlement)
    BY <1>1, <2>1, PayableRows DEF PayablesInductive, RequestsOK
  <2>3. PICK line, lines2, revs2, js2 :
            /\ line = MarkedReversed(settlements[s]) /\ lines2 = settlements' /\ revs2 = reversals'
            /\ js2 = jobs'
    OBVIOUS
  <2>4. /\ line \in Settlement /\ line.payable = settlements[s].payable
        /\ line.batch = settlements[s].batch /\ line.reversed
    <3>1. ASSUME NEW x \in Settlement
          PROVE  /\ MarkedReversed(x) \in Settlement /\ MarkedReversed(x).payable = x.payable
                 /\ MarkedReversed(x).batch = x.batch /\ MarkedReversed(x).reversed
      BY DEF Settlement, MarkedReversed
    <3> QED
      BY <2>2, <2>3, <3>1
  <2>5. lines2 = [settlements EXCEPT ![s] = line]
    BY <1>4, <2>3
  <2>6. /\ DOMAIN lines2 = DOMAIN settlements /\ lines2[s] = line
        /\ \A k \in DOMAIN settlements \ {s} : lines2[k] = settlements[k]
    BY <2>2, <2>4, <2>5, PurchaseRowReplaced
  <2>7. \A b, p : LinesIn(lines2, b, p) = LinesIn(settlements, b, p)
    BY <2>4, <2>6 DEF LinesIn
  <2>8. PaidOnce(lines2, batches, js2, decisions, requests)
    <3>1. ASSUME NEW b \in DOMAIN batches, NEW p \in Nat
          PROVE  Cardinality(LinesIn(lines2, b, p)) + Paying(batches[b])
                     <= Cardinality(CarriedOut(js2, decisions, requests, b))
      <4>1. /\ Cardinality(CarriedOut(jobs, decisions, requests, b)) \in Nat
            /\ Cardinality(CarriedOut(js2, decisions, requests, b)) \in Nat
            /\ Cardinality(CarriedOut(jobs, decisions, requests, b))
                 <= Cardinality(CarriedOut(js2, decisions, requests, b))
        BY <1>2, <2>3, CarriedOutStays
      <4>2. /\ Cardinality(LinesIn(settlements, b, p)) + Paying(batches[b])
                 <= Cardinality(CarriedOut(jobs, decisions, requests, b))
            /\ Cardinality(LinesIn(settlements, b, p)) \in Nat /\ Paying(batches[b]) \in Nat
        BY <2>2, LinesInFinite DEF MovedSoundly, PaidOnce, Paying
      <4> QED
        BY <2>7, <4>1, <4>2
    <3> QED
      BY <3>1 DEF PaidOnce
  <2>9. ReversedOnce(settlements, reversals, decisions, requests)
        /\ reversals \in Seq(DOMAIN settlements)
    BY DEF MovedSoundly, PayablesInductive, LinesOK
  <2>10. /\ DOMAIN revs2 = DOMAIN reversals \cup {Len(revs2)} /\ revs2[Len(revs2)] = s
         /\ \A i \in DOMAIN reversals : revs2[i] = reversals[i]
    BY <1>4, <2>2, <2>3, <2>9, RowAdded
  <2>11. \A i \in DOMAIN reversals : reversals[i] # s /\ reversals[i] \in DOMAIN settlements
    BY <1>4, <2>9 DEF ReversedOnce
  <2>12. ApprovalsIn(decisions, requests, "reversal", s) # {}
    BY <1>1, <1>4, <2>1 DEF ApprovalsIn
  <2>13. ReversedOnce(lines2, revs2, decisions, requests)
    <3>1. \A i \in DOMAIN revs2 : /\ lines2[revs2[i]].reversed
                                  /\ ApprovalsIn(decisions, requests, "reversal", revs2[i]) # {}
      <4> SUFFICES ASSUME NEW i \in DOMAIN revs2
                   PROVE  /\ lines2[revs2[i]].reversed
                          /\ ApprovalsIn(decisions, requests, "reversal", revs2[i]) # {}
        OBVIOUS
      <4>1. CASE i \in DOMAIN reversals
        <5>1. revs2[i] = reversals[i] /\ lines2[reversals[i]] = settlements[reversals[i]]
          BY <2>6, <2>10, <2>11, <4>1
        <5> QED
          BY <2>9, <4>1, <5>1 DEF ReversedOnce
      <4>2. CASE i = Len(revs2)
        BY <2>4, <2>6, <2>10, <2>12, <4>2
      <4> QED
        BY <2>10, <4>1, <4>2
    <3>2. \A i, j \in DOMAIN revs2 : revs2[i] = revs2[j] => i = j
      BY <2>9, <2>10, <2>11 DEF ReversedOnce
    <3> QED
      BY <3>1, <3>2 DEF ReversedOnce
  <2>14. HeardOnce(jobs')
    BY <1>2, HeardOnceStays DEF MovedSoundly
  <2> QED
    BY <1>2, <2>3, <2>8, <2>13, <2>14 DEF MovedSoundly
<1> QED
  BY <1>1, <1>3, <1>4 DEF HearOfReversal, Decided, OutcomeOf, LineReversible

(* Steps of the listeners, and those that decide                           *)
LEMMA DecisionsMoved ==
    ASSUME PayablesInductive, PayablesInductive', MovedSoundly, PayablesGrow,
           NEW w \in Workers,
           (\E outcome \in Outcomes : Decide(w, outcome)) \/ HearOfBatch(w)
    PROVE  MovedSoundly'
<1>1. ASSUME NEW outcome \in Outcomes, Decide(w, outcome) PROVE MovedSoundly'
  <2>1. PICK job : job = [op |-> "hear", decision |-> Len(decisions')]
    OBVIOUS
  <2>2. decisions \in Seq(Decision) /\ Len(decisions') = Len(decisions) + 1
    BY <1>1 DEF Decide, PayablesInductive, DecisionsOK
  <2>3. \A d \in DOMAIN decisions : ~ Hears(job, d)
    BY <2>1, <2>2 DEF Hears
  <2>4. jobs' = [jobs EXCEPT ![w] = job] /\ UNCHANGED <<batches, settlements, reversals>>
    BY <1>1, <2>1 DEF Decide, Proceed, money
  <2>5. Listens(w)
    BY <2>3, <2>4, ListensTo
  <2> QED
    BY <2>4, <2>5, MovedQuietly
<1>2. ASSUME HearOfBatch(w) PROVE MovedSoundly'
  <2>1. PICK d, b : d = jobs[w].decision /\ b = Decided(jobs[w].decision).of
    OBVIOUS
  <2>2. UNCHANGED <<batches, settlements, reversals>>
    BY <1>2 DEF HearOfBatch, money
  <2>3. CASE batches[b].status = "SUBMITTED"
    <3>1. PICK job : job = [op |-> "saveDecided", batch |-> b, decision |-> d,
                            status |-> OutcomeOf(d)]
      OBVIOUS
    <3>2. jobs' = [jobs EXCEPT ![w] = job]
      BY <1>2, <2>1, <2>3, <3>1 DEF HearOfBatch, Proceed
    <3>3. \A e \in DOMAIN decisions : Hears(job, e) => Hears(jobs[w], e)
      BY <1>2, <2>1, <3>1 DEF Hears, HearOfBatch
    <3>4. Listens(w)
      BY <3>2, <3>3, ListensTo
    <3> QED
      BY <2>2, <3>4, MovedQuietly
  <2>4. CASE batches[b].status # "SUBMITTED"
    BY <1>2, <2>1, <2>2, <2>4, ListensAsBefore, MovedQuietly DEF HearOfBatch
  <2> QED
    BY <2>3, <2>4
<1> QED
  BY <1>1, <1>2

(* Steps that listen to nothing and move nothing                           *)
LEMMA OthersMoved ==
    ASSUME PayablesInductive, PayablesInductive', MovedSoundly, PayablesGrow,
           NEW w \in Workers, NEW job, job.op \notin {"hear", "saveDecided"},
           \/ Begin(w, job) \/ Proceed(w, job) \/ Finish(w) \/ AtOnce(w),
           UNCHANGED <<batches, settlements, reversals>>
    PROVE  MovedSoundly'
<1>1. CASE Begin(w, job) \/ Proceed(w, job)
  BY <1>1, ListensToNothing, MovedQuietly DEF Begin, Proceed
<1>2. CASE Finish(w) \/ AtOnce(w)
  BY <1>2, ListensAsBefore, MovedQuietly
<1> QED
  BY <1>1, <1>2

LEMMA ArrivalsMoved ==
    ASSUME PayablesInductive, PayablesInductive', MovedSoundly, PayablesGrow,
           NEW w \in Workers, Arrive(w)
    PROVE  MovedSoundly'
<1>1. CASE \E ps \in SUBSET DOMAIN payables : \E items \in [ps -> Amounts] :
               CreatePaymentBatch(w, items)
  BY <1>1, CreatePaymentBatchMoved
<1>2. CASE \E b \in DOMAIN batches : MarkPaymentBatchPaid(w, b)
  BY <1>2, MarkPaymentBatchPaidMoved
<1>3. CASE \/ \E amount \in Amounts \cup {Billed}, paid \in Entered \cup {0},
                 invoice \in {"none", "PENDING"} :
                 CreatePayable(w, NewPayable(amount, paid, invoice))
           \/ \E p \in DOMAIN payables : VoidPayable(w, p) \/ CreateTransaction(w, p)
           \/ \E s \in DOMAIN settlements : ReverseSettlementAudit(w, s)
           \/ \E x \in DOMAIN transactions, next \in {"PENDING", "PAID", "REJECTED", "CANCELLED"} :
                 UpdateTransactionStatus(w, x, next)
  <2>1. CASE \E amount \in Amounts \cup {Billed}, paid \in Entered \cup {0},
                invoice \in {"none", "PENDING"} :
                CreatePayable(w, NewPayable(amount, paid, invoice))
    BY <2>1, ListensAsBefore, MovedQuietly DEF CreatePayable
  <2>2. CASE \E p \in DOMAIN payables : VoidPayable(w, p) \/ CreateTransaction(w, p)
    BY <2>2, ListensAsBefore, MovedQuietly DEF VoidPayable, CreateTransaction, money
  <2>3. CASE \E s \in DOMAIN settlements : ReverseSettlementAudit(w, s)
    BY <2>3, ListensAsBefore, MovedQuietly DEF ReverseSettlementAudit, money
  <2>4. CASE \E x \in DOMAIN transactions,
                next \in {"PENDING", "PAID", "REJECTED", "CANCELLED"} :
                UpdateTransactionStatus(w, x, next)
    BY <2>4, ListensAsBefore, MovedQuietly DEF UpdateTransactionStatus
  <2> QED
    BY <1>3, <2>1, <2>2, <2>3, <2>4
<1>4. CASE \E p \in DOMAIN payables, amount \in Amounts \cup {NotGiven},
              paid \in Entered \cup {NotGiven} : ReadForEdit(w, p, amount, paid)
  <2>1. PICK p \in DOMAIN payables, amount \in Amounts \cup {NotGiven},
             paid \in Entered \cup {NotGiven} : ReadForEdit(w, p, amount, paid)
    BY <1>4
  <2>2. PICK job : job = [op |-> "edit", payable |-> p, amount |-> amount, paid |-> paid,
                          status |-> Normalised(Written(payables[p], amount, paid)).status]
    OBVIOUS
  <2>3. job.op \notin {"hear", "saveDecided"}
    BY <2>2
  <2>4. Begin(w, job) /\ UNCHANGED <<batches, settlements, reversals>>
    BY <2>1, <2>2 DEF ReadForEdit, money
  <2> QED
    BY <2>3, <2>4, OthersMoved
<1>5. CASE \E b \in DOMAIN batches : ReadForSubmit(w, b)
  <2>1. PICK b \in DOMAIN batches : ReadForSubmit(w, b)
    BY <1>5
  <2>2. PICK job : job = [op |-> "submit", batch |-> b]
    OBVIOUS
  <2>3. job.op \notin {"hear", "saveDecided"}
    BY <2>2
  <2>4. Begin(w, job) /\ UNCHANGED <<batches, settlements, reversals>>
    BY <2>1, <2>2 DEF ReadForSubmit, money
  <2> QED
    BY <2>3, <2>4, OthersMoved
<1>6. CASE \E r \in DOMAIN requests : LoadRequest(w, r)
  <2>1. PICK r \in DOMAIN requests : LoadRequest(w, r)
    BY <1>6
  <2>2. PICK op \in {"act", "withdraw"} : Begin(w, [op |-> op, req |-> r])
    BY <2>1 DEF LoadRequest
  <2>3. PICK job : job = [op |-> op, req |-> r]
    OBVIOUS
  <2>4. job.op \notin {"hear", "saveDecided"}
    BY <2>3
  <2>5. Begin(w, job) /\ UNCHANGED <<batches, settlements, reversals>>
    BY <2>1, <2>2, <2>3 DEF LoadRequest, money
  <2> QED
    BY <2>4, <2>5, OthersMoved
<1> QED
  BY <1>1, <1>2, <1>3, <1>4, <1>5, <1>6 DEF Arrive

LEMMA ServingMoved ==
    ASSUME PayablesInductive, PayablesInductive', MovedSoundly, PayablesGrow,
           NEW w \in Workers, ServePayables(w) \/ AbandonPayment(w)
    PROVE  MovedSoundly'
<1>1. CASE Edit(w) \/ Withdraw(w) \/ ApproveBatchPayables(w) \/ AbandonPayment(w)
  <2>1. Finish(w) /\ UNCHANGED <<batches, settlements, reversals>>
    BY <1>1 DEF Edit, Withdraw, ApproveBatchPayables, AbandonPayment, money
  <2> QED
    BY <2>1, ListensAsBefore, MovedQuietly
<1>2. CASE CreateRequest(w)
  <2>1. PICK job : job = [jobs[w] EXCEPT !.op = "saveSubmitted"]
    OBVIOUS
  <2>2. job.op = "saveSubmitted"
    <3>1. jobs[w].op = "submit" /\ jobs[w] \in PayablesJob
      BY <1>2, PayablesJobOf DEF CreateRequest
    <3>2. jobs[w] \in [op : {"submit", "saveSubmitted", "flag"}, batch : Nat]
      BY <3>1 DEF PayablesJob, Idle
    <3> QED
      BY <2>1, <3>2
  <2>3. Proceed(w, job) /\ UNCHANGED <<batches, settlements, reversals>>
    BY <1>2, <2>1 DEF CreateRequest, money
  <2> QED
    BY <2>2, <2>3, OthersMoved
<1> QED
  BY <1>1, <1>2, SaveSubmittedMoved, SaveDecidedMoved, HearOfReversalMoved, DecisionsMoved
  DEF ServePayables

LEMMA MovedNext ==
    PayablesInductive /\ MovedSoundly /\ [PayablesNext]_payablesVars => MovedSoundly'
<1> SUFFICES ASSUME PayablesInductive, MovedSoundly, [PayablesNext]_payablesVars
             PROVE  MovedSoundly'
  OBVIOUS
<1>1. PayablesInductive' /\ PayablesGrow
  BY PayablesNextInductive
<1>2. CASE UNCHANGED payablesVars
  BY <1>2 DEF payablesVars, approvals, MovedSoundly
<1>3. CASE PayablesNext
  BY <1>1, <1>3, ArrivalsMoved, ServingMoved DEF PayablesNext, PayablesStep
<1> QED
  BY <1>2, <1>3

LEMMA MovedInit == PayablesInit => MovedSoundly
<1> SUFFICES ASSUME PayablesInit PROVE MovedSoundly
  OBVIOUS
<1>1. /\ batches = <<>> /\ settlements = <<>> /\ reversals = <<>>
      /\ jobs = [w \in Workers |-> Idle]
  BY DEF PayablesInit
<1>2. HeardOnce(jobs)
  BY <1>1 DEF HeardOnce, Hears, Idle
<1> QED
  BY <1>1, <1>2 DEF MovedSoundly, PaidOnce, ReversedOnce

(* Money leaves in a batch at most once for each of its payables and each  *)
(* approval that was announced, and comes back from a line once, with an   *)
(* approval of its own, however stale the batch a decision is saved over,  *)
(* and though a request is decided by two at once.                         *)
THEOREM MovedOnlyByApproval == PayablesSpec => []MovedByApproval
<1>1. PayablesInductive /\ MovedSoundly => MovedByApproval
  <2> SUFFICES ASSUME PayablesInductive, MovedSoundly PROVE MovedByApproval
    OBVIOUS
  <2>1. \A kind, of : Approvals(kind, of) = ApprovalsIn(decisions, requests, kind, of)
    BY DEF Approvals, ApprovalsIn, Decided
  <2>2. ASSUME NEW b \in DOMAIN batches, NEW p \in DOMAIN payables
        PROVE  Cardinality(LinesOf(b, p)) <= Cardinality(Approvals("batch", b))
    <3> DEFINE done == CarriedOut(jobs, decisions, requests, b)
               all  == ApprovalsIn(decisions, requests, "batch", b)
    <3>1. IsFiniteSet(all) /\ Cardinality(all) \in Nat
      <4>1. DOMAIN decisions = 1 .. Len(decisions) /\ Len(decisions) \in Nat
        BY DEF PayablesInductive, DecisionsOK
      <4>2. IsFiniteSet(1 .. Len(decisions)) /\ all \subseteq 1 .. Len(decisions)
        BY <4>1, FS_Interval DEF ApprovalsIn
      <4> HIDE DEF all
      <4> QED
        BY <4>2, FS_Subset, FS_CardinalityType
    <3>2. done \subseteq all
      BY DEF CarriedOut
    <3>3. /\ Cardinality(LinesIn(settlements, b, p)) + Paying(batches[b]) <= Cardinality(done)
          /\ Cardinality(LinesIn(settlements, b, p)) \in Nat /\ Cardinality(done) \in Nat
          /\ Paying(batches[b]) \in Nat
      <4>1. p \in Nat /\ settlements \in Seq(Settlement)
        BY PayableRows
      <4> QED
        BY <4>1, LinesInFinite, CarriedOutFinite DEF MovedSoundly, PaidOnce, PayablesInductive, Paying
    <3>4. LinesOf(b, p) = LinesIn(settlements, b, p)
      BY DEF LinesOf, LinesIn
    <3> HIDE DEF done, all
    <3>5. Cardinality(done) <= Cardinality(all)
      BY <3>1, <3>2, FS_Subset
    <3>6. Approvals("batch", b) = all
      BY <2>1 DEF all
    <3> QED
      BY <3>1, <3>3, <3>4, <3>5, <3>6
  <2>3. ReversedOnce(settlements, reversals, decisions, requests)
    BY DEF MovedSoundly
  <2> QED
    BY <2>1, <2>2, <2>3 DEF ReversedOnce, MovedByApproval
<1> QED
  BY <1>1, MovedInit, MovedNext, PayablesInvariant, PTL DEF PayablesSpec

-----------------------------------------------------------------------------
(* Requests served one at a time                                           *)

(* The one who takes a step is the only one who is doing anything.         *)
LEMMA PayablesSerialStep ==
    ASSUME PayablesInductive, PayablesSerial, ~ overlap, NEW w \in Workers,
           jobs[w] # Idle \/ Alone(w), NEW job, jobs' = [jobs EXCEPT ![w] = job],
           CopyCurrent(job, payables', batches'), VoidsOK(payables', batches')
    PROVE  PayablesSerial'
<1>1. PICK js2, pays2, bs2 : js2 = jobs' /\ pays2 = payables' /\ bs2 = batches'
  OBVIOUS
<1>2. \A v \in Workers : js2[v] = IF v = w THEN job ELSE jobs[v]
  BY <1>1 DEF PayablesInductive, PayablesJobsOK
<1>3. \A v \in Workers \ {w} : jobs[v] = Idle
  BY DEF PayablesSerial, Alone
<1>4. \A u, v \in Workers : js2[u] # Idle /\ js2[v] # Idle => u = v
  BY <1>2, <1>3
<1>5. CopyCurrent(job, pays2, bs2) /\ CopyCurrent(Idle, pays2, bs2)
  BY <1>1, IdlePayables
<1>6. \A v \in Workers : CopyCurrent(js2[v], pays2, bs2)
  BY <1>2, <1>3, <1>5
<1> QED
  BY <1>1, <1>4, <1>6 DEF PayablesSerial

(* No payable turns void, and no batch opens or gets other items.          *)
LEMMA VoidsStay ==
    ASSUME NEW pays, NEW bs, NEW pays2, NEW bs2, VoidsOK(pays, bs),
           \A p \in DOMAIN pays2 : pays2[p].status = "VOID" =>
               p \in DOMAIN pays /\ pays[p].status = "VOID" /\ pays2[p].paid = pays[p].paid,
           \A b \in DOMAIN bs2 : OpenBatch(bs2[b]) =>
               b \in DOMAIN bs /\ OpenBatch(bs[b]) /\ bs2[b].items = bs[b].items
    PROVE  VoidsOK(pays2, bs2)
BY DEF VoidsOK

LEMMA SerialFacts ==
    ASSUME PayablesInductive, PayablesSerial, ~ overlap
    PROVE  VoidsOK(payables, batches) /\ \A w \in Workers : CopyCurrent(jobs[w], payables, batches)
BY DEF PayablesSerial

(* Steps that change neither payables nor batches                          *)
LEMMA OnlyPayablesJobSerial ==
    ASSUME PayablesInductive, PayablesSerial, ~ overlap, NEW w \in Workers,
           jobs[w] # Idle \/ Alone(w), NEW job, jobs' = [jobs EXCEPT ![w] = job],
           CopyCurrent(job, payables, batches), UNCHANGED <<payables, batches>>
    PROVE  PayablesSerial'
BY SerialFacts, PayablesSerialStep

LEMMA BusyPayables ==
    ASSUME NEW job, job.op # "idle"
    PROVE  job # Idle
BY DEF Idle

LEMMA ReadersOfPayablesSerial ==
    ASSUME PayablesInductive, PayablesSerial, ~ overlap, NEW w \in Workers,
           \/ \E p \in DOMAIN payables : CreateTransaction(w, p)
           \/ \E p \in DOMAIN payables, amount \in Amounts \cup {NotGiven},
                 paid \in Entered \cup {NotGiven} : ReadForEdit(w, p, amount, paid)
           \/ \E b \in DOMAIN batches : ReadForSubmit(w, b)
           \/ \E s \in DOMAIN settlements : ReverseSettlementAudit(w, s)
           \/ \E r \in DOMAIN requests : LoadRequest(w, r)
           \/ \E outcome \in Outcomes : Decide(w, outcome)
           \/ Withdraw(w)
           \/ CreateRequest(w) \/ HearOfBatch(w) \/ AbandonPayment(w)
    PROVE  PayablesSerial'
<1>1. ASSUME NEW p \in DOMAIN payables, NEW amount, NEW paid, ReadForEdit(w, p, amount, paid)
      PROVE  PayablesSerial'
  <2>1. PICK job : job = [op |-> "edit", payable |-> p, amount |-> amount, paid |-> paid,
                          status |-> Normalised(Written(payables[p], amount, paid)).status]
    OBVIOUS
  <2>2. payables[p].status # "VOID"
    <3>1. \A x \in Payable : Written(x, amount, paid).status = x.status
      BY DEF Written, Payable
    <3> QED
      BY <1>1, <3>1, PayableRows DEF ReadForEdit
  <2>3. CopyCurrent(job, payables, batches)
    BY <2>1, <2>2 DEF CopyCurrent
  <2> QED
    BY <1>1, <2>1, <2>3, OnlyPayablesJobSerial DEF ReadForEdit, Begin, money
<1>2. ASSUME NEW b \in DOMAIN batches, ReadForSubmit(w, b) PROVE PayablesSerial'
  <2>1. PICK job : job = [op |-> "submit", batch |-> b]
    OBVIOUS
  <2>2. CopyCurrent(job, payables, batches)
    BY <1>2, <2>1 DEF ReadForSubmit, CopyCurrent
  <2> QED
    BY <1>2, <2>1, <2>2, OnlyPayablesJobSerial DEF ReadForSubmit, Begin, money
<1>3. ASSUME AbandonPayment(w) PROVE PayablesSerial'
  BY <1>3, IdlePayables, OnlyPayablesJobSerial DEF AbandonPayment, Finish, money
<1>4. ASSUME AtOnce(w), UNCHANGED <<payables, batches>> PROVE PayablesSerial'
  <2>1. Alone(w)
    BY <1>4 DEF AtOnce
  <2> QED
    BY <1>4, <2>1, AtOnceIdle, IdlePayables, OnlyPayablesJobSerial
<1>5. ASSUME NEW p \in DOMAIN payables, CreateTransaction(w, p) PROVE PayablesSerial'
  BY <1>4, <1>5 DEF CreateTransaction, money
<1>6. ASSUME NEW s \in DOMAIN settlements, ReverseSettlementAudit(w, s) PROVE PayablesSerial'
  BY <1>4, <1>6 DEF ReverseSettlementAudit, money
<1>10. ASSUME NEW r \in DOMAIN requests, LoadRequest(w, r) PROVE PayablesSerial'
  <2>1. PICK op \in {"act", "withdraw"} : Begin(w, [op |-> op, req |-> r])
    BY <1>10 DEF LoadRequest
  <2>2. PICK job : job = [op |-> op, req |-> r]
    OBVIOUS
  <2>3. CopyCurrent(job, payables, batches)
    BY <2>2 DEF CopyCurrent
  <2>4. /\ jobs' = [jobs EXCEPT ![w] = job] /\ Alone(w)
        /\ payables' = payables /\ batches' = batches
    BY <1>10, <2>1, <2>2 DEF LoadRequest, Begin, money
  <2> QED
    BY <2>3, <2>4, OnlyPayablesJobSerial
<1>11. ASSUME NEW outcome \in Outcomes, Decide(w, outcome) PROVE PayablesSerial'
  <2>1. PICK job : job = [op |-> "hear", decision |-> Len(decisions')]
    OBVIOUS
  <2>2. CopyCurrent(job, payables, batches) /\ jobs[w] # Idle
    BY <1>11, <2>1, BusyPayables DEF Decide, CopyCurrent
  <2>3. /\ jobs' = [jobs EXCEPT ![w] = job]
        /\ payables' = payables /\ batches' = batches
    BY <1>11, <2>1 DEF Decide, Proceed, money
  <2> QED
    BY <2>2, <2>3, OnlyPayablesJobSerial
<1>12. ASSUME Withdraw(w) PROVE PayablesSerial'
  <2>1. jobs[w] # Idle
    BY <1>12, BusyPayables DEF Withdraw
  <2> QED
    BY <1>12, <2>1, IdlePayables, OnlyPayablesJobSerial DEF Withdraw, Finish, money
<1>8. ASSUME CreateRequest(w) PROVE PayablesSerial'
  <2>1. PICK job : job = [jobs[w] EXCEPT !.op = "saveSubmitted"]
    OBVIOUS
  <2>2. jobs[w] # Idle /\ batches[jobs[w].batch].status = "DRAFT"
    BY <1>8, BusyPayables, SerialFacts DEF CreateRequest, CopyCurrent
  <2>3. job.op = "saveSubmitted" /\ job.batch = jobs[w].batch
    <3>1. jobs[w].op = "submit" /\ jobs[w] \in PayablesJob
      BY <1>8, PayablesJobOf DEF CreateRequest
    <3>2. jobs[w] \in [op : {"submit", "saveSubmitted", "flag"}, batch : Nat]
      BY <3>1 DEF PayablesJob, Idle
    <3> QED
      BY <2>1, <3>2
  <2>4. CopyCurrent(job, payables, batches)
    BY <2>2, <2>3 DEF CopyCurrent
  <2> QED
    BY <1>8, <2>1, <2>2, <2>4, OnlyPayablesJobSerial DEF CreateRequest, Proceed, money
<1>9. ASSUME HearOfBatch(w) PROVE PayablesSerial'
  <2>1. PICK d, b : d = jobs[w].decision /\ b = Decided(jobs[w].decision).of
    OBVIOUS
  <2>2. jobs[w] # Idle
    BY <1>9, BusyPayables DEF HearOfBatch
  <2>3. CASE batches[b].status = "SUBMITTED"
    <3>1. PICK job : job = [op |-> "saveDecided", batch |-> b, decision |-> d,
                            status |-> OutcomeOf(d)]
      OBVIOUS
    <3>2. CopyCurrent(job, payables, batches)
      BY <2>3, <3>1 DEF CopyCurrent
    <3> QED
      BY <1>9, <2>1, <2>2, <2>3, <3>1, <3>2, OnlyPayablesJobSerial DEF HearOfBatch, Proceed, money
  <2>4. CASE batches[b].status # "SUBMITTED"
    BY <1>9, <2>1, <2>2, <2>4, IdlePayables, OnlyPayablesJobSerial DEF HearOfBatch, Finish, money
  <2> QED
    BY <2>3, <2>4
<1> QED
  BY <1>1, <1>2, <1>3, <1>5, <1>6, <1>8, <1>9, <1>10, <1>11, <1>12

(* A row is saved that is void only if it was.                             *)
LEMMA PayableSavedSerial ==
    ASSUME PayablesInductive, PayablesSerial, ~ overlap, NEW w \in Workers,
           jobs[w] # Idle \/ Alone(w), jobs' = [jobs EXCEPT ![w] = Idle],
           NEW p \in DOMAIN payables, NEW row, payables' = [payables EXCEPT ![p] = row],
           row.status # "VOID", UNCHANGED batches
    PROVE  PayablesSerial'
<1>1. PICK pays2 : pays2 = payables'
  OBVIOUS
<1>2. DOMAIN pays2 = DOMAIN payables /\ pays2[p] = row
      /\ \A q \in DOMAIN payables \ {p} : pays2[q] = payables[q]
  BY <1>1, PayableRows
<1>3. VoidsOK(pays2, batches)
  BY <1>2, SerialFacts, VoidsStay
<1> QED
  BY <1>1, <1>3, IdlePayables, PayablesSerialStep

LEMMA EditSerial ==
    ASSUME PayablesInductive, PayablesSerial, ~ overlap, NEW w \in Workers, Edit(w)
    PROVE  PayablesSerial'
<1>1. PICK p, amount, paid, status :
          /\ p = jobs[w].payable /\ amount = jobs[w].amount /\ paid = jobs[w].paid
          /\ status = jobs[w].status
  OBVIOUS
<1>2. /\ p \in DOMAIN payables /\ payables[p] \in Payable /\ status \in {"OPEN", "PAID"}
      /\ amount \in Amounts \cup {NotGiven} /\ paid \in Entered \cup {NotGiven}
  BY <1>1, PayablesJobOf, PayablesJobFields, PayableRows DEF Edit, DecisionKnown
<1>3. PICK row : row = EditedRow(payables[p], amount, paid, status)
  OBVIOUS
<1>4. row.status # "VOID"
  BY <1>2, <1>3, WrittenRow
<1>5. payables' = [payables EXCEPT ![p] = row]
  BY <1>1, <1>2, <1>3, PayableRows DEF Edit, EditedRow
<1>6. jobs[w] # Idle /\ jobs' = [jobs EXCEPT ![w] = Idle] /\ UNCHANGED batches
  BY BusyPayables DEF Edit, Finish
<1> QED
  BY <1>2, <1>4, <1>5, <1>6, PayableSavedSerial

(* Neither paying nor paying back makes a payable void.                    *)
LEMMA PaidStatus ==
    ASSUME NEW row \in Payable, NEW amount \in Nat, row.status # "VOID"
    PROVE  Paid(row, amount).status # "VOID"
<1>1. PICK x : x = [row EXCEPT !.paid = @ + amount, !.approved = TRUE]
  OBVIOUS
<1>2. x.status = row.status /\ DOMAIN x = DOMAIN row
  BY <1>1 DEF Payable
<1>3. PICK new : new = Normalised(x)
  OBVIOUS
<1>4. PICK status : status = IF x.status = "VOID" THEN x.status ELSE StatusOf(x.paid, x.amount)
  OBVIOUS
<1>5. status # "VOID"
  BY <1>2, <1>4 DEF StatusOf
<1>6. new = [x EXCEPT !.status = status]
  BY <1>3, <1>4 DEF Normalised
<1>7. new.status # "VOID"
  BY <1>2, <1>5, <1>6 DEF Payable
<1>8. Paid(row, amount)
        = [new EXCEPT !.invoice = IF new.status = "PAID" /\ new.invoice # "none" THEN "PAID"
                                  ELSE new.invoice]
  BY <1>1, <1>3 DEF Paid
<1> QED
  BY <1>7, <1>8

LEMMA UnpaidStatus ==
    ASSUME NEW row \in Payable, NEW amount \in Nat, row.status # "VOID"
    PROVE  Unpaid(row, amount).status # "VOID"
<1>1. PICK x : x = [row EXCEPT !.paid = @ - amount]
  OBVIOUS
<1>2. x.status = row.status /\ DOMAIN x = DOMAIN row
  BY <1>1 DEF Payable
<1>3. PICK new : new = Normalised(x)
  OBVIOUS
<1>4. PICK status : status = IF x.status = "VOID" THEN x.status ELSE StatusOf(x.paid, x.amount)
  OBVIOUS
<1>5. status # "VOID"
  BY <1>2, <1>4 DEF StatusOf
<1>6. new = [x EXCEPT !.status = status]
  BY <1>3, <1>4 DEF Normalised
<1>7. new.status # "VOID"
  BY <1>2, <1>5, <1>6 DEF Payable
<1>8. Unpaid(row, amount)
        = [new EXCEPT !.invoice = IF new.status # "PAID" /\ new.invoice # "none" THEN "PENDING"
                                  ELSE new.invoice]
  BY <1>1, <1>3 DEF Unpaid
<1> QED
  BY <1>7, <1>8

LEMMA HearOfReversalSerial ==
    ASSUME PayablesInductive, PayablesSerial, ~ overlap, NEW w \in Workers, HearOfReversal(w)
    PROVE  PayablesSerial'
<1>1. PICK d, s : d = jobs[w].decision /\ s = requests[decisions[d].req].of
  OBVIOUS
<1>2. PICK p, amount : p = settlements[s].payable /\ amount = settlements[s].amount
  OBVIOUS
<1>3. jobs[w] # Idle /\ jobs' = [jobs EXCEPT ![w] = Idle] /\ UNCHANGED batches
  BY BusyPayables DEF HearOfReversal, Finish
<1>4. CASE UNCHANGED money
  BY <1>3, <1>4, IdlePayables, OnlyPayablesJobSerial DEF money
<1>5. CASE LineReversible(s) /\ payables' = [payables EXCEPT ![p] = Unpaid(payables[p], amount)]
  <2>1. s \in DOMAIN settlements
    <3>1. decisions[d].req \in DOMAIN requests /\ requests[decisions[d].req].kind = "reversal"
      BY <1>1, PayablesJobOf
      DEF HearOfReversal, DecisionKnown, Decided, PayablesInductive, DecisionsOK
    <3> QED
      BY <1>1, <3>1 DEF PayablesInductive, RequestsOK
  <2>2. /\ p \in DOMAIN payables /\ amount \in Nat \ {0} /\ amount <= payables[p].paid
        /\ payables[p] \in Payable
    BY <1>2, <1>5, <2>1, PayableRows, AmountsAssumption
    DEF LineReversible, PayablesInductive, LinesOK, Settlement
  <2>3. payables[p].status # "VOID"
    BY <2>2, SerialFacts DEF VoidsOK
  <2>4. PICK row : row = Unpaid(payables[p], amount)
    OBVIOUS
  <2>5. row.status # "VOID"
    BY <2>2, <2>3, <2>4, UnpaidStatus
  <2> QED
    BY <1>3, <1>5, <2>2, <2>4, <2>5, PayableSavedSerial
<1> QED
  BY <1>1, <1>2, <1>4, <1>5 DEF HearOfReversal, Decided

LEMMA CreatePayableSerial ==
    ASSUME PayablesInductive, PayablesSerial, ~ overlap, NEW w \in Workers, NEW row,
           CreatePayable(w, row)
    PROVE  PayablesSerial'
<1>1. row.status # "VOID" /\ Alone(w) /\ jobs' = [jobs EXCEPT ![w] = Idle]
  BY AtOnceIdle DEF CreatePayable, NewPayable, StatusOf, AtOnce
<1>2. PICK pays2 : pays2 = payables'
  OBVIOUS
<1>3. /\ DOMAIN pays2 = DOMAIN payables \cup {Len(pays2)} /\ pays2[Len(pays2)] = row
      /\ \A p \in DOMAIN payables : pays2[p] = payables[p]
  BY <1>2, PayableRows DEF CreatePayable
<1>4. VoidsOK(pays2, batches)
  BY <1>1, <1>3, SerialFacts, VoidsStay
<1>5. UNCHANGED batches
  BY DEF CreatePayable
<1> QED
  BY <1>1, <1>2, <1>4, <1>5, IdlePayables, PayablesSerialStep

LEMMA VoidPayableSerial ==
    ASSUME PayablesInductive, PayablesSerial, ~ overlap, NEW w \in Workers,
           NEW p \in DOMAIN payables, VoidPayable(w, p)
    PROVE  PayablesSerial'
<1>1. PICK invoice : invoice = IF payables[p].invoice = "none" THEN payables[p].invoice
                               ELSE "CANCELLED"
  OBVIOUS
<1>2. PICK row : row = [payables[p] EXCEPT !.status = "VOID", !.approved = FALSE,
                                           !.invoice = invoice]
  OBVIOUS
<1>3. row.paid = 0
  BY <1>2, PayableRows DEF VoidPayable, Payable
<1>4. PICK pays2 : pays2 = payables'
  OBVIOUS
<1>5. pays2 = [payables EXCEPT ![p] = row]
  BY <1>1, <1>2, <1>4, PayableRows DEF VoidPayable
<1>6. DOMAIN pays2 = DOMAIN payables /\ pays2[p] = row
      /\ \A q \in DOMAIN payables \ {p} : pays2[q] = payables[q]
  BY <1>5, PayableRows
<1>7. \A b \in DOMAIN batches : OpenBatch(batches[b]) => p \notin DOMAIN batches[b].items
  BY DEF VoidPayable
<1>8. VoidsOK(pays2, batches)
  BY <1>3, <1>6, <1>7, SerialFacts DEF VoidsOK
<1>9. Alone(w) /\ jobs' = [jobs EXCEPT ![w] = Idle] /\ UNCHANGED batches
  BY AtOnceIdle DEF VoidPayable, AtOnce
<1> QED
  BY <1>4, <1>8, <1>9, IdlePayables, PayablesSerialStep

LEMMA ApproveBatchPayablesSerial ==
    ASSUME PayablesInductive, PayablesSerial, ~ overlap, NEW w \in Workers,
           ApproveBatchPayables(w)
    PROVE  PayablesSerial'
<1>1. PICK pays2 : pays2 = payables'
  OBVIOUS
<1>2. ASSUME NEW x \in Payable
      PROVE  /\ [x EXCEPT !.approved = TRUE].status = x.status
             /\ [x EXCEPT !.approved = TRUE].paid = x.paid
  BY DEF Payable
<1>3. ASSUME NEW p \in DOMAIN payables
      PROVE  pays2[p].status = payables[p].status /\ pays2[p].paid = payables[p].paid
  BY <1>1, <1>2, PayableRows DEF ApproveBatchPayables
<1>4. DOMAIN pays2 = DOMAIN payables
  BY <1>1 DEF ApproveBatchPayables
<1>5. VoidsOK(pays2, batches)
  BY <1>3, <1>4, SerialFacts, VoidsStay
<1>6. jobs[w] # Idle /\ jobs' = [jobs EXCEPT ![w] = Idle] /\ UNCHANGED batches
  BY BusyPayables DEF ApproveBatchPayables, Finish
<1> QED
  BY <1>1, <1>5, <1>6, IdlePayables, PayablesSerialStep

LEMMA CreatePaymentBatchSerial ==
    ASSUME PayablesInductive, PayablesSerial, ~ overlap, NEW w \in Workers,
           NEW ps \in SUBSET DOMAIN payables, NEW items \in [ps -> Amounts],
           CreatePaymentBatch(w, items)
    PROVE  PayablesSerial'
<1>1. PICK row : row = [items |-> items, status |-> "DRAFT"]
  OBVIOUS
<1>2. PICK bs2 : bs2 = batches'
  OBVIOUS
<1>3. /\ DOMAIN bs2 = DOMAIN batches \cup {Len(bs2)} /\ bs2[Len(bs2)] = row
      /\ \A b \in DOMAIN batches : bs2[b] = batches[b]
  BY <1>1, <1>2, PayableRows DEF CreatePaymentBatch
<1>4. \A p \in DOMAIN row.items : payables[p].status = "OPEN"
  BY <1>1 DEF CreatePaymentBatch
<1>5. VoidsOK(payables, bs2)
  BY <1>3, <1>4, SerialFacts DEF VoidsOK
<1>6. Alone(w) /\ jobs' = [jobs EXCEPT ![w] = Idle] /\ UNCHANGED payables
  BY AtOnceIdle DEF CreatePaymentBatch, AtOnce, money
<1> QED
  BY <1>2, <1>5, <1>6, IdlePayables, PayablesSerialStep

(* A batch that is open gets another status.                               *)
LEMMA BatchSavedSerial ==
    ASSUME PayablesInductive, PayablesSerial, ~ overlap, NEW w \in Workers,
           jobs[w] # Idle \/ Alone(w), NEW job, jobs' = [jobs EXCEPT ![w] = job],
           job = Idle \/ job.op = "flag",
           NEW b \in DOMAIN batches, OpenBatch(batches[b]), NEW status \in BatchStatus,
           NEW row, row = [batches[b] EXCEPT !.status = status],
           batches' = [batches EXCEPT ![b] = row], UNCHANGED payables
    PROVE  PayablesSerial'
<1>1. row.items = batches[b].items
  BY PayableRows, BatchRowSaved
<1>2. PICK bs2 : bs2 = batches'
  OBVIOUS
<1>3. /\ DOMAIN bs2 = DOMAIN batches
      /\ bs2[b] = row /\ \A c \in DOMAIN batches \ {b} : bs2[c] = batches[c]
  BY <1>2, PayableRows
<1>4. VoidsOK(payables, bs2)
  <2>1. \A c \in DOMAIN bs2 : /\ c \in DOMAIN batches /\ bs2[c].items = batches[c].items
                              /\ OpenBatch(bs2[c]) => OpenBatch(batches[c])
    BY <1>1, <1>3
  <2>2. VoidsOK(payables, batches)
    BY SerialFacts
  <2> QED
    BY <2>1, <2>2, VoidsStay
<1>5. CopyCurrent(job, payables, bs2)
  BY IdlePayables DEF CopyCurrent
<1> QED
  BY <1>2, <1>4, <1>5, PayablesSerialStep

LEMMA SaveSubmittedSerial ==
    ASSUME PayablesInductive, PayablesSerial, ~ overlap, NEW w \in Workers, SaveSubmitted(w)
    PROVE  PayablesSerial'
<1>1. PICK b : b = jobs[w].batch
  OBVIOUS
<1>2. b \in DOMAIN batches /\ OpenBatch(batches[b])
  BY <1>1, PayablesJobOf, SerialFacts DEF SaveSubmitted, DecisionKnown, CopyCurrent, OpenBatch
<1>3. PICK status, row, job : /\ status = "SUBMITTED" /\ job = Idle
                              /\ row = [batches[b] EXCEPT !.status = status]
  OBVIOUS
<1>4. batches' = [batches EXCEPT ![b] = row] /\ status \in BatchStatus
  BY <1>1, <1>2, <1>3 DEF SaveSubmitted, BatchStatus
<1>5. jobs[w] # Idle /\ jobs' = [jobs EXCEPT ![w] = job] /\ UNCHANGED payables
  BY <1>3, BusyPayables DEF SaveSubmitted, Finish, money
<1> QED
  BY <1>2, <1>3, <1>4, <1>5, BatchSavedSerial

LEMMA SaveDecidedSerial ==
    ASSUME PayablesInductive, PayablesSerial, ~ overlap, NEW w \in Workers, SaveDecided(w)
    PROVE  PayablesSerial'
<1>1. PICK b, status : b = jobs[w].batch /\ status = jobs[w].status
  OBVIOUS
<1>2. b \in DOMAIN batches /\ OpenBatch(batches[b]) /\ status \in Outcomes
  BY <1>1, PayablesJobOf, PayablesJobFields, SerialFacts
  DEF SaveDecided, DecisionKnown, CopyCurrent, OpenBatch
<1>3. PICK row : row = [batches[b] EXCEPT !.status = status]
  OBVIOUS
<1>4. batches' = [batches EXCEPT ![b] = row] /\ status \in BatchStatus
  BY <1>1, <1>2, <1>3 DEF SaveDecided, BatchStatus, Outcomes
<1>5. PICK job : job = IF status = "APPROVED" THEN [op |-> "flag", batch |-> b] ELSE Idle
  OBVIOUS
<1>6. job = Idle \/ job.op = "flag"
  BY <1>5
<1>7. jobs[w] # Idle /\ jobs' = [jobs EXCEPT ![w] = job] /\ UNCHANGED payables
  BY <1>1, <1>5, BusyPayables DEF SaveDecided, Proceed, Finish, money
<1> QED
  BY <1>2, <1>3, <1>4, <1>6, <1>7, BatchSavedSerial

(* A batch that is paid was open, so none of its payables is void.         *)
LEMMA MarkPaymentBatchPaidSerial ==
    ASSUME PayablesInductive, PayablesSerial, ~ overlap, NEW w \in Workers,
           NEW b \in DOMAIN batches, MarkPaymentBatchPaid(w, b)
    PROVE  PayablesSerial'
<1>1. PICK items, row : items = batches[b].items /\ row = [batches[b] EXCEPT !.status = "PAID"]
  OBVIOUS
<1>2. PICK pays2, bs2 : pays2 = payables' /\ bs2 = batches'
  OBVIOUS
<1>3. \A p \in DOMAIN items : p \in DOMAIN payables /\ items[p] \in Nat /\ payables[p].status # "VOID"
  <2>1. \A p \in DOMAIN items : p \in DOMAIN payables /\ items[p] \in Amounts
    BY <1>1, PayableRows, BatchRowFacts DEF PayablesInductive, BatchesOK
  <2>2. OpenBatch(batches[b])
    BY DEF MarkPaymentBatchPaid, Approved, OpenBatch
  <2> QED
    BY <1>1, <2>1, <2>2, SerialFacts, AmountsAssumption DEF VoidsOK
<1>4. pays2 = [p \in DOMAIN payables |->
                  IF p \in DOMAIN items THEN Paid(payables[p], items[p]) ELSE payables[p]]
  BY <1>1, <1>2 DEF MarkPaymentBatchPaid
<1>5. ASSUME NEW p \in DOMAIN payables
      PROVE  pays2[p] = payables[p] \/ pays2[p].status # "VOID"
  <2>1. CASE p \in DOMAIN items
    <3>1. pays2[p] = Paid(payables[p], items[p]) /\ payables[p] \in Payable
      BY <1>4, <2>1, PayableRows
    <3> QED
      BY <1>3, <2>1, <3>1, PaidStatus
  <2>2. CASE p \notin DOMAIN items
    BY <1>4, <2>2
  <2> QED
    BY <2>1, <2>2
<1>6. /\ DOMAIN bs2 = DOMAIN batches
      /\ bs2[b] = row /\ \A c \in DOMAIN batches \ {b} : bs2[c] = batches[c]
  BY <1>1, <1>2, PayableRows DEF MarkPaymentBatchPaid
<1>7. ~ OpenBatch(row)
  BY <1>1, PayableRows DEF OpenBatch, BatchRow
<1>8. VoidsOK(pays2, bs2)
  BY <1>4, <1>5, <1>6, <1>7, SerialFacts, VoidsStay
<1>9. Alone(w) /\ jobs' = [jobs EXCEPT ![w] = Idle]
  BY AtOnceIdle DEF MarkPaymentBatchPaid, AtOnce
<1> QED
  BY <1>2, <1>8, <1>9, IdlePayables, PayablesSerialStep

LEMMA UpdateTransactionSerial ==
    ASSUME PayablesInductive, PayablesSerial, ~ overlap, NEW w \in Workers,
           NEW x \in DOMAIN transactions,
           NEW next \in {"PENDING", "PAID", "REJECTED", "CANCELLED"},
           UpdateTransactionStatus(w, x, next)
    PROVE  PayablesSerial'
<1>1. PICK p : p = transactions[x].payable
  OBVIOUS
<1>2. Alone(w) /\ jobs' = [jobs EXCEPT ![w] = Idle] /\ UNCHANGED batches
  BY AtOnceIdle DEF UpdateTransactionStatus, AtOnce
<1>3. CASE next # "PAID" \/ p \notin DOMAIN payables
  <2>1. UNCHANGED payables
    BY <1>1, <1>3, PayableRows DEF UpdateTransactionStatus
  <2> QED
    BY <1>2, <2>1, IdlePayables, OnlyPayablesJobSerial
<1>4. CASE next = "PAID" /\ p \in DOMAIN payables
  <2>1. PICK row : row = [payables[p] EXCEPT !.paid = Billed, !.status = "PAID",
                                             !.invoice = "PAID"]
    OBVIOUS
  <2>2. payables' = [payables EXCEPT ![p] = row]
    BY <1>1, <1>4, <2>1, PayableRows DEF UpdateTransactionStatus
  <2>3. row.status # "VOID"
    BY <1>4, <2>1, PayableRows DEF Payable
  <2> QED
    BY <1>2, <1>4, <2>2, <2>3, PayableSavedSerial
<1> QED
  BY <1>3, <1>4

LEMMA PayablesNextSerial ==
    PayablesInductive /\ PayablesSerial /\ [PayablesNext]_payablesVars => PayablesSerial'
<1> SUFFICES ASSUME PayablesInductive, PayablesSerial, [PayablesNext]_payablesVars
             PROVE  PayablesSerial'
  OBVIOUS
<1>1. CASE overlap
  BY <1>1 DEF PayablesSerial, PayablesNext, payablesVars
<1>2. CASE ~ overlap /\ UNCHANGED payablesVars
  BY <1>2 DEF PayablesSerial, payablesVars
<1>3. CASE ~ overlap /\ PayablesNext
  <2>1. ASSUME NEW w \in Workers, Arrive(w) PROVE PayablesSerial'
    <3>1. CASE \E amount \in Amounts \cup {Billed}, paid \in Entered \cup {0},
                  invoice \in {"none", "PENDING"} :
                   CreatePayable(w, NewPayable(amount, paid, invoice))
      BY <1>3, <3>1, CreatePayableSerial
    <3>2. CASE \E p \in DOMAIN payables : VoidPayable(w, p)
      BY <1>3, <3>2, VoidPayableSerial
    <3>3. CASE \/ \E p \in DOMAIN payables : CreateTransaction(w, p)
               \/ \E p \in DOMAIN payables, amount \in Amounts \cup {NotGiven},
                     paid \in Entered \cup {NotGiven} : ReadForEdit(w, p, amount, paid)
               \/ \E b \in DOMAIN batches : ReadForSubmit(w, b)
               \/ \E s \in DOMAIN settlements : ReverseSettlementAudit(w, s)
               \/ \E r \in DOMAIN requests : LoadRequest(w, r)
      BY <1>3, <3>3, ReadersOfPayablesSerial
    <3>4. CASE \E ps \in SUBSET DOMAIN payables : \E items \in [ps -> Amounts] :
                   CreatePaymentBatch(w, items)
      BY <1>3, <3>4, CreatePaymentBatchSerial
    <3>5. CASE \E b \in DOMAIN batches : MarkPaymentBatchPaid(w, b)
      BY <1>3, <3>5, MarkPaymentBatchPaidSerial
    <3>6. CASE \E x \in DOMAIN transactions,
                  next \in {"PENDING", "PAID", "REJECTED", "CANCELLED"} :
                   UpdateTransactionStatus(w, x, next)
      BY <1>3, <3>6, UpdateTransactionSerial
    <3> QED
      BY <2>1, <3>1, <3>2, <3>3, <3>4, <3>5, <3>6 DEF Arrive
  <2>2. ASSUME NEW w \in Workers, ServePayables(w) \/ AbandonPayment(w) PROVE PayablesSerial'
    BY <1>3, <2>2, EditSerial, SaveSubmittedSerial, SaveDecidedSerial, ReadersOfPayablesSerial,
       ApproveBatchPayablesSerial, HearOfReversalSerial
    DEF ServePayables
  <2> QED
    BY <1>3, <2>1, <2>2 DEF PayablesNext, PayablesStep
<1> QED
  BY <1>1, <1>2, <1>3

(* Requests served one at a time find what they read as they read it.      *)
THEOREM PayablesSerialInvariant == PayablesSpec => []PayablesSerial
<1>1. PayablesInit => PayablesSerial
  BY IdlePayables DEF PayablesInit, PayablesSerial, VoidsOK
<1> QED
  BY <1>1, PayablesNextSerial, PayablesInvariant, PTL DEF PayablesSpec

(* Served one at a time, nothing was paid on a payable that is void, and no*)
(* batch that may still be paid contains it.                               *)
THEOREM VoidsOweNothing == PayablesSpec => []VoidOwesNothing
<1>1. PayablesSerial => VoidOwesNothing
  BY DEF PayablesSerial, VoidsOK, OpenBatch, VoidOwesNothing
<1> QED
  BY <1>1, PayablesSerialInvariant, PTL
=============================================================================
