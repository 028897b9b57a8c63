------------------------------ MODULE StockLedger ------------------------------
(***************************************************************************)
(* The stock engine of InventoryService: executeInventoryTransaction,      *)
(* reserveStock and releaseStock.  Each of them runs in a transaction that *)
(* first takes a pessimistic write lock on the product row, so an          *)
(* operation on one product is one atomic action here - but for the lot.   *)
(* LotsService.updateQuantity finds the lot and saves it again without a   *)
(* lock, and the lock on the product does not cover it when another        *)
(* product's movements name the same lot: a movement that names a lot      *)
(* first reads it, in a step of its own.                                   *)
(*                                                                         *)
(* A product keeps its physical stock, the part of it reserved for sales   *)
(* contracts, and an append-only ledger.  A receipt opens a cost layer (a  *)
(* ledger row with a remaining quantity); an issue draws layers oldest     *)
(* first, by the createdAt column.  That column holds the START of the     *)
(* transaction that inserted the row, which may precede the start of a     *)
(* transaction that got the product lock earlier: hence the free choice of *)
(* `at` below.                                                             *)
(***************************************************************************)
EXTENDS Integers, Sequences, Sums

CONSTANTS
    Products,      \* product rows
    Lots,          \* rows of the lots table
    NoLot,         \* a movement that names no lot
    Times,         \* creation times of layers
    Prices,        \* unit prices of receipts, fallback prices of issues
    MaxQty,        \* bound: largest quantity of one operation
    MaxRows,       \* bound: ledger rows of all products together
    MaxLayers,     \* bound: receipts among them
    LegacyStock    \* bound: opening stock that no ledger row explains

ASSUME ProductsAssumption == IsFiniteSet(Products)
ASSUME TimesAssumption  == Times \subseteq Nat
ASSUME PricesAssumption == Prices \subseteq Nat
ASSUME BoundsAssumption == MaxQty \in Nat /\ MaxRows \in Nat /\ MaxLayers \in Nat /\ LegacyStock \in Nat
ASSUME LotsAssumption   == NoLot \notin Lots

(* InventoryTransactionType, with COUNT for the ADJUSTMENT that            *)
(* approveInventoryCount makes (its referenceNumber is a count's).  Any    *)
(* other ADJUSTMENT is costed and booked as a GRN or a SALES is.           *)
Receipts == {"GRN", "RETURN", "COUNT"}
Issues   == {"SALES", "REJECTION", "COUNT"}

Kinds    == Receipts \cup Issues \cup {"RESERVE", "RELEASE"}

Accounts == {"156", "632", "3388", "3381", "1381"}

VARIABLES
    stock,       \* Product.currentStock
    reserved,    \* Product.reservedStock
    ledger,      \* the inventory_ledger rows of each product, in insertion order
    lots,        \* Lot.currentQuantity
    found,       \* the lot that the transaction holding a product's lock has
                 \* found for its movement, with the quantity it read
    books,       \* debit minus credit of each account
    periodOpen   \* the accounting period of today accepts postings

vars == <<stock, reserved, ledger, lots, found, books, periodOpen>>

Row == [kind      : Kinds,
        change    : Int,
        value     : Int,
        balance   : Int,
        remaining : Nat,
        at        : Times \cup {0},
        lot       : Lots \cup {NoLot}]

TypeOK ==
    /\ stock \in [Products -> Nat]
    /\ reserved \in [Products -> Nat]
    /\ ledger \in [Products -> Seq(Row)]
    /\ lots \in [Lots -> Int]
    /\ found \in [Products -> [lot : Lots \cup {NoLot}, quantity : Int]]
    /\ books \in [Accounts -> Int]
    /\ periodOpen \in BOOLEAN

(* No movement with a lot is under way on the product.                     *)
NoneFound == [lot |-> NoLot, quantity |-> 0]

(* Opening stock of data that predates the FIFO ledger (the "hi huu" case  *)
(* of the code's comment): it has no layer and was never booked.           *)
Init ==
    /\ stock \in [Products -> 0 .. LegacyStock]
    /\ reserved = [p \in Products |-> 0]
    /\ ledger = [p \in Products |-> <<>>]
    /\ lots = [l \in Lots |-> 0]
    /\ found = [p \in Products |-> NoneFound]
    /\ books = [a \in Accounts |-> 0]
    /\ periodOpen = TRUE

-----------------------------------------------------------------------------
(* FIFO layers                                                             *)

Abs(n) == IF n < 0 THEN -n ELSE n
Lesser(m, n) == IF m < n THEN m ELSE n
Greater(m, n) == IF m < n THEN n ELSE m

Remaining(rows) == [i \in 1 .. Len(rows) |-> rows[i].remaining]

(* Units in the open layers: SUM(remainingQuantity) of the product.        *)
LayerUnits(rows) == SumTo(Remaining(rows), Len(rows))

LayerPrice(row) == row.value \div row.change

(* How many units an issue of `need` units takes from each layer: all it   *)
(* can, oldest layer first.  Layers of one creation time come in any order.*)
FifoDraw(rows, need, used) ==
    LET Partial(i) == used[i] > 0 /\ used[i] < rows[i].remaining
    IN  /\ \A i \in DOMAIN rows : used[i] <= rows[i].remaining
        /\ SumTo(used, Len(rows)) = Lesser(need, LayerUnits(rows))
        /\ \A i, j \in DOMAIN rows :
              rows[i].at < rows[j].at /\ used[j] > 0 => used[i] = rows[i].remaining
        /\ \A i, j \in DOMAIN rows : Partial(i) /\ Partial(j) => i = j

Draws(rows, need) == {used \in [1 .. Len(rows) -> 0 .. need] : FifoDraw(rows, need, used)}

(* What the drawn units cost; units no layer covers cost the fallback price*)
CostOfDraw(rows, need, used, price) ==
    SumTo([i \in 1 .. Len(rows) |->
              IF used[i] = 0 THEN 0 ELSE used[i] * LayerPrice(rows[i])], Len(rows))
      + (need - SumTo(used, Len(rows))) * price

(* Mutant: the drawn layers are not saved. *)
AfterDrawUnsaved(rows, used) == rows

AfterDraw(rows, used) ==
    [i \in 1 .. Len(rows) |-> [rows[i] EXCEPT !.remaining = @ - used[i]]]

-----------------------------------------------------------------------------
(* Journal entries                                                         *)

Entry(debit, credit) == [debit |-> debit, credit |-> credit]

(* The accounts a movement is booked on.  COUNT and REJECTION pass         *)
(* autoPostAccounting = false and their callers post the entry.            *)
EntryOf(kind, change) ==
    CASE kind = "COUNT" /\ change > 0  -> Entry("156", "3381")
      [] kind = "COUNT" /\ change < 0  -> Entry("1381", "156")
      [] kind = "RETURN"               -> Entry("156", "632")
      [] kind = "REJECTION"            -> Entry("3388", "156")
      [] kind \notin {"COUNT", "RETURN"} /\ change > 0 -> Entry("156", "3388")
      [] OTHER                         -> Entry("632", "156")

(* Mutant: issues are booked at the price passed in, not at FIFO cost. *)
AmountAtPrice(kind, change, value, price) == Abs(change) * price

(* The amount booked: a count books its own unit cost, everything else the *)
(* value the ledger row got.                                               *)
Amount(kind, change, value, price) ==
    IF kind = "COUNT" THEN Abs(change) * price ELSE value

(* createJournalEntry, refused when the period of today is not open        *)
Post(entry, amount) ==
    IF amount = 0
    THEN UNCHANGED books
    ELSE /\ periodOpen
         /\ books' = [books EXCEPT ![entry.debit]  = @ + amount,
                                   ![entry.credit] = @ - amount]

-----------------------------------------------------------------------------
(* Operations                                                              *)

RowOf(kind, change, value, balance, remaining, at, lot) ==
    [kind |-> kind, change |-> change, value |-> value, balance |-> balance,
     remaining |-> remaining, at |-> IF change > 0 THEN at ELSE 0, lot |-> lot]

(* Mutants: returns open no layer; an issue forgets its lot.               *)
NewRowReturnUncosted(kind, change, value, balance, at, lot) ==
    RowOf(kind, change, value, balance,
          IF kind = "RETURN" THEN 0 ELSE Greater(change, 0), at, lot)

NewRowWithoutLot(kind, change, value, balance, at, lot) ==
    RowOf(kind, change, value, balance, Greater(change, 0), at,
          IF change < 0 THEN NoLot ELSE lot)

NewRow(kind, change, value, balance, at, lot) ==
    [kind      |-> kind,
     change    |-> change,
     value     |-> value,
     balance   |-> balance,
     remaining |-> Greater(change, 0),
     at        |-> IF change > 0 THEN at ELSE 0,
     lot       |-> lot]

(* The bounds; a movement under way has its row's place.                   *)
RowsLeft(p) ==
    LET others == {q \in Products \ {p} : found[q] # NoneFound}
    IN  SumOver([q \in Products |-> Len(ledger[q])], Products) + Cardinality(others) < MaxRows

Layers(rows) == {i \in DOMAIN rows : rows[i].change > 0}
LayersLeft == SumOver([p \in Products |-> Cardinality(Layers(ledger[p]))], Products) < MaxLayers

(* A movement that names a lot finds its row, under the product's lock.    *)
FindLot(p) ==
    /\ RowsLeft(p)
    /\ found[p] = NoneFound
    /\ \E l \in Lots : found' = [found EXCEPT ![p] = [lot |-> l, quantity |-> lots[l]]]
    /\ UNCHANGED <<stock, reserved, ledger, lots, books, periodOpen>>

(* The transaction fails after all, and its lock goes with it.             *)
Rollback(p) ==
    /\ found[p] # NoneFound
    /\ found' = [found EXCEPT ![p] = NoneFound]
    /\ UNCHANGED <<stock, reserved, ledger, lots, books, periodOpen>>

(* The movement commits; its lot, if it names one, is saved with what was  *)
(* read before.                                                            *)
ExecuteInventoryTransaction(p, change, kind, price, at) ==
    LET rows == ledger[p]
        lot == found[p].lot
        need == IF change < 0 THEN -change ELSE 0
    IN  /\ stock[p] + change >= 0
        /\ \E used \in Draws(rows, need) :
              LET value == IF change > 0 THEN change * price
                                         ELSE CostOfDraw(rows, need, used, price)
              IN  /\ stock' = [stock EXCEPT ![p] = @ + change]
                  /\ ledger' = [ledger EXCEPT ![p] =
                        Append(AfterDraw(rows, used),
                               NewRow(kind, change, value, stock[p] + change, at, lot))]
                  /\ Post(EntryOf(kind, change), Amount(kind, change, value, price))
        /\ lots' = IF lot = NoLot
                   THEN lots
                   ELSE [lots EXCEPT ![lot] = found[p].quantity + change]
        /\ found' = [found EXCEPT ![p] = NoneFound]
        /\ UNCHANGED <<reserved, periodOpen>>

(* Mutant: the row shows what is available, not what is there. *)
ReservationRowOfAvailable(kind, p) == NewRow(kind, 0, 0, stock[p] - reserved[p], 0, NoLot)

ReservationRow(kind, p) == NewRow(kind, 0, 0, stock[p], 0, NoLot)

ReserveStock(p, qty) ==
    /\ found[p] = NoneFound
    /\ RowsLeft(p)
    /\ stock[p] - reserved[p] >= qty
    /\ reserved' = [reserved EXCEPT ![p] = @ + qty]
    /\ ledger' = [ledger EXCEPT ![p] = Append(@, ReservationRow("RESERVE", p))]
    /\ UNCHANGED <<stock, lots, found, books, periodOpen>>

ReleaseStock(p, qty) ==
    /\ found[p] = NoneFound
    /\ RowsLeft(p)
    /\ reserved' = [reserved EXCEPT ![p] = Greater(0, @ - qty)]
    /\ ledger' = [ledger EXCEPT ![p] = Append(@, ReservationRow("RELEASE", p))]
    /\ UNCHANGED <<stock, lots, found, books, periodOpen>>

(* closePeriod / reopenPeriod of the accounting module                     *)
TogglePeriod ==
    /\ periodOpen' = ~periodOpen
    /\ UNCHANGED <<stock, reserved, ledger, lots, found, books>>

Receive(p) ==
    /\ RowsLeft(p) /\ LayersLeft
    /\ \E qty \in 1 .. MaxQty, kind \in Receipts, price \in Prices, at \in Times :
          ExecuteInventoryTransaction(p, qty, kind, price, at)

Issue(p) ==
    /\ RowsLeft(p)
    /\ \E qty \in 1 .. MaxQty, kind \in Issues, price \in Prices :
          ExecuteInventoryTransaction(p, -qty, kind, price, 0)

Reserve(p) == \E qty \in 1 .. MaxQty : ReserveStock(p, qty)
Release(p) == \E qty \in 1 .. MaxQty : ReleaseStock(p, qty)

Next ==
    \/ \E p \in Products : \/ FindLot(p) \/ Rollback(p)
                           \/ Receive(p) \/ Issue(p) \/ Reserve(p) \/ Release(p)
    \/ TogglePeriod

Spec == Init /\ [][Next]_vars

-----------------------------------------------------------------------------
(* Properties                                                              *)

(* Every ledger row carries the running balance: a row's balanceAfter is   *)
(* the previous row's plus its own change, and the last one is the         *)
(* product's current stock.  The stock card is a faithful audit trail of   *)
(* the product row (step 4 and 5 of executeInventoryTransaction).          *)
LedgerChain ==
    \A p \in Products :
        LET rows == ledger[p]
        IN  /\ rows # <<>> => rows[Len(rows)].balance = stock[p]
            /\ \A i \in 2 .. Len(rows) :
                  rows[i].balance = rows[i - 1].balance + rows[i].change

(* A layer never holds more than it received and never less than nothing.  *)
LayersSound ==
    \A p \in Products : \A i \in DOMAIN ledger[p] :
        ledger[p][i].remaining <= Greater(ledger[p][i].change, 0)

Uncosted(p) == stock[p] - LayerUnits(ledger[p])

(* The open layers of a product never hold more units than its stock: no   *)
(* unit is costed twice.                                                   *)
LayersWithinStock == \A p \in Products : Uncosted(p) >= 0

(* Units without a cost layer only come from legacy data: no sequence of   *)
(* receipts, issues and returns ever creates new ones.                     *)
UncostedNeverGrows == [][\A p \in Products : Uncosted(p)' <= Uncosted(p)]_vars

LayerValue(rows) ==
    SumTo([i \in 1 .. Len(rows) |->
              IF rows[i].remaining = 0 THEN 0
              ELSE rows[i].remaining * LayerPrice(rows[i])], Len(rows))

FifoValue == SumOver([p \in Products |-> LayerValue(ledger[p])], Products)

LastRow(p) == ledger[p][Len(ledger[p])]

(* The inventory account 156 follows the FIFO valuation: the difference    *)
(* between the two moves only when a count shortage is booked at the       *)
(* count's own cost instead of its FIFO cost, or when legacy units without *)
(* a layer are issued.                                                     *)
ValuationFollowsFifo ==
    [][ books["156"]' - FifoValue' # books["156"] - FifoValue
          => \E p \in Products :
                /\ ledger[p]' # ledger[p]
                /\ \/ LastRow(p)'.kind = "COUNT" /\ LastRow(p)'.change < 0
                   \/ Uncosted(p)' < Uncosted(p) ]_vars

(* What the movements in the ledger add up to for a lot.                   *)
LotChange(rows, l) ==
    SumTo([i \in 1 .. Len(rows) |-> IF rows[i].lot = l THEN rows[i].change ELSE 0], Len(rows))

LotMovements(l) == SumOver([p \in Products |-> LotChange(ledger[p], l)], Products)

Names(p, l) == \E i \in DOMAIN ledger[p] : ledger[p][i].lot = l

(* A lot that the movements of one product only ever named holds what they *)
(* add up to, although updateQuantity finds and saves it without a lock:   *)
(* the lock on that product serialises them, whatever other products'      *)
(* transactions have read and not yet saved.  (A lot that two products     *)
(* share is not: the later save overwrites the other product's movement.)  *)
LotsFollowLedger ==
    \A l \in Lots :
        (\A p, q \in Products : Names(p, l) /\ Names(q, l) => p = q)
            => lots[l] = LotMovements(l)
=============================================================================
