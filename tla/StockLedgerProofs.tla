--------------------------- MODULE StockLedgerProofs ---------------------------
(***************************************************************************)
(* What the stock engine guarantees for every set of products, every bound *)
(* and every history of calls.                                             *)
(***************************************************************************)
EXTENDS StockLedger, SumTheorems

-----------------------------------------------------------------------------
(* Rows                                                                    *)

LEMMA RowFields ==
    ASSUME NEW rows \in Seq(Row), NEW i \in 1 .. Len(rows)
    PROVE  /\ rows[i] \in Row
           /\ rows[i].change \in Int
           /\ rows[i].balance \in Int
           /\ rows[i].remaining \in Nat
<1>1. rows[i] \in Row
  OBVIOUS
<1> QED
  BY <1>1 DEF Row

LEMMA RemainingType ==
    ASSUME NEW rows \in Seq(Row)
    PROVE  Remaining(rows) \in [1 .. Len(rows) -> Nat]
BY RowFields DEF Remaining

LEMMA LayerUnitsNat ==
    ASSUME NEW rows \in Seq(Row)
    PROVE  LayerUnits(rows) \in Nat
<1>1. Len(rows) \in Nat
  OBVIOUS
<1> QED
  BY <1>1, RemainingType, SumToNat DEF LayerUnits

(* A draw that stays within the layers leaves well-formed rows behind. *)
LEMMA AfterDrawRows ==
    ASSUME NEW rows \in Seq(Row),
           NEW used \in [1 .. Len(rows) -> Nat],
           \A i \in 1 .. Len(rows) : used[i] <= rows[i].remaining
    PROVE  /\ AfterDraw(rows, used) \in Seq(Row)
           /\ Len(AfterDraw(rows, used)) = Len(rows)
           /\ \A i \in 1 .. Len(rows) :
                 /\ AfterDraw(rows, used)[i].change = rows[i].change
                 /\ AfterDraw(rows, used)[i].value = rows[i].value
                 /\ AfterDraw(rows, used)[i].lot = rows[i].lot
                 /\ AfterDraw(rows, used)[i].balance = rows[i].balance
                 /\ AfterDraw(rows, used)[i].remaining = rows[i].remaining - used[i]
<1> DEFINE new == AfterDraw(rows, used)
<1>1. new = [i \in 1 .. Len(rows) |-> [rows[i] EXCEPT !.remaining = @ - used[i]]]
  BY DEF AfterDraw
<1>2. ASSUME NEW i \in 1 .. Len(rows)
      PROVE  /\ new[i] \in Row
             /\ new[i].change = rows[i].change
             /\ new[i].value = rows[i].value
             /\ new[i].lot = rows[i].lot
             /\ new[i].balance = rows[i].balance
             /\ new[i].remaining = rows[i].remaining - used[i]
  <2>1. new[i] = [rows[i] EXCEPT !.remaining = @ - used[i]]
    BY <1>1
  <2>2. rows[i].remaining - used[i] \in Nat
    BY RowFields
  <2> QED
    BY <2>1, <2>2, RowFields, ZenonT(30) DEF Row
<1>3. Len(rows) \in Nat
  OBVIOUS
<1> HIDE DEF new
<1>4. new \in Seq(Row) /\ Len(new) = Len(rows)
  BY <1>1, <1>2, <1>3
<1> QED
  BY <1>2, <1>4 DEF new

LEMMA AppendRow ==
    ASSUME NEW rows \in Seq(Row), NEW row \in Row
    PROVE  /\ Append(rows, row) \in Seq(Row)
           /\ Len(Append(rows, row)) = Len(rows) + 1
           /\ \A i \in 1 .. Len(rows) : Append(rows, row)[i] = rows[i]
           /\ Append(rows, row)[Len(rows) + 1] = row
OBVIOUS

LEMMA LayerUnitsAppend ==
    ASSUME NEW rows \in Seq(Row), NEW row \in Row
    PROVE  LayerUnits(Append(rows, row)) = LayerUnits(rows) + row.remaining
<1> DEFINE n == Len(rows)
           new == Append(rows, row)
<1>1. n \in Nat /\ Len(new) = n + 1 /\ new \in Seq(Row)
  BY AppendRow
<1>2. \A i \in 1 .. n : new[i] = rows[i]
  BY AppendRow
<1>3. new[n + 1] = row
  BY AppendRow
<1>4. Remaining(rows) \in [1 .. n -> Int]
  BY RemainingType
<1>5. Remaining(new) \in [1 .. n + 1 -> Int]
  <2> HIDE DEF n, new
  <2> QED
    BY <1>1, RemainingType
<1>6. \A i \in 1 .. n : Remaining(new)[i] = Remaining(rows)[i]
  BY <1>1, <1>2 DEF Remaining
<1>7. Remaining(new)[n + 1] = row.remaining
  BY <1>1, <1>3 DEF Remaining
<1> HIDE DEF n, new
<1>8. SumTo(Remaining(new), n + 1) = SumTo(Remaining(rows), n) + Remaining(new)[n + 1]
  BY <1>1, <1>4, <1>5, <1>6, SumExtend
<1> QED
  BY <1>1, <1>7, <1>8 DEF LayerUnits, n, new

LEMMA LayerUnitsAfterDraw ==
    ASSUME NEW rows \in Seq(Row),
           NEW used \in [1 .. Len(rows) -> Nat],
           \A i \in 1 .. Len(rows) : used[i] <= rows[i].remaining
    PROVE  LayerUnits(AfterDraw(rows, used)) = LayerUnits(rows) - SumTo(used, Len(rows))
<1> DEFINE n == Len(rows)
           new == AfterDraw(rows, used)
<1>1. n \in Nat /\ Len(new) = n /\ new \in Seq(Row)
  BY AfterDrawRows
<1>2. /\ Remaining(rows) \in [1 .. n -> Int]
      /\ used \in [1 .. n -> Int]
  BY RemainingType
<1>3. Remaining(new) \in [1 .. n -> Int]
  BY <1>1, RemainingType
<1>4. \A i \in 1 .. n : Remaining(new)[i] = Remaining(rows)[i] - used[i]
  BY <1>1, AfterDrawRows DEF Remaining
<1> HIDE DEF n, new
<1>5. SumTo(Remaining(new), n) = SumTo(Remaining(rows), n) - SumTo(used, n)
  BY <1>1, <1>2, <1>3, <1>4, SumDifference
<1> QED
  BY <1>1, <1>5 DEF LayerUnits, n, new

-----------------------------------------------------------------------------
(* What one ledger transition does to a product                            *)

(* The open layers of every product hold at most its stock, and no layer   *)
(* more than it received: the inductive core.                              *)
Engine == TypeOK /\ LayersSound /\ LayersWithinStock

(* How every operation moves one product: it draws from layers and appends *)
(* one row whose balance is the new stock.                                 *)
Movement(p, used, row) ==
    /\ used \in [1 .. Len(ledger[p]) -> Nat]
    /\ \A i \in 1 .. Len(ledger[p]) : used[i] <= ledger[p][i].remaining
    /\ row \in Row
    /\ row.remaining <= Greater(row.change, 0)
    /\ row.balance = stock[p] + row.change
    /\ stock[p] + row.change \in Nat
    /\ stock' = [stock EXCEPT ![p] = @ + row.change]
    /\ ledger' = [ledger EXCEPT ![p] = Append(AfterDraw(ledger[p], used), row)]

LEMMA MovementRows ==
    ASSUME Engine, NEW p \in Products, NEW used, NEW row, Movement(p, used, row)
    PROVE  /\ stock' \in [Products -> Nat]
           /\ ledger' \in [Products -> Seq(Row)]
           /\ stock'[p] = stock[p] + row.change
           /\ Len(ledger'[p]) = Len(ledger[p]) + 1
           /\ ledger'[p][Len(ledger[p]) + 1] = row
           /\ \A i \in 1 .. Len(ledger[p]) :
                 /\ ledger'[p][i].change = ledger[p][i].change
                 /\ ledger'[p][i].value = ledger[p][i].value
                 /\ ledger'[p][i].lot = ledger[p][i].lot
                 /\ ledger'[p][i].balance = ledger[p][i].balance
                 /\ ledger'[p][i].remaining = ledger[p][i].remaining - used[i]
           /\ LayerUnits(ledger'[p])
                 = LayerUnits(ledger[p]) - SumTo(used, Len(ledger[p])) + row.remaining
<1> DEFINE rows == ledger[p]
           drawn == AfterDraw(rows, used)
<1>1. rows \in Seq(Row)
  BY DEF Engine, TypeOK
<1>2. /\ used \in [1 .. Len(rows) -> Nat]
      /\ \A i \in 1 .. Len(rows) : used[i] <= rows[i].remaining
      /\ row \in Row
  BY DEF Movement
<1>3. /\ drawn \in Seq(Row)
      /\ Len(drawn) = Len(rows)
      /\ \A i \in 1 .. Len(rows) :
            /\ drawn[i].change = rows[i].change
            /\ drawn[i].value = rows[i].value
            /\ drawn[i].lot = rows[i].lot
            /\ drawn[i].balance = rows[i].balance
            /\ drawn[i].remaining = rows[i].remaining - used[i]
  <2> HIDE DEF rows
  <2> QED
    BY <1>1, <1>2, AfterDrawRows
<1>4. ledger'[p] = Append(drawn, row)
  BY DEF Movement, Engine, TypeOK
<1>5. LayerUnits(drawn) = LayerUnits(rows) - SumTo(used, Len(rows))
  <2> HIDE DEF rows
  <2> QED
    BY <1>1, <1>2, LayerUnitsAfterDraw
<1> HIDE DEF drawn
<1>6. /\ Append(drawn, row) \in Seq(Row)
      /\ Len(Append(drawn, row)) = Len(drawn) + 1
      /\ \A i \in 1 .. Len(drawn) : Append(drawn, row)[i] = drawn[i]
      /\ Append(drawn, row)[Len(drawn) + 1] = row
  BY <1>2, <1>3, AppendRow
<1>7. LayerUnits(Append(drawn, row)) = LayerUnits(drawn) + row.remaining
  BY <1>2, <1>3, LayerUnitsAppend
<1>8. stock' \in [Products -> Nat] /\ stock'[p] = stock[p] + row.change
  BY DEF Movement, Engine, TypeOK
<1>9. ledger' \in [Products -> Seq(Row)]
  <2>1. ledger' = [ledger EXCEPT ![p] = Append(drawn, row)]
    BY DEF Movement, drawn
  <2> QED
    BY <1>6, <2>1 DEF Engine, TypeOK
<1> QED
  BY <1>3, <1>4, <1>5, <1>6, <1>7, <1>8, <1>9

(* The units of p that no layer covers do not grow, nor turn negative. *)
Covered(p, used, row) ==
    LET left == stock[p] + row.change
                  - (LayerUnits(ledger[p]) - SumTo(used, Len(ledger[p])) + row.remaining)
    IN  0 <= left /\ left <= Uncosted(p)

LEMMA MovementKeepsOthers ==
    ASSUME Engine, NEW p \in Products, NEW used, NEW row, Movement(p, used, row),
           NEW q \in Products, q # p
    PROVE  stock'[q] = stock[q] /\ ledger'[q] = ledger[q]
BY DEF Movement, Engine, TypeOK

LEMMA MovementUncosted ==
    ASSUME Engine, NEW p \in Products, NEW used, NEW row,
           Movement(p, used, row), Covered(p, used, row)
    PROVE  LayersWithinStock' /\ \A q \in Products : Uncosted(q)' <= Uncosted(q)
<1>1. ASSUME NEW q \in Products
      PROVE  Uncosted(q)' >= 0 /\ Uncosted(q)' <= Uncosted(q)
  <2>1. Uncosted(q)' = stock'[q] - LayerUnits(ledger'[q])
    BY DEF Uncosted
  <2>2. CASE q = p
    <3>1. /\ stock'[p] = stock[p] + row.change
          /\ LayerUnits(ledger'[p])
               = LayerUnits(ledger[p]) - SumTo(used, Len(ledger[p])) + row.remaining
      BY MovementRows
    <3>2. stock[p] \in Nat /\ ledger[p] \in Seq(Row) /\ Len(ledger[p]) \in Nat
      BY DEF Engine, TypeOK
    <3>3. LayerUnits(ledger[p]) \in Nat
      BY <3>2, LayerUnitsNat
    <3>4. row.change \in Int /\ row.remaining \in Nat
      BY DEF Movement, Row
    <3>5. used \in [1 .. Len(ledger[p]) -> Int]
      BY DEF Movement
    <3>6. SumTo(used, Len(ledger[p])) \in Int
      BY <3>2, <3>5, SumToInt
    <3>7. stock'[p] - LayerUnits(ledger'[p])
            = stock[p] + row.change
                - (LayerUnits(ledger[p]) - SumTo(used, Len(ledger[p])) + row.remaining)
      BY <3>1, <3>2, <3>3, <3>4, <3>6
    <3> QED
      BY <2>1, <2>2, <3>2, <3>3, <3>4, <3>6, <3>7 DEF Covered, Uncosted
  <2>3. CASE q # p
    <3>1. stock'[q] = stock[q] /\ ledger'[q] = ledger[q]
      BY <2>3, MovementKeepsOthers
    <3>2. stock[q] \in Nat /\ ledger[q] \in Seq(Row)
      BY DEF Engine, TypeOK
    <3>3. LayerUnits(ledger[q]) \in Nat
      BY <3>2, LayerUnitsNat
    <3>4. stock[q] - LayerUnits(ledger[q]) >= 0
      BY DEF Engine, LayersWithinStock, Uncosted
    <3> QED
      BY <2>1, <3>1, <3>2, <3>3, <3>4 DEF Uncosted
  <2> QED
    BY <2>2, <2>3
<1> QED
  BY <1>1 DEF LayersWithinStock

LEMMA MovementLayers ==
    ASSUME Engine, NEW p \in Products, NEW used, NEW row, Movement(p, used, row)
    PROVE  LayersSound'
<1>1. ASSUME NEW q \in Products, NEW i \in DOMAIN ledger'[q]
      PROVE  ledger'[q][i].remaining <= Greater(ledger'[q][i].change, 0)
  <2>1. CASE q # p
    <3>1. ledger'[q] = ledger[q]
      BY <2>1, MovementKeepsOthers
    <3> QED
      BY <3>1 DEF Engine, LayersSound
  <2>2. CASE q = p
    <3> DEFINE n == Len(ledger[p])
    <3>0. ledger'[p] \in Seq(Row)
      BY MovementRows
    <3>1. Len(ledger'[p]) = n + 1 /\ ledger'[p][n + 1] = row
      BY MovementRows
    <3>6. ASSUME NEW k \in 1 .. n
          PROVE  /\ ledger'[p][k].change = ledger[p][k].change
                 /\ ledger'[p][k].remaining = ledger[p][k].remaining - used[k]
      BY MovementRows
    <3>2. n \in Nat /\ ledger[p] \in Seq(Row)
      BY DEF Engine, TypeOK
    <3>3. i \in 1 .. n + 1
      BY <2>2, <3>0, <3>1, <3>2
    <3>4. CASE i = n + 1
      <4>1. row.remaining <= Greater(row.change, 0) /\ row \in Row
        BY DEF Movement
      <4>2. ledger'[q][i] = row
        BY <2>2, <3>1, <3>4
      <4> QED
        BY <4>1, <4>2 DEF Row, Greater
    <3>5. CASE i \in 1 .. n
      <4>1. ledger[p][i].remaining <= Greater(ledger[p][i].change, 0)
        BY <3>2, <3>5 DEF Engine, LayersSound
      <4>2. used[i] \in Nat
        BY <3>5 DEF Movement
      <4>3. ledger[p][i].remaining \in Nat /\ ledger[p][i].change \in Int
        BY <3>2, <3>5, RowFields
      <4>4. /\ ledger'[q][i].remaining = ledger[p][i].remaining - used[i]
            /\ ledger'[q][i].change = ledger[p][i].change
        BY <2>2, <3>5, <3>6
      <4> QED
        BY <4>1, <4>2, <4>3, <4>4 DEF Greater
    <3> QED
      BY <3>2, <3>3, <3>4, <3>5
  <2> QED
    BY <2>1, <2>2
<1> QED
  BY <1>1 DEF LayersSound

LEMMA MovementChain ==
    ASSUME Engine, LedgerChain,
           NEW p \in Products, NEW used, NEW row, Movement(p, used, row)
    PROVE  LedgerChain'
<1> DEFINE Chain(rows, s) ==
              /\ rows # <<>> => rows[Len(rows)].balance = s
              /\ \A i \in 2 .. Len(rows) :
                    rows[i].balance = rows[i - 1].balance + rows[i].change
<1>1. ASSUME NEW q \in Products PROVE Chain(ledger'[q], stock'[q])
  <2>1. CASE q # p
    <3>1. stock'[q] = stock[q] /\ ledger'[q] = ledger[q]
      BY <2>1, MovementKeepsOthers
    <3> QED
      BY <3>1 DEF LedgerChain
  <2>2. CASE q = p
    <3> DEFINE n == Len(ledger[p])
    <3>1. /\ Len(ledger'[p]) = n + 1
          /\ ledger'[p][n + 1] = row
          /\ stock'[p] = stock[p] + row.change
          /\ \A k \in 1 .. n :
                /\ ledger'[p][k].change = ledger[p][k].change
                /\ ledger'[p][k].balance = ledger[p][k].balance
      BY MovementRows
    <3>2. n \in Nat /\ ledger[p] \in Seq(Row)
      BY DEF Engine, TypeOK
    <3>3. row.balance = stock[p] + row.change
      BY DEF Movement
    <3>4. ledger'[p][n + 1].balance = stock'[p]
      BY <3>1, <3>3
    <3>5. ASSUME NEW i \in 2 .. n + 1
          PROVE  ledger'[p][i].balance = ledger'[p][i - 1].balance + ledger'[p][i].change
      <4>1. CASE i = n + 1
        <5>1. n \in 1 .. n /\ i - 1 = n /\ ledger[p] # <<>>
          BY <3>2, <4>1
        <5>2. ledger[p][n].balance = stock[p]
          BY <5>1 DEF LedgerChain
        <5> QED
          BY <3>1, <3>3, <4>1, <5>1, <5>2
      <4>2. CASE i \in 2 .. n
        <5>1. i \in 1 .. n /\ i - 1 \in 1 .. n
          BY <3>2, <4>2
        <5>2. ledger[p][i].balance = ledger[p][i - 1].balance + ledger[p][i].change
          BY <4>2 DEF LedgerChain
        <5> QED
          BY <3>1, <5>1, <5>2
      <4> QED
        BY <3>2, <4>1, <4>2
    <3> QED
      BY <2>2, <3>1, <3>4, <3>5
  <2> QED
    BY <2>1, <2>2
<1> QED
  BY <1>1 DEF LedgerChain

-----------------------------------------------------------------------------
(* Lots                                                                    *)

(* The lot a row names is the one that was found, and is saved with the    *)
(* quantity that was read plus the row's change.                           *)
LotsMoved(p, row) ==
    /\ row.lot \in {NoLot, found[p].lot}
    /\ lots' = IF row.lot = NoLot
               THEN lots
               ELSE [lots EXCEPT ![row.lot] = found[p].quantity + row.change]
    /\ found' = [found EXCEPT ![p] = NoneFound]

(* What a transaction has read of a lot is what the lot still holds, as    *)
(* long as no other product's movement names the lot.                      *)
FoundIsCurrent ==
    \A p \in Products, l \in Lots :
        found[p].lot = l /\ (\A q \in Products : Names(q, l) => q = p)
            => found[p].quantity = lots[l]

LEMMA LotTerms ==
    ASSUME NEW rows \in Seq(Row), NEW l
    PROVE  [i \in 1 .. Len(rows) |-> IF rows[i].lot = l THEN rows[i].change ELSE 0]
              \in [1 .. Len(rows) -> Int]
BY RowFields

LEMMA LotChangeInt ==
    ASSUME NEW rows \in Seq(Row), NEW l
    PROVE  LotChange(rows, l) \in Int
<1>1. Len(rows) \in Nat
  OBVIOUS
<1> QED
  BY <1>1, LotTerms, SumToInt DEF LotChange

(* The rows of a product name a lot for as much more as the new row does.  *)
LEMMA LotChangeMoved ==
    ASSUME Engine, NEW p \in Products, NEW used, NEW row, Movement(p, used, row),
           NEW l
    PROVE  LotChange(ledger'[p], l)
              = LotChange(ledger[p], l) + IF row.lot = l THEN row.change ELSE 0
<1> DEFINE rows == ledger[p]
           new  == ledger'[p]
           n    == Len(rows)
           f    == [i \in 1 .. n |-> IF rows[i].lot = l THEN rows[i].change ELSE 0]
           g    == [i \in 1 .. n + 1 |-> IF new[i].lot = l THEN new[i].change ELSE 0]
<1>1. rows \in Seq(Row) /\ n \in Nat
  BY DEF Engine, TypeOK
<1>2. /\ new \in Seq(Row) /\ Len(new) = n + 1 /\ new[n + 1] = row
      /\ \A i \in 1 .. n : new[i].change = rows[i].change /\ new[i].lot = rows[i].lot
  BY MovementRows
<1>3. LotChange(rows, l) = SumTo(f, n) /\ LotChange(new, l) = SumTo(g, n + 1)
  BY <1>2 DEF LotChange
<1>4. f \in [1 .. n -> Int]
  <2> HIDE DEF rows
  <2> QED
    BY <1>1, LotTerms
<1>5. g \in [1 .. n + 1 -> Int]
  <2> HIDE DEF new, n
  <2> QED
    BY <1>2, LotTerms
<1>6. n + 1 \in 1 .. n + 1 /\ \A i \in 1 .. n : i \in 1 .. n + 1
  BY <1>1
<1>7. g[n + 1] = IF row.lot = l THEN row.change ELSE 0
  BY <1>2, <1>6
<1>8. \A i \in 1 .. n : g[i] = f[i]
  BY <1>2, <1>6
<1> HIDE DEF f, g, n
<1>9. SumTo(g, n + 1) = SumTo(f, n) + g[n + 1]
  BY <1>1, <1>4, <1>5, <1>8, SumExtend
<1> QED
  BY <1>3, <1>7, <1>9

LEMMA MovementNames ==
    ASSUME Engine, NEW p \in Products, NEW used, NEW row, Movement(p, used, row),
           NEW l, NEW q \in Products
    PROVE  Names(q, l)' <=> Names(q, l) \/ (q = p /\ row.lot = l)
<1>1. CASE q # p
  BY <1>1, MovementKeepsOthers DEF Names
<1>2. CASE q = p
  <2> DEFINE rows == ledger[p]
             new  == ledger'[p]
             n    == Len(rows)
  <2>1. rows \in Seq(Row) /\ n \in Nat
    BY DEF Engine, TypeOK
  <2>2. /\ new \in Seq(Row) /\ Len(new) = n + 1 /\ new[n + 1] = row
        /\ \A i \in 1 .. n : new[i].lot = rows[i].lot
    BY MovementRows
  <2>3. DOMAIN rows = 1 .. n /\ DOMAIN new = 1 .. n + 1
    <3> HIDE DEF rows, new
    <3> QED
      BY <2>1, <2>2
  <2>4. Names(p, l)' <=> \E i \in 1 .. n + 1 : new[i].lot = l
    BY <2>3 DEF Names
  <2>5. Names(p, l) <=> \E i \in 1 .. n : rows[i].lot = l
    BY <2>3 DEF Names
  <2> HIDE DEF rows, new, n
  <2>6. 1 .. n + 1 = (1 .. n) \cup {n + 1}
    BY <2>1
  <2> QED
    BY <1>2, <2>2, <2>4, <2>5, <2>6
<1> QED
  BY <1>1, <1>2

LEMMA MovementLots ==
    ASSUME Engine, LotsFollowLedger, FoundIsCurrent,
           NEW p \in Products, NEW used, NEW row, Movement(p, used, row), LotsMoved(p, row)
    PROVE  LotsFollowLedger'
<1>1. ASSUME NEW l \in Lots,
             \A q, r \in Products : Names(q, l)' /\ Names(r, l)' => q = r
      PROVE  lots'[l] = LotMovements(l)'
  <2> DEFINE f == [q \in Products |-> LotChange(ledger[q], l)]
             g == [q \in Products |-> LotChange(ledger'[q], l)]
             d == IF row.lot = l THEN row.change ELSE 0
  <2>1. LotMovements(l) = SumOver(f, Products) /\ LotMovements(l)' = SumOver(g, Products)
    BY DEF LotMovements
  <2>2. f \in [Products -> Int] /\ g \in [Products -> Int]
    <3>1. \A q \in Products : ledger[q] \in Seq(Row) /\ ledger'[q] \in Seq(Row)
      BY MovementRows DEF Engine, TypeOK
    <3> QED
      BY <3>1, LotChangeInt
  <2>3. g[p] = f[p] + d /\ f[p] \in Int /\ d \in Int /\ row.change \in Int
    <3>1. LotChange(ledger'[p], l) = LotChange(ledger[p], l) + d
      BY LotChangeMoved
    <3>2. row.change \in Int
      BY DEF Movement, Row
    <3> QED
      BY <2>2, <3>1, <3>2
  <2>4. \A q \in Products : q # p => g[q] = f[q]
    BY MovementKeepsOthers
  <2> HIDE DEF f, g
  <2>5. SumOver(g, Products) = SumOver(f, Products) + (g[p] - f[p])
    BY <2>2, <2>4, ProductsAssumption, SumOverChange
  <2>6. SumOver(f, Products) \in Int
    BY <2>2, ProductsAssumption, SumOverInt
  <2>7. lots[l] = SumOver(f, Products) /\ lots[l] \in Int
    <3>1. \A q, r \in Products : Names(q, l) /\ Names(r, l) => q = r
      BY <1>1, MovementNames
    <3> QED
      BY <2>1, <3>1 DEF LotsFollowLedger, Engine, TypeOK
  <2>8. lots'[l] = lots[l] + d
    <3>1. CASE row.lot # l
      <4>1. lots'[l] = lots[l]
        BY <3>1 DEF LotsMoved, Engine, TypeOK
      <4> QED
        BY <2>7, <3>1, <4>1
    <3>2. CASE row.lot = l
      <4>1. l # NoLot /\ found[p].lot = l
        BY <3>2, LotsAssumption DEF LotsMoved
      <4>2. Names(p, l)'
        BY <3>2, MovementNames
      <4>3. \A q \in Products : Names(q, l) => q = p
        BY <1>1, <4>2, MovementNames
      <4>4. found[p].quantity = lots[l]
        BY <4>1, <4>3 DEF FoundIsCurrent
      <4>5. lots' = [lots EXCEPT ![l] = found[p].quantity + row.change]
        BY <3>2, <4>1 DEF LotsMoved
      <4>6. lots'[l] = found[p].quantity + row.change
        BY <4>5 DEF Engine, TypeOK
      <4> QED
        BY <3>2, <4>4, <4>6
    <3> QED
      BY <3>1, <3>2
  <2> HIDE DEF d
  <2> QED
    BY <2>1, <2>3, <2>5, <2>6, <2>7, <2>8
<1> QED
  BY <1>1 DEF LotsFollowLedger

LEMMA MovementFound ==
    ASSUME Engine, FoundIsCurrent,
           NEW p \in Products, NEW used, NEW row, Movement(p, used, row), LotsMoved(p, row)
    PROVE  FoundIsCurrent'
<1>1. ASSUME NEW q \in Products, NEW l \in Lots, found'[q].lot = l,
             \A r \in Products : Names(r, l)' => r = q
      PROVE  found'[q].quantity = lots'[l]
  <2>1. CASE q = p
    <3>1. found'[p].lot = NoLot
      BY DEF LotsMoved, NoneFound, Engine, TypeOK
    <3> QED
      BY <1>1, <2>1, <3>1, LotsAssumption
  <2>2. CASE q # p
    <3>1. found'[q] = found[q]
      BY <2>2 DEF LotsMoved, Engine, TypeOK
    <3>2. row.lot # l
      BY <1>1, <2>2, MovementNames
    <3>3. lots'[l] = lots[l]
      BY <3>2 DEF LotsMoved, Engine, TypeOK
    <3>4. \A r \in Products : Names(r, l) => r = q
      BY <1>1, MovementNames
    <3> QED
      BY <1>1, <3>1, <3>3, <3>4 DEF FoundIsCurrent
  <2> QED
    BY <2>1, <2>2
<1> QED
  BY <1>1 DEF FoundIsCurrent

-----------------------------------------------------------------------------
(* Values                                                                  *)

(* What is drawn from the layers is worth, and what the new layer is.      *)
DrawnTerms(rows, used) ==
    [i \in 1 .. Len(rows) |-> IF used[i] = 0 THEN 0 ELSE used[i] * LayerPrice(rows[i])]

DrawnValue(rows, used) == SumTo(DrawnTerms(rows, used), Len(rows))

NewValue(row) == IF row.remaining = 0 THEN 0 ELSE row.remaining * LayerPrice(row)

(* Account 156 changes by as much, but for a count shortage and for units  *)
(* that no layer covers.                                                   *)
Booked(p, used, row) ==
    \/ row.kind = "COUNT" /\ row.change < 0
    \/ row.change < 0 /\ SumTo(used, Len(ledger[p])) < -row.change
    \/ books'["156"] - books["156"] = NewValue(row) - DrawnValue(ledger[p], used)

ValuationStep ==
    books["156"]' - FifoValue' # books["156"] - FifoValue
      => \E p \in Products :
            /\ ledger[p]' # ledger[p]
            /\ \/ LastRow(p)'.kind = "COUNT" /\ LastRow(p)'.change < 0
               \/ Uncosted(p)' < Uncosted(p)

LEMMA LayerPriceInt ==
    ASSUME NEW row \in Row, row.remaining <= Greater(row.change, 0), row.remaining # 0
    PROVE  LayerPrice(row) \in Int
<1>1. row.change \in Int /\ row.value \in Int /\ row.remaining \in Nat
  BY DEF Row
<1>2. row.change > 0
  BY <1>1 DEF Greater
<1> QED
  BY <1>1, <1>2 DEF LayerPrice

LayerTerms(rows) ==
    [i \in 1 .. Len(rows) |-> IF rows[i].remaining = 0 THEN 0
                              ELSE rows[i].remaining * LayerPrice(rows[i])]

Sound(rows) == \A i \in 1 .. Len(rows) : rows[i].remaining <= Greater(rows[i].change, 0)

LEMMA TermsInt ==
    ASSUME NEW rows \in Seq(Row), Sound(rows),
           NEW used \in [1 .. Len(rows) -> Nat],
           \A i \in 1 .. Len(rows) : used[i] <= rows[i].remaining
    PROVE  /\ LayerTerms(rows) \in [1 .. Len(rows) -> Int]
           /\ DrawnTerms(rows, used) \in [1 .. Len(rows) -> Int]
<1>1. ASSUME NEW i \in 1 .. Len(rows)
      PROVE  /\ NewValue(rows[i]) \in Int
             /\ (IF used[i] = 0 THEN 0 ELSE used[i] * LayerPrice(rows[i])) \in Int
  <2>1. rows[i] \in Row /\ rows[i].remaining \in Nat /\ used[i] \in Nat
    BY RowFields
  <2>2. CASE rows[i].remaining = 0
    BY <2>1, <2>2 DEF NewValue
  <2>3. CASE rows[i].remaining # 0
    <3>1. LayerPrice(rows[i]) \in Int
      BY <2>1, <2>3, LayerPriceInt DEF Sound
    <3> QED
      BY <2>1, <3>1 DEF NewValue
  <2> QED
    BY <2>2, <2>3
<1> QED
  BY <1>1 DEF LayerTerms, DrawnTerms, NewValue

LEMMA LayerValueInt ==
    ASSUME NEW rows \in Seq(Row), Sound(rows)
    PROVE  LayerValue(rows) \in Int
<1> DEFINE none == [i \in 1 .. Len(rows) |-> 0]
<1>1. Len(rows) \in Nat /\ none \in [1 .. Len(rows) -> Nat]
      /\ \A i \in 1 .. Len(rows) : none[i] <= rows[i].remaining
  BY RowFields
<1> HIDE DEF none
<1> QED
  BY <1>1, TermsInt, SumToInt DEF LayerValue, LayerTerms

(* What quantity q is worth at price x; nothing is worth nothing.          *)
Worth(q, x) == IF q = 0 THEN 0 ELSE q * x

LEMMA LessDrawn ==
    ASSUME NEW r \in Nat, NEW u \in Nat, u <= r, NEW x, r # 0 => x \in Int
    PROVE  Worth(r - u, x) = Worth(r, x) - Worth(u, x)
<1>1. CASE r = 0
  BY <1>1 DEF Worth
<1>2. CASE r # 0
  <2>1. (r - u) * x = r * x - u * x /\ r * x \in Int /\ u * x \in Int
    BY <1>2
  <2>2. u = 0 => u * x = 0
    BY <1>2
  <2>3. u = r => u * x = r * x
    OBVIOUS
  <2> QED
    BY <1>2, <2>1, <2>2, <2>3 DEF Worth
<1> QED
  BY <1>1, <1>2

(* The layers of a product are worth what was drawn less, the new one more.*)
LEMMA LayerValueMoved ==
    ASSUME Engine, NEW p \in Products, NEW used, NEW row, Movement(p, used, row)
    PROVE  /\ LayerValue(ledger'[p])
                = LayerValue(ledger[p]) - DrawnValue(ledger[p], used) + NewValue(row)
           /\ DrawnValue(ledger[p], used) \in Int /\ NewValue(row) \in Int
           /\ LayerValue(ledger[p]) \in Int
<1> DEFINE rows == ledger[p]
           new  == ledger'[p]
           n    == Len(rows)
           left == [i \in 1 .. n |-> LayerTerms(new)[i]]
<1>1. rows \in Seq(Row) /\ n \in Nat /\ Sound(rows)
  BY DEF Engine, TypeOK, LayersSound, Sound
<1>2. /\ used \in [1 .. n -> Nat]
      /\ \A i \in 1 .. n : used[i] <= rows[i].remaining
  BY DEF Movement
<1>3. new \in Seq(Row) /\ Len(new) = n + 1 /\ new[n + 1] = row
  BY MovementRows
<1>4. Sound(new)
  BY <1>3, MovementLayers DEF LayersSound, Sound
<1>5. ASSUME NEW i \in 1 .. n
      PROVE  /\ new[i].change = rows[i].change
             /\ new[i].value = rows[i].value
             /\ new[i].remaining = rows[i].remaining - used[i]
  BY MovementRows
<1>6. LayerTerms(rows) \in [1 .. n -> Int] /\ DrawnTerms(rows, used) \in [1 .. n -> Int]
  <2> HIDE DEF rows
  <2> QED
    BY <1>1, <1>2, TermsInt
<1>7. LayerTerms(new) \in [1 .. n + 1 -> Int]
  <2> DEFINE none == [i \in 1 .. Len(new) |-> 0]
  <2>1. none \in [1 .. Len(new) -> Nat] /\ \A i \in 1 .. Len(new) : none[i] <= new[i].remaining
    BY <1>3, RowFields
  <2> HIDE DEF none, new
  <2> QED
    BY <1>3, <1>4, <2>1, TermsInt
<1>8. left \in [1 .. n -> Int]
  BY <1>1, <1>7
<1>9. ASSUME NEW i \in 1 .. n
      PROVE  left[i] = LayerTerms(rows)[i] - DrawnTerms(rows, used)[i]
  <2>1. i \in 1 .. n + 1
    BY <1>1
  <2>2. LayerPrice(new[i]) = LayerPrice(rows[i])
    BY <1>5 DEF LayerPrice
  <2>3. LayerTerms(new)[i] = IF rows[i].remaining - used[i] = 0 THEN 0
                             ELSE (rows[i].remaining - used[i]) * LayerPrice(rows[i])
    BY <1>3, <1>5, <2>1, <2>2 DEF LayerTerms
  <2>4. rows[i] \in Row /\ rows[i].remaining \in Nat /\ used[i] \in Nat
    BY <1>1, <1>2, RowFields
  <2>5. rows[i].remaining # 0 => LayerPrice(rows[i]) \in Int
    BY <1>1, <2>4, LayerPriceInt DEF Sound
  <2>6. used[i] <= rows[i].remaining
    BY <1>2
  <2> HIDE DEF rows
  <2> PICK r, u, x : r = rows[i].remaining /\ u = used[i] /\ x = LayerPrice(rows[i])
    OBVIOUS
  <2>7. Worth(r - u, x) = Worth(r, x) - Worth(u, x)
    <3>1. r \in Nat /\ u \in Nat /\ u <= r /\ (r # 0 => x \in Int)
      BY <2>4, <2>5, <2>6
    <3> QED
      BY <3>1, LessDrawn
  <2>8. LayerTerms(new)[i] = (IF rows[i].remaining = 0 THEN 0
                                  ELSE rows[i].remaining * LayerPrice(rows[i]))
                             - (IF used[i] = 0 THEN 0 ELSE used[i] * LayerPrice(rows[i]))
    BY <2>3, <2>7 DEF Worth
  <2> QED
    BY <2>8 DEF LayerTerms, DrawnTerms
<1>10. LayerTerms(new)[n + 1] = NewValue(row)
  BY <1>1, <1>3 DEF LayerTerms, NewValue
<1>11. NewValue(row) \in Int
  BY <1>1, <1>7, <1>10
<1>12. \A i \in 1 .. n : LayerTerms(new)[i] = left[i]
  OBVIOUS
<1>13. LayerValue(new) = SumTo(LayerTerms(new), n + 1) /\ LayerValue(rows) = SumTo(LayerTerms(rows), n)
  BY <1>3 DEF LayerValue, LayerTerms
<1>14. DrawnValue(rows, used) = SumTo(DrawnTerms(rows, used), n)
  BY DEF DrawnValue
<1> HIDE DEF left, n, rows, new
<1>15. SumTo(LayerTerms(new), n + 1) = SumTo(left, n) + LayerTerms(new)[n + 1]
  BY <1>1, <1>7, <1>8, <1>12, SumExtend
<1>16. SumTo(left, n) = SumTo(LayerTerms(rows), n) - SumTo(DrawnTerms(rows, used), n)
  BY <1>1, <1>6, <1>8, <1>9, SumDifference
<1>17. SumTo(LayerTerms(rows), n) \in Int /\ SumTo(DrawnTerms(rows, used), n) \in Int
  BY <1>1, <1>6, SumToInt
<1>18. /\ LayerValue(new) = LayerValue(rows) - DrawnValue(rows, used) + NewValue(row)
       /\ DrawnValue(rows, used) \in Int /\ LayerValue(rows) \in Int
  BY <1>10, <1>11, <1>13, <1>14, <1>15, <1>16, <1>17
<1> QED
  BY <1>11, <1>18 DEF rows, new

LEMMA FifoValueMoved ==
    ASSUME Engine, NEW p \in Products, NEW used, NEW row, Movement(p, used, row)
    PROVE  /\ FifoValue' = FifoValue + NewValue(row) - DrawnValue(ledger[p], used)
           /\ FifoValue \in Int
<1> DEFINE f == [q \in Products |-> LayerValue(ledger[q])]
           g == [q \in Products |-> LayerValue(ledger'[q])]
<1>1. FifoValue = SumOver(f, Products) /\ FifoValue' = SumOver(g, Products)
  BY DEF FifoValue
<1>2. \A q \in Products : ledger[q] \in Seq(Row) /\ Sound(ledger[q])
  BY DEF Engine, TypeOK, LayersSound, Sound
<1>3. \A q \in Products : ledger'[q] \in Seq(Row) /\ Sound(ledger'[q])
  BY MovementRows, MovementLayers DEF LayersSound, Sound
<1>4. f \in [Products -> Int] /\ g \in [Products -> Int]
  BY <1>2, <1>3, LayerValueInt
<1>5. \A q \in Products : q # p => g[q] = f[q]
  BY MovementKeepsOthers
<1>6. /\ g[p] = f[p] - DrawnValue(ledger[p], used) + NewValue(row)
      /\ DrawnValue(ledger[p], used) \in Int /\ NewValue(row) \in Int /\ f[p] \in Int
  BY LayerValueMoved
<1> HIDE DEF f, g
<1>7. SumOver(g, Products) = SumOver(f, Products) + (g[p] - f[p])
  BY <1>4, <1>5, ProductsAssumption, SumOverChange
<1>8. SumOver(f, Products) \in Int
  BY <1>4, ProductsAssumption, SumOverInt
<1> QED
  BY <1>1, <1>6, <1>7, <1>8

LEMMA MovementValuation ==
    ASSUME Engine, NEW p \in Products, NEW used, NEW row,
           Movement(p, used, row), Booked(p, used, row), books' \in [Accounts -> Int]
    PROVE  ValuationStep
<1>0. ledger'[p] # ledger[p]
  <2>1. Len(ledger'[p]) = Len(ledger[p]) + 1 /\ Len(ledger[p]) \in Nat
    BY MovementRows DEF Engine, TypeOK
  <2> QED
    BY <2>1
<1>1. CASE row.kind = "COUNT" /\ row.change < 0
  <2>1. LastRow(p)' = row
    <3>1. LastRow(p)' = ledger'[p][Len(ledger'[p])]
      BY DEF LastRow
    <3>2. Len(ledger'[p]) = Len(ledger[p]) + 1 /\ ledger'[p][Len(ledger[p]) + 1] = row
      BY MovementRows
    <3> QED
      BY <3>1, <3>2
  <2> QED
    BY <1>0, <1>1, <2>1 DEF ValuationStep
<1>2. CASE row.change < 0 /\ SumTo(used, Len(ledger[p])) < -row.change
  <2> DEFINE u == SumTo(used, Len(ledger[p]))
  <2>1. /\ row.change \in Int /\ row.remaining \in Nat
        /\ row.remaining <= Greater(row.change, 0)
    BY DEF Movement, Row
  <2>2. row.remaining = 0
    BY <1>2, <2>1 DEF Greater
  <2>3. /\ stock'[p] = stock[p] + row.change
        /\ LayerUnits(ledger'[p]) = LayerUnits(ledger[p]) - u + row.remaining
    BY MovementRows
  <2>4. stock[p] \in Nat /\ ledger[p] \in Seq(Row) /\ Len(ledger[p]) \in Nat
    BY DEF Engine, TypeOK
  <2>5. LayerUnits(ledger[p]) \in Nat
    BY <2>4, LayerUnitsNat
  <2>6. u \in Int
    <3>1. used \in [1 .. Len(ledger[p]) -> Int]
      BY DEF Movement
    <3> QED
      BY <2>4, <3>1, SumToInt
  <2> HIDE DEF u
  <2>7. stock'[p] - LayerUnits(ledger'[p]) < stock[p] - LayerUnits(ledger[p])
    BY <1>2, <2>1, <2>2, <2>3, <2>4, <2>5, <2>6 DEF u
  <2>8. Uncosted(p)' < Uncosted(p)
    BY <2>7 DEF Uncosted
  <2> QED
    BY <1>0, <2>8 DEF ValuationStep
<1>3. CASE books'["156"] - books["156"] = NewValue(row) - DrawnValue(ledger[p], used)
  <2>1. books'["156"] \in Int /\ books["156"] \in Int
    BY DEF Engine, TypeOK, Accounts
  <2>2. DrawnValue(ledger[p], used) \in Int /\ NewValue(row) \in Int
    BY LayerValueMoved
  <2>3. books["156"]' - FifoValue' = books["156"] - FifoValue
    BY <1>3, <2>1, <2>2, FifoValueMoved
  <2> QED
    BY <2>3 DEF ValuationStep
<1> QED
  BY <1>1, <1>2, <1>3 DEF Booked

(* The inventory account is debited for a receipt, credited for an issue.  *)
LEMMA BookedOn156 ==
    ASSUME books \in [Accounts -> Int], NEW kind, NEW change \in Int, NEW amount \in Int,
           \/ change > 0 /\ kind \in Receipts
           \/ change < 0 /\ kind \in Issues,
           Post(EntryOf(kind, change), amount)
    PROVE  books'["156"] = books["156"] + IF change > 0 THEN amount ELSE -amount
<1> DEFINE entry == EntryOf(kind, change)
<1>1. /\ entry.debit \in Accounts /\ entry.credit \in Accounts
      /\ change > 0 => entry.debit = "156" /\ entry.credit # "156"
      /\ change < 0 => entry.credit = "156" /\ entry.debit # "156"
  BY DEF EntryOf, Entry, Accounts, Receipts, Issues
<1>2. "156" \in Accounts /\ books["156"] \in Int
  BY DEF Accounts
<1> HIDE DEF entry
<1>3. CASE amount = 0
  BY <1>2, <1>3 DEF Post
<1>4. CASE amount # 0
  <2>1. books' = [books EXCEPT ![entry.debit]  = @ + amount,
                               ![entry.credit] = @ - amount]
    BY <1>4, Zenon DEF Post, entry
  <2>2. CASE change > 0
    BY <1>1, <1>2, <2>1, <2>2
  <2>3. CASE change < 0
    BY <1>1, <1>2, <2>1, <2>3
  <2> QED
    BY <2>2, <2>3
<1> QED
  BY <1>3, <1>4

-----------------------------------------------------------------------------
(* Every operation is a movement                                           *)

LEMMA CostOfDrawInt ==
    ASSUME NEW rows \in Seq(Row), NEW need \in Nat, NEW price \in Nat,
           NEW used \in [1 .. Len(rows) -> Nat],
           \A i \in 1 .. Len(rows) : used[i] <= rows[i].remaining,
           \A i \in 1 .. Len(rows) : rows[i].remaining <= Greater(rows[i].change, 0)
    PROVE  CostOfDraw(rows, need, used, price) \in Int
<1> DEFINE n == Len(rows)
           cost == [i \in 1 .. n |-> IF used[i] = 0 THEN 0 ELSE used[i] * LayerPrice(rows[i])]
<1>1. n \in Nat
  OBVIOUS
<1>2. ASSUME NEW i \in 1 .. n
      PROVE  (IF used[i] = 0 THEN 0 ELSE used[i] * LayerPrice(rows[i])) \in Int
  <2>1. /\ rows[i].value \in Int
        /\ rows[i].change \in Int
        /\ rows[i].remaining \in Nat
        /\ used[i] \in Nat
    <3>1. rows[i] \in Row
      OBVIOUS
    <3> QED
      BY <3>1 DEF Row
  <2>2. CASE used[i] # 0
    <3>1. rows[i].change > 0
      BY <2>1, <2>2 DEF Greater
    <3>2. LayerPrice(rows[i]) \in Int
      BY <2>1, <3>1 DEF LayerPrice
    <3> QED
      BY <2>1, <3>2
  <2> QED
    BY <2>2
<1>3. cost \in [1 .. n -> Int]
  BY <1>2
<1>4. used \in [1 .. n -> Int]
  OBVIOUS
<1>5. SumTo(cost, n) \in Int /\ SumTo(used, n) \in Int
  <2> HIDE DEF cost, n
  <2> QED
    BY <1>1, <1>3, <1>4, SumToInt
<1> QED
  BY <1>5 DEF CostOfDraw

(* How an operation moves one product, its lot and the books.              *)
Moves(p) ==
    \E used, row : /\ Movement(p, used, row) /\ Covered(p, used, row)
                   /\ LotsMoved(p, row) /\ Booked(p, used, row)

LEMMA ExecuteIsMovement ==
    ASSUME Engine, NEW p \in Products, NEW change \in Int, NEW kind \in Kinds,
           \/ change > 0 /\ kind \in Receipts
           \/ change < 0 /\ kind \in Issues,
           NEW price \in Nat,
           NEW at \in Times \cup {0},
           ExecuteInventoryTransaction(p, change, kind, price, at)
    PROVE  Moves(p) /\ TypeOK'
<1> DEFINE rows == ledger[p]
           need == IF change < 0 THEN -change ELSE 0
           n == Len(rows)
           lot == found[p].lot
<1>1. /\ rows \in Seq(Row) /\ n \in Nat /\ stock[p] \in Nat /\ need \in Nat
      /\ lot \in Lots \cup {NoLot}
  BY DEF Engine, TypeOK
<1>2. PICK used \in Draws(rows, need) :
         LET value == IF change > 0 THEN change * price
                                    ELSE CostOfDraw(rows, need, used, price)
         IN  /\ stock' = [stock EXCEPT ![p] = @ + change]
             /\ ledger' = [ledger EXCEPT ![p] =
                   Append(AfterDraw(rows, used),
                          NewRow(kind, change, value, stock[p] + change, at, lot))]
             /\ Post(EntryOf(kind, change), Amount(kind, change, value, price))
  BY Zenon DEF ExecuteInventoryTransaction
<1> DEFINE value == IF change > 0 THEN change * price
                                  ELSE CostOfDraw(rows, need, used, price)
           row == NewRow(kind, change, value, stock[p] + change, at, lot)
<1>3. /\ used \in [1 .. n -> 0 .. need]
      /\ \A i \in 1 .. n : used[i] <= rows[i].remaining
      /\ SumTo(used, n) = Lesser(need, LayerUnits(rows))
  <2> HIDE DEF rows, need
  <2>1. used \in [1 .. n -> 0 .. need] /\ FifoDraw(rows, need, used)
    BY DEF Draws
  <2>2. DOMAIN rows = 1 .. n
    BY <1>1
  <2> QED
    BY <2>1, <2>2 DEF FifoDraw
<1>4. used \in [1 .. n -> Nat]
  BY <1>1, <1>3
<1>5. value \in Int
  <2>1. \A i \in 1 .. n : rows[i].remaining <= Greater(rows[i].change, 0)
    BY <1>1 DEF Engine, LayersSound
  <2>2. CostOfDraw(rows, need, used, price) \in Int
    <3> HIDE DEF rows, need
    <3> QED
      BY <1>1, <1>3, <1>4, <2>1, CostOfDrawInt
  <2> HIDE DEF rows, need
  <2> QED
    BY <2>2
<1> HIDE DEF value
<1>6. stock[p] + change \in Nat
  BY <1>1 DEF ExecuteInventoryTransaction
<1>7. /\ row \in Row
      /\ row.kind = kind /\ row.change = change /\ row.lot = lot /\ row.value = value
      /\ row.balance = stock[p] + change
      /\ row.remaining = Greater(change, 0)
  BY <1>1, <1>5, <1>6 DEF NewRow, Row, Greater
<1>8. Movement(p, used, row)
  <2>1. /\ stock' = [stock EXCEPT ![p] = @ + row.change]
        /\ ledger' = [ledger EXCEPT ![p] = Append(AfterDraw(rows, used), row)]
    BY <1>2, <1>7 DEF value
  <2> HIDE DEF row
  <2>2. row.remaining <= Greater(row.change, 0)
    BY <1>7 DEF Greater
  <2>3. /\ row.balance = stock[p] + row.change
        /\ stock[p] + row.change \in Nat
    BY <1>6, <1>7
  <2> QED
    BY <1>3, <1>4, <1>7, <2>1, <2>2, <2>3, Zenon DEF Movement
<1>9. Covered(p, used, row)
  <2>1. LayerUnits(rows) \in Nat
    BY <1>1, LayerUnitsNat
  <2>2. stock[p] - LayerUnits(rows) >= 0
    BY DEF Engine, LayersWithinStock, Uncosted
  <2>3. SumTo(used, n) = Lesser(need, LayerUnits(rows))
    BY <1>3
  <2> HIDE DEF row
  <2>4. CASE change > 0
    <3>1. SumTo(used, n) = 0 /\ row.remaining = change
      BY <1>7, <2>1, <2>3, <2>4 DEF Lesser, Greater
    <3> QED
      BY <1>1, <1>7, <2>1, <2>2, <2>4, <3>1 DEF Covered, Uncosted
  <2>5. CASE change < 0
    <3>1. row.remaining = 0 /\ need = -change
      BY <1>7, <2>5 DEF Greater
    <3> QED
      BY <1>1, <1>6, <1>7, <2>1, <2>2, <2>3, <2>5, <3>1 DEF Covered, Uncosted, Lesser
  <2> QED
    BY <2>4, <2>5
<1>10. LotsMoved(p, row)
  BY <1>7 DEF ExecuteInventoryTransaction, LotsMoved
<1>11. Booked(p, used, row)
  <2> DEFINE amount == Amount(kind, change, value, price)
             drawn  == DrawnValue(rows, used)
  <2>1. books \in [Accounts -> Int] /\ books["156"] \in Int
    BY DEF Engine, TypeOK, Accounts
  <2>2. amount \in Int
    BY <1>5 DEF Amount, Abs
  <2>3. books'["156"] = books["156"] + IF change > 0 THEN amount ELSE -amount
    <3>1. Post(EntryOf(kind, change), amount)
      BY <1>2 DEF value
    <3> HIDE DEF amount
    <3> QED
      BY <2>1, <2>2, <3>1, BookedOn156
  <2>4. drawn \in Int /\ NewValue(row) \in Int
    <3> HIDE DEF rows, row
    <3> QED
      BY <1>8, LayerValueMoved DEF rows
  <2>5. CASE change > 0
    <3>1. value = change * price /\ amount = value
      BY <2>5 DEF value, Amount, Abs
    <3>2. drawn = 0
      <4>1. need = 0
        BY <2>5
      <4> HIDE DEF need
      <4>2. \A i \in 1 .. n : used[i] = 0
        BY <1>3, <4>1
      <4>3. DrawnTerms(rows, used) \in [1 .. n -> Int]
            /\ \A i \in 1 .. n : DrawnTerms(rows, used)[i] = 0
        BY <4>2 DEF DrawnTerms
      <4> HIDE DEF rows, n
      <4> QED
        BY <1>1, <4>3, SumToZero DEF DrawnValue, n
    <3>3. row.remaining = change /\ LayerPrice(row) = value \div change
      BY <1>7, <2>5 DEF Greater, LayerPrice
    <3>4. (change * price) \div change = price
      BY <2>5
    <3> HIDE DEF row, amount, drawn, value
    <3>5. NewValue(row) = change * price
      BY <2>5, <3>1, <3>3, <3>4 DEF NewValue
    <3> QED
      BY <2>1, <2>2, <2>3, <2>5, <3>1, <3>2, <3>5 DEF Booked, drawn
  <2>6. CASE change < 0 /\ kind # "COUNT"
    <3> DEFINE u == SumTo(used, n)
    <3>1. amount = value /\ need = -change
      BY <2>6 DEF Amount
    <3>2. value = drawn + (need - u) * price
      BY <2>6 DEF value, CostOfDraw, DrawnValue, DrawnTerms
    <3>3. u \in Int /\ u <= need
      <4>1. LayerUnits(rows) \in Nat
        BY <1>1, LayerUnitsNat
      <4> QED
        BY <1>1, <1>3, <4>1 DEF Lesser
    <3>4. row.remaining = 0
      BY <1>7, <2>6 DEF Greater
    <3> HIDE DEF amount, drawn, value, need, u, row
    <3>5. CASE u < need
      BY <1>7, <2>6, <3>1, <3>5 DEF Booked, u
    <3>6. CASE u = need
      <4>1. (need - u) * price = 0
        BY <1>1, <3>6
      <4>2. value = drawn
        BY <2>4, <3>2, <4>1
      <4>3. NewValue(row) = 0
        BY <3>4 DEF NewValue
      <4> QED
        BY <2>1, <2>3, <2>4, <2>6, <3>1, <4>2, <4>3 DEF Booked, drawn
    <3> QED
      BY <1>1, <3>3, <3>5, <3>6
  <2>7. CASE change < 0 /\ kind = "COUNT"
    BY <1>7, <2>7 DEF Booked
  <2> QED
    BY <2>5, <2>6, <2>7
<1>12. TypeOK'
  <2>1. stock' \in [Products -> Nat] /\ ledger' \in [Products -> Seq(Row)]
    BY <1>8, MovementRows
  <2>2. books' \in [Accounts -> Int]
    <3>1. Post(EntryOf(kind, change), Amount(kind, change, value, price))
      BY <1>2 DEF value
    <3>2. Amount(kind, change, value, price) \in Int
      BY <1>5 DEF Amount, Abs
    <3>3. books \in [Accounts -> Int]
      BY DEF Engine, TypeOK
    <3> DEFINE entry == EntryOf(kind, change)
               amount == Amount(kind, change, value, price)
    <3> HIDE DEF entry, amount
    <3>4. CASE amount = 0
      BY <3>1, <3>3, <3>4 DEF Post, entry, amount
    <3>5. CASE amount # 0
      <4>1. books' = [books EXCEPT ![entry.debit]  = @ + amount,
                                   ![entry.credit] = @ - amount]
        BY <3>1, <3>5, Zenon DEF Post, entry, amount
      <4>2. amount \in Int
        BY <3>2 DEF amount
      <4>3. entry.debit \in Accounts /\ entry.credit \in Accounts
        BY DEF entry, EntryOf, Entry, Accounts
      <4>4. books[entry.debit] + amount \in Int /\ books[entry.credit] - amount \in Int
        BY <3>3, <4>2, <4>3
      <4> QED
        BY <3>3, <4>1, <4>2, <4>3, <4>4
    <3> QED
      BY <3>4, <3>5
  <2>3. /\ lots' \in [Lots -> Int]
        /\ found' \in [Products -> [lot : Lots \cup {NoLot}, quantity : Int]]
    BY DEF ExecuteInventoryTransaction, NoneFound, Engine, TypeOK
  <2>4. reserved' = reserved /\ periodOpen' = periodOpen
    BY DEF ExecuteInventoryTransaction
  <2> QED
    BY <2>1, <2>2, <2>3, <2>4 DEF Engine, TypeOK
<1> HIDE DEF row
<1> QED
  BY <1>8, <1>9, <1>10, <1>11, <1>12 DEF Moves

(* A reservation draws nothing, names no lot and costs nothing.            *)
LEMMA ReservationIsMovement ==
    ASSUME Engine, NEW p \in Products, NEW kind \in {"RESERVE", "RELEASE"},
           ledger' = [ledger EXCEPT ![p] = Append(@, ReservationRow(kind, p))],
           UNCHANGED <<stock, lots, found, books, periodOpen>>, found[p] = NoneFound,
           reserved' \in [Products -> Nat]
    PROVE  Moves(p) /\ TypeOK'
<1> DEFINE rows == ledger[p]
           n == Len(rows)
           used == [i \in 1 .. n |-> 0]
           row == ReservationRow(kind, p)
<1>1. rows \in Seq(Row) /\ n \in Nat /\ stock[p] \in Nat
  BY DEF Engine, TypeOK
<1>2. /\ row \in Row
      /\ row.change = 0 /\ row.lot = NoLot
      /\ row.remaining = 0
      /\ row.balance = stock[p]
  BY <1>1 DEF ReservationRow, NewRow, Row, Greater, Kinds
<1>3. used \in [1 .. n -> Nat] /\ \A i \in 1 .. n : used[i] <= rows[i].remaining
  BY <1>1, RowFields
<1>4. AfterDraw(rows, used) = rows
  <2>1. ASSUME NEW i \in 1 .. n
        PROVE  [rows[i] EXCEPT !.remaining = @ - used[i]] = rows[i]
    <3>1. rows[i] \in Row
      BY <1>1
    <3>2. rows[i].remaining - used[i] = rows[i].remaining
      BY <3>1 DEF Row
    <3> QED
      BY <3>1, <3>2 DEF Row
  <2>2. AfterDraw(rows, used) = [i \in 1 .. n |-> rows[i]]
    BY <2>1 DEF AfterDraw
  <2>3. rows = [i \in 1 .. n |-> rows[i]]
    BY <1>1
  <2> QED
    BY <2>2, <2>3
<1>5. Movement(p, used, row)
  <2>1. stock' = [stock EXCEPT ![p] = @ + row.change]
    BY <1>1, <1>2 DEF Engine, TypeOK
  <2>2. ledger' = [ledger EXCEPT ![p] = Append(AfterDraw(rows, used), row)]
    BY <1>4
  <2> HIDE DEF row, used
  <2>3. row.remaining <= Greater(row.change, 0)
    BY <1>2 DEF Greater
  <2>4. row.balance = stock[p] + row.change /\ stock[p] + row.change \in Nat
    BY <1>1, <1>2
  <2> QED
    BY <1>2, <1>3, <2>1, <2>2, <2>3, <2>4, Zenon DEF Movement
<1>6. Covered(p, used, row)
  <2>1. LayerUnits(rows) \in Nat
    BY <1>1, LayerUnitsNat
  <2>2. stock[p] - LayerUnits(rows) >= 0
    BY DEF Engine, LayersWithinStock, Uncosted
  <2>3. SumTo(used, n) \in Nat
    <3> HIDE DEF used, n
    <3> QED
      BY <1>1, <1>3, SumToNat
  <2>4. SumTo(used, n) = 0
    <3>1. LayerUnits(AfterDraw(rows, used)) = LayerUnits(rows) - SumTo(used, n)
      <4> HIDE DEF used, rows
      <4> QED
        BY <1>1, <1>3, LayerUnitsAfterDraw
    <3> QED
      BY <1>4, <2>1, <2>3, <3>1
  <2> HIDE DEF row, used
  <2> QED
    BY <1>1, <1>2, <2>1, <2>2, <2>4 DEF Covered, Uncosted
<1>7. LotsMoved(p, row)
  BY <1>2 DEF LotsMoved, Engine, TypeOK
<1>8. Booked(p, used, row)
  <2>1. NewValue(row) = 0
    BY <1>2 DEF NewValue
  <2>2. DrawnTerms(rows, used) \in [1 .. n -> Int]
        /\ \A i \in 1 .. n : DrawnTerms(rows, used)[i] = 0
    BY DEF DrawnTerms
  <2>3. DrawnValue(rows, used) = 0
    <3> HIDE DEF rows, n, used
    <3> QED
      BY <1>1, <2>2, SumToZero DEF DrawnValue, n
  <2>4. books'["156"] = books["156"] /\ books["156"] \in Int
    BY DEF Engine, TypeOK, Accounts
  <2> HIDE DEF row, used
  <2> QED
    BY <2>1, <2>3, <2>4 DEF Booked
<1>9. TypeOK'
  <2>1. stock' \in [Products -> Nat] /\ ledger' \in [Products -> Seq(Row)]
    BY <1>5, MovementRows
  <2> QED
    BY <2>1 DEF Engine, TypeOK
<1> HIDE DEF row, used
<1> QED
  BY <1>5, <1>6, <1>7, <1>8, <1>9 DEF Moves

-----------------------------------------------------------------------------
(* The invariant                                                           *)

Inductive == Engine /\ LedgerChain /\ LotsFollowLedger /\ FoundIsCurrent

(* What a step may not do: create uncosted units, or let account 156 and   *)
(* the layers drift apart for any reason but the two that are named.       *)
StepSound == (\A q \in Products : Uncosted(q)' <= Uncosted(q)) /\ ValuationStep

LEMMA InitInductive == Init => Inductive
<1> SUFFICES ASSUME Init PROVE Inductive
  OBVIOUS
<1>1. TypeOK
  BY BoundsAssumption DEF Init, TypeOK, NoneFound
<1>2. \A p \in Products : ledger[p] = <<>> /\ stock[p] \in Nat
  BY <1>1 DEF Init, TypeOK
<1>3. LayersSound
  BY <1>2 DEF LayersSound
<1>4. LedgerChain
  BY <1>2 DEF LedgerChain
<1>7. LotsFollowLedger
  <2>1. ASSUME NEW l \in Lots PROVE LotMovements(l) = 0
    <3> DEFINE f == [p \in Products |-> LotChange(ledger[p], l)]
    <3>1. LotChange(<<>>, l) = 0
      <4> DEFINE v == [i \in 1 .. 0 |-> IF <<>>[i].lot = l THEN <<>>[i].change ELSE 0]
      <4>1. v \in [1 .. 0 -> Int] /\ \A k \in 1 .. 0 : v[k] = 0
        OBVIOUS
      <4>2. LotChange(<<>>, l) = SumTo(v, 0)
        BY DEF LotChange
      <4> HIDE DEF v
      <4> QED
        BY <4>1, <4>2, SumToZero
    <3>2. f \in [Products -> Int] /\ \A p \in Products : f[p] = 0
      BY <1>2, <3>1
    <3> HIDE DEF f
    <3>3. SumOver(f, Products) = 0
      BY <3>2, ProductsAssumption, SumOverZero
    <3> QED
      BY <3>3 DEF LotMovements, f
  <2>2. \A l \in Lots : lots[l] = 0
    BY DEF Init
  <2> QED
    BY <2>1, <2>2 DEF LotsFollowLedger
<1>5. LayerUnits(<<>>) = 0
  <2>1. Remaining(<<>>) \in [1 .. 0 -> Int]
    BY DEF Remaining
  <2>2. PartialSums(Remaining(<<>>), 0)[0] = 0
    BY <2>1, PartialSumsFacts
  <2> QED
    BY <2>2 DEF LayerUnits, SumTo
<1>6. LayersWithinStock
  BY <1>2, <1>5 DEF LayersWithinStock, Uncosted
<1>8. FoundIsCurrent
  BY LotsAssumption DEF Init, FoundIsCurrent, NoneFound
<1> QED
  BY <1>1, <1>3, <1>4, <1>6, <1>7, <1>8 DEF Inductive, Engine

(* What any number of these movements preserves, one movement does. *)
LEMMA MovementInductive ==
    ASSUME Inductive, NEW p \in Products,
           Moves(p), TypeOK'
    PROVE  Inductive' /\ StepSound
<1>1. PICK used, row : /\ Movement(p, used, row) /\ Covered(p, used, row)
                       /\ LotsMoved(p, row) /\ Booked(p, used, row)
  BY DEF Moves
<1>2. Engine /\ LedgerChain /\ LotsFollowLedger /\ FoundIsCurrent
  BY DEF Inductive
<1>3. LayersWithinStock' /\ \A q \in Products : Uncosted(q)' <= Uncosted(q)
  BY <1>1, <1>2, MovementUncosted
<1>4. LayersSound'
  BY <1>1, <1>2, MovementLayers
<1>5. LedgerChain'
  BY <1>1, <1>2, MovementChain
<1>6. LotsFollowLedger' /\ FoundIsCurrent'
  BY <1>1, <1>2, MovementLots, MovementFound
<1>7. ValuationStep
  <2>1. books' \in [Accounts -> Int]
    BY DEF TypeOK
  <2> QED
    BY <1>1, <1>2, <2>1, MovementValuation
<1> QED
  BY <1>3, <1>4, <1>5, <1>6, <1>7 DEF Inductive, Engine, StepSound

LEMMA NextInductive ==
    ASSUME Inductive, [Next]_vars
    PROVE  Inductive' /\ StepSound
<1> USE DEF Inductive
<1>0. Engine /\ TypeOK
  BY DEF Engine
<1>1. ASSUME UNCHANGED <<stock, ledger, lots, books>>, TypeOK', FoundIsCurrent'
      PROVE  Inductive' /\ StepSound
  <2>1. LayersSound' /\ LayersWithinStock' /\ LedgerChain' /\ LotsFollowLedger'
    BY <1>1 DEF Engine, LayersSound, LayersWithinStock, LedgerChain, Uncosted,
                LotsFollowLedger, LotMovements, Names
  <2>2. ASSUME NEW q \in Products PROVE Uncosted(q)' <= Uncosted(q)
    <3>1. Uncosted(q)' = Uncosted(q)
      BY <1>1 DEF Uncosted
    <3>2. stock[q] \in Nat /\ LayerUnits(ledger[q]) \in Nat
      BY <1>0, LayerUnitsNat DEF TypeOK
    <3> QED
      BY <3>1, <3>2 DEF Uncosted
  <2>3. ValuationStep
    <3>1. books["156"]' - FifoValue' = books["156"] - FifoValue
      BY <1>1 DEF FifoValue
    <3> QED
      BY <3>1 DEF ValuationStep
  <2> QED
    BY <1>1, <2>1, <2>2, <2>3 DEF Engine, StepSound
<1>2. CASE UNCHANGED vars
  <2>1. TypeOK' /\ FoundIsCurrent' /\ UNCHANGED <<stock, ledger, lots, books>>
    BY <1>0, <1>2 DEF vars, TypeOK, FoundIsCurrent, Names
  <2> QED
    BY <1>1, <2>1
<1>3. CASE TogglePeriod
  <2>1. TypeOK' /\ FoundIsCurrent' /\ UNCHANGED <<stock, ledger, lots, books>>
    BY <1>0, <1>3 DEF TogglePeriod, TypeOK, FoundIsCurrent, Names
  <2> QED
    BY <1>1, <2>1
<1>4. ASSUME NEW p \in Products, Receive(p)
      PROVE  Inductive' /\ StepSound
  <2>1. PICK qty \in 1 .. MaxQty, kind \in Receipts, price \in Prices, at \in Times :
               ExecuteInventoryTransaction(p, qty, kind, price, at)
    BY <1>4 DEF Receive
  <2>2. /\ qty \in Int /\ qty > 0 /\ kind \in Kinds
        /\ price \in Nat /\ at \in Times \cup {0}
    BY PricesAssumption DEF Kinds
  <2>3. Moves(p) /\ TypeOK'
    BY <1>0, <2>1, <2>2, ExecuteIsMovement
  <2> QED
    BY <2>3, MovementInductive
<1>5. ASSUME NEW p \in Products, Issue(p)
      PROVE  Inductive' /\ StepSound
  <2>1. PICK qty \in 1 .. MaxQty, kind \in Issues, price \in Prices :
               ExecuteInventoryTransaction(p, -qty, kind, price, 0)
    BY <1>5 DEF Issue
  <2>2. /\ -qty \in Int /\ -qty < 0 /\ kind \in Kinds
        /\ price \in Nat /\ 0 \in Times \cup {0}
    BY PricesAssumption DEF Kinds
  <2>3. Moves(p) /\ TypeOK'
    BY <1>0, <2>1, <2>2, ExecuteIsMovement
  <2> QED
    BY <2>3, MovementInductive
<1>6. ASSUME NEW p \in Products, Reserve(p)
      PROVE  Inductive' /\ StepSound
  <2>1. PICK qty \in 1 .. MaxQty : ReserveStock(p, qty)
    BY <1>6 DEF Reserve
  <2>2. reserved' \in [Products -> Nat]
    BY <1>0, <2>1 DEF ReserveStock, TypeOK
  <2>3. Moves(p) /\ TypeOK'
    BY <1>0, <2>1, <2>2, ReservationIsMovement DEF ReserveStock
  <2> QED
    BY <2>3, MovementInductive
<1>7. ASSUME NEW p \in Products, Release(p)
      PROVE  Inductive' /\ StepSound
  <2>1. PICK qty \in 1 .. MaxQty : ReleaseStock(p, qty)
    BY <1>7 DEF Release
  <2>2. reserved' \in [Products -> Nat]
    BY <1>0, <2>1 DEF ReleaseStock, TypeOK, Greater
  <2>3. Moves(p) /\ TypeOK'
    BY <1>0, <2>1, <2>2, ReservationIsMovement DEF ReleaseStock
  <2> QED
    BY <2>3, MovementInductive
<1>8. ASSUME NEW p \in Products, FindLot(p) \/ Rollback(p)
      PROVE  Inductive' /\ StepSound
  <2>1. UNCHANGED <<stock, reserved, ledger, lots, books, periodOpen>>
    BY <1>8 DEF FindLot, Rollback
  <2>2. PICK read \in [lot : Lots \cup {NoLot}, quantity : Int] :
           /\ found' = [found EXCEPT ![p] = read]
           /\ read.lot \in Lots => read.quantity = lots[read.lot]
    <3>1. CASE FindLot(p)
      <4>1. PICK l \in Lots : found' = [found EXCEPT ![p] = [lot |-> l, quantity |-> lots[l]]]
        BY <3>1 DEF FindLot
      <4> DEFINE read == [lot |-> l, quantity |-> lots[l]]
      <4>2. read \in [lot : Lots \cup {NoLot}, quantity : Int]
        BY <1>0 DEF TypeOK
      <4>3. read.lot = l /\ read.quantity = lots[l]
        OBVIOUS
      <4> QED
        BY <4>1, <4>2, <4>3
    <3>2. CASE Rollback(p)
      <4>1. found' = [found EXCEPT ![p] = NoneFound] /\ NoneFound.lot \notin Lots
        BY <3>2, LotsAssumption DEF Rollback, NoneFound
      <4>2. NoneFound \in [lot : Lots \cup {NoLot}, quantity : Int]
        BY DEF NoneFound
      <4> QED
        BY <4>1, <4>2
    <3> QED
      BY <1>8, <3>1, <3>2
  <2>3. TypeOK'
    BY <1>0, <2>1, <2>2 DEF TypeOK
  <2>4. FoundIsCurrent'
    <3>1. \A q \in Products : found'[q] = IF q = p THEN read ELSE found[q]
      BY <1>0, <2>2 DEF TypeOK
    <3>2. lots' = lots /\ \A q \in Products, l \in Lots : Names(q, l)' <=> Names(q, l)
      BY <2>1 DEF Names
    <3> QED
      BY <2>2, <3>1, <3>2 DEF FoundIsCurrent
  <2> QED
    BY <1>1, <2>1, <2>3, <2>4
<1> QED
  BY <1>2, <1>3, <1>4, <1>5, <1>6, <1>7, <1>8 DEF Next

(* Typing, the chain of balances, the layers and their bound by the stock, *)
(* and the lots: what all the other theorems follow from.                  *)
THEOREM InductiveInvariant == Spec => []Inductive
<1>1. Inductive /\ [Next]_vars => Inductive'
  BY NextInductive
<1> QED
  BY InitInductive, <1>1, PTL DEF Spec

(* Stock and reserved quantities stay natural numbers and the ledger       *)
(* well-formed, whatever receipts, issues, reservations and releases come  *)
(* (the checks of executeInventoryTransaction and releaseStock).           *)
THEOREM TypeCorrect == Spec => []TypeOK
<1>1. Inductive => TypeOK
  BY DEF Inductive, Engine
<1> QED
  BY InductiveInvariant, <1>1, PTL

(* The stock card of every product adds up to its current stock.           *)
THEOREM LedgerChains == Spec => []LedgerChain
<1>1. Inductive => LedgerChain
  BY DEF Inductive
<1> QED
  BY InductiveInvariant, <1>1, PTL

(* No cost layer is drawn below zero, and no layer grows.                  *)
THEOREM LayersAreSound == Spec => []LayersSound
<1>1. Inductive => LayersSound
  BY DEF Inductive, Engine
<1> QED
  BY InductiveInvariant, <1>1, PTL

(* The open layers never hold more units than the warehouse does.          *)
THEOREM LayersStayWithinStock == Spec => []LayersWithinStock
<1>1. Inductive => LayersWithinStock
  BY DEF Inductive, Engine
<1> QED
  BY InductiveInvariant, <1>1, PTL

(* No operation creates units that have no cost layer.                     *)
THEOREM NoUncostedUnitAppears == Spec => UncostedNeverGrows
<1>1. Inductive /\ [Next]_vars => [\A p \in Products : Uncosted(p)' <= Uncosted(p)]_vars
  BY NextInductive DEF StepSound
<1> QED
  BY InductiveInvariant, <1>1, PTL DEF Spec, UncostedNeverGrows

(* The quantity of a lot that one product's movements name is what the     *)
(* ledger says came in and went out under its name, although the lot is    *)
(* found and saved without a lock and other products' transactions may     *)
(* have read it meanwhile: the invariant says that what the product's own  *)
(* transaction has read is current (FoundIsCurrent).                       *)
THEOREM LotsAreLedgered == Spec => []LotsFollowLedger
<1>1. Inductive => LotsFollowLedger
  BY DEF Inductive
<1> QED
  BY InductiveInvariant, <1>1, PTL

(* Account 156 and the value of the layers move together, for any prices   *)
(* and in any order of receipts and issues, but for count shortages and    *)
(* units without a layer.                                                  *)
THEOREM BooksFollowLayers == Spec => ValuationFollowsFifo
<1>1. Inductive /\ [Next]_vars =>
        [ books["156"]' - FifoValue' # books["156"] - FifoValue
          => \E p \in Products :
                /\ ledger[p]' # ledger[p]
                /\ \/ LastRow(p)'.kind = "COUNT" /\ LastRow(p)'.change < 0
                   \/ Uncosted(p)' < Uncosted(p) ]_vars
  BY NextInductive DEF StepSound, ValuationStep
<1> QED
  BY InductiveInvariant, <1>1, PTL DEF Spec, ValuationFollowsFifo
=============================================================================
