--------------------------- MODULE PurchasingProofs ---------------------------
(***************************************************************************)
(* What Purchasing keeps true for any number of purchase orders, receipts, *)
(* returns, customers and batches, and any baskets, deliveries and claims. *)
(***************************************************************************)
EXTENDS Purchasing, FiniteSetTheorems, TLAPS
-----------------------------------------------------------------------------
(* Types *)
MoveRows ==
    [sku : Skus, change : Int, taken : [Batches -> Nat],
     type : {"restock", "damage", "supplier_return", "sale", "cancel_restore", "adjustment"}]

Warehouses ==
    [stock : [Skus -> Nat], left : [Batches -> Nat], got : [Batches -> Nat],
     moves : [Orders -> Seq(MoveRows)], waiting : SUBSET Skus, hidden : {{}}]

LineRows == [sku : Skus, ordered : Nat, received : Nat]
ItemRows == [sku : Skus, batch : Batches \cup {NoBatch}, quantity : Nat \ {0}, move : Nat]
OrderRows  == [status : DOMAIN OrderAfter \cup {"none"}, lines : Seq(LineRows)]
ReturnRows == [status : DOMAIN ReturnAfter \cup {"none"}, items : Seq(ItemRows)]

Types ==
    /\ po \in [PurchaseOrders -> OrderRows]
    /\ return \in [SupplierReturns -> ReturnRows]
    /\ warehouse \in Warehouses
    /\ expired \subseteq Perishable /\ spoilt \subseteq Skus /\ doubled \subseteq PurchaseOrders
    /\ latest \in [Skus -> Batches \cup {NoBatch}]
    /\ unfiled \in [Skus -> Nat]
-----------------------------------------------------------------------------
(* Sums *)
Plus(c, x, y) == x + y
Some(S) == CHOOSE x \in S : TRUE

ChangeAt(moves, i) == moves[i].change
Net == INSTANCE FoldFacts WITH op <- Plus, map <- ChangeAt, choose <- Some
NetAt(c, d) == NetOf(c.w, d, c.sku)
Books == INSTANCE FoldFacts WITH op <- Plus, map <- NetAt, choose <- Some
QuantityAt(rows, i) == rows[i].quantity
Amount == INSTANCE FoldFacts WITH op <- Plus, map <- QuantityAt, choose <- Some
ReceivedAt(rows, i) == rows[i].received
Come == INSTANCE FoldFacts WITH op <- Plus, map <- ReceivedAt, choose <- Some
In(f, b) == f[b]
Total == INSTANCE FoldFacts WITH op <- Plus, map <- In, choose <- Some

\* What the item i of a return holds of the batch: what its movement took.
PartAt(c, i) == IF c.items[i].move = 0 THEN 0 ELSE c.file[c.items[i].move].taken[c.batch]
Parts == INSTANCE FoldFacts WITH op <- Plus, map <- PartAt, choose <- Some

\* What a document that may still be undone would put back into batch: a
\* customer's order its sale, a return the movements of its items.
HeldBy(file, back, d, batch) ==
    IF d \in CustomerOrders
    THEN IF Len(file[d]) = 1 THEN file[d][1].taken[batch] ELSE 0
    ELSE IF d \in SupplierReturns /\ back[d].status # "cancelled"
    THEN Parts!Sum([file |-> file[d], items |-> back[d].items, batch |-> batch],
                   DOMAIN back[d].items)
    ELSE 0
HeldAt(c, d) == HeldBy(c.file, c.back, d, c.batch)
Holding == INSTANCE FoldFacts WITH op <- Plus, map <- HeldAt, choose <- Some
Held(w, back, batch) ==
    Holding!Sum([file |-> w.moves, back |-> back, batch |-> batch], Orders)
-----------------------------------------------------------------------------
(* The invariant *)
OwnBatches(sku) == {b \in Batches : SkuOf[b] = sku}

\* A movement took from batches of other skus only if they are not clean, and of a
\* calm sku as much as it says.
RowFits(row, clean, calm) ==
    /\ \A b \in Batches : row.taken[b] # 0 /\ SkuOf[b] \in clean => SkuOf[b] = row.sku
    /\ row.sku \in calm /\ row.type \in {"sale", "supplier_return"}
          => Total!Sum(row.taken, OwnBatches(row.sku)) = - row.change
FileFits(w, clean, calm) ==
    \A d \in Orders : \A i \in DOMAIN w.moves[d] : RowFits(w.moves[d][i], clean, calm)

\* The batches of a calm sku hold its stock.
ShelvesFit(w, calm) ==
    \A sku \in calm : Total!Sum(w.left, OwnBatches(sku)) = w.stock[sku]

\* What is in a batch of a clean sku, and what may come back, once came in it.
BatchesFit(w, back, clean) ==
    \A b \in Batches : SkuOf[b] \in clean => w.left[b] + Held(w, back, b) <= w.got[b]

Sound(w, back, clean, calm) ==
    /\ w \in Warehouses
    /\ FileFits(w, clean, calm) /\ ShelvesFit(w, calm) /\ BatchesFit(w, back, clean)

StartsEven(sku) ==
    Stock0[sku] = MapThenSumSet(LAMBDA b : Left0[b], {b \in Batches : SkuOf[b] = sku})
Clean == Skus \ spoilt
Calm  == {sku \in Clean : ~MovedByHand(sku) /\ StartsEven(sku)}

\* An item that was written off has its movement, and no other item has the same.
ItemsHaveMoves(file, items) ==
    /\ \A i \in DOMAIN items : items[i].move # 0 =>
          /\ items[i].move \in DOMAIN file
          /\ file[items[i].move].sku = items[i].sku
          /\ file[items[i].move].type = "supplier_return"
          /\ file[items[i].move].change = - items[i].quantity
    /\ \A i, j \in DOMAIN items : items[i].move = items[j].move => items[i].move = 0 \/ i = j
ReturnFits(file, row) ==
    /\ row.status = "none" => row.items = <<>>
    /\ ItemsHaveMoves(file, row.items)
    /\ row.status \in {"approved", "sent", "completed"} =>
          \A i \in DOMAIN row.items : row.items[i].move # 0
ReturnsFit == \A r \in SupplierReturns : ReturnFits(warehouse.moves[r], return[r])

\* A customer's order starts with its sale.
SalesFirst ==
    \A o \in CustomerOrders : Len(warehouse.moves[o]) >= 1 =>
        warehouse.moves[o][1].type = "sale" /\ warehouse.moves[o][1].change \in {-n : n \in Nat}

OrdersFit ==
    /\ ReceiptsAddUp
    /\ \A p \in PurchaseOrders : po[p].status = "none" => po[p].lines = <<>>

IInv ==
    /\ Types /\ StockOnFile
    /\ Sound(warehouse, return, Clean, Calm)
    /\ OrdersFit /\ ReturnsFit /\ SalesFirst
-----------------------------------------------------------------------------
(* Sums of the model, and of the proof *)
\* The instances have copies of the operators of FiniteSets.
LEMMA SameFinite ==
  ASSUME NEW S, IsFiniteSet(S)
  PROVE  /\ Net!IsFiniteSet(S) /\ Books!IsFiniteSet(S) /\ Amount!IsFiniteSet(S)
         /\ Come!IsFiniteSet(S) /\ Total!IsFiniteSet(S) /\ Parts!IsFiniteSet(S)
         /\ Holding!IsFiniteSet(S)
BY DEF IsFiniteSet, Net!IsFiniteSet, Books!IsFiniteSet, Amount!IsFiniteSet, Come!IsFiniteSet,
       Total!IsFiniteSet, Parts!IsFiniteSet, Holding!IsFiniteSet

LEMMA AllAdd ==
  /\ Net!Adding /\ Books!Adding /\ Amount!Adding /\ Come!Adding /\ Total!Adding
  /\ Parts!Adding /\ Holding!Adding
BY DEF Net!Adding, Books!Adding, Amount!Adding, Come!Adding, Total!Adding, Parts!Adding,
       Holding!Adding, Plus, Some

\* The movements of sku in a file.
RowsOf(moves, sku) == {i \in DOMAIN moves : moves[i].sku = sku}

LEMMA NetIsSum ==
  ASSUME NEW w, NEW d, NEW sku
  PROVE  NetOf(w, d, sku) = Net!Sum(w.moves[d], RowsOf(w.moves[d], sku))
BY DEF NetOf, RowsOf, MapThenSumSet, MapThenFoldSet, Net!Sum, Net!Fold, Net!MapThenFoldSet,
       ChangeAt, Plus, Some

LEMMA InBatchesIsTotal ==
  ASSUME NEW w, NEW S
  PROVE  InBatches(w, S) = Total!Sum(w.left, S)
BY DEF InBatches, SumFunctionOnSet, FoldFunctionOnSet, Total!Sum, Total!Fold,
       Total!MapThenFoldSet, MapThenFoldSet, In, Plus, Some

LEMMA StartIsTotal ==
  ASSUME NEW sku
  PROVE  StartsEven(sku) <=> Stock0[sku] = Total!Sum(Left0, OwnBatches(sku))
BY DEF StartsEven, OwnBatches, MapThenSumSet, MapThenFoldSet, Total!Sum, Total!Fold,
       Total!MapThenFoldSet, In, Plus, Some

\* The documents are what the constants say they are, and no two the same.
LEMMA DocumentsAre ==
  /\ IsFiniteSet(Orders) /\ Orders = PurchaseOrders \cup SupplierReturns \cup CustomerOrders \cup {Shed}
  /\ PurchaseOrders \cap SupplierReturns = {} /\ PurchaseOrders \cap CustomerOrders = {}
  /\ SupplierReturns \cap CustomerOrders = {}
  /\ Shed \notin PurchaseOrders /\ Shed \notin SupplierReturns /\ Shed \notin CustomerOrders
<1>1. DOMAIN Documents = 1..4 /\ Documents[1] = PurchaseOrders /\ Documents[2] = SupplierReturns
      /\ Documents[3] = CustomerOrders /\ Documents[4] = {Shed}
  BY DEF Documents
<1>2. /\ IsFiniteSet(Orders)
      /\ Orders = UNION {Documents[i] : i \in DOMAIN Documents}
      /\ \A i, j \in DOMAIN Documents : i # j => Documents[i] \cap Documents[j] = {}
  BY PurchasingAssumption
<1>3. 1 \in DOMAIN Documents /\ 2 \in DOMAIN Documents /\ 3 \in DOMAIN Documents /\ 4 \in DOMAIN Documents
      /\ \A i \in DOMAIN Documents : i = 1 \/ i = 2 \/ i = 3 \/ i = 4
  BY <1>1
<1>4. Orders = Documents[1] \cup Documents[2] \cup Documents[3] \cup Documents[4]
  BY <1>2, <1>3
<1>5. /\ Documents[1] \cap Documents[2] = {} /\ Documents[1] \cap Documents[3] = {}
      /\ Documents[2] \cap Documents[3] = {} /\ Documents[1] \cap Documents[4] = {}
      /\ Documents[2] \cap Documents[4] = {} /\ Documents[3] \cap Documents[4] = {}
  BY <1>2, <1>3
<1> QED
  BY <1>1, <1>2, <1>4, <1>5

\* The rows of a sequence are finitely many.
LEMMA FewRows ==
  ASSUME NEW R, NEW m \in Seq(R), NEW S \in SUBSET DOMAIN m
  PROVE  IsFiniteSet(S)
<1>1. DOMAIN m = 1..Len(m) /\ Len(m) \in Nat
  OBVIOUS
<1>2. IsFiniteSet(DOMAIN m)
  BY <1>1, FS_Interval
<1> QED
  BY <1>2, FS_Subset

\* So are the batches.
LEMMA FewBatches ==
  ASSUME NEW S \in SUBSET Batches
  PROVE  IsFiniteSet(S)
BY FS_Subset, StockroomAssumption

\* What batches hold together.
LEMMA TotalInt ==
  ASSUME NEW f \in [Batches -> Int], NEW S \in SUBSET Batches
  PROVE  Total!Summable(f, S) /\ Total!Sum(f, S) \in Int
<1>1. Total!Summable(f, S)
  BY FewBatches, SameFinite DEF Total!Summable, In
<1> QED
  BY <1>1, AllAdd, Total!SumInt

LEMMA TotalNat ==
  ASSUME NEW f \in [Batches -> Nat], NEW S \in SUBSET Batches
  PROVE  Total!Summable(f, S) /\ Total!Sum(f, S) \in Nat
<1>1. Total!IsFiniteSet(S) /\ \A b \in S : In(f, b) \in Nat
  BY FewBatches, SameFinite DEF In
<1> QED
  BY <1>1, AllAdd, Total!SumNat DEF Total!Summable

\* What is added to each batch is added to what they hold together.
LEMMA TotalPlus ==
  ASSUME NEW f \in [Batches -> Int], NEW g \in [Batches -> Int], NEW h,
         NEW S \in SUBSET Batches, \A b \in S : h[b] = f[b] + g[b]
  PROVE  Total!Sum(h, S) = Total!Sum(f, S) + Total!Sum(g, S)
<1>1. Total!Summable(f, S) /\ Total!Summable(g, S)
  BY TotalInt
<1>2. \A b \in S : In(h, b) = In(f, b) + In(g, b)
  BY DEF In
<1> QED
  BY <1>1, <1>2, AllAdd, Total!SumPlus

LEMMA TotalSame ==
  ASSUME NEW f, NEW g, NEW S \in SUBSET Batches, \A b \in S : f[b] = g[b]
  PROVE  Total!Sum(f, S) = Total!Sum(g, S)
<1>1. \A b \in S : In(f, b) = In(g, b)
  BY DEF In
<1> QED
  BY <1>1, FewBatches, SameFinite, AllAdd, Total!SumSame

LEMMA TotalZero ==
  ASSUME NEW f, NEW S \in SUBSET Batches, \A b \in S : f[b] = 0
  PROVE  Total!Sum(f, S) = 0
<1>1. \A b \in S : In(f, b) = 0
  BY DEF In
<1> QED
  BY <1>1, FewBatches, SameFinite, AllAdd, Total!SumZero

-----------------------------------------------------------------------------
(* Movements *)
Filed(w, v, d, row) == v.moves = [w.moves EXCEPT ![d] = Append(@, row)]

\* One movement, filed under d: the stock changes by what it says.
Moved(w, v, d, row) ==
    /\ v \in Warehouses /\ row \in MoveRows
    /\ v.stock = [w.stock EXCEPT ![row.sku] = @ + row.change]
    /\ v.waiting \subseteq w.waiting
    /\ Filed(w, v, d, row)

\* Movements, and what extra says was put back without one, explain the stock.
OnFile(w, extra) ==
    \A sku \in Skus :
        w.stock[sku] = Stock0[sku] + extra[sku]
            + MapThenSumSet(LAMBDA d : NetOf(w, d, sku), Orders)

\* Whoever waited for what comes back is told.
Told(w, v) ==
    /\ v.waiting \subseteq w.waiting
    /\ \A sku \in Skus : v.stock[sku] > w.stock[sku] => sku \notin v.waiting

\* The changes of some movements of a file.
LEMMA FileSums ==
  ASSUME NEW m \in Seq(MoveRows), NEW S \in SUBSET DOMAIN m
  PROVE  Net!Summable(m, S) /\ Net!Sum(m, S) \in Int
<1>1. \A i \in S : ChangeAt(m, i) \in Int
  <2>1. \A i \in DOMAIN m : m[i] \in MoveRows
    OBVIOUS
  <2> QED
    BY <2>1 DEF ChangeAt, MoveRows
<1>2. IsFiniteSet(S)
  BY FewRows
<1>3. Net!Summable(m, S)
  BY <1>1, <1>2, SameFinite DEF Net!Summable
<1> QED
  BY <1>3, AllAdd, Net!SumInt

LEMMA NetInt ==
  ASSUME NEW w \in Warehouses, NEW d \in Orders, NEW sku
  PROVE  NetOf(w, d, sku) \in Int
<1>1. w.moves[d] \in Seq(MoveRows)
  BY DEF Warehouses
<1>2. RowsOf(w.moves[d], sku) \in SUBSET DOMAIN w.moves[d]
  BY DEF RowsOf
<1> QED
  BY <1>1, <1>2, FileSums, NetIsSum

\* What a longer file has: the rows it had, and the new one at its end.
LEMMA Appended ==
  ASSUME NEW R, NEW m \in Seq(R), NEW row \in R, NEW a, a = Append(m, row)
  PROVE  /\ a \in Seq(R) /\ Len(m) \in Nat /\ Len(a) = Len(m) + 1
         /\ DOMAIN m = 1..Len(m) /\ DOMAIN a = DOMAIN m \cup {Len(m) + 1}
         /\ Len(m) + 1 \notin DOMAIN m
         /\ a[Len(m) + 1] = row /\ \A i \in DOMAIN m : a[i] = m[i] /\ m[i] \in R
OBVIOUS

\* One more movement adds its change to what the movements of its sku add up to.
LEMMA NetAppend ==
  ASSUME NEW m \in Seq(MoveRows), NEW row \in MoveRows, NEW sku, NEW a, a = Append(m, row)
  PROVE  Net!Sum(a, RowsOf(a, sku))
            = Net!Sum(m, RowsOf(m, sku)) + IF row.sku = sku THEN row.change ELSE 0
<1> DEFINE n == Len(m) + 1
           old == RowsOf(m, sku)
           new == RowsOf(a, sku)
<1>1. /\ a \in Seq(MoveRows) /\ DOMAIN a = DOMAIN m \cup {n} /\ n \notin DOMAIN m
      /\ a[n] = row /\ \A i \in DOMAIN m : a[i] = m[i]
  BY Appended
<1>2. old \in SUBSET DOMAIN m /\ old \in SUBSET DOMAIN a /\ new \in SUBSET DOMAIN a
  BY <1>1 DEF RowsOf
<1>3. /\ new = IF row.sku = sku THEN old \cup {n} ELSE old
      /\ n \notin old
  BY <1>1 DEF RowsOf
<1>4. \A i \in old : ChangeAt(m, i) = ChangeAt(a, i)
  BY <1>1, <1>2 DEF ChangeAt
<1>5. ChangeAt(a, n) = row.change
  BY <1>1 DEF ChangeAt
<1> HIDE DEF old, new, n
<1>6. Net!Summable(m, old) /\ Net!Sum(m, old) \in Int /\ Net!Summable(a, new) /\ IsFiniteSet(old)
  BY <1>1, <1>2, FileSums, FewRows
<1>7. Net!Sum(m, old) = Net!Sum(a, old)
  BY <1>4, <1>6, SameFinite, AllAdd, Net!SumSame
<1>8. CASE row.sku = sku
  <2>1. Net!Sum(a, old \cup {n}) = Net!Sum(a, old) + ChangeAt(a, n)
    BY <1>3, <1>6, <1>8, AllAdd, Net!SumAdd
  <2> QED
    BY <1>3, <1>5, <1>7, <1>8, <2>1 DEF old, new, n
<1>9. CASE row.sku # sku
  <2>1. new = old
    BY <1>3, <1>9
  <2> QED
    BY <1>6, <1>7, <1>9, <2>1 DEF old, new, n
<1> QED
  BY <1>8, <1>9

\* What a movement adds to the books.
LEMMA MovedRows ==
  ASSUME NEW w \in Warehouses, NEW v, NEW d \in Orders, NEW row, Moved(w, v, d, row)
  PROVE  /\ \A p \in Orders \ {d} : v.moves[p] = w.moves[p]
         /\ w.moves[d] \in Seq(MoveRows) /\ row \in MoveRows
         /\ v.moves[d] = Append(w.moves[d], row)
<1>1. w.moves \in [Orders -> Seq(MoveRows)] /\ row \in MoveRows
  BY DEF Warehouses, Moved
<1>2. v.moves = [w.moves EXCEPT ![d] = Append(@, row)]
  BY DEF Moved, Filed
<1> QED
  BY <1>1, <1>2

GainOf(row, sku) == IF row.sku = sku THEN row.change ELSE 0
LEMMA MovedNet ==
  ASSUME NEW w \in Warehouses, NEW v, NEW d \in Orders, NEW row, Moved(w, v, d, row), NEW sku
  PROVE  /\ \A p \in Orders \ {d} : NetOf(v, p, sku) = NetOf(w, p, sku)
         /\ NetOf(v, d, sku) = NetOf(w, d, sku) + GainOf(row, sku)
<1> DEFINE old == w.moves[d]
           new == v.moves[d]
<1>1. old \in Seq(MoveRows) /\ row \in MoveRows /\ new = Append(old, row)
  BY MovedRows
<1>2. \A p \in Orders \ {d} : v.moves[p] = w.moves[p]
  BY MovedRows
<1>3. \A p \in Orders \ {d} : NetOf(v, p, sku) = NetOf(w, p, sku)
  BY <1>2, NetIsSum
<1>4. /\ NetOf(v, d, sku) = Net!Sum(new, RowsOf(new, sku))
      /\ NetOf(w, d, sku) = Net!Sum(old, RowsOf(old, sku))
  BY NetIsSum
<1> HIDE DEF old, new
<1>5. Net!Sum(new, RowsOf(new, sku)) = Net!Sum(old, RowsOf(old, sku)) + GainOf(row, sku)
  BY ONLY <1>1, NetAppend DEF GainOf
<1> QED
  BY <1>3, <1>4, <1>5

LEMMA BooksAre ==
  ASSUME NEW w, NEW sku
  PROVE  /\ MapThenSumSet(LAMBDA d : NetOf(w, d, sku), Orders)
              = Books!Sum([w |-> w, sku |-> sku], Orders)
         /\ \A d : NetAt([w |-> w, sku |-> sku], d) = NetOf(w, d, sku)
         /\ w \in Warehouses => /\ Books!Summable([w |-> w, sku |-> sku], Orders)
                                /\ Books!Sum([w |-> w, sku |-> sku], Orders) \in Int
<1> DEFINE c == [w |-> w, sku |-> sku]
<1>1. MapThenSumSet(LAMBDA d : NetOf(w, d, sku), Orders) = Books!Sum(c, Orders)
  BY DEF MapThenSumSet, MapThenFoldSet, Books!Sum, Books!Fold, Books!MapThenFoldSet, NetAt,
     Plus, Some
<1>2. \A d : NetAt(c, d) = NetOf(w, d, sku)
  BY DEF NetAt
<1> HIDE DEF c
<1>3. ASSUME w \in Warehouses
      PROVE  Books!Summable(c, Orders) /\ Books!Sum(c, Orders) \in Int
  <2>1. \A d \in Orders : NetAt(c, d) \in Int
    BY <1>2, <1>3, NetInt
  <2>2. Books!Summable(c, Orders)
    BY <2>1, DocumentsAre, SameFinite DEF Books!Summable
  <2> QED
    BY <2>2, AllAdd, Books!SumInt
<1> QED
  BY <1>1, <1>2, <1>3 DEF c

\* What movements explain stays explained.
LEMMA MovedOnFile ==
  ASSUME NEW w \in Warehouses, NEW v, NEW d \in Orders, NEW row, Moved(w, v, d, row),
         NEW extra \in [Skus -> Nat], OnFile(w, extra)
  PROVE  OnFile(v, extra)
<1> SUFFICES ASSUME NEW sku \in Skus
             PROVE  v.stock[sku] = Stock0[sku] + extra[sku]
                       + MapThenSumSet(LAMBDA p : NetOf(v, p, sku), Orders)
  BY DEF OnFile
<1> DEFINE b == [w |-> w, sku |-> sku]
           c == [w |-> v, sku |-> sku]
           gain == GainOf(row, sku)
<1>1. w.stock[sku] = Stock0[sku] + extra[sku] + MapThenSumSet(LAMBDA p : NetOf(w, p, sku), Orders)
  BY DEF OnFile
<1>2. v \in Warehouses /\ row \in MoveRows /\ w.stock \in [Skus -> Nat]
      /\ v.stock = [w.stock EXCEPT ![row.sku] = @ + row.change]
  BY DEF Moved, Warehouses
<1>3. gain \in Int /\ v.stock[sku] = w.stock[sku] + gain /\ w.stock[sku] \in Nat
  BY <1>2 DEF MoveRows, GainOf
<1>4. /\ NetOf(v, d, sku) = NetOf(w, d, sku) + gain
      /\ \A p \in Orders \ {d} : NetOf(v, p, sku) = NetOf(w, p, sku)
  BY MovedNet
<1>6. /\ MapThenSumSet(LAMBDA p : NetOf(w, p, sku), Orders) = Books!Sum(b, Orders)
      /\ MapThenSumSet(LAMBDA p : NetOf(v, p, sku), Orders) = Books!Sum(c, Orders)
      /\ \A p : NetAt(b, p) = NetOf(w, p, sku) /\ NetAt(c, p) = NetOf(v, p, sku)
      /\ Books!Summable(b, Orders) /\ Books!Summable(c, Orders)
      /\ Books!Sum(b, Orders) \in Int
  BY <1>2, BooksAre
<1> HIDE DEF b, c, gain
<1>7. \A p \in Orders \ {d} : NetAt(b, p) = NetAt(c, p)
  BY <1>4, <1>6
<1>8. Books!Sum(c, Orders) = Books!Sum(b, Orders) + NetAt(c, d) - NetAt(b, d)
  BY <1>6, <1>7, AllAdd, Books!SumChange
<1>9. NetAt(c, d) = NetAt(b, d) + gain /\ NetAt(b, d) \in Int
  BY <1>4, <1>6, NetInt
<1>10. Stock0[sku] \in Nat /\ extra[sku] \in Nat
  BY PurchasingAssumption
<1>11. w.stock[sku] = Stock0[sku] + extra[sku] + Books!Sum(b, Orders)
  BY <1>1, <1>6
<1>12. v.stock[sku] = Stock0[sku] + extra[sku] + Books!Sum(c, Orders)
  BY <1>3, <1>6, <1>8, <1>9, <1>10, <1>11
<1> QED
  BY <1>6, <1>12

\* So does what is put back without a movement, if it is noted.
LEMMA NotedOnFile ==
  ASSUME NEW w \in Warehouses, NEW v \in Warehouses, v.moves = w.moves,
         NEW extra \in [Skus -> Nat], OnFile(w, extra), NEW more \in [Skus -> Nat],
         \A sku \in Skus : v.stock[sku] - w.stock[sku] = more[sku] - extra[sku]
  PROVE  OnFile(v, more)
<1> SUFFICES ASSUME NEW sku \in Skus
             PROVE  v.stock[sku] = Stock0[sku] + more[sku]
                       + MapThenSumSet(LAMBDA p : NetOf(v, p, sku), Orders)
  BY DEF OnFile
<1> DEFINE b == [w |-> w, sku |-> sku]
           c == [w |-> v, sku |-> sku]
<1>1. w.stock[sku] = Stock0[sku] + extra[sku] + MapThenSumSet(LAMBDA p : NetOf(w, p, sku), Orders)
  BY DEF OnFile
<1>2. /\ MapThenSumSet(LAMBDA p : NetOf(w, p, sku), Orders) = Books!Sum(b, Orders)
      /\ MapThenSumSet(LAMBDA p : NetOf(v, p, sku), Orders) = Books!Sum(c, Orders)
      /\ \A p : NetAt(b, p) = NetOf(w, p, sku) /\ NetAt(c, p) = NetOf(v, p, sku)
      /\ Books!Sum(b, Orders) \in Int
  BY BooksAre
<1> HIDE DEF b, c
<1>3. \A p \in Orders : NetAt(b, p) = NetAt(c, p)
  BY <1>2, NetIsSum
<1>4. Books!Sum(b, Orders) = Books!Sum(c, Orders)
  BY <1>3, DocumentsAre, SameFinite, AllAdd, Books!SumSame
<1>5. /\ w.stock[sku] \in Nat /\ v.stock[sku] \in Nat
      /\ Stock0[sku] \in Nat /\ extra[sku] \in Nat /\ more[sku] \in Nat
  BY PurchasingAssumption DEF Warehouses
<1>6. v.stock[sku] - w.stock[sku] = more[sku] - extra[sku]
  OBVIOUS
<1>7. w.stock[sku] = Stock0[sku] + extra[sku] + Books!Sum(b, Orders)
  BY <1>1, <1>2
<1>8. v.stock[sku] = Stock0[sku] + more[sku] + Books!Sum(b, Orders)
  BY <1>2, <1>5, <1>6, <1>7
<1> QED
  BY <1>2, <1>4, <1>8
-----------------------------------------------------------------------------
(* consumeBatchesFefo *)
LEMMA LeastOf ==
  ASSUME NEW m \in Nat, NEW n \in Nat
  PROVE  Min({m, n}) = IF m <= n THEN m ELSE n
<1>1. \E k \in {m, n} : \A j \in {m, n} : k <= j
  <2>1. CASE m <= n
    BY <2>1
  <2>2. CASE ~(m <= n)
    BY <2>2
  <2> QED
    BY <2>1, <2>2
<1>2. Min({m, n}) \in {m, n} /\ \A j \in {m, n} : Min({m, n}) <= j
  BY <1>1 DEF Min
<1> QED
  BY <1>2

LEMMA GreatestOf ==
  ASSUME NEW m \in Int
  PROVE  Max({m, 0}) = IF m <= 0 THEN 0 ELSE m
<1>1. \E k \in {m, 0} : \A j \in {m, 0} : k >= j
  <2>1. CASE m <= 0
    BY <2>1
  <2>2. CASE ~(m <= 0)
    BY <2>2
  <2> QED
    BY <2>1, <2>2
<1>2. Max({m, 0}) \in {m, 0} /\ \A j \in {m, 0} : Max({m, 0}) >= j
  BY <1>1 DEF Max
<1> QED
  BY <1>2

\* Of some batches one comes last.
LEMMA LastOf ==
  ASSUME NEW D \in SUBSET Batches, D # {}
  PROVE  \E p \in D : \A q \in D \ {p} : FefoRank[q] < FefoRank[p]
<1> DEFINE later(p) == {q \in D : FefoRank[p] < FefoRank[q]}
           T == {later(p) : p \in D}
<1>1. Net!IsFiniteSet(D)
  BY FewBatches, SameFinite
<1>2. T \subseteq SUBSET D /\ T # {}
  OBVIOUS
<1>3. PICK p \in D : \A t \in T : t \subseteq later(p) => t = later(p)
  <2> HIDE DEF T
  <2>1. PICK s \in T : \A t \in T : t \subseteq s => t = s
    BY <1>1, <1>2, Net!SmallestSubset
  <2> QED
    BY <2>1 DEF T
<1>4. \A a, b \in D : FefoRank[a] \in Nat /\ (FefoRank[a] = FefoRank[b] => a = b)
  BY StockroomAssumption
<1>5. later(p) = {}
  <2> SUFFICES ASSUME NEW r \in later(p) PROVE FALSE
    OBVIOUS
  <2>1. later(r) \in T /\ later(r) \subseteq later(p) /\ r \notin later(r)
    BY <1>4
  <2> QED
    BY <1>3, <2>1
<1>6. \A q \in D \ {p} : FefoRank[q] < FefoRank[p]
  BY <1>4, <1>5
<1> QED
  BY <1>6

\* The batches from which a sale, or a write-off, may take.
Open(w, sku, past) == BatchesOf(w, sku) \ past
EarlierOf(S, b) == {d \in S : FefoRank[d] < FefoRank[b]}

\* Of a batch no more is taken than it has, and of none but the open ones.
LEMMA FefoIs ==
  ASSUME NEW w \in Warehouses, NEW sku, NEW quantity \in Nat, NEW past,
         NEW taken, taken = Fefo(w, sku, quantity, past), NEW b \in Batches
  PROVE  LET S == Open(w, sku, past)
             before == Total!Sum(w.left, EarlierOf(S, b))
         IN  /\ S \in SUBSET Batches /\ before \in Nat /\ w.left[b] \in Nat
             /\ taken[b] = IF b \notin S \/ quantity <= before THEN 0
                           ELSE IF quantity - before <= w.left[b] THEN quantity - before
                           ELSE w.left[b]
<1> DEFINE S == Open(w, sku, past)
           before == Total!Sum(w.left, EarlierOf(S, b))
<1>1. w.left \in [Batches -> Nat]
  BY DEF Warehouses
<1>2. S \in SUBSET Batches /\ EarlierOf(S, b) \in SUBSET Batches
  BY DEF Open, BatchesOf, Rows, EarlierOf
<1>3. before \in Nat /\ w.left[b] \in Nat
  BY <1>1, <1>2, TotalNat
<1>4. before = InBatches(w, {d \in S : FefoRank[d] < FefoRank[b]})
  BY InBatchesIsTotal DEF EarlierOf
<1>5. taken[b] = IF b \notin S THEN 0
                 ELSE IF quantity - before <= 0 THEN 0
                 ELSE Min({quantity - before, w.left[b]})
  BY <1>4 DEF Fefo, Open
<1> HIDE DEF before, S
<1>6. CASE quantity <= before
  BY <1>2, <1>3, <1>5, <1>6 DEF S, before
<1>7. CASE ~(quantity <= before)
  <2>1. quantity - before \in Nat /\ ~(quantity - before <= 0)
    BY <1>3, <1>7
  <2>2. Min({quantity - before, w.left[b]})
          = IF quantity - before <= w.left[b] THEN quantity - before ELSE w.left[b]
    BY <1>3, <2>1, LeastOf
  <2> QED
    BY <1>2, <1>3, <1>5, <1>7, <2>1, <2>2 DEF S, before
<1> QED
  BY <1>6, <1>7

LEMMA FefoTakes ==
  ASSUME NEW w \in Warehouses, NEW sku, NEW quantity \in Nat, NEW past,
         NEW taken, taken = Fefo(w, sku, quantity, past)
  PROVE  /\ taken \in [Batches -> Nat]
         /\ \A b \in Batches : /\ taken[b] <= w.left[b]
                               /\ taken[b] # 0 => b \in Open(w, sku, past)
<1>1. ASSUME NEW b \in Batches
      PROVE  /\ taken[b] \in Nat /\ taken[b] <= w.left[b]
             /\ taken[b] # 0 => b \in Open(w, sku, past)
  <2> DEFINE S == Open(w, sku, past)
             before == Total!Sum(w.left, EarlierOf(S, b))
  <2>1. /\ before \in Nat /\ w.left[b] \in Nat
        /\ taken[b] = IF b \notin S \/ quantity <= before THEN 0
                      ELSE IF quantity - before <= w.left[b] THEN quantity - before
                      ELSE w.left[b]
    BY FefoIs
  <2> HIDE DEF S, before
  <2>2. taken[b] \in Nat /\ taken[b] <= w.left[b] /\ (taken[b] # 0 => b \in S)
    BY <2>1
  <2> QED
    BY <2>2 DEF S
<1>2. taken = [b \in Batches |-> taken[b]]
  BY DEF Fefo
<1>3. [b \in Batches |-> taken[b]] \in [Batches -> Nat]
  BY <1>1
<1> QED
  BY <1>1, <1>2, <1>3

\* As much is taken as is asked for, or all there is.
LEMMA FefoCovers ==
  ASSUME NEW w \in Warehouses, NEW sku, NEW quantity \in Nat, NEW past,
         NEW taken, taken = Fefo(w, sku, quantity, past),
         quantity <= Total!Sum(w.left, Open(w, sku, past))
  PROVE  Total!Sum(taken, Open(w, sku, past)) = quantity
<1> DEFINE S == Open(w, sku, past)
           Early(D) == \A p \in D : EarlierOf(S, p) \subseteq D
           Right(D) == Total!Sum(taken, D) = IF quantity <= Total!Sum(w.left, D) THEN quantity
                                             ELSE Total!Sum(w.left, D)
           T == {D \in SUBSET S : Early(D) /\ ~Right(D)}
<1>1. S \in SUBSET Batches /\ Net!IsFiniteSet(S)
  <2>1. S \in SUBSET Batches
    BY DEF Open, BatchesOf, Rows
  <2> QED
    BY <2>1, FewBatches, SameFinite
<1>2. w.left \in [Batches -> Nat] /\ taken \in [Batches -> Nat]
  BY FefoTakes DEF Warehouses
<1>3. ASSUME NEW b \in S
      PROVE  LET before == Total!Sum(w.left, EarlierOf(S, b)) IN
             taken[b] = IF quantity <= before THEN 0
                        ELSE IF quantity - before <= w.left[b] THEN quantity - before
                        ELSE w.left[b]
  <2>1. b \in Batches
    BY <1>1
  <2> QED
    BY <2>1, FefoIs
<1> HIDE DEF S
<1>4. ASSUME T # {} PROVE FALSE
  <2>1. PICK D \in T : \A t \in T : t \subseteq D => t = D
    <3>1. T \subseteq SUBSET S
      OBVIOUS
    <3> HIDE DEF T
    <3> QED
      BY <1>1, <1>4, <3>1, Net!SmallestSubset
  <2>2. D \in SUBSET S /\ Early(D) /\ ~Right(D)
    OBVIOUS
  <2>3. D \in SUBSET Batches
    BY <1>1
  <2>4. CASE D = {}
    <3>1. Total!Sum(taken, {}) = 0 /\ Total!Sum(w.left, {}) = 0
      BY Total!SumEmpty
    <3>2. Right(D)
      BY <2>4, <3>1
    <3> QED
      BY <2>2, <3>2
  <2>5. CASE D # {}
    <3>1. PICK p \in D : \A q \in D \ {p} : FefoRank[q] < FefoRank[p]
      BY <2>3, <2>5, LastOf
    <3> DEFINE R == D \ {p}
    <3>2. \A a \in Batches : FefoRank[a] \in Nat
      BY StockroomAssumption
    <3>3. R = EarlierOf(S, p)
      BY <1>1, <2>2, <3>1, <3>2 DEF EarlierOf
    <3>4. Early(R)
      <4> SUFFICES ASSUME NEW q \in R, NEW e \in EarlierOf(S, q) PROVE e \in R
        OBVIOUS
      <4>1. e \in D
        BY <2>2
      <4>2. e \in Batches /\ q \in Batches /\ p \in Batches /\ FefoRank[e] < FefoRank[q]
            /\ FefoRank[q] < FefoRank[p]
        BY <1>1, <2>3, <3>1 DEF EarlierOf
      <4>3. e # p
        BY <3>2, <4>2
      <4> QED
        BY <4>1, <4>3
    <3>5. Right(R)
      <4>1. R \in SUBSET S /\ R \subseteq D /\ R # D
        BY <2>2
      <4> HIDE DEF R, Early, Right
      <4>2. R \notin T
        BY <2>1, <4>1
      <4> QED
        BY <3>4, <4>1, <4>2
    <3>6. p \in S /\ p \in Batches
      BY <1>1, <2>2
    <3>7. ASSUME NEW f \in [Batches -> Nat]
          PROVE  Total!Sum(f, D) = f[p] + Total!Sum(f, R) /\ Total!Sum(f, R) \in Nat /\ f[p] \in Nat
      <4>1. Total!Summable(f, D) /\ R \in SUBSET Batches
        BY <2>3, TotalNat
      <4>2. Total!Sum(f, D) = In(f, p) + Total!Sum(f, R)
        BY <4>1, AllAdd, Total!SumRemove
      <4>3. Total!Sum(f, R) \in Nat
        BY <4>1, TotalNat
      <4> QED
        BY <3>6, <4>2, <4>3 DEF In
    <3> DEFINE u == Total!Sum(w.left, R)
               t == Total!Sum(taken, R)
               l == w.left[p]
    <3>8. t = IF quantity <= u THEN quantity ELSE u
      BY <3>5
    <3>9. taken[p] = IF quantity <= u THEN 0 ELSE IF quantity - u <= l THEN quantity - u ELSE l
      BY <1>3, <3>3, <3>6
    <3>10. /\ u \in Nat /\ l \in Nat /\ Total!Sum(w.left, D) = l + u
           /\ Total!Sum(taken, D) = taken[p] + t
      BY <1>2, <3>7
    <3> HIDE DEF u, t, l, R
    <3>11. Total!Sum(taken, D) = IF quantity <= l + u THEN quantity ELSE l + u
      BY <3>8, <3>9, <3>10
    <3>12. Right(D)
      BY <3>10, <3>11
    <3> QED
      BY <2>2, <3>12
  <2> QED
    BY <2>4, <2>5
<1>5. Early(S)
  BY DEF EarlierOf
<1>6. Right(S)
  <2> HIDE DEF Early, Right
  <2> QED
    BY <1>4, <1>5
<1>7. quantity <= Total!Sum(w.left, S)
  BY DEF S
<1> QED
  BY <1>6, <1>7 DEF S
-----------------------------------------------------------------------------
(* What may come back *)
\* The items of a return point at movements of its file.
Pointing(file, items) == \A i \in DOMAIN items : items[i].move \in DOMAIN file \cup {0}
Pointed(w, back) ==
    /\ back \in [SupplierReturns -> ReturnRows]
    /\ \A r \in SupplierReturns : Pointing(w.moves[r], back[r].items)

Part(file, items, b, i) == PartAt([file |-> file, items |-> items, batch |-> b], i)
PartsOf(file, items, b) == Parts!Sum([file |-> file, items |-> items, batch |-> b], DOMAIN items)

LEMMA TakenIsNat ==
  ASSUME NEW file \in Seq(MoveRows), NEW i \in DOMAIN file
  PROVE  /\ file[i] \in MoveRows /\ file[i].taken \in [Batches -> Nat]
         /\ \A b \in Batches : file[i].taken[b] \in Nat
<1>1. file[i] \in MoveRows
  OBVIOUS
<1> QED
  BY <1>1 DEF MoveRows

LEMMA PartNat ==
  ASSUME NEW file \in Seq(MoveRows), NEW items \in Seq(ItemRows), Pointing(file, items),
         NEW b \in Batches
  PROVE  LET c == [file |-> file, items |-> items, batch |-> b] IN
         /\ \A i \in DOMAIN items : PartAt(c, i) \in Nat
         /\ Parts!Summable(c, DOMAIN items) /\ PartsOf(file, items, b) \in Nat
<1> DEFINE c == [file |-> file, items |-> items, batch |-> b]
<1>1. ASSUME NEW i \in DOMAIN items PROVE PartAt(c, i) \in Nat
  <2>1. CASE items[i].move = 0
    BY <2>1 DEF PartAt
  <2>2. CASE items[i].move # 0
    <3>1. items[i].move \in DOMAIN file
      BY <2>2 DEF Pointing
    <3>2. file[items[i].move].taken[b] \in Nat
      BY <3>1, TakenIsNat
    <3> QED
      BY <2>2, <3>2 DEF PartAt
  <2> QED
    BY <2>1, <2>2
<1>2. IsFiniteSet(DOMAIN items)
  BY FewRows
<1> HIDE DEF c
<1>3. Parts!Summable(c, DOMAIN items) /\ Parts!Sum(c, DOMAIN items) \in Nat
  BY <1>1, <1>2, SameFinite, AllAdd, Parts!SumNat DEF Parts!Summable
<1> QED
  BY <1>1, <1>3 DEF c, PartsOf

LEMMA HeldByIs ==
  ASSUME NEW w, NEW back, NEW b, NEW d
  PROVE  /\ d \in CustomerOrders =>
               HeldBy(w.moves, back, d, b)
                  = IF Len(w.moves[d]) = 1 THEN w.moves[d][1].taken[b] ELSE 0
         /\ d \in SupplierReturns =>
               HeldBy(w.moves, back, d, b)
                  = IF back[d].status # "cancelled" THEN PartsOf(w.moves[d], back[d].items, b)
                    ELSE 0
         /\ d \notin CustomerOrders /\ d \notin SupplierReturns =>
               HeldBy(w.moves, back, d, b) = 0
BY DocumentsAre DEF HeldBy, PartsOf

LEMMA HeldBySale ==
  ASSUME NEW file, NEW back, NEW b, NEW o \in CustomerOrders
  PROVE  HeldBy(file, back, o, b) = IF Len(file[o]) = 1 THEN file[o][1].taken[b] ELSE 0
BY DEF HeldBy

LEMMA HeldByNat ==
  ASSUME NEW w \in Warehouses, NEW back, Pointed(w, back), NEW b \in Batches, NEW d \in Orders
  PROVE  HeldBy(w.moves, back, d, b) \in Nat
<1>1. w.moves[d] \in Seq(MoveRows)
  BY DEF Warehouses
<1>2. CASE d \in CustomerOrders
  <2>1. Len(w.moves[d]) = 1 => w.moves[d][1].taken[b] \in Nat
    <3>1. Len(w.moves[d]) = 1 => 1 \in DOMAIN w.moves[d]
      BY <1>1
    <3> QED
      BY <1>1, <3>1, TakenIsNat
  <2> QED
    BY <1>2, <2>1, HeldByIs
<1>3. CASE d \in SupplierReturns
  <2>1. back[d] \in ReturnRows /\ Pointing(w.moves[d], back[d].items)
    BY <1>3 DEF Pointed
  <2>2. back[d].items \in Seq(ItemRows)
    BY <2>1 DEF ReturnRows
  <2>3. PartsOf(w.moves[d], back[d].items, b) \in Nat
    BY <1>1, <2>1, <2>2, PartNat
  <2>4. HeldBy(w.moves, back, d, b)
          = IF back[d].status # "cancelled" THEN PartsOf(w.moves[d], back[d].items, b) ELSE 0
    BY <1>3, HeldByIs
  <2> QED
    BY <2>3, <2>4
<1>4. CASE d \notin CustomerOrders /\ d \notin SupplierReturns
  BY <1>4, HeldByIs
<1> QED
  BY <1>2, <1>3, <1>4

LEMMA HeldIs ==
  ASSUME NEW w \in Warehouses, NEW back, Pointed(w, back), NEW b \in Batches
  PROVE  LET c == [file |-> w.moves, back |-> back, batch |-> b] IN
         /\ Holding!Summable(c, Orders) /\ Held(w, back, b) = Holding!Sum(c, Orders)
         /\ Held(w, back, b) \in Nat
         /\ \A d : HeldAt(c, d) = HeldBy(w.moves, back, d, b)
<1> DEFINE c == [file |-> w.moves, back |-> back, batch |-> b]
<1>1. \A d : HeldAt(c, d) = HeldBy(w.moves, back, d, b)
  BY DEF HeldAt
<1>2. Held(w, back, b) = Holding!Sum(c, Orders)
  BY DEF Held
<1> HIDE DEF c
<1>3. \A d \in Orders : HeldAt(c, d) \in Nat
  BY <1>1, HeldByNat
<1>4. Holding!Summable(c, Orders) /\ Holding!Sum(c, Orders) \in Nat
  BY <1>3, DocumentsAre, SameFinite, AllAdd, Holding!SumNat DEF Holding!Summable
<1> QED
  BY <1>1, <1>2, <1>4 DEF c

\* Only the document d changed: its movements, or what is to be undone of it.
OnlyDoc(w, v, back, more, d) ==
    /\ w \in Warehouses /\ v \in Warehouses /\ Pointed(w, back) /\ Pointed(v, more)
    /\ \A p \in Orders \ {d} : v.moves[p] = w.moves[p]
    /\ \A r \in SupplierReturns \ {d} : more[r] = back[r]

\* Then what may come back changed by what it holds.
LEMMA HeldChange ==
  ASSUME NEW w, NEW v, NEW back, NEW more, NEW d \in Orders, OnlyDoc(w, v, back, more, d),
         NEW b \in Batches
  PROVE  /\ Held(v, more, b) = Held(w, back, b) + HeldBy(v.moves, more, d, b)
                                  - HeldBy(w.moves, back, d, b)
         /\ Held(v, more, b) \in Nat /\ Held(w, back, b) \in Nat
         /\ HeldBy(v.moves, more, d, b) \in Nat /\ HeldBy(w.moves, back, d, b) \in Nat
         /\ HeldBy(w.moves, back, d, b) <= Held(w, back, b)
<1> USE DEF OnlyDoc
<1> DEFINE c == [file |-> w.moves, back |-> back, batch |-> b]
           e == [file |-> v.moves, back |-> more, batch |-> b]
<1>1. /\ Holding!Summable(c, Orders) /\ Held(w, back, b) = Holding!Sum(c, Orders)
      /\ Held(w, back, b) \in Nat
      /\ \A p : HeldAt(c, p) = HeldBy(w.moves, back, p, b)
  BY HeldIs
<1>2. /\ Holding!Summable(e, Orders) /\ Held(v, more, b) = Holding!Sum(e, Orders)
      /\ Held(v, more, b) \in Nat
      /\ \A p : HeldAt(e, p) = HeldBy(v.moves, more, p, b)
  BY HeldIs
<1>3. \A p \in Orders \ {d} : HeldBy(v.moves, more, p, b) = HeldBy(w.moves, back, p, b)
  BY DEF HeldBy
<1>4. HeldBy(v.moves, more, d, b) \in Nat /\ HeldBy(w.moves, back, d, b) \in Nat
  BY HeldByNat
<1>5. \A p \in Orders : HeldBy(w.moves, back, p, b) \in Nat
  BY HeldByNat
<1> HIDE DEF c, e
<1>6. \A p \in Orders \ {d} : HeldAt(c, p) = HeldAt(e, p)
  BY <1>1, <1>2, <1>3
<1>7. Holding!Sum(e, Orders) = Holding!Sum(c, Orders) + HeldAt(e, d) - HeldAt(c, d)
  BY <1>1, <1>2, <1>6, AllAdd, Holding!SumChange
<1>8. HeldAt(c, d) <= Holding!Sum(c, Orders)
  <2>1. \A p \in Orders : HeldAt(c, p) \in Nat
    BY <1>1, <1>5
  <2>2. Holding!Sum(c, {d}) <= Holding!Sum(c, Orders)
    BY <2>1, DocumentsAre, SameFinite, AllAdd, Holding!SumPart
  <2>3. Holding!Sum(c, {d}) = HeldAt(c, d)
    BY <2>1, AllAdd, Holding!SumOne
  <2> QED
    BY <2>2, <2>3
<1> QED
  BY <1>1, <1>2, <1>4, <1>7, <1>8

\* Nothing that matters here changed.
LEMMA HeldSame ==
  ASSUME NEW w \in Warehouses, NEW v \in Warehouses, NEW back, NEW more,
         Pointed(w, back), Pointed(v, more),
         NEW b \in Batches,
         \A d \in Orders : HeldBy(v.moves, more, d, b) = HeldBy(w.moves, back, d, b)
  PROVE  Held(v, more, b) = Held(w, back, b)
<1> DEFINE c == [file |-> w.moves, back |-> back, batch |-> b]
           e == [file |-> v.moves, back |-> more, batch |-> b]
<1>1. /\ Held(w, back, b) = Holding!Sum(c, Orders)
      /\ \A p : HeldAt(c, p) = HeldBy(w.moves, back, p, b)
  BY HeldIs
<1>2. /\ Held(v, more, b) = Holding!Sum(e, Orders)
      /\ \A p : HeldAt(e, p) = HeldBy(v.moves, more, p, b)
  BY HeldIs
<1> HIDE DEF c, e
<1>3. \A p \in Orders : HeldAt(c, p) = HeldAt(e, p)
  BY <1>1, <1>2
<1> QED
  BY <1>1, <1>2, <1>3, DocumentsAre, SameFinite, AllAdd, Holding!SumSame
-----------------------------------------------------------------------------
(* What keeps the shelves sound *)
Nested(clean, calm) == calm \subseteq clean /\ clean \subseteq Skus

\* What is taken is of sku, and all that was asked for, as far as these are sound.
Takes(sku, quantity, taken, clean, calm) ==
    /\ taken \in [Batches -> Nat]
    /\ \A b \in Batches : taken[b] # 0 /\ SkuOf[b] \in clean => SkuOf[b] = sku
    /\ sku \in calm => Total!Sum(taken, OwnBatches(sku)) = quantity

LEMMA OwnAre ==
  ASSUME NEW sku
  PROVE  OwnBatches(sku) \in SUBSET Batches /\ \A b \in OwnBatches(sku) : SkuOf[b] = sku
BY DEF OwnBatches

LEMMA FilesFit ==
  ASSUME NEW clean, NEW calm, NEW w \in Warehouses, NEW v, NEW d \in Orders, NEW row,
         Moved(w, v, d, row), FileFits(w, clean, calm), RowFits(row, clean, calm)
  PROVE  FileFits(v, clean, calm)
<1> SUFFICES ASSUME NEW p \in Orders, NEW i \in DOMAIN v.moves[p]
             PROVE  RowFits(v.moves[p][i], clean, calm)
  BY DEF FileFits
<1>1. \A q \in Orders : \A j \in DOMAIN w.moves[q] : RowFits(w.moves[q][j], clean, calm)
  BY DEF FileFits
<1>2. /\ p # d => v.moves[p] = w.moves[p]
      /\ w.moves[d] \in Seq(MoveRows) /\ row \in MoveRows /\ v.moves[d] = Append(w.moves[d], row)
  BY MovedRows
<1>3. CASE p # d
  BY <1>1, <1>2, <1>3
<1>4. CASE p = d
  <2> DEFINE old == w.moves[d]
             new == v.moves[d]
  <2>1. old \in Seq(MoveRows) /\ row \in MoveRows /\ new = Append(old, row) /\ i \in DOMAIN new
    BY <1>2, <1>4
  <2>2. \A j \in DOMAIN old : RowFits(old[j], clean, calm)
    BY <1>1
  <2> HIDE DEF old, new
  <2>3. new[i] = row \/ (i \in DOMAIN old /\ new[i] = old[i])
    BY <2>1, Appended
  <2>4. RowFits(new[i], clean, calm)
    BY <2>2, <2>3
  <2> QED
    BY <1>4, <2>4 DEF new
<1> QED
  BY <1>3, <1>4

\* A movement that takes nothing from the batches.
LEMMA PlainRowFits ==
  ASSUME NEW clean, NEW calm, NEW row \in MoveRows, row.taken = NoBatchUsed,
         row.type \in {"restock", "damage", "cancel_restore", "adjustment"}
  PROVE  RowFits(row, clean, calm)
BY DEF RowFits, NoBatchUsed

\* Units that leave the stock and the batches alike.
LEMMA TakeKeeps ==
  ASSUME NEW clean, NEW calm, Nested(clean, calm),
         NEW w, NEW back, NEW more, Sound(w, back, clean, calm),
         NEW d \in Orders, NEW row, NEW v, Moved(w, v, d, row),
         Takes(row.sku, - row.change, row.taken, clean, calm),
         v.got = w.got,
         \A b \in Batches : SkuOf[b] \in clean =>
            /\ v.left[b] = w.left[b] - row.taken[b]
            /\ Held(w, back, b) \in Nat /\ Held(v, more, b) \in Nat
            /\ Held(v, more, b) <= Held(w, back, b) + row.taken[b]
  PROVE  Sound(v, more, clean, calm)
<1>1. /\ w \in Warehouses /\ FileFits(w, clean, calm) /\ ShelvesFit(w, calm)
      /\ BatchesFit(w, back, clean)
  BY DEF Sound
<1>2. /\ v \in Warehouses /\ row \in MoveRows
      /\ v.stock = [w.stock EXCEPT ![row.sku] = @ + row.change]
  BY DEF Moved
<1>3. /\ row.taken \in [Batches -> Nat]
      /\ \A b \in Batches : row.taken[b] # 0 /\ SkuOf[b] \in clean => SkuOf[b] = row.sku
      /\ row.sku \in calm => Total!Sum(row.taken, OwnBatches(row.sku)) = - row.change
  BY DEF Takes
<1>4. RowFits(row, clean, calm)
  BY <1>3 DEF RowFits
<1>5. FileFits(v, clean, calm)
  BY <1>1, <1>4, FilesFit
<1>6. ShelvesFit(v, calm)
  <2> SUFFICES ASSUME NEW sku \in calm
               PROVE  Total!Sum(v.left, OwnBatches(sku)) = v.stock[sku]
    BY DEF ShelvesFit
  <2> DEFINE S == OwnBatches(sku)
  <2>1. sku \in clean /\ sku \in Skus
    BY DEF Nested
  <2>2. S \in SUBSET Batches /\ \A b \in S : SkuOf[b] = sku
    BY OwnAre
  <2>3. Total!Sum(w.left, S) = w.stock[sku] /\ w.stock[sku] \in Nat
    BY <1>1, <2>1 DEF ShelvesFit, Warehouses
  <2>4. /\ w.left \in [Batches -> Nat] /\ v.left \in [Batches -> Nat]
        /\ w.stock \in [Skus -> Nat] /\ row.sku \in Skus /\ row.change \in Int
    BY <1>1, <1>2 DEF Warehouses, MoveRows
  <2>5. \A b \in S : w.left[b] = v.left[b] + row.taken[b]
    <3>1. \A b \in S : w.left[b] \in Nat /\ row.taken[b] \in Nat /\ v.left[b] = w.left[b] - row.taken[b]
      BY <1>3, <2>1, <2>2, <2>4
    <3> QED
      BY <3>1
  <2> HIDE DEF S
  <2>6. Total!Sum(w.left, S) = Total!Sum(v.left, S) + Total!Sum(row.taken, S)
        /\ Total!Sum(v.left, S) \in Nat
    <3>1. v.left \in [Batches -> Int] /\ row.taken \in [Batches -> Int]
      BY <1>3, <2>4
    <3> QED
      BY <2>2, <2>4, <2>5, <3>1, TotalPlus, TotalNat
  <2>7. CASE sku = row.sku
    <3>1. Total!Sum(row.taken, S) = - row.change
      BY <1>3, <2>7 DEF S
    <3>2. v.stock[sku] = w.stock[sku] + row.change
      BY <1>2, <2>1, <2>4, <2>7
    <3>3. Total!Sum(v.left, S) = v.stock[sku]
      <4> DEFINE before == Total!Sum(w.left, S)
                 after == Total!Sum(v.left, S)
                 out == Total!Sum(row.taken, S)
      <4>1. before = w.stock[sku] /\ before = after + out /\ after \in Nat /\ w.stock[sku] \in Nat
            /\ out = - row.change /\ row.change \in Int
        BY <2>3, <2>4, <2>6, <3>1
      <4> HIDE DEF before, after, out
      <4>2. after = v.stock[sku]
        BY ONLY <3>2, <4>1
      <4> QED
        BY <4>2 DEF after
    <3> QED
      BY <3>3 DEF S
  <2>8. CASE sku # row.sku
    <3>1. \A b \in S : row.taken[b] = 0
      BY <1>3, <2>1, <2>2, <2>8
    <3>2. Total!Sum(row.taken, S) = 0
      BY <2>2, <3>1, TotalZero
    <3>3. v.stock[sku] = w.stock[sku]
      BY <1>2, <2>1, <2>4, <2>8
    <3>4. Total!Sum(v.left, S) = v.stock[sku]
      <4> DEFINE before == Total!Sum(w.left, S)
                 after == Total!Sum(v.left, S)
                 out == Total!Sum(row.taken, S)
      <4>1. before = w.stock[sku] /\ before = after + out /\ after \in Nat /\ w.stock[sku] \in Nat
            /\ out = 0
        BY <2>3, <2>6, <3>2
      <4> HIDE DEF before, after, out
      <4>2. after = v.stock[sku]
        BY ONLY <3>3, <4>1
      <4> QED
        BY <4>2 DEF after
    <3> QED
      BY <3>4 DEF S
  <2> QED
    BY <2>7, <2>8
<1>7. BatchesFit(v, more, clean)
  <2> SUFFICES ASSUME NEW b \in Batches, SkuOf[b] \in clean
               PROVE  v.left[b] + Held(v, more, b) <= v.got[b]
    BY DEF BatchesFit
  <2>1. w.left[b] + Held(w, back, b) <= w.got[b]
    BY <1>1 DEF BatchesFit
  <2>2. /\ v.left[b] = w.left[b] - row.taken[b] /\ Held(w, back, b) \in Nat
        /\ Held(v, more, b) \in Nat /\ Held(v, more, b) <= Held(w, back, b) + row.taken[b]
    OBVIOUS
  <2>3. w.left[b] \in Nat /\ w.got[b] \in Nat /\ row.taken[b] \in Nat
    BY <1>1, <1>3 DEF Warehouses
  <2>4. v.left[b] + Held(v, more, b) <= w.got[b]
    BY <2>1, <2>2, <2>3
  <2> QED
    BY <2>4
<1> QED
  BY <1>2, <1>5, <1>6, <1>7 DEF Sound

\* Units that come back to the stock and the batches a movement took them from.
LEMMA GiveKeeps ==
  ASSUME NEW clean, NEW calm, Nested(clean, calm),
         NEW w, NEW back, NEW more, Sound(w, back, clean, calm),
         NEW row \in MoveRows, RowFits(row, clean, calm), row.type \in {"sale", "supplier_return"},
         NEW v \in Warehouses, FileFits(v, clean, calm), v.got = w.got,
         v.stock = [w.stock EXCEPT ![row.sku] = @ - row.change],
         \A b \in Batches :
            /\ v.left[b] = w.left[b] + row.taken[b]
            /\ Held(w, back, b) \in Nat /\ Held(v, more, b) \in Nat
            /\ Held(v, more, b) + row.taken[b] <= Held(w, back, b)
  PROVE  Sound(v, more, clean, calm)
<1>1. w \in Warehouses /\ ShelvesFit(w, calm) /\ BatchesFit(w, back, clean)
  BY DEF Sound
<1>2. /\ row.taken \in [Batches -> Nat] /\ row.sku \in Skus /\ row.change \in Int
      /\ \A b \in Batches : row.taken[b] # 0 /\ SkuOf[b] \in clean => SkuOf[b] = row.sku
      /\ row.sku \in calm => Total!Sum(row.taken, OwnBatches(row.sku)) = - row.change
  BY DEF RowFits, MoveRows
<1>3. ShelvesFit(v, calm)
  <2> SUFFICES ASSUME NEW sku \in calm
               PROVE  Total!Sum(v.left, OwnBatches(sku)) = v.stock[sku]
    BY DEF ShelvesFit
  <2> DEFINE S == OwnBatches(sku)
  <2>1. sku \in clean /\ sku \in Skus
    BY DEF Nested
  <2>2. S \in SUBSET Batches /\ \A b \in S : SkuOf[b] = sku
    BY OwnAre
  <2>3. Total!Sum(w.left, S) = w.stock[sku] /\ w.stock[sku] \in Nat
    BY <1>1, <2>1 DEF ShelvesFit, Warehouses
  <2>4. w.left \in [Batches -> Nat] /\ w.stock \in [Skus -> Nat]
    BY <1>1 DEF Warehouses
  <2>5. \A b \in S : v.left[b] = w.left[b] + row.taken[b]
    BY <2>2
  <2> HIDE DEF S
  <2>6. Total!Sum(v.left, S) = Total!Sum(w.left, S) + Total!Sum(row.taken, S)
    <3>1. w.left \in [Batches -> Int] /\ row.taken \in [Batches -> Int]
      BY <1>2, <2>4
    <3> QED
      BY <2>2, <2>5, <3>1, TotalPlus
  <2>7. CASE sku = row.sku
    <3>1. Total!Sum(row.taken, S) = - row.change
      BY <1>2, <2>7 DEF S
    <3>2. v.stock[sku] = w.stock[sku] - row.change
      BY <2>1, <2>4, <2>7
    <3>3. Total!Sum(v.left, S) = v.stock[sku]
      BY <1>2, <2>3, <2>6, <3>1, <3>2
    <3> QED
      BY <3>3 DEF S
  <2>8. CASE sku # row.sku
    <3>1. \A b \in S : row.taken[b] = 0
      BY <1>2, <2>1, <2>2, <2>8
    <3>2. Total!Sum(row.taken, S) = 0
      BY <2>2, <3>1, TotalZero
    <3>3. v.stock[sku] = w.stock[sku]
      BY <1>2, <2>1, <2>4, <2>8
    <3>4. Total!Sum(v.left, S) = v.stock[sku]
      BY ONLY <2>3, <2>6, <3>2, <3>3
    <3> QED
      BY <3>4 DEF S
  <2> QED
    BY <2>7, <2>8
<1>4. BatchesFit(v, more, clean)
  <2> SUFFICES ASSUME NEW b \in Batches, SkuOf[b] \in clean
               PROVE  v.left[b] + Held(v, more, b) <= v.got[b]
    BY DEF BatchesFit
  <2>1. w.left[b] + Held(w, back, b) <= w.got[b]
    BY <1>1 DEF BatchesFit
  <2>2. /\ v.left[b] = w.left[b] + row.taken[b] /\ Held(w, back, b) \in Nat
        /\ Held(v, more, b) \in Nat /\ Held(v, more, b) + row.taken[b] <= Held(w, back, b)
    OBVIOUS
  <2>3. w.left[b] \in Nat /\ w.got[b] \in Nat /\ row.taken[b] \in Nat
    BY <1>1, <1>2 DEF Warehouses
  <2>4. v.left[b] + Held(v, more, b) <= w.got[b]
    BY <2>1, <2>2, <2>3
  <2> QED
    BY <2>4
<1> QED
  BY <1>3, <1>4 DEF Sound

\* The batches alone: what may come back only becomes less.
LEMMA LessHeldKeeps ==
  ASSUME NEW clean, NEW calm, NEW w, NEW back, NEW more, Sound(w, back, clean, calm),
         \A b \in Batches : /\ Held(w, back, b) \in Nat /\ Held(w, more, b) \in Nat
                            /\ Held(w, more, b) <= Held(w, back, b)
  PROVE  Sound(w, more, clean, calm)
<1>1. w \in Warehouses /\ BatchesFit(w, back, clean)
  BY DEF Sound
<1>2. BatchesFit(w, more, clean)
  <2> SUFFICES ASSUME NEW b \in Batches, SkuOf[b] \in clean
               PROVE  w.left[b] + Held(w, more, b) <= w.got[b]
    BY DEF BatchesFit
  <2>1. w.left[b] + Held(w, back, b) <= w.got[b]
    BY <1>1 DEF BatchesFit
  <2>2. w.left[b] \in Nat /\ w.got[b] \in Nat
    BY <1>1 DEF Warehouses
  <2> QED
    BY <2>1, <2>2
<1> QED
  BY <1>2 DEF Sound

\* Fewer skus are asked of.
LEMMA SoundOfFewer ==
  ASSUME NEW w, NEW back, NEW clean, NEW calm, Sound(w, back, clean, calm),
         NEW clean2 \in SUBSET clean, NEW calm2 \in SUBSET calm
  PROVE  Sound(w, back, clean2, calm2)
<1>1. \A row : RowFits(row, clean, calm) => RowFits(row, clean2, calm2)
  BY DEF RowFits
<1>2. FileFits(w, clean2, calm2)
  BY <1>1 DEF Sound, FileFits
<1> QED
  BY <1>2 DEF Sound, ShelvesFit, BatchesFit
-----------------------------------------------------------------------------
(* The services' operations, field by field *)
Row(sku, type, change, taken) == [sku |-> sku, type |-> type, change |-> change, taken |-> taken]

LEMMA RowsAre ==
  ASSUME NEW sku \in Skus, NEW change \in Int, NEW taken \in [Batches -> Nat],
         NEW type \in {"restock", "damage", "supplier_return", "sale", "cancel_restore", "adjustment"},
         NEW row, row = Row(sku, type, change, taken)
  PROVE  /\ row \in MoveRows /\ row.sku = sku /\ row.change = change /\ row.taken = taken
         /\ row.type = type
BY DEF Row, MoveRows

LEMMA NoneUsed == NoBatchUsed \in [Batches -> Nat] /\ \A b \in Batches : NoBatchUsed[b] = 0
BY DEF NoBatchUsed

\* w with another stock, other batches, and the movement that tells of it.
Writes(w, v, d, row, left, got) ==
    v = [w EXCEPT !.stock = [w.stock EXCEPT ![row.sku] = @ + row.change],
                  !.left = left, !.got = got,
                  !.moves = [w.moves EXCEPT ![d] = Append(@, row)]]
LEMMA Written ==
  ASSUME NEW w \in Warehouses, NEW d \in Orders, NEW row \in MoveRows,
         w.stock[row.sku] + row.change \in Nat,
         NEW left \in [Batches -> Nat], NEW got \in [Batches -> Nat],
         NEW v, Writes(w, v, d, row, left, got)
  PROVE  /\ Moved(w, v, d, row) /\ v.left = left /\ v.got = got /\ v.waiting = w.waiting
<1> DEFINE stock == [w.stock EXCEPT ![row.sku] = @ + row.change]
           moves == [w.moves EXCEPT ![d] = Append(@, row)]
<1>1. w.stock \in [Skus -> Nat] /\ w.moves \in [Orders -> Seq(MoveRows)] /\ row.sku \in Skus
  BY DEF Warehouses, MoveRows
<1>2. stock \in [Skus -> Nat]
  BY <1>1
<1>3. moves \in [Orders -> Seq(MoveRows)]
  <2>1. Append(w.moves[d], row) \in Seq(MoveRows)
    BY <1>1
  <2> QED
    BY <1>1, <2>1
<1>4. v = [w EXCEPT !.stock = stock, !.left = left, !.got = got, !.moves = moves]
  BY DEF Writes
<1>5. /\ v \in Warehouses /\ v.stock = stock /\ v.moves = moves /\ v.waiting = w.waiting
      /\ v.left = left /\ v.got = got
  <2> HIDE DEF stock, moves
  <2> QED
    BY <1>2, <1>3, <1>4 DEF Warehouses
<1> QED
  BY <1>5 DEF Moved, Filed

LEMMA MoveMoves ==
  ASSUME NEW w \in Warehouses, NEW d \in Orders, NEW sku \in Skus, NEW change \in Int,
         w.stock[sku] + change \in Nat,
         NEW type \in {"restock", "damage", "supplier_return", "sale", "cancel_restore", "adjustment"},
         NEW v, v = MoveStock(w, d, sku, change, type)
  PROVE  /\ Moved(w, v, d, Row(sku, type, change, NoBatchUsed))
         /\ v.left = w.left /\ v.got = w.got /\ v.waiting = w.waiting
<1> DEFINE row == Row(sku, type, change, NoBatchUsed)
<1>1. row \in MoveRows /\ row.sku = sku /\ row.change = change
  BY RowsAre, NoneUsed
<1>2. v = [w EXCEPT !.stock[sku] = @ + change, !.moves = [w.moves EXCEPT ![d] = Append(@, row)]]
  BY DEF MoveStock, Record, Row
<1> HIDE DEF row
<1>3. v = [w EXCEPT !.stock = [w.stock EXCEPT ![row.sku] = @ + row.change],
                    !.left = w.left, !.got = w.got,
                    !.moves = [w.moves EXCEPT ![d] = Append(@, row)]]
  BY <1>1, <1>2 DEF Warehouses
<1>4. Writes(w, v, d, row, w.left, w.got)
  BY <1>3 DEF Writes
<1>5. w.left \in [Batches -> Nat] /\ w.got \in [Batches -> Nat]
  BY DEF Warehouses
<1>6. w.stock[row.sku] + row.change \in Nat
  BY <1>1
<1>7. Moved(w, v, d, row) /\ v.left = w.left /\ v.got = w.got /\ v.waiting = w.waiting
  BY <1>1, <1>4, <1>5, <1>6, Written
<1> QED
  BY <1>7 DEF row

LEMMA AlertTells ==
  ASSUME NEW w \in Warehouses, NEW sku \in Skus, NEW v, v = Alert(w, sku)
  PROVE  /\ v \in Warehouses /\ v.stock = w.stock /\ v.moves = w.moves
         /\ v.left = w.left /\ v.got = w.got /\ v.waiting \subseteq w.waiting
         /\ w.stock[sku] > 0 => sku \notin v.waiting
<1>1. w.hidden = {} /\ w.waiting \in SUBSET Skus
  BY DEF Warehouses
<1>2. CASE w.stock[sku] > 0
  <2> DEFINE rest == w.waiting \ {sku}
  <2>1. v = [w EXCEPT !.waiting = rest]
    BY <1>1, <1>2 DEF Alert, Warehouses
  <2>2. rest \in SUBSET Skus /\ rest \subseteq w.waiting /\ sku \notin rest
    BY <1>1
  <2> HIDE DEF rest
  <2> QED
    BY <2>1, <2>2 DEF Warehouses
<1>3. CASE ~(w.stock[sku] > 0)
  BY <1>3 DEF Alert
<1> QED
  BY <1>2, <1>3

\* Who waits for the one sku of which there is more is told.
LEMMA AlertTold ==
  ASSUME NEW w \in Warehouses, NEW u \in Warehouses, NEW sku \in Skus, NEW change \in Int,
         u.stock = [w.stock EXCEPT ![sku] = @ + change], u.waiting \subseteq w.waiting,
         NEW v, v = Alert(u, sku)
  PROVE  Told(w, v)
<1>1. /\ v.stock = u.stock /\ v.waiting \subseteq u.waiting
      /\ u.stock[sku] > 0 => sku \notin v.waiting
  BY AlertTells
<1>2. w.stock \in [Skus -> Nat]
  BY DEF Warehouses
<1>3. ASSUME NEW s \in Skus, v.stock[s] > w.stock[s] PROVE s \notin v.waiting
  <2>1. w.stock[s] \in Nat /\ u.stock[s] > w.stock[s]
    BY <1>1, <1>2, <1>3
  <2>2. s = sku
    BY <1>2, <2>1
  <2>3. u.stock[sku] > 0
    BY <1>2, <2>1, <2>2
  <2> QED
    BY <1>1, <2>2, <2>3
<1> QED
  BY <1>1, <1>3 DEF Told

LEMMA AlertedMove ==
  ASSUME NEW w \in Warehouses, NEW u, NEW d \in Orders, NEW row, Moved(w, u, d, row),
         NEW v, v = Alert(u, row.sku)
  PROVE  Moved(w, v, d, row) /\ Told(w, v) /\ v.left = u.left /\ v.got = u.got
<1>1. /\ u \in Warehouses /\ row \in MoveRows /\ u.stock = [w.stock EXCEPT ![row.sku] = @ + row.change]
      /\ u.waiting \subseteq w.waiting /\ row.sku \in Skus /\ row.change \in Int
  BY DEF Moved, MoveRows
<1>2. /\ v \in Warehouses /\ v.stock = u.stock /\ v.moves = u.moves
      /\ v.left = u.left /\ v.got = u.got /\ v.waiting \subseteq u.waiting
  BY <1>1, AlertTells
<1>3. Told(w, v)
  BY <1>1, AlertTold
<1>4. Moved(w, v, d, row)
  BY <1>1, <1>2 DEF Moved, Filed
<1> QED
  BY <1>2, <1>3, <1>4

\* Taking tells nobody, for there is less.
LEMMA LessTold ==
  ASSUME NEW w \in Warehouses, NEW v, v.waiting \subseteq w.waiting,
         \A sku \in Skus : v.stock[sku] <= w.stock[sku] /\ v.stock[sku] \in Nat
  PROVE  Told(w, v)
<1>1. \A sku \in Skus : w.stock[sku] \in Nat
  BY DEF Warehouses
<1> QED
  BY <1>1 DEF Told
LEMMA ToldTwice ==
  ASSUME NEW w \in Warehouses, NEW u \in Warehouses, NEW v \in Warehouses, Told(w, u), Told(u, v)
  PROVE  Told(w, v)
<1>1. \A sku \in Skus : w.stock[sku] \in Nat /\ u.stock[sku] \in Nat /\ v.stock[sku] \in Nat
  BY DEF Warehouses
<1>2. v.waiting \subseteq w.waiting
  BY DEF Told
<1>3. ASSUME NEW sku \in Skus, v.stock[sku] > w.stock[sku] PROVE sku \notin v.waiting
  <2>1. v.stock[sku] > u.stock[sku] \/ u.stock[sku] > w.stock[sku]
    BY <1>1, <1>3
  <2> QED
    BY <2>1 DEF Told
<1> QED
  BY <1>2, <1>3 DEF Told
-----------------------------------------------------------------------------
(* Sales *)
\* Of a clean sku a batch that nothing came in is empty, and none comes back to it.
LEMMA EmptyBatch ==
  ASSUME NEW clean, NEW calm, NEW w, NEW back, Sound(w, back, clean, calm), Pointed(w, back),
         NEW b \in Batches, SkuOf[b] \in clean, ~(w.got[b] > 0)
  PROVE  w.left[b] = 0 /\ Held(w, back, b) = 0
<1>1. w \in Warehouses /\ w.left[b] + Held(w, back, b) <= w.got[b]
  BY DEF Sound, BatchesFit
<1>2. Held(w, back, b) \in Nat
  BY <1>1, HeldIs
<1>3. w.left[b] \in Nat /\ w.got[b] \in Nat
  BY <1>1 DEF Warehouses
<1> QED
  BY <1>1, <1>2, <1>3

\* What is zero elsewhere adds up over the part.
LEMMA TotalWithin ==
  ASSUME NEW f \in [Batches -> Nat], NEW R \in SUBSET Batches, NEW S \in SUBSET R,
         \A b \in R \ S : f[b] = 0
  PROVE  Total!Sum(f, R) = Total!Sum(f, S)
<1>1. Total!Summable(f, R) /\ R \ S \in SUBSET Batches
  BY TotalNat
<1>2. Total!Sum(f, R) = Total!Sum(f, S) + Total!Sum(f, R \ S)
  BY <1>1, AllAdd, Total!SumSplit
<1>3. Total!Sum(f, R \ S) = 0
  BY <1>1, TotalZero
<1>4. Total!Sum(f, S) \in Nat
  BY TotalNat
<1> QED
  BY <1>2, <1>3, <1>4

LEMMA BatchesAre ==
  ASSUME NEW w, NEW sku, NEW past
  PROVE  /\ Open(w, sku, past) \in SUBSET OwnBatches(sku)
         /\ BatchesOf(w, sku) \in SUBSET OwnBatches(sku)
         /\ \A b \in OwnBatches(sku) \ BatchesOf(w, sku) : ~(w.got[b] > 0)
BY DEF Open, BatchesOf, Rows, OwnBatches

\* The stock of a calm sku is in the batches that are rows.
LEMMA StockInRows ==
  ASSUME NEW clean, NEW calm, Nested(clean, calm),
         NEW w, NEW back, Sound(w, back, clean, calm), Pointed(w, back), NEW sku \in calm
  PROVE  Total!Sum(w.left, BatchesOf(w, sku)) = w.stock[sku]
<1>1. w \in Warehouses /\ Total!Sum(w.left, OwnBatches(sku)) = w.stock[sku] /\ sku \in clean
  BY DEF Sound, ShelvesFit, Nested
<1>2. \A b \in OwnBatches(sku) \ BatchesOf(w, sku) : w.left[b] = 0
  <2> SUFFICES ASSUME NEW b \in OwnBatches(sku) \ BatchesOf(w, sku) PROVE w.left[b] = 0
    OBVIOUS
  <2>1. b \in Batches /\ SkuOf[b] \in clean /\ ~(w.got[b] > 0)
    BY <1>1, OwnAre, BatchesAre
  <2> QED
    BY <2>1, EmptyBatch
<1>3. w.left \in [Batches -> Nat] /\ OwnBatches(sku) \in SUBSET Batches
      /\ BatchesOf(w, sku) \in SUBSET OwnBatches(sku)
  BY <1>1, OwnAre, BatchesAre DEF Warehouses
<1>4. Total!Sum(w.left, OwnBatches(sku)) = Total!Sum(w.left, BatchesOf(w, sku))
  BY <1>2, <1>3, TotalWithin
<1> QED
  BY <1>1, <1>4

\* First expiry first takes what it should, if there is enough of it.
LEMMA FefoSound ==
  ASSUME NEW clean, NEW calm, NEW w \in Warehouses, NEW sku, NEW quantity \in Nat, NEW past,
         NEW taken, taken = Fefo(w, sku, quantity, past),
         sku \in calm => quantity <= Total!Sum(w.left, Open(w, sku, past))
  PROVE  Takes(sku, quantity, taken, clean, calm)
<1>1. /\ taken \in [Batches -> Nat]
      /\ \A b \in Batches : taken[b] # 0 => b \in Open(w, sku, past)
  BY FefoTakes
<1>2. /\ Open(w, sku, past) \in SUBSET OwnBatches(sku)
      /\ OwnBatches(sku) \in SUBSET Batches /\ \A b \in OwnBatches(sku) : SkuOf[b] = sku
  BY BatchesAre, OwnAre
<1>3. ASSUME sku \in calm
      PROVE  Total!Sum(taken, OwnBatches(sku)) = quantity
  <2>1. Total!Sum(taken, Open(w, sku, past)) = quantity
    BY <1>3, FefoCovers
  <2>2. \A b \in OwnBatches(sku) \ Open(w, sku, past) : taken[b] = 0
    BY <1>1, <1>2
  <2>3. Total!Sum(taken, OwnBatches(sku)) = Total!Sum(taken, Open(w, sku, past))
    BY <1>1, <1>2, <2>2, TotalWithin
  <2> QED
    BY <2>1, <2>3
<1>4. \A b \in Batches : taken[b] # 0 /\ SkuOf[b] \in clean => SkuOf[b] = sku
  BY <1>1, <1>2
<1> QED
  BY <1>1, <1>3, <1>4 DEF Takes

LEMMA SellIs ==
  ASSUME NEW w \in Warehouses, NEW o \in Orders, NEW sku \in Skus, NEW quantity \in Nat,
         CanSell(w, sku, quantity), NEW past, NEW taken, taken = Fefo(w, sku, quantity, past),
         NEW v, v = Sell(w, o, sku, quantity, past)
  PROVE  /\ Moved(w, v, o, Row(sku, "sale", - quantity, taken)) /\ v.got = w.got
         /\ \A b \in Batches : v.left[b] = w.left[b] - taken[b]
         /\ Told(w, v)
<1> DEFINE row == Row(sku, "sale", - quantity, taken)
           left == [b \in Batches |-> w.left[b] - taken[b]]
<1>1. taken \in [Batches -> Nat] /\ \A b \in Batches : taken[b] <= w.left[b]
  BY FefoTakes
<1>2. w.stock \in [Skus -> Nat] /\ w.left \in [Batches -> Nat] /\ w.got \in [Batches -> Nat]
  BY DEF Warehouses
<1>3. row \in MoveRows /\ row.sku = sku /\ row.change = - quantity
  <2>1. - quantity \in Int
    OBVIOUS
  <2> QED
    BY <1>1, <2>1, RowsAre
<1>4. left \in [Batches -> Nat]
  <2>1. \A b \in Batches : w.left[b] - taken[b] \in Nat
    BY <1>1, <1>2
  <2> QED
    BY <2>1
<1>5. v = [w EXCEPT !.stock[sku] = @ - quantity, !.left = left,
                    !.moves = [w.moves EXCEPT ![o] = Append(@, row)]]
  BY DEF Sell, Record, Row
<1>6. \A b \in Batches : left[b] = w.left[b] - taken[b]
  OBVIOUS
<1> HIDE DEF row, left
<1>7. [w.stock EXCEPT ![sku] = @ - quantity] = [w.stock EXCEPT ![row.sku] = @ + row.change]
  BY <1>2, <1>3
<1>8. Writes(w, v, o, row, left, w.got)
  BY <1>5, <1>7 DEF Writes, Warehouses
<1>9. w.stock[row.sku] + row.change \in Nat
  BY <1>2, <1>3 DEF CanSell
<1>10. Moved(w, v, o, row) /\ v.left = left /\ v.got = w.got /\ v.waiting = w.waiting
  BY <1>2, <1>3, <1>4, <1>8, <1>9, Written
<1>11. Told(w, v)
  <2>1. v.stock = [w.stock EXCEPT ![row.sku] = @ + row.change] /\ v.stock \in [Skus -> Nat]
    BY <1>10 DEF Moved, Warehouses
  <2>2. \A s \in Skus : v.stock[s] <= w.stock[s] /\ v.stock[s] \in Nat
    BY <1>2, <1>3, <2>1
  <2> QED
    BY <1>10, <2>2, LessTold
<1> QED
  BY <1>6, <1>10, <1>11 DEF row

\* A customer's first order of a sku.
LEMMA SellKeeps ==
  ASSUME NEW clean, NEW calm, Nested(clean, calm),
         NEW w, NEW back, Sound(w, back, clean, calm), Pointed(w, back),
         NEW o \in CustomerOrders, w.moves[o] = <<>>, NEW sku \in Skus, NEW quantity \in Nat \ {0},
         NEW past, CanSell(w, sku, quantity), Sellable(w, sku, past) >= quantity,
         NEW taken, taken = Fefo(w, sku, quantity, past),
         NEW v, v = Sell(w, o, sku, quantity, past)
  PROVE  /\ Moved(w, v, o, Row(sku, "sale", - quantity, taken)) /\ Told(w, v)
         /\ taken \in [Batches -> Nat]
         /\ Pointed(v, back) /\ Sound(v, back, clean, calm)
<1> DEFINE row == Row(sku, "sale", - quantity, taken)
<1>1. w \in Warehouses /\ o \in Orders /\ quantity \in Nat
  BY DocumentsAre DEF Sound
<1>2. /\ Moved(w, v, o, row) /\ v.got = w.got /\ Told(w, v)
      /\ \A b \in Batches : v.left[b] = w.left[b] - taken[b]
  BY <1>1, SellIs
<1>3. taken \in [Batches -> Nat]
  BY <1>1, FefoTakes
<1>4. row \in MoveRows /\ row.sku = sku /\ row.change = - quantity /\ row.taken = taken
  <2>1. - quantity \in Int
    OBVIOUS
  <2> QED
    BY <1>3, <2>1, RowsAre
<1>5. ASSUME sku \in calm PROVE quantity <= Total!Sum(w.left, Open(w, sku, past))
  <2>1. CASE BatchesOf(w, sku) = {}
    <3>1. Total!Sum(w.left, {}) = w.stock[sku]
      <4>1. Total!Sum(w.left, BatchesOf(w, sku)) = w.stock[sku]
        BY <1>5, StockInRows
      <4> QED
        BY <2>1, <4>1
    <3>2. w.stock[sku] = 0
      BY <3>1, Total!SumEmpty
    <3> QED
      BY <1>1, <3>2 DEF CanSell
  <2>2. CASE BatchesOf(w, sku) # {}
    <3>1. Sellable(w, sku, past) = Total!Sum(w.left, Open(w, sku, past))
      BY <2>2, InBatchesIsTotal DEF Sellable, Open
    <3>2. Total!Sum(w.left, Open(w, sku, past)) \in Nat
      <4>1. w.left \in [Batches -> Nat] /\ Open(w, sku, past) \in SUBSET Batches
        BY <1>1, BatchesAre, OwnAre DEF Warehouses
      <4> QED
        BY <4>1, TotalNat
    <3> QED
      BY <1>1, <3>1, <3>2
  <2> QED
    BY <2>1, <2>2
<1>6. Takes(sku, quantity, taken, clean, calm)
  BY <1>1, <1>5, FefoSound
<1> HIDE DEF row
<1>7. Takes(row.sku, - row.change, row.taken, clean, calm)
  <2>1. - (- quantity) = quantity
    BY <1>1
  <2> QED
    BY <1>4, <1>6, <2>1
<1>8. /\ \A p \in Orders \ {o} : v.moves[p] = w.moves[p]
      /\ v.moves[o] = Append(w.moves[o], row)
  BY <1>1, <1>2, MovedRows
<1>9. v \in Warehouses
  BY <1>2 DEF Moved
<1>10. Pointed(v, back)
  <2>1. \A r \in SupplierReturns : v.moves[r] = w.moves[r]
    BY <1>8, DocumentsAre
  <2> QED
    BY <2>1 DEF Pointed
<1>11. ASSUME NEW b \in Batches
       PROVE  /\ Held(w, back, b) \in Nat /\ Held(v, back, b) \in Nat
              /\ Held(v, back, b) <= Held(w, back, b) + row.taken[b]
  <2>1. /\ Held(v, back, b) = Held(w, back, b) + HeldBy(v.moves, back, o, b) - HeldBy(w.moves, back, o, b)
        /\ Held(v, back, b) \in Nat /\ Held(w, back, b) \in Nat
        /\ HeldBy(v.moves, back, o, b) \in Nat /\ HeldBy(w.moves, back, o, b) \in Nat
    <3>1. OnlyDoc(w, v, back, back, o)
      BY <1>1, <1>8, <1>9, <1>10 DEF OnlyDoc
    <3> QED
      BY <1>1, <3>1, HeldChange
  <2>2. v.moves[o] = <<row>>
    BY <1>4, <1>8
  <2>3. HeldBy(v.moves, back, o, b) = row.taken[b]
    <3>1. Len(v.moves[o]) = 1 /\ v.moves[o][1] = row
      BY <2>2
    <3>2. HeldBy(v.moves, back, o, b)
            = IF Len(v.moves[o]) = 1 THEN v.moves[o][1].taken[b] ELSE 0
      BY HeldBySale
    <3> QED
      BY <3>1, <3>2
  <2> QED
    BY <2>1, <2>3
<1>12. Sound(v, back, clean, calm)
  <2>1. \A b \in Batches : SkuOf[b] \in clean =>
            /\ v.left[b] = w.left[b] - row.taken[b]
            /\ Held(w, back, b) \in Nat /\ Held(v, back, b) \in Nat
            /\ Held(v, back, b) <= Held(w, back, b) + row.taken[b]
    BY <1>2, <1>4, <1>11
  <2> QED
    BY <1>1, <1>2, <1>7, <2>1, TakeKeeps
<1> QED
  BY <1>2, <1>3, <1>10, <1>12 DEF row
-----------------------------------------------------------------------------
(* Write-offs *)
LEMMA SameFefo ==
  ASSUME NEW w, NEW sku, NEW quantity
  PROVE  FefoWithExpired(w, sku, quantity, {}) = Fefo(w, sku, quantity, {})
<1>1. BatchesOf(w, sku) \ {} = BatchesOf(w, sku)
  OBVIOUS
<1> QED
  BY <1>1 DEF FefoWithExpired, Fefo

OnlyFrom(taken, batch, quantity) ==
    \A b \in Batches : taken[b] = IF b = batch THEN quantity ELSE 0
LEMMA TakenIs ==
  ASSUME NEW w \in Warehouses, NEW sku, NEW batch \in Batches \cup {NoBatch}, NEW quantity \in Nat,
         NEW taken, taken = Taken(w, sku, batch, quantity)
  PROVE  /\ taken \in [Batches -> Nat]
         /\ batch = NoBatch => taken = Fefo(w, sku, quantity, {})
         /\ batch # NoBatch => OnlyFrom(taken, batch, quantity)
<1>1. CASE batch = NoBatch
  <2>1. taken = Fefo(w, sku, quantity, {})
    BY <1>1, SameFefo DEF Taken
  <2> QED
    BY <1>1, <2>1, FefoTakes
<1>2. CASE batch # NoBatch
  <2>1. taken = [NoBatchUsed EXCEPT ![batch] = quantity]
    BY <1>2 DEF Taken
  <2> QED
    BY <1>2, <2>1, NoneUsed DEF OnlyFrom
<1> QED
  BY <1>1, <1>2

OneLeft(w, sku, taken, b) ==
    IF SkuOf[b] # sku THEN w.left[b]
    ELSE IF w.left[b] - taken[b] <= 0 THEN 0 ELSE w.left[b] - taken[b]

\* v is w with quantity of sku written off, of taken.
WritesOff(w, v, d, sku, batch, quantity, type, taken) ==
    /\ w \in Warehouses /\ d \in Orders /\ sku \in Skus /\ batch \in Batches \cup {NoBatch}
    /\ quantity \in Nat /\ quantity <= w.stock[sku] /\ type \in {"damage", "supplier_return"}
    /\ taken = Taken(w, sku, batch, quantity)
    /\ v = WriteOff(w, d, sku, batch, quantity, type)
LEMMA WriteOffIs ==
  ASSUME NEW w, NEW v, NEW d, NEW sku, NEW batch, NEW quantity, NEW type, NEW taken,
         WritesOff(w, v, d, sku, batch, quantity, type, taken)
  PROVE  /\ Moved(w, v, d, Row(sku, type, - quantity, taken)) /\ v.got = w.got
         /\ \A b \in Batches : v.left[b] = OneLeft(w, sku, taken, b)
         /\ taken \in [Batches -> Nat] /\ Told(w, v)
<1> USE DEF WritesOff
<1> DEFINE row == Row(sku, type, - quantity, taken)
           left == LeftAfter(w, sku, taken)
<1>1. taken \in [Batches -> Nat]
  BY TakenIs
<1>2. w.stock \in [Skus -> Nat] /\ w.left \in [Batches -> Nat] /\ w.got \in [Batches -> Nat]
  BY DEF Warehouses
<1>3. row \in MoveRows /\ row.sku = sku /\ row.change = - quantity
  <2>1. - quantity \in Int
    OBVIOUS
  <2> QED
    BY <1>1, <2>1, RowsAre
<1>4. ASSUME NEW b \in Batches
      PROVE  left[b] = OneLeft(w, sku, taken, b)
  <2>1. w.left[b] - taken[b] \in Int
    BY <1>1, <1>2
  <2>2. Max({w.left[b] - taken[b], 0})
          = IF w.left[b] - taken[b] <= 0 THEN 0 ELSE w.left[b] - taken[b]
    BY <2>1, GreatestOf
  <2>3. left[b] = IF SkuOf[b] # sku THEN w.left[b] ELSE Max({w.left[b] - taken[b], 0})
    BY DEF LeftAfter
  <2> QED
    BY <2>2, <2>3 DEF OneLeft
<1>5. left \in [Batches -> Nat]
  <2>1. \A b \in Batches : left[b] \in Nat
    <3> HIDE DEF left
    <3> QED
      BY <1>1, <1>2, <1>4 DEF OneLeft
  <2>2. left = [b \in Batches |-> left[b]]
    BY DEF LeftAfter
  <2> HIDE DEF left
  <2> QED
    BY <2>1, <2>2
<1>6. v = [w EXCEPT !.stock[sku] = @ - quantity, !.left = left,
                    !.moves = [w.moves EXCEPT ![d] = Append(@, row)]]
  BY DEF WriteOff, Record, Row
<1> HIDE DEF row, left
<1>7. [w.stock EXCEPT ![sku] = @ - quantity] = [w.stock EXCEPT ![row.sku] = @ + row.change]
  BY <1>2, <1>3
<1>8. Writes(w, v, d, row, left, w.got)
  BY <1>6, <1>7 DEF Writes, Warehouses
<1>9. w.stock[row.sku] + row.change \in Nat
  BY <1>2, <1>3
<1>10. Moved(w, v, d, row) /\ v.left = left /\ v.got = w.got /\ v.waiting = w.waiting
  BY <1>2, <1>3, <1>5, <1>8, <1>9, Written
<1>11. Told(w, v)
  <2>1. v.stock = [w.stock EXCEPT ![row.sku] = @ + row.change] /\ v.stock \in [Skus -> Nat]
    BY <1>10 DEF Moved, Warehouses
  <2>2. \A s \in Skus : v.stock[s] <= w.stock[s] /\ v.stock[s] \in Nat
    BY <1>2, <1>3, <2>1
  <2> QED
    BY <1>10, <2>2, LessTold
<1> QED
  BY <1>1, <1>4, <1>10, <1>11 DEF row

\* What a write-off takes of clean skus is there, and of the sku it names.
LEMMA WriteOffTakes ==
  ASSUME NEW clean, NEW calm, Nested(clean, calm),
         NEW w, NEW back, Sound(w, back, clean, calm), Pointed(w, back),
         NEW v, NEW d, NEW sku, NEW batch, NEW quantity, NEW type, NEW taken,
         WritesOff(w, v, d, sku, batch, quantity, type, taken),
         Short(w, sku, batch, quantity) \cap clean = {}
  PROVE  /\ Takes(sku, quantity, taken, clean, calm)
         /\ \A b \in Batches : SkuOf[b] \in clean =>
               IF SkuOf[b] = sku THEN taken[b] <= w.left[b] ELSE taken[b] = 0
<1> USE DEF WritesOff
<1>1. w \in Warehouses /\ w.left \in [Batches -> Nat] /\ w.stock \in [Skus -> Nat]
  BY DEF Sound, Warehouses
<1>2. /\ taken \in [Batches -> Nat]
      /\ batch = NoBatch => taken = Fefo(w, sku, quantity, {})
      /\ batch # NoBatch => OnlyFrom(taken, batch, quantity)
  BY <1>1, TakenIs
<1>3. CASE batch = NoBatch
  <2>1. taken = Fefo(w, sku, quantity, {})
    BY <1>2, <1>3
  <2>2. Open(w, sku, {}) = BatchesOf(w, sku)
    BY DEF Open
  <2>3. ASSUME sku \in calm PROVE quantity <= Total!Sum(w.left, Open(w, sku, {}))
    <3>1. Total!Sum(w.left, BatchesOf(w, sku)) = w.stock[sku]
      BY <2>3, StockInRows
    <3>2. Total!Sum(w.left, Open(w, sku, {})) = w.stock[sku]
      BY <2>2, <3>1
    <3> QED
      BY <3>2
  <2>4. Takes(sku, quantity, taken, clean, calm)
    BY <1>1, <2>1, <2>3, FefoSound
  <2>5. \A b \in Batches : /\ taken[b] <= w.left[b]
                           /\ taken[b] # 0 => b \in Open(w, sku, {})
    BY <1>1, <2>1, FefoTakes
  <2>6. \A b \in Batches : b \in Open(w, sku, {}) => SkuOf[b] = sku
    BY BatchesAre, OwnAre
  <2> QED
    BY <2>4, <2>5, <2>6
<1>4. CASE batch # NoBatch /\ SkuOf[batch] = sku /\ w.left[batch] >= quantity
  <2>1. batch \in Batches /\ \A b \in Batches : taken[b] = IF b = batch THEN quantity ELSE 0
    BY <1>2, <1>4 DEF OnlyFrom
  <2>2. Total!Sum(taken, OwnBatches(sku)) = quantity
    <3> DEFINE S == OwnBatches(sku)
    <3>1. S \in SUBSET Batches /\ batch \in S /\ S \ {batch} \in SUBSET Batches
      BY <1>4, <2>1 DEF OwnBatches
    <3> HIDE DEF S
    <3>2. Total!Summable(taken, S)
      BY <1>2, <3>1, TotalNat
    <3>3. Total!Sum(taken, S) = In(taken, batch) + Total!Sum(taken, S \ {batch})
      BY <3>1, <3>2, AllAdd, Total!SumRemove
    <3>4. \A b \in S \ {batch} : taken[b] = 0
      BY <2>1, <3>1
    <3>5. Total!Sum(taken, S \ {batch}) = 0
      BY <3>1, <3>4, TotalZero
    <3>6. In(taken, batch) = quantity
      BY <2>1 DEF In
    <3> QED
      BY <3>3, <3>5, <3>6 DEF S
  <2>3. Takes(sku, quantity, taken, clean, calm)
    BY <1>2, <1>4, <2>1, <2>2 DEF Takes
  <2>4. \A b \in Batches : IF SkuOf[b] = sku THEN taken[b] <= w.left[b] ELSE taken[b] = 0
    BY <1>1, <1>4, <2>1
  <2> QED
    BY <2>3, <2>4
<1>5. CASE batch # NoBatch /\ ~(SkuOf[batch] = sku /\ w.left[batch] >= quantity)
  <2>1. Short(w, sku, batch, quantity) = {sku, SkuOf[batch]}
    BY <1>5 DEF Short
  <2>2. sku \notin clean /\ SkuOf[batch] \notin clean
    BY <2>1
  <2>3. \A b \in Batches : SkuOf[b] \in clean => taken[b] = 0 /\ SkuOf[b] # sku
    BY <1>2, <1>5, <2>2 DEF OnlyFrom
  <2>4. sku \notin calm
    BY <2>2 DEF Nested
  <2> QED
    BY <1>2, <2>3, <2>4 DEF Takes
<1> QED
  BY <1>3, <1>4, <1>5

\* A write-off for d, which holds no more than the new movement took for what it may undo.
LEMMA WriteOffKeeps ==
  ASSUME NEW clean, NEW calm, Nested(clean, calm),
         NEW w, NEW back, NEW more, Sound(w, back, clean, calm), Pointed(w, back),
         NEW v, NEW d, NEW sku, NEW batch, NEW quantity, NEW type, NEW taken,
         WritesOff(w, v, d, sku, batch, quantity, type, taken),
         Short(w, sku, batch, quantity) \cap clean = {},
         OnlyDoc(w, v, back, more, d),
         \A b \in Batches :
            HeldBy(v.moves, more, d, b) <= HeldBy(w.moves, back, d, b) + taken[b]
  PROVE  Sound(v, more, clean, calm)
<1> DEFINE row == Row(sku, type, - quantity, taken)
<1>1. w \in Warehouses /\ w.left \in [Batches -> Nat]
  BY DEF Sound, Warehouses
<1>0. /\ quantity \in Nat /\ sku \in Skus /\ d \in Orders
      /\ type \in {"damage", "supplier_return"}
  BY DEF WritesOff
<1>2. /\ Moved(w, v, d, row) /\ v.got = w.got
      /\ \A b \in Batches : v.left[b] = OneLeft(w, sku, taken, b)
  BY WriteOffIs
<1>3. taken \in [Batches -> Nat]
  BY WriteOffIs
<1>4. row \in MoveRows /\ row.sku = sku /\ row.change = - quantity /\ row.taken = taken
  <2>1. - quantity \in Int
    BY <1>0
  <2> QED
    BY <1>0, <1>3, <2>1, RowsAre
<1>5. /\ Takes(sku, quantity, taken, clean, calm)
      /\ \A b \in Batches : SkuOf[b] \in clean =>
            IF SkuOf[b] = sku THEN taken[b] <= w.left[b] ELSE taken[b] = 0
  BY WriteOffTakes
<1> HIDE DEF row
<1>6. Takes(row.sku, - row.change, row.taken, clean, calm)
  <2>1. - (- quantity) = quantity
    BY <1>0
  <2> QED
    BY <1>4, <1>5, <2>1
<1>7. ASSUME NEW b \in Batches, SkuOf[b] \in clean
      PROVE  /\ v.left[b] = w.left[b] - row.taken[b]
             /\ Held(w, back, b) \in Nat /\ Held(v, more, b) \in Nat
             /\ Held(v, more, b) <= Held(w, back, b) + row.taken[b]
  <2>1. v.left[b] = w.left[b] - taken[b]
    <3>1. w.left[b] \in Nat /\ taken[b] \in Nat
      BY <1>1, <1>3
    <3>2. IF SkuOf[b] = sku THEN taken[b] <= w.left[b] ELSE taken[b] = 0
      BY <1>5, <1>7
    <3>3. v.left[b] = OneLeft(w, sku, taken, b)
      BY <1>2
    <3> QED
      BY <3>1, <3>2, <3>3 DEF OneLeft
  <2>2. /\ Held(v, more, b) = Held(w, back, b) + HeldBy(v.moves, more, d, b)
                                 - HeldBy(w.moves, back, d, b)
        /\ Held(v, more, b) \in Nat /\ Held(w, back, b) \in Nat
        /\ HeldBy(v.moves, more, d, b) \in Nat /\ HeldBy(w.moves, back, d, b) \in Nat
    BY <1>0, HeldChange
  <2>3. HeldBy(v.moves, more, d, b) <= HeldBy(w.moves, back, d, b) + taken[b] /\ taken[b] \in Nat
    BY <1>3
  <2>4. Held(v, more, b) <= Held(w, back, b) + taken[b]
    BY <2>2, <2>3
  <2> QED
    BY <1>4, <2>1, <2>2, <2>4
<1>8. \A b \in Batches : SkuOf[b] \in clean =>
            /\ v.left[b] = w.left[b] - row.taken[b]
            /\ Held(w, back, b) \in Nat /\ Held(v, more, b) \in Nat
            /\ Held(v, more, b) <= Held(w, back, b) + row.taken[b]
  BY <1>7
<1> QED
  BY <1>0, <1>2, <1>6, <1>8, TakeKeeps
-----------------------------------------------------------------------------
(* Movements without batches, and receipts *)
LEMMA HoldsNothing ==
  ASSUME NEW file, NEW back, NEW b, NEW d, d \notin CustomerOrders, d \notin SupplierReturns
  PROVE  HeldBy(file, back, d, b) = 0
BY DEF HeldBy

\* A document of which nothing comes back.
Plain(d) == d \in Orders /\ d \notin CustomerOrders /\ d \notin SupplierReturns

LEMMA PlainHeld ==
  ASSUME NEW w, NEW v, NEW back, NEW d, Plain(d), Pointed(w, back), NEW row, w \in Warehouses,
         Moved(w, v, d, row)
  PROVE  /\ Pointed(v, back) /\ OnlyDoc(w, v, back, back, d)
         /\ \A b \in Batches : Held(v, back, b) = Held(w, back, b) /\ Held(w, back, b) \in Nat
<1>1. d \in Orders /\ v \in Warehouses
  BY DEF Plain, Moved
<1>2. \A p \in Orders \ {d} : v.moves[p] = w.moves[p]
  BY <1>1, MovedRows
<1>3. Pointed(v, back)
  <2>1. \A r \in SupplierReturns : v.moves[r] = w.moves[r]
    BY <1>2, DocumentsAre DEF Plain
  <2> QED
    BY <2>1 DEF Pointed
<1>4. OnlyDoc(w, v, back, back, d)
  BY <1>1, <1>2, <1>3 DEF OnlyDoc
<1>5. ASSUME NEW b \in Batches PROVE Held(v, back, b) = Held(w, back, b) /\ Held(w, back, b) \in Nat
  <2>1. HeldBy(v.moves, back, d, b) = 0 /\ HeldBy(w.moves, back, d, b) = 0
    BY HoldsNothing DEF Plain
  <2>2. /\ Held(v, back, b) = Held(w, back, b) + HeldBy(v.moves, back, d, b) - HeldBy(w.moves, back, d, b)
        /\ Held(w, back, b) \in Nat
    BY <1>1, <1>4, HeldChange
  <2> QED
    BY <2>1, <2>2
<1> QED
  BY <1>3, <1>4, <1>5

\* The stock of a sku that is not calm moves alone.
LEMMA StockAloneKeeps ==
  ASSUME NEW clean, NEW calm, NEW w, NEW back, Sound(w, back, clean, calm), Pointed(w, back),
         NEW d, Plain(d), NEW row, row.taken = NoBatchUsed, row.type \in {"restock", "adjustment"},
         row.sku \notin calm,
         NEW v, Moved(w, v, d, row), v.left = w.left, v.got = w.got, calm \subseteq Skus
  PROVE  Sound(v, back, clean, calm)
<1>1. /\ w \in Warehouses /\ FileFits(w, clean, calm) /\ ShelvesFit(w, calm)
      /\ BatchesFit(w, back, clean)
  BY DEF Sound
<1>2. /\ v \in Warehouses /\ row \in MoveRows /\ d \in Orders
      /\ v.stock = [w.stock EXCEPT ![row.sku] = @ + row.change] /\ w.stock \in [Skus -> Nat]
  BY <1>1 DEF Moved, Plain, Warehouses
<1>3. FileFits(v, clean, calm)
  <2>1. RowFits(row, clean, calm)
    BY <1>2, PlainRowFits
  <2> QED
    BY <1>1, <1>2, <2>1, FilesFit
<1>4. ShelvesFit(v, calm)
  BY <1>1, <1>2 DEF ShelvesFit
<1>5. BatchesFit(v, back, clean)
  <2>1. Plain(d) /\ Pointed(w, back) /\ w \in Warehouses /\ Moved(w, v, d, row)
    BY <1>1
  <2>2. /\ Pointed(v, back) /\ OnlyDoc(w, v, back, back, d)
        /\ \A b \in Batches : Held(v, back, b) = Held(w, back, b) /\ Held(w, back, b) \in Nat
    BY ONLY <2>1, PlainHeld
  <2> QED
    BY <1>1, <2>2 DEF BatchesFit
<1> QED
  BY <1>2, <1>3, <1>4, <1>5 DEF Sound

\* What some batches hold, when one of them changes.
LEMMA TotalChange ==
  ASSUME NEW f \in [Batches -> Nat], NEW S \in SUBSET Batches, NEW b \in S, NEW x \in Nat,
         NEW g, g = [f EXCEPT ![b] = x]
  PROVE  Total!Sum(g, S) = Total!Sum(f, S) + x - f[b]
<1>1. g \in [Batches -> Nat] /\ g[b] = x /\ \A a \in S \ {b} : g[a] = f[a]
  OBVIOUS
<1>2. Total!Summable(f, S) /\ Total!Summable(g, S) /\ b \in S
  BY <1>1, TotalNat
<1>3. \A a \in S \ {b} : In(f, a) = In(g, a)
  BY <1>1 DEF In
<1>4. Total!Sum(g, S) = Total!Sum(f, S) + In(g, b) - In(f, b)
  BY ONLY <1>2, <1>3, AllAdd, Total!SumChange
<1> QED
  BY <1>1, <1>4 DEF In

\* receiveGoodsForPurchaseOrder: a batch of its own for an item of a delivery.
ItemsIn == [batch : Batches, quantity : Nat \ {0}]
RowIn(item) == Row(SkuOf[item.batch], "restock", item.quantity, NoBatchUsed)
Received(w, v, p, item) ==
    /\ Moved(w, v, p, RowIn(item))
    /\ v.left = [w.left EXCEPT ![item.batch] = item.quantity]
    /\ v.got = [w.got EXCEPT ![item.batch] = item.quantity]
    /\ Told(w, v)
LEMMA ReceiveIs ==
  ASSUME NEW w \in Warehouses, NEW p \in Orders, NEW item \in ItemsIn,
         NEW v, v = ReceiveItem(w, p, item)
  PROVE  Received(w, v, p, item)
<1> DEFINE sku == SkuOf[item.batch]
           row == Row(sku, "restock", item.quantity, NoBatchUsed)
           left == [w.left EXCEPT ![item.batch] = item.quantity]
           got == [w.got EXCEPT ![item.batch] = item.quantity]
           u == [MoveStock(w, p, sku, item.quantity, "restock")
                   EXCEPT !.got[item.batch] = item.quantity, !.left[item.batch] = item.quantity]
<1>1. item.batch \in Batches /\ item.quantity \in Nat /\ sku \in Skus
  BY StockroomAssumption DEF ItemsIn
<1>2. w.stock \in [Skus -> Nat] /\ w.left \in [Batches -> Nat] /\ w.got \in [Batches -> Nat]
  BY DEF Warehouses
<1>3. row \in MoveRows /\ row.sku = sku /\ row.change = item.quantity
  <2>1. item.quantity \in Int
    BY <1>1
  <2> QED
    BY <1>1, <2>1, NoneUsed, RowsAre
<1>4. left \in [Batches -> Nat] /\ got \in [Batches -> Nat]
  BY <1>1, <1>2
<1>5. u = [w EXCEPT !.stock[sku] = @ + item.quantity, !.left = left, !.got = got,
                    !.moves = [w.moves EXCEPT ![p] = Append(@, row)]]
  BY DEF MoveStock, Record, Row, Warehouses
<1>6. v = Alert(u, sku)
  BY DEF ReceiveItem
<1> HIDE DEF u, row, left, got, sku
<1>7. [w.stock EXCEPT ![sku] = @ + item.quantity] = [w.stock EXCEPT ![row.sku] = @ + row.change]
  BY <1>2, <1>3
<1>8. Writes(w, u, p, row, left, got)
  BY <1>5, <1>7 DEF Writes, Warehouses
<1>9. w.stock[row.sku] + row.change \in Nat
  BY <1>1, <1>2, <1>3
<1>10. Moved(w, u, p, row) /\ u.left = left /\ u.got = got
  BY <1>3, <1>4, <1>8, <1>9, Written
<1>11. Moved(w, v, p, row) /\ Told(w, v) /\ v.left = u.left /\ v.got = u.got
  <2>1. v = Alert(u, row.sku)
    BY <1>3, <1>6
  <2> QED
    BY <1>10, <2>1, AlertedMove
<1> QED
  BY <1>10, <1>11 DEF row, left, got, sku, Received, RowIn

LEMMA ReceiveKeeps ==
  ASSUME NEW clean, NEW calm, Nested(clean, calm),
         NEW w, NEW back, Sound(w, back, clean, calm), Pointed(w, back), NEW p, Plain(p),
         NEW item \in ItemsIn, item.batch \notin Rows(w),
         NEW v, v = ReceiveItem(w, p, item)
  PROVE  Sound(v, back, clean, calm) /\ Pointed(v, back)
<1> DEFINE bt == item.batch
           sku == SkuOf[item.batch]
           row == RowIn(item)
<1>1. /\ w \in Warehouses /\ FileFits(w, clean, calm) /\ ShelvesFit(w, calm)
      /\ BatchesFit(w, back, clean) /\ p \in Orders
  BY DEF Sound, Plain
<1>2. /\ Moved(w, v, p, row)
      /\ v.left = [w.left EXCEPT ![bt] = item.quantity] /\ v.got = [w.got EXCEPT ![bt] = item.quantity]
  BY <1>1, ReceiveIs DEF Received
<1>3. /\ bt \in Batches /\ item.quantity \in Nat /\ sku \in Skus /\ ~(w.got[bt] > 0)
      /\ sku = SkuOf[bt]
  BY StockroomAssumption DEF Rows, ItemsIn
<1>4. row \in MoveRows /\ row.sku = sku /\ row.change = item.quantity /\ row.taken = NoBatchUsed
      /\ row.type = "restock"
  <2>1. item.quantity \in Int
    BY <1>3
  <2> QED
    BY <1>3, <2>1, NoneUsed, RowsAre DEF RowIn
<1> HIDE DEF row, sku, bt
<1>5. /\ w.left \in [Batches -> Nat] /\ w.got \in [Batches -> Nat] /\ w.stock \in [Skus -> Nat]
      /\ v \in Warehouses /\ v.stock = [w.stock EXCEPT ![row.sku] = @ + row.change]
  BY <1>1, <1>2 DEF Warehouses, Moved
<1>6. FileFits(v, clean, calm)
  <2>1. RowFits(row, clean, calm)
    BY <1>4, PlainRowFits
  <2> QED
    BY <1>1, <1>2, <2>1, FilesFit
<1>7. sku \in clean => w.left[bt] = 0 /\ Held(w, back, bt) = 0
  BY <1>3, EmptyBatch
<1>8. ShelvesFit(v, calm)
  <2> SUFFICES ASSUME NEW s \in calm PROVE Total!Sum(v.left, OwnBatches(s)) = v.stock[s]
    BY DEF ShelvesFit
  <2>1. s \in clean /\ s \in Skus
    BY DEF Nested
  <2>2. OwnBatches(s) \in SUBSET Batches /\ \A b \in OwnBatches(s) : SkuOf[b] = s
    BY OwnAre
  <2>3. Total!Sum(w.left, OwnBatches(s)) = w.stock[s] /\ w.stock[s] \in Nat
    BY <1>1, <1>5, <2>1 DEF ShelvesFit
  <2>4. CASE s = sku
    <3>1. bt \in OwnBatches(s)
      BY <1>3, <2>4 DEF OwnBatches
    <3>2. Total!Sum(v.left, OwnBatches(s)) = Total!Sum(w.left, OwnBatches(s)) + item.quantity - w.left[bt]
      BY <1>2, <1>3, <1>5, <2>2, <3>1, TotalChange
    <3>3. v.stock[s] = w.stock[s] + item.quantity
      BY <1>4, <1>5, <2>1, <2>4
    <3>4. w.left[bt] = 0
      BY <1>7, <2>1, <2>4
    <3> QED
      BY <1>3, <2>3, <3>2, <3>3, <3>4
  <2>5. CASE s # sku
    <3>1. \A b \in OwnBatches(s) : v.left[b] = w.left[b]
      BY <1>2, <1>3, <1>5, <2>2, <2>5
    <3>2. Total!Sum(v.left, OwnBatches(s)) = Total!Sum(w.left, OwnBatches(s))
      BY <2>2, <3>1, TotalSame
    <3>3. v.stock[s] = w.stock[s]
      BY <1>4, <1>5, <2>1, <2>5
    <3> QED
      BY <2>3, <3>2, <3>3
  <2> QED
    BY <2>4, <2>5
<1>9. Pointed(v, back) /\ \A b \in Batches : Held(v, back, b) = Held(w, back, b)
  BY <1>1, <1>2, PlainHeld
<1>10. BatchesFit(v, back, clean)
  <2> SUFFICES ASSUME NEW b \in Batches, SkuOf[b] \in clean
               PROVE  v.left[b] + Held(v, back, b) <= v.got[b]
    BY DEF BatchesFit
  <2>1. w.left[b] + Held(w, back, b) <= w.got[b]
    BY <1>1 DEF BatchesFit
  <2>2. CASE b = bt
    <3>1. Held(w, back, b) = 0
      BY <1>3, <1>7, <2>2
    <3>2. v.left[b] = item.quantity /\ v.got[b] = item.quantity
      BY <1>2, <1>3, <1>5, <2>2
    <3> QED
      BY <1>3, <1>9, <3>1, <3>2
  <2>3. CASE b # bt
    <3>1. v.left[b] = w.left[b] /\ v.got[b] = w.got[b]
      BY <1>2, <1>3, <1>5, <2>3
    <3> QED
      BY <1>9, <2>1, <3>1
  <2> QED
    BY <2>2, <2>3
<1>11. Sound(v, back, clean, calm)
  BY <1>5, <1>6, <1>8, <1>10 DEF Sound
<1> QED
  BY <1>9, <1>11
-----------------------------------------------------------------------------
(* What a customer's order, or a return, gives back *)
LEMMA LeastOne == Min({1}) = 1
<1>1. Min({1, 1}) = 1
  BY LeastOf
<1>2. {1, 1} = {1}
  OBVIOUS
<1> QED
  BY <1>1, <1>2

\* v is w after the order of the one sale of o was cancelled.
Cancels(w, v, o, sale) ==
    /\ w \in Warehouses /\ o \in CustomerOrders
    /\ Len(w.moves[o]) = 1 /\ sale = w.moves[o][1]
    /\ sale.type = "sale" /\ - sale.change \in Nat
    /\ v = Restore(w, o, sale.sku, - sale.change, "cancel_restore")

LEMMA OnlySale ==
  ASSUME NEW w, NEW v, NEW o, NEW sale, Cancels(w, v, o, sale)
  PROVE  /\ sale \in MoveRows /\ 1 \in DOMAIN w.moves[o] /\ o \in Orders
         /\ Sales(w, o, sale.sku) = {1}
<1> USE DEF Cancels
<1>1. o \in Orders /\ w.moves[o] \in Seq(MoveRows)
  BY DocumentsAre DEF Warehouses
<1>2. DOMAIN w.moves[o] = {1}
  <2>1. DOMAIN w.moves[o] = 1..1
    BY <1>1
  <2> QED
    BY <2>1
<1>3. sale \in MoveRows
  BY <1>1, <1>2
<1>4. 1 \in Sales(w, o, sale.sku)
  BY <1>2 DEF Sales, ProductOf
<1>5. Sales(w, o, sale.sku) \subseteq {1}
  BY <1>2 DEF Sales
<1> QED
  BY <1>1, <1>2, <1>3, <1>4, <1>5

LEMMA RestoreIs ==
  ASSUME NEW w, NEW v, NEW o, NEW sale, Cancels(w, v, o, sale)
  PROVE  /\ Moved(w, v, o, Row(sale.sku, "cancel_restore", - sale.change, NoBatchUsed))
         /\ v.got = w.got /\ \A b \in Batches : v.left[b] = w.left[b] + sale.taken[b]
         /\ Told(w, v)
<1> DEFINE sku == sale.sku
           quantity == - sale.change
           row == Row(sku, "cancel_restore", quantity, NoBatchUsed)
           left == [b \in Batches |-> w.left[b] + sale.taken[b]]
           u == [MoveStock(w, o, sku, quantity, "cancel_restore")
                   EXCEPT !.left = [b \in Batches |-> @[b] + sale.taken[b]]]
<1>1. w \in Warehouses /\ sale \in MoveRows /\ o \in Orders /\ Sales(w, o, sku) = {1}
      /\ quantity \in Nat
  BY OnlySale DEF Cancels
<1>2. w.stock \in [Skus -> Nat] /\ w.left \in [Batches -> Nat] /\ w.got \in [Batches -> Nat]
  BY <1>1 DEF Warehouses
<1>3. sku \in Skus /\ sale.taken \in [Batches -> Nat]
  BY <1>1 DEF MoveRows
<1>4. row \in MoveRows /\ row.sku = sku /\ row.change = quantity
  <2>1. quantity \in Int
    BY <1>1
  <2> QED
    BY <1>3, <2>1, NoneUsed, RowsAre
<1>5. left \in [Batches -> Nat]
  BY <1>2, <1>3
<1>6. v = Alert(u, sku)
  <2>1. w.moves[o][Min({1})].taken = sale.taken
    BY LeastOne DEF Cancels
  <2>2. v = Restore(w, o, sku, quantity, "cancel_restore")
    BY DEF Cancels
  <2>3. {1} # {}
    OBVIOUS
  <2> QED
    BY <1>1, <2>1, <2>2, <2>3 DEF Restore
<1>7. u = [w EXCEPT !.stock[sku] = @ + quantity, !.left = left,
                    !.moves = [w.moves EXCEPT ![o] = Append(@, row)]]
  BY <1>1 DEF MoveStock, Record, Row, Warehouses
<1>8. \A b \in Batches : left[b] = w.left[b] + sale.taken[b]
  OBVIOUS
<1> HIDE DEF u, row, left, sku, quantity
<1>9. [w.stock EXCEPT ![sku] = @ + quantity] = [w.stock EXCEPT ![row.sku] = @ + row.change]
  BY <1>2, <1>4
<1>10. Writes(w, u, o, row, left, w.got)
  BY <1>1, <1>7, <1>9 DEF Writes, Warehouses
<1>11. w.stock[row.sku] + row.change \in Nat
  BY <1>1, <1>2, <1>3, <1>4
<1>12. Moved(w, u, o, row) /\ u.left = left /\ u.got = w.got
  BY <1>1, <1>2, <1>4, <1>5, <1>10, <1>11, Written
<1>13. Moved(w, v, o, row) /\ Told(w, v) /\ v.left = u.left /\ v.got = u.got
  <2>1. v = Alert(u, row.sku)
    BY <1>4, <1>6
  <2> QED
    BY <1>1, <1>12, <2>1, AlertedMove
<1> QED
  BY <1>8, <1>12, <1>13 DEF row, sku, quantity

LEMMA RestoreKeeps ==
  ASSUME NEW clean, NEW calm, Nested(clean, calm),
         NEW w, NEW back, Sound(w, back, clean, calm), Pointed(w, back),
         NEW v, NEW o, NEW sale, Cancels(w, v, o, sale)
  PROVE  Sound(v, back, clean, calm) /\ Pointed(v, back)
<1> DEFINE row == Row(sale.sku, "cancel_restore", - sale.change, NoBatchUsed)
<1>1. /\ w \in Warehouses /\ sale \in MoveRows /\ 1 \in DOMAIN w.moves[o] /\ o \in Orders
      /\ o \in CustomerOrders /\ Len(w.moves[o]) = 1 /\ sale = w.moves[o][1] /\ sale.type = "sale"
      /\ FileFits(w, clean, calm) /\ - sale.change \in Nat
  BY OnlySale DEF Cancels, Sound
<1>2. /\ Moved(w, v, o, row) /\ v.got = w.got
      /\ \A b \in Batches : v.left[b] = w.left[b] + sale.taken[b]
  BY RestoreIs
<1>3. /\ sale.sku \in Skus /\ sale.change \in Int /\ sale.taken \in [Batches -> Nat]
  BY <1>1 DEF MoveRows
<1>4. row \in MoveRows /\ row.sku = sale.sku /\ row.change = - sale.change /\ row.taken = NoBatchUsed
      /\ row.type = "cancel_restore"
  <2>1. - sale.change \in Int
    BY <1>3
  <2> QED
    BY <1>3, <2>1, NoneUsed, RowsAre
<1> HIDE DEF row
<1>5. RowFits(sale, clean, calm)
  BY <1>1 DEF FileFits
<1>6. FileFits(v, clean, calm)
  <2>1. RowFits(row, clean, calm)
    BY <1>4, PlainRowFits
  <2> QED
    BY <1>1, <1>2, <2>1, FilesFit
<1>7. v \in Warehouses /\ v.stock = [w.stock EXCEPT ![sale.sku] = @ - sale.change]
  <2>1. v \in Warehouses /\ v.stock = [w.stock EXCEPT ![row.sku] = @ + row.change]
        /\ w.stock \in [Skus -> Nat]
    BY <1>1, <1>2 DEF Moved, Warehouses
  <2>2. w.stock[sale.sku] + (- sale.change) = w.stock[sale.sku] - sale.change
    BY <1>3, <2>1
  <2> QED
    BY <1>3, <1>4, <2>1, <2>2
<1>8. /\ \A p \in Orders \ {o} : v.moves[p] = w.moves[p]
      /\ v.moves[o] = Append(w.moves[o], row) /\ w.moves[o] \in Seq(MoveRows)
  BY <1>1, <1>2, MovedRows
<1>9. Pointed(v, back)
  <2>1. \A r \in SupplierReturns : v.moves[r] = w.moves[r]
    BY <1>1, <1>8, DocumentsAre
  <2> QED
    BY <2>1 DEF Pointed
<1>10. OnlyDoc(w, v, back, back, o)
  BY <1>1, <1>7, <1>8, <1>9 DEF OnlyDoc
<1>11. ASSUME NEW b \in Batches
       PROVE  /\ v.left[b] = w.left[b] + sale.taken[b]
              /\ Held(w, back, b) \in Nat /\ Held(v, back, b) \in Nat
              /\ Held(v, back, b) + sale.taken[b] <= Held(w, back, b)
  <2>1. /\ Held(v, back, b) = Held(w, back, b) + HeldBy(v.moves, back, o, b) - HeldBy(w.moves, back, o, b)
        /\ Held(v, back, b) \in Nat /\ Held(w, back, b) \in Nat
    BY <1>1, <1>10, HeldChange
  <2>2. HeldBy(v.moves, back, o, b) = 0
    <3>1. HeldBy(v.moves, back, o, b) = IF Len(v.moves[o]) = 1 THEN v.moves[o][1].taken[b] ELSE 0
      BY <1>1, HeldBySale
    <3>2. Len(v.moves[o]) = 2
      BY <1>1, <1>4, <1>8
    <3> QED
      BY <3>1, <3>2
  <2>3. HeldBy(w.moves, back, o, b) = sale.taken[b]
    <3>1. HeldBy(w.moves, back, o, b) = IF Len(w.moves[o]) = 1 THEN w.moves[o][1].taken[b] ELSE 0
      BY <1>1, HeldBySale
    <3> QED
      BY <1>1, <3>1
  <2>4. sale.taken[b] \in Nat
    BY <1>3
  <2> QED
    BY <1>2, <2>1, <2>2, <2>3, <2>4
<1>12. Sound(v, back, clean, calm)
  BY <1>1, <1>2, <1>5, <1>6, <1>7, <1>11, GiveKeeps
<1> QED
  BY <1>9, <1>12
-----------------------------------------------------------------------------
(* The items of a return *)
Pointed1(items, i, move) == [items EXCEPT ![i].move = move]

Repointed(items, new, i, move) ==
    /\ items \in Seq(ItemRows) /\ i \in DOMAIN items /\ move \in Nat
    /\ new = Pointed1(items, i, move)

LEMMA ItemsAre ==
  ASSUME NEW items, NEW i, NEW move, NEW new, Repointed(items, new, i, move)
  PROVE  /\ new \in Seq(ItemRows) /\ DOMAIN new = DOMAIN items
         /\ new[i].sku = items[i].sku /\ new[i].batch = items[i].batch
         /\ new[i].quantity = items[i].quantity /\ new[i].move = move
         /\ \A j \in DOMAIN items \ {i} : new[j] = items[j]
         /\ \A j \in DOMAIN items : items[j] \in ItemRows
<1> USE DEF Repointed
<1>1. \A j \in DOMAIN items : items[j] \in ItemRows
  OBVIOUS
<1>2. DOMAIN items = 1..Len(items) /\ Len(items) \in Nat /\ items[i] \in ItemRows
  BY <1>1
<1>3. DOMAIN new = DOMAIN items /\ new[i] = [items[i] EXCEPT !.move = move]
      /\ \A j \in DOMAIN items \ {i} : new[j] = items[j]
  BY DEF Pointed1
<1>4. /\ new[i] \in ItemRows /\ new[i].sku = items[i].sku /\ new[i].batch = items[i].batch
      /\ new[i].quantity = items[i].quantity /\ new[i].move = move
  BY <1>2, <1>3 DEF ItemRows
<1>5. new \in Seq(ItemRows)
  <2>1. \A j \in DOMAIN new : new[j] \in ItemRows
    BY <1>1, <1>3, <1>4
  <2>2. new = [j \in 1..Len(items) |-> new[j]]
    BY <1>2, <1>3 DEF Pointed1
  <2> QED
    BY <1>2, <1>3, <2>1, <2>2
<1> QED
  BY <1>1, <1>3, <1>4, <1>5

\* Another movement for one item: its part changes, and the others' do not.
LEMMA PartsChange ==
  ASSUME NEW file \in Seq(MoveRows), NEW more \in Seq(MoveRows), NEW items \in Seq(ItemRows),
         Pointing(file, items), DOMAIN file \subseteq DOMAIN more,
         \A k \in DOMAIN file : more[k] = file[k],
         NEW i \in DOMAIN items, NEW move \in DOMAIN more \cup {0},
         NEW new, new = Pointed1(items, i, move), NEW b \in Batches
  PROVE  /\ Pointing(more, new)
         /\ PartsOf(more, new, b) = PartsOf(file, items, b) + Part(more, new, b, i)
                                       - Part(file, items, b, i)
         /\ Part(more, new, b, i) \in Nat /\ Part(file, items, b, i) \in Nat
         /\ PartsOf(more, new, b) \in Nat /\ PartsOf(file, items, b) \in Nat
<1> DEFINE c == [file |-> file, items |-> items, batch |-> b]
           e == [file |-> more, items |-> new, batch |-> b]
<1>0. Repointed(items, new, i, move)
  <2>1. move \in Nat
    OBVIOUS
  <2> QED
    BY <2>1 DEF Repointed
<1>1. /\ new \in Seq(ItemRows) /\ DOMAIN new = DOMAIN items
      /\ new[i].move = move /\ \A j \in DOMAIN items \ {i} : new[j] = items[j]
  BY <1>0, ItemsAre
<1>2. Pointing(more, new)
  BY <1>1 DEF Pointing
<1>3. \A j \in DOMAIN items \ {i} : PartAt(c, j) = PartAt(e, j)
  BY <1>1 DEF PartAt, Pointing
<1>4. /\ Parts!Summable(c, DOMAIN items) /\ PartAt(c, i) \in Nat
      /\ PartsOf(file, items, b) = Parts!Sum(c, DOMAIN items) /\ PartsOf(file, items, b) \in Nat
      /\ Part(file, items, b, i) = PartAt(c, i)
  BY PartNat DEF PartsOf, Part
<1>5. /\ Parts!Summable(e, DOMAIN new) /\ PartAt(e, i) \in Nat
      /\ PartsOf(more, new, b) = Parts!Sum(e, DOMAIN new) /\ PartsOf(more, new, b) \in Nat
      /\ Part(more, new, b, i) = PartAt(e, i)
  <2>1. i \in DOMAIN new
    BY <1>1
  <2> QED
    BY <1>1, <1>2, <2>1, PartNat DEF PartsOf, Part
<1> HIDE DEF c, e
<1>6. Parts!Sum(e, DOMAIN items) = Parts!Sum(c, DOMAIN items) + PartAt(e, i) - PartAt(c, i)
  <2>1. Parts!Summable(e, DOMAIN items) /\ i \in DOMAIN items
    BY <1>1, <1>5
  <2> QED
    BY ONLY <1>3, <1>4, <2>1, AllAdd, Parts!SumChange
<1> QED
  BY <1>1, <1>2, <1>4, <1>5, <1>6

\* back with other items for r.
Items(back, r, items) == [back EXCEPT ![r].items = items]
LEMMA BackAre ==
  ASSUME NEW back \in [SupplierReturns -> ReturnRows], NEW r \in SupplierReturns,
         NEW items \in Seq(ItemRows), NEW more, more = Items(back, r, items)
  PROVE  /\ more \in [SupplierReturns -> ReturnRows]
         /\ more[r].items = items /\ more[r].status = back[r].status
         /\ \A s \in SupplierReturns \ {r} : more[s] = back[s]
<1>1. back[r] \in ReturnRows
  OBVIOUS
<1>2. more[r] = [back[r] EXCEPT !.items = items] /\ \A s \in SupplierReturns \ {r} : more[s] = back[s]
  BY DEF Items
<1>3. more[r] \in ReturnRows /\ more[r].items = items /\ more[r].status = back[r].status
  BY <1>1, <1>2 DEF ReturnRows
<1>4. more \in [SupplierReturns -> ReturnRows]
  BY <1>2, <1>3 DEF Items
<1> QED
  BY <1>2, <1>3, <1>4

\* The return r, and what it may still give back.
Undoable(w, back, r, items) ==
    /\ w \in Warehouses /\ Pointed(w, back)
    /\ r \in SupplierReturns /\ items = back[r].items /\ back[r].status # "cancelled"
LEMMA UndoableIs ==
  ASSUME NEW w, NEW back, NEW r, NEW items, Undoable(w, back, r, items)
  PROVE  /\ items \in Seq(ItemRows) /\ Pointing(w.moves[r], items) /\ r \in Orders
         /\ w.moves[r] \in Seq(MoveRows)
         /\ \A b \in Batches : HeldBy(w.moves, back, r, b) = PartsOf(w.moves[r], items, b)
<1> USE DEF Undoable
<1>1. r \in Orders /\ back[r] \in ReturnRows
  BY DocumentsAre DEF Pointed
<1>2. items \in Seq(ItemRows) /\ w.moves[r] \in Seq(MoveRows)
  BY <1>1 DEF ReturnRows, Warehouses
<1>3. Pointing(w.moves[r], items)
  BY DEF Pointed
<1>4. \A b \in Batches : HeldBy(w.moves, back, r, b) = PartsOf(w.moves[r], items, b)
  <2> SUFFICES ASSUME NEW b \in Batches
               PROVE  HeldBy(w.moves, back, r, b) = PartsOf(w.moves[r], items, b)
    OBVIOUS
  <2>1. HeldBy(w.moves, back, r, b)
          = IF back[r].status # "cancelled" THEN PartsOf(w.moves[r], back[r].items, b) ELSE 0
    BY DocumentsAre DEF HeldBy, PartsOf
  <2> QED
    BY <2>1
<1> QED
  BY <1>1, <1>2, <1>3, <1>4

\* approveSupplierReturn: an item written off, and its movement noted.
LEMMA ApproveItemKeeps ==
  ASSUME NEW clean, NEW calm, Nested(clean, calm),
         NEW w, NEW back, Sound(w, back, clean, calm),
         NEW r, NEW items, Undoable(w, back, r, items), NEW i \in DOMAIN items,
         NEW v, NEW taken,
         WritesOff(w, v, r, items[i].sku, items[i].batch, items[i].quantity, "supplier_return", taken),
         Short(w, items[i].sku, items[i].batch, items[i].quantity) \cap clean = {},
         NEW more, more = Items(back, r, Pointed1(items, i, Len(w.moves[r]) + 1))
  PROVE  Sound(v, more, clean, calm) /\ Pointed(v, more)
<1> DEFINE file == w.moves[r]
           new == Pointed1(items, i, Len(file) + 1)
           row == Row(items[i].sku, "supplier_return", - items[i].quantity, taken)
<1>1. /\ items \in Seq(ItemRows) /\ Pointing(file, items) /\ r \in Orders /\ file \in Seq(MoveRows)
      /\ \A b \in Batches : HeldBy(w.moves, back, r, b) = PartsOf(file, items, b)
  BY UndoableIs
<1>2. /\ w \in Warehouses /\ Pointed(w, back) /\ r \in SupplierReturns
      /\ back \in [SupplierReturns -> ReturnRows] /\ back[r].status # "cancelled"
  BY DEF Undoable, Pointed
<1>3. Moved(w, v, r, row) /\ taken \in [Batches -> Nat]
  BY WriteOffIs
<1>4. /\ \A p \in Orders \ {r} : v.moves[p] = w.moves[p]
      /\ v.moves[r] = Append(file, row) /\ row \in MoveRows
  <2> HIDE DEF row
  <2>1. /\ \A p \in Orders \ {r} : v.moves[p] = w.moves[p]
        /\ w.moves[r] \in Seq(MoveRows) /\ row \in MoveRows
        /\ v.moves[r] = Append(w.moves[r], row)
    BY <1>1, <1>2, <1>3, MovedRows
  <2> QED
    BY <2>1
<1>5. row.taken = taken
  BY DEF Row
<1> DEFINE a == v.moves[r]
<1>6. /\ a \in Seq(MoveRows) /\ DOMAIN a = DOMAIN file \cup {Len(file) + 1}
      /\ \A k \in DOMAIN file : a[k] = file[k]
      /\ a[Len(file) + 1] = row /\ Len(file) \in Nat
  BY <1>1, <1>4, Appended
<1>7. new \in Seq(ItemRows) /\ new[i].move = Len(file) + 1
  <2>1. Repointed(items, new, i, Len(file) + 1)
    BY <1>1, <1>6 DEF Repointed
  <2> HIDE DEF new, file
  <2> QED
    BY <2>1, ItemsAre
<1>8. /\ more \in [SupplierReturns -> ReturnRows]
      /\ more[r].items = new /\ more[r].status = back[r].status
      /\ \A s \in SupplierReturns \ {r} : more[s] = back[s]
  <2>1. more = Items(back, r, new)
    OBVIOUS
  <2> HIDE DEF new
  <2> QED
    BY <1>2, <1>7, <2>1, BackAre
<1> HIDE DEF new, row, file
<1>9. ASSUME NEW b \in Batches
      PROVE  Pointing(a, new) /\ PartsOf(a, new, b) <= PartsOf(file, items, b) + taken[b]
  <2>1. /\ Pointing(a, new)
        /\ PartsOf(a, new, b) = PartsOf(file, items, b) + Part(a, new, b, i) - Part(file, items, b, i)
        /\ Part(a, new, b, i) \in Nat /\ Part(file, items, b, i) \in Nat
        /\ PartsOf(a, new, b) \in Nat /\ PartsOf(file, items, b) \in Nat
    <3>1. DOMAIN file \subseteq DOMAIN a /\ Len(file) + 1 \in DOMAIN a \cup {0}
      BY <1>6
    <3>2. new = Pointed1(items, i, Len(file) + 1)
      BY DEF new
    <3> HIDE DEF a
    <3> QED
      BY <1>1, <1>6, <3>1, <3>2, PartsChange
  <2>2. Part(a, new, b, i) = taken[b]
    BY <1>5, <1>6, <1>7 DEF Part, PartAt
  <2> QED
    BY <2>1, <2>2, <1>3
<1>10. Pointing(a, new)
  <2>1. CASE Batches = {}
    <3>1. \A j \in DOMAIN items : new[j].move \in DOMAIN a \cup {0}
      <4>1. \A j \in DOMAIN items \ {i} : new[j] = items[j]
        BY DEF new, Pointed1
      <4> QED
        BY <1>1, <1>6, <1>7, <4>1 DEF Pointing
    <3>2. DOMAIN new = DOMAIN items
      BY DEF new, Pointed1
    <3> QED
      BY <3>1, <3>2 DEF Pointing
  <2>2. CASE Batches # {}
    BY <1>9, <2>2
  <2> QED
    BY <2>1, <2>2
<1>11. Pointed(v, more)
  <2>1. \A s \in SupplierReturns \ {r} : v.moves[s] = w.moves[s] /\ more[s] = back[s]
    BY <1>4, <1>8, DocumentsAre
  <2> QED
    BY <1>2, <1>8, <1>10, <2>1 DEF Pointed
<1>12. v \in Warehouses
  BY <1>3 DEF Moved
<1>13. OnlyDoc(w, v, back, more, r)
  BY <1>2, <1>4, <1>8, <1>11, <1>12 DEF OnlyDoc
<1>14. Undoable(v, more, r, new)
  BY <1>2, <1>8, <1>11, <1>12 DEF Undoable
<1>15. ASSUME NEW b \in Batches
       PROVE  HeldBy(v.moves, more, r, b) <= HeldBy(w.moves, back, r, b) + taken[b]
  <2>1. HeldBy(v.moves, more, r, b) = PartsOf(a, new, b)
    BY <1>14, UndoableIs
  <2> QED
    BY <1>1, <1>9, <2>1
<1>16. Sound(v, more, clean, calm)
  BY <1>2, <1>13, <1>15, WriteOffKeeps
<1> QED
  BY <1>11, <1>16

\* updateSupplierReturnStatus: what the movement of an item took, back where it was.
Filled(file, item) ==
    item.move # 0 => /\ item.move \in DOMAIN file
                     /\ file[item.move].sku = item.sku
                     /\ file[item.move].type = "supplier_return"
                     /\ file[item.move].change = - item.quantity

\* v is w with the item i of r put back.
PutsBack(w, v, back, r, items, i) ==
    /\ Undoable(w, back, r, items) /\ i \in DOMAIN items
    /\ Filled(w.moves[r], items[i])
    /\ v = PutBack(w, r, items[i])
GivenBack(item, sku) == IF item.move # 0 /\ item.sku = sku THEN item.quantity ELSE 0

GoesBack(w, v, item, taken) ==
    /\ v.stock = [w.stock EXCEPT ![item.sku] = @ + item.quantity]
    /\ \A b \in Batches : v.left[b] = w.left[b] + taken[b]

LEMMA PutBackIs ==
  ASSUME NEW w, NEW v, NEW back, NEW r, NEW items, NEW i, PutsBack(w, v, back, r, items, i)
  PROVE  /\ v \in Warehouses /\ v.moves = w.moves /\ v.got = w.got /\ Told(w, v)
         /\ \A sku \in Skus : v.stock[sku] = w.stock[sku] + GivenBack(items[i], sku)
         /\ items[i].move = 0 => v = w
         /\ items[i].move # 0 => GoesBack(w, v, items[i], w.moves[r][items[i].move].taken)
<1> DEFINE item == items[i]
           row == w.moves[r][item.move]
<1>1. /\ items \in Seq(ItemRows) /\ r \in Orders /\ w.moves[r] \in Seq(MoveRows)
      /\ w \in Warehouses /\ i \in DOMAIN items /\ v = PutBack(w, r, item)
  BY UndoableIs DEF PutsBack, Undoable
<1>2. item \in ItemRows
  BY <1>1
<1>3. w.stock \in [Skus -> Nat] /\ w.left \in [Batches -> Nat] /\ w.waiting \subseteq Skus
  BY <1>1 DEF Warehouses
<1>4. item.sku \in Skus /\ item.quantity \in Nat
  BY <1>2 DEF ItemRows
<1>5. CASE item.move = 0
  <2>1. v = w
    BY <1>1, <1>5 DEF PutBack
  <2>2. Told(w, w)
    BY <1>3 DEF Told
  <2>3. \A sku \in Skus : w.stock[sku] = w.stock[sku] + GivenBack(item, sku)
    BY <1>3, <1>5 DEF GivenBack
  <2> QED
    BY <1>1, <1>5, <2>1, <2>2, <2>3
<1>6. CASE item.move # 0
  <2> DEFINE stock == [w.stock EXCEPT ![item.sku] = @ + item.quantity]
             left == [b \in Batches |-> w.left[b] + row.taken[b]]
             u == [w EXCEPT !.stock = stock, !.left = left]
  <2>1. item.move \in DOMAIN w.moves[r]
    BY <1>6 DEF PutsBack, Filled
  <2>2. \A b \in Batches : row.taken[b] \in Nat
    BY <1>1, <2>1, TakenIsNat
  <2>3. v = Alert(u, item.sku)
    BY <1>1, <1>3, <1>6 DEF PutBack
  <2>4. stock \in [Skus -> Nat] /\ left \in [Batches -> Nat]
    BY <1>3, <1>4, <2>2
  <2>5. \A b \in Batches : left[b] = w.left[b] + row.taken[b]
    OBVIOUS
  <2>6. \A sku \in Skus : stock[sku] = w.stock[sku] + GivenBack(item, sku)
    BY <1>3, <1>4, <1>6 DEF GivenBack
  <2>7. stock = [w.stock EXCEPT ![item.sku] = @ + item.quantity] /\ item.quantity \in Int
    BY <1>4
  <2> HIDE DEF stock, left
  <2>8. u \in Warehouses /\ u.stock = stock /\ u.left = left /\ u.moves = w.moves
        /\ u.got = w.got /\ u.waiting = w.waiting
    BY <1>1, <2>4 DEF Warehouses
  <2> HIDE DEF u, item
  <2>9. /\ v \in Warehouses /\ v.stock = u.stock /\ v.moves = u.moves
        /\ v.left = u.left /\ v.got = u.got
    BY <1>4, <2>3, <2>8, AlertTells
  <2>10. Told(w, v)
    <3>1. u.stock = [w.stock EXCEPT ![item.sku] = @ + item.quantity] /\ u.waiting \subseteq w.waiting
      BY <2>7, <2>8
    <3> QED
      BY <1>1, <1>4, <2>3, <2>7, <2>8, <3>1, AlertTold
  <2> QED
    BY <1>6, <2>5, <2>6, <2>7, <2>8, <2>9, <2>10 DEF item, GoesBack
<1> QED
  BY <1>5, <1>6

LEMMA PutBackKeeps ==
  ASSUME NEW clean, NEW calm, Nested(clean, calm),
         NEW w, NEW back, Sound(w, back, clean, calm),
         NEW v, NEW r, NEW items, NEW i, PutsBack(w, v, back, r, items, i),
         NEW more, more = Items(back, r, Pointed1(items, i, 0))
  PROVE  Sound(v, more, clean, calm) /\ Undoable(v, more, r, Pointed1(items, i, 0))
<1> DEFINE file == w.moves[r]
           new == Pointed1(items, i, 0)
           row == file[items[i].move]
<1>1. /\ Undoable(w, back, r, items) /\ i \in DOMAIN items /\ Filled(file, items[i])
      /\ w \in Warehouses /\ Pointed(w, back) /\ r \in SupplierReturns
      /\ back \in [SupplierReturns -> ReturnRows] /\ back[r].status # "cancelled"
  BY DEF PutsBack, Undoable, Pointed
<1>2. /\ items \in Seq(ItemRows) /\ Pointing(file, items) /\ r \in Orders /\ file \in Seq(MoveRows)
      /\ \A b \in Batches : HeldBy(w.moves, back, r, b) = PartsOf(file, items, b)
  BY <1>1, UndoableIs
<1>3. v \in Warehouses /\ v.moves = w.moves /\ v.got = w.got
  BY PutBackIs
<1>4. new \in Seq(ItemRows) /\ DOMAIN new = DOMAIN items /\ new[i].move = 0
      /\ \A j \in DOMAIN items \ {i} : new[j] = items[j]
  <2>1. Repointed(items, new, i, 0)
    BY <1>1, <1>2 DEF Repointed
  <2> HIDE DEF new
  <2> QED
    BY <2>1, ItemsAre
<1>5. /\ more \in [SupplierReturns -> ReturnRows]
      /\ more[r].items = new /\ more[r].status = back[r].status
      /\ \A s \in SupplierReturns \ {r} : more[s] = back[s]
  <2>1. more = Items(back, r, new)
    OBVIOUS
  <2> HIDE DEF new
  <2> QED
    BY <1>1, <1>4, <2>1, BackAre
<1>6. Pointing(file, new)
  BY <1>2, <1>4 DEF Pointing
<1> HIDE DEF file, row
<1>7. ASSUME NEW b \in Batches
      PROVE  PartsOf(file, new, b) = PartsOf(file, items, b) - Part(file, items, b, i)
             /\ Part(file, items, b, i) \in Nat /\ PartsOf(file, new, b) \in Nat
             /\ PartsOf(file, items, b) \in Nat
  <2>1. /\ PartsOf(file, new, b) = PartsOf(file, items, b) + Part(file, new, b, i) - Part(file, items, b, i)
        /\ Part(file, new, b, i) \in Nat /\ Part(file, items, b, i) \in Nat
        /\ PartsOf(file, new, b) \in Nat /\ PartsOf(file, items, b) \in Nat
    <3>1. DOMAIN file \subseteq DOMAIN file /\ 0 \in DOMAIN file \cup {0}
          /\ \A k \in DOMAIN file : file[k] = file[k]
      OBVIOUS
    <3>2. new = Pointed1(items, i, 0)
      OBVIOUS
    <3> HIDE DEF new
    <3> QED
      BY <1>1, <1>2, <3>1, <3>2, PartsChange
  <2>2. Part(file, new, b, i) = 0
    BY <1>4 DEF Part, PartAt
  <2> QED
    BY <2>1, <2>2
<1> HIDE DEF new
<1>8. Pointed(v, more)
  BY <1>1, <1>3, <1>5, <1>6 DEF Pointed, file
<1>9. Undoable(v, more, r, new)
  BY <1>1, <1>3, <1>5, <1>8 DEF Undoable
<1>10. OnlyDoc(w, v, back, more, r)
  BY <1>1, <1>3, <1>5, <1>8 DEF OnlyDoc
<1>11. ASSUME NEW b \in Batches
       PROVE  /\ Held(w, back, b) \in Nat /\ Held(v, more, b) \in Nat
              /\ Held(v, more, b) = Held(w, back, b) - Part(file, items, b, i)
  <2>1. /\ Held(v, more, b) = Held(w, back, b) + HeldBy(v.moves, more, r, b) - HeldBy(w.moves, back, r, b)
        /\ Held(v, more, b) \in Nat /\ Held(w, back, b) \in Nat
    BY <1>2, <1>10, HeldChange
  <2>2. HeldBy(v.moves, more, r, b) = PartsOf(file, new, b)
    <3>1. HeldBy(v.moves, more, r, b) = PartsOf(v.moves[r], new, b)
      BY <1>9, UndoableIs
    <3> QED
      BY <1>3, <3>1 DEF file
  <2>3. HeldBy(w.moves, back, r, b) = PartsOf(file, items, b)
    BY <1>2
  <2> QED
    BY <1>7, <2>1, <2>2, <2>3
<1>12. CASE items[i].move = 0
  <2>1. v = w
    BY <1>12, PutBackIs
  <2>2. \A b \in Batches : Part(file, items, b, i) = 0
    BY <1>12 DEF Part, PartAt
  <2>3. \A b \in Batches : /\ Held(w, back, b) \in Nat /\ Held(w, more, b) \in Nat
                           /\ Held(w, more, b) <= Held(w, back, b)
    BY <1>11, <2>1, <2>2
  <2>4. Sound(w, more, clean, calm)
    BY <2>3, LessHeldKeeps
  <2> QED
    BY <1>9, <2>1, <2>4 DEF new
<1>13. CASE items[i].move # 0
  <2>1. /\ items[i].move \in DOMAIN file /\ row.sku = items[i].sku
        /\ row.type = "supplier_return" /\ row.change = - items[i].quantity
    BY <1>1, <1>13 DEF Filled, row
  <2>2. row \in MoveRows
    BY <1>2, <2>1 DEF row
  <2>3. /\ v.stock = [w.stock EXCEPT ![items[i].sku] = @ + items[i].quantity]
        /\ \A b \in Batches : v.left[b] = w.left[b] + row.taken[b]
    <3>1. items[i].move # 0 => GoesBack(w, v, items[i], w.moves[r][items[i].move].taken)
      BY PutBackIs
    <3> QED
      BY <1>13, <3>1 DEF row, file, GoesBack
  <2>4. FileFits(w, clean, calm) /\ w.stock \in [Skus -> Nat]
    BY DEF Sound, Warehouses
  <2>5. RowFits(row, clean, calm)
    BY <1>2, <2>1, <2>4 DEF FileFits, file, row
  <2>6. FileFits(v, clean, calm)
    BY <1>3, <2>4 DEF FileFits
  <2>7. v.stock = [w.stock EXCEPT ![row.sku] = @ - row.change]
    <3>1. items[i] \in ItemRows
      BY <1>1, <1>2
    <3>2. items[i].sku \in Skus /\ items[i].quantity \in Nat
      BY <3>1 DEF ItemRows
    <3>3. w.stock[items[i].sku] - row.change = w.stock[items[i].sku] + items[i].quantity
      BY <2>1, <2>4, <3>2
    <3> QED
      BY <2>1, <2>3, <3>3
  <2>8. \A b \in Batches : Part(file, items, b, i) = row.taken[b]
    BY <1>13 DEF Part, PartAt, row
  <2>9. \A b \in Batches :
            /\ v.left[b] = w.left[b] + row.taken[b]
            /\ Held(w, back, b) \in Nat /\ Held(v, more, b) \in Nat
            /\ Held(v, more, b) + row.taken[b] <= Held(w, back, b)
    <3> SUFFICES ASSUME NEW b \in Batches
                 PROVE  /\ Held(w, back, b) \in Nat /\ Held(v, more, b) \in Nat
                        /\ Held(v, more, b) + row.taken[b] <= Held(w, back, b)
      BY <2>3
    <3>1. Part(file, items, b, i) = row.taken[b] /\ Part(file, items, b, i) \in Nat
      BY <1>7, <2>8
    <3> QED
      BY <1>11, <3>1
  <2>10. Sound(v, more, clean, calm)
    BY <1>3, <2>1, <2>2, <2>5, <2>6, <2>7, <2>9, GiveKeeps
  <2> QED
    BY <1>9, <2>10 DEF new
<1> QED
  BY <1>12, <1>13
-----------------------------------------------------------------------------
(* Transactions of several items *)
Greatest(S) == Max(S)
ItemAt(c, i) == c.rows[i]
PutIn(c, item, w) == ReceiveItem(w, c.doc, item)
Receiving == INSTANCE FoldFacts WITH op <- PutIn, map <- ItemAt, choose <- Greatest
Newest(c, item, f) == [f EXCEPT ![SkuOf[item.batch]] = item.batch]
Latest == INSTANCE FoldFacts WITH op <- Newest, map <- ItemAt, choose <- Greatest
Undo(c, item, w) == PutBack(w, c.doc, item)
Undoing == INSTANCE FoldFacts WITH op <- Undo, map <- ItemAt, choose <- Greatest
ApproveItem(c, i, acc) == WriteOffItem(c.doc, c.items, i, acc)
Approving == INSTANCE FoldFacts WITH op <- ApproveItem, map <- ItemAt, choose <- Greatest

LEMMA GreatestIsMax ==
  ASSUME NEW n \in Nat
  PROVE  \A s \in SUBSET (1..n) : s # {} => Greatest(s) \in s /\ \A k \in s : k <= Greatest(s)
<1> SUFFICES ASSUME NEW s \in SUBSET (1..n), s # {}
             PROVE  Greatest(s) \in s /\ \A k \in s : k <= Greatest(s)
  OBVIOUS
<1>1. \E i \in s : \A j \in s : i >= j
  BY Net!GreatestNatural
<1>2. \A j \in s : Max(s) >= j /\ Max(s) \in s
  BY <1>1 DEF Max
<1> QED
  BY <1>2 DEF Greatest

\* A property of 0 that passes to the next number holds up to n.
LEMMA CountingUp ==
  ASSUME NEW n \in Nat, NEW Q, 0 \in Q, \A m \in 1..n : m - 1 \in Q => m \in Q
  PROVE  \A m \in 0..n : m \in Q
<1> DEFINE T == {m \in 0..n : m \notin Q}
<1>1. T = {}
  <2> SUFFICES ASSUME T # {} PROVE FALSE
    OBVIOUS
  <2>1. T \in SUBSET Nat
    OBVIOUS
  <2>2. PICK m \in T : \A k \in T : m <= k
    <3> HIDE DEF T
    <3> QED
      BY <2>1, Net!LeastNatural
  <2>3. m \in 1..n /\ m - 1 \in 0..n /\ ~(m <= m - 1)
    OBVIOUS
  <2> QED
    BY <2>2, <2>3
<1> QED
  BY <1>1

LEMMA ReceivingIs ==
  ASSUME NEW n \in Nat, NEW rows, NEW p, NEW w
  PROVE  \E f : /\ f[0] = w
                /\ \A m \in 1..n : f[m] = ReceiveItem(f[m - 1], p, rows[m])
                /\ f[n] = Receiving!Fold([rows |-> rows, doc |-> p], w, 1..n)
<1> DEFINE c == [rows |-> rows, doc |-> p]
           f == [m \in 0..n |-> Receiving!Fold(c, w, 1..m)]
<1>1. \A s \in SUBSET (1..n) : s # {} => Greatest(s) \in s /\ \A k \in s : k <= Greatest(s)
  BY GreatestIsMax
<1>2. n \in Nat /\ 0 \in 0..n /\ n \in 0..n /\ \A m \in 1..n : m \in 0..n /\ m - 1 \in 0..n
  OBVIOUS
<1>3. \A m, x : PutIn(c, ItemAt(c, m), x) = ReceiveItem(x, p, rows[m])
  BY DEF PutIn, ItemAt
<1> HIDE DEF c
<1>4. /\ Receiving!Fold(c, w, 1..0) = w
      /\ \A m \in 1..n :
            Receiving!Fold(c, w, 1..m) = PutIn(c, ItemAt(c, m), Receiving!Fold(c, w, 1..(m - 1)))
  BY ONLY <1>1, <1>2, Receiving!FoldUpward
<1>5. f[0] = w /\ \A m \in 1..n : f[m] = ReceiveItem(f[m - 1], p, rows[m])
  BY <1>2, <1>3, <1>4
<1>6. f[n] = Receiving!Fold(c, w, 1..n)
  BY <1>2
<1> QED
  BY <1>5, <1>6 DEF c

LEMMA LatestIs ==
  ASSUME NEW n \in Nat, NEW rows, NEW w
  PROVE  \E f : /\ f[0] = w
                /\ \A m \in 1..n : f[m] = [f[m - 1] EXCEPT ![SkuOf[rows[m].batch]] = rows[m].batch]
                /\ f[n] = Latest!Fold([rows |-> rows], w, 1..n)
<1> DEFINE c == [rows |-> rows]
           f == [m \in 0..n |-> Latest!Fold(c, w, 1..m)]
<1>1. \A s \in SUBSET (1..n) : s # {} => Greatest(s) \in s /\ \A k \in s : k <= Greatest(s)
  BY GreatestIsMax
<1>2. n \in Nat /\ 0 \in 0..n /\ n \in 0..n /\ \A m \in 1..n : m \in 0..n /\ m - 1 \in 0..n
  OBVIOUS
<1>3. \A m, x : Newest(c, ItemAt(c, m), x) = [x EXCEPT ![SkuOf[rows[m].batch]] = rows[m].batch]
  BY DEF Newest, ItemAt
<1> HIDE DEF c
<1>4. /\ Latest!Fold(c, w, 1..0) = w
      /\ \A m \in 1..n :
            Latest!Fold(c, w, 1..m) = Newest(c, ItemAt(c, m), Latest!Fold(c, w, 1..(m - 1)))
  BY ONLY <1>1, <1>2, Latest!FoldUpward
<1>5. f[0] = w /\ \A m \in 1..n : f[m] = [f[m - 1] EXCEPT ![SkuOf[rows[m].batch]] = rows[m].batch]
  BY <1>2, <1>3, <1>4
<1>6. f[n] = Latest!Fold(c, w, 1..n)
  BY <1>2
<1> QED
  BY <1>5, <1>6 DEF c

LEMMA UndoingIs ==
  ASSUME NEW n \in Nat, NEW rows, NEW r, NEW w
  PROVE  \E f : /\ f[0] = w
                /\ \A m \in 1..n : f[m] = PutBack(f[m - 1], r, rows[m])
                /\ f[n] = Undoing!Fold([rows |-> rows, doc |-> r], w, 1..n)
<1> DEFINE c == [rows |-> rows, doc |-> r]
           f == [m \in 0..n |-> Undoing!Fold(c, w, 1..m)]
<1>1. \A s \in SUBSET (1..n) : s # {} => Greatest(s) \in s /\ \A k \in s : k <= Greatest(s)
  BY GreatestIsMax
<1>2. n \in Nat /\ 0 \in 0..n /\ n \in 0..n /\ \A m \in 1..n : m \in 0..n /\ m - 1 \in 0..n
  OBVIOUS
<1>3. \A m, x : Undo(c, ItemAt(c, m), x) = PutBack(x, r, rows[m])
  BY DEF Undo, ItemAt
<1> HIDE DEF c
<1>4. /\ Undoing!Fold(c, w, 1..0) = w
      /\ \A m \in 1..n :
            Undoing!Fold(c, w, 1..m) = Undo(c, ItemAt(c, m), Undoing!Fold(c, w, 1..(m - 1)))
  BY ONLY <1>1, <1>2, Undoing!FoldUpward
<1>5. f[0] = w /\ \A m \in 1..n : f[m] = PutBack(f[m - 1], r, rows[m])
  BY <1>2, <1>3, <1>4
<1>6. f[n] = Undoing!Fold(c, w, 1..n)
  BY <1>2
<1> QED
  BY <1>5, <1>6 DEF c

LEMMA ApprovingIs ==
  ASSUME NEW n \in Nat, NEW order, NEW c, c.rows = order, NEW base
  PROVE  \E f : /\ f[0] = base
                /\ \A m \in 1..n : f[m] = ApproveItem(c, order[m], f[m - 1])
                /\ f[n] = Approving!Fold(c, base, 1..n)
<1> DEFINE f == [m \in 0..n |-> Approving!Fold(c, base, 1..m)]
<1>1. \A s \in SUBSET (1..n) : s # {} => Greatest(s) \in s /\ \A k \in s : k <= Greatest(s)
  BY GreatestIsMax
<1>2. n \in Nat /\ 0 \in 0..n /\ n \in 0..n /\ \A m \in 1..n : m \in 0..n /\ m - 1 \in 0..n
  OBVIOUS
<1>3. \A m : ItemAt(c, m) = order[m]
  BY DEF ItemAt
<1>4. /\ Approving!Fold(c, base, 1..0) = base
      /\ \A m \in 1..n :
            Approving!Fold(c, base, 1..m) = ApproveItem(c, ItemAt(c, m), Approving!Fold(c, base, 1..(m - 1)))
  BY ONLY <1>1, <1>2, Approving!FoldUpward
<1>5. f[0] = base /\ \A m \in 1..n : f[m] = ApproveItem(c, order[m], f[m - 1])
  BY <1>2, <1>3, <1>4
<1>6. f[n] = Approving!Fold(c, base, 1..n)
  BY <1>2
<1> QED
  BY <1>5, <1>6
-----------------------------------------------------------------------------
(* Receipts *)
FirstOf(delivery, m, sku) == {k \in DOMAIN delivery : k <= m /\ SkuOf[delivery[k].batch] = sku}
Receipt(w, p, delivery) ==
    /\ Plain(p) /\ delivery \in Seq(ItemsIn)
    /\ \A j, k \in DOMAIN delivery : delivery[j].batch = delivery[k].batch => j = k
    /\ \A k \in DOMAIN delivery : delivery[k].batch \notin Rows(w)

LEMMA DeliverySums ==
  ASSUME NEW delivery \in Seq(ItemsIn), NEW S \in SUBSET DOMAIN delivery
  PROVE  /\ Amount!Summable(delivery, S) /\ Amount!Sum(delivery, S) \in Nat
         /\ \A k \in DOMAIN delivery : /\ delivery[k] \in ItemsIn /\ delivery[k].batch \in Batches
                                       /\ delivery[k].quantity \in Nat \ {0}
                                       /\ QuantityAt(delivery, k) = delivery[k].quantity
<1>1. \A k \in DOMAIN delivery : delivery[k] \in ItemsIn
  OBVIOUS
<1>2. \A k \in DOMAIN delivery : /\ delivery[k].batch \in Batches /\ delivery[k].quantity \in Nat \ {0}
                                 /\ QuantityAt(delivery, k) = delivery[k].quantity
  BY <1>1 DEF ItemsIn, QuantityAt
<1>3. IsFiniteSet(S)
  BY FewRows
<1>4. \A k \in S : QuantityAt(delivery, k) \in Nat
  BY <1>2
<1>5. Amount!Summable(delivery, S) /\ Amount!Sum(delivery, S) \in Nat
  BY <1>3, <1>4, SameFinite, AllAdd, Amount!SumNat DEF Amount!Summable
<1> QED
  BY <1>1, <1>2, <1>5

\* The first items of a delivery, and one more.
LEMMA FirstGrows ==
  ASSUME NEW delivery \in Seq(ItemsIn), NEW m \in DOMAIN delivery, NEW sku,
         NEW gain, gain = IF SkuOf[delivery[m].batch] = sku THEN delivery[m].quantity ELSE 0
  PROVE  Amount!Sum(delivery, FirstOf(delivery, m, sku))
            = Amount!Sum(delivery, FirstOf(delivery, m - 1, sku)) + gain
<1> DEFINE S == FirstOf(delivery, m - 1, sku)
           R == FirstOf(delivery, m, sku)
<1>1. DOMAIN delivery = 1..Len(delivery) /\ Len(delivery) \in Nat
  OBVIOUS
<1>2. S \in SUBSET DOMAIN delivery /\ R \in SUBSET DOMAIN delivery
  BY DEF FirstOf
<1>3. R = (IF SkuOf[delivery[m].batch] = sku THEN S \cup {m} ELSE S) /\ m \notin S
  BY <1>1 DEF FirstOf
<1> HIDE DEF R, S
<1>4. /\ Amount!Summable(delivery, R) /\ Amount!Sum(delivery, S) \in Nat
      /\ QuantityAt(delivery, m) = delivery[m].quantity
  BY <1>2, DeliverySums
<1>5. CASE SkuOf[delivery[m].batch] = sku
  <2>1. Amount!Summable(delivery, S \cup {m})
    BY <1>3, <1>4, <1>5
  <2>2. Amount!Sum(delivery, S \cup {m}) = Amount!Sum(delivery, S) + QuantityAt(delivery, m)
    BY <1>3, <2>1, AllAdd, Amount!SumAdd
  <2> QED
    BY <1>3, <1>4, <1>5, <2>2 DEF R, S
<1>6. CASE SkuOf[delivery[m].batch] # sku
  BY <1>3, <1>4, <1>6 DEF R, S
<1> QED
  BY <1>5, <1>6

\* The warehouse u after m items of delivery came into w.
Midway(w, u, back, clean, calm, extra, p, delivery, m) ==
    /\ Sound(u, back, clean, calm) /\ Pointed(u, back) /\ OnFile(u, extra) /\ Told(w, u)
    /\ \A q \in Orders \ {p} : u.moves[q] = w.moves[q]
    /\ \A sku : NetOf(u, p, sku)
                   = NetOf(w, p, sku) + Amount!Sum(delivery, FirstOf(delivery, m, sku))
    /\ \A k \in DOMAIN delivery : k > m => delivery[k].batch \notin Rows(u)

LEMMA ReceiptStep ==
  ASSUME NEW clean, NEW calm, Nested(clean, calm), NEW extra \in [Skus -> Nat],
         NEW w \in Warehouses, NEW u, NEW v, NEW back, NEW p, NEW delivery, NEW m,
         Receipt(w, p, delivery), m \in DOMAIN delivery,
         Midway(w, u, back, clean, calm, extra, p, delivery, m - 1),
         v = ReceiveItem(u, p, delivery[m])
  PROVE  Midway(w, v, back, clean, calm, extra, p, delivery, m)
<1> DEFINE item == delivery[m]
           sku == SkuOf[item.batch]
           row == RowIn(item)
<1>1. /\ Plain(p) /\ delivery \in Seq(ItemsIn) /\ p \in Orders
      /\ \A j, k \in DOMAIN delivery : delivery[j].batch = delivery[k].batch => j = k
  BY DEF Receipt, Plain
<1>2. /\ Sound(u, back, clean, calm) /\ Pointed(u, back) /\ OnFile(u, extra) /\ Told(w, u)
      /\ \A q \in Orders \ {p} : u.moves[q] = w.moves[q]
      /\ \A s : NetOf(u, p, s) = NetOf(w, p, s) + Amount!Sum(delivery, FirstOf(delivery, m - 1, s))
      /\ \A k \in DOMAIN delivery : k > m - 1 => delivery[k].batch \notin Rows(u)
      /\ u \in Warehouses
  BY DEF Midway, Sound
<1>3. /\ item \in ItemsIn /\ item.batch \in Batches /\ item.quantity \in Nat
      /\ m \in Nat /\ DOMAIN delivery \subseteq Nat
  <2>1. DOMAIN delivery = 1..Len(delivery) /\ Len(delivery) \in Nat
    BY <1>1
  <2>2. item \in ItemsIn
    BY <1>1
  <2> QED
    BY <2>1, <2>2 DEF ItemsIn
<1>4. item.batch \notin Rows(u)
  BY <1>2, <1>3
<1>5. Sound(v, back, clean, calm) /\ Pointed(v, back)
  <2>1. item \in ItemsIn /\ v = ReceiveItem(u, p, item)
    BY <1>3
  <2> HIDE DEF item
  <2> QED
    BY <1>1, <1>2, <1>4, <2>1, ReceiveKeeps
<1>6. /\ Moved(u, v, p, row) /\ v.got = [u.got EXCEPT ![item.batch] = item.quantity] /\ Told(u, v)
  <2>1. item \in ItemsIn /\ v = ReceiveItem(u, p, item)
    BY <1>3
  <2> HIDE DEF item
  <2>2. Received(u, v, p, item)
    BY <1>1, <1>2, <2>1, ReceiveIs
  <2> QED
    BY <2>2 DEF Received
<1>7. row.sku = sku /\ row.change = item.quantity
  BY DEF Row, RowIn
<1> HIDE DEF row
<1>8. OnFile(v, extra)
  BY <1>1, <1>2, <1>6, MovedOnFile
<1>9. v \in Warehouses
  BY <1>6 DEF Moved
<1>10. Told(w, v)
  BY <1>2, <1>6, <1>9, ToldTwice
<1>11. \A q \in Orders \ {p} : v.moves[q] = w.moves[q]
  <2>1. /\ \A q \in Orders \ {p} : v.moves[q] = u.moves[q]
        /\ u.moves[p] \in Seq(MoveRows) /\ row \in MoveRows
        /\ v.moves[p] = Append(u.moves[p], row)
    BY <1>1, <1>2, <1>6, MovedRows
  <2> QED
    BY <1>2, <2>1
<1>12. ASSUME NEW s
       PROVE  NetOf(v, p, s) = NetOf(w, p, s) + Amount!Sum(delivery, FirstOf(delivery, m, s))
  <2> DEFINE gain == IF sku = s THEN item.quantity ELSE 0
             before == Amount!Sum(delivery, FirstOf(delivery, m - 1, s))
             after == Amount!Sum(delivery, FirstOf(delivery, m, s))
  <2>1. NetOf(v, p, s) = NetOf(u, p, s) + GainOf(row, s)
    BY <1>1, <1>2, <1>6, MovedNet
  <2>2. GainOf(row, s) = gain
    BY <1>7 DEF GainOf
  <2>3. after = before + gain
    BY <1>1, FirstGrows
  <2>4. NetOf(u, p, s) = NetOf(w, p, s) + before
    BY <1>2
  <2>5. before \in Nat /\ gain \in Nat /\ NetOf(w, p, s) \in Int
    <3>1. FirstOf(delivery, m - 1, s) \in SUBSET DOMAIN delivery
      BY DEF FirstOf
    <3> QED
      BY <1>1, <1>3, <3>1, DeliverySums, NetInt
  <2> HIDE DEF gain, before, after
  <2>6. NetOf(v, p, s) = NetOf(w, p, s) + after
    BY <2>1, <2>2, <2>3, <2>4, <2>5
  <2> QED
    BY <2>6 DEF after
<1>13. ASSUME NEW k \in DOMAIN delivery, k > m
       PROVE  delivery[k].batch \notin Rows(v)
  <2>1. k > m - 1 /\ k # m
    BY <1>3, <1>13
  <2>2. delivery[k].batch # item.batch /\ delivery[k].batch \notin Rows(u)
    BY <1>1, <1>2, <2>1
  <2>3. u.got \in [Batches -> Nat]
    BY <1>2 DEF Warehouses
  <2> HIDE DEF item
  <2> QED
    BY <1>6, <2>2, <2>3 DEF Rows
<1> QED
  BY <1>2, <1>5, <1>8, <1>10, <1>11, <1>12, <1>13 DEF Midway

LEMMA ReceiptKeeps ==
  ASSUME NEW clean, NEW calm, Nested(clean, calm), NEW extra \in [Skus -> Nat],
         NEW w, NEW v, NEW back, NEW p, NEW delivery,
         Sound(w, back, clean, calm), Pointed(w, back), OnFile(w, extra),
         Receipt(w, p, delivery),
         v = Receiving!Fold([rows |-> delivery, doc |-> p], w, DOMAIN delivery)
  PROVE  Midway(w, v, back, clean, calm, extra, p, delivery, Len(delivery))
<1> DEFINE n == Len(delivery)
<1>1. /\ DOMAIN delivery = 1..n /\ n \in Nat /\ delivery \in Seq(ItemsIn) /\ p \in Orders
      /\ w \in Warehouses
  BY DEF Receipt, Sound, Plain
<1> HIDE DEF n
<1>2. PICK f : /\ f[0] = w
               /\ \A m \in 1..n : f[m] = ReceiveItem(f[m - 1], p, delivery[m])
               /\ f[n] = Receiving!Fold([rows |-> delivery, doc |-> p], w, 1..n)
  BY <1>1, ReceivingIs
<1> DEFINE Q == {m \in 0..n : Midway(w, f[m], back, clean, calm, extra, p, delivery, m)}
<1>3. 0 \in Q
  <2>1. Told(w, w)
    <3>1. \A sku \in Skus : w.stock[sku] \in Nat
      BY <1>1 DEF Warehouses
    <3> QED
      BY <3>1 DEF Told
  <2>2. \A sku : NetOf(w, p, sku) = NetOf(w, p, sku) + Amount!Sum(delivery, FirstOf(delivery, 0, sku))
    <3> TAKE sku
    <3>1. FirstOf(delivery, 0, sku) = {}
      BY <1>1 DEF FirstOf
    <3>2. Amount!Sum(delivery, {}) = 0
      BY Amount!SumEmpty
    <3>3. NetOf(w, p, sku) \in Int
      BY <1>1, NetInt
    <3> QED
      BY <3>1, <3>2, <3>3
  <2>3. \A k \in DOMAIN delivery : delivery[k].batch \notin Rows(w)
    BY DEF Receipt
  <2>4. Midway(w, w, back, clean, calm, extra, p, delivery, 0)
    BY <2>1, <2>2, <2>3 DEF Midway
  <2> QED
    BY <1>1, <1>2, <2>4
<1>4. ASSUME NEW m \in 1..n, m - 1 \in Q PROVE m \in Q
  <2>1. Midway(w, f[m - 1], back, clean, calm, extra, p, delivery, m - 1)
    BY <1>4
  <2>2. f[m] = ReceiveItem(f[m - 1], p, delivery[m]) /\ m \in DOMAIN delivery
    BY <1>1, <1>2
  <2> HIDE DEF Q
  <2>3. Midway(w, f[m], back, clean, calm, extra, p, delivery, m)
    BY <1>1, <2>1, <2>2, ReceiptStep
  <2> QED
    BY <1>1, <2>3 DEF Q
<1>5. n \in Q
  <2> HIDE DEF Q
  <2>1. \A m \in 0..n : m \in Q
    BY <1>1, <1>3, <1>4, CountingUp
  <2> QED
    BY <1>1, <2>1
<1>6. f[n] = v
  BY <1>1, <1>2
<1> QED
  BY <1>5, <1>6 DEF n
-----------------------------------------------------------------------------
(* Approvals *)
LEMMA OrderIs ==
  ASSUME NEW items \in Seq(ItemRows), NEW order \in SetToSeqs(DOMAIN items)
  PROVE  /\ Len(items) \in Nat /\ DOMAIN order = 1..Len(items)
         /\ \A m \in 1..Len(items) : order[m] \in DOMAIN items
         /\ \A i \in DOMAIN items : \E m \in 1..Len(items) : order[m] = i
<1> DEFINE n == Len(items)
           S == DOMAIN items
<1>1. n \in Nat /\ S = 1..n
  OBVIOUS
<1>2. Cardinality(S) = n /\ IsFiniteSet(S)
  BY <1>1, FS_Interval
<1>3. order \in [1..n -> S] /\ \A i, j \in 1..n : i # j => order[i] # order[j]
  BY <1>2 DEF SetToSeqs
<1>4. Cardinality(1..n) = n /\ IsFiniteSet(1..n)
  BY <1>1, FS_Interval
<1> HIDE DEF n, S
<1>5. order \in Injection(1..n, S)
  BY <1>3 DEF Injection, IsInjective
<1>6. order \in Surjection(1..n, S)
  BY <1>2, <1>4, <1>5, FS_Injection
<1>7. \A i \in S : \E m \in 1..n : order[m] = i
  BY <1>6 DEF Surjection
<1> QED
  BY <1>1, <1>3, <1>7 DEF n, S

\* The same goods, whatever their movements.
SameGoods(items, new) ==
    /\ new \in Seq(ItemRows) /\ DOMAIN new = DOMAIN items
    /\ \A i \in DOMAIN items : /\ new[i].sku = items[i].sku /\ new[i].batch = items[i].batch
                               /\ new[i].quantity = items[i].quantity
Accs == [w : Warehouses, items : Seq(ItemRows), short : SUBSET Skus, all : BOOLEAN]

\* An item that is not written off, and one that is.
Stops(c, i, acc) == ~acc.all \/ acc.w.stock[c.items[i].sku] < c.items[i].quantity

\* The item i is tried.
Tries(c, i, acc, next) ==
    /\ c.doc \in Orders /\ c.items \in Seq(ItemRows) /\ i \in DOMAIN c.items
    /\ acc \in Accs /\ SameGoods(c.items, acc.items)
    /\ next = ApproveItem(c, i, acc)
Stopped(acc, next) ==
    /\ next \in Accs /\ next.w = acc.w /\ next.items = acc.items /\ next.short = acc.short
    /\ next.all = FALSE

LEMMA ApproveStops ==
  ASSUME NEW c, NEW i, NEW acc, NEW next, Tries(c, i, acc, next), Stops(c, i, acc)
  PROVE  Stopped(acc, next)
<1>1. next = [acc EXCEPT !.all = FALSE]
  BY DEF Stops, ApproveItem, WriteOffItem, Tries
<1>2. acc \in Accs
  BY DEF Tries
<1> QED
  BY <1>1, <1>2 DEF Accs, Stopped

Goes(c, i, acc, v, taken) ==
    WritesOff(acc.w, v, c.doc, acc.items[i].sku, acc.items[i].batch, acc.items[i].quantity,
              "supplier_return", taken)
Gone(c, i, acc, next) ==
    /\ next \in Accs /\ SameGoods(c.items, next.items)
    /\ \E taken : Goes(c, i, acc, next.w, taken)
    /\ next.items = Pointed1(acc.items, i, Len(acc.w.moves[c.doc]) + 1)
    /\ next.short = acc.short
           \cup Short(acc.w, acc.items[i].sku, acc.items[i].batch, acc.items[i].quantity)
    /\ next.all = TRUE

LEMMA ApproveGoes ==
  ASSUME NEW c, NEW i, NEW acc, NEW next, Tries(c, i, acc, next), ~Stops(c, i, acc)
  PROVE  Gone(c, i, acc, next)
<1> USE DEF Tries
<1> DEFINE item == c.items[i]
           v == WriteOff(acc.w, c.doc, item.sku, item.batch, item.quantity, "supplier_return")
           new == Pointed1(acc.items, i, Len(acc.w.moves[c.doc]) + 1)
           more == Short(acc.w, item.sku, item.batch, item.quantity)
           taken == Taken(acc.w, item.sku, item.batch, item.quantity)
<1>1. /\ acc.w \in Warehouses /\ acc.items \in Seq(ItemRows) /\ acc.short \subseteq Skus
      /\ i \in DOMAIN acc.items /\ item \in ItemRows
  BY DEF Accs, SameGoods
<1>2. /\ item.sku \in Skus /\ item.batch \in Batches \cup {NoBatch} /\ item.quantity \in Nat
      /\ acc.items[i].sku = item.sku /\ acc.items[i].batch = item.batch
      /\ acc.items[i].quantity = item.quantity
  BY <1>1 DEF ItemRows, SameGoods
<1>3. next = [w |-> v, items |-> new, short |-> acc.short \cup more, all |-> TRUE]
  BY DEF Stops, ApproveItem, WriteOffItem, Pointed1
<1>4. item.quantity <= acc.w.stock[item.sku]
  <2>1. acc.w.stock[item.sku] \in Nat
    BY <1>1, <1>2 DEF Warehouses
  <2> QED
    BY <1>2, <2>1 DEF Stops
<1>5. WritesOff(acc.w, v, c.doc, item.sku, item.batch, item.quantity, "supplier_return", taken)
  BY <1>1, <1>2, <1>4 DEF WritesOff
<1>6. v \in Warehouses
  <2> HIDE DEF v, item, taken
  <2>1. Moved(acc.w, v, c.doc, Row(item.sku, "supplier_return", - item.quantity, taken))
    BY <1>5, WriteOffIs
  <2> QED
    BY <2>1 DEF Moved
<1>7. more \subseteq Skus
  <2>1. item.batch # NoBatch => SkuOf[item.batch] \in Skus
    BY <1>2, StockroomAssumption
  <2> QED
    BY <1>2, <2>1 DEF Short
<1>8. /\ new \in Seq(ItemRows) /\ DOMAIN new = DOMAIN acc.items
      /\ new[i].sku = acc.items[i].sku /\ new[i].batch = acc.items[i].batch
      /\ new[i].quantity = acc.items[i].quantity
      /\ \A j \in DOMAIN acc.items \ {i} : new[j] = acc.items[j]
  <2>1. Len(acc.w.moves[c.doc]) + 1 \in Nat
    <3>1. acc.w.moves[c.doc] \in Seq(MoveRows)
      BY <1>1 DEF Warehouses
    <3> QED
      BY <3>1
  <2>2. Repointed(acc.items, new, i, Len(acc.w.moves[c.doc]) + 1)
    BY <1>1, <2>1 DEF Repointed
  <2> HIDE DEF new
  <2> QED
    BY <2>2, ItemsAre
<1>9. SameGoods(c.items, new)
  <2> HIDE DEF new, item
  <2> QED
    BY <1>1, <1>2, <1>8 DEF SameGoods, item
<1>10. /\ next \in Accs /\ next.w = v /\ next.items = new /\ next.short = acc.short \cup more
       /\ next.all = TRUE
  <2> HIDE DEF new, v, more, item
  <2> QED
    BY <1>1, <1>3, <1>6, <1>7, <1>8 DEF Accs
<1>11. Goes(c, i, acc, next.w, taken)
  <2> HIDE DEF v, item, taken
  <2> QED
    BY <1>2, <1>5, <1>10 DEF Goes
<1> QED
  BY <1>2, <1>9, <1>10, <1>11 DEF Gone

LEMMA ItemsTwice ==
  ASSUME NEW back \in [SupplierReturns -> ReturnRows], NEW r \in SupplierReturns
  PROVE  /\ Items(back, r, back[r].items) = back
         /\ \A a, b : Items(Items(back, r, a), r, b) = Items(back, r, b)
<1>1. back[r] \in ReturnRows
  OBVIOUS
<1>2. \A a : [back[r] EXCEPT !.items = a] = [status |-> back[r].status, items |-> a]
  BY <1>1 DEF ReturnRows
<1>3. back[r] = [status |-> back[r].status, items |-> back[r].items]
  BY <1>1 DEF ReturnRows
<1>4. [back[r] EXCEPT !.items = back[r].items] = back[r]
  BY <1>2, <1>3
<1>5. Items(back, r, back[r].items) = back
  BY <1>4 DEF Items
<1>6. ASSUME NEW a, NEW b PROVE Items(Items(back, r, a), r, b) = Items(back, r, b)
  <2> DEFINE x == Items(back, r, a)
             row(y) == [status |-> back[r].status, items |-> y]
  <2>1. /\ DOMAIN x = SupplierReturns /\ x[r] = row(a)
        /\ \A s \in SupplierReturns \ {r} : x[s] = back[s]
    BY <1>2 DEF Items
  <2>2. [x[r] EXCEPT !.items = b] = row(b)
    BY <2>1
  <2>3. [back[r] EXCEPT !.items = b] = row(b)
    BY <1>2
  <2>4. x = [s \in SupplierReturns |-> x[s]]
    BY DEF Items
  <2> HIDE DEF x, row
  <2>5. [x EXCEPT ![r] = row(b)] = [back EXCEPT ![r] = row(b)]
    BY <2>1, <2>4
  <2>6. Items(x, r, b) = [x EXCEPT ![r] = row(b)]
    BY <2>2 DEF Items
  <2>7. Items(back, r, b) = [back EXCEPT ![r] = row(b)]
    BY <2>3 DEF Items
  <2> QED
    BY <2>5, <2>6, <2>7 DEF x
<1> QED
  BY <1>5, <1>6

\* The movement of an item that was just written off is its own.
LEMMA ItemWritten ==
  ASSUME NEW file \in Seq(MoveRows), NEW row \in MoveRows, NEW longer, longer = Append(file, row),
         NEW items, NEW i, NEW new, Repointed(items, new, i, Len(file) + 1),
         ItemsHaveMoves(file, items),
         row.sku = items[i].sku, row.type = "supplier_return", row.change = - items[i].quantity
  PROVE  ItemsHaveMoves(longer, new)
<1> DEFINE n == Len(file)
<1>1. /\ longer \in Seq(MoveRows) /\ n \in Nat /\ DOMAIN longer = DOMAIN file \cup {n + 1}
      /\ n + 1 \notin DOMAIN file /\ n + 1 # 0
      /\ longer[n + 1] = row /\ \A k \in DOMAIN file : longer[k] = file[k]
  BY Appended
<1>2. /\ i \in DOMAIN items /\ DOMAIN new = DOMAIN items
      /\ new[i].sku = items[i].sku /\ new[i].quantity = items[i].quantity /\ new[i].move = n + 1
      /\ \A j \in DOMAIN items \ {i} : new[j] = items[j]
  BY ItemsAre DEF Repointed
<1>3. \A j \in DOMAIN items : items[j].move # 0 =>
          /\ items[j].move \in DOMAIN file
          /\ file[items[j].move].sku = items[j].sku
          /\ file[items[j].move].type = "supplier_return"
          /\ file[items[j].move].change = - items[j].quantity
  BY DEF ItemsHaveMoves
<1>4. \A j, k \in DOMAIN items : items[j].move = items[k].move => items[j].move = 0 \/ j = k
  BY DEF ItemsHaveMoves
<1> HIDE DEF n
<1>5. ASSUME NEW j \in DOMAIN new, new[j].move # 0
      PROVE  /\ new[j].move \in DOMAIN longer
             /\ longer[new[j].move].sku = new[j].sku
             /\ longer[new[j].move].type = "supplier_return"
             /\ longer[new[j].move].change = - new[j].quantity
  <2>1. CASE j = i
    BY <1>1, <1>2, <2>1
  <2>2. CASE j # i
    BY <1>1, <1>2, <1>3, <1>5, <2>2
  <2> QED
    BY <2>1, <2>2
<1>6. ASSUME NEW j \in DOMAIN new, NEW k \in DOMAIN new, new[j].move = new[k].move
      PROVE  new[j].move = 0 \/ j = k
  BY <1>1, <1>2, <1>3, <1>4, <1>6
<1> QED
  BY <1>5, <1>6 DEF ItemsHaveMoves

\* The warehouse and the items of r after m of them were tried.
MidApproval(w, back, clean, calm, extra, r, order, acc, m) ==
    /\ acc \in Accs /\ SameGoods(back[r].items, acc.items)
    /\ Sound(acc.w, Items(back, r, acc.items), clean \ acc.short, calm \ acc.short)
    /\ Undoable(acc.w, Items(back, r, acc.items), r, acc.items)
    /\ OnFile(acc.w, extra) /\ Told(w, acc.w)
    /\ \A q \in Orders \ {r} : acc.w.moves[q] = w.moves[q]
    /\ ItemsHaveMoves(acc.w.moves[r], acc.items)
    /\ acc.all => \A k \in 1..m : acc.items[order[k]].move # 0

\* The approval c of the return r.
Approval(c, w, back, r, order) ==
    /\ w \in Warehouses /\ Undoable(w, back, r, back[r].items)
    /\ c.doc = r /\ c.items = back[r].items /\ c.rows = order
    /\ order \in SetToSeqs(DOMAIN back[r].items)

LEMMA ApprovalIs ==
  ASSUME NEW c, NEW w, NEW back, NEW r, NEW order, Approval(c, w, back, r, order)
  PROVE  /\ w \in Warehouses /\ back \in [SupplierReturns -> ReturnRows] /\ r \in SupplierReturns
         /\ r \in Orders /\ back[r].status # "cancelled"
         /\ c.doc = r /\ c.items = back[r].items /\ c.items \in Seq(ItemRows)
         /\ Len(c.items) \in Nat /\ DOMAIN order = 1..Len(c.items)
         /\ \A m \in 1..Len(c.items) : order[m] \in DOMAIN c.items
         /\ \A i \in DOMAIN c.items : \E m \in 1..Len(c.items) : order[m] = i
<1>1. Undoable(w, back, r, back[r].items) /\ order \in SetToSeqs(DOMAIN back[r].items)
  BY DEF Approval
<1>2. back[r].items \in Seq(ItemRows) /\ r \in Orders
  BY <1>1, UndoableIs
<1>3. /\ Len(back[r].items) \in Nat /\ DOMAIN order = 1..Len(back[r].items)
      /\ \A m \in 1..Len(back[r].items) : order[m] \in DOMAIN back[r].items
      /\ \A i \in DOMAIN back[r].items : \E m \in 1..Len(back[r].items) : order[m] = i
  BY <1>1, <1>2, OrderIs
<1> QED
  BY <1>1, <1>2, <1>3 DEF Approval, Undoable, Pointed

LEMMA ApprovalStep ==
  ASSUME NEW clean, NEW calm, Nested(clean, calm), NEW extra \in [Skus -> Nat],
         NEW c, NEW w, NEW back, NEW r, NEW order, Approval(c, w, back, r, order),
         NEW acc, NEW m \in 1..Len(c.items),
         MidApproval(w, back, clean, calm, extra, r, order, acc, m - 1),
         NEW next, next = ApproveItem(c, order[m], acc)
  PROVE  MidApproval(w, back, clean, calm, extra, r, order, next, m)
<1> DEFINE i == order[m]
           u == acc.w
           items == acc.items
           b1 == Items(back, r, items)
           move == Len(u.moves[r]) + 1
           new == Pointed1(items, i, move)
           more == Items(back, r, new)
           clean2 == clean \ next.short
           calm2 == calm \ next.short
<1>1. /\ w \in Warehouses /\ back \in [SupplierReturns -> ReturnRows] /\ r \in SupplierReturns
      /\ r \in Orders /\ back[r].status # "cancelled"
      /\ c.doc = r /\ c.items = back[r].items /\ c.items \in Seq(ItemRows)
      /\ Len(c.items) \in Nat
      /\ \A k \in 1..Len(c.items) : order[k] \in DOMAIN c.items
  BY ApprovalIs
<1>2. /\ acc \in Accs /\ SameGoods(c.items, items)
      /\ Sound(u, b1, clean \ acc.short, calm \ acc.short)
      /\ Undoable(u, b1, r, items)
      /\ OnFile(u, extra) /\ Told(w, u)
      /\ \A q \in Orders \ {r} : u.moves[q] = w.moves[q]
      /\ ItemsHaveMoves(u.moves[r], items)
      /\ acc.all => \A k \in 1..(m - 1) : items[order[k]].move # 0
  BY <1>1 DEF MidApproval
<1>3. /\ i \in DOMAIN c.items /\ u \in Warehouses /\ m \in Nat
      /\ next = ApproveItem(c, i, acc)
  BY <1>1, <1>2 DEF Accs
<1>6. Tries(c, i, acc, next)
  BY <1>1, <1>2, <1>3 DEF Tries
<1>4. CASE Stops(c, i, acc)
  <2>1. /\ next \in Accs /\ next.w = u /\ next.items = items /\ next.short = acc.short
        /\ next.all = FALSE
    <3>1. Stopped(acc, next)
      BY ONLY <1>4, <1>6, ApproveStops
    <3> QED
      BY <3>1 DEF Stopped
  <2> HIDE DEF i, u, items, b1
  <2>2. Items(back, r, next.items) = b1
    BY <2>1 DEF b1
  <2> QED
    BY <1>1, <1>2, <2>1, <2>2 DEF MidApproval
<1>5. CASE ~Stops(c, i, acc)
  <2> DEFINE v == next.w
             sku == items[i].sku
             batch == items[i].batch
             quantity == items[i].quantity
             short == Short(u, sku, batch, quantity)
  <2>1. /\ next \in Accs /\ SameGoods(c.items, next.items)
        /\ \E taken : Goes(c, i, acc, next.w, taken)
        /\ next.items = Pointed1(acc.items, i, Len(acc.w.moves[c.doc]) + 1)
        /\ next.short = acc.short
               \cup Short(acc.w, acc.items[i].sku, acc.items[i].batch, acc.items[i].quantity)
        /\ next.all = TRUE
    <3>1. Gone(c, i, acc, next)
      BY ONLY <1>5, <1>6, ApproveGoes
    <3> QED
      BY <3>1 DEF Gone
  <2>2. next.items = new /\ next.short = acc.short \cup short
    BY <1>1, <2>1
  <2>3. PICK taken : WritesOff(u, v, r, sku, batch, quantity, "supplier_return", taken)
    BY <1>1, <2>1 DEF Goes
  <2> DEFINE row == Row(sku, "supplier_return", - quantity, taken)
  <2>4. i \in DOMAIN items /\ items \in Seq(ItemRows) /\ v \in Warehouses
    BY <1>2, <1>3, <2>1 DEF SameGoods, Accs
  <2>5. Moved(u, v, r, row) /\ Told(u, v)
    <3> HIDE DEF u, v, sku, batch, quantity
    <3> QED
      BY <2>3, WriteOffIs
  <2>6. row.sku = sku /\ row.type = "supplier_return" /\ row.change = - quantity
    BY DEF Row
  <2>7. /\ \A p \in Orders \ {r} : v.moves[p] = u.moves[p]
        /\ u.moves[r] \in Seq(MoveRows) /\ row \in MoveRows
        /\ v.moves[r] = Append(u.moves[r], row)
    <3> HIDE DEF u, v, row
    <3> QED
      BY <1>1, <1>3, <2>5, MovedRows
  <2>8. Repointed(items, new, i, move)
    <3>1. move \in Nat
      BY <2>7
    <3> QED
      BY <2>4, <3>1 DEF Repointed
  <2>9. ItemsHaveMoves(v.moves[r], new)
    <3> HIDE DEF u, v, row, items, i, new
    <3>1. Repointed(items, new, i, Len(u.moves[r]) + 1)
      BY <2>8
    <3>2. row.sku = items[i].sku /\ row.change = - items[i].quantity
      BY <2>6
    <3> QED
      BY <1>2, <2>6, <2>7, <3>1, <3>2, ItemWritten
  <2>10. Sound(v, more, clean2, calm2) /\ Pointed(v, more)
    <3>1. Sound(u, b1, clean2, calm2)
      <4>1. clean2 \in SUBSET (clean \ acc.short) /\ calm2 \in SUBSET (calm \ acc.short)
        BY <2>2
      <4> HIDE DEF u, b1, clean2, calm2
      <4> QED
        BY <1>2, <4>1, SoundOfFewer
    <3>2. Nested(clean2, calm2)
      BY DEF Nested
    <3>3. short \cap clean2 = {}
      BY <2>2
    <3>4. Items(b1, r, new) = more
      <4> HIDE DEF items, new
      <4>1. \A a, b : Items(Items(back, r, a), r, b) = Items(back, r, b)
        BY <1>1, ItemsTwice
      <4> QED
        BY <4>1
    <3>5. more = Items(b1, r, Pointed1(items, i, Len(u.moves[r]) + 1))
      BY <3>4
    <3>6. WritesOff(u, v, r, items[i].sku, items[i].batch, items[i].quantity, "supplier_return", taken)
      BY <2>3
    <3>7. Short(u, items[i].sku, items[i].batch, items[i].quantity) \cap clean2 = {}
      BY <3>3
    <3> HIDE DEF u, v, items, i, b1, more, clean2, calm2, new, move
    <3> QED
      BY <1>2, <2>4, <3>1, <3>2, <3>5, <3>6, <3>7, ApproveItemKeeps
  <2>11. new \in Seq(ItemRows)
    <3> HIDE DEF new, items, i, move
    <3> QED
      BY <2>8, ItemsAre
  <2>12. Undoable(v, more, r, new)
    <3>1. /\ more \in [SupplierReturns -> ReturnRows]
          /\ more[r].items = new /\ more[r].status = back[r].status
          /\ \A s \in SupplierReturns \ {r} : more[s] = back[s]
      <4> HIDE DEF new
      <4>1. more = Items(back, r, new)
        OBVIOUS
      <4> HIDE DEF more
      <4> QED
        BY <1>1, <2>11, <4>1, BackAre
    <3> HIDE DEF more, new, v
    <3> QED
      BY <1>1, <2>4, <2>10, <3>1 DEF Undoable
  <2>13. OnFile(v, extra) /\ Told(w, v)
    <3> HIDE DEF u, v, row
    <3> QED
      BY <1>1, <1>2, <1>3, <2>4, <2>5, MovedOnFile, ToldTwice
  <2>14. ASSUME next.all, NEW k \in 1..m PROVE new[order[k]].move # 0
    <3>1. /\ new[i].move = move /\ \A j \in DOMAIN items \ {i} : new[j] = items[j]
      <4> HIDE DEF new, items, i, move
      <4> QED
        BY <2>8, ItemsAre
    <3>2. move # 0
      BY <2>7
    <3>3. k \in 1..Len(c.items)
      BY <1>1, <1>3
    <3>4. order[k] \in DOMAIN items
      BY <1>1, <1>2, <3>3 DEF SameGoods
    <3>5. CASE order[k] = i
      BY <3>1, <3>2, <3>5
    <3>6. CASE order[k] # i
      <4>1. k \in 1..(m - 1)
        BY <1>3, <3>6
      <4>2. acc.all
        BY <1>5 DEF Stops
      <4> HIDE DEF new, items, i, move
      <4> QED
        BY <1>2, <3>1, <3>4, <3>6, <4>1, <4>2
    <3> QED
      BY <3>5, <3>6
  <2>15. \A q \in Orders \ {r} : v.moves[q] = w.moves[q]
    BY <1>2, <2>7
  <2>16. Items(back, r, next.items) = more
    BY <2>2
  <2> HIDE DEF new, more, v, items, i, move
  <2> QED
    BY <1>1, <2>1, <2>2, <2>9, <2>10, <2>12, <2>13, <2>14, <2>15, <2>16 DEF MidApproval, v
<1> QED
  BY <1>4, <1>5

LEMMA ApprovalKeeps ==
  ASSUME NEW clean, NEW calm, Nested(clean, calm), NEW extra \in [Skus -> Nat],
         NEW c, NEW w, NEW back, NEW r, NEW order, Approval(c, w, back, r, order),
         Sound(w, back, clean, calm), OnFile(w, extra), ItemsHaveMoves(w.moves[r], back[r].items),
         NEW base, base = [w |-> w, items |-> back[r].items, short |-> {}, all |-> TRUE],
         NEW done, done = Approving!Fold(c, base, DOMAIN order)
  PROVE  MidApproval(w, back, clean, calm, extra, r, order, done, Len(back[r].items))
<1> DEFINE n == Len(c.items)
<1>1. /\ w \in Warehouses /\ back \in [SupplierReturns -> ReturnRows] /\ r \in SupplierReturns
      /\ c.items = back[r].items /\ c.items \in Seq(ItemRows)
      /\ n \in Nat /\ DOMAIN order = 1..n /\ c.rows = order
      /\ Undoable(w, back, r, back[r].items)
  <2>1. c.rows = order /\ Undoable(w, back, r, back[r].items)
    BY DEF Approval
  <2>2. /\ w \in Warehouses /\ back \in [SupplierReturns -> ReturnRows] /\ r \in SupplierReturns
        /\ c.items = back[r].items /\ c.items \in Seq(ItemRows)
        /\ n \in Nat /\ DOMAIN order = 1..n
    BY ApprovalIs
  <2> QED
    BY <2>1, <2>2
<1> HIDE DEF n
<1>2. PICK f : /\ f[0] = base
               /\ \A m \in 1..n : f[m] = ApproveItem(c, order[m], f[m - 1])
               /\ f[n] = Approving!Fold(c, base, 1..n)
  BY <1>1, ApprovingIs
<1> DEFINE Q == {m \in 0..n : MidApproval(w, back, clean, calm, extra, r, order, f[m], m)}
<1>3. 0 \in Q
  <2>1. Told(w, w)
    <3>1. \A sku \in Skus : w.stock[sku] \in Nat
      BY <1>1 DEF Warehouses
    <3> QED
      BY <3>1 DEF Told
  <2>2. Items(back, r, back[r].items) = back
    BY <1>1, ItemsTwice
  <2>3. /\ base.w = w /\ base.items = back[r].items /\ base.short = {} /\ base.all = TRUE
        /\ base \in Accs
    BY <1>1 DEF Accs
  <2>4. SameGoods(back[r].items, base.items)
    BY <1>1, <2>3 DEF SameGoods
  <2>5. clean \ base.short = clean /\ calm \ base.short = calm
    BY <2>3
  <2>6. MidApproval(w, back, clean, calm, extra, r, order, base, 0)
    BY <1>1, <2>1, <2>2, <2>3, <2>4, <2>5 DEF MidApproval
  <2> QED
    BY <1>1, <1>2, <2>6
<1>4. ASSUME NEW m \in 1..n, m - 1 \in Q PROVE m \in Q
  <2>1. MidApproval(w, back, clean, calm, extra, r, order, f[m - 1], m - 1)
    BY <1>4
  <2>2. f[m] = ApproveItem(c, order[m], f[m - 1]) /\ m \in 1..Len(c.items)
    BY <1>1, <1>2 DEF n
  <2> HIDE DEF Q
  <2>3. MidApproval(w, back, clean, calm, extra, r, order, f[m], m)
    BY <2>1, <2>2, ApprovalStep
  <2> QED
    BY <1>1, <2>3 DEF Q
<1>5. n \in Q
  <2> HIDE DEF Q
  <2>1. \A m \in 0..n : m \in Q
    BY <1>1, <1>3, <1>4, CountingUp
  <2> QED
    BY <1>1, <2>1
<1>6. f[n] = done /\ n = Len(back[r].items)
  BY <1>1, <1>2 DEF n
<1> QED
  BY <1>5, <1>6
-----------------------------------------------------------------------------
(* Returns that change their status *)
LEMMA HeldByReturn ==
  ASSUME NEW w, NEW back, NEW b, NEW r \in SupplierReturns
  PROVE  /\ back[r].status = "cancelled" => HeldBy(w.moves, back, r, b) = 0
         /\ back[r].status # "cancelled" =>
               HeldBy(w.moves, back, r, b) = PartsOf(w.moves[r], back[r].items, b)
<1>1. r \notin CustomerOrders
  BY DocumentsAre
<1> QED
  BY <1>1 DEF HeldBy, PartsOf

\* Only what the return r may give back changed, and it became no more.
LEMMA OnlyReturnKeeps ==
  ASSUME NEW clean, NEW calm, NEW w, NEW back, NEW more, Sound(w, back, clean, calm),
         NEW r \in SupplierReturns, OnlyDoc(w, w, back, more, r),
         \A b \in Batches : HeldBy(w.moves, more, r, b) <= HeldBy(w.moves, back, r, b)
  PROVE  Sound(w, more, clean, calm)
<1>1. r \in Orders
  BY DocumentsAre
<1>2. ASSUME NEW b \in Batches
      PROVE  /\ Held(w, back, b) \in Nat /\ Held(w, more, b) \in Nat
             /\ Held(w, more, b) <= Held(w, back, b)
  <2> DEFINE old == HeldBy(w.moves, back, r, b)
             new == HeldBy(w.moves, more, r, b)
  <2>1. /\ Held(w, more, b) = Held(w, back, b) + new - old
        /\ Held(w, more, b) \in Nat /\ Held(w, back, b) \in Nat
        /\ new \in Nat /\ old \in Nat
    BY <1>1, HeldChange
  <2>2. new <= old
    OBVIOUS
  <2> HIDE DEF new, old
  <2> QED
    BY <2>1, <2>2
<1> QED
  BY <1>2, LessHeldKeeps

Becomes(back, r, status, more) ==
    /\ back \in [SupplierReturns -> ReturnRows] /\ r \in SupplierReturns
    /\ status \in DOMAIN ReturnAfter
    /\ more = [back EXCEPT ![r].status = status]
LEMMA BecomesIs ==
  ASSUME NEW back, NEW r, NEW status, NEW more, Becomes(back, r, status, more)
  PROVE  /\ more \in [SupplierReturns -> ReturnRows]
         /\ more[r].items = back[r].items /\ more[r].status = status
         /\ \A s \in SupplierReturns \ {r} : more[s] = back[s]
<1> USE DEF Becomes
<1>1. back[r] \in ReturnRows
  OBVIOUS
<1>2. more[r] = [back[r] EXCEPT !.status = status] /\ \A s \in SupplierReturns \ {r} : more[s] = back[s]
  OBVIOUS
<1>3. more[r] \in ReturnRows /\ more[r].items = back[r].items /\ more[r].status = status
  BY <1>1, <1>2 DEF ReturnRows
<1>4. more \in [SupplierReturns -> ReturnRows]
  BY <1>2, <1>3
<1> QED
  BY <1>2, <1>3, <1>4

\* updateSupplierReturnStatus: a return that was not given up, or is.
LEMMA StatusKeeps ==
  ASSUME NEW clean, NEW calm, NEW w, NEW back, Sound(w, back, clean, calm), Pointed(w, back),
         NEW r, NEW status, NEW more, Becomes(back, r, status, more),
         status = "cancelled" \/ back[r].status # "cancelled"
  PROVE  Sound(w, more, clean, calm) /\ Pointed(w, more)
<1>1. /\ more \in [SupplierReturns -> ReturnRows]
      /\ more[r].items = back[r].items /\ more[r].status = status
      /\ \A s \in SupplierReturns \ {r} : more[s] = back[s]
  BY BecomesIs
<1>2. r \in SupplierReturns /\ r \in Orders /\ w \in Warehouses
  BY DocumentsAre DEF Becomes, Sound
<1>3. Pointed(w, more)
  BY <1>1 DEF Pointed
<1>4. OnlyDoc(w, w, back, more, r)
  BY <1>1, <1>2, <1>3 DEF OnlyDoc
<1>5. ASSUME NEW b \in Batches
      PROVE  HeldBy(w.moves, more, r, b) <= HeldBy(w.moves, back, r, b)
  <2> DEFINE old == HeldBy(w.moves, back, r, b)
             new == HeldBy(w.moves, more, r, b)
             parts == PartsOf(w.moves[r], back[r].items, b)
  <2>1. old \in Nat
    BY <1>2, HeldByNat
  <2>2. /\ status = "cancelled" => new = 0
        /\ status # "cancelled" => new = parts
    BY <1>1, <1>2, HeldByReturn
  <2>3. back[r].status # "cancelled" => old = parts
    BY <1>2, HeldByReturn
  <2> HIDE DEF new, old, parts
  <2>4. new <= old
    BY <2>1, <2>2, <2>3
  <2> QED
    BY <2>4 DEF new, old
<1>6. Sound(w, more, clean, calm)
  BY <1>2, <1>4, <1>5, OnlyReturnKeeps
<1> QED
  BY <1>3, <1>6

\* createSupplierReturn: no item of it has a movement.
Opens(back, r, row, more) ==
    /\ back \in [SupplierReturns -> ReturnRows] /\ r \in SupplierReturns
    /\ row \in ReturnRows /\ \A i \in DOMAIN row.items : row.items[i].move = 0
    /\ more = [back EXCEPT ![r] = row]
LEMMA OpensKeeps ==
  ASSUME NEW clean, NEW calm, NEW w, NEW back, Sound(w, back, clean, calm), Pointed(w, back),
         NEW r, NEW row, NEW more, Opens(back, r, row, more)
  PROVE  Sound(w, more, clean, calm) /\ Pointed(w, more)
<1>1. /\ more \in [SupplierReturns -> ReturnRows] /\ more[r] = row
      /\ \A s \in SupplierReturns \ {r} : more[s] = back[s]
      /\ r \in SupplierReturns /\ \A i \in DOMAIN row.items : row.items[i].move = 0
      /\ row.items \in Seq(ItemRows)
  BY DEF Opens, ReturnRows
<1>2. r \in Orders /\ w \in Warehouses
  BY <1>1, DocumentsAre DEF Sound
<1>3. Pointed(w, more)
  <2>1. Pointing(w.moves[r], more[r].items)
    BY <1>1 DEF Pointing
  <2> QED
    BY <1>1, <2>1 DEF Pointed
<1>4. OnlyDoc(w, w, back, more, r)
  BY <1>1, <1>2, <1>3 DEF OnlyDoc
<1>5. ASSUME NEW b \in Batches
      PROVE  HeldBy(w.moves, more, r, b) <= HeldBy(w.moves, back, r, b)
  <2> DEFINE old == HeldBy(w.moves, back, r, b)
             new == HeldBy(w.moves, more, r, b)
             parts == PartsOf(w.moves[r], row.items, b)
             c == [file |-> w.moves[r], items |-> row.items, batch |-> b]
  <2>1. old \in Nat
    BY <1>2, HeldByNat
  <2>2. parts = 0
    <3>1. \A i \in DOMAIN row.items : PartAt(c, i) = 0
      BY <1>1 DEF PartAt
    <3>2. IsFiniteSet(DOMAIN row.items)
      BY <1>1, FewRows
    <3>3. parts = Parts!Sum(c, DOMAIN row.items)
      BY DEF PartsOf
    <3> HIDE DEF c
    <3> QED
      BY <3>1, <3>2, <3>3, SameFinite, AllAdd, Parts!SumZero
  <2>3. new = 0 \/ new = parts
    BY <1>1, HeldByReturn
  <2> HIDE DEF new, old, parts
  <2>4. new <= old
    BY <2>1, <2>2, <2>3
  <2> QED
    BY <2>4 DEF new, old
<1>6. Sound(w, more, clean, calm)
  BY <1>1, <1>4, <1>5, OnlyReturnKeeps
<1> QED
  BY <1>3, <1>6
-----------------------------------------------------------------------------
(* Cancellations of a return *)
\* The items once the movements of the first m were undone.
Cleared(items, m) ==
    [i \in DOMAIN items |-> IF i <= m THEN [items[i] EXCEPT !.move = 0] ELSE items[i]]
LEMMA ClearedIs ==
  ASSUME NEW items \in Seq(ItemRows), NEW m \in DOMAIN items
  PROVE  /\ Pointed1(Cleared(items, m - 1), m, 0) = Cleared(items, m)
         /\ Cleared(items, m - 1)[m] = items[m] /\ m \in DOMAIN Cleared(items, m - 1)
         /\ Cleared(items, 0) = items
<1>1. DOMAIN items = 1..Len(items) /\ Len(items) \in Nat
  OBVIOUS
<1>2. /\ \A i \in DOMAIN items : i \in Int /\ (i <= m <=> i = m \/ i <= m - 1) /\ ~(i <= 0)
      /\ ~(m <= m - 1)
  BY <1>1
<1> DEFINE old == Cleared(items, m - 1)
           new == Cleared(items, m)
<1>3. DOMAIN old = DOMAIN items /\ DOMAIN new = DOMAIN items /\ old[m] = items[m]
  BY <1>2 DEF Cleared
<1>4. \A i \in DOMAIN items : new[i] = IF i = m THEN [old[m] EXCEPT !.move = 0] ELSE old[i]
  BY <1>2, <1>3 DEF Cleared
<1>5. new = [i \in DOMAIN items |-> new[i]] /\ old = [i \in DOMAIN items |-> old[i]]
  BY DEF Cleared
<1>6. new = [old EXCEPT ![m] = [old[m] EXCEPT !.move = 0]]
  <2> HIDE DEF old, new
  <2> QED
    BY <1>3, <1>4, <1>5
<1>7. Pointed1(old, m, 0) = new
  BY <1>6 DEF Pointed1
<1>8. Cleared(items, 0) = items
  <2>1. Cleared(items, 0) = [i \in DOMAIN items |-> items[i]]
    BY <1>2 DEF Cleared
  <2>2. items = [i \in DOMAIN items |-> items[i]]
    BY <1>1
  <2> QED
    BY <2>1, <2>2
<1> QED
  BY <1>3, <1>7, <1>8

\* The first m items of sku that were written off.
BackOf(items, m, sku) == {i \in DOMAIN items : i <= m /\ items[i].sku = sku /\ items[i].move # 0}
LEMMA ItemSums ==
  ASSUME NEW items \in Seq(ItemRows), NEW S \in SUBSET DOMAIN items
  PROVE  /\ Amount!Summable(items, S) /\ Amount!Sum(items, S) \in Nat
         /\ \A k \in DOMAIN items : /\ items[k] \in ItemRows /\ items[k].quantity \in Nat
                                    /\ QuantityAt(items, k) = items[k].quantity
<1>1. \A k \in DOMAIN items : items[k] \in ItemRows
  OBVIOUS
<1>2. \A k \in DOMAIN items : items[k].quantity \in Nat /\ QuantityAt(items, k) = items[k].quantity
  BY <1>1 DEF ItemRows, QuantityAt
<1>3. IsFiniteSet(S)
  BY FewRows
<1>4. \A k \in S : QuantityAt(items, k) \in Nat
  BY <1>2
<1>5. Amount!Summable(items, S) /\ Amount!Sum(items, S) \in Nat
  BY <1>3, <1>4, SameFinite, AllAdd, Amount!SumNat DEF Amount!Summable
<1> QED
  BY <1>1, <1>2, <1>5

LEMMA BackGrows ==
  ASSUME NEW items \in Seq(ItemRows), NEW m \in DOMAIN items, NEW sku
  PROVE  /\ Amount!Sum(items, BackOf(items, m, sku))
               = Amount!Sum(items, BackOf(items, m - 1, sku)) + GivenBack(items[m], sku)
         /\ Amount!Sum(items, BackOf(items, m - 1, sku)) \in Nat
         /\ GivenBack(items[m], sku) \in Nat
<1> DEFINE S == BackOf(items, m - 1, sku)
           R == BackOf(items, m, sku)
           here == items[m].sku = sku /\ items[m].move # 0
<1>1. DOMAIN items = 1..Len(items) /\ Len(items) \in Nat
  OBVIOUS
<1>2. S \in SUBSET DOMAIN items /\ R \in SUBSET DOMAIN items
  BY DEF BackOf
<1>3. R = (IF here THEN S \cup {m} ELSE S) /\ m \notin S
  BY <1>1 DEF BackOf
<1>4. GivenBack(items[m], sku) = IF here THEN items[m].quantity ELSE 0
  BY DEF GivenBack
<1> HIDE DEF R, S, here
<1>5. /\ Amount!Summable(items, R) /\ Amount!Sum(items, S) \in Nat
      /\ QuantityAt(items, m) = items[m].quantity /\ items[m].quantity \in Nat
  BY <1>2, ItemSums
<1>6. CASE here
  <2>1. Amount!Summable(items, S \cup {m})
    BY <1>3, <1>5, <1>6
  <2>2. Amount!Sum(items, S \cup {m}) = Amount!Sum(items, S) + QuantityAt(items, m)
    BY <1>3, <2>1, AllAdd, Amount!SumAdd
  <2> QED
    BY <1>3, <1>4, <1>5, <1>6, <2>2 DEF R, S
<1>7. CASE ~here
  BY <1>3, <1>4, <1>5, <1>7 DEF R, S
<1> QED
  BY <1>6, <1>7

\* The warehouse u after the first m items of r were put back.
MidCancel(w, u, back, clean, calm, r, items, m) ==
    /\ Sound(u, Items(back, r, Cleared(items, m)), clean, calm)
    /\ Undoable(u, Items(back, r, Cleared(items, m)), r, Cleared(items, m))
    /\ u.moves = w.moves /\ Told(w, u)
    /\ \A sku \in Skus : u.stock[sku] = w.stock[sku] + Amount!Sum(items, BackOf(items, m, sku))

\* The cancellation of the return r.
Cancellation(w, back, r, items) ==
    /\ Undoable(w, back, r, items) /\ items \in Seq(ItemRows)
    /\ ItemsHaveMoves(w.moves[r], items)

LEMMA CancelStep ==
  ASSUME NEW clean, NEW calm, Nested(clean, calm),
         NEW w, NEW u, NEW v, NEW back, NEW r, NEW items, NEW m \in DOMAIN items,
         Cancellation(w, back, r, items),
         MidCancel(w, u, back, clean, calm, r, items, m - 1),
         v = PutBack(u, r, items[m])
  PROVE  MidCancel(w, v, back, clean, calm, r, items, m)
<1> DEFINE old == Cleared(items, m - 1)
           new == Cleared(items, m)
           b1 == Items(back, r, old)
           more == Items(back, r, new)
<1>1. /\ Undoable(w, back, r, items) /\ items \in Seq(ItemRows)
      /\ ItemsHaveMoves(w.moves[r], items)
  BY DEF Cancellation
<1>2. /\ Sound(u, b1, clean, calm) /\ Undoable(u, b1, r, old)
      /\ u.moves = w.moves /\ Told(w, u)
      /\ \A sku \in Skus : u.stock[sku] = w.stock[sku] + Amount!Sum(items, BackOf(items, m - 1, sku))
  BY DEF MidCancel
<1>3. /\ Pointed1(old, m, 0) = new /\ old[m] = items[m] /\ m \in DOMAIN old
  BY <1>1, ClearedIs
<1>4. Filled(u.moves[r], items[m])
  BY <1>1, <1>2 DEF Filled, ItemsHaveMoves
<1>5. /\ back \in [SupplierReturns -> ReturnRows] /\ r \in SupplierReturns
      /\ w \in Warehouses /\ u \in Warehouses
  BY <1>1, <1>2 DEF Undoable, Pointed
<1> HIDE DEF old, new
<1>6. Items(b1, r, new) = more
  <2>1. \A a, b : Items(Items(back, r, a), r, b) = Items(back, r, b)
    BY <1>5, ItemsTwice
  <2> QED
    BY <2>1
<1> HIDE DEF b1, more
<1>7. PutsBack(u, v, b1, r, old, m)
  BY <1>2, <1>3, <1>4 DEF PutsBack
<1>8. /\ v \in Warehouses /\ v.moves = u.moves /\ Told(u, v)
      /\ \A sku \in Skus : v.stock[sku] = u.stock[sku] + GivenBack(old[m], sku)
  BY <1>7, PutBackIs
<1>9. Sound(v, more, clean, calm) /\ Undoable(v, more, r, new)
  <2>1. more = Items(b1, r, Pointed1(old, m, 0))
    BY <1>3, <1>6
  <2>2. Sound(v, more, clean, calm) /\ Undoable(v, more, r, Pointed1(old, m, 0))
    BY ONLY <1>2, <1>7, <2>1, Nested(clean, calm), PutBackKeeps
  <2> QED
    BY <1>3, <2>2
<1>10. Told(w, v)
  BY <1>2, <1>5, <1>8, ToldTwice
<1>11. ASSUME NEW sku \in Skus
       PROVE  v.stock[sku] = w.stock[sku] + Amount!Sum(items, BackOf(items, m, sku))
  <2> DEFINE before == Amount!Sum(items, BackOf(items, m - 1, sku))
             after == Amount!Sum(items, BackOf(items, m, sku))
             gain == GivenBack(items[m], sku)
  <2>1. after = before + gain /\ before \in Nat /\ gain \in Nat
    BY <1>1, BackGrows
  <2>2. w.stock[sku] \in Nat
    BY <1>5 DEF Warehouses
  <2>3. u.stock[sku] = w.stock[sku] + before /\ v.stock[sku] = u.stock[sku] + gain
    BY <1>2, <1>3, <1>8
  <2> HIDE DEF before, after, gain
  <2>4. v.stock[sku] = w.stock[sku] + after
    BY <2>1, <2>2, <2>3
  <2> QED
    BY <2>4 DEF after
<1> QED
  BY <1>2, <1>8, <1>9, <1>10, <1>11 DEF MidCancel, more, new

LEMMA CancelKeeps ==
  ASSUME NEW clean, NEW calm, Nested(clean, calm),
         NEW w, NEW v, NEW back, NEW r, NEW items,
         Cancellation(w, back, r, items), Sound(w, back, clean, calm),
         v = Undoing!Fold([rows |-> items, doc |-> r], w, DOMAIN items)
  PROVE  MidCancel(w, v, back, clean, calm, r, items, Len(items))
<1> DEFINE n == Len(items)
<1>1. /\ DOMAIN items = 1..n /\ n \in Nat /\ items \in Seq(ItemRows)
      /\ Undoable(w, back, r, items)
  BY DEF Cancellation
<1>2. /\ w \in Warehouses /\ back \in [SupplierReturns -> ReturnRows] /\ r \in SupplierReturns
      /\ items = back[r].items
  BY <1>1 DEF Undoable, Pointed
<1> HIDE DEF n
<1>3. PICK f : /\ f[0] = w
               /\ \A m \in 1..n : f[m] = PutBack(f[m - 1], r, items[m])
               /\ f[n] = Undoing!Fold([rows |-> items, doc |-> r], w, 1..n)
  BY <1>1, UndoingIs
<1> DEFINE Q == {m \in 0..n : MidCancel(w, f[m], back, clean, calm, r, items, m)}
<1>4. 0 \in Q
  <2>1. \A sku \in Skus : w.stock[sku] \in Nat
    BY <1>2 DEF Warehouses
  <2>2. Told(w, w)
    BY <2>1 DEF Told
  <2>3. \A sku \in Skus : w.stock[sku] = w.stock[sku] + Amount!Sum(items, BackOf(items, 0, sku))
    <3> TAKE sku \in Skus
    <3>1. BackOf(items, 0, sku) = {}
      BY <1>1 DEF BackOf
    <3>2. Amount!Sum(items, {}) = 0
      BY Amount!SumEmpty
    <3> QED
      BY <2>1, <3>1, <3>2
  <2>4. Cleared(items, 0) = items
    <3>1. \A i \in DOMAIN items : ~(i <= 0)
      BY <1>1
    <3>2. Cleared(items, 0) = [i \in DOMAIN items |-> items[i]]
      BY <3>1 DEF Cleared
    <3>3. items = [i \in DOMAIN items |-> items[i]]
      BY <1>1
    <3> QED
      BY <3>2, <3>3
  <2>5. Items(back, r, Cleared(items, 0)) = back
    BY <1>2, <2>4, ItemsTwice
  <2>6. MidCancel(w, w, back, clean, calm, r, items, 0)
    BY <1>1, <2>2, <2>3, <2>4, <2>5 DEF MidCancel
  <2> QED
    BY <1>1, <1>3, <2>6
<1>5. ASSUME NEW m \in 1..n, m - 1 \in Q PROVE m \in Q
  <2>1. MidCancel(w, f[m - 1], back, clean, calm, r, items, m - 1)
    BY <1>5
  <2>2. f[m] = PutBack(f[m - 1], r, items[m]) /\ m \in DOMAIN items
    BY <1>1, <1>3
  <2> HIDE DEF Q
  <2>3. MidCancel(w, f[m], back, clean, calm, r, items, m)
    BY <2>1, <2>2, CancelStep
  <2> QED
    BY <1>1, <2>3 DEF Q
<1>6. n \in Q
  <2> HIDE DEF Q
  <2>1. \A m \in 0..n : m \in Q
    BY <1>1, <1>4, <1>5, CountingUp
  <2> QED
    BY <1>1, <2>1
<1>7. f[n] = v
  BY <1>1, <1>3
<1> QED
  BY <1>6, <1>7 DEF n

\* approved -> cancelled, with what was put back noted.
Undone(w, v, r, items) == v = Undoing!Fold([rows |-> items, doc |-> r], w, DOMAIN items)
Noted(extra, extra2, items) ==
    extra2 = [sku \in Skus |-> extra[sku] + Amount!Sum(items, BackOf(items, Len(items), sku))]
LEMMA CancelledKeeps ==
  ASSUME NEW clean, NEW calm, Nested(clean, calm),
         NEW extra \in [Skus -> Nat], NEW extra2,
         NEW w, NEW v, NEW back, NEW r, NEW items,
         Cancellation(w, back, r, items), Sound(w, back, clean, calm), OnFile(w, extra),
         Undone(w, v, r, items), Noted(extra, extra2, items),
         NEW more, Becomes(back, r, "cancelled", more)
  PROVE  /\ Sound(v, more, clean, calm) /\ Pointed(v, more) /\ v.moves = w.moves /\ Told(w, v)
         /\ OnFile(v, extra2) /\ extra2 \in [Skus -> Nat]
<1> DEFINE new == Cleared(items, Len(items))
           b1 == Items(back, r, new)
<1>0. extra2 = [sku \in Skus |-> extra[sku] + Amount!Sum(items, BackOf(items, Len(items), sku))]
  BY DEF Noted
<1>1. MidCancel(w, v, back, clean, calm, r, items, Len(items))
  BY CancelKeeps DEF Undone
<1>2. /\ Sound(v, b1, clean, calm) /\ Undoable(v, b1, r, new)
      /\ v.moves = w.moves /\ Told(w, v)
      /\ \A sku \in Skus : v.stock[sku] = w.stock[sku] + Amount!Sum(items, BackOf(items, Len(items), sku))
  BY <1>1 DEF MidCancel
<1>3. /\ items \in Seq(ItemRows) /\ Undoable(w, back, r, items)
  BY DEF Cancellation
<1>4. /\ w \in Warehouses /\ v \in Warehouses /\ r \in SupplierReturns
      /\ back \in [SupplierReturns -> ReturnRows] /\ Pointed(w, back) /\ Pointed(v, b1)
      /\ b1 \in [SupplierReturns -> ReturnRows]
  BY <1>2, <1>3 DEF Undoable, Pointed
<1>5. /\ more \in [SupplierReturns -> ReturnRows]
      /\ more[r].items = back[r].items /\ more[r].status = "cancelled"
      /\ \A s \in SupplierReturns \ {r} : more[s] = back[s]
  BY BecomesIs
<1>6. \A s \in SupplierReturns \ {r} : b1[s] = back[s]
  BY DEF Items
<1> HIDE DEF new, b1
<1>7. Pointed(v, more)
  BY <1>2, <1>4, <1>5 DEF Pointed
<1>8. Sound(v, more, clean, calm)
  <2>1. OnlyDoc(v, v, b1, more, r)
    BY <1>4, <1>5, <1>6, <1>7 DEF OnlyDoc
  <2>2. ASSUME NEW b \in Batches
        PROVE  HeldBy(v.moves, more, r, b) <= HeldBy(v.moves, b1, r, b)
    <3>1. HeldBy(v.moves, more, r, b) = 0
      BY <1>4, <1>5, HeldByReturn
    <3>2. HeldBy(v.moves, b1, r, b) \in Nat
      <4>1. r \in Orders
        BY <1>4, DocumentsAre
      <4> QED
        BY <1>4, <4>1, HeldByNat
    <3> QED
      BY <3>1, <3>2
  <2> QED
    BY <1>2, <1>4, <2>1, <2>2, OnlyReturnKeeps
<1>9. \A sku \in Skus : Amount!Sum(items, BackOf(items, Len(items), sku)) \in Nat
  <2> TAKE sku \in Skus
  <2>1. BackOf(items, Len(items), sku) \in SUBSET DOMAIN items
    BY DEF BackOf
  <2> QED
    BY <1>3, <2>1, ItemSums
<1>10. extra2 \in [Skus -> Nat]
  BY <1>0, <1>9
<1>11. \A sku \in Skus : v.stock[sku] - w.stock[sku] = extra2[sku] - extra[sku]
  <2> TAKE sku \in Skus
  <2> DEFINE back1 == Amount!Sum(items, BackOf(items, Len(items), sku))
  <2>1. back1 \in Nat /\ w.stock[sku] \in Nat /\ extra[sku] \in Nat
    BY <1>4, <1>9 DEF Warehouses
  <2>2. v.stock[sku] = w.stock[sku] + back1 /\ extra2[sku] = extra[sku] + back1
    BY <1>0, <1>2
  <2> HIDE DEF back1
  <2> QED
    BY <2>1, <2>2
<1>12. OnFile(v, extra2)
  <2>1. w \in Warehouses /\ v \in Warehouses /\ v.moves = w.moves
    BY <1>2, <1>4
  <2>2. extra \in [Skus -> Nat] /\ OnFile(w, extra)
    OBVIOUS
  <2> QED
    BY ONLY <2>1, <2>2, <1>10, <1>11, NotedOnFile
<1> QED
  BY <1>2, <1>7, <1>8, <1>10, <1>12
-----------------------------------------------------------------------------
(* What the operations leave alone *)
LEMMA InvIs ==
  ASSUME IInv
  PROVE  /\ warehouse \in Warehouses /\ Pointed(warehouse, return)
         /\ OnFile(warehouse, unfiled) /\ unfiled \in [Skus -> Nat]
         /\ Nested(Clean, Calm) /\ Sound(warehouse, return, Clean, Calm)
<1>1. /\ warehouse \in Warehouses /\ return \in [SupplierReturns -> ReturnRows]
      /\ unfiled \in [Skus -> Nat]
  BY DEF IInv, Types
<1>2. ASSUME NEW r \in SupplierReturns PROVE Pointing(warehouse.moves[r], return[r].items)
  <2>1. ItemsHaveMoves(warehouse.moves[r], return[r].items)
    BY DEF IInv, ReturnsFit, ReturnFits
  <2> QED
    BY <2>1 DEF ItemsHaveMoves, Pointing
<1>3. OnFile(warehouse, unfiled)
  BY DEF IInv, StockOnFile, OnFile
<1>4. Nested(Clean, Calm)
  BY DEF Nested, Clean, Calm
<1> QED
  BY <1>1, <1>2, <1>3, <1>4 DEF IInv, Pointed

\* A file is only added to.
Longer(old, new) == \A i \in DOMAIN old : i \in DOMAIN new /\ new[i] = old[i]
LEMMA CleanKept ==
  ASSUME spoilt \subseteq spoilt', Longer(warehouse.moves[Shed], warehouse.moves[Shed]')
  PROVE  Clean' \in SUBSET Clean /\ Calm' \in SUBSET Calm /\ Nested(Clean', Calm')
<1>1. Clean' \in SUBSET Clean
  BY DEF Clean
<1>2. \A sku : MovedByHand(sku) => MovedByHand(sku)'
  BY DEF MovedByHand, Longer
<1>3. Calm' \in SUBSET Calm
  BY <1>1, <1>2 DEF Calm
<1> QED
  BY <1>1, <1>3 DEF Nested, Clean, Calm

LEMMA ReturnsKept ==
  ASSUME ReturnsFit, return' = return,
         \A r \in SupplierReturns : warehouse'.moves[r] = warehouse.moves[r]
  PROVE  ReturnsFit'
BY DEF ReturnsFit, ReturnFits

LEMMA OneReturn ==
  ASSUME ReturnsFit, NEW r \in SupplierReturns,
         \A s \in SupplierReturns \ {r} :
            return'[s] = return[s] /\ warehouse'.moves[s] = warehouse.moves[s],
         ReturnFits(warehouse'.moves[r], return'[r])
  PROVE  ReturnsFit'
BY DEF ReturnsFit, ReturnFits

LEMMA SalesKept ==
  ASSUME SalesFirst, \A o \in CustomerOrders : warehouse'.moves[o] = warehouse.moves[o]
  PROVE  SalesFirst'
BY DEF SalesFirst

\* Nobody is told of what did not come.
Tells == \A sku \in Skus :
            warehouse'.stock[sku] > warehouse.stock[sku] => sku \notin warehouse'.waiting
LEMMA ToldTells ==
  ASSUME Told(warehouse, warehouse')
  PROVE  Tells
BY DEF Told, Tells

LEMMA SameTells ==
  ASSUME warehouse \in Warehouses, warehouse'.stock = warehouse.stock
  PROVE  Tells
<1>1. \A sku \in Skus : warehouse.stock[sku] \in Nat
  BY DEF Warehouses
<1> QED
  BY <1>1 DEF Tells

\* What is written down of the goods alone, on documents that are not orders' or returns'.
LEMMA SoundKept ==
  ASSUME IInv, NEW v, v = warehouse', NEW more, more = return', 
         Sound(v, more, Clean, Calm),
         spoilt \subseteq spoilt', Longer(warehouse.moves[Shed], warehouse.moves[Shed]')
  PROVE  Sound(warehouse, return, Clean, Calm)'
<1>1. Clean' \in SUBSET Clean /\ Calm' \in SUBSET Calm
  BY CleanKept
<1>2. Sound(v, more, Clean', Calm')
  BY <1>1, SoundOfFewer
<1> QED
  BY <1>2

\* No change of the warehouse.
LEMMA FileIs == StockOnFile <=> OnFile(warehouse, unfiled)
BY DEF StockOnFile, OnFile
LEMMA FileWillBe == (StockOnFile <=> OnFile(warehouse, unfiled))'
BY FileIs, PTL

LEMMA WarehouseKept ==
  ASSUME IInv, UNCHANGED <<warehouse, unfiled>>
  PROVE  /\ (warehouse \in Warehouses)' /\ StockOnFile' /\ SalesFirst' /\ Tells
         /\ Longer(warehouse.moves[Shed], warehouse.moves[Shed]')
<1>1. warehouse \in Warehouses /\ OnFile(warehouse, unfiled) /\ SalesFirst
  BY FileIs DEF IInv, Types
<1>2. OnFile(warehouse', unfiled')
  BY <1>1
<1>3. StockOnFile'
  BY <1>2, FileWillBe
<1>4. SalesFirst' /\ Tells
  BY <1>1, SameTells, SalesKept
<1> QED
  BY <1>1, <1>3, <1>4 DEF Longer
-----------------------------------------------------------------------------
(* Purchase orders *)
LinesOf(lines, sku) == {i \in DOMAIN lines : lines[i].sku = sku}
Came(lines, i) == lines[i].received > 0
Full(lines, i) == lines[i].received >= lines[i].ordered

OrderFits(w, row, p, double) ==
    /\ \A sku \in Skus : NetOf(w, p, sku) = Come!Sum(row.lines, LinesOf(row.lines, sku))
    /\ row.status \in {"draft", "submitted"} => \A i \in DOMAIN row.lines : ~Came(row.lines, i)
    /\ row.status = "partially_received" =>
          (\E i \in DOMAIN row.lines : Came(row.lines, i)) /\ (\E i \in DOMAIN row.lines : ~Full(row.lines, i))
    /\ row.status = "received" => \A i \in DOMAIN row.lines : Full(row.lines, i)
    /\ ~double => \A i \in DOMAIN row.lines : row.lines[i].received <= row.lines[i].ordered
    /\ row.status = "none" => row.lines = <<>>

LEMMA ComeIs ==
  ASSUME NEW lines, NEW sku
  PROVE  MapThenSumSet(LAMBDA i : lines[i].received, {i \in DOMAIN lines : lines[i].sku = sku})
            = Come!Sum(lines, LinesOf(lines, sku))
BY DEF LinesOf, MapThenSumSet, MapThenFoldSet, Come!Sum, Come!Fold, Come!MapThenFoldSet,
       ReceivedAt, Plus, Some

OrdersFitIn(w, orders, double) ==
    \A p \in PurchaseOrders : OrderFits(w, orders[p], p, p \in double)
LEMMA OrdersAre == OrdersFit <=> OrdersFitIn(warehouse, po, doubled)
BY ComeIs DEF OrdersFit, ReceiptsAddUp, OrdersMatchReceipts, WithinOrdered, OrdersFitIn, OrderFits,
              Came, Full
LEMMA OrdersWillBe == (OrdersFit <=> OrdersFitIn(warehouse, po, doubled))'
BY OrdersAre, PTL

\* The receipts of a purchase order are all that its lines are compared with.
LEMMA SameOrder ==
  ASSUME NEW w, NEW v, NEW row, NEW p, NEW double,
         OrderFits(w, row, p, double), v.moves[p] = w.moves[p]
  PROVE  OrderFits(v, row, p, double)
<1>1. \A sku : NetOf(v, p, sku) = NetOf(w, p, sku)
  BY NetIsSum
<1> QED
  BY <1>1 DEF OrderFits

LEMMA OrdersKept ==
  ASSUME OrdersFit, po' = po, doubled' = doubled,
         \A p \in PurchaseOrders : warehouse'.moves[p] = warehouse.moves[p]
  PROVE  OrdersFit'
<1>1. \A p \in PurchaseOrders : OrderFits(warehouse, po[p], p, p \in doubled)
  BY OrdersAre DEF OrdersFitIn
<1>2. \A p \in PurchaseOrders : OrderFits(warehouse', po'[p], p, p \in doubled')
  BY <1>1, SameOrder
<1> QED
  BY <1>2, OrdersWillBe DEF OrdersFitIn

\* Only the purchase order p changed.
LEMMA OneOrder ==
  ASSUME OrdersFit, NEW p \in PurchaseOrders,
         \A q \in PurchaseOrders \ {p} :
            /\ po'[q] = po[q] /\ (q \in doubled' <=> q \in doubled)
            /\ warehouse'.moves[q] = warehouse.moves[q],
         OrderFits(warehouse', po'[p], p, p \in doubled')
  PROVE  OrdersFit'
<1>1. \A q \in PurchaseOrders : OrderFits(warehouse, po[q], q, q \in doubled)
  BY OrdersAre DEF OrdersFitIn
<1>2. ASSUME NEW q \in PurchaseOrders \ {p}
      PROVE  OrderFits(warehouse', po'[q], q, q \in doubled')
  <2>1. OrderFits(warehouse', po'[q], q, q \in doubled)
    BY <1>1, SameOrder
  <2> QED
    BY <2>1 DEF OrderFits
<1>3. \A q \in PurchaseOrders : OrderFits(warehouse', po'[q], q, q \in doubled')
  BY <1>2
<1> QED
  BY <1>3, OrdersWillBe DEF OrdersFitIn

\* Lines of which nothing has come.
Fresh(lines) == lines \in Seq(LineRows) /\ \A i \in DOMAIN lines : lines[i].received = 0
LEMMA FreshSum ==
  ASSUME NEW lines, Fresh(lines), NEW sku
  PROVE  Come!Sum(lines, LinesOf(lines, sku)) = 0
<1>1. LinesOf(lines, sku) \in SUBSET DOMAIN lines
  BY DEF LinesOf
<1>2. IsFiniteSet(LinesOf(lines, sku))
  BY <1>1, FewRows DEF Fresh
<1>3. \A i \in LinesOf(lines, sku) : ReceivedAt(lines, i) = 0
  BY <1>1 DEF ReceivedAt, Fresh
<1> QED
  BY <1>2, <1>3, SameFinite, AllAdd, Come!SumZero

LEMMA FreshFits ==
  ASSUME NEW w, NEW old \in OrderRows, NEW p, NEW double, OrderFits(w, old, p, double),
         old.status \in {"none", "draft"}, NEW lines, Fresh(lines),
         NEW row, row.status = "draft", row.lines = lines
  PROVE  OrderFits(w, row, p, double)
<1>1. Fresh(old.lines)
  <2>1. old.lines \in Seq(LineRows) /\ \A i \in DOMAIN old.lines : old.lines[i] \in LineRows
    BY DEF OrderRows
  <2>2. CASE old.status = "none"
    <3>1. old.lines = <<>>
      BY <2>2 DEF OrderFits
    <3> QED
      BY <3>1 DEF Fresh
  <2>3. CASE old.status = "draft"
    <3>1. \A i \in DOMAIN old.lines : ~(old.lines[i].received > 0) /\ old.lines[i].received \in Nat
      BY <2>1, <2>3 DEF OrderFits, Came, LineRows
    <3> QED
      BY <2>1, <3>1 DEF Fresh
  <2> QED
    BY <2>2, <2>3
<1>2. \A sku \in Skus : NetOf(w, p, sku) = Come!Sum(old.lines, LinesOf(old.lines, sku))
  BY DEF OrderFits
<1>3. \A sku \in Skus : NetOf(w, p, sku) = Come!Sum(row.lines, LinesOf(row.lines, sku))
  BY <1>1, <1>2, FreshSum
<1>4. \A i \in DOMAIN lines : lines[i].received = 0 /\ lines[i].ordered \in Nat
  <2>1. \A i \in DOMAIN lines : lines[i] \in LineRows
    BY DEF Fresh
  <2> QED
    BY <2>1 DEF Fresh, LineRows
<1> QED
  BY <1>3, <1>4 DEF OrderFits, Came

\* A change of the purchase order p alone.
OrderOnly(p, row) ==
    /\ p \in PurchaseOrders /\ row \in OrderRows /\ po' = [po EXCEPT ![p] = row]
    /\ UNCHANGED <<return, warehouse, expired, latest, unfiled, spoilt, doubled>>
LEMMA OrderOnlyKeeps ==
  ASSUME IInv, NEW p, NEW row, OrderOnly(p, row),
         OrderFits(warehouse, row, p, p \in doubled)
  PROVE  IInv' /\ Tells
<1> USE DEF OrderOnly
<1>1. Types /\ ReturnsFit /\ OrdersFit /\ Sound(warehouse, return, Clean, Calm)
  BY DEF IInv
<1>2. Types'
  BY <1>1 DEF Types
<1>3. StockOnFile' /\ SalesFirst' /\ Tells /\ Longer(warehouse.moves[Shed], warehouse.moves[Shed]')
  BY WarehouseKept
<1>4. Sound(warehouse, return, Clean, Calm)'
  <2>1. \A sku : MovedByHand(sku)' <=> MovedByHand(sku)
    BY DEF MovedByHand
  <2>2. Clean' = Clean /\ Calm' = Calm
    BY <2>1 DEF Clean, Calm
  <2> QED
    BY <1>1, <2>2
<1>5. ReturnsFit'
  BY <1>1, ReturnsKept
<1>6. OrdersFit'
  <2>1. po'[p] = row /\ \A q \in PurchaseOrders \ {p} : po'[q] = po[q]
    BY <1>1 DEF Types
  <2> QED
    BY <1>1, <2>1, OneOrder
<1> QED
  BY <1>2, <1>3, <1>4, <1>5, <1>6 DEF IInv

LEMMA OrderIsFit ==
  ASSUME IInv, NEW p \in PurchaseOrders
  PROVE  OrderFits(warehouse, po[p], p, p \in doubled) /\ po[p] \in OrderRows
BY OrdersAre DEF IInv, Types, OrdersFitIn

\* createPurchaseOrder and its like: new lines for an order of which nothing has come.
LEMMA NewLinesKeep ==
  ASSUME IInv, NEW p \in PurchaseOrders, po[p].status \in {"none", "draft"},
         NEW lines, Fresh(lines), NEW row, row = [status |-> "draft", lines |-> lines],
         OrderOnly(p, row)
  PROVE  IInv' /\ Tells
<1>1. OrderFits(warehouse, po[p], p, p \in doubled) /\ po[p] \in OrderRows
  BY OrderIsFit
<1>2. OrderFits(warehouse, row, p, p \in doubled)
  BY <1>1, FreshFits
<1> QED
  BY <1>2, OrderOnlyKeeps

LEMMA BasketLines ==
  ASSUME NEW basket \in Baskets, NEW lines, lines = [i \in DOMAIN basket |-> Line(basket[i])]
  PROVE  Fresh(lines)
<1> DEFINE Ordered == [sku : Skus, quantity : Nat \ {0}]
<1>1. basket \in Seq(Ordered)
  BY PurchasingAssumption
<1>2. DOMAIN basket = 1..Len(basket) /\ Len(basket) \in Nat
      /\ \A i \in DOMAIN basket : basket[i] \in Ordered
  <2> HIDE DEF Ordered
  <2> QED
    BY ONLY <1>1
<1>3. \A i \in DOMAIN basket : Line(basket[i]) \in LineRows /\ Line(basket[i]).received = 0
  BY <1>2 DEF Line, LineRows
<1>4. lines \in [1..Len(basket) -> LineRows]
  BY <1>2, <1>3
<1>5. lines \in Seq(LineRows) /\ DOMAIN lines = DOMAIN basket
  BY <1>2, <1>4
<1> QED
  BY <1>3, <1>5 DEF Fresh

LEMMA CreateKeeps ==
  ASSUME IInv, NEW p \in PurchaseOrders, NEW basket \in Baskets, CreatePurchaseOrder(p, basket)
  PROVE  IInv' /\ Tells
<1> DEFINE lines == [i \in DOMAIN basket |-> Line(basket[i])]
           row == [status |-> "draft", lines |-> lines]
<1>1. Fresh(lines)
  BY BasketLines
<1>2. po[p].status \in {"none", "draft"} /\ po' = [po EXCEPT ![p] = row]
      /\ UNCHANGED <<return, warehouse, expired, latest, unfiled, spoilt, doubled>>
  BY DEF CreatePurchaseOrder
<1> HIDE DEF lines
<1>3. row \in OrderRows
  BY <1>1 DEF OrderRows, Fresh, OrderAfter
<1>4. OrderOnly(p, row)
  BY <1>2, <1>3 DEF OrderOnly
<1> QED
  BY <1>1, <1>2, <1>4, NewLinesKeep

LEMMA UpdateKeeps ==
  ASSUME IInv, NEW p \in PurchaseOrders, NEW lines, Fresh(lines), po[p].status = "draft",
         po' = [po EXCEPT ![p].lines = lines],
         UNCHANGED <<return, warehouse, expired, latest, unfiled, spoilt, doubled>>
  PROVE  IInv' /\ Tells
<1> DEFINE row == [status |-> "draft", lines |-> lines]
<1>1. po \in [PurchaseOrders -> OrderRows] /\ po[p] \in OrderRows
  BY DEF IInv, Types
<1>2. [po[p] EXCEPT !.lines = lines] = row
  BY <1>1 DEF OrderRows
<1>3. po' = [po EXCEPT ![p] = row]
  <2>1. po' = [po EXCEPT ![p] = [po[p] EXCEPT !.lines = lines]]
    OBVIOUS
  <2> HIDE DEF row
  <2> QED
    BY ONLY <1>2, <2>1
<1>4. row \in OrderRows
  BY DEF OrderRows, Fresh, OrderAfter
<1>5. OrderOnly(p, row)
  <2> HIDE DEF row
  <2> QED
    BY <1>3, <1>4 DEF OrderOnly
<1> QED
  BY <1>5, NewLinesKeep

LEMMA UpdateDraftKeeps ==
  ASSUME IInv, NEW p \in PurchaseOrders, NEW basket \in Baskets, UpdateDraft(p, basket)
  PROVE  IInv' /\ Tells
<1> DEFINE lines == [i \in DOMAIN basket |-> Line(basket[i])]
<1>1. Fresh(lines)
  BY BasketLines
<1>2. po[p].status = "draft" /\ po' = [po EXCEPT ![p].lines = lines]
      /\ UNCHANGED <<return, warehouse, expired, latest, unfiled, spoilt, doubled>>
  BY DEF UpdateDraft
<1> HIDE DEF lines
<1> QED
  BY <1>1, <1>2, UpdateKeeps

\* mergeRecommendationsIntoDraftPurchaseOrder
LEMMA FiniteImage ==
  ASSUME NEW S, IsFiniteSet(S), NEW f, NEW T, T = {f[x] : x \in S}
  PROVE  IsFiniteSet(T)
<1> DEFINE g == [x \in S |-> f[x]]
<1>1. g \in Surjection(S, T)
  BY DEF Surjection
<1> QED
  BY <1>1, FS_Surjection

LEMMA SequenceOf ==
  ASSUME NEW S, IsFiniteSet(S)
  PROVE  SetToSeq(S) \in Seq(S)
<1> DEFINE n == Cardinality(S)
           seq == CHOOSE f \in [1..n -> S] : IsInjective(f)
<1>1. n \in Nat /\ ExistsBijection(1..n, S)
  BY FS_CardinalityType
<1>2. \E f \in [1..n -> S] : IsInjective(f)
  BY <1>1 DEF ExistsBijection, Bijection, Injection
<1>3. seq \in [1..n -> S]
  BY <1>2
<1>4. SetToSeq(S) = seq
  BY DEF SetToSeq
<1> HIDE DEF seq
<1> QED
  BY <1>1, <1>3, <1>4

LEMMA MergedLines ==
  ASSUME NEW lines, Fresh(lines), NEW kept \in SUBSET DOMAIN lines, NEW product \in Products,
         NEW quantity \in Nat, NEW new, new = Merged(lines, kept, product, quantity)
  PROVE  Fresh(new)
<1> DEFINE sparse == {lines[i] : i \in kept}
           mine   == {line \in sparse : line.sku = product}
           first  == Line([sku |-> product, quantity |-> quantity])
           more(line) == [line EXCEPT !.ordered = @ + quantity]
           bigger == [line \in mine |-> more(line)]
           grown  == IF mine = {} THEN {first} ELSE {more(line) : line \in mine}
           all    == (sparse \ mine) \cup grown
           Zero   == {line \in LineRows : line.received = 0}
<1>1. \A i \in DOMAIN lines : lines[i] \in Zero
  BY DEF Fresh
<1>2. sparse \subseteq Zero
  BY <1>1
<1>3. first \in Zero
  BY DEF Line, LineRows, Skus
<1>4. \A line \in Zero : more(line) \in Zero
  BY DEF LineRows
<1>5. IsFiniteSet(sparse)
  <2>1. IsFiniteSet(kept)
    BY FewRows DEF Fresh
  <2> QED
    BY <2>1, FiniteImage
<1>6. IsFiniteSet(mine) /\ IsFiniteSet(sparse \ mine) /\ mine \subseteq sparse
  <2> HIDE DEF sparse
  <2> QED
    BY <1>5, FS_Subset
<1>7. IsFiniteSet(grown) /\ grown \subseteq Zero
  <2>1. CASE mine = {}
    <3>1. grown = {first}
      BY <2>1
    <3> HIDE DEF grown, first
    <3> QED
      BY <1>3, <3>1, FS_Singleton
  <2>2. CASE mine # {}
    <3>1. grown = {bigger[line] : line \in mine}
      BY <2>2
    <3>2. \A line \in mine : bigger[line] \in Zero
      BY <1>2, <1>4, <1>6
    <3> HIDE DEF grown, bigger, mine, Zero
    <3>3. IsFiniteSet({bigger[line] : line \in mine})
      BY <1>6, FiniteImage
    <3> QED
      BY <3>1, <3>2, <3>3
  <2> QED
    BY <2>1, <2>2
<1>8. new = SetToSeq(all)
  BY DEF Merged
<1> HIDE DEF grown, mine, sparse, Zero
<1>9. IsFiniteSet(all) /\ all \subseteq Zero
  BY <1>2, <1>6, <1>7, FS_Union
<1> HIDE DEF all
<1>10. new \in Seq(all)
  BY <1>8, <1>9, SequenceOf
<1>11. new \in Seq(Zero)
  BY <1>9, <1>10
<1>12. \A i \in DOMAIN new : new[i] \in Zero
  BY <1>11
<1>13. new \in Seq(LineRows)
  BY <1>11 DEF Zero
<1> QED
  BY <1>12, <1>13 DEF Fresh, Zero

LEMMA MergeKeeps ==
  ASSUME IInv, NEW p \in PurchaseOrders, NEW product \in Products,
         MergeRecommendation(p, product, 1)
  PROVE  IInv' /\ Tells
<1>1. /\ po[p].status = "draft"
      /\ UNCHANGED <<return, warehouse, expired, latest, unfiled, spoilt, doubled>>
  BY DEF MergeRecommendation
<1>2. PICK kept \in OnePerSku(po[p].lines) : po' = [po EXCEPT ![p].lines = Merged(@, kept, product, 1)]
  BY DEF MergeRecommendation
<1>3. kept \in SUBSET DOMAIN po[p].lines
  BY <1>2 DEF OnePerSku
<1>4. Fresh(po[p].lines)
  <2>1. OrderFits(warehouse, po[p], p, p \in doubled) /\ po[p] \in OrderRows
    BY OrderIsFit
  <2>2. po[p].lines \in Seq(LineRows) /\ \A i \in DOMAIN po[p].lines : po[p].lines[i] \in LineRows
    BY <2>1 DEF OrderRows
  <2>3. \A i \in DOMAIN po[p].lines : ~(po[p].lines[i].received > 0) /\ po[p].lines[i].received \in Nat
    BY <1>1, <2>1, <2>2 DEF OrderFits, Came, LineRows
  <2> QED
    BY <2>2, <2>3 DEF Fresh
<1> DEFINE new == Merged(po[p].lines, kept, product, 1)
<1>5. Fresh(new)
  BY <1>3, <1>4, MergedLines
<1>6. po' = [po EXCEPT ![p].lines = new]
  BY <1>2
<1> HIDE DEF new
<1> QED
  BY <1>1, <1>5, <1>6, UpdateKeeps

LEMMA OrderStatusKeeps ==
  ASSUME IInv, NEW p \in PurchaseOrders, NEW to \in DOMAIN OrderAfter, SetOrderStatus(p, to)
  PROVE  IInv' /\ Tells
<1> DEFINE row == [status |-> to, lines |-> po[p].lines]
<1>1. /\ CanBecome(OrderAfter, po[p].status, to) /\ po' = [po EXCEPT ![p].status = to]
      /\ UNCHANGED <<return, warehouse, expired, latest, unfiled, spoilt, doubled>>
  BY DEF SetOrderStatus
<1>2. OrderFits(warehouse, po[p], p, p \in doubled) /\ po[p] \in OrderRows
      /\ po \in [PurchaseOrders -> OrderRows]
  BY OrderIsFit DEF IInv, Types
<1>3. [po[p] EXCEPT !.status = to] = row /\ row \in OrderRows
  BY <1>2 DEF OrderRows
<1>4. po' = [po EXCEPT ![p] = row]
  <2>1. po' = [po EXCEPT ![p] = [po[p] EXCEPT !.status = to]]
    BY <1>1
  <2> HIDE DEF row
  <2> QED
    BY ONLY <1>3, <2>1
<1>5. \/ to = po[p].status
      \/ po[p].status = "draft" /\ to \in {"submitted", "cancelled"}
      \/ po[p].status \in {"submitted", "partially_received"} /\ to = "cancelled"
  BY <1>1 DEF CanBecome, OrderAfter
<1>6. row.status = to /\ row.lines = po[p].lines
  OBVIOUS
<1>7. po[p].status # "none"
  BY <1>1 DEF CanBecome, OrderAfter
<1> HIDE DEF row
<1>8. OrderFits(warehouse, row, p, p \in doubled)
  BY <1>2, <1>5, <1>6, <1>7 DEF OrderFits
<1>9. OrderOnly(p, row)
  BY <1>1, <1>3, <1>4 DEF OrderOnly
<1> QED
  BY <1>8, <1>9, OrderOnlyKeeps
-----------------------------------------------------------------------------
(* Operations that change no purchase order *)
LEMMA StepInv ==
  ASSUME IInv, warehouse' \in Warehouses, return' \in [SupplierReturns -> ReturnRows],
         unfiled' \in [Skus -> Nat], OnFile(warehouse', unfiled'),
         Sound(warehouse', return', Clean', Calm'),
         po' = po, doubled' = doubled, latest' = latest,
         expired' \subseteq Perishable, spoilt' \subseteq Skus,
         \A p \in PurchaseOrders : warehouse'.moves[p] = warehouse.moves[p],
         ReturnsFit', SalesFirst'
  PROVE  IInv'
<1>1. Types /\ OrdersFit
  BY DEF IInv
<1>2. Types'
  BY <1>1 DEF Types
<1>3. StockOnFile'
  BY FileWillBe
<1>4. OrdersFit'
  BY <1>1, OrdersKept
<1>5. Sound(warehouse, return, Clean, Calm)'
  OBVIOUS
<1> QED
  BY <1>2, <1>3, <1>4, <1>5 DEF IInv

LEMMA StepKeeps ==
  ASSUME IInv, warehouse' \in Warehouses, return' \in [SupplierReturns -> ReturnRows],
         unfiled' \in [Skus -> Nat], OnFile(warehouse', unfiled'),
         Sound(warehouse', return', Clean', Calm'),
         po' = po, doubled' = doubled, latest' = latest,
         expired' \subseteq Perishable, spoilt' \subseteq Skus,
         \A p \in PurchaseOrders : warehouse'.moves[p] = warehouse.moves[p],
         ReturnsFit', SalesFirst', Told(warehouse, warehouse')
  PROVE  IInv' /\ Tells
BY StepInv, ToldTells

LEMMA ReturnIsFit ==
  ASSUME IInv, NEW r \in SupplierReturns
  PROVE  /\ return \in [SupplierReturns -> ReturnRows] /\ return[r] \in ReturnRows
         /\ return[r].items \in Seq(ItemRows) /\ r \in Orders
         /\ ReturnFits(warehouse.moves[r], return[r])
         /\ ItemsHaveMoves(warehouse.moves[r], return[r].items)
<1>1. return \in [SupplierReturns -> ReturnRows] /\ ReturnFits(warehouse.moves[r], return[r])
  BY DEF IInv, Types, ReturnsFit
<1>2. return[r] \in ReturnRows
  BY <1>1
<1>3. return[r].items \in Seq(ItemRows)
  BY <1>2 DEF ReturnRows
<1> QED
  BY <1>1, <1>2, <1>3, DocumentsAre DEF ReturnFits

\* A change of the return r alone.
LEMMA ReturnOnlyKeeps ==
  ASSUME IInv, NEW r \in SupplierReturns,
         return' \in [SupplierReturns -> ReturnRows],
         \A s \in SupplierReturns \ {r} : return'[s] = return[s],
         ReturnFits(warehouse.moves[r], return'[r]), Sound(warehouse, return', Clean, Calm),
         UNCHANGED <<po, warehouse, expired, latest, unfiled, spoilt, doubled>>
  PROVE  IInv' /\ Tells
<1>1. /\ warehouse \in Warehouses /\ Pointed(warehouse, return)
      /\ OnFile(warehouse, unfiled) /\ unfiled \in [Skus -> Nat]
  BY InvIs
<1>2. expired \subseteq Perishable /\ spoilt \subseteq Skus /\ ReturnsFit /\ SalesFirst
  BY DEF IInv, Types
<1>3. Clean' \in SUBSET Clean /\ Calm' \in SUBSET Calm
  BY CleanKept DEF Longer
<1>4. Sound(warehouse', return', Clean', Calm')
  BY <1>3, SoundOfFewer
<1>5. ReturnsFit'
  BY <1>2, OneReturn
<1>6. SalesFirst'
  BY <1>2, SalesKept
<1>7. Told(warehouse, warehouse')
  <2>1. \A sku \in Skus : warehouse.stock[sku] \in Nat
    BY <1>1 DEF Warehouses
  <2> QED
    BY <2>1 DEF Told
<1>8. OnFile(warehouse', unfiled')
  BY <1>1
<1> QED
  BY <1>1, <1>2, <1>4, <1>5, <1>6, <1>7, <1>8, StepKeeps

LEMMA CreateReturnKeeps ==
  ASSUME IInv, NEW r \in SupplierReturns, NEW claim \in Claims, CreateReturn(r, claim)
  PROVE  IInv' /\ Tells
<1> DEFINE item(i) == [sku |-> claim[i].sku, batch |-> claim[i].batch,
                       quantity |-> claim[i].quantity, move |-> 0]
           items == [i \in DOMAIN claim |-> item(i)]
           row == [status |-> "draft", items |-> items]
           Asked == [sku : Skus, batch : Batches \cup {NoBatch}, quantity : Nat \ {0}]
<1>1. claim \in Seq(Asked)
  BY PurchasingAssumption
<1>2. DOMAIN claim = 1..Len(claim) /\ Len(claim) \in Nat /\ \A i \in DOMAIN claim : claim[i] \in Asked
  <2> HIDE DEF Asked
  <2> QED
    BY ONLY <1>1
<1>3. \A i \in DOMAIN claim : item(i) \in ItemRows /\ item(i).move = 0
  BY <1>2 DEF ItemRows
<1>4. items \in [1..Len(claim) -> ItemRows] /\ DOMAIN items = DOMAIN claim
  BY <1>2, <1>3
<1>5. items \in Seq(ItemRows)
  BY <1>2, <1>4
<1>6. /\ return' = [return EXCEPT ![r] = row]
      /\ UNCHANGED <<po, warehouse, expired, latest, unfiled, spoilt, doubled>>
  BY DEF CreateReturn
<1>7. \A i \in DOMAIN items : items[i].move = 0
  BY <1>3, <1>4
<1> HIDE DEF items
<1>8. row \in ReturnRows /\ row.items = items /\ row.status = "draft"
  BY <1>5 DEF ReturnRows, ReturnAfter
<1> HIDE DEF row
<1>9. /\ return \in [SupplierReturns -> ReturnRows]
      /\ Pointed(warehouse, return) /\ Sound(warehouse, return, Clean, Calm)
  BY InvIs, ReturnIsFit
<1>10. Opens(return, r, row, return')
  BY <1>6, <1>7, <1>8, <1>9 DEF Opens
<1>11. Sound(warehouse, return', Clean, Calm) /\ Pointed(warehouse, return')
  BY <1>9, <1>10, OpensKeeps
<1>12. /\ return'[r] = row /\ return' \in [SupplierReturns -> ReturnRows]
       /\ \A s \in SupplierReturns \ {r} : return'[s] = return[s]
  BY <1>6, <1>8, <1>9
<1>13. ReturnFits(warehouse.moves[r], row)
  BY <1>7, <1>8 DEF ReturnFits, ItemsHaveMoves
<1> QED
  BY <1>6, <1>11, <1>12, <1>13, ReturnOnlyKeeps

\* updateSupplierReturnStatus, when it moves nothing.
LEMMA PlainStatusKeeps ==
  ASSUME IInv, NEW r \in SupplierReturns, NEW to \in DOMAIN ReturnAfter,
         CanBecome(ReturnAfter, return[r].status, to),
         ~(return[r].status = "draft" /\ to = "approved"),
         return' = [return EXCEPT ![r].status = to],
         UNCHANGED <<po, warehouse, expired, latest, unfiled, spoilt, doubled>>
  PROVE  IInv' /\ Tells
<1>1. /\ return \in [SupplierReturns -> ReturnRows]
      /\ Pointed(warehouse, return) /\ Sound(warehouse, return, Clean, Calm)
      /\ ReturnFits(warehouse.moves[r], return[r])
  BY InvIs, ReturnIsFit
<1>2. \/ to = return[r].status \/ to = "cancelled"
      \/ return[r].status = "approved" /\ to = "sent"
      \/ return[r].status = "sent" /\ to = "completed"
  BY DEF CanBecome, ReturnAfter
<1>3. Becomes(return, r, to, return')
  BY <1>1 DEF Becomes
<1>4. /\ return' \in [SupplierReturns -> ReturnRows]
      /\ return'[r].items = return[r].items /\ return'[r].status = to
      /\ \A s \in SupplierReturns \ {r} : return'[s] = return[s]
  BY ONLY <1>3, BecomesIs
<1>5. Sound(warehouse, return', Clean, Calm) /\ Pointed(warehouse, return')
  <2>1. to = "cancelled" \/ return[r].status # "cancelled"
    BY <1>2
  <2> QED
    BY <1>1, <1>3, <2>1, StatusKeeps
<1>6. ReturnFits(warehouse.moves[r], return'[r])
  <2>1. to # "none"
    BY DEF ReturnAfter
  <2> QED
    BY <1>1, <1>2, <1>4, <2>1 DEF ReturnFits
<1> QED
  BY <1>4, <1>5, <1>6, ReturnOnlyKeeps

LEMMA UndoneIs ==
  ASSUME NEW r, CancelApproved(r)
  PROVE  warehouse' = Undoing!Fold([rows |-> return[r].items, doc |-> r], warehouse,
                                   DOMAIN return[r].items)
BY DEF CancelApproved, FoldLeft, Undoing!Fold, MapThenFoldSet, Undoing!MapThenFoldSet, ItemAt,
       Greatest, Undo

LEMMA BackIs ==
  ASSUME NEW items \in Seq(ItemRows), NEW sku
  PROVE  MapThenSumSet(LAMBDA i : items[i].quantity,
                       {i \in DOMAIN items : items[i].sku = sku /\ items[i].move # 0})
            = Amount!Sum(items, BackOf(items, Len(items), sku))
<1>1. DOMAIN items = 1..Len(items) /\ Len(items) \in Nat
  OBVIOUS
<1>2. BackOf(items, Len(items), sku)
         = {i \in DOMAIN items : items[i].sku = sku /\ items[i].move # 0}
  BY <1>1 DEF BackOf
<1> QED
  BY <1>2 DEF MapThenSumSet, MapThenFoldSet, Amount!Sum, Amount!Fold, Amount!MapThenFoldSet,
              QuantityAt, Plus, Some

LEMMA NotedIs ==
  ASSUME NEW r, CancelApproved(r), return[r].items \in Seq(ItemRows)
  PROVE  LET items == return[r].items
         IN  unfiled' = [sku \in Skus |->
                            unfiled[sku] + Amount!Sum(items, BackOf(items, Len(items), sku))]
<1> DEFINE items == return[r].items
<1>1. unfiled' = [sku \in Skus |-> unfiled[sku] +
              MapThenSumSet(LAMBDA i : items[i].quantity,
                            {i \in DOMAIN items : items[i].sku = sku /\ items[i].move # 0})]
  BY DEF CancelApproved
<1> HIDE DEF items
<1>2. items \in Seq(ItemRows)
  BY DEF items
<1>3. \A sku : MapThenSumSet(LAMBDA i : items[i].quantity,
                            {i \in DOMAIN items : items[i].sku = sku /\ items[i].move # 0})
                  = Amount!Sum(items, BackOf(items, Len(items), sku))
  BY <1>2, BackIs
<1>4. unfiled' = [sku \in Skus |->
                     unfiled[sku] + Amount!Sum(items, BackOf(items, Len(items), sku))]
  BY <1>1, <1>3
<1> QED
  BY <1>4 DEF items

LEMMA CancelReturnKeeps ==
  ASSUME IInv, NEW r \in SupplierReturns, return[r].status = "approved", CancelApproved(r)
  PROVE  IInv' /\ Tells
<1> DEFINE items == return[r].items
           w == warehouse
           v == warehouse'
           back == return
           more == return'
           extra == unfiled
           extra2 == unfiled'
           clean == Clean
           calm == Calm
<1>1. /\ back \in [SupplierReturns -> ReturnRows] /\ items \in Seq(ItemRows)
      /\ ItemsHaveMoves(w.moves[r], items) /\ ReturnFits(w.moves[r], back[r])
  BY ReturnIsFit
<1>2. /\ w \in Warehouses /\ Pointed(w, back) /\ OnFile(w, extra)
      /\ extra \in [Skus -> Nat] /\ Nested(clean, calm) /\ Sound(w, back, clean, calm)
  BY InvIs
<1>3. Undone(w, v, r, items)
  BY UndoneIs DEF Undone
<1>4. Noted(extra, extra2, items)
  BY <1>1, NotedIs DEF Noted
<1>5. /\ return' = [return EXCEPT ![r].status = "cancelled"]
      /\ UNCHANGED <<po, expired, latest, spoilt, doubled>>
  BY DEF CancelApproved
<1>6. Becomes(back, r, "cancelled", more)
  BY <1>1, <1>5 DEF Becomes, ReturnAfter
<1>7. Cancellation(w, back, r, items)
  BY <1>1, <1>2 DEF Cancellation, Undoable
<1>8. /\ Sound(v, more, clean, calm) /\ Pointed(v, more) /\ v.moves = w.moves /\ Told(w, v)
      /\ OnFile(v, extra2) /\ extra2 \in [Skus -> Nat]
  <2> HIDE DEF items, w, v, back, more, extra, extra2, clean, calm
  <2> QED
    BY ONLY <1>2, <1>3, <1>4, <1>6, <1>7, CancelledKeeps
<1>9. /\ more \in [SupplierReturns -> ReturnRows]
      /\ more[r].items = items /\ more[r].status = "cancelled"
      /\ \A s \in SupplierReturns \ {r} : more[s] = back[s]
  <2> HIDE DEF more, back
  <2>1. /\ more \in [SupplierReturns -> ReturnRows]
        /\ more[r].items = back[r].items /\ more[r].status = "cancelled"
        /\ \A s \in SupplierReturns \ {r} : more[s] = back[s]
    BY ONLY <1>6, BecomesIs
  <2> QED
    BY <2>1 DEF back
<1>10. expired \subseteq Perishable /\ spoilt \subseteq Skus /\ ReturnsFit /\ SalesFirst
  BY DEF IInv, Types
<1>11. Clean' \in SUBSET Clean /\ Calm' \in SUBSET Calm
  BY <1>5, <1>8, CleanKept DEF Longer
<1>12. Sound(warehouse', return', Clean', Calm')
  BY <1>8, <1>11, SoundOfFewer
<1>13. v \in Warehouses
  BY <1>8 DEF Sound
<1>14. ReturnFits(v.moves[r], more[r])
  BY <1>1, <1>8, <1>9 DEF ReturnFits
<1>15. ReturnsFit'
  BY <1>8, <1>9, <1>10, <1>14, OneReturn
<1>16. SalesFirst'
  BY <1>8, <1>10, SalesKept
<1> QED
  BY <1>5, <1>8, <1>9, <1>10, <1>12, <1>13, <1>15, <1>16, StepKeeps

LEMMA ReturnStatusKeeps ==
  ASSUME IInv, NEW r \in SupplierReturns, NEW to \in DOMAIN ReturnAfter, SetReturnStatus(r, to)
  PROVE  IInv' /\ Tells
<1>1. CASE return[r].status = "approved" /\ to = "cancelled"
  <2>1. CancelApproved(r)
    BY <1>1 DEF SetReturnStatus
  <2> QED
    BY <1>1, <2>1, CancelReturnKeeps
<1>2. CASE ~(return[r].status = "approved" /\ to = "cancelled")
  <2>1. /\ CanBecome(ReturnAfter, return[r].status, to)
        /\ ~(return[r].status = "draft" /\ to = "approved")
        /\ return' = [return EXCEPT ![r].status = to]
        /\ UNCHANGED <<po, warehouse, expired, latest, unfiled, spoilt, doubled>>
    BY <1>2 DEF SetReturnStatus
  <2> QED
    BY <2>1, PlainStatusKeeps
<1> QED
  BY <1>1, <1>2

\* approveSupplierReturn
LEMMA WrittenOffIs ==
  ASSUME NEW r, NEW order
  PROVE  WrittenOff(r, order)
            = Approving!Fold([rows |-> order, doc |-> r, items |-> return[r].items],
                 [w |-> warehouse, items |-> return[r].items, short |-> {}, all |-> TRUE],
                 DOMAIN order)
BY DEF WrittenOff, FoldLeft, Approving!Fold, MapThenFoldSet, Approving!MapThenFoldSet, ItemAt,
       Greatest, ApproveItem

LEMMA ApproveReturnKeeps ==
  ASSUME IInv, NEW r \in SupplierReturns, NEW order \in SetToSeqs(DOMAIN return[r].items),
         ApproveReturn(r, order)
  PROVE  IInv' /\ Tells
<1> DEFINE items == return[r].items
           w == warehouse
           v == warehouse'
           back == return
           more == return'
           extra == unfiled
           clean == Clean
           calm == Calm
           c == [rows |-> order, doc |-> r, items |-> items]
           base == [w |-> w, items |-> items, short |-> {}, all |-> TRUE]
           done == WrittenOff(r, order)
           n == Len(items)
           b1 == Items(back, r, done.items)
           status == IF done.all THEN "approved" ELSE "draft"
<1>1. /\ back \in [SupplierReturns -> ReturnRows] /\ items \in Seq(ItemRows) /\ r \in Orders
      /\ ItemsHaveMoves(w.moves[r], items) /\ ReturnFits(w.moves[r], back[r])
      /\ back[r] \in ReturnRows
  BY ReturnIsFit
<1>2. /\ w \in Warehouses /\ Pointed(w, back) /\ OnFile(w, extra)
      /\ extra \in [Skus -> Nat] /\ Nested(clean, calm) /\ Sound(w, back, clean, calm)
  BY InvIs
<1>3. /\ return[r].status = "draft" /\ v = done.w
      /\ more = [back EXCEPT ![r] = [status |-> status, items |-> done.items]]
      /\ spoilt' = spoilt \cup done.short
      /\ UNCHANGED <<po, expired, latest, unfiled, doubled>>
  BY DEF ApproveReturn
<1>4. done = Approving!Fold(c, base, DOMAIN order)
  BY WrittenOffIs
<1> HIDE DEF done
<1>5. Approval(c, w, back, r, order)
  BY <1>1, <1>2, <1>3 DEF Approval, Undoable
<1>6. MidApproval(w, back, clean, calm, extra, r, order, done, n)
  <2>1. base = [w |-> w, items |-> back[r].items, short |-> {}, all |-> TRUE]
    OBVIOUS
  <2>2. ItemsHaveMoves(w.moves[r], back[r].items)
    BY <1>1
  <2> HIDE DEF w, back, extra, clean, calm, c, base
  <2>3. MidApproval(w, back, clean, calm, extra, r, order, done, Len(back[r].items))
    BY ONLY <1>2, <1>4, <1>5, <2>1, <2>2, ApprovalKeeps
  <2> QED
    BY <2>3 DEF back
<1>7. /\ done \in Accs /\ SameGoods(items, done.items)
      /\ Sound(v, b1, clean \ done.short, calm \ done.short)
      /\ Undoable(v, b1, r, done.items)
      /\ OnFile(v, extra) /\ Told(w, v)
      /\ \A q \in Orders \ {r} : v.moves[q] = w.moves[q]
      /\ ItemsHaveMoves(v.moves[r], done.items)
      /\ done.all => \A k \in 1..n : done.items[order[k]].move # 0
  BY <1>3, <1>6 DEF MidApproval
<1>8. /\ done.items \in Seq(ItemRows) /\ done.short \subseteq Skus /\ done.all \in BOOLEAN
      /\ v \in Warehouses
  BY <1>3, <1>7 DEF Accs
<1>9. /\ b1 \in [SupplierReturns -> ReturnRows]
      /\ b1[r].items = done.items /\ b1[r].status = "draft"
      /\ \A s \in SupplierReturns \ {r} : b1[s] = back[s]
  <2>1. back[r].status = "draft"
    BY <1>3
  <2> HIDE DEF back
  <2> QED
    BY <1>1, <1>8, <2>1, BackAre
<1>10. status \in {"approved", "draft"}
  OBVIOUS
<1>11. /\ more[r] = [status |-> status, items |-> done.items]
       /\ more[r].status = status /\ more[r].items = done.items
       /\ \A s \in SupplierReturns \ {r} : more[s] = back[s]
       /\ more \in [SupplierReturns -> ReturnRows]
  <2>1. [status |-> status, items |-> done.items] \in ReturnRows
    BY <1>8, <1>10 DEF ReturnRows, ReturnAfter
  <2> HIDE DEF status
  <2> QED
    BY <1>1, <1>3, <2>1
<1>12. Becomes(b1, r, status, more)
  <2>1. [b1[r] EXCEPT !.status = status] = [status |-> status, items |-> done.items]
    <3>1. b1[r] \in ReturnRows
      BY <1>9
    <3>2. b1[r] = [status |-> "draft", items |-> done.items]
      BY <1>9, <3>1 DEF ReturnRows
    <3> HIDE DEF status, b1
    <3> QED
      BY <3>2
  <2> DEFINE row == [status |-> status, items |-> done.items]
             m1 == [b1 EXCEPT ![r].status = status]
  <2>2. m1 = [b1 EXCEPT ![r] = row]
    <3>1. m1 = [b1 EXCEPT ![r] = [b1[r] EXCEPT !.status = status]]
      OBVIOUS
    <3> HIDE DEF status, b1, row
    <3> QED
      BY <2>1, <3>1 DEF row
  <2>3. more = [back EXCEPT ![r] = row]
    BY <1>3
  <2>4. m1 = more
    <3> HIDE DEF b1, row, m1, more, back
    <3> QED
      BY <1>1, <1>9, <2>2, <2>3
  <2>5. status \in DOMAIN ReturnAfter
    BY <1>10 DEF ReturnAfter
  <2> HIDE DEF status, b1, more
  <2> QED
    BY <1>9, <2>4, <2>5 DEF Becomes
<1>13. Sound(v, more, clean \ done.short, calm \ done.short)
  <2>1. Pointed(v, b1)
    BY <1>7 DEF Undoable
  <2> HIDE DEF v, b1, more, clean, calm, status
  <2> QED
    BY <1>7, <1>9, <1>12, <2>1, StatusKeeps
<1>14. expired \subseteq Perishable /\ spoilt \subseteq Skus /\ ReturnsFit /\ SalesFirst
  BY DEF IInv, Types
<1>15. /\ warehouse'.moves[Shed] = warehouse.moves[Shed]
       /\ \A p \in PurchaseOrders : warehouse'.moves[p] = warehouse.moves[p]
       /\ \A o \in CustomerOrders : warehouse'.moves[o] = warehouse.moves[o]
       /\ \A s \in SupplierReturns \ {r} : warehouse'.moves[s] = warehouse.moves[s]
  BY <1>7, DocumentsAre
<1>16. Clean' \in SUBSET (clean \ done.short) /\ Calm' \in SUBSET (calm \ done.short)
  <2>1. Clean' = Clean \ done.short
    BY <1>3 DEF Clean
  <2>2. Calm' \in SUBSET Calm /\ Nested(Clean', Calm')
    BY <1>3, <1>15, CleanKept DEF Longer
  <2> QED
    BY <2>1, <2>2 DEF Nested
<1>17. Sound(v, more, Clean', Calm')
  <2> HIDE DEF v, more, clean, calm
  <2> QED
    BY <1>13, <1>16, SoundOfFewer
<1>18. ReturnFits(v.moves[r], more[r])
  <2>1. ASSUME done.all, NEW i \in DOMAIN done.items PROVE done.items[i].move # 0
    <3>1. i \in DOMAIN items
      BY <1>7 DEF SameGoods
    <3>2. \E m \in 1..n : order[m] = i
      <4> HIDE DEF items
      <4> QED
        BY <1>1, <3>1, OrderIs DEF items
    <3> QED
      BY <1>7, <2>1, <3>2
  <2>2. status = "approved" => done.all
    OBVIOUS
  <2> HIDE DEF status, more
  <2> QED
    BY <1>7, <1>10, <1>11, <2>1, <2>2 DEF ReturnFits
<1>19. ReturnsFit'
  BY <1>11, <1>14, <1>15, <1>18, OneReturn
<1>20. SalesFirst'
  BY <1>14, <1>15, SalesKept
<1>21. spoilt' \subseteq Skus
  BY <1>3, <1>8, <1>14
<1>22. OnFile(warehouse', unfiled') /\ unfiled' \in [Skus -> Nat]
  BY <1>2, <1>3, <1>7
<1> QED
  BY <1>3, <1>7, <1>8, <1>11, <1>14, <1>15, <1>17, <1>19, <1>20, <1>21, <1>22, StepKeeps
-----------------------------------------------------------------------------
(* Movements by hand, customers, and the calendar *)
\* One movement of a document that is no purchase order and no return.
LEMMA MovementKeeps ==
  ASSUME IInv, NEW d \in CustomerOrders \cup {Shed}, NEW row, Moved(warehouse, warehouse', d, row),
         Told(warehouse, warehouse'), Sound(warehouse', return, Clean', Calm'),
         d \in CustomerOrders /\ warehouse.moves[d] = <<>> =>
            row.type = "sale" /\ row.change \in {-n : n \in Nat},
         UNCHANGED <<po, return, expired, latest, unfiled, doubled>>, spoilt' \subseteq Skus
  PROVE  IInv' /\ Tells
<1>1. /\ warehouse \in Warehouses /\ OnFile(warehouse, unfiled) /\ unfiled \in [Skus -> Nat]
  BY InvIs
<1>2. expired \subseteq Perishable /\ ReturnsFit /\ SalesFirst
      /\ return \in [SupplierReturns -> ReturnRows]
  BY DEF IInv, Types
<1>3. /\ d \in Orders /\ d \notin PurchaseOrders /\ d \notin SupplierReturns
      /\ \A p \in PurchaseOrders \cup SupplierReturns \cup CustomerOrders : p \in Orders
  BY DocumentsAre
<1>4. /\ \A p \in Orders \ {d} : warehouse'.moves[p] = warehouse.moves[p]
      /\ warehouse.moves[d] \in Seq(MoveRows) /\ row \in MoveRows
      /\ warehouse'.moves[d] = Append(warehouse.moves[d], row)
  BY <1>1, <1>3, MovedRows
<1>5. /\ \A p \in PurchaseOrders : warehouse'.moves[p] = warehouse.moves[p]
      /\ \A r \in SupplierReturns : warehouse'.moves[r] = warehouse.moves[r]
  BY <1>3, <1>4
<1>6. ReturnsFit'
  BY <1>2, <1>5, ReturnsKept
<1>7. SalesFirst'
  <2>1. ASSUME NEW o \in CustomerOrders, Len(warehouse'.moves[o]) >= 1
        PROVE  /\ warehouse'.moves[o][1].type = "sale"
               /\ warehouse'.moves[o][1].change \in {-n : n \in Nat}
    <3>1. CASE o # d
      <4>1. warehouse'.moves[o] = warehouse.moves[o]
        BY <1>3, <1>4, <3>1
      <4> QED
        BY <1>2, <2>1, <4>1 DEF SalesFirst
    <3>2. CASE o = d /\ warehouse.moves[d] = <<>>
      <4>1. warehouse'.moves[d][1] = row
        BY <1>4, <3>2
      <4> QED
        BY <2>1, <3>2, <4>1
    <3>3. CASE o = d /\ warehouse.moves[d] # <<>>
      <4>1. Len(warehouse.moves[d]) >= 1 /\ warehouse'.moves[d][1] = warehouse.moves[d][1]
        BY <1>4, <3>3
      <4> QED
        BY <1>2, <2>1, <3>3, <4>1 DEF SalesFirst
    <3> QED
      BY <3>1, <3>2, <3>3
  <2> QED
    BY <2>1 DEF SalesFirst
<1>8. OnFile(warehouse', unfiled)
  BY <1>1, <1>3, MovedOnFile
<1>9. warehouse' \in Warehouses
  BY DEF Moved
<1> QED
  BY <1>1, <1>2, <1>5, <1>6, <1>7, <1>8, <1>9, StepKeeps

LEMMA BuyKeeps ==
  ASSUME IInv, NEW o \in CustomerOrders, NEW sku \in Skus, NEW quantity \in Portions,
         Buy(o, sku, quantity)
  PROVE  IInv' /\ Tells
<1> DEFINE taken == Fefo(warehouse, sku, quantity, expired)
           row == Row(sku, "sale", - quantity, taken)
<1>1. /\ warehouse.moves[o] = <<>>
      /\ Sellable(warehouse, sku, expired) >= quantity /\ CanSell(warehouse, sku, quantity)
      /\ warehouse' = Sell(warehouse, o, sku, quantity, expired)
      /\ UNCHANGED <<po, return, expired, latest, unfiled, spoilt, doubled>>
  BY DEF Buy
<1>2. quantity \in Nat \ {0}
  BY PurchasingAssumption
<1>3. /\ warehouse \in Warehouses /\ Pointed(warehouse, return)
      /\ Nested(Clean, Calm) /\ Sound(warehouse, return, Clean, Calm)
  BY InvIs
<1>4. /\ Moved(warehouse, warehouse', o, row) /\ Told(warehouse, warehouse')
      /\ taken \in [Batches -> Nat]
      /\ Pointed(warehouse', return) /\ Sound(warehouse', return, Clean, Calm)
  <2>1. taken = Fefo(warehouse, sku, quantity, expired)
    OBVIOUS
  <2> HIDE DEF taken
  <2> QED
    BY ONLY <1>1, <1>2, <1>3, <2>1, o \in CustomerOrders, sku \in Skus, SellKeeps
<1>5. row.type = "sale" /\ row.change = - quantity
  BY DEF Row
<1>6. /\ \A p \in Orders \ {o} : warehouse'.moves[p] = warehouse.moves[p]
      /\ Shed \in Orders \ {o} /\ o \in Orders
  <2>1. Shed \in Orders \ {o} /\ o \in Orders
    BY DocumentsAre
  <2> HIDE DEF row
  <2> QED
    BY <1>3, <1>4, <2>1, MovedRows
<1>7. Clean' \in SUBSET Clean /\ Calm' \in SUBSET Calm
  BY <1>1, <1>6, CleanKept DEF Longer
<1>8. Sound(warehouse', return, Clean', Calm')
  BY <1>4, <1>7, SoundOfFewer
<1>9. spoilt' \subseteq Skus
  BY <1>1 DEF IInv, Types
<1> HIDE DEF row
<1> QED
  BY <1>1, <1>2, <1>4, <1>5, <1>8, <1>9, MovementKeeps

LEMMA CancelPurchaseKeeps ==
  ASSUME IInv, NEW o \in CustomerOrders, CancelPurchase(o)
  PROVE  IInv' /\ Tells
<1> DEFINE sale == warehouse.moves[o][1]
           row == Row(sale.sku, "cancel_restore", - sale.change, NoBatchUsed)
<1>1. /\ Len(warehouse.moves[o]) = 1
      /\ warehouse' = Restore(warehouse, o, sale.sku, - sale.change, "cancel_restore")
      /\ UNCHANGED <<po, return, expired, latest, unfiled, spoilt, doubled>>
  BY DEF CancelPurchase
<1>2. /\ warehouse \in Warehouses /\ Pointed(warehouse, return)
      /\ Nested(Clean, Calm) /\ Sound(warehouse, return, Clean, Calm)
  BY InvIs
<1>3. sale.type = "sale" /\ - sale.change \in Nat
  <2>1. sale.type = "sale" /\ sale.change \in {-n : n \in Nat}
    BY <1>1 DEF IInv, SalesFirst
  <2> QED
    BY <2>1
<1>4. Cancels(warehouse, warehouse', o, sale)
  BY <1>1, <1>2, <1>3 DEF Cancels
<1> HIDE DEF sale
<1>5. Moved(warehouse, warehouse', o, row) /\ Told(warehouse, warehouse')
  BY <1>4, RestoreIs
<1>6. Sound(warehouse', return, Clean, Calm)
  BY <1>2, <1>4, RestoreKeeps
<1>7. /\ \A p \in Orders \ {o} : warehouse'.moves[p] = warehouse.moves[p]
      /\ Shed \in Orders \ {o} /\ o \in Orders
  <2>1. Shed \in Orders \ {o} /\ o \in Orders
    BY DocumentsAre
  <2> HIDE DEF row
  <2> QED
    BY <1>2, <1>5, <2>1, MovedRows
<1>8. Clean' \in SUBSET Clean /\ Calm' \in SUBSET Calm
  BY <1>1, <1>7, CleanKept DEF Longer
<1>9. Sound(warehouse', return, Clean', Calm')
  BY <1>6, <1>8, SoundOfFewer
<1>10. spoilt' \subseteq Skus
  BY <1>1 DEF IInv, Types
<1>11. warehouse.moves[o] # <<>>
  <2> DEFINE m == warehouse.moves[o]
  <2>1. Len(m) = 1
    BY <1>1
  <2> HIDE DEF m
  <2>2. m # <<>>
    BY <2>1
  <2> QED
    BY <2>2 DEF m
<1> HIDE DEF row
<1> QED
  BY <1>1, <1>5, <1>9, <1>10, <1>11, MovementKeeps

\* What the movement by hand adds to the file of the Shed.
LEMMA ShedLonger ==
  ASSUME warehouse \in Warehouses, NEW row, Moved(warehouse, warehouse', Shed, row)
  PROVE  /\ Longer(warehouse.moves[Shed], warehouse.moves[Shed]')
         /\ row.type = "adjustment" => MovedByHand(row.sku)'
<1>1. /\ warehouse.moves[Shed] \in Seq(MoveRows) /\ row \in MoveRows
      /\ warehouse'.moves[Shed] = Append(warehouse.moves[Shed], row)
  BY DocumentsAre, MovedRows
<1> DEFINE m == warehouse.moves[Shed]
           a == warehouse'.moves[Shed]
<1>2. /\ DOMAIN a = DOMAIN m \cup {Len(m) + 1} /\ a[Len(m) + 1] = row
      /\ \A i \in DOMAIN m : a[i] = m[i]
  <2> HIDE DEF m, a
  <2>1. m \in Seq(MoveRows) /\ row \in MoveRows /\ a = Append(m, row)
    BY <1>1 DEF m, a
  <2> QED
    BY <2>1, Appended
<1> QED
  BY <1>2 DEF Longer, MovedByHand

LEMMA MoveByHandKeeps ==
  ASSUME IInv, NEW sku \in Skus, NEW change \in Changes, MoveByHand(sku, change)
  PROVE  IInv' /\ Tells
<1> DEFINE u == MoveStock(warehouse, Shed, sku, change, "adjustment")
           row == Row(sku, "adjustment", change, NoBatchUsed)
           calm == Calm \ {sku}
<1>1. /\ warehouse.stock[sku] + change >= 0
      /\ warehouse' = Alert(u, sku)
      /\ UNCHANGED <<po, return, expired, latest, unfiled, spoilt, doubled>>
  BY DEF MoveByHand
<1>2. /\ warehouse \in Warehouses /\ Pointed(warehouse, return)
      /\ Nested(Clean, Calm) /\ Sound(warehouse, return, Clean, Calm)
  BY InvIs
<1>3. change \in Int /\ warehouse.stock[sku] + change \in Nat /\ Shed \in Orders
  <2>1. change \in Int /\ warehouse.stock[sku] \in Nat /\ Shed \in Orders
    BY <1>2, PurchasingAssumption, DocumentsAre DEF Warehouses
  <2> QED
    BY <1>1, <2>1
<1>4. /\ row \in MoveRows /\ row.sku = sku /\ row.change = change /\ row.taken = NoBatchUsed
      /\ row.type = "adjustment"
  <2>1. row = Row(sku, "adjustment", change, NoBatchUsed)
    OBVIOUS
  <2> HIDE DEF row
  <2> QED
    BY <1>3, <2>1, RowsAre, NoneUsed
<1>5. Moved(warehouse, u, Shed, row) /\ u.left = warehouse.left /\ u.got = warehouse.got
  <2>1. u = MoveStock(warehouse, Shed, sku, change, "adjustment")
    OBVIOUS
  <2> HIDE DEF u
  <2> QED
    BY <1>2, <1>3, <2>1, MoveMoves
<1>6. /\ Moved(warehouse, warehouse', Shed, row) /\ Told(warehouse, warehouse')
      /\ warehouse'.left = warehouse.left /\ warehouse'.got = warehouse.got
  <2> HIDE DEF u, row
  <2>1. warehouse' = Alert(u, row.sku)
    BY <1>1, <1>4
  <2>2. /\ Moved(warehouse, warehouse', Shed, row) /\ Told(warehouse, warehouse')
        /\ warehouse'.left = u.left /\ warehouse'.got = u.got
    BY ONLY <1>2, <1>3, <1>5, <2>1, AlertedMove
  <2> QED
    BY <1>5, <2>2
<1> HIDE DEF u, row
<1>7. Sound(warehouse', return, Clean, calm)
  <2>1. Sound(warehouse, return, Clean, calm)
    <3>1. Clean \in SUBSET Clean /\ calm \in SUBSET Calm
      OBVIOUS
    <3> HIDE DEF calm
    <3> QED
      BY <1>2, <3>1, SoundOfFewer
  <2>2. Plain(Shed)
    BY DocumentsAre DEF Plain
  <2>3. row.sku \notin calm /\ calm \subseteq Skus
    BY <1>2, <1>4 DEF Nested
  <2> HIDE DEF calm
  <2> QED
    BY ONLY <1>2, <1>4, <1>6, <2>1, <2>2, <2>3, StockAloneKeeps
<1>8. /\ Longer(warehouse.moves[Shed], warehouse.moves[Shed]')
      /\ MovedByHand(sku)'
  BY <1>2, <1>4, <1>6, ShedLonger
<1>9. Clean' \in SUBSET Clean /\ Calm' \in SUBSET calm
  <2>1. Clean' \in SUBSET Clean /\ Calm' \in SUBSET Calm
    BY <1>1, <1>8, CleanKept
  <2>2. sku \notin Calm'
    BY <1>8 DEF Calm
  <2> QED
    BY <2>1, <2>2
<1>10. Sound(warehouse', return, Clean', Calm')
  <2> HIDE DEF calm
  <2> QED
    BY <1>7, <1>9, SoundOfFewer
<1>11. spoilt' \subseteq Skus /\ Shed \notin CustomerOrders
  BY <1>1, DocumentsAre DEF IInv, Types
<1> QED
  BY <1>1, <1>6, <1>10, <1>11, MovementKeeps

LEMMA WriteOffByHandKeeps ==
  ASSUME IInv, NEW sku \in Skus, NEW quantity \in Portions, NEW batch \in Batches \cup {NoBatch},
         WriteOffByHand(sku, batch, quantity)
  PROVE  IInv' /\ Tells
<1> DEFINE taken == Taken(warehouse, sku, batch, quantity)
           row == Row(sku, "damage", - quantity, taken)
           short == Short(warehouse, sku, batch, quantity)
           clean == Clean \ short
           calm == Calm \ short
<1>1. /\ warehouse.stock[sku] >= quantity
      /\ warehouse' = WriteOff(warehouse, Shed, sku, batch, quantity, "damage")
      /\ spoilt' = spoilt \cup short
      /\ UNCHANGED <<po, return, expired, latest, unfiled, doubled>>
  BY DEF WriteOffByHand
<1>2. /\ warehouse \in Warehouses /\ Pointed(warehouse, return)
      /\ Nested(Clean, Calm) /\ Sound(warehouse, return, Clean, Calm)
  BY InvIs
<1>3. quantity \in Nat /\ quantity <= warehouse.stock[sku] /\ Shed \in Orders
  <2>1. quantity \in Nat /\ warehouse.stock[sku] \in Nat /\ Shed \in Orders
    BY <1>2, PurchasingAssumption, DocumentsAre DEF Warehouses
  <2> QED
    BY <1>1, <2>1
<1>4. WritesOff(warehouse, warehouse', Shed, sku, batch, quantity, "damage", taken)
  BY <1>1, <1>2, <1>3 DEF WritesOff
<1>5. short \subseteq Skus
  <2>1. batch # NoBatch => SkuOf[batch] \in Skus
    BY StockroomAssumption
  <2> QED
    BY <2>1 DEF Short
<1> HIDE DEF taken
<1>6. /\ Moved(warehouse, warehouse', Shed, row) /\ Told(warehouse, warehouse')
      /\ taken \in [Batches -> Nat]
  BY <1>4, WriteOffIs
<1> HIDE DEF row
<1>7. Sound(warehouse', return, clean, calm)
  <2>1. Nested(clean, calm) /\ Short(warehouse, sku, batch, quantity) \cap clean = {}
    BY <1>2 DEF Nested
  <2>2. Sound(warehouse, return, clean, calm)
    <3>1. clean \in SUBSET Clean /\ calm \in SUBSET Calm
      OBVIOUS
    <3> HIDE DEF clean, calm
    <3> QED
      BY <1>2, <3>1, SoundOfFewer
  <2>3. Plain(Shed)
    BY DocumentsAre DEF Plain
  <2>4. OnlyDoc(warehouse, warehouse', return, return, Shed)
    BY ONLY <1>2, <1>6, <2>3, PlainHeld
  <2>5. ASSUME NEW b \in Batches
        PROVE  HeldBy(warehouse'.moves, return, Shed, b)
                  <= HeldBy(warehouse.moves, return, Shed, b) + taken[b]
    <3>1. HeldBy(warehouse'.moves, return, Shed, b) = 0 /\ HeldBy(warehouse.moves, return, Shed, b) = 0
      BY <2>3, HoldsNothing DEF Plain
    <3>2. taken[b] \in Nat
      BY <1>6
    <3> QED
      BY <3>1, <3>2
  <2> HIDE DEF clean, calm, short
  <2> QED
    BY ONLY <1>2, <1>4, <2>1, <2>2, <2>4, <2>5, WriteOffKeeps
<1>8. Longer(warehouse.moves[Shed], warehouse.moves[Shed]')
  BY <1>2, <1>6, ShedLonger
<1>9. Clean' \in SUBSET clean /\ Calm' \in SUBSET calm
  <2>1. Clean' = clean
    BY <1>1 DEF Clean
  <2>2. Calm' \in SUBSET Calm /\ Nested(Clean', Calm')
    BY <1>1, <1>8, CleanKept
  <2> QED
    BY <2>1, <2>2 DEF Nested
<1>10. Sound(warehouse', return, Clean', Calm')
  <2> HIDE DEF clean, calm
  <2> QED
    BY <1>7, <1>9, SoundOfFewer
<1>11. spoilt' \subseteq Skus /\ Shed \notin CustomerOrders
  BY <1>1, <1>5, DocumentsAre DEF IInv, Types
<1> QED
  BY <1>1, <1>6, <1>10, <1>11, MovementKeeps

LEMMA SubscribeKeeps ==
  ASSUME IInv, NEW sku \in Wanted, Subscribe(sku)
  PROVE  IInv' /\ Tells
<1>1. /\ warehouse \in Warehouses /\ Pointed(warehouse, return)
      /\ OnFile(warehouse, unfiled) /\ unfiled \in [Skus -> Nat]
      /\ Sound(warehouse, return, Clean, Calm)
  BY InvIs
<1>2. /\ warehouse' = [warehouse EXCEPT !.waiting = @ \cup {sku}]
      /\ UNCHANGED <<po, return, expired, latest, unfiled, spoilt, doubled>>
  BY DEF Subscribe
<1>3. sku \in Skus
  BY PurchasingAssumption
<1>4. /\ warehouse' \in Warehouses /\ warehouse'.stock = warehouse.stock
      /\ warehouse'.moves = warehouse.moves /\ warehouse'.left = warehouse.left
      /\ warehouse'.got = warehouse.got
  BY <1>1, <1>2, <1>3 DEF Warehouses
<1>5. expired \subseteq Perishable /\ spoilt \subseteq Skus /\ ReturnsFit /\ SalesFirst
      /\ return \in [SupplierReturns -> ReturnRows]
  BY DEF IInv, Types
<1>6. Sound(warehouse', return, Clean, Calm)
  <2>1. \A b : Held(warehouse', return, b) = Held(warehouse, return, b)
    BY <1>4 DEF Held
  <2> QED
    BY <1>1, <1>4, <2>1 DEF Sound, FileFits, ShelvesFit, BatchesFit
<1>7. Clean' \in SUBSET Clean /\ Calm' \in SUBSET Calm
  BY <1>2, <1>4, CleanKept DEF Longer
<1>8. Sound(warehouse', return, Clean', Calm')
  BY <1>6, <1>7, SoundOfFewer
<1>9. OnFile(warehouse', unfiled)
  <2>1. \A s \in Skus : warehouse'.stock[s] - warehouse.stock[s] = unfiled[s] - unfiled[s]
    <3>1. \A s \in Skus : warehouse.stock[s] \in Nat /\ unfiled[s] \in Nat
      BY <1>1 DEF Warehouses
    <3> QED
      BY <1>4, <3>1
  <2> QED
    BY <1>1, <1>4, <2>1, NotedOnFile
<1>10. ReturnsFit' /\ SalesFirst'
  BY <1>2, <1>4, <1>5, ReturnsKept, SalesKept
<1>11. IInv'
  BY <1>1, <1>2, <1>4, <1>5, <1>8, <1>9, <1>10, StepInv
<1>12. Tells
  BY <1>1, <1>4, SameTells
<1> QED
  BY <1>11, <1>12

LEMMA ExpireKeeps ==
  ASSUME IInv, NEW b \in Batches, Expire(b)
  PROVE  IInv' /\ Tells
<1>1. /\ warehouse \in Warehouses /\ OnFile(warehouse, unfiled) /\ unfiled \in [Skus -> Nat]
      /\ Sound(warehouse, return, Clean, Calm)
  BY InvIs
<1>2. /\ expired' = expired \cup {b} /\ b \in Perishable
      /\ UNCHANGED <<po, return, warehouse, latest, unfiled, spoilt, doubled>>
  BY DEF Expire
<1>3. expired \subseteq Perishable /\ spoilt \subseteq Skus /\ ReturnsFit /\ SalesFirst
      /\ return \in [SupplierReturns -> ReturnRows]
  BY DEF IInv, Types
<1>4. Clean' \in SUBSET Clean /\ Calm' \in SUBSET Calm
  BY <1>2, CleanKept DEF Longer
<1>5. Sound(warehouse', return, Clean', Calm')
  BY <1>1, <1>2, <1>4, SoundOfFewer
<1>6. ReturnsFit' /\ SalesFirst'
  BY <1>2, <1>3, ReturnsKept, SalesKept
<1>7. IInv'
  <2>1. expired' \subseteq Perishable
    BY <1>2, <1>3
  <2>2. OnFile(warehouse', unfiled')
    BY <1>1, <1>2
  <2> QED
    BY <1>1, <1>2, <1>3, <1>5, <1>6, <2>1, <2>2, StepInv
<1>8. Tells
  BY <1>1, <1>2, SameTells
<1> QED
  BY <1>7, <1>8
-----------------------------------------------------------------------------
(* Receipts and the lines of their purchase order *)
Gain(delivery, sku) == Amount!Sum(delivery, FirstOf(delivery, Len(delivery), sku))

LEMMA AllItems ==
  ASSUME NEW delivery \in Seq(ItemsIn), NEW sku, NEW k
  PROVE  k \in FirstOf(delivery, Len(delivery), sku)
            <=> k \in DOMAIN delivery /\ SkuOf[delivery[k].batch] = sku
<1>1. DOMAIN delivery = 1..Len(delivery) /\ Len(delivery) \in Nat
  OBVIOUS
<1> QED
  BY <1>1 DEF FirstOf

LEMMA GainIs ==
  ASSUME NEW delivery \in Seq(ItemsIn), NEW sku
  PROVE  /\ MapThenSumSet(LAMBDA k : delivery[k].quantity,
                          {k \in DOMAIN delivery : SkuOf[delivery[k].batch] = sku})
               = Gain(delivery, sku)
         /\ Gain(delivery, sku) \in Nat
<1>1. DOMAIN delivery = 1..Len(delivery) /\ Len(delivery) \in Nat
  OBVIOUS
<1>2. FirstOf(delivery, Len(delivery), sku)
         = {k \in DOMAIN delivery : SkuOf[delivery[k].batch] = sku}
  BY <1>1 DEF FirstOf
<1>3. FirstOf(delivery, Len(delivery), sku) \in SUBSET DOMAIN delivery
  BY <1>2
<1>4. Gain(delivery, sku) \in Nat
  BY <1>3, DeliverySums DEF Gain
<1>5. MapThenSumSet(LAMBDA k : delivery[k].quantity,
                    {k \in DOMAIN delivery : SkuOf[delivery[k].batch] = sku})
         = Amount!Sum(delivery, {k \in DOMAIN delivery : SkuOf[delivery[k].batch] = sku})
  BY DEF MapThenSumSet, MapThenFoldSet, Amount!Sum, Amount!Fold, Amount!MapThenFoldSet,
         QuantityAt, Plus, Some
<1> QED
  BY <1>2, <1>4, <1>5 DEF Gain

\* The lines new are lines after the delivery.
Covers(lines, key, delivery, new) ==
    /\ lines \in Seq(LineRows) /\ key \in Keys(lines) /\ delivery \in Seq(ItemsIn)
    /\ Admitted(lines, key, delivery) /\ new = Covered(lines, key, delivery)
Added(lines, key, delivery, i) ==
    IF key[lines[i].sku] = i THEN Gain(delivery, lines[i].sku) ELSE 0

LEMMA CoversIs ==
  ASSUME NEW lines, NEW key, NEW delivery, NEW new, Covers(lines, key, delivery, new)
  PROVE  /\ new \in Seq(LineRows) /\ DOMAIN new = DOMAIN lines
         /\ \A i \in DOMAIN lines :
               /\ lines[i] \in LineRows /\ new[i] \in LineRows
               /\ new[i].sku = lines[i].sku /\ new[i].ordered = lines[i].ordered
               /\ new[i].received = lines[i].received + Added(lines, key, delivery, i)
               /\ Added(lines, key, delivery, i) \in Nat
<1>1. /\ lines \in Seq(LineRows) /\ delivery \in Seq(ItemsIn)
      /\ new = [i \in DOMAIN lines |->
                  IF key[lines[i].sku] # i THEN lines[i]
                  ELSE [lines[i] EXCEPT !.received = @ + Gain(delivery, lines[i].sku)]]
  BY GainIs DEF Covers, Covered
<1>2. /\ DOMAIN lines = 1..Len(lines) /\ Len(lines) \in Nat
      /\ \A i \in DOMAIN lines : lines[i] \in LineRows
  <2> DEFINE R == LineRows
  <2>1. lines \in Seq(R)
    BY <1>1
  <2> HIDE DEF R
  <2> QED
    BY <2>1 DEF R
<1>3. DOMAIN new = DOMAIN lines
  BY <1>1
<1>4. ASSUME NEW i \in DOMAIN lines
      PROVE  /\ new[i] \in LineRows
             /\ new[i].sku = lines[i].sku /\ new[i].ordered = lines[i].ordered
             /\ new[i].received = lines[i].received + Added(lines, key, delivery, i)
             /\ Added(lines, key, delivery, i) \in Nat
  <2>1. lines[i] \in LineRows /\ Gain(delivery, lines[i].sku) \in Nat
    BY <1>1, <1>2, GainIs
  <2>2. Added(lines, key, delivery, i) \in Nat
    BY <2>1 DEF Added
  <2>3. CASE key[lines[i].sku] # i
    <3>1. new[i] = lines[i] /\ Added(lines, key, delivery, i) = 0
      BY <1>1, <2>3 DEF Added
    <3>2. lines[i].received + 0 = lines[i].received
      BY <2>1 DEF LineRows
    <3> QED
      BY <2>1, <3>1, <3>2
  <2>4. CASE key[lines[i].sku] = i
    <3>1. /\ new[i] = [lines[i] EXCEPT !.received = @ + Gain(delivery, lines[i].sku)]
          /\ Added(lines, key, delivery, i) = Gain(delivery, lines[i].sku)
      BY <1>1, <2>4 DEF Added
    <3> QED
      BY <2>1, <3>1 DEF LineRows
  <2> QED
    BY <2>2, <2>3, <2>4
<1>5. new \in Seq(LineRows)
  <2> DEFINE n == Len(lines)
             R == LineRows
  <2>1. DOMAIN new = 1..n /\ n \in Nat /\ \A i \in 1..n : new[i] \in R
    BY <1>2, <1>3, <1>4
  <2>2. new = [i \in 1..n |-> new[i]]
    BY <1>1, <1>2
  <2> HIDE DEF n, R
  <2>3. new \in [1..n -> R]
    BY <2>1, <2>2
  <2>4. [1..n -> R] \subseteq Seq(R)
    BY <2>1
  <2> QED
    BY <2>3, <2>4 DEF R
<1> QED
  BY <1>2, <1>3, <1>4, <1>5

LEMMA KeyIs ==
  ASSUME NEW lines, NEW key \in Keys(lines)
  PROVE  /\ \A i \in DOMAIN lines : lines[i].sku \in DOMAIN key
         /\ \A sku \in DOMAIN key : key[sku] \in DOMAIN lines /\ lines[key[sku]].sku = sku
BY DEF Keys

\* Of each sku as much has come for the lines as the delivery has of it.
LEMMA CoverSums ==
  ASSUME NEW lines, NEW key, NEW delivery, NEW new, Covers(lines, key, delivery, new), NEW sku
  PROVE  Come!Sum(new, LinesOf(new, sku)) = Come!Sum(lines, LinesOf(lines, sku)) + Gain(delivery, sku)
<1> DEFINE S == LinesOf(lines, sku)
<1>1. /\ new \in Seq(LineRows) /\ lines \in Seq(LineRows) /\ DOMAIN new = DOMAIN lines
      /\ delivery \in Seq(ItemsIn) /\ key \in Keys(lines)
      /\ \A i \in DOMAIN lines :
            /\ lines[i] \in LineRows /\ new[i] \in LineRows
            /\ new[i].sku = lines[i].sku
            /\ new[i].received = lines[i].received + Added(lines, key, delivery, i)
            /\ Added(lines, key, delivery, i) \in Nat
  BY CoversIs DEF Covers
<1>2. LinesOf(new, sku) = S /\ S \in SUBSET DOMAIN lines /\ \A i \in S : lines[i].sku = sku
  BY <1>1 DEF LinesOf
<1>3. IsFiniteSet(S) /\ Gain(delivery, sku) \in Nat
  BY <1>1, <1>2, FewRows, GainIs
<1>4. Come!Summable(lines, S) /\ Come!Summable(new, S)
  <2>1. \A i \in S : ReceivedAt(lines, i) \in Int /\ ReceivedAt(new, i) \in Int
    BY <1>1, <1>2 DEF ReceivedAt, LineRows
  <2> QED
    BY <1>3, <2>1, SameFinite DEF Come!Summable
<1>5. Come!Sum(lines, S) \in Int
  BY <1>4, AllAdd, Come!SumInt
<1>6. CASE sku \in DOMAIN key
  <2> DEFINE x == key[sku]
  <2>1. x \in S
    BY <1>1, <1>6, KeyIs DEF LinesOf
  <2>2. \A y \in S \ {x} : ReceivedAt(lines, y) = ReceivedAt(new, y)
    <3> SUFFICES ASSUME NEW y \in S \ {x} PROVE ReceivedAt(lines, y) = ReceivedAt(new, y)
      OBVIOUS
    <3>1. Added(lines, key, delivery, y) = 0 /\ lines[y].received \in Nat
      BY <1>1, <1>2 DEF Added, LineRows
    <3> QED
      BY <1>1, <1>2, <3>1 DEF ReceivedAt
  <2>3. /\ ReceivedAt(new, x) = ReceivedAt(lines, x) + Gain(delivery, sku)
        /\ ReceivedAt(lines, x) \in Int
    <3>1. Added(lines, key, delivery, x) = Gain(delivery, sku) /\ lines[x].received \in Nat
      BY <1>1, <1>2, <2>1 DEF Added, LineRows
    <3> QED
      BY <1>1, <1>2, <2>1, <3>1 DEF ReceivedAt
  <2> HIDE DEF x, S
  <2>4. Come!Sum(new, S) = Come!Sum(lines, S) + ReceivedAt(new, x) - ReceivedAt(lines, x)
    BY <1>4, <2>1, <2>2, AllAdd, Come!SumChange
  <2> QED
    BY <1>2, <1>3, <1>5, <2>3, <2>4 DEF S
<1>7. CASE sku \notin DOMAIN key
  <2>1. S = {}
    BY <1>1, <1>2, <1>7, KeyIs
  <2>2. FirstOf(delivery, Len(delivery), sku) = {}
    <3>1. \A k \in DOMAIN delivery : SkuOf[delivery[k].batch] \in DOMAIN key
      BY DEF Covers, Admitted
    <3> QED
      BY <1>1, <1>7, <3>1, AllItems
  <2>3. Gain(delivery, sku) = 0
    BY <2>2, Amount!SumEmpty DEF Gain
  <2>4. Come!Sum(lines, S) = 0 /\ Come!Sum(new, S) = 0
    BY <2>1, Come!SumEmpty
  <2> QED
    BY <1>2, <2>3, <2>4
<1> QED
  BY <1>6, <1>7

\* No two items of a delivery are of one sku.
Single(delivery) ==
    \A j, k \in DOMAIN delivery : SkuOf[delivery[j].batch] = SkuOf[delivery[k].batch] => j = k
LEMMA CoverWithin ==
  ASSUME NEW lines, NEW key, NEW delivery, NEW new, Covers(lines, key, delivery, new),
         Single(delivery), \A i \in DOMAIN lines : lines[i].received <= lines[i].ordered,
         NEW i \in DOMAIN new
  PROVE  new[i].received <= new[i].ordered
<1>1. /\ DOMAIN new = DOMAIN lines /\ lines[i] \in LineRows /\ delivery \in Seq(ItemsIn)
      /\ new[i].ordered = lines[i].ordered
      /\ new[i].received = lines[i].received + Added(lines, key, delivery, i)
      /\ Admitted(lines, key, delivery)
  BY CoversIs DEF Covers
<1>2. lines[i].received <= lines[i].ordered /\ lines[i].received \in Nat /\ lines[i].ordered \in Nat
  BY <1>1 DEF LineRows
<1> DEFINE sku == lines[i].sku
           F == FirstOf(delivery, Len(delivery), sku)
<1>3. CASE key[sku] # i
  BY <1>1, <1>2, <1>3 DEF Added
<1>4. CASE key[sku] = i /\ F = {}
  <2>1. Gain(delivery, sku) = 0
    BY <1>4, Amount!SumEmpty DEF Gain
  <2> QED
    BY <1>1, <1>2, <1>4, <2>1 DEF Added
<1>5. CASE key[sku] = i /\ F # {}
  <2>1. PICK k \in F : TRUE
    BY <1>5
  <2>2. k \in DOMAIN delivery /\ SkuOf[delivery[k].batch] = sku
    BY <1>1, <2>1, AllItems
  <2>3. F = {k}
    <3>1. ASSUME NEW j \in F PROVE j = k
      <4>1. j \in DOMAIN delivery /\ SkuOf[delivery[j].batch] = sku
        BY <1>1, <3>1, AllItems
      <4> QED
        BY <2>2, <4>1 DEF Single
    <3> QED
      BY <2>1, <3>1
  <2>4. QuantityAt(delivery, k) = delivery[k].quantity /\ delivery[k].quantity \in Nat
    <3>1. {k} \in SUBSET DOMAIN delivery
      BY <2>2
    <3> QED
      BY <1>1, <2>2, <3>1, DeliverySums
  <2>5. Gain(delivery, sku) = delivery[k].quantity
    <3>1. Amount!Sum(delivery, {k}) = QuantityAt(delivery, k)
      BY <2>4, AllAdd, Amount!SumOne
    <3> QED
      BY <2>3, <2>4, <3>1 DEF Gain
  <2>6. delivery[k].quantity <= lines[i].ordered - lines[i].received
    BY <1>1, <1>5, <2>2 DEF Admitted
  <2> QED
    BY <1>1, <1>2, <1>5, <2>4, <2>5, <2>6 DEF Added
<1> QED
  BY <1>3, <1>4, <1>5

\* The status and the lines after a receipt.
ReceivesInto(old, row, key, delivery) ==
    /\ old \in OrderRows /\ old.status \in {"submitted", "partially_received"}
    /\ Covers(old.lines, key, delivery, row.lines)
    /\ row.status = StatusFor(row.lines, old.status)
LEMMA OrderReceives ==
  ASSUME NEW w, NEW v, NEW old, NEW row, NEW key, NEW delivery, NEW p,
         ReceivesInto(old, row, key, delivery),
         NEW double, NEW double2, OrderFits(w, old, p, double),
         ~double2 => ~double /\ Single(delivery),
         \A sku \in Skus : NetOf(v, p, sku) = NetOf(w, p, sku) + Gain(delivery, sku)
  PROVE  OrderFits(v, row, p, double2) /\ row.status \in DOMAIN OrderAfter
<1> DEFINE lines == old.lines
           new == row.lines
<1>1. /\ Covers(lines, key, delivery, new) /\ row.status = StatusFor(new, old.status)
      /\ old.status \in {"submitted", "partially_received"}
  BY DEF ReceivesInto
<1>2. /\ DOMAIN new = DOMAIN lines
      /\ \A i \in DOMAIN lines :
            /\ lines[i].received \in Nat /\ new[i].received \in Nat /\ new[i].ordered \in Nat
            /\ new[i].received >= lines[i].received
  <2>1. /\ DOMAIN new = DOMAIN lines
        /\ \A i \in DOMAIN lines :
              /\ lines[i] \in LineRows /\ new[i] \in LineRows
              /\ new[i].received = lines[i].received + Added(lines, key, delivery, i)
              /\ Added(lines, key, delivery, i) \in Nat
    BY <1>1, CoversIs
  <2> QED
    BY <2>1 DEF LineRows
<1>3. ASSUME NEW sku \in Skus
      PROVE  NetOf(v, p, sku) = Come!Sum(new, LinesOf(new, sku))
  <2>1. NetOf(w, p, sku) = Come!Sum(lines, LinesOf(lines, sku))
    BY DEF OrderFits
  <2>2. Come!Sum(new, LinesOf(new, sku)) = Come!Sum(lines, LinesOf(lines, sku)) + Gain(delivery, sku)
    BY <1>1, CoverSums
  <2> QED
    BY <2>1, <2>2
<1>4. ~double2 => \A i \in DOMAIN new : new[i].received <= new[i].ordered
  <2> SUFFICES ASSUME ~double2, NEW i \in DOMAIN new
               PROVE  new[i].received <= new[i].ordered
    OBVIOUS
  <2>1. Single(delivery) /\ \A j \in DOMAIN lines : lines[j].received <= lines[j].ordered
    BY DEF OrderFits
  <2> QED
    BY <1>1, <2>1, CoverWithin
<1>5. old.status = "partially_received" => \E i \in DOMAIN lines : lines[i].received > 0
  BY DEF OrderFits, Came
<1> HIDE DEF new, lines
<1>6. CASE \A i \in DOMAIN new : new[i].received >= new[i].ordered
  <2>1. row.status = "received"
    BY <1>1, <1>6 DEF StatusFor
  <2> QED
    BY <1>3, <1>4, <1>6, <2>1 DEF OrderFits, Full, new, OrderAfter
<1>7. CASE (\E i \in DOMAIN new : ~(new[i].received >= new[i].ordered))
           /\ \E i \in DOMAIN new : new[i].received > 0
  <2>1. row.status = "partially_received"
    BY <1>1, <1>7 DEF StatusFor
  <2> QED
    BY <1>3, <1>4, <1>7, <2>1 DEF OrderFits, Full, Came, new, OrderAfter
<1>8. CASE (\E i \in DOMAIN new : ~(new[i].received >= new[i].ordered))
           /\ \A i \in DOMAIN new : ~(new[i].received > 0)
  <2>1. old.status = "submitted"
    <3>1. \A i \in DOMAIN lines : ~(lines[i].received > 0)
      BY <1>2, <1>8
    <3> QED
      BY <1>1, <1>5, <3>1
  <2>2. row.status = "submitted"
    BY <1>1, <1>8, <2>1 DEF StatusFor
  <2> QED
    BY <1>3, <1>4, <1>8, <2>2 DEF OrderFits, Came, new, OrderAfter
<1> QED
  BY <1>6, <1>7, <1>8

\* The newest batch of each sku of a delivery is noted.
LEMMA LatestKeeps ==
  ASSUME NEW f \in [Skus -> Batches \cup {NoBatch}], NEW delivery \in Seq(ItemsIn),
         NEW g, g = Latest!Fold([rows |-> delivery], f, DOMAIN delivery)
  PROVE  g \in [Skus -> Batches \cup {NoBatch}]
<1> DEFINE n == Len(delivery)
           T == [Skus -> Batches \cup {NoBatch}]
<1>1. n \in Nat /\ DOMAIN delivery = 1..n
  OBVIOUS
<1>2. g = Latest!Fold([rows |-> delivery], f, 1..n)
  BY <1>1
<1>3. \A m \in 1..n : delivery[m].batch \in Batches
  <2>1. DOMAIN delivery \in SUBSET DOMAIN delivery
    OBVIOUS
  <2> QED
    BY <1>1, <2>1, DeliverySums
<1> HIDE DEF n
<1>4. PICK h : /\ h[0] = f
               /\ \A m \in 1..n : h[m] = [h[m - 1] EXCEPT ![SkuOf[delivery[m].batch]] = delivery[m].batch]
               /\ h[n] = Latest!Fold([rows |-> delivery], f, 1..n)
  BY <1>1, LatestIs
<1> DEFINE Q == {m \in 0..n : h[m] \in T}
<1>5. 0 \in Q
  BY <1>1, <1>4
<1>6. ASSUME NEW m \in 1..n, m - 1 \in Q PROVE m \in Q
  <2>1. h[m - 1] \in T /\ delivery[m].batch \in Batches
    BY <1>3, <1>6
  <2>2. h[m] = [h[m - 1] EXCEPT ![SkuOf[delivery[m].batch]] = delivery[m].batch]
    BY <1>4
  <2>3. h[m] \in T
    BY <2>1, <2>2
  <2> QED
    BY <1>1, <2>3
<1> HIDE DEF Q
<1>7. n \in Q
  <2>1. \A m \in 0..n : m \in Q
    BY <1>1, <1>5, <1>6, CountingUp
  <2> QED
    BY <1>1, <2>1
<1> QED
  BY <1>2, <1>4, <1>7 DEF Q

LEMMA ReceivedIs ==
  ASSUME NEW p, NEW delivery, NEW key, Receive(p, delivery, key)
  PROVE  /\ warehouse' = Receiving!Fold([rows |-> delivery, doc |-> p], warehouse, DOMAIN delivery)
         /\ latest' = Latest!Fold([rows |-> delivery], latest, DOMAIN delivery)
<1>1. warehouse' = Receiving!Fold([rows |-> delivery, doc |-> p], warehouse, DOMAIN delivery)
  BY DEF Receive, FoldLeft, Receiving!Fold, MapThenFoldSet, Receiving!MapThenFoldSet, ItemAt,
         Greatest, PutIn
<1>2. latest' = Latest!Fold([rows |-> delivery], latest, DOMAIN delivery)
  BY DEF Receive, FoldLeft, Latest!Fold, MapThenFoldSet, Latest!MapThenFoldSet, ItemAt,
         Greatest, Newest
<1> QED
  BY <1>1, <1>2

\* The constants' deliveries: a batch of its own for every item.
LEMMA DeliveriesAre ==
  ASSUME NEW delivery \in Deliveries
  PROVE  /\ delivery \in Seq(ItemsIn)
         /\ \A j, k \in DOMAIN delivery : delivery[j].batch = delivery[k].batch => j = k
<1>1. delivery \in Seq(ItemsIn)
  BY PurchasingAssumption DEF ItemsIn
<1> DEFINE f == [k \in DOMAIN delivery |-> delivery[k].batch]
<1>2. IsInjective(f)
  BY PurchasingAssumption
<1>3. \A j, k \in DOMAIN f : f[j] = f[k] => j = k
  <2> HIDE DEF f
  <2> QED
    BY <1>2 DEF IsInjective
<1> QED
  BY <1>1, <1>3

\* What an action gives to its purchase order, named for the lemmas.
ReceiptFor(p, row, delivery) ==
    /\ po' = [po EXCEPT ![p] = row]
    /\ doubled' = (IF \E j, k \in DOMAIN delivery :
                         j # k /\ SkuOf[delivery[j].batch] = SkuOf[delivery[k].batch]
                   THEN doubled \cup {p} ELSE doubled)
    /\ UNCHANGED <<return, expired, unfiled, spoilt>>

LEMMA ReceiveKeepsOrders ==
  ASSUME IInv, NEW p \in PurchaseOrders, NEW key, NEW delivery, NEW row \in OrderRows,
         ReceivesInto(po[p], row, key, delivery), ReceiptFor(p, row, delivery),
         \A q \in Orders \ {p} : warehouse'.moves[q] = warehouse.moves[q],
         \A sku \in Skus : NetOf(warehouse', p, sku) = NetOf(warehouse, p, sku) + Gain(delivery, sku)
  PROVE  /\ po' \in [PurchaseOrders -> OrderRows] /\ doubled' \subseteq PurchaseOrders
         /\ OrdersFit'
<1>1. /\ po \in [PurchaseOrders -> OrderRows] /\ doubled \subseteq PurchaseOrders /\ OrdersFit
      /\ OrderFits(warehouse, po[p], p, p \in doubled)
  BY OrderIsFit DEF IInv, Types
<1>2. /\ po' \in [PurchaseOrders -> OrderRows] /\ po'[p] = row
      /\ \A q \in PurchaseOrders \ {p} : po'[q] = po[q]
  BY <1>1 DEF ReceiptFor
<1>3. /\ doubled' \subseteq PurchaseOrders
      /\ \A q \in PurchaseOrders \ {p} : q \in doubled' <=> q \in doubled
      /\ p \notin doubled' => p \notin doubled /\ Single(delivery)
  BY <1>1 DEF ReceiptFor, Single
<1>4. \A q \in PurchaseOrders \ {p} : warehouse'.moves[q] = warehouse.moves[q]
  BY DocumentsAre
<1>5. OrderFits(warehouse', row, p, p \in doubled')
  <2> DEFINE v == warehouse'
             old == po[p]
             double2 == p \in doubled'
             double == p \in doubled
  <2>1. /\ ReceivesInto(old, row, key, delivery) /\ OrderFits(warehouse, old, p, double)
        /\ ~double2 => ~double /\ Single(delivery)
        /\ \A sku \in Skus : NetOf(v, p, sku) = NetOf(warehouse, p, sku) + Gain(delivery, sku)
    BY <1>1, <1>3
  <2> HIDE DEF v, old, double, double2
  <2>2. OrderFits(v, row, p, double2)
    BY ONLY <2>1, OrderReceives
  <2> QED
    BY <2>2 DEF v, double2
<1> QED
  BY <1>1, <1>2, <1>3, <1>4, <1>5, OneOrder

LEMMA ReceiveOrderKeeps ==
  ASSUME IInv, NEW p \in PurchaseOrders, NEW delivery \in Deliveries, NEW key \in Keys(po[p].lines),
         Receive(p, delivery, key)
  PROVE  IInv' /\ Tells
<1> DEFINE old == po[p]
           new == Covered(old.lines, key, delivery)
           row == [status |-> StatusFor(new, old.status), lines |-> new]
<1>1. /\ old.status \in {"submitted", "partially_received"}
      /\ \A k \in DOMAIN delivery : delivery[k].batch \notin Rows(warehouse)
      /\ Admitted(old.lines, key, delivery)
      /\ ReceiptFor(p, row, delivery)
  BY Zenon DEF Receive, ReceiptFor
<1>2. /\ warehouse' = Receiving!Fold([rows |-> delivery, doc |-> p], warehouse, DOMAIN delivery)
      /\ latest' = Latest!Fold([rows |-> delivery], latest, DOMAIN delivery)
  BY ReceivedIs
<1>3. /\ warehouse \in Warehouses /\ Pointed(warehouse, return) /\ OnFile(warehouse, unfiled)
      /\ unfiled \in [Skus -> Nat] /\ Nested(Clean, Calm) /\ Sound(warehouse, return, Clean, Calm)
  BY InvIs
<1>4. /\ delivery \in Seq(ItemsIn)
      /\ \A j, k \in DOMAIN delivery : delivery[j].batch = delivery[k].batch => j = k
  BY DeliveriesAre
<1>5. /\ Types /\ ReturnsFit /\ SalesFirst
      /\ latest \in [Skus -> Batches \cup {NoBatch}] /\ return \in [SupplierReturns -> ReturnRows]
      /\ expired \subseteq Perishable /\ spoilt \subseteq Skus /\ old \in OrderRows
  BY OrderIsFit DEF IInv, Types
<1>6. Receipt(warehouse, p, delivery)
  <2>1. Plain(p)
    BY DocumentsAre DEF Plain
  <2> QED
    BY <1>1, <1>4, <2>1 DEF Receipt
<1>7. Midway(warehouse, warehouse', return, Clean, Calm, unfiled, p, delivery, Len(delivery))
  <2> DEFINE v == warehouse'
  <2>1. v = Receiving!Fold([rows |-> delivery, doc |-> p], warehouse, DOMAIN delivery)
    BY <1>2
  <2> HIDE DEF v
  <2>2. Midway(warehouse, v, return, Clean, Calm, unfiled, p, delivery, Len(delivery))
    BY ONLY <1>3, <1>6, <2>1, ReceiptKeeps
  <2> QED
    BY <2>2 DEF v
<1>8. /\ Sound(warehouse', return, Clean, Calm) /\ OnFile(warehouse', unfiled)
      /\ Told(warehouse, warehouse') /\ warehouse' \in Warehouses
      /\ \A q \in Orders \ {p} : warehouse'.moves[q] = warehouse.moves[q]
      /\ \A sku : NetOf(warehouse', p, sku) = NetOf(warehouse, p, sku) + Gain(delivery, sku)
  BY <1>7 DEF Midway, Gain, Sound
<1>9. ReceivesInto(old, row, key, delivery) /\ row \in OrderRows
  <2>1. Covers(old.lines, key, delivery, new)
    BY <1>1, <1>4, <1>5 DEF Covers, OrderRows
  <2>2. new \in Seq(LineRows)
    BY <2>1, CoversIs
  <2>3. StatusFor(new, old.status) \in DOMAIN OrderAfter
    BY <1>1 DEF StatusFor, OrderAfter
  <2>4. row \in OrderRows /\ row.lines = new /\ row.status = StatusFor(new, old.status)
    BY <2>2, <2>3 DEF OrderRows
  <2> HIDE DEF row, new
  <2> QED
    BY <1>1, <1>5, <2>1, <2>4 DEF ReceivesInto
<1> HIDE DEF row, new
<1>10. /\ po' \in [PurchaseOrders -> OrderRows] /\ doubled' \subseteq PurchaseOrders
       /\ OrdersFit'
  BY <1>1, <1>8, <1>9, ReceiveKeepsOrders
<1>11. latest' \in [Skus -> Batches \cup {NoBatch}]
  BY <1>2, <1>4, <1>5, LatestKeeps
<1>12. /\ warehouse'.moves[Shed] = warehouse.moves[Shed]
       /\ \A o \in CustomerOrders : warehouse'.moves[o] = warehouse.moves[o]
       /\ \A r \in SupplierReturns : warehouse'.moves[r] = warehouse.moves[r]
  BY <1>8, DocumentsAre
<1>13. UNCHANGED <<return, expired, unfiled, spoilt>>
  BY <1>1 DEF ReceiptFor
<1>14. Types'
  BY <1>3, <1>5, <1>8, <1>10, <1>11, <1>13 DEF Types
<1>15. StockOnFile'
  BY <1>8, <1>13, FileWillBe
<1>16. Sound(warehouse, return, Clean, Calm)'
  <2>1. Clean' \in SUBSET Clean /\ Calm' \in SUBSET Calm
    BY <1>12, <1>13, CleanKept DEF Longer
  <2>2. Sound(warehouse', return, Clean', Calm')
    BY <1>8, <2>1, SoundOfFewer
  <2> QED
    BY <1>13, <2>2
<1>17. ReturnsFit' /\ SalesFirst'
  BY <1>5, <1>12, <1>13, ReturnsKept, SalesKept
<1> QED
  BY <1>8, <1>10, <1>14, <1>15, <1>16, <1>17, ToldTells DEF IInv
-----------------------------------------------------------------------------
(* The start *)
\* A warehouse of which there is no movement yet.
Untouched(w) == w \in Warehouses /\ \A d \in Orders : w.moves[d] = <<>>
LEMMA NothingMoved ==
  ASSUME NEW w, Untouched(w), NEW d \in Orders, NEW sku
  PROVE  NetOf(w, d, sku) = 0
<1>1. RowsOf(w.moves[d], sku) = {}
  BY DEF Untouched, RowsOf
<1> QED
  BY <1>1, NetIsSum, Net!SumEmpty

LEMMA StartOnFile ==
  ASSUME NEW w, Untouched(w), w.stock = Stock0, NEW extra, \A sku \in Skus : extra[sku] = 0
  PROVE  OnFile(w, extra)
<1> SUFFICES ASSUME NEW sku \in Skus
             PROVE  w.stock[sku] = Stock0[sku] + extra[sku]
                       + MapThenSumSet(LAMBDA p : NetOf(w, p, sku), Orders)
  BY DEF OnFile
<1> DEFINE c == [w |-> w, sku |-> sku]
<1>1. /\ MapThenSumSet(LAMBDA p : NetOf(w, p, sku), Orders) = Books!Sum(c, Orders)
      /\ \A p : NetAt(c, p) = NetOf(w, p, sku)
  BY BooksAre
<1> HIDE DEF c
<1>2. \A p \in Orders : NetAt(c, p) = 0
  BY <1>1, NothingMoved
<1>3. Books!Sum(c, Orders) = 0
  BY <1>2, DocumentsAre, SameFinite, AllAdd, Books!SumZero
<1>4. Stock0[sku] \in Nat /\ extra[sku] = 0
  BY PurchasingAssumption
<1>5. w.stock[sku] = Stock0[sku] + extra[sku] + Books!Sum(c, Orders)
  BY <1>3, <1>4
<1> QED
  BY <1>1, <1>5

LEMMA StartSound ==
  ASSUME NEW w, Untouched(w), w.stock = Stock0, w.left = Left0, w.got = Left0,
         NEW back \in [SupplierReturns -> ReturnRows],
         \A r \in SupplierReturns : back[r].items = <<>>,
         NEW clean, NEW calm, \A sku \in calm : StartsEven(sku)
  PROVE  Sound(w, back, clean, calm)
<1>1. FileFits(w, clean, calm)
  BY DEF Untouched, FileFits
<1>2. ShelvesFit(w, calm)
  BY StartIsTotal DEF ShelvesFit
<1>3. Pointed(w, back)
  BY DEF Pointed, Pointing
<1>4. ASSUME NEW b \in Batches PROVE Held(w, back, b) = 0
  <2> DEFINE c == [file |-> w.moves, back |-> back, batch |-> b]
  <2>1. /\ Held(w, back, b) = Holding!Sum(c, Orders)
        /\ \A d : HeldAt(c, d) = HeldBy(w.moves, back, d, b)
    BY <1>3, HeldIs DEF Untouched
  <2>2. ASSUME NEW d \in Orders PROVE HeldBy(w.moves, back, d, b) = 0
    <3>1. CASE d \in CustomerOrders
      <4>1. Len(w.moves[d]) = 0
        BY DEF Untouched
      <4> QED
        BY <3>1, <4>1, HeldBySale
    <3>2. CASE d \in SupplierReturns
      <4>1. DOMAIN back[d].items = {}
        BY <3>2
      <4>2. PartsOf(w.moves[d], back[d].items, b) = 0
        BY <4>1, Parts!SumEmpty DEF PartsOf
      <4>3. HeldBy(w.moves, back, d, b)
               = IF back[d].status # "cancelled" THEN PartsOf(w.moves[d], back[d].items, b) ELSE 0
        <5> HIDE DEF c
        <5> QED
          BY <3>2, HeldByIs
      <4> QED
        BY <4>2, <4>3
    <3>3. CASE d \notin CustomerOrders /\ d \notin SupplierReturns
      BY <3>3, HeldByIs
    <3> QED
      BY <3>1, <3>2, <3>3
  <2> HIDE DEF c
  <2>3. \A d \in Orders : HeldAt(c, d) = 0
    BY <2>1, <2>2
  <2>4. Holding!Sum(c, Orders) = 0
    BY <2>3, DocumentsAre, SameFinite, AllAdd, Holding!SumZero
  <2> QED
    BY <2>1, <2>4
<1>5. BatchesFit(w, back, clean)
  <2>1. \A b \in Batches : w.left[b] \in Nat /\ w.got[b] = w.left[b]
    BY PurchasingAssumption
  <2>2. \A b \in Batches : w.left[b] + Held(w, back, b) <= w.got[b]
    BY <1>4, <2>1
  <2> QED
    BY <2>2 DEF BatchesFit
<1> QED
  BY <1>1, <1>2, <1>5 DEF Sound, Untouched

LEMMA InitHolds == Init => IInv
<1> SUFFICES ASSUME Init PROVE IInv
  OBVIOUS
<1>1. /\ po = [p \in PurchaseOrders |-> [status |-> "none", lines |-> <<>>]]
      /\ return = [r \in SupplierReturns |-> [status |-> "none", items |-> <<>>]]
      /\ warehouse = [stock |-> Stock0, left |-> Left0, got |-> Left0,
                       moves |-> [d \in Orders |-> <<>>],
                       waiting |-> {}, hidden |-> {}]
      /\ expired = {} /\ latest = [sku \in Skus |-> NoBatch]
      /\ unfiled = [sku \in Skus |-> 0] /\ spoilt = {} /\ doubled = {}
  BY DEF Init
<1>2. warehouse.stock = Stock0 /\ warehouse.left = Left0 /\ warehouse.got = Left0
  BY <1>1
<1>3. Untouched(warehouse)
  <2>1. \A d \in Orders : warehouse.moves[d] = <<>>
    BY <1>1
  <2>2. [d \in Orders |-> <<>>] \in [Orders -> Seq(MoveRows)]
    OBVIOUS
  <2>3. Stock0 \in [Skus -> Nat] /\ Left0 \in [Batches -> Nat]
    BY PurchasingAssumption
  <2>4. warehouse \in Warehouses
    BY <1>1, <2>2, <2>3 DEF Warehouses
  <2> QED
    BY <2>1, <2>4 DEF Untouched
<1>4. \A p \in PurchaseOrders : po[p].status = "none" /\ po[p].lines = <<>>
  BY <1>1
<1>5. po \in [PurchaseOrders -> OrderRows]
  <2>1. [status |-> "none", lines |-> <<>>] \in OrderRows
    BY DEF OrderRows
  <2> QED
    BY <1>1, <2>1
<1>6. \A r \in SupplierReturns : return[r].status = "none" /\ return[r].items = <<>>
  BY <1>1
<1>7. return \in [SupplierReturns -> ReturnRows]
  <2>1. [status |-> "none", items |-> <<>>] \in ReturnRows
    BY DEF ReturnRows
  <2> QED
    BY <1>1, <2>1
<1>8. Types
  BY <1>1, <1>3, <1>5, <1>7 DEF Types, Untouched
<1>9. StockOnFile
  <2>1. \A sku \in Skus : unfiled[sku] = 0
    BY <1>1
  <2> QED
    BY <1>2, <1>3, <2>1, StartOnFile, FileIs
<1>10. Sound(warehouse, return, Clean, Calm)
  <2>1. \A sku \in Calm : StartsEven(sku)
    BY DEF Calm
  <2> QED
    BY <1>2, <1>3, <1>6, <1>7, <2>1, StartSound
<1>11. OrdersFit
  <2> SUFFICES ASSUME NEW p \in PurchaseOrders
               PROVE  OrderFits(warehouse, po[p], p, p \in doubled)
    BY OrdersAre DEF OrdersFitIn
  <2>1. po[p].status = "none" /\ po[p].lines = <<>> /\ DOMAIN po[p].lines = {}
    BY <1>4
  <2>2. ASSUME NEW sku \in Skus
        PROVE  NetOf(warehouse, p, sku) = Come!Sum(po[p].lines, LinesOf(po[p].lines, sku))
    <3>1. NetOf(warehouse, p, sku) = 0
      BY <1>3, DocumentsAre, NothingMoved
    <3>2. LinesOf(po[p].lines, sku) = {}
      BY <2>1 DEF LinesOf
    <3>3. Come!Sum(po[p].lines, LinesOf(po[p].lines, sku)) = 0
      BY <3>2, Come!SumEmpty
    <3> QED
      BY <3>1, <3>3
  <2> QED
    BY <2>1, <2>2 DEF OrderFits
<1>12. ReturnsFit
  BY <1>6 DEF ReturnsFit, ReturnFits, ItemsHaveMoves
<1>13. SalesFirst
  <2>1. \A o \in CustomerOrders : warehouse.moves[o] = <<>>
    BY <1>3, DocumentsAre DEF Untouched
  <2>2. Len(<<>>) = 0
    OBVIOUS
  <2> QED
    BY <2>1, <2>2 DEF SalesFirst
<1> QED
  BY <1>8, <1>9, <1>10, <1>11, <1>12, <1>13 DEF IInv
-----------------------------------------------------------------------------
(* The theorems *)
LEMMA BuyingKeeps ==
  ASSUME IInv, NEW p \in PurchaseOrders, Buying(p)
  PROVE  IInv' /\ Tells
<1>1. ASSUME NEW basket \in Baskets, CreatePurchaseOrder(p, basket) PROVE IInv' /\ Tells
  BY <1>1, CreateKeeps
<1>2. ASSUME NEW basket \in Baskets, UpdateDraft(p, basket) PROVE IInv' /\ Tells
  BY <1>2, UpdateDraftKeeps
<1>3. ASSUME NEW product \in Products, MergeRecommendation(p, product, 1) PROVE IInv' /\ Tells
  BY <1>3, MergeKeeps
<1>4. ASSUME NEW to \in DOMAIN OrderAfter, SetOrderStatus(p, to) PROVE IInv' /\ Tells
  BY <1>4, OrderStatusKeeps
<1>5. ASSUME NEW delivery \in Deliveries, NEW key \in Keys(po[p].lines), Receive(p, delivery, key)
      PROVE  IInv' /\ Tells
  BY <1>5, ReceiveOrderKeeps
<1> QED
  BY <1>1, <1>2, <1>3, <1>4, <1>5 DEF Buying

LEMMA ReturningKeeps ==
  ASSUME IInv, NEW r \in SupplierReturns, Returning(r)
  PROVE  IInv' /\ Tells
<1>1. ASSUME NEW claim \in Claims, CreateReturn(r, claim) PROVE IInv' /\ Tells
  BY <1>1, CreateReturnKeeps
<1>2. ASSUME NEW order \in SetToSeqs(DOMAIN return[r].items), ApproveReturn(r, order)
      PROVE  IInv' /\ Tells
  BY <1>2, ApproveReturnKeeps
<1>3. ASSUME NEW to \in DOMAIN ReturnAfter, SetReturnStatus(r, to) PROVE IInv' /\ Tells
  BY <1>3, ReturnStatusKeeps
<1> QED
  BY <1>1, <1>2, <1>3 DEF Returning

LEMMA NothingKeeps ==
  ASSUME IInv, UNCHANGED vars
  PROVE  IInv' /\ Tells
<1>1. UNCHANGED <<po, return, warehouse, expired, latest, unfiled, spoilt, doubled>>
  BY DEF vars
<1>2. /\ warehouse \in Warehouses /\ OnFile(warehouse, unfiled) /\ unfiled \in [Skus -> Nat]
      /\ Sound(warehouse, return, Clean, Calm)
  BY InvIs
<1>3. /\ return \in [SupplierReturns -> ReturnRows] /\ expired \subseteq Perishable
      /\ spoilt \subseteq Skus /\ ReturnsFit /\ SalesFirst
  BY DEF IInv, Types
<1>4. Clean' \in SUBSET Clean /\ Calm' \in SUBSET Calm
  BY <1>1, CleanKept DEF Longer
<1>5. Sound(warehouse, return, Clean', Calm')
  BY <1>2, <1>4, SoundOfFewer
<1>6. ReturnsFit' /\ SalesFirst'
  BY <1>1, <1>3, ReturnsKept, SalesKept
<1>7. Told(warehouse, warehouse')
  <2>1. \A sku \in Skus : warehouse.stock[sku] \in Nat
    BY <1>2 DEF Warehouses
  <2>2. Told(warehouse, warehouse)
    BY <1>2, <2>1, LessTold
  <2> QED
    BY <1>1, <2>2
<1>8. /\ warehouse' \in Warehouses /\ return' \in [SupplierReturns -> ReturnRows]
      /\ unfiled' \in [Skus -> Nat] /\ OnFile(warehouse', unfiled')
      /\ Sound(warehouse', return', Clean', Calm')
      /\ po' = po /\ doubled' = doubled /\ latest' = latest
      /\ expired' \subseteq Perishable /\ spoilt' \subseteq Skus
      /\ \A p \in PurchaseOrders : warehouse'.moves[p] = warehouse.moves[p]
  BY <1>1, <1>2, <1>3, <1>5
<1> QED
  BY <1>6, <1>7, <1>8, StepKeeps

LEMMA NextKeeps ==
  ASSUME IInv, [Next]_vars
  PROVE  IInv' /\ Tells
<1>1. ASSUME NEW p \in PurchaseOrders, Buying(p) PROVE IInv' /\ Tells
  BY <1>1, BuyingKeeps
<1>2. ASSUME NEW r \in SupplierReturns, Returning(r) PROVE IInv' /\ Tells
  BY <1>2, ReturningKeeps
<1>3. ASSUME NEW sku \in Skus, NEW quantity \in Portions,
             NEW o \in CustomerOrders, Buy(o, sku, quantity)
      PROVE  IInv' /\ Tells
  BY <1>3, BuyKeeps
<1>4. ASSUME NEW sku \in Skus, NEW quantity \in Portions,
             NEW b \in Batches \cup {NoBatch}, WriteOffByHand(sku, b, quantity)
      PROVE  IInv' /\ Tells
  BY <1>4, WriteOffByHandKeeps
<1>5. ASSUME NEW o \in CustomerOrders, CancelPurchase(o) PROVE IInv' /\ Tells
  BY <1>5, CancelPurchaseKeeps
<1>6. ASSUME NEW sku \in Skus, NEW change \in Changes, MoveByHand(sku, change)
      PROVE  IInv' /\ Tells
  BY <1>6, MoveByHandKeeps
<1>7. ASSUME NEW sku \in Wanted, Subscribe(sku) PROVE IInv' /\ Tells
  BY <1>7, SubscribeKeeps
<1>8. ASSUME NEW b \in Batches, Expire(b) PROVE IInv' /\ Tells
  BY <1>8, ExpireKeeps
<1>9. ASSUME UNCHANGED vars PROVE IInv' /\ Tells
  BY <1>9, NothingKeeps
<1> QED
  BY <1>1, <1>2, <1>3, <1>4, <1>5, <1>6, <1>7, <1>8, <1>9 DEF Next

\* The inductive invariant of purchasing: movements explain the stock, the batches of a sku
\* nobody moved by hand hold its stock and what may still come back fits into them, orders
\* agree with their receipts, and returns with their movements.
THEOREM PurchasingInvariant == Spec => []IInv
<1>1. Init => IInv
  BY InitHolds
<1>2. IInv /\ [Next]_vars => IInv'
  BY NextKeeps
<1> QED
  BY <1>1, <1>2, PTL DEF Spec

LEMMA TypesHold == IInv => TypeOK
<1> SUFFICES ASSUME IInv PROVE TypeOK
  OBVIOUS
<1>1. Types
  BY DEF IInv
<1>2. ASSUME NEW p \in PurchaseOrders
      PROVE  /\ po[p].status \in DOMAIN OrderAfter \cup {"none"}
             /\ po[p].lines \in Seq([sku : Skus, ordered : Nat, received : Nat])
  <2>1. po[p] \in OrderRows
    BY <1>1 DEF Types
  <2> QED
    BY <2>1 DEF OrderRows, LineRows
<1>3. ASSUME NEW r \in SupplierReturns
      PROVE  /\ return[r].status \in DOMAIN ReturnAfter \cup {"none"}
             /\ return[r].items \in Seq([sku : Skus, batch : Batches \cup {NoBatch},
                                         quantity : Nat, move : Nat])
  <2>1. return[r] \in ReturnRows
    BY <1>1 DEF Types
  <2> DEFINE R == [sku : Skus, batch : Batches \cup {NoBatch}, quantity : Nat, move : Nat]
             status == return[r].status
             items == return[r].items
  <2>2. status \in DOMAIN ReturnAfter \cup {"none"} /\ items \in Seq(ItemRows)
    BY <2>1 DEF ReturnRows
  <2>3. ItemRows \subseteq R
    BY DEF ItemRows
  <2>4. items \in Seq(R)
    <3> DEFINE T == ItemRows
    <3>1. items \in Seq(T) /\ T \subseteq R
      BY <2>2, <2>3
    <3> HIDE DEF T, R, items
    <3> QED
      BY <3>1
  <2> QED
    BY <2>2, <2>4
<1>4. /\ warehouse.stock \in [Skus -> Nat] /\ warehouse.left \in [Batches -> Nat]
      /\ warehouse.got \in [Batches -> Nat] /\ warehouse.waiting \subseteq Skus
  BY <1>1 DEF Types, Warehouses
<1>5. /\ expired \subseteq Perishable /\ spoilt \subseteq Skus
      /\ latest \in [Skus -> Batches \cup {NoBatch}]
      /\ unfiled \in [Skus -> Nat] /\ doubled \subseteq PurchaseOrders
  BY <1>1 DEF Types
<1> QED
  BY <1>2, <1>3, <1>4, <1>5 DEF TypeOK

LEMMA BatchesHold == IInv => BatchesMatchStock /\ BatchesWithinReceipts
<1> SUFFICES ASSUME IInv PROVE BatchesMatchStock /\ BatchesWithinReceipts
  OBVIOUS
<1>1. /\ warehouse \in Warehouses /\ Pointed(warehouse, return)
      /\ Nested(Clean, Calm) /\ Sound(warehouse, return, Clean, Calm)
  BY InvIs
<1>2. ASSUME NEW sku \in Skus \ spoilt, ~MovedByHand(sku), StartsEven(sku)
      PROVE  InBatches(warehouse, BatchesOf(warehouse, sku)) = warehouse.stock[sku]
  <2>1. sku \in Calm
    BY <1>2 DEF Calm, Clean
  <2>2. Total!Sum(warehouse.left, BatchesOf(warehouse, sku)) = warehouse.stock[sku]
    BY <1>1, <2>1, StockInRows
  <2> QED
    BY <2>2, InBatchesIsTotal
<1>3. BatchesMatchStock
  BY <1>2 DEF BatchesMatchStock, StartsEven
<1>4. ASSUME NEW b \in Batches, SkuOf[b] \notin spoilt
      PROVE  warehouse.left[b] <= warehouse.got[b]
  <2>1. SkuOf[b] \in Clean
    BY <1>4, StockroomAssumption DEF Clean
  <2>2. warehouse.left[b] + Held(warehouse, return, b) <= warehouse.got[b]
    BY <1>1, <2>1 DEF Sound, BatchesFit
  <2>3. Held(warehouse, return, b) \in Nat
    BY <1>1, HeldIs
  <2>4. warehouse.left[b] \in Nat /\ warehouse.got[b] \in Nat
    BY <1>1 DEF Warehouses
  <2> QED
    BY <2>2, <2>3, <2>4
<1> QED
  BY <1>3, <1>4 DEF BatchesWithinReceipts

\* Whatever is ordered, received, returned, written off, sold and cancelled, the movements
\* explain every unit of stock, and the batches hold just the stock, of every sku that was
\* not moved by hand and whose named batches held what was asked.
THEOREM StockStaysExplained == Spec => []StockExplained
<1>1. IInv => StockExplained
  BY TypesHold, BatchesHold DEF IInv, StockExplained
<1> QED
  BY <1>1, PurchasingInvariant, PTL

\* Over any receipts, the lines and the status of a purchase order say what its movements
\* brought, and never more than was ordered unless a receipt named an item twice.
THEOREM ReceiptsStayInOrder == Spec => []ReceiptsAddUp
<1>1. IInv => ReceiptsAddUp
  BY DEF IInv, OrdersFit
<1> QED
  BY <1>1, PurchasingInvariant, PTL

LEMMA MovesThere == IInv => ApprovedLinesHaveMoves
<1> SUFFICES ASSUME IInv, NEW r \in SupplierReturns,
                    return[r].status \in {"approved", "sent", "completed"}
             PROVE  LET items == return[r].items IN
                    /\ \A i \in DOMAIN items :
                          /\ items[i].move \in DOMAIN warehouse.moves[r]
                          /\ warehouse.moves[r][items[i].move].sku = items[i].sku
                          /\ warehouse.moves[r][items[i].move].change = -items[i].quantity
                    /\ \A i, j \in DOMAIN items : items[i].move = items[j].move => i = j
  BY DEF ApprovedLinesHaveMoves
<1>1. /\ ItemsHaveMoves(warehouse.moves[r], return[r].items)
      /\ \A i \in DOMAIN return[r].items : return[r].items[i].move # 0
  BY DEF IInv, ReturnsFit, ReturnFits
<1> QED
  BY <1>1 DEF ItemsHaveMoves

\* A return that was approved, however often that was tried, has for each of its lines the
\* one movement that took its units.
THEOREM ApprovedReturnsAreMoved == Spec => []ApprovedLinesHaveMoves
  BY MovesThere, PurchasingInvariant, PTL

\* Whoever waits for a product is told by the receipt, cancellation or movement that brings it.
THEOREM WaitersStayTold == Spec => WaitersAreTold
<1>1. IInv /\ [Next]_vars =>
         [\A sku \in Skus :
             warehouse'.stock[sku] > warehouse.stock[sku] => sku \notin warehouse'.waiting]_vars
  BY NextKeeps DEF Tells
<1> QED
  BY <1>1, PurchasingInvariant, PTL DEF Spec, WaitersAreTold
=============================================================================
