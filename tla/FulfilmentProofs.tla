-------------------------- MODULE FulfilmentProofs --------------------------
(***************************************************************************)
(* What Fulfilment keeps true for any number of orders, products, variants *)
(* and batches, and any carts.                                             *)
(***************************************************************************)
EXTENDS Fulfilment, FiniteSetTheorems, TLAPS

\* The batches a product or variant starts with, which are all it ever has.
OwnBatches(sku) == {b \in Batches : Left0[b] > 0 /\ SkuOf[b] = sku}

\* A movement touches batches of what it moves only.
MoveRows ==
    {move \in [sku : Skus, type : {"sale", "substitution_restore", "cancel_restore"},
               change : Int, taken : [Batches -> Nat]] :
        \A b \in Batches : move.taken[b] # 0 => b \in OwnBatches(move.sku)}

Warehouses ==
    [stock : [Skus -> Nat], left : [Batches -> Nat], got : {Left0},
     moves : [Orders -> Seq(MoveRows)], waiting : {{}}, hidden : {{}}]

LineRows ==
    [sku : Skus, quantity : Nat \ {0},
     picked : {"pending", "picked", "substituted", "unavailable"},
     substitution : {"none", "proposed", "approved", "rejected"},
     replacement : Skus, replacing : Nat]

\* What a replacement is: a product, and not the one it replaces.
Replaceable(line) ==
    line.substitution \in {"proposed", "approved"} =>
        line.replacement \in Products /\ line.replacement # ProductOf(line.sku)

Types ==
    /\ status \in [Orders -> Statuses \cup {"none"}]
    /\ preference \in [Orders -> Preferences \cup {"contact_me"}]
    /\ lines \in [Orders -> Seq(LineRows)]
    /\ warehouse \in Warehouses
    /\ expired \subseteq Perishable
    /\ \A o \in Orders : \A i \in DOMAIN lines[o] : Replaceable(lines[o][i])

\* Order o has a sale of that quantity of sku on file.
HasSale(w, o, sku, quantity) ==
    \E i \in DOMAIN w.moves[o] :
        /\ w.moves[o][i].type = "sale"
        /\ w.moves[o][i].sku = sku /\ w.moves[o][i].change = - quantity

\* Whatever a line says was sold has been.
LineIsSold(w, o, line) ==
    /\ HasSale(w, o, line.sku, line.quantity)
    /\ line.substitution = "approved" => HasSale(w, o, line.replacement, line.replacing)

LinesAreSold == \A o \in Orders : \A i \in DOMAIN lines[o] : LineIsSold(warehouse, o, lines[o][i])

GivenBack(w, o) == \E i \in DOMAIN w.moves[o] : w.moves[o][i].type = "cancel_restore"

\* An order gives back when it is cancelled, if it has anything to give back.
GivenBackIfCancelled ==
    \A o \in Orders :
        /\ GivenBack(warehouse, o) => status[o] = "cancelled"
        /\ status[o] = "cancelled" /\ lines[o] # <<>> => GivenBack(warehouse, o)

NothingBefore == \A o \in Orders : status[o] = "none" => lines[o] = <<>>

IInv ==
    /\ Types /\ LinesAreSold /\ GivenBackIfCancelled /\ NothingBefore
    /\ UnitsAccounted /\ BatchesFollowSimpleSales
-----------------------------------------------------------------------------
(* Sums *)
At(f, x) == f[x]
Plus(c, x, y) == x + y
Some(S) == CHOOSE x \in S : TRUE
Total == INSTANCE FoldFacts WITH op <- Plus, map <- At, choose <- Some

LEMMA TotalAdds == Total!Adding
BY DEF Total!Adding, Plus, Some

\* The sums of the model are those the facts about sums speak of.
LEMMA SumsAreTotals ==
  ASSUME NEW f, NEW S
  PROVE  SumFunctionOnSet(f, S) = Total!Sum(f, S)
BY DEF SumFunctionOnSet, FoldFunctionOnSet, Total!Sum, Total!Fold, Total!MapThenFoldSet,
       MapThenFoldSet, At, Plus, Some

\* The instance has copies of the operators of FiniteSets.
LEMMA SameFinite == \A S : Total!IsFiniteSet(S) <=> IsFiniteSet(S)
BY DEF IsFiniteSet, Total!IsFiniteSet

\* A set of naturals that is not empty has a least element, which Min returns.
LEMMA LeastIsMin ==
  ASSUME NEW S \in SUBSET Nat, S # {}
  PROVE  Min(S) \in S /\ \A n \in S : Min(S) <= n
<1>1. \E n \in S : \A m \in S : n <= m
  BY Total!LeastNatural
<1> QED
  BY <1>1 DEF Min

\* The batches are finitely many, and so is any choice of them.
LEMMA FewBatches ==
  ASSUME NEW S \in SUBSET Batches
  PROVE  Total!IsFiniteSet(S)
BY SameFinite, FS_Subset, StockroomAssumption

\* What batches hold together.
LEMMA InBatchesNat ==
  ASSUME NEW w, w.left \in [Batches -> Nat], NEW S \in SUBSET Batches
  PROVE  InBatches(w, S) \in Nat
<1>1. \A b \in S : At(w.left, b) \in Nat
  BY DEF At
<1> QED
  BY <1>1, FewBatches, SumsAreTotals, TotalAdds, Total!SumNat DEF InBatches

\* The rows of a warehouse are the batches something was received in.
LEMMA BatchesAreOwn ==
  ASSUME NEW w \in Warehouses, NEW sku
  PROVE  BatchesOf(w, sku) = OwnBatches(sku)
BY DEF BatchesOf, Rows, OwnBatches, Warehouses
-----------------------------------------------------------------------------
(* consumeBatchesFefo *)
\* Of a batch no more is taken than it has, of none but the product's unexpired
\* ones, and only if those that expire sooner are taken whole.
LEMMA FefoTakes ==
  ASSUME NEW w \in Warehouses, NEW sku \in Skus, NEW quantity \in Nat, NEW past, NEW b \in Batches
  PROVE  LET taken == Fefo(w, sku, quantity, past) IN
         /\ taken[b] \in Nat /\ taken[b] <= w.left[b]
         /\ taken[b] # 0 => b \in OwnBatches(sku) \ past
         /\ taken[b] # 0 => \A d \in OwnBatches(sku) \ past :
                                FefoRank[d] < FefoRank[b] => taken[d] = w.left[d]
<1> DEFINE Own == OwnBatches(sku) \ past
           Earlier(d) == {e \in Own : FefoRank[e] < FefoRank[d]}
           Open(d) == quantity - InBatches(w, Earlier(d))
           Taken(d) == IF d \notin Own THEN 0
                       ELSE IF Open(d) <= 0 THEN 0 ELSE Min({Open(d), w.left[d]})
<1>1. w.left \in [Batches -> Nat]
  BY DEF Warehouses
<1>2. Own \subseteq Batches
  BY DEF OwnBatches
<1>3. \A d \in Batches : Fefo(w, sku, quantity, past)[d] = Taken(d)
  BY BatchesAreOwn DEF Fefo
<1>4. \A d \in Batches : InBatches(w, Earlier(d)) \in Nat
  <2>1. \A d \in Batches : Earlier(d) \in SUBSET Batches
    BY <1>2
  <2> QED
    BY <1>1, <2>1, InBatchesNat
<1> DEFINE Sum(d) == InBatches(w, Earlier(d))
<1> HIDE DEF Own
<1>5. ASSUME NEW m \in Nat, NEW n \in Nat
      PROVE  Min({m, n}) \in {m, n} /\ Min({m, n}) <= m /\ Min({m, n}) <= n
  <2>1. {m, n} \in SUBSET Nat /\ {m, n} # {}
    OBVIOUS
  <2> QED
    BY <2>1, LeastIsMin
<1>6. ASSUME NEW d \in Batches
      PROVE  /\ Taken(d) \in Nat /\ Taken(d) <= w.left[d]
             /\ Taken(d) # 0 => d \in Own /\ Open(d) > 0
             /\ d \in Own /\ Open(d) >= w.left[d] => Taken(d) = w.left[d]
  <2>1. w.left[d] \in Nat /\ Open(d) \in Int
    BY <1>1, <1>4
  <2> DEFINE n == Open(d)
             m == w.left[d]
  <2>2. n > 0 => Min({n, m}) \in {n, m} /\ Min({n, m}) <= n /\ Min({n, m}) <= m
    <3> HIDE DEF n, m
    <3> QED
      BY <1>5, <2>1 DEF n, m
  <2> QED
    BY <2>1, <2>2
<1>7. ASSUME b \in Own, NEW d \in Own, FefoRank[d] < FefoRank[b]
      PROVE  Open(d) - w.left[d] >= Open(b)
  <2>1. Earlier(d) \cup {d} \in SUBSET Earlier(b) /\ d \notin Earlier(d)
    <3>1. \A e \in Own : FefoRank[e] \in Nat
      BY <1>2, StockroomAssumption
    <3> QED
      BY <1>7, <3>1
  <2>2. Earlier(b) \in SUBSET Batches /\ d \in Batches /\ Earlier(d) \cup {d} \in SUBSET Batches
    BY <1>2
  <2>3. \A e \in Batches : At(w.left, e) \in Nat
    BY <1>1 DEF At
  <2> DEFINE R == Earlier(d)
             S == Earlier(b)
  <2>4. Total!Sum(w.left, R \cup {d}) <= Total!Sum(w.left, S)
    <3>1. R \cup {d} \in SUBSET S /\ \A e \in S : At(w.left, e) \in Nat
      BY <2>1, <2>2, <2>3
    <3>2. Total!IsFiniteSet(S)
      BY <2>2, FewBatches
    <3> HIDE DEF R, S
    <3> QED
      BY <3>1, <3>2, TotalAdds, Total!SumPart
  <2>5. Total!Sum(w.left, R \cup {d}) = Total!Sum(w.left, R) + w.left[d]
    <3>1. d \notin R /\ \A e \in R \cup {d} : At(w.left, e) \in Int
      BY <2>1, <2>2, <2>3
    <3>2. Total!IsFiniteSet(R \cup {d})
      BY <2>2, FewBatches
    <3> HIDE DEF R
    <3>3. Total!Sum(w.left, R \cup {d}) = Total!Sum(w.left, R) + At(w.left, d)
      BY <3>1, <3>2, TotalAdds, Total!SumAdd DEF Total!Summable
    <3> QED
      BY <3>3 DEF At
  <2>6. InBatches(w, R) = Total!Sum(w.left, R) /\ InBatches(w, S) = Total!Sum(w.left, S)
    BY SumsAreTotals DEF InBatches
  <2>7. InBatches(w, R) \in Nat /\ InBatches(w, S) \in Nat /\ w.left[d] \in Nat
    BY <1>1, <1>4, <2>2
  <2>8. InBatches(w, R) + w.left[d] <= InBatches(w, S)
    BY <2>4, <2>5, <2>6
  <2> HIDE DEF R, S
  <2>9. quantity - InBatches(w, R) - w.left[d] >= quantity - InBatches(w, S)
    BY <2>7, <2>8
  <2> QED
    BY <2>9 DEF R, S
<1>8. Taken(b) # 0 => \A d \in Own : FefoRank[d] < FefoRank[b] => Taken(d) = w.left[d]
  <2> SUFFICES ASSUME Taken(b) # 0, NEW d \in Own, FefoRank[d] < FefoRank[b]
               PROVE  Taken(d) = w.left[d]
    OBVIOUS
  <2>1. b \in Own /\ Open(b) > 0 /\ d \in Batches
    BY <1>2, <1>6
  <2>2. Open(d) - w.left[d] >= Open(b)
    BY <1>7, <2>1
  <2>3. Open(d) \in Int /\ Open(b) \in Int /\ w.left[d] \in Nat
    BY <1>1, <1>4, <2>1
  <2>4. Open(d) >= w.left[d]
    BY <2>1, <2>2, <2>3
  <2> QED
    BY <1>6, <2>1, <2>4
<1>9. \A d \in Own : d \in Batches
  BY <1>2
<1> HIDE DEF Taken
<1> QED
  BY <1>3, <1>6, <1>8, <1>9 DEF Own
-----------------------------------------------------------------------------
(* deductStockForOrder and restoreProductStock *)
\* The movement a sale files, and the one a restore does.
SaleRow(w, sku, quantity, past) ==
    [sku |-> sku, type |-> "sale", change |-> - quantity,
     taken |-> Fefo(w, sku, quantity, past)]
BackRow(sku, quantity, type) ==
    [sku |-> sku, type |-> type, change |-> quantity, taken |-> NoBatchUsed]

Filed(w, v, o, row) == v.moves = [w.moves EXCEPT ![o] = Append(@, row)]

\* What a restore puts back into the batches.
Back(w, o, sku) ==
    IF Sales(w, o, sku) = {} THEN NoBatchUsed ELSE w.moves[o][Min(Sales(w, o, sku))].taken

\* One more movement of a warehouse's file.
LEMMA FilingKeepsRows ==
  ASSUME NEW w \in Warehouses, NEW o \in Orders, NEW row \in MoveRows
  PROVE  [w.moves EXCEPT ![o] = Append(@, row)] \in [Orders -> Seq(MoveRows)]
<1>1. w.moves \in [Orders -> Seq(MoveRows)]
  BY DEF Warehouses
<1>2. Append(w.moves[o], row) \in Seq(MoveRows)
  BY <1>1
<1> QED
  BY <1>1, <1>2

\* A sale that the shelf can bear, field by field.
LEMMA SellFields ==
  ASSUME NEW w \in Warehouses, NEW o \in Orders, NEW sku \in Skus, NEW quantity \in Nat,
         NEW past, CanSell(w, sku, quantity),
         NEW v, v = Sell(w, o, sku, quantity, past)
  PROVE  /\ v \in Warehouses
         /\ v.stock = [w.stock EXCEPT ![sku] = @ - quantity]
         /\ SaleRow(w, sku, quantity, past) \in MoveRows
         /\ \A b \in Batches : v.left[b] = w.left[b] - Fefo(w, sku, quantity, past)[b]
         /\ Filed(w, v, o, SaleRow(w, sku, quantity, past))
<1> DEFINE taken == Fefo(w, sku, quantity, past)
           row == SaleRow(w, sku, quantity, past)
<1>1. /\ w.stock \in [Skus -> Nat] /\ w.left \in [Batches -> Nat] /\ w.got = Left0
      /\ w.waiting = {} /\ w.hidden = {}
  BY DEF Warehouses
<1>2. \A b \in Batches : taken[b] \in Nat /\ taken[b] <= w.left[b]
                         /\ (taken[b] # 0 => b \in OwnBatches(sku))
  BY FefoTakes
<1>3. taken \in [Batches -> Nat]
  <2>1. taken = [b \in Batches |-> taken[b]]
    BY DEF Fefo
  <2> HIDE DEF taken
  <2> QED
    BY <1>2, <2>1
<1> HIDE DEF taken
<1>4. row = [sku |-> sku, type |-> "sale", change |-> - quantity, taken |-> taken]
  BY DEF taken, SaleRow
<1>5. row \in MoveRows
  BY <1>2, <1>3, <1>4 DEF MoveRows
<1>6. v = [w EXCEPT !.stock[sku] = @ - quantity,
                    !.left = [b \in Batches |-> w.left[b] - taken[b]],
                    !.moves = [w.moves EXCEPT ![o] = Append(@, row)]]
  BY DEF Sell, Record, SaleRow, taken
<1> DEFINE filed == [w.moves EXCEPT ![o] = Append(@, row)]
<1>7. filed \in [Orders -> Seq(MoveRows)]
  BY <1>5, FilingKeepsRows
<1> HIDE DEF filed, row
<1>8. v = [w EXCEPT !.stock = [w.stock EXCEPT ![sku] = @ - quantity],
                    !.left = [b \in Batches |-> w.left[b] - taken[b]], !.moves = filed]
  BY <1>6 DEF filed, Warehouses
<1>9. [w.stock EXCEPT ![sku] = @ - quantity] \in [Skus -> Nat]
  <2>1. w.stock[sku] - quantity \in Nat
    BY <1>1 DEF CanSell
  <2> QED
    BY <1>1, <2>1
<1>10. [b \in Batches |-> w.left[b] - taken[b]] \in [Batches -> Nat]
  <2>1. \A b \in Batches : w.left[b] - taken[b] \in Nat
    BY <1>1, <1>2
  <2> QED
    BY <2>1
<1>11. v \in Warehouses
  BY <1>7, <1>8, <1>9, <1>10 DEF Warehouses
<1>12. /\ v.stock = [w.stock EXCEPT ![sku] = @ - quantity] /\ v.moves = filed
       /\ v.left = [b \in Batches |-> w.left[b] - taken[b]]
  BY <1>8 DEF Warehouses
<1> QED
  BY <1>5, <1>11, <1>12 DEF filed, row, taken, Filed

\* Of what was sold no more comes back than what some sale took.
LEMMA BackIsOwn ==
  ASSUME NEW w \in Warehouses, NEW o \in Orders, NEW sku \in Skus
  PROVE  /\ Sales(w, o, sku) \subseteq DOMAIN w.moves[o]
         /\ \A i \in DOMAIN w.moves[o] : w.moves[o][i] \in MoveRows
         /\ Sales(w, o, sku) # {} => Min(Sales(w, o, sku)) \in Sales(w, o, sku)
         /\ Back(w, o, sku) \in [Batches -> Nat]
<1>1. w.moves[o] \in Seq(MoveRows)
  BY DEF Warehouses
<1>2. DOMAIN w.moves[o] \in SUBSET Nat /\ \A i \in DOMAIN w.moves[o] : w.moves[o][i] \in MoveRows
  BY <1>1
<1>3. Sales(w, o, sku) \subseteq DOMAIN w.moves[o]
  BY DEF Sales
<1>4. Sales(w, o, sku) # {} => Min(Sales(w, o, sku)) \in Sales(w, o, sku)
  BY <1>2, <1>3, LeastIsMin
<1>5. \A row \in MoveRows : row.taken \in [Batches -> Nat]
  BY DEF MoveRows
<1>6. NoBatchUsed \in [Batches -> Nat]
  BY DEF NoBatchUsed
<1> QED
  BY <1>2, <1>3, <1>4, <1>5, <1>6 DEF Back

\* A restore, field by field.
LEMMA RestoreFields ==
  ASSUME NEW w \in Warehouses, NEW o \in Orders, NEW sku \in Skus, NEW quantity \in Nat,
         NEW type \in {"substitution_restore", "cancel_restore"},
         NEW v, v = Restore(w, o, sku, quantity, type)
  PROVE  /\ v \in Warehouses
         /\ v.stock = [w.stock EXCEPT ![sku] = @ + quantity]
         /\ BackRow(sku, quantity, type) \in MoveRows
         /\ \A b \in Batches : v.left[b] = w.left[b] + Back(w, o, sku)[b]
         /\ Filed(w, v, o, BackRow(sku, quantity, type))
<1> DEFINE back == Back(w, o, sku)
           row == BackRow(sku, quantity, type)
           filed == [w.moves EXCEPT ![o] = Append(@, row)]
           moved == MoveStock(w, o, sku, quantity, type)
           put == [moved EXCEPT !.left = [b \in Batches |-> @[b] + back[b]]]
<1>1. /\ w.stock \in [Skus -> Nat] /\ w.left \in [Batches -> Nat] /\ w.got = Left0
      /\ w.waiting = {} /\ w.hidden = {}
  BY DEF Warehouses
<1>2. back \in [Batches -> Nat]
  BY BackIsOwn
<1>3. row \in MoveRows
  BY DEF BackRow, MoveRows, NoBatchUsed
<1>4. filed \in [Orders -> Seq(MoveRows)]
  BY <1>3, FilingKeepsRows
<1>5. v = Alert(put, sku)
  BY DEF Restore, Back
<1>6. moved = [w EXCEPT !.stock[sku] = @ + quantity, !.moves = filed]
  BY DEF MoveStock, Record, BackRow
<1> HIDE DEF filed, row, back
<1>7. moved = [w EXCEPT !.stock = [w.stock EXCEPT ![sku] = @ + quantity], !.moves = filed]
  BY <1>6 DEF Warehouses
<1>8. [w.stock EXCEPT ![sku] = @ + quantity] \in [Skus -> Nat]
  BY <1>1
<1> HIDE DEF moved
<1>9. moved \in Warehouses /\ moved.left = w.left /\ moved.moves = filed
      /\ moved.stock = [w.stock EXCEPT ![sku] = @ + quantity]
  BY <1>4, <1>7, <1>8 DEF Warehouses
<1>10. [b \in Batches |-> w.left[b] + back[b]] \in [Batches -> Nat]
  BY <1>1, <1>2
<1>11. put = [moved EXCEPT !.left = [b \in Batches |-> w.left[b] + back[b]]]
  BY <1>9
<1> HIDE DEF put
<1>12. /\ put \in Warehouses /\ put.left = [b \in Batches |-> w.left[b] + back[b]]
       /\ put.moves = filed /\ put.stock = [w.stock EXCEPT ![sku] = @ + quantity]
  BY <1>9, <1>10, <1>11 DEF Warehouses
<1>13. put.waiting = {}
  BY <1>12 DEF Warehouses
<1>14. v = put \/ v = [put EXCEPT !.waiting = {} \ {sku}]
  BY <1>5, <1>13 DEF Alert
<1>15. v = put
  <2>1. {} \ {sku} = {}
    OBVIOUS
  <2>2. [put EXCEPT !.waiting = {}] = put
    BY <1>12, <1>13 DEF Warehouses
  <2> QED
    BY <1>14, <2>1, <2>2
<1> QED
  BY <1>3, <1>12, <1>15 DEF filed, row, back, Filed
-----------------------------------------------------------------------------
(* Batches that keep step with the stock *)
SaleAt(w, o, i) == i \in DOMAIN w.moves[o] /\ w.moves[o][i].type = "sale"

OfProduct(w, o, i, sku) == ProductOf(w.moves[o][i].sku) = ProductOf(sku)

\* SimpleSales and BatchesMatch of any warehouse.
SimpleIn(w, sku) ==
    \A o \in Orders : \A i, j \in DOMAIN w.moves[o] :
        /\ SaleAt(w, o, i) /\ SaleAt(w, o, j)
           /\ OfProduct(w, o, i, sku) /\ OfProduct(w, o, j, sku) => i = j
        /\ SaleAt(w, o, i) /\ OfProduct(w, o, i, sku)
           /\ OwnBatches(w.moves[o][i].sku) # {} =>
              SumFunction(w.moves[o][i].taken) = - w.moves[o][i].change

MatchIn(w, sku) == OwnBatches(sku) # {} => InBatches(w, OwnBatches(sku)) = w.stock[sku]

\* The movements on file are not changed, only more of them filed.
Extends(w, v) ==
    \A o \in Orders :
        /\ DOMAIN w.moves[o] \subseteq DOMAIN v.moves[o]
        /\ \A i \in DOMAIN w.moves[o] : v.moves[o][i] = w.moves[o][i]

LEMMA SimpleSalesHere ==
  ASSUME warehouse \in Warehouses, NEW sku
  PROVE  SimpleSales(sku) <=> SimpleIn(warehouse, sku)
<1>1. \A s : BatchesOf(warehouse, s) = OwnBatches(s)
  BY BatchesAreOwn
<1>2. \A o \in Orders : \A i : i \in Moves(o, "sale") <=> i \in DOMAIN warehouse.moves[o] /\ SaleAt(warehouse, o, i)
  BY DEF SaleAt, Moves
<1>3. SimpleSales(sku) <=>
        \A o \in Orders : \A i, j \in Moves(o, "sale") :
            /\ OfProduct(warehouse, o, i, sku) /\ OfProduct(warehouse, o, j, sku) => i = j
            /\ OfProduct(warehouse, o, i, sku) /\ BatchesOf(warehouse, warehouse.moves[o][i].sku) # {} =>
                  SumFunction(warehouse.moves[o][i].taken) = - warehouse.moves[o][i].change
  BY DEF SimpleSales, OfProduct
<1>4. SimpleSales(sku) <=>
        \A o \in Orders : \A i, j \in Moves(o, "sale") :
            /\ OfProduct(warehouse, o, i, sku) /\ OfProduct(warehouse, o, j, sku) => i = j
            /\ OfProduct(warehouse, o, i, sku) /\ OwnBatches(warehouse.moves[o][i].sku) # {} =>
                  SumFunction(warehouse.moves[o][i].taken) = - warehouse.moves[o][i].change
  BY ONLY <1>1, <1>3
<1>5. SimpleIn(warehouse, sku) <=>
        \A o \in Orders : \A i, j \in DOMAIN warehouse.moves[o] :
            SaleAt(warehouse, o, i) =>
                /\ SaleAt(warehouse, o, j) =>
                      (OfProduct(warehouse, o, i, sku) /\ OfProduct(warehouse, o, j, sku) => i = j)
                /\ OfProduct(warehouse, o, i, sku) /\ OwnBatches(warehouse.moves[o][i].sku) # {} =>
                      SumFunction(warehouse.moves[o][i].taken) = - warehouse.moves[o][i].change
  BY DEF SimpleIn
<1> QED
  BY ONLY <1>2, <1>4, <1>5

LEMMA SimpleSalesNext ==
  ASSUME warehouse' \in Warehouses, NEW sku
  PROVE  SimpleSales(sku)' <=> SimpleIn(warehouse', sku)
<1>1. \A s : BatchesOf(warehouse', s) = OwnBatches(s)
  BY BatchesAreOwn
<1>2. \A o \in Orders : \A i : i \in Moves(o, "sale")' <=> i \in DOMAIN warehouse'.moves[o] /\ SaleAt(warehouse', o, i)
  BY DEF SaleAt, Moves
<1>3. SimpleSales(sku)' <=>
        \A o \in Orders : \A i, j \in Moves(o, "sale")' :
            /\ OfProduct(warehouse', o, i, sku) /\ OfProduct(warehouse', o, j, sku) => i = j
            /\ OfProduct(warehouse', o, i, sku) /\ BatchesOf(warehouse', warehouse'.moves[o][i].sku) # {} =>
                  SumFunction(warehouse'.moves[o][i].taken) = - warehouse'.moves[o][i].change
  BY DEF SimpleSales, OfProduct
<1>4. SimpleSales(sku)' <=>
        \A o \in Orders : \A i, j \in Moves(o, "sale")' :
            /\ OfProduct(warehouse', o, i, sku) /\ OfProduct(warehouse', o, j, sku) => i = j
            /\ OfProduct(warehouse', o, i, sku) /\ OwnBatches(warehouse'.moves[o][i].sku) # {} =>
                  SumFunction(warehouse'.moves[o][i].taken) = - warehouse'.moves[o][i].change
  BY ONLY <1>1, <1>3
<1>5. SimpleIn(warehouse', sku) <=>
        \A o \in Orders : \A i, j \in DOMAIN warehouse'.moves[o] :
            SaleAt(warehouse', o, i) =>
                /\ SaleAt(warehouse', o, j) =>
                      (OfProduct(warehouse', o, i, sku) /\ OfProduct(warehouse', o, j, sku) => i = j)
                /\ OfProduct(warehouse', o, i, sku) /\ OwnBatches(warehouse'.moves[o][i].sku) # {} =>
                      SumFunction(warehouse'.moves[o][i].taken) = - warehouse'.moves[o][i].change
  BY DEF SimpleIn
<1> QED
  BY ONLY <1>2, <1>4, <1>5

LEMMA MatchHere ==
  ASSUME warehouse \in Warehouses, NEW sku
  PROVE  BatchesMatch(sku) <=> MatchIn(warehouse, sku)
BY BatchesAreOwn DEF BatchesMatch, MatchIn

LEMMA MatchNext ==
  ASSUME warehouse' \in Warehouses, NEW sku
  PROVE  BatchesMatch(sku)' <=> MatchIn(warehouse', sku)
BY BatchesAreOwn DEF BatchesMatch, MatchIn

\* A movement filed is one more movement, of its order.
LEMMA FilingExtends ==
  ASSUME NEW w \in Warehouses, NEW v \in Warehouses, NEW o \in Orders, NEW row \in MoveRows,
         Filed(w, v, o, row)
  PROVE  /\ Extends(w, v)
         /\ DOMAIN v.moves[o] = DOMAIN w.moves[o] \cup {Len(w.moves[o]) + 1}
         /\ v.moves[o][Len(w.moves[o]) + 1] = row
         /\ \A i \in DOMAIN w.moves[o] : i < Len(w.moves[o]) + 1
         /\ \A p \in Orders \ {o} : v.moves[p] = w.moves[p]
<1>1. w.moves \in [Orders -> Seq(MoveRows)]
  BY DEF Warehouses
<1>2. v.moves = [w.moves EXCEPT ![o] = Append(@, row)]
  BY DEF Filed
<1>3. v.moves[o] = Append(w.moves[o], row) /\ \A p \in Orders \ {o} : v.moves[p] = w.moves[p]
  BY <1>1, <1>2
<1>4. w.moves[o] \in Seq(MoveRows)
  BY <1>1
<1>5. /\ DOMAIN v.moves[o] = DOMAIN w.moves[o] \cup {Len(w.moves[o]) + 1}
      /\ v.moves[o][Len(w.moves[o]) + 1] = row
      /\ \A i \in DOMAIN w.moves[o] : v.moves[o][i] = w.moves[o][i] /\ i < Len(w.moves[o]) + 1
  BY <1>3, <1>4
<1>6. \A i \in DOMAIN w.moves[o] : v.moves[o][i] = w.moves[o][i]
  BY ONLY <1>5
<1>7. DOMAIN w.moves[o] \subseteq DOMAIN v.moves[o]
  BY ONLY <1>5
<1>8. Extends(w, v)
  BY ONLY <1>3, <1>6, <1>7 DEF Extends
<1> QED
  BY ONLY <1>3, <1>5, <1>8

\* Sales that are simple at last were so from the first.
LEMMA SimpleBefore ==
  ASSUME NEW w, NEW v, Extends(w, v), NEW sku, SimpleIn(v, sku)
  PROVE  SimpleIn(w, sku)
BY DEF Extends, SimpleIn, SaleAt, OfProduct

\* A sale on file stays there.
LEMMA SalesStay ==
  ASSUME NEW w, NEW v, Extends(w, v), NEW o \in Orders, NEW sku, NEW quantity,
         HasSale(w, o, sku, quantity)
  PROVE  HasSale(v, o, sku, quantity)
BY DEF Extends, HasSale

\* Batches of different products or variants are different.
LEMMA OwnBatchesAreDisjoint ==
  ASSUME NEW s, NEW k, s # k
  PROVE  OwnBatches(s) \cap OwnBatches(k) = {}
BY DEF OwnBatches

\* What a movement took it took from its own batches.
LEMMA TakenFromOwn ==
  ASSUME NEW row \in MoveRows
  PROVE  /\ SumFunction(row.taken) = Total!Sum(row.taken, OwnBatches(row.sku))
         /\ \A b \in Batches : At(row.taken, b) \in Nat
<1> DEFINE taken == row.taken
           own == OwnBatches(row.sku)
<1>1. taken \in [Batches -> Nat] /\ \A b \in Batches : b \notin own => taken[b] = 0
  BY DEF MoveRows
<1>2. own \in SUBSET Batches
  BY DEF OwnBatches
<1> HIDE DEF taken, own
<1>3. \A b \in Batches : At(taken, b) \in Nat
  BY <1>1 DEF At
<1>4. Total!IsFiniteSet(Batches) /\ Total!IsFiniteSet(Batches \ own)
  BY FewBatches
<1>5. Total!Sum(taken, Batches) = Total!Sum(taken, own) + Total!Sum(taken, Batches \ own)
  BY <1>2, <1>3, <1>4, TotalAdds, Total!SumSplit DEF Total!Summable
<1>6. Total!Sum(taken, Batches \ own) = 0
  <2>1. \A b \in Batches \ own : At(taken, b) = 0
    BY <1>1 DEF At
  <2> QED
    BY <1>4, <2>1, TotalAdds, Total!SumZero
<1>7. Total!Sum(taken, own) \in Nat
  BY <1>2, <1>3, FewBatches, TotalAdds, Total!SumNat
<1>8. SumFunction(taken) = Total!Sum(taken, Batches)
  BY <1>1, SumsAreTotals DEF SumFunction
<1> QED
  BY <1>3, <1>5, <1>6, <1>7, <1>8 DEF taken, own

\* A sale that the batches covered leaves them in step with the stock.
LEMMA SellKeepsMatch ==
  ASSUME NEW w \in Warehouses, NEW o \in Orders, NEW s \in Skus, NEW quantity \in Nat,
         NEW past, CanSell(w, s, quantity), NEW v, v = Sell(w, o, s, quantity, past),
         NEW k \in Skus, SimpleIn(v, k), MatchIn(w, k)
  PROVE  MatchIn(v, k)
<1> DEFINE row == SaleRow(w, s, quantity, past)
           own == OwnBatches(k)
<1>1. /\ v \in Warehouses /\ row \in MoveRows
      /\ v.stock = [w.stock EXCEPT ![s] = @ - quantity]
      /\ \A b \in Batches : v.left[b] = w.left[b] - row.taken[b]
      /\ Filed(w, v, o, row)
  BY SellFields DEF SaleRow
<1>2. row.sku = s /\ row.change = - quantity /\ row.type = "sale"
  BY DEF SaleRow
<1> HIDE DEF row
<1>3. w.stock \in [Skus -> Nat] /\ w.left \in [Batches -> Nat] /\ v.left \in [Batches -> Nat]
  BY <1>1 DEF Warehouses
<1>4. own \in SUBSET Batches
  BY DEF OwnBatches
<1>5. \A b \in Batches : At(row.taken, b) \in Nat
  BY <1>1, TakenFromOwn
<1>6. \A b \in Batches : /\ At(w.left, b) = At(v.left, b) + At(row.taken, b)
                         /\ At(w.left, b) \in Nat /\ At(v.left, b) \in Nat
  BY <1>1, <1>3, <1>5 DEF At
<1>7. Total!Sum(w.left, own) = Total!Sum(v.left, own) + Total!Sum(row.taken, own)
  <2>1. Total!IsFiniteSet(own)
    BY <1>4, FewBatches
  <2> HIDE DEF own
  <2> QED
    BY <1>4, <1>5, <1>6, <2>1, TotalAdds, Total!SumPlus DEF Total!Summable
<1>8. Total!Sum(v.left, own) \in Nat /\ Total!Sum(row.taken, own) \in Nat
  BY <1>4, <1>5, <1>6, FewBatches, TotalAdds, Total!SumNat
<1>9. CASE k = s
  <2> SUFFICES ASSUME own # {}
               PROVE  InBatches(v, own) = v.stock[k]
    BY DEF MatchIn
  <2> DEFINE n == Len(w.moves[o]) + 1
  <2>1. n \in DOMAIN v.moves[o] /\ v.moves[o][n] = row
    <3> HIDE DEF n
    <3> QED
      BY <1>1, FilingExtends DEF n
  <2>2. SumFunction(row.taken) = quantity
    <3> HIDE DEF n
    <3>1. SaleAt(v, o, n) /\ OfProduct(v, o, n, k)
      BY <1>2, <1>9, <2>1 DEF SaleAt, OfProduct
    <3>2. SumFunction(v.moves[o][n].taken) = - v.moves[o][n].change
      BY <1>2, <1>9, <2>1, <3>1 DEF SimpleIn
    <3> QED
      BY <1>2, <2>1, <3>2
  <2>3. Total!Sum(row.taken, own) = quantity
    BY <1>1, <1>2, <1>9, <2>2, TakenFromOwn
  <2>4. Total!Sum(w.left, own) = w.stock[k]
    BY SumsAreTotals DEF MatchIn, InBatches
  <2>5. v.stock[k] = w.stock[k] - quantity
    BY <1>1, <1>3, <1>9
  <2>6. w.stock[k] \in Nat
    BY <1>3
  <2> HIDE DEF own
  <2>7. Total!Sum(v.left, own) = v.stock[k]
    BY <1>7, <1>8, <2>3, <2>4, <2>5, <2>6
  <2> QED
    BY <2>7, SumsAreTotals DEF InBatches
<1>10. CASE k # s
  <2>1. \A b \in own : At(row.taken, b) = 0
    <3>1. \A b \in Batches : row.taken[b] # 0 => b \in OwnBatches(s)
      BY <1>1, <1>2 DEF MoveRows
    <3> QED
      BY <1>4, <1>10, <3>1, OwnBatchesAreDisjoint DEF At
  <2>2. Total!Sum(row.taken, own) = 0
    <3>1. Total!IsFiniteSet(own)
      BY <1>4, FewBatches
    <3> HIDE DEF own
    <3> QED
      BY <2>1, <3>1, TotalAdds, Total!SumZero
  <2>3. v.stock[k] = w.stock[k]
    BY <1>1, <1>3, <1>10
  <2>4. Total!Sum(v.left, own) = Total!Sum(w.left, own)
    BY <1>7, <1>8, <2>2
  <2> QED
    BY <2>3, <2>4, SumsAreTotals DEF MatchIn, InBatches
<1> QED
  BY <1>9, <1>10

\* What comes back with a restore is what the sale it undoes had taken: all of
\* it belongs to what is restored, and of what is sold simply nothing else does.
LEMMA BackFromSale ==
  ASSUME NEW w \in Warehouses, NEW o \in Orders, NEW s \in Skus, NEW quantity \in Nat,
         HasSale(w, o, s, quantity), NEW k \in Skus, SimpleIn(w, k)
  PROVE  /\ k = s /\ OwnBatches(s) # {} =>
                Total!Sum(Back(w, o, s), OwnBatches(s)) = quantity
         /\ k # s => \A b \in OwnBatches(k) : Back(w, o, s)[b] = 0
<1> DEFINE m == Min(Sales(w, o, s))
           row == w.moves[o][m]
<1>1. PICK h \in DOMAIN w.moves[o] :
          w.moves[o][h].type = "sale" /\ w.moves[o][h].sku = s
          /\ w.moves[o][h].change = - quantity
  BY DEF HasSale
<1>2. \A sku \in Skus : (sku \in Variants => ProductOf(sku) \in Products)
                        /\ (sku \in Products => ProductOf(sku) = sku /\ sku \notin Variants)
  BY StockroomAssumption DEF ProductOf, Skus
<1>3. h \in Sales(w, o, s)
  BY <1>1, <1>2 DEF Sales, Skus
<1>4. /\ m \in Sales(w, o, s) /\ m \in DOMAIN w.moves[o] /\ row \in MoveRows
      /\ Back(w, o, s) = row.taken
  BY <1>3, BackIsOwn DEF Back
<1>5. row.type = "sale" /\ ProductOf(row.sku) = ProductOf(s)
  BY <1>2, <1>4 DEF Sales, Skus
<1> HIDE DEF m
<1>6. ASSUME ProductOf(k) = ProductOf(s) PROVE m = h
  <2>1. SaleAt(w, o, m) /\ OfProduct(w, o, m, k) /\ SaleAt(w, o, h) /\ OfProduct(w, o, h, k)
    BY <1>1, <1>4, <1>5, <1>6 DEF SaleAt, OfProduct
  <2> QED
    BY <1>1, <1>4, <2>1 DEF SimpleIn
<1>7. CASE k = s
  <2> SUFFICES ASSUME OwnBatches(s) # {}
               PROVE  Total!Sum(Back(w, o, s), OwnBatches(s)) = quantity
    BY <1>7
  <2>1. m = h
    BY <1>6, <1>7
  <2>2. SaleAt(w, o, h) /\ OfProduct(w, o, h, k)
    BY <1>1, <1>7 DEF SaleAt, OfProduct
  <2>3. SumFunction(row.taken) = quantity
    BY <1>1, <1>7, <2>1, <2>2 DEF SimpleIn
  <2> QED
    BY <1>1, <1>4, <2>1, <2>3, TakenFromOwn
<1>8. CASE k # s
  <2>1. row.sku # k
    BY <1>1, <1>5, <1>6, <1>8
  <2>2. \A b \in Batches : row.taken[b] # 0 => b \in OwnBatches(row.sku)
    BY <1>4 DEF MoveRows
  <2>3. OwnBatches(k) \subseteq Batches
    BY DEF OwnBatches
  <2> QED
    BY <1>4, <1>8, <2>1, <2>2, <2>3, OwnBatchesAreDisjoint
<1> QED
  BY <1>7, <1>8

\* The restore of what was sold keeps batches and stock in step.
LEMMA RestoreKeepsMatch ==
  ASSUME NEW w \in Warehouses, NEW o \in Orders, NEW s \in Skus, NEW quantity \in Nat,
         NEW type \in {"substitution_restore", "cancel_restore"},
         HasSale(w, o, s, quantity), NEW v, v = Restore(w, o, s, quantity, type),
         NEW k \in Skus, SimpleIn(w, k), MatchIn(w, k)
  PROVE  MatchIn(v, k)
<1> DEFINE back == Back(w, o, s)
           own == OwnBatches(k)
<1>1. /\ v \in Warehouses
      /\ v.stock = [w.stock EXCEPT ![s] = @ + quantity]
      /\ \A b \in Batches : v.left[b] = w.left[b] + back[b]
  BY RestoreFields
<1>2. back \in [Batches -> Nat]
  BY BackIsOwn
<1>3. k = s /\ own # {} => Total!Sum(back, own) = quantity
  BY BackFromSale
<1>4. k # s => \A b \in own : back[b] = 0
  BY BackFromSale
<1> HIDE DEF back
<1>5. w.stock \in [Skus -> Nat] /\ w.left \in [Batches -> Nat]
  BY DEF Warehouses
<1>6. own \in SUBSET Batches
  BY DEF OwnBatches
<1>7. \A b \in Batches : /\ At(v.left, b) = At(w.left, b) + At(back, b)
                         /\ At(w.left, b) \in Nat /\ At(back, b) \in Nat
  BY <1>1, <1>2, <1>5 DEF At
<1>8. Total!IsFiniteSet(own)
  BY <1>6, FewBatches
<1> HIDE DEF own
<1>9. Total!Sum(v.left, own) = Total!Sum(w.left, own) + Total!Sum(back, own)
  BY <1>6, <1>7, <1>8, TotalAdds, Total!SumPlus DEF Total!Summable
<1>10. Total!Sum(w.left, own) \in Nat
  BY <1>6, <1>7, <1>8, TotalAdds, Total!SumNat
<1>11. CASE k = s
  <2>1. v.stock[k] = w.stock[k] + quantity
    BY <1>1, <1>5, <1>11
  <2> QED
    BY <1>3, <1>9, <1>11, <2>1, SumsAreTotals DEF MatchIn, InBatches, own
<1>12. CASE k # s
  <2>1. v.stock[k] = w.stock[k]
    BY <1>1, <1>5, <1>12
  <2>2. Total!Sum(back, own) = 0
    BY <1>4, <1>8, <1>12, TotalAdds, Total!SumZero DEF At
  <2>3. Total!Sum(v.left, own) = Total!Sum(w.left, own)
    BY <1>9, <1>10, <2>2
  <2> QED
    BY <2>1, <2>3, SumsAreTotals DEF MatchIn, InBatches, own
<1> QED
  BY <1>11, <1>12
-----------------------------------------------------------------------------
(* The lines of a cart, sold one after the other *)
\* What each of some lines keeps of sku off the shelf.
OwedBy(rows, sku) == [i \in DOMAIN rows |-> OwedOn(rows[i], sku)]

LinesOf(cart) == [i \in DOMAIN cart |-> Line(cart[i])]

\* Between w and v nothing left a batch that had expired, or that had to wait.
Nearest(w, v, past) ==
    \A b \in Batches : v.left[b] < w.left[b] =>
        /\ b \notin past
        /\ \A d \in OwnBatches(SkuOf[b]) \ past :
               FefoRank[d] < FefoRank[b] => v.left[d] = 0

\* v is w after the first n lines of a cart were sold.
SoldUpTo(n, w, v, o, cart, past) ==
    /\ v \in Warehouses /\ Extends(w, v)
    /\ \A k \in Skus :
          /\ v.stock[k] = w.stock[k] - Total!Sum(OwedBy(LinesOf(cart), k), 1..n)
          /\ SimpleIn(v, k) /\ MatchIn(w, k) => MatchIn(v, k)
    /\ \A i \in 1..n : HasSale(v, o, cart[i].sku, cart[i].quantity)
    /\ \A p \in Orders : GivenBack(v, p) => GivenBack(w, p)
    /\ \A b \in Batches :
          /\ v.left[b] <= w.left[b]
          /\ (\A i \in 1..n : cart[i].sku # SkuOf[b]) => v.left[b] = w.left[b]
    /\ Nearest(w, v, past)

\* A cart that can be checked out: a line for a sku, and enough on the shelf.
Sound(w, cart) ==
    /\ cart \in Seq([sku : Skus, quantity : Nat \ {0}])
    /\ \A i, j \in DOMAIN cart : cart[i].sku = cart[j].sku => i = j
    /\ \A i \in DOMAIN cart : CanSell(w, cart[i].sku, cart[i].quantity)

LEMMA ExtendsFurther ==
  ASSUME NEW u, NEW w, NEW v, Extends(u, w), Extends(w, v)
  PROVE  Extends(u, v)
BY DEF Extends

\* What the lines of a cart owe.
LEMMA CartOwes ==
  ASSUME NEW w, NEW cart, Sound(w, cart), NEW k \in Skus
  PROVE  /\ OwedBy(LinesOf(cart), k) \in [DOMAIN cart -> Nat]
         /\ \A i \in DOMAIN cart : At(OwedBy(LinesOf(cart), k), i) =
                IF cart[i].sku = k THEN cart[i].quantity ELSE 0
<1> DEFINE Items == [sku : Skus, quantity : Nat \ {0}]
<1>0. cart \in Seq(Items)
  BY DEF Sound
<1>1. \A i \in DOMAIN cart : cart[i] \in Items
  <2> HIDE DEF Items
  <2> QED
    BY <1>0
<1>2. DOMAIN LinesOf(cart) = DOMAIN cart /\ \A i \in DOMAIN cart : LinesOf(cart)[i] = Line(cart[i])
  BY DEF LinesOf
<1>3. \A i \in DOMAIN cart :
          OwedOn(Line(cart[i]), k) = IF cart[i].sku = k THEN cart[i].quantity ELSE 0
  BY DEF OwedOn, Line
<1> QED
  BY <1>1, <1>2, <1>3 DEF OwedBy, At

\* The sum over the first n lines is that over fewer, and the last one.
LEMMA OneMoreLine ==
  ASSUME NEW rows, NEW m \in Nat, DOMAIN rows = 1..m,
         \A i \in 1..m : At(rows, i) \in Nat, NEW n \in 1..m
  PROVE  /\ Total!Sum(rows, 1..n) = Total!Sum(rows, 1..(n-1)) + At(rows, n)
         /\ Total!Sum(rows, 1..(n-1)) \in Nat
<1>1. 1..n = (1..(n-1)) \cup {n} /\ n \notin 1..(n-1) /\ 1..n \subseteq 1..m /\ 1..(n-1) \subseteq 1..m
  OBVIOUS
<1>2. Total!IsFiniteSet(1..n) /\ Total!IsFiniteSet(1..(n-1))
  BY FS_Interval, SameFinite
<1>3. Total!Sum(rows, 1..(n-1)) \in Nat
  BY <1>1, <1>2, TotalAdds, Total!SumNat
<1>4. Total!Summable(rows, (1..(n-1)) \cup {n})
  <2>1. \A i \in (1..(n-1)) \cup {n} : At(rows, i) \in Int
    BY <1>1
  <2>2. Total!IsFiniteSet((1..(n-1)) \cup {n})
    BY <1>1, <1>2
  <2> QED
    BY <2>1, <2>2 DEF Total!Summable
<1>5. Total!Sum(rows, (1..(n-1)) \cup {n}) = Total!Sum(rows, 1..(n-1)) + At(rows, n)
  BY <1>1, <1>4, TotalAdds, Total!SumAdd
<1> QED
  BY <1>1, <1>3, <1>5

\* A movement that is not a cancel_restore does not give back.
LEMMA FilingGivesNothingBack ==
  ASSUME NEW w \in Warehouses, NEW v \in Warehouses, NEW o \in Orders, NEW row \in MoveRows,
         Filed(w, v, o, row)
  PROVE  /\ \A p \in Orders : GivenBack(w, p) => GivenBack(v, p)
         /\ \A p \in Orders : GivenBack(v, p) =>
                GivenBack(w, p) \/ (p = o /\ row.type = "cancel_restore")
         /\ row.type = "cancel_restore" => GivenBack(v, o)
<1>1. /\ Extends(w, v)
      /\ DOMAIN v.moves[o] = DOMAIN w.moves[o] \cup {Len(w.moves[o]) + 1}
      /\ v.moves[o][Len(w.moves[o]) + 1] = row
      /\ \A p \in Orders \ {o} : v.moves[p] = w.moves[p]
  BY FilingExtends
<1> DEFINE n == Len(w.moves[o]) + 1
<1> HIDE DEF n
<1>2. /\ DOMAIN v.moves[o] = DOMAIN w.moves[o] \cup {n} /\ v.moves[o][n] = row
  BY <1>1 DEF n
<1> QED
  BY <1>1, <1>2 DEF GivenBack, Extends

\* One more line is sold.
LEMMA SellOneMore ==
  ASSUME NEW w \in Warehouses, NEW o \in Orders, NEW cart, Sound(w, cart), NEW past,
         NEW n \in DOMAIN cart, NEW u, SoldUpTo(n - 1, w, u, o, cart, past),
         NEW v, v = Sell(u, o, cart[n].sku, cart[n].quantity, past)
  PROVE  SoldUpTo(n, w, v, o, cart, past)
<1> DEFINE Items == [sku : Skus, quantity : Nat \ {0}]
           s == cart[n].sku
           q == cart[n].quantity
           m == n - 1
           row == SaleRow(u, s, q, past)
           Owes(k) == OwedBy(LinesOf(cart), k)
<1>1. cart \in Seq(Items) /\ \A i, j \in DOMAIN cart : cart[i].sku = cart[j].sku => i = j
  BY DEF Sound
<1>2. /\ n \in Nat /\ m \in Nat /\ n \in 1..n /\ 1..n = (1..m) \cup {n} /\ n \notin 1..m
      /\ n \in 1..Len(cart) /\ DOMAIN cart = 1..Len(cart) /\ Len(cart) \in Nat
      /\ 1..m \subseteq DOMAIN cart /\ 1..n \subseteq DOMAIN cart /\ cart[n] \in Items
  <2> HIDE DEF Items
  <2> QED
    BY <1>1
<1>3. s \in Skus /\ q \in Nat
  BY <1>2
<1>4. \A k \in Skus :
          /\ Total!Sum(Owes(k), 1..n) = Total!Sum(Owes(k), 1..m) + (IF s = k THEN q ELSE 0)
          /\ Total!Sum(Owes(k), 1..m) \in Nat
  <2> SUFFICES ASSUME NEW k \in Skus
               PROVE  /\ Total!Sum(Owes(k), 1..n) = Total!Sum(Owes(k), 1..m) + (IF s = k THEN q ELSE 0)
                      /\ Total!Sum(Owes(k), 1..m) \in Nat
    OBVIOUS
  <2> DEFINE f == Owes(k)
  <2>1. DOMAIN f = 1..Len(cart)
    BY <1>2, CartOwes
  <2>2. /\ \A i \in 1..Len(cart) : At(f, i) \in Nat
        /\ At(f, n) = IF s = k THEN q ELSE 0
    <3>1. f \in [DOMAIN cart -> Nat]
      BY CartOwes
    <3>2. At(f, n) = IF s = k THEN q ELSE 0
      BY CartOwes
    <3> QED
      BY <1>2, <3>1, <3>2 DEF At
  <2> DEFINE len == Len(cart)
  <2>3. len \in Nat /\ n \in 1..len /\ DOMAIN f = 1..len
    BY <1>2, <2>1
  <2>4. \A i \in 1..len : At(f, i) \in Nat
    BY <2>2
  <2> HIDE DEF f, len
  <2>5. /\ Total!Sum(f, 1..n) = Total!Sum(f, 1..(n-1)) + At(f, n)
        /\ Total!Sum(f, 1..(n-1)) \in Nat
    BY <2>3, <2>4, OneMoreLine
  <2> QED
    BY <2>2, <2>5 DEF f
<1> HIDE DEF Owes, row, Items
<1>5. /\ u \in Warehouses /\ Extends(w, u)
      /\ \A k \in Skus :
            /\ u.stock[k] = w.stock[k] - Total!Sum(Owes(k), 1..m)
            /\ SimpleIn(u, k) /\ MatchIn(w, k) => MatchIn(u, k)
      /\ \A i \in 1..m : HasSale(u, o, cart[i].sku, cart[i].quantity)
      /\ \A p \in Orders : GivenBack(u, p) => GivenBack(w, p)
      /\ \A b \in Batches :
            /\ u.left[b] <= w.left[b]
            /\ (\A i \in 1..m : cart[i].sku # SkuOf[b]) => u.left[b] = w.left[b]
      /\ Nearest(w, u, past)
  BY DEF SoldUpTo, Owes
<1>6. \A i \in 1..m : cart[i].sku # s
  BY <1>1, <1>2
<1>7. u.stock[s] = w.stock[s]
  <2> DEFINE f == Owes(s)
  <2>1. \A i \in 1..m : At(f, i) = 0
    BY <1>2, <1>3, <1>6, CartOwes DEF Owes
  <2>2. Total!IsFiniteSet(1..m)
    BY <1>2, FS_Interval, SameFinite
  <2>3. Total!Sum(f, 1..m) = 0
    <3> HIDE DEF f
    <3> QED
      BY <2>1, <2>2, TotalAdds, Total!SumZero
  <2>4. w.stock[s] \in Nat
    BY <1>3 DEF Warehouses
  <2> QED
    BY <1>3, <1>5, <2>3, <2>4
<1>8. CanSell(u, s, q)
  BY <1>7 DEF Sound, CanSell
<1>9. /\ v \in Warehouses /\ row \in MoveRows
      /\ v.stock = [u.stock EXCEPT ![s] = @ - q]
      /\ \A b \in Batches : v.left[b] = u.left[b] - Fefo(u, s, q, past)[b]
      /\ Filed(u, v, o, row)
  BY <1>3, <1>5, <1>8, SellFields DEF row
<1>10. row.sku = s /\ row.change = - q /\ row.type = "sale"
  BY DEF SaleRow, row
<1>11. /\ Extends(u, v) /\ \A p \in Orders : GivenBack(v, p) => GivenBack(u, p)
  BY <1>5, <1>9, <1>10, FilingExtends, FilingGivesNothingBack
<1>12. Extends(w, v)
  BY <1>5, <1>11, ExtendsFurther
<1>13. \A k \in Skus : v.stock[k] = w.stock[k] - Total!Sum(Owes(k), 1..n)
  <2> SUFFICES ASSUME NEW k \in Skus PROVE v.stock[k] = w.stock[k] - Total!Sum(Owes(k), 1..n)
    OBVIOUS
  <2>1. u.stock \in [Skus -> Nat] /\ w.stock \in [Skus -> Nat]
    BY <1>5 DEF Warehouses
  <2>2. v.stock[k] = u.stock[k] - (IF s = k THEN q ELSE 0)
    BY <1>3, <1>9, <2>1
  <2>3. u.stock[k] = w.stock[k] - Total!Sum(Owes(k), 1..m) /\ w.stock[k] \in Nat
    BY <1>5, <2>1
  <2>4. /\ Total!Sum(Owes(k), 1..n) = Total!Sum(Owes(k), 1..m) + (IF s = k THEN q ELSE 0)
        /\ Total!Sum(Owes(k), 1..m) \in Nat
    BY <1>4
  <2> QED
    BY <1>3, <2>2, <2>3, <2>4
<1>14. ASSUME NEW k \in Skus, SimpleIn(v, k), MatchIn(w, k) PROVE MatchIn(v, k)
  <2>1. SimpleIn(u, k)
    BY <1>11, <1>14, SimpleBefore
  <2>2. MatchIn(u, k)
    BY <1>5, <1>14, <2>1
  <2> QED
    BY <1>3, <1>5, <1>8, <1>14, <2>2, SellKeepsMatch
<1>15. \A i \in 1..n : HasSale(v, o, cart[i].sku, cart[i].quantity)
  <2>1. \A i \in 1..m : HasSale(v, o, cart[i].sku, cart[i].quantity)
    BY <1>5, <1>11, SalesStay
  <2>2. HasSale(v, o, s, q)
    <3>1. Len(u.moves[o]) + 1 \in DOMAIN v.moves[o] /\ v.moves[o][Len(u.moves[o]) + 1] = row
      BY <1>5, <1>9, FilingExtends
    <3> QED
      BY <1>10, <3>1 DEF HasSale
  <2> QED
    BY <1>2, <2>1, <2>2
<1> DEFINE t == Fefo(u, s, q, past)
<1>16. \A b \in Batches :
          /\ t[b] \in Nat /\ t[b] <= u.left[b] /\ u.left[b] \in Nat /\ w.left[b] \in Nat
          /\ t[b] # 0 => b \in OwnBatches(s) \ past
          /\ t[b] # 0 => \A d \in OwnBatches(s) \ past : FefoRank[d] < FefoRank[b] => t[d] = u.left[d]
  <2>1. u.left \in [Batches -> Nat] /\ w.left \in [Batches -> Nat]
    BY <1>5 DEF Warehouses
  <2>2. \A b \in Batches :
          /\ t[b] \in Nat /\ t[b] <= u.left[b]
          /\ t[b] # 0 => b \in OwnBatches(s) \ past
          /\ t[b] # 0 => \A d \in OwnBatches(s) \ past :
                             FefoRank[d] < FefoRank[b] => t[d] = u.left[d]
    BY <1>3, <1>5, FefoTakes
  <2> HIDE DEF t
  <2> QED
    BY <2>1, <2>2
<1> HIDE DEF t
<1>17. \A b \in Batches : v.left[b] = u.left[b] - t[b]
  BY <1>9 DEF t
<1>18. \A b \in Batches : SkuOf[b] # s => v.left[b] = u.left[b]
  BY <1>16, <1>17 DEF OwnBatches
<1>19. \A b \in Batches : SkuOf[b] = s => u.left[b] = w.left[b]
  BY <1>5, <1>6
<1>20. \A b \in Batches :
          /\ v.left[b] <= w.left[b]
          /\ (\A i \in 1..n : cart[i].sku # SkuOf[b]) => v.left[b] = w.left[b]
  <2> TAKE b \in Batches
  <2>1. v.left[b] <= w.left[b]
    BY <1>5, <1>16, <1>17
  <2>2. (\A i \in 1..n : cart[i].sku # SkuOf[b]) => v.left[b] = w.left[b]
    BY <1>2, <1>5, <1>18
  <2> QED
    BY <2>1, <2>2
<1>21. Nearest(w, v, past)
  <2> SUFFICES ASSUME NEW b \in Batches, v.left[b] < w.left[b]
               PROVE  /\ b \notin past
                      /\ \A d \in OwnBatches(SkuOf[b]) \ past :
                             FefoRank[d] < FefoRank[b] => v.left[d] = 0
    BY DEF Nearest
  <2>1. CASE SkuOf[b] = s
    <3>1. t[b] # 0
      BY <1>16, <1>17, <1>19, <2>1
    <3>2. \A d \in OwnBatches(s) \ past : FefoRank[d] < FefoRank[b] => v.left[d] = 0
      <4> TAKE d \in OwnBatches(s) \ past
      <4> HAVE FefoRank[d] < FefoRank[b]
      <4>1. d \in Batches /\ t[d] = u.left[d]
        BY <1>16, <3>1 DEF OwnBatches
      <4> QED
        BY <1>16, <1>17, <4>1
    <3> QED
      BY <1>16, <2>1, <3>1, <3>2
  <2>2. CASE SkuOf[b] # s
    <3>1. u.left[b] < w.left[b]
      BY <1>18, <2>2
    <3>2. \A d \in OwnBatches(SkuOf[b]) : d \in Batches /\ v.left[d] = u.left[d]
      BY <1>18, <2>2 DEF OwnBatches
    <3> QED
      BY <1>5, <3>1, <3>2 DEF Nearest
  <2> QED
    BY <2>1, <2>2
<1> QED
  BY <1>5, <1>9, <1>11, <1>12, <1>13, <1>14, <1>15, <1>20, <1>21 DEF SoldUpTo, Owes

\* The lines are folded in their order: the last one is the last to be sold.
Greatest(S) == Max(S)
ItemOf(c, i) == c.rows[i]
SellItem(c, item, w) == Sell(w, c.order, item.sku, item.quantity, c.past)
Sold == INSTANCE FoldFacts WITH op <- SellItem, map <- ItemOf, choose <- Greatest

LEMMA GreatestIsMax ==
  ASSUME NEW n \in Nat, NEW S \in SUBSET (1..n), S # {}
  PROVE  Greatest(S) \in S /\ \A m \in S : m <= Greatest(S)
<1>1. \E i \in S : \A j \in S : i >= j
  BY Total!GreatestNatural
<1>2. \A j \in S : Max(S) >= j /\ Max(S) \in S
  BY <1>1 DEF Max
<1> QED
  BY <1>2 DEF Greatest

\* The numbers up to n, as a fold takes them apart.
LEMMA GreatestUpTo ==
  ASSUME NEW n \in Nat
  PROVE  /\ \A S \in SUBSET (1..n) : S # {} => Greatest(S) \in S
         /\ n # 0 => Greatest(1..n) = n /\ (1..n) \ {n} = 1..(n-1) /\ n \in 1..n
         /\ IsFiniteSet(1..n)
<1>1. \A S \in SUBSET (1..n) : S # {} => Greatest(S) \in S
  BY GreatestIsMax
<1>2. n # 0 => Greatest(1..n) = n
  <2> HAVE n # 0
  <2>1. 1..n \in SUBSET (1..n) /\ 1..n # {} /\ n \in 1..n
    OBVIOUS
  <2>2. Greatest(1..n) \in 1..n /\ n <= Greatest(1..n)
    BY <2>1, GreatestIsMax
  <2> QED
    BY <2>2
<1>3. n # 0 => (1..n) \ {n} = 1..(n-1) /\ n \in 1..n
  OBVIOUS
<1> QED
  BY <1>1, <1>2, <1>3, FS_Interval

\* The instances have copies of the operators of FiniteSets.
LEMMA SoldFinite == \A S : Sold!IsFiniteSet(S) <=> IsFiniteSet(S)
BY DEF IsFiniteSet, Sold!IsFiniteSet

LEMMA SellUpTo ==
  ASSUME NEW w \in Warehouses, NEW o \in Orders, NEW cart, Sound(w, cart), NEW past
  PROVE  SoldUpTo(Len(cart), w,
                  Sold!Fold([rows |-> cart, order |-> o, past |-> past], w, DOMAIN cart),
                  o, cart, past)
<1> DEFINE c == [rows |-> cart, order |-> o, past |-> past]
           R(n) == Sold!Fold(c, w, 1..n)
           T == {n \in 0..Len(cart) : ~SoldUpTo(n, w, R(n), o, cart, past)}
<1>1. Len(cart) \in Nat /\ DOMAIN cart = 1..Len(cart)
  <2> DEFINE Items == [sku : Skus, quantity : Nat \ {0}]
  <2>1. cart \in Seq(Items)
    BY DEF Sound
  <2> HIDE DEF Items
  <2> QED
    BY <2>1
<1>2. SoldUpTo(0, w, R(0), o, cart, past)
  <2>1. R(0) = w
    <3>1. 1..0 = {}
      OBVIOUS
    <3> QED
      BY <3>1, Sold!FoldEmpty
  <2>2. Extends(w, w)
    BY DEF Extends
  <2>3. \A k \in Skus : w.stock[k] = w.stock[k] - Total!Sum(OwedBy(LinesOf(cart), k), {})
    <3> TAKE k \in Skus
    <3>1. w.stock[k] \in Nat
      BY DEF Warehouses
    <3> QED
      BY <3>1, Total!SumEmpty
  <2>4. 1..0 = {}
    OBVIOUS
  <2>5. \A b \in Batches : w.left[b] \in Nat
    BY DEF Warehouses
  <2> HIDE DEF R
  <2>6. Nearest(w, w, past)
    BY <2>5 DEF Nearest
  <2> QED
    BY <2>1, <2>2, <2>3, <2>4, <2>5, <2>6 DEF SoldUpTo
<1>3. ASSUME NEW n \in 1..Len(cart), SoldUpTo(n - 1, w, R(n - 1), o, cart, past)
      PROVE  SoldUpTo(n, w, R(n), o, cart, past)
  <2>1. /\ n \in Nat /\ n # 0 /\ n \in DOMAIN cart
    BY <1>1
  <2>2. Sold!IsFiniteSet(1..n) /\ Sold!Picks(1..n)
    BY <2>1, GreatestUpTo, SoldFinite DEF Sold!Picks
  <2>3. R(n) = SellItem(c, ItemOf(c, Greatest(1..n)), Sold!Fold(c, w, (1..n) \ {Greatest(1..n)}))
    <3>1. 1..n # {}
      BY <2>1
    <3> QED
      BY <2>2, <3>1, Sold!FoldUnfold
  <2>4. R(n) = SellItem(c, ItemOf(c, n), R(n - 1))
    BY <2>1, <2>3, GreatestUpTo
  <2>5. R(n) = Sell(R(n - 1), o, cart[n].sku, cart[n].quantity, past)
    BY <2>4 DEF SellItem, ItemOf
  <2> HIDE DEF R
  <2> QED
    BY <1>3, <2>1, <2>5, SellOneMore
<1>4. T = {}
  <2> SUFFICES ASSUME T # {} PROVE FALSE
    OBVIOUS
  <2>1. T \in SUBSET Nat
    BY <1>1
  <2>2. PICK n \in T : \A m \in T : n <= m
    <3> HIDE DEF T
    <3> QED
      BY <2>1, Total!LeastNatural
  <2>3. n \in 0..Len(cart) /\ ~SoldUpTo(n, w, R(n), o, cart, past)
    OBVIOUS
  <2> HIDE DEF R
  <2>4. n # 0
    BY <1>2, <2>3
  <2>5. n \in 1..Len(cart) /\ n - 1 \in 0..Len(cart) /\ ~(n <= n - 1)
    BY <1>1, <2>3, <2>4
  <2>6. SoldUpTo(n - 1, w, R(n - 1), o, cart, past)
    BY <2>2, <2>5
  <2> QED
    BY <1>3, <2>3, <2>5, <2>6
<1> HIDE DEF R
<1>5. SoldUpTo(Len(cart), w, R(Len(cart)), o, cart, past)
  BY <1>1, <1>4
<1> QED
  BY <1>1, <1>5 DEF R
-----------------------------------------------------------------------------
(* restoreStockForCancelledOrder *)
\* v is w after the first n lines of an order were given back.
ReturnedUpTo(n, w, v, o, rows) ==
    /\ v \in Warehouses /\ Extends(w, v)
    /\ \A k \in Skus :
          /\ v.stock[k] = w.stock[k] + Total!Sum(OwedBy(rows, k), 1..n)
          /\ SimpleIn(v, k) /\ MatchIn(w, k) => MatchIn(v, k)
    /\ n # 0 => GivenBack(v, o)
    /\ \A p \in Orders \ {o} : GivenBack(v, p) => GivenBack(w, p)
    /\ \A b \in Batches : v.left[b] >= w.left[b]

\* Lines of an order that were sold, as far as they say so.
AreSold(w, o, rows) ==
    rows \in Seq(LineRows) /\ \A i \in DOMAIN rows : LineIsSold(w, o, rows[i])

\* What a line keeps off the shelf, of what.
KeptSku(line) == IF line.substitution = "approved" THEN line.replacement ELSE line.sku
Kept(line) == IF line.substitution = "approved" THEN line.replacing ELSE line.quantity

PutBack(c, line, w) ==
    IF line.substitution = "approved"
    THEN Restore(w, c.order, line.replacement, line.replacing, "cancel_restore")
    ELSE Restore(w, c.order, line.sku, line.quantity, "cancel_restore")
Returned == INSTANCE FoldFacts WITH op <- PutBack, map <- ItemOf, choose <- Greatest

LEMMA ReturnedFinite == \A S : Returned!IsFiniteSet(S) <=> IsFiniteSet(S)
BY DEF IsFiniteSet, Returned!IsFiniteSet

\* What the lines of an order owe.
LEMMA LineOwes ==
  ASSUME NEW row \in LineRows
  PROVE  /\ KeptSku(row) \in Skus /\ Kept(row) \in Nat
         /\ \A k : OwedOn(row, k) = IF KeptSku(row) = k THEN Kept(row) ELSE 0
BY DEF LineRows, KeptSku, Kept, OwedOn

LEMMA RowsOwe ==
  ASSUME NEW rows \in Seq(LineRows), NEW k
  PROVE  /\ OwedBy(rows, k) \in [DOMAIN rows -> Nat]
         /\ \A i \in DOMAIN rows : /\ rows[i] \in LineRows
                                   /\ At(OwedBy(rows, k), i) = OwedOn(rows[i], k)
<1>1. \A i \in DOMAIN rows : rows[i] \in LineRows
  OBVIOUS
<1>2. \A i \in DOMAIN rows : OwedOn(rows[i], k) \in Nat
  BY <1>1, LineOwes
<1> QED
  BY <1>1, <1>2 DEF OwedBy, At

\* One more line is given back.
LEMMA ReturnOneMore ==
  ASSUME NEW w \in Warehouses, NEW o \in Orders, NEW rows, AreSold(w, o, rows),
         NEW n \in DOMAIN rows, NEW u, ReturnedUpTo(n - 1, w, u, o, rows),
         NEW v, v = Restore(u, o, KeptSku(rows[n]), Kept(rows[n]), "cancel_restore")
  PROVE  ReturnedUpTo(n, w, v, o, rows)
<1> DEFINE s == KeptSku(rows[n])
           q == Kept(rows[n])
           m == n - 1
           row == BackRow(s, q, "cancel_restore")
           Owes(k) == OwedBy(rows, k)
<1>1. rows \in Seq(LineRows)
  BY DEF AreSold
<1>2. /\ n \in Nat /\ n # 0 /\ n \in 1..Len(rows) /\ DOMAIN rows = 1..Len(rows) /\ Len(rows) \in Nat
      /\ rows[n] \in LineRows
  BY <1>1
<1>3. s \in Skus /\ q \in Nat
  BY <1>2, LineOwes
<1>4. \A k \in Skus :
          /\ Total!Sum(Owes(k), 1..n) = Total!Sum(Owes(k), 1..m) + (IF s = k THEN q ELSE 0)
          /\ Total!Sum(Owes(k), 1..m) \in Nat
  <2> SUFFICES ASSUME NEW k \in Skus
               PROVE  /\ Total!Sum(Owes(k), 1..n) = Total!Sum(Owes(k), 1..m) + (IF s = k THEN q ELSE 0)
                      /\ Total!Sum(Owes(k), 1..m) \in Nat
    OBVIOUS
  <2> DEFINE f == Owes(k)
             len == Len(rows)
  <2>1. /\ len \in Nat /\ n \in 1..len /\ DOMAIN f = 1..len
        /\ \A i \in 1..len : At(f, i) \in Nat
        /\ At(f, n) = IF s = k THEN q ELSE 0
    <3>1. f \in [DOMAIN rows -> Nat] /\ At(f, n) = OwedOn(rows[n], k)
      BY <1>1, RowsOwe
    <3>2. OwedOn(rows[n], k) = IF s = k THEN q ELSE 0
      BY <1>2, LineOwes
    <3> HIDE DEF f
    <3> QED
      BY <1>2, <3>1, <3>2 DEF At
  <2> HIDE DEF f, len
  <2>2. /\ Total!Sum(f, 1..n) = Total!Sum(f, 1..(n-1)) + At(f, n)
        /\ Total!Sum(f, 1..(n-1)) \in Nat
    BY <2>1, OneMoreLine
  <2> QED
    BY <2>1, <2>2 DEF f
<1> HIDE DEF Owes, row
<1>5. /\ u \in Warehouses /\ Extends(w, u)
      /\ \A k \in Skus :
            /\ u.stock[k] = w.stock[k] + Total!Sum(Owes(k), 1..m)
            /\ SimpleIn(u, k) /\ MatchIn(w, k) => MatchIn(u, k)
      /\ \A p \in Orders \ {o} : GivenBack(u, p) => GivenBack(w, p)
      /\ \A b \in Batches : u.left[b] >= w.left[b]
  BY DEF ReturnedUpTo, Owes
<1>6. HasSale(u, o, s, q)
  <2>1. HasSale(w, o, s, q)
    BY DEF AreSold, LineIsSold, KeptSku, Kept
  <2> QED
    BY <1>5, <2>1, SalesStay
<1>7. /\ v \in Warehouses /\ row \in MoveRows
      /\ v.stock = [u.stock EXCEPT ![s] = @ + q]
      /\ \A b \in Batches : v.left[b] = u.left[b] + Back(u, o, s)[b]
      /\ Filed(u, v, o, row)
  BY <1>3, <1>5, RestoreFields DEF row
<1>8. row.type = "cancel_restore"
  BY DEF BackRow, row
<1>9. /\ Extends(u, v) /\ GivenBack(v, o)
      /\ \A p \in Orders \ {o} : GivenBack(v, p) => GivenBack(u, p)
  BY <1>5, <1>7, <1>8, FilingExtends, FilingGivesNothingBack
<1>10. Extends(w, v)
  BY <1>5, <1>9, ExtendsFurther
<1>11. \A k \in Skus : v.stock[k] = w.stock[k] + Total!Sum(Owes(k), 1..n)
  <2> SUFFICES ASSUME NEW k \in Skus PROVE v.stock[k] = w.stock[k] + Total!Sum(Owes(k), 1..n)
    OBVIOUS
  <2>1. u.stock \in [Skus -> Nat] /\ w.stock \in [Skus -> Nat]
    BY <1>5 DEF Warehouses
  <2>2. v.stock[k] = u.stock[k] + (IF s = k THEN q ELSE 0)
    BY <1>3, <1>7, <2>1
  <2>3. u.stock[k] = w.stock[k] + Total!Sum(Owes(k), 1..m) /\ w.stock[k] \in Nat
    BY <1>5, <2>1
  <2>4. /\ Total!Sum(Owes(k), 1..n) = Total!Sum(Owes(k), 1..m) + (IF s = k THEN q ELSE 0)
        /\ Total!Sum(Owes(k), 1..m) \in Nat
    BY <1>4
  <2> QED
    BY <1>3, <2>2, <2>3, <2>4
<1>12. ASSUME NEW k \in Skus, SimpleIn(v, k), MatchIn(w, k) PROVE MatchIn(v, k)
  <2>1. SimpleIn(u, k)
    BY <1>9, <1>12, SimpleBefore
  <2>2. MatchIn(u, k)
    BY <1>5, <1>12, <2>1
  <2> QED
    BY <1>3, <1>5, <1>6, <2>1, <2>2, RestoreKeepsMatch
<1>13. \A b \in Batches : v.left[b] >= w.left[b]
  <2>1. Back(u, o, s) \in [Batches -> Nat]
    BY <1>3, <1>5, BackIsOwn
  <2>2. \A b \in Batches : u.left[b] \in Nat /\ w.left[b] \in Nat /\ Back(u, o, s)[b] \in Nat
    BY <1>5, <2>1 DEF Warehouses
  <2> QED
    BY <1>5, <1>7, <2>2
<1> QED
  BY <1>5, <1>7, <1>9, <1>10, <1>11, <1>12, <1>13 DEF ReturnedUpTo, Owes

LEMMA ReturnUpTo ==
  ASSUME NEW w \in Warehouses, NEW o \in Orders, NEW rows, AreSold(w, o, rows)
  PROVE  ReturnedUpTo(Len(rows), w,
                      Returned!Fold([rows |-> rows, order |-> o], w, DOMAIN rows), o, rows)
<1> DEFINE c == [rows |-> rows, order |-> o]
           R(n) == Returned!Fold(c, w, 1..n)
           T == {n \in 0..Len(rows) : ~ReturnedUpTo(n, w, R(n), o, rows)}
<1>1. Len(rows) \in Nat /\ DOMAIN rows = 1..Len(rows)
  <2>1. rows \in Seq(LineRows)
    BY DEF AreSold
  <2> QED
    BY <2>1
<1>2. ReturnedUpTo(0, w, R(0), o, rows)
  <2>1. R(0) = w
    <3>1. 1..0 = {}
      OBVIOUS
    <3> QED
      BY <3>1, Returned!FoldEmpty
  <2>2. Extends(w, w)
    BY DEF Extends
  <2>3. \A k \in Skus : w.stock[k] = w.stock[k] + Total!Sum(OwedBy(rows, k), {})
    <3> TAKE k \in Skus
    <3>1. w.stock[k] \in Nat
      BY DEF Warehouses
    <3> QED
      BY <3>1, Total!SumEmpty
  <2>4. 1..0 = {}
    OBVIOUS
  <2>5. \A b \in Batches : w.left[b] \in Nat
    BY DEF Warehouses
  <2> HIDE DEF R
  <2> QED
    BY <2>1, <2>2, <2>3, <2>4, <2>5 DEF ReturnedUpTo
<1>3. ASSUME NEW n \in 1..Len(rows), ReturnedUpTo(n - 1, w, R(n - 1), o, rows)
      PROVE  ReturnedUpTo(n, w, R(n), o, rows)
  <2>1. n \in Nat /\ n # 0 /\ n \in DOMAIN rows
    BY <1>1
  <2>2. Returned!IsFiniteSet(1..n) /\ Returned!Picks(1..n)
    BY <2>1, GreatestUpTo, ReturnedFinite DEF Returned!Picks
  <2>3. R(n) = PutBack(c, ItemOf(c, Greatest(1..n)),
                       Returned!Fold(c, w, (1..n) \ {Greatest(1..n)}))
    <3>1. 1..n # {}
      BY <2>1
    <3> QED
      BY <2>2, <3>1, Returned!FoldUnfold
  <2>4. R(n) = PutBack(c, ItemOf(c, n), R(n - 1))
    BY <2>1, <2>3, GreatestUpTo
  <2>5. R(n) = Restore(R(n - 1), o, KeptSku(rows[n]), Kept(rows[n]), "cancel_restore")
    BY <2>4 DEF PutBack, ItemOf, KeptSku, Kept
  <2> HIDE DEF R
  <2> QED
    BY <1>3, <2>1, <2>5, ReturnOneMore
<1>4. T = {}
  <2> SUFFICES ASSUME T # {} PROVE FALSE
    OBVIOUS
  <2>1. T \in SUBSET Nat
    BY <1>1
  <2>2. PICK n \in T : \A m \in T : n <= m
    <3> HIDE DEF T
    <3> QED
      BY <2>1, Total!LeastNatural
  <2>3. n \in 0..Len(rows) /\ ~ReturnedUpTo(n, w, R(n), o, rows)
    OBVIOUS
  <2> HIDE DEF R
  <2>4. n # 0
    BY <1>2, <2>3
  <2>5. n \in 1..Len(rows) /\ n - 1 \in 0..Len(rows) /\ ~(n <= n - 1)
    BY <1>1, <2>3, <2>4
  <2>6. ReturnedUpTo(n - 1, w, R(n - 1), o, rows)
    BY <2>2, <2>5
  <2> QED
    BY <1>3, <2>3, <2>5, <2>6
<1> HIDE DEF R
<1>5. ReturnedUpTo(Len(rows), w, R(Len(rows)), o, rows)
  BY <1>1, <1>4
<1> QED
  BY <1>1, <1>5 DEF R

\* What GiveBack does, once.
LEMMA GiveBackReturns ==
  ASSUME NEW w \in Warehouses, NEW o \in Orders, AreSold(w, o, lines[o]), ~GivenBack(w, o)
  PROVE  ReturnedUpTo(Len(lines[o]), w, GiveBack(w, o), o, lines[o])
<1> DEFINE rows == lines[o]
           c == [rows |-> rows, order |-> o]
<1>4. GiveBack(w, o) = Returned!Fold(c, w, DOMAIN rows)
  BY DEF GiveBack, GivenBack, FoldLeft, Returned!Fold, MapThenFoldSet, Returned!MapThenFoldSet,
         ItemOf, Greatest, PutBack
<1> QED
  BY <1>4, ReturnUpTo
-----------------------------------------------------------------------------
(* One order is handled *)
\* Owed, PlainSubstitutions and DecidedInTime of what they depend on.
OwedIn(state, rows, sku) ==
    IF state = "cancelled" THEN 0 ELSE Total!Sum(OwedBy(rows, sku), DOMAIN rows)
Plain(rows) ==
    \A i \in DOMAIN rows : rows[i].substitution = "approved" => rows[i].sku \in Products
InTime(w, o) ==
    \A i, j \in DOMAIN w.moves[o] :
        w.moves[o][i].type = "substitution_restore" /\ w.moves[o][j].type = "cancel_restore"
            => i < j

LEMMA OwedHere ==
  ASSUME NEW o, NEW sku
  PROVE  /\ Owed(o, sku) = OwedIn(status[o], lines[o], sku)
         /\ Owed(o, sku)' = OwedIn(status'[o], lines'[o], sku)
<1>1. \A rows : SumFunction([i \in DOMAIN rows |-> OwedOn(rows[i], sku)])
                  = Total!Sum(OwedBy(rows, sku), DOMAIN rows)
  BY SumsAreTotals DEF SumFunction, OwedBy
<1>2. Owed(o, sku) = OwedIn(status[o], lines[o], sku)
  BY <1>1 DEF Owed, OwedIn
<1>3. Owed(o, sku)' = OwedIn(status'[o], lines'[o], sku)
  BY <1>1 DEF Owed, OwedIn
<1> QED
  BY <1>2, <1>3

LEMMA PlainHere ==
  ASSUME NEW o
  PROVE  /\ PlainSubstitutions(o) <=> Plain(lines[o])
         /\ PlainSubstitutions(o)' <=> Plain(lines'[o])
BY DEF PlainSubstitutions, Plain

LEMMA InTimeHere ==
  ASSUME NEW o
  PROVE  /\ DecidedInTime(o) <=> InTime(warehouse, o)
         /\ DecidedInTime(o)' <=> InTime(warehouse', o)
BY DEF DecidedInTime, InTime, Moves

LEMMA InTimeBefore ==
  ASSUME NEW w, NEW v, Extends(w, v), NEW o \in Orders, InTime(v, o)
  PROVE  InTime(w, o)
BY DEF Extends, InTime

\* A step that handles order o and leaves the others alone.
HandlesOnly(o) ==
    /\ \A p \in Orders \ {o} : /\ lines'[p] = lines[p] /\ status'[p] = status[p]
                               /\ GivenBack(warehouse', p) => GivenBack(warehouse, p)
    /\ warehouse' \in Warehouses /\ Extends(warehouse, warehouse')
    /\ preference' \in [Orders -> Preferences \cup {"contact_me"}]
    /\ status' \in [Orders -> Statuses \cup {"none"}] /\ lines' \in [Orders -> Seq(LineRows)]
    /\ expired' = expired

\* What such a step keeps true of o.
KeepsBooks(o) ==
    /\ \A i \in DOMAIN lines'[o] : Replaceable(lines'[o][i])
    /\ \A i \in DOMAIN lines'[o] : LineIsSold(warehouse', o, lines'[o][i])
    /\ GivenBack(warehouse', o) => status'[o] = "cancelled"
    /\ status'[o] = "cancelled" /\ lines'[o] # <<>> => GivenBack(warehouse', o)
    /\ status'[o] = "none" => lines'[o] = <<>>
    /\ Plain(lines'[o]) =>
          /\ Plain(lines[o])
          /\ \A k \in Skus :
                SimpleIn(warehouse', k) /\ MatchIn(warehouse, k) => MatchIn(warehouse', k)
          /\ InTime(warehouse', o) => \A k \in Skus :
                warehouse'.stock[k] + OwedIn(status'[o], lines'[o], k)
                    = warehouse.stock[k] + OwedIn(status[o], lines[o], k)

\* What an order owes is a natural number.
LEMMA OwedNat ==
  ASSUME NEW rows \in Seq(LineRows), NEW state, NEW k
  PROVE  OwedIn(state, rows, k) \in Nat
<1> DEFINE f == OwedBy(rows, k)
<1>1. f \in [DOMAIN rows -> Nat]
  BY RowsOwe
<1>2. Total!IsFiniteSet(DOMAIN rows)
  <2>1. DOMAIN rows = 1..Len(rows) /\ Len(rows) \in Nat
    OBVIOUS
  <2> QED
    BY <2>1, FS_Interval, SameFinite
<1> HIDE DEF f
<1>3. \A i \in DOMAIN rows : At(f, i) \in Nat
  BY <1>1 DEF At
<1>4. Total!Sum(f, DOMAIN rows) \in Nat
  BY <1>2, <1>3, TotalAdds, Total!SumNat
<1> QED
  BY <1>4 DEF OwedIn, f

\* Such a step keeps the invariant.
LEMMA HandlingKeeps ==
  ASSUME IInv, NEW o \in Orders, HandlesOnly(o), KeepsBooks(o)
  PROVE  IInv'
<1> USE DEF HandlesOnly, KeepsBooks
<1>1. Types'
  <2>1. \A p \in Orders \ {o} : \A i \in DOMAIN lines'[p] : Replaceable(lines'[p][i])
    BY DEF IInv, Types
  <2>2. \A p \in Orders : \A i \in DOMAIN lines'[p] : Replaceable(lines'[p][i])
    BY <2>1
  <2> QED
    BY <2>2 DEF IInv, Types
<1>2. LinesAreSold'
  <2>1. ASSUME NEW p \in Orders \ {o}, NEW i \in DOMAIN lines'[p]
        PROVE  LineIsSold(warehouse', p, lines'[p][i])
    <3>1. LineIsSold(warehouse, p, lines[p][i]) /\ lines'[p] = lines[p]
      BY <2>1 DEF IInv, LinesAreSold
    <3> QED
      BY <2>1, <3>1, SalesStay DEF LineIsSold
  <2> QED
    BY <2>1 DEF LinesAreSold
<1>3. GivenBackIfCancelled'
  <2>1. ASSUME NEW p \in Orders \ {o}
        PROVE  /\ GivenBack(warehouse', p) => status'[p] = "cancelled"
               /\ status'[p] = "cancelled" /\ lines'[p] # <<>> => GivenBack(warehouse', p)
    <3>1. GivenBack(warehouse, p) => GivenBack(warehouse', p)
      BY DEF GivenBack, Extends
    <3> QED
      BY <2>1, <3>1 DEF IInv, GivenBackIfCancelled
  <2> QED
    BY <2>1 DEF GivenBackIfCancelled
<1>4. NothingBefore'
  <2>1. \A p \in Orders \ {o} : status'[p] = "none" => lines'[p] = <<>>
    BY DEF IInv, NothingBefore
  <2> QED
    BY <2>1 DEF NothingBefore
<1>5. ASSUME \A p \in Orders : PlainSubstitutions(p)'
      PROVE  Plain(lines'[o]) /\ \A p \in Orders : PlainSubstitutions(p)
  <2>1. \A p \in Orders : Plain(lines'[p])
    BY <1>5, PlainHere
  <2>2. \A p \in Orders : Plain(lines[p])
    BY <2>1
  <2> QED
    BY <2>1, <2>2, PlainHere
<1>6. UnitsAccounted'
  <2> SUFFICES ASSUME \A p \in Orders : DecidedInTime(p)' /\ PlainSubstitutions(p)',
                      NEW k \in Skus
               PROVE  warehouse'.stock[k] + SumFunction([p \in Orders |-> Owed(p, k)'])
                        = Stock0[k]
    BY DEF UnitsAccounted
  <2> DEFINE f == [p \in Orders |-> Owed(p, k)]
             g == [p \in Orders |-> Owed(p, k)']
  <2>1. \A p \in Orders : InTime(warehouse', p)
    BY InTimeHere
  <2>2. \A p \in Orders : DecidedInTime(p)
    BY <2>1, InTimeBefore, InTimeHere
  <2>3. warehouse.stock[k] + SumFunction(f) = Stock0[k]
    BY <1>5, <2>2 DEF IInv, UnitsAccounted
  <2>4. /\ f = [p \in Orders |-> OwedIn(status[p], lines[p], k)]
        /\ g = [p \in Orders |-> OwedIn(status'[p], lines'[p], k)]
    BY OwedHere
  <2> HIDE DEF f, g
  <2>5. \A p \in Orders : lines[p] \in Seq(LineRows) /\ lines'[p] \in Seq(LineRows)
    BY DEF IInv, Types
  <2>6. \A p \in Orders : At(f, p) \in Nat /\ At(g, p) \in Nat
    BY <2>4, <2>5, OwedNat DEF At
  <2>7. \A p \in Orders \ {o} : At(f, p) = At(g, p)
    BY <2>4 DEF At
  <2>8. Total!IsFiniteSet(Orders)
    BY FulfilmentAssumption, SameFinite
  <2>9. Total!Sum(g, Orders) = Total!Sum(f, Orders) + At(g, o) - At(f, o)
    BY <2>6, <2>7, <2>8, TotalAdds, Total!SumChange DEF Total!Summable
  <2>10. Total!Sum(f, Orders) \in Nat
    BY <2>6, <2>8, TotalAdds, Total!SumNat
  <2>11. warehouse'.stock[k] + At(g, o) = warehouse.stock[k] + At(f, o)
    BY <1>5, <2>1, <2>4 DEF At
  <2>12. warehouse'.stock[k] \in Nat /\ warehouse.stock[k] \in Nat
    BY DEF IInv, Types, Warehouses
  <2>13. SumFunction(f) = Total!Sum(f, Orders) /\ SumFunction(g) = Total!Sum(g, Orders)
    BY <2>4, SumsAreTotals DEF SumFunction
  <2>14. Stock0[k] \in Nat
    BY FulfilmentAssumption
  <2>15. At(f, o) \in Nat /\ At(g, o) \in Nat
    BY <2>6
  <2>16. warehouse'.stock[k] + SumFunction(g) = Stock0[k]
    <3> HIDE DEF HandlesOnly, KeepsBooks
    <3>1. warehouse.stock[k] + Total!Sum(f, Orders) = Stock0[k]
      BY <2>3, <2>13
    <3>2. warehouse'.stock[k] + Total!Sum(g, Orders) = Stock0[k]
      BY <2>9, <2>10, <2>11, <2>12, <2>14, <2>15, <3>1
    <3> QED
      BY <2>13, <3>2
  <2> QED
    BY <2>16 DEF g
<1>7. BatchesFollowSimpleSales'
  <2> SUFFICES ASSUME \A p \in Orders : PlainSubstitutions(p)', NEW k \in Skus,
                      MatchedAtFirst(k), SimpleSales(k)'
               PROVE  BatchesMatch(k)'
    BY DEF BatchesFollowSimpleSales, MatchedAtFirst
  <2>1. warehouse \in Warehouses /\ warehouse' \in Warehouses
    BY DEF IInv, Types
  <2>2. SimpleIn(warehouse', k)
    BY <2>1, SimpleSalesNext
  <2>3. SimpleSales(k)
    BY <2>1, <2>2, SimpleBefore, SimpleSalesHere
  <2>4. MatchIn(warehouse, k)
    BY <1>5, <2>1, <2>3, MatchHere DEF IInv, BatchesFollowSimpleSales
  <2>5. MatchIn(warehouse', k)
    BY <1>5, <2>2, <2>4
  <2> QED
    BY <2>1, <2>5, MatchNext
<1> QED
  BY <1>1, <1>2, <1>3, <1>4, <1>6, <1>7 DEF IInv
-----------------------------------------------------------------------------
(* The handlers *)
\* What such a step is to be shown to do: keep the invariant, and sell from the
\* batches that expire first.
Keeps(o) == HandlesOnly(o) /\ KeepsBooks(o) /\ Nearest(warehouse, warehouse', expired)

LEMMA Before ==
  ASSUME IInv
  PROVE  /\ status \in [Orders -> Statuses \cup {"none"}]
         /\ preference \in [Orders -> Preferences \cup {"contact_me"}]
         /\ lines \in [Orders -> Seq(LineRows)] /\ warehouse \in Warehouses
         /\ \A o \in Orders : /\ AreSold(warehouse, o, lines[o])
                              /\ \A i \in DOMAIN lines[o] : Replaceable(lines[o][i])
BY DEF IInv, Types, LinesAreSold, AreSold

\* Nothing leaves a batch while none holds less than before.
LEMMA NothingLeaves ==
  ASSUME NEW w \in Warehouses, NEW v \in Warehouses, \A b \in Batches : v.left[b] >= w.left[b],
         NEW past
  PROVE  Nearest(w, v, past)
<1>1. w.left \in [Batches -> Nat] /\ v.left \in [Batches -> Nat]
  BY DEF Warehouses
<1> QED
  BY <1>1 DEF Nearest

\* Two rows that owe the same: of the same thing, and approved both or neither.
OweTheSame(line, row) ==
    /\ row \in LineRows /\ Replaceable(row)
    /\ row.sku = line.sku /\ row.quantity = line.quantity
    /\ row.substitution = "approved" <=> line.substitution = "approved"
    /\ line.substitution = "approved" =>
          row.replacement = line.replacement /\ row.replacing = line.replacing

LEMMA RowsAreNone ==
  ASSUME NEW rows \in Seq(LineRows)
  PROVE  rows = <<>> <=> DOMAIN rows = {}
  OBVIOUS

\* Steps that leave the warehouse alone, and what the lines owe.
LEMMA QuietStep ==
  ASSUME IInv, NEW o \in Orders, warehouse' = warehouse, expired' = expired,
         NEW state \in Statuses, status' = [status EXCEPT ![o] = state],
         state = "cancelled" <=> status[o] = "cancelled",
         preference' = preference,
         NEW rows \in Seq(LineRows), lines' = [lines EXCEPT ![o] = rows],
         DOMAIN rows = DOMAIN lines[o], \A i \in DOMAIN rows : OweTheSame(lines[o][i], rows[i])
  PROVE  Keeps(o)
<1>1. /\ status \in [Orders -> Statuses \cup {"none"}]
      /\ preference \in [Orders -> Preferences \cup {"contact_me"}]
      /\ lines \in [Orders -> Seq(LineRows)] /\ warehouse \in Warehouses
      /\ lines[o] \in Seq(LineRows)
      /\ AreSold(warehouse, o, lines[o])
  BY Before
<1>2. "none" \notin Statuses
  BY DEF Statuses, After
<1>3. HandlesOnly(o)
  BY <1>1, <1>2 DEF HandlesOnly, Extends
<1>4. Nearest(warehouse, warehouse', expired)
  <2>1. \A b \in Batches : warehouse'.left[b] >= warehouse.left[b]
    BY <1>1 DEF Warehouses
  <2> QED
    BY <1>1, <2>1, NothingLeaves
<1>5. lines'[o] = rows /\ status'[o] = state
  BY <1>1
<1>6. \A i \in DOMAIN rows : Replaceable(rows[i]) /\ LineIsSold(warehouse, o, rows[i])
  BY <1>1 DEF AreSold, OweTheSame, LineIsSold
<1>7. rows # <<>> => lines[o] # <<>>
  <2>1. rows = <<>> <=> DOMAIN rows = {}
    BY ONLY rows \in Seq(LineRows), RowsAreNone
  <2>2. lines[o] = <<>> <=> DOMAIN lines[o] = {}
    BY ONLY <1>1, RowsAreNone
  <2> QED
    BY <2>1, <2>2
<1>8. Plain(rows) => Plain(lines[o])
  BY DEF Plain, OweTheSame
<1>9. ASSUME NEW k \in Skus
      PROVE  OwedIn(state, rows, k) = OwedIn(status[o], lines[o], k)
  <2>1. \A i \in DOMAIN rows : OwedOn(rows[i], k) = OwedOn(lines[o][i], k)
    BY DEF OweTheSame, OwedOn
  <2>2. OwedBy(rows, k) = OwedBy(lines[o], k)
    BY <2>1 DEF OwedBy
  <2> QED
    BY <2>2 DEF OwedIn
<1>10. /\ GivenBack(warehouse, o) => status[o] = "cancelled"
       /\ status[o] = "cancelled" /\ lines[o] # <<>> => GivenBack(warehouse, o)
  BY DEF IInv, GivenBackIfCancelled
<1>11. KeepsBooks(o)
  BY <1>2, <1>5, <1>6, <1>7, <1>8, <1>9, <1>10 DEF KeepsBooks
<1> QED
  BY <1>3, <1>4, <1>11 DEF Keeps

\* A line that is as it was owes what it owed.
LEMMA SameRowsOwe ==
  ASSUME IInv, NEW o \in Orders
  PROVE  \A i \in DOMAIN lines[o] :
             lines[o][i] \in LineRows /\ OweTheSame(lines[o][i], lines[o][i])
<1>1. lines[o] \in Seq(LineRows) /\ \A i \in DOMAIN lines[o] : Replaceable(lines[o][i])
  BY Before
<1>2. \A i \in DOMAIN lines[o] : lines[o][i] \in LineRows
  BY <1>1
<1> QED
  BY <1>1, <1>2 DEF OweTheSame

LEMMA SetStatusKeeps ==
  ASSUME IInv, NEW o \in Orders, NEW to \in Statuses, SetStatus(o, to)
  PROVE  Keeps(o)
<1>1. /\ status[o] \in Statuses /\ (to = status[o] \/ to \in After[status[o]]) /\ to # "cancelled"
      /\ status' = [status EXCEPT ![o] = to] /\ UNCHANGED <<preference, lines, warehouse, expired>>
  BY DEF SetStatus, CanBecome
<1>2. status[o] # "cancelled"
  BY <1>1 DEF After
<1>3. lines \in [Orders -> Seq(LineRows)] /\ lines[o] \in Seq(LineRows)
  BY Before
<1>4. lines' = [lines EXCEPT ![o] = lines[o]]
  BY <1>1, <1>3
<1> QED
  BY <1>1, <1>2, <1>3, <1>4, SameRowsOwe, QuietStep

LEMMA RiderSetsStatusKeeps ==
  ASSUME IInv, NEW o \in Orders, RiderSetsStatus(o)
  PROVE  Keeps(o)
<1> DEFINE to == IF status[o] = "ready_for_delivery" THEN "out_for_delivery" ELSE "delivered"
<1>1. /\ status[o] \in {"ready_for_delivery", "out_for_delivery"}
      /\ status' = [status EXCEPT ![o] = to] /\ UNCHANGED <<preference, lines, warehouse, expired>>
  BY DEF RiderSetsStatus
<1>2. to \in Statuses /\ to # "cancelled" /\ status[o] # "cancelled"
  BY <1>1 DEF Statuses, After
<1>3. lines \in [Orders -> Seq(LineRows)] /\ lines[o] \in Seq(LineRows)
  BY Before
<1>4. lines' = [lines EXCEPT ![o] = lines[o]]
  BY <1>1, <1>3
<1> HIDE DEF to
<1> QED
  BY <1>1, <1>2, <1>3, <1>4, SameRowsOwe, QuietStep

\* A line of an order is replaced by one that owes the same.
LEMMA OneRowKeeps ==
  ASSUME IInv, NEW o \in Orders, NEW i \in DOMAIN lines[o], NEW row,
         OweTheSame(lines[o][i], row), lines' = [lines EXCEPT ![o][i] = row],
         UNCHANGED <<status, preference, warehouse, expired>>
  PROVE  Keeps(o)
<1> DEFINE rows == [lines[o] EXCEPT ![i] = row]
<1>1. lines \in [Orders -> Seq(LineRows)] /\ lines[o] \in Seq(LineRows)
      /\ status \in [Orders -> Statuses \cup {"none"}]
  BY Before
<1>2. row \in LineRows
  BY DEF OweTheSame
<1>3. /\ rows \in Seq(LineRows) /\ DOMAIN rows = DOMAIN lines[o]
      /\ rows[i] = row /\ \A j \in DOMAIN rows : j # i => rows[j] = lines[o][j]
  BY <1>1, <1>2
<1>4. lines' = [lines EXCEPT ![o] = rows]
  BY <1>1
<1> HIDE DEF rows
<1>5. \A j \in DOMAIN rows : OweTheSame(lines[o][j], rows[j])
  BY <1>3, SameRowsOwe
<1>6. status[o] \in Statuses
  <2>1. status[o] # "none"
    <3>1. lines[o] # <<>>
      BY <1>1
    <3> QED
      BY <3>1 DEF IInv, NothingBefore
  <2> QED
    BY <1>1, <2>1
<1>7. status' = [status EXCEPT ![o] = status[o]]
  BY <1>1
<1> QED
  BY <1>3, <1>4, <1>5, <1>6, <1>7, QuietStep

LEMMA MarkPickedKeeps ==
  ASSUME IInv, NEW o \in Orders, NEW i, NEW mark \in Marks, MarkPicked(o, i, mark)
  PROVE  Keeps(o)
<1> DEFINE row == [lines[o][i] EXCEPT !.picked = mark]
<1>1. /\ i \in DOMAIN lines[o] /\ lines' = [lines EXCEPT ![o][i] = row]
      /\ UNCHANGED <<status, preference, warehouse, expired>>
  <2>1. /\ i \in DOMAIN lines[o] /\ lines' = [lines EXCEPT ![o][i].picked = mark]
        /\ UNCHANGED <<status, preference, warehouse, expired>>
    BY DEF MarkPicked
  <2>2. lines \in [Orders -> Seq(LineRows)]
    BY Before
  <2> QED
    BY <2>1, <2>2
<1>2. mark \in {"pending", "picked", "substituted", "unavailable"}
  BY FulfilmentAssumption
<1>3. lines[o][i] \in LineRows /\ Replaceable(lines[o][i])
  BY <1>1, SameRowsOwe, Before
<1>4. OweTheSame(lines[o][i], row)
  BY <1>2, <1>3 DEF OweTheSame, LineRows, Replaceable
<1> HIDE DEF row
<1> QED
  BY <1>1, <1>4, OneRowKeeps

LEMMA RejectKeeps ==
  ASSUME IInv, NEW o \in Orders, NEW i, Reject(o, i)
  PROVE  Keeps(o)
<1> DEFINE row == [lines[o][i] EXCEPT !.picked = "unavailable", !.substitution = "rejected"]
<1>1. /\ i \in DOMAIN lines[o] /\ lines[o][i].substitution = "proposed"
      /\ lines' = [lines EXCEPT ![o][i] = row]
      /\ UNCHANGED <<status, preference, warehouse, expired>>
  BY DEF Reject
<1>2. lines[o][i] \in LineRows
  BY <1>1, SameRowsOwe
<1>3. OweTheSame(lines[o][i], row)
  BY <1>1, <1>2 DEF OweTheSame, LineRows, Replaceable
<1> HIDE DEF row
<1> QED
  BY <1>1, <1>3, OneRowKeeps

LEMMA PlaceKeeps ==
  ASSUME IInv, NEW o \in Orders, NEW cart \in Carts, NEW wish \in Preferences,
         Place(o, cart, wish)
  PROVE  Keeps(o)
<1> DEFINE Items == [sku : Skus, quantity : Nat \ {0}]
           rows == LinesOf(cart)
           c == [rows |-> cart, order |-> o, past |-> expired]
<1>1. /\ status \in [Orders -> Statuses \cup {"none"}]
      /\ preference \in [Orders -> Preferences \cup {"contact_me"}]
      /\ lines \in [Orders -> Seq(LineRows)] /\ warehouse \in Warehouses
  BY Before
<1>2. /\ status[o] = "none" /\ lines' = [lines EXCEPT ![o] = rows]
      /\ preference' = [preference EXCEPT ![o] = wish]
      /\ status' = [status EXCEPT ![o] = "placed"] /\ expired' = expired
      /\ \A i \in DOMAIN cart : CanSell(warehouse, cart[i].sku, cart[i].quantity)
  BY DEF Place, LinesOf
<1>3. cart \in Seq(Items) /\ Sound(warehouse, cart)
  BY <1>2, FulfilmentAssumption DEF Sound
<1>4. warehouse' = Sold!Fold(c, warehouse, DOMAIN cart)
  BY DEF Place, FoldLeft, Sold!Fold, MapThenFoldSet, Sold!MapThenFoldSet, ItemOf, Greatest, SellItem
<1>5. SoldUpTo(Len(cart), warehouse, warehouse', o, cart, expired)
  BY <1>1, <1>3, <1>4, SellUpTo
<1>6. /\ DOMAIN cart = 1..Len(cart) /\ Len(cart) \in Nat /\ \A i \in DOMAIN cart : cart[i] \in Items
  <2> HIDE DEF Items
  <2> QED
    BY <1>3
<1> HIDE DEF c
<1>7. /\ rows \in Seq(LineRows) /\ DOMAIN rows = DOMAIN cart
      /\ \A i \in DOMAIN cart : rows[i] = Line(cart[i])
  <2>1. \A i \in DOMAIN cart : Line(cart[i]) \in LineRows
    BY <1>6 DEF Line, LineRows
  <2>2. rows = [i \in 1..Len(cart) |-> Line(cart[i])]
    BY <1>6 DEF LinesOf
  <2>3. rows \in [1..Len(cart) -> LineRows]
    BY <1>6, <2>1, <2>2
  <2> HIDE DEF rows, Items
  <2> QED
    BY <1>6, <2>2, <2>3
<1> HIDE DEF rows, Items
<1>8. "placed" \in Statuses /\ "none" # "placed"
  BY DEF Statuses, After
<1>9. lines[o] = <<>>
  BY <1>2 DEF IInv, NothingBefore
<1>10. lines'[o] = rows /\ status'[o] = "placed"
  BY <1>1, <1>2
<1>11. /\ warehouse' \in Warehouses /\ Extends(warehouse, warehouse')
       /\ \A k \in Skus :
             /\ warehouse'.stock[k]
                    = warehouse.stock[k] - Total!Sum(OwedBy(rows, k), DOMAIN rows)
             /\ SimpleIn(warehouse', k) /\ MatchIn(warehouse, k) => MatchIn(warehouse', k)
       /\ \A i \in DOMAIN cart : HasSale(warehouse', o, cart[i].sku, cart[i].quantity)
       /\ \A p \in Orders : GivenBack(warehouse', p) => GivenBack(warehouse, p)
       /\ Nearest(warehouse, warehouse', expired)
  BY <1>5, <1>6, <1>7 DEF SoldUpTo, rows
<1>12. HandlesOnly(o)
  BY <1>1, <1>2, <1>7, <1>8, <1>11 DEF HandlesOnly
<1>13. \A i \in DOMAIN rows : Replaceable(rows[i]) /\ LineIsSold(warehouse', o, rows[i])
  BY <1>7, <1>11 DEF Line, Replaceable, LineIsSold
<1>14. ~GivenBack(warehouse', o)
  BY <1>2, <1>11 DEF IInv, GivenBackIfCancelled
<1>15. Plain(lines[o])
  BY <1>9 DEF Plain
<1>16. ASSUME NEW k \in Skus
       PROVE  warehouse'.stock[k] + OwedIn("placed", rows, k)
                = warehouse.stock[k] + OwedIn("none", lines[o], k)
  <2>1. OwedIn("none", lines[o], k) = 0
    <3>1. DOMAIN lines[o] = {}
      BY <1>9
    <3> QED
      BY <3>1, Total!SumEmpty DEF OwedIn
  <2>2. OwedIn("placed", rows, k) = Total!Sum(OwedBy(rows, k), DOMAIN rows)
    BY DEF OwedIn
  <2>3. OwedIn("placed", rows, k) \in Nat
    BY <1>7, OwedNat
  <2>4. warehouse.stock[k] \in Nat /\ warehouse'.stock[k] \in Nat
    BY <1>1, <1>11 DEF Warehouses
  <2> QED
    BY <1>11, <2>1, <2>2, <2>3, <2>4
<1>17. KeepsBooks(o)
  BY <1>2, <1>8, <1>10, <1>11, <1>13, <1>14, <1>15, <1>16 DEF KeepsBooks
<1> QED
  BY <1>11, <1>12, <1>17 DEF Keeps

LEMMA CancelKeeps ==
  ASSUME IInv, NEW o \in Orders, CancelOrder(o)
  PROVE  Keeps(o)
<1> DEFINE rows == lines[o]
<1>1. /\ status \in [Orders -> Statuses \cup {"none"}]
      /\ preference \in [Orders -> Preferences \cup {"contact_me"}]
      /\ lines \in [Orders -> Seq(LineRows)] /\ warehouse \in Warehouses
      /\ AreSold(warehouse, o, rows) /\ \A i \in DOMAIN rows : Replaceable(rows[i])
      /\ rows \in Seq(LineRows)
  BY Before
<1>2. /\ status[o] \in Statuses /\ status' = [status EXCEPT ![o] = "cancelled"]
      /\ warehouse' = GiveBack(warehouse, o) /\ UNCHANGED <<preference, lines, expired>>
  BY DEF CancelOrder, CanBecome
<1>3. "cancelled" \in Statuses /\ "none" # "cancelled"
  BY DEF Statuses, After
<1>4. CASE GivenBack(warehouse, o)
  <2>1. warehouse' = warehouse
    BY <1>2, <1>4 DEF GiveBack, GivenBack
  <2>2. status[o] = "cancelled"
    BY <1>4 DEF IInv, GivenBackIfCancelled
  <2>3. lines' = [lines EXCEPT ![o] = rows]
    BY <1>1, <1>2
  <2> QED
    BY <1>1, <1>2, <1>3, <2>1, <2>2, <2>3, SameRowsOwe, QuietStep
<1>5. CASE ~GivenBack(warehouse, o)
  <2>1. ReturnedUpTo(Len(rows), warehouse, warehouse', o, rows)
    BY <1>1, <1>2, <1>5, GiveBackReturns
  <2>2. DOMAIN rows = 1..Len(rows) /\ Len(rows) \in Nat /\ (Len(rows) = 0 => rows = <<>>)
    BY <1>1
  <2>3. /\ warehouse' \in Warehouses /\ Extends(warehouse, warehouse')
        /\ \A k \in Skus :
              /\ warehouse'.stock[k]
                    = warehouse.stock[k] + Total!Sum(OwedBy(rows, k), DOMAIN rows)
              /\ SimpleIn(warehouse', k) /\ MatchIn(warehouse, k) => MatchIn(warehouse', k)
        /\ rows # <<>> => GivenBack(warehouse', o)
        /\ \A p \in Orders \ {o} : GivenBack(warehouse', p) => GivenBack(warehouse, p)
        /\ \A b \in Batches : warehouse'.left[b] >= warehouse.left[b]
    BY <2>1, <2>2 DEF ReturnedUpTo
  <2>4. HandlesOnly(o)
    BY <1>1, <1>2, <1>3, <2>3 DEF HandlesOnly
  <2>5. Nearest(warehouse, warehouse', expired)
    BY <1>1, <2>3, NothingLeaves
  <2>6. lines'[o] = rows /\ status'[o] = "cancelled"
    BY <1>1, <1>2
  <2>7. \A i \in DOMAIN rows : LineIsSold(warehouse', o, rows[i])
    BY <1>1, <2>3, SalesStay DEF AreSold, LineIsSold
  <2>8. ASSUME NEW k \in Skus
        PROVE  warehouse'.stock[k] + OwedIn("cancelled", rows, k)
                 = warehouse.stock[k] + OwedIn(status[o], rows, k)
    <3>1. CASE status[o] = "cancelled"
      <4>1. rows = <<>>
        BY <1>5, <3>1 DEF IInv, GivenBackIfCancelled
      <4>2. Total!Sum(OwedBy(rows, k), DOMAIN rows) = 0
        <5>1. DOMAIN rows = {}
          BY <4>1
        <5> QED
          BY <5>1, Total!SumEmpty
      <4>3. warehouse.stock[k] \in Nat
        BY <1>1 DEF Warehouses
      <4> QED
        BY <2>3, <3>1, <4>2, <4>3 DEF OwedIn
    <3>2. CASE status[o] # "cancelled"
      <4>1. OwedIn(status[o], rows, k) \in Nat
        BY <1>1, OwedNat
      <4>2. warehouse.stock[k] \in Nat
        BY <1>1 DEF Warehouses
      <4>3. /\ OwedIn(status[o], rows, k) = Total!Sum(OwedBy(rows, k), DOMAIN rows)
            /\ OwedIn("cancelled", rows, k) = 0
        BY <3>2 DEF OwedIn
      <4> QED
        BY <2>3, <4>1, <4>2, <4>3
    <3> QED
      BY <3>1, <3>2
  <2> HIDE DEF rows
  <2>9. KeepsBooks(o)
    BY <1>1, <1>3, <2>3, <2>6, <2>7, <2>8 DEF KeepsBooks, rows
  <2> QED
    BY <2>4, <2>5, <2>9 DEF Keeps
<1> QED
  BY <1>4, <1>5

\* The line that Substitute leaves.
Substituted(line, product, quantity) ==
    [line EXCEPT !.picked = "substituted", !.substitution = "approved",
                 !.replacement = product, !.replacing = quantity]

\* What the warehouse is after a substitution.
LEMMA SubstituteMoves ==
  ASSUME NEW w \in Warehouses, NEW o \in Orders, NEW line \in LineRows,
         HasSale(w, o, line.sku, line.quantity),
         NEW product \in Products, product # ProductOf(line.sku), NEW quantity \in Nat,
         CanSell(w, product, quantity), NEW past,
         NEW v, v = Restore(Sell(w, o, product, quantity, past), o, ProductOf(line.sku),
                            line.quantity, "substitution_restore")
  PROVE  /\ v \in Warehouses /\ Extends(w, v) /\ Nearest(w, v, past)
         /\ HasSale(v, o, product, quantity)
         /\ \A p \in Orders : GivenBack(v, p) <=> GivenBack(w, p)
         /\ GivenBack(w, o) => ~InTime(v, o)
         /\ \A k \in Skus : v.stock[k] = w.stock[k] - (IF k = product THEN quantity ELSE 0)
                                           + (IF k = ProductOf(line.sku) THEN line.quantity ELSE 0)
         /\ line.sku \in Products =>
                \A k \in Skus : SimpleIn(v, k) /\ MatchIn(w, k) => MatchIn(v, k)
<1> DEFINE u == Sell(w, o, product, quantity, past)
           original == ProductOf(line.sku)
           given == line.quantity
           sale == SaleRow(w, product, quantity, past)
           back == BackRow(original, given, "substitution_restore")
           t == Fefo(w, product, quantity, past)
<1>1. /\ line.sku \in Skus /\ given \in Nat /\ product \in Skus
      /\ original \in Skus /\ original \in Products /\ original # product
      /\ line.sku \in Products => original = line.sku
      /\ ProductOf(product) = product
  BY StockroomAssumption DEF LineRows, Skus, ProductOf
<1>2. /\ u \in Warehouses /\ sale \in MoveRows
      /\ u.stock = [w.stock EXCEPT ![product] = @ - quantity]
      /\ \A b \in Batches : u.left[b] = w.left[b] - t[b]
      /\ Filed(w, u, o, sale)
  BY <1>1, SellFields
<1>3. sale.sku = product /\ sale.change = - quantity /\ sale.type = "sale"
  BY DEF SaleRow
<1>4. v = Restore(u, o, original, given, "substitution_restore")
  OBVIOUS
<1>5. \A b \in Batches :
          /\ t[b] \in Nat /\ t[b] <= w.left[b]
          /\ t[b] # 0 => b \in OwnBatches(product) \ past
          /\ t[b] # 0 => \A d \in OwnBatches(product) \ past :
                             FefoRank[d] < FefoRank[b] => t[d] = w.left[d]
  BY <1>1, FefoTakes
<1> DEFINE put == Back(u, o, original)
<1>6. /\ v \in Warehouses /\ back \in MoveRows
      /\ v.stock = [u.stock EXCEPT ![original] = @ + given]
      /\ \A b \in Batches : v.left[b] = u.left[b] + put[b]
      /\ Filed(u, v, o, back)
  <2> HIDE DEF u
  <2> QED
    BY <1>1, <1>2, <1>4, RestoreFields
<1>7. back.type = "substitution_restore"
  BY DEF BackRow
<1>8. put \in [Batches -> Nat] /\ \A b \in Batches : SkuOf[b] = product => put[b] = 0
  <2> DEFINE m == Min(Sales(u, o, original))
  <2> HIDE DEF u
  <2>1. /\ Sales(u, o, original) # {} => m \in Sales(u, o, original) /\ m \in DOMAIN u.moves[o]
                                         /\ u.moves[o][m] \in MoveRows
        /\ put \in [Batches -> Nat]
    BY <1>1, <1>2, BackIsOwn
  <2>2. CASE Sales(u, o, original) = {}
    BY <2>1, <2>2 DEF Back, NoBatchUsed
  <2>3. CASE Sales(u, o, original) # {}
    <3> DEFINE row == u.moves[o][m]
    <3>1. row \in MoveRows /\ put = row.taken
      BY <2>1, <2>3 DEF Back
    <3>2. ProductOf(row.sku) = original
      <4>1. original \notin Variants
        BY <1>1, StockroomAssumption
      <4> QED
        BY <2>1, <2>3, <4>1 DEF Sales
    <3>3. row.sku # product
      BY <1>1, <3>2
    <3>4. \A b \in Batches : row.taken[b] # 0 => SkuOf[b] = row.sku
      BY <3>1 DEF MoveRows, OwnBatches
    <3> QED
      BY <2>1, <3>1, <3>3, <3>4
  <2> QED
    BY <2>2, <2>3
<1> HIDE DEF u, sale, back, t, put, original, given
<1>9. Extends(w, u) /\ Extends(u, v) /\ Extends(w, v)
  <2>1. Extends(w, u) /\ Extends(u, v)
    BY <1>2, <1>6, FilingExtends
  <2> QED
    BY <2>1, ExtendsFurther
<1>10. \A p \in Orders : GivenBack(v, p) <=> GivenBack(w, p)
  BY <1>2, <1>3, <1>6, <1>7, FilingGivesNothingBack
<1>11. HasSale(v, o, product, quantity)
  <2>1. HasSale(u, o, product, quantity)
    <3>1. Len(w.moves[o]) + 1 \in DOMAIN u.moves[o] /\ u.moves[o][Len(w.moves[o]) + 1] = sale
      BY <1>2, FilingExtends
    <3> QED
      BY <1>3, <3>1 DEF HasSale
  <2> QED
    BY <1>9, <2>1, SalesStay
<1>12. GivenBack(w, o) => ~InTime(v, o)
  <2> HAVE GivenBack(w, o)
  <2> DEFINE n == Len(u.moves[o]) + 1
  <2>1. GivenBack(u, o)
    BY <1>2, FilingGivesNothingBack
  <2>2. PICK j \in DOMAIN u.moves[o] : u.moves[o][j].type = "cancel_restore"
    BY <2>1 DEF GivenBack
  <2>3. /\ n \in DOMAIN v.moves[o] /\ v.moves[o][n] = back
        /\ j \in DOMAIN v.moves[o] /\ v.moves[o][j] = u.moves[o][j] /\ j < n
    BY <1>2, <1>6, FilingExtends DEF Extends
  <2>4. n \in Nat /\ j \in Nat
    <3>1. u.moves[o] \in Seq(MoveRows)
      BY <1>2 DEF Warehouses
    <3> QED
      BY <3>1
  <2> HIDE DEF n
  <2>5. ~(n < j)
    BY <2>3, <2>4
  <2> QED
    BY <1>7, <2>2, <2>3, <2>5 DEF InTime
<1>13. \A k \in Skus : v.stock[k] = w.stock[k] - (IF k = product THEN quantity ELSE 0)
                                      + (IF k = original THEN given ELSE 0)
  <2>1. w.stock \in [Skus -> Nat] /\ u.stock \in [Skus -> Nat]
    BY <1>2 DEF Warehouses
  <2> QED
    BY <1>1, <1>2, <1>6, <2>1
<1>14. ASSUME line.sku \in Products, NEW k \in Skus, SimpleIn(v, k), MatchIn(w, k)
       PROVE  MatchIn(v, k)
  <2>1. SimpleIn(u, k)
    BY <1>9, <1>14, SimpleBefore
  <2>2. MatchIn(u, k)
    BY <1>1, <1>14, <2>1, SellKeepsMatch DEF u
  <2>3. HasSale(u, o, original, given)
    BY <1>1, <1>9, <1>14, SalesStay DEF given
  <2> QED
    BY <1>1, <1>2, <1>4, <1>14, <2>1, <2>2, <2>3, RestoreKeepsMatch
<1>15. Nearest(w, v, past)
  <2>0. \A b \in Batches : w.left[b] \in Nat /\ u.left[b] \in Nat /\ put[b] \in Nat
    BY <1>2, <1>8 DEF Warehouses
  <2>1. \A b \in Batches : SkuOf[b] # product => v.left[b] >= w.left[b]
    BY <1>2, <1>5, <1>6, <2>0 DEF OwnBatches
  <2>2. \A b \in Batches : SkuOf[b] = product => v.left[b] = w.left[b] - t[b]
    BY <1>2, <1>5, <1>6, <1>8, <2>0
  <2> SUFFICES ASSUME NEW b \in Batches, v.left[b] < w.left[b]
               PROVE  /\ b \notin past
                      /\ \A d \in OwnBatches(SkuOf[b]) \ past :
                             FefoRank[d] < FefoRank[b] => v.left[d] = 0
    BY DEF Nearest
  <2>3. v.left[b] \in Nat
    BY <1>6 DEF Warehouses
  <2>4. SkuOf[b] = product
    BY <2>0, <2>1, <2>3
  <2>5. t[b] # 0
    BY <2>0, <2>2, <2>4
  <2>6. \A d \in OwnBatches(product) \ past : FefoRank[d] < FefoRank[b] => v.left[d] = 0
    <3> TAKE d \in OwnBatches(product) \ past
    <3> HAVE FefoRank[d] < FefoRank[b]
    <3>1. d \in Batches /\ SkuOf[d] = product /\ t[d] = w.left[d]
      BY <1>5, <2>5 DEF OwnBatches
    <3> QED
      BY <2>0, <2>2, <3>1
  <2> QED
    BY <1>5, <2>4, <2>5, <2>6
<1> QED
  BY <1>6, <1>9, <1>10, <1>11, <1>12, <1>13, <1>14, <1>15 DEF original, given

LEMMA SubstituteKeeps ==
  ASSUME IInv, NEW o \in Orders, NEW i \in DOMAIN lines[o],
         NEW product \in Products, product # ProductOf(lines[o][i].sku),
         NEW quantity \in Nat, CanSell(warehouse, product, quantity),
         lines[o][i].substitution # "approved", Substitute(o, i, product, quantity),
         UNCHANGED <<status, preference, expired>>
  PROVE  Keeps(o)
<1> DEFINE line == lines[o][i]
           row == Substituted(line, product, quantity)
           rows == [lines[o] EXCEPT ![i] = row]
<1>1. /\ status \in [Orders -> Statuses \cup {"none"}]
      /\ preference \in [Orders -> Preferences \cup {"contact_me"}]
      /\ lines \in [Orders -> Seq(LineRows)] /\ warehouse \in Warehouses
      /\ AreSold(warehouse, o, lines[o]) /\ \A j \in DOMAIN lines[o] : Replaceable(lines[o][j])
      /\ lines[o] \in Seq(LineRows)
  BY Before
<1>2. /\ line \in LineRows /\ HasSale(warehouse, o, line.sku, line.quantity)
      /\ line.substitution # "approved"
  BY <1>1, SameRowsOwe DEF AreSold, LineIsSold
<1>3. /\ warehouse' = Restore(Sell(warehouse, o, product, quantity, expired), o,
                              ProductOf(line.sku), line.quantity, "substitution_restore")
      /\ lines' = [lines EXCEPT ![o][i] = row]
  BY <1>1 DEF Substitute, Substituted
<1>4. lines' = [lines EXCEPT ![o] = rows]
  BY <1>1, <1>3
<1>5. product \in Skus
  BY DEF Skus
<1>6. /\ row \in LineRows /\ Replaceable(row) /\ row.sku = line.sku
      /\ row.substitution = "approved" /\ row.replacement = product /\ row.replacing = quantity
      /\ row.quantity = line.quantity
  BY <1>2, <1>5 DEF Substituted, LineRows, Replaceable
<1> DEFINE w == warehouse
           v == warehouse'
<1>7. /\ v \in Warehouses /\ Extends(w, v) /\ Nearest(w, v, expired)
      /\ HasSale(v, o, product, quantity)
      /\ \A p \in Orders : GivenBack(v, p) <=> GivenBack(w, p)
      /\ GivenBack(w, o) => ~InTime(v, o)
      /\ \A k \in Skus : v.stock[k] = w.stock[k] - (IF k = product THEN quantity ELSE 0)
                                        + (IF k = ProductOf(line.sku) THEN line.quantity ELSE 0)
      /\ line.sku \in Products =>
             \A k \in Skus : SimpleIn(v, k) /\ MatchIn(w, k) => MatchIn(v, k)
  <2> HIDE DEF line, row, v
  <2> QED
    BY <1>1, <1>2, <1>3, SubstituteMoves DEF line, v
<1> HIDE DEF row
<1>8. /\ rows \in Seq(LineRows) /\ DOMAIN rows = DOMAIN lines[o] /\ rows[i] = row
      /\ \A j \in DOMAIN rows : j # i => rows[j] = lines[o][j]
      /\ DOMAIN rows = 1..Len(rows) /\ Len(rows) \in Nat
  <2>1. rows \in Seq(LineRows)
    BY <1>1, <1>6
  <2>2. DOMAIN rows = 1..Len(rows) /\ Len(rows) \in Nat
    <3> HIDE DEF rows
    <3> QED
      BY <2>1
  <2>3. /\ DOMAIN rows = DOMAIN lines[o] /\ rows[i] = row
        /\ \A j \in DOMAIN rows : j # i => rows[j] = lines[o][j]
    OBVIOUS
  <2> QED
    BY <2>1, <2>2, <2>3
<1> HIDE DEF rows
<1>9. lines'[o] = rows /\ status'[o] = status[o]
  BY <1>1, <1>4
<1>10. HandlesOnly(o)
  BY <1>1, <1>4, <1>7, <1>8 DEF HandlesOnly
<1>11. \A j \in DOMAIN rows : Replaceable(rows[j])
  BY <1>1, <1>6, <1>8
<1>12. \A j \in DOMAIN rows : LineIsSold(v, o, rows[j])
  <2> SUFFICES ASSUME NEW j \in DOMAIN rows PROVE LineIsSold(v, o, rows[j])
    OBVIOUS
  <2>1. CASE j = i
    <3>1. HasSale(v, o, line.sku, line.quantity)
      BY <1>2, <1>7, SalesStay
    <3> QED
      BY <1>6, <1>7, <1>8, <2>1, <3>1 DEF LineIsSold
  <2>2. CASE j # i
    <3>1. LineIsSold(w, o, rows[j])
      BY <1>1, <1>8, <2>2 DEF AreSold
    <3> QED
      BY <1>7, <3>1, SalesStay DEF LineIsSold
  <2> QED
    BY <2>1, <2>2
<1>13. lines[o] # <<>>
  BY <1>1
<1>14. /\ GivenBack(w, o) => status[o] = "cancelled"
       /\ status[o] = "cancelled" => GivenBack(w, o)
       /\ status[o] # "none"
  BY <1>13 DEF IInv, GivenBackIfCancelled, NothingBefore
<1>15. Plain(rows) => Plain(lines[o]) /\ line.sku \in Products /\ ProductOf(line.sku) = line.sku
  <2> HAVE Plain(rows)
  <2>1. line.sku \in Products
    BY <1>6, <1>8 DEF Plain
  <2>2. ProductOf(line.sku) = line.sku
    BY <2>1, StockroomAssumption DEF ProductOf
  <2>3. Plain(lines[o])
    BY <1>2, <1>8 DEF Plain
  <2> QED
    BY <2>1, <2>2, <2>3
<1>16. ASSUME status[o] # "cancelled", ProductOf(line.sku) = line.sku, NEW k \in Skus
       PROVE  v.stock[k] + OwedIn(status[o], rows, k) = w.stock[k] + OwedIn(status[o], lines[o], k)
  <2> DEFINE f == OwedBy(lines[o], k)
             g == OwedBy(rows, k)
             S == DOMAIN rows
  <2>1. /\ \A j \in S : At(f, j) = OwedOn(lines[o][j], k) /\ At(f, j) \in Nat
        /\ \A j \in S : At(g, j) = OwedOn(rows[j], k) /\ At(g, j) \in Nat
    <3>1. f \in [S -> Nat] /\ g \in [S -> Nat]
      BY <1>1, <1>8, RowsOwe
    <3> HIDE DEF f, g
    <3>2. \A j \in S : At(f, j) = OwedOn(lines[o][j], k) /\ At(g, j) = OwedOn(rows[j], k)
      BY <1>1, <1>8, RowsOwe DEF f, g
    <3> QED
      BY <3>1, <3>2 DEF At
  <2>2. At(f, i) = (IF line.sku = k THEN line.quantity ELSE 0)
        /\ At(g, i) = (IF product = k THEN quantity ELSE 0)
    <3> HIDE DEF f, g
    <3> QED
      BY <1>2, <1>6, <1>8, <2>1 DEF OwedOn
  <2>3. \A j \in S \ {i} : At(f, j) = At(g, j)
    <3> HIDE DEF f, g
    <3> QED
      BY <1>8, <2>1
  <2>4. Total!IsFiniteSet(S)
    BY <1>8, FS_Interval, SameFinite
  <2> HIDE DEF f, g, S
  <2>5. i \in S
    BY <1>8 DEF S
  <2>6. Total!Sum(g, S) = Total!Sum(f, S) + At(g, i) - At(f, i)
    BY <2>1, <2>3, <2>4, <2>5, TotalAdds, Total!SumChange DEF Total!Summable
  <2>7. Total!Sum(f, S) \in Nat
    BY <2>1, <2>4, TotalAdds, Total!SumNat
  <2>8. /\ OwedIn(status[o], rows, k) = Total!Sum(g, S)
        /\ OwedIn(status[o], lines[o], k) = Total!Sum(f, S)
    BY <1>8, <1>16 DEF OwedIn, f, g, S
  <2>9. w.stock[k] \in Nat
    BY <1>1 DEF Warehouses
  <2>10. v.stock[k] = w.stock[k] - At(g, i) + At(f, i)
    BY <1>7, <1>16, <2>2
  <2>11. At(f, i) \in Nat /\ At(g, i) \in Nat
    BY <2>1, <2>5
  <2> HIDE DEF v, w
  <2>12. Total!Sum(f, S) + At(g, i) - At(f, i) \in Int
    BY <2>7, <2>11
  <2>13. v.stock[k] + Total!Sum(g, S) = w.stock[k] + Total!Sum(f, S)
    BY <2>6, <2>7, <2>9, <2>10, <2>11
  <2> QED
    BY <2>8, <2>13
<1>17. KeepsBooks(o)
  <2>1. ASSUME Plain(rows), NEW k \in Skus, SimpleIn(v, k), MatchIn(w, k) PROVE MatchIn(v, k)
    BY <1>7, <1>15, <2>1
  <2>2. ASSUME Plain(rows), InTime(v, o), NEW k \in Skus
        PROVE  v.stock[k] + OwedIn(status[o], rows, k) = w.stock[k] + OwedIn(status[o], lines[o], k)
    <3>1. status[o] # "cancelled"
      BY <1>7, <1>14, <2>2
    <3> QED
      BY <1>15, <1>16, <2>2, <3>1
  <2> QED
    BY <1>7, <1>9, <1>11, <1>12, <1>14, <1>15, <2>1, <2>2 DEF KeepsBooks
<1> QED
  BY <1>7, <1>10, <1>17 DEF Keeps

LEMMA ProposeKeeps ==
  ASSUME IInv, NEW o \in Orders, NEW i, NEW product \in Products,
         NEW quantity \in 1..MaxQuantity, Propose(o, i, product, quantity)
  PROVE  Keeps(o)
<1>1. /\ i \in DOMAIN lines[o] /\ lines[o][i].substitution = "none"
      /\ product # ProductOf(lines[o][i].sku) /\ UNCHANGED <<status, preference, expired>>
  BY DEF Propose
<1>2. quantity \in Nat
  BY FulfilmentAssumption
<1>3. CASE CanSell(warehouse, product, quantity) /\ Substitute(o, i, product, quantity)
  BY <1>1, <1>2, <1>3, SubstituteKeeps
<1>4. CASE /\ lines' = [lines EXCEPT ![o][i] =
                 [@ EXCEPT !.substitution = "proposed", !.replacement = product,
                           !.replacing = quantity]]
           /\ UNCHANGED warehouse
  <2> DEFINE row == [lines[o][i] EXCEPT !.substitution = "proposed", !.replacement = product,
                                        !.replacing = quantity]
  <2>1. lines[o][i] \in LineRows /\ lines \in [Orders -> Seq(LineRows)]
    BY <1>1, SameRowsOwe, Before
  <2>2. lines' = [lines EXCEPT ![o][i] = row]
    BY <1>4, <2>1
  <2>3. OweTheSame(lines[o][i], row)
    BY <1>1, <1>2, <2>1 DEF OweTheSame, LineRows, Replaceable, Skus
  <2> HIDE DEF row
  <2> QED
    BY <1>1, <1>4, <2>2, <2>3, OneRowKeeps
<1> QED
  BY <1>3, <1>4 DEF Propose

LEMMA ApproveKeeps ==
  ASSUME IInv, NEW o \in Orders, NEW i, Approve(o, i)
  PROVE  Keeps(o)
<1> DEFINE line == lines[o][i]
<1>1. /\ i \in DOMAIN lines[o] /\ line.substitution = "proposed"
      /\ CanSell(warehouse, line.replacement, line.replacing)
      /\ Substitute(o, i, line.replacement, line.replacing)
      /\ UNCHANGED <<status, preference, expired>>
  BY DEF Approve
<1>2. line \in LineRows /\ Replaceable(line)
  BY <1>1, SameRowsOwe, Before
<1>3. /\ line.replacement \in Products /\ line.replacement # ProductOf(line.sku)
      /\ line.replacing \in Nat
  BY <1>1, <1>2 DEF Replaceable, LineRows
<1> QED
  BY <1>1, <1>3, SubstituteKeeps
-----------------------------------------------------------------------------
(* The invariant *)
LEMMA InitIInv ==
  ASSUME Init
  PROVE  IInv
<1> USE DEF Init
<1>1. warehouse \in Warehouses
  <2>1. <<>> \in Seq(MoveRows)
    OBVIOUS
  <2>2. [o \in Orders |-> <<>>] \in [Orders -> Seq(MoveRows)]
    BY <2>1
  <2> QED
    BY <2>2, FulfilmentAssumption DEF Warehouses
<1>2. Types
  <2>1. <<>> \in Seq(LineRows)
    OBVIOUS
  <2>2. lines \in [Orders -> Seq(LineRows)]
    BY <2>1
  <2> QED
    BY <1>1, <2>2 DEF Types
<1>3. \A o \in Orders : lines[o] = <<>> /\ status[o] = "none" /\ warehouse.moves[o] = <<>>
  OBVIOUS
<1>4. LinesAreSold /\ GivenBackIfCancelled /\ NothingBefore
  BY <1>3 DEF LinesAreSold, GivenBackIfCancelled, NothingBefore, GivenBack
<1>5. UnitsAccounted
  <2> SUFFICES ASSUME NEW k \in Skus
               PROVE  warehouse.stock[k] + SumFunction([o \in Orders |-> Owed(o, k)]) = Stock0[k]
    BY DEF UnitsAccounted
  <2> DEFINE f == [o \in Orders |-> Owed(o, k)]
  <2>1. \A o \in Orders : Owed(o, k) = 0
    <3> TAKE o \in Orders
    <3>1. DOMAIN lines[o] = {}
      BY <1>3
    <3>2. OwedIn(status[o], lines[o], k) = 0
      BY <3>1, Total!SumEmpty DEF OwedIn
    <3> QED
      BY <3>2, OwedHere
  <2>2. \A o \in Orders : At(f, o) = 0
    BY <2>1 DEF At
  <2>3. SumFunction(f) = Total!Sum(f, Orders)
    BY SumsAreTotals DEF SumFunction
  <2> HIDE DEF f
  <2>4. SumFunction(f) = 0
    BY <2>2, <2>3, FulfilmentAssumption, SameFinite, TotalAdds, Total!SumZero
  <2>5. warehouse.stock[k] = Stock0[k] /\ Stock0[k] \in Nat
    BY FulfilmentAssumption
  <2> QED
    BY <2>4, <2>5 DEF f
<1>6. BatchesFollowSimpleSales
  <2> SUFFICES ASSUME NEW k \in Skus, MatchedAtFirst(k) PROVE BatchesMatch(k)
    BY DEF BatchesFollowSimpleSales
  <2> DEFINE own == OwnBatches(k)
             all == {b \in Batches : SkuOf[b] = k}
  <2>1. warehouse.left = Left0 /\ warehouse.stock = Stock0
    OBVIOUS
  <2>2. own \in SUBSET all /\ all \in SUBSET Batches
    BY DEF OwnBatches
  <2>3. /\ \A b \in all : At(Left0, b) \in Nat
        /\ \A b \in all \ own : At(Left0, b) = 0
    BY <2>2, FulfilmentAssumption DEF At, OwnBatches
  <2>4. Stock0[k] = Total!Sum(Left0, all)
    BY SumsAreTotals DEF MatchedAtFirst
  <2> HIDE DEF own, all
  <2>5. Total!IsFiniteSet(all) /\ Total!IsFiniteSet(own) /\ Total!IsFiniteSet(all \ own)
    BY <2>2, FewBatches
  <2>6. Total!Sum(Left0, all) = Total!Sum(Left0, own) + Total!Sum(Left0, all \ own)
    BY <2>2, <2>3, <2>5, TotalAdds, Total!SumSplit DEF Total!Summable
  <2>7. Total!Sum(Left0, all \ own) = 0 /\ Total!Sum(Left0, own) \in Nat
    BY <2>2, <2>3, <2>5, TotalAdds, Total!SumZero, TotalAdds, Total!SumNat
  <2>8. Total!Sum(warehouse.left, own) = warehouse.stock[k]
    BY <2>1, <2>4, <2>6, <2>7
  <2>9. MatchIn(warehouse, k)
    BY <2>8, SumsAreTotals DEF MatchIn, InBatches, own
  <2> QED
    BY <1>1, <2>9, MatchHere
<1> QED
  BY <1>2, <1>4, <1>5, <1>6 DEF IInv

\* The calendar moves nothing.
LEMMA CalendarKeeps ==
  ASSUME IInv, UNCHANGED <<status, preference, lines, warehouse>>,
         expired' \subseteq Perishable
  PROVE  IInv'
<1>1. Types'
  BY DEF IInv, Types
<1>2. LinesAreSold' /\ GivenBackIfCancelled' /\ NothingBefore'
  BY DEF IInv, LinesAreSold, GivenBackIfCancelled, NothingBefore
<1>3. UnitsAccounted'
  <2>1. UnitsAccounted
    BY DEF IInv
  <2>2. \A o \in Orders : /\ DecidedInTime(o)' <=> DecidedInTime(o)
                          /\ PlainSubstitutions(o)' <=> PlainSubstitutions(o)
    BY InTimeHere, PlainHere
  <2>3. \A o \in Orders : \A k : Owed(o, k)' = Owed(o, k)
    BY OwedHere
  <2>4. \A k : [o \in Orders |-> Owed(o, k)'] = [o \in Orders |-> Owed(o, k)]
    BY <2>3
  <2>5. \A k : SumFunction([o \in Orders |-> Owed(o, k)']) = SumFunction([o \in Orders |-> Owed(o, k)])
    BY <2>4
  <2> QED
    BY <2>1, <2>2, <2>5 DEF UnitsAccounted
<1>4. BatchesFollowSimpleSales'
  <2>1. warehouse \in Warehouses /\ warehouse' \in Warehouses
    BY DEF IInv, Types
  <2>2. \A k : (SimpleSales(k)' <=> SimpleSales(k)) /\ (BatchesMatch(k)' <=> BatchesMatch(k))
    BY <2>1, SimpleSalesHere, SimpleSalesNext, MatchHere, MatchNext
  <2>3. \A o \in Orders : PlainSubstitutions(o)' <=> PlainSubstitutions(o)
    BY PlainHere
  <2> QED
    BY <2>2, <2>3 DEF IInv, BatchesFollowSimpleSales, MatchedAtFirst
<1> QED
  BY <1>1, <1>2, <1>3, <1>4 DEF IInv

\* Every step handles one order, or is the calendar's.
LEMMA EveryStep ==
  ASSUME IInv, Next
  PROVE  \/ \E o \in Orders : Keeps(o)
         \/ /\ UNCHANGED <<status, preference, lines, warehouse>>
            /\ expired' \subseteq Perishable
<1>1. ASSUME NEW o \in Orders, NEW cart \in Carts, NEW wish \in Preferences, Place(o, cart, wish)
      PROVE  Keeps(o)
  BY <1>1, PlaceKeeps
<1>2. ASSUME NEW o \in Orders, Handling(o)
      PROVE  Keeps(o)
  BY <1>2, SetStatusKeeps, RiderSetsStatusKeeps, CancelKeeps DEF Handling
<1>3. ASSUME NEW o \in Orders, NEW i \in DOMAIN lines[o], Picking(o, i)
      PROVE  Keeps(o)
  BY <1>3, MarkPickedKeeps, ProposeKeeps, ApproveKeeps, RejectKeeps DEF Picking
<1>4. ASSUME NEW b \in Batches, Expire(b)
      PROVE  /\ UNCHANGED <<status, preference, lines, warehouse>>
             /\ expired' \subseteq Perishable
  BY <1>4 DEF Expire, IInv, Types
<1> QED
  BY <1>1, <1>2, <1>3, <1>4 DEF Next

LEMMA NextIInv ==
  ASSUME IInv, [Next]_vars
  PROVE  IInv'
<1>1. CASE Next
  BY <1>1, EveryStep, HandlingKeeps, CalendarKeeps DEF Keeps
<1>2. CASE UNCHANGED vars
  BY <1>2, CalendarKeeps DEF vars, IInv, Types
<1> QED
  BY <1>1, <1>2
-----------------------------------------------------------------------------
(* The theorems *)
\* The invariant holds in every behaviour of every instance.
THEOREM FulfilmentInvariant == Spec => []IInv
<1>1. Init => IInv
  BY InitIInv
<1>2. IInv /\ [Next]_vars => IInv'
  BY NextIInv
<1> QED
  BY <1>1, <1>2, PTL DEF Spec

\* Shelves, live orders and batches add up, for any orders, carts, batches and
\* expiry dates: what inventoryService takes from the stock on a sale comes back
\* to it, and to the batches it came from, by whichever way the order ends.
THEOREM ShelvesAndOrdersAddUp == Spec => []UnitsAddUp
<1>1. IInv => UnitsAddUp
  <2>1. Types => TypeOK
    BY DEF Types, TypeOK, LineRows, Warehouses
  <2> QED
    BY <2>1 DEF IInv, UnitsAddUp
<1> QED
  BY <1>1, FulfilmentInvariant, PTL

\* No sale takes from a batch that has expired, or from one while another that
\* expires sooner has any left (consumeBatchesFefo), whatever else happens to
\* the order in the same transaction.
THEOREM SalesTakeNearestExpiry == Spec => NearestExpiryFirst
<1> DEFINE Rule == \A b \in Batches : warehouse'.left[b] < warehouse.left[b] =>
                      /\ b \notin expired
                      /\ \A d \in BatchesOf(warehouse, SkuOf[b]) \ expired :
                            FefoRank[d] < FefoRank[b] => warehouse'.left[d] = 0
<1>1. IInv /\ [Next]_vars => [Rule]_vars
  <2> SUFFICES ASSUME IInv, Next PROVE Rule
    OBVIOUS
  <2>1. warehouse \in Warehouses
    BY Before
  <2>2. CASE \E o \in Orders : Keeps(o)
    BY <2>1, <2>2, BatchesAreOwn DEF Keeps, Nearest
  <2>3. CASE UNCHANGED warehouse
    <3>1. warehouse.left \in [Batches -> Nat]
      BY <2>1 DEF Warehouses
    <3> QED
      BY <2>3, <3>1
  <2> QED
    BY <2>2, <2>3, EveryStep
<1> QED
  BY <1>1, FulfilmentInvariant, PTL DEF Spec, NearestExpiryFirst

\* A line whose substitution was approved or rejected stays as it was decided
\* (the conditions of proposeSubstitution and respondToSubstitution), whatever
\* the picker marks and whatever becomes of the order.
THEOREM DecidedLinesStay == Spec => DecisionsAreFinal
<1> DEFINE Final(line, row) ==
              line.substitution \in {"approved", "rejected"} =>
                  /\ row.substitution = line.substitution
                  /\ row.replacement = line.replacement /\ row.replacing = line.replacing
           Rule == \A o \in Orders : \A i \in DOMAIN lines[o] : Final(lines[o][i], lines'[o][i])
           Decided ==
              \A o \in Orders : \A i \in DOMAIN lines[o] :
                  lines[o][i].substitution \in {"approved", "rejected"} =>
                      /\ lines'[o][i].substitution = lines[o][i].substitution
                      /\ lines'[o][i].replacement = lines[o][i].replacement
                      /\ lines'[o][i].replacing = lines[o][i].replacing
<1>0. Rule => Decided
  OBVIOUS
<1>1. IInv /\ [Next]_vars => [Decided]_vars
  <2> SUFFICES ASSUME IInv, Next PROVE Rule
    BY <1>0
  <2>1. lines \in [Orders -> Seq(LineRows)]
    BY Before
  <2>2. ASSUME NEW o \in Orders, NEW i \in DOMAIN lines[o], NEW row,
               lines' = [lines EXCEPT ![o][i] = row], Final(lines[o][i], row)
        PROVE  Rule
    BY <2>1, <2>2
  <2>3. ASSUME lines' = lines PROVE Rule
    BY <2>3
  <2>4. ASSUME NEW o \in Orders, NEW cart, NEW wish, Place(o, cart, wish)
        PROVE  Rule
    <3>1. lines[o] = <<>>
      BY <2>4 DEF Place, IInv, NothingBefore
    <3>2. DOMAIN lines[o] = {}
      BY <3>1
    <3>3. \A p \in Orders \ {o} : lines'[p] = lines[p]
      BY <2>1, <2>4 DEF Place
    <3> QED
      BY <3>2, <3>3
  <2>5. \A o \in Orders : \A i \in DOMAIN lines[o] : lines[o][i] \in LineRows
    BY <2>1
  <2>6. ASSUME NEW o \in Orders, NEW i \in DOMAIN lines[o], NEW product, NEW quantity,
               lines[o][i].substitution \notin {"approved", "rejected"},
               Substitute(o, i, product, quantity)
        PROVE  Rule
    <3>1. lines' = [lines EXCEPT ![o][i] = Substituted(lines[o][i], product, quantity)]
      BY <2>1, <2>6 DEF Substitute, Substituted
    <3> QED
      BY <2>2, <2>6, <3>1
  <2>7. ASSUME NEW o \in Orders, NEW i \in DOMAIN lines[o], Picking(o, i)
        PROVE  Rule
    <3>1. ASSUME NEW mark, MarkPicked(o, i, mark) PROVE Rule
      <4>1. lines' = [lines EXCEPT ![o][i] = [lines[o][i] EXCEPT !.picked = mark]]
        BY <2>1, <3>1 DEF MarkPicked
      <4>2. Final(lines[o][i], [lines[o][i] EXCEPT !.picked = mark])
        BY <2>5, <2>7 DEF LineRows
      <4> QED
        BY <2>2, <2>7, <4>1, <4>2
    <3>2. ASSUME NEW product, NEW quantity, Propose(o, i, product, quantity) PROVE Rule
      <4>1. lines[o][i].substitution = "none"
        BY <3>2 DEF Propose
      <4>2. CASE Substitute(o, i, product, quantity)
        BY <2>6, <2>7, <4>1, <4>2
      <4>3. CASE lines' = [lines EXCEPT ![o][i] =
                  [@ EXCEPT !.substitution = "proposed", !.replacement = product,
                            !.replacing = quantity]]
        <5> DEFINE row == [lines[o][i] EXCEPT !.substitution = "proposed",
                               !.replacement = product, !.replacing = quantity]
        <5>1. lines' = [lines EXCEPT ![o][i] = row]
          BY <2>1, <4>3
        <5> HIDE DEF row
        <5> QED
          BY <2>2, <2>7, <4>1, <5>1
      <4> QED
        BY <3>2, <4>2, <4>3 DEF Propose
    <3>3. ASSUME Approve(o, i) PROVE Rule
      BY <2>6, <2>7, <3>3 DEF Approve
    <3>4. ASSUME Reject(o, i) PROVE Rule
      <4> DEFINE row == [lines[o][i] EXCEPT !.picked = "unavailable",
                                            !.substitution = "rejected"]
      <4>1. lines' = [lines EXCEPT ![o][i] = row] /\ lines[o][i].substitution = "proposed"
        BY <2>1, <3>4 DEF Reject
      <4> HIDE DEF row
      <4> QED
        BY <2>2, <2>7, <4>1
    <3> QED
      BY <2>7, <3>1, <3>2, <3>3, <3>4 DEF Picking
  <2>8. ASSUME NEW o \in Orders, Handling(o) PROVE Rule
    BY <2>3, <2>8 DEF Handling, SetStatus, RiderSetsStatus, CancelOrder
  <2>9. ASSUME NEW b \in Batches, Expire(b) PROVE Rule
    BY <2>3, <2>9 DEF Expire
  <2> HIDE DEF Rule
  <2> QED
    BY <2>4, <2>7, <2>8, <2>9 DEF Next
<1> QED
  BY <1>1, FulfilmentInvariant, PTL DEF Spec, DecisionsAreFinal
=============================================================================
