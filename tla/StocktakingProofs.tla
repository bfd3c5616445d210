-------------------------- MODULE StocktakingProofs --------------------------
(***************************************************************************)
(* What Stocktaking keeps true for any orders, returns, counts, bulk       *)
(* changes and clerks, any products and variants, and any claims.          *)
(***************************************************************************)
EXTENDS Stocktaking, FiniteSetTheorems, TLAPS

MoveRows ==
    [sku : Skus, type : {"sale", "cancel_restore", "return", "adjustment"},
     change : Int, taken : {NoBatchUsed}]

Warehouses ==
    [stock : [Skus -> Nat], left : {NoBatchUsed}, got : {NoBatchUsed},
     moves : [Orders -> Seq(MoveRows)], waiting : SUBSET Skus, hidden : {{}}]

\* Numbers for some of the skus.
SomeSkus == UNION {[S -> Nat] : S \in SUBSET Skus}
CountRows == [quantity : Nat, at : Nat]

Jobs ==
    {Idle} \cup [job : {"return"}, doc : Returns, claim : Claims]
    \cup [job : {"record"}, doc : Counts, sku : Skus, quantity : Nat, at : Nat]
    \cup [job : {"complete", "cancel"}, doc : Counts]
    \cup [job : {"bulk"}, doc : Bulks, new : SomeSkus, read : SomeSkus]

ShelfTypes ==
    /\ warehouse \in Warehouses
    /\ goods \in [Skus -> Nat] /\ shifts \in [Skus -> Nat] /\ drift \subseteq Skus
OrderRows == [status : {"none", "placed", "delivered", "cancelled"},
              held : UNION {[Lines(o) -> Nat] : o \in CustomerOrders}]
OrderBooks ==
    {book \in [CustomerOrders -> OrderRows] :
        \A o \in CustomerOrders : book[o].held \in [Lines(o) -> Nat]}
OrderTypes == order \in OrderBooks /\ points \in [CustomerOrders -> {"kept", "undone"}]
ReturnTypes ==
    /\ return \in [Returns -> [status : DOMAIN ReturnAfter \cup {"none"},
                               claim : Claims \cup {NoClaim}]]
    /\ \A r \in Returns : return[r].status # "none" => return[r].claim \in Claims
CountTypes ==
    count \in [Counts -> [status : {"none", "draft", "completed", "cancelled"},
                         counted : UNION {[S -> CountRows] : S \in SUBSET Countable}]]
BulkTypes ==
    bulk \in [Bulks -> [status : {"none", "completed", "rolled_back", "partially_rolled_back"},
                       rolls : Nat, after : SomeSkus]]
ClerkTypes ==
    /\ clerk \in [Clerks -> Jobs]
    /\ \A k \in Clerks :
          /\ clerk[k].job = "bulk" => DOMAIN clerk[k].new = DOMAIN clerk[k].read
          /\ clerk[k].job = "record" => clerk[k].sku \in Countable
Types == ShelfTypes /\ OrderTypes /\ ReturnTypes /\ CountTypes /\ BulkTypes /\ ClerkTypes

\* Who counted sku, and saw it as it still is, counted right.
RightIn(changes, there, row, sku) ==
    /\ row.at <= changes[sku]
    /\ row.at = changes[sku] => row.quantity = there[sku]
CountsHold ==
    /\ \A c \in Counts : \A sku \in DOMAIN count[c].counted :
          RightIn(shifts, goods, count[c].counted[sku], sku)
    /\ \A k \in Clerks :
          clerk[k].job = "record" => RightIn(shifts, goods, clerk[k], clerk[k].sku)

\* A document a clerk is about to file is not on file, and is nobody else's.
OneFiles(job) ==
    \A k, l \in Clerks : clerk[k].job = job /\ clerk[l].job = job /\ clerk[k].doc = clerk[l].doc
                            => k = l
NotFiledYet ==
    /\ OneFiles("return") /\ OneFiles("bulk")
    /\ \A k \in Clerks :
          /\ clerk[k].job = "return" => return[clerk[k].doc].status = "none"
          /\ clerk[k].job = "bulk" => bulk[clerk[k].doc].status = "none"

\* What comes back to the shelf by a claim.
KeptOf(claim, sku) ==
    {j \in DOMAIN claim.items :
        claim.items[j].keep /\ Bought[claim.order][claim.items[j].line].sku = sku}
KeptQuantity(claim, sku) ==
    MapThenSumSet(LAMBDA j : claim.items[j].quantity, KeptOf(claim, sku))
\* What a received return moved is what it brought, as often as it was received;
\* w is the warehouse, and row the return r.
ReceivedInWhole(w, row, r) ==
    \E times \in 1..MaxMoves :
        /\ \A sku \in Skus : NetOf(w, r, sku) = times * KeptQuantity(row.claim, sku)
        /\ \/ times <= Len(w.moves[r])
           \/ times = 1 /\ Kept(row.claim.items) = {}
ReturnFits(w, row, r) ==
    IF row.status \notin {"received", "refunded"} THEN w.moves[r] = <<>>
    ELSE ReceivedInWhole(w, row, r)
ReturnsHold == \A r \in Returns : ReturnFits(warehouse, return[r], r)

\* The last movement of sku that is filed under d changed it by x.
LastIs(w, d, sku, x) ==
    \E i \in DOMAIN w.moves[d] :
        /\ w.moves[d][i].sku = sku /\ w.moves[d][i].change = x
        /\ \A j \in DOMAIN w.moves[d] : w.moves[d][j].sku = sku => j <= i
BulkFits(w, row, b) ==
    /\ row.status = "none" =>
          w.moves[b] = <<>> /\ row.rolls = 0 /\ DOMAIN row.after = {}
    /\ \A sku \in DOMAIN row.after :
          \E x \in Int : LastIs(w, b, sku, x) /\ row.after[sku] - x \in Nat
    /\ row.rolls = 0 =>
          /\ row.status \in {"none", "completed"}
          /\ \A sku \in Skus :
                IF sku \in DOMAIN row.after
                THEN LastIs(w, b, sku, NetOf(w, b, sku))
                ELSE NetOf(w, b, sku) = 0
    /\ row.status = "rolled_back" /\ row.rolls = 1 =>
          \A sku \in Skus : NetOf(w, b, sku) = 0
BulksHold == \A b \in Bulks : BulkFits(warehouse, bulk[b], b)

IInv ==
    /\ Types /\ StockOnFile /\ ShelvesMatch /\ CountsHold /\ NotFiledYet
    /\ ReturnsHold /\ FullReturnsUndoPoints /\ BulksHold
-----------------------------------------------------------------------------
(* Sums *)
Plus(c, x, y) == x + y
Some(S) == CHOOSE x \in S : TRUE

ChangeAt(moves, i) == moves[i].change
Net == INSTANCE FoldFacts WITH op <- Plus, map <- ChangeAt, choose <- Some
QuantityAt(rows, i) == rows[i].quantity
Amount == INSTANCE FoldFacts WITH op <- Plus, map <- QuantityAt, choose <- Some
NetAt(c, d) == NetOf(c.w, d, c.sku)
Books == INSTANCE FoldFacts WITH op <- Plus, map <- NetAt, choose <- Some
ClaimAt(c, r) == Quantity(c.book[r].claim, c.line)
Claiming == INSTANCE FoldFacts WITH op <- Plus, map <- ClaimAt, choose <- Some
LengthAt(c, d) == Len(c.moves[d])
Lengths == INSTANCE FoldFacts WITH op <- Plus, map <- LengthAt, choose <- Some

\* The instances have copies of the operators of FiniteSets.
LEMMA SameFinite ==
  ASSUME NEW S, IsFiniteSet(S)
  PROVE  /\ Net!IsFiniteSet(S) /\ Amount!IsFiniteSet(S) /\ Books!IsFiniteSet(S)
         /\ Claiming!IsFiniteSet(S) /\ Lengths!IsFiniteSet(S)
BY DEF IsFiniteSet, Net!IsFiniteSet, Amount!IsFiniteSet, Books!IsFiniteSet,
       Claiming!IsFiniteSet, Lengths!IsFiniteSet

LEMMA AllAdd ==
  /\ Net!Adding /\ Amount!Adding /\ Books!Adding
  /\ Claiming!Adding /\ Lengths!Adding
BY DEF Net!Adding, Amount!Adding, Books!Adding, Claiming!Adding, Lengths!Adding, Plus, Some

\* The movements of sku in a file.
RowsOf(moves, sku) == {i \in DOMAIN moves : moves[i].sku = sku}

LEMMA NetIsSum ==
  ASSUME NEW w, NEW d, NEW sku
  PROVE  NetOf(w, d, sku) = Net!Sum(w.moves[d], RowsOf(w.moves[d], sku))
BY DEF NetOf, RowsOf, MapThenSumSet, MapThenFoldSet, Net!Sum, Net!Fold, Net!MapThenFoldSet,
       ChangeAt, Plus, Some

\* The rows of a sequence are finitely many.
LEMMA FewRows ==
  ASSUME NEW R, NEW m \in Seq(R), NEW S \in SUBSET DOMAIN m
  PROVE  IsFiniteSet(S)
<1>1. DOMAIN m = 1..Len(m) /\ Len(m) \in Nat
  OBVIOUS
<1>2. IsFiniteSet(DOMAIN m)
  BY <1>1, FS_Interval
<1> QED
  BY <1>2, FS_Subset

\* One more movement adds its change to what the movements of its sku add up to.
LEMMA NetAppend ==
  ASSUME NEW m \in Seq(MoveRows), NEW row \in MoveRows, NEW sku
  PROVE  /\ Net!Sum(m, RowsOf(m, sku)) \in Int
         /\ Net!Sum(Append(m, row), RowsOf(Append(m, row), sku))
               = Net!Sum(m, RowsOf(m, sku)) + IF row.sku = sku THEN row.change ELSE 0
<1> DEFINE n == Len(m) + 1
           a == Append(m, row)
           old == RowsOf(m, sku)
           new == RowsOf(a, sku)
<1>1. /\ DOMAIN m = 1..Len(m) /\ Len(m) \in Nat /\ DOMAIN a = 1..n
      /\ a[n] = row /\ \A i \in DOMAIN m : a[i] = m[i]
      /\ n \notin DOMAIN m
      /\ a \in Seq(MoveRows)
  OBVIOUS
<1>2. \A i \in DOMAIN m : m[i] \in MoveRows
  OBVIOUS
<1>3. \A i \in old : ChangeAt(m, i) \in Int /\ ChangeAt(m, i) = ChangeAt(a, i)
  <2> HIDE DEF a
  <2> QED
    BY <1>1, <1>2 DEF ChangeAt, RowsOf, MoveRows
<1>4. IsFiniteSet(old) /\ IsFiniteSet(new)
  <2>1. old \in SUBSET DOMAIN m /\ new \in SUBSET DOMAIN a
    BY DEF RowsOf
  <2> HIDE DEF old, new, a
  <2> QED
    BY <1>1, <2>1, FewRows
<1>5. Net!Summable(m, old) /\ Net!Summable(a, old)
  <2> HIDE DEF old, a
  <2> QED
    BY <1>3, <1>4, SameFinite DEF Net!Summable
<1>6. Net!Sum(m, old) \in Int /\ Net!Sum(a, old) = Net!Sum(m, old)
  <2> HIDE DEF old, a
  <2> QED
    BY <1>3, <1>4, <1>5, SameFinite, AllAdd, Net!SumInt, Net!SumSame
<1>7. new = IF row.sku = sku THEN old \cup {n} ELSE old
  <2> HIDE DEF a
  <2> QED
    BY <1>1 DEF RowsOf
<1>8. CASE row.sku = sku
  <2>1. ChangeAt(a, n) = row.change /\ row.change \in Int
    <3> HIDE DEF a
    <3> QED
      BY <1>1 DEF ChangeAt, MoveRows
  <2>2. new = old \cup {n} /\ n \notin old
    BY <1>1, <1>7, <1>8 DEF RowsOf
  <2> HIDE DEF old, new, a, n
  <2>3. \A i \in old \cup {n} : ChangeAt(a, i) \in Int
    BY <1>3, <2>1
  <2>4. Net!Summable(a, old \cup {n})
    BY <1>4, <2>2, <2>3, SameFinite DEF Net!Summable
  <2>5. Net!Sum(a, old \cup {n}) = Net!Sum(a, old) + ChangeAt(a, n)
    BY <2>2, <2>4, AllAdd, Net!SumAdd
  <2> QED
    BY <1>6, <1>8, <2>1, <2>2, <2>5 DEF old, new, a, n
<1>9. CASE row.sku # sku
  <2>1. new = old
    BY <1>7, <1>9
  <2> HIDE DEF old, new, a
  <2> QED
    BY <1>6, <1>9, <2>1 DEF old, new, a
<1> QED
  BY <1>8, <1>9
-----------------------------------------------------------------------------
(* What moves the stock *)
\* One movement, of change units of sku, filed under d.
Filed(w, v, d, sku, change) ==
    \E row \in MoveRows :
        /\ row.sku = sku /\ row.change = change
        /\ v.moves = [w.moves EXCEPT ![d] = Append(@, row)]
MovedOne(w, v, d, sku, change) ==
    /\ v \in Warehouses
    /\ v.stock = [w.stock EXCEPT ![sku] = @ + change]
    /\ v.waiting \subseteq w.waiting
    /\ Filed(w, v, d, sku, change)

\* Movements filed under d, which add up to gain.
Booked(w, v, d, gain) ==
    /\ v \in Warehouses
    /\ \A sku \in Skus :
          /\ v.stock[sku] = w.stock[sku] + gain[sku]
          /\ NetOf(v, d, sku) = NetOf(w, d, sku) + gain[sku]
    /\ \A p \in Orders \ {d} : v.moves[p] = w.moves[p]
    /\ Len(v.moves[d]) >= Len(w.moves[d])
    /\ v.waiting \subseteq w.waiting

\* Whoever waited for what comes back is told.
Told(w, v) == \A sku \in Skus : v.stock[sku] > w.stock[sku] => sku \notin v.waiting

OnFile(w) ==
    \A sku \in Skus :
        w.stock[sku] = Stock0[sku] + MapThenSumSet(LAMBDA d : NetOf(w, d, sku), Orders)

Single(sku, change) == [s \in Skus |-> IF s = sku THEN change ELSE 0]
NoGain == [s \in Skus |-> 0]
Gains == [Skus -> Int]

LEMMA NetInt ==
  ASSUME NEW w \in Warehouses, NEW d \in Orders, NEW sku
  PROVE  NetOf(w, d, sku) \in Int
<1>1. w.moves[d] \in Seq(MoveRows)
  BY DEF Warehouses
<1> DEFINE m == w.moves[d]
           S == RowsOf(m, sku)
<1>2. S \in SUBSET DOMAIN m
  BY DEF RowsOf
<1>3. \A i \in S : ChangeAt(m, i) \in Int
  <2>1. \A i \in DOMAIN m : m[i] \in MoveRows
    BY <1>1
  <2> HIDE DEF m
  <2> QED
    BY <1>2, <2>1 DEF ChangeAt, MoveRows
<1> HIDE DEF m, S
<1>4. IsFiniteSet(S)
  BY <1>1, <1>2, FewRows DEF m
<1>5. Net!Summable(m, S)
  BY <1>3, <1>4, SameFinite DEF Net!Summable
<1>6. Net!Sum(m, S) \in Int
  BY <1>5, AllAdd, Net!SumInt
<1> QED
  BY <1>6, NetIsSum DEF m, S

LEMMA OneIsBooked ==
  ASSUME NEW w \in Warehouses, NEW v, NEW d \in Orders, NEW sku \in Skus, NEW change \in Int,
         MovedOne(w, v, d, sku, change)
  PROVE  Booked(w, v, d, Single(sku, change))
<1>1. PICK row \in MoveRows :
         /\ row.sku = sku /\ row.change = change
         /\ v.moves = [w.moves EXCEPT ![d] = Append(@, row)]
  BY DEF MovedOne, Filed
<1>2. /\ v \in Warehouses /\ v.stock = [w.stock EXCEPT ![sku] = @ + change]
      /\ v.waiting \subseteq w.waiting
  BY DEF MovedOne
<1>3. /\ w.moves \in [Orders -> Seq(MoveRows)] /\ w.stock \in [Skus -> Nat]
  BY DEF Warehouses
<1>4. /\ v.moves[d] = Append(w.moves[d], row)
      /\ \A p \in Orders \ {d} : v.moves[p] = w.moves[p]
  BY <1>1, <1>3
<1>5. Len(v.moves[d]) >= Len(w.moves[d])
  <2>1. w.moves[d] \in Seq(MoveRows)
    BY <1>3
  <2>2. Len(Append(w.moves[d], row)) = Len(w.moves[d]) + 1 /\ Len(w.moves[d]) \in Nat
    BY <2>1
  <2> QED
    BY <1>4, <2>2
<1>6. ASSUME NEW s \in Skus
      PROVE  /\ v.stock[s] = w.stock[s] + Single(sku, change)[s]
             /\ NetOf(v, d, s) = NetOf(w, d, s) + Single(sku, change)[s]
  <2>1. v.stock[s] = w.stock[s] + Single(sku, change)[s]
    <3>1. w.stock[s] \in Nat
      BY <1>3
    <3> QED
      BY <1>2, <1>3, <3>1 DEF Single
  <2>2. w.moves[d] \in Seq(MoveRows)
    BY <1>3
  <2>3. Net!Sum(v.moves[d], RowsOf(v.moves[d], s))
          = Net!Sum(w.moves[d], RowsOf(w.moves[d], s)) + IF row.sku = s THEN row.change ELSE 0
    BY <1>4, <2>2, NetAppend
  <2>4. Single(sku, change)[s] = IF row.sku = s THEN row.change ELSE 0
    BY <1>1 DEF Single
  <2> QED
    BY <2>1, <2>3, <2>4, NetIsSum
<1> QED
  BY <1>2, <1>4, <1>5, <1>6 DEF Booked

LEMMA NoneIsBooked ==
  ASSUME NEW w \in Warehouses, NEW d \in Orders
  PROVE  Booked(w, w, d, NoGain)
<1>1. \A sku \in Skus : w.stock[sku] \in Nat /\ NetOf(w, d, sku) \in Int
  BY NetInt DEF Warehouses
<1>2. Len(w.moves[d]) >= Len(w.moves[d])
  <2>1. Len(w.moves[d]) \in Nat
    BY DEF Warehouses
  <2> QED
    BY <2>1
<1> QED
  BY <1>1, <1>2 DEF Booked, NoGain

LEMMA BookedTwice ==
  ASSUME NEW w \in Warehouses, NEW u, NEW v, NEW d \in Orders, NEW g \in Gains, NEW h \in Gains,
         Booked(w, u, d, g), Booked(u, v, d, h),
         NEW both, \A sku \in Skus : both[sku] = g[sku] + h[sku]
  PROVE  Booked(w, v, d, both)
<1>1. u \in Warehouses /\ v \in Warehouses
  BY DEF Booked
<1>2. ASSUME NEW sku \in Skus
      PROVE  /\ v.stock[sku] = w.stock[sku] + both[sku]
             /\ NetOf(v, d, sku) = NetOf(w, d, sku) + both[sku]
  <2>1. /\ w.stock[sku] \in Nat /\ NetOf(w, d, sku) \in Int
        /\ g[sku] \in Int /\ h[sku] \in Int
    BY NetInt DEF Warehouses, Gains
  <2>2. /\ u.stock[sku] = w.stock[sku] + g[sku] /\ NetOf(u, d, sku) = NetOf(w, d, sku) + g[sku]
        /\ v.stock[sku] = u.stock[sku] + h[sku] /\ NetOf(v, d, sku) = NetOf(u, d, sku) + h[sku]
    BY DEF Booked
  <2> QED
    BY <2>1, <2>2
<1>3. Len(v.moves[d]) >= Len(w.moves[d])
  <2>1. Len(w.moves[d]) \in Nat /\ Len(u.moves[d]) \in Nat /\ Len(v.moves[d]) \in Nat
    BY <1>1 DEF Warehouses
  <2>2. Len(v.moves[d]) >= Len(u.moves[d]) /\ Len(u.moves[d]) >= Len(w.moves[d])
    BY DEF Booked
  <2> QED
    BY <2>1, <2>2
<1>4. /\ \A p \in Orders \ {d} : v.moves[p] = w.moves[p]
      /\ v.waiting \subseteq w.waiting
  BY DEF Booked
<1> QED
  BY <1>1, <1>2, <1>3, <1>4 DEF Booked

\* What movements of one document explain stays explained.
LEMMA BookedOnFile ==
  ASSUME NEW w \in Warehouses, NEW v, NEW d \in Orders, NEW g \in Gains, Booked(w, v, d, g),
         OnFile(w)
  PROVE  OnFile(v)
<1> SUFFICES ASSUME NEW sku \in Skus
             PROVE  v.stock[sku] = Stock0[sku] + MapThenSumSet(LAMBDA p : NetOf(v, p, sku), Orders)
  BY DEF OnFile
<1> DEFINE b == [w |-> w, sku |-> sku]
           c == [w |-> v, sku |-> sku]
<1>1. /\ w.stock[sku] = Stock0[sku] + MapThenSumSet(LAMBDA p : NetOf(w, p, sku), Orders)
  BY DEF OnFile
<1>2. MapThenSumSet(LAMBDA p : NetOf(w, p, sku), Orders) = Books!Sum(b, Orders)
  BY DEF MapThenSumSet, MapThenFoldSet, Books!Sum, Books!Fold, Books!MapThenFoldSet, NetAt, Plus, Some
<1>3. MapThenSumSet(LAMBDA p : NetOf(v, p, sku), Orders) = Books!Sum(c, Orders)
  BY DEF MapThenSumSet, MapThenFoldSet, Books!Sum, Books!Fold, Books!MapThenFoldSet, NetAt, Plus, Some
<1>4. \A p \in Orders : NetAt(b, p) = NetOf(w, p, sku) /\ NetAt(c, p) = NetOf(v, p, sku)
  BY DEF NetAt
<1> HIDE DEF b, c
<1>5. v \in Warehouses /\ IsFiniteSet(Orders)
  BY StocktakingAssumption DEF Booked
<1>6. \A p \in Orders : NetAt(b, p) \in Int /\ NetAt(c, p) \in Int
  BY <1>4, <1>5, NetInt
<1>7. Books!Summable(b, Orders) /\ Books!Summable(c, Orders)
  BY <1>5, <1>6, SameFinite DEF Books!Summable
<1>8. \A p \in Orders \ {d} : NetAt(b, p) = NetAt(c, p)
  <2>1. \A p \in Orders \ {d} : v.moves[p] = w.moves[p]
    BY DEF Booked
  <2>2. \A p \in Orders \ {d} : NetOf(v, p, sku) = NetOf(w, p, sku)
    BY <2>1, NetIsSum
  <2> QED
    BY <1>4, <2>2
<1>9. Books!Sum(c, Orders) = Books!Sum(b, Orders) + NetAt(c, d) - NetAt(b, d)
  BY <1>7, <1>8, AllAdd, Books!SumChange
<1>10. NetAt(c, d) = NetAt(b, d) + g[sku] /\ v.stock[sku] = w.stock[sku] + g[sku]
  BY <1>4 DEF Booked
<1>11. Books!Sum(b, Orders) \in Int /\ g[sku] \in Int /\ NetAt(b, d) \in Int /\ Stock0[sku] \in Nat
  BY <1>6, <1>7, AllAdd, Books!SumInt, StocktakingAssumption DEF Gains
<1>12. w.stock[sku] = Stock0[sku] + Books!Sum(b, Orders)
  BY <1>1, <1>2
<1>13. v.stock[sku] = Stock0[sku] + Books!Sum(c, Orders)
  BY <1>9, <1>10, <1>11, <1>12
<1> QED
  BY <1>3, <1>13
-----------------------------------------------------------------------------
(* Transactions of several lines *)
\* What the first m steps add to the stock: step i moves a quantity of a sku, if
\* i is one of those that move anything.
StepRows == [sku : Skus, quantity : Int]
Upto(step, on, m, sku) == {i \in on : i <= m /\ step[i].sku = sku}
GainOf(step, on, m) == [sku \in Skus |-> Amount!Sum(step, Upto(step, on, m, sku))]

\* A property of 0 that passes to the next number holds up to n.
LEMMA CountingUp ==
  ASSUME NEW n \in Nat, NEW Q, 0 \in Q, \A m \in 1..n : m - 1 \in Q => m \in Q
  PROVE  \A m \in 0..n : m \in Q
<1> DEFINE T == {m \in 0..n : m \notin Q}
<1>1. T = {}
  <2> SUFFICES ASSUME T # {} PROVE FALSE
    OBVIOUS
  <2>1. T \in SUBSET Nat
    OBVIOUS
  <2>2. PICK m \in T : \A k \in T : m <= k
    <3> HIDE DEF T
    <3> QED
      BY <2>1, Net!LeastNatural
  <2>3. m \in 1..n /\ m - 1 \in 0..n /\ ~(m <= m - 1)
    OBVIOUS
  <2> QED
    BY <2>2, <2>3
<1> QED
  BY <1>1

LEMMA GainsAreSums ==
  ASSUME NEW n \in Nat, NEW step \in [1..n -> StepRows], NEW on \in SUBSET (1..n),
         NEW S \in SUBSET on
  PROVE  Amount!Summable(step, S) /\ Amount!Sum(step, S) \in Int
<1>1. IsFiniteSet(S)
  <2>1. IsFiniteSet(1..n) /\ S \subseteq 1..n
    BY FS_Interval
  <2> QED
    BY <2>1, FS_Subset
<1>2. \A i \in S : QuantityAt(step, i) \in Int
  BY DEF QuantityAt, StepRows
<1>3. Amount!Summable(step, S)
  BY <1>1, <1>2, SameFinite DEF Amount!Summable
<1> QED
  BY <1>3, AllAdd, Amount!SumInt

GrowsBy(n, step, on) ==
    \A m \in 1..n : \A sku \in Skus :
        GainOf(step, on, m)[sku] = GainOf(step, on, m - 1)[sku]
            + IF m \in on THEN Single(step[m].sku, step[m].quantity)[sku] ELSE 0
LEMMA GainGrows ==
  ASSUME NEW n \in Nat, NEW step \in [1..n -> StepRows], NEW on \in SUBSET (1..n)
  PROVE  /\ \A m \in 0..n : GainOf(step, on, m) \in Gains
         /\ \A sku \in Skus : GainOf(step, on, 0)[sku] = 0
         /\ GrowsBy(n, step, on)
<1>1. \A m \in 0..n : GainOf(step, on, m) \in Gains
  <2> SUFFICES ASSUME NEW m \in 0..n, NEW sku \in Skus
               PROVE  Amount!Sum(step, Upto(step, on, m, sku)) \in Int
    BY DEF GainOf, Gains
  <2>1. Upto(step, on, m, sku) \in SUBSET on
    BY DEF Upto
  <2> QED
    BY <2>1, GainsAreSums
<1>2. \A sku \in Skus : GainOf(step, on, 0)[sku] = 0
  <2> TAKE sku \in Skus
  <2>1. ASSUME NEW i \in Upto(step, on, 0, sku) PROVE FALSE
    <3>1. i \in on /\ i <= 0
      BY DEF Upto
    <3>2. i \in 1..n
      BY <3>1
    <3> QED
      BY <3>1, <3>2
  <2>2. Upto(step, on, 0, sku) = {}
    BY <2>1
  <2> QED
    BY <2>2, Amount!SumEmpty DEF GainOf
<1>3. ASSUME NEW m \in 1..n, NEW sku \in Skus
      PROVE  GainOf(step, on, m)[sku] = GainOf(step, on, m - 1)[sku]
                   + IF m \in on THEN Single(step[m].sku, step[m].quantity)[sku] ELSE 0
  <2> DEFINE S == Upto(step, on, m - 1, sku)
             R == Upto(step, on, m, sku)
  <2>1. /\ GainOf(step, on, m)[sku] = Amount!Sum(step, R)
        /\ GainOf(step, on, m - 1)[sku] = Amount!Sum(step, S)
    BY DEF GainOf
  <2>2. /\ S \in SUBSET on /\ R \in SUBSET on /\ m \notin S
        /\ R = IF m \in on /\ step[m].sku = sku THEN S \cup {m} ELSE S
    <3>1. /\ \A i : i \in S <=> i \in on /\ i <= m - 1 /\ step[i].sku = sku
          /\ \A i : i \in R <=> i \in on /\ i <= m /\ step[i].sku = sku
      BY DEF Upto
    <3>2. \A i \in on : i \in Nat /\ (i <= m <=> i <= m - 1 \/ i = m)
      OBVIOUS
    <3>3. m \in Nat /\ ~(m <= m - 1) /\ m <= m
      OBVIOUS
    <3> HIDE DEF S, R
    <3> QED
      BY <3>1, <3>2, <3>3
  <2>3. Amount!Sum(step, S) \in Int
    BY <2>2, GainsAreSums
  <2> HIDE DEF S, R
  <2>4. CASE m \in on /\ step[m].sku = sku
    <3>1. R = S \cup {m} /\ Amount!Summable(step, S \cup {m})
      BY <2>2, <2>4, GainsAreSums
    <3>2. Amount!Sum(step, S \cup {m}) = Amount!Sum(step, S) + QuantityAt(step, m)
      BY <2>2, <3>1, AllAdd, Amount!SumAdd
    <3> QED
      BY <2>1, <2>4, <3>1, <3>2 DEF Single, QuantityAt
  <2>5. CASE ~(m \in on /\ step[m].sku = sku)
    <3>1. R = S
      BY <2>2, <2>5
    <3> QED
      BY <2>1, <2>3, <2>5, <3>1 DEF Single
  <2> QED
    BY <2>4, <2>5
<1>4. GrowsBy(n, step, on)
  BY <1>3 DEF GrowsBy
<1> QED
  BY <1>1, <1>2, <1>4

\* f[m] is the warehouse after m steps: what they all booked.
LEMMA BookedAlong ==
  ASSUME NEW n \in Nat, NEW step \in [1..n -> StepRows], NEW on \in SUBSET (1..n),
         NEW d \in Orders, NEW f, f[0] \in Warehouses,
         \A m \in 1..n : Booked(f[0], f[m - 1], d, GainOf(step, on, m - 1)) =>
            /\ m \in on => MovedOne(f[m - 1], f[m], d, step[m].sku, step[m].quantity)
            /\ m \notin on => f[m] = f[m - 1]
  PROVE  \A m \in 0..n : Booked(f[0], f[m], d, GainOf(step, on, m))
<1> DEFINE Q == {m \in 0..n : Booked(f[0], f[m], d, GainOf(step, on, m))}
<1>1. 0 \in Q
  <2>1. Booked(f[0], f[0], d, NoGain)
    BY NoneIsBooked
  <2>2. \A sku \in Skus : GainOf(step, on, 0)[sku] = 0 /\ NoGain[sku] = 0
    BY GainGrows DEF NoGain
  <2>3. Booked(f[0], f[0], d, GainOf(step, on, 0))
    BY <2>1, <2>2 DEF Booked
  <2> QED
    BY <2>3
<1>2. ASSUME NEW m \in 1..n, m - 1 \in Q
      PROVE  m \in Q
  <2>1. m - 1 \in 0..n /\ m \in 0..n /\ Booked(f[0], f[m - 1], d, GainOf(step, on, m - 1))
    BY <1>2
  <2> DEFINE u == f[m - 1]
             v == f[m]
             g == GainOf(step, on, m - 1)
             both == GainOf(step, on, m)
             sku == step[m].sku
             change == step[m].quantity
  <2>2. sku \in Skus /\ change \in Int
    BY DEF StepRows
  <2>3. g \in Gains /\ u \in Warehouses
    BY <2>1, GainGrows DEF Booked
  <2>4. \A s \in Skus : both[s] = g[s] + IF m \in on THEN Single(sku, change)[s] ELSE 0
    <3>1. \A k \in 1..n : \A s \in Skus :
             GainOf(step, on, k)[s] = GainOf(step, on, k - 1)[s]
                + IF k \in on THEN Single(step[k].sku, step[k].quantity)[s] ELSE 0
      BY GainGrows DEF GrowsBy
    <3> QED
      BY <3>1
  <2>5. /\ m \in on => MovedOne(u, v, d, sku, change)
        /\ m \notin on => v = u
    BY <2>1
  <2>6. Booked(f[0], u, d, g)
    BY <2>1
  <2> HIDE DEF u, v, g, both, sku, change
  <2>7. Booked(f[0], v, d, both)
    <3>1. CASE m \in on
      <4>1. Booked(u, v, d, Single(sku, change))
        BY <2>2, <2>3, <2>5, <3>1, OneIsBooked
      <4>2. Single(sku, change) \in Gains
        BY <2>2 DEF Single, Gains
      <4> QED
        BY <2>3, <2>4, <2>6, <3>1, <4>1, <4>2, BookedTwice
    <3>2. CASE m \notin on
      <4>1. \A s \in Skus : both[s] = g[s]
        BY <2>3, <2>4, <3>2 DEF Gains
      <4> QED
        BY <2>5, <2>6, <3>2, <4>1 DEF Booked
    <3> QED
      BY <3>1, <3>2
  <2> QED
    BY <2>1, <2>7 DEF v, both
<1> HIDE DEF Q
<1>3. \A m \in 0..n : m \in Q
  BY <1>1, <1>2, CountingUp
<1> QED
  BY <1>3 DEF Q

\* If every step tells who waits, all of them do.
LEMMA ToldAlong ==
  ASSUME NEW n \in Nat, NEW f, \A m \in 0..n : f[m] \in Warehouses,
         \A m \in 1..n : f[m].waiting \subseteq f[m - 1].waiting /\ Told(f[m - 1], f[m])
  PROVE  Told(f[0], f[n])
<1> DEFINE Q == {m \in 0..n : Told(f[0], f[m])}
<1>1. 0 \in Q
  <2>1. \A sku \in Skus : f[0].stock[sku] \in Nat
    BY DEF Warehouses
  <2> QED
    BY <2>1 DEF Told
<1>2. ASSUME NEW m \in 1..n, m - 1 \in Q
      PROVE  m \in Q
  <2>1. m - 1 \in 0..n /\ m \in 0..n /\ Told(f[0], f[m - 1])
    BY <1>2
  <2>2. \A sku \in Skus : f[0].stock[sku] \in Nat /\ f[m - 1].stock[sku] \in Nat /\ f[m].stock[sku] \in Nat
    BY <2>1 DEF Warehouses
  <2>3. Told(f[m - 1], f[m]) /\ f[m].waiting \subseteq f[m - 1].waiting
    OBVIOUS
  <2>4. ASSUME NEW sku \in Skus, f[m].stock[sku] > f[0].stock[sku]
        PROVE  sku \notin f[m].waiting
    <3>1. f[m].stock[sku] > f[m - 1].stock[sku] \/ f[m - 1].stock[sku] > f[0].stock[sku]
      BY <2>2, <2>4
    <3> QED
      BY <2>1, <2>3, <3>1 DEF Told
  <2> QED
    BY <2>1, <2>4 DEF Told
<1> HIDE DEF Q
<1>3. \A m \in 0..n : m \in Q
  BY <1>1, <1>2, CountingUp
<1> QED
  BY <1>3 DEF Q
-----------------------------------------------------------------------------
(* Transactions that move every sku of a set once *)
\* A finite set as a sequence: every element once.
LEMMA AsSequence ==
  ASSUME NEW S, IsFiniteSet(S)
  PROVE  /\ SetToSeq(S) \in Seq(S)
         /\ \A s \in S : \E k \in DOMAIN SetToSeq(S) : SetToSeq(S)[k] = s
         /\ \A j, k \in DOMAIN SetToSeq(S) : SetToSeq(S)[j] = SetToSeq(S)[k] => j = k
<1> DEFINE n == Cardinality(S)
           seq == CHOOSE f \in [1..n -> S] : IsInjective(f)
<1>1. n \in Nat /\ ExistsBijection(1..n, S)
  BY FS_CardinalityType
<1>2. \E f \in [1..n -> S] : IsInjective(f)
  BY <1>1 DEF ExistsBijection, Bijection, Injection
<1>3. seq \in [1..n -> S] /\ IsInjective(seq)
  BY <1>2
<1>4. SetToSeq(S) = seq
  BY DEF SetToSeq
<1> HIDE DEF seq
<1>5. Cardinality(1..n) = n /\ IsFiniteSet(1..n)
  BY <1>1, FS_Interval
<1>6. seq \in Surjection(1..n, S)
  BY <1>3, <1>5, FS_Injection DEF Injection
<1>7. seq \in Seq(S) /\ DOMAIN seq = 1..n
  BY <1>1, <1>3
<1> QED
  BY <1>3, <1>4, <1>6, <1>7 DEF Surjection, IsInjective

OneStepEach(n, step) == \A i, j \in 1..n : step[i].sku = step[j].sku => i = j

LEMMA GainOfEach ==
  ASSUME NEW n \in Nat, NEW step \in [1..n -> StepRows], NEW on \in SUBSET (1..n),
         OneStepEach(n, step), NEW m \in 0..n
  PROVE  /\ \A i \in on : i <= m => GainOf(step, on, m)[step[i].sku] = step[i].quantity
         /\ \A sku \in Skus : (\A i \in on : i <= m => step[i].sku # sku) =>
               GainOf(step, on, m)[sku] = 0
<1>1. ASSUME NEW i \in on, i <= m
      PROVE  GainOf(step, on, m)[step[i].sku] = step[i].quantity
  <2>1. step[i].sku \in Skus /\ step[i].quantity \in Int
    BY DEF StepRows
  <2>2. Upto(step, on, m, step[i].sku) = {i}
    <3>1. \A j : j \in Upto(step, on, m, step[i].sku) <=> j \in on /\ j <= m /\ step[j].sku = step[i].sku
      BY DEF Upto
    <3>2. \A j \in on : step[j].sku = step[i].sku => j = i
      BY DEF OneStepEach
    <3> QED
      BY <1>1, <3>1, <3>2
  <2>3. Amount!Sum(step, {i}) = QuantityAt(step, i)
    BY <2>1, AllAdd, Amount!SumOne DEF QuantityAt
  <2> QED
    BY <2>1, <2>2, <2>3 DEF GainOf, QuantityAt
<1>2. ASSUME NEW sku \in Skus, \A i \in on : i <= m => step[i].sku # sku
      PROVE  GainOf(step, on, m)[sku] = 0
  <2>1. Upto(step, on, m, sku) = {}
    BY <1>2 DEF Upto
  <2> QED
    BY <2>1, Amount!SumEmpty DEF GainOf
<1> QED
  BY <1>1, <1>2

\* The last movement of a sku is the one filed last.
LEMMA LastFiled ==
  ASSUME NEW w \in Warehouses, NEW v, NEW d \in Orders, NEW sku \in Skus, NEW change \in Int,
         MovedOne(w, v, d, sku, change)
  PROVE  /\ LastIs(v, d, sku, change)
         /\ \A s, x : s # sku /\ LastIs(w, d, s, x) => LastIs(v, d, s, x)
<1>1. PICK row \in MoveRows :
         /\ row.sku = sku /\ row.change = change
         /\ v.moves = [w.moves EXCEPT ![d] = Append(@, row)]
  BY DEF MovedOne, Filed
<1>2. w.moves \in [Orders -> Seq(MoveRows)]
  BY DEF Warehouses
<1> DEFINE m == w.moves[d]
           a == v.moves[d]
           n == Len(m) + 1
<1>3. m \in Seq(MoveRows) /\ a = Append(m, row)
  BY <1>1, <1>2
<1> HIDE DEF m, a
<1>4. /\ DOMAIN m = 1..Len(m) /\ Len(m) \in Nat /\ DOMAIN a = 1..n
      /\ a[n] = row /\ \A i \in DOMAIN m : a[i] = m[i]
  BY <1>3
<1>5. n \in DOMAIN a /\ (\A j \in DOMAIN a : j <= n) /\ \A j \in DOMAIN a : j = n \/ j \in DOMAIN m
  BY <1>4
<1> HIDE DEF n
<1>6. LastIs(v, d, sku, change)
  BY <1>1, <1>4, <1>5 DEF LastIs, a
<1>7. ASSUME NEW s, NEW x, s # sku, LastIs(w, d, s, x)
      PROVE  LastIs(v, d, s, x)
  <2>1. PICK i \in DOMAIN m :
           /\ m[i].sku = s /\ m[i].change = x
           /\ \A j \in DOMAIN m : m[j].sku = s => j <= i
    BY <1>7 DEF LastIs, m
  <2>2. i \in DOMAIN a /\ a[i].sku = s /\ a[i].change = x
    BY <1>4, <1>5, <2>1 DEF n
  <2>3. \A j \in DOMAIN a : a[j].sku = s => j <= i
    BY <1>1, <1>4, <1>5, <1>7, <2>1
  <2> QED
    BY <2>2, <2>3 DEF LastIs, a
<1> QED
  BY <1>6, <1>7

\* LastChange returns it.
LEMMA LastChangeIs ==
  ASSUME NEW w \in Warehouses, NEW d \in Orders, NEW sku, NEW x, LastIs(w, d, sku, x)
  PROVE  LastChange(w, d, sku) = x
<1> DEFINE mine == RowsOf(w.moves[d], sku)
<1>1. PICK i \in mine : w.moves[d][i].change = x /\ \A j \in mine : j <= i
  BY DEF LastIs, RowsOf
<1>2. mine \in SUBSET Nat
  <2>1. w.moves[d] \in Seq(MoveRows)
    BY DEF Warehouses
  <2> QED
    BY <2>1 DEF RowsOf
<1>3. LastChange(w, d, sku) = w.moves[d][Max(mine)].change
  BY DEF LastChange, RowsOf
<1> HIDE DEF mine
<1>4. Max(mine) \in mine /\ \A j \in mine : Max(mine) >= j
  <2>1. \E k \in mine : \A j \in mine : k >= j
    BY <1>1, <1>2
  <2> QED
    BY <2>1 DEF Max
<1>5. Max(mine) = i
  <2>1. Max(mine) \in Nat /\ i \in Nat /\ Max(mine) <= i /\ Max(mine) >= i
    BY <1>1, <1>2, <1>4
  <2> QED
    BY <2>1
<1> QED
  BY <1>1, <1>3, <1>5

\* chg says how much each sku of mv is moved, in whatever order.
GainOn(mv, chg) == [sku \in Skus |-> IF sku \in mv THEN chg[sku] ELSE 0]

\* f[m] is the warehouse after the first m skus of S: each was met as it was
\* before, and is left with its own movement as the last.
LEMMA EachBooked ==
  ASSUME NEW S \in SUBSET Skus, IsFiniteSet(S), NEW seq, seq = SetToSeq(S),
         NEW chg, \A sku \in S : chg[sku] \in Int, NEW mv \in SUBSET S,
         NEW d \in Orders, NEW f, f[0] \in Warehouses,
         \A m \in DOMAIN seq :
            /\ f[m - 1] \in Warehouses
            /\ f[m - 1].stock[seq[m]] = f[0].stock[seq[m]]
            =>
            /\ seq[m] \in mv => MovedOne(f[m - 1], f[m], d, seq[m], chg[seq[m]])
            /\ seq[m] \notin mv => f[m] = f[m - 1]
  PROVE  /\ \A m \in 0..Len(seq) : f[m] \in Warehouses
         /\ Booked(f[0], f[Len(seq)], d, GainOn(mv, chg))
         /\ \A sku \in mv : LastIs(f[Len(seq)], d, sku, chg[sku])
         /\ \A sku \in Skus \ mv : \A x : LastIs(f[0], d, sku, x) => LastIs(f[Len(seq)], d, sku, x)
<1> DEFINE n == Len(seq)
           on == {m \in 1..n : seq[m] \in mv}
           step == [m \in 1..n |-> [sku |-> seq[m], quantity |-> chg[seq[m]]]]
<1>1. /\ n \in Nat /\ DOMAIN seq = 1..n /\ on \in SUBSET (1..n)
      /\ \A m \in 1..n : seq[m] \in S
      /\ \A s \in S : \E m \in 1..n : seq[m] = s
      /\ \A i, j \in 1..n : seq[i] = seq[j] => i = j
  <2>1. seq \in Seq(S)
    BY AsSequence
  <2>2. DOMAIN seq = 1..n /\ n \in Nat
    BY <2>1
  <2> QED
    BY <2>1, <2>2, AsSequence
<1>2. step \in [1..n -> StepRows] /\ OneStepEach(n, step)
      /\ \A m \in 1..n : step[m].sku = seq[m] /\ step[m].quantity = chg[seq[m]]
  <2>1. \A m \in 1..n : seq[m] \in Skus /\ chg[seq[m]] \in Int
    BY <1>1
  <2> QED
    BY <1>1, <2>1 DEF StepRows, OneStepEach
<1> HIDE DEF n, step, on
<1>12. /\ \A m \in 0..n : \A i \in on : i <= m => GainOf(step, on, m)[step[i].sku] = step[i].quantity
       /\ \A m \in 0..n : \A sku \in Skus : (\A i \in on : i <= m => step[i].sku # sku) =>
             GainOf(step, on, m)[sku] = 0
  <2>1. n \in Nat /\ step \in [1..n -> StepRows] /\ on \in SUBSET (1..n) /\ OneStepEach(n, step)
    BY <1>1, <1>2
  <2> QED
    BY <2>1, GainOfEach
<1>13. ASSUME NEW m \in 1..n, f[m - 1] \in Warehouses,
              MovedOne(f[m - 1], f[m], d, step[m].sku, step[m].quantity)
       PROVE  /\ LastIs(f[m], d, seq[m], chg[seq[m]])
              /\ \A s, x : s # seq[m] /\ LastIs(f[m - 1], d, s, x) => LastIs(f[m], d, s, x)
  <2> DEFINE u == f[m - 1]
             v == f[m]
             sku == step[m].sku
             change == step[m].quantity
  <2>1. sku \in Skus /\ change \in Int /\ sku = seq[m] /\ change = chg[seq[m]]
    BY <1>2 DEF StepRows
  <2>2. u \in Warehouses /\ MovedOne(u, v, d, sku, change)
    BY <1>13
  <2> HIDE DEF u, v, sku, change
  <2>3. /\ LastIs(v, d, sku, change)
        /\ \A s, x : s # sku /\ LastIs(u, d, s, x) => LastIs(v, d, s, x)
    BY <2>1, <2>2, LastFiled
  <2> QED
    BY <2>1, <2>3 DEF u, v
<1> USE DEF on
<1>3. ASSUME NEW m \in 1..n, Booked(f[0], f[m - 1], d, GainOf(step, on, m - 1))
      PROVE  /\ m \in on => MovedOne(f[m - 1], f[m], d, step[m].sku, step[m].quantity)
             /\ m \notin on => f[m] = f[m - 1]
  <2>1. f[m - 1] \in Warehouses
    BY <1>3 DEF Booked
  <2>2. m - 1 \in 0..n /\ ~(m <= m - 1) /\ seq[m] \in Skus
    BY <1>1
  <2>3. \A i \in on : i <= m - 1 => step[i].sku # seq[m]
    BY <1>1, <1>2, <2>2
  <2>4. GainOf(step, on, m - 1)[seq[m]] = 0
    BY <1>12, <2>2, <2>3
  <2>5. f[m - 1].stock[seq[m]] = f[0].stock[seq[m]]
    <3>1. f[0].stock[seq[m]] \in Nat
      BY <2>2 DEF Warehouses
    <3> QED
      BY <1>3, <2>2, <2>4, <3>1 DEF Booked
  <2> QED
    BY <1>1, <1>2, <2>1, <2>5
<1>4. \A m \in 0..n : Booked(f[0], f[m], d, GainOf(step, on, m))
  <2> HIDE DEF on
  <2> QED
    BY <1>1, <1>2, <1>3, BookedAlong
<1>5. \A m \in 0..n : f[m] \in Warehouses
  BY <1>4 DEF Booked
<1>6. \A m \in 1..n : /\ m \in on => MovedOne(f[m - 1], f[m], d, step[m].sku, step[m].quantity)
                      /\ m \notin on => f[m] = f[m - 1]
  <2>1. \A m \in 1..n : m - 1 \in 0..n
    BY <1>1
  <2> QED
    BY <1>3, <1>4, <2>1
<1>7. Booked(f[0], f[n], d, GainOn(mv, chg))
  <2>1. n \in 0..n /\ \A i \in on : i <= n
    BY <1>1
  <2>2. ASSUME NEW sku \in Skus
        PROVE  GainOf(step, on, n)[sku] = GainOn(mv, chg)[sku]
    <3>1. CASE sku \in mv
      <4>1. PICK i \in 1..n : seq[i] = sku
        BY <1>1, <3>1
      <4>2. i \in on /\ i <= n /\ step[i].sku = sku /\ step[i].quantity = chg[sku]
        BY <1>2, <2>1, <3>1, <4>1
      <4> HIDE DEF on
      <4>3. GainOf(step, on, n)[step[i].sku] = step[i].quantity
        BY <1>12, <2>1, <4>2
      <4> QED
        BY <3>1, <4>2, <4>3 DEF GainOn
    <3>2. CASE sku \notin mv
      <4>1. \A i \in on : step[i].sku # sku
        BY <1>2, <3>2
      <4> HIDE DEF on
      <4>2. GainOf(step, on, n)[sku] = 0
        BY <1>12, <2>1, <4>1
      <4> QED
        BY <3>2, <4>2 DEF GainOn
    <3> QED
      BY <3>1, <3>2
  <2>3. Booked(f[0], f[n], d, GainOf(step, on, n))
    BY <1>4, <2>1
  <2> HIDE DEF on
  <2> QED
    BY <2>2, <2>3 DEF Booked
<1>8. \A i \in 1..n : i \in Nat /\ i <= n /\ 0 < i
  BY <1>1
<1>9. ASSUME NEW i \in on
      PROVE  LastIs(f[n], d, seq[i], chg[seq[i]])
  <2> DEFINE Q == {m \in 0..n : i <= m => LastIs(f[m], d, seq[i], chg[seq[i]])}
  <2>1. 0 \in Q
    BY <1>1, <1>8
  <2>2. ASSUME NEW m \in 1..n, m - 1 \in Q
        PROVE  m \in Q
    <3>1. m - 1 \in 0..n /\ m \in 0..n /\ (i <= m <=> i <= m - 1 \/ i = m)
      BY <1>1
    <3>2. f[m - 1] \in Warehouses /\ step[m].sku \in Skus /\ step[m].quantity \in Int
      BY <1>2, <1>5, <3>1 DEF StepRows
    <3>3. CASE i = m
      <4>1. LastIs(f[m], d, step[m].sku, step[m].quantity)
        BY <1>2, <1>6, <1>13, <3>2, <3>3
      <4> QED
        BY <1>2, <3>1, <3>3, <4>1
    <3>4. CASE i # m
      <4>1. i <= m - 1 => LastIs(f[m - 1], d, seq[i], chg[seq[i]])
        BY <2>2
      <4>2. seq[i] # step[m].sku
        BY <1>1, <1>2, <3>4
      <4>3. LastIs(f[m - 1], d, seq[i], chg[seq[i]]) => LastIs(f[m], d, seq[i], chg[seq[i]])
        <5>1. CASE m \in on
          BY <1>2, <1>6, <1>13, <3>2, <4>2, <5>1
        <5>2. CASE m \notin on
          BY <1>6, <5>2
        <5> QED
          BY <5>1, <5>2
      <4> QED
        BY <3>1, <3>4, <4>1, <4>3
    <3> QED
      BY <3>3, <3>4
  <2> HIDE DEF Q
  <2>3. \A m \in 0..n : m \in Q
    BY <1>1, <2>1, <2>2, CountingUp
  <2> QED
    BY <1>1, <1>8, <2>3 DEF Q
<1>10. ASSUME NEW sku \in Skus \ mv, NEW x, LastIs(f[0], d, sku, x)
       PROVE  LastIs(f[n], d, sku, x)
  <2> DEFINE Q == {m \in 0..n : LastIs(f[m], d, sku, x)}
  <2>1. 0 \in Q
    BY <1>1, <1>10
  <2>2. ASSUME NEW m \in 1..n, m - 1 \in Q
        PROVE  m \in Q
    <3>1. m - 1 \in 0..n /\ m \in 0..n
      BY <1>1
    <3>2. f[m - 1] \in Warehouses /\ step[m].sku \in Skus /\ step[m].quantity \in Int
      BY <1>2, <1>5, <3>1 DEF StepRows
    <3>3. LastIs(f[m - 1], d, sku, x)
      BY <2>2
    <3>4. CASE m \in on
      <4>1. sku # step[m].sku
        BY <1>2, <3>4
      <4> QED
        BY <1>2, <1>6, <1>13, <3>1, <3>2, <3>3, <3>4, <4>1
    <3>5. CASE m \notin on
      BY <1>6, <3>1, <3>3, <3>5
    <3> QED
      BY <3>4, <3>5
  <2> HIDE DEF Q
  <2>3. \A m \in 0..n : m \in Q
    BY <1>1, <2>1, <2>2, CountingUp
  <2> QED
    BY <1>1, <2>3 DEF Q
<1>11. \A sku \in mv : LastIs(f[n], d, sku, chg[sku])
  <2> TAKE sku \in mv
  <2>1. PICK i \in 1..n : seq[i] = sku
    BY <1>1
  <2>2. i \in on
    BY <2>1
  <2> QED
    BY <1>9, <2>1, <2>2
<1> QED
  BY <1>5, <1>7, <1>10, <1>11 DEF n
-----------------------------------------------------------------------------
(* The services' operations *)
MoveTypes == {"sale", "cancel_restore", "return", "adjustment"}
Row(sku, type, change) == [sku |-> sku, type |-> type, change |-> change, taken |-> NoBatchUsed]

\* w with another stock of sku, and the movement that tells of it.
LEMMA StockWritten ==
  ASSUME NEW w \in Warehouses, NEW d \in Orders, NEW sku \in Skus, NEW change \in Int,
         w.stock[sku] + change \in Nat, NEW type \in MoveTypes,
         NEW stock, stock = [w.stock EXCEPT ![sku] = @ + change],
         NEW moves, moves = [w.moves EXCEPT ![d] = Append(@, Row(sku, type, change))],
         NEW v, v = [w EXCEPT !.stock = stock, !.moves = moves]
  PROVE  MovedOne(w, v, d, sku, change)
<1> DEFINE row == Row(sku, type, change)
<1>1. row \in MoveRows /\ row.sku = sku /\ row.change = change
  BY DEF Row, MoveRows, MoveTypes
<1>2. w.stock \in [Skus -> Nat] /\ w.moves \in [Orders -> Seq(MoveRows)]
  BY DEF Warehouses
<1>3. stock \in [Skus -> Nat]
  BY <1>2
<1> HIDE DEF row
<1>4. moves = [w.moves EXCEPT ![d] = Append(@, row)]
  BY DEF row
<1>5. moves \in [Orders -> Seq(MoveRows)]
  <2>1. Append(w.moves[d], row) \in Seq(MoveRows)
    BY <1>1, <1>2
  <2> QED
    BY <1>2, <1>4, <2>1
<1>6. v \in Warehouses /\ v.stock = stock /\ v.moves = moves /\ v.waiting = w.waiting
  BY <1>3, <1>5 DEF Warehouses
<1> QED
  BY <1>1, <1>4, <1>6 DEF MovedOne, Filed

LEMMA PutMoves ==
  ASSUME NEW w \in Warehouses, NEW d \in Orders, NEW sku \in Skus, NEW stock \in Nat,
         NEW change, change = stock - w.stock[sku], NEW type \in MoveTypes
  PROVE  LET v == PutStock(w, d, sku, stock, change, type)
         IN  MovedOne(w, v, d, sku, change)
<1> DEFINE v == PutStock(w, d, sku, stock, change, type)
           stocks == [w.stock EXCEPT ![sku] = stock]
           moves == [w.moves EXCEPT ![d] = Append(@, Row(sku, type, change))]
<1>1. w.stock \in [Skus -> Nat]
  BY DEF Warehouses
<1>2. w.stock[sku] + change = stock /\ change \in Int
  BY <1>1
<1>3. stocks = [w.stock EXCEPT ![sku] = @ + change]
  BY <1>1, <1>2
<1>4. moves = [w.moves EXCEPT ![d] = Append(@, Row(sku, type, change))]
  OBVIOUS
<1>5. v = [w EXCEPT !.stock[sku] = stock, !.moves = moves]
  BY DEF PutStock, Record, Row
<1> HIDE DEF moves, v
<1>6. v = [w EXCEPT !.stock = stocks, !.moves = moves]
  BY <1>5 DEF Warehouses
<1>7. w.stock[sku] + change \in Nat
  BY <1>2
<1> HIDE DEF stocks
<1>8. MovedOne(w, v, d, sku, change)
  BY <1>2, <1>3, <1>4, <1>6, <1>7, StockWritten
<1> QED
  BY <1>8 DEF v

LEMMA MoveMoves ==
  ASSUME NEW w \in Warehouses, NEW d \in Orders, NEW sku \in Skus, NEW change \in Int,
         w.stock[sku] + change \in Nat, NEW type \in MoveTypes
  PROVE  LET v == MoveStock(w, d, sku, change, type)
         IN  MovedOne(w, v, d, sku, change)
<1> DEFINE v == MoveStock(w, d, sku, change, type)
           stocks == [w.stock EXCEPT ![sku] = @ + change]
           moves == [w.moves EXCEPT ![d] = Append(@, Row(sku, type, change))]
<1>1. /\ stocks = [w.stock EXCEPT ![sku] = @ + change]
      /\ moves = [w.moves EXCEPT ![d] = Append(@, Row(sku, type, change))]
  OBVIOUS
<1>2. v = [w EXCEPT !.stock[sku] = @ + change, !.moves = moves]
  BY DEF MoveStock, Record, Row
<1> HIDE DEF moves, v
<1>3. v = [w EXCEPT !.stock = stocks, !.moves = moves]
  BY <1>2 DEF Warehouses
<1> HIDE DEF stocks
<1>4. MovedOne(w, v, d, sku, change)
  BY <1>1, <1>3, StockWritten
<1> QED
  BY <1>4 DEF v

LEMMA AlertTells ==
  ASSUME NEW w \in Warehouses, NEW sku \in Skus
  PROVE  LET v == Alert(w, sku)
         IN  /\ v \in Warehouses /\ v.stock = w.stock /\ v.moves = w.moves
             /\ v.waiting \subseteq w.waiting
             /\ w.stock[sku] > 0 => sku \notin v.waiting
<1>1. w.hidden = {} /\ w.waiting \in SUBSET Skus
  BY DEF Warehouses
<1>2. CASE w.stock[sku] > 0
  <2>1. Alert(w, sku) = [w EXCEPT !.waiting = w.waiting \ {sku}]
    BY <1>1, <1>2 DEF Alert, Warehouses
  <2>2. w.waiting \ {sku} \in SUBSET Skus
    BY <1>1
  <2> DEFINE rest == w.waiting \ {sku}
             v == Alert(w, sku)
  <2> HIDE DEF rest, v
  <2>3. v \in Warehouses /\ v.stock = w.stock /\ v.moves = w.moves /\ v.waiting = rest
    BY <2>1, <2>2 DEF Warehouses, v, rest
  <2> QED
    BY <2>3 DEF rest, v
<1>3. CASE ~(w.stock[sku] > 0)
  BY <1>3 DEF Alert
<1> QED
  BY <1>2, <1>3

\* A movement that tells who waits, if it brings anything.
LEMMA AlertedMove ==
  ASSUME NEW w \in Warehouses, NEW u, NEW d \in Orders, NEW sku \in Skus, NEW change \in Int,
         MovedOne(w, u, d, sku, change)
  PROVE  MovedOne(w, Alert(u, sku), d, sku, change) /\ Told(w, Alert(u, sku))
<1> DEFINE v == Alert(u, sku)
<1>1. u \in Warehouses /\ u.stock = [w.stock EXCEPT ![sku] = @ + change]
      /\ u.waiting \subseteq w.waiting
  BY DEF MovedOne
<1>2. /\ v \in Warehouses /\ v.stock = u.stock /\ v.moves = u.moves
      /\ v.waiting \subseteq u.waiting
      /\ u.stock[sku] > 0 => sku \notin v.waiting
  BY <1>1, AlertTells
<1> HIDE DEF v
<1>3. MovedOne(w, v, d, sku, change)
  BY <1>1, <1>2 DEF MovedOne, Filed
<1>4. Told(w, v)
  <2> SUFFICES ASSUME NEW s \in Skus, v.stock[s] > w.stock[s] PROVE s \notin v.waiting
    BY DEF Told
  <2>1. w.stock \in [Skus -> Nat]
    BY DEF Warehouses
  <2>2. s = sku
    BY <1>1, <1>2, <2>1
  <2>3. u.stock[sku] > 0
    BY <1>1, <1>2, <2>1, <2>2
  <2> QED
    BY <1>2, <2>2, <2>3
<1> QED
  BY <1>3, <1>4 DEF v

LEMMA ShelfMoves ==
  ASSUME NEW w \in Warehouses, NEW d \in Orders, NEW sku \in Skus, NEW quantity \in Nat,
         NEW type \in MoveTypes
  PROVE  LET v == RestoreToShelfOnly(w, d, sku, quantity, type)
         IN  MovedOne(w, v, d, sku, quantity) /\ Told(w, v)
<1>1. w.stock[sku] + quantity \in Nat
  BY DEF Warehouses
<1>2. MovedOne(w, MoveStock(w, d, sku, quantity, type), d, sku, quantity)
  BY <1>1, MoveMoves
<1> QED
  BY <1>2, AlertedMove DEF RestoreToShelfOnly

LEMMA RestoreMoves ==
  ASSUME NEW w \in Warehouses, NEW d \in Orders, NEW sku \in Skus, NEW quantity \in Nat,
         NEW type \in MoveTypes
  PROVE  LET v == Restore(w, d, sku, quantity, type)
         IN  MovedOne(w, v, d, sku, quantity) /\ Told(w, v)
<1> DEFINE sales == Sales(w, d, sku)
           back  == IF sales = {} THEN NoBatchUsed ELSE w.moves[d][Min(sales)].taken
           moved == MoveStock(w, d, sku, quantity, type)
           put == [moved EXCEPT !.left = [b \in Batches |-> @[b] + back[b]]]
<1>1. w.stock[sku] + quantity \in Nat
  BY DEF Warehouses
<1>2. MovedOne(w, moved, d, sku, quantity)
  BY <1>1, MoveMoves
<1>3. back = NoBatchUsed
  <2>1. w.moves[d] \in Seq(MoveRows)
    BY DEF Warehouses
  <2>2. CASE sales # {}
    <3>1. sales \in SUBSET DOMAIN w.moves[d] /\ sales \in SUBSET Nat
      BY <2>1 DEF Sales
    <3>2. Min(sales) \in sales
      <4>1. \E n \in sales : \A m \in sales : n <= m
        BY <2>2, <3>1, Net!LeastNatural
      <4> QED
        BY <4>1 DEF Min
    <3>3. w.moves[d][Min(sales)] \in MoveRows
      BY <2>1, <3>1, <3>2
    <3>4. w.moves[d][Min(sales)].taken = NoBatchUsed
      BY <3>3 DEF MoveRows
    <3> QED
      BY <2>2, <3>4
  <2> QED
    BY <2>2
<1> HIDE DEF back, moved
<1>4. moved \in Warehouses /\ moved.left = NoBatchUsed
  BY <1>2 DEF MovedOne, Warehouses
<1>5. put = [moved EXCEPT !.left = NoBatchUsed]
  <2>1. [b \in Batches |-> moved.left[b] + back[b]] = NoBatchUsed
    BY <1>3, <1>4 DEF NoBatchUsed
  <2>2. put = [moved EXCEPT !.left = [b \in Batches |-> moved.left[b] + back[b]]]
    BY <1>4 DEF Warehouses
  <2> QED
    BY <2>1, <2>2
<1>6. put = moved
  BY <1>4, <1>5 DEF Warehouses
<1>7. Restore(w, d, sku, quantity, type) = Alert(put, sku)
  BY DEF Restore, moved, back
<1> HIDE DEF put
<1> QED
  BY <1>2, <1>6, <1>7, AlertedMove

LEMMA SellMoves ==
  ASSUME NEW w \in Warehouses, NEW d \in Orders, NEW sku \in Skus, NEW quantity \in Nat,
         w.stock[sku] >= quantity
  PROVE  MovedOne(w, Sell(w, d, sku, quantity, {}), d, sku, - quantity)
<1> DEFINE taken == Fefo(w, sku, quantity, {})
           v == Sell(w, d, sku, quantity, {})
<1>1. w.got = NoBatchUsed /\ w.left = NoBatchUsed /\ w.stock \in [Skus -> Nat]
  BY DEF Warehouses
<1>2. BatchesOf(w, sku) = {}
  BY <1>1 DEF BatchesOf, Rows, NoBatchUsed
<1>3. taken = NoBatchUsed
  <2>1. BatchesOf(w, sku) \ {} = {}
    BY <1>2
  <2>2. taken = [b \in Batches |-> 0]
    BY <2>1 DEF Fefo
  <2> QED
    BY <2>2 DEF NoBatchUsed
<1>4. v = [w EXCEPT !.stock[sku] = @ - quantity,
                    !.left = [b \in Batches |-> w.left[b] - taken[b]],
                    !.moves = [w.moves EXCEPT ![d] =
                        Append(@, [sku |-> sku, type |-> "sale", change |-> -quantity,
                                   taken |-> taken])]]
  BY DEF Sell, Record
<1> HIDE DEF v, taken
<1>5. [b \in Batches |-> w.left[b] - taken[b]] = w.left
  BY <1>1, <1>3 DEF NoBatchUsed
<1> DEFINE moves == [w.moves EXCEPT ![d] = Append(@, Row(sku, "sale", - quantity))]
           stocks == [w.stock EXCEPT ![sku] = @ - quantity]
<1>6. v = [w EXCEPT !.stock[sku] = @ - quantity, !.left = w.left, !.moves = moves]
  BY <1>3, <1>4, <1>5 DEF Row
<1>7. moves = [w.moves EXCEPT ![d] = Append(@, Row(sku, "sale", - quantity))]
  OBVIOUS
<1> HIDE DEF moves
<1>8. v = [w EXCEPT !.stock = stocks, !.moves = moves]
  BY <1>6 DEF Warehouses
<1>9. stocks = [w.stock EXCEPT ![sku] = @ + (- quantity)]
  BY <1>1
<1>10. w.stock[sku] + (- quantity) \in Nat /\ (- quantity) \in Int
  BY <1>1
<1> HIDE DEF stocks
<1>11. MovedOne(w, v, d, sku, - quantity)
  <2>1. "sale" \in MoveTypes
    BY DEF MoveTypes
  <2> QED
    BY <1>7, <1>8, <1>9, <1>10, <2>1, StockWritten
<1> QED
  BY <1>11 DEF v
-----------------------------------------------------------------------------
(* The transactions, line by line *)
Greatest(S) == Max(S)
ItemAt(c, i) == c.rows[i]

SellLine(c, item, w) == Sell(w, c.doc, item.sku, item.quantity, {})
Sold == INSTANCE FoldFacts WITH op <- SellLine, map <- ItemAt, choose <- Greatest
PutBack(c, item, w) == Restore(w, c.doc, item.sku, item.quantity, "cancel_restore")
Returned == INSTANCE FoldFacts WITH op <- PutBack, map <- ItemAt, choose <- Greatest
Restock(c, item, w) ==
    IF ~item.keep THEN w
    ELSE RestoreToShelfOnly(w, c.doc, Bought[c.order][item.line].sku, item.quantity, "return")
Restocking == INSTANCE FoldFacts WITH op <- Restock, map <- ItemAt, choose <- Greatest
Settle(c, sku, w) ==
    IF c.counted[sku].quantity = w.stock[sku] THEN w
    ELSE PutStock(w, c.doc, sku, c.counted[sku].quantity,
                  c.counted[sku].quantity - w.stock[sku], "adjustment")
Settled == INSTANCE FoldFacts WITH op <- Settle, map <- ItemAt, choose <- Greatest
Apply(c, sku, w) == ApplyRow(w, c.doc, c.job, sku)
Applied == INSTANCE FoldFacts WITH op <- Apply, map <- ItemAt, choose <- Greatest
Undo(c, sku, w) == PutStock(w, c.doc, sku, c.before[sku], -c.change[sku], "adjustment")
Undone == INSTANCE FoldFacts WITH op <- Undo, map <- ItemAt, choose <- Greatest
Arrive(c, item, acc) == Arrived(acc, c.order, item)
Arriving == INSTANCE FoldFacts WITH op <- Arrive, map <- ItemAt, choose <- Greatest

LEMMA GreatestIsMax ==
  ASSUME NEW n \in Nat
  PROVE  \A s \in SUBSET (1..n) : s # {} => Greatest(s) \in s /\ \A k \in s : k <= Greatest(s)
<1> SUFFICES ASSUME NEW s \in SUBSET (1..n), s # {}
             PROVE  Greatest(s) \in s /\ \A k \in s : k <= Greatest(s)
  OBVIOUS
<1>1. \E i \in s : \A j \in s : i >= j
  BY Net!GreatestNatural
<1>2. \A j \in s : Max(s) >= j /\ Max(s) \in s
  BY <1>1 DEF Max
<1> QED
  BY <1>2 DEF Greatest

\* The lines of an order.
LEMMA LinesAre ==
  ASSUME NEW o \in CustomerOrders
  PROVE  /\ Lines(o) = 1..Len(Bought[o]) /\ Len(Bought[o]) \in Nat
         /\ \A i \in Lines(o) : Bought[o][i].sku \in Skus /\ Bought[o][i].quantity \in Nat \ {0}
         /\ \A i, j \in Lines(o) : Bought[o][i].sku = Bought[o][j].sku => i = j
         /\ Lines(o) # {}
<1> DEFINE rows == Bought[o]
           Sound(r) == /\ r \in Seq([sku : Skus, quantity : Nat \ {0}]) /\ r # <<>>
                       /\ \A i, j \in DOMAIN r : r[i].sku = r[j].sku => i = j
<1>0. \A p \in CustomerOrders : Sound(Bought[p])
  BY ONLY StocktakingAssumption
<1>1. rows \in Seq([sku : Skus, quantity : Nat \ {0}]) /\ rows # <<>>
  BY ONLY <1>0
<1>2. \A i, j \in DOMAIN rows : rows[i].sku = rows[j].sku => i = j
  BY ONLY <1>0
<1>3. Lines(o) = DOMAIN rows
  BY DEF Lines
<1> HIDE DEF rows
<1> DEFINE R == [sku : Skus, quantity : Nat \ {0}]
<1>4. \A r \in R : r.sku \in Skus /\ r.quantity \in Nat \ {0}
  OBVIOUS
<1>5. rows \in Seq(R)
  BY <1>1
<1> HIDE DEF R
<1>6. \A i \in DOMAIN rows : rows[i] \in R
  BY <1>5
<1>7. DOMAIN rows = 1..Len(rows) /\ Len(rows) \in Nat
  BY <1>5
<1>8. DOMAIN rows # {}
  <2>1. Len(rows) # 0
    BY <1>1, <1>5
  <2>2. 1 \in 1..Len(rows)
    BY <1>7, <2>1
  <2> QED
    BY <1>7, <2>2
<1> QED
  BY <1>2, <1>3, <1>4, <1>6, <1>7, <1>8 DEF rows

\* What an order takes from the shelves, or brings back.
LineStep(o, sign) ==
    [i \in Lines(o) |-> [sku |-> Bought[o][i].sku, quantity |-> sign * Bought[o][i].quantity]]
GainOfUnits(o, sign) ==
    [sku \in Skus |-> IF sku \in DOMAIN Units(o, sign) THEN Units(o, sign)[sku] ELSE 0]

LEMMA UnitsAre ==
  ASSUME NEW o \in CustomerOrders, NEW sign \in {1, -1}
  PROVE  /\ DOMAIN Units(o, sign) = {Bought[o][i].sku : i \in Lines(o)}
         /\ \A i \in Lines(o) : Units(o, sign)[Bought[o][i].sku] = sign * Bought[o][i].quantity
         /\ GainOfUnits(o, sign) \in Gains
<1>1. DOMAIN Units(o, sign) = {Bought[o][i].sku : i \in Lines(o)}
  BY DEF Units
<1>2. ASSUME NEW i \in Lines(o)
      PROVE  Units(o, sign)[Bought[o][i].sku] = sign * Bought[o][i].quantity
  <2> DEFINE S == {j \in Lines(o) : Bought[o][j].sku = Bought[o][i].sku}
             rows == Bought[o]
  <2>1. Units(o, sign)[Bought[o][i].sku] = sign * Amount!Sum(rows, S)
    <3>1. Bought[o][i].sku \in {Bought[o][j].sku : j \in Lines(o)}
      OBVIOUS
    <3>2. Units(o, sign)[Bought[o][i].sku]
            = sign * MapThenSumSet(LAMBDA j : Bought[o][j].quantity, S)
      BY <3>1 DEF Units
    <3>3. MapThenSumSet(LAMBDA j : Bought[o][j].quantity, S) = Amount!Sum(rows, S)
      BY DEF MapThenSumSet, MapThenFoldSet, Amount!Sum, Amount!Fold, Amount!MapThenFoldSet,
             QuantityAt, Plus, Some
    <3> QED
      BY <3>2, <3>3
  <2>2. S = {i}
    <3>1. \A j \in Lines(o) : Bought[o][j].sku = Bought[o][i].sku => j = i
      BY LinesAre
    <3> QED
      BY <3>1
  <2>3. QuantityAt(rows, i) \in Int
    <3>1. Bought[o][i].quantity \in Nat
      BY LinesAre
    <3> QED
      BY <3>1 DEF QuantityAt
  <2>4. Amount!Sum(rows, {i}) = QuantityAt(rows, i)
    BY <2>3, AllAdd, Amount!SumOne
  <2> QED
    BY <2>1, <2>2, <2>4 DEF QuantityAt
<1>3. GainOfUnits(o, sign) \in Gains
  <2> SUFFICES ASSUME NEW sku \in DOMAIN Units(o, sign)
               PROVE  Units(o, sign)[sku] \in Int
    BY DEF GainOfUnits, Gains
  <2>1. PICK i \in Lines(o) : sku = Bought[o][i].sku
    BY <1>1
  <2>2. Bought[o][i].quantity \in Nat
    BY LinesAre
  <2> QED
    BY <1>2, <2>1, <2>2
<1> QED
  BY <1>1, <1>2, <1>3

LEMMA LineStepsAre ==
  ASSUME NEW o \in CustomerOrders, NEW sign \in {1, -1}, NEW n, n = Len(Bought[o])
  PROVE  /\ LineStep(o, sign) \in [1..n -> StepRows]
         /\ OneStepEach(n, LineStep(o, sign))
         /\ \A sku \in Skus :
               GainOf(LineStep(o, sign), 1..n, n)[sku] = GainOfUnits(o, sign)[sku]
<1> DEFINE step == LineStep(o, sign)
           on == 1..n
<1>1. step \in [1..n -> StepRows]
  <2>1. \A i \in Lines(o) : sign * Bought[o][i].quantity \in Int
    BY LinesAre
  <2> QED
    BY <2>1, LinesAre DEF LineStep, StepRows
<1>2. \A i \in 1..n : step[i].sku = Bought[o][i].sku /\ step[i].quantity = sign * Bought[o][i].quantity
  BY LinesAre DEF LineStep
<1>3. OneStepEach(n, step)
  BY <1>2, LinesAre DEF OneStepEach
<1>4. n \in Nat /\ on \in SUBSET (1..n) /\ n \in 0..n /\ \A i \in on : i <= n
  BY LinesAre
<1> HIDE DEF step, on
<1>5. /\ \A i \in on : i <= n => GainOf(step, on, n)[step[i].sku] = step[i].quantity
      /\ \A sku \in Skus : (\A i \in on : i <= n => step[i].sku # sku) => GainOf(step, on, n)[sku] = 0
  BY <1>1, <1>3, <1>4, GainOfEach
<1>6. ASSUME NEW sku \in Skus
      PROVE  GainOf(step, on, n)[sku] = GainOfUnits(o, sign)[sku]
  <2>1. CASE \E i \in Lines(o) : Bought[o][i].sku = sku
    <3>1. PICK i \in Lines(o) : Bought[o][i].sku = sku
      BY <2>1
    <3>2. i \in on
      BY LinesAre DEF on
    <3>3. GainOf(step, on, n)[sku] = sign * Bought[o][i].quantity
      BY <1>2, <1>4, <1>5, <3>1, <3>2
    <3>4. GainOfUnits(o, sign)[sku] = sign * Bought[o][i].quantity
      BY <3>1, UnitsAre DEF GainOfUnits
    <3> QED
      BY <3>3, <3>4
  <2>2. CASE ~ \E i \in Lines(o) : Bought[o][i].sku = sku
    <3>1. \A i \in on : step[i].sku # sku
      BY <1>2, <2>2, LinesAre DEF on
    <3>2. sku \notin DOMAIN Units(o, sign)
      <4>1. DOMAIN Units(o, sign) = {Bought[o][i].sku : i \in Lines(o)}
        BY UnitsAre
      <4> QED
        BY <2>2, <4>1
    <3>3. GainOf(step, on, n)[sku] = 0
      BY <1>5, <3>1
    <3>4. GainOfUnits(o, sign)[sku] = 0
      BY <3>2 DEF GainOfUnits
    <3> QED
      BY <3>3, <3>4
  <2> QED
    BY <2>1, <2>2
<1> QED
  BY <1>1, <1>3, <1>6 DEF step, on

\* Nothing is in a batch, so what may be sold is the stock.
LEMMA PlainSellable ==
  ASSUME NEW w \in Warehouses, NEW sku \in Skus
  PROVE  Sellable(w, sku, {}) = w.stock[sku]
<1>1. w.got = NoBatchUsed
  BY DEF Warehouses
<1>2. BatchesOf(w, sku) = {}
  BY <1>1 DEF BatchesOf, Rows, NoBatchUsed
<1> QED
  BY <1>2 DEF Sellable

LEMMA DocumentsAre ==
  /\ CustomerOrders \subseteq Orders /\ Returns \subseteq Orders
  /\ Counts \subseteq Orders /\ Bulks \subseteq Orders
  /\ \A o \in CustomerOrders : o \notin Returns /\ o \notin Counts /\ o \notin Bulks
  /\ \A r \in Returns : r \notin Counts /\ r \notin Bulks
  /\ \A c \in Counts : c \notin Bulks
BY StocktakingAssumption

\* An order that is placed takes its lines from the stock.
LEMMA PlaceBooks ==
  ASSUME NEW w \in Warehouses, NEW o \in CustomerOrders,
         \A i \in Lines(o) : Sellable(w, Bought[o][i].sku, {}) >= Bought[o][i].quantity,
         NEW v, v = Sold!Fold([rows |-> Bought[o], doc |-> o], w, Lines(o))
  PROVE  Booked(w, v, o, GainOfUnits(o, -1))
<1> DEFINE n == Len(Bought[o])
           c == [rows |-> Bought[o], doc |-> o]
           f == [m \in 0..n |-> Sold!Fold(c, w, 1..m)]
           step == LineStep(o, -1)
           on == 1..n
<1>1. n \in Nat /\ Lines(o) = 1..n /\ n \in 0..n
  BY LinesAre
<1>2. f[0] = w /\ \A m \in 1..n : f[m] = SellLine(c, ItemAt(c, m), f[m - 1])
  <2>1. \A s \in SUBSET (1..n) : s # {} => Greatest(s) \in s /\ \A k \in s : k <= Greatest(s)
    BY <1>1, GreatestIsMax
  <2>2. n \in Nat
    BY <1>1
  <2>3. 0 \in 0..n /\ \A m \in 1..n : m \in 0..n /\ m - 1 \in 0..n
    BY <1>1
  <2> HIDE DEF n, c
  <2>4. /\ Sold!Fold(c, w, 1..0) = w
        /\ \A m \in 1..n :
              Sold!Fold(c, w, 1..m) = SellLine(c, ItemAt(c, m), Sold!Fold(c, w, 1..(m - 1)))
    BY ONLY <2>1, <2>2, Sold!FoldUpward
  <2> QED
    BY <2>3, <2>4
<1>3. v = f[n]
  BY <1>1
<1> HIDE DEF f
<1>4. \A m \in 1..n : f[m] = Sell(f[m - 1], o, Bought[o][m].sku, Bought[o][m].quantity, {})
  BY <1>2 DEF SellLine, ItemAt
<1>5. /\ step \in [1..n -> StepRows] /\ OneStepEach(n, step)
      /\ \A sku \in Skus : GainOf(step, on, n)[sku] = GainOfUnits(o, -1)[sku]
  BY LineStepsAre
<1>6. \A i \in 1..n : /\ step[i].sku = Bought[o][i].sku
                      /\ step[i].quantity = - Bought[o][i].quantity
                      /\ Bought[o][i].sku \in Skus /\ Bought[o][i].quantity \in Nat
  BY <1>1, LinesAre DEF LineStep
<1>7. on \in SUBSET (1..n)
  OBVIOUS
<1> HIDE DEF step
<1>8. ASSUME NEW m \in 1..n, Booked(f[0], f[m - 1], o, GainOf(step, on, m - 1))
      PROVE  MovedOne(f[m - 1], f[m], o, step[m].sku, step[m].quantity)
  <2> DEFINE u == f[m - 1]
             x == f[m]
             sku == Bought[o][m].sku
             quantity == Bought[o][m].quantity
  <2>1. sku \in Skus /\ quantity \in Nat /\ step[m].sku = sku /\ step[m].quantity = - quantity
    BY <1>6
  <2>2. m - 1 \in 0..n /\ ~(m <= m - 1) /\ \A i \in on : i <= m - 1 => i # m
    BY <1>1
  <2>3. \A i \in on : i <= m - 1 => step[i].sku # sku
    BY <1>5, <2>1, <2>2 DEF OneStepEach
  <2>4. /\ \A sk \in Skus : (\A i \in on : i <= m - 1 => step[i].sku # sk) =>
              GainOf(step, on, m - 1)[sk] = 0
    BY <1>1, <1>5, <1>7, <2>2, GainOfEach
  <2>5. GainOf(step, on, m - 1)[sku] = 0
    BY <2>1, <2>3, <2>4
  <2>6. u \in Warehouses /\ u.stock[sku] = w.stock[sku] + GainOf(step, on, m - 1)[sku]
    BY <1>2, <1>8, <2>1 DEF Booked
  <2>7. w.stock[sku] >= quantity
    BY <1>1, <2>1, PlainSellable
  <2>8. w.stock[sku] \in Nat
    BY <2>1 DEF Warehouses
  <2>9. x = Sell(u, o, sku, quantity, {})
    BY <1>4
  <2>10. o \in Orders
    BY DocumentsAre
  <2> HIDE DEF u, x, sku, quantity
  <2>11. u.stock[sku] >= quantity
    BY <2>5, <2>6, <2>7, <2>8
  <2>12. MovedOne(u, x, o, sku, - quantity)
    BY <2>1, <2>6, <2>9, <2>10, <2>11, SellMoves
  <2> QED
    BY <2>1, <2>12 DEF u, x
<1>9. \A m \in 0..n : Booked(f[0], f[m], o, GainOf(step, on, m))
  <2>1. \A m \in 1..n : Booked(f[0], f[m - 1], o, GainOf(step, on, m - 1)) =>
            /\ m \in on => MovedOne(f[m - 1], f[m], o, step[m].sku, step[m].quantity)
            /\ m \notin on => f[m] = f[m - 1]
    BY <1>8
  <2>2. f[0] \in Warehouses /\ o \in Orders
    BY <1>2, DocumentsAre
  <2> HIDE DEF on
  <2> QED
    BY <1>1, <1>5, <1>7, <2>1, <2>2, BookedAlong
<1>10. Booked(w, v, o, GainOf(step, on, n))
  BY <1>1, <1>2, <1>3, <1>9
<1> QED
  BY <1>5, <1>10 DEF Booked

\* A transaction of steps that each tell who waits.
TellingStep(w, v, d, sku, change) == MovedOne(w, v, d, sku, change) /\ Told(w, v)
LEMMA ToldSelf ==
  ASSUME NEW w \in Warehouses
  PROVE  Told(w, w)
<1>1. \A sku \in Skus : w.stock[sku] \in Nat
  BY DEF Warehouses
<1> QED
  BY <1>1 DEF Told

LEMMA TellingAlong ==
  ASSUME NEW n \in Nat, NEW step \in [1..n -> StepRows], NEW on \in SUBSET (1..n),
         NEW d \in Orders, NEW f, f[0] \in Warehouses,
         \A m \in 1..n : f[m - 1] \in Warehouses =>
            /\ m \in on => TellingStep(f[m - 1], f[m], d, step[m].sku, step[m].quantity)
            /\ m \notin on => f[m] = f[m - 1]
  PROVE  /\ Booked(f[0], f[n], d, GainOf(step, on, n)) /\ Told(f[0], f[n])
         /\ on # {} => Len(f[n].moves[d]) > Len(f[0].moves[d])
<1>1. \A m \in 0..n : Booked(f[0], f[m], d, GainOf(step, on, m))
  <2>1. \A m \in 1..n : Booked(f[0], f[m - 1], d, GainOf(step, on, m - 1)) =>
            /\ m \in on => MovedOne(f[m - 1], f[m], d, step[m].sku, step[m].quantity)
            /\ m \notin on => f[m] = f[m - 1]
    BY DEF Booked, TellingStep
  <2> QED
    BY <2>1, BookedAlong
<1>2. \A m \in 0..n : f[m] \in Warehouses
  BY <1>1 DEF Booked
<1>3. \A m \in 1..n : m - 1 \in 0..n /\ m \in 0..n /\ n \in 0..n
  OBVIOUS
<1>4. ASSUME NEW m \in 1..n
      PROVE  f[m].waiting \subseteq f[m - 1].waiting /\ Told(f[m - 1], f[m])
  <2>1. f[m - 1] \in Warehouses
    BY <1>2, <1>3
  <2>2. CASE m \in on
    BY <2>1, <2>2 DEF TellingStep, MovedOne
  <2>3. CASE m \notin on
    <3>1. f[m] = f[m - 1]
      BY <2>1, <2>3
    <3> QED
      BY <2>1, <3>1, ToldSelf
  <2> QED
    BY <2>2, <2>3
<1>5. Told(f[0], f[n])
  BY <1>2, <1>4, ToldAlong
<1>6. ASSUME NEW i \in on
      PROVE  Len(f[n].moves[d]) > Len(f[0].moves[d])
  <2> DEFINE length(m) == Len(f[m].moves[d])
             Q == {m \in 0..n : length(m) >= length(0) + IF i <= m THEN 1 ELSE 0}
  <2>1. \A m \in 0..n : length(m) \in Nat
    BY <1>2 DEF Warehouses
  <2>2. ASSUME NEW m \in 1..n
        PROVE  length(m) >= length(m - 1) + IF m \in on THEN 1 ELSE 0
    <3> DEFINE u == f[m - 1]
               v == f[m]
    <3>1. u \in Warehouses
      BY <1>2, <1>3
    <3>2. CASE m \in on
      <4>1. MovedOne(u, v, d, step[m].sku, step[m].quantity)
        BY <3>1, <3>2 DEF TellingStep
      <4>2. PICK row \in MoveRows : v.moves = [u.moves EXCEPT ![d] = Append(@, row)]
        BY <4>1 DEF MovedOne, Filed
      <4>3. u.moves \in [Orders -> Seq(MoveRows)]
        BY <3>1 DEF Warehouses
      <4> DEFINE old == u.moves[d]
      <4>4. old \in Seq(MoveRows) /\ v.moves[d] = Append(old, row)
        BY <4>2, <4>3
      <4> HIDE DEF old
      <4>5. Len(v.moves[d]) = Len(old) + 1 /\ Len(old) \in Nat
        BY <4>4
      <4> QED
        BY <3>2, <4>5 DEF old
    <3>3. CASE m \notin on
      <4>1. length(m) = length(m - 1) /\ length(m - 1) \in Nat
        BY <1>3, <2>1, <3>1, <3>3
      <4> QED
        BY <3>3, <4>1
    <3> QED
      BY <3>2, <3>3
  <2> HIDE DEF length
  <2>3. i \in Nat /\ i <= n /\ ~(i <= 0)
    OBVIOUS
  <2>4. 0 \in Q
    <3>1. 0 \in 0..n
      OBVIOUS
    <3> QED
      BY <2>1, <2>3, <3>1
  <2>5. ASSUME NEW m \in 1..n, m - 1 \in Q
        PROVE  m \in Q
    <3>1. length(m - 1) >= length(0) + IF i <= m - 1 THEN 1 ELSE 0
      BY <2>5
    <3>2. length(m) >= length(m - 1) + IF m \in on THEN 1 ELSE 0
      BY <2>2
    <3>3. length(m) \in Nat /\ length(m - 1) \in Nat /\ length(0) \in Nat
      BY <1>3, <2>1
    <3>4. i <= m => i <= m - 1 \/ m \in on
      <4>1. i <= m => i <= m - 1 \/ i = m
        BY <2>3
      <4> QED
        BY <4>1
    <3>5. length(m) >= length(0) + IF i <= m THEN 1 ELSE 0
      BY <3>1, <3>2, <3>3, <3>4
    <3> QED
      BY <1>3, <3>5
  <2> HIDE DEF Q
  <2>6. \A m \in 0..n : m \in Q
    BY <2>4, <2>5, CountingUp
  <2>7. length(n) >= length(0) + 1 /\ length(0) \in Nat /\ length(n) \in Nat
    BY <2>1, <2>3, <2>6 DEF Q
  <2> QED
    BY <2>7 DEF length
<1>7. n \in 0..n
  OBVIOUS
<1>8. Booked(f[0], f[n], d, GainOf(step, on, n))
  BY <1>1, <1>7
<1>9. on # {} => Len(f[n].moves[d]) > Len(f[0].moves[d])
  BY <1>6
<1> QED
  BY <1>5, <1>8, <1>9

\* An order that is cancelled brings them back, and tells who waits for them.
LEMMA CancelBooks ==
  ASSUME NEW w \in Warehouses, NEW o \in CustomerOrders,
         NEW v, v = Returned!Fold([rows |-> Bought[o], doc |-> o], w, Lines(o))
  PROVE  Booked(w, v, o, GainOfUnits(o, 1)) /\ Told(w, v)
<1> DEFINE n == Len(Bought[o])
           c == [rows |-> Bought[o], doc |-> o]
           f == [m \in 0..n |-> Returned!Fold(c, w, 1..m)]
           step == LineStep(o, 1)
           on == 1..n
<1>1. n \in Nat /\ Lines(o) = 1..n /\ n \in 0..n
  BY LinesAre
<1>2. f[0] = w /\ \A m \in 1..n : f[m] = PutBack(c, ItemAt(c, m), f[m - 1])
  <2>1. \A s \in SUBSET (1..n) : s # {} => Greatest(s) \in s /\ \A k \in s : k <= Greatest(s)
    BY <1>1, GreatestIsMax
  <2>2. n \in Nat
    BY <1>1
  <2>3. 0 \in 0..n /\ \A m \in 1..n : m \in 0..n /\ m - 1 \in 0..n
    BY <1>1
  <2> HIDE DEF n, c
  <2>4. /\ Returned!Fold(c, w, 1..0) = w
        /\ \A m \in 1..n :
              Returned!Fold(c, w, 1..m) = PutBack(c, ItemAt(c, m), Returned!Fold(c, w, 1..(m - 1)))
    BY ONLY <2>1, <2>2, Returned!FoldUpward
  <2> QED
    BY <2>3, <2>4
<1>3. v = f[n]
  BY <1>1
<1> HIDE DEF f
<1>4. \A m \in 1..n :
         f[m] = Restore(f[m - 1], o, Bought[o][m].sku, Bought[o][m].quantity, "cancel_restore")
  BY <1>2 DEF PutBack, ItemAt
<1>5. /\ step \in [1..n -> StepRows] /\ OneStepEach(n, step)
      /\ \A sku \in Skus : GainOf(step, on, n)[sku] = GainOfUnits(o, 1)[sku]
  BY LineStepsAre
<1>6. \A i \in 1..n : /\ step[i].sku = Bought[o][i].sku
                      /\ step[i].quantity = Bought[o][i].quantity
                      /\ Bought[o][i].sku \in Skus /\ Bought[o][i].quantity \in Nat
  BY <1>1, LinesAre DEF LineStep
<1>7. on \in SUBSET (1..n) /\ o \in Orders
  BY DocumentsAre
<1> HIDE DEF step
<1>8. ASSUME NEW m \in 1..n, f[m - 1] \in Warehouses
      PROVE  TellingStep(f[m - 1], f[m], o, step[m].sku, step[m].quantity)
  <2> DEFINE u == f[m - 1]
             x == f[m]
             sku == Bought[o][m].sku
             quantity == Bought[o][m].quantity
  <2>1. /\ sku \in Skus /\ quantity \in Nat /\ step[m].sku = sku /\ step[m].quantity = quantity
        /\ u \in Warehouses
    BY <1>6, <1>8
  <2>2. x = Restore(u, o, sku, quantity, "cancel_restore")
    BY <1>4
  <2>3. "cancel_restore" \in MoveTypes
    BY DEF MoveTypes
  <2> HIDE DEF u, x, sku, quantity
  <2>4. MovedOne(u, x, o, sku, quantity) /\ Told(u, x)
    BY <1>7, <2>1, <2>2, <2>3, RestoreMoves
  <2> QED
    BY <2>1, <2>4 DEF u, x, TellingStep
<1>9. /\ Booked(f[0], f[n], o, GainOf(step, on, n)) /\ Told(f[0], f[n])
      /\ on # {} => Len(f[n].moves[o]) > Len(f[0].moves[o])
  <2>1. \A m \in 1..n : f[m - 1] \in Warehouses =>
            /\ m \in on => TellingStep(f[m - 1], f[m], o, step[m].sku, step[m].quantity)
            /\ m \notin on => f[m] = f[m - 1]
    BY <1>8
  <2>2. f[0] \in Warehouses
    BY <1>2
  <2> HIDE DEF on
  <2> QED
    BY <1>1, <1>5, <1>7, <2>1, <2>2, TellingAlong
<1>10. Booked(w, v, o, GainOf(step, on, n)) /\ Told(w, v)
  BY <1>2, <1>3, <1>9
<1> QED
  BY <1>5, <1>10 DEF Booked

LEMMA ClaimIs ==
  ASSUME NEW claim \in Claims
  PROVE  /\ claim.order \in CustomerOrders
         /\ Len(claim.items) \in Nat /\ DOMAIN claim.items = 1..Len(claim.items)
         /\ claim.items \in Seq(ItemRows)
         /\ \A i \in DOMAIN claim.items :
               /\ claim.items[i].line \in Lines(claim.order)
               /\ claim.items[i].quantity \in Nat \ {0}
               /\ claim.items[i].keep \in BOOLEAN
               /\ Bought[claim.order][claim.items[i].line].sku \in Skus
<1> DEFINE o == claim.order
           rows == claim.items
<1>1. claim \in ClaimRows /\ \A j \in DOMAIN rows : rows[j].line \in DOMAIN Bought[o]
  BY StocktakingAssumption
<1>2. o \in CustomerOrders /\ rows \in Seq(ItemRows)
  BY <1>1 DEF ClaimRows
<1>3. Lines(o) = DOMAIN Bought[o] /\ \A i \in Lines(o) : Bought[o][i].sku \in Skus
  <2> HIDE DEF o
  <2> QED
    BY <1>2, LinesAre DEF Lines
<1> HIDE DEF rows, o
<1>4. Len(rows) \in Nat /\ DOMAIN rows = 1..Len(rows) /\ \A i \in DOMAIN rows : rows[i] \in ItemRows
  BY <1>2
<1>5. \A row \in ItemRows : row.quantity \in Nat \ {0} /\ row.keep \in BOOLEAN
  BY DEF ItemRows
<1>6. \A i \in DOMAIN rows : /\ rows[i].line \in Lines(o)
                             /\ rows[i].quantity \in Nat \ {0} /\ rows[i].keep \in BOOLEAN
                             /\ Bought[o][rows[i].line].sku \in Skus
  BY <1>1, <1>3, <1>4, <1>5
<1> QED
  BY <1>2, <1>4, <1>6 DEF rows, o

\* What comes back by a claim, item by item.
ClaimStep(claim) ==
    [i \in DOMAIN claim.items |->
        [sku |-> Bought[claim.order][claim.items[i].line].sku,
         quantity |-> claim.items[i].quantity]]
GainOfClaim(claim) == [sku \in Skus |-> KeptQuantity(claim, sku)]

LEMMA ClaimStepsAre ==
  ASSUME NEW claim \in Claims, NEW n, n = Len(claim.items)
  PROVE  /\ ClaimStep(claim) \in [1..n -> StepRows]
         /\ Kept(claim.items) \in SUBSET (1..n)
         /\ GainOfClaim(claim) \in Gains
         /\ \A sku \in Skus : GainOfClaim(claim)[sku] \in Nat
         /\ \A sku \in Skus :
               GainOf(ClaimStep(claim), Kept(claim.items), n)[sku] = GainOfClaim(claim)[sku]
         /\ \A sku \in Skus : KeptOf(claim, sku) = {} => GainOfClaim(claim)[sku] = 0
<1> DEFINE step == ClaimStep(claim)
           on == Kept(claim.items)
           rows == claim.items
<1>1. n \in Nat /\ DOMAIN rows = 1..n
  BY ClaimIs
<1>2. step \in [1..n -> StepRows]
  <2>1. \A i \in 1..n : /\ Bought[claim.order][claim.items[i].line].sku \in Skus
                        /\ claim.items[i].quantity \in Int
    BY <1>1, ClaimIs
  <2> QED
    BY <1>1, <2>1 DEF ClaimStep, StepRows
<1>3. on \in SUBSET (1..n)
  BY <1>1 DEF Kept
<1>4. \A i \in 1..n : /\ step[i].sku = Bought[claim.order][rows[i].line].sku
                      /\ step[i].quantity = rows[i].quantity /\ rows[i].quantity \in Nat
  BY <1>1, ClaimIs DEF ClaimStep
<1>5. ASSUME NEW sku \in Skus
      PROVE  /\ GainOfClaim(claim)[sku] \in Nat
             /\ GainOf(step, on, n)[sku] = GainOfClaim(claim)[sku]
             /\ KeptOf(claim, sku) = {} => GainOfClaim(claim)[sku] = 0
  <2> DEFINE S == KeptOf(claim, sku)
  <2>1. GainOfClaim(claim)[sku] = Amount!Sum(rows, S)
    <3>1. KeptQuantity(claim, sku) = Amount!Sum(rows, S)
      BY DEF KeptQuantity, MapThenSumSet, MapThenFoldSet, Amount!Sum, Amount!Fold,
             Amount!MapThenFoldSet, QuantityAt, Plus, Some
    <3> QED
      BY <3>1 DEF GainOfClaim
  <2>2. S \in SUBSET (1..n) /\ S = Upto(step, on, n, sku)
    <3>1. \A i : i \in S <=> i \in 1..n /\ rows[i].keep /\ Bought[claim.order][rows[i].line].sku = sku
      BY <1>1 DEF KeptOf
    <3>2. \A i : i \in Upto(step, on, n, sku) <=> i \in on /\ i <= n /\ step[i].sku = sku
      BY DEF Upto
    <3>3. \A i : i \in on <=> i \in 1..n /\ rows[i].keep
      BY <1>1 DEF Kept
    <3>4. \A i \in 1..n : i <= n
      BY <1>1
    <3> HIDE DEF S, step, on, rows
    <3> QED
      BY <1>4, <3>1, <3>2, <3>3, <3>4
  <2>3. \A i \in 1..n : QuantityAt(rows, i) \in Nat /\ QuantityAt(step, i) = QuantityAt(rows, i)
    BY <1>4 DEF QuantityAt
  <2>4. IsFiniteSet(S)
    <3>1. IsFiniteSet(1..n)
      BY <1>1, FS_Interval
    <3> QED
      BY <2>2, <3>1, FS_Subset
  <2> HIDE DEF S, step, on, rows
  <2>5. Amount!Sum(rows, S) \in Nat
    BY <2>2, <2>3, <2>4, SameFinite, AllAdd, Amount!SumNat
  <2>6. Amount!Sum(step, S) = Amount!Sum(rows, S)
    BY <2>2, <2>3, <2>4, SameFinite, AllAdd, Amount!SumSame
  <2>7. GainOf(step, on, n)[sku] = Amount!Sum(step, S)
    BY <2>2 DEF GainOf
  <2>8. S = {} => Amount!Sum(rows, S) = 0
    BY Amount!SumEmpty
  <2> QED
    BY <2>1, <2>5, <2>6, <2>7, <2>8 DEF S
<1>6. GainOfClaim(claim) \in Gains
  <2>1. \A sku \in Skus : KeptQuantity(claim, sku) \in Int
    BY <1>5 DEF GainOfClaim
  <2> QED
    BY <2>1 DEF GainOfClaim, Gains
<1> QED
  BY <1>2, <1>3, <1>5, <1>6

\* A return that is received puts back what can be sold again.
LEMMA RestockBooks ==
  ASSUME NEW w \in Warehouses, NEW r \in Returns, NEW claim \in Claims, NEW v,
         v = Restocking!Fold([rows |-> claim.items, doc |-> r, order |-> claim.order], w,
                             DOMAIN claim.items)
  PROVE  /\ Booked(w, v, r, GainOfClaim(claim)) /\ Told(w, v)
         /\ Kept(claim.items) # {} => Len(v.moves[r]) > Len(w.moves[r])
<1> DEFINE n == Len(claim.items)
           c == [rows |-> claim.items, doc |-> r, order |-> claim.order]
           f == [m \in 0..n |-> Restocking!Fold(c, w, 1..m)]
           step == ClaimStep(claim)
           on == Kept(claim.items)
<1>1. n \in Nat /\ DOMAIN claim.items = 1..n /\ n \in 0..n
  BY ClaimIs
<1>2. f[0] = w /\ \A m \in 1..n : f[m] = Restock(c, ItemAt(c, m), f[m - 1])
  <2>1. \A s \in SUBSET (1..n) : s # {} => Greatest(s) \in s /\ \A k \in s : k <= Greatest(s)
    BY <1>1, GreatestIsMax
  <2>2. n \in Nat
    BY <1>1
  <2>3. 0 \in 0..n /\ \A m \in 1..n : m \in 0..n /\ m - 1 \in 0..n
    BY <1>1
  <2> HIDE DEF n, c
  <2>4. /\ Restocking!Fold(c, w, 1..0) = w
        /\ \A m \in 1..n :
              Restocking!Fold(c, w, 1..m) = Restock(c, ItemAt(c, m), Restocking!Fold(c, w, 1..(m - 1)))
    BY ONLY <2>1, <2>2, Restocking!FoldUpward
  <2> QED
    BY <2>3, <2>4
<1>3. v = f[n]
  BY <1>1
<1> HIDE DEF f
<1>4. \A m \in 1..n :
         f[m] = IF ~claim.items[m].keep THEN f[m - 1]
                ELSE RestoreToShelfOnly(f[m - 1], r, Bought[claim.order][claim.items[m].line].sku,
                                        claim.items[m].quantity, "return")
  BY <1>2 DEF Restock, ItemAt
<1>5. /\ step \in [1..n -> StepRows] /\ on \in SUBSET (1..n) /\ r \in Orders
      /\ \A sku \in Skus : GainOf(step, on, n)[sku] = GainOfClaim(claim)[sku]
  BY ClaimStepsAre, DocumentsAre
<1>6. \A i \in 1..n : /\ step[i].sku = Bought[claim.order][claim.items[i].line].sku
                      /\ step[i].quantity = claim.items[i].quantity
                      /\ Bought[claim.order][claim.items[i].line].sku \in Skus
                      /\ claim.items[i].quantity \in Nat
                      /\ (i \in on <=> claim.items[i].keep)
  BY <1>1, ClaimIs DEF ClaimStep, Kept
<1> HIDE DEF step
<1>7. ASSUME NEW m \in 1..n, f[m - 1] \in Warehouses
      PROVE  /\ m \in on => TellingStep(f[m - 1], f[m], r, step[m].sku, step[m].quantity)
             /\ m \notin on => f[m] = f[m - 1]
  <2> DEFINE u == f[m - 1]
             x == f[m]
             sku == Bought[claim.order][claim.items[m].line].sku
             quantity == claim.items[m].quantity
  <2>1. /\ sku \in Skus /\ quantity \in Nat /\ step[m].sku = sku /\ step[m].quantity = quantity
        /\ u \in Warehouses
    BY <1>6, <1>7
  <2>2. /\ m \in on => x = RestoreToShelfOnly(u, r, sku, quantity, "return")
        /\ m \notin on => x = u
    BY <1>4, <1>6
  <2>3. "return" \in MoveTypes
    BY DEF MoveTypes
  <2> HIDE DEF u, x, sku, quantity, on
  <2>4. m \in on => MovedOne(u, x, r, sku, quantity) /\ Told(u, x)
    BY <1>5, <2>1, <2>2, <2>3, ShelfMoves
  <2> QED
    BY <2>1, <2>2, <2>4 DEF u, x, TellingStep
<1>8. /\ Booked(f[0], f[n], r, GainOf(step, on, n)) /\ Told(f[0], f[n])
      /\ on # {} => Len(f[n].moves[r]) > Len(f[0].moves[r])
  <2>1. f[0] \in Warehouses
    BY <1>2
  <2> HIDE DEF on
  <2> QED
    BY <1>1, <1>5, <1>7, <2>1, TellingAlong
<1>9. /\ Booked(w, v, r, GainOf(step, on, n)) /\ Told(w, v)
      /\ on # {} => Len(v.moves[r]) > Len(w.moves[r])
  BY <1>2, <1>3, <1>8
<1> QED
  BY <1>5, <1>9 DEF Booked

\* What it takes to have new[sku] in stock.
WriteGain(w, new) == [sku \in Skus |-> IF sku \in DOMAIN new THEN new[sku] - w.stock[sku] ELSE 0]
ToWrite(w, new) == {sku \in DOMAIN new : new[sku] # w.stock[sku]}

LEMMA WriteGainIs ==
  ASSUME NEW w \in Warehouses, NEW new \in SomeSkus
  PROVE  /\ WriteGain(w, new) \in Gains
         /\ DOMAIN new \in SUBSET Skus /\ IsFiniteSet(DOMAIN new)
         /\ ToWrite(w, new) \in SUBSET DOMAIN new
         /\ \A sku \in DOMAIN new : new[sku] \in Nat /\ new[sku] - w.stock[sku] \in Int
         /\ \A sku \in Skus : GainOn(ToWrite(w, new), [s \in DOMAIN new |-> new[s] - w.stock[s]])[sku]
                                = WriteGain(w, new)[sku]
<1>1. DOMAIN new \in SUBSET Skus /\ \A sku \in DOMAIN new : new[sku] \in Nat
  BY DEF SomeSkus
<1>2. w.stock \in [Skus -> Nat]
  BY DEF Warehouses
<1>3. \A sku \in DOMAIN new : new[sku] \in Nat /\ new[sku] - w.stock[sku] \in Int
  BY <1>1, <1>2
<1>4. WriteGain(w, new) \in Gains
  BY <1>1, <1>3 DEF WriteGain, Gains
<1>5. ToWrite(w, new) \in SUBSET DOMAIN new
  BY DEF ToWrite
<1>6. IsFiniteSet(DOMAIN new)
  BY <1>1, StocktakingAssumption, FS_Subset
<1>7. ASSUME NEW sku \in Skus
      PROVE  GainOn(ToWrite(w, new), [s \in DOMAIN new |-> new[s] - w.stock[s]])[sku]
                = WriteGain(w, new)[sku]
  <2>1. CASE sku \in ToWrite(w, new)
    BY <1>5, <2>1 DEF GainOn, WriteGain
  <2>2. CASE sku \notin ToWrite(w, new)
    <3>1. sku \in DOMAIN new => new[sku] - w.stock[sku] = 0
      BY <1>1, <1>2, <2>2 DEF ToWrite
    <3> QED
      BY <2>2, <3>1 DEF GainOn, WriteGain
  <2> QED
    BY <2>1, <2>2
<1> QED
  BY <1>1, <1>3, <1>4, <1>5, <1>6, <1>7

\* A count that is completed leaves every sku it has with what was counted.
LEMMA SettleBooks ==
  ASSUME NEW w \in Warehouses, NEW d \in Orders, NEW counted, NEW new \in SomeSkus,
         DOMAIN new = DOMAIN counted, \A sku \in DOMAIN new : new[sku] = counted[sku].quantity,
         NEW seq, seq = SetToSeq(DOMAIN counted), NEW v,
         v = Settled!Fold([rows |-> seq, doc |-> d, counted |-> counted], w, DOMAIN seq)
  PROVE  Booked(w, v, d, WriteGain(w, new))
<1> DEFINE n == Len(seq)
           c == [rows |-> seq, doc |-> d, counted |-> counted]
           f == [m \in 0..n |-> Settled!Fold(c, w, 1..m)]
           S == DOMAIN new
           chg == [s \in DOMAIN new |-> new[s] - w.stock[s]]
           mv == ToWrite(w, new)
<1>1. S \in SUBSET Skus /\ IsFiniteSet(S) /\ seq = SetToSeq(S) /\ mv \in SUBSET S
  BY WriteGainIs
<1>2. n \in Nat /\ DOMAIN seq = 1..n /\ n \in 0..n /\ \A m \in 1..n : seq[m] \in S
  <2>1. seq \in Seq(S)
    BY <1>1, AsSequence
  <2> QED
    BY <2>1
<1>3. f[0] = w /\ \A m \in 1..n : f[m] = Settle(c, ItemAt(c, m), f[m - 1])
  <2>1. \A s \in SUBSET (1..n) : s # {} => Greatest(s) \in s /\ \A k \in s : k <= Greatest(s)
    BY <1>2, GreatestIsMax
  <2>2. n \in Nat
    BY <1>2
  <2>3. 0 \in 0..n /\ \A m \in 1..n : m \in 0..n /\ m - 1 \in 0..n
    BY <1>2
  <2> HIDE DEF n, c
  <2>4. /\ Settled!Fold(c, w, 1..0) = w
        /\ \A m \in 1..n :
              Settled!Fold(c, w, 1..m) = Settle(c, ItemAt(c, m), Settled!Fold(c, w, 1..(m - 1)))
    BY ONLY <2>1, <2>2, Settled!FoldUpward
  <2> QED
    BY <2>3, <2>4
<1>4. v = f[n]
  BY <1>2
<1> HIDE DEF f
<1>5. \A m \in 1..n :
         f[m] = IF new[seq[m]] = f[m - 1].stock[seq[m]] THEN f[m - 1]
                ELSE PutStock(f[m - 1], d, seq[m], new[seq[m]],
                              new[seq[m]] - f[m - 1].stock[seq[m]], "adjustment")
  <2>1. \A m \in 1..n : new[seq[m]] = counted[seq[m]].quantity
    BY <1>2
  <2> QED
    BY <1>3, <2>1 DEF Settle, ItemAt
<1>6. /\ \A sku \in S : /\ chg[sku] = new[sku] - w.stock[sku] /\ chg[sku] \in Int /\ new[sku] \in Nat
                        /\ (sku \in mv <=> new[sku] # w.stock[sku])
      /\ \A sku \in Skus : GainOn(mv, chg)[sku] = WriteGain(w, new)[sku]
  BY WriteGainIs DEF ToWrite
<1> HIDE DEF chg, mv, S
<1>7. ASSUME NEW m \in 1..n, f[m - 1] \in Warehouses, f[m - 1].stock[seq[m]] = f[0].stock[seq[m]]
      PROVE  /\ seq[m] \in mv => MovedOne(f[m - 1], f[m], d, seq[m], chg[seq[m]])
             /\ seq[m] \notin mv => f[m] = f[m - 1]
  <2> DEFINE u == f[m - 1]
             x == f[m]
             sku == seq[m]
             stock == new[seq[m]]
             change == chg[seq[m]]
  <2>1. /\ sku \in Skus /\ u \in Warehouses /\ stock \in Nat
        /\ u.stock[sku] = w.stock[sku] /\ change = stock - u.stock[sku]
        /\ (sku \in mv <=> stock # u.stock[sku])
    BY <1>1, <1>2, <1>3, <1>6, <1>7
  <2>2. x = IF stock = u.stock[sku] THEN u
            ELSE PutStock(u, d, sku, stock, stock - u.stock[sku], "adjustment")
    BY <1>5
  <2>3. "adjustment" \in MoveTypes
    BY DEF MoveTypes
  <2> HIDE DEF u, x, sku, stock, change
  <2>4. sku \in mv => x = PutStock(u, d, sku, stock, change, "adjustment")
    BY <2>1, <2>2
  <2>5. sku \in mv => MovedOne(u, x, d, sku, change)
    BY <2>1, <2>3, <2>4, PutMoves
  <2>6. sku \notin mv => x = u
    BY <2>1, <2>2
  <2> QED
    BY <2>5, <2>6 DEF u, x, sku, change
<1>8. Booked(f[0], f[n], d, GainOn(mv, chg))
  <2>1. \A m \in DOMAIN seq :
           /\ f[m - 1] \in Warehouses /\ f[m - 1].stock[seq[m]] = f[0].stock[seq[m]]
           => /\ seq[m] \in mv => MovedOne(f[m - 1], f[m], d, seq[m], chg[seq[m]])
              /\ seq[m] \notin mv => f[m] = f[m - 1]
    BY <1>2, <1>7
  <2>2. f[0] \in Warehouses
    BY <1>3
  <2>3. \A sku \in S : chg[sku] \in Int
    BY <1>6
  <2> QED
    BY <1>1, <2>1, <2>2, <2>3, EachBooked
<1> QED
  BY <1>3, <1>4, <1>6, <1>8 DEF Booked

\* A change of many products leaves them with what was worked out, and tells
\* who waits for those of which there is more.
LEMMA ApplyBooks ==
  ASSUME NEW w \in Warehouses, NEW d \in Orders, NEW job, NEW new \in SomeSkus, job.new = new,
         NEW seq, seq = SetToSeq(DOMAIN new), NEW v,
         v = Applied!Fold([rows |-> seq, doc |-> d, job |-> job], w, DOMAIN seq)
  PROVE  /\ Booked(w, v, d, WriteGain(w, new)) /\ Told(w, v)
         /\ \A sku \in ToWrite(w, new) : LastIs(v, d, sku, new[sku] - w.stock[sku])
<1> DEFINE n == Len(seq)
           c == [rows |-> seq, doc |-> d, job |-> job]
           f == [m \in 0..n |-> Applied!Fold(c, w, 1..m)]
           S == DOMAIN new
           chg == [s \in DOMAIN new |-> new[s] - w.stock[s]]
           mv == ToWrite(w, new)
<1>1. S \in SUBSET Skus /\ IsFiniteSet(S) /\ seq = SetToSeq(S) /\ mv \in SUBSET S
  BY WriteGainIs
<1>2. n \in Nat /\ DOMAIN seq = 1..n /\ n \in 0..n /\ \A m \in 1..n : seq[m] \in S
  <2>1. seq \in Seq(S)
    BY <1>1, AsSequence
  <2> QED
    BY <2>1
<1>3. f[0] = w /\ \A m \in 1..n : f[m] = Apply(c, ItemAt(c, m), f[m - 1])
  <2>1. \A s \in SUBSET (1..n) : s # {} => Greatest(s) \in s /\ \A k \in s : k <= Greatest(s)
    BY <1>2, GreatestIsMax
  <2>2. n \in Nat
    BY <1>2
  <2>3. 0 \in 0..n /\ \A m \in 1..n : m \in 0..n /\ m - 1 \in 0..n
    BY <1>2
  <2> HIDE DEF n, c
  <2>4. /\ Applied!Fold(c, w, 1..0) = w
        /\ \A m \in 1..n :
              Applied!Fold(c, w, 1..m) = Apply(c, ItemAt(c, m), Applied!Fold(c, w, 1..(m - 1)))
    BY ONLY <2>1, <2>2, Applied!FoldUpward
  <2> QED
    BY <2>3, <2>4
<1>4. v = f[n]
  BY <1>2
<1> HIDE DEF f
<1>5. \A m \in 1..n : f[m] = ApplyRow(f[m - 1], d, job, seq[m])
  BY <1>3 DEF Apply, ItemAt
<1>6. /\ \A sku \in S : /\ chg[sku] = new[sku] - w.stock[sku] /\ chg[sku] \in Int /\ new[sku] \in Nat
                        /\ (sku \in mv <=> new[sku] # w.stock[sku])
      /\ \A sku \in Skus : GainOn(mv, chg)[sku] = WriteGain(w, new)[sku]
  BY WriteGainIs DEF ToWrite
<1> HIDE DEF chg, mv, S
\* One row, whatever the stock is by now.
<1>7. ASSUME NEW m \in 1..n, f[m - 1] \in Warehouses,
             NEW change, change = new[seq[m]] - f[m - 1].stock[seq[m]]
      PROVE  /\ change \in Int
             /\ change # 0 => MovedOne(f[m - 1], f[m], d, seq[m], change)
             /\ change = 0 => f[m] = f[m - 1]
             /\ Told(f[m - 1], f[m])
  <2> DEFINE u == f[m - 1]
             x == f[m]
             sku == seq[m]
             stock == new[seq[m]]
             moved == PutStock(u, d, sku, stock, change, "adjustment")
  <2>1. sku \in Skus /\ u \in Warehouses /\ stock \in Nat /\ change = stock - u.stock[sku]
    BY <1>1, <1>2, <1>6, <1>7
  <2>2. x = IF change = 0 THEN u ELSE IF change > 0 THEN Alert(moved, sku) ELSE moved
    BY <1>5, <1>7 DEF ApplyRow
  <2>3. "adjustment" \in MoveTypes
    BY DEF MoveTypes
  <2> HIDE DEF u, x, sku, stock
  <2>4. MovedOne(u, moved, d, sku, change)
    BY <2>1, <2>3, PutMoves
  <2> HIDE DEF moved
  <2>5. u.stock \in [Skus -> Nat] /\ change \in Int
    BY <2>1 DEF Warehouses
  <2>6. CASE change = 0
    <3>1. x = u
      BY <2>2, <2>6
    <3> QED
      BY <2>1, <2>5, <2>6, <3>1, ToldSelf DEF u, x
  <2>7. CASE change > 0
    <3>1. x = Alert(moved, sku)
      BY <2>2, <2>7
    <3>2. MovedOne(u, x, d, sku, change) /\ Told(u, x)
      BY <2>1, <2>4, <2>5, <3>1, AlertedMove
    <3> QED
      BY <2>5, <2>7, <3>2 DEF u, x, sku
  <2>8. CASE change # 0 /\ ~(change > 0)
    <3>1. x = moved
      BY <2>2, <2>8
    <3>2. x.stock = [u.stock EXCEPT ![sku] = @ + change]
      BY <2>4, <3>1 DEF MovedOne
    <3>3. \A s \in Skus : ~(x.stock[s] > u.stock[s])
      BY <2>1, <2>5, <2>8, <3>2
    <3>4. Told(u, x)
      BY <3>3 DEF Told
    <3> QED
      BY <2>4, <2>5, <2>8, <3>1, <3>4 DEF u, x, sku
  <2> QED
    BY <2>6, <2>7, <2>8
<1>8. ASSUME NEW m \in 1..n, f[m - 1] \in Warehouses, f[m - 1].stock[seq[m]] = f[0].stock[seq[m]]
      PROVE  /\ seq[m] \in mv => MovedOne(f[m - 1], f[m], d, seq[m], chg[seq[m]])
             /\ seq[m] \notin mv => f[m] = f[m - 1]
  <2>1. chg[seq[m]] = new[seq[m]] - f[m - 1].stock[seq[m]] /\ chg[seq[m]] \in Int
    BY <1>2, <1>3, <1>6, <1>8
  <2>2. seq[m] \in mv <=> chg[seq[m]] # 0
    <3>1. w.stock[seq[m]] \in Nat
      BY <1>1, <1>2 DEF Warehouses
    <3> QED
      BY <1>2, <1>6, <3>1
  <2>3. /\ chg[seq[m]] # 0 => MovedOne(f[m - 1], f[m], d, seq[m], chg[seq[m]])
        /\ chg[seq[m]] = 0 => f[m] = f[m - 1]
    BY <1>7, <1>8, <2>1
  <2> QED
    BY <2>2, <2>3
<1>9. /\ \A m \in 0..n : f[m] \in Warehouses
      /\ Booked(f[0], f[n], d, GainOn(mv, chg))
      /\ \A sku \in mv : LastIs(f[n], d, sku, chg[sku])
      /\ \A sku \in Skus \ mv : \A x : LastIs(f[0], d, sku, x) => LastIs(f[n], d, sku, x)
  <2>1. \A m \in DOMAIN seq :
           /\ f[m - 1] \in Warehouses /\ f[m - 1].stock[seq[m]] = f[0].stock[seq[m]]
           => /\ seq[m] \in mv => MovedOne(f[m - 1], f[m], d, seq[m], chg[seq[m]])
              /\ seq[m] \notin mv => f[m] = f[m - 1]
    BY <1>2, <1>8
  <2>2. f[0] \in Warehouses
    BY <1>3
  <2>3. \A sku \in S : chg[sku] \in Int
    BY <1>6
  <2> QED
    BY <1>1, <2>1, <2>2, <2>3, EachBooked
<1>10. Told(f[0], f[n])
  <2>1. ASSUME NEW m \in 1..n
        PROVE  f[m].waiting \subseteq f[m - 1].waiting /\ Told(f[m - 1], f[m])
    <3> DEFINE change == new[seq[m]] - f[m - 1].stock[seq[m]]
    <3>1. m - 1 \in 0..n
      BY <1>2
    <3>2. f[m - 1] \in Warehouses
      BY <1>9, <3>1
    <3>3. /\ change # 0 => MovedOne(f[m - 1], f[m], d, seq[m], change)
          /\ change = 0 => f[m] = f[m - 1]
          /\ Told(f[m - 1], f[m])
      BY <1>7, <3>2
    <3> HIDE DEF change
    <3> QED
      BY <3>3 DEF MovedOne
  <2> QED
    BY <1>2, <1>9, <2>1, ToldAlong
<1>11. \A sku \in mv : LastIs(v, d, sku, new[sku] - w.stock[sku])
  BY <1>1, <1>4, <1>6, <1>9
<1>12. Booked(w, v, d, WriteGain(w, new))
  BY <1>3, <1>4, <1>6, <1>9 DEF Booked
<1> QED
  BY <1>3, <1>4, <1>10, <1>11, <1>12 DEF mv

\* What is rolled back is moved back.
LEMMA UndoBooks ==
  ASSUME NEW w \in Warehouses, NEW d \in Orders, NEW S \in SUBSET Skus, NEW change, NEW before,
         \A sku \in S : /\ change[sku] \in Int /\ before[sku] \in Nat
                        /\ before[sku] = w.stock[sku] - change[sku],
         NEW seq, seq = SetToSeq(S), NEW back, \A sku \in S : back[sku] = - change[sku], NEW v,
         v = Undone!Fold([rows |-> seq, doc |-> d, before |-> before, change |-> change],
                         w, DOMAIN seq)
  PROVE  /\ Booked(w, v, d, GainOn(S, back))
         /\ \A sku \in S : LastIs(v, d, sku, - change[sku])
         /\ \A sku \in Skus \ S : \A x : LastIs(w, d, sku, x) => LastIs(v, d, sku, x)
<1> DEFINE n == Len(seq)
           c == [rows |-> seq, doc |-> d, before |-> before, change |-> change]
           f == [m \in 0..n |-> Undone!Fold(c, w, 1..m)]
<1>1. IsFiniteSet(S)
  BY StocktakingAssumption, FS_Subset
<1>2. n \in Nat /\ DOMAIN seq = 1..n /\ n \in 0..n /\ \A m \in 1..n : seq[m] \in S
  <2>1. seq \in Seq(S)
    BY <1>1, AsSequence
  <2> QED
    BY <2>1
<1>3. f[0] = w /\ \A m \in 1..n : f[m] = Undo(c, ItemAt(c, m), f[m - 1])
  <2>1. \A s \in SUBSET (1..n) : s # {} => Greatest(s) \in s /\ \A k \in s : k <= Greatest(s)
    BY <1>2, GreatestIsMax
  <2>2. n \in Nat
    BY <1>2
  <2>3. 0 \in 0..n /\ \A m \in 1..n : m \in 0..n /\ m - 1 \in 0..n
    BY <1>2
  <2> HIDE DEF n, c
  <2>4. /\ Undone!Fold(c, w, 1..0) = w
        /\ \A m \in 1..n :
              Undone!Fold(c, w, 1..m) = Undo(c, ItemAt(c, m), Undone!Fold(c, w, 1..(m - 1)))
    BY ONLY <2>1, <2>2, Undone!FoldUpward
  <2> QED
    BY <2>3, <2>4
<1>4. v = f[n]
  BY <1>2
<1> HIDE DEF f
<1>5. \A m \in 1..n :
         f[m] = PutStock(f[m - 1], d, seq[m], before[seq[m]], - change[seq[m]], "adjustment")
  BY <1>3 DEF Undo, ItemAt
<1>6. ASSUME NEW m \in 1..n, f[m - 1] \in Warehouses, f[m - 1].stock[seq[m]] = f[0].stock[seq[m]]
      PROVE  MovedOne(f[m - 1], f[m], d, seq[m], back[seq[m]])
  <2> DEFINE u == f[m - 1]
             x == f[m]
             sku == seq[m]
             stock == before[seq[m]]
             moved == back[seq[m]]
  <2>1. /\ sku \in Skus /\ u \in Warehouses /\ stock \in Nat /\ moved = - change[sku]
        /\ stock = w.stock[sku] - change[sku] /\ u.stock[sku] = w.stock[sku] /\ change[sku] \in Int
    BY <1>2, <1>3, <1>6
  <2>2. x = PutStock(u, d, sku, stock, moved, "adjustment")
    <3>1. x = PutStock(u, d, sku, stock, - change[sku], "adjustment")
      BY <1>5
    <3> QED
      BY <2>1, <3>1
  <2>3. "adjustment" \in MoveTypes
    BY DEF MoveTypes
  <2> HIDE DEF u, x, sku, stock, moved
  <2>4. u.stock[sku] \in Nat
    BY <2>1 DEF Warehouses
  <2>5. moved = stock - u.stock[sku]
    BY <2>1, <2>4
  <2>6. MovedOne(u, x, d, sku, moved)
    BY <2>1, <2>2, <2>3, <2>5, PutMoves
  <2> QED
    BY <2>6 DEF u, x, sku, moved
<1>7. /\ Booked(f[0], f[n], d, GainOn(S, back))
      /\ \A sku \in S : LastIs(f[n], d, sku, back[sku])
      /\ \A sku \in Skus \ S : \A x : LastIs(f[0], d, sku, x) => LastIs(f[n], d, sku, x)
  <2>1. \A m \in DOMAIN seq :
           /\ f[m - 1] \in Warehouses /\ f[m - 1].stock[seq[m]] = f[0].stock[seq[m]]
           => /\ seq[m] \in S => MovedOne(f[m - 1], f[m], d, seq[m], back[seq[m]])
              /\ seq[m] \notin S => f[m] = f[m - 1]
    BY <1>2, <1>6
  <2>2. f[0] \in Warehouses
    BY <1>3
  <2>3. (\A sku \in S : back[sku] \in Int) /\ S \in SUBSET S
    OBVIOUS
  <2> QED
    BY <1>1, <2>1, <2>2, <2>3, EachBooked
<1> QED
  BY <1>3, <1>4, <1>7
-----------------------------------------------------------------------------
(* What really comes back *)
Accounts == [order : OrderBooks, goods : [Skus -> Nat], drift : SUBSET Skus]

LEMMA HeldOf ==
  ASSUME NEW book \in OrderBooks, NEW o \in CustomerOrders, NEW held \in [Lines(o) -> Nat],
         NEW status \in {"none", "placed", "delivered", "cancelled"},
         NEW next, next = [book EXCEPT ![o] = [status |-> status, held |-> held]]
  PROVE  next \in OrderBooks
<1>1. book \in [CustomerOrders -> OrderRows] /\ \A p \in CustomerOrders : book[p].held \in [Lines(p) -> Nat]
  BY DEF OrderBooks
<1> DEFINE row == [status |-> status, held |-> held]
<1>2. row \in OrderRows /\ row.held = held
  <2>1. held \in UNION {[Lines(p) -> Nat] : p \in CustomerOrders}
    OBVIOUS
  <2> QED
    BY <2>1 DEF OrderRows
<1> HIDE DEF row
<1>3. next = [book EXCEPT ![o] = row]
  BY DEF row
<1>4. next \in [CustomerOrders -> OrderRows]
  BY <1>1, <1>2, <1>3
<1>5. \A p \in CustomerOrders : next[p].held \in [Lines(p) -> Nat]
  BY <1>1, <1>2, <1>3
<1> QED
  BY <1>4, <1>5 DEF OrderBooks

\* Changing the status of an order keeps what the customer holds.
LEMMA StatusOf ==
  ASSUME NEW book \in OrderBooks, NEW o \in CustomerOrders,
         NEW status \in {"none", "placed", "delivered", "cancelled"},
         NEW next, next = [book EXCEPT ![o].status = status]
  PROVE  next \in OrderBooks
<1>1. book \in [CustomerOrders -> OrderRows] /\ book[o].held \in [Lines(o) -> Nat]
  BY DEF OrderBooks
<1>2. book[o] \in OrderRows
  BY <1>1
<1>3. [book[o] EXCEPT !.status = status] = [status |-> status, held |-> book[o].held]
  BY <1>2 DEF OrderRows
<1>4. next = [book EXCEPT ![o] = [status |-> status, held |-> book[o].held]]
  <2>1. next = [book EXCEPT ![o] = [book[o] EXCEPT !.status = status]]
    BY <1>1
  <2> QED
    BY <1>3, <2>1
<1> DEFINE held == book[o].held
<1> HIDE DEF held
<1>5. held \in [Lines(o) -> Nat] /\ next = [book EXCEPT ![o] = [status |-> status, held |-> held]]
  BY <1>1, <1>4 DEF held
<1> QED
  BY <1>5, HeldOf

Brought(old, new, sku, quantity) ==
    \E back \in Nat :
        /\ new.goods = [old.goods EXCEPT ![sku] = @ + back]
        /\ sku \notin new.drift => back = quantity

\* One item: what the customer had of it is back, and if that was less than the
\* return says, the stock is no longer what is there.
LEMMA ArriveOne ==
  ASSUME NEW acc \in Accounts, NEW o \in CustomerOrders, NEW item, item.line \in Lines(o),
         item.quantity \in Nat, NEW x, x = Arrived(acc, o, item),
         NEW sku, sku = Bought[o][item.line].sku
  PROVE  /\ x \in Accounts /\ acc.drift \subseteq x.drift
         /\ item.keep => Brought(acc, x, sku, item.quantity)
         /\ ~item.keep => x.goods = acc.goods
<1> DEFINE line == item.line
           quantity == item.quantity
           old == acc.order[o]
           has == acc.order[o].held[line]
           back == Min({quantity, has})
           held == [acc.order[o].held EXCEPT ![line] = @ - back]
           orders == [acc.order EXCEPT ![o].held[line] = @ - back]
           shelves == IF item.keep THEN [acc.goods EXCEPT ![sku] = @ + back] ELSE acc.goods
           drifted == acc.drift \cup IF item.keep /\ back < quantity THEN {sku} ELSE {}
<1>1. /\ acc.order \in OrderBooks /\ acc.goods \in [Skus -> Nat] /\ acc.drift \in SUBSET Skus
  BY DEF Accounts
<1>2. acc.order \in [CustomerOrders -> OrderRows] /\ old.held \in [Lines(o) -> Nat] /\ old \in OrderRows
  BY <1>1 DEF OrderBooks
<1>3. has \in Nat /\ quantity \in Nat /\ sku \in Skus
  BY <1>2, LinesAre
<1>4. back \in Nat /\ back <= has /\ back <= quantity
  <2>1. CASE quantity <= has
    <3>1. \A n \in {quantity, has} : quantity <= n
      BY <1>3, <2>1
    <3>2. back \in {quantity, has} /\ \A n \in {quantity, has} : back <= n
      <4> HIDE DEF quantity, has
      <4> QED
        BY <3>1 DEF Min
    <3> HIDE DEF back, quantity, has
    <3> QED
      BY <1>3, <3>2
  <2>2. CASE ~(quantity <= has)
    <3>1. \A n \in {quantity, has} : has <= n
      BY <1>3, <2>2
    <3>2. back \in {quantity, has} /\ \A n \in {quantity, has} : back <= n
      <4> HIDE DEF quantity, has
      <4> QED
        BY <3>1 DEF Min
    <3> HIDE DEF back, quantity, has
    <3> QED
      BY <1>3, <3>2
  <2> QED
    BY <2>1, <2>2
<1>5. x = [order |-> orders, goods |-> shelves, drift |-> drifted]
  BY DEF Arrived
<1> HIDE DEF back
<1>6. held \in [Lines(o) -> Nat]
  <2>1. has - back \in Nat
    BY <1>3, <1>4
  <2>2. held = [acc.order[o].held EXCEPT ![line] = has - back]
    OBVIOUS
  <2> HIDE DEF has, held
  <2> QED
    BY <1>2, <2>1, <2>2
<1>7. orders = [acc.order EXCEPT ![o] = [status |-> old.status, held |-> held]]
  <2>1. orders = [acc.order EXCEPT ![o] = [old EXCEPT !.held = held]]
    BY <1>2 DEF OrderRows
  <2>2. [old EXCEPT !.held = held] = [status |-> old.status, held |-> held]
    <3> HIDE DEF old, held
    <3> QED
      BY <1>2 DEF OrderRows
  <2> QED
    BY <2>1, <2>2
<1> HIDE DEF held, orders
<1>8. orders \in OrderBooks
  <2>1. old.status \in {"none", "placed", "delivered", "cancelled"}
    <3> HIDE DEF old
    <3> QED
      BY <1>2 DEF OrderRows
  <2> QED
    BY <1>1, <1>6, <1>7, <2>1, HeldOf
<1>9. shelves \in [Skus -> Nat] /\ drifted \in SUBSET Skus
  <2>1. [acc.goods EXCEPT ![sku] = @ + back] \in [Skus -> Nat]
    BY <1>1, <1>3, <1>4
  <2> QED
    BY <1>1, <1>3, <2>1
<1>10. x.order = orders /\ x.goods = shelves /\ x.drift = drifted
  BY <1>5
<1>11. x \in Accounts
  BY <1>5, <1>8, <1>9 DEF Accounts
<1>12. item.keep => Brought(acc, x, sku, item.quantity)
  <2> SUFFICES ASSUME item.keep
               PROVE  /\ x.goods = [acc.goods EXCEPT ![sku] = @ + back]
                      /\ sku \notin x.drift => back = quantity
    BY <1>4 DEF Brought
  <2>1. sku \notin x.drift => ~(back < quantity)
    BY <1>10
  <2> QED
    BY <1>3, <1>4, <1>10, <2>1
<1> QED
  BY <1>10, <1>11, <1>12

\* All items of a claim.
LEMMA ArriveAll ==
  ASSUME NEW acc \in Accounts, NEW claim \in Claims, NEW x,
         x = Arriving!Fold([rows |-> claim.items, order |-> claim.order], acc, DOMAIN claim.items)
  PROVE  /\ x \in Accounts /\ acc.drift \subseteq x.drift
         /\ \A sku \in Skus \ x.drift : x.goods[sku] = acc.goods[sku] + GainOfClaim(claim)[sku]
         /\ \A sku \in Skus : (\A i \in Kept(claim.items) :
                                  Bought[claim.order][claim.items[i].line].sku # sku) =>
               x.goods[sku] = acc.goods[sku]
<1> DEFINE n == Len(claim.items)
           c == [rows |-> claim.items, order |-> claim.order]
           f == [m \in 0..n |-> Arriving!Fold(c, acc, 1..m)]
           step == ClaimStep(claim)
           on == Kept(claim.items)
           Q == {m \in 0..n :
                    /\ f[m] \in Accounts /\ acc.drift \subseteq f[m].drift
                    /\ \A sku \in Skus \ f[m].drift :
                          f[m].goods[sku] = acc.goods[sku] + GainOf(step, on, m)[sku]
                    /\ \A sku \in Skus : (\A i \in on : step[i].sku # sku) =>
                          f[m].goods[sku] = acc.goods[sku]}
<1>1. n \in Nat /\ DOMAIN claim.items = 1..n /\ n \in 0..n
  BY ClaimIs
<1>2. f[0] = acc /\ \A m \in 1..n : f[m] = Arrive(c, ItemAt(c, m), f[m - 1])
  <2>1. \A s \in SUBSET (1..n) : s # {} => Greatest(s) \in s /\ \A k \in s : k <= Greatest(s)
    BY <1>1, GreatestIsMax
  <2>2. n \in Nat
    BY <1>1
  <2>3. 0 \in 0..n /\ \A m \in 1..n : m \in 0..n /\ m - 1 \in 0..n
    BY <1>1
  <2> HIDE DEF n, c, Q
  <2>4. /\ Arriving!Fold(c, acc, 1..0) = acc
        /\ \A m \in 1..n :
              Arriving!Fold(c, acc, 1..m) = Arrive(c, ItemAt(c, m), Arriving!Fold(c, acc, 1..(m - 1)))
    BY ONLY <2>1, <2>2, Arriving!FoldUpward
  <2> QED
    BY <2>3, <2>4
<1>3. x = f[n]
  BY <1>1
<1> HIDE DEF f
<1>4. \A m \in 1..n : f[m] = Arrived(f[m - 1], claim.order, claim.items[m])
  BY <1>2 DEF Arrive, ItemAt
<1>5. /\ step \in [1..n -> StepRows] /\ on \in SUBSET (1..n)
      /\ \A sku \in Skus : GainOf(step, on, n)[sku] = GainOfClaim(claim)[sku]
  BY ClaimStepsAre
<1>6. \A i \in 1..n : /\ step[i].sku = Bought[claim.order][claim.items[i].line].sku
                      /\ step[i].quantity = claim.items[i].quantity
                      /\ step[i].sku \in Skus
                      /\ claim.items[i].quantity \in Nat
                      /\ claim.items[i].line \in Lines(claim.order)
                      /\ (i \in on <=> claim.items[i].keep)
  BY <1>1, ClaimIs DEF ClaimStep, Kept
<1>7. claim.order \in CustomerOrders
  BY ClaimIs
<1> HIDE DEF step, on
<1>8. /\ \A m \in 0..n : GainOf(step, on, m) \in Gains
      /\ \A sku \in Skus : GainOf(step, on, 0)[sku] = 0
      /\ \A m \in 1..n : \A sku \in Skus :
            GainOf(step, on, m)[sku] = GainOf(step, on, m - 1)[sku]
                + IF m \in on THEN Single(step[m].sku, step[m].quantity)[sku] ELSE 0
  <2>1. n \in Nat /\ step \in [1..n -> StepRows] /\ on \in SUBSET (1..n)
    BY <1>1, <1>5
  <2> HIDE DEF n, Q
  <2>2. \A m \in 0..n : GainOf(step, on, m) \in Gains
    BY <2>1, GainGrows
  <2>3. \A sku \in Skus : GainOf(step, on, 0)[sku] = 0
    BY <2>1, GainGrows
  <2>4. GrowsBy(n, step, on)
    BY <2>1, GainGrows
  <2> QED
    BY <2>2, <2>3, <2>4 DEF GrowsBy
<1>9. 0 \in Q
  <2>1. \A sku \in Skus : acc.goods[sku] \in Nat
    BY DEF Accounts
  <2>2. 0 \in 0..n
    BY <1>1
  <2> QED
    BY <1>2, <1>8, <2>1, <2>2
<1>10. ASSUME NEW m \in 1..n, m - 1 \in Q
       PROVE  m \in Q
  <2> DEFINE u == f[m - 1]
             v == f[m]
             g == GainOf(step, on, m - 1)
             h == GainOf(step, on, m)
             item == claim.items[m]
             met == step[m].sku
             quantity == step[m].quantity
  <2>1. /\ u \in Accounts /\ acc.drift \subseteq u.drift
        /\ \A sku \in Skus \ u.drift : u.goods[sku] = acc.goods[sku] + g[sku]
        /\ \A sku \in Skus : (\A i \in on : step[i].sku # sku) => u.goods[sku] = acc.goods[sku]
    BY <1>10
  <2>2. v = Arrived(u, claim.order, item)
    BY <1>4
  <2>3. /\ met = Bought[claim.order][item.line].sku /\ met \in Skus /\ quantity = item.quantity
        /\ item.quantity \in Nat /\ item.line \in Lines(claim.order)
        /\ (m \in on <=> item.keep)
    BY <1>6
  <2>4. \A sku \in Skus : h[sku] = g[sku] + IF m \in on THEN Single(met, quantity)[sku] ELSE 0
    BY <1>8
  <2>5. m - 1 \in 0..n /\ m \in 0..n
    BY <1>1
  <2>6. g \in Gains
    BY <1>8, <2>5
  <2>7. acc.goods \in [Skus -> Nat] /\ u.goods \in [Skus -> Nat]
    BY <2>1 DEF Accounts
  <2> HIDE DEF u, v, g, h, item, met, quantity, Q
  <2>8. /\ v \in Accounts /\ u.drift \subseteq v.drift
        /\ item.keep => Brought(u, v, met, item.quantity)
        /\ ~item.keep => v.goods = u.goods
    <3> DEFINE o == claim.order
    <3> HIDE DEF o
    <3>1. o \in CustomerOrders /\ item.line \in Lines(o) /\ item.quantity \in Nat
      BY <1>7, <2>3 DEF o
    <3>2. v = Arrived(u, o, item) /\ met = Bought[o][item.line].sku
      BY <2>2, <2>3 DEF o
    <3> QED
      BY <2>1, <3>1, <3>2, ArriveOne
  <2>9. ASSUME NEW sku \in Skus, sku \notin v.drift
        PROVE  v.goods[sku] = acc.goods[sku] + h[sku]
    <3>1. u.goods[sku] = acc.goods[sku] + g[sku] /\ g[sku] \in Int /\ acc.goods[sku] \in Nat
      BY <2>1, <2>6, <2>7, <2>8, <2>9 DEF Gains
    <3>2. CASE item.keep
      <4>1. PICK back \in Nat : /\ v.goods = [u.goods EXCEPT ![met] = @ + back]
                                /\ met \notin v.drift => back = item.quantity
        BY <2>8, <3>2 DEF Brought
      <4>2. h[sku] = g[sku] + IF sku = met THEN item.quantity ELSE 0
        BY <2>3, <2>4, <3>2 DEF Single
      <4>3. v.goods[sku] = u.goods[sku] + IF sku = met THEN item.quantity ELSE 0
        BY <2>3, <2>7, <2>9, <4>1
      <4> QED
        BY <2>3, <3>1, <4>2, <4>3
    <3>3. CASE ~item.keep
      <4>1. h[sku] = g[sku]
        BY <2>3, <2>4, <3>1, <3>3
      <4> QED
        BY <2>8, <3>1, <3>3, <4>1
    <3> QED
      BY <3>2, <3>3
  <2>10. ASSUME NEW sku \in Skus, \A i \in on : step[i].sku # sku
         PROVE  v.goods[sku] = acc.goods[sku]
    <3>1. u.goods[sku] = acc.goods[sku]
      BY <2>1, <2>10
    <3>2. CASE item.keep
      <4>1. sku # met
        BY <2>3, <2>10, <3>2 DEF met
      <4> QED
        BY <2>7, <2>8, <3>1, <3>2, <4>1 DEF Brought
    <3>3. CASE ~item.keep
      BY <2>8, <3>1, <3>3
    <3> QED
      BY <3>2, <3>3
  <2>11. acc.drift \subseteq v.drift
    BY <2>1, <2>8
  <2> QED
    BY <2>5, <2>8, <2>9, <2>10, <2>11 DEF Q, v, h
<1> HIDE DEF Q
<1>11. \A m \in 0..n : m \in Q
  BY <1>1, <1>9, <1>10, CountingUp
<1>12. /\ f[n] \in Accounts /\ acc.drift \subseteq f[n].drift
       /\ \A sku \in Skus \ f[n].drift : f[n].goods[sku] = acc.goods[sku] + GainOf(step, on, n)[sku]
       /\ \A sku \in Skus : (\A i \in on : step[i].sku # sku) => f[n].goods[sku] = acc.goods[sku]
  BY <1>1, <1>11 DEF Q
<1>13. ASSUME NEW sku \in Skus, \A i \in Kept(claim.items) :
                                  Bought[claim.order][claim.items[i].line].sku # sku
       PROVE  f[n].goods[sku] = acc.goods[sku]
  <2>1. \A i \in on : step[i].sku # sku
    BY <1>5, <1>6, <1>13 DEF on
  <2> QED
    BY <1>12, <2>1
<1>14. \A sku \in Skus \ f[n].drift : f[n].goods[sku] = acc.goods[sku] + GainOfClaim(claim)[sku]
  BY <1>5, <1>12
<1> QED
  BY <1>3, <1>12, <1>13, <1>14
-----------------------------------------------------------------------------
(* The shelves, and those who count them *)
\* No count is younger than the shelves, and no shelf changes unnoticed.
Onward ==
    \A sku \in Skus : /\ shifts[sku] <= shifts'[sku]
                      /\ shifts'[sku] = shifts[sku] => goods'[sku] = goods[sku]

LEMMA ShiftedIs ==
  ASSUME ShelfTypes, NEW moved \in SUBSET Skus, shifts' = Shifted(moved)
  PROVE  /\ shifts' \in [Skus -> Nat]
         /\ \A sku \in Skus : /\ shifts[sku] <= shifts'[sku]
                              /\ shifts'[sku] = shifts[sku] => sku \notin moved
<1>1. shifts \in [Skus -> Nat]
  BY DEF ShelfTypes
<1>2. \A sku \in Skus : shifts'[sku] = shifts[sku] + IF sku \in moved THEN 1 ELSE 0
  BY DEF Shifted
<1>3. shifts' = [sku \in Skus |-> shifts[sku] + IF sku \in moved THEN 1 ELSE 0]
  BY DEF Shifted
<1>4. \A sku \in Skus : shifts[sku] + (IF sku \in moved THEN 1 ELSE 0) \in Nat
  BY <1>1
<1>5. shifts' \in [Skus -> Nat]
  BY <1>3, <1>4
<1> QED
  BY <1>1, <1>2, <1>5

\* A transaction that books what happened on the shelves.
LEMMA ShelvesStay ==
  ASSUME ShelfTypes, ShelvesMatch, NEW g \in Gains, NEW d \in Orders,
         Booked(warehouse, warehouse', d, g),
         NEW change, NEW overwritten \in SUBSET Skus, Moved(change, overwritten),
         DOMAIN change \in SUBSET Skus, \A sku \in DOMAIN change : change[sku] \in Int,
         \A sku \in Skus \ overwritten : g[sku] = IF sku \in DOMAIN change THEN change[sku] ELSE 0
  PROVE  ShelfTypes' /\ ShelvesMatch' /\ Onward
<1>1. /\ warehouse \in Warehouses /\ goods \in [Skus -> Nat] /\ shifts \in [Skus -> Nat]
      /\ drift \subseteq Skus /\ warehouse.stock \in [Skus -> Nat]
  BY DEF ShelfTypes, Warehouses
<1>2. /\ goods' = [sku \in Skus |-> IF sku \notin DOMAIN change THEN goods[sku]
                                    ELSE IF goods[sku] + change[sku] >= 0
                                         THEN goods[sku] + change[sku] ELSE 0]
      /\ shifts' = Shifted(DOMAIN change)
      /\ drift' = drift \cup overwritten
                    \cup {sku \in DOMAIN change : ~(goods[sku] + change[sku] >= 0)}
  BY DEF Moved
<1>3. /\ warehouse' \in Warehouses
      /\ \A sku \in Skus : warehouse'.stock[sku] = warehouse.stock[sku] + g[sku]
  BY DEF Booked
<1>4. goods' \in [Skus -> Nat]
  <2>1. \A sku \in Skus : (IF sku \notin DOMAIN change THEN goods[sku]
                           ELSE IF goods[sku] + change[sku] >= 0
                                THEN goods[sku] + change[sku] ELSE 0) \in Nat
    BY <1>1
  <2> QED
    BY <1>2, <2>1
<1>5. /\ shifts' \in [Skus -> Nat]
      /\ \A sku \in Skus : /\ shifts[sku] <= shifts'[sku]
                           /\ shifts'[sku] = shifts[sku] => sku \notin DOMAIN change
  <2> DEFINE moved == DOMAIN change
  <2> HIDE DEF moved
  <2>1. moved \in SUBSET Skus /\ shifts' = Shifted(moved)
    BY <1>2 DEF moved
  <2>2. /\ shifts' \in [Skus -> Nat]
        /\ \A sku \in Skus : /\ shifts[sku] <= shifts'[sku]
                             /\ shifts'[sku] = shifts[sku] => sku \notin moved
    BY <2>1, ShiftedIs
  <2> QED
    BY <2>2 DEF moved
<1>6. drift' \subseteq Skus
  BY <1>1, <1>2
<1>7. ShelfTypes'
  BY <1>3, <1>4, <1>5, <1>6 DEF ShelfTypes
<1>8. Onward
  BY <1>2, <1>5 DEF Onward
<1>9. ASSUME NEW sku \in Skus, sku \notin drift'
      PROVE  warehouse'.stock[sku] = goods'[sku]
  <2>1. /\ sku \notin drift /\ sku \notin overwritten
        /\ sku \in DOMAIN change => goods[sku] + change[sku] >= 0
    BY <1>2, <1>9
  <2>2. warehouse.stock[sku] = goods[sku] /\ goods[sku] \in Nat
    BY <1>1, <2>1 DEF ShelvesMatch
  <2>3. goods'[sku] = goods[sku] + IF sku \in DOMAIN change THEN change[sku] ELSE 0
    BY <1>2, <2>1, <2>2
  <2> QED
    BY <1>3, <2>1, <2>2, <2>3
<1>10. ShelvesMatch'
  BY <1>9 DEF ShelvesMatch
<1> QED
  BY <1>7, <1>8, <1>10

\* A step that leaves the shelves alone.
LEMMA ShelvesUnmoved ==
  ASSUME ShelfTypes, ShelvesMatch, warehouse' = warehouse, goods' = goods, shifts' = shifts,
         drift' = drift
  PROVE  ShelfTypes' /\ ShelvesMatch' /\ Onward
<1>1. ShelfTypes' /\ ShelvesMatch'
  BY DEF ShelfTypes, ShelvesMatch
<1>2. \A sku \in Skus : shifts[sku] \in Nat
  BY DEF ShelfTypes
<1> QED
  BY <1>1, <1>2 DEF Onward

LEMMA StaysRight ==
  ASSUME ShelfTypes, ShelfTypes', Onward, NEW row, row.at \in Nat, NEW sku \in Skus,
         RightIn(shifts, goods, row, sku)
  PROVE  RightIn(shifts', goods', row, sku)
<1>1. shifts[sku] \in Nat /\ shifts'[sku] \in Nat
  BY DEF ShelfTypes
<1>2. row.at <= shifts[sku] /\ (row.at = shifts[sku] => row.quantity = goods[sku])
  BY DEF RightIn
<1>3. shifts[sku] <= shifts'[sku] /\ (shifts'[sku] = shifts[sku] => goods'[sku] = goods[sku])
  BY DEF Onward
<1>4. row.at <= shifts'[sku] /\ (row.at = shifts'[sku] => row.at = shifts[sku] /\ shifts'[sku] = shifts[sku])
  BY <1>1, <1>2, <1>3
<1> QED
  BY <1>2, <1>3, <1>4 DEF RightIn

LEMMA CountableSkus ==
  /\ Countable \subseteq Skus
BY StocktakingAssumption DEF Countable, Skus

LEMMA CountOf ==
  ASSUME CountTypes, NEW c \in Counts
  PROVE  /\ count[c].status \in {"none", "draft", "completed", "cancelled"}
         /\ DOMAIN count[c].counted \in SUBSET Countable
         /\ count[c].counted \in [DOMAIN count[c].counted -> CountRows]
         /\ count[c] = [status |-> count[c].status, counted |-> count[c].counted]
         /\ \A sku \in DOMAIN count[c].counted : /\ sku \in Skus
                                                 /\ count[c].counted[sku].quantity \in Nat
                                                 /\ count[c].counted[sku].at \in Nat
<1> DEFINE All == UNION {[S -> CountRows] : S \in SUBSET Countable}
           Status == {"none", "draft", "completed", "cancelled"}
<1>1. count[c] \in [status : Status, counted : All]
  BY DEF CountTypes
<1> DEFINE row == count[c]
           counted == row.counted
<1> HIDE DEF row, Status
<1>2. row.status \in Status /\ counted \in All /\ row = [status |-> row.status, counted |-> counted]
  <2> HIDE DEF All
  <2> QED
    BY <1>1 DEF row
<1> HIDE DEF counted
<1>3. PICK S \in SUBSET Countable : counted \in [S -> CountRows]
  BY <1>2
<1>4. DOMAIN counted \in SUBSET Countable /\ counted \in [DOMAIN counted -> CountRows]
  BY <1>3
<1>5. \A sku \in DOMAIN counted : /\ sku \in Skus
                                  /\ counted[sku].quantity \in Nat /\ counted[sku].at \in Nat
  <2>1. \A r \in CountRows : r.quantity \in Nat /\ r.at \in Nat
    BY DEF CountRows
  <2> QED
    BY <1>4, <2>1, CountableSkus
<1> QED
  BY <1>2, <1>4, <1>5 DEF counted, row, Status

\* What is counted, or about to be recorded, is right as long as it is fresh.
LEMMA CountsStay ==
  ASSUME ShelfTypes, ShelfTypes', Onward, CountTypes, ClerkTypes, CountsHold,
         \A c \in Counts : \A sku \in DOMAIN count'[c].counted :
            \/ sku \in DOMAIN count[c].counted /\ count'[c].counted[sku] = count[c].counted[sku]
            \/ RightIn(shifts', goods', count'[c].counted[sku], sku),
         \A k \in Clerks : clerk'[k].job = "record" =>
            clerk'[k] = clerk[k] \/ RightIn(shifts', goods', clerk'[k], clerk'[k].sku)
  PROVE  CountsHold'
<1>1. ASSUME NEW c \in Counts, NEW sku \in DOMAIN count'[c].counted
      PROVE  RightIn(shifts', goods', count'[c].counted[sku], sku)
  <2>1. CASE sku \in DOMAIN count[c].counted /\ count'[c].counted[sku] = count[c].counted[sku]
    <3> DEFINE row == count[c].counted[sku]
    <3>1. RightIn(shifts, goods, row, sku) /\ row.at \in Nat /\ sku \in Skus
      BY <2>1, CountOf DEF CountsHold
    <3>2. count'[c].counted[sku] = row
      BY <2>1
    <3> HIDE DEF row
    <3>3. RightIn(shifts', goods', row, sku)
      BY <3>1, StaysRight
    <3> QED
      BY <3>2, <3>3
  <2> QED
    BY <2>1
<1>2. ASSUME NEW k \in Clerks, clerk'[k].job = "record"
      PROVE  RightIn(shifts', goods', clerk'[k], clerk'[k].sku)
  <2>1. CASE clerk'[k] = clerk[k]
    <3> DEFINE row == clerk[k]
               sku == clerk[k].sku
    <3>1. row \in Jobs /\ row.job = "record" /\ sku \in Skus
      BY <1>2, <2>1, CountableSkus DEF ClerkTypes
    <3>2. RightIn(shifts, goods, row, sku)
      BY <3>1 DEF CountsHold
    <3>3. clerk'[k] = row /\ clerk'[k].sku = sku
      BY <2>1
    <3> HIDE DEF row, sku
    <3>4. row.at \in Nat
      BY <3>1 DEF Jobs, Idle
    <3>5. RightIn(shifts', goods', row, sku)
      BY <3>1, <3>2, <3>4, StaysRight
    <3> QED
      BY <3>3, <3>5
  <2> QED
    BY <1>2, <2>1
<1> QED
  BY <1>1, <1>2 DEF CountsHold
-----------------------------------------------------------------------------
(* What a step says of a document it does not touch *)
LEMMA ReturnStays ==
  ASSUME NEW w, NEW v, NEW row, NEW r, v.moves[r] = w.moves[r], ReturnFits(w, row, r)
  PROVE  ReturnFits(v, row, r)
<1>1. \A sku \in Skus : NetOf(v, r, sku) = NetOf(w, r, sku)
  BY NetIsSum
<1>2. CASE row.status \notin {"received", "refunded"}
  BY <1>2 DEF ReturnFits
<1>3. CASE ~(row.status \notin {"received", "refunded"})
  <2>1. ReceivedInWhole(w, row, r)
    BY <1>3 DEF ReturnFits
  <2>2. PICK times \in 1..MaxMoves :
           /\ \A sku \in Skus : NetOf(w, r, sku) = times * KeptQuantity(row.claim, sku)
           /\ \/ times <= Len(w.moves[r])
              \/ times = 1 /\ Kept(row.claim.items) = {}
    BY <2>1 DEF ReceivedInWhole
  <2>3. \A sku \in Skus : NetOf(v, r, sku) = times * KeptQuantity(row.claim, sku)
    BY <1>1, <2>2
  <2>4. \/ times <= Len(v.moves[r])
        \/ times = 1 /\ Kept(row.claim.items) = {}
    BY <2>2
  <2>5. ReceivedInWhole(v, row, r)
    BY <2>3, <2>4 DEF ReceivedInWhole
  <2> QED
    BY <1>3, <2>5 DEF ReturnFits
<1> QED
  BY <1>2, <1>3

LEMMA ReturnsStay ==
  ASSUME ReturnsHold, NEW d,
         \A r \in Returns \ {d} : /\ return'[r] = return[r]
                                  /\ warehouse'.moves[r] = warehouse.moves[r],
         d \in Returns => ReturnFits(warehouse', return'[d], d)
  PROVE  ReturnsHold'
<1>1. ASSUME NEW r \in Returns
      PROVE  ReturnFits(warehouse', return'[r], r)
  <2>1. CASE r = d
    BY <2>1
  <2>2. CASE r # d
    <3> DEFINE w == warehouse
               v == warehouse'
               row == return[r]
    <3>1. ReturnFits(w, row, r) /\ v.moves[r] = w.moves[r] /\ return'[r] = row
      BY <2>2 DEF ReturnsHold
    <3> HIDE DEF w, v, row
    <3>2. ReturnFits(v, row, r)
      BY <3>1, ReturnStays
    <3> QED
      BY <3>1, <3>2 DEF v
  <2> QED
    BY <2>1, <2>2
<1> QED
  BY <1>1 DEF ReturnsHold

LEMMA BulkStays ==
  ASSUME NEW w, NEW v, NEW row, NEW b, v.moves[b] = w.moves[b], BulkFits(w, row, b)
  PROVE  BulkFits(v, row, b)
<1>1. \A sku \in Skus : NetOf(v, b, sku) = NetOf(w, b, sku)
  BY NetIsSum
<1>2. \A sku, x : LastIs(w, b, sku, x) <=> LastIs(v, b, sku, x)
  BY DEF LastIs
<1>3. row.status = "none" => v.moves[b] = <<>> /\ row.rolls = 0 /\ DOMAIN row.after = {}
  BY DEF BulkFits
<1>4. \A sku \in DOMAIN row.after :
         \E x \in Int : LastIs(v, b, sku, x) /\ row.after[sku] - x \in Nat
  BY <1>2 DEF BulkFits
<1>5. row.rolls = 0 =>
          /\ row.status \in {"none", "completed"}
          /\ \A sku \in Skus :
                IF sku \in DOMAIN row.after
                THEN LastIs(v, b, sku, NetOf(v, b, sku))
                ELSE NetOf(v, b, sku) = 0
  BY <1>1, <1>2 DEF BulkFits
<1>6. row.status = "rolled_back" /\ row.rolls = 1 => \A sku \in Skus : NetOf(v, b, sku) = 0
  BY <1>1 DEF BulkFits
<1> QED
  BY <1>3, <1>4, <1>5, <1>6 DEF BulkFits

LEMMA BulksStay ==
  ASSUME BulksHold, NEW d,
         \A b \in Bulks \ {d} : /\ bulk'[b] = bulk[b]
                                /\ warehouse'.moves[b] = warehouse.moves[b],
         d \in Bulks => BulkFits(warehouse', bulk'[d], d)
  PROVE  BulksHold'
<1>1. ASSUME NEW b \in Bulks
      PROVE  BulkFits(warehouse', bulk'[b], b)
  <2>1. CASE b = d
    BY <2>1
  <2>2. CASE b # d
    <3> DEFINE w == warehouse
               v == warehouse'
               row == bulk[b]
    <3>1. BulkFits(w, row, b) /\ v.moves[b] = w.moves[b] /\ bulk'[b] = row
      BY <2>2 DEF BulksHold
    <3> HIDE DEF w, v, row
    <3>2. BulkFits(v, row, b)
      BY <3>1, BulkStays
    <3> QED
      BY <3>1, <3>2 DEF v
  <2> QED
    BY <2>1, <2>2
<1> QED
  BY <1>1 DEF BulksHold

\* Clerks who are still about to file something found nothing of it on file.
LEMMA StillNotFiled ==
  ASSUME NotFiledYet,
         \A k \in Clerks : clerk'[k].job \in {"return", "bulk"} => clerk'[k] = clerk[k],
         \A k \in Clerks : clerk'[k].job = "return" =>
            return'[clerk[k].doc].status = return[clerk[k].doc].status,
         \A k \in Clerks : clerk'[k].job = "bulk" =>
            bulk'[clerk[k].doc].status = bulk[clerk[k].doc].status
  PROVE  NotFiledYet'
<1>1. \A k, l \in Clerks : clerk'[k].job = "return" /\ clerk'[l].job = "return"
                              /\ clerk'[k].doc = clerk'[l].doc => k = l
  BY DEF NotFiledYet, OneFiles
<1>2. \A k, l \in Clerks : clerk'[k].job = "bulk" /\ clerk'[l].job = "bulk"
                              /\ clerk'[k].doc = clerk'[l].doc => k = l
  BY DEF NotFiledYet, OneFiles
<1>3. ASSUME NEW k \in Clerks
      PROVE  /\ clerk'[k].job = "return" => return'[clerk'[k].doc].status = "none"
             /\ clerk'[k].job = "bulk" => bulk'[clerk'[k].doc].status = "none"
  BY DEF NotFiledYet
<1> QED
  BY <1>1, <1>2, <1>3 DEF NotFiledYet, OneFiles

LEMMA FewMoves ==
  ASSUME ShelfTypes, MayMove, NEW d \in Orders
  PROVE  Len(warehouse.moves[d]) < MaxMoves
<1> DEFINE w == warehouse
<1>1. MapThenSumSet(LAMBDA p : Len(warehouse.moves[p]), Orders) = Lengths!Sum(w, Orders)
  BY DEF MapThenSumSet, MapThenFoldSet, Lengths!Sum, Lengths!Fold, Lengths!MapThenFoldSet,
         LengthAt, Plus, Some
<1>2. \A p \in Orders : LengthAt(w, p) \in Nat
  BY DEF ShelfTypes, Warehouses, LengthAt
<1>3. IsFiniteSet(Orders)
  BY StocktakingAssumption
<1>4. LengthAt(w, d) = Len(warehouse.moves[d])
  BY DEF LengthAt
<1>5. Lengths!Sum(w, Orders) < MaxMoves
  BY <1>1 DEF MayMove
<1> HIDE DEF w
<1>6. Lengths!Sum(w, {d}) = LengthAt(w, d)
  BY <1>2, AllAdd, Lengths!SumOne
<1>7. {d} \in SUBSET Orders
  OBVIOUS
<1>8. Lengths!Sum(w, {d}) <= Lengths!Sum(w, Orders)
  BY <1>2, <1>3, <1>7, SameFinite, AllAdd, Lengths!SumPart
<1>9. Lengths!Sum(w, Orders) \in Nat /\ LengthAt(w, d) \in Nat
  BY <1>2, <1>3, SameFinite, AllAdd, Lengths!SumNat
<1>10. MaxMoves \in Nat
  BY StocktakingAssumption
<1> QED
  BY <1>4, <1>5, <1>6, <1>8, <1>9, <1>10
-----------------------------------------------------------------------------
(* What the returns of an order claim *)
StandingIn(book, statuses, o) ==
    {r \in Returns : book[r].status \in statuses /\ book[r].claim.order = o}
ClaimedIn(book, statuses, o, i) ==
    MapThenSumSet(LAMBDA r : Quantity(book[r].claim, i), StandingIn(book, statuses, o))

LEMMA ClaimedIs ==
  ASSUME NEW book, NEW statuses, NEW o, NEW i
  PROVE  ClaimedIn(book, statuses, o, i)
            = Claiming!Sum([book |-> book, line |-> i], StandingIn(book, statuses, o))
BY DEF ClaimedIn, MapThenSumSet, MapThenFoldSet, Claiming!Sum, Claiming!Fold,
       Claiming!MapThenFoldSet, ClaimAt, Plus, Some

LEMMA QuantityNat ==
  ASSUME NEW claim \in Claims, NEW i
  PROVE  Quantity(claim, i) \in Nat
<1> DEFINE rows == claim.items
           S == Items(claim, i)
<1>1. Quantity(claim, i) = Amount!Sum(rows, S)
  BY DEF Quantity, MapThenSumSet, MapThenFoldSet, Amount!Sum, Amount!Fold, Amount!MapThenFoldSet,
         QuantityAt, Plus, Some
<1>2. S \in SUBSET DOMAIN rows
  BY DEF Items
<1>3. \A j \in S : QuantityAt(rows, j) \in Nat
  BY <1>2, ClaimIs DEF QuantityAt
<1>4. rows \in Seq(ItemRows)
  BY ClaimIs
<1> HIDE DEF rows, S
<1>5. IsFiniteSet(S)
  BY <1>2, <1>4, FewRows
<1> QED
  BY <1>1, <1>3, <1>5, SameFinite, AllAdd, Amount!SumNat

UndoneWhenCovered(book, undone) ==
    \A o \in CustomerOrders :
        (\A i \in Lines(o) : ClaimedIn(book, {"refunded"}, o, i) >= Bought[o][i].quantity)
            => undone[o] = "undone"
LEMMA PointsAre ==
  /\ FullReturnsUndoPoints <=> UndoneWhenCovered(return, points)
  /\ FullReturnsUndoPoints' <=> UndoneWhenCovered(return', points')
<1>1. \A o, i : Claimed({"refunded"}, o, i) = ClaimedIn(return, {"refunded"}, o, i)
  BY DEF Claimed, ClaimedIn, Standing, StandingIn, MapThenSumSet, MapThenFoldSet
<1>2. \A o, i : Claimed({"refunded"}, o, i)' = ClaimedIn(return', {"refunded"}, o, i)
  BY DEF Claimed, ClaimedIn, Standing, StandingIn, MapThenSumSet, MapThenFoldSet
<1>3. FullReturnsUndoPoints <=> UndoneWhenCovered(return, points)
  BY <1>1 DEF FullReturnsUndoPoints, UndoneWhenCovered
<1>4. FullReturnsUndoPoints' <=> UndoneWhenCovered(return', points')
  BY <1>2 DEF FullReturnsUndoPoints, UndoneWhenCovered
<1> QED
  BY <1>3, <1>4

\* Only refunds count.
LEMMA SameRefunds ==
  ASSUME NEW book, NEW next, NEW o,
         \A r \in StandingIn(book, {"refunded"}, o) \cup StandingIn(next, {"refunded"}, o) :
            next[r] = book[r],
         NEW i
  PROVE  ClaimedIn(next, {"refunded"}, o, i) = ClaimedIn(book, {"refunded"}, o, i)
<1> DEFINE S == StandingIn(book, {"refunded"}, o)
           T == StandingIn(next, {"refunded"}, o)
           c == [book |-> book, line |-> i]
           d == [book |-> next, line |-> i]
<1>1. S = T
  BY DEF StandingIn
<1>2. \A r \in S : ClaimAt(d, r) = ClaimAt(c, r)
  BY DEF ClaimAt
<1>3. IsFiniteSet(S)
  <2>1. S \in SUBSET Orders
    BY DocumentsAre DEF StandingIn
  <2> QED
    BY <2>1, StocktakingAssumption, FS_Subset
<1> HIDE DEF S, T, c, d
<1>4. Claiming!Sum(d, S) = Claiming!Sum(c, S)
  BY <1>2, <1>3, SameFinite, AllAdd, Claiming!SumSame
<1> QED
  BY <1>1, <1>4, ClaimedIs DEF S, T, c, d

LEMMA PointsStay ==
  ASSUME FullReturnsUndoPoints,
         \A r \in Returns : return[r].status = "refunded" \/ return'[r].status = "refunded" =>
            return'[r] = return[r],
         \A o \in CustomerOrders : points[o] = "undone" => points'[o] = "undone"
  PROVE  FullReturnsUndoPoints'
<1> DEFINE book == return
           next == return'
<1>1. \A r \in Returns : book[r].status = "refunded" \/ next[r].status = "refunded" => next[r] = book[r]
  OBVIOUS
<1>2. UndoneWhenCovered(book, points)
  BY PointsAre
<1> HIDE DEF book, next
<1>3. ASSUME NEW o \in CustomerOrders, NEW i
      PROVE  ClaimedIn(next, {"refunded"}, o, i) = ClaimedIn(book, {"refunded"}, o, i)
  <2>1. \A r \in StandingIn(book, {"refunded"}, o) \cup StandingIn(next, {"refunded"}, o) :
           next[r] = book[r]
    BY <1>1 DEF StandingIn
  <2> QED
    BY <2>1, SameRefunds
<1>4. UndoneWhenCovered(next, points')
  BY <1>2, <1>3 DEF UndoneWhenCovered
<1> QED
  BY <1>4, PointsAre DEF next
-----------------------------------------------------------------------------
(* Every step keeps the invariant *)
TellsWaiters ==
    \A d \in Orders \ Counts :
        /\ warehouse'.moves[d] # warehouse.moves[d]
        /\ d \in Bulks => bulk'[d].rolls = bulk[d].rolls
        => \A sku \in Skus : warehouse'.stock[sku] > warehouse.stock[sku]
                                => sku \notin warehouse'.waiting

Keeps == IInv' /\ TellsWaiters

LEMMA TellingIs ==
  ASSUME Told(warehouse, warehouse')
  PROVE  TellsWaiters
BY DEF Told, TellsWaiters

LEMMA FileIs ==
  /\ StockOnFile <=> OnFile(warehouse)
  /\ StockOnFile' <=> OnFile(warehouse')
BY DEF StockOnFile, OnFile, MapThenSumSet, MapThenFoldSet

\* A step that moves nothing.
LEMMA NothingMoves ==
  ASSUME IInv, warehouse' = warehouse, goods' = goods, shifts' = shifts, drift' = drift
  PROVE  ShelfTypes' /\ StockOnFile' /\ ShelvesMatch' /\ Onward /\ TellsWaiters
<1>1. ShelfTypes /\ StockOnFile /\ ShelvesMatch
  BY DEF IInv, Types
<1>2. ShelfTypes' /\ ShelvesMatch' /\ Onward
  BY <1>1, ShelvesUnmoved
<1>3. StockOnFile'
  BY <1>1, FileIs
<1>4. TellsWaiters
  <2>1. \A sku \in Skus : warehouse.stock[sku] \in Nat
    BY <1>1 DEF ShelfTypes, Warehouses
  <2> QED
    BY <2>1 DEF TellsWaiters
<1> QED
  BY <1>2, <1>3, <1>4

\* The movements of one document keep the books.
LEMMA BooksKept ==
  ASSUME ShelfTypes, StockOnFile, NEW d \in Orders, NEW g \in Gains,
         Booked(warehouse, warehouse', d, g)
  PROVE  /\ StockOnFile'
         /\ \A p \in Orders \ {d} : warehouse'.moves[p] = warehouse.moves[p]
<1> DEFINE w == warehouse
           v == warehouse'
<1>1. w \in Warehouses /\ OnFile(w) /\ Booked(w, v, d, g)
  BY FileIs DEF ShelfTypes
<1> HIDE DEF w, v
<1>2. OnFile(v)
  BY <1>1, BookedOnFile
<1> QED
  BY <1>1, <1>2, FileIs DEF Booked, w, v

LEMMA UnitsOnShelves ==
  ASSUME NEW o \in CustomerOrders, NEW sign \in {1, -1}
  PROVE  /\ DOMAIN Units(o, sign) \in SUBSET Skus
         /\ \A sku \in DOMAIN Units(o, sign) : Units(o, sign)[sku] \in Int
         /\ \A sku \in Skus : GainOfUnits(o, sign)[sku]
                                = IF sku \in DOMAIN Units(o, sign) THEN Units(o, sign)[sku] ELSE 0
         /\ GainOfUnits(o, sign) \in Gains
         /\ sign = -1 => \A sku \in Skus : GainOfUnits(o, sign)[sku] <= 0
<1>1. DOMAIN Units(o, sign) = {Bought[o][i].sku : i \in Lines(o)}
  BY UnitsAre
<1>2. \A i \in Lines(o) : Units(o, sign)[Bought[o][i].sku] = sign * Bought[o][i].quantity
  BY UnitsAre
<1>3. \A i \in Lines(o) : Bought[o][i].sku \in Skus /\ Bought[o][i].quantity \in Nat
  BY LinesAre
<1>4. \A sku \in Skus : GainOfUnits(o, sign)[sku]
                          = IF sku \in DOMAIN Units(o, sign) THEN Units(o, sign)[sku] ELSE 0
  BY DEF GainOfUnits
<1>5. ASSUME NEW sku \in DOMAIN Units(o, sign)
      PROVE  /\ sku \in Skus /\ Units(o, sign)[sku] \in Int
             /\ sign = -1 => Units(o, sign)[sku] <= 0
  <2>1. PICK i \in Lines(o) : sku = Bought[o][i].sku
    BY <1>1
  <2> DEFINE quantity == Bought[o][i].quantity
  <2>2. quantity \in Nat /\ sku \in Skus /\ Units(o, sign)[sku] = sign * quantity
    BY <1>2, <1>3, <2>1
  <2> HIDE DEF quantity
  <2>3. sign * quantity \in Int /\ (sign = -1 => sign * quantity <= 0)
    BY <2>2
  <2> QED
    BY <2>2, <2>3
<1>6. GainOfUnits(o, sign) \in Gains
  BY UnitsAre
<1>7. sign = -1 => \A sku \in Skus : GainOfUnits(o, sign)[sku] <= 0
  BY <1>4, <1>5
<1> QED
  BY <1>4, <1>5, <1>6, <1>7

\* What a step that is no return, no count and no change of products keeps.
LEMMA OrderStep ==
  ASSUME IInv, NEW d, d \notin Returns, d \notin Bulks,
         \A p \in Orders \ {d} : warehouse'.moves[p] = warehouse.moves[p],
         ShelfTypes', Onward, UNCHANGED <<return, count, bulk, clerk>>,
         \A o \in CustomerOrders : points[o] = "undone" => points'[o] = "undone"
  PROVE  /\ ReturnTypes' /\ CountTypes' /\ BulkTypes' /\ ClerkTypes'
         /\ CountsHold' /\ NotFiledYet' /\ ReturnsHold' /\ BulksHold' /\ FullReturnsUndoPoints'
<1>1. /\ ShelfTypes /\ ReturnTypes /\ CountTypes /\ BulkTypes /\ ClerkTypes
      /\ CountsHold /\ NotFiledYet /\ ReturnsHold /\ BulksHold /\ FullReturnsUndoPoints
  BY DEF IInv, Types
<1>2. return' = return /\ count' = count /\ bulk' = bulk /\ clerk' = clerk
  OBVIOUS
<1>3. ReturnTypes'
  BY <1>1, <1>2 DEF ReturnTypes
<1>4. CountTypes' /\ BulkTypes'
  BY <1>1, <1>2 DEF CountTypes, BulkTypes
<1>5. ClerkTypes'
  BY <1>1, <1>2 DEF ClerkTypes
<1>6. CountsHold'
  BY <1>1, <1>2, CountsStay
<1>7. NotFiledYet'
  BY <1>1, <1>2, StillNotFiled
<1>8. /\ \A r \in Returns \ {d} : /\ return'[r] = return[r]
                                  /\ warehouse'.moves[r] = warehouse.moves[r]
      /\ \A b \in Bulks \ {d} : /\ bulk'[b] = bulk[b]
                                /\ warehouse'.moves[b] = warehouse.moves[b]
  BY <1>2, DocumentsAre
<1>9. ReturnsHold'
  BY <1>1, <1>8, ReturnsStay
<1>10. BulksHold'
  BY <1>1, <1>8, BulksStay
<1>11. FullReturnsUndoPoints'
  BY <1>1, <1>2, PointsStay
<1> QED
  BY <1>3, <1>4, <1>5, <1>6, <1>7, <1>9, <1>10, <1>11

LEMMA PlaceKeeps ==
  ASSUME IInv, NEW o \in CustomerOrders, Place(o)
  PROVE  Keeps
<1>1. /\ ShelfTypes /\ OrderTypes /\ StockOnFile /\ ShelvesMatch
  BY DEF IInv, Types
<1>2. /\ \A i \in Lines(o) : Sellable(warehouse, Bought[o][i].sku, {}) >= Bought[o][i].quantity
      /\ order' = [order EXCEPT ![o].status = "placed"] /\ points' = points
      /\ Moved(Units(o, -1), {}) /\ UNCHANGED <<return, count, bulk, clerk>>
  BY DEF Place
<1>3. warehouse' = Sold!Fold([rows |-> Bought[o], doc |-> o], warehouse, Lines(o))
  BY DEF Place, FoldLeft, Sold!Fold, MapThenFoldSet, Sold!MapThenFoldSet, ItemAt, Greatest,
         SellLine, Lines
<1> DEFINE w == warehouse
           v == warehouse'
           g == GainOfUnits(o, -1)
           change == Units(o, -1)
<1>4. w \in Warehouses /\ o \in Orders /\ o \notin Returns /\ o \notin Bulks
  BY <1>1, DocumentsAre DEF ShelfTypes
<1>5. Booked(w, v, o, g)
  <2>1. /\ v = Sold!Fold([rows |-> Bought[o], doc |-> o], w, Lines(o))
        /\ \A i \in Lines(o) : Sellable(w, Bought[o][i].sku, {}) >= Bought[o][i].quantity
    BY <1>2, <1>3
  <2> HIDE DEF w, v, g
  <2> QED
    BY <1>4, <2>1, PlaceBooks DEF g
<1>6. /\ DOMAIN change \in SUBSET Skus /\ \A sku \in DOMAIN change : change[sku] \in Int
      /\ \A sku \in Skus \ {} : g[sku] = IF sku \in DOMAIN change THEN change[sku] ELSE 0
      /\ g \in Gains /\ \A sku \in Skus : g[sku] <= 0
  BY UnitsOnShelves
<1>7. Moved(change, {}) /\ Booked(warehouse, warehouse', o, g)
  BY <1>2, <1>5
<1>8. Told(warehouse, warehouse')
  <2>1. \A sku \in Skus : w.stock[sku] \in Nat /\ v.stock[sku] = w.stock[sku] + g[sku]
                          /\ g[sku] <= 0 /\ g[sku] \in Int
    BY <1>4, <1>5, <1>6 DEF Booked, Warehouses, Gains
  <2>2. \A sku \in Skus : ~(v.stock[sku] > w.stock[sku])
    BY <2>1
  <2> QED
    BY <2>2 DEF Told
<1> HIDE DEF g, change
<1>9. ShelfTypes' /\ ShelvesMatch' /\ Onward
  BY <1>1, <1>4, <1>6, <1>7, ShelvesStay
<1>10. /\ StockOnFile' /\ \A p \in Orders \ {o} : warehouse'.moves[p] = warehouse.moves[p]
  BY <1>1, <1>4, <1>6, <1>7, BooksKept
<1>11. /\ ReturnTypes' /\ CountTypes' /\ BulkTypes' /\ ClerkTypes'
       /\ CountsHold' /\ NotFiledYet' /\ ReturnsHold' /\ BulksHold' /\ FullReturnsUndoPoints'
  BY <1>2, <1>4, <1>9, <1>10, OrderStep
<1>12. OrderTypes'
  BY <1>1, <1>2, StatusOf DEF OrderTypes
<1> QED
  BY <1>8, <1>9, <1>10, <1>11, <1>12, TellingIs DEF Keeps, IInv, Types

LEMMA CancelKeeps ==
  ASSUME IInv, NEW o \in CustomerOrders, CancelOrder(o)
  PROVE  Keeps
<1>1. /\ ShelfTypes /\ OrderTypes /\ StockOnFile /\ ShelvesMatch
  BY DEF IInv, Types
<1>2. /\ order' = [order EXCEPT ![o].status = "cancelled"]
      /\ points' = [points EXCEPT ![o] = "undone"]
      /\ Moved(Units(o, 1), {}) /\ UNCHANGED <<return, count, bulk, clerk>>
  BY DEF CancelOrder
<1>3. warehouse' = Returned!Fold([rows |-> Bought[o], doc |-> o], warehouse, Lines(o))
  BY DEF CancelOrder, FoldLeft, Returned!Fold, MapThenFoldSet, Returned!MapThenFoldSet, ItemAt,
         Greatest, PutBack, Lines
<1> DEFINE w == warehouse
           v == warehouse'
           g == GainOfUnits(o, 1)
           change == Units(o, 1)
<1>4. w \in Warehouses /\ o \in Orders /\ o \notin Returns /\ o \notin Bulks
  BY <1>1, DocumentsAre DEF ShelfTypes
<1>5. Booked(w, v, o, g) /\ Told(w, v)
  <2>1. v = Returned!Fold([rows |-> Bought[o], doc |-> o], w, Lines(o))
    BY <1>3
  <2> HIDE DEF w, v, g
  <2> QED
    BY <1>4, <2>1, CancelBooks DEF g
<1>6. /\ DOMAIN change \in SUBSET Skus /\ \A sku \in DOMAIN change : change[sku] \in Int
      /\ \A sku \in Skus \ {} : g[sku] = IF sku \in DOMAIN change THEN change[sku] ELSE 0
      /\ g \in Gains
  BY UnitsOnShelves
<1>7. Moved(change, {}) /\ Booked(warehouse, warehouse', o, g)
  BY <1>2, <1>5
<1>8. Told(warehouse, warehouse')
  BY <1>5
<1> HIDE DEF g, change
<1>9. ShelfTypes' /\ ShelvesMatch' /\ Onward
  BY <1>1, <1>4, <1>6, <1>7, ShelvesStay
<1>10. /\ StockOnFile' /\ \A p \in Orders \ {o} : warehouse'.moves[p] = warehouse.moves[p]
  BY <1>1, <1>4, <1>6, <1>7, BooksKept
<1>11. points \in [CustomerOrders -> {"kept", "undone"}] /\ order \in OrderBooks
  BY <1>1 DEF OrderTypes
<1>12. \A p \in CustomerOrders : points[p] = "undone" => points'[p] = "undone"
  BY <1>2, <1>11
<1>13. /\ ReturnTypes' /\ CountTypes' /\ BulkTypes' /\ ClerkTypes'
       /\ CountsHold' /\ NotFiledYet' /\ ReturnsHold' /\ BulksHold' /\ FullReturnsUndoPoints'
  BY <1>2, <1>4, <1>9, <1>10, <1>12, OrderStep
<1>14. OrderTypes'
  <2>1. order' \in OrderBooks
    BY <1>2, <1>11, StatusOf
  <2>2. points' \in [CustomerOrders -> {"kept", "undone"}]
    BY <1>2, <1>11
  <2> QED
    BY <2>1, <2>2 DEF OrderTypes
<1> QED
  BY <1>8, <1>9, <1>10, <1>13, <1>14, TellingIs DEF Keeps, IInv, Types

LEMMA DeliverKeeps ==
  ASSUME IInv, NEW o \in CustomerOrders, Deliver(o)
  PROVE  Keeps
<1>1. OrderTypes /\ o \notin Returns /\ o \notin Bulks
  BY DocumentsAre DEF IInv, Types
<1> DEFINE held == [i \in Lines(o) |-> Bought[o][i].quantity]
<1>2. /\ order' = [order EXCEPT ![o] = [status |-> "delivered", held |-> held]]
      /\ warehouse' = warehouse /\ goods' = goods /\ shifts' = shifts /\ drift' = drift
      /\ points' = points /\ UNCHANGED <<return, count, bulk, clerk>>
  BY DEF Deliver
<1>3. held \in [Lines(o) -> Nat]
  BY LinesAre
<1> HIDE DEF held
<1>4. ShelfTypes' /\ StockOnFile' /\ ShelvesMatch' /\ Onward /\ TellsWaiters
  BY <1>2, NothingMoves
<1>5. /\ \A p \in Orders \ {o} : warehouse'.moves[p] = warehouse.moves[p]
      /\ \A p \in CustomerOrders : points[p] = "undone" => points'[p] = "undone"
  BY <1>2
<1>6. /\ ReturnTypes' /\ CountTypes' /\ BulkTypes' /\ ClerkTypes'
      /\ CountsHold' /\ NotFiledYet' /\ ReturnsHold' /\ BulksHold' /\ FullReturnsUndoPoints'
  BY <1>1, <1>2, <1>4, <1>5, OrderStep
<1>7. OrderTypes'
  BY <1>1, <1>2, <1>3, HeldOf DEF OrderTypes
<1> QED
  BY <1>4, <1>6, <1>7 DEF Keeps, IInv, Types
-----------------------------------------------------------------------------
(* What a clerk reads before the transaction *)
LEMMA ClerkKeeps ==
  ASSUME IInv, NEW k \in Clerks, NEW job \in Jobs, clerk' = [clerk EXCEPT ![k] = job],
         UNCHANGED <<warehouse, goods, shifts, order, points, return, count, bulk, drift>>,
         job.job = "return" =>
            /\ return[job.doc].status = "none"
            /\ \A other \in Clerks : clerk[other].job = "return" => clerk[other].doc # job.doc,
         job.job = "bulk" =>
            /\ bulk[job.doc].status = "none" /\ DOMAIN job.new = DOMAIN job.read
            /\ \A other \in Clerks : clerk[other].job = "bulk" => clerk[other].doc # job.doc,
         job.job = "record" => job.sku \in Countable /\ RightIn(shifts, goods, job, job.sku)
  PROVE  Keeps
<1>1. /\ ShelfTypes /\ OrderTypes /\ ReturnTypes /\ CountTypes /\ BulkTypes /\ ClerkTypes
      /\ CountsHold /\ NotFiledYet /\ ReturnsHold /\ BulksHold /\ FullReturnsUndoPoints
  BY DEF IInv, Types
<1>2. /\ warehouse' = warehouse /\ goods' = goods /\ shifts' = shifts /\ drift' = drift
      /\ order' = order /\ points' = points /\ return' = return /\ count' = count /\ bulk' = bulk
  OBVIOUS
<1>3. ShelfTypes' /\ StockOnFile' /\ ShelvesMatch' /\ Onward /\ TellsWaiters
  BY <1>2, NothingMoves
<1>4. OrderTypes' /\ ReturnTypes' /\ CountTypes' /\ BulkTypes'
  <2>1. OrderTypes' /\ ReturnTypes'
    BY <1>1, <1>2 DEF OrderTypes, ReturnTypes
  <2> QED
    BY <1>1, <1>2, <2>1 DEF CountTypes, BulkTypes
<1>5. \A l \in Clerks : clerk'[l] = IF l = k THEN job ELSE clerk[l]
  BY <1>1 DEF ClerkTypes
<1>6. ClerkTypes'
  <2>1. clerk' \in [Clerks -> Jobs]
    BY <1>1 DEF ClerkTypes
  <2>2. ASSUME NEW l \in Clerks
        PROVE  /\ clerk'[l].job = "bulk" => DOMAIN clerk'[l].new = DOMAIN clerk'[l].read
               /\ clerk'[l].job = "record" => clerk'[l].sku \in Countable
    BY <1>1, <1>5 DEF ClerkTypes
  <2> QED
    BY <2>1, <2>2 DEF ClerkTypes
<1>7. CountsHold'
  <2>1. \A c \in Counts : \A sku \in DOMAIN count'[c].counted :
           \/ sku \in DOMAIN count[c].counted /\ count'[c].counted[sku] = count[c].counted[sku]
           \/ RightIn(shifts', goods', count'[c].counted[sku], sku)
    BY <1>2
  <2>2. \A l \in Clerks : clerk'[l].job = "record" =>
           clerk'[l] = clerk[l] \/ RightIn(shifts', goods', clerk'[l], clerk'[l].sku)
    BY <1>2, <1>5
  <2> QED
    BY <1>1, <1>3, <2>1, <2>2, CountsStay
<1>8. NotFiledYet'
  <2>1. ASSUME NEW l \in Clerks, NEW m \in Clerks, clerk'[l].job = "return",
               clerk'[m].job = "return", clerk'[l].doc = clerk'[m].doc
        PROVE  l = m
    BY <1>1, <1>5, <2>1 DEF NotFiledYet, OneFiles
  <2>2. ASSUME NEW l \in Clerks, NEW m \in Clerks, clerk'[l].job = "bulk",
               clerk'[m].job = "bulk", clerk'[l].doc = clerk'[m].doc
        PROVE  l = m
    BY <1>1, <1>5, <2>2 DEF NotFiledYet, OneFiles
  <2>3. ASSUME NEW l \in Clerks
        PROVE  /\ clerk'[l].job = "return" => return'[clerk'[l].doc].status = "none"
               /\ clerk'[l].job = "bulk" => bulk'[clerk'[l].doc].status = "none"
    BY <1>1, <1>2, <1>5 DEF NotFiledYet
  <2> QED
    BY <2>1, <2>2, <2>3 DEF NotFiledYet, OneFiles
<1>9. ReturnsHold' /\ BulksHold'
  BY <1>1, <1>2 DEF ReturnsHold, BulksHold
<1>10. FullReturnsUndoPoints'
  BY <1>1, <1>2, PointsStay
<1> QED
  BY <1>3, <1>4, <1>6, <1>7, <1>8, <1>9, <1>10 DEF Keeps, IInv, Types

LEMMA CheckReturnKeeps ==
  ASSUME IInv, NEW k \in Clerks, NEW r \in Returns, NEW claim \in Claims, CheckReturn(k, r, claim)
  PROVE  Keeps
<1> DEFINE job == [job |-> "return", doc |-> r, claim |-> claim]
<1>1. /\ clerk' = [clerk EXCEPT ![k] = job]
      /\ UNCHANGED <<warehouse, goods, shifts, order, points, return, count, bulk, drift>>
      /\ return[r].status = "none"
      /\ \A other \in Clerks : clerk[other].job = "return" => clerk[other].doc # r
  BY DEF CheckReturn
<1>2. job \in Jobs /\ job.job = "return" /\ job.doc = r
  BY DEF Jobs
<1> HIDE DEF job
<1> QED
  BY <1>1, <1>2, ClerkKeeps

LEMMA BeginKeeps ==
  ASSUME IInv, NEW k \in Clerks, NEW c \in Counts, NEW what \in {"complete", "cancel"},
         Begin(k, c, [job |-> what, doc |-> c])
  PROVE  Keeps
<1> DEFINE job == [job |-> what, doc |-> c]
<1>1. /\ clerk' = [clerk EXCEPT ![k] = job]
      /\ UNCHANGED <<warehouse, goods, shifts, order, points, return, count, bulk, drift>>
  BY DEF Begin
<1>2. job \in Jobs /\ job.job \notin {"return", "bulk", "record"}
  BY DEF Jobs
<1> HIDE DEF job
<1> QED
  BY <1>1, <1>2, ClerkKeeps

LEMMA BeginRecordKeeps ==
  ASSUME IInv, NEW k \in Clerks, NEW c \in Counts, NEW sku \in Countable, BeginRecord(k, c, sku)
  PROVE  Keeps
<1> DEFINE job == [job |-> "record", doc |-> c, sku |-> sku, quantity |-> goods[sku],
                   at |-> shifts[sku]]
<1>1. /\ clerk' = [clerk EXCEPT ![k] = job]
      /\ UNCHANGED <<warehouse, goods, shifts, order, points, return, count, bulk, drift>>
  BY DEF BeginRecord, Begin
<1>2. goods[sku] \in Nat /\ shifts[sku] \in Nat /\ sku \in Skus
  BY CountableSkus DEF IInv, Types, ShelfTypes
<1>3. /\ job \in Jobs /\ job.job = "record" /\ job.sku = sku
      /\ job.quantity = goods[sku] /\ job.at = shifts[sku]
  BY <1>2 DEF Jobs
<1> HIDE DEF job
<1>4. RightIn(shifts, goods, job, job.sku)
  BY <1>2, <1>3 DEF RightIn
<1> QED
  BY <1>1, <1>3, <1>4, ClerkKeeps

LEMMA ReadBulkKeeps ==
  ASSUME IInv, NEW k \in Clerks, NEW b \in Bulks, NEW a \in Adjustments, ReadBulk(k, b, a)
  PROVE  Keeps
<1> DEFINE stock == warehouse.stock
           new(sku) == Adjusted(stock[sku], a)
           rows == {sku \in a.skus : new(sku) >= 0 /\ new(sku) # stock[sku]}
           job == [job |-> "bulk", doc |-> b, new |-> [sku \in rows |-> new(sku)],
                   read |-> [sku \in rows |-> stock[sku]]]
<1>1. /\ clerk' = [clerk EXCEPT ![k] = job]
      /\ UNCHANGED <<warehouse, goods, shifts, order, points, return, count, bulk, drift>>
      /\ bulk[b].status = "none"
      /\ \A other \in Clerks : clerk[other].job = "bulk" => clerk[other].doc # b
  BY DEF ReadBulk
<1>2. stock \in [Skus -> Nat]
  BY DEF IInv, Types, ShelfTypes, Warehouses
<1>3. /\ a.skus \subseteq Skus /\ a.value \in Int
      /\ a.operation \in {"set_to", "increase_by", "decrease_by"}
  BY StocktakingAssumption
<1>4. \A sku \in rows : sku \in Skus /\ new(sku) \in Nat /\ stock[sku] \in Nat
  <2> SUFFICES ASSUME NEW sku \in rows
               PROVE  sku \in Skus /\ new(sku) \in Nat /\ stock[sku] \in Nat
    OBVIOUS
  <2>1. sku \in Skus /\ stock[sku] \in Nat /\ new(sku) >= 0
    BY <1>2, <1>3
  <2>2. new(sku) \in Int
    BY <1>3, <2>1 DEF Adjusted
  <2> QED
    BY <2>1, <2>2
<1>5. job \in Jobs /\ job.job = "bulk" /\ job.doc = b /\ DOMAIN job.new = DOMAIN job.read
  <2> DEFINE n == [sku \in rows |-> new(sku)]
             s == [sku \in rows |-> stock[sku]]
  <2>1. rows \in SUBSET Skus /\ n \in [rows -> Nat] /\ s \in [rows -> Nat]
    <3> HIDE DEF rows, new
    <3> QED
      BY <1>4
  <2> HIDE DEF n, s, rows
  <2>2. n \in SomeSkus /\ s \in SomeSkus /\ DOMAIN n = rows /\ DOMAIN s = rows
    BY <2>1 DEF SomeSkus
  <2>3. job = [job |-> "bulk", doc |-> b, new |-> n, read |-> s]
    BY DEF n, s
  <2> QED
    BY <2>2, <2>3 DEF Jobs
<1> HIDE DEF job, rows, new, stock
<1> QED
  BY <1>1, <1>5, ClerkKeeps
-----------------------------------------------------------------------------
(* Steps of a return that move nothing *)
LEMMA DoneIs ==
  ASSUME ClerkTypes, NEW k \in Clerks, Done(k)
  PROVE  /\ ClerkTypes'
         /\ \A l \in Clerks : clerk'[l].job # "none" => l # k /\ clerk'[l] = clerk[l]
<1>1. /\ clerk \in [Clerks -> Jobs] /\ clerk' = [clerk EXCEPT ![k] = Idle]
      /\ Idle \in Jobs /\ Idle.job = "none"
  BY DEF ClerkTypes, Done, Jobs, Idle
<1> DEFINE idle == Idle
<1> HIDE DEF idle
<1>2. clerk' \in [Clerks -> Jobs] /\ \A l \in Clerks : clerk'[l] = IF l = k THEN idle ELSE clerk[l]
  BY <1>1 DEF idle
<1>3. idle.job = "none"
  BY <1>1 DEF idle
<1>4. \A l \in Clerks : clerk'[l].job # "none" => l # k /\ clerk'[l] = clerk[l]
  BY <1>2, <1>3
<1>5. ASSUME NEW l \in Clerks
      PROVE  /\ clerk'[l].job = "bulk" => DOMAIN clerk'[l].new = DOMAIN clerk'[l].read
             /\ clerk'[l].job = "record" => clerk'[l].sku \in Countable
  BY <1>4 DEF ClerkTypes
<1> QED
  BY <1>2, <1>4, <1>5 DEF ClerkTypes

LEMMA ReturnStep ==
  ASSUME IInv, NEW r \in Returns, UNCHANGED <<warehouse, goods, shifts, order, count, bulk, drift>>,
         NEW row, return' = [return EXCEPT ![r] = row],
         ReturnTypes', points' \in [CustomerOrders -> {"kept", "undone"}], ClerkTypes',
         NotFiledYet', FullReturnsUndoPoints', ReturnFits(warehouse, row, r),
         \A l \in Clerks : clerk'[l].job # "none" => clerk'[l] = clerk[l]
  PROVE  Keeps
<1>1. /\ ShelfTypes /\ OrderTypes /\ ReturnTypes /\ CountTypes /\ BulkTypes /\ ClerkTypes
      /\ CountsHold /\ ReturnsHold /\ BulksHold
  BY DEF IInv, Types
<1>2. /\ warehouse' = warehouse /\ goods' = goods /\ shifts' = shifts /\ drift' = drift
      /\ order' = order /\ count' = count /\ bulk' = bulk
  OBVIOUS
<1>3. ShelfTypes' /\ StockOnFile' /\ ShelvesMatch' /\ Onward /\ TellsWaiters
  BY <1>2, NothingMoves
<1>4. OrderTypes' /\ CountTypes' /\ BulkTypes'
  BY <1>1, <1>2 DEF OrderTypes, CountTypes, BulkTypes
<1>5. CountsHold'
  <2>1. \A c \in Counts : \A sku \in DOMAIN count'[c].counted :
           \/ sku \in DOMAIN count[c].counted /\ count'[c].counted[sku] = count[c].counted[sku]
           \/ RightIn(shifts', goods', count'[c].counted[sku], sku)
    BY <1>2
  <2>2. \A l \in Clerks : clerk'[l].job = "record" =>
           clerk'[l] = clerk[l] \/ RightIn(shifts', goods', clerk'[l], clerk'[l].sku)
    OBVIOUS
  <2> QED
    BY <1>1, <1>3, <2>1, <2>2, CountsStay
<1>6. ReturnsHold'
  <2>1. \A p \in Returns \ {r} : return'[p] = return[p] /\ warehouse'.moves[p] = warehouse.moves[p]
    BY <1>1, <1>2 DEF ReturnTypes
  <2>2. return'[r] = row
    BY <1>1 DEF ReturnTypes
  <2>3. ReturnFits(warehouse', return'[r], r)
    BY <1>2, <2>2
  <2> QED
    BY <1>1, <2>1, <2>3, ReturnsStay
<1>7. BulksHold'
  BY <1>1, <1>2 DEF BulksHold
<1> QED
  BY <1>3, <1>4, <1>5, <1>6, <1>7 DEF Keeps, IInv, Types, OrderTypes

\* What a return's row is.
LEMMA ReturnIs ==
  ASSUME ReturnTypes, NEW r \in Returns
  PROVE  /\ return[r].status \in DOMAIN ReturnAfter \cup {"none"}
         /\ return[r] = [status |-> return[r].status, claim |-> return[r].claim]
         /\ return[r].status # "none" => return[r].claim \in Claims
         /\ return[r].claim \in Claims \cup {NoClaim}
<1> DEFINE S == DOMAIN ReturnAfter \cup {"none"}
           C == Claims \cup {NoClaim}
           row == return[r]
<1>1. row \in [status : S, claim : C]
  BY DEF ReturnTypes
<1>2. row.status # "none" => row.claim \in Claims
  BY DEF ReturnTypes
<1> HIDE DEF S, C, row
<1>3. row.status \in S /\ row.claim \in C /\ row = [status |-> row.status, claim |-> row.claim]
  BY <1>1
<1> QED
  BY <1>2, <1>3 DEF S, C, row

LEMMA ReturnTyped ==
  ASSUME ReturnTypes, NEW r \in Returns, NEW status \in DOMAIN ReturnAfter, NEW claim \in Claims,
         return' = [return EXCEPT ![r] = [status |-> status, claim |-> claim]]
  PROVE  ReturnTypes'
<1> DEFINE S == DOMAIN ReturnAfter \cup {"none"}
           C == Claims \cup {NoClaim}
           row == [status |-> status, claim |-> claim]
<1>1. return \in [Returns -> [status : S, claim : C]]
  BY DEF ReturnTypes
<1>2. status \in S /\ claim \in C
  OBVIOUS
<1> HIDE DEF S, C
<1>3. row \in [status : S, claim : C] /\ row.claim = claim
  BY <1>2
<1> HIDE DEF row
<1>4. /\ return' \in [Returns -> [status : S, claim : C]]
      /\ \A p \in Returns : return'[p] = IF p = r THEN row ELSE return[p]
  <2>1. return' = [return EXCEPT ![r] = row]
    BY DEF row
  <2> QED
    BY <1>1, <1>3, <2>1
<1>5. \A p \in Returns : return'[p].status # "none" => return'[p].claim \in Claims
  BY <1>3, <1>4 DEF ReturnTypes
<1> QED
  BY <1>4, <1>5 DEF ReturnTypes, S, C

LEMMA FileReturnKeeps ==
  ASSUME IInv, NEW k \in Clerks, FileReturn(k)
  PROVE  Keeps
<1>1. ReturnTypes /\ ClerkTypes /\ OrderTypes /\ NotFiledYet /\ ReturnsHold /\ FullReturnsUndoPoints
  BY DEF IInv, Types
<1> DEFINE r == clerk[k].doc
           claim == clerk[k].claim
           row == [status |-> "requested", claim |-> claim]
<1>2. /\ clerk[k].job = "return" /\ return' = [return EXCEPT ![r] = row] /\ Done(k)
      /\ UNCHANGED <<warehouse, goods, shifts, order, count, bulk, drift>> /\ points' = points
      /\ bulk' = bulk
  BY DEF FileReturn
<1>3. r \in Returns /\ claim \in Claims
  <2>1. clerk[k] \in Jobs
    BY <1>1 DEF ClerkTypes
  <2> QED
    BY <1>2, <2>1 DEF Jobs, Idle
<1>4. return[r].status = "none"
  BY <1>1, <1>2 DEF NotFiledYet
<1>5. \A l \in Clerks : clerk[l].job = "return" /\ clerk[l].doc = r => l = k
  BY <1>1, <1>2 DEF NotFiledYet, OneFiles
<1> HIDE DEF r, claim
<1>6. row.status = "requested" /\ "requested" \in DOMAIN ReturnAfter
  BY DEF ReturnAfter
<1>7. ReturnTypes'
  BY <1>1, <1>2, <1>3, <1>6, ReturnTyped
<1>8. \A p \in Returns : return'[p] = IF p = r THEN row ELSE return[p]
  BY <1>1, <1>2 DEF ReturnTypes
<1>9. ReturnFits(warehouse, row, r)
  <2>1. ReturnFits(warehouse, return[r], r)
    BY <1>1, <1>3 DEF ReturnsHold
  <2> QED
    BY <1>4, <1>6, <2>1 DEF ReturnFits
<1> HIDE DEF row
<1>10. /\ ClerkTypes'
       /\ \A l \in Clerks : clerk'[l].job # "none" => l # k /\ clerk'[l] = clerk[l]
  BY <1>1, <1>2, DoneIs
<1>11. NotFiledYet'
  <2>1. \A l \in Clerks : clerk'[l].job \in {"return", "bulk"} => clerk'[l] = clerk[l]
    BY <1>10
  <2>2. ASSUME NEW l \in Clerks, clerk'[l].job = "return"
        PROVE  return'[clerk[l].doc].status = return[clerk[l].doc].status
    <3>1. l # k /\ clerk'[l] = clerk[l] /\ clerk[l].job = "return"
      BY <1>10, <2>2
    <3>2. clerk[l].doc \in Returns
      <4>1. clerk[l] \in Jobs
        BY <1>1 DEF ClerkTypes
      <4> QED
        BY <3>1, <4>1 DEF Jobs, Idle
    <3> QED
      BY <1>5, <1>8, <3>1, <3>2
  <2>3. \A l \in Clerks : clerk'[l].job = "bulk" =>
           bulk'[clerk[l].doc].status = bulk[clerk[l].doc].status
    BY <1>2
  <2> QED
    BY <1>1, <2>1, <2>2, <2>3, StillNotFiled
<1>12. FullReturnsUndoPoints'
  <2>1. \A p \in Returns : return[p].status = "refunded" \/ return'[p].status = "refunded" =>
           return'[p] = return[p]
    BY <1>4, <1>6, <1>8
  <2>2. \A o \in CustomerOrders : points[o] = "undone" => points'[o] = "undone"
    BY <1>2
  <2> QED
    BY <1>1, <2>1, <2>2, PointsStay
<1>13. points' \in [CustomerOrders -> {"kept", "undone"}]
  BY <1>1, <1>2 DEF OrderTypes
<1> QED
  BY <1>2, <1>3, <1>7, <1>9, <1>10, <1>11, <1>12, <1>13, ReturnStep

LEMMA SetReturnStatusKeeps ==
  ASSUME IInv, NEW r \in Returns, NEW to \in DOMAIN ReturnAfter, SetReturnStatus(r, to)
  PROVE  Keeps
<1>1. ReturnTypes /\ ClerkTypes /\ OrderTypes /\ NotFiledYet /\ ReturnsHold /\ FullReturnsUndoPoints
  BY DEF IInv, Types
<1> DEFINE claim == return[r].claim
           row == [status |-> to, claim |-> claim]
<1>2. /\ to \notin {"received", "refunded"} /\ CanBecome(return[r].status, to)
      /\ return' = [return EXCEPT ![r].status = to]
      /\ UNCHANGED <<warehouse, goods, shifts, order, count, bulk, drift>>
      /\ points' = points /\ clerk' = clerk /\ bulk' = bulk
  BY DEF SetReturnStatus
<1>3. return[r].status \notin {"none", "received", "refunded"}
  BY <1>2 DEF CanBecome, ReturnAfter
<1>4. claim \in Claims /\ return[r] = [status |-> return[r].status, claim |-> claim]
  BY <1>1, <1>3, ReturnIs
<1>5. return' = [return EXCEPT ![r] = row]
  <2>1. return' = [return EXCEPT ![r] = [return[r] EXCEPT !.status = to]]
    BY <1>1, <1>2 DEF ReturnTypes
  <2>2. [return[r] EXCEPT !.status = to] = row
    BY <1>4
  <2> QED
    BY <2>1, <2>2
<1> HIDE DEF claim
<1>6. ReturnTypes'
  BY <1>1, <1>4, <1>5, ReturnTyped
<1>7. \A p \in Returns : return'[p] = IF p = r THEN row ELSE return[p]
  BY <1>1, <1>5 DEF ReturnTypes
<1>8. row.status = to
  OBVIOUS
<1>9. ReturnFits(warehouse, row, r)
  <2>1. ReturnFits(warehouse, return[r], r)
    BY <1>1 DEF ReturnsHold
  <2> QED
    BY <1>2, <1>3, <1>8, <2>1 DEF ReturnFits
<1> HIDE DEF row
<1>10. NotFiledYet'
  <2>1. \A l \in Clerks : clerk'[l].job \in {"return", "bulk"} => clerk'[l] = clerk[l]
    BY <1>2
  <2>2. ASSUME NEW l \in Clerks, clerk'[l].job = "return"
        PROVE  return'[clerk[l].doc].status = return[clerk[l].doc].status
    <3>1. clerk[l].job = "return" /\ return[clerk[l].doc].status = "none"
      BY <1>1, <1>2, <2>2 DEF NotFiledYet
    <3>2. clerk[l].doc \in Returns
      <4>1. clerk[l] \in Jobs
        BY <1>1 DEF ClerkTypes
      <4> QED
        BY <3>1, <4>1 DEF Jobs, Idle
    <3> QED
      BY <1>3, <1>7, <3>1, <3>2
  <2>3. \A l \in Clerks : clerk'[l].job = "bulk" =>
           bulk'[clerk[l].doc].status = bulk[clerk[l].doc].status
    BY <1>2
  <2> QED
    BY <1>1, <2>1, <2>2, <2>3, StillNotFiled
<1>11. FullReturnsUndoPoints'
  <2>1. \A p \in Returns : return[p].status = "refunded" \/ return'[p].status = "refunded" =>
           return'[p] = return[p]
    BY <1>2, <1>3, <1>7, <1>8
  <2>2. \A o \in CustomerOrders : points[o] = "undone" => points'[o] = "undone"
    BY <1>2
  <2> QED
    BY <1>1, <2>1, <2>2, PointsStay
<1>12. points' \in [CustomerOrders -> {"kept", "undone"}]
  BY <1>1, <1>2 DEF OrderTypes
<1>13. ClerkTypes' /\ \A l \in Clerks : clerk'[l].job # "none" => clerk'[l] = clerk[l]
  BY <1>1, <1>2 DEF ClerkTypes
<1> QED
  BY <1>2, <1>5, <1>6, <1>9, <1>10, <1>11, <1>12, <1>13, ReturnStep

\* What was refunded is claimed.
LEMMA RefundsAreClaims ==
  ASSUME NEW book, NEW next, NEW o, NEW i,
         \A p \in Returns : book[p].status \in Live => book[p].claim \in Claims,
         \A p \in Returns : next[p].claim = book[p].claim,
         \A p \in Returns : next[p].status = "refunded" => book[p].status \in Live
  PROVE  /\ ClaimedIn(next, {"refunded"}, o, i) <= ClaimedIn(book, Live, o, i)
         /\ ClaimedIn(next, {"refunded"}, o, i) \in Nat /\ ClaimedIn(book, Live, o, i) \in Nat
<1> DEFINE S == StandingIn(next, {"refunded"}, o)
           T == StandingIn(book, Live, o)
           c == [book |-> book, line |-> i]
           d == [book |-> next, line |-> i]
<1>1. S \in SUBSET T /\ T \in SUBSET Returns
  BY DEF StandingIn
<1>2. \A p \in S : ClaimAt(d, p) = ClaimAt(c, p)
  BY <1>1 DEF ClaimAt
<1>3. IsFiniteSet(T) /\ IsFiniteSet(S)
  <2>1. T \in SUBSET Orders /\ S \in SUBSET Orders
    BY <1>1, DocumentsAre
  <2> QED
    BY <2>1, StocktakingAssumption, FS_Subset
<1>4. \A p \in T : ClaimAt(c, p) \in Nat
  <2> SUFFICES ASSUME NEW p \in T PROVE ClaimAt(c, p) \in Nat
    OBVIOUS
  <2> DEFINE claim == book[p].claim
  <2>1. claim \in Claims /\ ClaimAt(c, p) = Quantity(claim, i)
    BY DEF StandingIn, ClaimAt
  <2> HIDE DEF claim
  <2> QED
    BY <2>1, QuantityNat
<1>5. ClaimedIn(next, {"refunded"}, o, i) = Claiming!Sum(d, S)
  BY ClaimedIs
<1>6. ClaimedIn(book, Live, o, i) = Claiming!Sum(c, T)
  BY ClaimedIs
<1> HIDE DEF S, T, c, d
<1>7. Claiming!Sum(d, S) = Claiming!Sum(c, S)
  BY <1>2, <1>3, SameFinite, AllAdd, Claiming!SumSame
<1>8. Claiming!Sum(c, S) <= Claiming!Sum(c, T)
  BY <1>1, <1>3, <1>4, SameFinite, AllAdd, Claiming!SumPart
<1>9. Claiming!Sum(c, T) \in Nat
  BY <1>3, <1>4, SameFinite, AllAdd, Claiming!SumNat
<1>10. \A p \in S : ClaimAt(c, p) \in Nat
  BY <1>1, <1>4
<1>11. Claiming!Sum(c, S) \in Nat
  BY <1>3, <1>10, SameFinite, AllAdd, Claiming!SumNat
<1> QED
  BY <1>5, <1>6, <1>7, <1>8, <1>9, <1>11

LEMMA RefundReturnKeeps ==
  ASSUME IInv, NEW r \in Returns, RefundReturn(r)
  PROVE  Keeps
<1>1. ReturnTypes /\ ClerkTypes /\ OrderTypes /\ NotFiledYet /\ ReturnsHold /\ FullReturnsUndoPoints
  BY DEF IInv, Types
<1> DEFINE claim == return[r].claim
           row == [status |-> "refunded", claim |-> claim]
           book == return
           next == return'
<1>2. /\ CanBecome(return[r].status, "refunded")
      /\ return' = [return EXCEPT ![r].status = "refunded"]
      /\ points' = IF FullyReturned(r) THEN [points EXCEPT ![return[r].claim.order] = "undone"]
                   ELSE points
      /\ UNCHANGED <<warehouse, goods, shifts, order, count, bulk, drift>>
      /\ clerk' = clerk /\ bulk' = bulk
  BY DEF RefundReturn
<1>3. return[r].status \in {"received", "refunded"} /\ "refunded" \in DOMAIN ReturnAfter
  BY <1>2 DEF CanBecome, ReturnAfter
<1>4. claim \in Claims /\ return[r] = [status |-> return[r].status, claim |-> claim]
  BY <1>1, <1>3, ReturnIs
<1>5. return' = [return EXCEPT ![r] = row]
  <2>1. return' = [return EXCEPT ![r] = [return[r] EXCEPT !.status = "refunded"]]
    BY <1>1, <1>2 DEF ReturnTypes
  <2>2. [return[r] EXCEPT !.status = "refunded"] = row
    BY <1>4
  <2> QED
    BY <2>1, <2>2
<1>6. claim.order \in CustomerOrders
  BY <1>4, ClaimIs
<1>7. row.status = "refunded" /\ row.claim = claim /\ return[r].claim = claim
  OBVIOUS
<1>8. /\ points \in [CustomerOrders -> {"kept", "undone"}]
      /\ points' = IF FullyReturned(r) THEN [points EXCEPT ![claim.order] = "undone"] ELSE points
  BY <1>1, <1>2 DEF OrderTypes
<1> HIDE DEF claim
<1>9. ReturnTypes'
  BY <1>1, <1>3, <1>4, <1>5, ReturnTyped
<1>10. \A p \in Returns : return'[p] = IF p = r THEN row ELSE return[p]
  BY <1>1, <1>5 DEF ReturnTypes
<1>11. ReturnFits(warehouse, row, r)
  <2>1. ReturnFits(warehouse, return[r], r)
    BY <1>1 DEF ReturnsHold
  <2> QED
    BY <1>3, <1>7, <2>1 DEF ReturnFits, ReceivedInWhole
<1> HIDE DEF row
<1>12. NotFiledYet'
  <2>1. \A l \in Clerks : clerk'[l].job \in {"return", "bulk"} => clerk'[l] = clerk[l]
    BY <1>2
  <2>2. ASSUME NEW l \in Clerks, clerk'[l].job = "return"
        PROVE  return'[clerk[l].doc].status = return[clerk[l].doc].status
    <3>1. clerk[l].job = "return" /\ return[clerk[l].doc].status = "none"
      BY <1>1, <1>2, <2>2 DEF NotFiledYet
    <3>2. clerk[l].doc \in Returns
      <4>1. clerk[l] \in Jobs
        BY <1>1 DEF ClerkTypes
      <4> QED
        BY <3>1, <4>1 DEF Jobs, Idle
    <3> QED
      BY <1>3, <1>10, <3>1, <3>2
  <2>3. \A l \in Clerks : clerk'[l].job = "bulk" =>
           bulk'[clerk[l].doc].status = bulk[clerk[l].doc].status
    BY <1>2
  <2> QED
    BY <1>1, <2>1, <2>2, <2>3, StillNotFiled
<1>13. points' \in [CustomerOrders -> {"kept", "undone"}]
  BY <1>6, <1>8
<1>14. \A o \in CustomerOrders : points[o] = "undone" => points'[o] = "undone"
  BY <1>6, <1>8
<1>15. FullReturnsUndoPoints'
  <2>1. UndoneWhenCovered(book, points)
    BY <1>1, PointsAre
  <2>2. ASSUME NEW o \in CustomerOrders, NEW i, o # claim.order
        PROVE  ClaimedIn(next, {"refunded"}, o, i) = ClaimedIn(book, {"refunded"}, o, i)
    <3>1. \A p \in StandingIn(book, {"refunded"}, o) \cup StandingIn(next, {"refunded"}, o) :
             next[p] = book[p]
      BY <1>7, <1>10, <2>2 DEF StandingIn
    <3> HIDE DEF book, next
    <3> QED
      BY <3>1, SameRefunds
  <2>3. \A o, i : Claimed(Live, o, i) = ClaimedIn(book, Live, o, i)
    BY DEF Claimed, ClaimedIn, Standing, StandingIn, MapThenSumSet, MapThenFoldSet
  <2>4. FullyReturned(r) <=> \A i \in Lines(claim.order) :
                                Claimed(Live, claim.order, i) >= Bought[claim.order][i].quantity
    BY <1>7 DEF FullyReturned
  <2>5. /\ \A p \in Returns : book[p].status \in Live => book[p].claim \in Claims
        /\ \A p \in Returns : next[p].claim = book[p].claim
        /\ \A p \in Returns : next[p].status = "refunded" => book[p].status \in Live
    <3>1. \A p \in Returns : return[p].status \in Live => return[p].claim \in Claims
      BY <1>1 DEF ReturnTypes, Live
    <3>2. \A p \in Returns : return'[p].claim = return[p].claim
      BY <1>7, <1>10
    <3>3. \A p \in Returns : return'[p].status = "refunded" => return[p].status \in Live
      BY <1>3, <1>10 DEF Live
    <3> QED
      BY <3>1, <3>2, <3>3
  <2> DEFINE o == claim.order
  <2>6. \A i : ClaimedIn(next, {"refunded"}, o, i) <= ClaimedIn(book, Live, o, i)
               /\ ClaimedIn(next, {"refunded"}, o, i) \in Nat
               /\ ClaimedIn(book, Live, o, i) \in Nat
    <3> HIDE DEF book, next, o
    <3> QED
      BY <2>5, RefundsAreClaims
  <2>7. ASSUME \A i \in Lines(o) : ClaimedIn(next, {"refunded"}, o, i) >= Bought[o][i].quantity
        PROVE  points'[o] = "undone"
    <3>1. ASSUME NEW i \in Lines(o)
          PROVE  ClaimedIn(book, Live, o, i) >= Bought[o][i].quantity
      <4>1. Bought[o][i].quantity \in Nat
        BY <1>6, LinesAre
      <4> QED
        BY <2>6, <2>7, <4>1
    <3>2. FullyReturned(r)
      BY <2>3, <2>4, <3>1
    <3> QED
      BY <1>6, <1>8, <3>2
  <2> HIDE DEF book, next
  <2>8. ASSUME NEW p \in CustomerOrders,
               \A i \in Lines(p) : ClaimedIn(next, {"refunded"}, p, i) >= Bought[p][i].quantity
        PROVE  points'[p] = "undone"
    <3>1. CASE p = o
      BY <2>7, <2>8, <3>1
    <3>2. CASE p # o
      <4>1. points[p] = "undone"
        BY <2>1, <2>2, <2>8, <3>2 DEF UndoneWhenCovered
      <4> QED
        BY <1>14, <4>1
    <3> QED
      BY <3>1, <3>2
  <2>9. UndoneWhenCovered(next, points')
    BY <2>8 DEF UndoneWhenCovered
  <2> QED
    BY <2>9, PointsAre DEF next
<1>16. ClerkTypes' /\ \A l \in Clerks : clerk'[l].job # "none" => clerk'[l] = clerk[l]
  BY <1>1, <1>2 DEF ClerkTypes
<1> QED
  BY <1>2, <1>5, <1>9, <1>11, <1>12, <1>13, <1>15, <1>16, ReturnStep
-----------------------------------------------------------------------------
(* A return that is received *)
LEMMA NetOfNone ==
  ASSUME NEW w, NEW d, NEW sku, w.moves[d] = <<>>
  PROVE  NetOf(w, d, sku) = 0
<1> DEFINE moves == w.moves[d]
<1>1. NetOf(w, d, sku) = Net!Sum(moves, RowsOf(moves, sku))
  BY NetIsSum
<1>2. RowsOf(moves, sku) = {}
  BY DEF RowsOf
<1> HIDE DEF moves
<1>3. Net!Sum(moves, {}) = 0
  BY Net!SumEmpty
<1> QED
  BY <1>1, <1>2, <1>3

\* What a return says of the movements, after it was received once more.
LEMMA ReceivedAgain ==
  ASSUME NEW w \in Warehouses, NEW v \in Warehouses, NEW r \in Returns, NEW old, NEW row,
         ReturnFits(w, old, r), old.status \in {"approved", "received"},
         row.status = "received", row.claim = old.claim, old.claim \in Claims,
         Booked(w, v, r, GainOfClaim(old.claim)),
         Kept(old.claim.items) # {} => Len(v.moves[r]) > Len(w.moves[r]),
         Len(w.moves[r]) < MaxMoves
  PROVE  ReturnFits(v, row, r)
<1> DEFINE claim == old.claim
           gain == GainOfClaim(claim)
           kept == Kept(claim.items)
           brought(sku) == KeptQuantity(claim, sku)
           before == Len(w.moves[r])
           after == Len(v.moves[r])
<1>1. r \in Orders
  BY DocumentsAre
<1>2. before \in Nat /\ after \in Nat /\ MaxMoves \in Nat
  <2>1. w.moves[r] \in Seq(MoveRows) /\ v.moves[r] \in Seq(MoveRows)
    BY <1>1 DEF Warehouses
  <2> QED
    BY <2>1, StocktakingAssumption
<1>3. \A sku \in Skus : gain[sku] = brought(sku) /\ gain[sku] \in Nat
  <2> HIDE DEF claim
  <2>1. \A sku \in Skus : GainOfClaim(claim)[sku] \in Nat
    <3>1. claim \in Claims
      BY DEF claim
    <3> QED
      BY <3>1, ClaimStepsAre
  <2> QED
    BY <2>1 DEF GainOfClaim
<1>4. \A sku \in Skus : NetOf(v, r, sku) = NetOf(w, r, sku) + gain[sku]
  BY DEF Booked
<1>5. kept = {} => \A sku \in Skus : gain[sku] = 0
  <2> SUFFICES ASSUME kept = {}, NEW sku \in Skus PROVE gain[sku] = 0
    OBVIOUS
  <2>1. KeptOf(claim, sku) = {}
    BY DEF KeptOf, Kept
  <2>2. claim \in Claims
    OBVIOUS
  <2> HIDE DEF claim, kept
  <2> QED
    BY <2>1, <2>2, ClaimStepsAre
<1>6. PICK times \in 0..MaxMoves :
         /\ \A sku \in Skus : NetOf(w, r, sku) = times * gain[sku]
         /\ times <= before \/ kept = {}
  <2>1. CASE old.status = "approved"
    <3>1. w.moves[r] = <<>>
      BY <2>1 DEF ReturnFits
    <3>2. \A sku \in Skus : NetOf(w, r, sku) = 0 * gain[sku]
      BY <1>3, <3>1, NetOfNone
    <3>3. 0 \in 0..MaxMoves /\ 0 <= before
      BY <1>2
    <3> QED
      BY <3>2, <3>3
  <2>2. CASE old.status = "received"
    <3>1. ReceivedInWhole(w, old, r)
      BY <2>2 DEF ReturnFits
    <3>2. PICK k \in 1..MaxMoves :
             /\ \A sku \in Skus : NetOf(w, r, sku) = k * KeptQuantity(old.claim, sku)
             /\ \/ k <= Len(w.moves[r])
                \/ k = 1 /\ Kept(old.claim.items) = {}
      BY <3>1 DEF ReceivedInWhole
    <3>3. k \in 0..MaxMoves /\ (k <= before \/ kept = {})
      BY <1>2, <3>2
    <3>4. \A sku \in Skus : NetOf(w, r, sku) = k * gain[sku]
      BY <1>3, <3>2
    <3> QED
      BY <3>3, <3>4
  <2> QED
    BY <2>1, <2>2
<1>7. \E k \in 1..MaxMoves :
         /\ \A sku \in Skus : NetOf(v, r, sku) = k * gain[sku]
         /\ k <= after \/ (k = 1 /\ kept = {})
  <2>1. CASE kept = {}
    <3>1. 1 \in 1..MaxMoves
      BY <1>2
    <3>2. \A sku \in Skus : NetOf(v, r, sku) = 1 * gain[sku]
      <4> SUFFICES ASSUME NEW sku \in Skus PROVE NetOf(v, r, sku) = 1 * gain[sku]
        OBVIOUS
      <4>1. gain[sku] = 0 /\ NetOf(w, r, sku) = times * gain[sku]
        BY <1>5, <1>6, <2>1
      <4>2. NetOf(v, r, sku) = NetOf(w, r, sku) + gain[sku]
        BY <1>4
      <4> HIDE DEF gain
      <4> QED
        BY <4>1, <4>2
    <3> QED
      BY <2>1, <3>1, <3>2
  <2>2. CASE kept # {}
    <3>1. after > before /\ times <= before /\ before < MaxMoves
      BY <1>6, <2>2
    <3> HIDE DEF kept, after, before, gain
    <3>2. times + 1 \in 1..MaxMoves /\ times + 1 <= after
      BY <1>2, <3>1
    <3>3. \A sku \in Skus : NetOf(v, r, sku) = (times + 1) * gain[sku]
      <4> SUFFICES ASSUME NEW sku \in Skus PROVE NetOf(v, r, sku) = (times + 1) * gain[sku]
        OBVIOUS
      <4> DEFINE g == gain[sku]
      <4>1. g \in Nat /\ NetOf(w, r, sku) = times * g /\ NetOf(v, r, sku) = NetOf(w, r, sku) + g
        BY <1>3, <1>4, <1>6
      <4> HIDE DEF g
      <4>2. (times + 1) * g = times * g + g
        BY <4>1
      <4> QED
        BY <4>1, <4>2 DEF g
    <3> QED
      BY <3>2, <3>3
  <2> QED
    BY <2>1, <2>2
<1>8. ReceivedInWhole(v, row, r)
  <2>1. PICK k \in 1..MaxMoves :
           /\ \A sku \in Skus : NetOf(v, r, sku) = k * gain[sku]
           /\ k <= after \/ (k = 1 /\ kept = {})
    BY <1>7
  <2>2. \A sku \in Skus : NetOf(v, r, sku) = k * KeptQuantity(row.claim, sku)
    BY <1>3, <2>1
  <2>3. \/ k <= Len(v.moves[r])
        \/ k = 1 /\ Kept(row.claim.items) = {}
    BY <2>1
  <2> QED
    BY <2>2, <2>3 DEF ReceivedInWhole
<1> QED
  BY <1>8 DEF ReturnFits

\* The goods of a return arrive, and are booked.
LEMMA ReturnArrives ==
  ASSUME ShelfTypes, OrderTypes, ShelvesMatch, NEW r \in Returns, NEW claim \in Claims,
         Booked(warehouse, warehouse', r, GainOfClaim(claim)),
         NEW come, come.order = order', come.goods = goods', come.drift = drift',
         come = Arriving!Fold([rows |-> claim.items, order |-> claim.order],
                              [order |-> order, goods |-> goods, drift |-> drift],
                              DOMAIN claim.items),
         shifts' = Shifted({Bought[claim.order][claim.items[j].line].sku : j \in Kept(claim.items)})
  PROVE  /\ order' \in OrderBooks /\ ShelfTypes' /\ ShelvesMatch' /\ Onward
<1> DEFINE acc == [order |-> order, goods |-> goods, drift |-> drift]
           moved == {Bought[claim.order][claim.items[j].line].sku : j \in Kept(claim.items)}
           gain == GainOfClaim(claim)
           sku(j) == Bought[claim.order][claim.items[j].line].sku
<1>1. /\ acc \in Accounts /\ acc.goods = goods /\ acc.drift = drift
  BY DEF Accounts, ShelfTypes, OrderTypes
<1>2. come = Arriving!Fold([rows |-> claim.items, order |-> claim.order], acc, DOMAIN claim.items)
  OBVIOUS
<1> HIDE DEF acc
<1>3. /\ come \in Accounts /\ acc.drift \subseteq come.drift
      /\ \A s \in Skus \ come.drift : come.goods[s] = acc.goods[s] + GainOfClaim(claim)[s]
      /\ \A s \in Skus : (\A i \in Kept(claim.items) :
                             Bought[claim.order][claim.items[i].line].sku # s) =>
            come.goods[s] = acc.goods[s]
  BY <1>1, <1>2, ArriveAll
<1>4. order' \in OrderBooks /\ goods' \in [Skus -> Nat] /\ drift' \subseteq Skus /\ drift \subseteq drift'
  <2>1. /\ come.order \in OrderBooks /\ come.goods \in [Skus -> Nat] /\ come.drift \subseteq Skus
    BY <1>3 DEF Accounts
  <2> QED
    BY <1>1, <1>3, <2>1
<1>5. \A j \in Kept(claim.items) : sku(j) \in Skus
  BY ClaimIs DEF Kept
<1>6. moved \in SUBSET Skus /\ shifts' = Shifted(moved)
  BY <1>5
<1>7. \A s \in Skus \ moved : \A i \in Kept(claim.items) : sku(i) # s
  OBVIOUS
<1> HIDE DEF moved
<1>8. /\ shifts' \in [Skus -> Nat]
      /\ \A s \in Skus : /\ shifts[s] <= shifts'[s]
                         /\ shifts'[s] = shifts[s] => s \notin moved
  BY <1>6, ShiftedIs
<1>9. warehouse' \in Warehouses /\ \A s \in Skus : warehouse'.stock[s] = warehouse.stock[s] + gain[s]
  BY DEF Booked
<1>10. ShelfTypes'
  BY <1>4, <1>8, <1>9 DEF ShelfTypes
<1>11. Onward
  <2>1. \A s \in Skus : s \notin moved => goods'[s] = goods[s]
    BY <1>1, <1>3, <1>7
  <2> QED
    BY <1>8, <2>1 DEF Onward
<1>12. \A s \in Skus \ drift' : warehouse'.stock[s] = goods'[s]
  <2> SUFFICES ASSUME NEW s \in Skus, s \notin drift' PROVE warehouse'.stock[s] = goods'[s]
    OBVIOUS
  <2>1. goods'[s] = goods[s] + gain[s]
    BY <1>1, <1>3
  <2>2. warehouse.stock[s] = goods[s]
    BY <1>4 DEF ShelvesMatch
  <2> QED
    BY <1>9, <2>1, <2>2
<1>13. ShelvesMatch'
  BY <1>12 DEF ShelvesMatch
<1> QED
  BY <1>4, <1>10, <1>11, <1>13

LEMMA ReceiveReturnKeeps ==
  ASSUME IInv, NEW r \in Returns, ReceiveReturn(r)
  PROVE  Keeps
<1>1. /\ ShelfTypes /\ OrderTypes /\ ReturnTypes /\ CountTypes /\ BulkTypes /\ ClerkTypes
      /\ StockOnFile /\ ShelvesMatch /\ CountsHold /\ NotFiledYet /\ ReturnsHold /\ BulksHold
      /\ FullReturnsUndoPoints
  BY DEF IInv, Types
<1> DEFINE claim == return[r].claim
           row == [status |-> "received", claim |-> claim]
           w == warehouse
           v == warehouse'
           start == [order |-> order, goods |-> goods, drift |-> drift]
           come == Arriving!Fold([rows |-> claim.items, order |-> claim.order], start,
                                 DOMAIN claim.items)
<1>2. /\ CanBecome(return[r].status, "received") /\ MayMove
      /\ return' = [return EXCEPT ![r].status = "received"]
      /\ shifts' = Shifted({Bought[claim.order][claim.items[j].line].sku : j \in Kept(claim.items)})
      /\ points' = points /\ count' = count /\ bulk' = bulk /\ clerk' = clerk
  BY DEF ReceiveReturn
<1>3. v = Restocking!Fold([rows |-> claim.items, doc |-> r, order |-> claim.order], w,
                          DOMAIN claim.items)
  <2>1. v = Restocked(w, r, claim.items, claim.order)
    BY DEF ReceiveReturn
  <2> HIDE DEF v, w, claim
  <2> QED
    BY <2>1 DEF Restocked, FoldLeft, Restocking!Fold, MapThenFoldSet, Restocking!MapThenFoldSet,
                ItemAt, Greatest, Restock
<1>4. come.order = order' /\ come.goods = goods' /\ come.drift = drift'
  <2> DEFINE fold == FoldLeft(LAMBDA acc, item : Arrived(acc, claim.order, item), start, claim.items)
  <2>1. order' = fold.order /\ goods' = fold.goods /\ drift' = fold.drift
    BY DEF ReceiveReturn
  <2>2. fold = come
    <3> HIDE DEF claim, start
    <3> QED
      BY DEF FoldLeft, Arriving!Fold, MapThenFoldSet, Arriving!MapThenFoldSet, ItemAt, Greatest,
             Arrive
  <2> QED
    BY <2>1, <2>2
<1>5. return[r].status \in {"approved", "received"} /\ "received" \in DOMAIN ReturnAfter
  <2> DEFINE from == return[r].status
  <2>1. CanBecome(from, "received")
    BY <1>2
  <2> HIDE DEF from
  <2>2. from \in {"approved", "received"} /\ "received" \in DOMAIN ReturnAfter
    BY ONLY <2>1 DEF CanBecome, ReturnAfter
  <2> QED
    BY <2>2 DEF from
<1>6. claim \in Claims /\ return[r] = [status |-> return[r].status, claim |-> claim]
  BY <1>1, <1>5, ReturnIs
<1>7. return' = [return EXCEPT ![r] = row]
  <2>1. return' = [return EXCEPT ![r] = [return[r] EXCEPT !.status = "received"]]
    BY <1>1, <1>2 DEF ReturnTypes
  <2>2. [return[r] EXCEPT !.status = "received"] = row
    BY <1>6
  <2> QED
    BY <2>1, <2>2
<1>8. w \in Warehouses /\ r \in Orders /\ r \notin Bulks
  BY <1>1, DocumentsAre DEF ShelfTypes
<1>9. /\ Booked(w, v, r, GainOfClaim(claim)) /\ Told(w, v)
      /\ Kept(claim.items) # {} => Len(v.moves[r]) > Len(w.moves[r])
  <2> HIDE DEF w, v, claim
  <2> QED
    BY <1>3, <1>6, <1>8, RestockBooks
<1>10. row.status = "received" /\ row.claim = claim /\ return[r].claim = claim
  OBVIOUS
<1>11. GainOfClaim(claim) \in Gains
  <2> HIDE DEF claim
  <2> QED
    BY <1>6, ClaimStepsAre
<1>12. /\ order' \in OrderBooks /\ ShelfTypes' /\ ShelvesMatch' /\ Onward
  <2>1. Booked(warehouse, warehouse', r, GainOfClaim(claim))
    BY <1>9
  <2>2. come = Arriving!Fold([rows |-> claim.items, order |-> claim.order],
                             [order |-> order, goods |-> goods, drift |-> drift],
                             DOMAIN claim.items)
    OBVIOUS
  <2> HIDE DEF claim, come
  <2> QED
    BY <1>1, <1>2, <1>4, <1>6, <2>1, <2>2, ReturnArrives
<1>13. StockOnFile' /\ \A p \in Orders \ {r} : warehouse'.moves[p] = warehouse.moves[p]
  <2> DEFINE g == GainOfClaim(claim)
  <2>1. Booked(warehouse, warehouse', r, g) /\ g \in Gains
    BY <1>9, <1>11
  <2> HIDE DEF g
  <2> QED
    BY <1>1, <1>8, <2>1, BooksKept
<1>14. ReturnTypes'
  <2> HIDE DEF claim
  <2> QED
    BY <1>1, <1>5, <1>6, <1>7, ReturnTyped
<1>15. \A p \in Returns : return'[p] = IF p = r THEN row ELSE return[p]
  BY <1>1, <1>7 DEF ReturnTypes
<1>16. ReturnFits(v, row, r)
  <2> DEFINE old == return[r]
  <2>1. ReturnFits(w, old, r)
    BY <1>1 DEF ReturnsHold
  <2>2. Len(w.moves[r]) < MaxMoves
    BY <1>1, <1>2, <1>8, FewMoves
  <2>3. v \in Warehouses
    BY <1>9 DEF Booked
  <2>4. /\ old.status \in {"approved", "received"} /\ row.claim = old.claim /\ old.claim \in Claims
        /\ Booked(w, v, r, GainOfClaim(old.claim))
        /\ Kept(old.claim.items) # {} => Len(v.moves[r]) > Len(w.moves[r])
    BY <1>5, <1>6, <1>9, <1>10
  <2> HIDE DEF old, w, v, row
  <2> QED
    BY <1>8, <1>10, <2>1, <2>2, <2>3, <2>4, ReceivedAgain
<1>17. ReturnsHold'
  <2>1. \A p \in Returns \ {r} : return'[p] = return[p] /\ warehouse'.moves[p] = warehouse.moves[p]
    BY <1>13, <1>15, DocumentsAre
  <2>2. ReturnFits(warehouse', return'[r], r)
    BY <1>15, <1>16
  <2> QED
    BY <1>1, <2>1, <2>2, ReturnsStay
<1>18. BulksHold'
  <2>1. \A b \in Bulks \ {r} : bulk'[b] = bulk[b] /\ warehouse'.moves[b] = warehouse.moves[b]
    BY <1>2, <1>13, DocumentsAre
  <2> QED
    BY <1>1, <1>8, <2>1, BulksStay
<1>19. CountTypes' /\ BulkTypes' /\ ClerkTypes' /\ OrderTypes'
  BY <1>1, <1>2, <1>12 DEF CountTypes, BulkTypes, ClerkTypes, OrderTypes
<1>20. CountsHold'
  <2>1. \A c \in Counts : \A sku \in DOMAIN count'[c].counted :
           \/ sku \in DOMAIN count[c].counted /\ count'[c].counted[sku] = count[c].counted[sku]
           \/ RightIn(shifts', goods', count'[c].counted[sku], sku)
    BY <1>2
  <2>2. \A l \in Clerks : clerk'[l].job = "record" =>
           clerk'[l] = clerk[l] \/ RightIn(shifts', goods', clerk'[l], clerk'[l].sku)
    BY <1>2
  <2> QED
    BY <1>1, <1>12, <2>1, <2>2, CountsStay
<1>21. NotFiledYet'
  <2>1. \A l \in Clerks : clerk'[l].job \in {"return", "bulk"} => clerk'[l] = clerk[l]
    BY <1>2
  <2>2. ASSUME NEW l \in Clerks, clerk'[l].job = "return"
        PROVE  return'[clerk[l].doc].status = return[clerk[l].doc].status
    <3>1. clerk[l].job = "return" /\ return[clerk[l].doc].status = "none"
      BY <1>1, <1>2, <2>2 DEF NotFiledYet
    <3>2. clerk[l].doc \in Returns
      <4>1. clerk[l] \in Jobs
        BY <1>1 DEF ClerkTypes
      <4> QED
        BY <3>1, <4>1 DEF Jobs, Idle
    <3> QED
      BY <1>5, <1>15, <3>1, <3>2
  <2>3. \A l \in Clerks : clerk'[l].job = "bulk" =>
           bulk'[clerk[l].doc].status = bulk[clerk[l].doc].status
    BY <1>2
  <2> QED
    BY <1>1, <2>1, <2>2, <2>3, StillNotFiled
<1>22. FullReturnsUndoPoints'
  <2>1. \A p \in Returns : return[p].status = "refunded" \/ return'[p].status = "refunded" =>
           return'[p] = return[p]
    BY <1>5, <1>10, <1>15
  <2>2. \A o \in CustomerOrders : points[o] = "undone" => points'[o] = "undone"
    BY <1>2
  <2> QED
    BY <1>1, <2>1, <2>2, PointsStay
<1>23. TellsWaiters
  BY <1>9, TellingIs
<1> QED
  BY <1>12, <1>13, <1>14, <1>17, <1>18, <1>19, <1>20, <1>21, <1>22, <1>23 DEF Keeps, IInv, Types
-----------------------------------------------------------------------------
(* Counts *)
\* What a step of a count keeps, whichever stock it writes.
LEMMA CountStep ==
  ASSUME IInv, NEW c \in Counts, UNCHANGED <<goods, shifts, order, points, return, bulk>>,
         ShelfTypes', StockOnFile', ShelvesMatch', CountTypes', ClerkTypes',
         \A p \in Orders \ {c} : warehouse'.moves[p] = warehouse.moves[p],
         \A l \in Clerks : clerk'[l].job # "none" => clerk'[l] = clerk[l],
         \A d \in Counts : \A sku \in DOMAIN count'[d].counted :
            \/ sku \in DOMAIN count[d].counted /\ count'[d].counted[sku] = count[d].counted[sku]
            \/ RightIn(shifts, goods, count'[d].counted[sku], sku)
  PROVE  Keeps
<1>1. /\ ShelfTypes /\ OrderTypes /\ ReturnTypes /\ CountTypes /\ BulkTypes /\ ClerkTypes
      /\ CountsHold /\ NotFiledYet /\ ReturnsHold /\ BulksHold /\ FullReturnsUndoPoints
  BY DEF IInv, Types
<1>2. /\ goods' = goods /\ shifts' = shifts /\ order' = order /\ points' = points
      /\ return' = return /\ bulk' = bulk
  OBVIOUS
<1>3. Onward
  <2>1. \A sku \in Skus : shifts[sku] \in Nat
    BY <1>1 DEF ShelfTypes
  <2> QED
    BY <1>2, <2>1 DEF Onward
<1>4. OrderTypes' /\ ReturnTypes' /\ BulkTypes'
  BY <1>1, <1>2 DEF OrderTypes, ReturnTypes, BulkTypes
<1>5. CountsHold'
  <2>1. \A d \in Counts : \A sku \in DOMAIN count'[d].counted :
           \/ sku \in DOMAIN count[d].counted /\ count'[d].counted[sku] = count[d].counted[sku]
           \/ RightIn(shifts', goods', count'[d].counted[sku], sku)
    BY <1>2
  <2>2. \A l \in Clerks : clerk'[l].job = "record" =>
           clerk'[l] = clerk[l] \/ RightIn(shifts', goods', clerk'[l], clerk'[l].sku)
    OBVIOUS
  <2> QED
    BY <1>1, <1>3, <2>1, <2>2, CountsStay
<1>6. NotFiledYet'
  <2>1. /\ \A l \in Clerks : clerk'[l].job \in {"return", "bulk"} => clerk'[l] = clerk[l]
        /\ \A l \in Clerks : clerk'[l].job = "return" =>
              return'[clerk[l].doc].status = return[clerk[l].doc].status
        /\ \A l \in Clerks : clerk'[l].job = "bulk" =>
              bulk'[clerk[l].doc].status = bulk[clerk[l].doc].status
    BY <1>2
  <2> QED
    BY <1>1, <2>1, StillNotFiled
<1>7. c \notin Returns /\ c \notin Bulks
  BY DocumentsAre
<1>8. /\ \A r \in Returns \ {c} : return'[r] = return[r] /\ warehouse'.moves[r] = warehouse.moves[r]
      /\ \A b \in Bulks \ {c} : bulk'[b] = bulk[b] /\ warehouse'.moves[b] = warehouse.moves[b]
  BY <1>2, DocumentsAre
<1>9. ReturnsHold'
  BY <1>1, <1>7, <1>8, ReturnsStay
<1>10. BulksHold'
  BY <1>1, <1>7, <1>8, BulksStay
<1>11. FullReturnsUndoPoints'
  BY <1>1, <1>2, PointsStay
<1>12. TellsWaiters
  BY DEF TellsWaiters
<1> QED
  BY <1>4, <1>5, <1>6, <1>9, <1>10, <1>11, <1>12 DEF Keeps, IInv, Types

LEMMA CountTyped ==
  ASSUME CountTypes, NEW c \in Counts, NEW status \in {"none", "draft", "completed", "cancelled"},
         NEW S \in SUBSET Countable, NEW counted \in [S -> CountRows],
         count' = [count EXCEPT ![c] = [status |-> status, counted |-> counted]]
  PROVE  /\ CountTypes'
         /\ \A d \in Counts \ {c} : count'[d] = count[d]
         /\ count'[c].counted = counted
<1> DEFINE Status == {"none", "draft", "completed", "cancelled"}
           Sets == UNION {[T -> CountRows] : T \in SUBSET Countable}
           row == [status |-> status, counted |-> counted]
<1>1. count \in [Counts -> [status : Status, counted : Sets]] /\ status \in Status
  BY DEF CountTypes
<1>2. counted \in Sets
  OBVIOUS
<1> HIDE DEF Status, Sets
<1>3. row \in [status : Status, counted : Sets] /\ row.counted = counted
  BY <1>1, <1>2
<1>4. count' = [count EXCEPT ![c] = row]
  OBVIOUS
<1> HIDE DEF row
<1>5. count' \in [Counts -> [status : Status, counted : Sets]]
  BY <1>1, <1>3, <1>4
<1>6. /\ \A d \in Counts \ {c} : count'[d] = count[d]
      /\ count'[c].counted = counted
  BY <1>1, <1>3, <1>4
<1> QED
  BY <1>5, <1>6 DEF CountTypes, Status, Sets

LEMMA CreateCountKeeps ==
  ASSUME IInv, NEW c \in Counts, CreateCount(c)
  PROVE  Keeps
<1>1. CountTypes /\ ClerkTypes
  BY DEF IInv, Types
<1>2. /\ count' = [count EXCEPT ![c] = [status |-> "draft", counted |-> Nothing]]
      /\ UNCHANGED <<goods, shifts, order, points, return, bulk>>
      /\ warehouse' = warehouse /\ goods' = goods /\ shifts' = shifts /\ drift' = drift
      /\ clerk' = clerk
  BY DEF CreateCount
<1>3. {} \in SUBSET Countable /\ Nothing \in [{} -> CountRows] /\ DOMAIN Nothing = {}
  BY DEF Nothing
<1>4. /\ CountTypes' /\ count'[c].counted = Nothing
      /\ \A d \in Counts \ {c} : count'[d] = count[d]
  BY <1>1, <1>2, <1>3, CountTyped
<1>5. ShelfTypes' /\ StockOnFile' /\ ShelvesMatch'
  BY <1>2, NothingMoves
<1>6. ClerkTypes' /\ \A l \in Clerks : clerk'[l].job # "none" => clerk'[l] = clerk[l]
  BY <1>1, <1>2 DEF ClerkTypes
<1>7. \A p \in Orders \ {c} : warehouse'.moves[p] = warehouse.moves[p]
  BY <1>2
<1>8. \A d \in Counts : \A sku \in DOMAIN count'[d].counted :
         \/ sku \in DOMAIN count[d].counted /\ count'[d].counted[sku] = count[d].counted[sku]
         \/ RightIn(shifts, goods, count'[d].counted[sku], sku)
  BY <1>3, <1>4
<1> QED
  BY <1>2, <1>4, <1>5, <1>6, <1>7, <1>8, CountStep

LEMMA CancelCountKeeps ==
  ASSUME IInv, NEW k \in Clerks, CancelCount(k)
  PROVE  Keeps
<1>1. CountTypes /\ ClerkTypes
  BY DEF IInv, Types
<1> DEFINE c == clerk[k].doc
           counted == count[c].counted
           S == DOMAIN counted
<1>2. /\ count' = [count EXCEPT ![c].status = "cancelled"] /\ clerk[k].job = "cancel"
      /\ UNCHANGED <<goods, shifts, order, points, return, bulk>>
      /\ warehouse' = warehouse /\ goods' = goods /\ shifts' = shifts /\ drift' = drift
      /\ Done(k)
  BY DEF CancelCount
<1>3. c \in Counts
  <2>1. clerk[k] \in Jobs
    BY <1>1 DEF ClerkTypes
  <2> QED
    BY <1>2, <2>1 DEF Jobs, Idle
<1>4. /\ S \in SUBSET Countable /\ counted \in [S -> CountRows]
      /\ count[c] = [status |-> count[c].status, counted |-> counted]
  <2> HIDE DEF c
  <2> QED
    BY <1>1, <1>3, CountOf
<1>5. count' = [count EXCEPT ![c] = [status |-> "cancelled", counted |-> counted]]
  <2>1. count' = [count EXCEPT ![c] = [count[c] EXCEPT !.status = "cancelled"]]
    BY <1>1, <1>2 DEF CountTypes
  <2>2. [count[c] EXCEPT !.status = "cancelled"] = [status |-> "cancelled", counted |-> counted]
    BY <1>4
  <2> QED
    BY <2>1, <2>2
<1> HIDE DEF c, S
<1>6. /\ CountTypes' /\ count'[c].counted = counted
      /\ \A d \in Counts \ {c} : count'[d] = count[d]
  <2> HIDE DEF counted
  <2> QED
    BY <1>1, <1>3, <1>4, <1>5, CountTyped
<1>7. ShelfTypes' /\ StockOnFile' /\ ShelvesMatch'
  BY <1>2, NothingMoves
<1>8. ClerkTypes' /\ \A l \in Clerks : clerk'[l].job # "none" => clerk'[l] = clerk[l]
  BY <1>1, <1>2, DoneIs
<1>9. \A p \in Orders \ {c} : warehouse'.moves[p] = warehouse.moves[p]
  BY <1>2
<1>10. \A d \in Counts : \A sku \in DOMAIN count'[d].counted :
          \/ sku \in DOMAIN count[d].counted /\ count'[d].counted[sku] = count[d].counted[sku]
          \/ RightIn(shifts, goods, count'[d].counted[sku], sku)
  BY <1>6
<1> QED
  BY <1>2, <1>3, <1>6, <1>7, <1>8, <1>9, <1>10, CountStep

LEMMA RecordCountKeeps ==
  ASSUME IInv, NEW k \in Clerks, RecordCount(k)
  PROVE  Keeps
<1>1. CountTypes /\ ClerkTypes /\ CountsHold
  BY DEF IInv, Types
<1> DEFINE c == clerk[k].doc
           sku == clerk[k].sku
           row == [quantity |-> clerk[k].quantity, at |-> clerk[k].at]
           before == count[c].counted
           counted == With(before, sku, row)
           S == DOMAIN before \cup {sku}
<1>2. /\ count' = [count EXCEPT ![c].counted = With(@, sku, row)] /\ clerk[k].job = "record"
      /\ UNCHANGED <<goods, shifts, order, points, return, bulk>>
      /\ warehouse' = warehouse /\ goods' = goods /\ shifts' = shifts /\ drift' = drift
      /\ Done(k)
  BY DEF RecordCount
<1>3. c \in Counts /\ sku \in Countable /\ clerk[k].quantity \in Nat /\ clerk[k].at \in Nat
  <2>1. clerk[k] \in Jobs /\ sku \in Countable
    BY <1>1, <1>2 DEF ClerkTypes
  <2> QED
    BY <1>2, <2>1 DEF Jobs, Idle
<1>4. row \in CountRows /\ row.quantity = clerk[k].quantity /\ row.at = clerk[k].at
  BY <1>3 DEF CountRows
<1>5. RightIn(shifts, goods, row, sku)
  <2>1. RightIn(shifts, goods, clerk[k], sku)
    BY <1>1, <1>2 DEF CountsHold
  <2> QED
    BY <1>4, <2>1 DEF RightIn
<1>6. /\ DOMAIN before \in SUBSET Countable /\ before \in [DOMAIN before -> CountRows]
      /\ count[c] = [status |-> count[c].status, counted |-> before]
      /\ count[c].status \in {"none", "draft", "completed", "cancelled"}
  <2> HIDE DEF c
  <2> QED
    BY <1>1, <1>3, CountOf
<1> DEFINE status == count[c].status
<1>7. count' = [count EXCEPT ![c] = [status |-> status, counted |-> counted]]
  <2>1. count' = [count EXCEPT ![c] = [count[c] EXCEPT !.counted = counted]]
    BY <1>1, <1>2 DEF CountTypes
  <2>2. [count[c] EXCEPT !.counted = counted] = [status |-> status, counted |-> counted]
    BY <1>6
  <2> QED
    BY <2>1, <2>2
<1> HIDE DEF c, sku, row, status
<1>8. /\ counted \in [S -> CountRows] /\ S \in SUBSET Countable /\ DOMAIN counted = S
      /\ counted[sku] = row /\ \A s \in S \ {sku} : s \in DOMAIN before /\ counted[s] = before[s]
  <2> HIDE DEF before
  <2> QED
    BY <1>3, <1>4, <1>6 DEF With
<1> HIDE DEF counted, S
<1>9. /\ CountTypes' /\ count'[c].counted = counted
      /\ \A d \in Counts \ {c} : count'[d] = count[d]
  <2>1. status \in {"none", "draft", "completed", "cancelled"}
    BY <1>6 DEF status
  <2>2. CountTypes /\ c \in Counts /\ S \in SUBSET Countable /\ counted \in [S -> CountRows]
    BY <1>1, <1>3, <1>8
  <2> QED
    BY ONLY <1>7, <2>1, <2>2, CountTyped
<1>10. ShelfTypes' /\ StockOnFile' /\ ShelvesMatch'
  BY <1>2, NothingMoves
<1>11. ClerkTypes' /\ \A l \in Clerks : clerk'[l].job # "none" => clerk'[l] = clerk[l]
  BY <1>1, <1>2, DoneIs
<1>12. \A p \in Orders \ {c} : warehouse'.moves[p] = warehouse.moves[p]
  BY <1>2
<1>13. \A d \in Counts : \A s \in DOMAIN count'[d].counted :
          \/ s \in DOMAIN count[d].counted /\ count'[d].counted[s] = count[d].counted[s]
          \/ RightIn(shifts, goods, count'[d].counted[s], s)
  <2> SUFFICES ASSUME NEW d \in Counts, NEW s \in DOMAIN count'[d].counted
               PROVE  \/ s \in DOMAIN count[d].counted /\ count'[d].counted[s] = count[d].counted[s]
                      \/ RightIn(shifts, goods, count'[d].counted[s], s)
    OBVIOUS
  <2>1. CASE d # c
    BY <1>9, <2>1
  <2>2. CASE d = c /\ s = sku
    BY <1>5, <1>8, <1>9, <2>2
  <2>3. CASE d = c /\ s # sku
    <3>1. s \in S \ {sku} /\ count'[d].counted[s] = counted[s]
      BY <1>8, <1>9, <2>3
    <3>2. s \in DOMAIN count[d].counted /\ counted[s] = count[d].counted[s]
      BY <1>8, <2>3, <3>1 DEF before
    <3> QED
      BY <3>1, <3>2
  <2> QED
    BY <2>1, <2>2, <2>3
<1> QED
  BY <1>2, <1>3, <1>9, <1>10, <1>11, <1>12, <1>13, CountStep

\* What was counted is numbers for some of the skus.
LEMMA CountedNumbers ==
  ASSUME CountTypes, NEW c \in Counts, NEW new,
         new = [sku \in DOMAIN count[c].counted |-> count[c].counted[sku].quantity]
  PROVE  /\ new \in SomeSkus /\ DOMAIN new = DOMAIN count[c].counted
         /\ \A sku \in DOMAIN new : sku \in Skus /\ new[sku] = count[c].counted[sku].quantity
<1> DEFINE counted == count[c].counted
           S == DOMAIN counted
<1>1. /\ S \in SUBSET Countable
      /\ \A sku \in S : sku \in Skus /\ counted[sku].quantity \in Nat
  BY CountOf
<1>2. new = [sku \in S |-> counted[sku].quantity]
  OBVIOUS
<1> HIDE DEF counted
<1>3. S \in SUBSET Skus /\ new \in [S -> Nat]
  BY <1>1, <1>2
<1>4. new \in SomeSkus /\ DOMAIN new = S
  BY <1>3 DEF SomeSkus
<1> QED
  BY <1>1, <1>2, <1>4 DEF counted

\* The shelves after a count was booked: what nobody disturbed was counted
\* right, and what is not booked was right before, or still is not.
LEMMA CountSettles ==
  ASSUME ShelfTypes, CountTypes, ShelvesMatch, CountsHold, NEW c \in Counts, NEW new,
         new = [sku \in DOMAIN count[c].counted |-> count[c].counted[sku].quantity],
         Booked(warehouse, warehouse', c, WriteGain(warehouse, new)),
         goods' = goods, shifts' = shifts,
         drift' = (drift \ {sku \in DOMAIN count[c].counted : Fresh(c, sku)})
                     \cup {sku \in DOMAIN count[c].counted :
                              ~Fresh(c, sku)
                              /\ count[c].counted[sku].quantity # warehouse.stock[sku]}
  PROVE  ShelfTypes' /\ ShelvesMatch'
<1> DEFINE counted == count[c].counted
<1>1. /\ new \in SomeSkus /\ DOMAIN new = DOMAIN counted
      /\ \A sku \in DOMAIN new : sku \in Skus /\ new[sku] = counted[sku].quantity
  BY CountedNumbers
<1>2. /\ warehouse' \in Warehouses /\ warehouse.stock \in [Skus -> Nat]
      /\ \A sku \in Skus : warehouse'.stock[sku]
            = warehouse.stock[sku] + WriteGain(warehouse, new)[sku]
  BY DEF Booked, ShelfTypes, Warehouses
<1>3. drift' \subseteq Skus
  BY <1>1 DEF ShelfTypes
<1>4. ShelfTypes'
  BY <1>2, <1>3 DEF ShelfTypes
<1>5. ASSUME NEW sku \in Skus
      PROVE  warehouse'.stock[sku] = IF sku \in DOMAIN counted THEN counted[sku].quantity
                                     ELSE warehouse.stock[sku]
  <2> DEFINE stock == warehouse.stock[sku]
             gain == WriteGain(warehouse, new)[sku]
  <2>1. gain = IF sku \in DOMAIN new THEN new[sku] - stock ELSE 0
    BY DEF WriteGain
  <2>2. stock \in Nat /\ warehouse'.stock[sku] = stock + gain
    BY <1>2
  <2>3. sku \in DOMAIN counted => counted[sku].quantity \in Nat
    BY CountOf
  <2> HIDE DEF stock, gain
  <2>4. CASE sku \in DOMAIN counted
    <3>1. warehouse'.stock[sku] = stock + (counted[sku].quantity - stock)
      BY <1>1, <2>1, <2>2, <2>4
    <3> QED
      BY <2>2, <2>3, <2>4, <3>1
  <2>5. CASE sku \notin DOMAIN counted
    <3>1. warehouse'.stock[sku] = stock + 0
      BY <1>1, <2>1, <2>2, <2>5
    <3> QED
      BY <2>2, <2>5, <3>1 DEF stock
  <2> QED
    BY <2>4, <2>5
<1>6. ASSUME NEW sku \in Skus, sku \notin drift'
      PROVE  warehouse'.stock[sku] = goods'[sku]
  <2>1. CASE sku \in DOMAIN counted /\ Fresh(c, sku)
    <3>1. RightIn(shifts, goods, counted[sku], sku) /\ counted[sku].at = shifts[sku]
      BY <2>1 DEF CountsHold, Fresh
    <3>2. counted[sku].quantity = goods[sku]
      BY <3>1 DEF RightIn
    <3> QED
      BY <1>5, <2>1, <3>2
  <2>2. CASE sku \in DOMAIN counted /\ ~Fresh(c, sku)
    <3>1. counted[sku].quantity = warehouse.stock[sku] /\ sku \notin drift
      BY <1>6, <2>2
    <3>2. warehouse.stock[sku] = goods[sku]
      BY <3>1 DEF ShelvesMatch
    <3> QED
      BY <1>5, <2>2, <3>1, <3>2
  <2>3. CASE sku \notin DOMAIN counted
    <3>1. sku \notin drift
      BY <1>6, <2>3
    <3>2. warehouse.stock[sku] = goods[sku]
      BY <3>1 DEF ShelvesMatch
    <3> QED
      BY <1>5, <2>3, <3>2
  <2> QED
    BY <2>1, <2>2, <2>3
<1>7. ShelvesMatch'
  BY <1>6 DEF ShelvesMatch
<1> QED
  BY <1>4, <1>7

LEMMA CompleteCountKeeps ==
  ASSUME IInv, NEW k \in Clerks, CompleteCount(k)
  PROVE  Keeps
<1>1. ShelfTypes /\ CountTypes /\ ClerkTypes /\ StockOnFile /\ ShelvesMatch /\ CountsHold
  BY DEF IInv, Types
<1> DEFINE c == clerk[k].doc
           counted == count[c].counted
           S == DOMAIN counted
           seq == SetToSeq(S)
           w == warehouse
           v == warehouse'
           new == [sku \in S |-> counted[sku].quantity]
           gain == WriteGain(w, new)
<1>2. /\ clerk[k].job = "complete" /\ MayMove
      /\ count' = [count EXCEPT ![c].status = "completed"]
      /\ drift' = (drift \ {sku \in DOMAIN counted : Fresh(c, sku)})
                    \cup {sku \in DOMAIN counted :
                             ~Fresh(c, sku) /\ counted[sku].quantity # warehouse.stock[sku]}
      /\ UNCHANGED <<goods, shifts, order, points, return, bulk>>
      /\ goods' = goods /\ shifts' = shifts /\ Done(k)
  BY DEF CompleteCount
<1>3. v = Settled!Fold([rows |-> seq, doc |-> c, counted |-> counted], w, DOMAIN seq)
  <2> DEFINE fold == FoldLeft(LAMBDA x, sku :
                                IF counted[sku].quantity = x.stock[sku] THEN x
                                ELSE PutStock(x, c, sku, counted[sku].quantity,
                                              counted[sku].quantity - x.stock[sku], "adjustment"),
                              w, seq)
  <2>1. v = fold
    BY DEF CompleteCount
  <2>2. fold = Settled!Fold([rows |-> seq, doc |-> c, counted |-> counted], w, DOMAIN seq)
    <3> HIDE DEF seq, counted, c, w
    <3> QED
      BY DEF FoldLeft, Settled!Fold, MapThenFoldSet, Settled!MapThenFoldSet, ItemAt, Greatest,
             Settle
  <2> QED
    BY <2>1, <2>2
<1>4. c \in Counts /\ c \in Orders /\ w \in Warehouses
  <2>1. clerk[k] \in Jobs
    BY <1>1 DEF ClerkTypes
  <2>2. c \in Counts
    BY <1>2, <2>1 DEF Jobs, Idle
  <2> QED
    BY <1>1, <2>2, DocumentsAre DEF ShelfTypes
<1>5. /\ S \in SUBSET Countable /\ counted \in [S -> CountRows]
      /\ count[c] = [status |-> count[c].status, counted |-> counted]
  <2> HIDE DEF c
  <2> QED
    BY <1>1, <1>4, CountOf
<1>6. count' = [count EXCEPT ![c] = [status |-> "completed", counted |-> counted]]
  <2>1. count' = [count EXCEPT ![c] = [count[c] EXCEPT !.status = "completed"]]
    BY <1>1, <1>2 DEF CountTypes
  <2>2. [count[c] EXCEPT !.status = "completed"] = [status |-> "completed", counted |-> counted]
    BY <1>5
  <2> QED
    BY <2>1, <2>2
<1> HIDE DEF c
<1>7. /\ new \in SomeSkus /\ DOMAIN new = S
      /\ \A sku \in DOMAIN new : sku \in Skus /\ new[sku] = counted[sku].quantity
  <2>1. new = [sku \in DOMAIN count[c].counted |-> count[c].counted[sku].quantity]
    OBVIOUS
  <2> HIDE DEF new
  <2> QED
    BY <1>1, <1>4, <2>1, CountedNumbers
<1>8. Booked(w, v, c, gain)
  <2>1. /\ DOMAIN new = DOMAIN counted
        /\ \A sku \in DOMAIN new : new[sku] = counted[sku].quantity
    BY <1>7
  <2>2. seq = SetToSeq(DOMAIN counted)
    OBVIOUS
  <2> HIDE DEF w, v, new, counted, seq
  <2> QED
    BY <1>3, <1>4, <1>7, <2>1, <2>2, SettleBooks
<1>9. gain \in Gains
  <2> HIDE DEF w, new
  <2> QED
    BY <1>4, <1>7, WriteGainIs
<1>10. StockOnFile' /\ \A p \in Orders \ {c} : warehouse'.moves[p] = warehouse.moves[p]
  <2>1. Booked(warehouse, warehouse', c, gain)
    BY <1>8
  <2> HIDE DEF gain
  <2> QED
    BY <1>1, <1>4, <1>9, <2>1, BooksKept
<1>11. ShelfTypes' /\ ShelvesMatch'
  <2>1. Booked(warehouse, warehouse', c, WriteGain(warehouse, new))
    BY <1>8
  <2>2. new = [sku \in DOMAIN count[c].counted |-> count[c].counted[sku].quantity]
    OBVIOUS
  <2>3. drift' = (drift \ {sku \in DOMAIN count[c].counted : Fresh(c, sku)})
                     \cup {sku \in DOMAIN count[c].counted :
                              ~Fresh(c, sku)
                              /\ count[c].counted[sku].quantity # warehouse.stock[sku]}
    BY <1>2
  <2> HIDE DEF new
  <2> QED
    BY <1>1, <1>2, <1>4, <2>1, <2>2, <2>3, CountSettles
<1> HIDE DEF S
<1>12. /\ CountTypes' /\ count'[c].counted = counted
       /\ \A d \in Counts \ {c} : count'[d] = count[d]
  <2>1. "completed" \in {"none", "draft", "completed", "cancelled"}
    OBVIOUS
  <2>2. CountTypes /\ c \in Counts /\ S \in SUBSET Countable /\ counted \in [S -> CountRows]
    BY <1>1, <1>4, <1>5
  <2> HIDE DEF counted
  <2> QED
    BY ONLY <1>6, <2>1, <2>2, CountTyped
<1>13. ClerkTypes' /\ \A l \in Clerks : clerk'[l].job # "none" => clerk'[l] = clerk[l]
  BY <1>1, <1>2, DoneIs
<1>14. \A d \in Counts : \A s \in DOMAIN count'[d].counted :
          \/ s \in DOMAIN count[d].counted /\ count'[d].counted[s] = count[d].counted[s]
          \/ RightIn(shifts, goods, count'[d].counted[s], s)
  BY <1>12
<1> QED
  BY <1>2, <1>4, <1>10, <1>11, <1>12, <1>13, <1>14, CountStep
-----------------------------------------------------------------------------
(* Changes of many products *)
\* What a step of a bulk change keeps.
LEMMA BulkStep ==
  ASSUME IInv, NEW b \in Bulks, UNCHANGED <<order, points, return, count>>,
         ShelfTypes', StockOnFile', ShelvesMatch', Onward, BulkTypes', ClerkTypes', TellsWaiters,
         \A p \in Orders \ {b} : warehouse'.moves[p] = warehouse.moves[p],
         \A d \in Bulks \ {b} : bulk'[d] = bulk[d],
         \A l \in Clerks : clerk'[l].job # "none" => clerk'[l] = clerk[l],
         \A l \in Clerks : clerk'[l].job = "bulk" => clerk[l].doc # b,
         BulkFits(warehouse', bulk'[b], b)
  PROVE  Keeps
<1>1. /\ ShelfTypes /\ OrderTypes /\ ReturnTypes /\ CountTypes /\ BulkTypes /\ ClerkTypes
      /\ CountsHold /\ NotFiledYet /\ ReturnsHold /\ BulksHold /\ FullReturnsUndoPoints
  BY DEF IInv, Types
<1>2. order' = order /\ points' = points /\ return' = return /\ count' = count
  OBVIOUS
<1>3. OrderTypes' /\ ReturnTypes' /\ CountTypes'
  BY <1>1, <1>2 DEF OrderTypes, ReturnTypes, CountTypes
<1>4. CountsHold'
  <2>1. \A d \in Counts : \A sku \in DOMAIN count'[d].counted :
           \/ sku \in DOMAIN count[d].counted /\ count'[d].counted[sku] = count[d].counted[sku]
           \/ RightIn(shifts', goods', count'[d].counted[sku], sku)
    BY <1>2
  <2>2. \A l \in Clerks : clerk'[l].job = "record" =>
           clerk'[l] = clerk[l] \/ RightIn(shifts', goods', clerk'[l], clerk'[l].sku)
    OBVIOUS
  <2> QED
    BY <1>1, <2>1, <2>2, CountsStay
<1>5. NotFiledYet'
  <2>1. \A l \in Clerks : clerk'[l].job \in {"return", "bulk"} => clerk'[l] = clerk[l]
    OBVIOUS
  <2>2. \A l \in Clerks : clerk'[l].job = "return" =>
           return'[clerk[l].doc].status = return[clerk[l].doc].status
    BY <1>2
  <2>3. ASSUME NEW l \in Clerks, clerk'[l].job = "bulk"
        PROVE  bulk'[clerk[l].doc].status = bulk[clerk[l].doc].status
    <3>1. clerk[l] \in Jobs /\ clerk[l].job = "bulk"
      BY <1>1, <2>3 DEF ClerkTypes
    <3>2. clerk[l].doc \in Bulks \ {b}
      BY <2>3, <3>1 DEF Jobs, Idle
    <3> QED
      BY <3>2
  <2> QED
    BY <1>1, <2>1, <2>2, <2>3, StillNotFiled
<1>6. \A r \in Returns \ {b} : return'[r] = return[r] /\ warehouse'.moves[r] = warehouse.moves[r]
  BY <1>2, DocumentsAre
<1>7. b \notin Returns
  BY DocumentsAre
<1>8. ReturnsHold'
  BY <1>1, <1>6, <1>7, ReturnsStay
<1>9. BulksHold'
  <2>1. \A d \in Bulks \ {b} : bulk'[d] = bulk[d] /\ warehouse'.moves[d] = warehouse.moves[d]
    BY DocumentsAre
  <2> QED
    BY <1>1, <2>1, BulksStay
<1>10. FullReturnsUndoPoints'
  BY <1>1, <1>2, PointsStay
<1> QED
  BY <1>3, <1>4, <1>5, <1>8, <1>9, <1>10 DEF Keeps, IInv, Types

LEMMA BulkTyped ==
  ASSUME BulkTypes, NEW b \in Bulks, NEW rolls \in Nat, NEW after \in SomeSkus,
         NEW status \in {"none", "completed", "rolled_back", "partially_rolled_back"},
         bulk' = [bulk EXCEPT ![b] = [status |-> status, rolls |-> rolls, after |-> after]]
  PROVE  /\ BulkTypes'
         /\ \A d \in Bulks \ {b} : bulk'[d] = bulk[d]
         /\ bulk'[b] = [status |-> status, rolls |-> rolls, after |-> after]
<1> DEFINE Status == {"none", "completed", "rolled_back", "partially_rolled_back"}
           row == [status |-> status, rolls |-> rolls, after |-> after]
<1>1. bulk \in [Bulks -> [status : Status, rolls : Nat, after : SomeSkus]] /\ status \in Status
  BY DEF BulkTypes
<1> HIDE DEF Status
<1>2. row \in [status : Status, rolls : Nat, after : SomeSkus]
  BY <1>1
<1>3. bulk' = [bulk EXCEPT ![b] = row]
  OBVIOUS
<1> HIDE DEF row
<1>4. bulk' \in [Bulks -> [status : Status, rolls : Nat, after : SomeSkus]]
  BY <1>1, <1>2, <1>3
<1>5. bulk'[b] = row /\ \A d \in Bulks \ {b} : bulk'[d] = bulk[d]
  BY <1>1, <1>3
<1> QED
  BY <1>4, <1>5 DEF BulkTypes, Status, row

\* What a change of many products says of its movements, once it is applied.
LEMMA AppliedFits ==
  ASSUME NEW w \in Warehouses, NEW v \in Warehouses, NEW b \in Bulks, NEW new \in SomeSkus,
         w.moves[b] = <<>>, Booked(w, v, b, WriteGain(w, new)),
         \A sku \in ToWrite(w, new) : LastIs(v, b, sku, new[sku] - w.stock[sku]),
         NEW row, row.status = "completed", row.rolls = 0,
         row.after = [sku \in ToWrite(w, new) |-> new[sku]]
  PROVE  BulkFits(v, row, b)
<1> DEFINE rows == ToWrite(w, new)
<1>1. /\ DOMAIN new \in SUBSET Skus /\ rows \in SUBSET DOMAIN new
      /\ \A sku \in DOMAIN new : new[sku] \in Nat
  BY WriteGainIs
<1>2. w.stock \in [Skus -> Nat]
  BY DEF Warehouses
<1>3. \A sku \in Skus : NetOf(v, b, sku) = NetOf(w, b, sku) + WriteGain(w, new)[sku]
  BY DEF Booked
<1>4. \A sku \in Skus : NetOf(w, b, sku) = 0
  BY NetOfNone
<1>5. \A sku \in Skus : NetOf(v, b, sku) = IF sku \in DOMAIN new THEN new[sku] - w.stock[sku] ELSE 0
  <2> SUFFICES ASSUME NEW sku \in Skus
               PROVE  NetOf(v, b, sku) = IF sku \in DOMAIN new THEN new[sku] - w.stock[sku] ELSE 0
    OBVIOUS
  <2> DEFINE gain == IF sku \in DOMAIN new THEN new[sku] - w.stock[sku] ELSE 0
  <2>1. gain \in Int
    BY <1>1, <1>2
  <2>2. WriteGain(w, new)[sku] = gain
    BY DEF WriteGain
  <2>3. NetOf(v, b, sku) = 0 + gain
    BY <1>3, <1>4, <2>2
  <2> HIDE DEF gain
  <2>4. NetOf(v, b, sku) = gain
    BY <2>1, <2>3
  <2> QED
    BY <2>4 DEF gain
<1>6. DOMAIN row.after = rows /\ \A sku \in rows : row.after[sku] = new[sku]
  OBVIOUS
<1>7. ASSUME NEW sku \in DOMAIN row.after
      PROVE  \E x \in Int : LastIs(v, b, sku, x) /\ row.after[sku] - x \in Nat
  <2> DEFINE stock == w.stock[sku]
             to == new[sku]
  <2>1. stock \in Nat /\ to \in Nat /\ row.after[sku] = to /\ LastIs(v, b, sku, to - stock)
    BY <1>1, <1>2, <1>6
  <2> HIDE DEF stock, to
  <2>2. to - stock \in Int /\ row.after[sku] - (to - stock) \in Nat
    BY <2>1
  <2> QED
    BY <2>1, <2>2
<1>8. ASSUME NEW sku \in Skus
      PROVE  IF sku \in DOMAIN row.after THEN LastIs(v, b, sku, NetOf(v, b, sku))
             ELSE NetOf(v, b, sku) = 0
  <2>1. CASE sku \in rows
    <3>1. NetOf(v, b, sku) = new[sku] - w.stock[sku]
      BY <1>1, <1>5, <2>1
    <3> QED
      BY <1>6, <2>1, <3>1
  <2>2. CASE sku \notin rows
    <3>1. sku \in DOMAIN new => new[sku] = w.stock[sku]
      BY <2>2 DEF ToWrite
    <3>2. NetOf(v, b, sku) = 0
      BY <1>2, <1>5, <3>1
    <3> QED
      BY <1>6, <2>2, <3>2
  <2> QED
    BY <2>1, <2>2
<1> QED
  BY <1>7, <1>8 DEF BulkFits

LEMMA ApplyBulkKeeps ==
  ASSUME IInv, NEW k \in Clerks, ApplyBulk(k)
  PROVE  Keeps
<1>1. /\ ShelfTypes /\ BulkTypes /\ ClerkTypes /\ StockOnFile /\ ShelvesMatch /\ BulksHold
      /\ NotFiledYet
  BY DEF IInv, Types
<1> DEFINE job == clerk[k]
           b == job.doc
           new == job.new
           read == job.read
           seq == SetToSeq(DOMAIN new)
           w == warehouse
           v == warehouse'
           gain == WriteGain(w, new)
           after == [sku \in ToWrite(w, new) |-> new[sku]]
           row == [status |-> "completed", rolls |-> 0, after |-> after]
           change == [sku \in DOMAIN new |-> new[sku] - read[sku]]
           overwritten == {sku \in DOMAIN new : read[sku] # warehouse.stock[sku]}
<1>2. /\ job.job = "bulk" /\ MayMove
      /\ bulk' = [bulk EXCEPT ![b] = row]
      /\ Moved(change, overwritten) /\ Done(k)
      /\ UNCHANGED <<order, points, return, count>>
  <2>1. bulk' = [bulk EXCEPT ![b] =
              [status |-> "completed", rolls |-> 0,
               after |-> [sku \in {s \in DOMAIN new : new[s] # warehouse.stock[s]} |-> new[sku]]]]
    BY DEF ApplyBulk
  <2>2. bulk' = [bulk EXCEPT ![b] = row]
    BY <2>1 DEF ToWrite
  <2>3. /\ job.job = "bulk" /\ MayMove /\ Moved(change, overwritten) /\ Done(k)
        /\ UNCHANGED <<order, points, return, count>>
    BY DEF ApplyBulk
  <2> QED
    BY <2>2, <2>3
<1>3. v = Applied!Fold([rows |-> seq, doc |-> b, job |-> job], w, DOMAIN seq)
  <2> DEFINE fold == FoldLeft(LAMBDA x, sku : ApplyRow(x, b, job, sku), w, seq)
  <2>1. v = fold
    BY DEF ApplyBulk
  <2>2. fold = Applied!Fold([rows |-> seq, doc |-> b, job |-> job], w, DOMAIN seq)
    <3> HIDE DEF seq, job, b, w
    <3> QED
      BY DEF FoldLeft, Applied!Fold, MapThenFoldSet, Applied!MapThenFoldSet, ItemAt, Greatest,
             Apply
  <2> QED
    BY <2>1, <2>2
<1>4. /\ b \in Bulks /\ new \in SomeSkus /\ read \in SomeSkus /\ DOMAIN new = DOMAIN read
  <2>1. job \in Jobs /\ DOMAIN new = DOMAIN read
    BY <1>1, <1>2 DEF ClerkTypes
  <2> QED
    BY <1>2, <2>1 DEF Jobs, Idle
<1>5. b \in Orders /\ w \in Warehouses
  BY <1>1, <1>4, DocumentsAre DEF ShelfTypes
<1>6. w.moves[b] = <<>>
  <2>1. bulk[b].status = "none"
    BY <1>1, <1>2 DEF NotFiledYet
  <2>2. BulkFits(w, bulk[b], b)
    BY <1>1, <1>4 DEF BulksHold
  <2> QED
    BY <2>1, <2>2 DEF BulkFits
<1>7. \A l \in Clerks : clerk[l].job = "bulk" /\ clerk[l].doc = b => l = k
  BY <1>1, <1>2 DEF NotFiledYet, OneFiles
<1>8. /\ ClerkTypes'
      /\ \A l \in Clerks : clerk'[l].job # "none" => l # k /\ clerk'[l] = clerk[l]
  BY <1>1, <1>2, DoneIs
<1>9. \A l \in Clerks : clerk'[l].job = "bulk" => clerk[l].doc # b
  BY <1>7, <1>8
<1>10. /\ Booked(w, v, b, gain) /\ Told(w, v)
       /\ \A sku \in ToWrite(w, new) : LastIs(v, b, sku, new[sku] - w.stock[sku])
  <2>1. job.new = new /\ seq = SetToSeq(DOMAIN new)
    OBVIOUS
  <2> HIDE DEF job, w, v, new, seq, b
  <2> QED
    BY <1>3, <1>4, <1>5, <2>1, ApplyBooks
<1> HIDE DEF job, b, new, read, seq
<1>11. /\ gain \in Gains /\ DOMAIN new \in SUBSET Skus
       /\ ToWrite(w, new) \in SUBSET DOMAIN new
       /\ \A sku \in DOMAIN new : new[sku] \in Nat
  <2> HIDE DEF w
  <2> QED
    BY <1>4, <1>5, WriteGainIs
<1>12. \A sku \in DOMAIN new : read[sku] \in Nat
  BY <1>4 DEF SomeSkus
<1>13. /\ overwritten \in SUBSET Skus /\ DOMAIN change \in SUBSET Skus
       /\ \A sku \in DOMAIN change : change[sku] \in Int
       /\ \A sku \in Skus \ overwritten :
             gain[sku] = IF sku \in DOMAIN change THEN change[sku] ELSE 0
  <2>1. overwritten \in SUBSET Skus /\ DOMAIN change \in SUBSET Skus
    BY <1>11
  <2>2. \A sku \in DOMAIN change : change[sku] \in Int
    BY <1>11, <1>12
  <2>3. \A sku \in Skus \ overwritten :
           gain[sku] = IF sku \in DOMAIN change THEN change[sku] ELSE 0
    BY DEF WriteGain
  <2> QED
    BY <2>1, <2>2, <2>3
<1>14. Booked(warehouse, warehouse', b, gain)
  BY <1>10
<1>15. BulkFits(v, row, b)
  <2>1. v \in Warehouses
    BY <1>10 DEF Booked
  <2>2. row.status = "completed" /\ row.rolls = 0 /\ row.after = [sku \in ToWrite(w, new) |-> new[sku]]
    OBVIOUS
  <2> HIDE DEF v, w, row
  <2> QED
    BY <1>4, <1>5, <1>6, <1>10, <2>1, <2>2, AppliedFits
<1> HIDE DEF gain, change, overwritten
<1>16. ShelfTypes' /\ ShelvesMatch' /\ Onward
  BY <1>1, <1>2, <1>5, <1>11, <1>13, <1>14, ShelvesStay
<1>17. StockOnFile' /\ \A p \in Orders \ {b} : warehouse'.moves[p] = warehouse.moves[p]
  BY <1>1, <1>5, <1>11, <1>14, BooksKept
<1>18. /\ BulkTypes' /\ bulk'[b] = row
       /\ \A d \in Bulks \ {b} : bulk'[d] = bulk[d]
  <2>1. after \in SomeSkus
    <3> DEFINE S == ToWrite(w, new)
    <3>1. S \in SUBSET Skus /\ \A sku \in S : new[sku] \in Nat
      BY <1>11
    <3> HIDE DEF S
    <3>2. [sku \in S |-> new[sku]] \in [S -> Nat]
      BY <3>1
    <3>3. [sku \in S |-> new[sku]] \in SomeSkus
      BY <3>1, <3>2 DEF SomeSkus
    <3> QED
      BY <3>3 DEF S
  <2>2. /\ "completed" \in {"none", "completed", "rolled_back", "partially_rolled_back"}
        /\ 0 \in Nat
    OBVIOUS
  <2>3. bulk' = [bulk EXCEPT ![b] = [status |-> "completed", rolls |-> 0, after |-> after]]
    BY <1>2
  <2> HIDE DEF after
  <2> QED
    BY <1>1, <1>4, <2>1, <2>2, <2>3, BulkTyped
<1>19. BulkFits(warehouse', bulk'[b], b)
  BY <1>15, <1>18
<1>20. TellsWaiters
  BY <1>10, TellingIs
<1> HIDE DEF row
<1> QED
  BY <1>2, <1>4, <1>8, <1>9, <1>16, <1>17, <1>18, <1>19, <1>20, BulkStep

\* What a change of many products says of its movements, once it is rolled back:
\* S are the rows that could be, and change what they had been changed by.
LEMMA RolledFits ==
  ASSUME NEW w \in Warehouses, NEW v \in Warehouses, NEW b \in Bulks, NEW old, NEW row,
         BulkFits(w, old, b), NEW S \in SUBSET DOMAIN old.after, DOMAIN old.after \in SUBSET Skus,
         \A sku \in DOMAIN old.after : old.after[sku] \in Nat,
         old.rolls \in Nat, old.status # "none",
         NEW change, \A sku \in S : LastIs(w, b, sku, change[sku]) /\ change[sku] \in Int,
         NEW back, \A sku \in S : back[sku] = - change[sku],
         Booked(w, v, b, GainOn(S, back)),
         \A sku \in S : LastIs(v, b, sku, - change[sku]),
         \A sku \in Skus \ S : \A x : LastIs(w, b, sku, x) => LastIs(v, b, sku, x),
         row.rolls = old.rolls + 1, row.status = RolledStatus(old.status, DOMAIN old.after, S),
         row.after = [sku \in DOMAIN old.after |->
                         IF sku \in S THEN old.after[sku] - change[sku] ELSE old.after[sku]]
  PROVE  BulkFits(v, row, b)
<1> DEFINE all == DOMAIN old.after
<1>1. b \in Orders
  BY DocumentsAre
<1>2. row.status # "none" /\ row.rolls # 0 /\ DOMAIN row.after = all
  BY DEF RolledStatus
<1>3. ASSUME NEW sku \in DOMAIN row.after
      PROVE  \E x \in Int : LastIs(v, b, sku, x) /\ row.after[sku] - x \in Nat
  <2>0. sku \in all /\ sku \in Skus /\ old.after[sku] \in Nat
    BY <1>2
  <2>1. CASE sku \in S
    <3> DEFINE from == old.after[sku]
               x == change[sku]
    <3>1. from \in Nat /\ x \in Int /\ row.after[sku] = from - x /\ LastIs(v, b, sku, - x)
      BY <2>0, <2>1
    <3> HIDE DEF from, x
    <3>2. - x \in Int /\ row.after[sku] - (- x) \in Nat
      BY <3>1
    <3> QED
      BY <3>1, <3>2
  <2>2. CASE sku \notin S
    <3>1. PICK x \in Int : LastIs(w, b, sku, x) /\ old.after[sku] - x \in Nat
      BY <2>0 DEF BulkFits
    <3>2. LastIs(v, b, sku, x)
      BY <2>0, <2>2, <3>1
    <3>3. row.after[sku] = old.after[sku]
      BY <2>0, <2>2
    <3> QED
      BY <3>1, <3>2, <3>3
  <2> QED
    BY <2>1, <2>2
<1>4. ASSUME row.status = "rolled_back", row.rolls = 1, NEW sku \in Skus
      PROVE  NetOf(v, b, sku) = 0
  <2>1. old.rolls = 0
    BY <1>4
  <2>2. /\ old.status \in {"none", "completed"}
        /\ IF sku \in all THEN LastIs(w, b, sku, NetOf(w, b, sku)) ELSE NetOf(w, b, sku) = 0
    BY <2>1 DEF BulkFits
  <2>3. all # {} /\ S = all
    BY <1>4, <2>2 DEF RolledStatus
  <2> DEFINE net == NetOf(w, b, sku)
             gain == GainOn(S, back)[sku]
  <2>4. NetOf(v, b, sku) = net + gain
    BY DEF Booked
  <2>5. net \in Int
    BY <1>1, NetInt
  <2>6. gain = IF sku \in S THEN back[sku] ELSE 0
    BY DEF GainOn
  <2>7. CASE sku \in S
    <3>1. LastIs(w, b, sku, net) /\ LastIs(w, b, sku, change[sku])
      BY <2>2, <2>3, <2>7
    <3>2. LastChange(w, b, sku) = net
      <4> HIDE DEF net
      <4> QED
        BY <1>1, <3>1, LastChangeIs
    <3>3. LastChange(w, b, sku) = change[sku]
      <4> DEFINE x == change[sku]
      <4>1. LastIs(w, b, sku, x)
        BY <3>1
      <4> HIDE DEF x
      <4>2. LastChange(w, b, sku) = x
        BY <1>1, <4>1, LastChangeIs
      <4> QED
        BY <4>2 DEF x
    <3>4. gain = - net
      BY <2>6, <2>7, <3>2, <3>3
    <3> HIDE DEF net, gain
    <3> QED
      BY <2>4, <2>5, <3>4
  <2>8. CASE sku \notin S
    BY <2>2, <2>3, <2>4, <2>6, <2>8
  <2> QED
    BY <2>7, <2>8
<1> QED
  BY <1>2, <1>3, <1>4 DEF BulkFits

LEMMA RollbackKeeps ==
  ASSUME IInv, NEW b \in Bulks, Rollback(b)
  PROVE  Keeps
<1>1. /\ ShelfTypes /\ BulkTypes /\ ClerkTypes /\ StockOnFile /\ ShelvesMatch /\ BulksHold
      /\ NotFiledYet
  BY DEF IInv, Types
<1> DEFINE old == bulk[b]
           all == DOMAIN bulk[b].after
           S == Unmoved(b)
           seq == SetToSeq(S)
           w == warehouse
           v == warehouse'
           change == [sku \in S |-> LastChange(w, b, sku)]
           before == [sku \in S |-> bulk[b].after[sku] - change[sku]]
           back == [sku \in S |-> - change[sku]]
           gain == GainOn(S, back)
           status == RolledStatus(bulk[b].status, all, S)
           rolls == bulk[b].rolls + 1
           after == [sku \in all |-> IF sku \in S THEN before[sku] ELSE bulk[b].after[sku]]
           row == [status |-> status, rolls |-> rolls, after |-> after]
<1>2. /\ bulk[b].status # "none" /\ MayMove
      /\ Moved(back, {})
      /\ UNCHANGED <<order, points, return, count>> /\ clerk' = clerk
  BY DEF Rollback
<1>3. bulk' = [bulk EXCEPT ![b] = row]
  <2>1. b \in DOMAIN bulk
    BY <1>1 DEF BulkTypes
  <2> QED
    BY <2>1 DEF Rollback
<1>4. v = Undone!Fold([rows |-> seq, doc |-> b, before |-> before, change |-> change],
                      w, DOMAIN seq)
  <2> DEFINE fold == FoldLeft(LAMBDA x, sku :
                                PutStock(x, b, sku, before[sku], -change[sku], "adjustment"),
                              w, seq)
  <2>1. v = fold
    BY DEF Rollback
  <2>2. fold = Undone!Fold([rows |-> seq, doc |-> b, before |-> before, change |-> change],
                           w, DOMAIN seq)
    <3> HIDE DEF seq, before, change, w
    <3> QED
      BY DEF FoldLeft, Undone!Fold, MapThenFoldSet, Undone!MapThenFoldSet, ItemAt, Greatest, Undo
  <2> QED
    BY <2>1, <2>2
<1>5. b \in Orders /\ w \in Warehouses /\ w.stock \in [Skus -> Nat]
  BY <1>1, DocumentsAre DEF ShelfTypes, Warehouses
<1>6. /\ bulk[b].after \in SomeSkus /\ bulk[b].rolls \in Nat
      /\ bulk[b].status \in {"none", "completed", "rolled_back", "partially_rolled_back"}
  <2> DEFINE Status == {"none", "completed", "rolled_back", "partially_rolled_back"}
  <2>1. bulk[b] \in [status : Status, rolls : Nat, after : SomeSkus]
    BY <1>1 DEF BulkTypes
  <2> HIDE DEF Status
  <2>2. bulk[b].after \in SomeSkus /\ bulk[b].rolls \in Nat /\ bulk[b].status \in Status
    BY <2>1
  <2> QED
    BY <2>2 DEF Status
<1>7. all \in SUBSET Skus /\ \A sku \in all : bulk[b].after[sku] \in Nat
  BY <1>6 DEF SomeSkus
<1>8. S \in SUBSET all /\ \A sku \in S : w.stock[sku] = bulk[b].after[sku]
  BY DEF Unmoved
<1>9. BulkFits(w, old, b)
  BY <1>1 DEF BulksHold
<1>10. ASSUME NEW sku \in S
       PROVE  /\ LastIs(w, b, sku, change[sku]) /\ change[sku] \in Int
              /\ before[sku] \in Nat /\ before[sku] = w.stock[sku] - change[sku]
  <2>1. PICK x \in Int : LastIs(w, b, sku, x) /\ old.after[sku] - x \in Nat
    BY <1>8, <1>9 DEF BulkFits
  <2>2. LastChange(w, b, sku) = x
    <3> HIDE DEF w
    <3> QED
      BY <1>5, <2>1, LastChangeIs
  <2>3. change[sku] = x
    BY <2>2
  <2>4. before[sku] = old.after[sku] - x /\ w.stock[sku] = old.after[sku]
    BY <1>8, <2>3
  <2> QED
    BY <2>1, <2>3, <2>4
<1>11. S \in SUBSET Skus
  BY <1>7, <1>8
<1>12. \A sku \in S : back[sku] = - change[sku] /\ back[sku] \in Int
  <2> HIDE DEF change, S
  <2> QED
    BY <1>10
<1>13. DOMAIN back = S
  OBVIOUS
<1>14. row.status = status /\ row.rolls = rolls /\ row.after = after
  OBVIOUS
<1>15. after = [sku \in all |-> IF sku \in S THEN bulk[b].after[sku] - change[sku]
                                ELSE bulk[b].after[sku]]
  OBVIOUS
<1>16. /\ rolls \in Nat
       /\ status \in {"none", "completed", "rolled_back", "partially_rolled_back"}
  BY <1>6 DEF RolledStatus
<1>17. after \in SomeSkus
  <2>1. \A sku \in all : after[sku] \in Nat
    <3> HIDE DEF before, S
    <3> QED
      BY <1>7, <1>10
  <2>2. after \in [all -> Nat]
    <3>1. DOMAIN after = all
      OBVIOUS
    <3> HIDE DEF before, S, all
    <3> QED
      BY <2>1, <3>1
  <2> QED
    BY <1>7, <2>2 DEF SomeSkus
<1>18. seq = SetToSeq(S)
  OBVIOUS
<1> HIDE DEF seq, change, before, back, after, S
<1>19. /\ Booked(w, v, b, gain)
       /\ \A sku \in S : LastIs(v, b, sku, - change[sku])
       /\ \A sku \in Skus \ S : \A x : LastIs(w, b, sku, x) => LastIs(v, b, sku, x)
  <2>1. \A sku \in S : /\ change[sku] \in Int /\ before[sku] \in Nat
                       /\ before[sku] = w.stock[sku] - change[sku]
    BY <1>10
  <2>2. \A sku \in S : back[sku] = - change[sku]
    BY <1>12
  <2> HIDE DEF w, v
  <2> QED
    BY <1>4, <1>5, <1>11, <1>18, <2>1, <2>2, UndoBooks
<1>20. /\ gain \in Gains
       /\ \A sku \in Skus \ {} : gain[sku] = IF sku \in DOMAIN back THEN back[sku] ELSE 0
  <2>1. \A sku \in Skus : gain[sku] = IF sku \in S THEN back[sku] ELSE 0
    BY DEF GainOn
  <2>2. \A sku \in Skus : (IF sku \in S THEN back[sku] ELSE 0) \in Int
    BY <1>12
  <2>3. gain \in [Skus -> Int]
    BY <2>2 DEF GainOn
  <2> QED
    BY <1>13, <2>1, <2>3 DEF Gains
<1>21. BulkFits(v, row, b)
  <2>1. v \in Warehouses
    BY <1>19 DEF Booked
  <2>2. /\ S \in SUBSET DOMAIN old.after /\ DOMAIN old.after \in SUBSET Skus
        /\ \A sku \in DOMAIN old.after : old.after[sku] \in Nat
        /\ old.rolls \in Nat /\ old.status # "none"
    BY <1>2, <1>6, <1>7, <1>8
  <2>3. /\ row.rolls = old.rolls + 1 /\ row.status = RolledStatus(old.status, DOMAIN old.after, S)
        /\ row.after = [sku \in DOMAIN old.after |->
                           IF sku \in S THEN old.after[sku] - change[sku] ELSE old.after[sku]]
    BY <1>14, <1>15
  <2>4. /\ \A sku \in S : LastIs(w, b, sku, change[sku]) /\ change[sku] \in Int
        /\ \A sku \in S : back[sku] = - change[sku]
    BY <1>10, <1>12
  <2> HIDE DEF v, w, row, old
  <2> QED
    BY <1>5, <1>9, <1>19, <2>1, <2>2, <2>3, <2>4, RolledFits
<1>22. /\ BulkTypes' /\ bulk'[b] = row
       /\ \A d \in Bulks \ {b} : bulk'[d] = bulk[d]
  <2>1. bulk' = [bulk EXCEPT ![b] = [status |-> status, rolls |-> rolls, after |-> after]]
    BY <1>3
  <2> HIDE DEF status, rolls
  <2> QED
    BY <1>1, <1>16, <1>17, <2>1, BulkTyped
<1>23. BulkFits(warehouse', bulk'[b], b)
  BY <1>21, <1>22
<1>24. rolls # bulk[b].rolls
  BY <1>6
<1>25. bulk'[b].rolls # bulk[b].rolls
  BY <1>22, <1>24
<1> HIDE DEF gain, row, rolls, status
<1>26. Booked(warehouse, warehouse', b, gain)
  BY <1>19
<1>27. ShelfTypes' /\ ShelvesMatch' /\ Onward
  <2>1. /\ DOMAIN back \in SUBSET Skus /\ \A sku \in DOMAIN back : back[sku] \in Int
    BY <1>11, <1>12, <1>13
  <2> QED
    BY <1>1, <1>2, <1>5, <1>20, <1>26, <2>1, ShelvesStay
<1>28. StockOnFile' /\ \A p \in Orders \ {b} : warehouse'.moves[p] = warehouse.moves[p]
  BY <1>1, <1>5, <1>20, <1>26, BooksKept
<1>29. TellsWaiters
  BY <1>25, <1>28 DEF TellsWaiters
<1>30. /\ ClerkTypes'
       /\ \A l \in Clerks : clerk'[l].job # "none" => clerk'[l] = clerk[l]
  BY <1>1, <1>2 DEF ClerkTypes
<1>31. \A l \in Clerks : clerk'[l].job = "bulk" => clerk[l].doc # b
  BY <1>1, <1>2 DEF NotFiledYet
<1> QED
  BY <1>2, <1>22, <1>23, <1>27, <1>28, <1>29, <1>30, <1>31, BulkStep
-----------------------------------------------------------------------------
(* The specification *)
LEMMA NothingOnFile ==
  ASSUME NEW w, \A d \in Orders : w.moves[d] = <<>>, w.stock = Stock0
  PROVE  OnFile(w)
<1> SUFFICES ASSUME NEW sku \in Skus
             PROVE  w.stock[sku] = Stock0[sku] + MapThenSumSet(LAMBDA p : NetOf(w, p, sku), Orders)
  BY DEF OnFile
<1> DEFINE b == [w |-> w, sku |-> sku]
<1>1. MapThenSumSet(LAMBDA p : NetOf(w, p, sku), Orders) = Books!Sum(b, Orders)
  BY DEF MapThenSumSet, MapThenFoldSet, Books!Sum, Books!Fold, Books!MapThenFoldSet, NetAt, Plus, Some
<1>2. \A p \in Orders : NetAt(b, p) = 0
  BY NetOfNone DEF NetAt
<1>3. IsFiniteSet(Orders) /\ Stock0[sku] \in Nat
  BY StocktakingAssumption
<1> HIDE DEF b
<1>4. Books!Sum(b, Orders) = 0
  BY <1>2, <1>3, SameFinite, AllAdd, Books!SumZero
<1> QED
  BY <1>1, <1>3, <1>4

LEMMA InitTypes == Init => Types
<1> SUFFICES ASSUME Init PROVE Types
  OBVIOUS
<1>1. ShelfTypes
  <2> DEFINE moves == [d \in Orders |-> <<>>]
  <2>1. moves \in [Orders -> Seq(MoveRows)]
    OBVIOUS
  <2>2. /\ warehouse = [stock |-> Stock0, left |-> NoBatchUsed, got |-> NoBatchUsed,
                        moves |-> moves, waiting |-> Waiting0, hidden |-> {}]
        /\ Stock0 \in [Skus -> Nat] /\ Waiting0 \in SUBSET Skus
    BY StocktakingAssumption DEF Init
  <2> HIDE DEF moves
  <2>3. warehouse \in Warehouses
    BY <2>1, <2>2 DEF Warehouses
  <2>4. goods \in [Skus -> Nat] /\ shifts \in [Skus -> Nat] /\ drift \subseteq Skus
    BY StocktakingAssumption DEF Init
  <2> QED
    BY <2>3, <2>4 DEF ShelfTypes
<1>2. OrderTypes
  <2> DEFINE none(o) == [i \in Lines(o) |-> 0]
  <2>1. order = [o \in CustomerOrders |-> [status |-> "none", held |-> none(o)]]
    BY DEF Init
  <2>2. \A o \in CustomerOrders : none(o) \in [Lines(o) -> Nat]
    OBVIOUS
  <2> HIDE DEF none
  <2>3. \A o \in CustomerOrders : [status |-> "none", held |-> none(o)] \in OrderRows
    <3> SUFFICES ASSUME NEW o \in CustomerOrders
                 PROVE  [status |-> "none", held |-> none(o)] \in OrderRows
      OBVIOUS
    <3>1. none(o) \in UNION {[Lines(p) -> Nat] : p \in CustomerOrders}
      BY <2>2
    <3> QED
      BY <3>1 DEF OrderRows
  <2>4. order \in OrderBooks
    BY <2>1, <2>2, <2>3 DEF OrderBooks
  <2> QED
    BY <2>4 DEF OrderTypes, Init
<1>3. ReturnTypes
  BY DEF ReturnTypes, Init
<1>4. CountTypes
  <2>1. Nothing \in UNION {[S -> CountRows] : S \in SUBSET Countable}
    BY DEF Nothing
  <2>2. count = [c \in Counts |-> [status |-> "none", counted |-> Nothing]]
    BY DEF Init
  <2> QED
    BY <2>1, <2>2 DEF CountTypes
<1>5. BulkTypes
  <2>1. Nothing \in SomeSkus
    BY DEF Nothing, SomeSkus
  <2>2. bulk = [b \in Bulks |-> [status |-> "none", rolls |-> 0, after |-> Nothing]]
    BY DEF Init
  <2> QED
    BY <2>1, <2>2 DEF BulkTypes
<1>6. ClerkTypes
  BY DEF ClerkTypes, Init, Jobs, Idle
<1> QED
  BY <1>1, <1>2, <1>3, <1>4, <1>5, <1>6 DEF Types

LEMMA InitHolds == Init => IInv
<1> SUFFICES ASSUME Init PROVE IInv
  OBVIOUS
<1> DEFINE w == warehouse
<1>1. /\ \A d \in Orders : w.moves[d] = <<>>
      /\ w.stock = Stock0
  BY DEF Init
<1>2. Types
  BY InitTypes
<1>3. StockOnFile
  <2> HIDE DEF w
  <2>1. OnFile(w)
    BY <1>1, NothingOnFile
  <2> QED
    BY <2>1, FileIs DEF w
<1>4. ShelvesMatch
  BY StocktakingAssumption DEF Init, ShelvesMatch
<1>5. CountsHold
  <2>1. \A c \in Counts : DOMAIN count[c].counted = {}
    BY DEF Init, Nothing
  <2>2. \A k \in Clerks : clerk[k].job = "none"
    BY DEF Init, Idle
  <2> QED
    BY <2>1, <2>2 DEF CountsHold
<1>6. NotFiledYet
  <2>1. \A k \in Clerks : clerk[k].job = "none"
    BY DEF Init, Idle
  <2> QED
    BY <2>1 DEF NotFiledYet, OneFiles
<1>7. ReturnsHold
  <2>1. \A r \in Returns : return[r].status = "none" /\ warehouse.moves[r] = <<>>
    BY <1>1, DocumentsAre DEF Init
  <2> QED
    BY <2>1 DEF ReturnsHold, ReturnFits
<1>8. FullReturnsUndoPoints
  <2> DEFINE book == return
  <2>1. \A r \in Returns : book[r].status = "none"
    BY DEF Init
  <2> HIDE DEF book
  <2>2. \A o, i : ClaimedIn(book, {"refunded"}, o, i) = 0
    <3> SUFFICES ASSUME NEW o, NEW i PROVE ClaimedIn(book, {"refunded"}, o, i) = 0
      OBVIOUS
    <3>1. StandingIn(book, {"refunded"}, o) = {}
      BY <2>1 DEF StandingIn
    <3> DEFINE c == [book |-> book, line |-> i]
    <3>2. ClaimedIn(book, {"refunded"}, o, i) = Claiming!Sum(c, {})
      BY <3>1, ClaimedIs
    <3> HIDE DEF c
    <3> QED
      BY <3>2, Claiming!SumEmpty
  <2>3. ASSUME NEW o \in CustomerOrders
        PROVE  \E i \in Lines(o) : ~(0 >= Bought[o][i].quantity)
    <3>1. PICK i \in Lines(o) : TRUE
      BY LinesAre
    <3>2. Bought[o][i].quantity \in Nat \ {0}
      BY LinesAre
    <3> QED
      BY <3>2
  <2>4. UndoneWhenCovered(book, points)
    BY <2>2, <2>3 DEF UndoneWhenCovered
  <2> QED
    BY <2>4, PointsAre DEF book
<1>9. BulksHold
  <2> SUFFICES ASSUME NEW b \in Bulks PROVE BulkFits(w, bulk[b], b)
    BY DEF BulksHold
  <2>1. w.moves[b] = <<>>
    BY <1>1, DocumentsAre
  <2>2. bulk[b].status = "none" /\ bulk[b].rolls = 0 /\ DOMAIN bulk[b].after = {}
    BY DEF Init, Nothing
  <2>3. \A sku \in Skus : NetOf(w, b, sku) = 0
    BY <2>1, NetOfNone
  <2> QED
    BY <2>1, <2>2, <2>3 DEF BulkFits
<1> QED
  BY <1>2, <1>3, <1>4, <1>5, <1>6, <1>7, <1>8, <1>9 DEF IInv

LEMMA StutterKeeps ==
  ASSUME IInv, UNCHANGED vars
  PROVE  Keeps
<1>1. /\ warehouse' = warehouse /\ goods' = goods /\ shifts' = shifts /\ drift' = drift
      /\ order' = order /\ points' = points /\ return' = return /\ count' = count
      /\ bulk' = bulk /\ clerk' = clerk
  BY DEF vars
<1>2. /\ ShelfTypes /\ OrderTypes /\ ReturnTypes /\ CountTypes /\ BulkTypes /\ ClerkTypes
      /\ CountsHold /\ NotFiledYet /\ ReturnsHold /\ BulksHold /\ FullReturnsUndoPoints
  BY DEF IInv, Types
<1>3. ShelfTypes' /\ StockOnFile' /\ ShelvesMatch' /\ TellsWaiters
  BY <1>1, NothingMoves
<1>4. OrderTypes' /\ ReturnTypes' /\ CountTypes' /\ BulkTypes' /\ ClerkTypes'
  BY <1>1, <1>2 DEF OrderTypes, ReturnTypes, CountTypes, BulkTypes, ClerkTypes
<1>5. CountsHold' /\ NotFiledYet' /\ ReturnsHold' /\ BulksHold'
  BY <1>1, <1>2 DEF CountsHold, NotFiledYet, OneFiles, ReturnsHold, BulksHold
<1>6. FullReturnsUndoPoints'
  BY <1>1, <1>2, PointsStay
<1> QED
  BY <1>3, <1>4, <1>5, <1>6 DEF Keeps, IInv, Types

LEMMA StepKeeps == IInv /\ [Next]_vars => Keeps
<1> SUFFICES ASSUME IInv, [Next]_vars PROVE Keeps
  OBVIOUS
<1>1. CASE UNCHANGED vars
  BY <1>1, StutterKeeps
<1>2. ASSUME NEW o \in CustomerOrders, Place(o) \/ Deliver(o) \/ CancelOrder(o)
      PROVE  Keeps
  BY <1>2, PlaceKeeps, DeliverKeeps, CancelKeeps
<1>3. ASSUME NEW k \in Clerks, Counting(k)
      PROVE  Keeps
  <2>1. CASE RecordCount(k) \/ CompleteCount(k) \/ CancelCount(k)
    BY <2>1, RecordCountKeeps, CompleteCountKeeps, CancelCountKeeps
  <2>2. ASSUME NEW c \in Counts, NEW sku \in Countable, BeginRecord(k, c, sku)
        PROVE  Keeps
    BY <2>2, BeginRecordKeeps
  <2>3. ASSUME NEW c \in Counts, Begin(k, c, [job |-> "complete", doc |-> c])
        PROVE  Keeps
    BY <2>3, BeginKeeps
  <2>4. ASSUME NEW c \in Counts, Begin(k, c, [job |-> "cancel", doc |-> c])
        PROVE  Keeps
    BY <2>4, BeginKeeps
  <2> QED
    BY <1>3, <2>1, <2>2, <2>3, <2>4 DEF Counting
<1>4. ASSUME NEW k \in Clerks, FileReturn(k) \/ ApplyBulk(k)
      PROVE  Keeps
  BY <1>4, FileReturnKeeps, ApplyBulkKeeps
<1>5. ASSUME NEW k \in Clerks, NEW r \in Returns, NEW claim \in Claims, CheckReturn(k, r, claim)
      PROVE  Keeps
  BY <1>5, CheckReturnKeeps
<1>6. ASSUME NEW k \in Clerks, NEW b \in Bulks, NEW a \in Adjustments, ReadBulk(k, b, a)
      PROVE  Keeps
  BY <1>6, ReadBulkKeeps
<1>7. ASSUME NEW r \in Returns, Returning(r)
      PROVE  Keeps
  <2>1. CASE ReceiveReturn(r) \/ RefundReturn(r)
    BY <2>1, ReceiveReturnKeeps, RefundReturnKeeps
  <2>2. ASSUME NEW to \in DOMAIN ReturnAfter, SetReturnStatus(r, to)
        PROVE  Keeps
    BY <2>2, SetReturnStatusKeeps
  <2> QED
    BY <1>7, <2>1, <2>2 DEF Returning
<1>8. ASSUME NEW c \in Counts, CreateCount(c)
      PROVE  Keeps
  BY <1>8, CreateCountKeeps
<1>9. ASSUME NEW b \in Bulks, Rollback(b)
      PROVE  Keeps
  BY <1>9, RollbackKeeps
<1> QED
  BY <1>1, <1>2, <1>3, <1>4, <1>5, <1>6, <1>7, <1>8, <1>9 DEF Next

\* The inductive invariant: stock, movements and shelves agree; a count on file, or in a
\* clerk's hands, that nobody disturbed is what is there; two clerks never file the same
\* document; and the movements of a return and of a bulk change are what its row says.
THEOREM StocktakingInvariant == Spec => []IInv
<1>1. Init => IInv
  BY InitHolds
<1>2. IInv /\ [Next]_vars => IInv'
  BY StepKeeps DEF Keeps
<1> QED
  BY <1>1, <1>2, PTL DEF Spec

LEMMA TypesHold == IInv => TypeOK
<1> SUFFICES ASSUME IInv PROVE TypeOK
  OBVIOUS
<1>1. /\ ShelfTypes /\ OrderTypes /\ ReturnTypes /\ CountTypes /\ BulkTypes /\ ClerkTypes
  BY DEF IInv, Types
<1>2. /\ warehouse.stock \in [Skus -> Nat] /\ goods \in [Skus -> Nat]
      /\ shifts \in [Skus -> Nat] /\ drift \subseteq Skus
  BY <1>1 DEF ShelfTypes, Warehouses
<1>3. \A o \in CustomerOrders :
         /\ order[o].status \in {"none", "placed", "delivered", "cancelled"}
         /\ order[o].held \in [Lines(o) -> Nat]
  <2> SUFFICES ASSUME NEW o \in CustomerOrders
               PROVE  /\ order[o].status \in {"none", "placed", "delivered", "cancelled"}
                      /\ order[o].held \in [Lines(o) -> Nat]
    OBVIOUS
  <2>1. order[o] \in OrderRows /\ order[o].held \in [Lines(o) -> Nat]
    BY <1>1 DEF OrderTypes, OrderBooks
  <2> QED
    BY <2>1 DEF OrderRows
<1>4. points \in [CustomerOrders -> {"kept", "undone"}]
  BY <1>1 DEF OrderTypes
<1>5. \A r \in Returns : return[r].status \in DOMAIN ReturnAfter \cup {"none"}
  BY <1>1, ReturnIs
<1>6. \A c \in Counts : /\ count[c].status \in {"none", "draft", "completed", "cancelled"}
                        /\ DOMAIN count[c].counted \subseteq Countable
  BY <1>1, CountOf
<1>7. ASSUME NEW b \in Bulks
      PROVE  /\ bulk[b].status \in {"none", "completed", "rolled_back", "partially_rolled_back"}
             /\ DOMAIN bulk[b].after \subseteq Skus
  <2> DEFINE Status == {"none", "completed", "rolled_back", "partially_rolled_back"}
  <2>1. bulk[b] \in [status : Status, rolls : Nat, after : SomeSkus]
    BY <1>1 DEF BulkTypes
  <2> HIDE DEF Status
  <2>2. bulk[b].status \in Status /\ bulk[b].after \in SomeSkus
    BY <2>1
  <2> QED
    BY <2>2 DEF Status, SomeSkus
<1>8. ASSUME NEW k \in Clerks
      PROVE  clerk[k].job \in {"none", "return", "record", "complete", "cancel", "bulk"}
  <2>1. clerk[k] \in Jobs
    BY <1>1 DEF ClerkTypes
  <2> QED
    BY <2>1 DEF Jobs, Idle
<1> QED
  BY <1>2, <1>3, <1>4, <1>5, <1>6, <1>7, <1>8 DEF TypeOK

\* Whatever clerks read and write over each other, the movements explain the stock, and the
\* stock is what lies on the shelves, of every sku nobody wrote a stale number for.
THEOREM ShelvesStayExplained == Spec => []ShelvesExplained
<1>1. IInv => ShelvesExplained
  BY TypesHold DEF IInv, ShelvesExplained
<1> QED
  BY <1>1, StocktakingInvariant, PTL

LEMMA ReturnsMove == IInv => ReturnsMoveOnReceipt
<1> SUFFICES ASSUME IInv, NEW r \in Returns
             PROVE  LET claim == return[r].claim
                        Back(sku) == {j \in DOMAIN claim.items :
                                         claim.items[j].keep
                                         /\ Bought[claim.order][claim.items[j].line].sku = sku}
                    IN  IF return[r].status \notin {"received", "refunded"}
                        THEN warehouse.moves[r] = <<>>
                        ELSE \E times \in 1..(MaxMoves + 1) : \A sku \in Skus :
                                NetOf(warehouse, r, sku) =
                                    times * MapThenSumSet(LAMBDA j : claim.items[j].quantity,
                                                          Back(sku))
  BY DEF ReturnsMoveOnReceipt
<1>1. ReturnFits(warehouse, return[r], r)
  BY DEF IInv, ReturnsHold
<1>2. CASE return[r].status \notin {"received", "refunded"}
  BY <1>1, <1>2 DEF ReturnFits
<1>3. CASE return[r].status \in {"received", "refunded"}
  <2>1. PICK times \in 1..MaxMoves : \A sku \in Skus :
           NetOf(warehouse, r, sku) = times * KeptQuantity(return[r].claim, sku)
    BY <1>1, <1>3 DEF ReturnFits, ReceivedInWhole
  <2>2. times \in 1..(MaxMoves + 1)
    BY StocktakingAssumption
  <2> QED
    BY <1>3, <2>1, <2>2 DEF KeptQuantity, KeptOf
<1> QED
  BY <1>2, <1>3

\* A return moves nothing before it is received, and then what it brings, in whole, as often
\* as it is received.
THEOREM ReturnsStayInWhole == Spec => []ReturnsMoveOnReceipt
  BY ReturnsMove, StocktakingInvariant, PTL

\* An order that refunds cover in whole has its points undone, whichever returns they are of.
THEOREM RefundsUndoPoints == Spec => []FullReturnsUndoPoints
<1>1. IInv => FullReturnsUndoPoints
  BY DEF IInv
<1> QED
  BY <1>1, StocktakingInvariant, PTL

\* A bulk change that was rolled back once and as a whole left nothing behind.
THEOREM RollbacksUndo == Spec => []RollbackUndoes
<1>1. IInv => RollbackUndoes
  BY DEF IInv, BulksHold, BulkFits, RollbackUndoes
<1> QED
  BY <1>1, StocktakingInvariant, PTL

\* Whoever waits for a product is told by the order, return or bulk change that brings it.
THEOREM WaitersStayTold == Spec => WaitersAreTold
<1>1. IInv /\ [Next]_vars => TellsWaiters
  BY StepKeeps DEF Keeps
<1>2. IInv /\ [Next]_vars =>
         [\A d \in Orders \ Counts :
             /\ warehouse'.moves[d] # warehouse.moves[d]
             /\ d \in Bulks => bulk'[d].rolls = bulk[d].rolls
             => \A sku \in Skus : warehouse'.stock[sku] > warehouse.stock[sku]
                                     => sku \notin warehouse'.waiting]_vars
  BY <1>1 DEF TellsWaiters
<1> QED
  BY <1>2, StocktakingInvariant, PTL DEF Spec, WaitersAreTold
=============================================================================
