---------------------------- MODULE CustomerProofs ----------------------------
(***************************************************************************)
(* What a customer is promised besides the goods: the points of Loyalty    *)
(* and the messages of Messages.  The two share no state; each part proves *)
(* the theorems of one specification, for every value of its constants.    *)
(***************************************************************************)
EXTENDS Loyalty, Messages, FiniteSetTheorems, TLAPS
-----------------------------------------------------------------------------
(***************************************************************************)
(* What Loyalty keeps true for any customers, orders, referrals and bounds *)
(* and however many lots and movements there are.                          *)
(***************************************************************************)

Plus(c, x, y) == x + y
Some(S) == CHOOSE x \in S : TRUE

WorthOf(ledger, e) == ledger[e] * e.points
Moved == INSTANCE FoldFacts WITH op <- Plus, map <- WorthOf, choose <- Some

LeftIn(lots, k) == lots[k].remaining
Left == INSTANCE FoldFacts WITH op <- Plus, map <- LeftIn, choose <- Some

OfNoOrder == {"referral_bonus", "manual_adjustment", "expired"}

Entries ==
    {e \in [user : Users, type : Types, order : Orders \cup {NoOrder}, points : Int \ {0}] :
        /\ e.order = NoOrder <=> e.type \in OfNoOrder
        /\ e.order # NoOrder => e.user = Owner[e.order]}

GoodLedger(L) ==
    /\ L \in [DOMAIN L -> Nat \ {0}] /\ IsFiniteSet(DOMAIN L)
    /\ DOMAIN L \subseteq Entries

LotRows == [original : Nat, remaining : Nat, ends : {"never", "later", "past"}]

InOrder(lots) ==
    \A k \in DOMAIN lots :
        /\ lots[k].remaining <= lots[k].original
        /\ lots[k].remaining < lots[k].original /\ lots[k].ends # "past" =>
              \A j \in 1 .. (k - 1) : lots[j].remaining = 0

Agree(b, u) == Spendable(b, u) = Balance(b, u) + b.unmet[u]

HasLots(b) == {u \in Users : b.lots[u] # <<>>}

GoodBooks(b) ==
    /\ b = [ledger |-> b.ledger, lots |-> b.lots, unmet |-> b.unmet]
    /\ GoodLedger(b.ledger)
    /\ b.lots \in [Users -> Seq(LotRows)]
    /\ b.unmet \in [Users -> Nat]
    /\ IsFiniteSet(HasLots(b))
    /\ \A u \in Users : InOrder(b.lots[u]) /\ Agree(b, u)

\* What is filed of an order: reversals are of what was filed.
Opposite(b, o) ==
    /\ \A e \in Filed(b, "redemption_reversal", o) :
          \E f \in Filed(b, "redeemed", o) : e.points = -f.points
    /\ \A e \in Filed(b, "earned_reversal", o) :
          \E f \in Filed(b, "order_delivered", o) : e.points = -f.points
    /\ \A e \in Filed(b, "redeemed", o) : e.points < 0
    /\ \A e \in Filed(b, "order_delivered", o) : e.points > 0

\* What is filed of an order in status s.
Filing(b, o, s) ==
    /\ s \in {"none", "validated"} => Filed(b, "redeemed", o) = {}
    /\ s # "delivered" => Filed(b, "order_delivered", o) = {}
    /\ s = "cancelled" /\ Filed(b, "redeemed", o) # {} =>
          Filed(b, "redemption_reversal", o) # {}

Once(b) ==
    \A e, f \in DOMAIN b.ledger :
        e.order # NoOrder /\ e.order = f.order /\ e.type = f.type =>
            e = f /\ b.ledger[e] = 1

FiledInv(b) ==
    /\ Once(b)
    /\ \A o \in Orders : Opposite(b, o) /\ Filing(b, o, status[o])

\* The points of a checkout's redemption are in the lots its transaction holds.
Reserved(b, o) ==
    /\ held[o] \subseteq DOMAIN b.lots[Owner[o]]
    /\ IF status[o] = "validated"
       THEN /\ held[o] # {} /\ redemption[o] > 0
            /\ redemption[o] <= Remaining(b.lots[Owner[o]], held[o])
       ELSE held[o] = {}

\* The lots of a customer are locked by one checkout at a time.
Alone ==
    \A o, p \in Orders : Owner[o] = Owner[p] /\ held[o] # {} /\ held[p] # {} => o = p

BonusesOf(b) == {e \in DOMAIN b.ledger : e.type = "referral_bonus"}
Rewarded     == {u \in Users : referral[u] = "rewarded"}

ReferralInv ==
    /\ IsFiniteSet(Rewarded)
    /\ Points(books.ledger, BonusesOf(books)) =
          (ReferrerBonus + ReferredBonus) * Cardinality(Rewarded)
    /\ \A u \in Users :
          /\ referral[u] # "none" => Referrer[u] \in Users
          /\ referral[u] \in {"qualified", "rewarded"} =>
                \E o \in Orders : Owner[o] = u /\ Filed(books, "order_delivered", o) # {}

StateTypes ==
    /\ status \in [Orders -> {"none", "validated", "placed", "delivered", "cancelled"}]
    /\ redemption \in [Orders -> Nat]
    /\ held \in [Orders -> SUBSET Nat]
    /\ referral \in [Users -> {"none", "pending", "qualified", "rewarded"}]
    /\ deduction \in [Requests -> {None} \cup [user : Users, points : Amounts]]

IInv ==
    /\ StateTypes
    /\ GoodBooks(books)
    /\ FiledInv(books)
    /\ \A o \in Orders : Reserved(books, o)
    /\ Alone
    /\ ReferralInv
-----------------------------------------------------------------------------
(* Sums of lots and of movements *)

LEMMA LeftAdds == Left!Adding
BY DEF Left!Adding, Plus, Some

LEMMA MovedAdds == Moved!Adding
BY DEF Moved!Adding, Plus, Some

\* What is left in lots is a sum, and so are the points of movements.
LEMMA SumsAreMeant ==
  /\ \A lots, S : Remaining(lots, S) = Left!Sum(lots, S)
  /\ \A L, S : Points(L, S) = Moved!Sum(L, S)
<1>1. ASSUME NEW lots, NEW S PROVE Remaining(lots, S) = Left!Sum(lots, S)
  BY DEF Left!Sum, Left!Fold, MapThenSumSet, MapThenFoldSet, Left!MapThenFoldSet,
     LeftIn, Plus, Some, Remaining
<1>2. ASSUME NEW L, NEW S PROVE Points(L, S) = Moved!Sum(L, S)
  BY DEF Moved!Sum, Moved!Fold, MapThenSumSet, MapThenFoldSet, Moved!MapThenFoldSet,
     WorthOf, Plus, Some, Points
<1> QED
  BY <1>1, <1>2

\* The instances have copies of the operators of FiniteSets.
LEMMA SameFinite ==
  \A S : (Left!IsFiniteSet(S) <=> IsFiniteSet(S)) /\ (Moved!IsFiniteSet(S) <=> IsFiniteSet(S))
BY DEF IsFiniteSet, Left!IsFiniteSet, Moved!IsFiniteSet

\* What can be summed, in the words of this module.
LEMMA Summables ==
  /\ \A lots, S : Left!Summable(lots, S) <=>
        IsFiniteSet(S) /\ \A k \in S : lots[k].remaining \in Int
  /\ \A L, S : Moved!Summable(L, S) <=>
        IsFiniteSet(S) /\ \A e \in S : L[e] * e.points \in Int
<1>1. ASSUME NEW lots, NEW S
      PROVE  Left!Summable(lots, S) <=> IsFiniteSet(S) /\ \A k \in S : lots[k].remaining \in Int
  BY DEF Left!Summable, IsFiniteSet, Left!IsFiniteSet, LeftIn
<1>2. ASSUME NEW L, NEW S
      PROVE  Moved!Summable(L, S) <=>
                IsFiniteSet(S) /\ \A e \in S : L[e] * e.points \in Int
  BY DEF Moved!Summable, IsFiniteSet, Moved!IsFiniteSet, WorthOf
<1> QED
  BY <1>1, <1>2

\* Some lots of a list can be summed, to a natural.
LEMMA LotsSum ==
  ASSUME NEW lots \in Seq(LotRows), NEW S \in SUBSET DOMAIN lots
  PROVE  /\ IsFiniteSet(S) /\ Left!Summable(lots, S) /\ Remaining(lots, S) \in Nat
         /\ \A k \in S : lots[k].remaining \in Nat
<1>1. IsFiniteSet(S)
  <2>1. DOMAIN lots = 1 .. Len(lots) /\ Len(lots) \in Nat
    OBVIOUS
  <2>2. IsFiniteSet(1 .. Len(lots))
    BY <2>1, FS_Interval
  <2> QED
    BY <2>1, <2>2, FS_Subset
<1>2. \A k \in S : lots[k].remaining \in Nat
  <2>1. \A k \in S : lots[k] \in LotRows
    OBVIOUS
  <2> QED
    BY <2>1 DEF LotRows
<1>3. Left!Summable(lots, S)
  BY <1>1, <1>2, Summables
<1>4. Left!Sum(lots, S) \in Nat
  <2>1. Left!IsFiniteSet(S)
    BY <1>1, SameFinite
  <2> QED
    BY <1>2, <2>1, LeftAdds, Left!SumNat DEF LeftIn
<1> QED
  BY <1>1, <1>2, <1>3, <1>4, SumsAreMeant
-----------------------------------------------------------------------------
(* Lots and what is consumed of them *)

\* The first n lots are the first n - 1 and the n-th.
LEMMA LotsUpTo ==
  ASSUME NEW lots \in Seq(LotRows), NEW n \in 1 .. Len(lots)
  PROVE  /\ Remaining(lots, 1 .. n) = Remaining(lots, 1 .. (n - 1)) + lots[n].remaining
         /\ Remaining(lots, 1 .. (n - 1)) \in Nat /\ lots[n].remaining \in Nat
         /\ Remaining(lots, 1 .. n) \in Nat
<1>1. /\ 1 .. n = (1 .. (n - 1)) \cup {n} /\ n \notin 1 .. (n - 1)
      /\ 1 .. (n - 1) \in SUBSET DOMAIN lots /\ 1 .. n \in SUBSET DOMAIN lots
  OBVIOUS
<1>2. Left!Summable(lots, (1 .. (n - 1)) \cup {n})
  BY <1>1, LotsSum
<1>3. Left!Sum(lots, (1 .. (n - 1)) \cup {n}) = Left!Sum(lots, 1 .. (n - 1)) + LeftIn(lots, n)
  BY <1>1, <1>2, LeftAdds, Left!SumAdd
<1>4. Remaining(lots, 1 .. n) \in Nat /\ Remaining(lots, 1 .. (n - 1)) \in Nat
  BY <1>1, LotsSum
<1>5. lots[n].remaining \in Nat
  BY <1>1, LotsSum
<1> QED
  BY <1>1, <1>3, <1>4, <1>5, SumsAreMeant DEF LeftIn

\* No lots, nothing left.
LEMMA NoLots ==
  ASSUME NEW lots
  PROVE  Remaining(lots, 1 .. 0) = 0
<1>1. 1 .. 0 = {}
  OBVIOUS
<1> QED
  BY <1>1, Left!SumEmpty, SumsAreMeant

\* What is asked for, cut to what there is.
LEMMA Clipped ==
  ASSUME NEW asked \in Int, NEW there \in Nat
  PROVE  Max({0, Min({asked, there})}) =
            IF asked <= 0 THEN 0 ELSE IF asked <= there THEN asked ELSE there
<1> DEFINE least == Min({asked, there})
<1>1. asked <= there => least = asked
  BY DEF Min
<1>2. ~(asked <= there) => least = there
  BY DEF Min
<1> HIDE DEF least
<1>3. least \in Int /\ (asked <= 0 => least <= 0) /\ (~(asked <= 0) => least >= 0)
  BY <1>1, <1>2
<1>4. least <= 0 => Max({0, least}) = 0
  BY <1>3 DEF Max
<1>5. least >= 0 => Max({0, least}) = least
  BY <1>3 DEF Max
<1> QED
  BY <1>1, <1>2, <1>3, <1>4, <1>5 DEF least

\* What the k-th lot gives when amount is asked of them all.
Taken(lots, amount, k) ==
    LET asked == amount - Remaining(lots, 1 .. (k - 1))
    IN  IF asked <= 0 THEN 0 ELSE IF asked <= lots[k].remaining THEN asked ELSE lots[k].remaining

\* Consuming leaves lists lists and lots lots; only what remains in them changes.
LEMMA ConsumeRows ==
  ASSUME NEW lots \in Seq(LotRows), NEW amount \in Nat
  PROVE  /\ Consume(lots, amount) \in Seq(LotRows)
         /\ Len(Consume(lots, amount)) = Len(lots)
         /\ \A k \in 1 .. Len(lots) :
               /\ Consume(lots, amount)[k].original = lots[k].original
               /\ Consume(lots, amount)[k].ends = lots[k].ends
               /\ Consume(lots, amount)[k].remaining = lots[k].remaining - Taken(lots, amount, k)
               /\ Taken(lots, amount, k) \in 0 .. lots[k].remaining
<1> DEFINE more == Consume(lots, amount)
           take(k) == Max({0, Min({amount - Remaining(lots, 1 .. (k - 1)), lots[k].remaining})})
<1>1. more = [k \in DOMAIN lots |-> [lots[k] EXCEPT !.remaining = @ - take(k)]]
  BY DEF Consume, ConsumeAfter
<1>2. ASSUME NEW k \in 1 .. Len(lots)
      PROVE  take(k) = Taken(lots, amount, k) /\ Taken(lots, amount, k) \in 0 .. lots[k].remaining
  <2> DEFINE asked == amount - Remaining(lots, 1 .. (k - 1))
             there == lots[k].remaining
  <2>1. asked \in Int /\ there \in Nat
    BY LotsUpTo
  <2> HIDE DEF asked, there
  <2>2. Max({0, Min({asked, there})}) =
            IF asked <= 0 THEN 0 ELSE IF asked <= there THEN asked ELSE there
    BY <2>1, Clipped
  <2> QED
    BY <2>1, <2>2 DEF Taken, asked, there
<1> HIDE DEF take
<1>3. ASSUME NEW k \in 1 .. Len(lots)
      PROVE  /\ more[k] \in LotRows /\ more[k].original = lots[k].original
             /\ more[k].ends = lots[k].ends
             /\ more[k].remaining = lots[k].remaining - Taken(lots, amount, k)
  <2>1. lots[k] \in LotRows /\ k \in DOMAIN lots
    OBVIOUS
  <2>2. more[k] = [lots[k] EXCEPT !.remaining = @ - take(k)]
    BY <1>1, <2>1
  <2> HIDE DEF more
  <2> DEFINE l == lots[k]  t == take(k)
  <2>3. /\ l \in LotRows /\ t = Taken(lots, amount, k) /\ t \in 0 .. l.remaining
        /\ more[k] = [l EXCEPT !.remaining = @ - t]
    BY <1>2, <2>1, <2>2
  <2> HIDE DEF l, t
  <2>4. /\ l.original \in Nat /\ l.remaining \in Nat /\ l.ends \in {"never", "later", "past"}
        /\ l = [original |-> l.original, remaining |-> l.remaining, ends |-> l.ends]
    BY <2>3 DEF LotRows
  <2>5. more[k] = [original |-> l.original, remaining |-> l.remaining - t, ends |-> l.ends]
    BY <2>3, <2>4
  <2>6. l.remaining - t \in Nat
    BY <2>3, <2>4
  <2>7. /\ more[k].original = l.original /\ more[k].ends = l.ends
        /\ more[k].remaining = l.remaining - t /\ more[k] \in LotRows
    BY <2>4, <2>5, <2>6 DEF LotRows
  <2> QED
    BY <2>3, <2>7 DEF l
<1>4. more \in Seq(LotRows) /\ Len(more) = Len(lots)
  <2>1. DOMAIN more = 1 .. Len(lots) /\ Len(lots) \in Nat
    BY <1>1
  <2>2. more = [k \in 1 .. Len(lots) |-> more[k]]
    BY <1>1
  <2> HIDE DEF more
  <2> QED
    BY <1>3, <2>1, <2>2
<1> QED
  BY <1>2, <1>3, <1>4

\* Of the first n lots, all is consumed if as much as they have is asked of them.
LEMMA ConsumeLeaves ==
  ASSUME NEW lots \in Seq(LotRows), NEW amount \in Nat, NEW n \in 0 .. Len(lots)
  PROVE  LET before == Remaining(lots, 1 .. n)
         IN  Remaining(Consume(lots, amount), 1 .. n) =
                IF amount >= before THEN 0 ELSE before - amount
<1> DEFINE more == Consume(lots, amount)
           Good(m) == LET before == Remaining(lots, 1 .. m)
                      IN  Remaining(more, 1 .. m) = IF amount >= before THEN 0 ELSE before - amount
<1>1. Good(0)
  BY NoLots
<1>2. ASSUME NEW m \in 1 .. Len(lots), Good(m - 1) PROVE Good(m)
  <2>1. /\ Remaining(lots, 1 .. m) = Remaining(lots, 1 .. (m - 1)) + lots[m].remaining
        /\ Remaining(lots, 1 .. (m - 1)) \in Nat /\ lots[m].remaining \in Nat
    BY LotsUpTo
  <2>2. /\ more \in Seq(LotRows) /\ m \in 1 .. Len(more)
        /\ more[m].remaining = lots[m].remaining - Taken(lots, amount, m)
    BY ConsumeRows
  <2> HIDE DEF more
  <2>3. Remaining(more, 1 .. m) = Remaining(more, 1 .. (m - 1)) + more[m].remaining
    BY <2>2, LotsUpTo
  <2> DEFINE before == Remaining(lots, 1 .. (m - 1))
             left == Remaining(more, 1 .. (m - 1))
             there == lots[m].remaining
             took == Taken(lots, amount, m)
  <2>4. /\ left = IF amount >= before THEN 0 ELSE before - amount
        /\ took = IF amount - before <= 0 THEN 0
                   ELSE IF amount - before <= there THEN amount - before ELSE there
    BY <1>2 DEF Taken
  <2>5. /\ Remaining(lots, 1 .. m) = before + there
        /\ Remaining(more, 1 .. m) = left + (there - took)
        /\ before \in Nat /\ there \in Nat
    BY <2>1, <2>2, <2>3
  <2> HIDE DEF before, left, there, took
  <2>6. left + (there - took) =
          IF amount >= before + there THEN 0 ELSE (before + there) - amount
    BY <2>4, <2>5
  <2> QED
    BY <2>5, <2>6
<1> HIDE DEF Good
<1>3. \A m \in 0 .. Len(lots) : Good(m)
  <2> SUFFICES ASSUME NEW m \in 0 .. Len(lots), ~Good(m) PROVE FALSE
    OBVIOUS
  <2> DEFINE Bad == {i \in 0 .. Len(lots) : ~Good(i)}
  <2>1. Bad \in SUBSET Nat /\ Bad # {}
    OBVIOUS
  <2>2. PICK i \in Bad : \A j \in Bad : i <= j
    BY <2>1, Left!LeastNatural
  <2> QED
    BY <1>1, <1>2, <2>2
<1> QED
  BY <1>3 DEF Good

\* Of all the lots, as much as there is.
LEMMA ConsumeAll ==
  ASSUME NEW lots \in Seq(LotRows), NEW amount \in Nat
  PROVE  LET more == Consume(lots, amount)
             all == Remaining(lots, DOMAIN lots)
         IN  /\ all \in Nat
             /\ Remaining(more, DOMAIN more) = IF amount >= all THEN 0 ELSE all - amount
<1>1. DOMAIN lots = 1 .. Len(lots) /\ Len(lots) \in Nat /\ Len(lots) \in 0 .. Len(lots)
  OBVIOUS
<1>2. DOMAIN Consume(lots, amount) = 1 .. Len(lots)
  BY ConsumeRows
<1>3. Remaining(lots, DOMAIN lots) \in Nat
  BY LotsSum
<1> QED
  BY <1>1, <1>2, <1>3, ConsumeLeaves

\* If nothing is left in the first n lots, nothing is left in any of them.
LEMMA AllEmpty ==
  ASSUME NEW lots \in Seq(LotRows), NEW n \in 0 .. Len(lots), Remaining(lots, 1 .. n) = 0,
         NEW j \in 1 .. n
  PROVE  lots[j].remaining = 0
<1>1. 1 .. n \in SUBSET DOMAIN lots /\ {j} \in SUBSET 1 .. n
  OBVIOUS
<1>2. /\ Left!IsFiniteSet(1 .. n) /\ \A k \in 1 .. n : LeftIn(lots, k) \in Nat
  BY <1>1, LotsSum, SameFinite DEF LeftIn
<1>3. Left!Sum(lots, {j}) <= Left!Sum(lots, 1 .. n)
  BY <1>1, <1>2, LeftAdds, Left!SumPart
<1>4. Left!Sum(lots, {j}) = LeftIn(lots, j) /\ LeftIn(lots, j) \in Nat
  <2>1. LeftIn(lots, j) \in Int /\ LeftIn(lots, j) \in Nat
    BY <1>2
  <2> QED
    BY <2>1, LeftAdds, Left!SumOne
<1>5. Left!Sum(lots, 1 .. n) = 0
  BY SumsAreMeant
<1> QED
  BY <1>3, <1>4, <1>5 DEF LeftIn

\* Consuming from the oldest on leaves the lots in order.
LEMMA ConsumeInOrder ==
  ASSUME NEW lots \in Seq(LotRows), NEW amount \in Nat, InOrder(lots)
  PROVE  InOrder(Consume(lots, amount))
<1> DEFINE more == Consume(lots, amount)
<1>1. /\ more \in Seq(LotRows) /\ Len(more) = Len(lots)
      /\ DOMAIN more = 1 .. Len(lots) /\ DOMAIN lots = 1 .. Len(lots) /\ Len(lots) \in Nat
      /\ \A k \in 1 .. Len(lots) :
            /\ more[k].original = lots[k].original /\ more[k].ends = lots[k].ends
            /\ more[k].remaining = lots[k].remaining - Taken(lots, amount, k)
            /\ Taken(lots, amount, k) \in 0 .. lots[k].remaining
            /\ lots[k].original \in Nat /\ lots[k].remaining \in Nat
  <2>1. more \in Seq(LotRows) /\ Len(more) = Len(lots)
    BY ConsumeRows
  <2>2. \A k \in 1 .. Len(lots) : lots[k].original \in Nat /\ lots[k].remaining \in Nat
    <3>1. \A k \in 1 .. Len(lots) : lots[k] \in LotRows
      OBVIOUS
    <3> QED
      BY <3>1 DEF LotRows
  <2>3. DOMAIN more = 1 .. Len(lots) /\ DOMAIN lots = 1 .. Len(lots) /\ Len(lots) \in Nat
    BY <2>1
  <2> QED
    BY <2>1, <2>2, <2>3, ConsumeRows
<1>2. ASSUME NEW k \in 1 .. Len(lots), amount > Remaining(lots, 1 .. (k - 1)),
             NEW j \in 1 .. (k - 1)
      PROVE  more[j].remaining = 0
  <2>1. k - 1 \in 0 .. Len(lots) /\ k - 1 \in 0 .. Len(more)
    BY <1>1
  <2>2. Remaining(lots, 1 .. (k - 1)) \in Nat
    BY LotsUpTo
  <2>3. Remaining(more, 1 .. (k - 1)) = 0
    BY <1>2, <2>1, <2>2, ConsumeLeaves
  <2> HIDE DEF more
  <2> QED
    BY <1>1, <2>1, <2>3, AllEmpty
<1> HIDE DEF more
<1>3. ASSUME NEW k \in 1 .. Len(lots)
      PROVE  /\ more[k].remaining <= more[k].original
             /\ more[k].remaining < more[k].original /\ more[k].ends # "past" =>
                   \A j \in 1 .. (k - 1) : more[j].remaining = 0
  <2>1. lots[k].remaining <= lots[k].original
    BY <1>1 DEF InOrder
  <2>2. CASE amount > Remaining(lots, 1 .. (k - 1))
    BY <1>1, <1>2, <2>1, <2>2
  <2>3. CASE ~(amount > Remaining(lots, 1 .. (k - 1)))
    <3>1. Remaining(lots, 1 .. (k - 1)) \in Nat
      BY LotsUpTo
    <3>2. Taken(lots, amount, k) = 0
      BY <2>3, <3>1 DEF Taken
    <3>3. more[k].remaining = lots[k].remaining
      BY <1>1, <3>2
    <3>4. ASSUME lots[k].remaining < lots[k].original, lots[k].ends # "past",
                 NEW j \in 1 .. (k - 1)
          PROVE  more[j].remaining = 0
      <4>1. j \in 1 .. Len(lots) /\ k \in DOMAIN lots
        BY <1>1
      <4>2. lots[j].remaining = 0
        BY <3>4, <4>1 DEF InOrder
      <4> QED
        BY <1>1, <4>1, <4>2
    <3> QED
      BY <1>1, <2>1, <3>3, <3>4
  <2> QED
    BY <2>2, <2>3
<1> QED
  BY <1>1, <1>3 DEF InOrder, more

\* A lot more, filled to its original, is one that nothing has touched.
LEMMA AppendInOrder ==
  ASSUME NEW lots \in Seq(LotRows), InOrder(lots), NEW n \in Nat,
         NEW ends \in {"never", "later", "past"}
  PROVE  LET lot == [original |-> n, remaining |-> n, ends |-> ends]
             more == Append(lots, lot)
         IN  /\ more \in Seq(LotRows) /\ InOrder(more)
             /\ Remaining(more, DOMAIN more) = Remaining(lots, DOMAIN lots) + n
<1> DEFINE lot == [original |-> n, remaining |-> n, ends |-> ends]
           more == Append(lots, lot)
<1>1. lot \in LotRows /\ lot.remaining = n /\ lot.original = n
  BY DEF LotRows
<1> HIDE DEF lot
<1>2. /\ more \in Seq(LotRows) /\ Len(more) = Len(lots) + 1 /\ more[Len(lots) + 1] = lot
      /\ \A k \in 1 .. Len(lots) : more[k] = lots[k]
      /\ DOMAIN more = 1 .. (Len(lots) + 1) /\ DOMAIN lots = 1 .. Len(lots) /\ Len(lots) \in Nat
  <2>1. more \in Seq(LotRows) /\ Len(more) = Len(lots) + 1 /\ Len(lots) \in Nat
    BY <1>1
  <2>2. more[Len(lots) + 1] = lot
    BY <1>1
  <2>3. \A k \in 1 .. Len(lots) : more[k] = lots[k]
    BY <1>1
  <2> HIDE DEF more
  <2>4. DOMAIN more = 1 .. (Len(lots) + 1) /\ DOMAIN lots = 1 .. Len(lots)
    BY <2>1
  <2> QED
    BY <2>1, <2>2, <2>3, <2>4
<1> HIDE DEF more
<1>3. InOrder(more)
  <2>1. ASSUME NEW k \in 1 .. Len(lots)
        PROVE  /\ more[k].remaining <= more[k].original
               /\ more[k].remaining < more[k].original /\ more[k].ends # "past" =>
                     \A j \in 1 .. (k - 1) : more[j].remaining = 0
    <3>1. more[k] = lots[k] /\ \A j \in 1 .. (k - 1) : more[j] = lots[j]
      BY <1>2
    <3> QED
      BY <1>2, <3>1 DEF InOrder
  <2>2. more[Len(lots) + 1].remaining = more[Len(lots) + 1].original
    BY <1>1, <1>2
  <2>3. ASSUME NEW k \in DOMAIN more PROVE k \in 1 .. Len(lots) \/ k = Len(lots) + 1
    BY <1>2
  <2> QED
    BY <1>1, <1>2, <2>1, <2>2, <2>3 DEF InOrder
<1>4. Remaining(more, 1 .. Len(more)) = Remaining(more, 1 .. Len(lots)) + n
  BY <1>1, <1>2, LotsUpTo
<1>5. Remaining(more, 1 .. Len(lots)) = Remaining(lots, 1 .. Len(lots))
  <2>1. Left!IsFiniteSet(1 .. Len(lots))
    <3>1. Len(lots) \in Int
      BY <1>2
    <3>2. IsFiniteSet(1 .. Len(lots))
      BY <3>1, FS_Interval
    <3> QED
      BY <3>2, SameFinite
  <2>2. \A k \in 1 .. Len(lots) : LeftIn(more, k) = LeftIn(lots, k)
    BY <1>2 DEF LeftIn
  <2> QED
    BY <2>1, <2>2, LeftAdds, Left!SumSame, SumsAreMeant
<1> QED
  BY <1>2, <1>3, <1>4, <1>5 DEF more, lot
-----------------------------------------------------------------------------
(* The ledger *)

\* Some movements of a ledger can be summed, to an integer.
LEMMA LedgerSum ==
  ASSUME NEW L, GoodLedger(L), NEW S \in SUBSET DOMAIN L
  PROVE  /\ IsFiniteSet(S) /\ Moved!Summable(L, S) /\ Points(L, S) \in Int
         /\ \A e \in S : L[e] \in Nat \ {0} /\ e.points \in Int \ {0}
<1>1. IsFiniteSet(S)
  BY FS_Subset DEF GoodLedger
<1>2. \A e \in S : L[e] \in Nat \ {0} /\ e.points \in Int \ {0}
  BY DEF GoodLedger, Entries
<1>3. \A e \in S : L[e] * e.points \in Int
  BY <1>2
<1>4. Moved!Summable(L, S)
  BY <1>1, <1>3, Summables
<1>5. Moved!Sum(L, S) \in Int
  BY <1>4, MovedAdds, Moved!SumInt
<1> QED
  BY <1>1, <1>2, <1>4, <1>5, SumsAreMeant

\* A movement more.
LEMMA InsertLedger ==
  ASSUME NEW L, GoodLedger(L), NEW e \in Entries
  PROVE  LET M == L (+) SetToBag({e})
         IN  /\ GoodLedger(M) /\ DOMAIN M = DOMAIN L \cup {e}
             /\ e \in DOMAIN L => M[e] = L[e] + 1
             /\ e \notin DOMAIN L => M[e] = 1
             /\ \A x \in DOMAIN L : x # e => M[x] = L[x]
<1> DEFINE M == L (+) SetToBag({e})
<1>1. /\ DOMAIN M = DOMAIN L \cup {e}
      /\ M = [x \in DOMAIN M |-> M[x]]
      /\ \A x \in DOMAIN M : M[x] = (IF x \in DOMAIN L THEN L[x] ELSE 0)
                                    + (IF x \in {e} THEN 1 ELSE 0)
  BY DEF SetToBag, (+)
<1> HIDE DEF M
<1>2. \A x \in DOMAIN L : L[x] \in Nat \ {0}
  BY DEF GoodLedger
<1>3. /\ e \in DOMAIN L => M[e] = L[e] + 1
      /\ e \notin DOMAIN L => M[e] = 1
      /\ \A x \in DOMAIN L : x # e => M[x] = L[x]
  BY <1>1, <1>2
<1>4. \A x \in DOMAIN M : M[x] \in Nat \ {0}
  BY <1>1, <1>2
<1>5. IsFiniteSet(DOMAIN M) /\ DOMAIN M \subseteq Entries
  BY <1>1, FS_AddElement DEF GoodLedger
<1>6. GoodLedger(M)
  BY <1>1, <1>4, <1>5 DEF GoodLedger
<1> QED
  BY <1>1, <1>3, <1>6 DEF M

\* Once more the same.
LEMMA OneMore ==
  ASSUME NEW n \in Int, NEW p \in Int
  PROVE  (n + 1) * p = n * p + p /\ n * p \in Int
OBVIOUS

\* It adds its points to the sums it belongs to, and to no other.
LEMMA InsertPoints ==
  ASSUME NEW L, GoodLedger(L), NEW e \in Entries,
         NEW S \in SUBSET (DOMAIN L \cup {e})
  PROVE  LET M == L (+) SetToBag({e})
         IN  /\ Points(L, S \cap DOMAIN L) \in Int
             /\ Points(M, S) = Points(L, S \cap DOMAIN L) + (IF e \in S THEN e.points ELSE 0)
<1> DEFINE M == L (+) SetToBag({e})
           R == S \cap DOMAIN L
<1>1. /\ GoodLedger(M) /\ DOMAIN M = DOMAIN L \cup {e}
      /\ e \in DOMAIN L => M[e] = L[e] + 1
      /\ e \notin DOMAIN L => M[e] = 1
      /\ \A x \in DOMAIN L : x # e => M[x] = L[x]
  BY InsertLedger
<1> HIDE DEF M
<1>2. /\ Points(L, R) \in Int /\ Moved!Summable(L, R) /\ IsFiniteSet(R)
      /\ Moved!Summable(M, R) /\ Moved!Summable(M, S)
  BY <1>1, LedgerSum
<1>3. e.points \in Int
  BY DEF Entries
<1>4. CASE e \notin R
  <2>1. \A x \in R : WorthOf(M, x) = WorthOf(L, x)
    BY <1>1, <1>4 DEF WorthOf
  <2>2. Moved!Sum(M, R) = Moved!Sum(L, R)
    BY <1>2, <2>1, SameFinite, MovedAdds, Moved!SumSame
  <2>3. CASE e \notin S
    <3>1. S = R
      BY <1>4, <2>3
    <3>2. Points(M, R) = Points(L, R)
      BY <2>2, SumsAreMeant
    <3> HIDE DEF R
    <3>3. Points(M, S) = Points(L, R) + 0
      BY <1>2, <3>1, <3>2
    <3> QED
      BY <1>2, <2>3, <3>3 DEF M, R
  <2>4. CASE e \in S
    <3>1. S = R \cup {e} /\ e \notin DOMAIN L
      BY <1>4, <2>4
    <3>2. WorthOf(M, e) = e.points
      BY <1>1, <1>3, <3>1 DEF WorthOf
    <3>3. Moved!Sum(M, R \cup {e}) = Moved!Sum(M, R) + WorthOf(M, e)
      BY <1>2, <1>4, <3>1, MovedAdds, Moved!SumAdd
    <3> HIDE DEF R
    <3> QED
      BY <1>2, <2>2, <2>4, <3>1, <3>2, <3>3, SumsAreMeant DEF M, R
  <2> QED
    BY <2>3, <2>4
<1>5. CASE e \in R
  <2>1. S = R
    BY <1>5
  <2>2. L[e] \in Nat /\ M[e] = L[e] + 1
    BY <1>1, <1>5 DEF GoodLedger
  <2>3. WorthOf(M, e) = WorthOf(L, e) + e.points /\ WorthOf(L, e) \in Int
    <3> DEFINE n == L[e]  p == e.points
    <3>1. n \in Int /\ p \in Int /\ M[e] = n + 1
      BY <1>3, <2>2
    <3> HIDE DEF n, p
    <3>2. (n + 1) * p = n * p + p /\ n * p \in Int
      BY <3>1, OneMore
    <3> QED
      BY <3>1, <3>2 DEF WorthOf, n, p
  <2>4. \A x \in R \ {e} : WorthOf(L, x) = WorthOf(M, x)
    BY <1>1 DEF WorthOf
  <2>5. Moved!Sum(M, R) = Moved!Sum(L, R) + WorthOf(M, e) - WorthOf(L, e)
    BY <1>2, <1>5, <2>4, MovedAdds, Moved!SumChange
  <2>6. Points(M, R) = Points(L, R) + WorthOf(M, e) - WorthOf(L, e)
    BY <2>5, SumsAreMeant
  <2> HIDE DEF R
  <2>7. Points(M, R) = Points(L, R) + e.points
    BY <1>2, <1>3, <2>3, <2>6
  <2> QED
    BY <1>2, <1>5, <2>1, <2>7 DEF M, R
<1> QED
  BY <1>4, <1>5
-----------------------------------------------------------------------------
(* The books *)

\* Books c have movement e more in their ledger than books b.
Posted(b, e, c) ==
    GoodLedger(b.ledger) /\ e \in Entries /\ c.ledger = b.ledger (+) SetToBag({e})

\* A movement moves the balance of its customer by its points, and no other.
LEMMA PostedBalance ==
  ASSUME NEW b, NEW e, NEW c, Posted(b, e, c), NEW u
  PROVE  /\ Balance(b, u) \in Int
         /\ Balance(c, u) = Balance(b, u) + (IF e.user = u THEN e.points ELSE 0)
<1> DEFINE L == b.ledger  M == c.ledger
           S == {x \in DOMAIN M : x.user = u}
           R == {x \in DOMAIN L : x.user = u}
<1>0. GoodLedger(L) /\ e \in Entries /\ M = L (+) SetToBag({e})
  BY DEF Posted
<1> HIDE DEF L, M
<1>1. DOMAIN M = DOMAIN L \cup {e}
  BY <1>0, InsertLedger
<1>2. S \in SUBSET (DOMAIN L \cup {e}) /\ S \cap DOMAIN L = R /\ (e \in S <=> e.user = u)
  BY <1>1
<1> HIDE DEF S
<1>3. /\ Points(L, S \cap DOMAIN L) \in Int
      /\ Points(M, S) = Points(L, S \cap DOMAIN L) + (IF e \in S THEN e.points ELSE 0)
  BY <1>0, <1>2, InsertPoints
<1> HIDE DEF R
<1>4. Balance(b, u) = Points(L, R) /\ Balance(c, u) = Points(M, S)
  BY DEF Balance, L, M, R, S
<1> QED
  BY <1>2, <1>3, <1>4

\* The three tables after a movement and what goes with it, spelled out.
LEMMA PostedBooks ==
  ASSUME NEW b, GoodBooks(b), NEW e \in Entries, NEW ends
  PROVE  /\ Insert(b, e) = [ledger |-> b.ledger (+) SetToBag({e}), lots |-> b.lots,
                            unmet |-> b.unmet]
         /\ Credit(b, e, ends) =
              [ledger |-> b.ledger (+) SetToBag({e}),
               lots |-> [b.lots EXCEPT ![e.user] =
                          Append(@, [original |-> e.points, remaining |-> e.points,
                                     ends |-> ends])],
               unmet |-> b.unmet]
         /\ Debit(b, e) =
              [ledger |-> b.ledger (+) SetToBag({e}),
               lots |-> [b.lots EXCEPT ![e.user] = Consume(@, -e.points)],
               unmet |-> [b.unmet EXCEPT ![e.user] =
                            @ + Max({0, -e.points - Spendable(b, e.user)})]]
<1>1. b = [ledger |-> b.ledger, lots |-> b.lots, unmet |-> b.unmet]
  BY DEF GoodBooks
<1> DEFINE M == b.ledger (+) SetToBag({e})
           more == Max({0, -e.points - Spendable(b, e.user)})
           c == Insert(b, e)
<1>2. c = [ledger |-> M, lots |-> b.lots, unmet |-> b.unmet]
  BY <1>1 DEF Insert
<1> HIDE DEF M, more, c
<1>3. c.lots = b.lots /\ c.unmet = b.unmet
  BY <1>2
<1>4. Credit(b, e, ends) =
        [ledger |-> M,
         lots |-> [b.lots EXCEPT ![e.user] =
                     Append(@, [original |-> e.points, remaining |-> e.points,
                                ends |-> ends])],
         unmet |-> b.unmet]
  <2> DEFINE lot == [original |-> e.points, remaining |-> e.points, ends |-> ends]
  <2>1. Credit(b, e, ends) = [c EXCEPT !.lots = [c.lots EXCEPT ![e.user] = Append(@, lot)]]
    BY DEF Credit, c
  <2> DEFINE after == [c.lots EXCEPT ![e.user] = Append(@, lot)]
  <2>2. after = [b.lots EXCEPT ![e.user] = Append(@, lot)]
    BY <1>3
  <2> HIDE DEF after, lot
  <2>3. [c EXCEPT !.lots = after] = [ledger |-> M, lots |-> after, unmet |-> b.unmet]
    BY <1>2
  <2>4. Credit(b, e, ends) = [ledger |-> M, lots |-> after, unmet |-> b.unmet]
    BY <2>1, <2>3 DEF after
  <2> QED
    BY <2>2, <2>4 DEF lot
<1>5. Debit(b, e) =
        [ledger |-> M,
         lots |-> [b.lots EXCEPT ![e.user] = Consume(@, -e.points)],
         unmet |-> [b.unmet EXCEPT ![e.user] = @ + more]]
  <2> DEFINE after == [c.lots EXCEPT ![e.user] = Consume(@, -e.points)]
             short == [c.unmet EXCEPT ![e.user] = @ + more]
  <2>1. Debit(b, e) = [[c EXCEPT !.lots = after] EXCEPT !.unmet = short]
    BY DEF Debit, DebitBy, c, more
  <2>2. after = [b.lots EXCEPT ![e.user] = Consume(@, -e.points)]
    BY <1>3
  <2>3. short = [b.unmet EXCEPT ![e.user] = @ + more]
    BY <1>3
  <2> HIDE DEF after, short
  <2>4. [[c EXCEPT !.lots = after] EXCEPT !.unmet = short] =
          [ledger |-> M, lots |-> after, unmet |-> short]
    <3> DEFINE d == [c EXCEPT !.lots = after]
    <3>1. d = [ledger |-> M, lots |-> after, unmet |-> b.unmet]
      BY <1>2
    <3> HIDE DEF d
    <3>2. [d EXCEPT !.unmet = short] = [ledger |-> M, lots |-> after, unmet |-> short]
      BY <3>1
    <3> QED
      BY <3>2 DEF d
  <2> QED
    BY <2>1, <2>2, <2>3, <2>4
<1> QED
  BY <1>2, <1>4, <1>5 DEF M, more, c

\* The tables of a customer who is not concerned stay good.
LEMMA OthersStayGood ==
  ASSUME NEW b, GoodBooks(b), NEW e, NEW c, Posted(b, e, c),
         NEW u \in Users, u # e.user, c.lots[u] = b.lots[u], c.unmet[u] = b.unmet[u]
  PROVE  InOrder(c.lots[u]) /\ Agree(c, u)
<1>1. GoodLedger(b.ledger) /\ InOrder(b.lots[u]) /\ Agree(b, u) /\ b.unmet[u] \in Nat
  BY DEF GoodBooks
<1>2. Balance(c, u) = Balance(b, u) + 0 /\ Balance(b, u) \in Int
  BY <1>1, PostedBalance
<1>3. Spendable(c, u) = Spendable(b, u)
  BY DEF Spendable
<1> QED
  BY <1>1, <1>2, <1>3 DEF Agree

\* Changing the lots of one customer leaves finitely many customers with lots.
LEMMA FewHaveLots ==
  ASSUME NEW b, GoodBooks(b), NEW c, NEW u,
         \A v \in Users : v # u => c.lots[v] = b.lots[v]
  PROVE  IsFiniteSet(HasLots(c))
<1>1. HasLots(c) \subseteq HasLots(b) \cup {u}
  BY DEF HasLots
<1>2. IsFiniteSet(HasLots(b) \cup {u})
  BY FS_AddElement DEF GoodBooks
<1> QED
  BY <1>1, <1>2, FS_Subset

\* A positive movement and its lot keep the books good.
LEMMA CreditKeeps ==
  ASSUME NEW b, GoodBooks(b), NEW e \in Entries, e.points > 0,
         NEW ends \in {"never", "later", "past"}
  PROVE  LET c == Credit(b, e, ends)
             lot == [original |-> e.points, remaining |-> e.points, ends |-> ends]
         IN  /\ GoodBooks(c)
             /\ Posted(b, e, c)
             /\ c.lots[e.user] = Append(b.lots[e.user], lot)
             /\ \A u \in Users : u # e.user => c.lots[u] = b.lots[u]
<1> DEFINE c == Credit(b, e, ends)
           M == b.ledger (+) SetToBag({e})
           lot == [original |-> e.points, remaining |-> e.points, ends |-> ends]
           after == [b.lots EXCEPT ![e.user] = Append(@, lot)]
<1>1. e.user \in Users /\ e.points \in Nat
  BY DEF Entries
<1>2. c = [ledger |-> M, lots |-> after, unmet |-> b.unmet]
  BY PostedBooks
<1>3. /\ GoodLedger(b.ledger) /\ b.lots \in [Users -> Seq(LotRows)] /\ b.unmet \in [Users -> Nat]
      /\ InOrder(b.lots[e.user]) /\ Agree(b, e.user)
  BY <1>1 DEF GoodBooks
<1>4. GoodLedger(M)
  BY <1>3, InsertLedger
<1> HIDE DEF M, c
<1>5. LET more == Append(b.lots[e.user], lot)
      IN  /\ more \in Seq(LotRows) /\ InOrder(more)
          /\ Remaining(more, DOMAIN more) =
               Remaining(b.lots[e.user], DOMAIN b.lots[e.user]) + e.points
  BY <1>1, <1>3, AppendInOrder
<1> HIDE DEF lot
<1>6. /\ after \in [Users -> Seq(LotRows)]
      /\ after[e.user] = Append(b.lots[e.user], lot)
      /\ \A u \in Users : u # e.user => after[u] = b.lots[u]
  BY <1>1, <1>3, <1>5
<1> HIDE DEF after
<1>7. c.ledger = M /\ c.lots = after /\ c.unmet = b.unmet
  BY <1>2
<1>p. Posted(b, e, c)
  BY <1>3, <1>7 DEF Posted, M
<1>8. InOrder(c.lots[e.user]) /\ Agree(c, e.user)
  <2>1. Balance(c, e.user) = Balance(b, e.user) + e.points /\ Balance(b, e.user) \in Int
    BY <1>p, PostedBalance
  <2>2. Spendable(c, e.user) = Spendable(b, e.user) + e.points
    BY <1>5, <1>6, <1>7 DEF Spendable
  <2>3. InOrder(c.lots[e.user])
    BY <1>5, <1>6, <1>7
  <2>4. c.unmet[e.user] = b.unmet[e.user] /\ b.unmet[e.user] \in Nat
    BY <1>1, <1>3, <1>7
  <2>5. Spendable(b, e.user) = Balance(b, e.user) + b.unmet[e.user]
    BY <1>3 DEF Agree
  <2>6. Agree(c, e.user)
    BY <1>1, <2>1, <2>2, <2>4, <2>5 DEF Agree
  <2> QED
    BY <2>3, <2>6
<1>9. \A u \in Users : u # e.user => InOrder(c.lots[u]) /\ Agree(c, u)
  BY <1>6, <1>7, <1>p, OthersStayGood
<1>10. GoodBooks(c)
  <2>1. \A u \in Users : InOrder(c.lots[u]) /\ Agree(c, u)
    BY <1>8, <1>9
  <2>2. c = [ledger |-> c.ledger, lots |-> c.lots, unmet |-> c.unmet]
    BY <1>2, <1>7
  <2>3. IsFiniteSet(HasLots(c))
    <3>1. \A v \in Users : v # e.user => c.lots[v] = b.lots[v]
      BY <1>6, <1>7
    <3> QED
      BY <3>1, FewHaveLots
  <2> QED
    BY <1>3, <1>4, <1>6, <1>7, <2>1, <2>2, <2>3 DEF GoodBooks
<1> QED
  BY <1>6, <1>7, <1>10, <1>p DEF c, lot

\* A negative movement and what it consumes keep the books good, and take all
\* its points from the lots when they have as many.
LEMMA DebitKeeps ==
  ASSUME NEW b, GoodBooks(b), NEW e \in Entries, e.points < 0
  PROVE  LET c == Debit(b, e)
         IN  /\ GoodBooks(c)
             /\ Posted(b, e, c)
             /\ DOMAIN c.lots[e.user] = DOMAIN b.lots[e.user]
             /\ \A u \in Users : u # e.user => c.lots[u] = b.lots[u]
             /\ -e.points <= Spendable(b, e.user) =>
                   Spendable(c, e.user) = Spendable(b, e.user) + e.points
<1> DEFINE c == Debit(b, e)
           M == b.ledger (+) SetToBag({e})
           n == -e.points
           all == Spendable(b, e.user)
           short == Max({0, n - all})
           more == Consume(b.lots[e.user], n)
           lots == [b.lots EXCEPT ![e.user] = Consume(@, n)]
           unmet == [b.unmet EXCEPT ![e.user] = @ + short]
<1>1. e.user \in Users /\ n \in Nat /\ e.points = -n /\ e.points \in Int
  BY DEF Entries
<1>2. c = [ledger |-> M, lots |-> lots, unmet |-> unmet]
  BY PostedBooks
<1>3. /\ GoodLedger(b.ledger) /\ b.lots \in [Users -> Seq(LotRows)] /\ b.unmet \in [Users -> Nat]
      /\ InOrder(b.lots[e.user]) /\ Agree(b, e.user)
  BY <1>1 DEF GoodBooks
<1>4. GoodLedger(M)
  BY <1>3, InsertLedger
<1> HIDE DEF M, c, n
<1>5. /\ more \in Seq(LotRows) /\ InOrder(more) /\ all \in Nat
      /\ Remaining(more, DOMAIN more) = IF n >= all THEN 0 ELSE all - n
      /\ DOMAIN more = DOMAIN b.lots[e.user]
  <2>1. b.lots[e.user] \in Seq(LotRows)
    BY <1>1, <1>3
  <2>2. more \in Seq(LotRows) /\ Len(more) = Len(b.lots[e.user])
    BY <1>1, <2>1, ConsumeRows
  <2>3. InOrder(more)
    BY <1>1, <1>3, <2>1, ConsumeInOrder
  <2>4. all \in Nat /\ Remaining(more, DOMAIN more) = IF n >= all THEN 0 ELSE all - n
    BY <1>1, <2>1, ConsumeAll DEF Spendable
  <2> QED
    BY <2>1, <2>2, <2>3, <2>4
<1> HIDE DEF all
<1>6. short = IF n >= all THEN n - all ELSE 0
  BY <1>1, <1>5 DEF Max
<1>7. short \in Nat
  BY <1>1, <1>5, <1>6
<1> HIDE DEF short, more
<1>8. /\ lots \in [Users -> Seq(LotRows)] /\ lots[e.user] = more
      /\ \A u \in Users : u # e.user => lots[u] = b.lots[u]
  BY <1>1, <1>3, <1>5 DEF more
<1>9. /\ unmet \in [Users -> Nat] /\ unmet[e.user] = b.unmet[e.user] + short
      /\ \A u \in Users : u # e.user => unmet[u] = b.unmet[u]
      /\ b.unmet[e.user] \in Nat
  BY <1>1, <1>3, <1>7
<1> HIDE DEF lots, unmet
<1>10. c.ledger = M /\ c.lots = lots /\ c.unmet = unmet
  BY <1>2
<1>p. Posted(b, e, c)
  BY <1>3, <1>10 DEF Posted, M
<1>11. Spendable(c, e.user) = IF n >= all THEN 0 ELSE all - n
  BY <1>5, <1>8, <1>10 DEF Spendable
<1>12. InOrder(c.lots[e.user]) /\ Agree(c, e.user)
  <2>1. Balance(c, e.user) = Balance(b, e.user) + e.points /\ Balance(b, e.user) \in Int
    BY <1>p, PostedBalance
  <2>2. InOrder(c.lots[e.user])
    BY <1>5, <1>8, <1>10
  <2>3. all = Balance(b, e.user) + b.unmet[e.user]
    BY <1>3 DEF Agree, all
  <2>4. c.unmet[e.user] = b.unmet[e.user] + short
    BY <1>9, <1>10
  <2>5. Agree(c, e.user)
    <3>1. Spendable(c, e.user) = Balance(c, e.user) + c.unmet[e.user]
      <4>1. all \in Nat /\ n \in Nat /\ e.points = -n /\ b.unmet[e.user] \in Nat
        BY <1>1, <1>5, <1>9
      <4> QED
        BY ONLY <1>6, <1>11, <2>1, <2>3, <2>4, <4>1
    <3> QED
      BY <3>1 DEF Agree
  <2> QED
    BY <2>2, <2>5
<1>13. \A u \in Users : u # e.user => InOrder(c.lots[u]) /\ Agree(c, u)
  BY <1>8, <1>9, <1>10, <1>p, OthersStayGood
<1>14. GoodBooks(c)
  <2>1. \A u \in Users : InOrder(c.lots[u]) /\ Agree(c, u)
    BY <1>12, <1>13
  <2>2. c = [ledger |-> c.ledger, lots |-> c.lots, unmet |-> c.unmet]
    BY <1>2, <1>10
  <2>3. IsFiniteSet(HasLots(c))
    <3>1. \A v \in Users : v # e.user => c.lots[v] = b.lots[v]
      BY <1>8, <1>10
    <3> QED
      BY <3>1, FewHaveLots
  <2> QED
    BY <1>4, <1>8, <1>9, <1>10, <2>1, <2>2, <2>3 DEF GoodBooks
<1>15. n <= all => Spendable(c, e.user) = all + e.points
  BY <1>1, <1>5, <1>11
<1> QED
  BY <1>5, <1>8, <1>10, <1>14, <1>15, <1>p DEF more, c, n, all

\* The expiry of a lot keeps the books good, and changes nothing else of the lots.
LEMMA ExpireKeeps ==
  ASSUME NEW b, GoodBooks(b), NEW u \in Users, NEW k \in DOMAIN b.lots[u],
         b.lots[u][k].ends = "past", b.lots[u][k].remaining > 0
  PROVE  LET e == Entry(u, "expired", NoOrder, -b.lots[u][k].remaining)
             c == Expire(<<u, k>>, b)
         IN  /\ e \in Entries /\ GoodBooks(c)
             /\ Posted(b, e, c)
             /\ \A v \in Users : DOMAIN c.lots[v] = DOMAIN b.lots[v]
             /\ \A v \in Users : \A j \in DOMAIN b.lots[v] :
                   <<v, j>> # <<u, k>> => c.lots[v][j] = b.lots[v][j]
<1> DEFINE n == b.lots[u][k].remaining
           e == Entry(u, "expired", NoOrder, -n)
           c == Expire(<<u, k>>, b)
           M == b.ledger (+) SetToBag({e})
           old == b.lots[u]
           new == [old EXCEPT ![k].remaining = 0]
           lots == [b.lots EXCEPT ![u] = new]
<1>1. /\ GoodLedger(b.ledger) /\ b.lots \in [Users -> Seq(LotRows)] /\ b.unmet \in [Users -> Nat]
      /\ InOrder(old) /\ Agree(b, u)
      /\ b = [ledger |-> b.ledger, lots |-> b.lots, unmet |-> b.unmet]
  BY DEF GoodBooks
<1>2. /\ old \in Seq(LotRows) /\ DOMAIN old = 1 .. Len(old) /\ Len(old) \in Nat
      /\ k \in 1 .. Len(old)
      /\ \A j \in 1 .. Len(old) :
            /\ old[j].original \in Nat /\ old[j].remaining \in Nat
            /\ old[j].ends \in {"never", "later", "past"}
            /\ old[j] = [original |-> old[j].original, remaining |-> old[j].remaining,
                         ends |-> old[j].ends]
  <2>1. old \in Seq(LotRows)
    BY <1>1
  <2> HIDE DEF old
  <2>2. DOMAIN old = 1 .. Len(old) /\ Len(old) \in Nat /\ \A j \in 1 .. Len(old) : old[j] \in LotRows
    BY <2>1
  <2>3. k \in DOMAIN old
    BY DEF old
  <2> QED
    BY <2>1, <2>2, <2>3 DEF LotRows
<1>3. n \in Nat \ {0} /\ old[k].remaining = n /\ old[k].ends = "past"
  <2>1. n \in Nat /\ n > 0
    BY <1>2
  <2> QED
    BY <2>1
<1> HIDE DEF n, old
<1>4. e \in Entries /\ e.user = u /\ e.points = -n
  BY <1>3 DEF Entries, Entry, OfNoOrder, Types
<1>5. c = [ledger |-> M, lots |-> lots, unmet |-> b.unmet]
  <2> DEFINE d == Insert(b, e)
  <2>1. d = [ledger |-> M, lots |-> b.lots, unmet |-> b.unmet]
    BY <1>4, PostedBooks
  <2>2. <<u, k>>[1] = u /\ <<u, k>>[2] = k /\ b.lots[u][k].remaining = n
    BY DEF n
  <2>3. c = [d EXCEPT !.lots = [d.lots EXCEPT ![u] = [d.lots[u] EXCEPT ![k] =
                                   [d.lots[u][k] EXCEPT !.remaining = 0]]]]
    BY <2>2 DEF Expire, Lot
  <2> HIDE DEF d, e, M
  <2>4. d.lots = b.lots
    BY <2>1
  <2>5. [d.lots EXCEPT ![u] = [d.lots[u] EXCEPT ![k] = [d.lots[u][k] EXCEPT !.remaining = 0]]]
          = lots
    BY <2>4 DEF old
  <2> HIDE DEF lots
  <2> QED
    BY <2>1, <2>3, <2>5
<1> HIDE DEF e, c
<1>6. GoodLedger(M)
  BY <1>1, <1>4, InsertLedger
<1> HIDE DEF M
<1>7. /\ DOMAIN new = 1 .. Len(old)
      /\ new[k] = [original |-> old[k].original, remaining |-> 0, ends |-> "past"]
      /\ \A j \in 1 .. Len(old) : j # k => new[j] = old[j]
  <2>1. new[k] = [old[k] EXCEPT !.remaining = 0]
    BY <1>2
  <2>2. old[k] = [original |-> old[k].original, remaining |-> n, ends |-> "past"]
    BY <1>2, <1>3
  <2> QED
    BY <1>2, <2>1, <2>2
<1>8. new \in Seq(LotRows) /\ Len(new) = Len(old)
  <2>1. new = [j \in 1 .. Len(old) |-> new[j]]
    BY <1>2
  <2> HIDE DEF new
  <2>2. \A j \in 1 .. Len(old) : old[j] \in LotRows
    BY <1>2
  <2>3. new[k] \in LotRows
    BY <1>2, <1>7 DEF LotRows
  <2>4. \A j \in 1 .. Len(old) : new[j] \in LotRows
    BY <1>7, <2>2, <2>3
  <2> QED
    BY <1>2, <2>1, <2>4
<1> HIDE DEF new
<1>9. InOrder(new)
  <2>1. ASSUME NEW j \in 1 .. Len(old)
        PROVE  new[j].remaining <= old[j].remaining /\ new[j].remaining \in Nat
    BY <1>2, <1>7
  <2>2. ASSUME NEW j \in 1 .. Len(old), new[j].remaining < new[j].original,
               new[j].ends # "past", NEW i \in 1 .. (j - 1)
        PROVE  new[i].remaining = 0
    <3>1. j # k /\ new[j] = old[j]
      BY <1>7, <2>2
    <3>2. i \in 1 .. Len(old) /\ j \in DOMAIN old
      BY <1>2
    <3>3. old[i].remaining = 0
      BY <1>1, <2>2, <3>1, <3>2 DEF InOrder
    <3> QED
      BY <2>1, <3>2, <3>3
  <2>3. ASSUME NEW j \in 1 .. Len(old) PROVE new[j].remaining <= new[j].original
    <3>1. old[j].remaining <= old[j].original
      BY <1>1, <1>2 DEF InOrder
    <3>2. new[k].remaining = 0 /\ new[k].original = old[k].original /\ old[k].original \in Nat
      BY <1>2, <1>7
    <3>3. CASE j = k
      BY <3>2, <3>3
    <3>4. CASE j # k
      BY <1>7, <3>1, <3>4
    <3> QED
      BY <3>3, <3>4
  <2> QED
    BY <1>7, <2>2, <2>3 DEF InOrder
<1>10. /\ Remaining(new, DOMAIN new) = Remaining(old, DOMAIN old) - n
       /\ Remaining(old, DOMAIN old) \in Nat
  <2>1. DOMAIN new = DOMAIN old /\ k \in DOMAIN old
    BY <1>2, <1>7
  <2>2. /\ Left!Summable(old, DOMAIN old) /\ Left!Summable(new, DOMAIN old)
        /\ Remaining(old, DOMAIN old) \in Nat
    BY <1>2, <1>8, <2>1, LotsSum
  <2>3. \A j \in DOMAIN old \ {k} : LeftIn(old, j) = LeftIn(new, j)
    BY <1>2, <1>7 DEF LeftIn
  <2>4. Left!Sum(new, DOMAIN old) = Left!Sum(old, DOMAIN old) + LeftIn(new, k) - LeftIn(old, k)
    BY <2>1, <2>2, <2>3, LeftAdds, Left!SumChange
  <2>5. LeftIn(new, k) = 0 /\ LeftIn(old, k) = n
    BY <1>3, <1>7 DEF LeftIn
  <2> QED
    BY <1>3, <2>1, <2>2, <2>4, <2>5, SumsAreMeant
<1>11. /\ lots \in [Users -> Seq(LotRows)] /\ lots[u] = new
       /\ \A v \in Users : v # u => lots[v] = b.lots[v]
  BY <1>1, <1>8
<1> HIDE DEF lots
<1>12. c.ledger = M /\ c.lots = lots /\ c.unmet = b.unmet
  BY <1>5
<1>p. Posted(b, e, c)
  BY <1>1, <1>4, <1>12 DEF Posted, M
<1>13. InOrder(c.lots[u]) /\ Agree(c, u)
  <2>1. Balance(c, u) = Balance(b, u) + e.points /\ Balance(b, u) \in Int
    BY <1>4, <1>p, PostedBalance
  <2>2. Spendable(c, u) = Spendable(b, u) - n /\ Spendable(b, u) \in Nat
    BY <1>10, <1>11, <1>12 DEF Spendable, old
  <2>3. Spendable(b, u) = Balance(b, u) + b.unmet[u] /\ b.unmet[u] \in Nat
    BY <1>1 DEF Agree
  <2>4. Agree(c, u)
    BY <1>3, <1>4, <1>12, <2>1, <2>2, <2>3 DEF Agree
  <2> QED
    BY <1>9, <1>11, <1>12, <2>4
<1>14. \A v \in Users : v # u => InOrder(c.lots[v]) /\ Agree(c, v)
  BY <1>4, <1>11, <1>12, <1>p, OthersStayGood
<1>15. GoodBooks(c)
  <2>1. \A v \in Users : InOrder(c.lots[v]) /\ Agree(c, v)
    BY <1>13, <1>14
  <2>2. c = [ledger |-> c.ledger, lots |-> c.lots, unmet |-> c.unmet]
    BY <1>5, <1>12
  <2>3. IsFiniteSet(HasLots(c))
    <3>1. \A v \in Users : v # u => c.lots[v] = b.lots[v]
      BY <1>11, <1>12
    <3> QED
      BY <3>1, FewHaveLots
  <2> QED
    BY <1>1, <1>6, <1>11, <1>12, <2>1, <2>2, <2>3 DEF GoodBooks
<1>16. \A v \in Users : DOMAIN c.lots[v] = DOMAIN b.lots[v]
  BY <1>2, <1>7, <1>11, <1>12 DEF old
<1>17. \A v \in Users : \A j \in DOMAIN b.lots[v] :
          <<v, j>> # <<u, k>> => c.lots[v][j] = b.lots[v][j]
  BY <1>2, <1>7, <1>11, <1>12 DEF old
<1> QED
  BY <1>4, <1>15, <1>16, <1>17, <1>p DEF c, e, n
-----------------------------------------------------------------------------
(* What a step leaves of the ledger *)

SameOrders(b, c) ==
    \A e \in [user : Users, type : Types, order : Orders, points : Int] :
        /\ e \in DOMAIN b.ledger <=> e \in DOMAIN c.ledger
        /\ e \in DOMAIN b.ledger => c.ledger[e] = b.ledger[e]

SameBonuses(b, c) ==
    /\ BonusesOf(c) = BonusesOf(b)
    /\ \A e \in BonusesOf(b) : c.ledger[e] = b.ledger[e]

\* The ledger of books to which a movement was added.
LEMMA PostedLedger ==
  ASSUME NEW b, NEW e, NEW c, Posted(b, e, c)
  PROVE  /\ GoodLedger(c.ledger) /\ DOMAIN c.ledger = DOMAIN b.ledger \cup {e}
         /\ e \notin DOMAIN b.ledger => c.ledger[e] = 1
         /\ \A x \in DOMAIN b.ledger : x # e => c.ledger[x] = b.ledger[x]
<1> DEFINE L == b.ledger  M == L (+) SetToBag({e})
<1>1. GoodLedger(L) /\ c.ledger = M /\ e \in Entries
  BY DEF Posted
<1> HIDE DEF L
<1>2. /\ GoodLedger(M) /\ DOMAIN M = DOMAIN L \cup {e}
      /\ e \notin DOMAIN L => M[e] = 1
      /\ \A x \in DOMAIN L : x # e => M[x] = L[x]
  BY <1>1, InsertLedger
<1> HIDE DEF M
<1> QED
  BY <1>1, <1>2 DEF L

\* A movement of no order leaves those of the orders as they are.
LEMMA NoOrderPosted ==
  ASSUME NEW b, NEW e, NEW c, Posted(b, e, c), e.order = NoOrder
  PROVE  SameOrders(b, c)
<1>1. /\ DOMAIN c.ledger = DOMAIN b.ledger \cup {e}
      /\ \A x \in DOMAIN b.ledger : x # e => c.ledger[x] = b.ledger[x]
  BY PostedLedger
<1>2. \A x \in [user : Users, type : Types, order : Orders, points : Int] : x # e
  BY LoyaltyAssumption
<1> QED
  BY <1>1, <1>2 DEF SameOrders

\* A movement that is no bonus leaves the bonuses as they are.
LEMMA NoBonusPosted ==
  ASSUME NEW b, NEW e, NEW c, Posted(b, e, c), e.type # "referral_bonus"
  PROVE  SameBonuses(b, c)
<1>1. /\ DOMAIN c.ledger = DOMAIN b.ledger \cup {e}
      /\ \A x \in DOMAIN b.ledger : x # e => c.ledger[x] = b.ledger[x]
  BY PostedLedger
<1> QED
  BY <1>1 DEF SameBonuses, BonusesOf

\* The movements filed of orders are the same if those of orders are.
LEMMA SameFiled ==
  ASSUME NEW b, GoodLedger(b.ledger), NEW c, GoodLedger(c.ledger), SameOrders(b, c)
  PROVE  /\ \A type, o : o \in Orders => Filed(c, type, o) = Filed(b, type, o)
         /\ Once(b) => Once(c)
<1>1. ASSUME NEW e \in Entries, e.order # NoOrder
      PROVE  /\ e \in [user : Users, type : Types, order : Orders, points : Int]
             /\ e \in DOMAIN b.ledger <=> e \in DOMAIN c.ledger
             /\ e \in DOMAIN b.ledger => c.ledger[e] = b.ledger[e]
  <2>1. e \in [user : Users, type : Types, order : Orders, points : Int]
    BY <1>1 DEF Entries
  <2> QED
    BY <2>1 DEF SameOrders
<1>2. DOMAIN b.ledger \subseteq Entries /\ DOMAIN c.ledger \subseteq Entries
  BY DEF GoodLedger
<1>3. \A type, o : o \in Orders => Filed(c, type, o) = Filed(b, type, o)
  BY <1>1, <1>2, LoyaltyAssumption DEF Filed
<1>4. ASSUME Once(b) PROVE Once(c)
  BY <1>1, <1>2, <1>4 DEF Once
<1> QED
  BY <1>3, <1>4

\* What FiledInv says of an order is the same if what is filed of it is.
LEMMA SameOpposite ==
  ASSUME NEW b, NEW c, NEW o,
         \A type \in {"redeemed", "redemption_reversal", "order_delivered", "earned_reversal"} :
            Filed(c, type, o) = Filed(b, type, o)
  PROVE  /\ Opposite(b, o) => Opposite(c, o)
         /\ \A s : Filing(b, o, s) => Filing(c, o, s)
BY DEF Opposite, Filing

\* Bonuses that are the same have the same points.
LEMMA SameBonusPoints ==
  ASSUME NEW b, GoodLedger(b.ledger), NEW c, SameBonuses(b, c)
  PROVE  Points(c.ledger, BonusesOf(c)) = Points(b.ledger, BonusesOf(b))
<1>1. Moved!IsFiniteSet(BonusesOf(b))
  <2>1. BonusesOf(b) \in SUBSET DOMAIN b.ledger
    BY DEF BonusesOf
  <2> QED
    BY <2>1, LedgerSum, SameFinite
<1>2. \A e \in BonusesOf(b) : WorthOf(c.ledger, e) = WorthOf(b.ledger, e)
  BY DEF SameBonuses, WorthOf
<1>3. Moved!Sum(c.ledger, BonusesOf(b)) = Moved!Sum(b.ledger, BonusesOf(b))
  BY <1>1, <1>2, MovedAdds, Moved!SumSame
<1> QED
  BY <1>3, SumsAreMeant DEF SameBonuses

\* The first movement of its type of an order is filed once, and disturbs no other.
LEMMA FirstOfItsType ==
  ASSUME NEW b, NEW e, NEW c, Posted(b, e, c), Once(b), e.order \in Orders,
         Filed(b, e.type, e.order) = {}
  PROVE  /\ Once(c) /\ SameBonuses(b, c)
         /\ Filed(c, e.type, e.order) = {e}
         /\ \A type, o : type # e.type \/ o # e.order => Filed(c, type, o) = Filed(b, type, o)
<1>1. /\ DOMAIN c.ledger = DOMAIN b.ledger \cup {e}
      /\ \A x \in DOMAIN b.ledger : x # e => c.ledger[x] = b.ledger[x]
      /\ e \notin DOMAIN b.ledger => c.ledger[e] = 1
  BY PostedLedger
<1>2. e \notin DOMAIN b.ledger
  BY DEF Filed
<1>3. Filed(c, e.type, e.order) = {e}
  BY <1>1 DEF Filed
<1>4. \A type, o : type # e.type \/ o # e.order => Filed(c, type, o) = Filed(b, type, o)
  BY <1>1 DEF Filed
<1>5. Once(c)
  <2> SUFFICES ASSUME NEW x \in DOMAIN c.ledger, NEW y \in DOMAIN c.ledger,
                      x.order # NoOrder, x.order = y.order, x.type = y.type
               PROVE  x = y /\ c.ledger[x] = 1
    BY DEF Once
  <2>1. CASE x.order = e.order /\ x.type = e.type
    <3>1. x \in Filed(c, e.type, e.order) /\ y \in Filed(c, e.type, e.order)
      BY <2>1 DEF Filed
    <3> QED
      BY <1>1, <1>2, <1>3, <3>1
  <2>2. CASE ~(x.order = e.order /\ x.type = e.type)
    <3>1. x \in DOMAIN b.ledger /\ y \in DOMAIN b.ledger /\ x # e
      BY <1>1, <2>2
    <3>2. x = y /\ b.ledger[x] = 1
      BY <3>1 DEF Once
    <3> QED
      BY <1>1, <3>1, <3>2
  <2> QED
    BY <2>1, <2>2
<1>6. SameBonuses(b, c)
  <2>1. e.type # "referral_bonus"
    BY LoyaltyAssumption DEF Entries, OfNoOrder, Posted
  <2> QED
    BY <2>1, NoBonusPosted
<1> QED
  BY <1>3, <1>4, <1>5, <1>6
-----------------------------------------------------------------------------
(* The movements of an order *)

OrderTypes == {"redeemed", "redemption_reversal", "order_delivered", "earned_reversal"}

\* A movement filed of an order is of one of four types, and of the order's customer.
LEMMA FiledEntry ==
  ASSUME NEW b, GoodLedger(b.ledger), NEW o \in Orders, NEW type, NEW e \in Filed(b, type, o)
  PROVE  /\ e \in Entries /\ e \in DOMAIN b.ledger /\ e.type = type /\ e.order = o
         /\ e.user = Owner[o] /\ Owner[o] \in Users /\ e.points \in Int \ {0}
         /\ type \in OrderTypes
         /\ e = Entry(Owner[o], type, o, e.points)
<1>1. e \in Entries /\ e \in DOMAIN b.ledger /\ e.type = type /\ e.order = o
  BY DEF GoodLedger, Filed
<1>2. o # NoOrder /\ Owner[o] \in Users
  BY LoyaltyAssumption
<1>3. e.user = Owner[o] /\ e.points \in Int \ {0}
  BY <1>1, <1>2 DEF Entries
<1>4. type \in OrderTypes
  BY <1>1, <1>2 DEF Entries, OfNoOrder, Types, OrderTypes
<1>5. e = Entry(Owner[o], type, o, e.points)
  BY <1>1, <1>3 DEF Entries, Entry
<1> QED
  BY <1>1, <1>2, <1>3, <1>4, <1>5

\* A movement of an order that its checks let through is one of the ledger.
LEMMA OrderEntry ==
  ASSUME NEW o \in Orders, NEW type \in OrderTypes, NEW points \in Int \ {0}
  PROVE  LET e == Entry(Owner[o], type, o, points)
         IN  /\ e \in Entries /\ e.user = Owner[o] /\ e.type = type
             /\ e.order = o /\ e.points = points
<1>1. o # NoOrder /\ Owner[o] \in Users
  BY LoyaltyAssumption
<1>2. type \in Types /\ type \notin OfNoOrder
  BY DEF OrderTypes, OfNoOrder, Types
<1> QED
  BY <1>1, <1>2 DEF Entries, Entry

\* The lots that a checkout holds still have in c what they had in b.
LotsKept(b, c, p) ==
    \A k \in held[p] :
        /\ k \in DOMAIN c.lots[Owner[p]]
        /\ c.lots[Owner[p]][k].remaining = b.lots[Owner[p]][k].remaining

\* A lot more leaves the lots there were where they are.
LEMMA AppendKeepsLots ==
  ASSUME NEW b, GoodBooks(b), NEW u \in Users, NEW lot, NEW c,
         c.lots[u] = Append(b.lots[u], lot),
         \A v \in Users : v # u => c.lots[v] = b.lots[v],
         NEW p \in Orders, Reserved(b, p)
  PROVE  LotsKept(b, c, p)
<1>1. held[p] \subseteq DOMAIN b.lots[Owner[p]] /\ Owner[p] \in Users
  BY LoyaltyAssumption DEF Reserved
<1>2. CASE Owner[p] # u
  BY <1>1, <1>2 DEF LotsKept
<1>3. CASE Owner[p] = u
  <2> DEFINE old == b.lots[u]
  <2>1. old \in Seq(LotRows)
    BY DEF GoodBooks
  <2> HIDE DEF old
  <2>2. \A k \in DOMAIN old : k \in DOMAIN Append(old, lot) /\ Append(old, lot)[k] = old[k]
    BY <2>1
  <2> QED
    BY <1>1, <1>3, <2>2 DEF LotsKept, old
<1> QED
  BY <1>2, <1>3

\* A first movement that adds points to the ones an order has, and its effect.
LEMMA FirstCredit ==
  ASSUME NEW b, GoodBooks(b), Once(b), NEW o \in Orders, NEW type \in OrderTypes,
         NEW points \in Nat \ {0}, Filed(b, type, o) = {}
  PROVE  LET e == Entry(Owner[o], type, o, points)
             c == Credit(b, e, Ends(FALSE))
         IN  /\ GoodBooks(c) /\ Once(c) /\ SameBonuses(b, c)
             /\ Filed(c, type, o) = {e}
             /\ \A t, p : t # type \/ p # o => Filed(c, t, p) = Filed(b, t, p)
             /\ \A p \in Orders : Reserved(b, p) => LotsKept(b, c, p)
<1> DEFINE e == Entry(Owner[o], type, o, points)
           c == Credit(b, e, Ends(FALSE))
           lot == [original |-> e.points, remaining |-> e.points, ends |-> Ends(FALSE)]
<1>1. /\ e \in Entries /\ e.user = Owner[o] /\ e.type = type /\ e.order = o /\ e.points > 0
      /\ Owner[o] \in Users
  <2>1. points \in Int \ {0} /\ points > 0
    OBVIOUS
  <2> QED
    BY <2>1, OrderEntry, LoyaltyAssumption
<1>2. Ends(FALSE) \in {"never", "later", "past"}
  BY DEF Ends
<1> HIDE DEF e
<1>3. /\ GoodBooks(c) /\ Posted(b, e, c)
      /\ c.lots[e.user] = Append(b.lots[e.user], lot)
      /\ \A u \in Users : u # e.user => c.lots[u] = b.lots[u]
  BY <1>1, <1>2, CreditKeeps
<1> HIDE DEF c, lot
<1>4. /\ Once(c) /\ SameBonuses(b, c) /\ Filed(c, type, o) = {e}
      /\ \A t, p : t # type \/ p # o => Filed(c, t, p) = Filed(b, t, p)
  <2>1. e.order \in Orders /\ Filed(b, e.type, e.order) = {}
    BY <1>1
  <2>2. /\ Once(c) /\ SameBonuses(b, c) /\ Filed(c, e.type, e.order) = {e}
        /\ \A t, p : t # e.type \/ p # e.order => Filed(c, t, p) = Filed(b, t, p)
    BY <1>3, <2>1, FirstOfItsType
  <2> QED
    BY <1>1, <2>2
<1>5. \A p \in Orders : Reserved(b, p) => LotsKept(b, c, p)
  BY <1>1, <1>3, AppendKeepsLots
<1> QED
  BY <1>3, <1>4, <1>5 DEF c, e

\* A first movement that takes points from the customer of an order, and its effect.
LEMMA FirstDebit ==
  ASSUME NEW b, GoodBooks(b), Once(b), NEW o \in Orders, NEW type \in OrderTypes,
         NEW points \in Int, points < 0, Filed(b, type, o) = {}
  PROVE  LET e == Entry(Owner[o], type, o, points)
             c == Debit(b, e)
         IN  /\ GoodBooks(c) /\ Once(c) /\ SameBonuses(b, c)
             /\ Filed(c, type, o) = {e}
             /\ \A t, p : t # type \/ p # o => Filed(c, t, p) = Filed(b, t, p)
             /\ DOMAIN c.lots[Owner[o]] = DOMAIN b.lots[Owner[o]]
             /\ \A u \in Users : u # Owner[o] => c.lots[u] = b.lots[u]
             /\ -points <= Spendable(b, Owner[o]) =>
                   Spendable(c, Owner[o]) = Spendable(b, Owner[o]) + points
<1> DEFINE e == Entry(Owner[o], type, o, points)
           c == Debit(b, e)
<1>1. /\ e \in Entries /\ e.user = Owner[o] /\ e.type = type /\ e.order = o
      /\ e.points = points /\ e.points < 0
  <2>1. points \in Int \ {0}
    OBVIOUS
  <2> QED
    BY <2>1, OrderEntry
<1> HIDE DEF e
<1>2. /\ GoodBooks(c) /\ Posted(b, e, c)
      /\ DOMAIN c.lots[e.user] = DOMAIN b.lots[e.user]
      /\ \A u \in Users : u # e.user => c.lots[u] = b.lots[u]
      /\ -e.points <= Spendable(b, e.user) =>
            Spendable(c, e.user) = Spendable(b, e.user) + e.points
  BY <1>1, DebitKeeps
<1> HIDE DEF c
<1>3. /\ Once(c) /\ SameBonuses(b, c) /\ Filed(c, type, o) = {e}
      /\ \A t, p : t # type \/ p # o => Filed(c, t, p) = Filed(b, t, p)
  <2>1. e.order \in Orders /\ Filed(b, e.type, e.order) = {}
    BY <1>1
  <2>2. /\ Once(c) /\ SameBonuses(b, c) /\ Filed(c, e.type, e.order) = {e}
        /\ \A t, p : t # e.type \/ p # e.order => Filed(c, t, p) = Filed(b, t, p)
    BY <1>2, <2>1, FirstOfItsType
  <2> QED
    BY <1>1, <2>2
<1> QED
  BY <1>1, <1>2, <1>3 DEF c, e

\* What is given back of a redemption, once.
LEMMA Restored ==
  ASSUME NEW b, GoodBooks(b), Once(b), NEW o \in Orders, Opposite(b, o)
  PROVE  LET c == RestoreRedeemed(b, o)
         IN  /\ GoodBooks(c) /\ Once(c) /\ SameBonuses(b, c) /\ Opposite(c, o)
             /\ \A t, p : t # "redemption_reversal" \/ p # o => Filed(c, t, p) = Filed(b, t, p)
             /\ Filed(c, "redeemed", o) # {} => Filed(c, "redemption_reversal", o) # {}
             /\ \A p \in Orders : Reserved(b, p) => LotsKept(b, c, p)
<1> DEFINE redeemed == Filed(b, "redeemed", o)
           c == RestoreRedeemed(b, o)
<1>0. GoodLedger(b.ledger)
  BY DEF GoodBooks
<1>1. CASE redeemed = {} \/ Filed(b, "redemption_reversal", o) # {}
  <2>1. c = b
    BY <1>1 DEF RestoreRedeemed, RestoreIf
  <2>2. SameBonuses(b, b) /\ \A p \in Orders : Reserved(b, p) => LotsKept(b, b, p)
    BY DEF SameBonuses, LotsKept, Reserved
  <2> HIDE DEF c
  <2> QED
    BY <1>1, <2>1, <2>2 DEF c
<1>2. CASE redeemed # {} /\ Filed(b, "redemption_reversal", o) = {}
  <2> DEFINE r == CHOOSE r \in redeemed : TRUE
             n == -r.points
             e == Entry(r.user, "redemption_reversal", o, n)
  <2>1. r \in redeemed
    BY <1>2
  <2>2. c = Credit(b, e, Ends(FALSE))
    BY <1>2 DEF RestoreRedeemed, RestoreIf
  <2>3. r.user = Owner[o] /\ r.points \in Int \ {0}
    <3> HIDE DEF r
    <3> QED
      BY <1>0, <2>1, FiledEntry
  <2>4. r.points < 0
    <3> HIDE DEF r
    <3> QED
      BY <2>1 DEF Opposite
  <2>5. n \in Nat \ {0} /\ "redemption_reversal" \in OrderTypes
    BY <2>3, <2>4 DEF OrderTypes
  <2> HIDE DEF r, c, n
  <2>6. e = Entry(Owner[o], "redemption_reversal", o, n) /\ e.points = n
    BY <2>3 DEF Entry
  <2> HIDE DEF e
  <2>7. /\ GoodBooks(c) /\ Once(c) /\ SameBonuses(b, c)
        /\ Filed(c, "redemption_reversal", o) = {e}
        /\ \A t, p : t # "redemption_reversal" \/ p # o => Filed(c, t, p) = Filed(b, t, p)
        /\ \A p \in Orders : Reserved(b, p) => LotsKept(b, c, p)
    <3> DEFINE given == Entry(Owner[o], "redemption_reversal", o, n)
               after == Credit(b, given, Ends(FALSE))
    <3>1. /\ GoodBooks(after) /\ Once(after) /\ SameBonuses(b, after)
          /\ Filed(after, "redemption_reversal", o) = {given}
          /\ \A t, p : t # "redemption_reversal" \/ p # o => Filed(after, t, p) = Filed(b, t, p)
          /\ \A p \in Orders : Reserved(b, p) => LotsKept(b, after, p)
      BY <1>2, <2>5, FirstCredit
    <3> HIDE DEF after
    <3>2. after = c /\ given = e
      BY <2>2, <2>6 DEF after
    <3> QED
      BY <3>1, <3>2
  <2>8. Opposite(c, o)
    <3>1. /\ Filed(c, "redeemed", o) = redeemed
          /\ Filed(c, "earned_reversal", o) = Filed(b, "earned_reversal", o)
          /\ Filed(c, "order_delivered", o) = Filed(b, "order_delivered", o)
      BY <2>7
    <3> HIDE DEF redeemed
    <3>2. \A x \in Filed(c, "redemption_reversal", o) :
             \E f \in Filed(c, "redeemed", o) : x.points = -f.points
      BY <2>1, <2>6, <2>7, <3>1 DEF n
    <3> QED
      BY <3>1, <3>2 DEF Opposite, redeemed
  <2> QED
    BY <2>7, <2>8 DEF c
<1> QED
  BY <1>1, <1>2

\* What is taken back of what an order earned, once.
LEMMA Reversed ==
  ASSUME NEW b, GoodBooks(b), Once(b), NEW o \in Orders, Opposite(b, o)
  PROVE  LET c == ReverseEarned(b, o)
         IN  /\ GoodBooks(c) /\ Once(c) /\ SameBonuses(b, c) /\ Opposite(c, o)
             /\ \A t, p : t # "earned_reversal" \/ p # o => Filed(c, t, p) = Filed(b, t, p)
             /\ \A u \in Users : u # Owner[o] => c.lots[u] = b.lots[u]
             /\ ~OwesEarned(b, o) => c = b
<1> DEFINE delivered == Filed(b, "order_delivered", o)
           c == ReverseEarned(b, o)
<1>0. GoodLedger(b.ledger)
  BY DEF GoodBooks
<1>1. CASE ~OwesEarned(b, o)
  <2>1. c = b
    BY <1>1 DEF ReverseEarned, ReverseBy
  <2>2. SameBonuses(b, b)
    BY DEF SameBonuses
  <2> HIDE DEF c
  <2> QED
    BY <1>1, <2>1, <2>2 DEF c
<1>2. CASE OwesEarned(b, o)
  <2> DEFINE d == CHOOSE d \in delivered : TRUE
             n == -d.points
             e == Entry(d.user, "earned_reversal", o, n)
  <2>0. delivered # {} /\ Filed(b, "earned_reversal", o) = {}
    BY <1>2 DEF OwesEarned
  <2>1. d \in delivered
    BY <2>0
  <2>2. c = Debit(b, e)
    BY <1>2 DEF ReverseEarned, ReverseBy
  <2>3. d.user = Owner[o] /\ d.points \in Int \ {0}
    <3> HIDE DEF d
    <3> QED
      BY <1>0, <2>1, FiledEntry
  <2>4. d.points > 0
    <3> HIDE DEF d
    <3> QED
      BY <2>1 DEF Opposite
  <2>5. n \in Int /\ n < 0 /\ "earned_reversal" \in OrderTypes
    BY <2>3, <2>4 DEF OrderTypes
  <2> HIDE DEF d, c, n
  <2>6. e = Entry(Owner[o], "earned_reversal", o, n) /\ e.points = n
    BY <2>3 DEF Entry
  <2> HIDE DEF e
  <2>7. /\ GoodBooks(c) /\ Once(c) /\ SameBonuses(b, c)
        /\ Filed(c, "earned_reversal", o) = {e}
        /\ \A t, p : t # "earned_reversal" \/ p # o => Filed(c, t, p) = Filed(b, t, p)
        /\ \A u \in Users : u # Owner[o] => c.lots[u] = b.lots[u]
    BY <2>0, <2>2, <2>5, <2>6, FirstDebit
  <2>8. Opposite(c, o)
    <3>1. /\ Filed(c, "redeemed", o) = Filed(b, "redeemed", o)
          /\ Filed(c, "redemption_reversal", o) = Filed(b, "redemption_reversal", o)
          /\ Filed(c, "order_delivered", o) = delivered
      BY <2>7
    <3> HIDE DEF delivered
    <3>2. \A x \in Filed(c, "earned_reversal", o) :
             \E f \in Filed(c, "order_delivered", o) : x.points = -f.points
      BY <2>1, <2>6, <2>7, <3>1 DEF n
    <3> QED
      BY <3>1, <3>2 DEF Opposite, delivered
  <2> QED
    BY <1>2, <2>7, <2>8 DEF c
<1> QED
  BY <1>1, <1>2

\* What a cancellation or a refund does to the points of an order.
LEMMA Undone ==
  ASSUME NEW b, GoodBooks(b), Once(b), NEW o \in Orders,
         \A p \in Orders : Opposite(b, p) /\ Reserved(b, p),
         OwesEarned(b, o) => LotsFree(Owner[o])
  PROVE  LET c == ReverseEarned(RestoreRedeemed(b, o), o)
         IN  /\ GoodBooks(c) /\ Once(c) /\ SameBonuses(b, c)
             /\ \A p \in Orders : Opposite(c, p) /\ LotsKept(b, c, p)
             /\ \A t, p : t \in {"redeemed", "order_delivered"} \/ p # o =>
                    Filed(c, t, p) = Filed(b, t, p)
             /\ Filed(c, "redeemed", o) # {} => Filed(c, "redemption_reversal", o) # {}
<1> DEFINE a == RestoreRedeemed(b, o)
           c == ReverseEarned(a, o)
<1>1. /\ GoodBooks(a) /\ Once(a) /\ SameBonuses(b, a) /\ Opposite(a, o)
      /\ \A t, p : t # "redemption_reversal" \/ p # o => Filed(a, t, p) = Filed(b, t, p)
      /\ Filed(a, "redeemed", o) # {} => Filed(a, "redemption_reversal", o) # {}
      /\ \A p \in Orders : LotsKept(b, a, p)
  BY Restored
<1> HIDE DEF a
<1>2. /\ GoodBooks(c) /\ Once(c) /\ SameBonuses(a, c) /\ Opposite(c, o)
      /\ \A t, p : t # "earned_reversal" \/ p # o => Filed(c, t, p) = Filed(a, t, p)
      /\ \A u \in Users : u # Owner[o] => c.lots[u] = a.lots[u]
      /\ ~OwesEarned(a, o) => c = a
  BY <1>1, Reversed
<1> HIDE DEF c
<1>3. SameBonuses(b, c)
  BY <1>1, <1>2 DEF SameBonuses
<1>4. \A t, p : t \in {"redeemed", "order_delivered"} \/ p # o => Filed(c, t, p) = Filed(b, t, p)
  BY <1>1, <1>2
<1>5. Filed(c, "redeemed", o) # {} => Filed(c, "redemption_reversal", o) # {}
  BY <1>1, <1>2
<1>6. ASSUME NEW p \in Orders PROVE Opposite(c, p)
  <2>1. CASE p = o
    BY <1>2, <2>1
  <2>2. CASE p # o
    <3>1. \A t \in OrderTypes : Filed(c, t, p) = Filed(b, t, p)
      BY <1>4, <2>2
    <3> QED
      BY <3>1, SameOpposite DEF OrderTypes
  <2> QED
    BY <2>1, <2>2
<1>7. ASSUME NEW p \in Orders PROVE LotsKept(b, c, p)
  <2>1. OwesEarned(a, o) <=> OwesEarned(b, o)
    BY <1>1 DEF OwesEarned
  <2>2. CASE ~OwesEarned(a, o)
    BY <1>1, <1>2, <2>2
  <2>3. CASE OwesEarned(a, o) /\ Owner[p] = Owner[o]
    BY <2>1, <2>3 DEF LotsFree, LotsKept
  <2>4. CASE Owner[p] # Owner[o]
    <3>1. c.lots[Owner[p]] = a.lots[Owner[p]]
      BY <1>2, <2>4, LoyaltyAssumption
    <3> QED
      BY <1>1, <3>1 DEF LotsKept
  <2> QED
    BY <2>2, <2>3, <2>4
<1> QED
  BY <1>2, <1>3, <1>4, <1>5, <1>6, <1>7 DEF c, a

\* The points of a checkout's redemption stay reserved while what it holds is kept.
LEMMA StillReserved ==
  ASSUME NEW b, NEW c, GoodBooks(b), GoodBooks(c), NEW p \in Orders,
         Reserved(b, p), LotsKept(b, c, p)
  PROVE  Reserved(c, p)
<1> DEFINE u == Owner[p]
<1>1. u \in Users /\ b.lots[u] \in Seq(LotRows) /\ c.lots[u] \in Seq(LotRows)
  BY LoyaltyAssumption DEF GoodBooks
<1>2. held[p] \in SUBSET DOMAIN b.lots[u] /\ held[p] \in SUBSET DOMAIN c.lots[u]
  BY DEF Reserved, LotsKept
<1>3. Left!IsFiniteSet(held[p])
  BY <1>1, <1>2, LotsSum, SameFinite
<1>4. \A k \in held[p] : LeftIn(c.lots[u], k) = LeftIn(b.lots[u], k)
  BY DEF LotsKept, LeftIn
<1>5. Left!Sum(c.lots[u], held[p]) = Left!Sum(b.lots[u], held[p])
  BY <1>3, <1>4, LeftAdds, Left!SumSame
<1>6. Remaining(c.lots[u], held[p]) = Remaining(b.lots[u], held[p])
  BY <1>5, SumsAreMeant
<1> HIDE DEF u
<1> QED
  BY <1>2, <1>6 DEF Reserved, u

\* What is filed of the orders fits their status while neither moves.
LEMMA SameFiledInv ==
  ASSUME NEW b, GoodLedger(b.ledger), NEW c, GoodLedger(c.ledger), SameOrders(b, c), FiledInv(b)
  PROVE  FiledInv(c)
<1>1. Once(c)
  BY SameFiled DEF FiledInv
<1>2. ASSUME NEW o \in Orders PROVE Opposite(c, o) /\ Filing(c, o, status[o])
  <2>1. \A type \in OrderTypes : Filed(c, type, o) = Filed(b, type, o)
    BY SameFiled
  <2>2. Opposite(b, o) /\ Filing(b, o, status[o])
    BY DEF FiledInv
  <2> QED
    BY <2>1, <2>2, SameOpposite DEF OrderTypes
<1> QED
  BY <1>1, <1>2 DEF FiledInv

\* Referrals that do not move stay paid, if neither bonuses nor deliveries move.
LEMMA SameReferrals ==
  ASSUME GoodBooks(books), ReferralInv, UNCHANGED referral, SameBonuses(books, books'),
         \A o \in Orders : Filed(books, "order_delivered", o) # {} =>
                              Filed(books', "order_delivered", o) # {}
  PROVE  ReferralInv'
<1>1. Points(books'.ledger, BonusesOf(books')) = Points(books.ledger, BonusesOf(books))
  BY SameBonusPoints DEF GoodBooks
<1>2. Rewarded' = Rewarded
  BY DEF Rewarded
<1>3. IsFiniteSet(Rewarded')
  BY <1>2 DEF ReferralInv
<1>4. Points(books'.ledger, BonusesOf(books')) =
        (ReferrerBonus + ReferredBonus) * Cardinality(Rewarded')
  BY <1>1, <1>2 DEF ReferralInv
<1>5. ASSUME NEW u \in Users
      PROVE  /\ referral'[u] # "none" => Referrer[u] \in Users
             /\ referral'[u] \in {"qualified", "rewarded"} =>
                   \E o \in Orders : Owner[o] = u /\ Filed(books', "order_delivered", o) # {}
  BY DEF ReferralInv
<1> QED
  BY <1>3, <1>4, <1>5 DEF ReferralInv
-----------------------------------------------------------------------------
(* The expiry of a batch, which is a fold over its lots *)

ExpireOne(c, x, y) == Expire(x, y)
Itself(c, x) == x
Pick(S) == CHOOSE x \in S : TRUE
Expired == INSTANCE FoldFacts WITH op <- ExpireOne, map <- Itself, choose <- Pick

\* A batch's expiry is a fold, so that the facts about folds apply.
LEMMA ExpiryIsFold ==
  ASSUME NEW b, NEW S
  PROVE  FoldSet(Expire, b, S) = Expired!Fold(0, b, S)
BY DEF FoldSet, MapThenFoldSet, Expired!Fold, Expired!MapThenFoldSet, ExpireOne, Itself, Pick

\* There are finitely many lots.
LEMMA LotsAreFinite ==
  ASSUME NEW b, GoodBooks(b)
  PROVE  IsFiniteSet(Lots(b))
<1> DEFINE U == HasLots(b)
           Of(u) == {u} \X DOMAIN b.lots[u]
           All(V) == UNION {Of(u) : u \in V}
           T == {V \in SUBSET U : ~IsFiniteSet(All(V))}
<1>1. IsFiniteSet(U) /\ \A u \in Users : b.lots[u] \in Seq(LotRows)
  BY DEF GoodBooks
<1>2. ASSUME NEW u \in U PROVE IsFiniteSet(Of(u))
  <2>1. b.lots[u] \in Seq(LotRows)
    BY <1>1 DEF HasLots
  <2>2. IsFiniteSet(DOMAIN b.lots[u])
    BY <2>1, LotsSum
  <2>3. IsFiniteSet({u})
    BY FS_Singleton
  <2> QED
    BY <2>2, <2>3, FS_Product
<1>3. T = {}
  <2> SUFFICES ASSUME T # {} PROVE FALSE
    OBVIOUS
  <2>1. T \subseteq SUBSET U
    OBVIOUS
  <2>2. PICK V \in T : \A W \in T : W \subseteq V => W = V
    <3> HIDE DEF T
    <3>1. Expired!IsFiniteSet(U)
      BY <1>1 DEF IsFiniteSet, Expired!IsFiniteSet
    <3> HIDE DEF U
    <3> QED
      BY <2>1, <3>1, Expired!SmallestSubset
  <2>3. V # {}
    <3>1. All({}) = {}
      OBVIOUS
    <3> HIDE DEF All
    <3> QED
      BY <3>1, FS_EmptySet
  <2>4. PICK u \in V : TRUE
    BY <2>3
  <2>5. IsFiniteSet(All(V \ {u}))
    <3> DEFINE W == V \ {u}
    <3>1. W \in SUBSET U /\ W \subseteq V /\ W # V
      BY <2>1, <2>4
    <3> HIDE DEF All, W, U
    <3>2. W \notin T
      <4> HIDE DEF T
      <4> QED
        BY <2>2, <3>1
    <3>3. IsFiniteSet(All(W))
      BY <3>1, <3>2
    <3> QED
      BY <3>3 DEF W
  <2>6. All(V) = All(V \ {u}) \cup Of(u)
    BY <2>4
  <2>7. IsFiniteSet(Of(u))
    BY <1>2, <2>1, <2>4
  <2> HIDE DEF All, Of
  <2>8. IsFiniteSet(All(V))
    <3>1. IsFiniteSet(All(V \ {u}) \cup Of(u))
      BY ONLY <2>5, <2>7, FS_Union
    <3> QED
      BY ONLY <2>6, <3>1
  <2> QED
    BY <2>2, <2>8
<1>4. Lots(b) \subseteq All(U)
  <2> SUFFICES ASSUME NEW u \in Users, NEW x \in {u} \X DOMAIN b.lots[u]
               PROVE  x \in All(U)
    BY DEF Lots
  <2>1. b.lots[u] # <<>>
    <3>1. x[2] \in DOMAIN b.lots[u]
      OBVIOUS
    <3> QED
      BY <3>1
  <2>2. u \in U /\ x \in Of(u)
    BY <2>1 DEF HasLots
  <2> QED
    BY <2>2
<1>5. IsFiniteSet(All(U))
  BY <1>3
<1> HIDE DEF All
<1> QED
  BY <1>4, <1>5, FS_Subset

\* Lots whose time has passed while they had something left.
Due(b) == {lot \in Lots(b) : Lot(b, lot[1], lot[2]).ends = "past"
                             /\ Lot(b, lot[1], lot[2]).remaining > 0}

\* Books c differ from books b by expiries of lots in S.
ExpiredFrom(b, c, S) ==
    /\ GoodBooks(c) /\ SameOrders(b, c) /\ SameBonuses(b, c)
    /\ \A v \in Users : DOMAIN c.lots[v] = DOMAIN b.lots[v]
    /\ \A v \in Users : \A j \in DOMAIN b.lots[v] : <<v, j>> \notin S => c.lots[v][j] = b.lots[v][j]

\* One expiry more.
LEMMA OneExpiry ==
  ASSUME NEW b, GoodBooks(b), NEW S, NEW a, ExpiredFrom(b, a, S),
         NEW lot \in Due(b), lot \notin S
  PROVE  ExpiredFrom(b, Expire(lot, a), S \cup {lot})
<1>1. PICK u \in Users : \E k \in DOMAIN b.lots[u] : lot = <<u, k>>
  BY DEF Due, Lots
<1>k. PICK k \in DOMAIN b.lots[u] : lot = <<u, k>>
  BY <1>1
<1>2. b.lots[u][k].ends = "past" /\ b.lots[u][k].remaining > 0
  BY <1>k DEF Due, Lot
<1>3. a.lots[u][k] = b.lots[u][k] /\ k \in DOMAIN a.lots[u] /\ GoodBooks(a)
  BY <1>k DEF ExpiredFrom
<1> DEFINE e == Entry(u, "expired", NoOrder, -a.lots[u][k].remaining)
           c == Expire(<<u, k>>, a)
<1>4. /\ GoodBooks(c) /\ Posted(a, e, c)
      /\ \A v \in Users : DOMAIN c.lots[v] = DOMAIN a.lots[v]
      /\ \A v \in Users : \A j \in DOMAIN a.lots[v] :
            <<v, j>> # <<u, k>> => c.lots[v][j] = a.lots[v][j]
  BY <1>2, <1>3, ExpireKeeps
<1> HIDE DEF c
<1>5. e.order = NoOrder /\ e.type = "expired"
  BY DEF Entry
<1> HIDE DEF e
<1>6. SameOrders(a, c) /\ SameBonuses(a, c)
  BY <1>4, <1>5, NoOrderPosted, NoBonusPosted
<1>7. SameOrders(b, c) /\ SameBonuses(b, c)
  <2>1. SameOrders(b, a) /\ SameBonuses(b, a)
    BY DEF ExpiredFrom
  <2>2. SameOrders(b, c)
    BY <1>6, <2>1 DEF SameOrders
  <2>3. SameBonuses(b, c)
    BY <1>6, <2>1 DEF SameBonuses
  <2> QED
    BY <2>2, <2>3
<1>8. \A v \in Users : DOMAIN c.lots[v] = DOMAIN b.lots[v]
  BY <1>4 DEF ExpiredFrom
<1>9. ASSUME NEW v \in Users, NEW j \in DOMAIN b.lots[v], <<v, j>> \notin S \cup {lot}
      PROVE  c.lots[v][j] = b.lots[v][j]
  <2>1. a.lots[v][j] = b.lots[v][j] /\ j \in DOMAIN a.lots[v] /\ <<v, j>> # <<u, k>>
    BY <1>k, <1>9 DEF ExpiredFrom
  <2> QED
    BY <1>4, <2>1
<1> QED
  BY <1>k, <1>4, <1>7, <1>8, <1>9 DEF ExpiredFrom, c

\* Whatever the batch, and in whatever order its lots are taken.
LEMMA BatchExpired ==
  ASSUME NEW b, GoodBooks(b), NEW batch \in SUBSET Due(b)
  PROVE  ExpiredFrom(b, FoldSet(Expire, b, batch), batch)
<1> DEFINE After(s) == Expired!Fold(0, b, s)
           Good(s) == ExpiredFrom(b, After(s), s)
           T == {s \in SUBSET batch : ~Good(s)}
<1>1. IsFiniteSet(batch)
  <2>1. batch \subseteq Lots(b)
    BY DEF Due
  <2> QED
    BY <2>1, LotsAreFinite, FS_Subset
<1>2. T = {}
  <2> SUFFICES ASSUME T # {} PROVE FALSE
    OBVIOUS
  <2>1. T \subseteq SUBSET batch
    OBVIOUS
  <2>2. PICK s \in T : \A t \in T : t \subseteq s => t = s
    <3> HIDE DEF T
    <3>1. Expired!IsFiniteSet(batch)
      BY <1>1 DEF IsFiniteSet, Expired!IsFiniteSet
    <3> QED
      BY <2>1, <3>1, Expired!SmallestSubset
  <2>3. Good({})
    <3>1. After({}) = b
      BY Expired!FoldEmpty
    <3> HIDE DEF After
    <3> QED
      BY <3>1 DEF ExpiredFrom, SameOrders, SameBonuses
  <2>4. s # {} /\ s \in SUBSET batch /\ ~Good(s)
    BY <2>3
  <2> DEFINE lot == Pick(s)  r == s \ {lot}
  <2>5. lot \in s /\ Expired!Picks(s) /\ Expired!IsFiniteSet(s)
    <3>1. Expired!Picks(s)
      BY DEF Expired!Picks, Pick
    <3>2. IsFiniteSet(s)
      BY <1>1, <2>4, FS_Subset
    <3> QED
      BY <2>4, <3>1, <3>2 DEF Pick, IsFiniteSet, Expired!IsFiniteSet
  <2>6. After(s) = Expire(lot, After(r))
    <3>1. After(s) = ExpireOne(0, Itself(0, Pick(s)), Expired!Fold(0, b, s \ {Pick(s)}))
      BY <2>4, <2>5, Expired!FoldUnfold
    <3> QED
      BY <3>1 DEF ExpireOne, Itself
  <2> HIDE DEF lot
  <2>7. r \in SUBSET batch /\ r \cup {lot} = s /\ lot \notin r /\ lot \in Due(b)
    BY <2>4, <2>5
  <2>8. Good(r)
    BY <2>2, <2>5, <2>7
  <2> HIDE DEF After
  <2>9. Good(r \cup {lot})
    BY <2>6, <2>7, <2>8, OneExpiry
  <2> QED
    BY <2>4, <2>7, <2>9
<1>3. Good(batch)
  BY <1>2
<1> HIDE DEF After
<1> QED
  BY <1>3, ExpiryIsFold DEF After
-----------------------------------------------------------------------------
(* Credits that belong to no order *)

\* A positive movement of no order, and its effect.
LEMMA PlainCredit ==
  ASSUME NEW b, GoodBooks(b), NEW u \in Users, NEW type \in OfNoOrder,
         NEW points \in Nat \ {0}, NEW ends \in {"never", "later", "past"}
  PROVE  LET e == Entry(u, type, NoOrder, points)
             c == Credit(b, e, ends)
         IN  /\ GoodBooks(c) /\ SameOrders(b, c) /\ Posted(b, e, c)
             /\ e.type = type /\ e.points = points
             /\ \A p \in Orders : Reserved(b, p) => LotsKept(b, c, p)
<1> DEFINE e == Entry(u, type, NoOrder, points)
           c == Credit(b, e, ends)
           lot == [original |-> e.points, remaining |-> e.points, ends |-> ends]
<1>1. /\ e \in Entries /\ e.user = u /\ e.type = type /\ e.order = NoOrder
      /\ e.points = points /\ e.points > 0
  BY DEF Entries, Entry, OfNoOrder, Types
<1> HIDE DEF e
<1>2. /\ GoodBooks(c) /\ Posted(b, e, c)
      /\ c.lots[e.user] = Append(b.lots[e.user], lot)
      /\ \A v \in Users : v # e.user => c.lots[v] = b.lots[v]
  BY <1>1, CreditKeeps
<1> HIDE DEF c, lot
<1>3. SameOrders(b, c)
  BY <1>1, <1>2, NoOrderPosted
<1>4. \A p \in Orders : Reserved(b, p) => LotsKept(b, c, p)
  BY <1>1, <1>2, AppendKeepsLots
<1> QED
  BY <1>1, <1>2, <1>3, <1>4 DEF c, e

\* What a bonus adds to the bonuses.
LEMMA BonusPoints ==
  ASSUME NEW b, NEW e, NEW c, Posted(b, e, c), e.type = "referral_bonus"
  PROVE  Points(c.ledger, BonusesOf(c)) = Points(b.ledger, BonusesOf(b)) + e.points
<1> DEFINE L == b.ledger  M == c.ledger  S == BonusesOf(c)  R == BonusesOf(b)
<1>1. GoodLedger(L) /\ e \in Entries /\ M = L (+) SetToBag({e})
  BY DEF Posted
<1>2. DOMAIN M = DOMAIN L \cup {e}
  BY PostedLedger
<1>3. S \in SUBSET (DOMAIN L \cup {e}) /\ S \cap DOMAIN L = R /\ e \in S
  BY <1>2 DEF BonusesOf
<1> HIDE DEF L, M, S, R
<1>4. /\ Points(L, S \cap DOMAIN L) \in Int
      /\ Points(L (+) SetToBag({e}), S) =
           Points(L, S \cap DOMAIN L) + (IF e \in S THEN e.points ELSE 0)
  BY <1>1, <1>3, InsertPoints
<1> QED
  BY <1>1, <1>3, <1>4 DEF L, M, S, R

\* A bonus, of some points or of none.
LEMMA BonusPaid ==
  ASSUME NEW b, GoodBooks(b), NEW u \in Users, NEW points \in Nat
  PROVE  LET c == Bonus(b, u, points)
         IN  /\ GoodBooks(c) /\ SameOrders(b, c)
             /\ Points(b.ledger, BonusesOf(b)) \in Int
             /\ Points(c.ledger, BonusesOf(c)) = Points(b.ledger, BonusesOf(b)) + points
             /\ \A p \in Orders : Reserved(b, p) => LotsKept(b, c, p)
<1> DEFINE e == Entry(u, "referral_bonus", NoOrder, points)
           c == Bonus(b, u, points)
<1>0. Points(b.ledger, BonusesOf(b)) \in Int
  <2>1. GoodLedger(b.ledger) /\ BonusesOf(b) \in SUBSET DOMAIN b.ledger
    BY DEF GoodBooks, BonusesOf
  <2> QED
    BY <2>1, LedgerSum
<1>1. CASE points = 0
  <2>1. c = b
    BY <1>1 DEF Bonus
  <2>2. SameOrders(b, b) /\ \A p \in Orders : Reserved(b, p) => LotsKept(b, b, p)
    BY DEF SameOrders, LotsKept, Reserved
  <2> HIDE DEF c
  <2> QED
    BY <1>0, <1>1, <2>1, <2>2 DEF c
<1>2. CASE points # 0
  <2>1. c = Credit(b, e, Ends(FALSE))
    BY <1>2 DEF Bonus
  <2>2. /\ Ends(FALSE) \in {"never", "later", "past"} /\ points \in Nat \ {0}
        /\ "referral_bonus" \in OfNoOrder
    BY <1>2 DEF Ends, OfNoOrder
  <2> DEFINE ends == Ends(FALSE)  d == Credit(b, e, ends)
  <2>3. /\ GoodBooks(d) /\ SameOrders(b, d) /\ Posted(b, e, d)
        /\ e.type = "referral_bonus" /\ e.points = points
        /\ \A p \in Orders : Reserved(b, p) => LotsKept(b, d, p)
    <3> HIDE DEF ends
    <3>1. ends \in {"never", "later", "past"}
      BY <2>2 DEF ends
    <3> QED
      BY <2>2, <3>1, PlainCredit
  <2> HIDE DEF e, c
  <2>4. /\ GoodBooks(c) /\ SameOrders(b, c) /\ Posted(b, e, c)
        /\ e.type = "referral_bonus" /\ e.points = points
        /\ \A p \in Orders : Reserved(b, p) => LotsKept(b, c, p)
    BY <2>1, <2>3
  <2>5. Points(c.ledger, BonusesOf(c)) = Points(b.ledger, BonusesOf(b)) + e.points
    BY <2>4, BonusPoints
  <2> QED
    BY <1>0, <2>4, <2>5 DEF c
<1> QED
  BY <1>1, <1>2
-----------------------------------------------------------------------------
(* Each step keeps the invariant *)

\* Nothing has been moved yet.
LEMMA InitInv == Init => IInv
<1> SUFFICES ASSUME Init PROVE IInv
  OBVIOUS
<1> USE DEF Init
<1>1. StateTypes
  BY LoyaltyAssumption DEF StateTypes
<1>2. books = NoBooks /\ DOMAIN books.ledger = {}
  BY DEF NoBooks, EmptyBag, SetToBag
<1>3. GoodBooks(books)
  <2>1. /\ books = [ledger |-> books.ledger, lots |-> books.lots, unmet |-> books.unmet]
        /\ books.lots = [u \in Users |-> <<>>] /\ books.unmet = [u \in Users |-> 0]
        /\ books.ledger = [x \in {} |-> books.ledger[x]]
    BY <1>2 DEF NoBooks, EmptyBag, SetToBag
  <2>2. GoodLedger(books.ledger)
    BY <1>2, <2>1, FS_EmptySet DEF GoodLedger
  <2>3. HasLots(books) = {} /\ IsFiniteSet(HasLots(books))
    <3>1. HasLots(books) = {}
      BY <2>1 DEF HasLots
    <3> QED
      BY <3>1, FS_EmptySet
  <2>4. books.lots \in [Users -> Seq(LotRows)] /\ books.unmet \in [Users -> Nat]
    BY <2>1
  <2>5. ASSUME NEW u \in Users PROVE InOrder(books.lots[u]) /\ Agree(books, u)
    <3>1. books.lots[u] = <<>> /\ DOMAIN books.lots[u] = {} /\ books.unmet[u] = 0
      BY <2>1
    <3>2. {x \in DOMAIN books.ledger : x.user = u} = {}
      BY <1>2
    <3>3. Spendable(books, u) = 0
      BY <3>1, Left!SumEmpty, SumsAreMeant DEF Spendable
    <3>4. Balance(books, u) = 0
      BY <3>2, Moved!SumEmpty, SumsAreMeant DEF Balance
    <3> QED
      BY <3>1, <3>3, <3>4 DEF InOrder, Agree
  <2> QED
    BY <2>1, <2>2, <2>3, <2>4, <2>5 DEF GoodBooks
<1>4. FiledInv(books)
  <2>1. \A type, o : Filed(books, type, o) = {}
    BY <1>2 DEF Filed
  <2> QED
    BY <1>2, <2>1 DEF FiledInv, Once, Opposite, Filing
<1>5. \A o \in Orders : Reserved(books, o)
  BY DEF Reserved
<1>6. Alone
  BY DEF Alone
<1>7. ReferralInv
  <2>1. Rewarded = {} /\ IsFiniteSet(Rewarded) /\ Cardinality(Rewarded) = 0
    <3>1. Rewarded = {}
      BY DEF Rewarded
    <3> QED
      BY <3>1, FS_EmptySet
  <2>2. Points(books.ledger, BonusesOf(books)) = 0
    <3>1. BonusesOf(books) = {}
      BY <1>2 DEF BonusesOf
    <3> QED
      BY <3>1, Moved!SumEmpty, SumsAreMeant
  <2>3. (ReferrerBonus + ReferredBonus) * 0 = 0
    BY LoyaltyAssumption
  <2>4. \A u \in Users : /\ referral[u] # "none" => Referrer[u] \in Users
                         /\ referral[u] \notin {"qualified", "rewarded"}
    BY LoyaltyAssumption
  <2> QED
    BY <2>1, <2>2, <2>3, <2>4 DEF ReferralInv
<1> QED
  BY <1>1, <1>3, <1>4, <1>5, <1>6, <1>7 DEF IInv

\* A step of the books alone that keeps what is held, what orders have and bonuses.
LEMMA BooksMove ==
  ASSUME IInv, StateTypes', GoodBooks(books'), SameOrders(books, books'),
         SameBonuses(books, books'), \A p \in Orders : LotsKept(books, books', p),
         UNCHANGED <<status, redemption, held, referral>>
  PROVE  IInv'
<1>1. /\ GoodBooks(books) /\ FiledInv(books) /\ Alone /\ ReferralInv
      /\ \A p \in Orders : Reserved(books, p)
  BY DEF IInv
<1>2. GoodLedger(books.ledger) /\ GoodLedger(books'.ledger)
  BY <1>1 DEF GoodBooks
<1>3. FiledInv(books')
  BY <1>1, <1>2, SameFiledInv
<1>4. ASSUME NEW p \in Orders PROVE Reserved(books', p)
  BY <1>1, StillReserved
<1>5. ReferralInv'
  <2>1. \A o \in Orders : Filed(books', "order_delivered", o) = Filed(books, "order_delivered", o)
    BY <1>2, SameFiled
  <2> QED
    BY <1>1, <2>1, SameReferrals
<1>6. FiledInv(books)'
  BY <1>3 DEF FiledInv
<1>7. \A p \in Orders : Reserved(books, p)'
  BY <1>4 DEF Reserved
<1>8. Alone'
  BY <1>1 DEF Alone
<1>9. GoodBooks(books)'
  OBVIOUS
<1> QED
  BY <1>5, <1>6, <1>7, <1>8, <1>9 DEF IInv

\* A manual credit.
LEMMA AdjustUpInv ==
  ASSUME IInv, NEW u \in Users, NEW points \in Amounts, NEW neverExpires \in BOOLEAN,
         AdjustUp(u, points, neverExpires)
  PROVE  IInv'
<1> DEFINE e == Entry(u, "manual_adjustment", NoOrder, points)
           ends == Ends(neverExpires)
           c == Credit(books, e, ends)
<1>1. books' = c /\ UNCHANGED <<status, redemption, held, referral, deduction>>
  BY DEF AdjustUp
<1>2. /\ GoodBooks(books) /\ StateTypes /\ \A p \in Orders : Reserved(books, p)
      /\ points \in Nat \ {0} /\ "manual_adjustment" \in OfNoOrder
      /\ ends \in {"never", "later", "past"}
  BY LoyaltyAssumption DEF IInv, OfNoOrder, Ends
<1> HIDE DEF ends
<1>3. /\ GoodBooks(c) /\ SameOrders(books, c) /\ Posted(books, e, c)
      /\ e.type = "manual_adjustment"
      /\ \A p \in Orders : LotsKept(books, c, p)
  BY <1>2, PlainCredit
<1> HIDE DEF c, e
<1>4. SameBonuses(books, c)
  BY <1>3, NoBonusPosted
<1>5. StateTypes'
  BY <1>1, <1>2 DEF StateTypes
<1> QED
  BY <1>1, <1>3, <1>4, <1>5, BooksMove

\* The read before a manual deduction.
LEMMA AskDeductionInv ==
  ASSUME IInv, NEW r \in Requests, NEW u \in Users, NEW points \in Amounts,
         AskDeduction(r, u, points)
  PROVE  IInv'
<1>1. UNCHANGED <<status, redemption, held, books, referral>>
  BY DEF AskDeduction
<1>2. StateTypes'
  <2>1. deduction' = [deduction EXCEPT ![r] = [user |-> u, points |-> points]]
    BY DEF AskDeduction
  <2> QED
    BY <1>1, <2>1 DEF IInv, StateTypes
<1>3. GoodBooks(books') /\ SameOrders(books, books') /\ SameBonuses(books, books')
  BY <1>1 DEF IInv, SameOrders, SameBonuses
<1>4. \A p \in Orders : LotsKept(books, books', p)
  BY <1>1 DEF IInv, Reserved, LotsKept
<1> QED
  BY <1>1, <1>2, <1>3, <1>4, BooksMove

\* The manual deduction that follows.
LEMMA AdjustDownInv ==
  ASSUME IInv, NEW r \in Requests, AdjustDown(r)
  PROVE  IInv'
<1> DEFINE d == deduction[r]
           e == Entry(d.user, "manual_adjustment", NoOrder, -d.points)
           c == Debit(books, e)
<1>1. /\ books' = c /\ UNCHANGED <<status, redemption, held, referral>>
      /\ deduction' = [deduction EXCEPT ![r] = None]
      /\ d # None /\ LotsFree(d.user)
  BY DEF AdjustDown
<1>2. GoodBooks(books) /\ StateTypes
  BY DEF IInv
<1>3. d.user \in Users /\ d.points \in Nat \ {0}
  <2>1. d \in [user : Users, points : Amounts]
    BY <1>1, <1>2 DEF StateTypes
  <2> QED
    BY <2>1, LoyaltyAssumption
<1> HIDE DEF d
<1>4. /\ e \in Entries /\ e.user = d.user /\ e.type = "manual_adjustment"
      /\ e.order = NoOrder /\ e.points < 0
  BY <1>3 DEF Entries, Entry, OfNoOrder, Types
<1> HIDE DEF e
<1>5. /\ GoodBooks(c) /\ Posted(books, e, c)
      /\ \A u \in Users : u # e.user => c.lots[u] = books.lots[u]
  BY <1>2, <1>4, DebitKeeps
<1> HIDE DEF c
<1>6. SameOrders(books, c) /\ SameBonuses(books, c)
  BY <1>4, <1>5, NoOrderPosted, NoBonusPosted
<1>7. ASSUME NEW p \in Orders PROVE LotsKept(books, c, p)
  <2>1. CASE Owner[p] = d.user
    BY <1>1, <2>1 DEF LotsFree, LotsKept
  <2>2. CASE Owner[p] # d.user
    <3>1. c.lots[Owner[p]] = books.lots[Owner[p]]
      BY <1>4, <1>5, <2>2, LoyaltyAssumption
    <3> QED
      BY <3>1 DEF IInv, Reserved, LotsKept
  <2> QED
    BY <2>1, <2>2
<1>8. StateTypes'
  BY <1>1, <1>2 DEF StateTypes
<1> QED
  BY <1>1, <1>5, <1>6, <1>7, <1>8, BooksMove

\* A lot whose time passes with points left in it.
LEMMA LotRunsOutInv ==
  ASSUME IInv, NEW u \in Users, NEW k \in DOMAIN books.lots[u], LotRunsOut(u, k)
  PROVE  IInv'
<1> DEFINE old == books.lots[u]
           new == [old EXCEPT ![k].ends = "past"]
           lots == [books.lots EXCEPT ![u] = new]
<1>1. /\ books' = [books EXCEPT !.lots[u][k].ends = "past"]
      /\ UNCHANGED <<status, redemption, held, referral, deduction>>
  BY DEF LotRunsOut
<1>2. /\ GoodBooks(books) /\ StateTypes
      /\ books.lots \in [Users -> Seq(LotRows)]
      /\ books = [ledger |-> books.ledger, lots |-> books.lots, unmet |-> books.unmet]
      /\ InOrder(old) /\ Agree(books, u)
  BY DEF IInv, GoodBooks
<1>3. books' = [ledger |-> books.ledger, lots |-> lots, unmet |-> books.unmet]
  BY <1>1, <1>2
<1>4. /\ old \in Seq(LotRows) /\ DOMAIN old = 1 .. Len(old) /\ Len(old) \in Nat
      /\ k \in 1 .. Len(old)
  <2>1. old \in Seq(LotRows)
    BY <1>2
  <2>2. k \in DOMAIN old
    OBVIOUS
  <2> HIDE DEF old
  <2> QED
    BY <2>1, <2>2
<1> HIDE DEF old
<1>5. \A j \in 1 .. Len(old) :
            /\ old[j].original \in Nat /\ old[j].remaining \in Nat
            /\ old[j].ends \in {"never", "later", "past"}
            /\ old[j] = [original |-> old[j].original, remaining |-> old[j].remaining,
                         ends |-> old[j].ends]
  <2>1. \A j \in 1 .. Len(old) : old[j] \in LotRows
    BY <1>4
  <2> QED
    BY <2>1 DEF LotRows
<1>6. /\ DOMAIN new = 1 .. Len(old)
      /\ new[k] = [original |-> old[k].original, remaining |-> old[k].remaining, ends |-> "past"]
      /\ \A j \in 1 .. Len(old) : j # k => new[j] = old[j]
  <2>1. new[k] = [old[k] EXCEPT !.ends = "past"]
    BY <1>4
  <2> QED
    BY <1>4, <1>5, <2>1
<1>7. new \in Seq(LotRows) /\ Len(new) = Len(old)
  <2>1. new = [j \in 1 .. Len(old) |-> new[j]]
    BY <1>4
  <2> HIDE DEF new
  <2>2. \A j \in 1 .. Len(old) : old[j] \in LotRows
    BY <1>4
  <2>3. new[k] \in LotRows
    BY <1>4, <1>5, <1>6 DEF LotRows
  <2>4. \A j \in 1 .. Len(old) : new[j] \in LotRows
    BY <1>6, <2>2, <2>3
  <2> QED
    BY <1>4, <2>1, <2>4
<1> HIDE DEF new
<1>8. \A j \in 1 .. Len(old) : new[j].remaining = old[j].remaining
                                /\ new[j].original = old[j].original
                                /\ (new[j].ends # "past" => old[j].ends # "past")
  BY <1>4, <1>6
<1>9. InOrder(new)
  <2>1. ASSUME NEW j \in 1 .. Len(old), NEW i \in 1 .. (j - 1),
               new[j].remaining < new[j].original, new[j].ends # "past"
        PROVE  new[i].remaining = 0
    <3>1. i \in 1 .. Len(old) /\ j \in DOMAIN old
      BY <1>4
    <3>2. old[i].remaining = 0
      BY <1>2, <1>8, <2>1, <3>1 DEF InOrder
    <3> QED
      BY <1>8, <3>1, <3>2
  <2>2. ASSUME NEW j \in 1 .. Len(old) PROVE new[j].remaining <= new[j].original
    BY <1>2, <1>4, <1>8 DEF InOrder
  <2> QED
    BY <1>6, <2>1, <2>2 DEF InOrder
<1>10. Remaining(new, DOMAIN new) = Remaining(old, DOMAIN old)
  <2>1. Left!IsFiniteSet(DOMAIN old)
    BY <1>4, LotsSum, SameFinite
  <2>2. \A j \in DOMAIN old : LeftIn(new, j) = LeftIn(old, j)
    BY <1>4, <1>8 DEF LeftIn
  <2>3. Left!Sum(new, DOMAIN old) = Left!Sum(old, DOMAIN old)
    BY <2>1, <2>2, LeftAdds, Left!SumSame
  <2> QED
    BY <1>4, <1>6, <2>3, SumsAreMeant
<1>11. /\ lots \in [Users -> Seq(LotRows)] /\ lots[u] = new
       /\ \A v \in Users : v # u => lots[v] = books.lots[v]
  BY <1>2, <1>7
<1> HIDE DEF lots
<1>12. /\ books'.ledger = books.ledger /\ books'.lots = lots /\ books'.unmet = books.unmet
       /\ books' = [ledger |-> books'.ledger, lots |-> books'.lots, unmet |-> books'.unmet]
  BY <1>3
<1>13. ASSUME NEW v \in Users PROVE InOrder(books'.lots[v]) /\ Agree(books', v)
  <2>1. Balance(books', v) = Balance(books, v)
    BY <1>12 DEF Balance
  <2>2. CASE v = u
    <3>1. Spendable(books', v) = Spendable(books, v)
      BY <1>10, <1>11, <1>12, <2>2 DEF Spendable, old
    <3> QED
      BY <1>2, <1>9, <1>11, <1>12, <2>1, <2>2, <3>1 DEF Agree
  <2>3. CASE v # u
    <3>1. books'.lots[v] = books.lots[v]
      BY <1>11, <1>12, <2>3
    <3>2. Spendable(books', v) = Spendable(books, v)
      BY <3>1 DEF Spendable
    <3> QED
      BY <1>2, <1>12, <2>1, <3>1, <3>2 DEF Agree, GoodBooks
  <2> QED
    BY <2>2, <2>3
<1>14. GoodBooks(books')
  <2>1. IsFiniteSet(HasLots(books'))
    <3>1. \A v \in Users : v # u => books'.lots[v] = books.lots[v]
      BY <1>11, <1>12
    <3> QED
      BY <1>2, <3>1, FewHaveLots
  <2>2. GoodLedger(books'.ledger) /\ books'.unmet \in [Users -> Nat]
    BY <1>2, <1>12 DEF GoodBooks
  <2> QED
    BY <1>11, <1>12, <1>13, <2>1, <2>2 DEF GoodBooks
<1>15. SameOrders(books, books') /\ SameBonuses(books, books')
  BY <1>12 DEF SameOrders, SameBonuses, BonusesOf
<1>16. ASSUME NEW p \in Orders PROVE LotsKept(books, books', p)
  <2>1. Owner[p] \in Users /\ held[p] \subseteq DOMAIN books.lots[Owner[p]]
    BY LoyaltyAssumption DEF IInv, Reserved
  <2>2. CASE Owner[p] = u
    BY <1>4, <1>6, <1>8, <1>11, <1>12, <2>1, <2>2 DEF LotsKept, old
  <2>3. CASE Owner[p] # u
    BY <1>11, <1>12, <2>1, <2>3 DEF LotsKept
  <2> QED
    BY <2>2, <2>3
<1>17. StateTypes'
  BY <1>1, <1>2 DEF StateTypes
<1> QED
  BY <1>1, <1>14, <1>15, <1>16, <1>17, BooksMove

\* A batch of expiries: what checkouts hold is skipped.
LEMMA RunExpiryBatchInv ==
  ASSUME IInv, RunExpiryBatch
  PROVE  IInv'
<1>1. PICK batch \in SUBSET Expirable : books' = FoldSet(Expire, books, batch)
  BY DEF RunExpiryBatch
<1>2. UNCHANGED <<status, redemption, held, referral, deduction>>
  BY DEF RunExpiryBatch
<1>3. GoodBooks(books) /\ StateTypes
  BY DEF IInv
<1>4. batch \in SUBSET Due(books)
  BY DEF Expirable, Due
<1>5. ExpiredFrom(books, books', batch)
  BY <1>1, <1>3, <1>4, BatchExpired
<1>6. ASSUME NEW p \in Orders PROVE LotsKept(books, books', p)
  <2>1. Owner[p] \in Users /\ held[p] \subseteq DOMAIN books.lots[Owner[p]]
    BY LoyaltyAssumption DEF IInv, Reserved
  <2>2. ASSUME NEW k \in held[p] PROVE <<Owner[p], k>> \notin batch
    BY <2>2 DEF Expirable
  <2> QED
    BY <1>5, <2>1, <2>2 DEF ExpiredFrom, LotsKept
<1>7. StateTypes'
  BY <1>2, <1>3 DEF StateTypes
<1> QED
  BY <1>2, <1>5, <1>6, <1>7, BooksMove DEF ExpiredFrom

\* A step of one order's checkout or status that leaves the books alone.
LEMMA OrderMove ==
  ASSUME IInv, StateTypes', NEW o \in Orders, UNCHANGED <<books, referral>>,
         \A p \in Orders : p # o => /\ status'[p] = status[p] /\ held'[p] = held[p]
                                    /\ redemption'[p] = redemption[p],
         Filing(books, o, status[o]) => Filing(books, o, status'[o]),
         Reserved(books, o)',
         held'[o] = {} \/ held'[o] = held[o] \/ LotsFree(Owner[o])
  PROVE  IInv'
<1>1. /\ GoodBooks(books) /\ FiledInv(books) /\ Alone /\ ReferralInv
      /\ \A p \in Orders : Reserved(books, p)
  BY DEF IInv
<1>2. FiledInv(books)'
  <2>1. Once(books')
    BY <1>1 DEF FiledInv
  <2>2. ASSUME NEW p \in Orders PROVE Opposite(books', p) /\ Filing(books', p, status'[p])
    <3>1. Opposite(books, p) /\ Filing(books, p, status[p])
      BY <1>1 DEF FiledInv
    <3>2. Filing(books, p, status'[p])
      BY <3>1
    <3> QED
      BY <3>1, <3>2
  <2> QED
    BY <2>1, <2>2 DEF FiledInv
<1>3. ASSUME NEW p \in Orders PROVE Reserved(books, p)'
  <2>1. CASE p = o
    BY <2>1
  <2>2. CASE p # o
    BY <1>1, <2>2 DEF Reserved
  <2> QED
    BY <2>1, <2>2
<1>4. Alone'
  BY <1>1 DEF Alone, LotsFree
<1>5. ReferralInv'
  <2>1. SameBonuses(books, books')
    BY DEF SameBonuses
  <2> QED
    BY <1>1, <2>1, SameReferrals
<1>6. GoodBooks(books)'
  BY <1>1
<1> QED
  BY <1>2, <1>3, <1>4, <1>5, <1>6 DEF IInv

\* An order without points.
LEMMA PlaceOrderInv ==
  ASSUME IInv, NEW o \in Orders, PlaceOrder(o)
  PROVE  IInv'
<1>1. /\ status[o] = "none" /\ status' = [status EXCEPT ![o] = "placed"]
      /\ UNCHANGED <<redemption, held, books, referral, deduction>>
  BY DEF PlaceOrder
<1>2. StateTypes /\ Reserved(books, o)
  BY DEF IInv
<1>3. StateTypes' /\ status'[o] = "placed" /\ \A p \in Orders : p # o => status'[p] = status[p]
  BY <1>1, <1>2 DEF StateTypes
<1>4. Filing(books, o, status[o]) => Filing(books, o, status'[o])
  BY <1>1, <1>3 DEF Filing
<1>5. Reserved(books, o)'
  BY <1>1, <1>2, <1>3 DEF Reserved
<1> QED
  BY <1>1, <1>3, <1>4, <1>5, OrderMove

\* A delivery that earns nothing.
LEMMA DeliverForNothingInv ==
  ASSUME IInv, NEW o \in Orders, DeliverForNothing(o)
  PROVE  IInv'
<1>1. /\ status[o] = "placed" /\ status' = [status EXCEPT ![o] = "delivered"]
      /\ UNCHANGED <<redemption, held, books, referral, deduction>>
  BY DEF DeliverForNothing
<1>2. StateTypes /\ Reserved(books, o)
  BY DEF IInv
<1>3. StateTypes' /\ status'[o] = "delivered" /\ \A p \in Orders : p # o => status'[p] = status[p]
  BY <1>1, <1>2 DEF StateTypes
<1>4. Filing(books, o, status[o]) => Filing(books, o, status'[o])
  BY <1>1, <1>3 DEF Filing
<1>5. Reserved(books, o)'
  BY <1>1, <1>2, <1>3 DEF Reserved
<1> QED
  BY <1>1, <1>3, <1>4, <1>5, OrderMove

\* The points a checkout may spend are all in the lots that it locks.
LEMMA LockedLots ==
  ASSUME NEW lots \in Seq(LotRows)
  PROVE  LET locked == {k \in DOMAIN lots : lots[k].remaining > 0}
         IN  Remaining(lots, locked) = Remaining(lots, DOMAIN lots)
<1> DEFINE S == DOMAIN lots  R == {k \in S : lots[k].remaining > 0}
<1>1. /\ Left!Summable(lots, S) /\ R \in SUBSET S /\ S \ R \in SUBSET S
      /\ Left!IsFiniteSet(S \ R) /\ Remaining(lots, R) \in Nat
      /\ \A k \in S : lots[k].remaining \in Nat
  BY LotsSum, SameFinite
<1>2. \A k \in S \ R : LeftIn(lots, k) = 0
  BY <1>1 DEF LeftIn
<1> HIDE DEF S, R
<1>3. Left!Sum(lots, S) = Left!Sum(lots, R) + Left!Sum(lots, S \ R)
  BY <1>1, LeftAdds, Left!SumSplit
<1>4. Left!Sum(lots, S \ R) = 0
  BY <1>1, <1>2, LeftAdds, Left!SumZero
<1>5. Remaining(lots, S) = Remaining(lots, R)
  BY <1>1, <1>3, <1>4, SumsAreMeant
<1> QED
  BY <1>5 DEF R, S

\* The check of a redemption, which locks the customer's lots.
LEMMA ValidateRedemptionInv ==
  ASSUME IInv, NEW o \in Orders, NEW points \in 1 .. MaxRedeem[o], ValidateRedemption(o, points)
  PROVE  IInv'
<1> DEFINE u == Owner[o]
           locked == {k \in DOMAIN books.lots[u] : books.lots[u][k].remaining > 0}
<1>1. /\ status[o] = "none" /\ status' = [status EXCEPT ![o] = "validated"]
      /\ redemption' = [redemption EXCEPT ![o] = points]
      /\ held' = [held EXCEPT ![o] = locked]
      /\ LotsFree(u) /\ points > 0
      /\ points <= Min({Spendable(books, u), MaxRedeem[o]})
      /\ UNCHANGED <<books, referral, deduction>>
  BY DEF ValidateRedemption
<1>2. /\ StateTypes /\ Reserved(books, o) /\ u \in Users /\ books.lots[u] \in Seq(LotRows)
      /\ points \in Nat /\ MaxRedeem[o] \in Nat
  BY LoyaltyAssumption DEF IInv, GoodBooks
<1> HIDE DEF u
<1>3. Spendable(books, u) \in Nat /\ Remaining(books.lots[u], locked) = Spendable(books, u)
  BY <1>2, LotsSum, LockedLots DEF Spendable
<1>4. points <= Spendable(books, u)
  <2> DEFINE n == Spendable(books, u)  m == MaxRedeem[o]
  <2>1. n \in Int /\ m \in Int /\ points <= Min({n, m}) /\ points \in Int
    BY <1>1, <1>2, <1>3
  <2> HIDE DEF n, m
  <2>2. points <= n
    BY <2>1 DEF Min
  <2> QED
    BY <2>2 DEF n
<1>5. locked # {}
  <2> SUFFICES ASSUME locked = {} PROVE FALSE
    OBVIOUS
  <2>1. Remaining(books.lots[u], {}) = 0
    BY Left!SumEmpty, SumsAreMeant
  <2> HIDE DEF locked
  <2>2. Spendable(books, u) = 0
    BY <1>3, <2>1
  <2>3. points > 0 /\ points <= 0 /\ points \in Nat
    BY <1>1, <1>2, <1>4, <2>2
  <2> QED
    BY <2>3
<1>6. locked \in SUBSET Nat
  <2>1. DOMAIN books.lots[u] = 1 .. Len(books.lots[u])
    BY <1>2
  <2> QED
    BY <2>1
<1>7. /\ status'[o] = "validated" /\ held'[o] = locked /\ redemption'[o] = points
      /\ \A p \in Orders : p # o => /\ status'[p] = status[p] /\ held'[p] = held[p]
                                    /\ redemption'[p] = redemption[p]
  BY <1>1, <1>2 DEF StateTypes
<1>8. StateTypes'
  BY <1>1, <1>2, <1>6 DEF StateTypes
<1>9. Filing(books, o, status[o]) => Filing(books, o, status'[o])
  BY <1>1, <1>7 DEF Filing
<1>10. Reserved(books, o)'
  <2>1. locked \subseteq DOMAIN books.lots[Owner[o]]
    BY DEF u
  <2>2. points <= Remaining(books.lots[Owner[o]], locked)
    BY <1>3, <1>4 DEF u
  <2> HIDE DEF locked
  <2> QED
    BY <1>1, <1>5, <1>7, <2>1, <2>2 DEF Reserved
<1>11. LotsFree(Owner[o])
  BY <1>1 DEF u
<1> QED
  BY <1>1, <1>7, <1>8, <1>9, <1>10, <1>11, OrderMove

\* A checkout that ends without its order.
LEMMA RollBackRedemptionInv ==
  ASSUME IInv, NEW o \in Orders, RollBackRedemption(o)
  PROVE  IInv'
<1>1. /\ status[o] = "validated" /\ status' = [status EXCEPT ![o] = "none"]
      /\ redemption' = [redemption EXCEPT ![o] = 0]
      /\ held' = [held EXCEPT ![o] = {}]
      /\ UNCHANGED <<books, referral, deduction>>
  BY DEF RollBackRedemption
<1>2. StateTypes
  BY DEF IInv
<1>3. /\ status'[o] = "none" /\ held'[o] = {} /\ StateTypes'
      /\ \A p \in Orders : p # o => /\ status'[p] = status[p] /\ held'[p] = held[p]
                                    /\ redemption'[p] = redemption[p]
  BY <1>1, <1>2 DEF StateTypes
<1>4. Filing(books, o, status[o]) => Filing(books, o, status'[o])
  BY <1>1, <1>3 DEF Filing
<1>5. Reserved(books, o)'
  BY <1>1, <1>3 DEF Reserved
<1> QED
  BY <1>1, <1>3, <1>4, <1>5, OrderMove

\* A step of one order that moves the books, its own movements included.
LEMMA OrderBooksMove ==
  ASSUME IInv, StateTypes', NEW o \in Orders, GoodBooks(books'), Once(books'),
         \A p \in Orders : p # o =>
            /\ status'[p] = status[p] /\ held'[p] = held[p] /\ redemption'[p] = redemption[p]
            /\ \A t \in OrderTypes : Filed(books', t, p) = Filed(books, t, p)
            /\ held[p] # {} => LotsKept(books, books', p),
         Opposite(books', o), Filing(books', o, status'[o]),
         Reserved(books, o)', held'[o] = {} \/ held'[o] = held[o],
         ReferralInv'
  PROVE  IInv'
<1>1. /\ GoodBooks(books) /\ FiledInv(books) /\ Alone
      /\ \A p \in Orders : Reserved(books, p)
  BY DEF IInv
<1>2. FiledInv(books)'
  <2>1. ASSUME NEW p \in Orders PROVE Opposite(books', p) /\ Filing(books', p, status'[p])
    <3>1. CASE p = o
      BY <3>1
    <3>2. CASE p # o
      <4>1. Opposite(books, p) /\ Filing(books, p, status[p])
        BY <1>1 DEF FiledInv
      <4>2. \A t \in OrderTypes : Filed(books', t, p) = Filed(books, t, p)
        BY <3>2
      <4>3. Opposite(books', p) /\ Filing(books', p, status[p])
        BY <4>1, <4>2, SameOpposite DEF OrderTypes
      <4> QED
        BY <3>2, <4>3
    <3> QED
      BY <3>1, <3>2
  <2> QED
    BY <2>1 DEF FiledInv
<1>3. ASSUME NEW p \in Orders PROVE Reserved(books, p)'
  <2>1. CASE p = o
    BY <2>1
  <2>2. CASE p # o /\ held[p] = {}
    <3>1. status'[p] = status[p] /\ held'[p] = {} /\ status[p] # "validated"
      BY <1>1, <2>2 DEF Reserved
    <3> QED
      BY <3>1 DEF Reserved
  <2>3. CASE p # o /\ held[p] # {}
    <3>1. Reserved(books', p)
      BY <1>1, <2>3, StillReserved
    <3>2. status'[p] = status[p] /\ held'[p] = held[p] /\ redemption'[p] = redemption[p]
      BY <2>3
    <3> QED
      BY <3>1, <3>2 DEF Reserved
  <2> QED
    BY <2>1, <2>2, <2>3
<1>4. Alone'
  BY <1>1 DEF Alone
<1>5. GoodBooks(books)'
  OBVIOUS
<1> QED
  BY <1>2, <1>3, <1>4, <1>5 DEF IInv

\* The end of a checkout that redeems, whose points are all there.
LEMMA CommitRedemptionInv ==
  ASSUME IInv, NEW o \in Orders, CommitRedemption(o)
  PROVE  /\ IInv'
         /\ Spendable(books', Owner[o]) = Spendable(books, Owner[o]) - redemption[o]
<1> DEFINE u == Owner[o]
           n == -redemption[o]
           e == Entry(u, "redeemed", o, n)
           c == Debit(books, e)
<1>1. /\ status[o] = "validated" /\ status' = [status EXCEPT ![o] = "placed"]
      /\ redemption' = [redemption EXCEPT ![o] = 0] /\ held' = [held EXCEPT ![o] = {}]
      /\ books' = c /\ UNCHANGED <<referral, deduction>>
  BY DEF CommitRedemption
<1>2. /\ StateTypes /\ GoodBooks(books) /\ Once(books) /\ Reserved(books, o) /\ Alone
      /\ Opposite(books, o) /\ Filing(books, o, status[o]) /\ ReferralInv
      /\ u \in Users /\ books.lots[u] \in Seq(LotRows)
  BY LoyaltyAssumption DEF IInv, FiledInv, GoodBooks
<1>3. /\ redemption[o] \in Nat /\ redemption[o] > 0 /\ held[o] # {}
      /\ held[o] \in SUBSET DOMAIN books.lots[u]
      /\ redemption[o] <= Remaining(books.lots[u], held[o])
  BY <1>1, <1>2 DEF Reserved, StateTypes
<1>4. n \in Int /\ n < 0 /\ -n = redemption[o] /\ "redeemed" \in OrderTypes
  BY <1>3 DEF OrderTypes
<1>5. Filed(books, "redeemed", o) = {} /\ Filed(books, "redemption_reversal", o) = {}
  <2>1. Filed(books, "redeemed", o) = {}
    BY <1>1, <1>2 DEF Filing
  <2> QED
    BY <1>2, <2>1 DEF Opposite
<1>6. redemption[o] <= Spendable(books, u)
  <2> DEFINE lots == books.lots[u]
  <2>1. /\ Left!IsFiniteSet(DOMAIN lots) /\ \A k \in DOMAIN lots : LeftIn(lots, k) \in Nat
        /\ Remaining(lots, held[o]) \in Nat /\ Remaining(lots, DOMAIN lots) \in Nat
    BY <1>2, <1>3, LotsSum, SameFinite DEF LeftIn
  <2> HIDE DEF lots
  <2>2. Left!Sum(lots, held[o]) <= Left!Sum(lots, DOMAIN lots)
    BY <1>3, <2>1, LeftAdds, Left!SumPart DEF lots
  <2>3. Remaining(lots, held[o]) <= Remaining(lots, DOMAIN lots)
    BY <2>2, SumsAreMeant
  <2> QED
    BY <1>3, <2>1, <2>3 DEF Spendable, lots
<1> HIDE DEF n
<1>7. /\ GoodBooks(c) /\ Once(c) /\ SameBonuses(books, c)
      /\ Filed(c, "redeemed", o) = {e}
      /\ \A t, p : t # "redeemed" \/ p # o => Filed(c, t, p) = Filed(books, t, p)
      /\ \A v \in Users : v # u => c.lots[v] = books.lots[v]
      /\ -n <= Spendable(books, u) => Spendable(c, u) = Spendable(books, u) + n
  <2>1. GoodBooks(books) /\ Once(books)
    BY <1>2
  <2>2. n \in Int /\ n < 0 /\ "redeemed" \in OrderTypes /\ Filed(books, "redeemed", o) = {}
    BY <1>4, <1>5
  <2> QED
    BY <2>1, <2>2, FirstDebit
<1>8. e.points = n
  BY DEF Entry
<1> HIDE DEF c, e
<1>9. /\ status'[o] = "placed" /\ held'[o] = {} /\ StateTypes'
      /\ \A p \in Orders : p # o => /\ status'[p] = status[p] /\ held'[p] = held[p]
                                    /\ redemption'[p] = redemption[p]
  BY <1>1, <1>2 DEF StateTypes
<1>10. Opposite(c, o)
  BY <1>2, <1>4, <1>5, <1>7, <1>8 DEF Opposite
<1>11. Filing(c, o, "placed")
  BY <1>1, <1>2, <1>7 DEF Filing
<1>12. Reserved(books, o)'
  BY <1>9 DEF Reserved
<1>13. ReferralInv'
  BY <1>1, <1>2, <1>7, SameReferrals
<1>14. ASSUME NEW p \in Orders, p # o, held[p] # {} PROVE LotsKept(books, c, p)
  <2>1. Owner[p] # u /\ Owner[p] \in Users
    BY <1>2, <1>3, <1>14, LoyaltyAssumption DEF Alone
  <2>2. c.lots[Owner[p]] = books.lots[Owner[p]]
    BY <1>7, <2>1
  <2> QED
    BY <2>2 DEF IInv, Reserved, LotsKept
<1>15. \A p \in Orders : p # o => \A t \in OrderTypes : Filed(c, t, p) = Filed(books, t, p)
  BY <1>7
<1>16. IInv'
  BY <1>1, <1>7, <1>9, <1>10, <1>11, <1>12, <1>13, <1>14, <1>15, OrderBooksMove
<1>17. Spendable(c, u) = Spendable(books, u) - redemption[o]
  <2>1. Spendable(books, u) \in Nat
    BY <1>2, LotsSum DEF Spendable
  <2> QED
    BY <1>3, <1>4, <1>6, <1>7, <2>1 DEF n
<1> QED
  BY <1>1, <1>16, <1>17

\* What a referral that qualifies pays, and to whom.
LEMMA Rewards ==
  ASSUME NEW b, GoodBooks(b), NEW u \in Users, Referrer[u] \in Users
  PROVE  LET c == Reward(b, u)
         IN  /\ GoodBooks(c) /\ SameOrders(b, c)
             /\ Points(b.ledger, BonusesOf(b)) \in Int
             /\ Points(c.ledger, BonusesOf(c)) =
                  Points(b.ledger, BonusesOf(b))
                  + (IF ReferralEnabled THEN ReferrerBonus + ReferredBonus ELSE 0)
             /\ \A p \in Orders : Reserved(b, p) => LotsKept(b, c, p)
<1> DEFINE first == Bonus(b, Referrer[u], ReferrerBonus)
           second == Bonus(first, u, ReferredBonus)
           c == Reward(b, u)
           had == Points(b.ledger, BonusesOf(b))
<1>0. ReferrerBonus \in Nat /\ ReferredBonus \in Nat
  BY LoyaltyAssumption
<1>1. /\ GoodBooks(first) /\ SameOrders(b, first) /\ had \in Int
      /\ Points(first.ledger, BonusesOf(first)) = had + ReferrerBonus
      /\ \A p \in Orders : Reserved(b, p) => LotsKept(b, first, p)
  BY <1>0, BonusPaid
<1> HIDE DEF first, had
<1>2. CASE ReferralEnabled
  <2>1. c = second
    BY <1>2 DEF Reward, first
  <2>2. /\ GoodBooks(second) /\ SameOrders(first, second)
        /\ Points(second.ledger, BonusesOf(second)) = (had + ReferrerBonus) + ReferredBonus
        /\ \A p \in Orders : Reserved(first, p) => LotsKept(first, second, p)
    BY <1>0, <1>1, BonusPaid
  <2> HIDE DEF second, c
  <2>3. SameOrders(b, c)
    BY <1>1, <2>1, <2>2 DEF SameOrders
  <2>4. ASSUME NEW p \in Orders, Reserved(b, p) PROVE LotsKept(b, c, p)
    <3>1. Reserved(first, p)
      BY <1>1, <2>4, StillReserved
    <3> QED
      BY <1>1, <2>1, <2>2, <2>4, <3>1 DEF LotsKept
  <2>5. Points(c.ledger, BonusesOf(c)) = had + (ReferrerBonus + ReferredBonus)
    BY <1>0, <1>1, <2>1, <2>2
  <2> QED
    BY <1>1, <1>2, <2>1, <2>2, <2>3, <2>4, <2>5 DEF c, had
<1>3. CASE ~ReferralEnabled
  <2>1. c = b
    BY <1>3 DEF Reward
  <2>2. SameOrders(b, b) /\ \A p \in Orders : Reserved(b, p) => LotsKept(b, b, p)
    BY DEF SameOrders, LotsKept, Reserved
  <2>3. had = had + 0
    BY <1>1
  <2> HIDE DEF c
  <2> QED
    BY <1>1, <1>3, <2>1, <2>2, <2>3 DEF c, had
<1> QED
  BY <1>2, <1>3

\* A delivery that earns points, and the referral that it may reward.
LEMMA DeliverInv ==
  ASSUME IInv, NEW o \in Orders, NEW points \in Worth[o], NEW reaches \in BOOLEAN,
         Deliver(o, points, reaches)
  PROVE  IInv'
<1> DEFINE u == Owner[o]
           e == Entry(u, "order_delivered", o, points)
           granted == Credit(books, e, Ends(FALSE))
           pays == Qualifies(u, reaches)
<1>1. /\ status[o] = "placed" /\ points > 0
      /\ status' = [status EXCEPT ![o] = "delivered"]
      /\ UNCHANGED <<redemption, held, deduction>>
      /\ books' = IF pays THEN Reward(granted, u) ELSE granted
      /\ referral' = IF pays THEN [referral EXCEPT ![u] = Outcome] ELSE referral
  BY DEF Deliver
<1>2. /\ StateTypes /\ GoodBooks(books) /\ Once(books) /\ ReferralInv
      /\ Opposite(books, o) /\ Filing(books, o, status[o])
      /\ \A p \in Orders : Reserved(books, p)
      /\ u \in Users /\ points \in Nat \ {0}
  <2>1. points \in Nat /\ u \in Users
    BY LoyaltyAssumption
  <2> QED
    BY <1>1, <2>1 DEF IInv, FiledInv
<1>3. Filed(books, "order_delivered", o) = {} /\ Filed(books, "earned_reversal", o) = {}
  <2>1. Filed(books, "order_delivered", o) = {}
    BY <1>1, <1>2 DEF Filing
  <2> QED
    BY <1>2, <2>1 DEF Opposite
<1> HIDE DEF pays
<1>4. /\ GoodBooks(granted) /\ Once(granted) /\ SameBonuses(books, granted)
      /\ Filed(granted, "order_delivered", o) = {e}
      /\ \A t, p : t # "order_delivered" \/ p # o => Filed(granted, t, p) = Filed(books, t, p)
      /\ \A p \in Orders : LotsKept(books, granted, p)
  <2>1. GoodBooks(books) /\ Once(books) /\ Filed(books, "order_delivered", o) = {}
    BY <1>2, <1>3
  <2>2. "order_delivered" \in OrderTypes /\ points \in Nat \ {0}
    BY <1>2 DEF OrderTypes
  <2>3. /\ GoodBooks(granted) /\ Once(granted) /\ SameBonuses(books, granted)
        /\ Filed(granted, "order_delivered", o) = {e}
        /\ \A t, p : t # "order_delivered" \/ p # o => Filed(granted, t, p) = Filed(books, t, p)
        /\ \A p \in Orders : Reserved(books, p) => LotsKept(books, granted, p)
    BY <2>1, <2>2, FirstCredit
  <2> HIDE DEF granted, e
  <2> QED
    BY <1>2, <2>3
<1>5. e.points = points
  BY DEF Entry
<1> HIDE DEF granted, e
<1>6. pays => Referrer[u] \in Users /\ referral[u] = "pending"
  BY <1>2 DEF pays, Qualifies, ReferralInv
<1>7. \A p \in Orders : Reserved(granted, p)
  BY <1>2, <1>4, StillReserved
<1>8. /\ GoodBooks(books') /\ SameOrders(granted, books')
      /\ \A p \in Orders : LotsKept(granted, books', p)
  <2>1. CASE pays
    BY <1>1, <1>2, <1>4, <1>6, <1>7, <2>1, Rewards
  <2>2. CASE ~pays
    <3>1. SameOrders(granted, granted) /\ \A p \in Orders : LotsKept(granted, granted, p)
      BY <1>7 DEF SameOrders, LotsKept, Reserved
    <3> QED
      BY <1>1, <1>4, <2>2, <3>1
  <2> QED
    BY <2>1, <2>2
<1>9. /\ Once(books')
      /\ \A t, p : p \in Orders => Filed(books', t, p) = Filed(granted, t, p)
  <2>1. GoodLedger(granted.ledger) /\ GoodLedger(books'.ledger)
    BY <1>4, <1>8 DEF GoodBooks
  <2> QED
    BY <1>4, <1>8, <2>1, SameFiled
<1>10. Opposite(books', o)
  <2>1. /\ Filed(books', "order_delivered", o) = {e}
        /\ Filed(books', "earned_reversal", o) = {}
        /\ Filed(books', "redeemed", o) = Filed(books, "redeemed", o)
        /\ Filed(books', "redemption_reversal", o) = Filed(books, "redemption_reversal", o)
    BY <1>3, <1>4, <1>9
  <2> QED
    BY <1>1, <1>2, <1>5, <2>1 DEF Opposite
<1>11. /\ status'[o] = "delivered" /\ StateTypes'
       /\ \A p \in Orders : p # o => status'[p] = status[p]
  <2>1. status'[o] = "delivered" /\ \A p \in Orders : p # o => status'[p] = status[p]
    BY <1>1, <1>2 DEF StateTypes
  <2>2. Outcome \in {"qualified", "rewarded"}
    BY DEF Outcome
  <2>3. referral' \in [Users -> {"none", "pending", "qualified", "rewarded"}]
    BY <1>1, <1>2, <2>2 DEF StateTypes
  <2> QED
    BY <1>1, <1>2, <2>1, <2>3 DEF StateTypes
<1>12. Filing(books', o, status'[o])
  BY <1>11 DEF Filing
<1>13. ASSUME NEW p \in Orders PROVE LotsKept(books, books', p)
  BY <1>4, <1>8 DEF LotsKept
<1>14. ASSUME NEW p \in Orders, p # o, NEW t \in OrderTypes
       PROVE  Filed(books', t, p) = Filed(books, t, p)
  BY <1>4, <1>9, <1>14
<1>15. Reserved(books, o)'
  <2>1. held[o] = {}
    BY <1>1, <1>2 DEF Reserved
  <2> QED
    BY <1>1, <1>11, <2>1 DEF Reserved
<1>16. ReferralInv'
  <2>1. \A p \in Orders : Filed(books, "order_delivered", p) # {} =>
                             Filed(books', "order_delivered", p) # {}
    BY <1>4, <1>9
  <2>2. Filed(books', "order_delivered", o) # {}
    BY <1>4, <1>9
  <2>3. CASE ~pays
    <3>1. books' = granted /\ UNCHANGED referral
      BY <1>1, <2>3
    <3> QED
      BY <1>2, <1>4, <2>1, <3>1, SameReferrals
  <2>4. CASE pays
    <3>1. /\ referral' = [referral EXCEPT ![u] = Outcome]
          /\ referral \in [Users -> {"none", "pending", "qualified", "rewarded"}]
      BY <1>1, <1>2, <2>4 DEF StateTypes
    <3>2. /\ referral'[u] = Outcome /\ referral[u] = "pending" /\ Referrer[u] \in Users
          /\ \A v \in Users : v # u => referral'[v] = referral[v]
      BY <1>2, <1>6, <2>4, <3>1
    <3>3. ASSUME NEW v \in Users
          PROVE  /\ referral'[v] # "none" => Referrer[v] \in Users
                 /\ referral'[v] \in {"qualified", "rewarded"} =>
                       \E p \in Orders : Owner[p] = v /\ Filed(books', "order_delivered", p) # {}
      <4>1. CASE v = u
        BY <2>2, <3>2, <4>1
      <4>2. CASE v # u
        BY <1>2, <2>1, <3>2, <4>2 DEF ReferralInv
      <4> QED
        BY <4>1, <4>2
    <3> DEFINE had == Points(books.ledger, BonusesOf(books))
               both == ReferrerBonus + ReferredBonus
               n == Cardinality(Rewarded)
    <3>4. Points(granted.ledger, BonusesOf(granted)) = had
      BY <1>2, <1>4, SameBonusPoints DEF GoodBooks
    <3>5. /\ IsFiniteSet(Rewarded) /\ had = both * n /\ n \in Nat /\ both \in Nat
          /\ u \notin Rewarded
      BY <1>2, <3>2, FS_CardinalityType, LoyaltyAssumption DEF ReferralInv, Rewarded
    <3> HIDE DEF had, both, n
    <3>6. Points(books'.ledger, BonusesOf(books')) = had + (IF ReferralEnabled THEN both ELSE 0)
      BY <1>1, <1>2, <1>4, <1>6, <2>4, <3>4, Rewards DEF both
    <3>7. CASE ReferralEnabled
      <4>1. Rewarded' = Rewarded \cup {u}
        BY <1>2, <3>2, <3>7 DEF Rewarded, Outcome
      <4>2. IsFiniteSet(Rewarded') /\ Cardinality(Rewarded') = n + 1
        BY <3>5, <4>1, FS_AddElement DEF n
      <4>3. both * (n + 1) = both * n + both
        BY <3>5
      <4>4. Points(books'.ledger, BonusesOf(books')) = both * Cardinality(Rewarded')
        BY <3>5, <3>6, <3>7, <4>2, <4>3
      <4> QED
        BY <3>3, <4>2, <4>4 DEF ReferralInv, both
    <3>8. CASE ~ReferralEnabled
      <4>1. Rewarded' = Rewarded
        BY <1>2, <3>2, <3>8 DEF Rewarded, Outcome
      <4>2. Points(books'.ledger, BonusesOf(books')) = both * Cardinality(Rewarded')
        BY <3>5, <3>6, <3>8, <4>1 DEF n
      <4> QED
        BY <3>3, <3>5, <4>1, <4>2 DEF ReferralInv, both
    <3> QED
      BY <3>7, <3>8
  <2> QED
    BY <2>3, <2>4
<1> QED
  BY <1>1, <1>8, <1>9, <1>10, <1>11, <1>12, <1>13, <1>14, <1>15, <1>16, OrderBooksMove

\* What a cancellation and a refund do to the books, whatever the status becomes.
LEMMA UndoPointsInv ==
  ASSUME IInv, NEW o \in Orders, UndoPoints(o), status[o] \notin {"none", "validated"},
         status' = [status EXCEPT ![o] = status'[o]],
         status'[o] = "cancelled" => status[o] \in {"placed", "cancelled"},
         status'[o] \in {"cancelled", status[o]},
         UNCHANGED <<redemption, held, referral, deduction>>
  PROVE  IInv'
<1> DEFINE c == ReverseEarned(RestoreRedeemed(books, o), o)
<1>1. books' = c /\ (OwesEarned(books, o) => LotsFree(Owner[o]))
  BY DEF UndoPoints, UndoTo
<1>2. /\ StateTypes /\ GoodBooks(books) /\ Once(books) /\ ReferralInv
      /\ Filing(books, o, status[o])
      /\ \A p \in Orders : Opposite(books, p) /\ Reserved(books, p)
  BY DEF IInv, FiledInv
<1>3. /\ GoodBooks(c) /\ Once(c) /\ SameBonuses(books, c)
      /\ \A p \in Orders : Opposite(c, p) /\ LotsKept(books, c, p)
      /\ \A t, p : t \in {"redeemed", "order_delivered"} \/ p # o =>
             Filed(c, t, p) = Filed(books, t, p)
      /\ Filed(c, "redeemed", o) # {} => Filed(c, "redemption_reversal", o) # {}
  BY <1>1, <1>2, Undone
<1> HIDE DEF c
<1>4. StateTypes'
  <2>1. status'[o] \in {"none", "validated", "placed", "delivered", "cancelled"}
    BY <1>2 DEF StateTypes
  <2>2. status' \in [Orders -> {"none", "validated", "placed", "delivered", "cancelled"}]
    BY <1>2, <2>1 DEF StateTypes
  <2> QED
    BY <1>2, <2>2 DEF StateTypes
<1>5. \A p \in Orders : p # o => status'[p] = status[p]
  BY <1>2 DEF StateTypes
<1>6. Filing(c, o, status'[o])
  <2>1. /\ status'[o] \notin {"none", "validated"}
        /\ status'[o] # "delivered" => status[o] # "delivered"
    OBVIOUS
  <2>2. Filed(c, "order_delivered", o) = Filed(books, "order_delivered", o)
    BY <1>3
  <2> QED
    BY <1>2, <1>3, <2>1, <2>2 DEF Filing
<1>7. Reserved(books, o)'
  <2>1. held[o] = {} /\ status'[o] # "validated"
    BY <1>2 DEF Reserved
  <2> QED
    BY <2>1 DEF Reserved
<1>8. ReferralInv'
  <2>1. \A p \in Orders : Filed(books, "order_delivered", p) # {} =>
                             Filed(books', "order_delivered", p) # {}
    BY <1>1, <1>3
  <2> QED
    BY <1>1, <1>2, <1>3, <2>1, SameReferrals
<1>9. ASSUME NEW p \in Orders, p # o, NEW t \in OrderTypes
      PROVE  Filed(c, t, p) = Filed(books, t, p)
  BY <1>3, <1>9
<1> QED
  BY <1>1, <1>3, <1>4, <1>5, <1>6, <1>7, <1>8, <1>9, OrderBooksMove

\* A cancellation.
LEMMA CancelOrderInv ==
  ASSUME IInv, NEW o \in Orders, CancelOrder(o)
  PROVE  IInv'
<1>1. /\ status[o] \in {"placed", "cancelled"}
      /\ status' = [status EXCEPT ![o] = "cancelled"]
      /\ UndoPoints(o) /\ UNCHANGED <<redemption, held, referral, deduction>>
  BY DEF CancelOrder
<1>2. status'[o] = "cancelled" /\ status' = [status EXCEPT ![o] = status'[o]]
  BY <1>1 DEF IInv, StateTypes
<1> QED
  BY <1>1, <1>2, UndoPointsInv

\* A refund.
LEMMA RefundOrderInv ==
  ASSUME IInv, NEW o \in Orders, RefundOrder(o)
  PROVE  IInv'
<1>1. /\ status[o] \notin {"none", "validated"} /\ UndoPoints(o)
      /\ UNCHANGED <<status, redemption, held, referral, deduction>>
  BY DEF RefundOrder
<1>2. status' = [status EXCEPT ![o] = status'[o]]
  BY <1>1 DEF IInv, StateTypes
<1>3. status'[o] = "cancelled" => status[o] \in {"placed", "cancelled"}
  BY <1>1
<1>4. status'[o] \in {"cancelled", status[o]}
  BY <1>1
<1> QED
  BY <1>1, <1>2, <1>3, <1>4, UndoPointsInv

\* Every step, and a step of something else.
LEMMA NextInv == IInv /\ [Next]_vars => IInv'
<1> SUFFICES ASSUME IInv, [Next]_vars PROVE IInv'
  OBVIOUS
<1>1. ASSUME NEW o \in Orders, PlaceOrder(o) PROVE IInv'
  BY <1>1, PlaceOrderInv
<1>2. ASSUME NEW o \in Orders, NEW points \in 1 .. MaxRedeem[o], ValidateRedemption(o, points)
      PROVE  IInv'
  BY <1>2, ValidateRedemptionInv
<1>3. ASSUME NEW o \in Orders, CommitRedemption(o) PROVE IInv'
  BY <1>3, CommitRedemptionInv
<1>4. ASSUME NEW o \in Orders, RollBackRedemption(o) PROVE IInv'
  BY <1>4, RollBackRedemptionInv
<1>5. ASSUME NEW o \in Orders, DeliverForNothing(o) PROVE IInv'
  BY <1>5, DeliverForNothingInv
<1>6. ASSUME NEW o \in Orders, NEW points \in Worth[o], NEW reaches \in BOOLEAN,
             Deliver(o, points, reaches)
      PROVE  IInv'
  BY <1>6, DeliverInv
<1>7. ASSUME NEW o \in Orders, CancelOrder(o) PROVE IInv'
  BY <1>7, CancelOrderInv
<1>8. ASSUME NEW o \in Orders, RefundOrder(o) PROVE IInv'
  BY <1>8, RefundOrderInv
<1>9. ASSUME NEW u \in Users, NEW points \in Amounts, NEW neverExpires \in BOOLEAN,
             AdjustUp(u, points, neverExpires)
      PROVE  IInv'
  BY <1>9, AdjustUpInv
<1>10. ASSUME NEW u \in Users, NEW points \in Amounts, NEW r \in Requests,
              AskDeduction(r, u, points)
       PROVE  IInv'
  BY <1>10, AskDeductionInv
<1>11. ASSUME NEW r \in Requests, AdjustDown(r) PROVE IInv'
  BY <1>11, AdjustDownInv
<1>12. ASSUME NEW u \in Users, NEW k \in DOMAIN books.lots[u], LotRunsOut(u, k) PROVE IInv'
  BY <1>12, LotRunsOutInv
<1>13. ASSUME RunExpiryBatch PROVE IInv'
  BY <1>13, RunExpiryBatchInv
<1>14. ASSUME UNCHANGED vars PROVE IInv'
  <2>1. UNCHANGED <<status, redemption, held, books, referral, deduction>>
    BY <1>14 DEF vars
  <2>2. StateTypes'
    BY <2>1 DEF IInv, StateTypes
  <2>3. GoodBooks(books') /\ SameOrders(books, books') /\ SameBonuses(books, books')
    BY <2>1 DEF IInv, SameOrders, SameBonuses
  <2>4. \A p \in Orders : LotsKept(books, books', p)
    BY <2>1 DEF IInv, Reserved, LotsKept
  <2> QED
    BY <2>1, <2>2, <2>3, <2>4, BooksMove
<1> QED
  BY <1>1, <1>2, <1>3, <1>4, <1>5, <1>6, <1>7, <1>8, <1>9, <1>10, <1>11, <1>12, <1>13, <1>14
  DEF Next

\* The inductive invariant of the points of customers.
THEOREM LoyaltyInvariant == Spec => []IInv
<1> QED
  BY InitInv, NextInv, PTL DEF Spec
-----------------------------------------------------------------------------
(* What the inductive invariant says of the tables *)

\* The columns have their types, and entries an order where their type has one.
LEMMA TypesHold == IInv => TypeOK
<1> SUFFICES ASSUME IInv PROVE TypeOK
  OBVIOUS
<1>1. StateTypes /\ GoodBooks(books) /\ \A o \in Orders : Reserved(books, o)
  BY DEF IInv
<1>2. /\ status \in [Orders -> {"none", "validated", "placed", "delivered", "cancelled"}]
      /\ redemption \in [Orders -> Nat]
      /\ referral \in [Users -> {"none", "pending", "qualified", "rewarded"}]
      /\ \A r \in Requests :
            deduction[r] # None => deduction[r] \in [user : Users, points : Amounts]
  BY <1>1 DEF StateTypes
<1>3. \A o \in Orders : held[o] \subseteq DOMAIN books.lots[Owner[o]]
  BY <1>1 DEF Reserved
<1>4. ASSUME NEW e \in DOMAIN books.ledger
      PROVE  /\ e.user \in Users /\ e.type \in Types /\ e.points \in Int \ {0}
             /\ e.order = NoOrder <=> e.type \in {"referral_bonus", "manual_adjustment", "expired"}
  <2>1. e \in Entries
    BY <1>1 DEF GoodBooks, GoodLedger
  <2> QED
    BY <2>1 DEF Entries, OfNoOrder
<1>5. ASSUME NEW u \in Users, NEW k \in DOMAIN books.lots[u]
      PROVE  LET l == Lot(books, u, k)
             IN  l.remaining \in 0..l.original /\ l.ends \in {"never", "later", "past"}
  <2>1. books.lots[u] \in Seq(LotRows) /\ InOrder(books.lots[u])
    BY <1>1 DEF GoodBooks
  <2>2. books.lots[u][k] \in LotRows
    BY <2>1
  <2>3. books.lots[u][k].remaining <= books.lots[u][k].original
    BY <2>1 DEF InOrder
  <2> QED
    BY <2>2, <2>3 DEF Lot, LotRows
<1>6. books.unmet \in [Users -> Nat]
  BY <1>1 DEF GoodBooks
<1> QED
  BY <1>2, <1>3, <1>4, <1>5, <1>6 DEF TypeOK

\* Lots are consumed oldest first.
LEMMA OldestFirstHolds == IInv => OldestFirst
BY DEF IInv, GoodBooks, InOrder, OldestFirst, Lot

\* What is filed of an order, and nothing else, carries it.
LEMMA AllOfAnOrder ==
  ASSUME NEW b, GoodLedger(b.ledger), NEW o \in Orders
  PROVE  {e \in DOMAIN b.ledger : e.order = o} =
            (Filed(b, "redeemed", o) \cup Filed(b, "redemption_reversal", o))
            \cup (Filed(b, "order_delivered", o) \cup Filed(b, "earned_reversal", o))
<1>1. ASSUME NEW e \in DOMAIN b.ledger, e.order = o PROVE e.type \in OrderTypes
  <2>1. e \in Filed(b, e.type, o)
    BY <1>1 DEF Filed
  <2> QED
    BY <2>1, FiledEntry
<1> QED
  BY <1>1 DEF Filed, OrderTypes

\* Two opposite movements, each filed once, come to nothing.
LEMMA OppositesCancel ==
  ASSUME NEW L, NEW e, NEW f, e # f, L[e] = 1, L[f] = 1,
         f.points \in Int, e.points = -f.points
  PROVE  Points(L, {f, e}) = 0
<1>1. WorthOf(L, e) = -f.points /\ WorthOf(L, f) = f.points
  BY DEF WorthOf
<1>2. Moved!Sum(L, {f}) = f.points
  BY <1>1, MovedAdds, Moved!SumOne
<1>3. Moved!Summable(L, {f} \cup {e})
  <2>1. IsFiniteSet({f} \cup {e})
    BY FS_Singleton, FS_Union
  <2>2. \A x \in {f} \cup {e} : L[x] * x.points \in Int
    BY <1>1 DEF WorthOf
  <2> QED
    BY <2>1, <2>2, Summables
<1>4. Moved!Sum(L, {f} \cup {e}) = Moved!Sum(L, {f}) + WorthOf(L, e)
  BY <1>3, MovedAdds, Moved!SumAdd
<1>5. {f, e} = {f} \cup {e}
  OBVIOUS
<1>6. Points(L, {f, e}) = Moved!Sum(L, {f} \cup {e})
  BY <1>5, SumsAreMeant
<1>7. \A n \in Int : n + (-n) = 0
  OBVIOUS
<1>8. Points(L, {f, e}) = f.points + (-f.points)
  BY ONLY <1>1, <1>2, <1>4, <1>6
<1> QED
  BY <1>7, <1>8

\* A cancelled order that redeemed has its redemption and its reversal, one of each.
LEMMA Neutral == IInv => CancelledOrdersAreNeutral
<1> SUFFICES ASSUME IInv, NEW o \in Orders, status[o] = "cancelled"
             PROVE  Points(books.ledger, {e \in DOMAIN books.ledger : e.order = o}) = 0
  BY DEF CancelledOrdersAreNeutral
<1>1. /\ GoodLedger(books.ledger) /\ Once(books) /\ Opposite(books, o)
      /\ Filing(books, o, "cancelled")
  BY DEF IInv, GoodBooks, FiledInv
<1> DEFINE spent == Filed(books, "redeemed", o)
           back == Filed(books, "redemption_reversal", o)
           all == {e \in DOMAIN books.ledger : e.order = o}
<1>2. Filed(books, "order_delivered", o) = {} /\ Filed(books, "earned_reversal", o) = {}
  BY <1>1 DEF Filing, Opposite
<1>3. all = spent \cup back
  BY <1>1, <1>2, AllOfAnOrder
<1>4. CASE spent = {}
  <2>1. back = {}
    BY <1>1, <1>4 DEF Opposite
  <2>2. all = {}
    BY <1>3, <1>4, <2>1
  <2> QED
    BY <2>2, Moved!SumEmpty, SumsAreMeant
<1>5. CASE spent # {}
  <2>1. back # {}
    BY <1>1, <1>5 DEF Filing
  <2>2. PICK e \in back : TRUE
    BY <2>1
  <2>3. PICK f \in spent : e.points = -f.points
    BY <1>1, <2>2 DEF Opposite
  <2>4. /\ f \in DOMAIN books.ledger /\ f.type = "redeemed" /\ f.order = o
        /\ f.points \in Int \ {0}
    BY <1>1, <2>3, FiledEntry
  <2>5. e \in DOMAIN books.ledger /\ e.type = "redemption_reversal" /\ e.order = o
    BY <1>1, <2>2, FiledEntry
  <2>6. o # NoOrder
    BY LoyaltyAssumption
  <2>7. books.ledger[e] = 1 /\ books.ledger[f] = 1 /\ e # f
    BY <1>1, <2>4, <2>5, <2>6 DEF Once
  <2>8. spent = {f}
    <3>1. \A x \in spent : x \in DOMAIN books.ledger /\ x.type = "redeemed" /\ x.order = o
      BY DEF Filed
    <3> QED
      BY <1>1, <2>3, <2>4, <2>6, <3>1 DEF Once
  <2>9. back = {e}
    <3>1. \A x \in back : /\ x \in DOMAIN books.ledger
                          /\ x.type = "redemption_reversal" /\ x.order = o
      BY DEF Filed
    <3> QED
      BY <1>1, <2>2, <2>5, <2>6, <3>1 DEF Once
  <2>10. all = {f, e}
    BY <1>3, <2>8, <2>9
  <2>11. Points(books.ledger, {f, e}) = 0
    BY <2>3, <2>4, <2>7, OppositesCancel
  <2> QED
    BY <2>10, <2>11
<1> QED
  BY <1>4, <1>5

\* Only the commit of a redemption ends a checkout that redeems in an order.
LEMMA OnlyCommits ==
  ASSUME IInv, [Next]_vars, NEW o \in Orders, status[o] = "validated", status'[o] = "placed"
  PROVE  CommitRedemption(o)
<1>1. status \in [Orders -> {"none", "validated", "placed", "delivered", "cancelled"}]
  BY DEF IInv, StateTypes
<1>2. ASSUME NEW p \in Orders, PlaceOrder(p) PROVE FALSE
  BY <1>1, <1>2 DEF PlaceOrder
<1>3. ASSUME NEW p \in Orders, NEW points \in 1 .. MaxRedeem[p], ValidateRedemption(p, points)
      PROVE  FALSE
  BY <1>1, <1>3 DEF ValidateRedemption
<1>4. ASSUME NEW p \in Orders, CommitRedemption(p) PROVE CommitRedemption(o)
  <2>1. status' = [status EXCEPT ![p] = "placed"]
    BY <1>4 DEF CommitRedemption
  <2>2. p = o
    BY <1>1, <2>1
  <2> QED
    BY <1>4, <2>2
<1>5. ASSUME NEW p \in Orders, RollBackRedemption(p) PROVE FALSE
  BY <1>1, <1>5 DEF RollBackRedemption
<1>6. ASSUME NEW p \in Orders, DeliverForNothing(p) PROVE FALSE
  BY <1>1, <1>6 DEF DeliverForNothing
<1>7. ASSUME NEW p \in Orders, NEW points \in Worth[p], NEW reaches \in BOOLEAN,
             Deliver(p, points, reaches)
      PROVE  FALSE
  <2>1. status' = [status EXCEPT ![p] = "delivered"]
    BY <1>7 DEF Deliver
  <2> QED
    BY <1>1, <2>1
<1>8. ASSUME NEW p \in Orders, CancelOrder(p) PROVE FALSE
  <2>1. status' = [status EXCEPT ![p] = "cancelled"]
    BY <1>8 DEF CancelOrder
  <2> QED
    BY <1>1, <2>1
<1>9. ASSUME status' = status PROVE FALSE
  BY <1>9
<1>10. ASSUME NEW p \in Orders, RefundOrder(p) PROVE FALSE
  BY <1>9, <1>10 DEF RefundOrder
<1>11. ASSUME NEW u \in Users, NEW points \in Amounts, NEW neverExpires \in BOOLEAN,
              AdjustUp(u, points, neverExpires)
       PROVE  FALSE
  BY <1>9, <1>11 DEF AdjustUp
<1>12. ASSUME NEW u \in Users, NEW points \in Amounts, NEW r \in Requests,
              AskDeduction(r, u, points)
       PROVE  FALSE
  BY <1>9, <1>12 DEF AskDeduction
<1>13. ASSUME NEW r \in Requests, AdjustDown(r) PROVE FALSE
  BY <1>9, <1>13 DEF AdjustDown
<1>14. ASSUME NEW u \in Users, NEW k \in DOMAIN books.lots[u], LotRunsOut(u, k) PROVE FALSE
  BY <1>9, <1>14 DEF LotRunsOut
<1>15. ASSUME RunExpiryBatch PROVE FALSE
  BY <1>9, <1>15 DEF RunExpiryBatch
<1>16. ASSUME UNCHANGED vars PROVE FALSE
  BY <1>9, <1>16 DEF vars
<1> QED
  BY <1>2, <1>3, <1>4, <1>5, <1>6, <1>7, <1>8, <1>10, <1>11, <1>12, <1>13, <1>14, <1>15, <1>16
  DEF Next

\* Points are spent oldest first: a lot is touched only when the older ones are
\* empty, whatever consumptions, credits and expiries were run, and what is left
\* of it stays between nothing and what it was.
THEOREM PointsAreSpentOldestFirst == Spec => []LotsInOrder
<1>1. IInv => LotsInOrder
  BY TypesHold, OldestFirstHolds DEF LotsInOrder
<1> QED
  BY <1>1, LoyaltyInvariant, PTL

\* The two tables of points agree: what the lots of a customer have left is what
\* the ledger adds up to, and what deductions asked of lots that did not have it.
THEOREM TheBooksAgree == Spec => []BooksAgree
<1>1. IInv => BooksAgree
  BY DEF IInv, GoodBooks, Agree, BooksAgree
<1> QED
  BY <1>1, LoyaltyInvariant, PTL

\* No movement of an order is filed twice, and a referral pays its bonuses once.
THEOREM NothingIsPaidTwice == Spec => []NothingTwice
<1>1. IInv => OneEntryPerOrder
  BY DEF IInv, FiledInv, Once, OneEntryPerOrder
<1>2. IInv => ReferralsPayOnce
  BY DEF IInv, ReferralInv, Rewarded, BonusesOf, Bonuses, ReferralsPayOnce
<1>3. IInv => NothingTwice
  BY <1>1, <1>2 DEF NothingTwice
<1> QED
  BY <1>3, LoyaltyInvariant, PTL

\* A cancelled order has cost its customer no points and brought them none,
\* however often it was cancelled and its returns refunded.
THEOREM CancellationsUndoPoints == Spec => []CancelledOrdersAreNeutral
<1> QED
  BY Neutral, LoyaltyInvariant, PTL

\* A discount given for points is paid for: at the commit the customer's lots
\* lose exactly the points that were validated before it.
THEOREM DiscountsArePaidFor == Spec => RedemptionsAreCovered
<1>1. IInv /\ [Next]_vars =>
        [\A o \in Orders : status[o] = "validated" /\ status'[o] = "placed" =>
            Spendable(books', Owner[o]) = Spendable(books, Owner[o]) - redemption[o]]_vars
  BY OnlyCommits, CommitRedemptionInv
<1> QED
  BY <1>1, LoyaltyInvariant, PTL DEF Spec, RedemptionsAreCovered
-----------------------------------------------------------------------------
(***************************************************************************)
(* What Messages promises for any number of retry runs, of manual messages *)
(* and of reports.  First the automatic confirmation alone, which is there *)
(* under the mapping that Confirmation uses; then the rows that are filed. *)
(***************************************************************************)

\* Filing a message is a step Notification does not have.
mapped == [s \in Senders |-> IF pc[s] = "log" THEN "mark" ELSE pc[s]]

Base == INSTANCE Notification WITH pc <- mapped

(* The confirmation alone.  OneOwner and OneMessage are not inductive: they  *)
(* need to know where the message of a sender that was not overtaken is on   *)
(* file (Accounted), that an outcome is what Meta did (Honest), and that an  *)
(* owner, past or present, has been through a claim (Owners).                *)
Claimants == {"send", "mark", "done"}

Owners ==
    /\ delivery.status = "pending" =>
          /\ delivery.owner \in Base!Senders \ overtaken
          /\ mapped[delivery.owner] \in Claimants
    /\ \A s \in overtaken : mapped[s] \in Claimants

Honest ==
    \A s \in Base!Senders : mapped[s] = "mark" =>
        /\ outcome[s] # "none"
        /\ outcome[s] = "sent" => s \in accepted
        /\ outcome[s] = "retryable" => s \notin accepted

Accounted ==
    /\ \A s \in accepted : mapped[s] \in {"mark", "done"}
    /\ \A s \in accepted \ overtaken :
          \/ delivery.status = "pending" /\ delivery.owner = s
          \/ delivery.status = "sent"
          \/ delivery.status = "failed" /\ delivery.failure # "retryable"
    /\ delivery.status = "sent" => accepted # {}

Counted ==
    /\ IsFiniteSet(overtaken) /\ AttemptsCapped
    /\ delivery.status = "none" => delivery.attempts = 0

ConfirmationInv == /\ Base!NoticeTypes /\ Base!OneOwner /\ Base!OneMessage
        /\ Owners /\ Honest /\ Accounted /\ Counted

(* What Messages adds to it *)
Places == {"idle", "claim", "read", "takeover", "retry", "send", "log", "mark", "done"}

\* A sender files its row once, before it records the outcome, and truly.
SenderFiles(s) ==
    /\ messages[s].status # "none" => pc[s] \in {"mark", "done"}
    /\ messages[s].status = "sent" => s \in accepted
    /\ pc[s] = "mark" /\ outcome[s] = "sent" => messages[s].status = "sent"

\* So does a request for a manual message.
DeskFiles(a) ==
    /\ desk[a] = "sent" => a \in taken
    /\ messages[a].status # "none" => desk[a] = "done"
    /\ messages[a].status = "sent" => a \in taken

Heard(a) == {e \in events \ (hooks \cup missed) : e[1] = a}

\* What a row shows is the latest of what was heard, and nothing until then.
Shows(a) ==
    /\ Heard(a) # {} => messages[a].status = "sent" /\ messages[a].shown # "null"
    /\ \A e \in Heard(a) : TimeOf(e[2]) <= messages[a].at
    /\ messages[a].status = "sent" /\ messages[a].shown # "null" =>
          <<a, messages[a].shown>> \in Heard(a)

FilingTypes ==
    /\ pc \in [Senders -> Places]
    /\ messages \in [Authors -> Rows]
    /\ desk \in [Manual -> {"idle", "sent", "failed", "done"}]
    /\ taken \subseteq Manual
    /\ events \subseteq Authors \X Statuses
    /\ hooks \subseteq events /\ missed \subseteq events \ hooks

FilingInv ==
    /\ FilingTypes
    /\ \A s \in Senders : SenderFiles(s)
    /\ \A a \in Manual : DeskFiles(a)
    /\ delivery.status = "sent" => \E s \in Senders : messages[s].status = "sent"
    /\ \A a \in Authors : Shows(a)
-----------------------------------------------------------------------------
(* The confirmation, under the mapping *)

\* The senders of the instance are those of the module, and its assumption holds.
LEMMA BaseIsMeant == Base!Senders = Senders
BY DEF Base!Senders, Senders

LEMMA ConstantsAreMeant ==
  /\ Checkout \notin Runs /\ Nobody \notin Base!Senders
  /\ MaxAttempts \in Nat \ {0}
BY NotificationAssumption DEF Base!Senders, Senders

\* A step of one sender is that step under the mapping.
LEMMA GotoIsMapped ==
  ASSUME pc \in [Senders -> Places], NEW s \in Senders, NEW step, Goto(s, step)
  PROVE  /\ mapped' = [mapped EXCEPT ![s] = IF step = "log" THEN "mark" ELSE step]
         /\ mapped[s] = IF pc[s] = "log" THEN "mark" ELSE pc[s]
BY DEF Goto, mapped

\* The first states are those of the confirmation.
LEMMA InitIsMapped == MessagesInit => Base!NoticeInit
BY BaseIsMeant DEF MessagesInit, NoticeInit, Base!NoticeInit, mapped, Base!Senders, Senders

\* Every step is a step of the confirmation, or leaves it alone.
LEMMA StepIsMapped ==
    pc \in [Senders -> Places] /\ [MessagesNext]_allVars => [Base!NoticeNext]_(Base!notice)
<1> SUFFICES ASSUME pc \in [Senders -> Places], [MessagesNext]_allVars, ~ UNCHANGED Base!notice
             PROVE  Base!NoticeNext
  OBVIOUS
<1>1. ~ UNCHANGED notice
  BY DEF notice, Base!notice, mapped
<1>3. ASSUME NEW s \in Senders,
             \/ List(s) \/ FirstClaim(s) \/ ReadRow(s) \/ TakeOver(s)
             \/ RetryClaim(s) \/ Mark(s) \/ Stop(s)
      PROVE  Base!NoticeNext
  <2>1. ASSUME NEW step, Goto(s, step), step # "log"
        PROVE  Base!Goto(s, step)
    BY <2>1, GotoIsMapped DEF Base!Goto
  <2>2. mapped[s] = IF pc[s] = "log" THEN "mark" ELSE pc[s]
    BY DEF mapped
  <2>3. CASE List(s)
    BY <2>1, <2>2, <2>3
    DEF List, Base!List, Base!NoticeNext, Senders, Base!Senders, MayRetry, Base!MayRetry
  <2>4. CASE FirstClaim(s)
    <3>1. Base!FirstClaim(s)
      BY <2>1, <2>2, <2>4 DEF FirstClaim, Base!FirstClaim, Claimed, Base!Claimed
    <3> QED
      BY <3>1, BaseIsMeant DEF Base!NoticeNext
  <2>5. CASE ReadRow(s)
    <3>1. Base!ReadRow(s)
      BY <2>1, <2>2, <2>5 DEF ReadRow, Base!ReadRow, MayRetry, Base!MayRetry
    <3> QED
      BY <3>1, BaseIsMeant DEF Base!NoticeNext
  <2>6. CASE TakeOver(s)
    <3>1. Base!TakeOver(s)
      BY <2>1, <2>2, <2>6 DEF TakeOver, Base!TakeOver, Claimed, Base!Claimed
    <3> QED
      BY <3>1, BaseIsMeant DEF Base!NoticeNext
  <2>7. CASE RetryClaim(s)
    <3>1. Base!RetryClaim(s)
      BY <2>1, <2>2, <2>7 DEF RetryClaim, Base!RetryClaim, RetryClaimIf, Base!RetryClaimIf,
         Claimed, Base!Claimed, MayRetry, Base!MayRetry
    <3> QED
      BY <3>1, BaseIsMeant DEF Base!NoticeNext
  <2>8. CASE Mark(s)
    <3>1. Base!Mark(s)
      BY <2>1, <2>2, <2>8 DEF Mark, Base!Mark, MarkIf, Base!MarkIf, Recorded, Base!Recorded
    <3> QED
      BY <3>1, BaseIsMeant DEF Base!NoticeNext
  <2>9. CASE Stop(s)
    <3>1. Base!Stop(s)
      BY <2>1, <2>2, <2>9 DEF Stop, Base!Stop
    <3> QED
      BY <3>1, BaseIsMeant DEF Base!NoticeNext
  <2> QED
    BY <1>3, <2>3, <2>4, <2>5, <2>6, <2>7, <2>8, <2>9
<1>4. CASE StartCheckout
  BY <1>4, GotoIsMapped DEF StartCheckout, Senders, Base!NoticeNext, Base!StartCheckout, Base!Goto
<1>5. CASE LeaseEnds
  <2>1. mapped' = mapped
    BY <1>5 DEF LeaseEnds, mapped
  <2> QED
    BY <1>5, <2>1 DEF LeaseEnds, Base!LeaseEnds, Base!NoticeNext
<1>6. ASSUME NEW s \in Senders, SendAndLog(s) \/ NumberInvalid(s) PROVE Base!NoticeNext
  <2>1. pc[s] = "send" /\ mapped' = [mapped EXCEPT ![s] = "mark"] /\ mapped[s] = "send"
    BY <1>6, GotoIsMapped DEF SendAndLog, Answer, NumberInvalid
  <2>2. Base!Answer(s)
    BY <1>6, <2>1 DEF SendAndLog, Answer, NumberInvalid, Base!Answer, Failures, Base!Failures
  <2>3. Base!Send(s)
    BY <2>1, <2>2 DEF Base!Send, Base!Goto
  <2> QED
    BY <2>3, BaseIsMeant DEF Base!NoticeNext
<1>7. ASSUME NEW s \in Senders, LogMessage(s) PROVE UNCHANGED Base!notice
  <2>1. Goto(s, "mark") /\ pc[s] = "log"
    BY <1>7 DEF LogMessage
  <2>2. pc' = [pc EXCEPT ![s] = "mark"]
    BY <2>1 DEF Goto
  <2>3. mapped' = mapped
    BY <2>1, <2>2 DEF mapped
  <2> QED
    BY <1>7, <2>3 DEF LogMessage, Base!notice
<1>8. ASSUME NEW a \in Manual, SendManually(a) \/ LogManually(a) \/ StopManually(a)
      PROVE  UNCHANGED notice
  BY <1>8 DEF SendManually, LogManually, FileManually, StopManually, notice
<1>9. ASSUME NEW a \in Authors, NEW reported \in Statuses,
             HookInsert(a, reported) \/ HookUpdate(a, reported) \/ HookStop(a, reported)
      PROVE  UNCHANGED notice
  BY <1>9 DEF HookInsert, HookUpdate, HookUpdateIf, HookStop
<1>10. ~ UNCHANGED allVars
  BY <1>1 DEF allVars
<1> QED
  BY <1>1, <1>3, <1>4, <1>5, <1>6, <1>7, <1>8, <1>9, <1>10 DEF MessagesNext, ClaimOrRecord

\* A sender that goes on: whoever has Meta's answer has nothing left but to end.
Goes(s) ==
    \E step \in {"claim", "read", "takeover", "retry", "send", "done"} :
        /\ pc' = [pc EXCEPT ![s] = step] /\ pc[s] # "done"
        /\ pc[s] \in {"mark", "log"} => step = "done"

\* The steps of a sender on the row of the confirmation: where they leave that sender, and
\* when they leave the row at sent.
LEMMA SenderGoes ==
  ASSUME delivery \in Deliveries, NEW s \in Senders,
         \/ List(s) \/ FirstClaim(s) \/ ReadRow(s) \/ TakeOver(s)
         \/ RetryClaim(s) \/ Mark(s) \/ Stop(s)
  PROVE  /\ Goes(s) /\ outcome' = outcome /\ accepted' = accepted
         /\ delivery'.status = "sent" =>
               delivery.status = "sent" \/ (pc[s] = "mark" /\ outcome[s] = "sent")
<1>1. CASE List(s)
  BY <1>1 DEF List, Goto, Goes
<1>2. CASE ReadRow(s)
  <2>1. PICK step \in {"takeover", "retry", "done"} : Goto(s, step)
    BY <1>2 DEF ReadRow
  <2> QED
    BY <1>2, <2>1 DEF ReadRow, Goto, Goes
<1>3. CASE Stop(s)
  BY <1>3 DEF Stop, Goto, Goes
<1>4. Claimed(s).status = "pending"
  BY DEF Claimed, Deliveries
<1>5. CASE FirstClaim(s)
  BY <1>4, <1>5 DEF FirstClaim, Goto, Goes
<1>6. CASE TakeOver(s)
  BY <1>4, <1>6 DEF TakeOver, Goto, Goes
<1>7. CASE RetryClaim(s)
  BY <1>4, <1>7 DEF RetryClaim, RetryClaimIf, Goto, Goes
<1>8. CASE Mark(s)
  <2>1. Recorded(s).status = "sent" => outcome[s] = "sent"
    BY DEF Recorded, Deliveries
  <2> QED
    BY <1>8, <2>1 DEF Mark, MarkIf, Goto, Goes
<1> QED
  BY <1>1, <1>2, <1>3, <1>5, <1>6, <1>7, <1>8
-----------------------------------------------------------------------------
(* The delivery row and its senders *)
\* Before the first claim there is no owner, no message and no attempt.
LEMMA NotificationInit == Base!NoticeInit => ConfirmationInv
<1> SUFFICES ASSUME Base!NoticeInit PROVE ConfirmationInv
  OBVIOUS
<1> USE ConstantsAreMeant DEF Base!NoticeInit
<1>1. Base!NoticeTypes
  BY DEF Base!NoticeTypes, Base!Deliveries, Base!Senders, Base!Failures
<1>2. Base!OneOwner /\ Base!OneMessage /\ Owners /\ Honest /\ Accounted
  BY DEF Base!OneOwner, Base!OneMessage, Owners, Honest, Accounted, Claimants
<1>3. Counted
  BY FS_EmptySet DEF Counted, AttemptsCapped
<1> QED
  BY <1>1, <1>2, <1>3 DEF ConfirmationInv

\* A sender that claims a row nobody holds, or whose lease it takes over.
LEMMA ClaimKeepsInv ==
  ASSUME ConfirmationInv, NEW s \in Base!Senders, mapped[s] \in {"claim", "retry", "takeover"},
         delivery' = Base!Claimed(s), Base!Goto(s, "send"), UNCHANGED <<outcome, accepted>>,
         \/ /\ delivery.status = "none" \/ Base!MayRetry
            /\ delivery.attempts < MaxAttempts
            /\ overtaken' = overtaken
         \/ /\ delivery.status = "pending"
            /\ overtaken' = overtaken \cup {delivery.owner}
  PROVE  ConfirmationInv'
<1> USE ConstantsAreMeant
<1> DEFINE tries == delivery.attempts + 1
<1>0. delivery \in Base!Deliveries /\ tries \in Nat
  BY DEF ConfirmationInv, Base!NoticeTypes, Base!Deliveries
<1>1. /\ delivery \in Base!Deliveries /\ delivery' \in Base!Deliveries
      /\ delivery'.status = "pending" /\ delivery'.owner = s
      /\ delivery'.attempts = tries
  <2> HIDE DEF tries
  <2>1. delivery' = [delivery EXCEPT !.status = "pending", !.owner = s,
                          !.lease = "running", !.attempts = tries]
    BY DEF Base!Claimed, tries
  <2> QED
    BY <1>0, <2>1 DEF Base!Deliveries
<1>2. mapped' = [mapped EXCEPT ![s] = "send"] /\ mapped \in [Base!Senders -> {"idle", "claim",
            "read", "takeover", "retry", "send", "mark", "done"}]
  BY DEF ConfirmationInv, Base!NoticeTypes, Base!Goto
<1>3. overtaken' \subseteq Base!Senders /\ overtaken \subseteq overtaken'
  BY DEF ConfirmationInv, Base!NoticeTypes, Owners
<1>4. s \notin overtaken'
  BY DEF ConfirmationInv, Owners, Claimants
<1>5. Base!NoticeTypes'
  BY <1>1, <1>2, <1>3 DEF ConfirmationInv, Base!NoticeTypes, Base!Senders
<1>6. ASSUME NEW t \in Base!Senders \ overtaken', t # s
      PROVE  mapped[t] \notin {"send", "mark"} /\ t \notin accepted
  <2>1. CASE delivery.status = "pending"
    BY <2>1, <1>6 DEF ConfirmationInv, Base!OneOwner, Accounted, Base!MayRetry
  <2>2. CASE delivery.status # "pending"
    BY <2>2, <1>6, <1>3
    DEF ConfirmationInv, Base!OneOwner, Accounted, Base!MayRetry, Base!NoticeTypes
  <2> QED
    BY <2>1, <2>2
<1>7. Base!OneOwner'
  BY <1>1, <1>2, <1>6 DEF Base!OneOwner
<1>8. s \notin accepted
  BY DEF ConfirmationInv, Accounted
<1>9. Base!OneMessage'
  BY <1>6, <1>8 DEF ConfirmationInv, Base!OneMessage, Base!NoticeTypes
<1>10. Owners'
  BY <1>1, <1>2, <1>3, <1>4 DEF ConfirmationInv, Owners, Claimants
<1>11. Honest'
  BY <1>2 DEF ConfirmationInv, Honest
<1>12. Accounted'
  BY <1>1, <1>2, <1>6, <1>8 DEF ConfirmationInv, Accounted, Base!NoticeTypes
<1>13. Counted'
  <2>1. CASE overtaken' = overtaken /\ delivery.attempts < MaxAttempts
    <3>1. Cardinality(overtaken) \in Nat
      BY FS_CardinalityType DEF ConfirmationInv, Counted
    <3> QED
      BY <2>1, <3>1, <1>1 DEF ConfirmationInv, Counted, AttemptsCapped, Base!Deliveries
  <2>2. CASE delivery.status = "pending" /\ overtaken' = overtaken \cup {delivery.owner}
    <3>1. Cardinality(overtaken) \in Nat
      BY FS_CardinalityType DEF ConfirmationInv, Counted
    <3>2. delivery.owner \notin overtaken
      BY <2>2 DEF ConfirmationInv, Owners
    <3>3. /\ IsFiniteSet(overtaken')
          /\ Cardinality(overtaken') = Cardinality(overtaken) + 1
      BY <2>2, <3>2, FS_AddElement DEF ConfirmationInv, Counted
    <3> QED
      BY <3>1, <3>3, <1>1 DEF ConfirmationInv, Counted, AttemptsCapped, Base!Deliveries
  <2> QED
    BY <2>1, <2>2
<1> QED
  BY <1>5, <1>7, <1>9, <1>10, <1>11, <1>12, <1>13 DEF ConfirmationInv

\* A sender that goes on without touching the row, or stops.
LEMMA WalkKeepsInv ==
  ASSUME ConfirmationInv, NEW s \in Base!Senders,
         NEW to \in {"claim", "read", "takeover", "retry", "done"},
         \/ mapped[s] \in {"idle", "claim", "read", "takeover", "retry"}
         \/ to = "done",
         to # "done" => mapped[s] \in {"idle", "claim", "read"},
         Base!Goto(s, to), UNCHANGED <<delivery, outcome, accepted, overtaken>>
  PROVE  ConfirmationInv'
<1>1. mapped' = [mapped EXCEPT ![s] = to] /\ mapped \in [Base!Senders -> {"idle", "claim",
            "read", "takeover", "retry", "send", "mark", "done"}]
  BY DEF ConfirmationInv, Base!NoticeTypes, Base!Goto
<1>2. Base!NoticeTypes' /\ Base!OneOwner' /\ Base!OneMessage' /\ Counted'
  BY <1>1
  DEF ConfirmationInv, Base!NoticeTypes, Base!OneOwner, Base!OneMessage, Counted, AttemptsCapped
<1>3. Owners'
  BY <1>1 DEF ConfirmationInv, Owners, Claimants, Base!NoticeTypes
<1>4. Honest' /\ Accounted'
  BY <1>1 DEF ConfirmationInv, Honest, Accounted, Base!NoticeTypes
<1> QED
  BY <1>2, <1>3, <1>4 DEF ConfirmationInv

\* Meta answers s: at most one sender that was not overtaken is here.
LEMMA SendKeepsInv ==
  ASSUME ConfirmationInv, NEW s \in Base!Senders, Base!Send(s)
  PROVE  ConfirmationInv'
<1> USE ConstantsAreMeant
<1>1. /\ mapped[s] = "send"
      /\ mapped' = [mapped EXCEPT ![s] = "mark"] /\ mapped \in [Base!Senders -> {"idle", "claim",
            "read", "takeover", "retry", "send", "mark", "done"}]
      /\ delivery' = delivery /\ overtaken' = overtaken
  BY DEF ConfirmationInv, Base!NoticeTypes, Base!Send, Base!Answer, Base!Goto
<1>2. /\ outcome \in [Base!Senders -> Base!Failures \cup {"none", "sent"}]
      /\ \E end \in Base!Failures \cup {"sent"} :
            /\ outcome' = [outcome EXCEPT ![s] = end]
            /\ \/ accepted' = accepted /\ end # "sent"
               \/ accepted' = accepted \cup {s} /\ end # "retryable"
  BY DEF ConfirmationInv, Base!NoticeTypes, Base!Send, Base!Answer, Base!Failures
<1>3. s \notin accepted
  BY <1>1 DEF ConfirmationInv, Accounted
<1>4. s \notin overtaken => delivery.status = "pending" /\ delivery.owner = s
  BY <1>1 DEF ConfirmationInv, Base!OneOwner
<1>5. Base!NoticeTypes'
  BY <1>1, <1>2 DEF ConfirmationInv, Base!NoticeTypes
<1>6. Base!OneOwner' /\ Owners' /\ Counted'
  BY <1>1 DEF ConfirmationInv, Base!OneOwner, Owners, Claimants, Counted, AttemptsCapped
<1>7. Honest'
  <2> PICK end \in Base!Failures \cup {"sent"} :
        /\ outcome' = [outcome EXCEPT ![s] = end]
        /\ \/ accepted' = accepted /\ end # "sent"
           \/ accepted' = accepted \cup {s} /\ end # "retryable"
    BY <1>2
  <2>1. end # "none"
    BY DEF Base!Failures
  <2>2. ASSUME NEW t \in Base!Senders, t # s, mapped'[t] = "mark"
        PROVE  /\ mapped[t] = "mark" /\ outcome'[t] = outcome[t]
               /\ t \in accepted' <=> t \in accepted
    BY <2>2, <1>1, <1>2
  <2>3. outcome'[s] = end
    BY <1>2
  <2> QED
    BY <1>3, <2>1, <2>2, <2>3 DEF ConfirmationInv, Honest
<1>8. Accounted'
  BY <1>1, <1>2, <1>4 DEF ConfirmationInv, Accounted, Base!NoticeTypes
<1>9. Base!OneMessage'
  BY <1>1, <1>2, <1>4 DEF ConfirmationInv, Base!OneMessage, Accounted
<1> QED
  BY <1>5, <1>6, <1>7, <1>8, <1>9 DEF ConfirmationInv

\* The owner records what Meta answered; anybody else records nothing.
LEMMA MarkKeepsInv ==
  ASSUME ConfirmationInv, NEW s \in Base!Senders, Base!Mark(s)
  PROVE  ConfirmationInv'
<1> USE ConstantsAreMeant
<1>1. CASE ~(delivery.status = "pending" /\ delivery.owner = s)
  <2>1. Base!Goto(s, "done") /\ UNCHANGED <<delivery, outcome, accepted, overtaken>>
    BY <1>1 DEF Base!Mark, Base!MarkIf
  <2> QED
    BY <2>1, WalkKeepsInv
<1>2. CASE delivery.status = "pending" /\ delivery.owner = s
  <2>1. /\ mapped[s] = "mark"
        /\ mapped' = [mapped EXCEPT ![s] = "done"] /\ mapped \in [Base!Senders -> {"idle", "claim",
              "read", "takeover", "retry", "send", "mark", "done"}]
        /\ delivery' = Base!Recorded(s) /\ delivery \in Base!Deliveries
        /\ UNCHANGED <<outcome, accepted, overtaken>>
    BY <1>2 DEF ConfirmationInv, Base!NoticeTypes, Base!Mark, Base!MarkIf, Base!Goto
  <2>2. outcome[s] \in Base!Failures \cup {"sent"}
    BY <2>1 DEF ConfirmationInv, Base!NoticeTypes, Honest
  <2>3. /\ delivery' \in Base!Deliveries /\ delivery'.owner = Nobody
        /\ delivery'.attempts = delivery.attempts
        /\ \/ delivery'.status = "sent" /\ outcome[s] = "sent"
           \/ /\ delivery'.status = "failed" /\ outcome[s] # "sent"
              /\ delivery'.failure = outcome[s]
    BY <2>1, <2>2 DEF Base!Recorded, Base!Deliveries
  <2>4. Base!NoticeTypes'
    BY <2>1, <2>3 DEF ConfirmationInv, Base!NoticeTypes
  <2>5. Base!OneOwner'
    BY <2>1, <1>2 DEF ConfirmationInv, Base!OneOwner
  <2>6. Base!OneMessage' /\ Honest'
    BY <2>1 DEF ConfirmationInv, Base!OneMessage, Honest
  <2>7. Owners'
    BY <2>1, <2>3 DEF ConfirmationInv, Owners, Claimants, Base!NoticeTypes
  <2>8. Accounted'
    BY <1>2, <2>1, <2>3 DEF ConfirmationInv, Accounted, Honest, Base!NoticeTypes
  <2>9. Counted'
    BY <2>1, <2>3 DEF ConfirmationInv, Counted, AttemptsCapped
  <2> QED
    BY <2>4, <2>5, <2>6, <2>7, <2>8, <2>9 DEF ConfirmationInv
<1> QED
  BY <1>1, <1>2

\* Time passes: the row keeps its owner.
LEMMA LeaseEndKeepsInv ==
  ASSUME ConfirmationInv, Base!LeaseEnds
  PROVE  ConfirmationInv'
<1>1. /\ delivery \in Base!Deliveries /\ delivery' \in Base!Deliveries
      /\ delivery'.status = delivery.status /\ delivery'.owner = delivery.owner
      /\ delivery'.failure = delivery.failure
      /\ delivery'.attempts = delivery.attempts
      /\ UNCHANGED <<mapped, outcome, accepted, overtaken>>
  BY DEF ConfirmationInv, Base!NoticeTypes, Base!LeaseEnds, Base!Deliveries
<1>2. Base!NoticeTypes' /\ Base!OneOwner' /\ Base!OneMessage' /\ Counted'
  BY <1>1
  DEF ConfirmationInv, Base!NoticeTypes, Base!OneOwner, Base!OneMessage, Counted, AttemptsCapped
<1>3. Owners' /\ Honest' /\ Accounted'
  BY <1>1 DEF ConfirmationInv, Owners, Claimants, Honest, Accounted
<1> QED
  BY <1>2, <1>3 DEF ConfirmationInv

-----------------------------------------------------------------------------
LEMMA NotificationStep == ConfirmationInv /\ [Base!NoticeNext]_(Base!notice) => ConfirmationInv'
<1> SUFFICES ASSUME ConfirmationInv, [Base!NoticeNext]_(Base!notice) PROVE ConfirmationInv'
  OBVIOUS
<1>1. CASE Base!StartCheckout
  BY <1>1, WalkKeepsInv DEF Base!StartCheckout, Base!Senders
<1>2. CASE \E s \in Base!Senders : Base!List(s)
  BY <1>2, WalkKeepsInv DEF Base!List
<1>3. CASE \E s \in Base!Senders : Base!FirstClaim(s)
  <2> PICK s \in Base!Senders : Base!FirstClaim(s)
    BY <1>3
  <2>1. CASE delivery.status = "none"
    <3>1. delivery.attempts < MaxAttempts
      BY <2>1, ConstantsAreMeant DEF ConfirmationInv, Counted
    <3> QED
      BY <2>1, <3>1, ClaimKeepsInv DEF Base!FirstClaim
  <2>2. CASE delivery.status # "none"
    BY <2>2, WalkKeepsInv DEF Base!FirstClaim
  <2> QED
    BY <2>1, <2>2
<1>4. CASE \E s \in Base!Senders : Base!ReadRow(s)
  <2> PICK s \in Base!Senders : Base!ReadRow(s)
    BY <1>4
  <2> QED
    BY WalkKeepsInv DEF Base!ReadRow
<1>5. CASE \E s \in Base!Senders : Base!TakeOver(s)
  <2> PICK s \in Base!Senders : Base!TakeOver(s)
    BY <1>5
  <2>1. CASE delivery.status = "pending" /\ delivery.lease = "over"
    BY <2>1, ClaimKeepsInv DEF Base!TakeOver
  <2>2. CASE ~(delivery.status = "pending" /\ delivery.lease = "over")
    BY <2>2, WalkKeepsInv DEF Base!TakeOver
  <2> QED
    BY <2>1, <2>2
<1>6. CASE \E s \in Base!Senders : Base!RetryClaim(s)
  <2> PICK s \in Base!Senders : Base!RetryClaim(s)
    BY <1>6
  <2>1. CASE Base!MayRetry
    BY <2>1, ClaimKeepsInv DEF Base!RetryClaim, Base!RetryClaimIf, Base!MayRetry
  <2>2. CASE ~Base!MayRetry
    BY <2>2, WalkKeepsInv DEF Base!RetryClaim, Base!RetryClaimIf
  <2> QED
    BY <2>1, <2>2
<1>7. CASE \E s \in Base!Senders : Base!Send(s)
  BY <1>7, SendKeepsInv
<1>8. CASE \E s \in Base!Senders : Base!Mark(s)
  BY <1>8, MarkKeepsInv
<1>9. CASE \E s \in Base!Senders : Base!Stop(s)
  BY <1>9, WalkKeepsInv DEF Base!Stop
<1>10. CASE Base!LeaseEnds
  BY <1>10, LeaseEndKeepsInv
<1>11. CASE UNCHANGED Base!notice
  BY <1>11 DEF Base!notice, ConfirmationInv, Base!NoticeTypes, Base!OneOwner, Base!OneMessage,
     Owners, Claimants,
               Honest, Accounted, Counted, AttemptsCapped
<1> QED
  BY <1>1, <1>2, <1>3, <1>4, <1>5, <1>6, <1>7, <1>8, <1>9, <1>10, <1>11 DEF Base!NoticeNext
-----------------------------------------------------------------------------
(* The rows *)

\* Before the first message there is no row and no report.
LEMMA FilingInit == MessagesInit => FilingInv
<1> SUFFICES ASSUME MessagesInit PROVE FilingInv
  OBVIOUS
<1>1. FilingTypes
  BY DEF MessagesInit, NoticeInit, FilingTypes, Places, Rows
<1>2. \A s \in Senders : SenderFiles(s)
  BY DEF MessagesInit, NoticeInit, SenderFiles, Authors
<1>3. \A a \in Manual : DeskFiles(a)
  BY DEF MessagesInit, DeskFiles, Authors
<1>4. \A a \in Authors : Shows(a)
  BY DEF MessagesInit, Shows, Heard
<1>5. delivery.status # "sent"
  BY DEF MessagesInit, NoticeInit
<1> QED
  BY <1>1, <1>2, <1>3, <1>4, <1>5 DEF FilingInv

\* Claiming, recording and stopping file nothing.
LEMMA ClaimOrRecordKeepsRows ==
  ASSUME FilingInv, delivery \in Deliveries, ClaimOrRecord
  PROVE  FilingInv'
<1>1. UNCHANGED <<messages, desk, taken, events, hooks, missed>>
  BY DEF ClaimOrRecord, filing
<1>2. /\ (pc' = pc \/ \E s \in Senders : Goes(s))
      /\ outcome' = outcome /\ accepted' = accepted
      /\ delivery'.status = "sent" =>
            delivery.status = "sent" \/ \E s \in Senders : pc[s] = "mark" /\ outcome[s] = "sent"
  <2>1. CASE StartCheckout
    BY <2>1 DEF StartCheckout, Senders, Goes, Goto
  <2>2. CASE LeaseEnds
    BY <2>2 DEF LeaseEnds, Deliveries
  <2> QED
    BY <2>1, <2>2, SenderGoes DEF ClaimOrRecord
<1>3. pc \in [Senders -> Places]
  BY DEF FilingInv, FilingTypes
<1>4. /\ pc' \in [Senders -> Places]
      /\ \A s \in Senders : /\ pc[s] \in {"mark", "done"} => pc'[s] \in {"mark", "done"}
                            /\ pc'[s] = "mark" => pc[s] = "mark"
  BY <1>2, <1>3 DEF Goes, Places
<1>5. FilingTypes'
  BY <1>1, <1>4 DEF FilingInv, FilingTypes
<1>6. ASSUME NEW s \in Senders PROVE SenderFiles(s)'
  BY <1>1, <1>2, <1>4 DEF FilingInv, SenderFiles
<1>7. ASSUME NEW a \in Manual PROVE DeskFiles(a)'
  BY <1>1 DEF FilingInv, DeskFiles
<1>8. ASSUME NEW a \in Authors PROVE Shows(a)'
  BY <1>1 DEF FilingInv, Shows, Heard
<1>9. delivery'.status = "sent" => \E s \in Senders : messages'[s].status = "sent"
  BY <1>1, <1>2 DEF FilingInv, SenderFiles
<1> QED
  BY <1>5, <1>6, <1>7, <1>8, <1>9 DEF FilingInv

\* Meta answers a sender, or it finds the number to be none; nothing is filed yet.
LEMMA AnswerKeepsRows ==
  ASSUME FilingInv, outcome \in [Senders -> Failures \cup {"none", "sent"}],
         NEW s \in Senders, SendAndLog(s) \/ NumberInvalid(s)
  PROVE  FilingInv'
<1>1. UNCHANGED <<messages, desk, taken, events, hooks, missed>> /\ delivery' = delivery
  BY DEF SendAndLog, Answer, NumberInvalid, filing
<1>2. /\ pc[s] = "send" /\ accepted \subseteq accepted'
      /\ \E step \in {"log", "mark"} : pc' = [pc EXCEPT ![s] = step]
      /\ \A q \in Senders \ {s} : outcome'[q] = outcome[q]
  BY DEF SendAndLog, Answer, NumberInvalid, Goto
<1>3. pc' = [pc EXCEPT ![s] = "log"] \/ outcome'[s] = "permanent"
  BY DEF SendAndLog, NumberInvalid, Goto
<1>4. pc \in [Senders -> Places] /\ pc' \in [Senders -> Places]
  BY <1>2 DEF FilingInv, FilingTypes, Places
<1>5. FilingTypes'
  BY <1>1, <1>4 DEF FilingInv, FilingTypes
<1>6. ASSUME NEW q \in Senders PROVE SenderFiles(q)'
  <2>1. CASE q = s
    <3>1. messages[s].status = "none"
      BY <1>2 DEF FilingInv, SenderFiles
    <3> QED
      BY <1>1, <1>3, <1>4, <2>1, <3>1 DEF SenderFiles
  <2>2. CASE q # s
    BY <1>1, <1>2, <1>4, <2>2 DEF FilingInv, SenderFiles
  <2> QED
    BY <2>1, <2>2
<1>7. ASSUME NEW a \in Manual PROVE DeskFiles(a)'
  BY <1>1 DEF FilingInv, DeskFiles
<1>8. ASSUME NEW a \in Authors PROVE Shows(a)'
  BY <1>1 DEF FilingInv, Shows, Heard
<1>9. delivery'.status = "sent" => \E q \in Senders : messages'[q].status = "sent"
  BY <1>1 DEF FilingInv
<1> QED
  BY <1>5, <1>6, <1>7, <1>8, <1>9 DEF FilingInv

\* A row that is filed was not there, and shows nothing before a report of it is heard.
LEMMA NewRowShows ==
  ASSUME FilingInv, NEW a \in Authors, NEW answer, messages[a].status = "none",
         messages' = [messages EXCEPT ![a] = Row(answer)],
         UNCHANGED <<events, hooks, missed>>
  PROVE  /\ messages' \in [Authors -> Rows]
         /\ messages'[a].status = IF answer = "sent" THEN "sent" ELSE "failed"
         /\ \A b \in Authors \ {a} : messages'[b] = messages[b]
         /\ \A b \in Authors : Shows(b)'
<1>1. messages \in [Authors -> Rows] /\ Row(answer) \in Rows
  BY DEF FilingInv, FilingTypes, Row, Rows
<1>2. /\ messages'[a] = Row(answer) /\ messages' \in [Authors -> Rows]
      /\ \A b \in Authors \ {a} : messages'[b] = messages[b]
  BY <1>1
<1>3. \A b \in Authors : Heard(b)' = Heard(b)
  BY DEF Heard
<1>4. Heard(a) = {}
  BY DEF FilingInv, Shows
<1>5. Shows(a)'
  BY <1>2, <1>3, <1>4 DEF Shows, Row
<1>6. ASSUME NEW b \in Authors \ {a} PROVE Shows(b)'
  BY <1>2, <1>3 DEF FilingInv, Shows
<1> QED
  BY <1>2, <1>5, <1>6 DEF Row

\* A sender files the row of its message, before it records what became of it.
LEMMA LogKeepsRows ==
  ASSUME FilingInv, outcome \in [Senders -> Failures \cup {"none", "sent"}],
         NEW s \in Senders, LogMessage(s), outcome[s] = "sent" => s \in accepted
  PROVE  FilingInv'
<1>1. /\ pc[s] = "log" /\ messages' = [messages EXCEPT ![s] = Row(outcome[s])]
      /\ pc' = [pc EXCEPT ![s] = "mark"]
      /\ UNCHANGED <<delivery, outcome, accepted, desk, taken, events, hooks, missed>>
  BY DEF LogMessage, Goto
<1>2. messages[s].status = "none" /\ s \in Authors
  BY <1>1 DEF FilingInv, SenderFiles, Authors
<1>3. /\ messages' \in [Authors -> Rows]
      /\ messages'[s].status = IF outcome[s] = "sent" THEN "sent" ELSE "failed"
      /\ \A b \in Authors \ {s} : messages'[b] = messages[b]
      /\ \A b \in Authors : Shows(b)'
  BY <1>1, <1>2, NewRowShows
<1>4. pc \in [Senders -> Places] /\ pc' \in [Senders -> Places]
  BY <1>1 DEF FilingInv, FilingTypes, Places
<1>5. FilingTypes'
  BY <1>1, <1>3, <1>4 DEF FilingInv, FilingTypes
<1>6. ASSUME NEW q \in Senders PROVE SenderFiles(q)'
  <2>1. CASE q = s
    BY <1>1, <1>3, <1>4, <2>1 DEF SenderFiles
  <2>2. CASE q # s
    BY <1>1, <1>3, <1>4, <2>2 DEF FilingInv, SenderFiles, Authors
  <2> QED
    BY <2>1, <2>2
<1>7. ASSUME NEW a \in Manual PROVE DeskFiles(a)'
  BY <1>1, <1>3, MessagesAssumption DEF FilingInv, DeskFiles, Authors
<1>8. delivery'.status = "sent" => \E q \in Senders : messages'[q].status = "sent"
  <2> SUFFICES ASSUME delivery.status = "sent"
               PROVE  \E q \in Senders : messages'[q].status = "sent"
    BY <1>1
  <2>1. PICK q \in Senders : messages[q].status = "sent"
    BY DEF FilingInv
  <2> QED
    BY <1>2, <1>3, <2>1 DEF Authors
<1> QED
  BY <1>3, <1>5, <1>6, <1>7, <1>8 DEF FilingInv

\* A manual message is sent, and filed; nothing of the confirmation is read or written.
LEMMA DeskKeepsRows ==
  ASSUME FilingInv, NEW a \in Manual, SendManually(a) \/ LogManually(a) \/ StopManually(a)
  PROVE  FilingInv'
<1>1. a \in Authors /\ a \notin Senders
  BY MessagesAssumption DEF Authors
<1>2. /\ desk \in [Manual -> {"idle", "sent", "failed", "done"}]
      /\ pc' = pc /\ outcome' = outcome /\ accepted' = accepted /\ delivery' = delivery
      /\ UNCHANGED <<events, hooks, missed>>
  BY DEF FilingInv, FilingTypes, SendManually, LogManually, FileManually, StopManually, notice
<1>3. /\ \A b \in Manual \ {a} : desk'[b] = desk[b]
      /\ taken \subseteq taken' /\ taken' \subseteq Manual
      /\ desk' \in [Manual -> {"idle", "sent", "failed", "done"}]
      /\ desk[a] # "done"
      /\ desk'[a] = "sent" => a \in taken'
  BY <1>2 DEF FilingInv, FilingTypes, SendManually, LogManually, FileManually, StopManually
<1>4. CASE messages' = messages
  <2>1. FilingTypes'
    BY <1>2, <1>3, <1>4 DEF FilingInv, FilingTypes
  <2>2. ASSUME NEW b \in Manual PROVE DeskFiles(b)'
    BY <1>2, <1>3, <1>4 DEF FilingInv, DeskFiles
  <2>3. ASSUME NEW b \in Authors PROVE Shows(b)'
    BY <1>2, <1>4 DEF FilingInv, Shows, Heard
  <2>4. ASSUME NEW s \in Senders PROVE SenderFiles(s)'
    BY <1>2, <1>4 DEF FilingInv, SenderFiles
  <2> QED
    BY <1>2, <1>4, <2>1, <2>2, <2>3, <2>4 DEF FilingInv
<1>5. CASE LogManually(a)
  <2>1. /\ messages' = [messages EXCEPT ![a] = Row(desk[a])] /\ desk'[a] = "done"
        /\ desk[a] \in {"sent", "failed"} /\ taken' = taken
    BY <1>2, <1>5 DEF LogManually, FileManually
  <2>2. messages[a].status = "none"
    BY <2>1 DEF FilingInv, DeskFiles
  <2>3. /\ messages' \in [Authors -> Rows]
        /\ messages'[a].status = IF desk[a] = "sent" THEN "sent" ELSE "failed"
        /\ \A b \in Authors \ {a} : messages'[b] = messages[b]
        /\ \A b \in Authors : Shows(b)'
    BY <1>1, <1>2, <2>1, <2>2, NewRowShows
  <2>4. FilingTypes'
    BY <1>2, <1>3, <2>3 DEF FilingInv, FilingTypes
  <2>5. ASSUME NEW b \in Manual PROVE DeskFiles(b)'
    <3>1. CASE b = a
      BY <2>1, <2>3, <3>1 DEF FilingInv, DeskFiles
    <3>2. CASE b # a
      BY <1>3, <2>3, <3>2 DEF FilingInv, DeskFiles, Authors
    <3> QED
      BY <3>1, <3>2
  <2>6. ASSUME NEW s \in Senders PROVE SenderFiles(s)'
    BY <1>1, <1>2, <2>3 DEF FilingInv, SenderFiles, Authors
  <2>7. delivery'.status = "sent" => \E q \in Senders : messages'[q].status = "sent"
    BY <1>1, <1>2, <2>3 DEF FilingInv, Authors
  <2> QED
    BY <2>3, <2>4, <2>5, <2>6, <2>7 DEF FilingInv
<1> QED
  BY <1>4, <1>5 DEF SendManually, StopManually

\* A report is filed, and read later, or its reading stops.
LEMMA HookKeepsRows ==
  ASSUME FilingInv, NEW a \in Authors, NEW reported \in Statuses,
         HookInsert(a, reported) \/ HookUpdate(a, reported) \/ HookStop(a, reported)
  PROVE  FilingInv'
<1> DEFINE e == <<a, reported>>
<1>1. /\ UNCHANGED <<pc, delivery, outcome, accepted, desk, taken>>
      /\ events \subseteq Authors \X Statuses /\ messages \in [Authors -> Rows]
      /\ hooks \subseteq events /\ missed \subseteq events \ hooks
  BY DEF FilingInv, FilingTypes, HookInsert, HookUpdate, HookUpdateIf, HookStop, notice
<1>2. /\ messages' \in [Authors -> Rows]
      /\ \A b \in Authors : messages'[b].status = messages[b].status
      /\ events' \subseteq Authors \X Statuses
      /\ hooks' \subseteq events' /\ missed' \subseteq events' \ hooks'
  <2>1. CASE HookInsert(a, reported)
    BY <1>1, <2>1 DEF HookInsert
  <2>2. CASE HookStop(a, reported)
    BY <1>1, <2>2 DEF HookStop
  <2>3. CASE HookUpdate(a, reported)
    <3>1. TimeOf(reported) \in 0 .. 2
      BY DEF TimeOf
    <3>2. /\ messages' \in [Authors -> Rows]
          /\ \A b \in Authors : messages'[b].status = messages[b].status
      BY <1>1, <2>3, <3>1 DEF HookUpdate, HookUpdateIf, Rows
    <3> QED
      BY <1>1, <2>3, <3>2 DEF HookUpdate, HookUpdateIf
  <2> QED
    BY <2>1, <2>2, <2>3
<1>3. FilingTypes'
  BY <1>1, <1>2 DEF FilingInv, FilingTypes
<1>4. ASSUME NEW s \in Senders PROVE SenderFiles(s)'
  BY <1>1, <1>2 DEF FilingInv, SenderFiles, Authors
<1>5. ASSUME NEW b \in Manual PROVE DeskFiles(b)'
  BY <1>1, <1>2 DEF FilingInv, DeskFiles, Authors
<1>6. delivery'.status = "sent" => \E q \in Senders : messages'[q].status = "sent"
  BY <1>1, <1>2 DEF FilingInv, Authors
<1>7. ASSUME NEW b \in Authors PROVE Shows(b)'
  <2>1. CASE HookInsert(a, reported) \/ HookStop(a, reported)
    <3>1. messages' = messages /\ Heard(b)' = Heard(b)
      BY <1>1, <2>1 DEF HookInsert, HookStop, Heard
    <3> QED
      BY <3>1 DEF FilingInv, Shows
  <2>2. CASE HookUpdate(a, reported) /\ (b # a \/ messages[a].status # "sent")
    <3>1. messages'[b] = messages[b] /\ Heard(b)' = Heard(b)
      BY <1>1, <2>2 DEF HookUpdate, HookUpdateIf, Heard
    <3> QED
      BY <3>1 DEF FilingInv, Shows
  <2>3. CASE HookUpdate(a, reported) /\ b = a /\ messages[a].status = "sent"
    <3>1. Heard(a)' = Heard(a) \cup {e}
      BY <1>1, <2>3 DEF HookUpdate, HookUpdateIf, Heard
    <3>2. Shows(a) /\ messages[a] \in Rows /\ TimeOf(reported) \in 1 .. 2
      BY <1>1 DEF FilingInv, TimeOf
    <3>3. CASE messages[a].shown = "null" \/ messages[a].at < TimeOf(reported)
      <4>1. /\ messages'[a].status = "sent" /\ messages'[a].shown = reported
            /\ messages'[a].at = TimeOf(reported)
        BY <1>1, <2>3, <3>2, <3>3 DEF HookUpdate, HookUpdateIf, Rows
      <4>2. reported # "null"
        BY DEF Statuses
      <4>3. \A f \in Heard(a) : TimeOf(f[2]) <= TimeOf(reported)
        <5>1. \A f \in Heard(a) : TimeOf(f[2]) \in Int
          BY DEF TimeOf
        <5> QED
          BY <3>2, <3>3, <5>1 DEF Shows, Rows
      <4>4. e[2] = reported
        OBVIOUS
      <4> QED
        BY <2>3, <3>1, <3>2, <4>1, <4>2, <4>3, <4>4 DEF Shows
    <3>4. CASE ~(messages[a].shown = "null" \/ messages[a].at < TimeOf(reported))
      <4>1. messages'[a] = messages[a]
        BY <2>3, <3>4 DEF HookUpdate, HookUpdateIf
      <4>2. messages[a].shown # "null" /\ TimeOf(e[2]) <= messages[a].at
        BY <3>2, <3>4 DEF Rows
      <4> QED
        BY <2>3, <3>1, <3>2, <4>1, <4>2 DEF Shows
    <3> QED
      BY <3>3, <3>4
  <2> QED
    BY <2>1, <2>2, <2>3
<1> QED
  BY <1>3, <1>4, <1>5, <1>6, <1>7 DEF FilingInv
-----------------------------------------------------------------------------
(* What follows for every behaviour *)

\* What the invariant of the confirmation says under the mapping.
LEMMA BaseSays ==
  ASSUME ConfirmationInv, pc \in [Senders -> Places]
  PROVE  /\ delivery \in Deliveries
         /\ outcome \in [Senders -> Failures \cup {"none", "sent"}]
         /\ \A s \in Senders : pc[s] = "log" /\ outcome[s] = "sent" => s \in accepted
<1>1. /\ delivery \in Base!Deliveries
      /\ outcome \in [Base!Senders -> Base!Failures \cup {"none", "sent"}]
      /\ \A s \in Base!Senders : mapped[s] = "mark" /\ outcome[s] = "sent" => s \in accepted
  BY DEF ConfirmationInv, Base!NoticeTypes, Honest
<1>2. Base!Deliveries = Deliveries /\ Base!Failures = Failures
  BY BaseIsMeant DEF Base!Deliveries, Deliveries, Base!Failures, Failures
<1> QED
  BY <1>1, <1>2, BaseIsMeant DEF mapped

\* Every step keeps what is filed in order, if the confirmation is.
LEMMA FilingStep == ConfirmationInv /\ FilingInv /\ [MessagesNext]_allVars => FilingInv'
<1> SUFFICES ASSUME ConfirmationInv, FilingInv, [MessagesNext]_allVars PROVE FilingInv'
  OBVIOUS
<1>1. /\ delivery \in Deliveries
      /\ outcome \in [Senders -> Failures \cup {"none", "sent"}]
      /\ \A s \in Senders : pc[s] = "log" /\ outcome[s] = "sent" => s \in accepted
  BY BaseSays DEF FilingInv, FilingTypes
<1>2. CASE ClaimOrRecord
  BY <1>1, <1>2, ClaimOrRecordKeepsRows
<1>3. ASSUME NEW s \in Senders, SendAndLog(s) \/ NumberInvalid(s) PROVE FilingInv'
  BY <1>1, <1>3, AnswerKeepsRows
<1>4. ASSUME NEW s \in Senders, LogMessage(s) PROVE FilingInv'
  <2>1. pc[s] = "log"
    BY <1>4 DEF LogMessage
  <2> QED
    BY <1>1, <1>4, <2>1, LogKeepsRows
<1>5. CASE UNCHANGED allVars
  BY <1>5 DEF allVars, notice, filing, FilingInv, FilingTypes, SenderFiles, DeskFiles, Shows, Heard
<1> QED
  BY <1>2, <1>3, <1>4, <1>5, DeskKeepsRows, HookKeepsRows DEF MessagesNext

\* What is filed of every message is in order, and so is the confirmation.
THEOREM MessagesInvariant == MessagesSpec => []FilingInv /\ []ConfirmationInv
<1>1. FilingInv => pc \in [Senders -> Places]
  BY DEF FilingInv, FilingTypes
<1>2. MessagesInit => ConfirmationInv
  BY InitIsMapped, BaseIsMeant, NotificationInit
<1>3. ConfirmationInv /\ FilingInv /\ [MessagesNext]_allVars => ConfirmationInv'
  BY <1>1, StepIsMapped, BaseIsMeant, NotificationStep
<1> QED
  BY <1>2, <1>3, FilingInit, FilingStep, PTL DEF MessagesSpec

\* However the messages of the order are filed, reported and resent by hand, the automatic
\* confirmation takes only the steps it takes without them.
THEOREM MessagesLeaveTheConfirmation == MessagesSpec => ConfirmationUndisturbed
<1>1. Base!NoticeInit => Confirmation!NoticeInit
  BY DEF Base!NoticeInit, Confirmation!NoticeInit, Base!Senders, Confirmation!Senders, mapped
<1>2. [Base!NoticeNext]_(Base!notice) => [Confirmation!NoticeNext]_(Confirmation!notice)
  BY DEF mapped,
     Base!notice, Base!Senders, Base!Failures, Base!Claimed, Base!MayRetry, Base!Goto, Base!NoticeNext,
     Base!StartCheckout, Base!List, Base!FirstClaim, Base!ReadRow, Base!TakeOver,
     Base!RetryClaimIf, Base!RetryClaim, Base!Answer, Base!Send, Base!MarkIf, Base!Recorded,
     Base!Mark, Base!Stop, Base!LeaseEnds,
     Confirmation!notice, Confirmation!Senders, Confirmation!Failures, Confirmation!Claimed,
     Confirmation!MayRetry, Confirmation!Goto, Confirmation!NoticeNext, Confirmation!StartCheckout,
     Confirmation!List, Confirmation!FirstClaim, Confirmation!ReadRow, Confirmation!TakeOver,
     Confirmation!RetryClaimIf, Confirmation!RetryClaim, Confirmation!Answer,
     Confirmation!Send, Confirmation!MarkIf, Confirmation!Recorded, Confirmation!Mark,
     Confirmation!Stop, Confirmation!LeaseEnds
<1>3. FilingInv => pc \in [Senders -> Places]
  BY DEF FilingInv, FilingTypes
<1>4. FilingInv /\ [MessagesNext]_allVars => [Confirmation!NoticeNext]_(Confirmation!notice)
  BY <1>2, <1>3, StepIsMapped
<1>5. MessagesInit => Confirmation!NoticeInit
  BY <1>1, InitIsMapped
<1> QED
  BY <1>4, <1>5, MessagesInvariant, PTL
  DEF MessagesSpec, ConfirmationUndisturbed, Confirmation!NoticeSpec

\* What the admin reads of a message is the latest of what Meta said of it and was read.
THEOREM StatusesKeepUp == MessagesSpec => []StatusKeepsUp
<1>1. FilingInv => StatusKeepsUp
  BY DEF FilingInv, Shows, Heard, StatusKeepsUp
<1> QED
  BY <1>1, MessagesInvariant, PTL

\* No row says of a message or of the confirmation what did not happen.
THEOREM AdminsAreToldTheTruth == MessagesSpec => []RowsTellTheTruth
<1>1. ASSUME FilingInv, ConfirmationInv PROVE RowsTellTheTruth
  <2>1. Confirmation!NoticeTypes
    <3>1. Base!NoticeTypes
      BY <1>1 DEF ConfirmationInv
    <3> QED
      BY <3>1 DEF mapped, Base!NoticeTypes, Base!Deliveries, Base!Senders, Base!Failures,
         Confirmation!NoticeTypes, Confirmation!Deliveries, Confirmation!Senders, Confirmation!Failures
  <2>2. MessagesTypeOK
    BY <1>1, <2>1 DEF MessagesTypeOK, FilingInv, FilingTypes
  <2>3. FiledAsSent
    BY <1>1 DEF FiledAsSent, FilingInv, SenderFiles, DeskFiles, Authors
  <2>4. RowTellsTheTruth
    BY <1>1 DEF ConfirmationInv, Base!NoticeTypes, Accounted, RowTellsTheTruth
  <2> QED
    BY <2>2, <2>3, <2>4 DEF RowsTellTheTruth
<1> QED
  BY <1>1, MessagesInvariant, PTL

\* A resend by hand, or a report, never makes the automatic senders send twice.
THEOREM OneMessageBesidesManualOnes == MessagesSpec => []OneMessage
<1>1. ConfirmationInv => OneMessage
  BY DEF ConfirmationInv, Base!OneMessage, OneMessage
<1> QED
  BY <1>1, MessagesInvariant, PTL

\* No two automatic senders ever both believe that they own the row, filing included.
THEOREM OneOwnerAtATime == MessagesSpec => []Base!OneOwner
<1>1. ConfirmationInv => Base!OneOwner
  BY DEF ConfirmationInv
<1> QED
  BY <1>1, MessagesInvariant, PTL

\* Takeovers aside, a confirmation is tried MaxAttempts times at most.
THEOREM AttemptsAreCapped == MessagesSpec => []AttemptsCapped
<1>1. ConfirmationInv => AttemptsCapped
  BY DEF ConfirmationInv, Counted
<1> QED
  BY <1>1, MessagesInvariant, PTL

\* What was sent, failed for good or may have arrived is never touched again, neither by
\* an automatic sender nor by a report or a resend.
THEOREM OutcomesStay == MessagesSpec => OutcomesAreFinal
<1>1. Decided = Base!Decided
  BY DEF Decided, Base!Decided
<1>2. [Base!NoticeNext]_(Base!notice) => (Decided => UNCHANGED delivery)
  BY <1>1 DEF Base!NoticeNext, Base!notice, Base!Decided, Base!StartCheckout, Base!List,
         Base!FirstClaim, Base!ReadRow, Base!TakeOver, Base!RetryClaim, Base!RetryClaimIf,
         Base!MayRetry, Base!Send, Base!Answer, Base!Mark, Base!MarkIf, Base!Stop,
         Base!LeaseEnds
<1>3. FilingInv /\ [MessagesNext]_allVars => [Decided => UNCHANGED delivery]_notice
  BY <1>2, StepIsMapped DEF FilingInv, FilingTypes
<1> QED
  BY <1>3, MessagesInvariant, PTL DEF MessagesSpec, OutcomesAreFinal
=============================================================================
