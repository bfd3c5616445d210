--------------------------- MODULE CheckoutProofs ---------------------------
(***************************************************************************)
(* createOrder and cancelOrder, in every interleaving and for any number   *)
(* of requests, admins, products and codes, do to the book only what       *)
(* OrderBook allows.  The argument is the one of the code's comments: each *)
(* check is made under a row lock that is held until COMMIT.  First, that  *)
(* the book itself keeps its promises: BookInv is inductive, and each of   *)
(* them is a conjunct of it.                                               *)
(***************************************************************************)
EXTENDS Checkout, FiniteSetTheorems, WellFoundedInduction, TLAPS
-----------------------------------------------------------------------------
(* The book *)

BookInv ==
    /\ BookTypeOK
    /\ StockAccounted
    /\ UsesAccounted
    /\ CustomerUsesCapped
    /\ FirstOrderOnce
    /\ PointsAccounted
    /\ OneOrderPerKey
-----------------------------------------------------------------------------
(* How each action moves the sets that the properties count *)

\* The counted sets are sets of requests, hence finite.
LEMMA CountsAreNaturals ==
    ASSUME NEW S \in SUBSET Requests
    PROVE  IsFiniteSet(S) /\ Cardinality(S) \in Nat
BY BookAssumption, FS_Subset, FS_CardinalityType

\* Submitting a request stores nothing, and a request that stored nothing may
\* change its key and form without any count noticing.
LEMMA SubmitCounts ==
    ASSUME BookTypeOK, NEW r \in Requests, BookSubmit(r)
    PROVE  /\ Placed' = Placed /\ Stored' = Stored
           /\ \A q \in Stored : key'[q] = key[q] /\ form'[q] = form[q]
           /\ \A p \in Products : Holding(p)' = Holding(p)
           /\ \A c \in Codes : Usages(c)' = Usages(c)
           /\ \A c \in Codes, u \in Customers : UsagesBy(c, u)' = UsagesBy(c, u)
           /\ \A u \in Customers : Redeemed(u)' = Redeemed(u)
<1>1. \A q \in Requests : q # r =>
          book'[q] = book[q] /\ key'[q] = key[q] /\ form'[q] = form[q]
  BY DEF BookSubmit, BookTypeOK
<1>2. book[r] = "none" /\ book'[r] = "submitted"
  BY DEF BookSubmit, BookTypeOK
<1>3. Placed' = Placed /\ Stored' = Stored /\ r \notin Stored /\ r \notin Placed
  BY <1>1, <1>2 DEF Placed, Stored
<1>4. \A q \in Stored : key'[q] = key[q] /\ form'[q] = form[q]
  BY <1>1, <1>3 DEF Stored
<1>5. \A q \in Placed : form'[q] = form[q]
  BY <1>1, <1>3 DEF Placed
<1>6. \A c \in Codes : Usages(c)' = Usages(c)
  BY <1>3, <1>4 DEF Usages
<1>7. \A c \in Codes, u \in Customers : UsagesBy(c, u)' = UsagesBy(c, u)
  BY <1>4, <1>6 DEF UsagesBy, Usages
<1> QED
  BY <1>3, <1>4, <1>5, <1>6, <1>7 DEF Holding, Redeemed, Items

\* Placing r adds r, and nothing else, to the sets its form belongs to.
LEMMA PlaceCounts ==
    ASSUME BookTypeOK, NEW r \in Requests, book[r] = "submitted", PlaceEffect(r)
    PROVE  /\ r \notin Stored
           /\ Placed' = Placed \cup {r} /\ Stored' = Stored \cup {r}
           /\ \A p \in Products : Holding(p)' =
                 IF p \in Items(form[r]) THEN Holding(p) \cup {r} ELSE Holding(p)
           /\ \A c \in Codes : Usages(c)' =
                 IF c = form[r].code THEN Usages(c) \cup {r} ELSE Usages(c)
           /\ \A c \in Codes, u \in Customers : UsagesBy(c, u)' =
                 IF c = form[r].code /\ u = form[r].customer
                 THEN UsagesBy(c, u) \cup {r} ELSE UsagesBy(c, u)
           /\ \A u \in Customers : Redeemed(u)' =
                 IF u = form[r].customer /\ form[r].redeems
                 THEN Redeemed(u) \cup {r} ELSE Redeemed(u)
<1>1. form' = form /\ \A q \in Requests : q # r => book'[q] = book[q]
  BY DEF PlaceEffect, BookTypeOK
<1>2. book'[r] = "placed"
  BY DEF PlaceEffect, BookTypeOK
<1>3. r \notin Stored /\ Placed' = Placed \cup {r} /\ Stored' = Stored \cup {r}
  BY <1>1, <1>2 DEF Placed, Stored
<1>4. \A c \in Codes : Usages(c)' =
          IF c = form[r].code THEN Usages(c) \cup {r} ELSE Usages(c)
  BY <1>1, <1>3 DEF Usages
<1>5. \A c \in Codes, u \in Customers : UsagesBy(c, u)' =
          IF c = form[r].code /\ u = form[r].customer
          THEN UsagesBy(c, u) \cup {r} ELSE UsagesBy(c, u)
  BY <1>1, <1>4 DEF UsagesBy
<1>6. \A p \in Products : Holding(p)' =
          IF p \in Items(form[r]) THEN Holding(p) \cup {r} ELSE Holding(p)
  BY <1>1, <1>3 DEF Holding, Items
<1>7. \A u \in Customers : Redeemed(u)' =
          IF u = form[r].customer /\ form[r].redeems
          THEN Redeemed(u) \cup {r} ELSE Redeemed(u)
  BY <1>1, <1>3 DEF Redeemed
<1> QED
  BY <1>3, <1>4, <1>5, <1>6, <1>7

\* Cancelling r takes it out of the live orders; its use of a code stays.
LEMMA CancelCounts ==
    ASSUME BookTypeOK, NEW r \in Requests, BookCancel(r)
    PROVE  /\ r \in Placed
           /\ Placed' = Placed \ {r} /\ Stored' = Stored
           /\ \A p \in Products : Holding(p)' =
                 IF p \in Items(form[r]) THEN Holding(p) \ {r} ELSE Holding(p)
           /\ \A c \in Codes : Usages(c)' = Usages(c)
           /\ \A c \in Codes, u \in Customers : UsagesBy(c, u)' = UsagesBy(c, u)
           /\ \A u \in Customers : Redeemed(u)' =
                 IF u = form[r].customer /\ form[r].redeems
                 THEN Redeemed(u) \ {r} ELSE Redeemed(u)
<1>1. form' = form /\ \A q \in Requests : q # r => book'[q] = book[q]
  BY DEF BookCancel, CancelEffect, BookTypeOK
<1>2. book[r] = "placed" /\ book'[r] = "cancelled"
  BY DEF BookCancel, CancelEffect, BookTypeOK
<1>3. r \in Placed /\ Placed' = Placed \ {r} /\ Stored' = Stored
  BY <1>1, <1>2 DEF Placed, Stored
<1>4. \A p \in Products : Holding(p)' =
          IF p \in Items(form[r]) THEN Holding(p) \ {r} ELSE Holding(p)
  BY <1>1, <1>3 DEF Holding, Items
<1>5. \A u \in Customers : Redeemed(u)' =
          IF u = form[r].customer /\ form[r].redeems
          THEN Redeemed(u) \ {r} ELSE Redeemed(u)
  BY <1>1, <1>3 DEF Redeemed
<1> QED
  BY <1>1, <1>3, <1>4, <1>5 DEF Usages, UsagesBy
-----------------------------------------------------------------------------
(* BookInv is inductive *)

LEMMA InitEstablishesInv == BookInit => BookInv
<1> SUFFICES ASSUME BookInit PROVE BookInv
  OBVIOUS
<1>1. Stored = {} /\ Placed = {}
  BY DEF BookInit, Stored, Placed
<1>2. /\ \A p \in Products : Holding(p) = {}
      /\ \A c \in Codes : Usages(c) = {}
      /\ \A c \in Codes, u \in Customers : UsagesBy(c, u) = {}
      /\ \A u \in Customers : Redeemed(u) = {}
  BY <1>1 DEF Holding, Usages, UsagesBy, Redeemed
<1>3. BookTypeOK
  <2>1. (CHOOSE f \in Forms : TRUE) \in Forms
    BY BookAssumption
  <2> QED
    BY <2>1, BookAssumption DEF BookInit, BookTypeOK, Statuses
<1>4. /\ Cardinality({}) = 0
      /\ \A p \in Products : Stock0[p] \in Nat /\ stock[p] = Stock0[p]
      /\ \A c \in Codes :
            MaxUses[c] \in Nat /\ MaxPerCustomer[c] \in Nat /\ used[c] = 0
      /\ \A u \in Customers : Points0[u] \in Nat /\ points[u] = Points0[u]
  BY FS_EmptySet, BookAssumption DEF BookInit
<1>5. StockAccounted
  BY <1>2, <1>4 DEF StockAccounted
<1>6. UsesAccounted /\ CustomerUsesCapped
  <2>1. UsesAccounted
    BY <1>2, <1>4 DEF UsesAccounted
  <2>2. CustomerUsesCapped
    BY <1>2, <1>4 DEF CustomerUsesCapped
  <2> QED
    BY <2>1, <2>2
<1>7. PointsAccounted
  BY <1>2, <1>4 DEF PointsAccounted
<1>8. FirstOrderOnce /\ OneOrderPerKey
  BY <1>1 DEF FirstOrderOnce, OneOrderPerKey
<1> QED
  BY <1>3, <1>4, <1>5, <1>6, <1>7, <1>8 DEF BookInv

LEMMA SubmitKeepsInv ==
    ASSUME BookInv, NEW r \in Requests, BookSubmit(r)
    PROVE  BookInv'
<1> USE DEF BookInv
<1>1. /\ Placed' = Placed /\ Stored' = Stored
      /\ \A q \in Stored : key'[q] = key[q] /\ form'[q] = form[q]
      /\ \A p \in Products : Holding(p)' = Holding(p)
      /\ \A c \in Codes : Usages(c)' = Usages(c)
      /\ \A c \in Codes, u \in Customers : UsagesBy(c, u)' = UsagesBy(c, u)
      /\ \A u \in Customers : Redeemed(u)' = Redeemed(u)
  BY SubmitCounts
<1>2. BookTypeOK'
  BY DEF BookTypeOK, BookSubmit, Statuses
<1>3. stock' = stock /\ used' = used /\ points' = points
  BY DEF BookSubmit
<1>4. (StockAccounted /\ UsesAccounted /\ CustomerUsesCapped /\ PointsAccounted)'
  BY <1>1, <1>3
  DEF StockAccounted, UsesAccounted, CustomerUsesCapped, PointsAccounted
<1>5. FirstOrderOnce'
  <2>1. \A c \in FirstOrderOnly : (Usages(c) \cap Placed)' = Usages(c) \cap Placed
    BY <1>1, BookAssumption
  <2>2. \A c \in FirstOrderOnly : \A q \in Usages(c) \cap Placed : form'[q] = form[q]
    BY <1>1 DEF Usages
  <2> QED
    BY <2>1, <2>2 DEF FirstOrderOnce
<1>6. OneOrderPerKey'
  BY <1>1 DEF OneOrderPerKey
<1> QED
  BY <1>2, <1>4, <1>5, <1>6

\* The step that carries the promises: what BookPlace checks is what keeps the
\* counts in line with the counters and under the caps.
LEMMA PlaceKeepsInv ==
    ASSUME BookInv, NEW r \in Requests, BookPlace(r)
    PROVE  BookInv'
<1> USE DEF BookInv
<1>1. /\ r \notin Stored
      /\ Placed' = Placed \cup {r} /\ Stored' = Stored \cup {r}
  BY PlaceCounts DEF BookPlace
<1>2. form' = form /\ key' = key /\ form[r] \in Form
  BY BookAssumption DEF BookPlace, PlaceEffect, BookTypeOK
<1>3. BookTypeOK'
  BY <1>2 DEF BookTypeOK, BookPlace, PlaceEffect, Statuses, InStock
<1>4. StockAccounted'
  <2> SUFFICES ASSUME NEW p \in Products
               PROVE  stock'[p] + Cardinality(Holding(p)') = Stock0[p]
    BY DEF StockAccounted
  <2>1. /\ stock[p] \in Nat /\ Stock0[p] \in Nat
        /\ stock[p] + Cardinality(Holding(p)) = Stock0[p]
    BY BookAssumption DEF StockAccounted, BookTypeOK
  <2>2. r \notin Holding(p) /\ Holding(p) \in SUBSET Requests
    BY <1>1 DEF Holding, Placed, Stored
  <2>3. CASE p \in Items(form[r])
    <3>1. Holding(p)' = Holding(p) \cup {r} /\ stock'[p] = stock[p] - 1
      BY <2>3, PlaceCounts DEF BookPlace, PlaceEffect
    <3>2. Cardinality(Holding(p)') = Cardinality(Holding(p)) + 1
      BY <2>2, <3>1, CountsAreNaturals, FS_AddElement
    <3> QED
      BY <2>1, <2>2, <3>1, <3>2, CountsAreNaturals
  <2>4. CASE p \notin Items(form[r])
    BY <2>1, <2>4, PlaceCounts DEF BookPlace, PlaceEffect
  <2> QED
    BY <2>3, <2>4
<1>5. UsesAccounted'
  <2> SUFFICES ASSUME NEW c \in Codes
               PROVE  used'[c] = Cardinality(Usages(c)') /\ used'[c] <= MaxUses[c]
    BY DEF UsesAccounted
  <2>1. /\ used[c] \in Nat /\ MaxUses[c] \in Nat
        /\ used[c] = Cardinality(Usages(c)) /\ used[c] <= MaxUses[c]
    BY BookAssumption DEF UsesAccounted, BookTypeOK
  <2>2. r \notin Usages(c) /\ Usages(c) \in SUBSET Requests
    BY <1>1 DEF Usages, Stored
  <2>3. CASE c = form[r].code
    <3>1. Usages(c)' = Usages(c) \cup {r} /\ used'[c] = used[c] + 1
      BY <2>3, PlaceCounts DEF BookPlace, PlaceEffect
    <3>2. used[c] < MaxUses[c]
      BY <2>3, BookAssumption DEF BookPlace, CodeUsable
    <3>3. Cardinality(Usages(c)') = Cardinality(Usages(c)) + 1
      BY <2>2, <3>1, CountsAreNaturals, FS_AddElement
    <3> QED
      BY <2>1, <3>1, <3>2, <3>3
  <2>4. CASE c # form[r].code
    BY <2>1, <2>4, PlaceCounts DEF BookPlace, PlaceEffect
  <2> QED
    BY <2>3, <2>4
<1>6. CustomerUsesCapped'
  <2> SUFFICES ASSUME NEW c \in Codes, NEW u \in Customers
               PROVE  Cardinality(UsagesBy(c, u)') <= MaxPerCustomer[c]
    BY DEF CustomerUsesCapped
  <2>1. /\ Cardinality(UsagesBy(c, u)) <= MaxPerCustomer[c]
        /\ MaxPerCustomer[c] \in Nat
    BY BookAssumption DEF CustomerUsesCapped
  <2>2. r \notin UsagesBy(c, u) /\ UsagesBy(c, u) \in SUBSET Requests
    BY <1>1 DEF UsagesBy, Usages, Stored
  <2>3. CASE c = form[r].code /\ u = form[r].customer
    <3>1. UsagesBy(c, u)' = UsagesBy(c, u) \cup {r}
      BY <2>3, PlaceCounts DEF BookPlace
    <3>2. Cardinality(UsagesBy(c, u)) < MaxPerCustomer[c]
      BY <2>3, BookAssumption DEF BookPlace, CodeUsable
    <3>3. Cardinality(UsagesBy(c, u)') = Cardinality(UsagesBy(c, u)) + 1
      BY <2>2, <3>1, CountsAreNaturals, FS_AddElement
    <3> QED
      BY <2>1, <2>2, <3>2, <3>3, CountsAreNaturals
  <2>4. CASE ~(c = form[r].code /\ u = form[r].customer)
    BY <2>1, <2>4, PlaceCounts DEF BookPlace
  <2> QED
    BY <2>3, <2>4
<1>7. FirstOrderOnce'
  <2> SUFFICES ASSUME NEW c \in FirstOrderOnly,
                      NEW q \in (Usages(c) \cap Placed)',
                      NEW s \in (Usages(c) \cap Placed)',
                      form[q].customer = form[s].customer
               PROVE  q = s
    BY <1>2 DEF FirstOrderOnce
  <2>1. c \in Codes /\ c # NoCode
    BY BookAssumption
  <2>2. \A x \in (Usages(c) \cap Placed)' :
            \/ x \in Usages(c) \cap Placed
            \/ x = r /\ form[r].code = c
    BY <1>1, <1>2, <2>1 DEF Usages
  <2>3. form[r].code = c =>
            \A x \in Usages(c) \cap Placed :
                form[x].customer # form[r].customer
    BY <2>1 DEF BookPlace, CodeUsable, UsagesBy
  <2> QED
    BY <2>2, <2>3 DEF FirstOrderOnce
<1>8. PointsAccounted'
  <2> SUFFICES ASSUME NEW u \in Customers
               PROVE  points'[u] + Cardinality(Redeemed(u)') = Points0[u]
    BY DEF PointsAccounted
  <2>1. /\ points[u] \in Nat /\ Points0[u] \in Nat
        /\ points[u] + Cardinality(Redeemed(u)) = Points0[u]
    BY BookAssumption DEF PointsAccounted, BookTypeOK
  <2>2. r \notin Redeemed(u) /\ Redeemed(u) \in SUBSET Requests
    BY <1>1 DEF Redeemed, Placed, Stored
  <2>3. CASE u = form[r].customer /\ form[r].redeems
    <3>1. points[u] > 0
      BY <2>3 DEF BookPlace, PointsCover
    <3>2. Redeemed(u)' = Redeemed(u) \cup {r} /\ points'[u] = points[u] - 1
      BY <2>3, <3>1, PlaceCounts DEF BookPlace, PlaceEffect
    <3>3. Cardinality(Redeemed(u)') = Cardinality(Redeemed(u)) + 1
      BY <2>2, <3>2, CountsAreNaturals, FS_AddElement
    <3> QED
      BY <2>1, <2>2, <3>2, <3>3, CountsAreNaturals
  <2>4. CASE ~(u = form[r].customer /\ form[r].redeems)
    BY <2>1, <2>4, PlaceCounts DEF BookPlace, PlaceEffect
  <2> QED
    BY <2>3, <2>4
<1>9. OneOrderPerKey'
  BY <1>1, <1>2 DEF OneOrderPerKey, BookPlace, KeyUnused
<1> QED
  BY <1>3, <1>4, <1>5, <1>6, <1>7, <1>8, <1>9

LEMMA CancelKeepsInv ==
    ASSUME BookInv, NEW r \in Requests, BookCancel(r)
    PROVE  BookInv'
<1> USE DEF BookInv
<1>1. /\ r \in Placed
      /\ Placed' = Placed \ {r} /\ Stored' = Stored
      /\ \A c \in Codes : Usages(c)' = Usages(c)
      /\ \A c \in Codes, u \in Customers : UsagesBy(c, u)' = UsagesBy(c, u)
  BY CancelCounts
<1>2. form' = form /\ key' = key /\ used' = used
  BY DEF BookCancel, CancelEffect
<1>3. BookTypeOK'
  BY <1>2 DEF BookTypeOK, BookCancel, CancelEffect, Statuses
<1>4. StockAccounted'
  <2> SUFFICES ASSUME NEW p \in Products
               PROVE  stock'[p] + Cardinality(Holding(p)') = Stock0[p]
    BY DEF StockAccounted
  <2>1. /\ stock[p] \in Nat /\ Stock0[p] \in Nat
        /\ stock[p] + Cardinality(Holding(p)) = Stock0[p]
        /\ Holding(p) \in SUBSET Requests
    BY BookAssumption DEF StockAccounted, BookTypeOK, Holding, Placed
  <2>2. CASE p \in Items(form[r])
    <3>1. /\ r \in Holding(p)
          /\ Holding(p)' = Holding(p) \ {r} /\ stock'[p] = stock[p] + 1
      BY <1>1, <2>2, CancelCounts DEF BookCancel, CancelEffect, Holding
    <3>2. Cardinality(Holding(p)') = Cardinality(Holding(p)) - 1
      BY <2>1, <3>1, CountsAreNaturals, FS_RemoveElement
    <3> QED
      BY <2>1, <3>1, <3>2, CountsAreNaturals
  <2>3. CASE p \notin Items(form[r])
    BY <2>1, <2>3, CancelCounts DEF BookCancel, CancelEffect
  <2> QED
    BY <2>2, <2>3
<1>5. UsesAccounted' /\ CustomerUsesCapped'
  BY <1>1, <1>2 DEF UsesAccounted, CustomerUsesCapped
<1>6. FirstOrderOnce'
  BY <1>1, <1>2, BookAssumption DEF FirstOrderOnce
<1>7. PointsAccounted'
  <2> SUFFICES ASSUME NEW u \in Customers
               PROVE  points'[u] + Cardinality(Redeemed(u)') = Points0[u]
    BY DEF PointsAccounted
  <2>1. /\ points[u] \in Nat /\ Points0[u] \in Nat
        /\ points[u] + Cardinality(Redeemed(u)) = Points0[u]
        /\ Redeemed(u) \in SUBSET Requests
    BY BookAssumption DEF PointsAccounted, BookTypeOK, Redeemed, Placed
  <2>2. CASE u = form[r].customer /\ form[r].redeems
    <3>1. /\ r \in Redeemed(u)
          /\ Redeemed(u)' = Redeemed(u) \ {r} /\ points'[u] = points[u] + 1
      BY <1>1, <2>2, CancelCounts DEF BookCancel, CancelEffect, Redeemed
    <3>2. Cardinality(Redeemed(u)') = Cardinality(Redeemed(u)) - 1
      BY <2>1, <3>1, CountsAreNaturals, FS_RemoveElement
    <3> QED
      BY <2>1, <3>1, <3>2, CountsAreNaturals
  <2>3. CASE ~(u = form[r].customer /\ form[r].redeems)
    BY <2>1, <2>3, CancelCounts DEF BookCancel, CancelEffect
  <2> QED
    BY <2>2, <2>3
<1>8. OneOrderPerKey'
  BY <1>1, <1>2 DEF OneOrderPerKey
<1> QED
  BY <1>3, <1>4, <1>5, <1>6, <1>7, <1>8

\* A step that leaves the book alone leaves every property of it alone.
LEMMA StutterKeepsInv ==
    ASSUME BookInv, UNCHANGED bookVars
    PROVE  BookInv'
<1>1. /\ book' = book /\ key' = key /\ form' = form
      /\ stock' = stock /\ used' = used /\ points' = points
  BY DEF bookVars
<1>2. Placed' = Placed /\ Stored' = Stored
  BY <1>1 DEF Placed, Stored
<1>3. /\ \A p : Holding(p)' = Holding(p)
      /\ \A c : Usages(c)' = Usages(c)
      /\ \A c, u : UsagesBy(c, u)' = UsagesBy(c, u)
      /\ \A u : Redeemed(u)' = Redeemed(u)
  BY <1>1, <1>2 DEF Holding, Usages, UsagesBy, Redeemed, Items
<1>4. BookTypeOK'
  BY <1>1 DEF BookInv, BookTypeOK
<1>5. (StockAccounted /\ UsesAccounted /\ CustomerUsesCapped /\ PointsAccounted)'
  BY <1>1, <1>3
  DEF BookInv, StockAccounted, UsesAccounted, CustomerUsesCapped, PointsAccounted
<1>6. FirstOrderOnce' /\ OneOrderPerKey'
  BY <1>1, <1>2, <1>3 DEF BookInv, FirstOrderOnce, OneOrderPerKey
<1> QED
  BY <1>4, <1>5, <1>6 DEF BookInv

\* Every promise of the book is kept in every behaviour of BookSpec.
THEOREM BookKeepsItsPromises == BookSpec => []BookInv
<1>1. BookInv /\ [BookNext]_bookVars => BookInv'
  BY SubmitKeepsInv, PlaceKeepsInv, CancelKeepsInv, StutterKeepsInv DEF BookNext
<1> QED
  BY <1>1, InitEstablishesInv, PTL DEF BookSpec
-----------------------------------------------------------------------------
(* What its requests and admins keep *)

Steps == {"idle", "lookup", "connect", "race", "respond", "done"}
            \cup TransactionSteps
LockingSteps == {"products", "validate"} \cup Validated

\* Where a request stands agrees with how far its order has come.
ProgressOf(r) ==
    /\ pc[r] = "idle" <=> book[r] = "none"
    /\ pc[r] \notin {"idle", "respond", "done"} => book[r] = "submitted"
    /\ pc[r] = "respond" => r \in Stored
    /\ answer[r].kind # "none" => pc[r] = "done"

\* The locks a checkout has by the time it runs a statement ...
HoldsAtLeast(r) ==
    /\ pc[r] = "discount" => form[r].code # NoCode
    /\ pc[r] \in LockingSteps =>
          (form[r].code # NoCode => owner[form[r].code] = r)
    /\ pc[r] \in {"validate"} \cup Validated =>
          \A p \in Items(form[r]) : owner[p] = r
    /\ pc[r] \in {"insert", "commit"} =>
          (form[r].redeems => owner[form[r].customer] = r)
    /\ pc[r] = "commit" => (key[r] # NoKey => owner[key[r]] = r)

\* ... and the only ones: a code, then products in id order, then a customer's
\* points, then a key.
HoldsAtMost(r) ==
    \A row \in Rows : owner[row] = r =>
        /\ pc[r] \in LockingSteps
        /\ \/ row = form[r].code /\ row \in Codes
           \/ /\ row \in Items(form[r])
              /\ pc[r] = "products" =>
                    \A p \in Unlocked(r) : IdOrder[row] < IdOrder[p]
           \/ row = form[r].customer /\ pc[r] \in {"insert", "commit"}
           \/ row = key[r] /\ row \in Keys /\ pc[r] = "commit"

RequestInv(r) ==
    ProgressOf(r) /\ HoldsAtLeast(r) /\ HoldsAtMost(r)
      /\ ChecksHold(r) /\ AnswerIsTrue(r)

\* A cancellation that found its order live holds the order's row.
AdminInv(a) ==
    /\ admin[a].pc # "idle" => admin[a].order \in Stored
    /\ admin[a].pc = "order" => admin[a].next = 1
    /\ admin[a].pc \in {"items", "commit"} =>
          /\ admin[a].order \in Placed
          /\ owner[admin[a].order] = a
    /\ admin[a].pc = "items" =>
          admin[a].next \in DOMAIN form[admin[a].order].cart

CheckoutInv ==
    /\ TypeOK
    /\ \A r \in Requests : RequestInv(r)
    /\ \A a \in Admins : AdminInv(a)
-----------------------------------------------------------------------------
(* Forms, carts and locks *)

\* What a form consists of.
LEMMA FormFields ==
    ASSUME TypeOK, NEW r \in Requests
    PROVE  /\ form[r].cart \in Seq(Products) /\ form[r].cart # <<>>
           /\ form[r].code \in Codes \cup {NoCode}
           /\ form[r].customer \in Customers
           /\ form[r].redeems \in BOOLEAN
           /\ Items(form[r]) \subseteq Products
           /\ \A i \in DOMAIN form[r].cart : form[r].cart[i] \in Items(form[r])
<1>1. form[r] \in Form /\ form[r].cart # <<>>
  BY BookAssumption DEF TypeOK, BookTypeOK
<1> QED
  BY <1>1 DEF Form, Items

\* What locking a row changes: that row, which nobody held, and no other.
LEMMA LockTakesOneRow ==
    ASSUME TypeOK, NEW x \in Processes, Lock(x), Wanted(x) \in Rows
    PROVE  /\ owner[Wanted(x)] = Nobody
           /\ owner'[Wanted(x)] = x
           /\ \A row \in Rows : row # Wanted(x) => owner'[row] = owner[row]
           /\ owner' \in [Rows -> Processes \cup {Nobody}]
BY DEF Lock, TypeOK

\* What the end of a transaction does to the locks.
LEMMA WithoutReleases ==
    ASSUME TypeOK, NEW x \in Processes
    PROVE  /\ \A row \in Rows : Without(x)[row] =
                 IF owner[row] = x THEN Nobody ELSE owner[row]
           /\ Without(x) \in [Rows -> Processes \cup {Nobody}]
BY DEF Without, TypeOK

\* Every nonempty set of naturals has a least member.
LEMMA LeastNatural ==
    ASSUME NEW S \in SUBSET Nat, S # {}
    PROVE  \E n \in S : \A m \in S : n <= m
<1> DEFINE R == {ss \in Nat \X Nat : ss[1] < ss[2]}
<1>1. IsWellFoundedOn(R, Nat)
  BY NatLessThanWellFounded DEF OpToRel
<1>2. \A m, n \in Nat : m < n => <<m, n>> \in R
  OBVIOUS
<1> HIDE DEF R
<1>3. PICK n \in S : \A m \in S : ~(<<m, n>> \in R)
  BY <1>1, WFMin
<1>4. ASSUME NEW m \in S PROVE n <= m
  <2>1. m \in Nat /\ n \in Nat /\ ~(m < n)
    BY <1>2, <1>3
  <2> QED
    BY <2>1
<1> QED
  BY <1>4

\* Among products still to lock there is a first in id order: NextProduct.
LEMMA NextProductIsUnlocked ==
    ASSUME TypeOK, NEW r \in Requests, Unlocked(r) # {}
    PROVE  /\ NextProduct(r) \in Unlocked(r)
           /\ \A q \in Unlocked(r) : IdOrder[NextProduct(r)] <= IdOrder[q]
<1> DEFINE Ids == {IdOrder[p] : p \in Unlocked(r)}
<1>1. \A p \in Unlocked(r) : IdOrder[p] \in Nat
  BY FormFields, CheckoutAssumption DEF Unlocked
<1>2. Ids \subseteq Nat /\ Ids # {}
  BY <1>1
<1>3. \E n \in Ids : \A m \in Ids : n <= m
  BY <1>2, LeastNatural
<1>4. \E p \in Unlocked(r) : \A q \in Unlocked(r) : IdOrder[p] <= IdOrder[q]
  BY <1>3
<1> QED
  BY <1>4 DEF NextProduct

\* What a transaction waits for is a row there is.
LEMMA WantedIsARow ==
    ASSUME CheckoutInv, NEW x \in Processes, WantsLock(x)
    PROVE  Wanted(x) \in Rows
<1>1. CASE x \in Requests
  <2>1. CASE pc[x] = "products"
    BY <1>1, <2>1, NextProductIsUnlocked, FormFields
    DEF WantsLock, Wanted, Unlocked, Rows, CheckoutInv
  <2>2. CASE pc[x] # "products"
    BY <1>1, <2>2, FormFields
    DEF WantsLock, Wanted, Rows, CheckoutInv, RequestInv, HoldsAtLeast,
        TypeOK, BookTypeOK
  <2> QED
    BY <2>1, <2>2
<1>2. CASE x \notin Requests
  <2>1. x \in Admins /\ admin[x].pc \in {"order", "items"}
    BY <1>2 DEF Processes, WantsLock
  <2>2. admin[x].order \in Requests
    BY <2>1 DEF CheckoutInv, AdminInv, Stored
  <2>3. CASE admin[x].pc = "order"
    BY <1>2, <2>2, <2>3 DEF Wanted, Rows
  <2>4. CASE admin[x].pc = "items"
    BY <1>2, <2>1, <2>2, <2>4, FormFields
    DEF Wanted, Rows, CheckoutInv, AdminInv
  <2> QED
    BY <2>1, <2>3, <2>4
<1> QED
  BY <1>1, <1>2
-----------------------------------------------------------------------------
(* CheckoutInv is inductive *)

LEMMA InitCheckoutInv == Init => CheckoutInv
<1> SUFFICES ASSUME Init PROVE CheckoutInv
  OBVIOUS
<1>1. TypeOK
  <2>1. BookTypeOK
    BY InitEstablishesInv DEF Init, BookInv
  <2> QED
    BY <2>1, CheckoutAssumption DEF Init, TypeOK, Answers, Says, Idle
<1>2. ASSUME NEW r \in Requests PROVE RequestInv(r)
  <2>1. pc[r] = "idle" /\ book[r] = "none" /\ answer[r].kind = "none"
    BY DEF Init, BookInit, Says
  <2>2. \A row \in Rows : owner[row] # r
    BY CheckoutAssumption DEF Init, Processes
  <2> QED
    BY <2>1, <2>2 DEF RequestInv, ProgressOf, HoldsAtLeast, HoldsAtMost,
       ChecksHold, AnswerIsTrue, LockingSteps, Validated
<1>3. ASSUME NEW a \in Admins PROVE AdminInv(a)
  BY DEF Init, AdminInv, Idle
<1> QED
  BY <1>1, <1>2, <1>3 DEF CheckoutInv

\* A statement of r touches nothing of the other transactions: not their
\* statements, nor the rows they hold, nor the rows they do not hold.
LEMMA RequestStep ==
    ASSUME CheckoutInv, NEW r \in Requests, NEW s \in Steps,
           UNCHANGED <<bookVars, admin, crashes>>,
           pc' = [pc EXCEPT ![r] = s],
           answer' \in [Requests -> Answers],
           \A q \in Requests : q # r => answer'[q] = answer[q],
           owner' \in [Rows -> Processes \cup {Nobody}],
           \A row \in Rows : owner'[row] # owner[row] =>
               owner[row] \in {r, Nobody} /\ owner'[row] \in {r, Nobody},
           RequestInv(r)'
    PROVE  CheckoutInv'
<1> USE DEF CheckoutInv
<1>1. /\ book' = book /\ key' = key /\ form' = form
      /\ stock' = stock /\ used' = used /\ points' = points
      /\ Stored' = Stored /\ Placed' = Placed
  BY DEF bookVars, Stored, Placed
<1>2. TypeOK'
  BY <1>1 DEF TypeOK, BookTypeOK, Steps
<1>3. ASSUME NEW q \in Requests, q # r PROVE RequestInv(q)'
  <2>1. pc'[q] = pc[q] /\ answer'[q] = answer[q]
    BY <1>3 DEF TypeOK
  <2>2. \A row \in Rows : owner'[row] = q <=> owner[row] = q
    BY <1>3, CheckoutAssumption DEF Processes
  <2>3. ProgressOf(q)' /\ AnswerIsTrue(q)'
    BY <1>1, <2>1 DEF RequestInv, ProgressOf, AnswerIsTrue
  <2>4. HoldsAtLeast(q)'
    BY <1>1, <2>1, <2>2, FormFields
    DEF RequestInv, HoldsAtLeast, Items, Rows, TypeOK, BookTypeOK
  <2>5. Unlocked(q)' = Unlocked(q)
    BY <1>1, <2>2, FormFields DEF Unlocked, Items, Rows
  <2>6. HoldsAtMost(q)'
    BY <1>1, <2>1, <2>2, <2>5 DEF RequestInv, HoldsAtMost, Items
  <2>7. ChecksHold(q)'
    BY <1>1, <2>1 DEF RequestInv, ChecksHold, InStock, CodeUsable, PointsCover,
       KeyUnused, UsagesBy, Usages, Items
  <2> QED
    BY <2>3, <2>4, <2>6, <2>7 DEF RequestInv
<1>4. ASSUME NEW a \in Admins PROVE AdminInv(a)'
  <2>1. a # r /\ a # Nobody /\ admin' = admin
    BY CheckoutAssumption DEF Processes
  <2>2. \A row \in Rows : owner[row] = a => owner'[row] = a
    BY <2>1
  <2>3. AdminInv(a) /\ \A o \in Stored : o \in Rows
    BY DEF Stored, Rows
  <2> QED
    BY <1>1, <2>1, <2>2, <2>3 DEF AdminInv
<1> QED
  BY <1>2, <1>3, <1>4

\* A rolled back checkout holds nothing and wrote nothing.
LEMMA RollBackKeepsInv ==
    ASSUME CheckoutInv, NEW r \in Requests, NEW k \in {"rejected", "failed"},
           pc[r] \in TransactionSteps, RollBack(r, k)
    PROVE  CheckoutInv'
<1> USE DEF CheckoutInv
<1>1. /\ pc' = [pc EXCEPT ![r] = "done"]
      /\ answer' = [answer EXCEPT ![r] = Says(k, NoRequest)]
      /\ UNCHANGED <<bookVars, admin, crashes>>
  BY DEF RollBack, Tell, Goto
<1>2. /\ \A row \in Rows : owner'[row] =
            IF owner[row] = r THEN Nobody ELSE owner[row]
      /\ owner' \in [Rows -> Processes \cup {Nobody}]
  BY WithoutReleases DEF RollBack, Processes
<1>3. pc'[r] = "done" /\ answer'[r] = Says(k, NoRequest) /\ book[r] = "submitted"
  BY <1>1 DEF TypeOK, RequestInv, ProgressOf, TransactionSteps
<1>4. answer' \in [Requests -> Answers]
  BY <1>1 DEF TypeOK, Answers, Says
<1>5. \A row \in Rows : owner'[row] # r
  BY <1>2, CheckoutAssumption DEF Processes
<1>6. RequestInv(r)'
  BY <1>1, <1>3, <1>5
  DEF RequestInv, ProgressOf, HoldsAtLeast, HoldsAtMost, ChecksHold,
      AnswerIsTrue, LockingSteps, Validated, Says, bookVars
<1>7. \A q \in Requests : q # r => answer'[q] = answer[q]
  BY <1>1 DEF TypeOK
<1>8. "done" \in Steps
  BY DEF Steps
<1> QED
  BY <1>1, <1>2, <1>4, <1>6, <1>7, <1>8, RequestStep

\* The statements of r that take or release no lock.
LEMMA QuietStep ==
    ASSUME CheckoutInv, NEW r \in Requests, NEW s \in Steps, Goto(r, s),
           UNCHANGED <<bookVars, admin, owner, crashes>>,
           answer' \in [Requests -> Answers],
           \A q \in Requests : q # r => answer'[q] = answer[q],
           RequestInv(r)'
    PROVE  CheckoutInv'
BY RequestStep DEF Goto, CheckoutInv, TypeOK

LEMMA LookupKeepsInv ==
    ASSUME CheckoutInv, NEW r \in Requests, Lookup(r)
    PROVE  CheckoutInv'
<1> USE DEF CheckoutInv
<1>1. pc[r] = "lookup" /\ UNCHANGED <<bookVars, admin, owner, crashes>>
  BY DEF Lookup
<1>2. \A row \in Rows : owner[row] # r
  BY <1>1 DEF RequestInv, HoldsAtMost, LockingSteps, Validated
<1>3. CASE Goto(r, "connect") /\ UNCHANGED answer
  <2>1. pc'[r] = "connect"
    BY <1>3 DEF Goto, TypeOK
  <2>2. RequestInv(r)'
    BY <1>1, <1>2, <1>3, <2>1
    DEF RequestInv, ProgressOf, HoldsAtLeast, HoldsAtMost, ChecksHold,
        AnswerIsTrue, LockingSteps, Validated, bookVars
  <2> QED
    BY <1>1, <1>3, <2>2, QuietStep DEF Steps, TypeOK
<1>4. ASSUME NEW q \in SameKey(r),
             \/ Tell(r, "replayed", q) \/ Tell(r, "conflict", NoRequest)
      PROVE  CheckoutInv'
  <2>1. /\ pc'[r] = "done" /\ Goto(r, "done")
        /\ answer'[r] \in {Says("replayed", q), Says("conflict", NoRequest)}
        /\ answer' \in [Requests -> Answers]
        /\ \A p \in Requests : p # r => answer'[p] = answer[p]
    BY <1>4 DEF Tell, Goto, TypeOK, SameKey, Stored, Answers, Says
  <2>2. book[r] = "submitted" /\ q \in Stored /\ key[q] = key[r]
    BY <1>1 DEF RequestInv, ProgressOf, SameKey
  <2>3. RequestInv(r)'
    BY <1>1, <1>2, <2>1, <2>2
    DEF RequestInv, ProgressOf, HoldsAtLeast, HoldsAtMost, ChecksHold,
        AnswerIsTrue, LockingSteps, Validated, bookVars, Says, Stored
  <2> QED
    BY <1>1, <2>1, <2>3, QuietStep DEF Steps
<1> QED
  BY <1>3, <1>4 DEF Lookup

LEMMA ReplayAfterRaceKeepsInv ==
    ASSUME CheckoutInv, NEW r \in Requests, ReplayAfterRace(r)
    PROVE  CheckoutInv'
<1> USE DEF CheckoutInv
<1>1. pc[r] = "race" /\ UNCHANGED <<bookVars, admin, owner, crashes>>
  BY DEF ReplayAfterRace
<1>2. PICK q \in SameKey(r) : Tell(r, "replayed", q)
  BY DEF ReplayAfterRace
<1>3. \A row \in Rows : owner[row] # r
  BY <1>1 DEF RequestInv, HoldsAtMost, LockingSteps, Validated
<1>4. /\ pc'[r] = "done" /\ Goto(r, "done")
      /\ answer'[r] = Says("replayed", q)
      /\ answer' \in [Requests -> Answers]
      /\ \A p \in Requests : p # r => answer'[p] = answer[p]
  BY <1>2 DEF Tell, Goto, TypeOK, SameKey, Stored, Answers, Says
<1>5. book[r] = "submitted" /\ q \in Stored /\ key[q] = key[r]
  BY <1>1 DEF RequestInv, ProgressOf, SameKey
<1>6. RequestInv(r)'
  BY <1>1, <1>3, <1>4, <1>5
  DEF RequestInv, ProgressOf, HoldsAtLeast, HoldsAtMost, ChecksHold,
      AnswerIsTrue, LockingSteps, Validated, bookVars, Says, Stored
<1> QED
  BY <1>1, <1>4, <1>6, QuietStep DEF Steps

LEMMA RespondKeepsInv ==
    ASSUME CheckoutInv, NEW r \in Requests, Respond(r)
    PROVE  CheckoutInv'
<1> USE DEF CheckoutInv
<1>1. /\ pc[r] = "respond" /\ Tell(r, "created", r)
      /\ UNCHANGED <<bookVars, admin, owner, crashes>>
  BY DEF Respond
<1>2. \A row \in Rows : owner[row] # r
  BY <1>1 DEF RequestInv, HoldsAtMost, LockingSteps, Validated
<1>3. /\ pc'[r] = "done" /\ Goto(r, "done")
      /\ answer'[r] = Says("created", r)
      /\ answer' \in [Requests -> Answers]
      /\ \A p \in Requests : p # r => answer'[p] = answer[p]
  BY <1>1 DEF Tell, Goto, TypeOK, Answers, Says
<1>4. r \in Stored
  BY <1>1 DEF RequestInv, ProgressOf
<1>5. RequestInv(r)'
  BY <1>1, <1>2, <1>3, <1>4
  DEF RequestInv, ProgressOf, HoldsAtLeast, HoldsAtMost, ChecksHold,
      AnswerIsTrue, LockingSteps, Validated, bookVars, Says, Stored
<1> QED
  BY <1>1, <1>3, <1>5, QuietStep DEF Steps

\* From "connect" to "validate" a checkout only reads, unless it locks.
LEMMA ReadingKeepsInv ==
    ASSUME CheckoutInv, NEW r \in Requests,
           Connect(r) \/ CheckDelivery(r) \/ Validate(r) \/ ReadPromotions(r)
    PROVE  CheckoutInv'
<1> USE DEF CheckoutInv
<1>1. CASE Connect(r)
  <2>1. /\ pc[r] = "connect" /\ Goto(r, "capacity") /\ pc'[r] = "capacity"
        /\ UNCHANGED <<bookVars, answer, admin, owner, crashes>>
    BY <1>1 DEF Connect, Goto, TypeOK
  <2>2. RequestInv(r)'
    BY <2>1 DEF RequestInv, ProgressOf, HoldsAtLeast, HoldsAtMost, ChecksHold,
       AnswerIsTrue, LockingSteps, Validated, bookVars, Stored
  <2> QED
    BY <2>1, <2>2, QuietStep DEF Steps, TransactionSteps, TypeOK
<1>2. CASE CheckDelivery(r)
  <2>1. /\ pc[r] = "capacity"
        /\ UNCHANGED <<bookVars, answer, admin, owner, crashes>>
    BY <1>2 DEF CheckDelivery
  <2>2. PICK s \in {"products", "discount"} :
            /\ Goto(r, s) /\ pc'[r] = s
            /\ form[r].code = NoCode <=> s = "products"
    BY <1>2 DEF CheckDelivery, Goto, TypeOK
  <2>3. RequestInv(r)'
    BY <2>1, <2>2 DEF RequestInv, ProgressOf, HoldsAtLeast, HoldsAtMost,
       ChecksHold, AnswerIsTrue, LockingSteps, Validated, bookVars, Stored
  <2> QED
    BY <2>1, <2>2, <2>3, QuietStep DEF Steps, TransactionSteps, TypeOK
<1>3. CASE Validate(r)
  <2>1. /\ pc[r] = "validate" /\ Goto(r, "promotions") /\ pc'[r] = "promotions"
        /\ UNCHANGED <<bookVars, answer, admin, owner, crashes>>
        /\ InStock(r) /\ CodeUsable(r)
    BY <1>3 DEF Validate, Goto, TypeOK
  <2>2. HoldsAtLeast(r)' /\ HoldsAtMost(r)'
    BY <2>1 DEF RequestInv, HoldsAtLeast, HoldsAtMost, LockingSteps, Validated,
       bookVars, Items
  <2>3. InStock(r)' /\ CodeUsable(r)'
    BY <2>1 DEF InStock, CodeUsable, UsagesBy, Usages, Stored, Placed, Items,
       bookVars
  <2>4. RequestInv(r)'
    BY <2>1, <2>2, <2>3 DEF RequestInv, ProgressOf, ChecksHold, AnswerIsTrue,
       Validated, bookVars, Stored
  <2> QED
    BY <2>1, <2>4, QuietStep DEF Steps, TransactionSteps, TypeOK
<1>4. CASE ReadPromotions(r)
  <2>1. /\ pc[r] = "promotions"
        /\ UNCHANGED <<bookVars, answer, admin, owner, crashes>>
    BY <1>4 DEF ReadPromotions
  <2>2. PICK s \in {"points", "insert"} :
            /\ Goto(r, s) /\ pc'[r] = s
            /\ s = "insert" => ~form[r].redeems
    BY <1>4 DEF ReadPromotions, Goto, TypeOK
  <2>3. HoldsAtLeast(r)' /\ HoldsAtMost(r)'
    BY <2>1, <2>2 DEF RequestInv, HoldsAtLeast, HoldsAtMost, LockingSteps, Validated,
       bookVars, Items
  <2>4. ChecksHold(r)'
    BY <2>1, <2>2 DEF RequestInv, ChecksHold, Validated, PointsCover,
       InStock, CodeUsable, UsagesBy, Usages, Stored, Placed, Items, bookVars
  <2>5. RequestInv(r)'
    BY <2>1, <2>2, <2>3, <2>4 DEF RequestInv, ProgressOf, AnswerIsTrue,
       bookVars, Stored
  <2> QED
    BY <2>1, <2>2, <2>5, QuietStep DEF Steps, TransactionSteps, TypeOK
<1> QED
  BY <1>1, <1>2, <1>3, <1>4

\* A statement that locks a row, and what the lock adds to r's rows.
LEMMA LockingStep ==
    ASSUME CheckoutInv, NEW r \in Requests, NEW s \in Steps, Goto(r, s), Lock(r),
           UNCHANGED <<bookVars, answer, admin, crashes>>,
           RequestInv(r)'
    PROVE  CheckoutInv'
<1>1. Wanted(r) \in Rows
  BY WantedIsARow DEF Lock, Processes
<1>2. /\ owner' \in [Rows -> Processes \cup {Nobody}]
      /\ \A row \in Rows : owner'[row] # owner[row] =>
            owner[row] \in {r, Nobody} /\ owner'[row] \in {r, Nobody}
  BY <1>1, LockTakesOneRow DEF CheckoutInv, Processes
<1> QED
  BY <1>2, RequestStep DEF Goto, CheckoutInv, TypeOK

LEMMA LockDiscountKeepsInv ==
    ASSUME CheckoutInv, NEW r \in Requests, LockDiscount(r)
    PROVE  CheckoutInv'
<1> USE DEF CheckoutInv
<1>1. /\ pc[r] = "discount" /\ Lock(r) /\ Goto(r, "products")
      /\ pc'[r] = "products"
      /\ UNCHANGED <<bookVars, answer, admin, crashes>>
  BY DEF LockDiscount, Goto, TypeOK
<1>2. Wanted(r) = form[r].code /\ form[r].code \in Rows
  BY <1>1, FormFields DEF Wanted, RequestInv, HoldsAtLeast, Rows
<1>3. \A row \in Rows : owner[row] # r
  BY <1>1 DEF RequestInv, HoldsAtMost, LockingSteps, Validated
<1>4. \A row \in Rows : owner'[row] = r <=> row = form[r].code
  BY <1>1, <1>2, <1>3, LockTakesOneRow DEF Processes
<1>5. HoldsAtLeast(r)' /\ HoldsAtMost(r)'
  BY <1>1, <1>2, <1>4, FormFields
  DEF RequestInv, HoldsAtLeast, HoldsAtMost, LockingSteps, Validated, bookVars
<1>6. RequestInv(r)'
  BY <1>1, <1>5 DEF RequestInv, ProgressOf, ChecksHold, AnswerIsTrue, Validated,
     bookVars, Stored
<1> QED
  BY <1>1, <1>6, LockingStep DEF Steps, TransactionSteps

LEMMA LockProductKeepsInv ==
    ASSUME CheckoutInv, NEW r \in Requests, LockProduct(r)
    PROVE  CheckoutInv'
<1> USE DEF CheckoutInv
<1>1. /\ pc[r] = "products" /\ Lock(r)
      /\ UNCHANGED <<bookVars, answer, admin, crashes>>
  BY DEF LockProduct
<1>2. PICK s \in {"validate", "products"} :
          /\ Goto(r, s) /\ pc'[r] = s
          /\ s = "validate" => Unlocked(r) = {Wanted(r)}
  BY DEF LockProduct, Goto, TypeOK
<1> DEFINE p == NextProduct(r)
<1>3. /\ Wanted(r) = p /\ p \in Unlocked(r)
      /\ \A q \in Unlocked(r) : IdOrder[p] <= IdOrder[q]
  BY <1>1, NextProductIsUnlocked DEF Wanted, WantsLock, Lock
<1>4. p \in Items(form[r]) /\ p \in Rows /\ Items(form[r]) \subseteq Products
  BY <1>3, FormFields DEF Unlocked, Rows
<1>5. \A row \in Rows : owner'[row] = r <=> row = p \/ owner[row] = r
  BY <1>1, <1>3, <1>4, LockTakesOneRow DEF Processes
<1>6. Unlocked(r)' = Unlocked(r) \ {p}
  BY <1>1, <1>4, <1>5 DEF Unlocked, Items, Rows, bookVars
<1>7. \A q \in Unlocked(r) \ {p} : IdOrder[p] < IdOrder[q]
  BY <1>3, <1>4, CheckoutAssumption DEF Unlocked
<1>8. HoldsAtLeast(r)'
  <2>1. form[r].code # NoCode => owner'[form[r].code] = r
    BY <1>1, <1>5, FormFields DEF RequestInv, HoldsAtLeast, LockingSteps, Rows
  <2>2. s = "validate" => \A q \in Items(form[r]) : owner'[q] = r
    BY <1>2, <1>3, <1>4, <1>5 DEF Unlocked, Rows
  <2> QED
    BY <1>1, <1>2, <2>1, <2>2 DEF HoldsAtLeast, Validated, Items, bookVars
<1>9. HoldsAtMost(r)'
  BY <1>1, <1>2, <1>4, <1>5, <1>6, <1>7
  DEF RequestInv, HoldsAtMost, LockingSteps, Validated, Items, bookVars
<1>10. RequestInv(r)'
  BY <1>1, <1>2, <1>8, <1>9 DEF RequestInv, ProgressOf, ChecksHold, AnswerIsTrue,
     Validated, bookVars, Stored
<1> QED
  BY <1>1, <1>2, <1>10, LockingStep DEF Steps, TransactionSteps

LEMMA LockPointsKeepsInv ==
    ASSUME CheckoutInv, NEW r \in Requests, LockPoints(r)
    PROVE  CheckoutInv'
<1> USE DEF CheckoutInv
<1>1. /\ pc[r] = "points" /\ Lock(r) /\ Goto(r, "insert") /\ pc'[r] = "insert"
      /\ UNCHANGED <<bookVars, answer, admin, crashes>>
      /\ PointsCover(r)
  BY DEF LockPoints, Goto, TypeOK
<1>2. Wanted(r) = form[r].customer /\ form[r].customer \in Rows
  BY <1>1, FormFields DEF Wanted, Rows
<1>3. \A row \in Rows : owner'[row] = r <=>
          row = form[r].customer \/ owner[row] = r
  BY <1>1, <1>2, LockTakesOneRow DEF Processes
<1>4. HoldsAtLeast(r)'
  <2>1. form[r].code # NoCode => owner'[form[r].code] = r
    BY <1>1, <1>3, FormFields DEF RequestInv, HoldsAtLeast, LockingSteps, Validated, Rows
  <2>2. \A p \in Items(form[r]) : owner'[p] = r
    BY <1>1, <1>3, FormFields DEF RequestInv, HoldsAtLeast, Validated, Rows
  <2> QED
    BY <1>1, <1>2, <1>3, <2>1, <2>2 DEF HoldsAtLeast, Validated, Items, bookVars
<1>5. HoldsAtMost(r)'
  BY <1>1, <1>3 DEF RequestInv, HoldsAtMost, LockingSteps, Validated, Items, bookVars
<1>6. ChecksHold(r)'
  BY <1>1 DEF RequestInv, ChecksHold, Validated, PointsCover, InStock, CodeUsable,
     UsagesBy, Usages, Stored, Placed, Items, bookVars
<1>7. RequestInv(r)'
  BY <1>1, <1>4, <1>5, <1>6
  DEF RequestInv, ProgressOf, AnswerIsTrue, bookVars, Stored
<1> QED
  BY <1>1, <1>7, LockingStep DEF Steps, TransactionSteps

LEMMA InsertOrderKeepsInv ==
    ASSUME CheckoutInv, NEW r \in Requests, InsertOrder(r)
    PROVE  CheckoutInv'
<1> USE DEF CheckoutInv
<1>1. /\ pc[r] = "insert" /\ KeyUnused(r)
      /\ Goto(r, "commit") /\ pc'[r] = "commit"
      /\ UNCHANGED <<bookVars, answer, admin, crashes>>
  BY DEF InsertOrder, Goto, TypeOK
<1>2. ChecksHold(r)'
  BY <1>1 DEF RequestInv, ChecksHold, Validated, PointsCover, InStock, CodeUsable,
     KeyUnused, UsagesBy, Usages, Stored, Placed, Items, bookVars
<1>3. CASE key[r] = NoKey
  <2>1. owner' = owner
    BY <1>3 DEF InsertOrder
  <2>2. HoldsAtLeast(r)' /\ HoldsAtMost(r)'
    BY <1>1, <1>3, <2>1 DEF RequestInv, HoldsAtLeast, HoldsAtMost, LockingSteps,
       Validated, Items, bookVars
  <2>3. RequestInv(r)'
    BY <1>1, <1>2, <2>2 DEF RequestInv, ProgressOf, AnswerIsTrue, bookVars, Stored
  <2> QED
    BY <1>1, <2>1, <2>3, QuietStep DEF Steps, TransactionSteps, TypeOK
<1>4. CASE key[r] # NoKey
  <2>1. Lock(r) /\ Wanted(r) = key[r] /\ key[r] \in Rows /\ key[r] \in Keys
    BY <1>1, <1>4 DEF InsertOrder, Wanted, Rows, TypeOK, BookTypeOK
  <2>2. \A row \in Rows : owner'[row] = r <=> row = key[r] \/ owner[row] = r
    BY <2>1, LockTakesOneRow DEF Processes
  <2>3. HoldsAtLeast(r)'
    <3>1. form[r].code # NoCode => owner'[form[r].code] = r
      BY <1>1, <2>2, FormFields
      DEF RequestInv, HoldsAtLeast, LockingSteps, Validated, Rows
    <3>2. \A p \in Items(form[r]) : owner'[p] = r
      BY <1>1, <2>2, FormFields DEF RequestInv, HoldsAtLeast, Validated, Rows
    <3>3. form[r].redeems => owner'[form[r].customer] = r
      BY <1>1, <2>2, FormFields DEF RequestInv, HoldsAtLeast, Rows
    <3> QED
      BY <1>1, <2>1, <2>2, <3>1, <3>2, <3>3
      DEF HoldsAtLeast, Validated, Items, bookVars
  <2>4. HoldsAtMost(r)'
    BY <1>1, <2>1, <2>2
    DEF RequestInv, HoldsAtMost, LockingSteps, Validated, Items, bookVars
  <2>5. RequestInv(r)'
    BY <1>1, <1>2, <2>3, <2>4
    DEF RequestInv, ProgressOf, AnswerIsTrue, bookVars, Stored
  <2> QED
    BY <1>1, <2>1, <2>5, LockingStep DEF Steps, TransactionSteps
<1> QED
  BY <1>3, <1>4

LEMMA LoseRaceKeepsInv ==
    ASSUME CheckoutInv, NEW r \in Requests, LoseRace(r)
    PROVE  CheckoutInv'
<1> USE DEF CheckoutInv
<1>1. /\ pc[r] = "insert" /\ pc' = [pc EXCEPT ![r] = "race"] /\ pc'[r] = "race"
      /\ UNCHANGED <<bookVars, answer, admin, crashes>>
  BY DEF LoseRace, Goto, TypeOK
<1>2. /\ \A row \in Rows : owner'[row] =
            IF owner[row] = r THEN Nobody ELSE owner[row]
      /\ owner' \in [Rows -> Processes \cup {Nobody}]
  BY WithoutReleases DEF LoseRace, Processes
<1>3. \A row \in Rows : owner'[row] # r
  BY <1>2, CheckoutAssumption DEF Processes
<1>4. RequestInv(r)'
  BY <1>1, <1>3 DEF RequestInv, ProgressOf, HoldsAtLeast, HoldsAtMost, ChecksHold,
     AnswerIsTrue, LockingSteps, Validated, bookVars, Stored
<1> QED
  BY <1>1, <1>2, <1>4, RequestStep DEF Steps, TypeOK

\* Submitting changes the key and the form of a request that has done nothing.
LEMMA SubmitKeepsCheckoutInv ==
    ASSUME CheckoutInv, NEW r \in Requests, Submit(r)
    PROVE  CheckoutInv'
<1> USE DEF CheckoutInv
<1>1. /\ BookSubmit(r) /\ BookTypeOK
      /\ UNCHANGED <<answer, admin, owner, crashes>>
      /\ stock' = stock /\ used' = used /\ points' = points
      /\ book[r] = "none" /\ book'[r] = "submitted"
  BY DEF Submit, TypeOK, BookSubmit, BookTypeOK
<1>2. PICK s \in {"connect", "lookup"} : Goto(r, s) /\ pc'[r] = s
  BY DEF Submit, Goto, TypeOK
<1>3. /\ Placed' = Placed /\ Stored' = Stored
      /\ \A q \in Stored : key'[q] = key[q] /\ form'[q] = form[q]
      /\ \A c \in Codes, u \in Customers : UsagesBy(c, u)' = UsagesBy(c, u)
  BY <1>1, SubmitCounts
<1>4. \A q \in Requests : q # r =>
          book'[q] = book[q] /\ key'[q] = key[q] /\ form'[q] = form[q]
  BY <1>1 DEF BookSubmit, BookTypeOK
<1>5. TypeOK'
  <2>1. BookTypeOK'
    BY <1>1 DEF BookTypeOK, BookSubmit, Statuses
  <2> QED
    BY <1>1, <1>2, <2>1 DEF TypeOK, Goto
<1>6. pc[r] = "idle" /\ answer[r].kind = "none"
  BY <1>1 DEF RequestInv, ProgressOf
<1>7. RequestInv(r)'
  <2>1. \A row \in Rows : owner[row] # r
    BY <1>6 DEF RequestInv, HoldsAtMost, LockingSteps, Validated
  <2> QED
    BY <1>1, <1>2, <1>6, <2>1
    DEF RequestInv, ProgressOf, HoldsAtLeast, HoldsAtMost, ChecksHold,
        AnswerIsTrue, LockingSteps, Validated
<1>8. ASSUME NEW q \in Requests, q # r PROVE RequestInv(q)'
  <2>1. /\ pc'[q] = pc[q] /\ answer' = answer /\ owner' = owner
        /\ book'[q] = book[q] /\ key'[q] = key[q] /\ form'[q] = form[q]
    BY <1>1, <1>2, <1>4, <1>8 DEF Goto, TypeOK
  <2>2. HoldsAtLeast(q)' /\ HoldsAtMost(q)'
    BY <2>1 DEF RequestInv, HoldsAtLeast, HoldsAtMost, Unlocked, Items
  <2>3. ProgressOf(q)' /\ AnswerIsTrue(q)'
    BY <1>3, <2>1 DEF RequestInv, ProgressOf, AnswerIsTrue
  <2>4. ChecksHold(q)'
    <3>1. InStock(q)' <=> InStock(q)
      BY <1>1, <2>1 DEF InStock, Items
    <3>2. CodeUsable(q)' <=> CodeUsable(q)
      BY <1>1, <1>3, <2>1, FormFields DEF CodeUsable
    <3>3. (PointsCover(q)' <=> PointsCover(q)) /\ (KeyUnused(q)' <=> KeyUnused(q))
      BY <1>1, <1>3, <2>1 DEF PointsCover, KeyUnused
    <3> QED
      BY <2>1, <3>1, <3>2, <3>3 DEF RequestInv, ChecksHold
  <2> QED
    BY <2>2, <2>3, <2>4 DEF RequestInv
<1>9. ASSUME NEW a \in Admins PROVE AdminInv(a)'
  BY <1>1, <1>3 DEF AdminInv, Placed, Stored
<1> QED
  BY <1>5, <1>7, <1>8, <1>9

\* What a committing checkout writes is what OrderBook lets it write.
LEMMA CommitPlaces ==
    ASSUME CheckoutInv, NEW r \in Requests, Commit(r)
    PROVE  \/ RollBack(r, "failed")
           \/ BookPlace(r) /\ owner' = Without(r) /\ Goto(r, "respond")
                /\ UNCHANGED <<answer, admin, crashes>>
BY DEF CheckoutInv, RequestInv, ProgressOf, ChecksHold, Validated, Commit, BookPlace

\* The crux: what q has checked survives the commit of another order r, as
\* every row q's checks are about is locked by q, and r holds those it writes.
LEMMA ChecksSurviveCommit ==
    ASSUME CheckoutInv, NEW r \in Requests, pc[r] = "commit", BookPlace(r),
           NEW q \in Requests, q # r, pc' = [pc EXCEPT ![r] = "respond"]
    PROVE  ChecksHold(q)'
<1> USE DEF CheckoutInv
<1>1. pc'[q] = pc[q]
  BY DEF TypeOK
<1>2. /\ PlaceEffect(r) /\ book[r] = "submitted" /\ BookTypeOK
      /\ form' = form /\ key' = key
  BY DEF BookPlace, PlaceEffect, TypeOK
<1>3. /\ form[r].code # NoCode => owner[form[r].code] = r
      /\ \A p \in Items(form[r]) : owner[p] = r
      /\ form[r].redeems => owner[form[r].customer] = r
      /\ key[r] # NoKey => owner[key[r]] = r
  BY DEF RequestInv, HoldsAtLeast, LockingSteps, Validated
<1>4. ASSUME pc[q] \in Validated PROVE InStock(q)'
  <2>1. \A p \in Items(form[q]) : stock[p] > 0 /\ owner[p] = q /\ p \in Products
    BY <1>4, FormFields DEF RequestInv, ChecksHold, HoldsAtLeast, InStock
  <2>2. \A p \in Items(form[q]) : p \notin Items(form[r])
    BY <1>3, <2>1
  <2>3. \A p \in Items(form[q]) : stock'[p] = stock[p]
    BY <1>2, <2>1, <2>2 DEF PlaceEffect
  <2> QED
    BY <1>2, <2>1, <2>3 DEF InStock, Items
<1>5. ASSUME pc[q] \in Validated PROVE CodeUsable(q)'
  <2>1. CASE form[q].code = NoCode
    BY <1>2, <2>1 DEF CodeUsable
  <2>2. CASE form[q].code # NoCode
    <3> DEFINE c == form[q].code
               u == form[q].customer
    <3>1. c \in Codes /\ u \in Customers
      BY <2>2, FormFields
    <3>2. c # form[r].code
      BY <1>3, <1>5, <2>2 DEF RequestInv, HoldsAtLeast, LockingSteps
    <3>3. used'[c] = used[c] /\ UsagesBy(c, u)' = UsagesBy(c, u)
      BY <1>2, <3>1, <3>2, PlaceCounts DEF PlaceEffect
    <3>4. Placed' = Placed \cup {r} /\ r \notin UsagesBy(c, u)
      BY <1>2, <3>2, PlaceCounts DEF UsagesBy, Usages
    <3>5. CodeUsable(q)
      BY <1>5 DEF RequestInv, ChecksHold
    <3> QED
      BY <1>2, <2>2, <3>3, <3>4, <3>5 DEF CodeUsable
  <2> QED
    BY <2>1, <2>2
<1>6. ASSUME pc[q] \in {"insert", "commit"} PROVE PointsCover(q)'
  <2>1. CASE form[q].redeems
    <3>1. owner[form[q].customer] = q /\ points[form[q].customer] > 0
      BY <1>6, <2>1 DEF RequestInv, HoldsAtLeast, ChecksHold, PointsCover
    <3>2. points'[form[q].customer] = points[form[q].customer]
      BY <1>2, <1>3, <3>1, FormFields DEF PlaceEffect
    <3> QED
      BY <1>2, <3>1, <3>2 DEF PointsCover
  <2>2. CASE ~form[q].redeems
    BY <1>2, <2>2 DEF PointsCover
  <2> QED
    BY <2>1, <2>2
<1>7. ASSUME pc[q] = "commit" PROVE KeyUnused(q)'
  <2>1. KeyUnused(q) /\ (key[q] # NoKey => key[r] # key[q])
    BY <1>3, <1>7 DEF RequestInv, HoldsAtLeast, ChecksHold
  <2>2. Stored' = Stored \cup {r}
    BY <1>2, PlaceCounts
  <2> QED
    BY <1>2, <2>1, <2>2 DEF KeyUnused
<1> QED
  BY <1>1, <1>4, <1>5, <1>6, <1>7 DEF ChecksHold

LEMMA CommitKeepsInv ==
    ASSUME CheckoutInv, NEW r \in Requests, Commit(r)
    PROVE  CheckoutInv'
<1> USE DEF CheckoutInv
<1>1. pc[r] = "commit" /\ pc[r] \in TransactionSteps
  BY DEF Commit, TransactionSteps
<1>2. CASE RollBack(r, "failed")
  BY <1>1, <1>2, RollBackKeepsInv
<1>3. CASE BookPlace(r) /\ owner' = Without(r) /\ Goto(r, "respond")
             /\ UNCHANGED <<answer, admin, crashes>>
  <2>1. /\ PlaceEffect(r) /\ book[r] = "submitted" /\ BookTypeOK
        /\ form' = form /\ key' = key
        /\ pc' = [pc EXCEPT ![r] = "respond"] /\ pc'[r] = "respond"
    BY <1>3 DEF BookPlace, PlaceEffect, TypeOK, Goto
  <2>2. Stored' = Stored \cup {r} /\ Placed' = Placed \cup {r}
    BY <2>1, PlaceCounts
  <2>3. /\ \A row \in Rows : owner'[row] =
              IF owner[row] = r THEN Nobody ELSE owner[row]
        /\ owner' \in [Rows -> Processes \cup {Nobody}]
    BY <1>3, WithoutReleases DEF Processes
  <2>4. TypeOK'
    <3>1. form[r] \in Form
      BY BookAssumption, <2>1 DEF BookTypeOK
    <3>2. BookTypeOK'
      BY <1>3, <2>1, <3>1
      DEF BookTypeOK, BookPlace, PlaceEffect, Statuses, InStock
    <3> QED
      BY <1>3, <2>1, <2>3, <3>2 DEF TypeOK
  <2>5. RequestInv(r)'
    <3>1. \A row \in Rows : owner'[row] # r
      BY <2>3, CheckoutAssumption DEF Processes
    <3>2. answer[r].kind = "none" /\ book'[r] = "placed"
      BY <1>1, <2>1 DEF RequestInv, ProgressOf, PlaceEffect, BookTypeOK
    <3> QED
      BY <1>3, <2>1, <2>2, <3>1, <3>2
      DEF RequestInv, ProgressOf, HoldsAtLeast, HoldsAtMost, ChecksHold,
          AnswerIsTrue, LockingSteps, Validated
  <2>6. ASSUME NEW q \in Requests, q # r PROVE RequestInv(q)'
    <3>1. pc'[q] = pc[q] /\ answer'[q] = answer[q] /\ book'[q] = book[q]
      BY <1>3, <2>1, <2>6 DEF TypeOK, PlaceEffect, BookTypeOK
    <3>2. \A row \in Rows : owner'[row] = q <=> owner[row] = q
      BY <2>3, <2>6, CheckoutAssumption DEF Processes
    <3>3. ProgressOf(q)' /\ AnswerIsTrue(q)'
      BY <2>1, <2>2, <3>1 DEF RequestInv, ProgressOf, AnswerIsTrue
    <3>4. HoldsAtLeast(q)'
      BY <2>1, <3>1, <3>2, FormFields
      DEF RequestInv, HoldsAtLeast, Items, Rows, TypeOK, BookTypeOK
    <3>5. Unlocked(q)' = Unlocked(q)
      BY <2>1, <3>2, FormFields DEF Unlocked, Items, Rows
    <3>6. HoldsAtMost(q)'
      BY <2>1, <3>1, <3>2, <3>5 DEF RequestInv, HoldsAtMost, Items
    <3> QED
      BY <1>1, <1>3, <2>1, <2>6, <3>3, <3>4, <3>6, ChecksSurviveCommit DEF RequestInv
  <2>7. ASSUME NEW a \in Admins PROVE AdminInv(a)'
    <3>1. a # r /\ a # Nobody /\ admin' = admin
      BY <1>3, CheckoutAssumption DEF Processes
    <3>2. AdminInv(a) /\ \A o \in Stored : o \in Rows
      BY DEF Stored, Rows
    <3> QED
      BY <2>1, <2>2, <2>3, <3>1, <3>2 DEF AdminInv, Placed, Stored
  <2> QED
    BY <2>4, <2>5, <2>6, <2>7
<1> QED
  BY <1>2, <1>3, CommitPlaces

\* A statement of a cancellation that does not write.
LEMMA AdminStep ==
    ASSUME CheckoutInv, NEW a \in Admins,
           UNCHANGED <<bookVars, pc, answer, crashes>>,
           \A b \in Admins : b # a => admin'[b] = admin[b],
           admin' \in [Admins -> [pc : {"idle", "order", "items", "commit"},
                                 order : Requests \cup {NoRequest},
                                 next : Nat \ {0}]],
           owner' \in [Rows -> Processes \cup {Nobody}],
           \A row \in Rows : owner'[row] # owner[row] =>
               owner[row] \in {a, Nobody} /\ owner'[row] \in {a, Nobody},
           AdminInv(a)'
    PROVE  CheckoutInv'
<1> USE DEF CheckoutInv
<1>1. /\ book' = book /\ key' = key /\ form' = form
      /\ stock' = stock /\ used' = used /\ points' = points
      /\ pc' = pc /\ answer' = answer /\ crashes' = crashes
      /\ Stored' = Stored /\ Placed' = Placed
  BY DEF bookVars, Stored, Placed
<1>2. TypeOK'
  BY <1>1 DEF TypeOK, BookTypeOK
<1>3. ASSUME NEW q \in Requests PROVE RequestInv(q)'
  <2>1. \A row \in Rows : owner'[row] = q <=> owner[row] = q
    BY CheckoutAssumption DEF Processes
  <2>2. ProgressOf(q)' /\ AnswerIsTrue(q)'
    BY <1>1 DEF RequestInv, ProgressOf, AnswerIsTrue
  <2>3. HoldsAtLeast(q)'
    BY <1>1, <2>1, FormFields
    DEF RequestInv, HoldsAtLeast, Items, Rows, TypeOK, BookTypeOK
  <2>4. Unlocked(q)' = Unlocked(q)
    BY <1>1, <2>1, FormFields DEF Unlocked, Items, Rows
  <2>5. HoldsAtMost(q)'
    BY <1>1, <2>1, <2>4 DEF RequestInv, HoldsAtMost, Items
  <2>6. ChecksHold(q)'
    BY <1>1 DEF RequestInv, ChecksHold, InStock, CodeUsable, PointsCover,
       KeyUnused, UsagesBy, Usages, Items
  <2> QED
    BY <2>2, <2>3, <2>5, <2>6 DEF RequestInv
<1>4. ASSUME NEW b \in Admins, b # a PROVE AdminInv(b)'
  <2>1. b # Nobody /\ admin'[b] = admin[b]
    BY <1>4, CheckoutAssumption DEF Processes
  <2>2. \A row \in Rows : owner[row] = b => owner'[row] = b
    BY <1>4, <2>1
  <2>3. AdminInv(b) /\ \A o \in Stored : o \in Rows
    BY DEF Stored, Rows
  <2> QED
    BY <1>1, <2>1, <2>2, <2>3 DEF AdminInv
<1> QED
  BY <1>2, <1>3, <1>4

\* A cancellation that ends without writing leaves nothing behind.
LEMMA AbandonKeepsInv ==
    ASSUME CheckoutInv, NEW a \in Admins,
           UNCHANGED <<bookVars, pc, answer, crashes>>,
           admin' = [admin EXCEPT ![a] = Idle],
           owner' = Without(a) \/ owner' = owner
    PROVE  CheckoutInv'
<1>1. /\ owner' \in [Rows -> Processes \cup {Nobody}]
      /\ \A row \in Rows : owner'[row] # owner[row] =>
            owner[row] \in {a, Nobody} /\ owner'[row] \in {a, Nobody}
  BY WithoutReleases DEF CheckoutInv, TypeOK, Processes
<1>2. AdminInv(a)'
  BY DEF AdminInv, Idle, CheckoutInv, TypeOK
<1> QED
  BY <1>1, <1>2, AdminStep DEF CheckoutInv, TypeOK, Idle

LEMMA CancellingKeepsInv ==
    ASSUME CheckoutInv, NEW a \in Admins,
           LockOrder(a) \/ RestoreItem(a) \/ \E o \in Requests : BeginCancel(a, o)
    PROVE  CheckoutInv'
<1> USE DEF CheckoutInv
<1>1. ASSUME NEW o \in Requests, BeginCancel(a, o) PROVE CheckoutInv'
  <2>1. /\ o \in Stored /\ owner' = owner
        /\ admin'[a] = [pc |-> "order", order |-> o, next |-> 1]
    BY <1>1 DEF BeginCancel, TypeOK
  <2>2. AdminInv(a)'
    BY <1>1, <2>1 DEF AdminInv, BeginCancel, bookVars, Stored
  <2> QED
    BY <1>1, <2>1, <2>2, AdminStep DEF BeginCancel, TypeOK
<1>2. CASE LockOrder(a) /\ book[admin[a].order] = "placed"
  <2>1. /\ admin[a].pc = "order" /\ Lock(a)
        /\ admin' = [admin EXCEPT ![a].pc = "items"]
        /\ UNCHANGED <<bookVars, pc, answer, crashes>>
    BY <1>2 DEF LockOrder
  <2>2. /\ admin[a].order \in Placed /\ a \notin Requests
        /\ form[admin[a].order].cart # <<>>
        /\ form[admin[a].order].cart \in Seq(Products)
    BY <1>2, <2>1, CheckoutAssumption, FormFields DEF AdminInv, Stored, Placed
  <2>3. Wanted(a) = admin[a].order /\ Wanted(a) \in Rows
    BY <2>1, <2>2 DEF Wanted, Rows, Placed
  <2>4. /\ owner'[admin[a].order] = a
        /\ owner' \in [Rows -> Processes \cup {Nobody}]
        /\ \A row \in Rows : owner'[row] # owner[row] =>
              owner[row] \in {a, Nobody} /\ owner'[row] \in {a, Nobody}
    BY <2>1, <2>3, LockTakesOneRow DEF Processes
  <2>5. AdminInv(a)'
    <3>1. admin'[a].pc = "items" /\ admin'[a].order = admin[a].order
            /\ admin'[a].next = 1
      BY <2>1 DEF TypeOK, AdminInv
    <3>2. 1 \in DOMAIN form[admin[a].order].cart
      BY <2>2
    <3> QED
      BY <2>1, <2>2, <2>4, <3>1, <3>2 DEF AdminInv, bookVars, Stored, Placed
  <2> QED
    BY <2>1, <2>4, <2>5, AdminStep DEF TypeOK
<1>3. CASE LockOrder(a) /\ book[admin[a].order] # "placed"
  BY <1>3, AbandonKeepsInv DEF LockOrder
<1>4. CASE RestoreItem(a)
  <2> DEFINE o == admin[a].order
             cart == form[o].cart
  <2>1. /\ admin[a].pc = "items" /\ Lock(a)
        /\ admin' = [admin EXCEPT
              ![a].pc   = IF admin[a].next < Len(cart) THEN "items" ELSE "commit",
              ![a].next = admin[a].next + 1]
        /\ UNCHANGED <<bookVars, pc, answer, crashes>>
    BY <1>4 DEF RestoreItem
  <2>2. /\ o \in Placed /\ owner[o] = a /\ a \notin Requests
        /\ admin[a].next \in DOMAIN cart /\ cart \in Seq(Products)
    BY <2>1, CheckoutAssumption, FormFields DEF AdminInv, Placed
  <2>3. Wanted(a) = cart[admin[a].next] /\ Wanted(a) \in Rows /\ o \in Rows
    BY <2>1, <2>2 DEF Wanted, Rows, Placed
  <2>4. /\ owner'[o] = a
        /\ owner' \in [Rows -> Processes \cup {Nobody}]
        /\ \A row \in Rows : owner'[row] # owner[row] =>
              owner[row] \in {a, Nobody} /\ owner'[row] \in {a, Nobody}
    BY <2>1, <2>2, <2>3, LockTakesOneRow DEF Processes
  <2>5. /\ admin'[a].order = o
        /\ admin'[a].pc \in {"items", "commit"}
        /\ admin'[a].pc = "items" => admin[a].next < Len(cart)
        /\ admin'[a].next = admin[a].next + 1
        /\ admin' \in [Admins -> [pc : {"idle", "order", "items", "commit"},
                                  order : Requests \cup {NoRequest},
                                  next : Nat \ {0}]]
    BY <2>1 DEF TypeOK
  <2>6. admin'[a].pc = "items" => admin'[a].next \in DOMAIN cart
    BY <2>2, <2>5
  <2>7. AdminInv(a)'
    BY <2>1, <2>2, <2>4, <2>5, <2>6 DEF AdminInv, bookVars, Stored, Placed
  <2> QED
    BY <2>1, <2>4, <2>5, <2>7, AdminStep DEF TypeOK
<1> QED
  BY <1>1, <1>2, <1>3, <1>4

\* A cancellation gives back: no check that any checkout made can fail by it.
LEMMA ChecksSurviveCancel ==
    ASSUME CheckoutInv, NEW o \in Requests, BookCancel(o), pc' = pc,
           NEW q \in Requests
    PROVE  ChecksHold(q)'
<1> USE DEF CheckoutInv
<1>1. /\ form' = form /\ key' = key /\ used' = used /\ BookTypeOK
      /\ CancelEffect(o)
  BY DEF BookCancel, CancelEffect, TypeOK
<1>2. /\ Placed' = Placed \ {o} /\ Stored' = Stored
      /\ \A c \in Codes, u \in Customers : UsagesBy(c, u)' = UsagesBy(c, u)
  BY <1>1, CancelCounts
<1>3. InStock(q) => InStock(q)'
  <2>1. \A p \in Products : stock[p] > 0 => stock'[p] > 0
    BY <1>1 DEF CancelEffect, BookTypeOK
  <2> QED
    BY <1>1, <2>1, FormFields DEF InStock, Items
<1>4. CodeUsable(q) => CodeUsable(q)'
  BY <1>1, <1>2, FormFields DEF CodeUsable
<1>5. PointsCover(q) => PointsCover(q)'
  <2>1. \A u \in Customers : points[u] > 0 => points'[u] > 0
    BY <1>1 DEF CancelEffect, BookTypeOK
  <2> QED
    BY <1>1, <2>1, FormFields DEF PointsCover
<1>6. KeyUnused(q) => KeyUnused(q)'
  BY <1>1, <1>2 DEF KeyUnused
<1> QED
  BY <1>3, <1>4, <1>5, <1>6 DEF RequestInv, ChecksHold

LEMMA CommitCancelKeepsInv ==
    ASSUME CheckoutInv, NEW a \in Admins, CommitCancel(a)
    PROVE  CheckoutInv' /\ \E o \in Requests : BookCancel(o)
<1> USE DEF CheckoutInv
<1> DEFINE o == admin[a].order
<1>1. /\ admin[a].pc = "commit" /\ CancelEffect(o) /\ owner' = Without(a)
      /\ admin' = [admin EXCEPT ![a] = Idle]
      /\ UNCHANGED <<pc, answer, crashes>>
  BY DEF CommitCancel
<1>2. o \in Requests /\ o \in Placed /\ owner[o] = a
  BY <1>1 DEF AdminInv, Placed
<1>3. BookCancel(o)
  BY <1>1, <1>2 DEF BookCancel, Placed
<1>4. /\ form' = form /\ key' = key /\ used' = used /\ BookTypeOK
      /\ Placed' = Placed \ {o} /\ Stored' = Stored
      /\ book'[o] = "cancelled" /\ book[o] = "placed"
      /\ \A q \in Requests : q # o => book'[q] = book[q]
  BY <1>1, <1>2, <1>3, CancelCounts DEF CancelEffect, TypeOK, BookTypeOK, Placed
<1>5. /\ \A row \in Rows : owner'[row] =
            IF owner[row] = a THEN Nobody ELSE owner[row]
      /\ owner' \in [Rows -> Processes \cup {Nobody}]
  BY <1>1, WithoutReleases DEF Processes
<1>6. TypeOK'
  <2>1. BookTypeOK'
    BY <1>1, <1>4 DEF BookTypeOK, CancelEffect, Statuses
  <2> QED
    BY <1>1, <1>5, <2>1 DEF TypeOK, Idle
<1>7. ASSUME NEW q \in Requests PROVE RequestInv(q)'
  <2>1. \A row \in Rows : owner'[row] = q <=> owner[row] = q
    BY <1>5, CheckoutAssumption DEF Processes
  <2>2. ProgressOf(q)'
    BY <1>1, <1>4 DEF RequestInv, ProgressOf, Stored
  <2>3. AnswerIsTrue(q)'
    <3>1. book[q] = "submitted" => book'[q] = "submitted"
      BY <1>4
    <3> QED
      BY <1>1, <1>4, <3>1 DEF RequestInv, AnswerIsTrue
  <2>4. HoldsAtLeast(q)'
    BY <1>1, <1>4, <2>1, FormFields
    DEF RequestInv, HoldsAtLeast, Items, Rows, TypeOK, BookTypeOK
  <2>5. Unlocked(q)' = Unlocked(q)
    BY <1>4, <2>1, FormFields DEF Unlocked, Items, Rows
  <2>6. HoldsAtMost(q)'
    BY <1>1, <1>4, <2>1, <2>5 DEF RequestInv, HoldsAtMost, Items
  <2> QED
    BY <1>1, <1>2, <1>3, <2>2, <2>3, <2>4, <2>6, ChecksSurviveCancel DEF RequestInv
<1>8. ASSUME NEW b \in Admins PROVE AdminInv(b)'
  <2>1. CASE b = a
    BY <1>1, <2>1 DEF AdminInv, Idle, TypeOK
  <2>2. CASE b # a
    <3>1. admin'[b] = admin[b] /\ b # Nobody /\ AdminInv(b)
      BY <1>1, <2>2, CheckoutAssumption DEF TypeOK, Processes
    <3>2. admin[b].pc \in {"items", "commit"} => admin[b].order # o
      BY <1>2, <2>2, <3>1 DEF AdminInv
    <3>3. \A r \in Stored : r \in Rows
      BY DEF Stored, Rows
    <3> QED
      BY <1>4, <1>5, <2>2, <3>1, <3>2, <3>3 DEF AdminInv
  <2> QED
    BY <2>1, <2>2
<1> QED
  BY <1>2, <1>3, <1>6, <1>7, <1>8

LEMMA BreakDeadlockKeepsInv ==
    ASSUME CheckoutInv, NEW x \in Processes, BreakDeadlock(x)
    PROVE  CheckoutInv'
<1>1. CASE x \in Requests
  <2>1. WantsLock(x) /\ RollBack(x, "failed")
    BY <1>1 DEF BreakDeadlock, InCycle, WaitsFor, Waits
  <2>2. pc[x] \in TransactionSteps
    BY <1>1, <2>1 DEF WantsLock, TransactionSteps
  <2> QED
    BY <1>1, <2>1, <2>2, RollBackKeepsInv
<1>2. CASE x \notin Requests
  BY <1>2, AbandonKeepsInv DEF BreakDeadlock, Processes
<1> QED
  BY <1>1, <1>2

LEMMA CrashKeepsInv ==
    ASSUME CheckoutInv, Crash
    PROVE  CheckoutInv'
<1> USE DEF CheckoutInv
<1>1. /\ book' = book /\ key' = key /\ form' = form
      /\ stock' = stock /\ used' = used /\ points' = points
      /\ Stored' = Stored /\ Placed' = Placed
  BY DEF Crash, bookVars, Stored, Placed
<1>2. TypeOK'
  BY <1>1, CheckoutAssumption
  DEF Crash, TypeOK, BookTypeOK, Answers, Says, Idle
<1>3. ASSUME NEW r \in Requests PROVE RequestInv(r)'
  <2>1. \A row \in Rows : owner'[row] # r
    BY CheckoutAssumption DEF Crash, Processes
  <2>2. /\ pc'[r] = IF pc[r] = "idle" THEN "idle" ELSE "done"
        /\ answer'[r] = IF pc[r] \in {"idle", "done"} THEN answer[r]
                        ELSE Says("failed", NoRequest)
    BY DEF Crash
  <2>3. ProgressOf(r)' /\ AnswerIsTrue(r)'
    BY <1>1, <2>2 DEF RequestInv, ProgressOf, AnswerIsTrue, Says
  <2> QED
    BY <1>1, <2>1, <2>2, <2>3
    DEF RequestInv, HoldsAtLeast, HoldsAtMost, ChecksHold, LockingSteps, Validated
<1>4. ASSUME NEW a \in Admins PROVE AdminInv(a)'
  BY DEF Crash, AdminInv, Idle
<1> QED
  BY <1>2, <1>3, <1>4

LEMMA NextKeepsInv ==
    ASSUME CheckoutInv, [Next]_vars
    PROVE  CheckoutInv'
<1>1. ASSUME NEW r \in Requests, Submit(r) \/ Locking(r) PROVE CheckoutInv'
  BY <1>1, SubmitKeepsCheckoutInv, LockDiscountKeepsInv, LockProductKeepsInv,
     LockPointsKeepsInv, InsertOrderKeepsInv DEF Locking
<1>2. ASSUME NEW r \in Requests, Working(r) PROVE CheckoutInv'
  <2>1. CASE RefuseDelivery(r) \/ RefuseCart(r) \/ RefusePoints(r)
    <3>1. pc[r] \in TransactionSteps /\ RollBack(r, "rejected")
      BY <2>1 DEF RefuseDelivery, RefuseCart, RefusePoints, TransactionSteps
    <3> QED
      BY <3>1, RollBackKeepsInv
  <2>2. CASE ~(RefuseDelivery(r) \/ RefuseCart(r) \/ RefusePoints(r))
    BY <1>2, <2>2, LookupKeepsInv, ReadingKeepsInv, LoseRaceKeepsInv,
       ReplayAfterRaceKeepsInv, CommitKeepsInv, RespondKeepsInv DEF Working
  <2> QED
    BY <2>1, <2>2
<1>3. ASSUME NEW a \in Admins,
             Cancelling(a) \/ \E o \in Requests : BeginCancel(a, o)
      PROVE  CheckoutInv'
  BY <1>3, CancellingKeepsInv, CommitCancelKeepsInv DEF Cancelling
<1>4. CASE UNCHANGED vars
  <2>1. /\ UNCHANGED <<book, key, form, stock, used, points>>
        /\ UNCHANGED <<pc, answer, admin, owner, crashes>>
        /\ Stored' = Stored /\ Placed' = Placed
    BY <1>4 DEF vars, bookVars, sessionVars, Stored, Placed
  <2>2. TypeOK'
    BY <2>1 DEF CheckoutInv, TypeOK, BookTypeOK
  <2>3. ASSUME NEW r \in Requests PROVE RequestInv(r)'
    <3>1. ProgressOf(r)' /\ AnswerIsTrue(r)'
      BY <2>1 DEF CheckoutInv, RequestInv, ProgressOf, AnswerIsTrue
    <3>2. HoldsAtLeast(r)' /\ HoldsAtMost(r)'
      BY <2>1 DEF CheckoutInv, RequestInv, HoldsAtLeast, HoldsAtMost, Unlocked, Items
    <3>3. ChecksHold(r)'
      BY <2>1 DEF CheckoutInv, RequestInv, ChecksHold, InStock, CodeUsable,
         PointsCover, KeyUnused, UsagesBy, Usages, Items
    <3> QED
      BY <3>1, <3>2, <3>3 DEF RequestInv
  <2>4. ASSUME NEW a \in Admins PROVE AdminInv(a)'
    BY <2>1 DEF CheckoutInv, AdminInv
  <2> QED
    BY <2>2, <2>3, <2>4 DEF CheckoutInv
<1> QED
  BY <1>1, <1>2, <1>3, <1>4, BreakDeadlockKeepsInv, CrashKeepsInv DEF Next
-----------------------------------------------------------------------------
(* What follows for every behaviour *)

\* Locks, checks and answers are in order in every state of every behaviour.
THEOREM CheckoutInvariant == Spec => []CheckoutInv
BY InitCheckoutInv, NextKeepsInv, PTL DEF Spec

\* The variables of createOrder and cancelOrder keep their types.
THEOREM CheckoutTypes == Spec => []TypeOK
<1>1. CheckoutInv => TypeOK
  BY DEF CheckoutInv
<1> QED
  BY <1>1, CheckoutInvariant, PTL

\* Nothing that createOrder checked under a lock can have changed when it
\* writes: the guarded UPDATEs never fire on stale values.
THEOREM ChecksAreNeverStale == Spec => []ChecksStillHold
<1>1. CheckoutInv => ChecksStillHold
  BY DEF CheckoutInv, RequestInv, ChecksStillHold
<1> QED
  BY <1>1, CheckoutInvariant, PTL

\* No client is told of an order that is not stored, or refused one that is.
THEOREM ClientsAreToldTheTruth == Spec => []AnswersAreTrue
<1>1. CheckoutInv => AnswersAreTrue
  BY DEF CheckoutInv, RequestInv, AnswersAreTrue
<1> QED
  BY <1>1, CheckoutInvariant, PTL

\* Statement by statement, createOrder and cancelOrder implement the book.
THEOREM CheckoutImplementsBook == Spec => BookSpec
<1>1. Init => BookInit
  BY DEF Init
<1>2. ASSUME CheckoutInv, [Next]_vars PROVE [BookNext]_bookVars
  <2>1. ASSUME NEW r \in Requests, Submit(r) PROVE BookNext
    BY <2>1 DEF Submit, BookNext
  <2>2. ASSUME NEW r \in Requests, Locking(r) PROVE UNCHANGED bookVars
    BY <2>2 DEF Locking, LockDiscount, LockProduct, LockPoints, InsertOrder
  <2>3. ASSUME NEW r \in Requests, Commit(r) PROVE [BookNext]_bookVars
    <3>1. CASE RollBack(r, "failed")
      BY <3>1 DEF RollBack
    <3>2. CASE BookPlace(r)
      BY <3>2 DEF BookNext
    <3> QED
      BY <1>2, <2>3, <3>1, <3>2, CommitPlaces
  <2>4. ASSUME NEW r \in Requests, Working(r), ~Commit(r) PROVE UNCHANGED bookVars
    BY <2>4 DEF Working, Lookup, Connect, CheckDelivery, RefuseDelivery, Validate,
       RefuseCart, ReadPromotions, RefusePoints, LoseRace, ReplayAfterRace,
       Respond, RollBack
  <2>5. ASSUME NEW a \in Admins, CommitCancel(a) PROVE BookNext
    BY <1>2, <2>5, CommitCancelKeepsInv DEF BookNext
  <2>6. ASSUME NEW a \in Admins,
               \/ LockOrder(a) \/ RestoreItem(a)
               \/ \E o \in Requests : BeginCancel(a, o)
        PROVE  UNCHANGED bookVars
    BY <2>6 DEF LockOrder, RestoreItem, BeginCancel
  <2>7. ASSUME \/ \E x \in Processes : BreakDeadlock(x)
               \/ Crash
               \/ UNCHANGED vars
        PROVE  UNCHANGED bookVars
    BY <2>7 DEF BreakDeadlock, RollBack, Crash, vars
  <2> QED
    BY <1>2, <2>1, <2>2, <2>3, <2>4, <2>5, <2>6, <2>7 DEF Next, Cancelling
<1> QED
  BY <1>1, <1>2, CheckoutInvariant, PTL DEF Spec, BookSpec

\* So every promise of the book holds of the code's statements: stock, code
\* counters, caps, first orders, points and keys.
THEOREM CheckoutKeepsThePromises ==
    Spec => [](/\ StockAccounted /\ UsesAccounted /\ CustomerUsesCapped
               /\ FirstOrderOnce /\ PointsAccounted /\ OneOrderPerKey)
<1>1. BookInv => /\ StockAccounted /\ UsesAccounted /\ CustomerUsesCapped
                 /\ FirstOrderOnce /\ PointsAccounted /\ OneOrderPerKey
  BY DEF BookInv
<1> QED
  BY <1>1, CheckoutImplementsBook, BookKeepsItsPromises, PTL

\* However often a client resends its checkout, and whatever is lost between the commit
\* and the answer, its idempotency key stands for one order.
THEOREM RetriesPlaceNothingTwice == Spec => []OneOrderPerKey
BY CheckoutKeepsThePromises, PTL

\* Checkouts of one customer that race never take a code more often than its limit for
\* that customer: its uses are counted under the lock of the code's row.
THEOREM CodesAreCappedPerCustomer == Spec => []CustomerUsesCapped
BY CheckoutKeepsThePromises, PTL
-----------------------------------------------------------------------------
(* Checkouts never wait for each other in a circle *)

\* Every map from a nonempty finite set to the naturals has a greatest value.
LEMMA GreatestValue ==
    ASSUME NEW S, IsFiniteSet(S), S # {}, NEW f \in [S -> Nat]
    PROVE  \E n \in S : \A m \in S : ~(f[m] > f[n])
<1> DEFINE Above(n) == {m \in S : f[m] > f[n]}
           T == {Above(n) : n \in S}
           R == StrictSubsetOrdering(S)
<1>1. T \subseteq FiniteSubsetsOf(S) /\ T # {}
  <2>1. FiniteSubsetsOf(S) = SUBSET S
    BY FS_FiniteSubsetsOfFinite
  <2>2. \A n \in S : Above(n) \in SUBSET S
    OBVIOUS
  <2>3. T \subseteq SUBSET S
    BY <2>2
  <2>4. PICK n \in S : TRUE
    OBVIOUS
  <2>5. Above(n) \in T
    OBVIOUS
  <2> QED
    BY <2>1, <2>3, <2>5
<1>2. IsWellFoundedOn(R, FiniteSubsetsOf(S))
  BY FS_StrictSubsetOrderingWellFounded
<1>3. \A U, V \in SUBSET S : U \subseteq V /\ U # V => <<U, V>> \in R
  BY DEF StrictSubsetOrdering
<1>4. \E U \in T : \A V \in T : ~(<<V, U>> \in R)
  <2> HIDE DEF R, T
  <2> QED
    BY <1>1, <1>2, WFMin
<1>5. PICK n \in S : \A m \in S : ~(<<Above(m), Above(n)>> \in R)
  BY <1>4
<1>6. ASSUME NEW m \in S, f[m] > f[n] PROVE FALSE
  <2>1. Above(m) \subseteq Above(n) /\ m \in Above(n) /\ m \notin Above(m)
    BY <1>6
  <2> QED
    BY <1>3, <1>5, <2>1
<1> QED
  BY <1>6

\* Locks are taken kind by kind, and products in id order.
Kind(row) == IF row \in Codes THEN 0 ELSE IF row \in Products THEN 1
             ELSE IF row \in Customers THEN 2 ELSE 3

\* What a waiting checkout holds comes before what it waits for.
LEMMA HeldBeforeWanted ==
    ASSUME CheckoutInv, NEW r \in Requests, WantsLock(r),
           NEW row \in Rows, owner[row] = r
    PROVE  \/ Kind(row) < Kind(Wanted(r))
           \/ /\ row \in Products /\ Wanted(r) \in Products
              /\ IdOrder[row] < IdOrder[Wanted(r)]
<1> USE DEF CheckoutInv
<1>1. /\ form[r].code \in Codes \cup {NoCode} /\ form[r].customer \in Customers
      /\ Items(form[r]) \subseteq Products /\ key[r] \in Keys \cup {NoKey}
  BY FormFields DEF TypeOK, BookTypeOK
<1>2. /\ pc[r] \in LockingSteps
      /\ \/ row = form[r].code /\ row \in Codes
         \/ /\ row \in Items(form[r])
            /\ pc[r] = "products" =>
                  \A p \in Unlocked(r) : IdOrder[row] < IdOrder[p]
         \/ row = form[r].customer /\ pc[r] \in {"insert", "commit"}
         \/ row = key[r] /\ row \in Keys /\ pc[r] = "commit"
  BY DEF RequestInv, HoldsAtMost
<1>3. /\ \A c \in Codes : Kind(c) = 0
      /\ \A p \in Products : Kind(p) = 1
      /\ \A u \in Customers : Kind(u) = 2
      /\ \A k \in Keys : Kind(k) = 3
  BY CheckoutAssumption DEF Kind
<1>4. CASE pc[r] = "products"
  <2>1. Wanted(r) = NextProduct(r) /\ NextProduct(r) \in Unlocked(r)
    BY <1>4, NextProductIsUnlocked DEF WantsLock, Wanted
  <2>2. Wanted(r) \in Products /\ Kind(Wanted(r)) = 1
    BY <1>1, <1>3, <2>1 DEF Unlocked
  <2>3. CASE row \in Codes
    BY <1>3, <2>2, <2>3
  <2>4. CASE row \in Items(form[r])
    BY <1>1, <1>2, <1>3, <1>4, <2>1, <2>2, <2>4 DEF Unlocked
  <2> QED
    BY <1>2, <1>4, <2>3, <2>4
<1>5. CASE pc[r] = "points"
  <2>1. Kind(Wanted(r)) = 2
    BY <1>1, <1>3, <1>5 DEF Wanted
  <2>2. Kind(row) \in {0, 1}
    BY <1>1, <1>2, <1>3, <1>5
  <2> QED
    BY <2>1, <2>2
<1>6. CASE pc[r] = "insert" /\ key[r] # NoKey
  <2>1. Kind(Wanted(r)) = 3
    BY <1>1, <1>3, <1>6 DEF Wanted
  <2>2. Kind(row) \in {0, 1, 2}
    BY <1>1, <1>2, <1>3, <1>6
  <2> QED
    BY <2>1, <2>2
<1> QED
  BY <1>2, <1>4, <1>5, <1>6 DEF WantsLock, LockingSteps, Validated

\* In every state some checkout of any set waits for none of that set: take,
\* of those that want a row of the last kind, one that wants the last of them.
THEOREM CheckoutsNeverWaitInACircle == Spec => []CheckoutsNeverDeadlock
<1>1. ASSUME CheckoutInv, NEW S \in SUBSET Requests, S # {}
      PROVE  \E r \in S : \A q \in S : ~WaitsFor(r, q)
  <2> SUFFICES ASSUME \A r \in S : \E q \in S : WaitsFor(r, q)
               PROVE  FALSE
    OBVIOUS
  <2>1. \A r \in S : WantsLock(r) /\ Wanted(r) \in Rows
    BY <1>1, WantedIsARow DEF WaitsFor, Waits, Processes
  <2>2. IsFiniteSet(S)
    BY CountsAreNaturals
  <2> DEFINE kind == [r \in S |-> Kind(Wanted(r))]
  <2>3. kind \in [S -> Nat]
    BY DEF Kind
  <2>4. PICK t \in S : \A r \in S : ~(kind[r] > kind[t])
    <3> HIDE DEF kind
    <3> QED
      BY <1>1, <2>2, <2>3, GreatestValue
  <2> DEFINE Last == {r \in S : kind[r] = kind[t]}
             place == [r \in Last |-> IF Wanted(r) \in Products
                                     THEN IdOrder[Wanted(r)] ELSE 0]
  <2>5. place \in [Last -> Nat]
    BY CheckoutAssumption
  <2>6. Last # {} /\ IsFiniteSet(Last)
    BY <2>2, FS_Subset
  <2>7. PICK u \in Last : \A r \in Last : ~(place[r] > place[u])
    <3> HIDE DEF place, Last
    <3> QED
      BY <2>5, <2>6, GreatestValue
  <2>8. PICK q \in S : WaitsFor(u, q)
    OBVIOUS
  <2>9. \/ Kind(Wanted(u)) < Kind(Wanted(q))
        \/ /\ Wanted(u) \in Products /\ Wanted(q) \in Products
           /\ IdOrder[Wanted(u)] < IdOrder[Wanted(q)]
    BY <1>1, <2>1, <2>8, HeldBeforeWanted DEF WaitsFor
  <2>10. Kind(Wanted(u)) \in Nat /\ Kind(Wanted(q)) \in Nat
    BY DEF Kind
  <2>11. CASE Kind(Wanted(u)) < Kind(Wanted(q))
    BY <2>4, <2>10, <2>11
  <2>12. CASE /\ Wanted(u) \in Products /\ Wanted(q) \in Products
              /\ IdOrder[Wanted(u)] < IdOrder[Wanted(q)]
    <3>1. Kind(Wanted(u)) = 1 /\ Kind(Wanted(q)) = 1
      BY <2>12, CheckoutAssumption DEF Kind
    <3>2. q \in Last
      BY <3>1
    <3>3. place[u] < place[q] /\ place[u] \in Nat /\ place[q] \in Nat
      BY <2>12, <3>2, CheckoutAssumption
    <3> QED
      BY <2>7, <3>2, <3>3
  <2> QED
    BY <2>9, <2>11, <2>12
<1>2. CheckoutInv => CheckoutsNeverDeadlock
  BY <1>1 DEF CheckoutsNeverDeadlock
<1> QED
  BY <1>2, CheckoutInvariant, PTL
=============================================================================
