----------------------------- MODULE MoneyProofs -----------------------------
(***************************************************************************)
(* The money.  First what Couriers keeps true of the cash that couriers    *)
(* carry, for any number of orders, couriers, accounts, administrators and *)
(* settlements.  Then the price: what Pricing makes of any cart, price     *)
(* list, promotions and coupons, and that the checkout page (Cart) shows   *)
(* no less than what createOrder charges.                                  *)
(***************************************************************************)
EXTENDS Couriers, Cart, FiniteSetTheorems, TLAPS
-----------------------------------------------------------------------------
(* The couriers *)
CostOf(c, o) == c[o]
Plus(c, x, y) == x + y
Some(S) == CHOOSE x \in S : TRUE
Paid == INSTANCE FoldFacts WITH op <- Plus, map <- CostOf, choose <- Some

Parties == Admins \cup Users

Steps == [from : Statuses \cup {NoOne}, to : Statuses]

OrderRows == [status : Statuses, rider : Riders \cup {NoOne}, settlement : Nat]

SettlementRows ==
    [rider : Riders, amount : Int, count : Int, listed : SUBSET Orders, after : Nat]

Requests ==
    {Idle} \cup [doing : {"known"}, rider : Riders]
    \cup [doing : {"changing"}, order : Orders, from : Statuses, to : Statuses,
          by : Riders \cup {NoOne}]
    \cup [doing : {"telling"}, order : Orders, to : Statuses]
    \cup [doing : {"settling"}, rider : Riders, listed : SUBSET Orders, after : Nat]

Types ==
    /\ orders \in [Orders -> OrderRows]
    /\ history \in [Orders -> Seq(Steps)]
    /\ riders \in [Riders -> [user : Users \cup {NoOne}, active : BOOLEAN]]
    /\ settlements \in Seq(SettlementRows)
    /\ requests \in [Parties -> Requests]

AccountsAreUnique ==
    \A r, s \in Riders : r # s /\ riders[r].user = riders[s].user => riders[r].user = NoOne

\* A row that a request holds is as the request read it.
ReadsHold(p) ==
    LET r == requests[p] IN
    r.doing = "changing" =>
        /\ orders[r.order].status = r.from /\ CanBecome(r.from, r.to)
        /\ p \in Users => orders[r.order].rider = r.by

OneHolder(p, q) ==
    /\ requests[p].doing = "changing" /\ requests[q].doing = "changing"
    /\ requests[p].order = requests[q].order
    => p = q

Listed(S) ==
    /\ S.after <= Len(settlements)
    /\ \A o \in S.listed : orders[o].status = "delivered"
    /\ \A i \in 1 .. S.after : S.listed \cap settlements[i].listed = {}

\* What a request listed was delivered, and settled by none it could have seen.
ListsHold(p) == requests[p].doing = "settling" => Listed(requests[p])

\* An order points to the last settlement it was listed for.
PointsToLast(o) ==
    LET k == orders[o].settlement IN
    /\ k <= Len(settlements)
    /\ k # 0 => o \in settlements[k].listed
    /\ \A j \in k + 1 .. Len(settlements) : o \notin settlements[j].listed

AddsUp(i) ==
    /\ settlements[i].amount = Amount(settlements[i].listed)
    /\ settlements[i].count = Cardinality(settlements[i].listed)

RequestsInv == \A p \in Parties : ReadsHold(p) /\ ListsHold(p) /\ \A q \in Parties : OneHolder(p, q)

SettlementsInv ==
    /\ \A o \in Orders : PointsToLast(o)
    /\ \A i \in DOMAIN settlements : AddsUp(i)
    /\ PaidTwiceOnlyInARace
    /\ SettledAreDelivered

HistoryInv == (\A o \in Orders : history[o] # <<>>) /\ HistoryIsAPath /\ ToldIsTrue

IInv == Types /\ AccountsAreUnique /\ RequestsInv /\ HistoryInv /\ SettlementsInv
-----------------------------------------------------------------------------
(* Statuses and routes *)

\* The statuses, and that of no order that was delivered anything comes after.
LEMMA StatusFacts ==
  /\ Statuses = {"placed", "preparing", "ready_for_delivery", "out_for_delivery",
                 "delivered", "cancelled"}
  /\ \A s \in Statuses : After[s] \subseteq Statuses
  /\ After["delivered"] = {}
BY DEF Statuses, After

\* The way of an order is one of allowed steps.
LEMMA RouteFacts ==
  /\ DOMAIN Route = 1 .. 5 /\ Route[1] = "placed"
  /\ \A i \in 1 .. 5 : Route[i] \in Statuses
  /\ \A i \in 2 .. 5 : Route[i] \in After[Route[i - 1]]
<1>1. DOMAIN Route = 1 .. 5 /\ Route[1] = "placed" /\ Len(Route) = 5
  BY DEF Route
<1>2. \A i \in 1 .. 5 : Route[i] \in Statuses
  BY StatusFacts DEF Route
<1>3. \A i \in 2 .. 5 : Route[i] \in After[Route[i - 1]]
  <2>1. \A i \in 2 .. 5 : i = 2 \/ i = 3 \/ i = 4 \/ i = 5
    OBVIOUS
  <2>2. Route[2] \in After[Route[1]] /\ Route[3] \in After[Route[2]]
    BY DEF Route, After
  <2>3. Route[4] \in After[Route[3]] /\ Route[5] \in After[Route[4]]
    BY DEF Route, After
  <2> QED
    BY <2>1, <2>2, <2>3
<1> QED
  BY <1>1, <1>2, <1>3

\* What a courier's request may do is what the table of statuses allows.
LEMMA RiderStepsAreAllowed ==
  \A s \in DOMAIN RiderNext : CanBecome(s, RiderNext[s]) /\ RiderNext[s] \in Statuses
BY StatusFacts DEF RiderNext, CanBecome, After
-----------------------------------------------------------------------------
(* The first states *)

\* Wherever on their route the orders are found, the invariant holds.
LEMMA CouriersInit == Init => IInv
<1> SUFFICES ASSUME Init PROVE IInv
  OBVIOUS
<1>1. PICK come \in [Orders -> {i \in DOMAIN Route : Route[i] \in Start}] :
        /\ orders = [o \in Orders |->
              [status |-> Route[come[o]], rider |-> NoOne, settlement |-> 0]]
        /\ history = [o \in Orders |-> [i \in 1 .. come[o] |->
              [from |-> IF i = 1 THEN NoOne ELSE Route[i - 1], to |-> Route[i]]]]
  BY DEF Init
<1>2. \A o \in Orders : come[o] \in 1 .. 5
  BY <1>1, RouteFacts
<1>3. ASSUME NEW o \in Orders
      PROVE  /\ history[o] \in Seq(Steps) /\ Len(history[o]) = come[o]
             /\ \A i \in 1 .. come[o] :
                    /\ history[o][i].to = Route[i]
                    /\ i # 1 => history[o][i].from = Route[i - 1]
  <2> DEFINE h == [i \in 1 .. come[o] |->
                    [from |-> IF i = 1 THEN NoOne ELSE Route[i - 1], to |-> Route[i]]]
  <2>1. history[o] = h
    BY <1>1
  <2>2. \A i \in 1 .. come[o] : h[i] \in Steps
    BY <1>2, RouteFacts DEF Steps
  <2>3. h \in Seq(Steps) /\ Len(h) = come[o]
    BY <1>2, <2>2
  <2>4. \A i \in 1 .. come[o] : h[i].to = Route[i] /\ (i # 1 => h[i].from = Route[i - 1])
    OBVIOUS
  <2> HIDE DEF h
  <2> QED
    BY <2>1, <2>3, <2>4
<1>4. Types
  <2>1. orders \in [Orders -> OrderRows]
    BY <1>1, <1>2, RouteFacts DEF OrderRows
  <2>2. history \in [Orders -> Seq(Steps)]
    BY <1>1, <1>3
  <2> QED
    BY <2>1, <2>2 DEF Init, Types, Requests, Parties
<1>5. AccountsAreUnique
  BY DEF Init, AccountsAreUnique
<1>6. RequestsInv /\ ToldIsTrue
  BY DEF Init, RequestsInv, ReadsHold, ListsHold, OneHolder, ToldIsTrue, Parties, Idle
<1>7. HistoryIsAPath
  <2> SUFFICES ASSUME NEW o \in Orders
               PROVE  LET h == history[o] IN
                      /\ h[1].to = "placed" /\ h[Len(h)].to = orders[o].status
                      /\ \A i \in 2 .. Len(h) :
                            h[i].from = h[i - 1].to /\ h[i].to \in After[h[i].from]
    BY DEF HistoryIsAPath
  <2>1. history[o][1].to = "placed" /\ history[o][Len(history[o])].to = orders[o].status
    BY <1>1, <1>2, <1>3, RouteFacts
  <2>2. ASSUME NEW i \in 2 .. Len(history[o])
        PROVE  /\ history[o][i].from = history[o][i - 1].to
               /\ history[o][i].to \in After[history[o][i].from]
    <3>1. i \in 2 .. 5 /\ i \in 1 .. come[o] /\ i - 1 \in 1 .. come[o] /\ i # 1
      BY <1>2, <1>3
    <3>2. /\ history[o][i].from = Route[i - 1] /\ history[o][i].to = Route[i]
          /\ history[o][i - 1].to = Route[i - 1]
      BY <1>3, <3>1
    <3>3. Route[i] \in After[Route[i - 1]]
      BY <3>1, RouteFacts
    <3> QED
      BY <3>2, <3>3
  <2> QED
    BY <2>1, <2>2
<1>8. \A o \in Orders : history[o] # <<>>
  BY <1>2, <1>3
<1>9. SettlementsInv
  BY <1>1 DEF Init, SettlementsInv, PointsToLast, PaidTwiceOnlyInARace, SettledAreDelivered
<1> QED
  BY <1>4, <1>5, <1>6, <1>7, <1>8, <1>9 DEF IInv, HistoryInv
-----------------------------------------------------------------------------
(* Steps of one request that write nothing *)

\* A request that goes on to what is true of the rows, and holds no row another holds,
\* leaves the invariant true.
LEMMA RequestGoes ==
  ASSUME IInv, NEW p \in Parties, NEW request \in Requests, Goes(p, request),
         UNCHANGED <<orders, history, riders, settlements>>,
         request.doing = "changing" =>
            /\ orders[request.order].status = request.from
            /\ CanBecome(request.from, request.to)
            /\ p \in Users => orders[request.order].rider = request.by
            /\ Free(request.order),
         request.doing = "settling" => Listed(request),
         request.doing # "telling"
  PROVE  IInv'
<1>1. /\ requests \in [Parties -> Requests]
      /\ requests' = [requests EXCEPT ![p] = request]
      /\ orders' = orders /\ history' = history /\ riders' = riders
      /\ settlements' = settlements
  BY DEF IInv, Types, Goes
<1>2. requests'[p] = request /\ \A q \in Parties \ {p} : requests'[q] = requests[q]
  BY <1>1
<1>3. Types'
  BY <1>1 DEF IInv, Types
<1>4. AccountsAreUnique' /\ SettlementsInv'
  BY <1>1 DEF IInv, AccountsAreUnique, SettlementsInv, PointsToLast, AddsUp,
     PaidTwiceOnlyInARace, SettledAreDelivered
<1>5. HistoryInv'
  <2>1. HistoryIsAPath' /\ \A o \in Orders : history'[o] # <<>>
    BY <1>1 DEF IInv, HistoryInv, HistoryIsAPath
  <2>2. ToldIsTrue'
    BY <1>1, <1>2 DEF IInv, HistoryInv, ToldIsTrue, Parties
  <2> QED
    BY <2>1, <2>2 DEF HistoryInv
<1>6. RequestsInv'
  <2>1. ASSUME NEW q \in Parties PROVE ReadsHold(q)' /\ ListsHold(q)'
    <3>1. CASE q = p
      BY <1>1, <1>2, <3>1 DEF ReadsHold, ListsHold, Listed
    <3>2. CASE q # p
      BY <1>1, <1>2, <3>2 DEF IInv, RequestsInv, ReadsHold, ListsHold, Listed
    <3> QED
      BY <3>1, <3>2
  <2>2. ASSUME NEW q \in Parties, NEW r \in Parties PROVE OneHolder(q, r)'
    <3>1. request.doing = "changing" =>
            \A x \in Parties : ~(requests[x].doing = "changing" /\ requests[x].order = request.order)
      BY DEF Free, Holds, Parties
    <3> QED
      BY <1>2, <3>1 DEF IInv, RequestsInv, OneHolder
  <2> QED
    BY <2>1, <2>2 DEF RequestsInv
<1> QED
  BY <1>3, <1>4, <1>5, <1>6 DEF IInv

\* An administrator's request reads and locks the row it is about to change.
LEMMA AdminReadsKeepsInv ==
  ASSUME IInv, NEW a \in Admins, NEW o \in Orders, NEW to \in Statuses, AdminReads(a, o, to)
  PROVE  IInv'
<1>1. orders[o].status \in Statuses
  BY DEF IInv, Types, OrderRows
<1>2. Changing(o, to, NoOne) \in Requests
  BY <1>1 DEF Changing, Requests
<1>3. a \notin Users
  BY CouriersAssumption
<1> QED
  BY <1>2, <1>3, RequestGoes DEF AdminReads, Changing, Parties

\* A courier's request finds which courier the account is.
LEMMA RiderKnownKeepsInv ==
  ASSUME IInv, NEW u \in Users, NEW r \in Riders, RiderKnown(u, r)
  PROVE  IInv'
<1>1. [doing |-> "known", rider |-> r] \in Requests
  BY DEF Requests
<1> QED
  BY <1>1, RequestGoes DEF RiderKnown, Parties

\* A courier's request reads and locks an order of that courier.
LEMMA RiderReadsKeepsInv ==
  ASSUME IInv, NEW u \in Users, NEW o \in Orders, NEW to \in Statuses, RiderReads(u, o, to)
  PROVE  IInv'
<1>1. orders[o].status \in Statuses /\ requests[u].rider \in Riders
  <2>1. requests[u] \in Requests /\ requests[u].doing = "known"
    BY DEF IInv, Types, Parties, RiderReads
  <2> QED
    BY <2>1 DEF IInv, Types, OrderRows, Requests, Idle
<1>2. Changing(o, to, requests[u].rider) \in Requests
  BY <1>1 DEF Changing, Requests
<1>3. CanBecome(orders[o].status, to)
  BY RiderStepsAreAllowed DEF RiderReads
<1> QED
  BY <1>2, <1>3, RequestGoes DEF RiderReads, Changing, Parties

\* A request tells the customer and ends, or is refused and ends.
LEMMA EndKeepsInv ==
  ASSUME IInv, NEW p \in Parties, Tell(p) \/ Ends(p)
  PROVE  IInv'
<1>1. Idle \in Requests
  BY DEF Requests
<1> QED
  BY <1>1, RequestGoes DEF Tell, Ends, Idle

\* A settlement lists delivered orders that no settlement written by then holds.
LEMMA ListKeepsInv ==
  ASSUME IInv, NEW a \in Admins, NEW r \in Riders, ListOutstanding(a, r)
  PROVE  IInv'
<1> DEFINE request == [doing |-> "settling", rider |-> r, listed |-> Outstanding(r),
                       after |-> Len(settlements)]
<1>1. Len(settlements) \in Nat
  BY DEF IInv, Types
<1>2. request \in Requests
  BY <1>1 DEF Requests, Outstanding
<1>3. Listed(request)
  <2>1. \A o \in Outstanding(r) : o \in Orders /\ orders[o].status = "delivered" /\ orders[o].settlement = 0
    BY DEF Outstanding
  <2>2. ASSUME NEW i \in 1 .. Len(settlements), NEW o \in Outstanding(r)
        PROVE  o \notin settlements[i].listed
    BY <1>1, <2>1, <2>2 DEF IInv, SettlementsInv, PointsToLast
  <2> QED
    BY <1>1, <2>1, <2>2 DEF Listed
<1> QED
  BY <1>2, <1>3, RequestGoes DEF ListOutstanding, Parties
-----------------------------------------------------------------------------
(* A change of status *)

\* What a request that is about to change a row knows of it.
LEMMA WhoChanges ==
  ASSUME IInv, NEW p \in Parties, requests[p].doing = "changing"
  PROVE  /\ requests[p].order \in Orders
         /\ requests[p].from \in Statuses /\ requests[p].to \in Statuses
         /\ orders[requests[p].order].status = requests[p].from
         /\ CanBecome(requests[p].from, requests[p].to)
<1>1. requests[p] \in Requests
  BY DEF IInv, Types
<1>2. ReadsHold(p)
  BY DEF IInv, RequestsInv
<1> QED
  BY <1>1, <1>2 DEF Requests, Idle, ReadsHold

\* A change keeps histories paths, and what was delivered delivered: the row was locked.
LEMMA ChangeKeepsInv ==
  ASSUME IInv, NEW p \in Parties, Change(p)
  PROVE  IInv'
<1> DEFINE r == requests[p]
           o == r.order
           h == history[o]
           step == [from |-> r.from, to |-> r.to]
           told == [doing |-> "telling", order |-> r.order, to |-> r.to]
<1>1. /\ r.doing = "changing" /\ o \in Orders /\ r.from \in Statuses /\ r.to \in Statuses
      /\ orders[o].status = r.from /\ CanBecome(r.from, r.to)
  BY WhoChanges DEF Change
<1>2. /\ orders' = [orders EXCEPT ![o].status = r.to]
      /\ history' = IF r.from = r.to THEN history ELSE [history EXCEPT ![o] = Append(@, step)]
      /\ requests' = [requests EXCEPT ![p] = told]
      /\ riders' = riders /\ settlements' = settlements
  BY DEF Change, Goes
<1>3. /\ orders \in [Orders -> OrderRows] /\ history \in [Orders -> Seq(Steps)]
      /\ requests \in [Parties -> Requests]
  BY DEF IInv, Types
<1>4. /\ orders'[o].status = r.to /\ orders'[o].rider = orders[o].rider
      /\ orders'[o].settlement = orders[o].settlement
      /\ \A x \in Orders \ {o} : orders'[x] = orders[x]
  BY <1>1, <1>2, <1>3 DEF OrderRows
<1>5. requests'[p] = told /\ \A q \in Parties \ {p} : requests'[q] = requests[q]
  BY <1>2, <1>3
<1>6. \A x \in Orders : orders[x].status = "delivered" => orders'[x].status = "delivered"
  BY <1>1, <1>4, StatusFacts DEF CanBecome
<1>7. h \in Seq(Steps) /\ h # <<>> /\ step \in Steps
  BY <1>1, <1>3 DEF Steps, IInv, HistoryInv
<1>8. \/ r.from = r.to /\ history' = history
      \/ /\ r.from # r.to /\ r.to \in After[r.from] /\ history'[o] = Append(h, step)
         /\ \A x \in Orders \ {o} : history'[x] = history[x]
  BY <1>1, <1>2, <1>3 DEF CanBecome
<1>9. Types'
  <2>1. orders' \in [Orders -> OrderRows]
    BY <1>1, <1>2, <1>3 DEF OrderRows
  <2>2. history' \in [Orders -> Seq(Steps)]
    <3>1. Append(h, step) \in Seq(Steps)
      BY <1>7
    <3> HIDE DEF h, step
    <3>2. [history EXCEPT ![o] = Append(h, step)] \in [Orders -> Seq(Steps)]
      BY <1>3, <3>1
    <3> QED
      BY <1>2, <1>3, <3>2 DEF h
  <2>3. requests' \in [Parties -> Requests]
    BY <1>1, <1>2, <1>3 DEF Requests
  <2> QED
    BY <1>2, <2>1, <2>2, <2>3 DEF IInv, Types
<1>10. AccountsAreUnique'
  BY <1>2 DEF IInv, AccountsAreUnique
<1>11. RequestsInv'
  <2>1. ASSUME NEW q \in Parties PROVE ReadsHold(q)'
    <3>1. CASE q = p
      BY <1>5, <3>1 DEF ReadsHold
    <3>2. CASE q # p
      <4>1. requests[q].doing = "changing" => requests[q].order \in Orders \ {o}
        BY <1>1, <3>2, WhoChanges DEF IInv, RequestsInv, OneHolder
      <4> QED
        BY <1>4, <1>5, <3>2, <4>1 DEF IInv, RequestsInv, ReadsHold
    <3> QED
      BY <3>1, <3>2
  <2>2. ASSUME NEW q \in Parties PROVE ListsHold(q)'
    <3>1. CASE q = p
      BY <1>5, <3>1 DEF ListsHold
    <3>2. CASE q # p
      <4>1. requests[q].doing = "settling" => requests[q].listed \subseteq Orders
        BY <1>3 DEF Requests, Idle
      <4> QED
        BY <1>2, <1>5, <1>6, <3>2, <4>1 DEF IInv, RequestsInv, ListsHold, Listed
    <3> QED
      BY <3>1, <3>2
  <2>3. ASSUME NEW q \in Parties, NEW s \in Parties PROVE OneHolder(q, s)'
    BY <1>5 DEF IInv, RequestsInv, OneHolder
  <2> QED
    BY <2>1, <2>2, <2>3 DEF RequestsInv
<1>12. HistoryIsAPath' /\ \A x \in Orders : history'[x] # <<>>
  <2> DEFINE Path(g, s) == /\ g[1].to = "placed" /\ g[Len(g)].to = s
                           /\ \A i \in 2 .. Len(g) :
                                 g[i].from = g[i - 1].to /\ g[i].to \in After[g[i].from]
  <2>1. \A x \in Orders : Path(history[x], orders[x].status) /\ history[x] # <<>>
    BY DEF IInv, HistoryInv, HistoryIsAPath
  <2>2. ASSUME NEW x \in Orders PROVE Path(history'[x], orders'[x].status) /\ history'[x] # <<>>
    <3>1. CASE history'[x] = history[x] /\ orders'[x].status = orders[x].status
      <4>1. Path(history[x], orders[x].status) /\ history[x] # <<>>
        BY <2>1
      <4> HIDE DEF Path
      <4> QED
        BY <3>1, <4>1
    <3>2. CASE x = o /\ r.to \in After[r.from] /\ history'[o] = Append(h, step)
      <4> DEFINE g == Append(h, step)
      <4>1. Path(h, r.from)
        BY <1>1, <2>1
      <4>2. /\ Len(g) = Len(h) + 1 /\ Len(h) \in Nat /\ Len(h) >= 1
            /\ \A i \in 1 .. Len(h) : g[i] = h[i]
            /\ g[Len(h) + 1] = step /\ g # <<>>
        BY <1>7
      <4> HIDE DEF g, h
      <4>3. g[1].to = "placed" /\ g[Len(g)].to = r.to /\ g # <<>>
        <5>1. g[1] = h[1] /\ g[Len(g)] = step
          BY <4>2
        <5>2. h[1].to = "placed"
          BY <4>1
        <5> QED
          BY <4>2, <5>1, <5>2
      <4>4. ASSUME NEW i \in 2 .. Len(g)
            PROVE  g[i].from = g[i - 1].to /\ g[i].to \in After[g[i].from]
        <5>1. CASE i <= Len(h)
          <6>1. i \in 2 .. Len(h) /\ g[i] = h[i] /\ g[i - 1] = h[i - 1]
            BY <4>2, <5>1
          <6>2. h[i].from = h[i - 1].to /\ h[i].to \in After[h[i].from]
            BY <4>1, <6>1
          <6> QED
            BY <6>1, <6>2
        <5>2. CASE i = Len(h) + 1
          <6>1. g[i] = step /\ g[i - 1] = h[Len(h)]
            BY <4>2, <5>2
          <6>2. h[Len(h)].to = r.from
            BY <4>1
          <6>3. step.from = r.from /\ step.to = r.to
            OBVIOUS
          <6> QED
            BY <3>2, <6>1, <6>2, <6>3
        <5> QED
          BY <4>2, <5>1, <5>2
      <4>5. Path(g, r.to)
        BY <4>3, <4>4
      <4> HIDE DEF Path
      <4> QED
        BY <1>4, <3>2, <4>3, <4>5 DEF g
    <3> QED
      BY <1>1, <1>4, <1>8, <3>1, <3>2
  <2> QED
    BY <2>2 DEF HistoryIsAPath
<1>13. ToldIsTrue'
  <2> SUFFICES ASSUME NEW q \in Parties, requests'[q].doing = "telling"
               PROVE  \E i \in DOMAIN history'[requests'[q].order] :
                         history'[requests'[q].order][i].to = requests'[q].to
    BY DEF ToldIsTrue, Parties
  <2>1. CASE q = p
    <3>1. history'[o] \in Seq(Steps) /\ history'[o] # <<>>
      BY <1>1, <1>9, <1>12 DEF Types
    <3>2. history'[o][Len(history'[o])].to = r.to
      BY <1>1, <1>4, <1>12 DEF HistoryIsAPath
    <3>3. Len(history'[o]) \in DOMAIN history'[o]
      BY <3>1
    <3> QED
      BY <1>5, <2>1, <3>2, <3>3
  <2>2. CASE q # p
    <3>1. requests'[q] = requests[q] /\ requests[q].order \in Orders
      BY <1>3, <1>5, <2>2 DEF Requests, Idle
    <3>2. PICK i \in DOMAIN history[requests[q].order] :
             history[requests[q].order][i].to = requests[q].to
      BY <3>1 DEF IInv, HistoryInv, ToldIsTrue, Parties
    <3>3. /\ DOMAIN history[requests[q].order] \subseteq DOMAIN history'[requests[q].order]
          /\ history'[requests[q].order][i] = history[requests[q].order][i]
      <4>1. CASE history'[requests[q].order] = history[requests[q].order]
        BY <4>1
      <4>2. CASE requests[q].order = o /\ history'[o] = Append(h, step)
        BY <1>7, <3>2, <4>2
      <4> QED
        BY <1>8, <3>1, <4>1, <4>2
    <3> QED
      BY <3>1, <3>2, <3>3
  <2> QED
    BY <2>1, <2>2
<1>14. SettlementsInv'
  <2>1. \A x \in Orders : orders'[x].settlement = orders[x].settlement
    BY <1>4
  <2>2. \A x \in Orders : PointsToLast(x)'
    BY <1>2, <2>1 DEF IInv, SettlementsInv, PointsToLast
  <2>3. (\A i \in DOMAIN settlements : AddsUp(i)') /\ PaidTwiceOnlyInARace'
    BY <1>2 DEF IInv, SettlementsInv, AddsUp, PaidTwiceOnlyInARace
  <2>4. SettledAreDelivered'
    BY <1>6, <2>1 DEF IInv, SettlementsInv, SettledAreDelivered
  <2> QED
    BY <1>2, <2>2, <2>3, <2>4 DEF SettlementsInv
<1> QED
  BY <1>9, <1>10, <1>11, <1>12, <1>13, <1>14 DEF IInv, HistoryInv
-----------------------------------------------------------------------------
(* Couriers and the orders they are given *)

\* An order is given to a courier only while no request holds its row.
LEMMA AssignKeepsInv ==
  ASSUME IInv, NEW o \in Orders, NEW r \in Riders \cup {NoOne}, AssignRider(o, r)
  PROVE  IInv'
<1>1. /\ orders' = [orders EXCEPT ![o].rider = r] /\ history' = history /\ riders' = riders
      /\ settlements' = settlements /\ requests' = requests
  BY DEF AssignRider
<1>2. orders \in [Orders -> OrderRows] /\ requests \in [Parties -> Requests]
  BY DEF IInv, Types
<1>3. /\ \A x \in Orders : /\ orders'[x].status = orders[x].status
                           /\ orders'[x].settlement = orders[x].settlement
      /\ \A x \in Orders \ {o} : orders'[x] = orders[x]
  BY <1>1, <1>2 DEF OrderRows
<1>4. Types'
  BY <1>1, <1>2 DEF IInv, Types, OrderRows
<1>5. AccountsAreUnique'
  BY <1>1 DEF IInv, AccountsAreUnique
<1>6. RequestsInv'
  <2>1. ASSUME NEW p \in Parties PROVE ReadsHold(p)'
    <3>1. requests[p].doing = "changing" => requests[p].order \in Orders \ {o}
      BY WhoChanges DEF AssignRider, Free, Holds, Parties
    <3> QED
      BY <1>1, <1>3, <3>1 DEF IInv, RequestsInv, ReadsHold
  <2>2. ASSUME NEW p \in Parties PROVE ListsHold(p)'
    <3>1. requests[p].doing = "settling" => requests[p].listed \subseteq Orders
      BY <1>2 DEF Requests, Idle
    <3> QED
      BY <1>1, <1>3, <3>1 DEF IInv, RequestsInv, ListsHold, Listed
  <2>3. \A p, q \in Parties : OneHolder(p, q)'
    BY <1>1 DEF IInv, RequestsInv, OneHolder
  <2> QED
    BY <2>1, <2>2, <2>3 DEF RequestsInv
<1>7. HistoryInv'
  BY <1>1, <1>3 DEF IInv, HistoryInv, HistoryIsAPath, ToldIsTrue
<1>8. SettlementsInv'
  BY <1>1, <1>3 DEF IInv, SettlementsInv, PointsToLast, AddsUp, PaidTwiceOnlyInARace,
     SettledAreDelivered
<1> QED
  BY <1>4, <1>5, <1>6, <1>7, <1>8 DEF IInv

\* Who the couriers are is nothing that orders and requests depend on once it was read.
LEMMA RidersKeepInv ==
  ASSUME IInv, NEW r \in Riders,
         \/ \E u \in Users : LinkUser(r, u)
         \/ UnlinkUser(r)
         \/ \E active \in BOOLEAN : EditRider(r, active)
  PROVE  IInv'
<1>1. /\ orders' = orders /\ history' = history
      /\ settlements' = settlements /\ requests' = requests
  BY DEF LinkUser, UnlinkUser, EditRider
<1>2. riders \in [Riders -> [user : Users \cup {NoOne}, active : BOOLEAN]]
  BY DEF IInv, Types
<1>3. /\ riders' \in [Riders -> [user : Users \cup {NoOne}, active : BOOLEAN]]
      /\ AccountsAreUnique'
  <2>1. CASE \E u \in Users : LinkUser(r, u)
    <3>1. PICK u \in Users : LinkUser(r, u)
      BY <2>1
    <3> QED
      BY <1>2, <3>1 DEF LinkUser, IInv, AccountsAreUnique
  <2>2. CASE UnlinkUser(r)
    BY <1>2, <2>2 DEF UnlinkUser, IInv, AccountsAreUnique
  <2>3. CASE \E active \in BOOLEAN : EditRider(r, active)
    <3>1. PICK active \in BOOLEAN : EditRider(r, active)
      BY <2>3
    <3> QED
      BY <1>2, <3>1 DEF EditRider, IInv, AccountsAreUnique
  <2> QED
    BY <2>1, <2>2, <2>3
<1>4. Types'
  BY <1>1, <1>3 DEF IInv, Types
<1>5. RequestsInv'
  BY <1>1 DEF IInv, RequestsInv, ReadsHold, ListsHold, Listed, OneHolder
<1>6. HistoryInv'
  BY <1>1 DEF IInv, HistoryInv, HistoryIsAPath, ToldIsTrue
<1>7. SettlementsInv'
  BY <1>1 DEF IInv, SettlementsInv, PointsToLast, AddsUp, PaidTwiceOnlyInARace,
     SettledAreDelivered
<1> QED
  BY <1>3, <1>4, <1>5, <1>6, <1>7 DEF IInv
-----------------------------------------------------------------------------
(* What orders bring in, and settlements *)

LEMMA PaidAdds == Paid!Adding
BY DEF Paid!Adding, Plus, Some

\* The amount of a settlement is a sum, so that the facts about sums apply.
LEMMA AmountIsSum ==
  ASSUME NEW S
  PROVE  Amount(S) = Paid!Sum(Total, S)
BY DEF Paid!Sum, Paid!Fold, MapThenSumSet, MapThenFoldSet, Paid!MapThenFoldSet,
   CostOf, Plus, Some, Amount

\* The totals of any orders can be summed.
LEMMA TotalsSummable ==
  ASSUME NEW S \in SUBSET Orders
  PROVE  IsFiniteSet(S) /\ Paid!Summable(Total, S)
<1>1. IsFiniteSet(S)
  BY CouriersAssumption, FS_Subset
<1>2. \A o \in S : Total[o] \in Int
  BY CouriersAssumption
<1> QED
  BY <1>1, <1>2 DEF Paid!Summable, IsFiniteSet, Paid!IsFiniteSet, CostOf

\* The amount and the number of orders that are two sets of orders without a common one.
LEMMA AmountOfBoth ==
  ASSUME NEW S \in SUBSET Orders, NEW T \in SUBSET Orders, S \cap T = {}
  PROVE  /\ Amount(S) \in Int
         /\ Amount(S \cup T) = Amount(S) + Amount(T)
         /\ Cardinality(S \cup T) = Cardinality(S) + Cardinality(T)
<1>1. Paid!Summable(Total, S) /\ Paid!Summable(Total, S \cup T)
  BY TotalsSummable
<1>2. Paid!Sum(Total, S) \in Int
  BY <1>1, PaidAdds, Paid!SumInt
<1>3. Paid!Sum(Total, S \cup T) = Paid!Sum(Total, S) + Paid!Sum(Total, T)
  BY <1>1, PaidAdds, Paid!SumUnion
<1>4. IsFiniteSet(S) /\ IsFiniteSet(T)
  BY TotalsSummable
<1>5. Cardinality(S \cup T) = Cardinality(S) + Cardinality(T) - Cardinality({})
  BY <1>4, FS_Union
<1>6. Cardinality({}) = 0 /\ Cardinality(S) \in Nat /\ Cardinality(T) \in Nat
  BY <1>4, FS_EmptySet, FS_CardinalityType
<1> QED
  BY <1>2, <1>3, <1>5, <1>6, AmountIsSum

\* A settlement is written for what was listed, whatever was settled since.
LEMMA SettleKeepsInv ==
  ASSUME IInv, NEW a \in Admins, Settle(a)
  PROVE  IInv'
<1> DEFINE r == requests[a]
           L == r.listed
           n == Len(settlements)
           row == [rider |-> r.rider, amount |-> Amount(L), count |-> Cardinality(L),
                   listed |-> L, after |-> r.after]
<1>1. /\ orders \in [Orders -> OrderRows] /\ settlements \in Seq(SettlementRows) /\ n \in Nat
      /\ requests \in [Parties -> Requests] /\ a \in Parties
  BY DEF IInv, Types, Parties
<1>2. /\ r.rider \in Riders /\ L \in SUBSET Orders /\ r.after \in Nat
      /\ r.after <= n /\ \A o \in L : orders[o].status = "delivered"
      /\ \A i \in 1 .. r.after : L \cap settlements[i].listed = {}
  <2>1. r \in Requests /\ r.doing = "settling" /\ ListsHold(a)
    BY <1>1 DEF IInv, RequestsInv, Settle
  <2> QED
    BY <2>1 DEF Requests, Idle, ListsHold, Listed
<1>3. row \in SettlementRows
  <2>1. Amount(L) \in Int
    BY <1>2, AmountOfBoth
  <2>2. Cardinality(L) \in Int
    BY <1>2, TotalsSummable, FS_CardinalityType
  <2> QED
    BY <1>2, <2>1, <2>2 DEF SettlementRows
<1>4. /\ settlements' = Append(settlements, row) /\ history' = history /\ riders' = riders
      /\ orders' = [o \in Orders |-> IF o \in L THEN [orders[o] EXCEPT !.settlement = n + 1]
                                     ELSE orders[o]]
      /\ requests' = [requests EXCEPT ![a] = Idle]
  BY DEF Settle, Goes
<1>5. \A o \in Orders : /\ orders'[o].status = orders[o].status
                        /\ orders'[o].rider = orders[o].rider
                        /\ orders'[o].settlement = IF o \in L THEN n + 1 ELSE orders[o].settlement
  BY <1>1, <1>4 DEF OrderRows
<1>6. /\ settlements' \in Seq(SettlementRows) /\ Len(settlements') = n + 1
      /\ settlements'[n + 1] = row /\ \A i \in 1 .. n : settlements'[i] = settlements[i]
  <2> HIDE DEF row
  <2> QED
    BY <1>1, <1>3, <1>4
<1>7. requests'[a] = Idle /\ \A p \in Parties \ {a} : requests'[p] = requests[p]
  BY <1>1, <1>4
<1>8. Types'
  <2>1. orders' \in [Orders -> OrderRows]
    <3>1. ASSUME NEW o \in Orders
          PROVE  orders[o] \in OrderRows /\ [orders[o] EXCEPT !.settlement = n + 1] \in OrderRows
      <4>1. orders \in [Orders -> OrderRows] /\ n + 1 \in Nat
        BY <1>1
      <4> HIDE DEF row, L, n
      <4>2. PICK old \in OrderRows : old = orders[o]
        BY <4>1
      <4>3. [old EXCEPT !.settlement = n + 1] \in OrderRows
        BY <4>1 DEF OrderRows
      <4> QED
        BY <4>2, <4>3
    <3> HIDE DEF row
    <3> QED
      BY <1>4, <3>1
  <2>2. requests' \in [Parties -> Requests]
    BY <1>1, <1>4 DEF Requests
  <2> QED
    <3> HIDE DEF row
    <3> QED
      BY <1>4, <1>6, <2>1, <2>2 DEF IInv, Types
<1>9. AccountsAreUnique'
  BY <1>4 DEF IInv, AccountsAreUnique
<1>10. RequestsInv'
  <2>1. ASSUME NEW p \in Parties PROVE ReadsHold(p)'
    <3>1. requests[p].doing = "changing" => requests[p].order \in Orders
      BY WhoChanges
    <3> QED
      BY <1>5, <1>7, <3>1 DEF IInv, RequestsInv, ReadsHold, Idle
  <2>2. ASSUME NEW p \in Parties PROVE ListsHold(p)'
    <3>1. requests[p].doing = "settling" =>
             requests[p].listed \subseteq Orders /\ requests[p].after \in Nat
      BY <1>1 DEF Requests, Idle
    <3>2. requests[p].doing = "settling" => Listed(requests[p])
      BY DEF IInv, RequestsInv, ListsHold
    <3> HIDE DEF row
    <3> QED
      BY <1>1, <1>5, <1>6, <1>7, <3>1, <3>2 DEF ListsHold, Listed, Idle
  <2>3. ASSUME NEW p \in Parties, NEW q \in Parties PROVE OneHolder(p, q)'
    BY <1>7 DEF IInv, RequestsInv, OneHolder, Idle
  <2> QED
    BY <2>1, <2>2, <2>3 DEF RequestsInv
<1>11. HistoryInv'
  <2>1. HistoryIsAPath' /\ \A o \in Orders : history'[o] # <<>>
    BY <1>4, <1>5 DEF IInv, HistoryInv, HistoryIsAPath
  <2>2. ToldIsTrue'
    <3>1. history' = history /\ ToldIsTrue
      BY <1>4 DEF IInv, HistoryInv
    <3> QED
      BY <1>7, <3>1 DEF ToldIsTrue, Parties, Idle
  <2> QED
    BY <2>1, <2>2 DEF HistoryInv
<1>12. SettlementsInv'
  <2>1. ASSUME NEW o \in Orders PROVE PointsToLast(o)'
    <3>1. PointsToLast(o) /\ orders[o].settlement \in Nat
      BY <1>1 DEF IInv, SettlementsInv, OrderRows
    <3>2. CASE o \in L
      BY <1>1, <1>5, <1>6, <3>2 DEF PointsToLast
    <3>3. CASE o \notin L
      BY <1>1, <1>5, <1>6, <3>1, <3>3 DEF PointsToLast
    <3> QED
      BY <3>2, <3>3
  <2>2. ASSUME NEW i \in DOMAIN settlements' PROVE AddsUp(i)'
    <3>1. CASE i = n + 1
      BY <1>6, <3>1 DEF AddsUp
    <3>2. CASE i \in 1 .. n
      <4>1. i \in DOMAIN settlements /\ settlements'[i] = settlements[i]
        BY <1>1, <1>6, <3>2
      <4> QED
        BY <4>1 DEF IInv, SettlementsInv, AddsUp
    <3> QED
      BY <1>1, <1>6, <3>1, <3>2
  <2>3. PaidTwiceOnlyInARace'
    <3> SUFFICES ASSUME NEW i \in DOMAIN settlements', NEW j \in DOMAIN settlements',
                        i < j, settlements'[j].after >= i
                 PROVE  settlements'[i].listed \cap settlements'[j].listed = {}
      BY DEF PaidTwiceOnlyInARace
    <3>1. i \in 1 .. n /\ settlements'[i] = settlements[i]
      BY <1>1, <1>6
    <3>2. CASE j = n + 1
      BY <1>2, <1>6, <3>1, <3>2
    <3>3. CASE j \in 1 .. n
      <4>1. i \in DOMAIN settlements /\ j \in DOMAIN settlements /\ settlements'[j] = settlements[j]
        BY <1>1, <1>6, <3>1, <3>3
      <4> QED
        BY <3>1, <4>1 DEF IInv, SettlementsInv, PaidTwiceOnlyInARace
    <3> QED
      BY <1>1, <1>6, <3>2, <3>3
  <2>4. SettledAreDelivered'
    BY <1>2, <1>5 DEF IInv, SettlementsInv, SettledAreDelivered
  <2> QED
    BY <2>1, <2>2, <2>3, <2>4 DEF SettlementsInv
<1> QED
  BY <1>8, <1>9, <1>10, <1>11, <1>12 DEF IInv
-----------------------------------------------------------------------------
(* What follows for every behaviour *)

\* Every step keeps the invariant.
LEMMA CouriersStep == IInv /\ [Next]_vars => IInv'
<1> SUFFICES ASSUME IInv, [Next]_vars PROVE IInv'
  OBVIOUS
<1>1. ASSUME NEW p \in Parties, Change(p) \/ Tell(p) \/ Ends(p) PROVE IInv'
  BY <1>1, ChangeKeepsInv, EndKeepsInv
<1>2. CASE UNCHANGED vars
  BY <1>2 DEF vars, IInv, Types, AccountsAreUnique, RequestsInv, ReadsHold, ListsHold, Listed,
     OneHolder, HistoryInv, HistoryIsAPath, ToldIsTrue, SettlementsInv, PointsToLast, AddsUp,
     PaidTwiceOnlyInARace, SettledAreDelivered
<1> QED
  BY <1>1, <1>2, AdminReadsKeepsInv, RiderKnownKeepsInv, RiderReadsKeepsInv, AssignKeepsInv,
     RidersKeepInv, ListKeepsInv, SettleKeepsInv DEF Next, Parties

\* Rows, histories, requests and settlements are in order in every state.
THEOREM CouriersInvariant == Spec => []IInv
BY CouriersInit, CouriersStep, PTL DEF Spec

\* The rows and the requests have the types of the code.
LEMMA TypesHold == IInv => TypeOK
<1> SUFFICES ASSUME IInv PROVE TypeOK
  OBVIOUS
<1>1. /\ orders \in [Orders -> OrderRows] /\ settlements \in Seq(SettlementRows)
      /\ requests \in [Parties -> Requests]
      /\ riders \in [Riders -> [user : Users \cup {NoOne}, active : BOOLEAN]]
  BY DEF IInv, Types
<1>2. orders \in [Orders -> [status : Statuses, rider : Riders \cup {NoOne},
                             settlement : 0 .. Len(settlements)]]
  <2>1. \A o \in Orders : orders[o].settlement \in 0 .. Len(settlements)
    BY <1>1 DEF IInv, SettlementsInv, PointsToLast, OrderRows
  <2> QED
    BY <1>1, <2>1 DEF OrderRows
<1>3. \A i \in DOMAIN settlements :
         settlements[i].rider \in Riders /\ settlements[i].listed \subseteq Orders
  <2>1. \A i \in DOMAIN settlements : settlements[i] \in SettlementRows
    BY <1>1
  <2> QED
    BY <2>1 DEF SettlementRows
<1>4. \A p \in Parties :
         requests[p].doing \in {"idle", "known", "changing", "telling", "settling"}
  BY <1>1 DEF Requests, Idle
<1> QED
  BY <1>1, <1>2, <1>3, <1>4 DEF TypeOK, IInv, AccountsAreUnique, Parties

\* However administrators and couriers race for an order, its history is one path of
\* allowed steps to the status it has, and what its customer was told happened.
THEOREM HistoriesStayTrue == Spec => []HistoriesAreTrue
<1>1. IInv => HistoriesAreTrue
  BY TypesHold, Zenon DEF IInv, HistoryInv, HistoriesAreTrue
<1> QED
  BY <1>1, CouriersInvariant, PTL

\* No order whose money was handed over is cancelled or moved again.
THEOREM SettledStayDelivered == Spec => []SettledAreDelivered
<1>1. IInv => SettledAreDelivered
  BY DEF IInv, SettlementsInv
<1> QED
  BY <1>1, CouriersInvariant, PTL

\* A settlement holds the orders that point to it and those a later one took over, and its
\* amount is theirs.
LEMMA SettlementsHold == IInv => SettlementsHoldTheirOrders
<1> SUFFICES ASSUME IInv, NEW i \in DOMAIN settlements
             PROVE  LET later == UNION {settlements[j].listed : j \in i + 1 .. Len(settlements)}
                        held  == {o \in Orders : orders[o].settlement = i}
                        taken == settlements[i].listed \cap later
                    IN  /\ settlements[i].listed = held \cup taken /\ held \cap taken = {}
                        /\ settlements[i].amount = Amount(held) + Amount(taken)
                        /\ settlements[i].count = Cardinality(held) + Cardinality(taken)
  BY DEF SettlementsHoldTheirOrders
<1> DEFINE later == UNION {settlements[j].listed : j \in i + 1 .. Len(settlements)}
           held  == {o \in Orders : orders[o].settlement = i}
           taken == settlements[i].listed \cap later
<1>1. /\ settlements \in Seq(SettlementRows) /\ Len(settlements) \in Nat
      /\ i \in 1 .. Len(settlements)
      /\ \A o \in Orders : orders[o].settlement \in Nat /\ PointsToLast(o)
  <2>1. settlements \in Seq(SettlementRows) /\ orders \in [Orders -> OrderRows]
    BY DEF IInv, Types
  <2>2. i \in 1 .. Len(settlements) /\ Len(settlements) \in Nat
    BY <2>1
  <2>3. \A o \in Orders : PointsToLast(o)
    BY DEF IInv, SettlementsInv
  <2> QED
    BY <2>1, <2>2, <2>3 DEF OrderRows
<1>2. settlements[i].listed \subseteq Orders
  <2>1. settlements[i] \in SettlementRows
    BY <1>1
  <2> QED
    BY <2>1 DEF SettlementRows
<1>3. held \subseteq settlements[i].listed
  BY <1>1 DEF PointsToLast
<1>4. held \cap taken = {}
  <2> SUFFICES ASSUME NEW o \in held, o \in later PROVE FALSE
    OBVIOUS
  <2>1. PICK j \in i + 1 .. Len(settlements) : o \in settlements[j].listed
    OBVIOUS
  <2> QED
    BY <1>1, <2>1 DEF PointsToLast
<1>5. ASSUME NEW o \in settlements[i].listed, o \notin held
      PROVE  \E j \in i + 1 .. Len(settlements) : o \in settlements[j].listed
  <2> DEFINE k == orders[o].settlement
  <2>1. k \in Nat /\ k # i /\ k <= Len(settlements) /\ o \in Orders
        /\ (k # 0 => o \in settlements[k].listed)
        /\ \A j \in k + 1 .. Len(settlements) : o \notin settlements[j].listed
    BY <1>1, <1>2, <1>5 DEF PointsToLast
  <2>2. k \in i + 1 .. Len(settlements)
    BY <1>1, <2>1
  <2> HIDE DEF k
  <2> QED
    BY <1>1, <2>1, <2>2
<1>6. settlements[i].listed = held \cup taken
  <2>1. \A o \in settlements[i].listed : o \in held \/ o \in later
    BY <1>5
  <2> QED
    BY <1>3, <2>1
<1> HIDE DEF held, taken
<1>7. held \in SUBSET Orders /\ taken \in SUBSET Orders
  BY <1>2, <1>6
<1>8. /\ Amount(settlements[i].listed) = Amount(held) + Amount(taken)
      /\ Cardinality(settlements[i].listed) = Cardinality(held) + Cardinality(taken)
  BY <1>4, <1>6, <1>7, AmountOfBoth
<1>9. AddsUp(i)
  BY DEF IInv, SettlementsInv
<1> QED
  BY <1>4, <1>6, <1>8, <1>9 DEF AddsUp, held, taken

\* What settlements say they are for, and what the orders point to, agree; an order is paid
\* for twice only by settlements that were under way together.
THEOREM SettlementsStayRight == Spec => []SettlementsAddUp
<1>1. IInv => SettlementsAddUp
  BY SettlementsHold DEF IInv, SettlementsInv, SettlementsAddUp
<1> QED
  BY <1>1, CouriersInvariant, PTL

\* A courier's change is of an order that is that courier's when the change is made.
THEOREM CouriersMoveTheirOwn == Spec => RidersMoveTheirOwn
<1>1. IInv => \A u \in Users :
                 requests[u].doing = "changing" =>
                     orders[requests[u].order].rider = requests[u].by
  BY DEF IInv, RequestsInv, ReadsHold, Parties
<1>2. IInv => [\A u \in Users :
                  requests[u].doing = "changing" /\ requests'[u].doing = "telling" =>
                      orders[requests[u].order].rider = requests[u].by]_vars
  BY <1>1
<1> QED
  BY <1>2, CouriersInvariant, PTL DEF RidersMoveTheirOwn
-----------------------------------------------------------------------------
(* The price: what is in a cart and what it is worth *)
Carts == [Products -> Nat]

UnitAt(c, p) == c[p]
Counting == INSTANCE FoldFacts WITH op <- Plus, map <- UnitAt, choose <- Some
WorthAt(c, p) == c[p] * Price[p]
Worth == INSTANCE FoldFacts WITH op <- Plus, map <- WorthAt, choose <- Some
AmountAt(c, i) == c[i].amount
Granted == INSTANCE FoldFacts WITH op <- Plus, map <- AmountAt, choose <- Some
EarnedAt(c, i) == c[i].times * UnitsOf(Promotions[i])
Earned == INSTANCE FoldFacts WITH op <- Plus, map <- EarnedAt, choose <- Some
PartAt(c, i) == c[i].quantity
Parts == INSTANCE FoldFacts WITH op <- Plus, map <- PartAt, choose <- Some

\* The instances have copies of the operators of FiniteSets.
LEMMA SameFinite ==
  ASSUME NEW S, IsFiniteSet(S)
  PROVE  /\ Counting!IsFiniteSet(S) /\ Worth!IsFiniteSet(S) /\ Granted!IsFiniteSet(S)
         /\ Earned!IsFiniteSet(S) /\ Parts!IsFiniteSet(S)
BY DEF IsFiniteSet, Counting!IsFiniteSet, Worth!IsFiniteSet, Granted!IsFiniteSet,
       Earned!IsFiniteSet, Parts!IsFiniteSet

LEMMA AllAdd ==
  Counting!Adding /\ Worth!Adding /\ Granted!Adding /\ Earned!Adding /\ Parts!Adding
BY DEF Counting!Adding, Worth!Adding, Granted!Adding, Earned!Adding, Parts!Adding, Plus, Some

LEMMA SumsAre ==
  ASSUME NEW c, NEW S
  PROVE  /\ Units(c, S) = Counting!Sum(c, S)
         /\ Value(c, S) = Worth!Sum(c, S)
         /\ MapThenSumSet(LAMBDA i : c[i].amount, S) = Granted!Sum(c, S)
         /\ MapThenSumSet(LAMBDA i : c[i].times * UnitsOf(Promotions[i]), S) = Earned!Sum(c, S)
         /\ MapThenSumSet(LAMBDA i : c[i].quantity, S) = Parts!Sum(c, S)
<1>1. Units(c, S) = Counting!Sum(c, S)
  BY DEF Units, MapThenSumSet, MapThenFoldSet, Counting!Sum, Counting!Fold,
         Counting!MapThenFoldSet, UnitAt, Plus, Some
<1>2. Value(c, S) = Worth!Sum(c, S)
  BY DEF Value, MapThenSumSet, MapThenFoldSet, Worth!Sum, Worth!Fold, Worth!MapThenFoldSet,
         WorthAt, Plus, Some
<1>3. MapThenSumSet(LAMBDA i : c[i].amount, S) = Granted!Sum(c, S)
  BY DEF MapThenSumSet, MapThenFoldSet, Granted!Sum, Granted!Fold, Granted!MapThenFoldSet,
         AmountAt, Plus, Some
<1>4. MapThenSumSet(LAMBDA i : c[i].times * UnitsOf(Promotions[i]), S) = Earned!Sum(c, S)
  BY DEF MapThenSumSet, MapThenFoldSet, Earned!Sum, Earned!Fold, Earned!MapThenFoldSet,
         EarnedAt, Plus, Some
<1>5. MapThenSumSet(LAMBDA i : c[i].quantity, S) = Parts!Sum(c, S)
  BY DEF MapThenSumSet, MapThenFoldSet, Parts!Sum, Parts!Fold, Parts!MapThenFoldSet,
         PartAt, Plus, Some
<1> QED
  BY <1>1, <1>2, <1>3, <1>4, <1>5

\* Some of the products are finitely many.
LEMMA FewProducts ==
  ASSUME NEW S \in SUBSET Products
  PROVE  IsFiniteSet(S)
BY PricesAssumption, FS_Subset

\* What a cart has of some products, and what that is worth, are naturals.
LEMMA CartSums ==
  ASSUME NEW cart \in Carts, NEW S \in SUBSET Products
  PROVE  /\ Units(cart, S) \in Nat /\ Value(cart, S) \in Nat
         /\ Counting!Summable(cart, S) /\ Worth!Summable(cart, S)
<1>1. Counting!IsFiniteSet(S) /\ Worth!IsFiniteSet(S)
  BY FewProducts, SameFinite
<1>2. \A p \in S : UnitAt(cart, p) \in Nat
  BY DEF Carts, UnitAt
<1>3. \A p \in S : WorthAt(cart, p) \in Nat
  <2> SUFFICES ASSUME NEW p \in S PROVE WorthAt(cart, p) \in Nat
    OBVIOUS
  <2>1. cart[p] \in Nat /\ Price[p] \in Nat
    BY PricesAssumption DEF Carts
  <2> QED
    BY <2>1 DEF WorthAt
<1>4. Counting!Sum(cart, S) \in Nat /\ Worth!Sum(cart, S) \in Nat
  BY <1>1, <1>2, <1>3, AllAdd, Counting!SumNat, Worth!SumNat
<1>5. Counting!Summable(cart, S) /\ Worth!Summable(cart, S)
  BY <1>1, <1>2, <1>3 DEF Counting!Summable, Worth!Summable
<1> QED
  BY <1>4, <1>5, SumsAre

\* More products have no fewer units, and the units of two groups are those of both.
LEMMA MoreProducts ==
  ASSUME NEW cart \in Carts, NEW S \in SUBSET Products, NEW R \in SUBSET S
  PROVE  /\ Units(cart, R) <= Units(cart, S) /\ Value(cart, R) <= Value(cart, S)
         /\ Units(cart, S) = Units(cart, R) + Units(cart, S \ R)
<1>1. Counting!Summable(cart, S) /\ Counting!IsFiniteSet(S) /\ Worth!IsFiniteSet(S)
  BY CartSums, FewProducts, SameFinite
<1>2. \A p \in S : UnitAt(cart, p) \in Nat
  BY DEF Carts, UnitAt
<1>3. \A p \in S : WorthAt(cart, p) \in Nat
  <2> SUFFICES ASSUME NEW p \in S PROVE WorthAt(cart, p) \in Nat
    OBVIOUS
  <2>1. cart[p] \in Nat /\ Price[p] \in Nat
    BY PricesAssumption DEF Carts
  <2> QED
    BY <2>1 DEF WorthAt
<1>4. Counting!Sum(cart, R) <= Counting!Sum(cart, S) /\ Worth!Sum(cart, R) <= Worth!Sum(cart, S)
  BY <1>1, <1>2, <1>3, AllAdd, Counting!SumPart, Worth!SumPart
<1>5. Counting!Sum(cart, S) = Counting!Sum(cart, R) + Counting!Sum(cart, S \ R)
  BY <1>1, AllAdd, Counting!SumSplit
<1> QED
  BY <1>4, <1>5, SumsAre

\* What is taken from a cart is missing from it.
Within(taken, cart) == taken \in Carts /\ \A p \in Products : taken[p] <= cart[p]
LEMMA WithoutIs ==
  ASSUME NEW cart \in Carts, NEW taken, Within(taken, cart)
  PROVE  /\ Without(cart, taken) \in Carts
         /\ Within(Without(cart, taken), cart)
         /\ \A S \in SUBSET Products :
               /\ Units(Without(cart, taken), S) = Units(cart, S) - Units(taken, S)
               /\ Value(Without(cart, taken), S) = Value(cart, S) - Value(taken, S)
<1> SUFFICES ASSUME NEW rest, rest = Without(cart, taken)
             PROVE  /\ rest \in Carts /\ Within(rest, cart)
                    /\ \A S \in SUBSET Products :
                          /\ Units(rest, S) = Units(cart, S) - Units(taken, S)
                          /\ Value(rest, S) = Value(cart, S) - Value(taken, S)
  OBVIOUS
<1>1. rest \in Carts /\ \A p \in Products : rest[p] = cart[p] - taken[p]
  BY DEF Without, Carts, Within
<1>2. Within(rest, cart)
  BY <1>1 DEF Within, Carts
<1>3. ASSUME NEW S \in SUBSET Products
      PROVE  /\ Units(rest, S) = Units(cart, S) - Units(taken, S)
             /\ Value(rest, S) = Value(cart, S) - Value(taken, S)
  <2>1. taken \in Carts
    BY DEF Within
  <2>2. /\ Counting!Summable(rest, S) /\ Counting!Summable(taken, S)
        /\ Worth!Summable(rest, S) /\ Worth!Summable(taken, S)
        /\ Units(rest, S) \in Nat /\ Units(taken, S) \in Nat
        /\ Value(rest, S) \in Nat /\ Value(taken, S) \in Nat
    BY <1>1, <2>1, CartSums
  <2>3. \A p \in S : UnitAt(cart, p) = UnitAt(rest, p) + UnitAt(taken, p)
    BY <1>1, <2>1 DEF UnitAt, Carts
  <2>4. \A p \in S : WorthAt(cart, p) = WorthAt(rest, p) + WorthAt(taken, p)
    <3> SUFFICES ASSUME NEW p \in S PROVE WorthAt(cart, p) = WorthAt(rest, p) + WorthAt(taken, p)
      OBVIOUS
    <3>1. /\ cart[p] \in Nat /\ taken[p] \in Nat /\ rest[p] \in Nat
          /\ rest[p] = cart[p] - taken[p] /\ Price[p] \in Nat
      BY <1>1, <2>1, PricesAssumption DEF Carts
    <3>2. cart[p] = rest[p] + taken[p]
      BY <3>1
    <3>3. \A a, c, d \in Nat : (a + c) * d = a * d + c * d
      OBVIOUS
    <3>4. (rest[p] + taken[p]) * Price[p] = rest[p] * Price[p] + taken[p] * Price[p]
      BY <3>1, <3>3
    <3> QED
      BY <3>2, <3>4 DEF WorthAt
  <2>5. Counting!Sum(cart, S) = Counting!Sum(rest, S) + Counting!Sum(taken, S)
    BY <2>2, <2>3, AllAdd, Counting!SumPlus
  <2>6. Worth!Sum(cart, S) = Worth!Sum(rest, S) + Worth!Sum(taken, S)
    BY <2>2, <2>4, AllAdd, Worth!SumPlus
  <2>7. /\ Units(cart, S) = Counting!Sum(cart, S) /\ Units(rest, S) = Counting!Sum(rest, S)
        /\ Units(taken, S) = Counting!Sum(taken, S)
    BY SumsAre
  <2>8. /\ Value(cart, S) = Worth!Sum(cart, S) /\ Value(rest, S) = Worth!Sum(rest, S)
        /\ Value(taken, S) = Worth!Sum(taken, S)
    BY SumsAre
  <2>9. Units(rest, S) = Units(cart, S) - Units(taken, S)
    BY <2>2, <2>5, <2>7
  <2>10. Value(rest, S) = Value(cart, S) - Value(taken, S)
    BY <2>2, <2>6, <2>8
  <2> QED
    BY <2>9, <2>10
<1> QED
  BY <1>1, <1>2, <1>3
-----------------------------------------------------------------------------
(* Least, greatest, shares and percentages *)
LEMMA MinIs ==
  ASSUME NEW a \in Int, NEW b \in Int
  PROVE  Min({a, b}) = IF a <= b THEN a ELSE b
<1>1. \E m \in {a, b} : \A n \in {a, b} : m <= n
  OBVIOUS
<1>2. Min({a, b}) \in {a, b} /\ \A n \in {a, b} : Min({a, b}) <= n
  BY <1>1 DEF Min
<1> QED
  BY <1>2

LEMMA MaxIs ==
  ASSUME NEW a \in Int, NEW b \in Int
  PROVE  Max({a, b}) = IF a <= b THEN b ELSE a
<1>1. \E m \in {a, b} : \A n \in {a, b} : m >= n
  OBVIOUS
<1>2. Max({a, b}) \in {a, b} /\ \A n \in {a, b} : Max({a, b}) >= n
  BY <1>1 DEF Max
<1> QED
  BY <1>2

\* The parts of a quotient.
LEMMA DivIs ==
  ASSUME NEW a \in Nat, NEW d \in Nat \ {0}
  PROVE  a \div d \in Nat /\ (a \div d) * d <= a /\ a < (a \div d) * d + d
OBVIOUS

LEMMA TimesGrows ==
  ASSUME NEW a \in Nat, NEW b \in Nat, NEW d \in Nat, a <= b
  PROVE  a * d <= b * d
OBVIOUS

\* Shares of a quotient fit in what was shared.
LEMMA ShareFits ==
  ASSUME NEW a \in Nat, NEW d \in Nat \ {0}, NEW t \in Nat, t <= a \div d
  PROVE  t * d <= a
<1>1. a \div d \in Nat /\ (a \div d) * d <= a
  BY DivIs
<1>2. t * d <= (a \div d) * d
  BY <1>1, TimesGrows
<1>3. t * d \in Nat /\ (a \div d) * d \in Nat
  BY <1>1
<1> QED
  BY <1>1, <1>2, <1>3

\* The quotient is the only number with its parts.
LEMMA DivOnly ==
  ASSUME NEW a \in Nat, NEW d \in Nat \ {0}, NEW t \in Nat, t * d <= a, a < t * d + d
  PROVE  a \div d = t
<1>1. a \div d \in Nat /\ (a \div d) * d <= a /\ a < (a \div d) * d + d
  BY DivIs
<1> DEFINE e == a \div d
<1> HIDE DEF e
<1>2. e \in Nat /\ e * d <= a /\ a < e * d + d
  BY <1>1 DEF e
<1>3. ~(e < t)
  <2> SUFFICES ASSUME e + 1 <= t PROVE FALSE
    BY <1>2
  <2>1. (e + 1) * d <= t * d
    BY <1>2, TimesGrows
  <2>2. (e + 1) * d = e * d + d
    BY <1>2
  <2> QED
    BY <1>2, <2>1, <2>2
<1>4. ~(t < e)
  <2> SUFFICES ASSUME t + 1 <= e PROVE FALSE
    BY <1>2
  <2>1. (t + 1) * d <= e * d
    BY <1>2, TimesGrows
  <2>2. (t + 1) * d = t * d + d
    OBVIOUS
  <2> QED
    BY <1>2, <2>1, <2>2
<1>5. e = t
  BY <1>2, <1>3, <1>4
<1> QED
  BY <1>5 DEF e

\* The server divides twice, the page once.
LEMMA DivTwice ==
  ASSUME NEW a \in Nat, NEW d \in Nat \ {0}
  PROVE  (a \div 100) \div d = a \div (100 * d)
<1> DEFINE b == a \div 100  t == b \div d
<1>1. b \in Nat /\ b * 100 <= a /\ a < b * 100 + 100
  BY DivIs
<1>2. t \in Nat /\ t * d <= b /\ b < t * d + d
  BY <1>1, DivIs
<1> HIDE DEF b, t
<1>3. 100 * d \in Nat \ {0}
  OBVIOUS
<1>4. t * (100 * d) = 100 * (t * d) /\ t * d \in Nat
  BY <1>2
<1>5. t * (100 * d) <= a
  BY <1>1, <1>2, <1>4
<1>6. a < t * (100 * d) + 100 * d
  BY <1>1, <1>2, <1>4
<1>7. a \div (100 * d) = t
  BY <1>2, <1>3, <1>5, <1>6, DivOnly
<1> QED
  BY <1>7 DEF b, t

\* A percentage rounded to the nearest piastre is a part of the amount.
LEMMA PercentIs ==
  ASSUME NEW amount \in Nat, NEW percent \in Nat
  PROVE  /\ Percent(amount, percent) \in Nat
         /\ percent <= 100 => Percent(amount, percent) <= amount
<1>1. amount * percent \in Nat
  OBVIOUS
<1>2. percent <= 100 => amount * percent <= amount * 100
  <2>1. percent <= 100 => percent * amount <= 100 * amount
    BY TimesGrows
  <2>2. percent * amount = amount * percent /\ 100 * amount = amount * 100
    OBVIOUS
  <2> QED
    BY <2>1, <2>2
<1> DEFINE part == amount * percent
<1> HIDE DEF part
<1>3. part \in Nat /\ (percent <= 100 => part <= amount * 100)
  BY <1>1, <1>2 DEF part
<1>4. (part + 50) \div 100 \in Nat /\ (percent <= 100 => (part + 50) \div 100 <= amount)
  BY <1>3
<1> QED
  BY <1>4 DEF Percent, part

-----------------------------------------------------------------------------
(* The cheapest units *)

LEMMA CheapestAre ==
  ASSUME NEW left \in Carts, NEW group \in SUBSET Products, NEW count \in Nat
  PROVE  /\ Within(Cheapest(left, group, count), left)
         /\ \A p \in Products \ group : Cheapest(left, group, count)[p] = 0
<1> DEFINE earlier(p) == Units(left, {q \in group : Before(q, p)})
           taken == Cheapest(left, group, count)
<1>1. ASSUME NEW p \in group
      PROVE  taken[p] \in Nat /\ taken[p] <= left[p]
  <2>1. earlier(p) \in Nat /\ left[p] \in Nat
    <3>1. {q \in group : Before(q, p)} \in SUBSET Products
      OBVIOUS
    <3> QED
      BY <3>1, CartSums DEF Carts
  <2> HIDE DEF earlier
  <2>2. PICK most \in Nat : most = Max({0, count - earlier(p)})
    <3>1. count - earlier(p) \in Int /\ 0 \in Int
      BY <2>1
    <3> QED
      BY <3>1, MaxIs
  <2>3. taken[p] = Min({left[p], most})
    BY <2>2 DEF Cheapest, earlier
  <2>4. left[p] \in Int /\ most \in Int
    BY <2>1, <2>2
  <2>5. Min({left[p], most}) = IF left[p] <= most THEN left[p] ELSE most
    BY <2>4, MinIs
  <2> QED
    BY <2>1, <2>2, <2>3, <2>5
<1>2. \A p \in Products \ group : taken[p] = 0
  BY DEF Cheapest
<1>3. \A p \in Products : taken[p] \in Nat /\ taken[p] <= left[p]
  BY <1>1, <1>2 DEF Carts
<1>4. taken \in Carts
  BY <1>3 DEF Cheapest, Carts
<1> QED
  BY <1>2, <1>3, <1>4 DEF Within

\* Some product of a group comes after the others.
LEMMA LastOfGroup ==
  ASSUME NEW D \in SUBSET Products, D # {}
  PROVE  \E p \in D : \A q \in D \ {p} : Before(q, p)
<1> DEFINE later(p) == {q \in D : Before(p, q)}
           T == {later(p) : p \in D}
<1>1. IsFiniteSet(D) /\ Counting!IsFiniteSet(D)
  BY FewProducts, SameFinite
<1>2. T \subseteq SUBSET D /\ T # {}
  OBVIOUS
<1>3. PICK p \in D : \A t \in T : t \subseteq later(p) => t = later(p)
  <2> HIDE DEF T
  <2>1. PICK s \in T : \A t \in T : t \subseteq s => t = s
    BY <1>1, <1>2, Counting!SmallestSubset
  <2> QED
    BY <2>1 DEF T
<1>4. \A a, b \in Products : Price[a] \in Nat /\ IdOrder[a] \in Nat /\ (IdOrder[a] = IdOrder[b] => a = b)
  BY PricesAssumption
<1>5. \A a, b, c \in Products : Before(a, b) /\ Before(b, c) => Before(a, c)
  BY <1>4 DEF Before
<1>6. \A a \in Products : ~Before(a, a)
  BY <1>4 DEF Before
<1>7. \A a, b \in Products : a = b \/ Before(a, b) \/ Before(b, a)
  BY <1>4 DEF Before
<1>8. later(p) = {}
  <2> SUFFICES ASSUME NEW r \in later(p) PROVE FALSE
    OBVIOUS
  <2>1. later(r) \in T /\ later(r) \subseteq later(p) /\ r \notin later(r)
    BY <1>5, <1>6
  <2> QED
    BY <1>3, <2>1
<1> QED
  BY <1>7, <1>8

\* Of a group the count is taken, or all there is.
LEMMA CheapestCount ==
  ASSUME NEW left \in Carts, NEW group \in SUBSET Products, NEW count \in Nat
  PROVE  Units(Cheapest(left, group, count), group) = Min({count, Units(left, group)})
<1> DEFINE First(D) == \A p \in D : \A q \in group : Before(q, p) => q \in D
           Right(D) == Units(Cheapest(left, group, count), D) = Min({count, Units(left, D)})
           T == {D \in SUBSET group : First(D) /\ ~Right(D)}
<1>1. T = {}
  <2> SUFFICES ASSUME T # {} PROVE FALSE
    OBVIOUS
  <2>1. IsFiniteSet(group) /\ Counting!IsFiniteSet(group)
    BY FewProducts, SameFinite
  <2>2. PICK D \in T : \A t \in T : t \subseteq D => t = D
    <3>1. T \subseteq SUBSET group
      OBVIOUS
    <3> HIDE DEF T
    <3> QED
      BY <2>1, <3>1, Counting!SmallestSubset
  <2> SUFFICES Right(D)
    OBVIOUS
  <2>3. D \in SUBSET group /\ First(D)
    OBVIOUS
  <2> DEFINE taken == Cheapest(left, group, count)
  <2>4. Within(taken, left) /\ taken \in Carts
    BY CheapestAre DEF Within
  <2>5. CASE D = {}
    <3>1. Units(taken, D) = 0 /\ Units(left, D) = 0
      BY <2>5, SumsAre, Counting!SumEmpty
    <3> HIDE DEF taken
    <3>2. Min({count, Units(left, D)}) = 0
      BY <3>1, MinIs
    <3> QED
      BY <3>1, <3>2 DEF taken
  <2>6. CASE D # {}
    <3>1. PICK p \in D : \A q \in D \ {p} : Before(q, p)
      BY <2>3, <2>6, LastOfGroup
    <3> DEFINE R == D \ {p}
    <3>2. \A a \in Products : ~Before(a, a)
      BY PricesAssumption DEF Before
    <3>3. \A a, b \in Products : ~(Before(a, b) /\ Before(b, a))
      BY PricesAssumption DEF Before
    <3>4. R = {q \in group : Before(q, p)}
      BY <2>3, <3>1, <3>2
    <3>5. First(R)
      BY <2>3, <3>1, <3>3
    <3>6. Right(R)
      <4>1. R \in SUBSET group /\ R \subseteq D /\ R # D
        BY <2>3
      <4>2. R \notin T
        BY <2>2, <4>1
      <4> QED
        BY <3>5, <4>1, <4>2
    <3> DEFINE u == Units(left, R)
    <3>7. taken[p] = Min({left[p], Max({0, count - u})})
      BY <2>3, <3>4 DEF Cheapest
    <3>8. Units(taken, R) = Min({count, u})
      BY <3>6
    <3>9. Units(taken, D) = Units(taken, R) + taken[p] /\ Units(left, D) = u + left[p]
      <4>1. D \in SUBSET Products /\ R \in SUBSET D /\ D \ R = {p}
        BY <2>3
      <4>2. /\ Units(taken, D) = Units(taken, R) + Units(taken, {p})
            /\ Units(left, D) = u + Units(left, {p})
        BY <2>4, <4>1, MoreProducts
      <4>3. UnitAt(taken, p) \in Int /\ UnitAt(left, p) \in Int
        BY <2>3, <2>4 DEF UnitAt, Carts
      <4>4. Units(taken, {p}) = taken[p] /\ Units(left, {p}) = left[p]
        BY <4>3, AllAdd, SumsAre, Counting!SumOne DEF UnitAt
      <4> QED
        BY <4>2, <4>4
    <3>10. u \in Nat /\ left[p] \in Nat
      BY <2>3, CartSums DEF Carts
    <3> HIDE DEF u, taken, R
    <3>11. PICK most \in Nat : /\ most = Max({0, count - u})
                               /\ most = IF 0 <= count - u THEN count - u ELSE 0
      <4>1. count - u \in Int /\ 0 \in Int
        BY <3>10
      <4> QED
        BY <4>1, MaxIs
    <3>12. taken[p] = IF left[p] <= most THEN left[p] ELSE most
      <4>1. left[p] \in Int /\ most \in Int
        BY <3>10, <3>11
      <4>2. taken[p] = Min({left[p], most})
        BY <3>7, <3>11
      <4> QED
        BY <4>1, <4>2, MinIs
    <3>13. Units(taken, R) = IF count <= u THEN count ELSE u
      BY <3>8, <3>10, MinIs
    <3>14. Min({count, u + left[p]}) = IF count <= u + left[p] THEN count ELSE u + left[p]
      BY <3>10, MinIs
    <3>15. Units(taken, D) = Min({count, Units(left, D)})
      BY <3>9, <3>10, <3>11, <3>12, <3>13, <3>14
    <3> QED
      BY <3>15 DEF taken
  <2> QED
    BY <2>5, <2>6
<1>2. First(group)
  OBVIOUS
<1> HIDE DEF First, Right
<1>3. Right(group)
  BY <1>1, <1>2
<1> QED
  BY <1>3 DEF Right

\* Units of a larger group are gone, as many as said.
Gone(left, rest, group, count) ==
  \A S \in SUBSET Products : group \subseteq S => Units(rest, S) = Units(left, S) - count
Kept(left, rest, group) ==
  \A S \in SUBSET Products : S \cap group = {} => Units(rest, S) = Units(left, S)

\* A group that has enough loses as many units as are asked for, and no other group does.
TakenOut(left, group, count, taken, rest) ==
  /\ rest \in Carts /\ Within(rest, left) /\ Value(taken, Products) \in Nat
  /\ Value(rest, Products) = Value(left, Products) - Value(taken, Products)
  /\ Kept(left, rest, group)
  /\ count <= Units(left, group) => Gone(left, rest, group, count)

LEMMA Taken ==
  ASSUME NEW left \in Carts, NEW group \in SUBSET Products, NEW count \in Nat,
         NEW taken, taken = Cheapest(left, group, count), NEW rest, rest = Without(left, taken)
  PROVE  TakenOut(left, group, count, taken, rest)
<1>1. Within(taken, left) /\ taken \in Carts /\ \A p \in Products \ group : taken[p] = 0
  BY CheapestAre DEF Within
<1>2. /\ rest \in Carts /\ Within(rest, left)
      /\ \A S \in SUBSET Products :
            /\ Units(rest, S) = Units(left, S) - Units(taken, S)
            /\ Value(rest, S) = Value(left, S) - Value(taken, S)
  BY <1>1, WithoutIs
<1>3. Products \in SUBSET Products /\ Value(taken, Products) \in Nat
  BY <1>1, CartSums
<1>4. ASSUME NEW S \in SUBSET Products, S \cap group = {}
      PROVE  Units(taken, S) = 0 /\ Units(left, S) \in Nat
  <2>1. Counting!IsFiniteSet(S)
    BY FewProducts, SameFinite
  <2>2. \A p \in S : UnitAt(taken, p) = 0
    BY <1>1, <1>4 DEF UnitAt
  <2>3. Counting!Sum(taken, S) = 0
    BY <2>1, <2>2, AllAdd, Counting!SumZero
  <2> QED
    BY <2>3, SumsAre, CartSums
<1>5. ASSUME count <= Units(left, group), NEW S \in SUBSET Products, group \subseteq S
      PROVE  Units(taken, S) = count
  <2>1. Units(taken, S) = Units(taken, group) + Units(taken, S \ group)
    BY <1>1, <1>5, MoreProducts
  <2>2. Units(taken, S \ group) = 0
    <3>1. (S \ group) \in SUBSET Products /\ (S \ group) \cap group = {}
      OBVIOUS
    <3> QED
      BY <1>4, <3>1
  <2>3. Units(taken, group) = count
    <3>1. Units(left, group) \in Nat
      BY CartSums
    <3>2. count \in Int /\ Units(left, group) \in Int
      BY <3>1
    <3>3. Min({count, Units(left, group)}) = count
      BY <1>5, <3>2, MinIs
    <3> QED
      BY <3>3, CheapestCount
  <2> QED
    BY <2>1, <2>2, <2>3
<1>6. \A S \in SUBSET Products : S \cap group = {} => Units(rest, S) = Units(left, S)
  <2> SUFFICES ASSUME NEW S \in SUBSET Products, S \cap group = {}
               PROVE  Units(rest, S) = Units(left, S)
    OBVIOUS
  <2>1. Units(taken, S) = 0 /\ Units(left, S) \in Nat
    BY <1>4
  <2> QED
    BY <1>2, <2>1
<1>7. count <= Units(left, group) =>
        \A S \in SUBSET Products : group \subseteq S => Units(rest, S) = Units(left, S) - count
  <2> SUFFICES ASSUME count <= Units(left, group), NEW S \in SUBSET Products, group \subseteq S
               PROVE  Units(rest, S) = Units(left, S) - count
    OBVIOUS
  <2>1. Units(taken, S) = count
    BY <1>5
  <2> QED
    BY <1>2, <2>1
<1> QED
  BY <1>2, <1>3, <1>6, <1>7 DEF TakenOut, Gone, Kept

-----------------------------------------------------------------------------
(* Loops *)
Greatest(S) == Max(S)
Itself(c, n) == n
GiftNext(promotion, n, past) == OneGift(promotion, past)
Gifts == INSTANCE FoldFacts WITH op <- GiftNext, map <- Itself, choose <- Greatest
BundleNext(promotion, n, past) == OneBundle(promotion, past)
Bundles == INSTANCE FoldFacts WITH op <- BundleNext, map <- Itself, choose <- Greatest
ElementAt(seq, i) == seq[i]
ItemNext(c, item, sofar) == TakeItem(sofar, item)
Items == INSTANCE FoldFacts WITH op <- ItemNext, map <- ElementAt, choose <- Greatest
PromotionNext(c, promotion, all) == ApplyNext(all, promotion)
Active == INSTANCE FoldFacts WITH op <- PromotionNext, map <- ElementAt, choose <- Greatest

LEMMA GreatestIsMax ==
  ASSUME NEW n \in Nat
  PROVE  \A s \in SUBSET (1..n) : s # {} => Greatest(s) \in s /\ \A k \in s : k <= Greatest(s)
<1> SUFFICES ASSUME NEW s \in SUBSET (1..n), s # {}
             PROVE  Greatest(s) \in s /\ \A k \in s : k <= Greatest(s)
  OBVIOUS
<1>1. \E k \in s : \A m \in s : m <= k
  BY Gifts!GreatestNatural
<1>2. \E k \in s : \A m \in s : k >= m
  BY <1>1
<1>3. Greatest(s) \in s /\ \A m \in s : Greatest(s) >= m
  BY <1>2 DEF Greatest, Max
<1> QED
  BY <1>3

\* What holds before a loop and passes each turn holds after it.
LEMMA Turns ==
  ASSUME NEW n \in Nat, NEW Q, 0 \in Q, \A m \in 1..n : m - 1 \in Q => m \in Q
  PROVE  \A m \in 0..n : m \in Q
<1> DEFINE T == {m \in 0..n : m \notin Q}
<1>1. T = {}
  <2> SUFFICES ASSUME T # {} PROVE FALSE
    OBVIOUS
  <2>1. T \in SUBSET Nat
    OBVIOUS
  <2>2. PICK m \in T : \A k \in T : m <= k
    <3> HIDE DEF T
    <3> QED
      BY <2>1, Gifts!LeastNatural
  <2>3. m \in 1..n /\ m - 1 \in 0..n /\ ~(m <= m - 1)
    OBVIOUS
  <2> QED
    BY <2>2, <2>3
<1> QED
  BY <1>1

LEMMA OneGroupIsFold ==
  ASSUME NEW promotion, NEW left, NEW times \in Nat
  PROVE  OneGroup(promotion, left, times) = Gifts!Fold(promotion, NothingGiven(left), 1..times)
<1>1. OneGroup(promotion, left, times)
        = Gifts!Fold(promotion, NothingGiven(left), DOMAIN [n \in 1..times |-> n])
  BY DEF OneGroup, Repeat, FoldLeft, MapThenFoldSet, Gifts!Fold, Gifts!MapThenFoldSet, GiftNext,
         Itself, Greatest
<1>2. DOMAIN [n \in 1..times |-> n] = 1..times
  OBVIOUS
<1> QED
  BY <1>1, <1>2

LEMMA BundleIsFold ==
  ASSUME NEW promotion, NEW left, BundleTimes(promotion, left) \in Nat
  PROVE  Bundle(promotion, left)
           = Bundles!Fold(promotion, NothingGiven(left), 1..BundleTimes(promotion, left))
<1> DEFINE times == BundleTimes(promotion, left)
<1>1. Bundle(promotion, left)
        = Bundles!Fold(promotion, NothingGiven(left), DOMAIN [n \in 1..times |-> n])
  BY DEF Bundle, Repeat, FoldLeft, MapThenFoldSet, Bundles!Fold, Bundles!MapThenFoldSet,
         BundleNext, Itself, Greatest
<1>2. DOMAIN [n \in 1..times |-> n] = 1..times
  OBVIOUS
<1> QED
  BY <1>1, <1>2

LEMMA ItemsAreFold ==
  ASSUME NEW seq, NEW base
  PROVE  FoldLeft(TakeItem, base, seq) = Items!Fold(seq, base, DOMAIN seq)
BY DEF FoldLeft, MapThenFoldSet, Items!Fold, Items!MapThenFoldSet, ItemNext, ElementAt, Greatest

LEMMA ComputedIsFold ==
  ASSUME NEW cart
  PROVE  Computed(cart) = Active!Fold(Promotions, [cart |-> cart, left |-> cart, given |-> <<>>],
                                      DOMAIN Promotions)
BY DEF Computed, FoldLeft, MapThenFoldSet, Active!Fold, Active!MapThenFoldSet, PromotionNext,
       ElementAt, Greatest

-----------------------------------------------------------------------------
(* Buy some, get some *)
Givens == [left : Carts, times : Nat, amount : Nat]

\* What a promotion gives is worth no more than the units it took.
Fair(left, given) ==
  /\ given \in Givens /\ Within(given.left, left)
  /\ given.amount <= Value(left, Products) - Value(given.left, Products)

LEMMA WithinAgain ==
  ASSUME NEW a, NEW b, NEW c \in Carts, Within(a, b), Within(b, c)
  PROVE  Within(a, c)
BY DEF Within, Carts

LEMMA WithinSums ==
  ASSUME NEW cart \in Carts, NEW rest, Within(rest, cart)
  PROVE  Value(rest, Products) <= Value(cart, Products)
<1> DEFINE taken == Without(cart, rest)
<1>1. taken \in Carts /\ Value(taken, Products) = Value(cart, Products) - Value(rest, Products)
  BY WithoutIs
<1>2. Value(taken, Products) \in Nat /\ Value(cart, Products) \in Nat /\ Value(rest, Products) \in Nat
  BY <1>1, CartSums DEF Within
<1> QED
  BY <1>1, <1>2

LEMMA NothingIsFair ==
  ASSUME NEW left \in Carts
  PROVE  Fair(left, NothingGiven(left)) /\ \A group : Gone(left, left, group, 0)
<1>1. Within(left, left)
  BY DEF Within, Carts
<1>2. \A S \in SUBSET Products : Units(left, S) \in Nat
  BY CartSums
<1>3. Value(left, Products) \in Nat
  BY CartSums
<1>4. Fair(left, NothingGiven(left))
  BY <1>1, <1>3 DEF Fair, NothingGiven, Givens
<1>5. \A group : Gone(left, left, group, 0)
  BY <1>2 DEF Gone
<1> QED
  BY <1>4, <1>5

\* One gift: the cheapest units are given, and the group is poorer by the paid ones too.
LEMMA OneGiftGives ==
  ASSUME NEW promotion \in BuyTerms, NEW past \in Givens, NEW next, next = OneGift(promotion, past)
  PROVE  /\ next \in Givens /\ Within(next.left, past.left)
         /\ next.times = past.times + 1
         /\ next.amount - past.amount <= Value(past.left, Products) - Value(next.left, Products)
         /\ promotion.buy + promotion.get <= Units(past.left, promotion.trigger)
              => Gone(past.left, next.left, promotion.trigger, promotion.buy + promotion.get)
<1> DEFINE group == promotion.trigger  left == past.left
<1>1. /\ group \in SUBSET Products /\ promotion.buy \in Nat /\ promotion.get \in Nat
      /\ left \in Carts /\ past.times \in Nat /\ past.amount \in Nat
  BY DEF BuyTerms, Givens
<1>2. PICK gift : gift = Cheapest(left, group, promotion.get)
  OBVIOUS
<1>3. PICK rest : rest = Without(left, gift)
  OBVIOUS
<1>4. PICK paid : paid = Cheapest(rest, group, promotion.buy)
  OBVIOUS
<1>5. /\ next = [left |-> Without(rest, paid), times |-> past.times + 1,
                 amount |-> past.amount + Value(gift, Products)]
  BY <1>2, <1>3, <1>4 DEF OneGift
<1> HIDE DEF group, left
<1>6. /\ rest \in Carts /\ Within(rest, left) /\ Value(gift, Products) \in Nat
      /\ Value(rest, Products) = Value(left, Products) - Value(gift, Products)
      /\ promotion.get <= Units(left, group) => Gone(left, rest, group, promotion.get)
  <2>1. left \in Carts /\ group \in SUBSET Products /\ promotion.get \in Nat
    BY <1>1 DEF left, group
  <2>2. gift = Cheapest(left, group, promotion.get) /\ rest = Without(left, gift)
    BY <1>2, <1>3 DEF left, group
  <2>3. TakenOut(left, group, promotion.get, gift, rest)
    BY <2>1, <2>2, Taken
  <2> QED
    BY <2>3 DEF TakenOut
<1>7. /\ next.left \in Carts /\ Within(next.left, rest)
      /\ promotion.buy <= Units(rest, group) => Gone(rest, next.left, group, promotion.buy)
  <2>1. next.left = Without(rest, paid)
    BY <1>5
  <2>2. rest \in Carts /\ group \in SUBSET Products /\ promotion.buy \in Nat
    BY <1>1, <1>6
  <2>3. paid = Cheapest(rest, group, promotion.buy)
    BY <1>4 DEF group
  <2>4. TakenOut(rest, group, promotion.buy, paid, next.left)
    BY <2>1, <2>2, <2>3, Taken
  <2> QED
    BY <2>4 DEF TakenOut
<1>8. Within(next.left, left) /\ Value(next.left, Products) <= Value(rest, Products)
  BY <1>1, <1>6, <1>7, WithinAgain, WithinSums
<1>9. next.times = past.times + 1 /\ next.amount = past.amount + Value(gift, Products)
  BY <1>5
<1>10. next \in Givens
  BY <1>1, <1>5, <1>6, <1>7, <1>9 DEF Givens
<1>11. /\ Value(left, Products) \in Nat /\ Value(rest, Products) \in Nat
       /\ Value(next.left, Products) \in Nat
  BY <1>1, <1>6, <1>7, CartSums
<1>12. next.amount - past.amount <= Value(left, Products) - Value(next.left, Products)
  BY <1>1, <1>6, <1>8, <1>9, <1>11
<1>13. ASSUME promotion.buy + promotion.get <= Units(left, group)
       PROVE  Gone(left, next.left, group, promotion.buy + promotion.get)
  <2>1. \A S \in SUBSET Products : Units(left, S) \in Nat
    BY <1>1, CartSums
  <2>2. promotion.get <= Units(left, group)
    BY <1>1, <1>13, <2>1
  <2>3. Gone(left, rest, group, promotion.get)
    BY <1>6, <2>2
  <2>4. Units(rest, group) = Units(left, group) - promotion.get
    BY <1>1, <2>3 DEF Gone
  <2>5. promotion.buy <= Units(rest, group)
    BY <1>1, <1>13, <2>1, <2>4
  <2>6. Gone(rest, next.left, group, promotion.buy)
    BY <1>7, <2>5
  <2> QED
    BY <1>1, <2>1, <2>3, <2>6 DEF Gone
<1> QED
  BY <1>8, <1>9, <1>10, <1>12, <1>13 DEF group, left

\* Times gifts of one group.
LEMMA OneGroupGives ==
  ASSUME NEW promotion \in BuyTerms, NEW left \in Carts, NEW times \in Nat,
         NEW given, given = OneGroup(promotion, left, times)
  PROVE  /\ Fair(left, given) /\ given.times = times
         /\ times * (promotion.buy + promotion.get) <= Units(left, promotion.trigger)
              => Gone(left, given.left, promotion.trigger, times * (promotion.buy + promotion.get))
<1> DEFINE Got(m) == Gifts!Fold(promotion, NothingGiven(left), 1..m)
           each == promotion.buy + promotion.get
           group == promotion.trigger
           Good(m) == /\ Fair(left, Got(m)) /\ Got(m).times = m
                      /\ m * each <= Units(left, group) => Gone(left, Got(m).left, group, m * each)
<1>1. each \in Nat /\ group \in SUBSET Products /\ Units(left, group) \in Nat
  <2>1. promotion.buy \in Nat /\ promotion.get \in Nat /\ group \in SUBSET Products
    BY DEF BuyTerms
  <2> QED
    BY <2>1, CartSums
<1>2. /\ Got(0) = NothingGiven(left)
      /\ \A m \in 1..times : Got(m) = OneGift(promotion, Got(m - 1))
  BY GreatestIsMax, Gifts!FoldUpward DEF GiftNext
<1> HIDE DEF Got, each, group
<1>3. Good(0)
  <2>1. Got(0).left = left /\ Got(0).times = 0
    BY <1>2 DEF NothingGiven
  <2>2. 0 * each = 0
    BY <1>1
  <2> QED
    BY <1>2, <2>1, <2>2, NothingIsFair
<1>4. ASSUME NEW m \in 1..times, Good(m - 1)
      PROVE  Good(m)
  <2> DEFINE past == Got(m - 1)  next == Got(m)
  <2>1. past \in Givens /\ next = OneGift(promotion, past) /\ Within(past.left, left)
    BY <1>2, <1>4 DEF Fair
  <2> HIDE DEF past, next
  <2>2. /\ next \in Givens /\ Within(next.left, past.left)
        /\ next.times = past.times + 1
        /\ next.amount - past.amount <= Value(past.left, Products) - Value(next.left, Products)
        /\ each <= Units(past.left, group) => Gone(past.left, next.left, group, each)
    BY <2>1, OneGiftGives DEF each, group
  <2>3. past.times = m - 1 /\ past.amount <= Value(left, Products) - Value(past.left, Products)
    BY <1>4 DEF past, Fair
  <2>4. /\ past.left \in Carts /\ next.left \in Carts
        /\ past.amount \in Nat /\ next.amount \in Nat
    BY <2>1, <2>2 DEF Givens
  <2>5. /\ Value(left, Products) \in Nat /\ Value(past.left, Products) \in Nat
        /\ Value(next.left, Products) \in Nat
    BY <2>4, CartSums
  <2>6. Fair(left, next)
    <3>1. next.amount <= Value(left, Products) - Value(next.left, Products)
      BY <2>2, <2>3, <2>4, <2>5
    <3> QED
      BY <2>1, <2>2, <3>1, WithinAgain DEF Fair
  <2>7. next.times = m
    BY <2>2, <2>3
  <2>8. ASSUME m * each <= Units(left, group)
        PROVE  Gone(left, next.left, group, m * each)
    <3>1. (m - 1) * each + each = m * each /\ (m - 1) * each \in Nat
      BY <1>1
    <3>2. Gone(left, past.left, group, (m - 1) * each)
      <4>1. (m - 1) * each <= Units(left, group)
        BY <1>1, <2>8, <3>1
      <4> QED
        BY <1>4, <4>1 DEF past
    <3>3. Units(past.left, group) = Units(left, group) - (m - 1) * each
      BY <1>1, <3>2 DEF Gone
    <3>4. each <= Units(past.left, group)
      BY <1>1, <2>8, <3>1, <3>3
    <3>5. Gone(past.left, next.left, group, each)
      BY <2>2, <3>4
    <3> SUFFICES ASSUME NEW S \in SUBSET Products, group \subseteq S
                 PROVE  Units(next.left, S) = Units(left, S) - m * each
      BY DEF Gone
    <3>6. /\ Units(past.left, S) = Units(left, S) - (m - 1) * each
          /\ Units(next.left, S) = Units(past.left, S) - each
      BY <3>2, <3>5 DEF Gone
    <3>7. Units(left, S) \in Nat
      BY CartSums
    <3> QED
      BY <1>1, <3>1, <3>6, <3>7
  <2> QED
    BY <2>6, <2>7, <2>8 DEF next
<1> DEFINE Q == {m \in 0..times : Good(m)}
<1>5. \A m \in 0..times : m \in Q
  <2>1. 0 \in Q
    BY <1>3
  <2>2. \A m \in 1..times : m - 1 \in Q => m \in Q
    BY <1>4
  <2> HIDE DEF Q
  <2> QED
    BY <2>1, <2>2, Turns
<1>6. Good(times)
  BY <1>5
<1>7. given = Got(times)
  BY OneGroupIsFold DEF Got
<1> QED
  BY <1>6, <1>7 DEF each, group

\* Times gifts out of a second group.
LEMMA TwoGroupsGive ==
  ASSUME NEW promotion \in BuyTerms, NEW left \in Carts, NEW times \in Nat,
         NEW given, given = TwoGroups(promotion, left, times)
  PROVE  /\ Fair(left, given) /\ given.times = times
         /\ /\ promotion.trigger \cap promotion.reward = {}
            /\ times * promotion.buy <= Units(left, promotion.trigger)
            /\ times * promotion.get <= Units(left, promotion.reward)
            => Units(left, Products) - Units(given.left, Products)
                 = times * (promotion.buy + promotion.get)
<1> DEFINE group == promotion.trigger  reward == promotion.reward
           paying == promotion.buy * times  giving == promotion.get * times
<1>1. /\ group \in SUBSET Products /\ reward \in SUBSET Products
      /\ promotion.buy \in Nat /\ promotion.get \in Nat
  BY DEF BuyTerms
<1>2. /\ paying \in Nat /\ giving \in Nat
      /\ times * promotion.buy = paying /\ times * promotion.get = giving
      /\ times * (promotion.buy + promotion.get) = paying + giving
  BY <1>1
<1>3. PICK paid : paid = Cheapest(left, group, paying)
  OBVIOUS
<1>4. PICK rest : rest = Without(left, paid)
  OBVIOUS
<1>5. PICK gift : gift = Cheapest(rest, reward, giving)
  OBVIOUS
<1>6. PICK last : last = Without(rest, gift)
  OBVIOUS
<1>7. given = [left |-> last, times |-> times, amount |-> Value(gift, Products)]
  BY <1>3, <1>4, <1>5, <1>6 DEF TwoGroups
<1> HIDE DEF group, reward, paying, giving
<1>8. /\ rest \in Carts /\ Within(rest, left) /\ Kept(left, rest, group)
      /\ paying <= Units(left, group) => Gone(left, rest, group, paying)
  <2>1. TakenOut(left, group, paying, paid, rest)
    BY <1>1, <1>2, <1>3, <1>4, Taken
  <2> QED
    BY <2>1 DEF TakenOut
<1>9. /\ last \in Carts /\ Within(last, rest) /\ Value(gift, Products) \in Nat
      /\ Value(last, Products) = Value(rest, Products) - Value(gift, Products)
      /\ giving <= Units(rest, reward) => Gone(rest, last, reward, giving)
  <2>1. rest \in Carts /\ reward \in SUBSET Products /\ giving \in Nat
    BY <1>1, <1>2, <1>8
  <2>2. TakenOut(rest, reward, giving, gift, last)
    BY <1>5, <1>6, <2>1, Taken
  <2> QED
    BY <2>2 DEF TakenOut
<1>10. /\ Value(left, Products) \in Nat /\ Value(rest, Products) \in Nat
       /\ Value(last, Products) \in Nat /\ Value(rest, Products) <= Value(left, Products)
  BY <1>8, <1>9, CartSums, WithinSums
<1>11. Fair(left, given)
  <2>1. given \in Givens /\ given.left = last
    BY <1>7, <1>9 DEF Givens
  <2>2. given.amount <= Value(left, Products) - Value(last, Products)
    BY <1>7, <1>9, <1>10
  <2> QED
    BY <1>8, <1>9, <2>1, <2>2, WithinAgain DEF Fair
<1>12. ASSUME group \cap reward = {}, paying <= Units(left, group), giving <= Units(left, reward)
       PROVE  Units(left, Products) - Units(last, Products) = paying + giving
  <2>1. Units(rest, Products) = Units(left, Products) - paying
    BY <1>1, <1>8, <1>12 DEF Gone
  <2>2. Units(rest, reward) = Units(left, reward)
    BY <1>1, <1>8, <1>12 DEF Kept
  <2>3. Units(last, Products) = Units(rest, Products) - giving
    BY <1>1, <1>9, <1>12, <2>2 DEF Gone
  <2>4. Units(left, Products) \in Nat
    BY CartSums
  <2> QED
    BY <1>2, <2>1, <2>3, <2>4
<1>13. given.times = times /\ given.left = last
  BY <1>7
<1> QED
  BY <1>2, <1>11, <1>12, <1>13 DEF group, reward

LEMMA CappedIs ==
  ASSUME NEW promotion, promotion.atMost \in Nat, NEW times \in Nat
  PROVE  Capped(promotion, times) \in Nat /\ Capped(promotion, times) <= times
<1>1. times \in Int /\ promotion.atMost \in Int
  OBVIOUS
<1>2. Min({times, promotion.atMost}) = IF times <= promotion.atMost THEN times ELSE promotion.atMost
  BY <1>1, MinIs
<1> QED
  BY <1>2 DEF Capped

\* The cart has the units of every application that is counted.
LEMMA BuyGetFits ==
  ASSUME NEW promotion \in BuyTerms, NEW left \in Carts,
         NEW times, times = BuyGetTimes(promotion, left)
  PROVE  /\ times \in Nat
         /\ promotion.reward = {} =>
              times * (promotion.buy + promotion.get) <= Units(left, promotion.trigger)
         /\ promotion.reward # {} =>
              /\ times * promotion.buy <= Units(left, promotion.trigger)
              /\ times * promotion.get <= Units(left, promotion.reward)
<1>1. /\ promotion.trigger \in SUBSET Products /\ promotion.reward \in SUBSET Products
      /\ promotion.buy \in Nat \ {0} /\ promotion.get \in Nat \ {0} /\ promotion.atMost \in Nat
  BY DEF BuyTerms
<1>2. PICK a, b, d \in Nat \ {0} :
        /\ a = promotion.buy /\ b = promotion.get /\ d = promotion.buy + promotion.get
  BY <1>1
<1>3. PICK u, w \in Nat : u = Units(left, promotion.trigger) /\ w = Units(left, promotion.reward)
  BY <1>1, CartSums
<1>4. CASE promotion.reward = {}
  <2>1. times = Capped(promotion, u \div d)
    BY <1>2, <1>3, <1>4 DEF BuyGetTimes
  <2>2. u \div d \in Nat
    BY DivIs
  <2>3. times \in Nat /\ times <= u \div d
    BY <1>1, <2>1, <2>2, CappedIs
  <2>4. times * d <= u
    BY <2>3, ShareFits
  <2> QED
    BY <1>2, <1>3, <1>4, <2>3, <2>4
<1>5. CASE promotion.reward # {}
  <2>1. times = Capped(promotion, Min({u \div a, w \div b}))
    BY <1>2, <1>3, <1>5 DEF BuyGetTimes
  <2>2. u \div a \in Nat /\ w \div b \in Nat
    BY DivIs
  <2>3. PICK x, y \in Nat : x = u \div a /\ y = w \div b
    BY <2>2
  <2>4. x \in Int /\ y \in Int
    OBVIOUS
  <2>5. Min({x, y}) = IF x <= y THEN x ELSE y
    BY <2>4, MinIs
  <2>6. Min({x, y}) \in Nat
    BY <2>5
  <2>7. times \in Nat /\ times <= Min({x, y})
    BY <1>1, <2>1, <2>3, <2>6, CappedIs
  <2>8. times <= u \div a /\ times <= w \div b
    BY <2>3, <2>5, <2>7
  <2>9. times * a <= u /\ times * b <= w
    BY <2>7, <2>8, ShareFits
  <2> QED
    BY <1>2, <1>3, <1>5, <2>7, <2>9
<1> QED
  BY <1>4, <1>5

\* A promotion took the units its terms ask for, once for each time it was granted.
Warranted(promotion, left, given) ==
  GroupsApart(promotion) =>
    Units(left, Products) - Units(given.left, Products) = given.times * UnitsOf(promotion)

LEMMA BuyGetGives ==
  ASSUME NEW promotion \in BuyTerms, NEW left \in Carts, NEW given, given = BuyGet(promotion, left)
  PROVE  Fair(left, given) /\ Warranted(promotion, left, given)
<1>1. PICK times : times = BuyGetTimes(promotion, left)
  OBVIOUS
<1>2. PICK whole : whole = IF promotion.reward = {} THEN OneGroup(promotion, left, times)
                           ELSE TwoGroups(promotion, left, times)
  OBVIOUS
<1>3. given = [whole EXCEPT !.amount = Percent(@, promotion.percent)]
  BY <1>1, <1>2 DEF BuyGet
<1>4. /\ times \in Nat
      /\ promotion.reward = {} =>
           times * (promotion.buy + promotion.get) <= Units(left, promotion.trigger)
      /\ promotion.reward # {} =>
           /\ times * promotion.buy <= Units(left, promotion.trigger)
           /\ times * promotion.get <= Units(left, promotion.reward)
  BY <1>1, BuyGetFits
<1>5. /\ promotion.type = "buy" /\ promotion.percent \in 0..100
      /\ promotion.trigger \in SUBSET Products /\ promotion.buy + promotion.get \in Nat
  BY DEF BuyTerms
<1>6. /\ UnitsOf(promotion) = promotion.buy + promotion.get
      /\ GroupsApart(promotion) => promotion.trigger \cap promotion.reward = {}
  BY <1>5 DEF UnitsOf, GroupsApart
<1>7. /\ Fair(left, whole) /\ whole.times = times
      /\ GroupsApart(promotion) =>
           Units(left, Products) - Units(whole.left, Products)
             = times * (promotion.buy + promotion.get)
  <2>1. CASE promotion.reward = {}
    <3>1. /\ Fair(left, whole) /\ whole.times = times
          /\ Gone(left, whole.left, promotion.trigger, times * (promotion.buy + promotion.get))
      BY <1>2, <1>4, <2>1, OneGroupGives
    <3>2. Units(whole.left, Products)
            = Units(left, Products) - times * (promotion.buy + promotion.get)
      BY <1>5, <3>1 DEF Gone
    <3>3. Units(left, Products) \in Nat /\ times * (promotion.buy + promotion.get) \in Nat
      BY <1>4, <1>5, CartSums
    <3> QED
      BY <3>1, <3>2, <3>3
  <2>2. CASE promotion.reward # {}
    <3>1. whole = TwoGroups(promotion, left, times)
      BY <1>2, <2>2
    <3> QED
      BY <1>4, <1>6, <2>2, <3>1, TwoGroupsGive
  <2> QED
    BY <2>1, <2>2
<1>8. whole \in Givens
  BY <1>7 DEF Fair
<1>9. /\ given.left = whole.left /\ given.times = whole.times
      /\ given.amount = Percent(whole.amount, promotion.percent)
  BY <1>3, <1>8 DEF Givens
<1>10. Percent(whole.amount, promotion.percent) \in Nat
       /\ Percent(whole.amount, promotion.percent) <= whole.amount
  <2>1. whole.amount \in Nat /\ promotion.percent \in Nat /\ promotion.percent <= 100
    BY <1>5, <1>8 DEF Givens
  <2> QED
    BY <2>1, PercentIs
<1>11. given \in Givens
  BY <1>3, <1>8, <1>10 DEF Givens
<1>12. Fair(left, given)
  <2>1. Value(left, Products) \in Nat /\ Value(whole.left, Products) \in Nat /\ whole.amount \in Nat
    BY <1>8, CartSums DEF Givens
  <2>2. given.amount <= Value(left, Products) - Value(whole.left, Products)
    BY <1>7, <1>9, <1>10, <2>1 DEF Fair
  <2> QED
    BY <1>7, <1>9, <1>11, <2>2 DEF Fair
<1> QED
  BY <1>6, <1>7, <1>9, <1>12 DEF Warranted
-----------------------------------------------------------------------------
(* Bundles *)

LEMMA ItemsAre ==
  ASSUME NEW promotion \in BundleTerms
  PROVE  /\ Len(promotion.items) \in Nat \ {0} /\ DOMAIN promotion.items = 1..Len(promotion.items)
         /\ promotion.price \in Nat /\ promotion.atMost \in Nat /\ promotion.type = "bundle"
         /\ \A k \in 1..Len(promotion.items) :
               /\ promotion.items[k] \in BundleItems
               /\ promotion.items[k].group \in SUBSET Products
               /\ promotion.items[k].quantity \in Nat \ {0}
<1>1. /\ promotion.items \in Seq(BundleItems) \ {<<>>} /\ promotion.price \in Nat
      /\ promotion.atMost \in Nat /\ promotion.type = "bundle"
  BY DEF BundleTerms
<1>2. \A k \in 1..Len(promotion.items) : promotion.items[k] \in BundleItems
  BY <1>1
<1>3. Len(promotion.items) \in Nat \ {0} /\ DOMAIN promotion.items = 1..Len(promotion.items)
  BY <1>1
<1> QED
  BY <1>1, <1>2, <1>3 DEF BundleItems

\* A bundle's units, item by item.
LEMMA BundleUnits ==
  ASSUME NEW promotion \in BundleTerms
  PROVE  /\ UnitsOf(promotion) = Parts!Sum(promotion.items, 1..Len(promotion.items))
         /\ UnitsOf(promotion) \in Nat
         /\ Parts!Sum(promotion.items, 1..0) = 0
         /\ \A m \in 1..Len(promotion.items) :
               /\ Parts!Sum(promotion.items, 1..(m - 1)) \in Nat
               /\ Parts!Sum(promotion.items, 1..m)
                    = Parts!Sum(promotion.items, 1..(m - 1)) + promotion.items[m].quantity
<1> DEFINE seq == promotion.items  n == Len(promotion.items)
<1>1. /\ n \in Nat /\ DOMAIN seq = 1..n /\ promotion.type = "bundle"
      /\ \A k \in 1..n : seq[k].quantity \in Nat
  BY ItemsAre
<1>2. UnitsOf(promotion) = Parts!Sum(seq, DOMAIN seq)
  BY <1>1, SumsAre DEF UnitsOf
<1> HIDE DEF seq, n
<1>3. \A S \in SUBSET (1..n) : /\ Parts!IsFiniteSet(S) /\ \A k \in S : PartAt(seq, k) \in Nat
                               /\ Parts!Summable(seq, S) /\ Parts!Sum(seq, S) \in Nat
  <2> SUFFICES ASSUME NEW S \in SUBSET (1..n)
               PROVE  /\ Parts!IsFiniteSet(S) /\ \A k \in S : PartAt(seq, k) \in Nat
                      /\ Parts!Summable(seq, S) /\ Parts!Sum(seq, S) \in Nat
    OBVIOUS
  <2>1. IsFiniteSet(1..n)
    BY <1>1, FS_Interval
  <2>2. IsFiniteSet(S)
    BY <2>1, FS_Subset
  <2>3. Parts!IsFiniteSet(S)
    BY <2>2, SameFinite
  <2>4. \A k \in S : PartAt(seq, k) \in Nat
    BY <1>1 DEF PartAt
  <2>5. Parts!Summable(seq, S)
    BY <2>3, <2>4 DEF Parts!Summable
  <2>6. Parts!Sum(seq, S) \in Nat
    BY <2>3, <2>4, AllAdd, Parts!SumNat
  <2> QED
    BY <2>3, <2>4, <2>5, <2>6
<1>4. ASSUME NEW m \in 1..n
      PROVE  /\ Parts!Sum(seq, 1..(m - 1)) \in Nat
             /\ Parts!Sum(seq, 1..m) = Parts!Sum(seq, 1..(m - 1)) + seq[m].quantity
  <2>1. 1..m = (1..(m - 1)) \cup {m} /\ m \notin 1..(m - 1)
    BY <1>1
  <2>2. 1..m \in SUBSET (1..n) /\ 1..(m - 1) \in SUBSET (1..n)
    BY <1>1
  <2>3. Parts!Summable(seq, 1..m) /\ Parts!Sum(seq, 1..(m - 1)) \in Nat
    BY <1>3, <2>2
  <2>4. Parts!Sum(seq, (1..(m - 1)) \cup {m}) = Parts!Sum(seq, 1..(m - 1)) + PartAt(seq, m)
    BY <2>1, <2>3, AllAdd, Parts!SumAdd
  <2> QED
    BY <2>1, <2>3, <2>4 DEF PartAt
<1>5. Parts!Sum(seq, 1..0) = 0
  <2>1. 1..0 = {}
    OBVIOUS
  <2> QED
    BY <2>1, Parts!SumEmpty
<1>6. Parts!Sum(seq, 1..n) \in Nat
  BY <1>3
<1> QED
  BY <1>1, <1>2, <1>4, <1>5, <1>6 DEF seq, n

\* Every group of a bundle has the units of its item.
Enough(promotion, left) ==
  \A k \in 1..Len(promotion.items) :
    promotion.items[k].quantity <= Units(left, promotion.items[k].group)

\* Some of the items have been taken, each out of its own group.
ItemsTaken(promotion, left, m, rest) ==
  /\ Units(rest, Products) = Units(left, Products) - Parts!Sum(promotion.items, 1..m)
  /\ \A k \in 1..Len(promotion.items) :
       Units(rest, promotion.items[k].group)
         = Units(left, promotion.items[k].group) - (IF k <= m THEN promotion.items[k].quantity ELSE 0)

LEMMA WholeBundle ==
  ASSUME NEW promotion \in BundleTerms, NEW left \in Carts,
         NEW whole, whole = FoldLeft(TakeItem, [left |-> left, natural |-> 0], promotion.items)
  PROVE  /\ whole.left \in Carts /\ Within(whole.left, left) /\ whole.natural \in Nat
         /\ whole.natural = Value(left, Products) - Value(whole.left, Products)
         /\ GroupsApart(promotion) /\ Enough(promotion, left) =>
              ItemsTaken(promotion, left, Len(promotion.items), whole.left)
<1> DEFINE seq == promotion.items  n == Len(promotion.items)
           start == [left |-> left, natural |-> 0]
           Got(m) == Items!Fold(seq, start, 1..m)
           Good(m) == /\ Got(m).left \in Carts /\ Within(Got(m).left, left)
                      /\ Got(m).natural \in Nat
                      /\ Got(m).natural = Value(left, Products) - Value(Got(m).left, Products)
                      /\ GroupsApart(promotion) /\ Enough(promotion, left) =>
                           ItemsTaken(promotion, left, m, Got(m).left)
<1>1. /\ n \in Nat /\ DOMAIN seq = 1..n /\ promotion.type = "bundle"
      /\ \A k \in 1..n : seq[k].group \in SUBSET Products /\ seq[k].quantity \in Nat
  BY ItemsAre
<1>2. Got(0) = start /\ \A m \in 1..n : Got(m) = TakeItem(Got(m - 1), seq[m])
  <2>1. n \in Nat
    BY <1>1
  <2> HIDE DEF n, seq, start
  <2> QED
    BY <2>1, GreatestIsMax, Items!FoldUpward DEF ItemNext, ElementAt
<1>3. whole = Got(n)
  BY <1>1, ItemsAreFold
<1>4. GroupsApart(promotion) =>
        \A i, k \in 1..n : i # k => seq[i].group \cap seq[k].group = {}
  BY <1>1 DEF GroupsApart
<1>5. /\ Parts!Sum(seq, 1..0) = 0
      /\ \A m \in 1..n : /\ Parts!Sum(seq, 1..(m - 1)) \in Nat
                         /\ Parts!Sum(seq, 1..m) = Parts!Sum(seq, 1..(m - 1)) + seq[m].quantity
  BY BundleUnits
<1>6. Units(left, Products) \in Nat /\ \A k \in 1..n : Units(left, seq[k].group) \in Nat
  BY <1>1, CartSums
<1> HIDE DEF Got
<1>7. Good(0)
  <2>1. Got(0).left = left /\ Got(0).natural = 0
    BY <1>2
  <2>2. Within(left, left) /\ Value(left, Products) \in Nat
    BY CartSums DEF Within, Carts
  <2>3. ItemsTaken(promotion, left, 0, left)
    BY <1>5, <1>6, <1>1 DEF ItemsTaken
  <2> QED
    BY <2>1, <2>2, <2>3
<1>8. ASSUME NEW m \in 1..n, Good(m - 1)
      PROVE  Good(m)
  <2> DEFINE group == seq[m].group  count == seq[m].quantity
  <2>1. PICK past : past = Got(m - 1)
    OBVIOUS
  <2>2. PICK taken : taken = Cheapest(past.left, group, count)
    OBVIOUS
  <2>3. PICK rest : rest = Without(past.left, taken)
    OBVIOUS
  <2>4. Got(m) = [left |-> rest, natural |-> past.natural + Value(taken, Products)]
    BY <1>2, <2>1, <2>2, <2>3 DEF TakeItem
  <2>5. group \in SUBSET Products /\ count \in Nat
    BY <1>1
  <2>6. /\ past.left \in Carts /\ Within(past.left, left) /\ past.natural \in Nat
        /\ past.natural = Value(left, Products) - Value(past.left, Products)
        /\ GroupsApart(promotion) /\ Enough(promotion, left) =>
             ItemsTaken(promotion, left, m - 1, past.left)
    BY <1>8, <2>1
  <2> HIDE DEF group, count
  <2>7. /\ rest \in Carts /\ Within(rest, past.left) /\ Value(taken, Products) \in Nat
        /\ Value(rest, Products) = Value(past.left, Products) - Value(taken, Products)
        /\ Kept(past.left, rest, group)
        /\ count <= Units(past.left, group) => Gone(past.left, rest, group, count)
    <3>1. past.left \in Carts
      BY <2>6
    <3>2. TakenOut(past.left, group, count, taken, rest)
      BY <2>2, <2>3, <2>5, <3>1, Taken
    <3> QED
      BY <3>2 DEF TakenOut
  <2>8. Value(left, Products) \in Nat /\ Value(past.left, Products) \in Nat
    BY <2>6, CartSums
  <2>9. /\ past.natural + Value(taken, Products) \in Nat
        /\ past.natural + Value(taken, Products) = Value(left, Products) - Value(rest, Products)
    BY <2>6, <2>7, <2>8
  <2>10. Within(rest, left)
    BY <2>6, <2>7, WithinAgain
  <2>11. ASSUME GroupsApart(promotion), Enough(promotion, left)
         PROVE  ItemsTaken(promotion, left, m, rest)
    <3>1. /\ Units(past.left, Products) = Units(left, Products) - Parts!Sum(seq, 1..(m - 1))
          /\ \A k \in 1..n : Units(past.left, seq[k].group)
               = Units(left, seq[k].group) - (IF k <= m - 1 THEN seq[k].quantity ELSE 0)
      BY <2>6, <2>11 DEF ItemsTaken
    <3>2. Units(past.left, group) = Units(left, group)
      BY <1>6, <3>1 DEF group
    <3>3. count <= Units(past.left, group)
      BY <2>11, <3>2 DEF Enough, group, count
    <3>4. Gone(past.left, rest, group, count)
      BY <2>7, <3>3
    <3>5. Units(rest, Products) = Units(past.left, Products) - count
      BY <2>5, <3>4 DEF Gone
    <3>6. Units(rest, Products) = Units(left, Products) - Parts!Sum(seq, 1..m)
      <4>1. /\ Parts!Sum(seq, 1..(m - 1)) \in Nat
            /\ Parts!Sum(seq, 1..m) = Parts!Sum(seq, 1..(m - 1)) + count
        BY <1>5 DEF count
      <4> QED
        BY <1>6, <2>5, <3>1, <3>5, <4>1
    <3>7. ASSUME NEW k \in 1..n
          PROVE  Units(rest, seq[k].group)
                   = Units(left, seq[k].group) - (IF k <= m THEN seq[k].quantity ELSE 0)
      <4>1. CASE k = m
        <5>1. Units(rest, group) = Units(past.left, group) - count
          BY <2>5, <3>4 DEF Gone
        <5> QED
          BY <3>2, <4>1, <5>1 DEF group, count
      <4>2. CASE k # m
        <5>1. seq[k].group \cap group = {} /\ seq[k].group \in SUBSET Products
          BY <1>1, <1>4, <2>11, <4>2 DEF group
        <5>2. Units(rest, seq[k].group) = Units(past.left, seq[k].group)
          BY <2>7, <5>1 DEF Kept
        <5>3. (k <= m - 1) <=> (k <= m)
          BY <1>1, <4>2
        <5> QED
          BY <3>1, <5>2, <5>3
      <4> QED
        BY <4>1, <4>2
    <3> QED
      BY <3>6, <3>7 DEF ItemsTaken
  <2>12. Got(m).left = rest /\ Got(m).natural = past.natural + Value(taken, Products)
    BY <2>4
  <2> QED
    BY <2>7, <2>9, <2>10, <2>11, <2>12
<1> DEFINE Q == {m \in 0..n : Good(m)}
<1>9. \A m \in 0..n : m \in Q
  <2>1. 0 \in Q
    BY <1>1, <1>7
  <2>2. \A m \in 1..n : m - 1 \in Q => m \in Q
    BY <1>8
  <2>3. n \in Nat
    BY <1>1
  <2> HIDE DEF Q, n
  <2> QED
    BY <2>1, <2>2, <2>3, Turns
<1>10. Good(n)
  BY <1>1, <1>9
<1> QED
  BY <1>3, <1>10

\* One bundle: what is saved is at most what its units are worth.
LEMMA OneBundleGives ==
  ASSUME NEW promotion \in BundleTerms, NEW past \in Givens, NEW next, next = OneBundle(promotion, past)
  PROVE  /\ next \in Givens /\ Within(next.left, past.left)
         /\ next.times = past.times + 1
         /\ next.amount - past.amount <= Value(past.left, Products) - Value(next.left, Products)
         /\ GroupsApart(promotion) /\ Enough(promotion, past.left) =>
              ItemsTaken(promotion, past.left, Len(promotion.items), next.left)
<1>1. past.left \in Carts /\ past.times \in Nat /\ past.amount \in Nat
  BY DEF Givens
<1>2. PICK left : left = past.left
  OBVIOUS
<1>3. PICK whole : whole = FoldLeft(TakeItem, [left |-> left, natural |-> 0], promotion.items)
  OBVIOUS
<1>4. next = [left |-> whole.left, times |-> past.times + 1,
              amount |-> past.amount + Max({0, whole.natural - promotion.price})]
  BY <1>2, <1>3 DEF OneBundle
<1>5. /\ whole.left \in Carts /\ Within(whole.left, left) /\ whole.natural \in Nat
      /\ whole.natural = Value(left, Products) - Value(whole.left, Products)
      /\ GroupsApart(promotion) /\ Enough(promotion, left) =>
           ItemsTaken(promotion, left, Len(promotion.items), whole.left)
  <2>1. left \in Carts
    BY <1>1, <1>2
  <2> QED
    BY <1>3, <2>1, WholeBundle
<1>6. PICK saved \in Nat : saved = Max({0, whole.natural - promotion.price}) /\ saved <= whole.natural
  <2>1. promotion.price \in Nat
    BY ItemsAre
  <2>2. 0 \in Int /\ whole.natural - promotion.price \in Int
    BY <1>5, <2>1
  <2>3. Max({0, whole.natural - promotion.price})
          = IF 0 <= whole.natural - promotion.price THEN whole.natural - promotion.price ELSE 0
    BY <2>2, MaxIs
  <2> QED
    BY <1>5, <2>1, <2>3
<1>7. /\ next = [left |-> whole.left, times |-> past.times + 1, amount |-> past.amount + saved]
      /\ next.left = whole.left /\ next.times = past.times + 1 /\ next.amount = past.amount + saved
  BY <1>4, <1>6
<1>8. next \in Givens
  <2>1. past.times + 1 \in Nat /\ past.amount + saved \in Nat
    BY <1>1
  <2> QED
    BY <1>5, <1>7, <2>1 DEF Givens
<1>9. next.amount - past.amount <= Value(left, Products) - Value(next.left, Products)
  BY <1>1, <1>5, <1>6, <1>7
<1> QED
  BY <1>2, <1>5, <1>7, <1>8, <1>9

LEMMA BundleFits ==
  ASSUME NEW promotion \in BundleTerms, NEW left \in Carts,
         NEW times, times = BundleTimes(promotion, left)
  PROVE  /\ times \in Nat
         /\ \A k \in 1..Len(promotion.items) :
              times * promotion.items[k].quantity <= Units(left, promotion.items[k].group)
<1> DEFINE seq == promotion.items  n == Len(promotion.items)
           of(k) == Units(left, seq[k].group) \div seq[k].quantity
           shares == {of(k) : k \in 1..n}
<1>1. /\ n \in Nat \ {0} /\ DOMAIN seq = 1..n /\ promotion.atMost \in Nat
      /\ \A k \in 1..n : seq[k].group \in SUBSET Products /\ seq[k].quantity \in Nat \ {0}
  BY ItemsAre
<1>2. \A k \in 1..n : Units(left, seq[k].group) \in Nat
  BY <1>1, CartSums
<1>3. \A k \in 1..n : of(k) \in Nat
  BY <1>1, <1>2, DivIs
<1>4. times = Capped(promotion, Min(shares))
  BY <1>1 DEF BundleTimes
<1>5. shares \in SUBSET Nat /\ shares # {}
  <2>1. 1 \in 1..n
    BY <1>1
  <2> HIDE DEF n, of
  <2> QED
    BY <1>3, <2>1
<1>6. Min(shares) \in Nat /\ \A k \in 1..n : Min(shares) <= of(k)
  <2>1. \A k \in 1..n : of(k) \in shares
    OBVIOUS
  <2> HIDE DEF shares, of, n
  <2>2. \E m \in shares : \A k \in shares : m <= k
    BY <1>5, Gifts!LeastNatural
  <2>3. Min(shares) \in shares /\ \A k \in shares : Min(shares) <= k
    BY <2>2 DEF Min
  <2> QED
    BY <1>5, <2>1, <2>3
<1>7. times \in Nat /\ times <= Min(shares)
  <2> HIDE DEF shares
  <2> QED
    BY <1>1, <1>4, <1>6, CappedIs
<1>8. ASSUME NEW k \in 1..n
      PROVE  times * seq[k].quantity <= Units(left, seq[k].group)
  <2>1. of(k) \in Nat /\ Min(shares) <= of(k)
    BY <1>3, <1>6
  <2>2. times <= of(k)
    <3> HIDE DEF shares, of
    <3> QED
      BY <1>6, <1>7, <2>1
  <2>3. PICK u \in Nat, d \in Nat \ {0} : u = Units(left, seq[k].group) /\ d = seq[k].quantity
    BY <1>1, <1>2
  <2>4. times <= u \div d
    BY <2>2, <2>3
  <2>5. times * d <= u
    BY <1>7, <2>4, ShareFits
  <2> QED
    BY <2>3, <2>5
<1> QED
  BY <1>7, <1>8

\* Some bundles have been taken, each item out of its own group.
BundlesTaken(promotion, left, m, rest) ==
  /\ Units(rest, Products) = Units(left, Products) - m * UnitsOf(promotion)
  /\ \A k \in 1..Len(promotion.items) :
       Units(rest, promotion.items[k].group)
         = Units(left, promotion.items[k].group) - m * promotion.items[k].quantity

LEMMA BundleGives ==
  ASSUME NEW promotion \in BundleTerms, NEW left \in Carts, NEW given, given = Bundle(promotion, left)
  PROVE  Fair(left, given) /\ Warranted(promotion, left, given)
<1>1. PICK times : times = BundleTimes(promotion, left)
  OBVIOUS
<1> DEFINE n == Len(promotion.items)
           count(k) == promotion.items[k].quantity
           group(k) == promotion.items[k].group
           Got(m) == Bundles!Fold(promotion, NothingGiven(left), 1..m)
           Good(m) == /\ Fair(left, Got(m)) /\ Got(m).times = m
                      /\ GroupsApart(promotion) => BundlesTaken(promotion, left, m, Got(m).left)
<1>2. times \in Nat /\ \A k \in 1..n : times * count(k) <= Units(left, group(k))
  BY <1>1, BundleFits
<1>3. /\ n \in Nat /\ UnitsOf(promotion) \in Nat
      /\ \A k \in 1..n : count(k) \in Nat /\ group(k) \in SUBSET Products
  BY ItemsAre, BundleUnits
<1>4. Units(left, Products) \in Nat /\ \A k \in 1..n : Units(left, group(k)) \in Nat
  BY <1>3, CartSums
<1>5. /\ Got(0) = NothingGiven(left)
      /\ \A m \in 1..times : Got(m) = OneBundle(promotion, Got(m - 1))
  BY <1>2, GreatestIsMax, Bundles!FoldUpward DEF BundleNext
<1>6. given = Got(times)
  BY <1>1, <1>2, BundleIsFold
<1> HIDE DEF Got
<1>7. Good(0)
  <2>1. Got(0).left = left /\ Got(0).times = 0
    BY <1>5 DEF NothingGiven
  <2>2. BundlesTaken(promotion, left, 0, left)
    BY <1>3, <1>4 DEF BundlesTaken
  <2> QED
    BY <1>5, <2>1, <2>2, NothingIsFair
<1>8. ASSUME NEW m \in 1..times, Good(m - 1)
      PROVE  Good(m)
  <2>1. PICK past, next : past = Got(m - 1) /\ next = Got(m)
    OBVIOUS
  <2>2. /\ past \in Givens /\ next = OneBundle(promotion, past) /\ Within(past.left, left)
        /\ past.times = m - 1
        /\ past.amount <= Value(left, Products) - Value(past.left, Products)
        /\ GroupsApart(promotion) => BundlesTaken(promotion, left, m - 1, past.left)
    BY <1>5, <1>8, <2>1 DEF Fair
  <2>3. /\ next \in Givens /\ Within(next.left, past.left)
        /\ next.times = past.times + 1
        /\ next.amount - past.amount <= Value(past.left, Products) - Value(next.left, Products)
        /\ GroupsApart(promotion) /\ Enough(promotion, past.left) =>
             ItemsTaken(promotion, past.left, n, next.left)
    BY <2>2, OneBundleGives
  <2>4. /\ past.left \in Carts /\ next.left \in Carts
        /\ past.amount \in Nat /\ next.amount \in Nat
    BY <2>2, <2>3 DEF Givens
  <2>5. /\ Value(left, Products) \in Nat /\ Value(past.left, Products) \in Nat
        /\ Value(next.left, Products) \in Nat
    BY <2>4, CartSums
  <2>6. Fair(left, next)
    <3>1. next.amount <= Value(left, Products) - Value(next.left, Products)
      BY <2>2, <2>3, <2>4, <2>5
    <3> QED
      BY <2>2, <2>3, <3>1, WithinAgain DEF Fair
  <2>7. ASSUME GroupsApart(promotion)
        PROVE  BundlesTaken(promotion, left, m, next.left)
    <3>1. /\ Units(past.left, Products) = Units(left, Products) - (m - 1) * UnitsOf(promotion)
          /\ \A k \in 1..n : Units(past.left, group(k)) = Units(left, group(k)) - (m - 1) * count(k)
      BY <2>2, <2>7 DEF BundlesTaken
    <3>2. \A d \in Nat : /\ (m - 1) * d + d = m * d /\ (m - 1) * d \in Nat
                         /\ m * d <= times * d /\ m * d \in Nat /\ times * d \in Nat
      <4> SUFFICES ASSUME NEW d \in Nat
                   PROVE  /\ (m - 1) * d + d = m * d /\ (m - 1) * d \in Nat
                          /\ m * d <= times * d /\ m * d \in Nat /\ times * d \in Nat
        OBVIOUS
      <4>1. m \in Nat /\ m - 1 \in Nat /\ m <= times
        BY <1>2
      <4>2. m * d <= times * d
        BY <1>2, <4>1, TimesGrows
      <4> QED
        BY <1>2, <4>1, <4>2
    <3>3. Enough(promotion, past.left)
      <4> SUFFICES ASSUME NEW k \in 1..n
                   PROVE  count(k) <= Units(past.left, group(k))
        BY DEF Enough
      <4>1. /\ count(k) \in Nat /\ times * count(k) <= Units(left, group(k))
            /\ Units(past.left, group(k)) = Units(left, group(k)) - (m - 1) * count(k)
            /\ Units(left, group(k)) \in Nat
        BY <1>2, <1>3, <1>4, <3>1
      <4> HIDE DEF count, group
      <4>2. /\ (m - 1) * count(k) + count(k) = m * count(k) /\ (m - 1) * count(k) \in Nat
            /\ m * count(k) <= times * count(k) /\ m * count(k) \in Nat /\ times * count(k) \in Nat
        BY <3>2, <4>1
      <4> QED
        BY <4>1, <4>2
    <3>4. ItemsTaken(promotion, past.left, n, next.left)
      BY <2>3, <2>7, <3>3
    <3>5. Units(next.left, Products) = Units(past.left, Products) - UnitsOf(promotion)
      BY <3>4, BundleUnits DEF ItemsTaken
    <3>6. Units(next.left, Products) = Units(left, Products) - m * UnitsOf(promotion)
      <4>1. /\ (m - 1) * UnitsOf(promotion) + UnitsOf(promotion) = m * UnitsOf(promotion)
            /\ (m - 1) * UnitsOf(promotion) \in Nat
        BY <1>3, <3>2
      <4> QED
        BY <1>3, <1>4, <3>1, <3>5, <4>1
    <3>7. ASSUME NEW k \in 1..n
          PROVE  Units(next.left, group(k)) = Units(left, group(k)) - m * count(k)
      <4>1. Units(next.left, group(k)) = Units(past.left, group(k)) - count(k)
        BY <1>3, <3>4 DEF ItemsTaken
      <4>2. /\ count(k) \in Nat /\ Units(left, group(k)) \in Nat
            /\ Units(past.left, group(k)) = Units(left, group(k)) - (m - 1) * count(k)
        BY <1>3, <1>4, <3>1
      <4> HIDE DEF count, group
      <4>3. (m - 1) * count(k) + count(k) = m * count(k) /\ (m - 1) * count(k) \in Nat
        BY <3>2, <4>2
      <4> QED
        BY <4>1, <4>2, <4>3
    <3> QED
      BY <3>6, <3>7 DEF BundlesTaken
  <2>8. next.times = m
    BY <2>2, <2>3
  <2> QED
    BY <2>1, <2>6, <2>7, <2>8
<1> DEFINE Q == {m \in 0..times : Good(m)}
<1>9. \A m \in 0..times : m \in Q
  <2>1. 0 \in Q
    BY <1>2, <1>7
  <2>2. \A m \in 1..times : m - 1 \in Q => m \in Q
    BY <1>8
  <2> HIDE DEF Q
  <2> QED
    BY <1>2, <2>1, <2>2, Turns
<1>10. Good(times)
  BY <1>2, <1>9
<1>11. GroupsApart(promotion) =>
         Units(left, Products) - Units(given.left, Products) = given.times * UnitsOf(promotion)
  <2> SUFFICES ASSUME GroupsApart(promotion)
               PROVE  Units(left, Products) - Units(given.left, Products)
                        = given.times * UnitsOf(promotion)
    OBVIOUS
  <2>1. /\ Units(given.left, Products) = Units(left, Products) - times * UnitsOf(promotion)
        /\ given.times = times
    BY <1>6, <1>10 DEF BundlesTaken
  <2>2. times * UnitsOf(promotion) \in Nat
    BY <1>2, <1>3
  <2> QED
    BY <1>4, <2>1, <2>2
<1> QED
  BY <1>6, <1>10, <1>11 DEF Warranted

\* Whatever the promotion.
LEMMA ApplyGives ==
  ASSUME NEW promotion \in BuyTerms \cup BundleTerms, NEW left \in Carts,
         NEW given, given = Apply(promotion, left)
  PROVE  Fair(left, given) /\ Warranted(promotion, left, given)
<1>1. CASE promotion \in BuyTerms
  <2>1. promotion.type # "bundle"
    BY <1>1 DEF BuyTerms
  <2> QED
    BY <1>1, <2>1, BuyGetGives DEF Apply
<1>2. CASE promotion \in BundleTerms
  <2>1. promotion.type = "bundle"
    BY <1>2 DEF BundleTerms
  <2> QED
    BY <1>2, <2>1, BundleGives DEF Apply
<1> QED
  BY <1>1, <1>2
-----------------------------------------------------------------------------
(* All the promotions of a cart *)

\* The promotions so far: what they gave is worth no more than the units they took.
Shared(cart, m, all) ==
  /\ all \in [cart : Carts, left : Carts, given : Seq(Givens)]
  /\ Within(all.left, cart) /\ Len(all.given) = m
  /\ Granted!Sum(all.given, 1..m) <= Value(cart, Products) - Value(all.left, Products)
  /\ (\A i \in DOMAIN Promotions : GroupsApart(Promotions[i])) =>
       Units(cart, Products) - Units(all.left, Products) = Earned!Sum(all.given, 1..m)

LEMMA PromotionsAre ==
  /\ Len(Promotions) \in Nat /\ DOMAIN Promotions = 1..Len(Promotions)
  /\ \A i \in 1..Len(Promotions) : Promotions[i] \in BuyTerms \cup BundleTerms
  /\ \A i \in 1..Len(Promotions) : UnitsOf(Promotions[i]) \in Nat
<1>1. Promotions \in Seq(BuyTerms \cup BundleTerms)
  BY PricesAssumption
<1>2. /\ Len(Promotions) \in Nat /\ DOMAIN Promotions = 1..Len(Promotions)
      /\ \A i \in 1..Len(Promotions) : Promotions[i] \in BuyTerms \cup BundleTerms
  BY <1>1
<1>3. ASSUME NEW promotion \in BuyTerms
      PROVE  UnitsOf(promotion) \in Nat
  BY DEF BuyTerms, UnitsOf
<1>4. \A promotion \in BundleTerms : UnitsOf(promotion) \in Nat
  BY BundleUnits
<1> QED
  BY <1>2, <1>3, <1>4

\* Sums over what the promotions gave.
LEMMA GivenSums ==
  ASSUME NEW m \in Nat, m <= Len(Promotions), NEW given \in Seq(Givens), Len(given) = m
  PROVE  /\ Granted!Sum(given, 1..m) \in Nat /\ Earned!Sum(given, 1..m) \in Nat
         /\ Granted!Summable(given, 1..m) /\ Earned!Summable(given, 1..m)
<1>1. /\ Len(Promotions) \in Nat /\ \A i \in 1..m : UnitsOf(Promotions[i]) \in Nat
  BY PromotionsAre
<1>2. \A i \in 1..m : given[i] \in Givens
  OBVIOUS
<1>3. \A i \in 1..m : given[i].times \in Nat /\ given[i].amount \in Nat
  BY <1>2 DEF Givens
<1>4. \A i \in 1..m : AmountAt(given, i) \in Nat
  BY <1>3 DEF AmountAt
<1>5. \A i \in 1..m : EarnedAt(given, i) \in Nat
  <2> SUFFICES ASSUME NEW i \in 1..m PROVE EarnedAt(given, i) \in Nat
    OBVIOUS
  <2>1. given[i].times \in Nat /\ UnitsOf(Promotions[i]) \in Nat
    BY <1>1, <1>3
  <2> QED
    BY <2>1 DEF EarnedAt
<1>6. IsFiniteSet(1..m)
  BY FS_Interval
<1>7. Granted!IsFiniteSet(1..m) /\ Earned!IsFiniteSet(1..m)
  BY <1>6, SameFinite
<1>8. Granted!Sum(given, 1..m) \in Nat /\ Earned!Sum(given, 1..m) \in Nat
  BY <1>4, <1>5, <1>7, AllAdd, Granted!SumNat, Earned!SumNat
<1>9. Granted!Summable(given, 1..m) /\ Earned!Summable(given, 1..m)
  BY <1>4, <1>5, <1>7 DEF Granted!Summable, Earned!Summable
<1> QED
  BY <1>8, <1>9

OneMore(m, given, one, more) ==
  /\ more \in Seq(Givens) /\ Len(more) = m
  /\ Granted!Sum(more, 1..m) = Granted!Sum(given, 1..(m - 1)) + one.amount
  /\ Earned!Sum(more, 1..m)
       = Earned!Sum(given, 1..(m - 1)) + one.times * UnitsOf(Promotions[m])

LEMMA OneMoreGiven ==
  ASSUME NEW m \in 1..Len(Promotions), NEW given \in Seq(Givens), Len(given) = m - 1,
         NEW one \in Givens, NEW more, more = Append(given, one)
  PROVE  OneMore(m, given, one, more)
<1>1. Len(Promotions) \in Nat
  BY PromotionsAre
<1>2. /\ more \in Seq(Givens) /\ Len(more) = m /\ more[m] = one
      /\ \A i \in 1..(m - 1) : more[i] = given[i]
  BY <1>1
<1>3. 1..m = (1..(m - 1)) \cup {m} /\ m \notin 1..(m - 1)
  BY <1>1
<1>4. Granted!Summable(more, 1..m) /\ Earned!Summable(more, 1..m)
  <2>1. m \in Nat /\ m <= Len(Promotions)
    BY <1>1
  <2> QED
    BY <1>2, <2>1, GivenSums
<1>5. /\ Granted!Sum(more, 1..m) = Granted!Sum(more, 1..(m - 1)) + AmountAt(more, m)
      /\ Earned!Sum(more, 1..m) = Earned!Sum(more, 1..(m - 1)) + EarnedAt(more, m)
  <2>1. PICK S : S = 1..(m - 1)
    OBVIOUS
  <2>2. 1..m = S \cup {m} /\ m \notin S
    BY <1>3, <2>1
  <2>3. Granted!Summable(more, S \cup {m}) /\ Earned!Summable(more, S \cup {m})
    BY <1>4, <2>2
  <2>4. Granted!Sum(more, S \cup {m}) = Granted!Sum(more, S) + AmountAt(more, m)
    BY <2>2, <2>3, AllAdd, Granted!SumAdd
  <2>5. Earned!Sum(more, S \cup {m}) = Earned!Sum(more, S) + EarnedAt(more, m)
    BY <2>2, <2>3, AllAdd, Earned!SumAdd
  <2> QED
    BY <2>1, <2>2, <2>4, <2>5
<1>6. /\ Granted!Sum(more, 1..(m - 1)) = Granted!Sum(given, 1..(m - 1))
      /\ Earned!Sum(more, 1..(m - 1)) = Earned!Sum(given, 1..(m - 1))
  <2>1. IsFiniteSet(1..(m - 1))
    BY FS_Interval
  <2>2. Granted!IsFiniteSet(1..(m - 1)) /\ Earned!IsFiniteSet(1..(m - 1))
    BY <2>1, SameFinite
  <2>3. \A i \in 1..(m - 1) : AmountAt(more, i) = AmountAt(given, i)
    BY <1>2 DEF AmountAt
  <2>4. \A i \in 1..(m - 1) : EarnedAt(more, i) = EarnedAt(given, i)
    BY <1>2 DEF EarnedAt
  <2> QED
    BY <2>2, <2>3, <2>4, AllAdd, Granted!SumSame, Earned!SumSame
<1>7. AmountAt(more, m) = one.amount /\ EarnedAt(more, m) = one.times * UnitsOf(Promotions[m])
  BY <1>2 DEF AmountAt, EarnedAt
<1> QED
  BY <1>2, <1>5, <1>6, <1>7 DEF OneMore

LEMMA ComputedIs ==
  ASSUME NEW cart \in Carts
  PROVE  Shared(cart, Len(Promotions), Computed(cart))
<1> DEFINE n == Len(Promotions)
           start == [cart |-> cart, left |-> cart, given |-> <<>>]
           Got(m) == Active!Fold(Promotions, start, 1..m)
           Good(m) == Shared(cart, m, Got(m))
<1>1. n \in Nat /\ DOMAIN Promotions = 1..n
  BY PromotionsAre
<1>2. Got(0) = start /\ \A m \in 1..n : Got(m) = ApplyNext(Got(m - 1), Promotions[m])
  <2> HIDE DEF n, start
  <2> QED
    BY <1>1, GreatestIsMax, Active!FoldUpward DEF PromotionNext, ElementAt
<1>3. Computed(cart) = Got(n)
  BY <1>1, ComputedIsFold
<1>4. Value(cart, Products) \in Nat /\ Units(cart, Products) \in Nat
  BY CartSums
<1> HIDE DEF Got
<1>5. Good(0)
  <2>1. Got(0).left = cart /\ Got(0).given = <<>>
    BY <1>2
  <2>2. Within(cart, cart)
    BY DEF Within, Carts
  <2>3. 1..0 = {}
    OBVIOUS
  <2>4. Granted!Sum(<<>>, 1..0) = 0 /\ Earned!Sum(<<>>, 1..0) = 0
    BY <2>3, Granted!SumEmpty, Earned!SumEmpty
  <2>5. <<>> \in Seq(Givens) /\ Len(<<>>) = 0
    OBVIOUS
  <2>6. Got(0) \in [cart : Carts, left : Carts, given : Seq(Givens)]
    <3>1. Got(0) = [cart |-> cart, left |-> cart, given |-> <<>>]
      BY <1>2
    <3>2. PICK none \in Seq(Givens) : none = <<>>
      BY <2>5
    <3>3. [cart |-> cart, left |-> cart, given |-> none]
            \in [cart : Carts, left : Carts, given : Seq(Givens)]
      OBVIOUS
    <3> QED
      BY <3>1, <3>2, <3>3
  <2> QED
    BY <1>4, <2>1, <2>2, <2>4, <2>5, <2>6 DEF Shared
<1>6. ASSUME NEW m \in 1..n, Good(m - 1)
      PROVE  Good(m)
  <2>1. PICK all : all = Got(m - 1)
    OBVIOUS
  <2>2. PICK one : one = Apply(Promotions[m], all.left)
    OBVIOUS
  <2>3. PICK more : more = Append(all.given, one)
    OBVIOUS
  <2>4. /\ all \in [cart : Carts, left : Carts, given : Seq(Givens)]
        /\ Within(all.left, cart) /\ Len(all.given) = m - 1
        /\ Granted!Sum(all.given, 1..(m - 1)) <= Value(cart, Products) - Value(all.left, Products)
        /\ (\A i \in DOMAIN Promotions : GroupsApart(Promotions[i])) =>
             Units(cart, Products) - Units(all.left, Products)
               = Earned!Sum(all.given, 1..(m - 1))
    BY <1>6, <2>1 DEF Shared
  <2>5. /\ Got(m) = [all EXCEPT !.left = one.left, !.given = more]
        /\ Got(m).left = one.left /\ Got(m).given = more
    BY <1>2, <2>1, <2>2, <2>3, <2>4 DEF ApplyNext
  <2>6. all.left \in Carts /\ all.given \in Seq(Givens)
    BY <2>4
  <2>7. Fair(all.left, one) /\ Warranted(Promotions[m], all.left, one)
    BY <2>2, <2>6, ApplyGives, PromotionsAre
  <2>8. /\ one \in Givens /\ one.left \in Carts /\ one.amount \in Nat /\ one.times \in Nat
        /\ Within(one.left, all.left)
        /\ one.amount <= Value(all.left, Products) - Value(one.left, Products)
    BY <2>7 DEF Fair, Givens
  <2>9. /\ more \in Seq(Givens) /\ Len(more) = m
        /\ Granted!Sum(more, 1..m) = Granted!Sum(all.given, 1..(m - 1)) + one.amount
        /\ Earned!Sum(more, 1..m)
             = Earned!Sum(all.given, 1..(m - 1)) + one.times * UnitsOf(Promotions[m])
    <3>1. PICK given \in Seq(Givens) : given = all.given
      BY <2>6
    <3>2. Len(given) = m - 1 /\ more = Append(given, one) /\ one \in Givens
      BY <2>3, <2>4, <2>8, <3>1
    <3>3. m \in 1..Len(Promotions)
      OBVIOUS
    <3>4. OneMore(m, given, one, more)
      BY <3>2, <3>3, OneMoreGiven
    <3> QED
      BY <3>1, <3>4 DEF OneMore
  <2>10. /\ Granted!Sum(all.given, 1..(m - 1)) \in Nat
         /\ Earned!Sum(all.given, 1..(m - 1)) \in Nat
    <3>1. m - 1 \in Nat /\ m - 1 <= Len(Promotions)
      BY <1>1
    <3> QED
      BY <2>4, <2>6, <3>1, GivenSums
  <2>11. /\ Value(all.left, Products) \in Nat /\ Value(one.left, Products) \in Nat
         /\ Units(all.left, Products) \in Nat /\ Units(one.left, Products) \in Nat
    BY <2>6, <2>8, CartSums
  <2>12. Granted!Sum(more, 1..m) <= Value(cart, Products) - Value(one.left, Products)
    <3>1. PICK before, now \in Nat :
            before = Granted!Sum(all.given, 1..(m - 1)) /\ now = before + one.amount
      BY <2>8, <2>10
    <3>2. now = Granted!Sum(more, 1..m)
      BY <2>9, <3>1
    <3>3. before <= Value(cart, Products) - Value(all.left, Products)
      BY <2>4, <3>1
    <3>4. now <= Value(cart, Products) - Value(one.left, Products)
      BY <1>4, <2>8, <2>11, <3>1, <3>3
    <3> QED
      BY <3>2, <3>4
  <2>13. Within(one.left, cart)
    BY <2>4, <2>8, WithinAgain
  <2>14. ASSUME \A i \in DOMAIN Promotions : GroupsApart(Promotions[i])
         PROVE  Units(cart, Products) - Units(one.left, Products) = Earned!Sum(more, 1..m)
    <3>1. GroupsApart(Promotions[m])
      BY <1>1, <2>14
    <3>2. Units(all.left, Products) - Units(one.left, Products)
            = one.times * UnitsOf(Promotions[m])
      BY <2>7, <3>1 DEF Warranted
    <3>3. Units(cart, Products) - Units(all.left, Products) = Earned!Sum(all.given, 1..(m - 1))
      BY <2>4, <2>14
    <3> QED
      BY <1>4, <2>9, <2>10, <2>11, <3>2, <3>3
  <2>15. Got(m) \in [cart : Carts, left : Carts, given : Seq(Givens)]
    BY <2>4, <2>5, <2>8, <2>9
  <2> QED
    BY <2>5, <2>9, <2>12, <2>13, <2>14, <2>15 DEF Shared
<1> DEFINE Q == {m \in 0..n : Good(m)}
<1>7. \A m \in 0..n : m \in Q
  <2>1. 0 \in Q
    BY <1>1, <1>5
  <2>2. \A m \in 1..n : m - 1 \in Q => m \in Q
    BY <1>6
  <2> HIDE DEF Q, n
  <2> QED
    BY <1>1, <2>1, <2>2, Turns
<1>8. Good(n)
  BY <1>1, <1>7
<1> QED
  BY <1>3, <1>8

\* The promotions give a natural amount, no more than the cart is worth.
LEMMA DiscountIs ==
  ASSUME NEW cart \in Carts
  PROVE  /\ PromotionDiscount(cart) \in Nat /\ Subtotal(cart) \in Nat
         /\ PromotionDiscount(cart) <= Subtotal(cart)
<1> DEFINE given == Computed(cart).given
<1>1. Shared(cart, Len(Promotions), Computed(cart))
  BY ComputedIs
<1>2. /\ given \in Seq(Givens) /\ Len(given) = Len(Promotions) /\ Computed(cart).left \in Carts
      /\ Granted!Sum(given, 1..Len(given))
           <= Value(cart, Products) - Value(Computed(cart).left, Products)
  BY <1>1 DEF Shared
<1>3. DOMAIN given = 1..Len(given) /\ Len(given) \in Nat
  BY <1>2
<1>4. PromotionDiscount(cart) = Granted!Sum(given, 1..Len(given))
  BY <1>3, SumsAre DEF PromotionDiscount
<1>5. Granted!Sum(given, 1..Len(given)) \in Nat
  BY <1>2, <1>3, GivenSums
<1>6. Value(cart, Products) \in Nat /\ Value(Computed(cart).left, Products) \in Nat
  BY <1>2, CartSums
<1> QED
  BY <1>2, <1>4, <1>5, <1>6 DEF Subtotal

\* No unit counts for two promotions, in any cart.
LEMMA UnitsAreEarned ==
  ASSUME NEW cart \in Carts, \A i \in DOMAIN Promotions : GroupsApart(Promotions[i])
  PROVE  Units(cart, Products) - Units(Computed(cart).left, Products)
           = MapThenSumSet(LAMBDA i : Computed(cart).given[i].times * UnitsOf(Promotions[i]),
                           DOMAIN Computed(cart).given)
<1> DEFINE given == Computed(cart).given
<1>1. Shared(cart, Len(Promotions), Computed(cart))
  BY ComputedIs
<1>2. /\ given \in Seq(Givens) /\ Len(given) = Len(Promotions)
      /\ Units(cart, Products) - Units(Computed(cart).left, Products)
           = Earned!Sum(given, 1..Len(given))
  BY <1>1 DEF Shared
<1>3. DOMAIN given = 1..Len(given)
  BY <1>2
<1>4. MapThenSumSet(LAMBDA i : given[i].times * UnitsOf(Promotions[i]), DOMAIN given)
        = Earned!Sum(given, DOMAIN given)
  BY SumsAre
<1> QED
  BY <1>2, <1>3, <1>4
-----------------------------------------------------------------------------
(* The page *)
Bounded == [Products -> 0 .. MaxQuantity]
Asks    == [code : Codes, cart : Bounded]

AtMostOne(S) == \A a, b \in S : a = b

\* A coupon that no open question and no doubt is about was valued for the cart on
\* the screen, and so is the one that is being asked about.
CouponIsThisCarts ==
  ~unchecked =>
    /\ \A ask \in checking : ask.cart = Detailed
    /\ checking = {} /\ coupon.code # NoCode =>
         /\ ~CodeRefused(coupon.code, Detailed)
         /\ coupon.amount = CodeAmount(coupon.code, Detailed)

CartInv ==
  /\ items \in Bounded /\ resolved \subseteq Products
  /\ coupon \in [code : Codes \cup {NoCode}, amount : Nat]
  /\ coupon.code = NoCode => coupon.amount = 0
  /\ promotions \in 0 .. Subtotal([p \in Products |-> MaxQuantity])
  /\ resolving \subseteq {Ids(items)} /\ previewing \subseteq {Detailed}
  /\ checking \subseteq Asks /\ AtMostOne(checking)
  /\ applying \subseteq Asks /\ AtMostOne(applying)
  /\ unchecked \in BOOLEAN
  /\ PromotionsAreThisCarts
  /\ CouponIsThisCarts

LEMMA ShownIs ==
  ASSUME NEW cart \in Bounded, NEW known
  PROVE  Shown(cart, known) \in Bounded /\ Bounded \subseteq Carts
BY CartAssumption DEF Shown, Bounded, Carts

LEMMA NothingShown ==
  ASSUME NEW cart \in Bounded, NEW known, Ids(cart) = {}
  PROVE  Shown(cart, {}) = Shown(cart, known)
BY CartAssumption DEF Shown, Bounded, Ids

\* No cart's promotions are worth more than a full cart.
LEMMA DiscountBounded ==
  ASSUME NEW cart \in Bounded
  PROVE  /\ PromotionDiscount(cart) \in 0 .. Subtotal([p \in Products |-> MaxQuantity])
         /\ 0 \in 0 .. Subtotal([p \in Products |-> MaxQuantity])
<1>1. PICK full : full = [p \in Products |-> MaxQuantity]
  OBVIOUS
<1>2. cart \in Carts /\ full \in Carts /\ Within(cart, full)
  BY <1>1, CartAssumption DEF Bounded, Carts, Within
<1>3. /\ PromotionDiscount(cart) \in Nat /\ Subtotal(cart) \in Nat /\ Subtotal(full) \in Nat
      /\ PromotionDiscount(cart) <= Subtotal(cart) /\ Subtotal(cart) <= Subtotal(full)
  BY <1>2, DiscountIs, WithinSums DEF Subtotal
<1>4. PromotionDiscount(cart) \in 0 .. Subtotal(full) /\ 0 \in 0 .. Subtotal(full)
  BY <1>3
<1> QED
  BY <1>1, <1>4

LEMMA AmountIs ==
  ASSUME NEW code \in Codes, NEW cart \in Bounded
  PROVE  CodeAmount(code, cart) \in Nat
<1>1. /\ CodeTerms[code].percent \in Nat /\ CodeTerms[code].fixed \in Nat
      /\ CodeTerms[code].scope \in SUBSET Products
  BY PricesAssumption DEF CouponTerms
<1>2. PICK eligible \in Nat : eligible = Value(cart, Eligible(code))
  BY <1>1, CartSums, ShownIs DEF Eligible
<1>3. PICK most \in Nat : most = Percent(eligible, CodeTerms[code].percent) + CodeTerms[code].fixed
  <2>1. Percent(eligible, CodeTerms[code].percent) \in Nat
    BY <1>1, PercentIs
  <2> QED
    BY <1>1, <2>1
<1>4. most \in Int /\ eligible \in Int
  OBVIOUS
<1>5. Min({most, eligible}) \in Nat
  BY <1>4, MinIs
<1> QED
  BY <1>2, <1>3, <1>5 DEF CodeAmount

\* The page starts with an empty cart, no coupon and no open question (CartContext.tsx:50-69).
THEOREM CartInitial == CartInit => CartInv
<1> SUFFICES ASSUME CartInit PROVE CartInv
  OBVIOUS
<1>1. /\ items = Empty /\ resolved = {} /\ coupon = NoCoupon /\ promotions = 0
      /\ resolving = {} /\ previewing = {} /\ checking = {} /\ applying = {} /\ unchecked = FALSE
  BY DEF CartInit
<1>2. items \in Bounded
  BY <1>1, CartAssumption DEF Empty, Bounded
<1>3. promotions \in 0 .. Subtotal([p \in Products |-> MaxQuantity])
  BY <1>1, <1>2, DiscountBounded
<1>4. coupon \in [code : Codes \cup {NoCode}, amount : Nat] /\ coupon.code = NoCode /\ coupon.amount = 0
  BY <1>1 DEF NoCoupon
<1>5. PromotionsAreThisCarts
  BY <1>1 DEF PromotionsAreThisCarts
<1>6. CouponIsThisCarts
  BY <1>1, <1>4 DEF CouponIsThisCarts
<1> QED
  BY <1>1, <1>2, <1>3, <1>4, <1>5, <1>6 DEF CartInv, AtMostOne

\* What the effects leave when the page shows another cart.
LEMMA EffectsAreRight ==
  ASSUME CartInv, NEW shown \in Bounded, Detailed' = shown, coupon' = coupon,
         PreviewEffect(Detailed, shown), CheckEffect(coupon, Detailed, shown), Noted(Detailed, shown)
  PROVE  /\ promotions' \in 0 .. Subtotal([p \in Products |-> MaxQuantity])
         /\ previewing' \subseteq {Detailed'} /\ PromotionsAreThisCarts'
         /\ checking' \subseteq Asks /\ AtMostOne(checking') /\ CouponIsThisCarts'
         /\ unchecked' \in BOOLEAN
<1>1. /\ promotions \in 0 .. Subtotal([p \in Products |-> MaxQuantity])
      /\ checking \subseteq Asks /\ AtMostOne(checking) /\ unchecked \in BOOLEAN
      /\ coupon.code \in Codes \cup {NoCode} /\ CouponIsThisCarts
  BY DEF CartInv
<1>2. /\ promotions' \in 0 .. Subtotal([p \in Products |-> MaxQuantity])
      /\ previewing' \subseteq {shown}
      /\ previewing' = {} => promotions' = 0
  <2>1. CASE Ids(shown) = {}
    BY <2>1, DiscountBounded DEF PreviewEffect
  <2>2. CASE Ids(shown) # {}
    BY <1>1, <2>2 DEF PreviewEffect
  <2> QED
    BY <2>1, <2>2
<1>3. PromotionsAreThisCarts'
  BY <1>2 DEF PromotionsAreThisCarts
<1>4. CASE Subtotal(shown) = Subtotal(Detailed)
  <2>1. checking' = checking /\ unchecked' = (unchecked \/ shown # Detailed)
    BY <1>4 DEF CheckEffect, Noted
  <2>2. unchecked' \in BOOLEAN
    BY <2>1
  <2>3. CouponIsThisCarts'
    <3> SUFFICES ASSUME ~unchecked'
                 PROVE  /\ \A ask \in checking' : ask.cart = Detailed'
                        /\ checking' = {} /\ coupon'.code # NoCode =>
                             /\ ~CodeRefused(coupon'.code, Detailed')
                             /\ coupon'.amount = CodeAmount(coupon'.code, Detailed')
      BY DEF CouponIsThisCarts
    <3>1. ~unchecked /\ shown = Detailed
      BY <2>1
    <3> QED
      BY <1>1, <2>1, <3>1 DEF CouponIsThisCarts
  <2> QED
    BY <1>1, <1>2, <1>3, <2>1, <2>2, <2>3
<1>5. CASE Subtotal(shown) # Subtotal(Detailed)
  <2>1. /\ checking' = IF coupon.code = NoCode THEN {} ELSE {[code |-> coupon.code, cart |-> shown]}
        /\ unchecked' = FALSE
    BY <1>5 DEF CheckEffect, Noted
  <2>2. checking' \subseteq Asks /\ AtMostOne(checking')
    BY <1>1, <2>1 DEF Asks, AtMostOne
  <2>3. \A ask \in checking' : ask.cart = Detailed'
    BY <2>1
  <2>4. checking' = {} => coupon'.code = NoCode
    BY <2>1
  <2>5. CouponIsThisCarts'
    BY <2>3, <2>4 DEF CouponIsThisCarts
  <2> QED
    BY <1>2, <1>3, <2>1, <2>2, <2>5
<1> QED
  BY <1>4, <1>5

LEMMA SetQuantityStep ==
  ASSUME CartInv, NEW p \in Products, SetQuantity(p)
  PROVE  CartInv'
<1>1. PICK n \in 0 .. MaxQuantity : Render([items EXCEPT ![p] = n], resolved)
  BY DEF SetQuantity
<1>2. PICK cart : cart = [items EXCEPT ![p] = n]
  OBVIOUS
<1>3. items \in Bounded /\ resolved \subseteq Products /\ resolving \subseteq {Ids(items)}
  BY DEF CartInv
<1>4. cart \in Bounded
  BY <1>2, <1>3 DEF Bounded
<1>5. PICK shown : shown = Shown(cart, resolved)
  OBVIOUS
<1>6. /\ items' = cart /\ resolved' = IF Ids(cart) = {} THEN {} ELSE resolved
      /\ ResolveEffect(cart) /\ PreviewEffect(Detailed, shown)
      /\ CheckEffect(coupon, Detailed, shown) /\ Noted(Detailed, shown)
  BY <1>1, <1>2, <1>5 DEF Render
<1>7. shown \in Bounded
  BY <1>4, <1>5, ShownIs
<1>8. Detailed' = shown
  <2>1. Detailed' = Shown(items', resolved')
    BY DEF Detailed
  <2>2. CASE Ids(cart) = {}
    BY <1>4, <1>5, <1>6, <2>1, <2>2, NothingShown
  <2>3. CASE Ids(cart) # {}
    BY <1>5, <1>6, <2>1, <2>3
  <2> QED
    BY <2>2, <2>3
<1>9. coupon' = coupon /\ applying' = applying
  BY DEF SetQuantity
<1>10. /\ promotions' \in 0 .. Subtotal([q \in Products |-> MaxQuantity])
       /\ previewing' \subseteq {Detailed'} /\ PromotionsAreThisCarts'
       /\ checking' \subseteq Asks /\ AtMostOne(checking') /\ CouponIsThisCarts'
       /\ unchecked' \in BOOLEAN
  BY <1>6, <1>7, <1>8, <1>9, EffectsAreRight
<1>11. resolving' \subseteq {Ids(items')} /\ resolved' \subseteq Products
  <2>1. CASE Ids(cart) = Ids(items)
    BY <1>3, <1>6, <2>1 DEF ResolveEffect
  <2>2. CASE Ids(cart) # Ids(items)
    BY <1>3, <1>6, <2>2 DEF ResolveEffect
  <2> QED
    BY <2>1, <2>2
<1>12. /\ coupon' \in [code : Codes \cup {NoCode}, amount : Nat]
       /\ coupon'.code = NoCode => coupon'.amount = 0
       /\ applying' \subseteq Asks /\ AtMostOne(applying')
  BY <1>9 DEF CartInv
<1>13. items' \in Bounded
  BY <1>4, <1>6
<1> QED
  BY <1>10, <1>11, <1>12, <1>13 DEF CartInv

LEMMA ResolveAnsweredStep ==
  ASSUME CartInv, NEW ids \in resolving, ResolveAnswered(ids)
  PROVE  CartInv'
<1>1. items \in Bounded /\ ids = Ids(items) /\ resolving \subseteq {Ids(items)}
  BY DEF CartInv
<1>2. PICK shown : shown = Shown(items, ids)
  OBVIOUS
<1>3. /\ items' = items /\ resolved' = ids /\ resolving' = resolving \ {ids}
      /\ PreviewEffect(Detailed, shown) /\ CheckEffect(coupon, Detailed, shown)
      /\ Noted(Detailed, shown) /\ coupon' = coupon /\ applying' = applying
  BY <1>2 DEF ResolveAnswered
<1>4. shown \in Bounded /\ Detailed' = shown
  BY <1>1, <1>2, <1>3, ShownIs DEF Detailed
<1>5. /\ promotions' \in 0 .. Subtotal([q \in Products |-> MaxQuantity])
      /\ previewing' \subseteq {Detailed'} /\ PromotionsAreThisCarts'
      /\ checking' \subseteq Asks /\ AtMostOne(checking') /\ CouponIsThisCarts'
      /\ unchecked' \in BOOLEAN
  BY <1>3, <1>4, EffectsAreRight
<1>6. resolving' \subseteq {Ids(items')} /\ resolved' \subseteq Products
  BY <1>1, <1>3 DEF Ids
<1>7. /\ coupon' \in [code : Codes \cup {NoCode}, amount : Nat]
      /\ coupon'.code = NoCode => coupon'.amount = 0
      /\ applying' \subseteq Asks /\ AtMostOne(applying')
  BY <1>3 DEF CartInv
<1>8. items' \in Bounded
  BY <1>1, <1>3
<1> QED
  BY <1>5, <1>6, <1>7, <1>8 DEF CartInv

\* The page empties itself: nothing is asked and nothing is shown.
LEMMA Emptied ==
  ASSUME CartInv, items' \in Bounded, resolved' = {}, coupon' = NoCoupon, promotions' = 0,
         previewing' = {}, checking' = {}, unchecked' = FALSE, resolving' \subseteq {Ids(items')},
         applying' \subseteq applying
  PROVE  CartInv'
<1>1. promotions' \in 0 .. Subtotal([p \in Products |-> MaxQuantity])
  BY DiscountBounded
<1>2. /\ coupon' \in [code : Codes \cup {NoCode}, amount : Nat]
      /\ coupon'.code = NoCode /\ coupon'.amount = 0
  BY DEF NoCoupon
<1>3. applying' \subseteq Asks /\ AtMostOne(applying') /\ AtMostOne(checking')
  BY DEF CartInv, AtMostOne
<1>4. PromotionsAreThisCarts' /\ CouponIsThisCarts'
  BY <1>2 DEF PromotionsAreThisCarts, CouponIsThisCarts
<1> QED
  BY <1>1, <1>2, <1>3, <1>4 DEF CartInv

LEMMA SubmitStep ==
  ASSUME CartInv, Submit
  PROVE  CartInv'
<1>1. Empty \in Bounded
  BY CartAssumption DEF Empty, Bounded
<1> QED
  BY <1>1, Emptied DEF Submit

LEMMA ReloadStep ==
  ASSUME CartInv, Reload
  PROVE  CartInv'
<1>1. items' = items /\ items \in Bounded
  BY DEF Reload, CartInv
<1>2. resolving' \subseteq {Ids(items')} /\ applying' \subseteq applying
  BY <1>1 DEF Reload
<1> QED
  BY <1>1, <1>2, Emptied DEF Reload

\* The cart on the screen stays, with its promotions and what is asked about it.
Still == UNCHANGED <<items, resolved, resolving, previewing, promotions>>

LEMMA StillIs ==
  ASSUME CartInv, Still
  PROVE  /\ items' \in Bounded /\ resolved' \subseteq Products
         /\ promotions' \in 0 .. Subtotal([p \in Products |-> MaxQuantity])
         /\ resolving' \subseteq {Ids(items')} /\ previewing' \subseteq {Detailed'}
         /\ PromotionsAreThisCarts' /\ Detailed' = Detailed
<1>1. Detailed' = Detailed
  BY DEF Still, Detailed
<1>2. PromotionsAreThisCarts'
  BY <1>1 DEF Still, CartInv, PromotionsAreThisCarts
<1> QED
  BY <1>1, <1>2 DEF Still, CartInv

LEMMA ApplyCouponStep ==
  ASSUME CartInv, NEW code \in Codes, ApplyCoupon(code)
  PROVE  CartInv'
<1>1. /\ Still /\ coupon' = coupon /\ checking' = checking /\ unchecked' = unchecked
      /\ applying' = {[code |-> code, cart |-> Detailed]}
  BY DEF ApplyCoupon, Still
<1>2. Detailed \in Bounded
  BY ShownIs DEF CartInv, Detailed
<1>3. applying' \subseteq Asks /\ AtMostOne(applying')
  BY <1>1, <1>2 DEF Asks, AtMostOne
<1>4. CouponIsThisCarts'
  BY <1>1, StillIs DEF CartInv, CouponIsThisCarts
<1>5. /\ coupon' \in [code : Codes \cup {NoCode}, amount : Nat]
      /\ coupon'.code = NoCode => coupon'.amount = 0
      /\ checking' \subseteq Asks /\ AtMostOne(checking') /\ unchecked' \in BOOLEAN
  BY <1>1 DEF CartInv
<1> QED
  BY <1>1, <1>3, <1>4, <1>5, StillIs DEF CartInv

LEMMA RemoveCouponStep ==
  ASSUME CartInv, RemoveCoupon
  PROVE  CartInv'
<1>1. /\ Still /\ coupon' = NoCoupon /\ checking' = checking /\ unchecked' = unchecked
      /\ applying' = applying
  BY DEF RemoveCoupon, Still
<1>2. /\ coupon' \in [code : Codes \cup {NoCode}, amount : Nat]
      /\ coupon'.code = NoCode /\ coupon'.amount = 0
  BY <1>1 DEF NoCoupon
<1>3. CouponIsThisCarts'
  BY <1>1, <1>2, StillIs DEF CartInv, CouponIsThisCarts
<1>4. /\ checking' \subseteq Asks /\ AtMostOne(checking') /\ unchecked' \in BOOLEAN
      /\ applying' \subseteq Asks /\ AtMostOne(applying')
  BY <1>1 DEF CartInv
<1> QED
  BY <1>1, <1>2, <1>3, <1>4, StillIs DEF CartInv

LEMMA ResolveFailedStep ==
  ASSUME CartInv, NEW ids \in resolving, ResolveFailed(ids)
  PROVE  CartInv'
<1>1. /\ items' = items /\ resolved' = resolved /\ coupon' = coupon /\ promotions' = promotions
      /\ previewing' = previewing /\ checking' = checking /\ applying' = applying
      /\ unchecked' = unchecked /\ resolving' \subseteq resolving
  BY DEF ResolveFailed
<1>2. Detailed' = Detailed
  BY <1>1 DEF Detailed
<1>3. PromotionsAreThisCarts' /\ CouponIsThisCarts'
  BY <1>1, <1>2 DEF CartInv, PromotionsAreThisCarts, CouponIsThisCarts
<1> QED
  BY <1>1, <1>2, <1>3 DEF CartInv

LEMMA PreviewAnsweredStep ==
  ASSUME CartInv, NEW cart \in previewing, PreviewAnswered(cart)
  PROVE  CartInv'
<1>1. /\ items' = items /\ resolved' = resolved /\ coupon' = coupon /\ resolving' = resolving
      /\ checking' = checking /\ applying' = applying /\ unchecked' = unchecked
      /\ previewing' \subseteq previewing /\ promotions' \in {PromotionDiscount(cart), 0}
  BY DEF PreviewAnswered
<1>2. Detailed' = Detailed /\ cart = Detailed /\ Detailed \in Bounded
  BY <1>1, ShownIs DEF CartInv, Detailed
<1>3. promotions' \in 0 .. Subtotal([p \in Products |-> MaxQuantity])
  BY <1>1, <1>2, DiscountBounded
<1>4. PromotionsAreThisCarts'
  BY <1>1, <1>2 DEF PromotionsAreThisCarts
<1>5. CouponIsThisCarts'
  BY <1>1, <1>2 DEF CartInv, CouponIsThisCarts
<1> QED
  BY <1>1, <1>2, <1>3, <1>4, <1>5 DEF CartInv

\* A coupon that the server valued.
LEMMA ValuedIs ==
  ASSUME NEW ask \in Asks
  PROVE  /\ Valued(ask) \in [code : Codes \cup {NoCode}, amount : Nat]
         /\ Valued(ask).code = ask.code /\ ask.code # NoCode
         /\ Valued(ask).amount = CodeAmount(ask.code, ask.cart)
<1>1. ask.code \in Codes /\ ask.cart \in Bounded
  BY DEF Asks
<1>2. CodeAmount(ask.code, ask.cart) \in Nat
  BY <1>1, AmountIs
<1> QED
  BY <1>1, <1>2, CartAssumption DEF Valued

LEMMA CheckAnsweredStep ==
  ASSUME CartInv, NEW ask \in checking, CheckAnswered(ask)
  PROVE  CartInv'
<1>1. /\ Still /\ checking' = checking \ {ask} /\ applying' = applying /\ unchecked' = unchecked
      /\ \/ ~CodeRefused(ask.code, ask.cart) /\ coupon' = Valued(ask)
         \/ coupon' = NoCoupon
  BY DEF CheckAnswered, Still
<1>2. /\ ask \in Asks /\ checking' = {} /\ CouponIsThisCarts /\ unchecked \in BOOLEAN
      /\ applying' \subseteq Asks /\ AtMostOne(applying')
  BY <1>1 DEF CartInv, AtMostOne
<1>3. /\ coupon' \in [code : Codes \cup {NoCode}, amount : Nat]
      /\ coupon'.code = NoCode => coupon'.amount = 0
  BY <1>1, <1>2, ValuedIs DEF NoCoupon
<1>4. CouponIsThisCarts'
  <2>1. CASE coupon' = NoCoupon
    BY <1>2, <2>1 DEF CouponIsThisCarts, NoCoupon
  <2>2. CASE ~CodeRefused(ask.code, ask.cart) /\ coupon' = Valued(ask)
    <3>1. ~unchecked' => ask.cart = Detailed'
      BY <1>1, <1>2, StillIs DEF CouponIsThisCarts
    <3> QED
      BY <1>2, <2>2, <3>1, ValuedIs DEF CouponIsThisCarts
  <2> QED
    BY <1>1, <2>1, <2>2
<1> QED
  BY <1>1, <1>2, <1>3, <1>4, StillIs DEF CartInv, AtMostOne

LEMMA ApplyAnsweredStep ==
  ASSUME CartInv, NEW ask \in applying, ApplyAnswered(ask)
  PROVE  CartInv'
<1>1. /\ Still /\ checking' = checking /\ applying' = {}
      /\ \/ /\ ~CodeRefused(ask.code, ask.cart) /\ coupon' = Valued(ask)
            /\ unchecked' = (unchecked \/ ask.cart # Detailed)
         \/ coupon' = coupon /\ unchecked' = unchecked
  BY DEF ApplyAnswered, Still
<1>2. /\ ask \in Asks /\ CouponIsThisCarts /\ unchecked \in BOOLEAN
      /\ coupon \in [code : Codes \cup {NoCode}, amount : Nat]
      /\ coupon.code = NoCode => coupon.amount = 0
      /\ checking' \subseteq Asks /\ AtMostOne(checking')
  BY <1>1 DEF CartInv
<1>3. Detailed' = Detailed
  BY <1>1, StillIs
<1>4. /\ coupon' \in [code : Codes \cup {NoCode}, amount : Nat]
      /\ coupon'.code = NoCode => coupon'.amount = 0
      /\ unchecked' \in BOOLEAN
  BY <1>1, <1>2, ValuedIs
<1>5. CouponIsThisCarts'
  <2>1. CASE coupon' = coupon /\ unchecked' = unchecked
    BY <1>1, <1>2, <1>3, <2>1 DEF CouponIsThisCarts
  <2>2. CASE /\ ~CodeRefused(ask.code, ask.cart) /\ coupon' = Valued(ask)
             /\ unchecked' = (unchecked \/ ask.cart # Detailed)
    <3>1. ~unchecked' => ~unchecked /\ ask.cart = Detailed'
      BY <1>3, <2>2
    <3> QED
      BY <1>1, <1>2, <1>3, <2>2, <3>1, ValuedIs DEF CouponIsThisCarts
  <2> QED
    BY <1>1, <2>1, <2>2
<1> QED
  BY <1>1, <1>2, <1>4, <1>5, StillIs DEF CartInv, AtMostOne

LEMMA CartUnchanged ==
  ASSUME CartInv, UNCHANGED cartVars
  PROVE  CartInv'
<1>1. /\ Still /\ coupon' = coupon /\ checking' = checking /\ applying' = applying
      /\ unchecked' = unchecked
  BY DEF cartVars, Still
<1>2. CouponIsThisCarts'
  BY <1>1, StillIs DEF CartInv, CouponIsThisCarts
<1> QED
  BY <1>1, <1>2, StillIs DEF CartInv

\* Whatever the customer does and whichever answer comes, the coupon and the promotions
\* on the page are the cart's, or a question about them is open (CartContext.tsx:86-199).
THEOREM CartInductive == CartInv /\ [CartNext]_cartVars => CartInv'
<1> SUFFICES ASSUME CartInv, [CartNext]_cartVars PROVE CartInv'
  OBVIOUS
<1>1. CASE \E p \in Products : SetQuantity(p)
  BY <1>1, SetQuantityStep
<1>2. CASE \E code \in Codes : ApplyCoupon(code)
  BY <1>2, ApplyCouponStep
<1>3. CASE RemoveCoupon
  BY <1>3, RemoveCouponStep
<1>4. CASE Submit
  BY <1>4, SubmitStep
<1>5. CASE Reload
  BY <1>5, ReloadStep
<1>6. CASE \E ids \in resolving : ResolveAnswered(ids)
  BY <1>6, ResolveAnsweredStep
<1>7. CASE \E ids \in resolving : ResolveFailed(ids)
  BY <1>7, ResolveFailedStep
<1>8. CASE \E cart \in previewing : PreviewAnswered(cart)
  BY <1>8, PreviewAnsweredStep
<1>9. CASE \E ask \in checking : CheckAnswered(ask)
  BY <1>9, CheckAnsweredStep
<1>10. CASE \E ask \in applying : ApplyAnswered(ask)
  BY <1>10, ApplyAnsweredStep
<1>11. CASE UNCHANGED cartVars
  BY <1>11, CartUnchanged
<1> QED
  BY <1>1, <1>2, <1>3, <1>4, <1>5, <1>6, <1>7, <1>8, <1>9, <1>10, <1>11 DEF CartNext
-----------------------------------------------------------------------------
(* What the page shows and what is charged *)

\* A set with no two different members has at most one.
LEMMA FewAsked ==
  ASSUME NEW S, AtMostOne(S)
  PROVE  Cardinality(S) <= 1
<1>1. CASE S = {}
  BY <1>1, FS_EmptySet
<1>2. CASE S # {}
  <2>1. PICK a : S = {a}
    BY <1>2 DEF AtMostOne
  <2>2. Cardinality({a}) = 1
    BY FS_Singleton, Zenon
  <2> QED
    BY <2>1, <2>2
<1> QED
  BY <1>1, <1>2

LEMMA CartTyped == CartInv => CartTypeOK
<1> SUFFICES ASSUME CartInv PROVE CartTypeOK
  OBVIOUS
<1>1. AtMostOne(resolving) /\ AtMostOne(previewing) /\ AtMostOne(checking) /\ AtMostOne(applying)
  BY DEF CartInv, AtMostOne
<1>2. /\ Cardinality(resolving) <= 1 /\ Cardinality(previewing) <= 1
      /\ Cardinality(checking) <= 1 /\ Cardinality(applying) <= 1
  BY <1>1, FewAsked
<1> QED
  BY <1>2 DEF CartInv, CartTypeOK, Bounded

\* On a settled page the coupon is worth what the server will take off for it, and
\* the server takes off no less for the promotions.
LEMMA SettledAmounts ==
  ASSUME CartInv, Settled, NEW zone \in Zones
  PROVE  /\ AfterDiscounts(Detailed, coupon.code) \in Nat /\ PageEligible \in Nat
         /\ AfterDiscounts(Detailed, coupon.code) <= PageEligible
         /\ promotions = PromotionDiscount(Detailed) =>
              AfterDiscounts(Detailed, coupon.code) = PageEligible
         /\ PageFee(zone) \in Nat
         /\ DeliveryFee(ZoneFee[zone], Subtotal(Detailed)) = PageFee(zone)
         /\ coupon.code # NoCode => ~CodeRefused(coupon.code, Detailed)
<1>1. /\ Detailed \in Carts /\ coupon.code \in Codes \cup {NoCode} /\ coupon.amount \in Nat
      /\ promotions \in {0, PromotionDiscount(Detailed)}
      /\ coupon.code = NoCode => coupon.amount = 0
      /\ coupon.code # NoCode =>
           /\ ~CodeRefused(coupon.code, Detailed)
           /\ coupon.amount = CodeAmount(coupon.code, Detailed)
  BY ShownIs DEF CartInv, Settled, PromotionsAreThisCarts, CouponIsThisCarts, Detailed
<1>2. PICK whole, given \in Nat :
        whole = Subtotal(Detailed) /\ given = PromotionDiscount(Detailed)
  BY <1>1, DiscountIs
<1>3. CodeDiscount(coupon.code, Detailed) = coupon.amount
  BY <1>1 DEF CodeDiscount
<1>4. PICK off \in Nat : off = coupon.amount
  BY <1>1
<1>5. PICK shown \in Nat : shown = promotions /\ shown <= given /\ shown \in {0, given}
  BY <1>1, <1>2
<1>6. AfterDiscounts(Detailed, coupon.code) = Max({0, whole - off - given})
  BY <1>2, <1>3, <1>4 DEF AfterDiscounts
<1>7. PageEligible = Max({0, whole - off - shown})
  BY <1>2, <1>4, <1>5 DEF PageEligible
<1>8. /\ 0 \in Int /\ whole - off - given \in Int /\ whole - off - shown \in Int
  OBVIOUS
<1>9. /\ Max({0, whole - off - given})
           = IF 0 <= whole - off - given THEN whole - off - given ELSE 0
      /\ Max({0, whole - off - shown})
           = IF 0 <= whole - off - shown THEN whole - off - shown ELSE 0
  BY <1>8, MaxIs
<1>10. /\ Max({0, whole - off - given}) \in Nat /\ Max({0, whole - off - shown}) \in Nat
       /\ Max({0, whole - off - given}) <= Max({0, whole - off - shown})
       /\ shown = given => Max({0, whole - off - given}) = Max({0, whole - off - shown})
  BY <1>5, <1>9
<1>11. ZoneFee[zone] \in Nat /\ FreeFrom \in Nat
  BY PricesAssumption
<1>12. /\ PageFee(zone) \in Nat
       /\ DeliveryFee(ZoneFee[zone], Subtotal(Detailed)) = PageFee(zone)
  BY <1>2, <1>11 DEF PageFee, DeliveryFee
<1> QED
  BY <1>1, <1>2, <1>5, <1>6, <1>7, <1>10, <1>12

\* The points that the page takes off are points that were typed, or none.
LEMMA PointsAre ==
  ASSUME NEW typed \in 0 .. Balance
  PROVE  PagePoints(typed) \in Nat /\ PagePoints(typed) * PointValue \in Nat
<1>1. typed \in Nat /\ PointValue \in Nat
  BY CartAssumption, PricesAssumption
<1>2. PagePoints(typed) \in Nat
  BY <1>1 DEF PagePoints
<1> QED
  BY <1>1, <1>2

\* On a settled page the server asks for at most what is shown, and for exactly that
\* when the promotions shown are the cart's.
LEMMA ChargedIs ==
  ASSUME CartInv, Settled, NEW zone \in Zones, NEW typed \in 0 .. Balance
  PROVE  /\ OrderTotal(Detailed, coupon.code, zone, PagePoints(typed)) <= PageTotal(zone, typed)
         /\ promotions = PromotionDiscount(Detailed) =>
              PageTotal(zone, typed) - OrderTotal(Detailed, coupon.code, zone, PagePoints(typed))
                = IF GrantsDelivery(coupon.code) THEN PageFee(zone) ELSE 0
<1>1. PICK after, eligible \in Nat :
        /\ after = AfterDiscounts(Detailed, coupon.code) /\ eligible = PageEligible
        /\ after <= eligible
        /\ promotions = PromotionDiscount(Detailed) => after = eligible
  BY SettledAmounts
<1>2. PICK fee \in Nat :
        fee = PageFee(zone) /\ fee = DeliveryFee(ZoneFee[zone], Subtotal(Detailed))
  BY SettledAmounts
<1>3. PICK off \in Nat : off = PagePoints(typed) * PointValue
  BY PointsAre
<1>4. OrderTotal(Detailed, coupon.code, zone, PagePoints(typed))
        = Max({0, after - off}) + (IF GrantsDelivery(coupon.code) THEN 0 ELSE fee)
  BY <1>1, <1>2, <1>3 DEF OrderTotal
<1>5. PageTotal(zone, typed) = Max({0, eligible - off}) + fee
  BY <1>1, <1>2, <1>3 DEF PageTotal
<1>6. 0 \in Int /\ after - off \in Int /\ eligible - off \in Int
  OBVIOUS
<1>7. PICK least, most \in Nat : /\ least = Max({0, after - off}) /\ most = Max({0, eligible - off})
                                 /\ least <= most
                                 /\ promotions = PromotionDiscount(Detailed) => least = most
  <2>1. /\ Max({0, after - off}) = IF 0 <= after - off THEN after - off ELSE 0
        /\ Max({0, eligible - off}) = IF 0 <= eligible - off THEN eligible - off ELSE 0
    BY <1>6, MaxIs
  <2>2. /\ Max({0, after - off}) \in Nat /\ Max({0, eligible - off}) \in Nat
        /\ Max({0, after - off}) <= Max({0, eligible - off})
        /\ promotions = PromotionDiscount(Detailed) =>
             Max({0, after - off}) = Max({0, eligible - off})
    BY <1>1, <2>1
  <2> QED
    BY <2>2
<1>8. /\ OrderTotal(Detailed, coupon.code, zone, PagePoints(typed))
           = least + (IF GrantsDelivery(coupon.code) THEN 0 ELSE fee)
      /\ PageTotal(zone, typed) = most + fee
  BY <1>4, <1>5, <1>7
<1>9. CASE GrantsDelivery(coupon.code)
  BY <1>2, <1>7, <1>8, <1>9
<1>10. CASE ~GrantsDelivery(coupon.code)
  BY <1>2, <1>7, <1>8, <1>10
<1> QED
  BY <1>9, <1>10

LEMMA CartTruthful == CartInv => PageTellsTheTruth
<1> SUFFICES ASSUME CartInv PROVE PageTellsTheTruth
  OBVIOUS
<1>1. NeverChargedMore
  BY ChargedIs DEF NeverChargedMore
<1>2. PromotionsAreThisCarts
  BY DEF CartInv
<1> QED
  BY <1>1, <1>2, CartTyped DEF PageTellsTheTruth

\* Points that the page offers are not refused.
LEMMA PointsAccepted ==
  ASSUME CartInv, Settled, promotions = PromotionDiscount(Detailed), NEW zone \in Zones,
         NEW typed \in 0 .. Balance
  PROVE  ~PointsRefused(Detailed, coupon.code, PagePoints(typed), Balance)
<1> SUFFICES ASSUME PagePoints(typed) > 0
             PROVE  /\ ~(PagePoints(typed) < MinRedeem)
                    /\ ~(AfterDiscounts(Detailed, coupon.code) < MinRedeemOrder)
                    /\ ~(PagePoints(typed) > MostPoints(Detailed, coupon.code, Balance))
  BY DEF PointsRefused
<1>1. PICK after \in Nat : after = AfterDiscounts(Detailed, coupon.code) /\ after = PageEligible
  BY SettledAmounts
<1>2. /\ typed >= MinRedeem /\ typed <= PageMostPoints /\ PageEligible >= MinRedeemOrder
      /\ PagePoints(typed) = typed
  BY DEF PagePoints
<1>3. PICK percent \in Nat, worth \in Nat \ {0} : percent = MaxPercent /\ worth = PointValue
  BY PricesAssumption
<1>4. after * percent \in Nat
  OBVIOUS
<1>5. ((after * percent) \div 100) \div worth = (after * percent) \div (100 * worth)
  BY <1>4, DivTwice
<1>6. PageMostPoints = MostPoints(Detailed, coupon.code, Balance)
  BY <1>1, <1>3, <1>5 DEF PageMostPoints, MostPoints
<1>7. PageMostPoints \in Int
  <2>1. 100 * worth \in Nat \ {0}
    OBVIOUS
  <2>2. PICK most \in Nat : most = (after * percent) \div (100 * worth)
    BY <1>4, <2>1, DivIs
  <2>3. most \in Int /\ Balance \in Int
    BY CartAssumption
  <2>4. Min({Balance, most}) \in Int
    BY <2>3, MinIs
  <2> QED
    BY <1>1, <1>3, <2>2, <2>4 DEF PageMostPoints
<1>8. typed \in Nat /\ MinRedeem \in Nat /\ MinRedeemOrder \in Nat
  BY CartAssumption, PricesAssumption
<1> QED
  BY <1>1, <1>2, <1>6, <1>7, <1>8

LEMMA CartQuoted == CartInv => QuoteHolds
<1> SUFFICES ASSUME CartInv, Settled, promotions = PromotionDiscount(Detailed),
                    Subtotal(Detailed) >= MinimumOrder, NEW zone \in Zones, NEW typed \in 0 .. Balance
             PROVE  /\ ~Refused(Detailed, coupon.code, PagePoints(typed), Balance)
                    /\ PageTotal(zone, typed) - OrderTotal(Detailed, coupon.code, zone, PagePoints(typed))
                         = IF GrantsDelivery(coupon.code) THEN PageFee(zone) ELSE 0
  BY DEF QuoteHolds
<1>1. ~(Subtotal(Detailed) < MinimumOrder)
  <2>1. Detailed \in Carts /\ MinimumOrder \in Nat
    BY ShownIs, PricesAssumption DEF CartInv, Detailed
  <2>2. Subtotal(Detailed) \in Nat
    BY <2>1, DiscountIs
  <2> QED
    BY <2>1, <2>2
<1>2. ~Refused(Detailed, coupon.code, PagePoints(typed), Balance)
  BY <1>1, SettledAmounts, PointsAccepted DEF Refused
<1> QED
  BY <1>2, ChargedIs

LEMMA CartEarned == CartInv => PromotionsAreEarned
<1> SUFFICES ASSUME CartInv, \A i \in DOMAIN Promotions : GroupsApart(Promotions[i])
             PROVE  Units(Detailed, Products) - Units(Computed(Detailed).left, Products)
                      = MapThenSumSet(LAMBDA i : Computed(Detailed).given[i].times
                                                   * UnitsOf(Promotions[i]),
                                      DOMAIN Computed(Detailed).given)
  BY DEF PromotionsAreEarned
<1>1. Detailed \in Carts
  BY ShownIs DEF CartInv, Detailed
<1> QED
  BY <1>1, UnitsAreEarned

\* For any price list, promotions, coupons and zones, and in whatever order the answers
\* come: the promotions shown once all have come are this cart's or none, and the
\* customer is never charged more than a settled page showed
\* (CartContext.tsx:86-199, CheckoutPage.tsx:114-141, orderService.ts:283-364).
THEOREM CartTellsTheTruth == CartSpec => []PageTellsTheTruth
<1>1. CartInit => CartInv
  BY CartInitial
<1>2. CartInv /\ [CartNext]_cartVars => CartInv'
  BY CartInductive
<1>3. CartInv => PageTellsTheTruth
  BY CartTruthful
<1> QED
  BY <1>1, <1>2, <1>3, PTL DEF CartSpec

\* A settled page that lost no answer quotes what will be charged, to the piastre, and
\* offers no coupon and no points that the server refuses
\* (CheckoutPage.tsx:122-141, loyaltyService.ts:189-221).
THEOREM CartQuoteHolds == CartSpec => []QuoteHolds
<1>1. CartInit => CartInv
  BY CartInitial
<1>2. CartInv /\ [CartNext]_cartVars => CartInv'
  BY CartInductive
<1>3. CartInv => QuoteHolds
  BY CartQuoted
<1> QED
  BY <1>1, <1>2, <1>3, PTL DEF CartSpec

\* No unit of any cart counts for two promotions, nor twice for one, whatever the
\* promotions whose groups are apart (promotionService.ts:115-236).
THEOREM CartPromotionsEarned == CartSpec => []PromotionsAreEarned
<1>1. CartInit => CartInv
  BY CartInitial
<1>2. CartInv /\ [CartNext]_cartVars => CartInv'
  BY CartInductive
<1>3. CartInv => PromotionsAreEarned
  BY CartEarned
<1> QED
  BY <1>1, <1>2, <1>3, PTL DEF CartSpec
=============================================================================
