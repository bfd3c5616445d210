------------------------------ MODULE Couriers ------------------------------
(***************************************************************************)
(* Couriers: which courier has an order, who may move it, and the          *)
(* settlements in which a courier hands over what delivered orders         *)
(* brought in.  A status change locks its order's row from its read to its *)
(* commit.  A settlement lists the orders on a connection of its own, then *)
(* writes in a transaction that reads nothing again.  Orders' totals never *)
(* change.                                                                 *)
(***************************************************************************)
EXTENDS Integers, Sequences, FiniteSets, FiniteSetsExt

CONSTANTS
    Orders, Total,        \* and what each order cost
    Riders, Users,        \* couriers, and the accounts they may be given
    Admins,               \* administrators' requests under way at one time
    NoOne,
    Start,                \* statuses in which an order may be found at first
    MaxSettlements        \* bound: settlements written

ASSUME CouriersAssumption ==
    /\ IsFiniteSet(Orders) /\ Total \in [Orders -> Nat]
    /\ NoOne \notin Riders \cup Users
    /\ Admins \cap Users = {}

VARIABLES
    orders,        \* status, rider_id and settlement_id of each row
    history,       \* order_status_history
    riders,        \* user_id and active of each row
    settlements,   \* rows, with the orders listed and the rows there were then
    requests       \* what each admin's or courier's request is about to do

vars == <<orders, history, riders, settlements, requests>>

After == [placed |-> {"preparing", "cancelled"},
          preparing |-> {"ready_for_delivery", "cancelled"},
          ready_for_delivery |-> {"out_for_delivery", "cancelled"},
          out_for_delivery |-> {"delivered", "cancelled"},
          delivered |-> {}, cancelled |-> {}]
Statuses == DOMAIN After

CanBecome(from, to) == to = from \/ to \in After[from]

RiderNext == [ready_for_delivery |-> "out_for_delivery", out_for_delivery |-> "delivered"]

Route == <<"placed", "preparing", "ready_for_delivery", "out_for_delivery", "delivered">>

Idle == [doing |-> "idle"]

\* SELECT ... FOR UPDATE: the row is this request's until it commits.
PlainRead(request, o) == FALSE
Holds(request, o)     == request.doing = "changing" /\ request.order = o

Free(o) == \A p \in Admins \cup Users : ~Holds(requests[p], o)

TypeOK ==
    /\ orders \in [Orders -> [status : Statuses, rider : Riders \cup {NoOne},
                              settlement : 0 .. Len(settlements)]]
    /\ riders \in [Riders -> [user : Users \cup {NoOne}, active : BOOLEAN]]
    /\ \A r, s \in Riders : r # s /\ riders[r].user = riders[s].user => riders[r].user = NoOne
    /\ \A i \in DOMAIN settlements :
          /\ settlements[i].rider \in Riders
          /\ settlements[i].listed \subseteq Orders
    /\ \A p \in Admins \cup Users :
          requests[p].doing \in {"idle", "known", "changing", "telling", "settling"}

\* An order found somewhere on its route has the history of the way there.
Init ==
    /\ \E come \in [Orders -> {i \in DOMAIN Route : Route[i] \in Start}] :
          /\ orders = [o \in Orders |->
                [status |-> Route[come[o]], rider |-> NoOne, settlement |-> 0]]
          /\ history = [o \in Orders |-> [i \in 1 .. come[o] |->
                [from |-> IF i = 1 THEN NoOne ELSE Route[i - 1], to |-> Route[i]]]]
    /\ riders = [r \in Riders |-> [user |-> NoOne, active |-> TRUE]]
    /\ settlements = <<>>
    /\ requests = [p \in Admins \cup Users |-> Idle]

Goes(p, request) == requests' = [requests EXCEPT ![p] = request]
-----------------------------------------------------------------------------
(* Status changes, by an admin or by the order's courier *)

Changing(o, to, by) ==
    [doing |-> "changing", order |-> o, from |-> orders[o].status, to |-> to, by |-> by]

\* PATCH /admin/orders/:id/status; cancelOrder takes the same steps.
AdminReads(a, o, to) ==
    /\ requests[a] = Idle /\ Free(o)
    /\ CanBecome(orders[o].status, to)
    /\ Goes(a, Changing(o, to, NoOne))
    /\ UNCHANGED <<orders, history, riders, settlements>>

\* requireRiderAccount: before, and outside, the transaction.
RiderKnown(u, r) ==
    /\ requests[u] = Idle
    /\ riders[r].user = u /\ riders[r].active
    /\ Goes(u, [doing |-> "known", rider |-> r])
    /\ UNCHANGED <<orders, history, riders, settlements>>

RiderReadsAny(u, o, to) ==
    /\ requests[u].doing = "known" /\ Free(o)
    /\ orders[o].status \in DOMAIN RiderNext /\ to = RiderNext[orders[o].status]
    /\ Goes(u, Changing(o, to, requests[u].rider))
    /\ UNCHANGED <<orders, history, riders, settlements>>
RiderReads(u, o, to) ==
    /\ requests[u].doing = "known" /\ Free(o)
    /\ orders[o].rider = requests[u].rider
    /\ orders[o].status \in DOMAIN RiderNext /\ to = RiderNext[orders[o].status]
    /\ Goes(u, Changing(o, to, requests[u].rider))
    /\ UNCHANGED <<orders, history, riders, settlements>>

\* recordOrderStatusChange writes nothing for a change to the same status.
Change(p) ==
    LET r == requests[p] IN
    /\ r.doing = "changing"
    /\ orders' = [orders EXCEPT ![r.order].status = r.to]
    /\ history' = IF r.from = r.to THEN history
                  ELSE [history EXCEPT ![r.order] = Append(@, [from |-> r.from, to |-> r.to])]
    /\ Goes(p, [doing |-> "telling", order |-> r.order, to |-> r.to])
    /\ UNCHANGED <<riders, settlements>>

\* notifyOrderStatusChange: after the commit, whatever has happened since.
Tell(p) ==
    /\ requests[p].doing = "telling"
    /\ Goes(p, Idle)
    /\ UNCHANGED <<orders, history, riders, settlements>>

\* The request is refused, or its process stops: nothing it began is kept.
Ends(p) ==
    /\ requests[p] # Idle
    /\ Goes(p, Idle)
    /\ UNCHANGED <<orders, history, riders, settlements>>
-----------------------------------------------------------------------------
(* Couriers and the orders they are given *)

\* PATCH /admin/orders/:id/rider: whatever the order's status, settled or not.
AssignRider(o, r) ==
    /\ Free(o)
    /\ orders' = [orders EXCEPT ![o].rider = r]
    /\ UNCHANGED <<history, riders, settlements, requests>>

\* riders.user_id is unique: the second courier of an account is refused.
LinkUser(r, u) ==
    /\ \A s \in Riders \ {r} : riders[s].user # u
    /\ riders' = [riders EXCEPT ![r].user = u]
    /\ UNCHANGED <<orders, history, settlements, requests>>

UnlinkUser(r) ==
    /\ riders' = [riders EXCEPT ![r].user = NoOne]
    /\ UNCHANGED <<orders, history, settlements, requests>>

\* PATCH /admin/riders/:id writes every field back, as sent or as it read it a moment
\* before: what it writes may be out of date.
EditRider(r, active) ==
    /\ riders' = [riders EXCEPT ![r].active = active]
    /\ UNCHANGED <<orders, history, settlements, requests>>
-----------------------------------------------------------------------------
(* Settlements *)

OutstandingAnyStatus(r) == {o \in Orders : orders[o].rider = r /\ orders[o].settlement = 0}
Delivered(r)            == {o \in Orders : orders[o].rider = r /\ orders[o].status = "delivered"}
Outstanding(r) ==
    {o \in Orders : /\ orders[o].rider = r /\ orders[o].status = "delivered"
                    /\ orders[o].settlement = 0}

ListOutstanding(a, r) ==
    /\ requests[a] = Idle
    /\ Outstanding(r) # {}
    /\ Goes(a, [doing |-> "settling", rider |-> r, listed |-> Outstanding(r),
                after |-> Len(settlements)])
    /\ UNCHANGED <<orders, history, riders, settlements>>

\* What the orders of S brought in.
Amount(S) == MapThenSumSet(LAMBDA o : Total[o], S)

\* UPDATE orders ... WHERE id = $2: nothing else is asked of the row again.
Settle(a) ==
    LET r == requests[a] IN
    /\ r.doing = "settling" /\ \A o \in r.listed : Free(o)
    /\ Len(settlements) < MaxSettlements
    /\ settlements' = Append(settlements,
          [rider |-> r.rider, amount |-> Amount(r.listed),
           count |-> Cardinality(r.listed), listed |-> r.listed, after |-> r.after])
    /\ orders' = [o \in Orders |->
          IF o \in r.listed THEN [orders[o] EXCEPT !.settlement = Len(settlements) + 1]
          ELSE orders[o]]
    /\ Goes(a, Idle)
    /\ UNCHANGED <<history, riders>>

Next ==
    \/ \E a \in Admins, o \in Orders, to \in Statuses : AdminReads(a, o, to)
    \/ \E u \in Users, r \in Riders : RiderKnown(u, r)
    \/ \E u \in Users, o \in Orders, to \in Statuses : RiderReads(u, o, to)
    \/ \E p \in Admins \cup Users : Change(p) \/ Tell(p) \/ Ends(p)
    \/ \E o \in Orders, r \in Riders \cup {NoOne} : AssignRider(o, r)
    \/ \E r \in Riders, u \in Users : LinkUser(r, u)
    \/ \E r \in Riders : UnlinkUser(r)
    \/ \E r \in Riders, active \in BOOLEAN : EditRider(r, active)
    \/ \E a \in Admins, r \in Riders : ListOutstanding(a, r)
    \/ \E a \in Admins : Settle(a)

Spec == Init /\ [][Next]_vars
-----------------------------------------------------------------------------
(* Properties *)

\* Whichever requests of admins and couriers race, the history of an order is one path
\* of allowed steps from placed to the status it has (orderStatus.ts:11-32,
\* orderStatusHistoryService.ts:16-24).
HistoryIsAPath ==
    \A o \in Orders :
        LET h == history[o] IN
        /\ h[1].to = "placed" /\ h[Len(h)].to = orders[o].status
        /\ \A i \in 2 .. Len(h) : h[i].from = h[i - 1].to /\ h[i].to \in After[h[i].from]

\* A settled order was delivered, and stays so: no one cancels or moves an order whose
\* money has been handed over (adminSettlements.ts:70-91, orderStatus.ts:5).
SettledAreDelivered ==
    \A o \in Orders : orders[o].settlement # 0 => orders[o].status = "delivered"

\* A settlement is for the orders that point to it, and for those a later one took over;
\* its amount and count are those of the orders it was written for
\* (adminSettlements.ts:80-91).
SettlementsHoldTheirOrders ==
    \A i \in DOMAIN settlements :
        LET later == UNION {settlements[j].listed : j \in i + 1 .. Len(settlements)}
            held  == {o \in Orders : orders[o].settlement = i}
            taken == settlements[i].listed \cap later
        IN  /\ settlements[i].listed = held \cup taken /\ held \cap taken = {}
            /\ settlements[i].amount = Amount(held) + Amount(taken)
            /\ settlements[i].count = Cardinality(held) + Cardinality(taken)

\* An order is paid for twice only by settlements that were under way together: the one
\* that was listed after the other was written never holds its orders
\* (adminSettlements.ts:70-73).
PaidTwiceOnlyInARace ==
    \A i, j \in DOMAIN settlements :
        i < j /\ settlements[j].after >= i =>
            settlements[i].listed \cap settlements[j].listed = {}

\* Settlements, couriers' debts and orders agree, except that settlements which
\* raced may count one order each.
SettlementsAddUp == SettlementsHoldTheirOrders /\ PaidTwiceOnlyInARace

\* What is told to a customer did happen to the order, even if more has since, and even
\* if the request that did it was refused or stopped (adminOrders.ts:201-207,
\* rider.ts:105-116).
ToldIsTrue ==
    \A p \in Admins \cup Users :
        requests[p].doing = "telling" =>
            \E i \in DOMAIN history[requests[p].order] :
                history[requests[p].order][i].to = requests[p].to

\* The history of an order, the order and what its customer was told agree.
HistoriesAreTrue == TypeOK /\ HistoryIsAPath /\ ToldIsTrue

\* A courier moves only orders that are that courier's at the moment of the change,
\* however they are reassigned meanwhile (rider.ts:85-101, adminOrders.ts:241).
RidersMoveTheirOwn ==
    [][\A u \in Users :
          requests[u].doing = "changing" /\ requests'[u].doing = "telling" =>
              orders[requests[u].order].rider = requests[u].by]_vars
=============================================================================
