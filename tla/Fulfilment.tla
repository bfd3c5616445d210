----------------------------- MODULE Fulfilment -----------------------------
(***************************************************************************)
(* The life of an order after checkout: the admin's and the rider's status *)
(* changes, picking, substitution of a line and the customer's answer, and *)
(* cancellation, with what each does to the warehouse.  Every handler is   *)
(* one transaction on locked rows, hence one action (how transactions of   *)
(* checkout interleave is Checkout.tla; the points they move, Loyalty.tla).*)
(***************************************************************************)
EXTENDS Stockroom

CONSTANTS
    Carts,         \* the carts ordered: sequences of [sku, quantity] lines, one for
                   \* a sku (validateCheckoutPayload merges the lines of a sku)
    Preferences,   \* the substitution preferences customers choose
    Marks,         \* the picked statuses pickers set by hand
    MaxQuantity,   \* bound: quantity of a replacement
    Stock0, Left0, \* the warehouse before the first order
    Perishable     \* batches whose expiry date comes within the behaviour

ASSUME FulfilmentAssumption ==
    /\ IsFiniteSet(Orders) /\ MaxQuantity \in Nat
    /\ \A cart \in Carts :
          /\ cart \in Seq([sku : Skus, quantity : Nat \ {0}])
          /\ \A i, j \in DOMAIN cart : cart[i].sku = cart[j].sku => i = j
    /\ Preferences \subseteq {"replace_similar", "contact_me", "remove_item"}
    /\ Marks \subseteq {"pending", "picked", "substituted", "unavailable"}
    /\ Stock0 \in [Skus -> Nat] /\ Left0 \in [Batches -> Nat]
    /\ Perishable \subseteq Batches

VARIABLES
    status,      \* orders.status, "none" before checkout
    preference,  \* orders.substitution_preference
    lines,       \* order_items
    warehouse,
    expired      \* the batches whose expiry_date is past

vars == <<status, preference, lines, warehouse, expired>>

Line(item) ==
    [sku |-> item.sku, quantity |-> item.quantity, picked |-> "pending",
     substitution |-> "none", replacement |-> item.sku, replacing |-> 0]

After == [placed |-> {"preparing", "cancelled"},
          preparing |-> {"ready_for_delivery", "cancelled"},
          ready_for_delivery |-> {"out_for_delivery", "cancelled"},
          out_for_delivery |-> {"delivered", "cancelled"},
          delivered |-> {}, cancelled |-> {}]
Statuses == DOMAIN After

\* canTransitionOrderStatus: to stay is always allowed, and changes nothing.
CanBecome(from, to) == from \in Statuses /\ (to = from \/ to \in After[from])
-----------------------------------------------------------------------------
(* createOrder, as far as the warehouse is concerned *)
Place(o, cart, wish) ==
    LET sell(w, item) == Sell(w, o, item.sku, item.quantity, expired) IN
    /\ status[o] = "none"
    /\ \A i \in DOMAIN cart :
          /\ Sellable(warehouse, cart[i].sku, expired) >= cart[i].quantity
          /\ CanSell(warehouse, cart[i].sku, cart[i].quantity)
    /\ warehouse' = FoldLeft(sell, warehouse, cart)
    /\ lines' = [lines EXCEPT ![o] = [i \in DOMAIN cart |-> Line(cart[i])]]
    /\ preference' = [preference EXCEPT ![o] = wish]
    /\ status' = [status EXCEPT ![o] = "placed"]
    /\ UNCHANGED expired

(* PATCH /admin/orders/:id/status, and the rider's own *)
SetStatus(o, to) ==
    /\ to # "cancelled" /\ CanBecome(status[o], to)
    /\ status' = [status EXCEPT ![o] = to]
    /\ UNCHANGED <<preference, lines, warehouse, expired>>

\* Only the rider of the order may, which any order can have at any time.
RiderSetsStatus(o) ==
    /\ status[o] \in {"ready_for_delivery", "out_for_delivery"}
    /\ status' = [status EXCEPT ![o] = IF @ = "ready_for_delivery"
                                       THEN "out_for_delivery" ELSE "delivered"]
    /\ UNCHANGED <<preference, lines, warehouse, expired>>

\* restoreStockForCancelledOrder: a line whose substitution was approved gives
\* back its replacement; once a cancel_restore is on file nothing moves again.
GiveBackOriginals(w, o) ==
    FoldLeft(LAMBDA v, line :
                Restore(v, o, line.sku, line.quantity, "cancel_restore"),
             w, lines[o])
GiveBack(w, o) ==
    LET back(v, line) ==
            IF line.substitution = "approved"
            THEN Restore(v, o, line.replacement, line.replacing, "cancel_restore")
            ELSE Restore(v, o, line.sku, line.quantity, "cancel_restore")
    IN  IF \E i \in DOMAIN w.moves[o] : w.moves[o][i].type = "cancel_restore"
        THEN w
        ELSE FoldLeft(back, w, lines[o])

CancelOrder(o) ==
    /\ CanBecome(status[o], "cancelled")
    /\ status' = [status EXCEPT ![o] = "cancelled"]
    /\ warehouse' = GiveBack(warehouse, o)
    /\ UNCHANGED <<preference, lines, expired>>

(* Picking and substitution *)
\* setItemPickedStatus asks nothing of the order or of the line.
MarkPicked(o, i, mark) ==
    /\ i \in DOMAIN lines[o]
    /\ lines' = [lines EXCEPT ![o][i].picked = mark]
    /\ UNCHANGED <<status, preference, warehouse, expired>>

\* finalizeApproval and applySubstitutionStockMove: the replacement is sold,
\* the original's product gets its quantity back.
Substitute(o, i, product, quantity) ==
    LET line == lines[o][i]
        sold == Sell(warehouse, o, product, quantity, expired)
    IN  /\ warehouse' = Restore(sold, o, ProductOf(line.sku), line.quantity,
                                "substitution_restore")
        /\ lines' = [lines EXCEPT ![o][i] =
                [@ EXCEPT !.picked = "substituted", !.substitution = "approved",
                          !.replacement = product, !.replacing = quantity]]

\* proposeSubstitution: at once if the customer said so, else on their answer.
\* The status of the order is not asked.
Propose(o, i, product, quantity) ==
    /\ i \in DOMAIN lines[o]
    /\ lines[o][i].picked = "pending" /\ lines[o][i].substitution = "none"
    /\ product # ProductOf(lines[o][i].sku)
    /\ \/ /\ preference[o] = "replace_similar"
          /\ CanSell(warehouse, product, quantity)
          /\ Substitute(o, i, product, quantity)
       \/ /\ preference[o] = "contact_me"
          /\ lines' = [lines EXCEPT ![o][i] =
                [@ EXCEPT !.substitution = "proposed",
                          !.replacement = product, !.replacing = quantity]]
          /\ UNCHANGED warehouse
    /\ UNCHANGED <<status, preference, expired>>

ApproveDecided(o, i) ==
    /\ i \in DOMAIN lines[o] /\ lines[o][i].substitution # "none"
    /\ CanSell(warehouse, lines[o][i].replacement, lines[o][i].replacing)
    /\ Substitute(o, i, lines[o][i].replacement, lines[o][i].replacing)
    /\ UNCHANGED <<status, preference, expired>>
\* respondToSubstitution: nor here.
Approve(o, i) ==
    /\ i \in DOMAIN lines[o] /\ lines[o][i].substitution = "proposed"
    /\ CanSell(warehouse, lines[o][i].replacement, lines[o][i].replacing)
    /\ Substitute(o, i, lines[o][i].replacement, lines[o][i].replacing)
    /\ UNCHANGED <<status, preference, expired>>

Reject(o, i) ==
    /\ i \in DOMAIN lines[o] /\ lines[o][i].substitution = "proposed"
    /\ lines' = [lines EXCEPT ![o][i] =
            [@ EXCEPT !.picked = "unavailable", !.substitution = "rejected"]]
    /\ UNCHANGED <<status, preference, warehouse, expired>>

\* The calendar: expiry dates pass in their order.
Expire(b) ==
    /\ b \in Perishable \ expired
    /\ \A d \in Perishable : FefoRank[d] < FefoRank[b] => d \in expired
    /\ expired' = expired \cup {b}
    /\ UNCHANGED <<status, preference, lines, warehouse>>
-----------------------------------------------------------------------------
Init ==
    /\ status = [o \in Orders |-> "none"]
    /\ preference = [o \in Orders |-> "contact_me"]
    /\ lines = [o \in Orders |-> <<>>]
    /\ warehouse = [stock |-> Stock0, left |-> Left0, got |-> Left0,
                     moves |-> [o \in Orders |-> <<>>],
                     waiting |-> {}, hidden |-> {}]
    /\ expired = {}

Handling(o) ==
    \/ \E to \in Statuses : SetStatus(o, to)
    \/ RiderSetsStatus(o)
    \/ CancelOrder(o)

Picking(o, i) ==
    \/ \E mark \in Marks : MarkPicked(o, i, mark)
    \/ \E p \in Products, q \in 1..MaxQuantity : Propose(o, i, p, q)
    \/ Approve(o, i) \/ Reject(o, i)

Next ==
    \/ \E o \in Orders :
          \/ \E cart \in Carts, wish \in Preferences : Place(o, cart, wish)
          \/ Handling(o)
          \/ \E i \in DOMAIN lines[o] : Picking(o, i)
    \/ \E b \in Batches : Expire(b)

Spec == Init /\ [][Next]_vars
-----------------------------------------------------------------------------
TypeOK ==
    /\ status \in [Orders -> Statuses \cup {"none"}]
    /\ preference \in [Orders -> Preferences \cup {"contact_me"}]
    /\ \A o \in Orders : lines[o] \in Seq(
          [sku : Skus, quantity : Nat \ {0},
           picked : {"pending", "picked", "substituted", "unavailable"},
           substitution : {"none", "proposed", "approved", "rejected"},
           replacement : Skus, replacing : Nat])
    /\ warehouse.stock \in [Skus -> Nat] /\ warehouse.left \in [Batches -> Nat]
    /\ expired \subseteq Perishable

\* What order o keeps off the shelf of sku: nothing once it is cancelled, else
\* each line, or what replaced it.
OwedOn(line, sku) ==
    IF line.substitution = "approved"
    THEN IF line.replacement = sku THEN line.replacing ELSE 0
    ELSE IF line.sku = sku THEN line.quantity ELSE 0
Owed(o, sku) ==
    IF status[o] = "cancelled" THEN 0
    ELSE SumFunction([i \in DOMAIN lines[o] |-> OwedOn(lines[o][i], sku)])

Moves(o, type) ==
    {i \in DOMAIN warehouse.moves[o] : warehouse.moves[o][i].type = type}

\* No substitution of o was approved after o had been cancelled.
DecidedInTime(o) ==
    \A i \in Moves(o, "substitution_restore"), j \in Moves(o, "cancel_restore") :
        i < j
\* No line of o that was a variant has been substituted.
PlainSubstitutions(o) ==
    \A i \in DOMAIN lines[o] :
        lines[o][i].substitution = "approved" => lines[o][i].sku \in Products

\* Every unit is on a shelf or in exactly one live order, through any sequence
\* of sales, substitutions and cancellations, as long as answers come in time
\* and the lines substituted are plain products.
UnitsAccounted ==
    (\A o \in Orders : DecidedInTime(o) /\ PlainSubstitutions(o)) =>
        \A sku \in Skus :
            warehouse.stock[sku] + SumFunction([o \in Orders |-> Owed(o, sku)])
                = Stock0[sku]

\* The batches of sku were always enough for what was sold, and no order sold
\* the product twice.
SimpleSales(sku) ==
    \A o \in Orders : \A i, j \in Moves(o, "sale") :
        LET moves == warehouse.moves[o]
            Of(k) == ProductOf(moves[k].sku) = ProductOf(sku)
        IN  /\ Of(i) /\ Of(j) => i = j
            /\ Of(i) /\ BatchesOf(warehouse, moves[i].sku) # {} =>
                  SumFunction(moves[i].taken) = - moves[i].change

BatchesMatch(sku) ==
    BatchesOf(warehouse, sku) # {} =>
        InBatches(warehouse, BatchesOf(warehouse, sku)) = warehouse.stock[sku]

MatchedAtFirst(sku) ==
    Stock0[sku] = SumFunctionOnSet(Left0, {b \in Batches : SkuOf[b] = sku})

\* Batches and stock go up and down together, however an order ends
\* (consumeBatchesFefo, restoreBatchConsumptionsForMovement), for products an order
\* never holds in two lines: inventoryService.ts:124 says it without that condition.
BatchesFollowSimpleSales ==
    (\A o \in Orders : PlainSubstitutions(o)) =>
        \A sku \in Skus : MatchedAtFirst(sku) /\ SimpleSales(sku) => BatchesMatch(sku)

\* Shelves, live orders and batches add up, whatever is sold, substituted and
\* cancelled in which order (inventoryService, substitutionService).
UnitsAddUp == TypeOK /\ UnitsAccounted /\ BatchesFollowSimpleSales

\* Nothing is sold out of a batch that has expired, and nothing out of a batch
\* while one that expires sooner has any left.
NearestExpiryFirst ==
    [][\A b \in Batches : warehouse'.left[b] < warehouse.left[b] =>
          /\ b \notin expired
          /\ \A d \in BatchesOf(warehouse, SkuOf[b]) \ expired :
                FefoRank[d] < FefoRank[b] => warehouse'.left[d] = 0]_vars

\* A line is substituted once: what was decided of it is never decided again.
DecisionsAreFinal ==
    [][\A o \in Orders : \A i \in DOMAIN lines[o] :
          lines[o][i].substitution \in {"approved", "rejected"} =>
              /\ lines'[o][i].substitution = lines[o][i].substitution
              /\ lines'[o][i].replacement = lines[o][i].replacement
              /\ lines'[o][i].replacing = lines[o][i].replacing]_vars

\* restoreStockForCancelledOrder says a cancelled order has given back exactly
\* what it still held, also when a line of it was substituted.
CancelledOrdersHoldNothing ==
    \A o \in Orders : status[o] = "cancelled" /\ PlainSubstitutions(o) =>
        \A sku \in Skus : NetOf(warehouse, o, sku) = 0
=============================================================================
