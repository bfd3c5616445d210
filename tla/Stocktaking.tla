----------------------------- MODULE Stocktaking -----------------------------
(***************************************************************************)
(* The operations that set the stock, or put goods back, outside the life  *)
(* of an order and of a purchase: customer returns, cycle counts, changes  *)
(* of many products at once and their rollback, while customers buy and    *)
(* cancel.  A handler that looks before its transaction begins is two      *)
(* steps of a clerk, who remembers what was read.                          *)
(***************************************************************************)
EXTENDS Stockroom

CONSTANTS
    CustomerOrders, Returns, Counts, Bulks,   \* Stockroom's Orders
    Clerks,
    Bought,        \* the lines of an order
    Claims,        \* what may be sent back
    NoClaim,
    Category,      \* the products a count is of
    Adjustments,   \* changes of many products
    MaxMoves,      \* bound: movements before the last step that moves stock
    MaxRolls,      \* bound: rollbacks of one change
    Stock0,        \* stock at the start
    Goods0,        \* what is really on the shelves then
    Waiting0       \* skus a customer waits for

\* keep is condition "return_to_stock".
ItemRows  == [line : Nat, quantity : Nat \ {0}, keep : BOOLEAN]
ClaimRows == [order : CustomerOrders, items : Seq(ItemRows)]
\* An order has a line at least, and one line of each product or variant; a
\* claim is about lines of its order; a document is of one kind.
ASSUME StocktakingAssumption ==
    /\ Orders = CustomerOrders \cup Returns \cup Counts \cup Bulks
    /\ CustomerOrders \cap (Returns \cup Counts \cup Bulks) = {}
    /\ Returns \cap (Counts \cup Bulks) = {} /\ Counts \cap Bulks = {}
    /\ IsFiniteSet(Orders) /\ IsFiniteSet(Skus)
    /\ \A o \in CustomerOrders :
          /\ Bought[o] \in Seq([sku : Skus, quantity : Nat \ {0}]) /\ Bought[o] # <<>>
          /\ \A i, j \in DOMAIN Bought[o] : Bought[o][i].sku = Bought[o][j].sku => i = j
    /\ \A claim \in Claims :
          /\ claim \in ClaimRows
          /\ \A j \in DOMAIN claim.items : claim.items[j].line \in DOMAIN Bought[claim.order]
    /\ \A a \in Adjustments : /\ a.skus \subseteq Skus /\ a.value \in Int
                            /\ a.operation \in {"set_to", "increase_by", "decrease_by"}
    /\ NoClaim \notin Claims
    /\ MaxMoves \in Nat /\ MaxRolls \in Nat
    /\ Stock0 \in [Skus -> Nat] /\ Goods0 \in [Skus -> Nat] /\ Waiting0 \subseteq Skus
    /\ Category \subseteq Products

VARIABLES
    warehouse,
    goods,     \* what is really on the shelves
    shifts,    \* how often that changed: a ghost, so that a count knows its time
    order,     \* orders.status, and what the customer holds of each line
    points,    \* "kept" until the points of an order are given and taken back
    return,    \* customer_returns and their items
    count,     \* cycle_counts and the items that were counted
    bulk,      \* bulk_operation_batches, and quantity_after of their rows
    clerk,     \* what a clerk's handler has read
    drift      \* skus of which the stock may no longer be what is there

vars == <<warehouse, goods, shifts, order, points, return, count, bulk, clerk, drift>>

Idle == [job |-> "none"]
Free(k) == clerk[k] = Idle
Done(k) == clerk' = [clerk EXCEPT ![k] = Idle]
MayMove == MapThenSumSet(LAMBDA d : Len(warehouse.moves[d]), Orders) < MaxMoves

PutStock(w, document, sku, stock, change, type) ==
    [w EXCEPT !.stock[sku] = stock,
              !.moves = Record(w, document, sku, type, change, NoBatchUsed)]
Shifted(moved) == [sku \in Skus |-> shifts[sku] + IF sku \in moved THEN 1 ELSE 0]
\* The shelves after changes of some skus; no more goes than is there.
Moved(change, overwritten) ==
    LET there(sku) == goods[sku] + change[sku] >= 0 IN
    /\ goods' = [sku \in Skus |-> IF sku \notin DOMAIN change THEN goods[sku]
                                  ELSE IF there(sku) THEN goods[sku] + change[sku] ELSE 0]
    /\ shifts' = Shifted(DOMAIN change)
    /\ drift' = drift \cup overwritten \cup {sku \in DOMAIN change : ~there(sku)}
With(f, x, v) == [y \in DOMAIN f \cup {x} |-> IF y = x THEN v ELSE f[y]]
Nothing == [x \in {} |-> x]
-----------------------------------------------------------------------------
(* Orders: what Checkout and Fulfilment do with one, in short. *)
Lines(o) == DOMAIN Bought[o]
Units(o, sign) ==
    [sku \in {Bought[o][i].sku : i \in Lines(o)} |->
        sign * MapThenSumSet(LAMBDA i : Bought[o][i].quantity,
                             {i \in Lines(o) : Bought[o][i].sku = sku})]
Place(o) ==
    LET sell(w, line) == Sell(w, o, line.sku, line.quantity, {}) IN
    /\ order[o].status = "none" /\ MayMove
    /\ \A i \in Lines(o) : Sellable(warehouse, Bought[o][i].sku, {}) >= Bought[o][i].quantity
    /\ order' = [order EXCEPT ![o].status = "placed"]
    /\ warehouse' = FoldLeft(sell, warehouse, Bought[o])
    /\ Moved(Units(o, -1), {})
    /\ UNCHANGED <<points, return, count, bulk, clerk>>

Deliver(o) ==
    /\ order[o].status = "placed"
    /\ order' = [order EXCEPT ![o] = [status |-> "delivered",
                                     held |-> [i \in Lines(o) |-> Bought[o][i].quantity]]]
    /\ UNCHANGED <<warehouse, goods, shifts, points, return, count, bulk, clerk, drift>>

CancelOrder(o) ==
    LET put(w, line) == Restore(w, o, line.sku, line.quantity, "cancel_restore") IN
    /\ order[o].status = "placed"
    /\ order' = [order EXCEPT ![o].status = "cancelled"]
    /\ points' = [points EXCEPT ![o] = "undone"]
    /\ warehouse' = FoldLeft(put, warehouse, Bought[o])
    /\ Moved(Units(o, 1), {})
    /\ UNCHANGED <<return, count, bulk, clerk>>
-----------------------------------------------------------------------------
(* customerReturnService *)
ReturnAfter == [requested |-> {"approved", "rejected", "cancelled"},
                approved |-> {"received", "cancelled"},
                received |-> {"refunded"},
                refunded |-> {}, rejected |-> {}, cancelled |-> {}]
CanBecome(from, to) == from \in DOMAIN ReturnAfter /\ (to = from \/ to \in ReturnAfter[from])

Items(claim, i) == {j \in DOMAIN claim.items : claim.items[j].line = i}
Quantity(claim, i) == MapThenSumSet(LAMBDA j : claim.items[j].quantity, Items(claim, i))
Standing(statuses, o) ==
    {r \in Returns : return[r].status \in statuses /\ return[r].claim.order = o}
\* getAlreadyReturnedQty: all that is neither rejected nor cancelled.
Live == {"requested", "approved", "received", "refunded"}
Claimed(statuses, o, i) ==
    MapThenSumSet(LAMBDA r : Quantity(return[r].claim, i), Standing(statuses, o))

\* createCustomerReturn up to its inserts: each item is compared by itself.
CheckReturn(k, r, claim) ==
    /\ Free(k) /\ return[r].status = "none"
    /\ \A other \in Clerks : clerk[other].job = "return" => clerk[other].doc # r
    /\ order[claim.order].status # "none"
    /\ \A j \in DOMAIN claim.items :
          LET i == claim.items[j].line IN
          Claimed(Live, claim.order, i) + claim.items[j].quantity
              <= Bought[claim.order][i].quantity
    /\ clerk' = [clerk EXCEPT ![k] = [job |-> "return", doc |-> r, claim |-> claim]]
    /\ UNCHANGED <<warehouse, goods, shifts, order, points, return, count, bulk, drift>>
FileReturn(k) ==
    /\ clerk[k].job = "return"
    /\ return' = [return EXCEPT ![clerk[k].doc] =
                    [status |-> "requested", claim |-> clerk[k].claim]]
    /\ Done(k)
    /\ UNCHANGED <<warehouse, goods, shifts, order, points, count, bulk, drift>>

\* updateCustomerReturnStatus to received, which it may be already.
RestockAll(w, r, items, o) ==
    LET put(v, item) ==
            RestoreToShelfOnly(v, r, Bought[o][item.line].sku, item.quantity, "return")
    IN  FoldLeft(put, w, items)
Restocked(w, r, items, o) ==
    LET put(v, item) ==
            IF ~item.keep THEN v
            ELSE RestoreToShelfOnly(v, r, Bought[o][item.line].sku, item.quantity, "return")
    IN  FoldLeft(put, w, items)
\* What really comes back is no more than the customer holds.
Arrived(acc, o, item) ==
    LET sku  == Bought[o][item.line].sku
        back == Min({item.quantity, acc.order[o].held[item.line]})
    IN  [order |-> [acc.order EXCEPT ![o].held[item.line] = @ - back],
         goods |-> IF item.keep THEN [acc.goods EXCEPT ![sku] = @ + back] ELSE acc.goods,
         drift |-> acc.drift \cup IF item.keep /\ back < item.quantity THEN {sku} ELSE {}]
Kept(items) == {j \in DOMAIN items : items[j].keep}
ReceiveReturn(r) ==
    LET items == return[r].claim.items
        o     == return[r].claim.order
        come  == FoldLeft(LAMBDA acc, item : Arrived(acc, o, item),
                          [order |-> order, goods |-> goods, drift |-> drift], items)
    IN  /\ CanBecome(return[r].status, "received") /\ MayMove
        /\ return' = [return EXCEPT ![r].status = "received"]
        /\ warehouse' = Restocked(warehouse, r, items, o)
        /\ order' = come.order /\ goods' = come.goods /\ drift' = come.drift
        /\ shifts' = Shifted({Bought[o][items[j].line].sku : j \in Kept(items)})
        /\ UNCHANGED <<points, count, bulk, clerk>>

CoversOrder(r) ==
    \A i \in Lines(return[r].claim.order) :
        Quantity(return[r].claim, i) >= Bought[return[r].claim.order][i].quantity
\* isOrderFullyReturned
FullyReturned(r) ==
    LET o == return[r].claim.order IN
    \A i \in Lines(o) : Claimed(Live, o, i) >= Bought[o][i].quantity
RefundReturn(r) ==
    /\ CanBecome(return[r].status, "refunded")
    /\ return' = [return EXCEPT ![r].status = "refunded"]
    /\ points' = IF FullyReturned(r) THEN [points EXCEPT ![return[r].claim.order] = "undone"]
                 ELSE points
    /\ UNCHANGED <<warehouse, goods, shifts, order, count, bulk, clerk, drift>>

RestockOnApproval(r, to) ==
    /\ to \notin {"received", "refunded"}
    /\ CanBecome(return[r].status, to)
    /\ return' = [return EXCEPT ![r].status = to]
    /\ warehouse' = IF to = "approved" /\ MayMove
                    THEN Restocked(warehouse, r, return[r].claim.items, return[r].claim.order)
                    ELSE warehouse
    /\ UNCHANGED <<goods, shifts, order, points, count, bulk, clerk, drift>>
SetReturnStatus(r, to) ==
    /\ to \notin {"received", "refunded"}     \* ReceiveReturn, RefundReturn
    /\ CanBecome(return[r].status, to)
    /\ return' = [return EXCEPT ![r].status = to]
    /\ UNCHANGED <<warehouse, goods, shifts, order, points, count, bulk, clerk, drift>>
-----------------------------------------------------------------------------
(* cycleCountService: a product with variants has a row for each of them. *)
Countable == {v \in Variants : ParentOf[v] \in Category}
                \cup {p \in Category : \A v \in Variants : ParentOf[v] # p}

CreateCount(c) ==
    /\ count[c].status = "none"
    /\ count' = [count EXCEPT ![c] = [status |-> "draft", counted |-> Nothing]]
    /\ UNCHANGED <<warehouse, goods, shifts, order, points, return, bulk, clerk, drift>>

\* assertDraft, on the pool.  Who records has counted the goods before.
IsDraft(c) == count[c].status = "draft"
Begin(k, c, job) ==
    /\ Free(k) /\ IsDraft(c)
    /\ clerk' = [clerk EXCEPT ![k] = job]
    /\ UNCHANGED <<warehouse, goods, shifts, order, points, return, count, bulk, drift>>
BeginRecord(k, c, sku) ==
    Begin(k, c, [job |-> "record", doc |-> c, sku |-> sku, quantity |-> goods[sku],
                 at |-> shifts[sku]])
RecordCount(k) ==
    /\ clerk[k].job = "record"
    /\ count' = [count EXCEPT ![clerk[k].doc].counted =
          With(@, clerk[k].sku, [quantity |-> clerk[k].quantity, at |-> clerk[k].at])]
    /\ Done(k)
    /\ UNCHANGED <<warehouse, goods, shifts, order, points, return, bulk, drift>>

\* Whether nobody moved a sku since it was counted.
Fresh(c, sku) == count[c].counted[sku].at = shifts[sku]
CompleteCount(k) ==
    LET c == clerk[k].doc
        counted == count[c].counted
        settle(w, sku) ==
            IF counted[sku].quantity = w.stock[sku] THEN w
            ELSE PutStock(w, c, sku, counted[sku].quantity,
                          counted[sku].quantity - w.stock[sku], "adjustment")
        undone == {sku \in DOMAIN counted :
                      ~Fresh(c, sku) /\ counted[sku].quantity # warehouse.stock[sku]}
    IN  /\ clerk[k].job = "complete" /\ MayMove
        /\ warehouse' = FoldLeft(settle, warehouse, SetToSeq(DOMAIN counted))
        /\ count' = [count EXCEPT ![c].status = "completed"]
        /\ drift' = (drift \ {sku \in DOMAIN counted : Fresh(c, sku)}) \cup undone
        /\ Done(k)
        /\ UNCHANGED <<goods, shifts, order, points, return, bulk>>
CancelCount(k) ==
    /\ clerk[k].job = "cancel"
    /\ count' = [count EXCEPT ![clerk[k].doc].status = "cancelled"]
    /\ Done(k)
    /\ UNCHANGED <<warehouse, goods, shifts, order, points, return, bulk, drift>>
-----------------------------------------------------------------------------
(* bulkStockService and the stock part of rollbackBatch *)
Adjusted(stock, adjustment) ==
    CASE adjustment.operation = "set_to"      -> adjustment.value
      [] adjustment.operation = "increase_by" -> stock + adjustment.value
      [] adjustment.operation = "decrease_by" -> stock - adjustment.value
\* previewStockAdjustment, validateStockRecord: the rows that can be applied.
ReadBulk(k, b, adjustment) ==
    LET new(sku) == Adjusted(warehouse.stock[sku], adjustment)
        rows == {sku \in adjustment.skus : new(sku) >= 0 /\ new(sku) # warehouse.stock[sku]}
    IN  /\ Free(k) /\ bulk[b].status = "none"
        /\ \A other \in Clerks : clerk[other].job = "bulk" => clerk[other].doc # b
        /\ clerk' = [clerk EXCEPT ![k] =
              [job |-> "bulk", doc |-> b, new |-> [sku \in rows |-> new(sku)],
               read |-> [sku \in rows |-> warehouse.stock[sku]]]]
        /\ UNCHANGED <<warehouse, goods, shifts, order, points, return, count, bulk, drift>>

\* applyOneStockRow: the row is locked, and what is written is what was worked
\* out before; the movement says how much that is by now.
ApplyRowSilently(w, b, job, sku) ==
    LET change == job.new[sku] - w.stock[sku]
    IN  IF change = 0 THEN w ELSE PutStock(w, b, sku, job.new[sku], change, "adjustment")
ApplyRow(w, b, job, sku) ==
    LET change == job.new[sku] - w.stock[sku]
        moved  == PutStock(w, b, sku, job.new[sku], change, "adjustment")
    IN  IF change = 0 THEN w ELSE IF change > 0 THEN Alert(moved, sku) ELSE moved
ApplyBulk(k) ==
    LET job  == clerk[k]
        b    == job.doc
        rows == DOMAIN job.new
        apply(w, sku) == ApplyRow(w, b, job, sku)
    IN  /\ job.job = "bulk" /\ MayMove
        /\ warehouse' = FoldLeft(apply, warehouse, SetToSeq(rows))
        /\ bulk' = [bulk EXCEPT ![b] =
              [status |-> "completed", rolls |-> 0,
               after |-> [sku \in {s \in rows : job.new[s] # warehouse.stock[s]} |->
                             job.new[sku]]]]
        \* the goods came or went that made somebody change the stock
        /\ Moved([sku \in rows |-> job.new[sku] - job.read[sku]],
                 {sku \in rows : job.read[sku] # warehouse.stock[sku]})
        /\ Done(k)
        /\ UNCHANGED <<order, points, return, count>>

LastChange(w, b, sku) ==
    LET mine == {i \in DOMAIN w.moves[b] : w.moves[b][i].sku = sku}
    IN  w.moves[b][Max(mine)].change
Unmoved(b) == {sku \in DOMAIN bulk[b].after : warehouse.stock[sku] = bulk[b].after[sku]}
RolledUp(status, all, rows) ==
    IF all = {} THEN status ELSE IF rows # {} THEN "rolled_back" ELSE "partially_rolled_back"
RolledStatus(status, all, rows) ==
    IF all = {} THEN status ELSE IF rows = all THEN "rolled_back" ELSE "partially_rolled_back"
\* rollbackBatch: rows the batch's latest movement still explains go back to
\* quantity_before; the others are conflicts.  Its own movements count as the
\* batch's when it is called again.
Rollback(b) ==
    LET rows      == Unmoved(b)
        change    == [sku \in rows |-> LastChange(warehouse, b, sku)]
        before    == [sku \in rows |-> bulk[b].after[sku] - change[sku]]
        undo(w, sku) == PutStock(w, b, sku, before[sku], -change[sku], "adjustment")
        all       == DOMAIN bulk[b].after
    IN  /\ bulk[b].status # "none" /\ bulk[b].rolls < MaxRolls /\ MayMove
        /\ warehouse' = FoldLeft(undo, warehouse, SetToSeq(rows))
        /\ Moved([sku \in rows |-> -change[sku]], {})
        /\ bulk' = [bulk EXCEPT ![b] =
              [status |-> RolledStatus(@.status, all, rows),
               rolls |-> @.rolls + 1,
               after |-> [sku \in all |-> IF sku \in rows THEN before[sku] ELSE @.after[sku]]]]
        /\ UNCHANGED <<order, points, return, count, clerk>>
-----------------------------------------------------------------------------
Init ==
    /\ warehouse = [stock |-> Stock0, left |-> NoBatchUsed, got |-> NoBatchUsed,
                     moves |-> [d \in Orders |-> <<>>],
                     waiting |-> Waiting0, hidden |-> {}]
    /\ goods = Goods0
    /\ shifts = [sku \in Skus |-> 0]
    /\ order = [o \in CustomerOrders |-> [status |-> "none", held |-> [i \in Lines(o) |-> 0]]]
    /\ points = [o \in CustomerOrders |-> "kept"]
    /\ return = [r \in Returns |-> [status |-> "none", claim |-> NoClaim]]
    /\ count = [c \in Counts |-> [status |-> "none", counted |-> Nothing]]
    /\ bulk = [b \in Bulks |-> [status |-> "none", rolls |-> 0, after |-> Nothing]]
    /\ clerk = [k \in Clerks |-> Idle]
    /\ drift = {sku \in Skus : Stock0[sku] # Goods0[sku]}

Counting(k) ==
    \/ \E c \in Counts :
          \/ \E sku \in Countable : BeginRecord(k, c, sku)
          \/ Begin(k, c, [job |-> "complete", doc |-> c])
          \/ Begin(k, c, [job |-> "cancel", doc |-> c])
    \/ RecordCount(k) \/ CompleteCount(k) \/ CancelCount(k)

Returning(r) ==
    \/ ReceiveReturn(r) \/ RefundReturn(r)
    \/ \E to \in DOMAIN ReturnAfter : SetReturnStatus(r, to)

Next ==
    \/ \E o \in CustomerOrders : Place(o) \/ Deliver(o) \/ CancelOrder(o)
    \/ \E k \in Clerks : Counting(k) \/ FileReturn(k) \/ ApplyBulk(k)
    \/ \E k \in Clerks, r \in Returns, claim \in Claims : CheckReturn(k, r, claim)
    \/ \E k \in Clerks, b \in Bulks, a \in Adjustments : ReadBulk(k, b, a)
    \/ \E r \in Returns : Returning(r)
    \/ \E c \in Counts : CreateCount(c)
    \/ \E b \in Bulks : Rollback(b)

Spec == Init /\ [][Next]_vars
-----------------------------------------------------------------------------
TypeOK ==
    /\ warehouse.stock \in [Skus -> Nat] /\ goods \in [Skus -> Nat]
    /\ shifts \in [Skus -> Nat]
    /\ \A o \in CustomerOrders :
          /\ order[o].status \in {"none", "placed", "delivered", "cancelled"}
          /\ order[o].held \in [Lines(o) -> Nat]
    /\ points \in [CustomerOrders -> {"kept", "undone"}]
    /\ \A r \in Returns : return[r].status \in DOMAIN ReturnAfter \cup {"none"}
    /\ \A c \in Counts : /\ count[c].status \in {"none", "draft", "completed", "cancelled"}
                         /\ DOMAIN count[c].counted \subseteq Countable
    /\ \A b \in Bulks : /\ bulk[b].status \in {"none", "completed", "rolled_back",
                                              "partially_rolled_back"}
                        /\ DOMAIN bulk[b].after \subseteq Skus
    /\ \A k \in Clerks : clerk[k].job \in {"none", "return", "record", "complete",
                                           "cancel", "bulk"}
    /\ drift \subseteq Skus

\* stock_movements explain every unit of stock, also where a handler writes the
\* stock as an absolute number (completeCycleCount, applyOneStockRow, rollbackBatch).
StockOnFile ==
    \A sku \in Skus :
        warehouse.stock[sku] =
            Stock0[sku] + MapThenSumSet(LAMBDA d : NetOf(warehouse, d, sku), Orders)

\* The stock is what lies on the shelves, of every sku of which nobody wrote a
\* number worked out before somebody else moved it, and of which no return put
\* back more than the customer still had; and a count nobody disturbed makes
\* up for whatever was wrong before (customerReturnService, cycleCountService,
\* bulkStockService, rollbackBatch).
ShelvesMatch == \A sku \in Skus \ drift : warehouse.stock[sku] = goods[sku]

\* Stock, movements and shelves agree, whichever clerks write over each other.
ShelvesExplained == TypeOK /\ StockOnFile /\ ShelvesMatch

\* customerReturnService.ts:9-11: nothing goes back to the shelf by a return
\* that was only asked for, approved, rejected or cancelled; what was received
\* went back in whole, once or more often, and only what can be sold again.
ReturnsMoveOnReceipt ==
    \A r \in Returns :
        LET claim == return[r].claim
            Sold(sku) == {j \in DOMAIN claim.items :
                             claim.items[j].keep
                             /\ Bought[claim.order][claim.items[j].line].sku = sku}
        IN  IF return[r].status \notin {"received", "refunded"} THEN warehouse.moves[r] = <<>>
            ELSE \E times \in 1..(MaxMoves + 1) : \A sku \in Skus :
                    NetOf(warehouse, r, sku) =
                        times * MapThenSumSet(LAMBDA j : claim.items[j].quantity, Sold(sku))

\* Once every line of an order is covered by returns that were refunded, its
\* points are undone, in whatever order and by however many returns
\* (updateCustomerReturnStatus, isOrderFullyReturned).
FullReturnsUndoPoints ==
    \A o \in CustomerOrders :
        (\A i \in Lines(o) : Claimed({"refunded"}, o, i) >= Bought[o][i].quantity)
            => points[o] = "undone"

\* A change that was rolled back once, as a whole, left nothing behind
\* (rollbackBatch), whatever was sold before or after.
RollbackUndoes ==
    \A b \in Bulks : bulk[b].status = "rolled_back" /\ bulk[b].rolls = 1 =>
        \A sku \in Skus : NetOf(warehouse, b, sku) = 0

\* Nobody is left waiting by an order, a return or a bulk change that brings a
\* product back.  completeCycleCount and rollbackBatch tell nobody.
WaitersAreTold ==
    [][\A d \in Orders \ Counts :
          /\ warehouse'.moves[d] # warehouse.moves[d]
          /\ d \in Bulks => bulk'[d].rolls = bulk[d].rolls
          => \A sku \in Skus : warehouse'.stock[sku] > warehouse.stock[sku]
                                  => sku \notin warehouse'.waiting]_vars
=============================================================================
