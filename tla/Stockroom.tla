------------------------------ MODULE Stockroom ------------------------------
(***************************************************************************)
(* The warehouse as the services see it: products.stock and                *)
(* product_variants.stock, the batches that goods receiving made of some   *)
(* of it, the stock_movements of each order or other document with their   *)
(* batch_consumptions, and a customer waiting for products to come back.   *)
(* A warehouse is a record, so that a transaction that moves several lines *)
(* is a composition of the services' operations.                           *)
(***************************************************************************)
EXTENDS Integers, FiniteSetsExt, SequencesExt

CONSTANTS
    Orders,       \* orders, and the other documents that move stock
    Products,
    Variants,     \* variants of products, with a stock of their own
    ParentOf,     \* the product of a variant
    Batches,      \* rows of inventory_batches
    SkuOf,        \* the product or the variant a batch is of
    FefoRank      \* place of a batch in ORDER BY expiry_date NULLS LAST, created_at

Skus == Products \cup Variants

ASSUME StockroomAssumption ==
    /\ IsFiniteSet(Batches) /\ Products \cap Variants = {}
    /\ ParentOf \in [Variants -> Products]
    /\ SkuOf \in [Batches -> Skus]
    /\ FefoRank \in [Batches -> Nat]
    /\ \A b, d \in Batches : FefoRank[b] = FefoRank[d] => b = d

\* stock_movements.product_id: a variant's movement is filed under its parent.
ProductOf(sku) == IF sku \in Variants THEN ParentOf[sku] ELSE sku

\* A batch is a row once something was received in it (quantity_received).
Rows(w) == {b \in Batches : w.got[b] > 0}
BatchesOf(w, sku) == {b \in Rows(w) : SkuOf[b] = sku}
InBatches(w, S) == SumFunctionOnSet(w.left, S)

\* lockProductsForOrder, lockVariantForOrder: what may be sold is what the
\* batches that have not expired hold, or the plain stock if there is no batch.
Sellable(w, sku, expired) ==
    IF BatchesOf(w, sku) = {} THEN w.stock[sku]
    ELSE InBatches(w, BatchesOf(w, sku) \ expired)

\* consumeBatchesFefo: nearest expiry first; what the batches cannot cover is
\* let go.
\* consumeBatchesForWriteOff: expired batches too, which come first anyway.
FefoWithExpired(w, sku, quantity, expired) ==
    [b \in Batches |->
        IF b \notin BatchesOf(w, sku) THEN 0
        ELSE LET earlier == {d \in BatchesOf(w, sku) : FefoRank[d] < FefoRank[b]}
                 open    == quantity - InBatches(w, earlier)
             IN  IF open <= 0 THEN 0 ELSE Min({open, w.left[b]})]
Fefo(w, sku, quantity, expired) ==
    [b \in Batches |->
        IF b \notin BatchesOf(w, sku) \ expired THEN 0
        ELSE LET earlier == {d \in BatchesOf(w, sku) \ expired : FefoRank[d] < FefoRank[b]}
                 open    == quantity - InBatches(w, earlier)
             IN  IF open <= 0 THEN 0 ELSE Min({open, w.left[b]})]

Record(w, order, sku, type, change, taken) ==
    [w.moves EXCEPT ![order] =
        Append(@, [sku |-> sku, type |-> type, change |-> change, taken |-> taken])]

\* deductStockForOrder, deductVariantStock (whose guard is CanSell).
CanSell(w, sku, quantity) == w.stock[sku] >= quantity
Sell(w, order, sku, quantity, expired) ==
    LET taken == Fefo(w, sku, quantity, expired)
    IN  [w EXCEPT !.stock[sku] = @ - quantity,
                  !.left = [b \in Batches |-> w.left[b] - taken[b]],
                  !.moves = Record(w, order, sku, "sale", -quantity, taken)]

\* The sale restoreProductStock, or restoreVariantStock, takes for the one it
\* undoes: the first of the order under the product, or of the variant.
Sales(w, order, sku) ==
    {i \in DOMAIN w.moves[order] :
        LET move == w.moves[order][i] IN
        /\ move.type = "sale"
        /\ IF sku \in Variants THEN move.sku = sku ELSE ProductOf(move.sku) = sku}

\* notifyBackInStockIfNeeded: whoever waits for sku is told, once.
Alert(w, sku) ==
    IF w.stock[sku] > 0 /\ sku \notin w.hidden
    THEN [w EXCEPT !.waiting = @ \ {sku}] ELSE w

NoBatchUsed == [b \in Batches |-> 0]
\* A change of the stock that leaves the batches alone.
MoveStock(w, document, sku, change, type) ==
    [w EXCEPT !.stock[sku] = @ + change,
              !.moves = Record(w, document, sku, type, change, NoBatchUsed)]

RestoreToShelfOnly(w, order, sku, quantity, type) ==
    Alert(MoveStock(w, order, sku, quantity, type), sku)
Restore(w, order, sku, quantity, type) ==
    LET sales == Sales(w, order, sku)
        back  == IF sales = {} THEN NoBatchUsed
                 ELSE w.moves[order][Min(sales)].taken
        moved == MoveStock(w, order, sku, quantity, type)
    IN  Alert([moved EXCEPT !.left = [b \in Batches |-> @[b] + back[b]]], sku)

\* What the movements of an order add up to on a product or variant.
NetOf(w, order, sku) ==
    MapThenSumSet(LAMBDA i : w.moves[order][i].change,
                  {i \in DOMAIN w.moves[order] : w.moves[order][i].sku = sku})
=============================================================================
