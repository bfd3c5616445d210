----------------------------- MODULE Purchasing -----------------------------
(***************************************************************************)
(* How goods come in and go back: purchase orders, the receipts that make  *)
(* batches of them, returns to the supplier and write-offs, while customers *)
(* buy from the same batches and wait for what is out of stock.  Every     *)
(* handler is one transaction on locked rows, hence one action.            *)
(***************************************************************************)
EXTENDS Stockroom

CONSTANTS
    PurchaseOrders, SupplierReturns, CustomerOrders, Shed, \* Stockroom's Orders:
                   \* the Shed stands for movements made by hand
    Baskets,       \* what is ordered: sequences of [sku, quantity]
    Deliveries,    \* what arrives: sequences of [batch, quantity]
    Claims,        \* what is returned: sequences of [sku, batch, quantity]
    NoBatch,       \* supplier_return_items.batch_id when it is null
    Portions,      \* quantities bought, or written off by hand
    Changes,       \* quantities moved by hand
    MaxOrdered,    \* bound: ordered quantity of a line
    MaxMoves,      \* bound: movements before the last document that moves stock
    Wanted,        \* the skus a customer waits for
    Stock0, Left0, \* the warehouse at the start
    Perishable     \* batches whose expiry date comes within the behaviour

Documents == <<PurchaseOrders, SupplierReturns, CustomerOrders, {Shed}>>

ASSUME PurchasingAssumption ==
    /\ IsFiniteSet(Orders)
    /\ Orders = UNION {Documents[i] : i \in DOMAIN Documents}
    /\ \A i, j \in DOMAIN Documents : i # j => Documents[i] \cap Documents[j] = {}
    /\ NoBatch \notin Batches /\ MaxOrdered \in Nat /\ MaxMoves \in Nat
    /\ Stock0 \in [Skus -> Nat] /\ Left0 \in [Batches -> Nat]
    /\ Portions \subseteq Nat \ {0} /\ Changes \subseteq Int \ {0}
    /\ Perishable \subseteq Batches
    /\ Wanted \subseteq Skus
    /\ Baskets \subseteq Seq([sku : Skus, quantity : Nat \ {0}])
    /\ Deliveries \subseteq Seq([batch : Batches, quantity : Nat \ {0}])
    /\ \A delivery \in Deliveries : IsInjective([k \in DOMAIN delivery |-> delivery[k].batch])
    /\ Claims \subseteq Seq([sku : Skus, batch : Batches \cup {NoBatch}, quantity : Nat \ {0}])

VARIABLES
    po,        \* purchase_orders and their items
    return,    \* supplier_returns and their items
    warehouse,
    expired,   \* the batches whose expiry_date is past
    latest,    \* the batch whose unit_cost is the current cost of a sku
    unfiled,   \* what a cancelled return put back, of which there is no movement
    spoilt,    \* skus whose batches gave less than a write-off filed
    doubled    \* purchase orders with a receipt that named an item twice

vars == <<po, return, warehouse, expired, latest, unfiled, spoilt, doubled>>

OrderAfter == [draft |-> {"submitted", "cancelled"}, submitted |-> {"cancelled"},
               partially_received |-> {"cancelled"},
               received |-> {}, cancelled |-> {}]
ReturnAfter == [draft |-> {"approved", "cancelled"},
                approved |-> {"sent", "cancelled"},
                sent |-> {"completed"}, completed |-> {}, cancelled |-> {}]
CanBecome(after, from, to) == from \in DOMAIN after /\ (to = from \/ to \in after[from])

MayMove == MapThenSumSet(LAMBDA d : Len(warehouse.moves[d]), Orders) < MaxMoves
-----------------------------------------------------------------------------
(* purchaseOrderService *)
Line(item) == [sku |-> item.sku, ordered |-> item.quantity, received |-> 0]

CreatePurchaseOrder(p, basket) ==
    /\ po[p].status = "none"
    /\ po' = [po EXCEPT ![p] = [status |-> "draft",
                               lines |-> [i \in DOMAIN basket |-> Line(basket[i])]]]
    /\ UNCHANGED <<return, warehouse, expired, latest, unfiled, spoilt, doubled>>

\* updateDraftPurchaseOrder: all the lines are replaced, in a draft only.
UpdateDraft(p, basket) ==
    /\ po[p].status = "draft"
    /\ po' = [po EXCEPT ![p].lines = [i \in DOMAIN basket |-> Line(basket[i])]]
    /\ UNCHANGED <<return, warehouse, expired, latest, unfiled, spoilt, doubled>>

\* mergeRecommendationsIntoDraftPurchaseOrder: of the lines of one sku one is
\* kept, and the kept line of the product, or a new one, gets the quantity.
OnePerSku(lines) ==
    {kept \in SUBSET DOMAIN lines :
        \A i \in DOMAIN lines : \E j \in kept :
            {k \in kept : lines[k].sku = lines[i].sku} = {j}}
Merged(lines, kept, product, quantity) ==
    LET sparse == {lines[i] : i \in kept}
        mine   == {line \in sparse : line.sku = product}
        grown  == IF mine = {} THEN {Line([sku |-> product, quantity |-> quantity])}
                  ELSE {[line EXCEPT !.ordered = @ + quantity] : line \in mine}
    IN  SetToSeq((sparse \ mine) \cup grown)
MergeRecommendation(p, product, quantity) ==
    /\ po[p].status = "draft"
    /\ \A i \in DOMAIN po[p].lines : po[p].lines[i].ordered + quantity <= MaxOrdered
    /\ \E kept \in OnePerSku(po[p].lines) :
          po' = [po EXCEPT ![p].lines = Merged(@, kept, product, quantity)]
    /\ UNCHANGED <<return, warehouse, expired, latest, unfiled, spoilt, doubled>>

SetOrderStatus(p, to) ==
    /\ CanBecome(OrderAfter, po[p].status, to)
    /\ po' = [po EXCEPT ![p].status = to]
    /\ UNCHANGED <<return, warehouse, expired, latest, unfiled, spoilt, doubled>>
-----------------------------------------------------------------------------
(* receiveGoodsForPurchaseOrder *)
\* poItemByKey: for each sku one of its lines, which one the query's order says.
Keys(lines) ==
    LET ordered == {lines[i].sku : i \in DOMAIN lines}
    IN  {key \in [ordered -> DOMAIN lines] : \A sku \in ordered : lines[key[sku]].sku = sku}

AdmittedAgain(lines, key, delivery) ==
    \A k \in DOMAIN delivery :
        LET sku == SkuOf[delivery[k].batch] IN
        sku \in DOMAIN key /\ delivery[k].quantity <= lines[key[sku]].ordered
\* Each item is compared with what is open before the receipt.
Admitted(lines, key, delivery) ==
    \A k \in DOMAIN delivery :
        LET sku == SkuOf[delivery[k].batch] IN
        /\ sku \in DOMAIN key
        /\ delivery[k].quantity <= lines[key[sku]].ordered - lines[key[sku]].received

\* The lines after the items of delivery were added to theirs.
Covered(lines, key, delivery) ==
    [i \in DOMAIN lines |->
        IF key[lines[i].sku] # i THEN lines[i]
        ELSE [lines[i] EXCEPT !.received = @ + MapThenSumSet(
                LAMBDA k : delivery[k].quantity,
                {k \in DOMAIN delivery : SkuOf[delivery[k].batch] = lines[i].sku})]]
ReceiveSilently(w, p, item) ==
    [MoveStock(w, p, SkuOf[item.batch], item.quantity, "restock")
        EXCEPT !.got[item.batch] = item.quantity, !.left[item.batch] = item.quantity]
ReceiveItem(w, p, item) ==
    LET sku   == SkuOf[item.batch]
        moved == MoveStock(w, p, sku, item.quantity, "restock")
    IN  Alert([moved EXCEPT !.got[item.batch] = item.quantity,
                            !.left[item.batch] = item.quantity], sku)

StatusFor(lines, status) ==
    IF \A i \in DOMAIN lines : lines[i].received >= lines[i].ordered THEN "received"
    ELSE IF \E i \in DOMAIN lines : lines[i].received > 0 THEN "partially_received"
    ELSE status

\* A batch is a new row of its own, so its name is free and its sku given.
Receive(p, delivery, key) ==
    LET lines == Covered(po[p].lines, key, delivery)
        put(w, item) == ReceiveItem(w, p, item)
    IN  /\ po[p].status \in {"submitted", "partially_received"}
        /\ MayMove
        /\ \A k \in DOMAIN delivery : delivery[k].batch \notin Rows(warehouse)
        /\ Admitted(po[p].lines, key, delivery)
        /\ po' = [po EXCEPT ![p] = [status |-> StatusFor(lines, po[p].status),
                                   lines |-> lines]]
        /\ warehouse' = FoldLeft(put, warehouse, delivery)
        /\ latest' = FoldLeft(LAMBDA f, item : [f EXCEPT ![SkuOf[item.batch]] = item.batch],
                              latest, delivery)
        /\ doubled' = IF \E j, k \in DOMAIN delivery :
                             j # k /\ SkuOf[delivery[j].batch] = SkuOf[delivery[k].batch]
                      THEN doubled \cup {p} ELSE doubled
        /\ UNCHANGED <<return, expired, unfiled, spoilt>>
-----------------------------------------------------------------------------
(* writeOffStockWithClient *)
TakenUnexpired(w, sku, batch, quantity) ==
    IF batch = NoBatch THEN Fefo(w, sku, quantity, expired)
    ELSE [NoBatchUsed EXCEPT ![batch] = quantity]
\* A batch that is named is emptied at most, and only if it is of the sku; the
\* consumption on file is of the whole quantity either way.
Taken(w, sku, batch, quantity) ==
    IF batch = NoBatch THEN FefoWithExpired(w, sku, quantity, {})
    ELSE [NoBatchUsed EXCEPT ![batch] = quantity]
LeftAfter(w, sku, taken) ==
    [b \in Batches |-> IF SkuOf[b] # sku THEN w.left[b]
                       ELSE Max({w.left[b] - taken[b], 0})]
WriteOff(w, document, sku, batch, quantity, type) ==
    LET taken == Taken(w, sku, batch, quantity)
    IN  [w EXCEPT !.stock[sku] = @ - quantity,
                  !.left = LeftAfter(w, sku, taken),
                  !.moves = Record(w, document, sku, type, -quantity, taken)]

\* The skus whose batches gave less, or others, than was filed.
Short(w, sku, batch, quantity) ==
    IF batch = NoBatch \/ (SkuOf[batch] = sku /\ w.left[batch] >= quantity) THEN {}
    ELSE {sku, SkuOf[batch]}

WriteOffByHand(sku, batch, quantity) ==
    /\ MayMove /\ warehouse.stock[sku] >= quantity
    /\ batch \in Rows(warehouse) \cup {NoBatch}
    /\ warehouse' = WriteOff(warehouse, Shed, sku, batch, quantity, "damage")
    /\ spoilt' = spoilt \cup Short(warehouse, sku, batch, quantity)
    /\ UNCHANGED <<po, return, expired, latest, unfiled, doubled>>
-----------------------------------------------------------------------------
(* supplierReturnService *)
CreateReturn(r, claim) ==
    /\ return[r].status = "none"
    /\ \A i \in DOMAIN claim : claim[i].batch \in Rows(warehouse) \cup {NoBatch}
    /\ return' = [return EXCEPT ![r] =
          [status |-> "draft",
           items |-> [i \in DOMAIN claim |->
              [sku |-> claim[i].sku, batch |-> claim[i].batch,
               quantity |-> claim[i].quantity, move |-> 0]]]]
    /\ UNCHANGED <<po, warehouse, expired, latest, unfiled, spoilt, doubled>>

\* The items of r written off, in the order the query gives them, until one
\* cannot be: the warehouse and the items as they then are, and whether all were.
WriteOffItem(r, items, i, acc) ==
    LET item == items[i] IN
    IF ~acc.all \/ acc.w.stock[item.sku] < item.quantity
    THEN [acc EXCEPT !.all = FALSE]
    ELSE [w |-> WriteOff(acc.w, r, item.sku, item.batch, item.quantity, "supplier_return"),
          items |-> [acc.items EXCEPT ![i].move = Len(acc.w.moves[r]) + 1],
          short |-> acc.short \cup Short(acc.w, item.sku, item.batch, item.quantity),
          all |-> TRUE]
WrittenOff(r, order) ==
    FoldLeft(LAMBDA acc, i : WriteOffItem(r, return[r].items, i, acc),
             [w |-> warehouse, items |-> return[r].items, short |-> {}, all |-> TRUE],
             order)

ApproveKeepingMove(r, order) ==
    LET done == WrittenOff(r, order) IN
    /\ return[r].status = "draft" /\ MayMove
    /\ warehouse' = done.w
    /\ return' = [return EXCEPT ![r].status = IF done.all THEN "approved" ELSE "draft"]
    /\ spoilt' = spoilt \cup done.short
    /\ UNCHANGED <<po, expired, latest, unfiled, doubled>>

\* A failed write-off is a value returned from the transaction, which commits.
ApproveReturn(r, order) ==
    LET done == WrittenOff(r, order) IN
    /\ return[r].status = "draft" /\ MayMove
    /\ warehouse' = done.w
    /\ return' = [return EXCEPT ![r] =
          [status |-> IF done.all THEN "approved" ELSE "draft", items |-> done.items]]
    /\ spoilt' = spoilt \cup done.short
    /\ UNCHANGED <<po, expired, latest, unfiled, doubled>>
\* approved -> cancelled: stock and batches go up again, by what was filed.
PutBack(w, r, item) ==
    IF item.move = 0 THEN w
    ELSE Alert([w EXCEPT !.stock[item.sku] = @ + item.quantity,
                         !.left = [b \in Batches |->
                                      @[b] + w.moves[r][item.move].taken[b]]],
               item.sku)
CancelApproved(r) ==
    LET items == return[r].items
        put(w, item) == PutBack(w, r, item)
    IN  /\ warehouse' = FoldLeft(put, warehouse, items)
        /\ unfiled' = [sku \in Skus |-> unfiled[sku] +
              MapThenSumSet(LAMBDA i : items[i].quantity,
                            {i \in DOMAIN items : items[i].sku = sku /\ items[i].move # 0})]
        /\ return' = [return EXCEPT ![r].status = "cancelled"]
        /\ UNCHANGED <<po, expired, latest, spoilt, doubled>>
SetReturnStatus(r, to) ==
    /\ CanBecome(ReturnAfter, return[r].status, to)
    /\ ~(return[r].status = "draft" /\ to = "approved")   \* ApproveReturn
    /\ IF return[r].status = "approved" /\ to = "cancelled"
       THEN CancelApproved(r)
       ELSE /\ return' = [return EXCEPT ![r].status = to]
            /\ UNCHANGED <<po, warehouse, expired, latest, unfiled, spoilt, doubled>>
-----------------------------------------------------------------------------
(* Customers, the stock screen and the calendar *)
Buy(o, sku, quantity) ==
    /\ MayMove /\ warehouse.moves[o] = <<>>
    /\ Sellable(warehouse, sku, expired) >= quantity /\ CanSell(warehouse, sku, quantity)
    /\ warehouse' = Sell(warehouse, o, sku, quantity, expired)
    /\ UNCHANGED <<po, return, expired, latest, unfiled, spoilt, doubled>>
CancelPurchase(o) ==
    /\ Len(warehouse.moves[o]) = 1
    /\ LET sale == warehouse.moves[o][1]
       IN  warehouse' = Restore(warehouse, o, sale.sku, -sale.change, "cancel_restore")
    /\ UNCHANGED <<po, return, expired, latest, unfiled, spoilt, doubled>>

\* POST /admin/stock-movements
MoveByHand(sku, change) ==
    /\ MayMove /\ warehouse.stock[sku] + change >= 0
    /\ warehouse' = Alert(MoveStock(warehouse, Shed, sku, change, "adjustment"), sku)
    /\ UNCHANGED <<po, return, expired, latest, unfiled, spoilt, doubled>>

\* backInStock routes: any customer, whatever the stock is.
Subscribe(sku) ==
    /\ sku \notin warehouse.waiting
    /\ warehouse' = [warehouse EXCEPT !.waiting = @ \cup {sku}]
    /\ UNCHANGED <<po, return, expired, latest, unfiled, spoilt, doubled>>

Expire(b) ==
    /\ b \in Perishable \ expired
    /\ \A d \in Perishable : FefoRank[d] < FefoRank[b] => d \in expired
    /\ expired' = expired \cup {b}
    /\ UNCHANGED <<po, return, warehouse, latest, unfiled, spoilt, doubled>>
-----------------------------------------------------------------------------
Init ==
    /\ po = [p \in PurchaseOrders |-> [status |-> "none", lines |-> <<>>]]
    /\ return = [r \in SupplierReturns |-> [status |-> "none", items |-> <<>>]]
    /\ warehouse = [stock |-> Stock0, left |-> Left0, got |-> Left0,
                     moves |-> [d \in Orders |-> <<>>],
                     waiting |-> {}, hidden |-> {}]
    /\ expired = {}
    /\ latest = [sku \in Skus |-> NoBatch]
    /\ unfiled = [sku \in Skus |-> 0]
    /\ spoilt = {} /\ doubled = {}

Buying(p) ==
    \/ \E basket \in Baskets : CreatePurchaseOrder(p, basket) \/ UpdateDraft(p, basket)
    \/ \E product \in Products : MergeRecommendation(p, product, 1)
    \/ \E to \in DOMAIN OrderAfter : SetOrderStatus(p, to)
    \/ \E delivery \in Deliveries, key \in Keys(po[p].lines) : Receive(p, delivery, key)

Returning(r) ==
    \/ \E claim \in Claims : CreateReturn(r, claim)
    \/ \E order \in SetToSeqs(DOMAIN return[r].items) : ApproveReturn(r, order)
    \/ \E to \in DOMAIN ReturnAfter : SetReturnStatus(r, to)

Next ==
    \/ \E p \in PurchaseOrders : Buying(p)
    \/ \E r \in SupplierReturns : Returning(r)
    \/ \E sku \in Skus, quantity \in Portions :
          \/ \E o \in CustomerOrders : Buy(o, sku, quantity)
          \/ \E b \in Batches \cup {NoBatch} : WriteOffByHand(sku, b, quantity)
    \/ \E o \in CustomerOrders : CancelPurchase(o)
    \/ \E sku \in Skus, change \in Changes : MoveByHand(sku, change)
    \/ \E sku \in Wanted : Subscribe(sku)
    \/ \E b \in Batches : Expire(b)

Spec == Init /\ [][Next]_vars
-----------------------------------------------------------------------------
TypeOK ==
    /\ \A p \in PurchaseOrders :
          /\ po[p].status \in DOMAIN OrderAfter \cup {"none"}
          /\ po[p].lines \in Seq([sku : Skus, ordered : Nat, received : Nat])
    /\ \A r \in SupplierReturns :
          /\ return[r].status \in DOMAIN ReturnAfter \cup {"none"}
          /\ return[r].items \in Seq([sku : Skus, batch : Batches \cup {NoBatch},
                                     quantity : Nat, move : Nat])
    /\ warehouse.stock \in [Skus -> Nat] /\ warehouse.left \in [Batches -> Nat]
    /\ warehouse.got \in [Batches -> Nat] /\ warehouse.waiting \subseteq Skus
    /\ expired \subseteq Perishable /\ spoilt \subseteq Skus
    /\ latest \in [Skus -> Batches \cup {NoBatch}]
    /\ unfiled \in [Skus -> Nat] /\ doubled \subseteq PurchaseOrders

\* stock_movements explain every unit of stock, through receipts, sales,
\* cancellations, write-offs and returns; what updateSupplierReturnStatus puts
\* back for a cancelled return is the one change without a movement.
StockOnFile ==
    \A sku \in Skus :
        warehouse.stock[sku] = Stock0[sku] + unfiled[sku]
            + MapThenSumSet(LAMBDA d : NetOf(warehouse, d, sku), Orders)

\* The lines of a purchase order, its receipts and its status tell one story
\* (receiveGoodsForPurchaseOrder, updateDraftPurchaseOrder): what was received
\* of a sku is what its receipts put on the shelf, and the status says whether
\* nothing, something or everything has come.
OrdersMatchReceipts ==
    \A p \in PurchaseOrders :
        LET lines   == po[p].lines
            Came(i) == lines[i].received > 0
            Full(i) == lines[i].received >= lines[i].ordered
        IN  /\ \A sku \in Skus :
                  NetOf(warehouse, p, sku) = MapThenSumSet(
                      LAMBDA i : lines[i].received, {i \in DOMAIN lines : lines[i].sku = sku})
            /\ po[p].status \in {"draft", "submitted"} => \A i \in DOMAIN lines : ~Came(i)
            /\ po[p].status = "partially_received" =>
                  (\E i \in DOMAIN lines : Came(i)) /\ (\E i \in DOMAIN lines : ~Full(i))
            /\ po[p].status = "received" => \A i \in DOMAIN lines : Full(i)

\* No more is received of a line than was ordered, over any number of receipts,
\* unless one receipt names the item twice (goodsReceivingService.ts:93-97).
WithinOrdered ==
    \A p \in PurchaseOrders \ doubled : \A i \in DOMAIN po[p].lines :
        po[p].lines[i].received <= po[p].lines[i].ordered

\* What the supplier is told was received is what came, and never too much.
ReceiptsAddUp == OrdersMatchReceipts /\ WithinOrdered

\* Each line of a return that is approved, or on its way, has the movement that
\* took its units and no other line's: what a cancellation will undo.
ApprovedLinesHaveMoves ==
    \A r \in SupplierReturns :
        return[r].status \in {"approved", "sent", "completed"} =>
            LET items == return[r].items IN
            /\ \A i \in DOMAIN items :
                  /\ items[i].move \in DOMAIN warehouse.moves[r]
                  /\ warehouse.moves[r][items[i].move].sku = items[i].sku
                  /\ warehouse.moves[r][items[i].move].change = -items[i].quantity
            /\ \A i, j \in DOMAIN items : items[i].move = items[j].move => i = j

\* Batches and stock are the same units (stockWriteOffService.ts:83-85), through
\* receipts, sales and their cancellations, write-offs and returns, for a sku
\* that was never moved by hand and whose named batches held what was asked.
MovedByHand(sku) ==
    \E i \in DOMAIN warehouse.moves[Shed] :
        LET move == warehouse.moves[Shed][i] IN
        move.sku = sku /\ move.type = "adjustment"
BatchesMatchStock ==
    \A sku \in Skus \ spoilt :
        /\ ~MovedByHand(sku)
        /\ Stock0[sku] = MapThenSumSet(LAMBDA b : Left0[b], {b \in Batches : SkuOf[b] = sku})
        => InBatches(warehouse, BatchesOf(warehouse, sku)) = warehouse.stock[sku]

\* Nor does a batch ever hold more than was received in it.
BatchesWithinReceipts ==
    \A b \in Batches : SkuOf[b] \notin spoilt => warehouse.left[b] <= warehouse.got[b]

\* Every unit of stock and of every batch has a movement that explains it,
\* through every operation here, failed and repeated ones included.
StockExplained ==
    TypeOK /\ StockOnFile /\ BatchesMatchStock /\ BatchesWithinReceipts

\* Nobody is left waiting by the very step that brings a product back,
\* whichever handler it is (notifyBackInStockIfNeeded and its callers).
WaitersAreTold ==
    [][\A sku \in Skus :
          warehouse'.stock[sku] > warehouse.stock[sku] => sku \notin warehouse'.waiting]_vars
=============================================================================
