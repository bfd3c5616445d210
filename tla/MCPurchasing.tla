---------------------------- MODULE MCPurchasing ----------------------------
(* Small instances of Purchasing for TLC. *)
EXTENDS Purchasing, TLC

CONSTANTS milk, litre, old, new, more, bottle, p1, s1, c1, shed

\* Milk has one batch at the start and two that may come; the litre, a variant,
\* is out of stock and one batch of it may come.
MilkOfLitre == litre :> milk
BatchSkus   == old :> milk @@ new :> milk @@ more :> milk @@ bottle :> litre
ByExpiry    == old :> 1 @@ new :> 3 @@ more :> 2 @@ bottle :> 4
Shelves     == milk :> 2 @@ litre :> 0
InBatch     == old :> 2 @@ new :> 0 @@ more :> 0 @@ bottle :> 0

Of(sku, quantity) == [sku |-> sku, quantity |-> quantity]
In(batch, quantity) == [batch |-> batch, quantity |-> quantity]
Back(sku, batch, quantity) == [sku |-> sku, batch |-> batch, quantity |-> quantity]

UpAndDown   == {1, -1}
WithTwins   == {<<Of(milk, 1), Of(litre, 1)>>, <<Of(milk, 1), Of(milk, 1)>>}
ComesIn     == {<<In(new, 1)>>, <<In(more, 1)>>, <<In(bottle, 1)>>,
                <<In(more, 1), In(new, 1)>>}
GoesBack    == {<<Back(milk, NoBatch, 2), Back(litre, NoBatch, 1)>>,
                <<Back(milk, old, 2)>>}
=============================================================================
