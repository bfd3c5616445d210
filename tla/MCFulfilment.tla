---------------------------- MODULE MCFulfilment ----------------------------
(* Small instances of Fulfilment for TLC. *)
EXTENDS Fulfilment, TLC

CONSTANTS milk, rice, litre, soon, later, sack, o1, o2

MilkOfLitre == litre :> milk

\* Milk is in two batches, rice in one; the litre is a variant without any.
BatchSkus == soon :> milk @@ later :> milk @@ sack :> rice
ByExpiry  == soon :> 1 @@ later :> 2 @@ sack :> 3
Shelves   == milk :> 3 @@ rice :> 2 @@ litre :> 1
InBatch   == soon :> 1 @@ later :> 2 @@ sack :> 2

\* The same with one bag of rice: two orders want it as a replacement.
LastBag    == [Shelves EXCEPT ![rice] = 1]
LastInBatch == [InBatch EXCEPT ![sack] = 1]

Of(sku, quantity) == [sku |-> sku, quantity |-> quantity]
Two   == {<<Of(milk, 2)>>, <<Of(rice, 1), Of(litre, 1)>>}
Mixed == {<<Of(rice, 1), Of(litre, 1)>>}
Symmetry == Permutations(Orders)
=============================================================================
