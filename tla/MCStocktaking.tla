---------------------------- MODULE MCStocktaking ----------------------------
(* Small instances of Stocktaking for TLC. *)
EXTENDS Stocktaking, TLC

CONSTANTS tea, gift, big, o1, r1, r2, k1, b1, ann, bob

\* Tea has no variant, the gift has one.  One big gift more is on file than
\* there is, and somebody waits for it.
GiftOfBig == big :> gift
OnFile    == tea :> 1 @@ gift :> 0 @@ big :> 2
OnShelf   == tea :> 1 @@ gift :> 0 @@ big :> 1

NoRow  == [b \in {} |-> 0]
NoRank == [b \in {} |-> 0]
Of(sku, quantity) == [sku |-> sku, quantity |-> quantity]
TeaAndBig == o1 :> <<Of(tea, 1), Of(big, 1)>>

Back(line, keep) == [line |-> line, quantity |-> 1, keep |-> keep]
Claim(items) == [order |-> o1, items |-> items]
EitherLine == {Claim(<<Back(1, TRUE)>>), Claim(<<Back(2, TRUE), Back(2, FALSE)>>)}

Change(skus, operation, value) == [skus |-> skus, operation |-> operation, value |-> value]
UpAndDown == {Change({tea, big}, "increase_by", 1), Change({tea}, "decrease_by", 1)}

Symmetry == Permutations({ann, bob}) \cup Permutations({r1, r2})
=============================================================================
