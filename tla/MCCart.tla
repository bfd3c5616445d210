------------------------------- MODULE MCCart -------------------------------
(* Small instances of Cart for TLC. *)
EXTENDS Cart, TLC

CONSTANTS milk, rice, ten, ship, near, far

Prices == milk :> 25 @@ rice :> 35
ById   == milk :> 1 @@ rice :> 2

BuyGetRice == [type |-> "buy", trigger |-> {milk}, reward |-> {rice}, buy |-> 1, get |-> 1,
               percent |-> 50, atMost |-> 1]
Pair       == [type |-> "bundle", items |-> <<[group |-> {milk}, quantity |-> 1],
                                              [group |-> {rice}, quantity |-> 1]>>,
               price |-> 52, atMost |-> 0]
Grocery    == [type |-> "buy", trigger |-> {milk, rice}, reward |-> {}, buy |-> 1, get |-> 1,
               percent |-> 30, atMost |-> 0]
ThreePromotions == <<BuyGetRice, Pair, Grocery>>

Terms == ten  :> [percent |-> 15, fixed |-> 0, scope |-> {milk, rice}, minOrder |-> 50,
                  minQuantity |-> 0, free |-> FALSE]
      @@ ship :> [percent |-> 0, fixed |-> 40, scope |-> {rice}, minOrder |-> 0,
                  minQuantity |-> 1, free |-> TRUE]
Fees  == near :> 12 @@ far :> 30
=============================================================================
