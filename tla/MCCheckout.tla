----------------------------- MODULE MCCheckout -----------------------------
(* Small instances of Checkout for TLC. *)
EXTENDS Checkout, TLC

CONSTANTS r1, r2, r3, milk, rice, ten, five, ana, bob

\* Two carts that list the same products in opposite orders, and a small one.
Both    == [cart |-> <<milk, rice>>, code |-> ten, customer |-> ana, redeems |-> FALSE]
Swapped == [cart |-> <<rice, milk>>, code |-> five, customer |-> ana, redeems |-> TRUE]
One     == [cart |-> <<milk>>, code |-> NoCode, customer |-> bob, redeems |-> TRUE]

\* Carts without a common product: nothing but codes and points to meet at.
MilkTen  == [cart |-> <<milk>>, code |-> ten, customer |-> ana, redeems |-> TRUE]
RiceTen  == [cart |-> <<rice>>, code |-> ten, customer |-> ana, redeems |-> FALSE]
RiceFive == [cart |-> <<rice>>, code |-> five, customer |-> ana, redeems |-> TRUE]

AllForms  == {Both, Swapped, MilkTen, RiceTen, RiceFive}
CodeForms == {Both, One}
OneForm   == {One}

ById   == milk :> 1 @@ rice :> 2
Units  == milk :> 2 @@ rice :> 2
LastRice == milk :> 2 @@ rice :> 1
OnePoint    == [u \in Customers |-> 1]
TwoUses   == [c \in Codes |-> 2]
PerCustomer == [c \in Codes |-> 1]

Symmetry == Permutations(Requests)
=============================================================================
