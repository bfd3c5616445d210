----------------------------- MODULE MCCouriers -----------------------------
(* Small instances of Couriers for TLC. *)
EXTENDS Couriers, TLC

CONSTANTS o1, o2, ali, badr, adm1, adm2

Totals == o1 :> 30 @@ o2 :> 45

\* No constant tells one courier, or one administrator, from the other.
Alike == Permutations({ali, badr}) \cup Permutations({adm1, adm2})
=============================================================================
