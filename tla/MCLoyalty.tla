----------------------------- MODULE MCLoyalty -----------------------------
(* A small instance of Loyalty for TLC: u2 was brought by u1 and orders      *)
(* twice.  And the loop of consumeLoyaltyPointsFifo, statement by statement, *)
(* against the closed form the model uses, on all short lists of lots.       *)
EXTENDS Loyalty, TLC

CONSTANTS u1, u2, o1, o2

MCOwner == (o1 :> u2) @@ (o2 :> u2)
MCWorth == (o1 :> {2}) @@ (o2 :> {0, 1})
MCMaxRedeem == (o1 :> 1) @@ (o2 :> 2)
MCReferrer == (u1 :> None) @@ (u2 :> u1)

RECURSIVE FifoLoop(_, _, _)
FifoLoop(lots, k, remainingToConsume) ==
    IF k > Len(lots) \/ remainingToConsume <= 0 THEN lots
    ELSE LET consume == Min({remainingToConsume, lots[k].remaining})
         IN  FifoLoop([lots EXCEPT ![k].remaining = @ - consume], k + 1,
                      remainingToConsume - consume)

ASSUME ClosedFormIsTheLoop ==
    \A n \in 0..4, amount \in 0..7 : \A f \in [1..n -> 0..2] :
        LET lots == [k \in 1..n |-> [remaining |-> f[k]]]
        IN  Consume(lots, amount) = FifoLoop(lots, 1, amount)
=============================================================================
