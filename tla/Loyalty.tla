------------------------------ MODULE Loyalty ------------------------------
(***************************************************************************)
(* Loyalty points: what a customer earns, spends, gets back and loses.     *)
(* loyalty_ledger is append-only and its sum is the balance a customer is  *)
(* shown; loyalty_point_lots, kept next to it, is what a checkout may      *)
(* spend, oldest first, and what expires.  Nothing but the code keeps the  *)
(* two in step.  One action per transaction, except where state read in    *)
(* one statement is used in a later one: a checkout that redeems (the lots *)
(* stay locked in between) and an admin's deduction (nothing is locked).   *)
(* Lots are ordered by the order of these steps.  Orders are those of      *)
(* customers with an account: a guest's earns and redeems nothing.  A      *)
(* return is here by what its refund does to points; a refunded return may *)
(* be refunded again.                                                      *)
(***************************************************************************)
EXTENDS Integers, Sequences, FiniteSets, FiniteSetsExt, Bags

CONSTANTS
    Users, Orders, Requests,   \* Requests: calls of the admin's adjustment route
    NoOrder, None,
    Owner,            \* Owner[o]: the order's user_id
    Worth,            \* Worth[o]: what its delivery may earn, by its total, in points
    MaxRedeem,        \* MaxRedeem[o]: the cap in points on what o may redeem
    MinRedeem,        \* loyalty_min_redeem_points
    Referrer,         \* Referrer[u]: who brought u, or None
    ReferralEnabled, ReferrerBonus, ReferredBonus,
    ExpiryEnabled, BatchSize,
    Amounts, MaxAdjustments    \* bounds on manual adjustments

ASSUME LoyaltyAssumption ==
    /\ None \notin Users /\ NoOrder \notin Orders
    /\ Owner \in [Orders -> Users]
    /\ Worth \in [Orders -> SUBSET Nat] /\ MaxRedeem \in [Orders -> Nat]
    /\ Referrer \in [Users -> Users \cup {None}] /\ \A u \in Users : Referrer[u] # u
    /\ {ReferralEnabled, ExpiryEnabled} \subseteq BOOLEAN
    /\ {MinRedeem, ReferrerBonus, ReferredBonus} \subseteq Nat
    /\ Amounts \subseteq Nat \ {0} /\ {MaxAdjustments, BatchSize} \subseteq Nat \ {0}

VARIABLES
    status,     \* status[o]: "none", "validated" inside its checkout, "placed" until
                \* it is delivered or cancelled
    redemption, \* redemption[o]: the points a validated checkout is about to spend
    held,       \* held[o]: the lots its transaction has locked
    books,      \* the tables of the ledger and of the lots
    referral,   \* referral[u]: the row of referrals in which u is the one referred
    deduction   \* deduction[r]: what request r found the balance to allow

vars == <<status, redemption, held, books, referral, deduction>>

Types == {"order_delivered", "referral_bonus", "manual_adjustment", "redeemed",
          "redemption_reversal", "earned_reversal", "expired"}

Entry(u, type, o, points) == [user |-> u, type |-> type, order |-> o, points |-> points]
-----------------------------------------------------------------------------
\* ledger: a bag of entries; lots[u]: u's lots by earned_at, each with when it
\* ends; unmet[u]: history, the points that consumptions asked of u's lots and
\* did not find.
NoBooks == [ledger |-> EmptyBag, lots |-> [u \in Users |-> <<>>],
            unmet |-> [u \in Users |-> 0]]

Remaining(lots, S) == MapThenSumSet(LAMBDA k : lots[k].remaining, S)

\* lockLoyaltyLotsAndGetBalance's balance, and getLoyaltyBalance's.
Spendable(b, u) == Remaining(b.lots[u], DOMAIN b.lots[u])
Points(ledger, S) == MapThenSumSet(LAMBDA e : ledger[e] * e.points, S)
Balance(b, u)     == Points(b.ledger, {e \in DOMAIN b.ledger : e.user = u})

\* The loop over the lots in closed form: a lot gives what the lots before it
\* could not.
ConsumeAfter(lots, amount, Before(_)) ==
    [k \in DOMAIN lots |->
        LET asked == amount - Remaining(lots, Before(k))
        IN  [lots[k] EXCEPT !.remaining = @ - Max({0, Min({asked, @})})]]
ConsumeNewest(lots, amount) == ConsumeAfter(lots, amount, LAMBDA k : (k + 1)..Len(lots))
Consume(lots, amount)       == ConsumeAfter(lots, amount, LAMBDA k : 1..(k - 1))

Insert(b, e) == [b EXCEPT !.ledger = @ (+) SetToBag({e})]

Ends(neverExpires) == IF ExpiryEnabled /\ ~neverExpires THEN "later" ELSE "never"

\* A positive movement and its lot, a negative one and what it consumes.
Credit(b, e, ends) ==
    LET lot == [original |-> e.points, remaining |-> e.points, ends |-> ends]
    IN  [Insert(b, e) EXCEPT !.lots[e.user] = Append(@, lot)]

DebitBy(b, e, Take(_, _)) ==
    [Insert(b, e) EXCEPT
        !.lots[e.user] = Take(@, -e.points),
        !.unmet[e.user] = @ + Max({0, -e.points - Spendable(b, e.user)})]
DebitNewest(b, e) == DebitBy(b, e, ConsumeNewest)
Debit(b, e)       == DebitBy(b, e, Consume)

Filed(b, type, o) == {e \in DOMAIN b.ledger : e.type = type /\ e.order = o}

RestoreIf(b, o, due) ==
    LET redeemed == Filed(b, "redeemed", o)
    IN  IF redeemed = {} \/ ~due THEN b
        ELSE LET e == CHOOSE e \in redeemed : TRUE
             IN  Credit(b, Entry(e.user, "redemption_reversal", o, -e.points), Ends(FALSE))
RestoreAgain(b, o)    == RestoreIf(b, o, TRUE)
RestoreRedeemed(b, o) == RestoreIf(b, o, Filed(b, "redemption_reversal", o) = {})

OwesEarned(b, o) ==
    Filed(b, "order_delivered", o) # {} /\ Filed(b, "earned_reversal", o) = {}

ReverseBy(b, o, Take(_, _)) ==
    IF ~OwesEarned(b, o) THEN b
    ELSE LET e == CHOOSE e \in Filed(b, "order_delivered", o) : TRUE
         IN  Take(b, Entry(e.user, "earned_reversal", o, -e.points))
ReverseInLedger(b, o) == ReverseBy(b, o, Insert)
ReverseEarned(b, o)   == ReverseBy(b, o, Debit)

\* FOR UPDATE on lots that another transaction holds waits for it.
LotsUnlocked(u) == TRUE
LotsFree(u)     == \A o \in Orders : Owner[o] = u => held[o] = {}
-----------------------------------------------------------------------------
(* createOrder, as far as points go. *)

PlaceOrder(o) ==
    /\ status[o] = "none"
    /\ status' = [status EXCEPT ![o] = "placed"]
    /\ UNCHANGED <<redemption, held, books, referral, deduction>>

ValidateRedemption(o, points) ==
    LET u == Owner[o]
    IN  /\ status[o] = "none"
        /\ LotsFree(u)
        /\ points > 0 /\ points >= MinRedeem
        /\ points <= Min({Spendable(books, u), MaxRedeem[o]})
        /\ status' = [status EXCEPT ![o] = "validated"]
        /\ redemption' = [redemption EXCEPT ![o] = points]
        /\ held' = [held EXCEPT ![o] =
                        {k \in DOMAIN books.lots[u] : books.lots[u][k].remaining > 0}]
        /\ UNCHANGED <<books, referral, deduction>>

CommitRedemption(o) ==
    /\ status[o] = "validated"
    /\ status' = [status EXCEPT ![o] = "placed"]
    /\ books' = Debit(books, Entry(Owner[o], "redeemed", o, -redemption[o]))
    /\ redemption' = [redemption EXCEPT ![o] = 0]
    /\ held' = [held EXCEPT ![o] = {}]
    /\ UNCHANGED <<referral, deduction>>

\* Any later refusal, or the end of the process.
RollBackRedemption(o) ==
    /\ status[o] = "validated"
    /\ status' = [status EXCEPT ![o] = "none"]
    /\ redemption' = [redemption EXCEPT ![o] = 0]
    /\ held' = [held EXCEPT ![o] = {}]
    /\ UNCHANGED <<books, referral, deduction>>
-----------------------------------------------------------------------------
Bonus(b, u, points) ==
    IF points = 0 THEN b
    ELSE Credit(b, Entry(u, "referral_bonus", NoOrder, points), Ends(FALSE))

\* reaches: whether the order's total is the referral's minimum or more.  What a
\* referral that qualifies becomes, and pays.
Qualifies(u, reaches)      == referral[u] = "pending" /\ reaches
Outcome == IF ReferralEnabled THEN "rewarded" ELSE "qualified"
Reward(b, u) ==
    IF ReferralEnabled THEN Bonus(Bonus(b, Referrer[u], ReferrerBonus), u, ReferredBonus)
    ELSE b

\* An order worth no point returns before anything is written, and leaves the
\* referral as it is.
DeliverForNothing(o) ==
    /\ status[o] = "placed" /\ 0 \in Worth[o]
    /\ status' = [status EXCEPT ![o] = "delivered"]
    /\ UNCHANGED <<redemption, held, books, referral, deduction>>

Deliver(o, points, reaches) ==
    LET u == Owner[o]
        granted == Credit(books, Entry(u, "order_delivered", o, points), Ends(FALSE))
    IN  /\ status[o] = "placed" /\ points > 0
        /\ status' = [status EXCEPT ![o] = "delivered"]
        /\ IF Qualifies(u, reaches)
           THEN /\ books' = Reward(granted, u)
                /\ referral' = [referral EXCEPT ![u] = Outcome]
           ELSE books' = granted /\ UNCHANGED referral
        /\ UNCHANGED <<redemption, held, deduction>>

UndoTo(o, after) ==
    /\ OwesEarned(books, o) => LotsFree(Owner[o])
    /\ books' = after
UndoEarned(o) == UndoTo(o, ReverseEarned(books, o))
UndoPoints(o) == UndoTo(o, ReverseEarned(RestoreRedeemed(books, o), o))

\* To cancel a cancelled order again is allowed, and runs the same statements.
CancelOrder(o) ==
    /\ status[o] \in {"placed", "cancelled"}
    /\ status' = [status EXCEPT ![o] = "cancelled"]
    /\ UndoPoints(o)
    /\ UNCHANGED <<redemption, held, referral, deduction>>

\* The step to refunded of a return of an order fully covered by returns.  What
\* is asked is a row of the order, not that it was delivered or not cancelled.
RefundOrder(o) ==
    /\ status[o] \notin {"none", "validated"}
    /\ UndoPoints(o)
    /\ UNCHANGED <<status, redemption, held, referral, deduction>>
-----------------------------------------------------------------------------
(* The admin's adjustments: up in one transaction; down is a read of the    *)
(* balance on the pool and then the transaction.                            *)

Adjusted(b) ==
    MapThenSumSet(LAMBDA e : b.ledger[e],
                  {e \in DOMAIN b.ledger : e.type = "manual_adjustment"})

AdjustUp(u, points, neverExpires) ==
    /\ Adjusted(books) < MaxAdjustments
    /\ books' = Credit(books, Entry(u, "manual_adjustment", NoOrder, points),
                       Ends(neverExpires))
    /\ UNCHANGED <<status, redemption, held, referral, deduction>>

AskDeduction(r, u, points) ==
    /\ deduction[r] = None
    /\ Balance(books, u) - points >= 0
    /\ deduction' = [deduction EXCEPT ![r] = [user |-> u, points |-> points]]
    /\ UNCHANGED <<status, redemption, held, books, referral>>

AdjustDown(r) ==
    /\ deduction[r] # None /\ Adjusted(books) < MaxAdjustments
    /\ LET d == deduction[r]
       IN  /\ LotsFree(d.user)
           /\ books' = Debit(books, Entry(d.user, "manual_adjustment", NoOrder, -d.points))
    /\ deduction' = [deduction EXCEPT ![r] = None]
    /\ UNCHANGED <<status, redemption, held, referral>>
-----------------------------------------------------------------------------
Lot(b, u, k) == b.lots[u][k]
Lots(b) == UNION {{u} \X DOMAIN b.lots[u] : u \in Users}

\* now() passes the lot's expires_at.
LotRunsOut(u, k) ==
    /\ Lot(books, u, k).ends = "later" /\ Lot(books, u, k).remaining > 0
    /\ books' = [books EXCEPT !.lots[u][k].ends = "past"]
    /\ UNCHANGED <<status, redemption, held, referral, deduction>>

Expire(lot, b) ==
    LET u == lot[1]  k == lot[2]
    IN  [Insert(b, Entry(u, "expired", NoOrder, -Lot(b, u, k).remaining))
            EXCEPT !.lots[u][k].remaining = 0]

\* SKIP LOCKED: lots that a checkout holds are left for a later batch.
Expirable ==
    {lot \in Lots(books) :
        LET u == lot[1]  k == lot[2]
        IN  /\ Lot(books, u, k).ends = "past" /\ Lot(books, u, k).remaining > 0
            /\ \A o \in Orders : Owner[o] = u => k \notin held[o]}

RunExpiryBatch ==
    \E batch \in SUBSET Expirable :
        /\ batch # {} /\ Cardinality(batch) = Min({BatchSize, Cardinality(Expirable)})
        /\ books' = FoldSet(Expire, books, batch)
        /\ UNCHANGED <<status, redemption, held, referral, deduction>>
-----------------------------------------------------------------------------
Init ==
    /\ status = [o \in Orders |-> "none"]
    /\ redemption = [o \in Orders |-> 0]
    /\ held = [o \in Orders |-> {}]
    /\ books = NoBooks
    /\ referral = [u \in Users |-> IF Referrer[u] = None THEN "none" ELSE "pending"]
    /\ deduction = [r \in Requests |-> None]

Next ==
    \/ \E o \in Orders :
        \/ PlaceOrder(o)
        \/ \E points \in 1..MaxRedeem[o] : ValidateRedemption(o, points)
        \/ CommitRedemption(o)
        \/ RollBackRedemption(o)
        \/ DeliverForNothing(o)
        \/ \E points \in Worth[o], reaches \in BOOLEAN : Deliver(o, points, reaches)
        \/ CancelOrder(o)
        \/ RefundOrder(o)
    \/ \E u \in Users, points \in Amounts :
        \/ \E neverExpires \in BOOLEAN : AdjustUp(u, points, neverExpires)
        \/ \E r \in Requests : AskDeduction(r, u, points)
    \/ \E r \in Requests : AdjustDown(r)
    \/ \E u \in Users : \E k \in DOMAIN books.lots[u] : LotRunsOut(u, k)
    \/ RunExpiryBatch

Spec == Init /\ [][Next]_vars
-----------------------------------------------------------------------------
\* The type invariant: what the tables' columns and CHECK constraints allow, and
\* entries that carry an order exactly where their type does.
TypeOK ==
    /\ status \in [Orders -> {"none", "validated", "placed", "delivered", "cancelled"}]
    /\ redemption \in [Orders -> Nat]
    /\ \A o \in Orders : held[o] \subseteq DOMAIN books.lots[Owner[o]]
    /\ referral \in [Users -> {"none", "pending", "qualified", "rewarded"}]
    /\ \A r \in Requests : deduction[r] # None => deduction[r] \in [user : Users, points : Amounts]
    /\ \A e \in DOMAIN books.ledger :
        /\ e.user \in Users /\ e.type \in Types /\ e.points \in Int \ {0}
        /\ e.order = NoOrder <=> e.type \in {"referral_bonus", "manual_adjustment", "expired"}
    /\ \A u \in Users : \A k \in DOMAIN books.lots[u] :
        LET l == Lot(books, u, k)
        IN  l.remaining \in 0..l.original /\ l.ends \in {"never", "later", "past"}
    /\ books.unmet \in [Users -> Nat]

\* What a customer can spend is what the ledger says is theirs, and on top of it
\* exactly what earlier consumptions asked for and did not find: no grant,
\* consumption, reversal or expiry moves one table without the other, whatever
\* ran between its statements.
BooksAgree == \A u \in Users : Spendable(books, u) = Balance(books, u) + books.unmet[u]

\* A lot is touched by a consumption only when every older one is empty, so no
\* younger points are spent while older ones wait to expire.  (Points that ran
\* out of time are left aside: a lot may be emptied by its expiry alone.)
OldestFirst ==
    \A u \in Users : \A k \in DOMAIN books.lots[u] :
        LET l == Lot(books, u, k)
        IN  l.remaining < l.original /\ l.ends # "past" =>
                \A j \in 1..(k - 1) : Lot(books, u, j).remaining = 0

\* The lots of a customer are what a first-in-first-out consumption leaves.
LotsInOrder == TypeOK /\ OldestFirst

\* The checks before an INSERT are enough: no movement of an order is filed
\* twice, so cancelling and refunding, in any order and as often as they are
\* called, never run into the unique indexes of loyalty_ledger.
OneEntryPerOrder ==
    \A e, f \in DOMAIN books.ledger :
        e.order # NoOrder /\ e.order = f.order /\ e.type = f.type =>
            e = f /\ books.ledger[e] = 1

\* A cancelled order has neither cost nor brought points, refunded before or not.
CancelledOrdersAreNeutral ==
    \A o \in Orders : status[o] = "cancelled" =>
        Points(books.ledger, {e \in DOMAIN books.ledger : e.order = o}) = 0

Bonuses == {e \in DOMAIN books.ledger : e.type = "referral_bonus"}

\* However many orders of the new customer are delivered, and whichever is the
\* first to qualify, their referral pays its two bonuses once, after a delivery
\* that earned points.
ReferralsPayOnce ==
    /\ Points(books.ledger, Bonuses) =
           (ReferrerBonus + ReferredBonus)
           * Cardinality({u \in Users : referral[u] = "rewarded"})
    /\ \A u \in Users : referral[u] \in {"qualified", "rewarded"} =>
           \E o \in Orders : Owner[o] = u /\ Filed(books, "order_delivered", o) # {}

\* Nothing is earned, given back or paid twice, however often and in whatever
\* order deliveries, cancellations and refunds come.
NothingTwice == OneEntryPerOrder /\ ReferralsPayOnce

\* No double spending: the points a checkout gave a discount for are all still in
\* the lots when it commits, whatever was spent, deducted, reversed or expired
\* between the check and the commit.
RedemptionsAreCovered ==
    [][\A o \in Orders : status[o] = "validated" /\ status'[o] = "placed" =>
          Spendable(books', Owner[o]) = Spendable(books, Owner[o]) - redemption[o]]_vars
=============================================================================
