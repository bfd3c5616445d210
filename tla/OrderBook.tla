------------------------------ MODULE OrderBook ------------------------------
(***************************************************************************)
(* What checkout promises, with no connections, locks or retries in sight: *)
(* a request is submitted, its order is placed at most once and only while *)
(* the shop can honour it, and a placed order may be cancelled once.       *)
(* Checkout.tla shows that createOrder and cancelOrder, statement by       *)
(* statement and in every interleaving, do nothing else to this state.     *)
(* Every cart line takes one unit, every redemption one point.             *)
(***************************************************************************)
EXTENDS Naturals, FiniteSets, Sequences
LOCAL INSTANCE Functions

CONSTANTS
    Requests,        \* POST /api/orders requests; each may store one order
    Keys, NoKey,     \* Idempotency-Key values, and the absent header
    Products,
    Codes, NoCode,   \* discount codes, and a cart without one
    Customers,
    Forms,           \* the checkout forms that may be submitted
    Stock0,          \* units of each product before the first order
    Points0,         \* spendable loyalty points of each customer
    MaxUses,         \* discounts.max_uses
    MaxPerCustomer,  \* discounts.max_uses_per_customer
    FirstOrderOnly   \* the codes with first_order_only set

Form == [cart: Seq(Products), code: Codes \cup {NoCode},
         customer: Customers, redeems: BOOLEAN]

ASSUME BookAssumption ==
    /\ IsFiniteSet(Requests)
    /\ NoKey \notin Keys /\ NoCode \notin Codes
    /\ Forms \subseteq Form /\ Forms # {}
    /\ \A f \in Forms : f.cart # <<>> /\ IsInjective(f.cart)
    /\ Stock0 \in [Products -> Nat] /\ Points0 \in [Customers -> Nat]
    /\ MaxUses \in [Codes -> Nat] /\ MaxPerCustomer \in [Codes -> Nat]
    /\ FirstOrderOnly \subseteq Codes

VARIABLES
    book,    \* book[r]: how far the order of request r has come
    key,     \* key[r]: the idempotency key r carries
    form,    \* form[r]: the form r carries
    stock,   \* products.stock
    used,    \* discounts.used_count
    points   \* spendable points: SUM(remaining_points) over a customer's lots

bookVars == <<book, key, form, stock, used, points>>

Statuses == {"none", "submitted", "placed", "cancelled"}
Items(f) == {f.cart[i] : i \in DOMAIN f.cart}

Placed    == {r \in Requests : book[r] = "placed"}
Stored    == {r \in Requests : book[r] \in {"placed", "cancelled"}}
Usages(c) == {r \in Stored : form[r].code = c}
UsagesBy(c, u)     == {r \in Usages(c) : form[r].customer = u}
Holding(p)         == {r \in Placed : p \in Items(form[r])}
Redeemed(u)        == {r \in Placed : form[r].customer = u /\ form[r].redeems}
-----------------------------------------------------------------------------
BookInit ==
    /\ book = [r \in Requests |-> "none"]
    /\ key  = [r \in Requests |-> NoKey]
    /\ form = [r \in Requests |-> CHOOSE f \in Forms : TRUE]
    /\ stock = Stock0
    /\ used = [c \in Codes |-> 0]
    /\ points = Points0

BookSubmit(r) ==
    /\ book[r] = "none"
    /\ book' = [book EXCEPT ![r] = "submitted"]
    /\ \E k \in Keys \cup {NoKey}, f \in Forms :
          /\ key'  = [key EXCEPT ![r] = k]
          /\ form' = [form EXCEPT ![r] = f]
    /\ UNCHANGED <<stock, used, points>>

KeyUnused(r) ==
    key[r] # NoKey => \A q \in Stored : key[q] # key[r]

InStock(r) == \A p \in Items(form[r]) : stock[p] > 0

\* What the lock of the code's row can promise: of first-order codes only that
\* the customer has no other live order under the same code.
CodeUsable(r) ==
    LET c == form[r].code
        u == form[r].customer
    IN  c # NoCode =>
          /\ used[c] < MaxUses[c]
          /\ Cardinality(UsagesBy(c, u)) < MaxPerCustomer[c]
          /\ c \in FirstOrderOnly => UsagesBy(c, u) \cap Placed = {}

PointsCover(r) == form[r].redeems => points[form[r].customer] > 0

\* The writes of a placed order: stock, code counter and points move together
\* (consumeLoyaltyPointsFifo takes what there is, it does not fail).
PlaceEffect(r) ==
    /\ book' = [book EXCEPT ![r] = "placed"]
    /\ stock' = [p \in Products |->
                    IF p \in Items(form[r]) THEN stock[p] - 1 ELSE stock[p]]
    /\ used' = [c \in Codes |->
                    IF c = form[r].code THEN used[c] + 1 ELSE used[c]]
    /\ points' = [u \in Customers |->
                    IF u = form[r].customer /\ form[r].redeems /\ points[u] > 0
                    THEN points[u] - 1 ELSE points[u]]
    /\ UNCHANGED <<key, form>>

BookPlace(r) ==
    /\ book[r] = "submitted"
    /\ KeyUnused(r) /\ InStock(r) /\ CodeUsable(r) /\ PointsCover(r)
    /\ PlaceEffect(r)

\* Stock and points come back; the use of the discount code does not.
CancelEffect(r) ==
    /\ book' = [book EXCEPT ![r] = "cancelled"]
    /\ stock' = [p \in Products |->
                    IF p \in Items(form[r]) THEN stock[p] + 1 ELSE stock[p]]
    /\ points' = [u \in Customers |->
                    IF u = form[r].customer /\ form[r].redeems
                    THEN points[u] + 1 ELSE points[u]]
    /\ UNCHANGED <<key, form, used>>

BookCancel(r) == book[r] = "placed" /\ CancelEffect(r)

BookNext == \E r \in Requests : BookSubmit(r) \/ BookPlace(r) \/ BookCancel(r)

BookSpec == BookInit /\ [][BookNext]_bookVars
-----------------------------------------------------------------------------
BookTypeOK ==
    /\ book \in [Requests -> Statuses]
    /\ key \in [Requests -> Keys \cup {NoKey}]
    /\ form \in [Requests -> Forms]
    /\ stock \in [Products -> Nat]
    /\ used \in [Codes -> Nat]
    /\ points \in [Customers -> Nat]

\* Every unit that left a shelf is in exactly one order that is still on: no
\* unit is sold twice, and a cancellation gives back exactly what was taken
\* (deductStockForOrder, restoreStockForCancelledOrder).
StockAccounted ==
    \A p \in Products : stock[p] + Cardinality(Holding(p)) = Stock0[p]

\* The counter the admin sees is the number of usage rows, and never passes
\* max_uses (incrementDiscountUsageAtomic, recordDiscountUsage).
UsesAccounted ==
    \A c \in Codes : used[c] = Cardinality(Usages(c)) /\ used[c] <= MaxUses[c]

\* No customer uses a code more often than max_uses_per_customer, whether the
\* orders were cancelled or not (countDiscountUsagesForCustomer).
CustomerUsesCapped ==
    \A c \in Codes, u \in Customers :
        Cardinality(UsagesBy(c, u)) <= MaxPerCustomer[c]

\* A first-order code is behind at most one live order of each customer
\* (checkFirstOrderEligibility, run under the lock of the code's row).
FirstOrderOnce ==
    \A c \in FirstOrderOnly : \A q, r \in Usages(c) \cap Placed :
        form[q].customer = form[r].customer => q = r

\* Points are spent once: what a customer can still spend and what live orders
\* redeemed add up to what they had (lockAndValidateLoyaltyRedemption,
\* commitLoyaltyRedemption, restoreRedeemedPointsForOrder).
PointsAccounted ==
    \A u \in Customers : points[u] + Cardinality(Redeemed(u)) = Points0[u]

\* However often a checkout is retried, its key is behind one order at most
\* (orders.idempotency_key UNIQUE, findOrderByIdempotencyKey).
OneOrderPerKey ==
    \A q, r \in Stored : key[q] = key[r] /\ key[r] # NoKey => q = r
=============================================================================
