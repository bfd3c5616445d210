------------------------------ MODULE Pricing ------------------------------
(***************************************************************************)
(* The money of one order: subtotal, automatic promotions, coupon, points, *)
(* delivery fee and total, as the server computes them in createOrder.     *)
(* Amounts are whole piastres; a cart is a function from products to       *)
(* quantities.  Nothing here has state: Cart extends this module.          *)
(***************************************************************************)
EXTENDS Integers, FiniteSets, FiniteSetsExt, SequencesExt

CONSTANTS Products, Price, IdOrder,      \* the price list and the order of product ids
          Promotions,                    \* the active promotions, in their fixed order
          Codes, NoCode, CodeTerms,      \* the coupons and what each grants
          Zones, ZoneFee, FreeFrom, MinimumOrder,
          PointValue, MaxPercent, MinRedeem, MinRedeemOrder

\* Buy some of trigger, get some of reward, or of trigger if reward is {}; atMost
\* is 0 without max_applications_per_order.
BuyTerms    == [type : {"buy"}, trigger : SUBSET Products, reward : SUBSET Products,
                buy : Nat \ {0}, get : Nat \ {0}, percent : 0 .. 100, atMost : Nat]
BundleItems == [group : SUBSET Products, quantity : Nat \ {0}]
BundleTerms == [type : {"bundle"}, items : Seq(BundleItems) \ {<<>>}, price : Nat, atMost : Nat]
CouponTerms == [percent : Nat, fixed : Nat, scope : SUBSET Products, minOrder : Nat,
                minQuantity : Nat, free : BOOLEAN]

ASSUME PricesAssumption ==
  /\ IsFiniteSet(Products) /\ Price \in [Products -> Nat]
  /\ IdOrder \in [Products -> Nat]
  /\ \A p, q \in Products : IdOrder[p] = IdOrder[q] => p = q
  /\ Promotions \in Seq(BuyTerms \cup BundleTerms)
  /\ CodeTerms \in [Codes -> CouponTerms]
  /\ ZoneFee \in [Zones -> Nat] /\ FreeFrom \in Nat /\ MinimumOrder \in Nat
  /\ PointValue \in Nat \ {0} /\ MaxPercent \in 0 .. 100
  /\ MinRedeem \in Nat /\ MinRedeemOrder \in Nat

\* Half a piastre or more rounds up: Math.round of a product with a percentage.
Percent(amount, percent) == (amount * percent + 50) \div 100

Units(cart, group) == MapThenSumSet(LAMBDA p : cart[p], group)
Value(cart, group) == MapThenSumSet(LAMBDA p : cart[p] * Price[p], group)
Subtotal(cart)     == Value(cart, Products)

-----------------------------------------------------------------------------
(* Promotions take the cheapest units that no earlier promotion has taken. *)

Before(p, q) == \/ Price[p] < Price[q]
                \/ Price[p] = Price[q] /\ IdOrder[p] < IdOrder[q]

Cheapest(left, group, count) ==
  [p \in Products |->
     IF p \in group
     THEN Min({left[p], Max({0, count - Units(left, {q \in group : Before(q, p)})})})
     ELSE 0]

Without(left, taken) == [p \in Products |-> left[p] - taken[p]]

\* A loop that runs a number of times.
Repeat(Step(_), start, times) ==
  FoldLeft(LAMBDA past, n : Step(past), start, [n \in 1 .. times |-> n])

NothingGiven(left) == [left |-> left, times |-> 0, amount |-> 0]

Capped(promotion, times) ==
  IF promotion.atMost = 0 THEN times ELSE Min({times, promotion.atMost})

BuyGetTimes(promotion, left) ==
  Capped(promotion,
    IF promotion.reward = {}
    THEN Units(left, promotion.trigger) \div (promotion.buy + promotion.get)
    ELSE Min({Units(left, promotion.trigger) \div promotion.buy,
              Units(left, promotion.reward) \div promotion.get}))

\* Gift after gift from one group: the cheapest units are given, the next ones paid.
OneGift(promotion, past) ==
  LET gift == Cheapest(past.left, promotion.trigger, promotion.get)
      rest == Without(past.left, gift)
  IN  [left   |-> Without(rest, Cheapest(rest, promotion.trigger, promotion.buy)),
       times  |-> past.times + 1,
       amount |-> past.amount + Value(gift, Products)]
OneGroup(promotion, left, times) ==
  Repeat(LAMBDA past : OneGift(promotion, past), NothingGiven(left), times)

TwoGroups(promotion, left, times) ==
  LET rest == Without(left, Cheapest(left, promotion.trigger, promotion.buy * times))
      gift == Cheapest(rest, promotion.reward, promotion.get * times)
  IN  [left |-> Without(rest, gift), times |-> times, amount |-> Value(gift, Products)]

\* The units taken stay taken even when the discount rounds to nothing.
BuyGet(promotion, left) ==
  LET times == BuyGetTimes(promotion, left)
      given == IF promotion.reward = {} THEN OneGroup(promotion, left, times)
               ELSE TwoGroups(promotion, left, times)
  IN  [given EXCEPT !.amount = Percent(@, promotion.percent)]

BundleTimes(promotion, left) ==
  Capped(promotion, Min({Units(left, promotion.items[i].group) \div promotion.items[i].quantity :
                           i \in DOMAIN promotion.items}))

\* One bundle: every item's units at their natural price, less the bundle's price.
TakeItem(sofar, item) ==
  LET taken == Cheapest(sofar.left, item.group, item.quantity)
  IN  [left |-> Without(sofar.left, taken), natural |-> sofar.natural + Value(taken, Products)]
OneBundle(promotion, past) ==
  LET whole == FoldLeft(TakeItem, [left |-> past.left, natural |-> 0], promotion.items)
  IN  [left   |-> whole.left,
       times  |-> past.times + 1,
       amount |-> past.amount + Max({0, whole.natural - promotion.price})]
Bundle(promotion, left) ==
  Repeat(LAMBDA past : OneBundle(promotion, past), NothingGiven(left),
         BundleTimes(promotion, left))

Apply(promotion, left) ==
  IF promotion.type = "bundle" THEN Bundle(promotion, left) ELSE BuyGet(promotion, left)

\* Mutant: every promotion looks at the whole cart.
ApplyNextFresh(all, promotion) ==
  LET one == Apply(promotion, all.cart)
  IN  [all EXCEPT !.left = one.left, !.given = Append(@, one)]

ApplyNext(all, promotion) ==
  LET one == Apply(promotion, all.left)
  IN  [all EXCEPT !.left = one.left, !.given = Append(@, one)]

Computed(cart) ==
  FoldLeft(ApplyNext, [cart |-> cart, left |-> cart, given |-> <<>>], Promotions)

PromotionDiscount(cart) ==
  LET given == Computed(cart).given
  IN  MapThenSumSet(LAMBDA i : given[i].amount, DOMAIN given)

-----------------------------------------------------------------------------
(* The coupon, the points and the total. *)

Eligible(code) == CodeTerms[code].scope

CodeRefused(code, cart) ==
  \/ Subtotal(cart) < CodeTerms[code].minOrder
  \/ Subtotal(cart) > 0 /\ Units(cart, Eligible(code)) < CodeTerms[code].minQuantity

CodeAmount(code, cart) ==
  LET eligible == Value(cart, Eligible(code))
  IN  Min({Percent(eligible, CodeTerms[code].percent) + CodeTerms[code].fixed, eligible})

CodeDiscount(code, cart)  == IF code = NoCode THEN 0 ELSE CodeAmount(code, cart)
GrantsDelivery(code)      == code # NoCode /\ CodeTerms[code].free

AfterDiscounts(cart, code) ==
  Max({0, Subtotal(cart) - CodeDiscount(code, cart) - PromotionDiscount(cart)})

MostPoints(cart, code, balance) ==
  Min({balance, ((AfterDiscounts(cart, code) * MaxPercent) \div 100) \div PointValue})

PointsRefused(cart, code, points, balance) ==
  /\ points > 0
  /\ \/ points < MinRedeem
     \/ AfterDiscounts(cart, code) < MinRedeemOrder
     \/ points > MostPoints(cart, code, balance)

DeliveryFee(fee, subtotal) == IF subtotal <= 0 \/ subtotal >= FreeFrom THEN 0 ELSE fee

\* Mutant: free delivery asks for the amount after the discounts.
TotalLate(cart, code, zone, points) ==
  Max({0, AfterDiscounts(cart, code) - points * PointValue})
  + (IF GrantsDelivery(code) THEN 0 ELSE DeliveryFee(ZoneFee[zone], AfterDiscounts(cart, code)))
OrderTotal(cart, code, zone, points) ==
  Max({0, AfterDiscounts(cart, code) - points * PointValue})
  + (IF GrantsDelivery(code) THEN 0 ELSE DeliveryFee(ZoneFee[zone], Subtotal(cart)))

Refused(cart, code, points, balance) ==
  \/ Subtotal(cart) < MinimumOrder
  \/ code # NoCode /\ CodeRefused(code, cart)
  \/ PointsRefused(cart, code, points, balance)
=============================================================================
