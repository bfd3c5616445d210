-------------------------------- MODULE Cart --------------------------------
(***************************************************************************)
(* The customer's cart in the browser (CartContext.tsx) and what the       *)
(* checkout page shows of it, against what createOrder would charge        *)
(* (Pricing).  The page asks the server three questions whenever the cart  *)
(* changes - what are these products, which promotions apply, is the       *)
(* coupon still good - and the answers come when they come, or not at all; *)
(* an effect that runs again drops the answer it was waiting for.  The     *)
(* answer to "apply this coupon" is never dropped.                         *)
(***************************************************************************)
EXTENDS Pricing

CONSTANTS MaxQuantity,     \* bound: units of a product in the cart
          Balance          \* the customer's points

ASSUME CartAssumption == NoCode \notin Codes /\ MaxQuantity \in Nat /\ Balance \in Nat

VARIABLES items,        \* the cart, kept in localStorage
          resolved,     \* the products whose data has come
          coupon,       \* [code, amount] applied and shown
          promotions,   \* the amount of the promotions shown
          resolving, previewing, checking,   \* questions whose answers are awaited
          applying,     \* a coupon being applied, with the cart it was typed for
          unchecked     \* ghost: the coupon may have been valued for another cart

cartVars == <<items, resolved, coupon, promotions, resolving, previewing, checking, applying,
          unchecked>>

NoCoupon == [code |-> NoCode, amount |-> 0]
Ids(cart) == {p \in Products : cart[p] > 0}
Empty     == [p \in Products |-> 0]

\* Products whose data has not come are not shown, counted or ordered.
Shown(cart, known) == [p \in Products |-> IF p \in known THEN cart[p] ELSE 0]
Detailed == Shown(items, resolved)

CartTypeOK ==
  /\ items \in [Products -> 0 .. MaxQuantity]
  /\ resolved \subseteq Products
  /\ coupon.code \in Codes \cup {NoCode} /\ coupon.amount \in Nat
  /\ promotions \in 0 .. Subtotal([p \in Products |-> MaxQuantity])
  /\ Cardinality(resolving) <= 1 /\ Cardinality(previewing) <= 1
  /\ Cardinality(checking) <= 1 /\ Cardinality(applying) <= 1
  /\ unchecked \in BOOLEAN

CartInit ==
  /\ items = Empty /\ resolved = {} /\ coupon = NoCoupon /\ promotions = 0
  /\ resolving = {} /\ previewing = {} /\ checking = {} /\ applying = {}
  /\ unchecked = FALSE

-----------------------------------------------------------------------------
(* Effects: run after every render in which what they watch has changed. *)

ResolveEffect(cart) ==
  IF Ids(cart) = Ids(items) THEN UNCHANGED resolving
  ELSE resolving' = IF Ids(cart) = {} THEN {} ELSE {Ids(cart)}

PreviewEffect(before, shown) ==
  IF Ids(shown) = {} THEN promotions' = 0 /\ previewing' = {}
  ELSE UNCHANGED promotions /\ previewing' = {shown}

\* Mutant: the coupon is asked about again only when products come or go.
CheckOnNewProducts(applied, before, shown) ==
  IF Ids(shown) = Ids(before) THEN UNCHANGED checking
  ELSE checking' = IF applied.code = NoCode THEN {} ELSE {[code |-> applied.code, cart |-> shown]}
CheckEffect(applied, before, shown) ==
  IF Subtotal(shown) = Subtotal(before) THEN UNCHANGED checking
  ELSE checking' = IF applied.code = NoCode THEN {} ELSE {[code |-> applied.code, cart |-> shown]}

Noted(before, shown) ==
  unchecked' = IF Subtotal(shown) # Subtotal(before) THEN FALSE
               ELSE unchecked \/ shown # before

\* The page with another cart, other product data and the coupon it has.
Render(cart, known) ==
  LET shown == Shown(cart, known)
  IN  /\ items' = cart
      /\ resolved' = IF Ids(cart) = {} THEN {} ELSE known
      /\ ResolveEffect(cart)
      /\ PreviewEffect(Detailed, shown)
      /\ CheckEffect(coupon, Detailed, shown)
      /\ Noted(Detailed, shown)

-----------------------------------------------------------------------------
(* The customer. *)

SetQuantity(p) ==
  /\ \E n \in 0 .. MaxQuantity \ {items[p]} : Render([items EXCEPT ![p] = n], resolved)
  /\ UNCHANGED <<coupon, applying>>

ApplyCoupon(code) ==
  /\ coupon.code = NoCode /\ applying = {}
  /\ applying' = {[code |-> code, cart |-> Detailed]}
  /\ UNCHANGED <<items, resolved, coupon, promotions, resolving, previewing, checking, unchecked>>

\* The check that is under way is not told: its answer brings the coupon back.
RemoveCoupon ==
  /\ coupon.code # NoCode
  /\ coupon' = NoCoupon
  /\ UNCHANGED <<items, resolved, promotions, resolving, previewing, checking, applying, unchecked>>

\* The order is made of what is shown; an accepted one empties the cart.
Submit ==
  /\ Ids(Detailed) # {}
  /\ ~Refused(Detailed, coupon.code, 0, Balance)
  /\ items' = Empty /\ resolved' = {} /\ coupon' = NoCoupon /\ promotions' = 0
  /\ resolving' = {} /\ previewing' = {} /\ checking' = {}
  /\ unchecked' = FALSE
  /\ UNCHANGED applying

\* The page is loaded again: only localStorage is kept.
Reload ==
  /\ resolved' = {} /\ coupon' = NoCoupon /\ promotions' = 0
  /\ resolving' = IF Ids(items) = {} THEN {} ELSE {Ids(items)}
  /\ previewing' = {} /\ checking' = {} /\ applying' = {}
  /\ unchecked' = FALSE
  /\ UNCHANGED items

-----------------------------------------------------------------------------
(* The server's answers, and calls that fail. *)

ResolveAnswered(ids) ==
  /\ resolving' = resolving \ {ids}
  /\ items' = items /\ resolved' = ids
  /\ PreviewEffect(Detailed, Shown(items, ids))
  /\ CheckEffect(coupon, Detailed, Shown(items, ids))
  /\ Noted(Detailed, Shown(items, ids))
  /\ UNCHANGED <<coupon, applying>>

ResolveFailed(ids) ==
  /\ resolving' = resolving \ {ids}
  /\ UNCHANGED <<items, resolved, coupon, promotions, previewing, checking, applying, unchecked>>

PreviewAnswered(cart) ==
  /\ previewing' = previewing \ {cart}
  /\ promotions' \in {PromotionDiscount(cart), 0}
  /\ UNCHANGED <<items, resolved, coupon, resolving, checking, applying, unchecked>>

Valued(ask) == [code |-> ask.code, amount |-> CodeAmount(ask.code, ask.cart)]

\* A refused coupon, or a call that fails, takes the coupon away.
CheckAnswered(ask) ==
  /\ checking' = checking \ {ask}
  /\ \/ ~CodeRefused(ask.code, ask.cart) /\ coupon' = Valued(ask)
     \/ coupon' = NoCoupon
  /\ UNCHANGED <<items, resolved, promotions, resolving, previewing, applying, unchecked>>

\* The answer counts whatever happened to the cart since it was asked for.
ApplyAnswered(ask) ==
  /\ applying' = {}
  /\ \/ /\ ~CodeRefused(ask.code, ask.cart)
        /\ coupon' = Valued(ask)
        /\ unchecked' = (unchecked \/ ask.cart # Detailed)
     \/ UNCHANGED <<coupon, unchecked>>
  /\ UNCHANGED <<items, resolved, promotions, resolving, previewing, checking>>

CartNext ==
  \/ \E p \in Products : SetQuantity(p)
  \/ \E code \in Codes : ApplyCoupon(code)
  \/ RemoveCoupon
  \/ Submit
  \/ Reload
  \/ \E ids \in resolving : ResolveAnswered(ids)
  \/ \E ids \in resolving : ResolveFailed(ids)
  \/ \E cart \in previewing : PreviewAnswered(cart)
  \/ \E ask \in checking : CheckAnswered(ask)
  \/ \E ask \in applying : ApplyAnswered(ask)

CartSpec == CartInit /\ [][CartNext]_cartVars

-----------------------------------------------------------------------------
(* What the checkout page adds up, in its own way. *)

PageEligible == Max({0, Subtotal(Detailed) - coupon.amount - promotions})

PageFee(zone) ==
  IF Subtotal(Detailed) = 0 \/ Subtotal(Detailed) >= FreeFrom THEN 0 ELSE ZoneFee[zone]

\* One division of the exact percentage, where the server divides twice.
PageMostPoints == Min({Balance, (PageEligible * MaxPercent) \div (100 * PointValue)})

PagePoints(typed) ==
  IF typed >= MinRedeem /\ typed <= PageMostPoints /\ PageEligible >= MinRedeemOrder
  THEN typed ELSE 0

PageTotal(zone, typed) ==
  Max({0, PageEligible - PagePoints(typed) * PointValue}) + PageFee(zone)

-----------------------------------------------------------------------------
(* Properties. *)

\* No question about the cart is open and the coupon was valued for it.
Settled == resolving = {} /\ previewing = {} /\ checking = {} /\ ~unchecked

\* Whatever order the answers come in, the promotions shown once all have come are
\* those of the cart on the screen, or none (CartContext.tsx:170-183).
PromotionsAreThisCarts ==
  previewing = {} => promotions \in {0, PromotionDiscount(Detailed)}

\* A customer who orders from a settled page is never charged more than it showed,
\* whichever answers were lost on the way (CheckoutPage.tsx:122-141, orderService.ts:283-364).
NeverChargedMore ==
  Settled /\ Ids(Detailed) # {} =>
    \A zone \in Zones, typed \in 0 .. Balance :
      ~Refused(Detailed, coupon.code, PagePoints(typed), Balance)
        => OrderTotal(Detailed, coupon.code, zone, PagePoints(typed)) <= PageTotal(zone, typed)

\* A settled page shows this cart's promotions and no less than what will be charged.
PageTellsTheTruth == CartTypeOK /\ PromotionsAreThisCarts /\ NeverChargedMore

\* When no answer was lost, the server accepts the coupon and the points the page offers
\* and charges what it showed; a coupon that grants delivery is charged less, because the
\* page forgets it once a zone is chosen (CheckoutPage.tsx:117-120).
QuoteHolds ==
  /\ Settled
  /\ promotions = PromotionDiscount(Detailed)
  /\ Subtotal(Detailed) >= MinimumOrder
  => \A zone \in Zones, typed \in 0 .. Balance :
       /\ ~Refused(Detailed, coupon.code, PagePoints(typed), Balance)
       /\ PageTotal(zone, typed) - OrderTotal(Detailed, coupon.code, zone, PagePoints(typed))
            = IF GrantsDelivery(coupon.code) THEN PageFee(zone) ELSE 0

UnitsOf(promotion) ==
  IF promotion.type = "bundle"
  THEN MapThenSumSet(LAMBDA i : promotion.items[i].quantity, DOMAIN promotion.items)
  ELSE promotion.buy + promotion.get

\* The groups of one promotion share no product.
GroupsApart(promotion) ==
  IF promotion.type = "bundle"
  THEN \A i, j \in DOMAIN promotion.items :
         i # j => promotion.items[i].group \cap promotion.items[j].group = {}
  ELSE promotion.trigger \cap promotion.reward = {}

\* No unit of the cart counts for two promotions, and no promotion is granted for units
\* that are not there, as long as the groups of each are apart: what all of them took is
\* what their terms ask for
\* (promotionService.ts:122-236; migrations/0055_promotions_engine.sql:9-10, 51-53).
PromotionsAreEarned ==
  (\A i \in DOMAIN Promotions : GroupsApart(Promotions[i])) =>
    LET all == Computed(Detailed)
    IN  Units(Detailed, Products) - Units(all.left, Products)
          = MapThenSumSet(LAMBDA i : all.given[i].times * UnitsOf(Promotions[i]),
                          DOMAIN all.given)

=============================================================================
