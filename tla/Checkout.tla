------------------------------ MODULE Checkout ------------------------------
(***************************************************************************)
(* createOrder (orderService.ts) and cancelOrder at the grain at which     *)
(* PostgreSQL interleaves them: one action per statement that reads what   *)
(* another transaction may change, takes a row lock, or takes a connection *)
(* of the pool.  What a transaction writes becomes visible when it commits *)
(* (READ COMMITTED), and the rows it wrote stay locked until then, so the  *)
(* writes are one action with the commit.                                  *)
(***************************************************************************)
EXTENDS OrderBook

CONSTANTS
    Admins,        \* concurrent PATCH .../status requests that cancel orders
    IdOrder,       \* IdOrder[p]: the place of p in ORDER BY id
    SlotCapacity,  \* max_orders_per_day of the one delivery slot
    PoolSize,      \* connections of the pg pool
    MaxCrashes,    \* bound: server restarts in a behaviour
    Nobody, NoRequest

Processes == Requests \cup Admins
Rows      == Codes \cup Products \cup Customers \cup Keys \cup Requests

ASSUME CheckoutAssumption ==
    /\ IdOrder \in [Products -> Nat]
    /\ \A p, q \in Products : IdOrder[p] = IdOrder[q] => p = q
    /\ SlotCapacity \in Nat /\ PoolSize \in Nat /\ MaxCrashes \in Nat
    /\ Nobody \notin Processes /\ NoRequest \notin Requests
    /\ Requests \cap Admins = {}
    /\ Codes \cap (Products \cup Customers \cup Keys \cup Requests) = {}
    /\ Products \cap (Customers \cup Keys \cup Requests) = {}
    /\ Customers \cap (Keys \cup Requests) = {}
    /\ Keys \cap Requests = {}

VARIABLES
    pc,       \* pc[r]: the statement request r is about to run
    answer,   \* answer[r]: what the client was told, and of which order
    admin,    \* admin[a]: the cancellation a is carrying out
    owner,    \* owner[row]: the transaction that holds the row's lock
    crashes   \* bound: restarts so far

sessionVars == <<pc, answer, admin, owner, crashes>>
vars == <<bookVars, sessionVars>>

Answers == [kind : {"none", "created", "replayed", "conflict", "rejected",
                    "failed"},
            order : Requests \cup {NoRequest}]
Says(k, o) == [kind |-> k, order |-> o]
Idle == [pc |-> "idle", order |-> NoRequest, next |-> 1]

TransactionSteps ==
    {"capacity", "discount", "products", "validate", "promotions", "points",
     "insert", "commit"}
\* The statements between the validation of the cart and COMMIT.
Validated == {"promotions", "points", "insert", "commit"}
-----------------------------------------------------------------------------
(* Connections and locks *)

\* Transactions hold the connection withTransaction took until they end.
Connected ==
    {r \in Requests : pc[r] \in TransactionSteps}
      \cup {a \in Admins : admin[a].pc # "idle"}
ConnectionFree == Cardinality(Connected) < PoolSize

Without(x) == [row \in Rows |-> IF owner[row] = x THEN Nobody ELSE owner[row]]

\* The products of r's cart it has yet to lock, and the next in id order.
Unlocked(r) == {p \in Items(form[r]) : owner[p] # r}
NextInCart(r) ==
    LET cart == form[r].cart
    IN  cart[CHOOSE i \in DOMAIN cart :
                /\ cart[i] \in Unlocked(r)
                /\ \A j \in 1..(i - 1) : cart[j] \notin Unlocked(r)]
NextProduct(r) ==
    CHOOSE p \in Unlocked(r) : \A q \in Unlocked(r) : IdOrder[p] <= IdOrder[q]

\* Does the next statement of x want a row lock, and which.
WantsLock(x) ==
    IF x \in Requests
    THEN \/ pc[x] \in {"discount", "points"}
         \/ pc[x] = "products" /\ Unlocked(x) # {}
         \/ pc[x] = "insert" /\ key[x] # NoKey
    ELSE admin[x].pc \in {"order", "items"}
Wanted(x) ==
    IF x \in Requests
    THEN CASE pc[x] = "discount" -> form[x].code
           [] pc[x] = "products" -> NextProduct(x)
           [] pc[x] = "points"   -> form[x].customer
           [] OTHER              -> key[x]
    ELSE IF admin[x].pc = "order" THEN admin[x].order
         ELSE form[admin[x].order].cart[admin[x].next]

Waits(x) == WantsLock(x) /\ owner[Wanted(x)] \notin {Nobody, x}
WaitsFor(x, y) == Waits(x) /\ owner[Wanted(x)] = y

Lock(x) ==
    /\ WantsLock(x)
    /\ owner[Wanted(x)] = Nobody
    /\ owner' = [owner EXCEPT ![Wanted(x)] = x]
-----------------------------------------------------------------------------
(* createOrder *)

Goto(r, step) == pc' = [pc EXCEPT ![r] = step]

Tell(r, k, o) ==
    /\ Goto(r, "done")
    /\ answer' = [answer EXCEPT ![r] = Says(k, o)]

RollBackKeepingLocks(r, k) ==
    Tell(r, k, NoRequest) /\ UNCHANGED <<bookVars, admin, owner, crashes>>
\* ROLLBACK: the locks go, nothing was written.
RollBack(r, k) ==
    /\ Tell(r, k, NoRequest)
    /\ owner' = Without(r)
    /\ UNCHANGED <<bookVars, admin, crashes>>

Submit(r) ==
    /\ BookSubmit(r)
    /\ Goto(r, IF key'[r] = NoKey THEN "connect" ELSE "lookup")
    /\ UNCHANGED <<answer, admin, owner, crashes>>

\* The fingerprint sorts the lines of the cart.
Fingerprint(f) == [f EXCEPT !.cart = Items(f)]

SameKeyUncommitted(r) ==
    {q \in Requests : key[q] = key[r] /\ (q \in Stored \/ pc[q] = "commit")}
SameKey(r) == {q \in Stored : key[q] = key[r]}

\* findOrderByIdempotencyKey on the pool, before any transaction.
Lookup(r) ==
    /\ pc[r] = "lookup" /\ ConnectionFree
    /\ \/ /\ SameKey(r) = {}
          /\ Goto(r, "connect")
          /\ UNCHANGED answer
       \/ \E q \in SameKey(r) :
            IF Fingerprint(form[q]) = Fingerprint(form[r])
            THEN Tell(r, "replayed", q)
            ELSE Tell(r, "conflict", NoRequest)
    /\ UNCHANGED <<bookVars, admin, owner, crashes>>

Connect(r) ==
    /\ pc[r] = "connect" /\ ConnectionFree
    /\ Goto(r, "capacity")
    /\ UNCHANGED <<bookVars, answer, admin, owner, crashes>>

\* Settings, zone, date and cut-off are the admin's to change at any time, so
\* each may refuse the order; the slot is counted over the committed orders.
CheckDelivery(r) ==
    /\ pc[r] = "capacity"
    /\ Cardinality(Placed) < SlotCapacity
    /\ Goto(r, IF form[r].code = NoCode THEN "products" ELSE "discount")
    /\ UNCHANGED <<bookVars, answer, admin, owner, crashes>>

RefuseDelivery(r) == pc[r] = "capacity" /\ RollBack(r, "rejected")

LockDiscountShared(r) ==
    /\ pc[r] = "discount" /\ Goto(r, "products")
    /\ UNCHANGED <<bookVars, answer, admin, owner, crashes>>
LockDiscount(r) ==
    /\ pc[r] = "discount" /\ Lock(r)
    /\ Goto(r, "products")
    /\ UNCHANGED <<bookVars, answer, admin, crashes>>

\* SELECT ... ORDER BY id FOR UPDATE takes its rows one at a time.
LockProduct(r) ==
    /\ pc[r] = "products" /\ Lock(r)
    /\ Goto(r, IF Unlocked(r) = {Wanted(r)} THEN "validate" ELSE "products")
    /\ UNCHANGED <<bookVars, answer, admin, crashes>>

\* checkFirstOrderEligibility counts every live order of the customer.
FirstOrder(r) ==
    form[r].code \in FirstOrderOnly =>
        \A q \in Placed : form[q].customer # form[r].customer

Validate(r) ==
    /\ pc[r] = "validate"
    /\ InStock(r) /\ CodeUsable(r) /\ FirstOrder(r)
    /\ Goto(r, "promotions")
    /\ UNCHANGED <<bookVars, answer, admin, owner, crashes>>

\* Besides, availability, minimum order and the code's terms are the admin's.
RefuseCart(r) == pc[r] = "validate" /\ RollBack(r, "rejected")

\* listActivePromotions asks the pool for a second connection.
ReadPromotions(r) ==
    /\ pc[r] = "promotions" /\ ConnectionFree
    /\ Goto(r, IF form[r].redeems THEN "points" ELSE "insert")
    /\ UNCHANGED <<bookVars, answer, admin, owner, crashes>>

LockPointsShared(r) ==
    /\ pc[r] = "points" /\ PointsCover(r) /\ Goto(r, "insert")
    /\ UNCHANGED <<bookVars, answer, admin, owner, crashes>>
\* lockAndValidateLoyaltyRedemption.
LockPoints(r) ==
    /\ pc[r] = "points" /\ Lock(r)
    /\ Goto(r, "insert")
    /\ PointsCover(r)
    /\ UNCHANGED <<bookVars, answer, admin, crashes>>

RefusePoints(r) ==
    /\ pc[r] = "points" /\ owner[Wanted(r)] = Nobody /\ ~PointsCover(r)
    /\ RollBack(r, "rejected")

InsertOrderNotUnique(r) ==
    /\ pc[r] = "insert" /\ Goto(r, "commit")
    /\ UNCHANGED <<bookVars, answer, admin, owner, crashes>>
\* INSERT INTO orders: a key that an open transaction inserted makes it wait,
\* one that was committed in the meantime raises IdempotencyRaceError.
InsertOrder(r) ==
    /\ pc[r] = "insert"
    /\ KeyUnused(r)
    /\ IF key[r] = NoKey THEN UNCHANGED owner ELSE Lock(r)
    /\ Goto(r, "commit")
    /\ UNCHANGED <<bookVars, answer, admin, crashes>>

LoseRace(r) ==
    /\ pc[r] = "insert" /\ ~KeyUnused(r)
    /\ Goto(r, "race")
    /\ owner' = Without(r)
    /\ UNCHANGED <<bookVars, answer, admin, crashes>>

\* The second lookup answers without comparing fingerprints.
ReplayAfterRace(r) ==
    /\ pc[r] = "race" /\ ConnectionFree
    /\ \E q \in SameKey(r) : Tell(r, "replayed", q)
    /\ UNCHANGED <<bookVars, admin, owner, crashes>>

\* Lines, stock, counter, usage row and redemption, then COMMIT.  The updates
\* repeat the checks: one that fails rolls the whole order back.
Commit(r) ==
    /\ pc[r] = "commit"
    /\ IF /\ InStock(r)
          /\ form[r].code # NoCode => used[form[r].code] < MaxUses[form[r].code]
       THEN /\ PlaceEffect(r)
            /\ owner' = Without(r)
            /\ Goto(r, "respond")
            /\ UNCHANGED <<answer, admin, crashes>>
       ELSE RollBack(r, "failed")

\* The committed order is read back on the pool before the client hears of it.
Respond(r) ==
    /\ pc[r] = "respond" /\ ConnectionFree
    /\ Tell(r, "created", r)
    /\ UNCHANGED <<bookVars, admin, owner, crashes>>
-----------------------------------------------------------------------------
(* cancelOrder, and what may befall any transaction *)

BeginCancel(a, o) ==
    /\ admin[a] = Idle /\ o \in Stored /\ ConnectionFree
    /\ admin' = [admin EXCEPT ![a] = [pc |-> "order", order |-> o, next |-> 1]]
    /\ UNCHANGED <<bookVars, pc, answer, owner, crashes>>

LockOrderUnconditional(a) ==
    /\ admin[a].pc = "order" /\ Lock(a)
    /\ admin' = [admin EXCEPT ![a].pc = "items"]
    /\ UNCHANGED <<bookVars, pc, answer, crashes>>
\* Cancelling a cancelled order is allowed and changes nothing.
LockOrder(a) ==
    /\ admin[a].pc = "order"
    /\ IF book[admin[a].order] = "placed"
       THEN Lock(a) /\ admin' = [admin EXCEPT ![a].pc = "items"]
       ELSE /\ owner[Wanted(a)] = Nobody
            /\ admin' = [admin EXCEPT ![a] = Idle]
            /\ UNCHANGED owner
    /\ UNCHANGED <<bookVars, pc, answer, crashes>>

\* restoreStockForCancelledOrder walks the lines in no id order (the SELECT has
\* no ORDER BY): here, in the order of the cart.
RestoreItem(a) ==
    LET cart == form[admin[a].order].cart IN
    /\ admin[a].pc = "items" /\ Lock(a)
    /\ admin' = [admin EXCEPT
            ![a].pc   = IF admin[a].next < Len(cart) THEN "items" ELSE "commit",
            ![a].next = admin[a].next + 1]
    /\ UNCHANGED <<bookVars, pc, answer, crashes>>

CommitCancel(a) ==
    /\ admin[a].pc = "commit"
    /\ CancelEffect(admin[a].order)
    /\ owner' = Without(a)
    /\ admin' = [admin EXCEPT ![a] = Idle]
    /\ UNCHANGED <<pc, answer, crashes>>

\* PostgreSQL finds a cycle of lock waits and rolls one of its members back.
InCycle(x) ==
    \E S \in SUBSET Processes :
        /\ x \in S
        /\ \A y \in S : \E z \in S : WaitsFor(y, z)
        /\ \A z \in S : \E y \in S : WaitsFor(y, z)

BreakDeadlock(x) ==
    /\ InCycle(x)
    /\ IF x \in Requests
       THEN RollBack(x, "failed")
       ELSE /\ owner' = Without(x)
            /\ admin' = [admin EXCEPT ![x] = Idle]
            /\ UNCHANGED <<bookVars, pc, answer, crashes>>

\* A restart rolls every open transaction back and drops every connection.
Crash ==
    /\ crashes < MaxCrashes
    /\ crashes' = crashes + 1
    /\ pc' = [r \in Requests |-> IF pc[r] = "idle" THEN "idle" ELSE "done"]
    /\ answer' = [r \in Requests |->
                    IF pc[r] \in {"idle", "done"} THEN answer[r]
                    ELSE Says("failed", NoRequest)]
    /\ admin' = [a \in Admins |-> Idle]
    /\ owner' = [row \in Rows |-> Nobody]
    /\ UNCHANGED bookVars
-----------------------------------------------------------------------------
Init ==
    /\ BookInit
    /\ pc = [r \in Requests |-> "idle"]
    /\ answer = [r \in Requests |-> Says("none", NoRequest)]
    /\ admin = [a \in Admins |-> Idle]
    /\ owner = [row \in Rows |-> Nobody]
    /\ crashes = 0

Locking(r) == LockDiscount(r) \/ LockProduct(r) \/ LockPoints(r) \/ InsertOrder(r)

Working(r) ==
    \/ Lookup(r) \/ Connect(r) \/ CheckDelivery(r) \/ RefuseDelivery(r)
    \/ Validate(r) \/ RefuseCart(r) \/ ReadPromotions(r) \/ RefusePoints(r)
    \/ LoseRace(r) \/ ReplayAfterRace(r) \/ Commit(r) \/ Respond(r)

Cancelling(a) == LockOrder(a) \/ RestoreItem(a) \/ CommitCancel(a)

Next ==
    \/ \E r \in Requests : Submit(r) \/ Locking(r) \/ Working(r)
    \/ \E a \in Admins : Cancelling(a) \/ \E o \in Requests : BeginCancel(a, o)
    \/ \E x \in Processes : BreakDeadlock(x)
    \/ Crash

Spec == Init /\ [][Next]_vars

\* Statements of a running transaction run; lock queues are first come, first
\* served, so a lock that is free again and again is had at last.
Fairness ==
    /\ \A r \in Requests : WF_vars(Working(r)) /\ SF_vars(Locking(r))
    /\ \A a \in Admins : WF_vars(CommitCancel(a)) /\ SF_vars(Cancelling(a))
    /\ \A x \in Processes : WF_vars(BreakDeadlock(x))

FairSpec == Spec /\ Fairness
-----------------------------------------------------------------------------
TypeOK ==
    /\ BookTypeOK
    /\ pc \in [Requests -> {"idle", "lookup", "connect", "race", "respond", "done"}
                            \cup TransactionSteps]
    /\ answer \in [Requests -> Answers]
    /\ admin \in [Admins -> [pc : {"idle", "order", "items", "commit"},
                             order : Requests \cup {NoRequest}, next : Nat \ {0}]]
    /\ owner \in [Rows -> Processes \cup {Nobody}]
    /\ crashes \in 0..MaxCrashes

ChecksHold(r) ==
    /\ pc[r] \in Validated => InStock(r) /\ CodeUsable(r)
    /\ pc[r] \in {"insert", "commit"} => PointsCover(r)
    /\ pc[r] = "commit" => KeyUnused(r)

\* What createOrder checked under its locks is still so when it writes: the
\* guarded updates of deductStockForOrder and incrementDiscountUsageAtomic are
\* the second line of defence their comments say they are, never the first.
ChecksStillHold == \A r \in Requests : ChecksHold(r)

\* The claim of lockProductsForOrder: checkouts take their rows in one order,
\* so they never wait for each other in a circle.
CheckoutsNeverDeadlock ==
    \A S \in SUBSET Requests : S # {} =>
        \E r \in S : \A q \in S : ~WaitsFor(r, q)

AnswerIsTrue(r) ==
    /\ answer[r].kind \in {"rejected", "conflict", "replayed"} =>
          book[r] = "submitted"
    /\ answer[r].kind \in {"created", "replayed"} =>
          answer[r].order \in Stored /\ key[answer[r].order] = key[r]

\* Whatever was answered is so: a refused request stored no order, and an
\* order that was reported is a stored one that carries the client's key.
AnswersAreTrue == \A r \in Requests : AnswerIsTrue(r)

\* Every checkout is answered: nobody waits for a lock or a connection forever.
EveryCheckoutAnswered ==
    \A r \in Requests : pc[r] # "idle" ~> pc[r] = "done"
=============================================================================
