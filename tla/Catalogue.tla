----------------------------- MODULE Catalogue -----------------------------
(***************************************************************************)
(* What a product or a variant costs, and who changes it: the forms of the *)
(* admin, price and cost files applied in bulk and rolled back, and prices *)
(* scheduled for later that a cron job applies.  All of them work on the   *)
(* same rows and log what they do; most read them on the pool first and    *)
(* write later.  Stock is left to Stocktaking.tla.                         *)
(***************************************************************************)
EXTENDS Integers, FiniteSets, SequencesExt

CONSTANTS
    Products, Variants,
    Clerks,       \* requests that edit one item or schedule a price
    Bulks,        \* bulk_operation_batches
    LastSchedule, \* schedules are numbered by their starts_at
    Runs,         \* instances of pricing:apply-scheduled
    Prices, Costs,
    Edits,        \* what is typed in a form: tags
    Uploads,      \* what a file or an adjustment asks for
    BatchSize,    \* of a run
    MaxBegun,     \* bound: edits, files and schedules that begin
    MaxRolls,     \* bound: rollbacks of one batch
    MaxStops      \* bound: runs and clerks that stop half-way

Items     == Products \cup Variants
Schedules == 1..LastSchedule
Null == -2                  \* an old_price of NULL
Keep == -1                  \* an empty cell of a file

ASSUME CatalogueAssumption ==
    /\ Products \cap Variants = {} /\ IsFiniteSet(Items)
    /\ Prices \subseteq Nat /\ Costs \subseteq Nat /\ 1 \in Prices \cap Costs
    /\ Edits \subseteq [price : Prices, was : Prices \cup {Null}, cost : Costs]
    /\ Uploads \subseteq [kind : {"price", "adjust", "cost"}, price : Int,
                          was : Prices \cup {Null, Keep}, cost : Costs \cup {Keep}]
    /\ Clerks \cap Bulks = {} /\ (Clerks \cup Bulks) \cap Schedules = {}
    /\ LastSchedule \in Nat /\ BatchSize \in Nat \ {0}

VARIABLES
    tags,      \* price, old_price (was) and cost of each item
    prices,    \* product_price_history, in the order of its ids
    costs,     \* product_cost_history
    job,       \* what each clerk's request has read and is about to write
    bulk,      \* the batches, and the rows their confirmation has yet to apply
    schedule,  \* product_price_schedules
    run,       \* the schedules each run has locked
    now,       \* the clock: schedule s starts at s
    begun, stops,
    raced,     \* history: items written from a stale read, or left unlogged
    alone      \* history: the batches nobody has come between

vars == <<tags, prices, costs, job, bulk, schedule, run, now, begun, stops, raced,
          alone>>

Tags == [price : Prices, was : Prices \cup {Null}, cost : Costs]
Fresh == [price |-> 1, was |-> Null, cost |-> 1]
Price(tag) == [price |-> tag.price, was |-> tag.was]

PriceRow(i, old, new, who) ==
    [item |-> i, old |-> Price(old), new |-> Price(new), by |-> who]
CostRow(i, old, new, who) ==
    [item |-> i, old |-> old.cost, new |-> new.cost, by |-> who]
RowIf(condition, row) == IF condition THEN <<row>> ELSE <<>>

Idle == [doing |-> "idle"]
Become(c, step) == job' = [job EXCEPT ![c] = step]

\* History: somebody writes item i having seen it as seen.
Written(i, seen, who) ==
    /\ raced' = IF tags[i] = seen THEN raced ELSE raced \cup {i}
    /\ alone' = [b \in Bulks |-> alone[b] /\ b = who]
-----------------------------------------------------------------------------
(* The product form, the variant form, "end offer" *)
Open(c, what, i, new) ==
    /\ job[c] = Idle /\ begun < MaxBegun
    /\ Become(c, [doing |-> what, item |-> i, seen |-> tags[i], new |-> new])
    /\ begun' = begun + 1
    /\ UNCHANGED <<tags, prices, costs, bulk, schedule, run, now, stops, raced, alone>>

OpenOffer(c, i) ==
    /\ tags[i].was # Null
    /\ Open(c, "offer", i, [tags[i] EXCEPT !.was = Null])

LogEdit(c) ==
    LET e == job[c]
    IN  /\ prices' = prices \o RowIf(Price(e.new) # Price(e.seen),
                                     PriceRow(e.item, e.seen, e.new, c))
        /\ costs' = costs \o RowIf(e.new.cost # e.seen.cost,
                                   CostRow(e.item, e.seen, e.new, c))

\* updateProduct: one transaction, which writes every field of the form.
SaveProduct(c) ==
    LET e == job[c]
    IN  /\ e.doing = "edit" /\ e.item \in Products
        /\ tags' = [tags EXCEPT ![e.item] = e.new]
        /\ LogEdit(c)
        /\ Written(e.item, e.seen, c)
        /\ Become(c, Idle)
        /\ UNCHANGED <<bulk, schedule, run, now, begun, stops>>

\* endProductOffer writes old_price alone.
EndOffer(c) ==
    LET e == job[c]
    IN  /\ e.doing = "offer"
        /\ tags' = [tags EXCEPT ![e.item].was = Null]
        /\ LogEdit(c)
        /\ Written(e.item, e.seen, c)
        /\ Become(c, Idle)
        /\ UNCHANGED <<bulk, schedule, run, now, begun, stops>>

\* updateVariant: the row first, its history after it and outside a transaction.
SaveVariant(c) ==
    LET e == job[c]
    IN  /\ e.doing = "edit" /\ e.item \in Variants
        /\ tags' = [tags EXCEPT ![e.item] = e.new]
        /\ Written(e.item, e.seen, c)
        /\ Become(c, [e EXCEPT !.doing = "log"])
        /\ UNCHANGED <<prices, costs, bulk, schedule, run, now, begun, stops>>
LogVariant(c) ==
    LET e == job[c]
    IN  /\ e.doing = "log"
        /\ LogEdit(c)
        /\ raced' = IF tags[e.item] = e.new THEN raced ELSE raced \cup {e.item}
        /\ Become(c, Idle)
        /\ UNCHANGED <<tags, bulk, schedule, run, now, begun, stops, alone>>
-----------------------------------------------------------------------------
(* confirmPricingRows, confirmAdjustment, confirmCostRows *)
\* What an upload makes of an item as it was read.
Target(u, tag) ==
    IF u.kind = "adjust" THEN [tag EXCEPT !.price = @ + u.price]
    ELSE [price |-> IF u.price = Keep THEN tag.price ELSE u.price,
          was   |-> IF u.was = Keep THEN tag.was ELSE u.was,
          cost  |-> IF u.cost = Keep THEN tag.cost ELSE u.cost]
Allowed(u, i) ==
    /\ Target(u, tags[i]) # tags[i]
    /\ Target(u, tags[i]).price \in Prices    \* bound
    /\ u.kind = "adjust" => i \in Products

Confirm(b, u, chosen) ==
    /\ bulk[b].status = "none" /\ begun < MaxBegun
    /\ \A i \in chosen : Allowed(u, i)
    /\ bulk' = [bulk EXCEPT ![b] = [status |-> "completed", kind |-> u.kind, rolls |-> 0,
          before |-> tags,
          rows |-> {[item |-> i, from |-> tags[i], to |-> Target(u, tags[i])] : i \in chosen}]]
    /\ alone' = [alone EXCEPT ![b] = TRUE]
    /\ begun' = begun + 1
    /\ UNCHANGED <<tags, prices, costs, job, schedule, run, now, stops, raced>>

Applied(b, r) ==
    /\ bulk' = [bulk EXCEPT ![b].rows = @ \ {r}]
    /\ UNCHANGED <<job, schedule, run, now, begun, stops>>

\* applyOneRow: prices, and the cost with them, as computed from what was read.
ApplyRowIf(b, r, worthLogging) ==
    /\ bulk[b].kind # "cost" /\ r \in bulk[b].rows
    /\ tags' = [tags EXCEPT ![r.item] = r.to]
    /\ prices' = prices \o RowIf(worthLogging, PriceRow(r.item, tags[r.item], r.to, b))
    /\ costs' = costs \o RowIf(r.to.cost # r.from.cost,
                               CostRow(r.item, tags[r.item], r.to, b))
    /\ Written(r.item, r.from, b)
    /\ Applied(b, r)
ApplyLoggingPrices(b, r) == ApplyRowIf(b, r, r.to.price # r.from.price)
ApplyRow(b, r) ==
    ApplyRowIf(b, r, r.to.price # r.from.price \/ r.to.was # tags[r.item].was)

\* applyOneCostRow compares with the row it has locked.
ApplyCost(b, r) ==
    LET new == [tags[r.item] EXCEPT !.cost = r.to.cost]
    IN  /\ bulk[b].kind = "cost" /\ r \in bulk[b].rows
        /\ tags' = [tags EXCEPT ![r.item] = new]
        /\ costs' = costs \o RowIf(new # tags[r.item], CostRow(r.item, tags[r.item], new, b))
        /\ Written(r.item, tags[r.item], b)
        /\ Applied(b, r)
        /\ UNCHANGED prices

\* The server stops between two chunks of a file.
StopConfirming(b) ==
    /\ bulk[b].rows # {} /\ stops < MaxStops
    /\ bulk' = [bulk EXCEPT ![b].rows = {}]
    /\ alone' = [alone EXCEPT ![b] = FALSE]
    /\ stops' = stops + 1
    /\ UNCHANGED <<tags, prices, costs, job, schedule, run, now, begun, raced>>

(* rollbackBatch *)
RowsFor(log, i) == {k \in DOMAIN log : log[k].item = i}
\* The rows of a batch for an item; its own rollbacks are among them.
RowsOf(log, b, i) == {k \in RowsFor(log, i) : log[k].by = b}

\* The latest price row decides; of cost rows, whose ids are random, any.
PriceItems(b) == {i \in Items : RowsOf(prices, b, i) # {}}
CostItems(b)  == {i \in Items : RowsOf(costs, b, i) # {}}
Undone(row)   == [row EXCEPT !.old = row.new, !.new = row.old]

Rollback(b) ==
    /\ bulk[b].status # "none" /\ bulk[b].rolls < MaxRolls
    /\ \E pick \in [CostItems(b) -> DOMAIN costs] :
        LET price == [i \in PriceItems(b) |-> prices[Max(RowsOf(prices, b, i))]]
            cost  == [i \in CostItems(b) |-> costs[pick[i]]]
            undoP == {i \in PriceItems(b) : Price(tags[i]) = price[i].new}
            undoC == {i \in CostItems(b) : tags[i].cost = cost[i].new}
            conflict == undoP # PriceItems(b) \/ undoC # CostItems(b)
            seqP == SetToSeq(undoP)
            seqC == SetToSeq(undoC)
        IN  /\ \A i \in CostItems(b) : pick[i] \in RowsOf(costs, b, i)
            /\ tags' = [i \in Items |->
                  [price |-> IF i \in undoP THEN price[i].old.price ELSE tags[i].price,
                   was   |-> IF i \in undoP THEN price[i].old.was ELSE tags[i].was,
                   cost  |-> IF i \in undoC THEN cost[i].old ELSE tags[i].cost]]
            /\ prices' = prices \o [k \in DOMAIN seqP |-> Undone(price[seqP[k]])]
            /\ costs' = costs \o [k \in DOMAIN seqC |-> Undone(cost[seqC[k]])]
            /\ bulk' = [bulk EXCEPT ![b].rolls = @ + 1, ![b].status =
                  IF conflict THEN "partially_rolled_back"
                  ELSE IF undoP \cup undoC # {} THEN "rolled_back" ELSE @]
    /\ alone' = [x \in Bulks |-> alone[x] /\ x = b /\ bulk[b].rows = {}]
    /\ UNCHANGED <<job, schedule, run, now, begun, stops, raced>>
-----------------------------------------------------------------------------
(* Scheduled prices *)
\* createPriceSchedule reads the price, then inserts the schedule.
OpenSchedule(c, i) ==
    /\ job[c] = Idle /\ begun < MaxBegun
    /\ Become(c, [doing |-> "schedule", item |-> i, seen |-> tags[i]])
    /\ begun' = begun + 1
    /\ UNCHANGED <<tags, prices, costs, bulk, schedule, run, now, stops, raced, alone>>

CreateSchedule(c, s, new) ==
    /\ job[c].doing = "schedule"
    /\ schedule[s].status = "none" /\ now < s
    /\ schedule' = [schedule EXCEPT ![s] =
          [status |-> "pending", item |-> job[c].item, new |-> new,
           expected |-> job[c].seen.price]]
    /\ Become(c, Idle)
    /\ UNCHANGED <<tags, prices, costs, bulk, run, now, begun, stops, raced, alone>>

Locked(s) == \E r \in Runs : s \in run[r]

CancelSchedule(s) ==
    /\ schedule[s].status = "pending" /\ ~Locked(s)
    /\ schedule' = [schedule EXCEPT ![s].status = "cancelled"]
    /\ UNCHANGED <<tags, prices, costs, job, bulk, run, now, begun, stops, raced, alone>>

\* runApplyScheduledBatch: the oldest that are due, FOR UPDATE SKIP LOCKED.
Due(s) == schedule[s].status = "pending" /\ s <= now
SelectAmong(r, free) ==
    /\ run[r] = {} /\ free # {}
    /\ run' = [run EXCEPT ![r] =
          {s \in free : Cardinality({t \in free : t < s}) < BatchSize}]
    /\ UNCHANGED <<tags, prices, costs, job, bulk, schedule, now, begun, stops, raced, alone>>
SelectUnlocked(r) == SelectAmong(r, {s \in Schedules : Due(s)})
Select(r) == SelectAmong(r, {s \in Schedules : Due(s) /\ ~Locked(s)})

\* applyOneSchedule: [items, log, schedules] with schedule s decided.
DecideIf(state, s, matches, otherwise) ==
    LET i == state.schedules[s].item
        new == state.schedules[s].new
    IN  IF matches
        THEN [tags |-> [state.tags EXCEPT ![i].price = new.price, ![i].was = new.was],
              log |-> Append(state.log,
                        PriceRow(i, [state.tags[i] EXCEPT !.was = Null], new, s)),
              schedules |-> [state.schedules EXCEPT ![s].status = "applied"]]
        ELSE [state EXCEPT !.schedules[s].status = otherwise]
Unedited(state, s) ==
    state.tags[state.schedules[s].item].price = state.schedules[s].expected
DecideBlindly(state, s)    == DecideIf(state, s, TRUE, "conflict")
DecideOnceItFits(state, s) == DecideIf(state, s, Unedited(state, s), "pending")
Decide(state, s)           == DecideIf(state, s, Unedited(state, s), "conflict")

\* The schedules of S decided in the order of starts_at.
DecideAll(S) ==
    MapThenFoldSet(LAMBDA s, state : Decide(state, s),
                   [tags |-> tags, log |-> prices, schedules |-> schedule],
                   LAMBDA s : s, LAMBDA T : Max(T), S)

\* The batch commits, or is undone as a whole: product_price_history wants a
\* product, and the row of a variant's schedule has none.
ApplySchedules(r) ==
    LET end == DecideAll(run[r])
    IN  /\ run[r] # {}
        /\ \A s \in run[r] :
              end.schedules[s].status = "applied" => schedule[s].item \in Products
        /\ tags' = end.tags /\ prices' = end.log /\ schedule' = end.schedules
        /\ alone' = [b \in Bulks |-> FALSE]
        /\ run' = [run EXCEPT ![r] = {}]
        /\ UNCHANGED <<costs, job, bulk, now, begun, stops, raced>>
BatchFails(r) ==
    LET end == DecideAll(run[r])
    IN  /\ \E s \in run[r] :
              end.schedules[s].status = "applied" /\ schedule[s].item \in Variants
        /\ run' = [run EXCEPT ![r] = {}]
        /\ UNCHANGED <<tags, prices, costs, job, bulk, schedule, now, begun, stops, raced, alone>>

(* The environment *)
Tick ==
    /\ now < LastSchedule
    /\ now' = now + 1
    /\ UNCHANGED <<tags, prices, costs, job, bulk, schedule, run, begun, stops, raced, alone>>

StopRun(r) ==
    /\ run[r] # {} /\ stops < MaxStops
    /\ run' = [run EXCEPT ![r] = {}] /\ stops' = stops + 1
    /\ UNCHANGED <<tags, prices, costs, job, bulk, schedule, now, begun, raced, alone>>

\* A request ends without writing: its server stopped, or starts_at had passed.
StopClerk(c) ==
    /\ job[c] # Idle
    /\ job[c].doing = "log" => stops < MaxStops
    /\ raced' = IF job[c].doing = "log" THEN raced \cup {job[c].item} ELSE raced
    /\ stops' = IF job[c].doing = "log" THEN stops + 1 ELSE stops
    /\ Become(c, Idle)
    /\ UNCHANGED <<tags, prices, costs, bulk, schedule, run, now, begun, alone>>
-----------------------------------------------------------------------------
Init ==
    /\ tags = [i \in Items |-> Fresh]
    /\ prices = <<>> /\ costs = <<>>
    /\ job = [c \in Clerks |-> Idle]
    /\ bulk = [b \in Bulks |-> [status |-> "none", kind |-> "price", rolls |-> 0,
                                before |-> tags, rows |-> {}]]
    /\ schedule = [s \in Schedules |-> [status |-> "none"]]
    /\ run = [r \in Runs |-> {}]
    /\ now = 0 /\ begun = 0 /\ stops = 0
    /\ raced = {} /\ alone = [b \in Bulks |-> FALSE]

Editing ==
    \E c \in Clerks :
        \/ \E i \in Items, new \in Edits : Open(c, "edit", i, new)
        \/ \E i \in Products : OpenOffer(c, i)
        \/ SaveProduct(c) \/ EndOffer(c) \/ SaveVariant(c) \/ LogVariant(c)
        \/ \E i \in Items : OpenSchedule(c, i)
        \/ \E s \in Schedules, new \in Edits : CreateSchedule(c, s, new)
        \/ StopClerk(c)

InBulk ==
    \E b \in Bulks :
        \/ \E u \in Uploads, chosen \in SUBSET Items : Confirm(b, u, chosen)
        \/ \E r \in bulk[b].rows : ApplyRow(b, r) \/ ApplyCost(b, r)
        \/ StopConfirming(b)
        \/ Rollback(b)

Scheduled ==
    \/ \E s \in Schedules : CancelSchedule(s)
    \/ \E r \in Runs : Select(r) \/ ApplySchedules(r) \/ BatchFails(r) \/ StopRun(r)
    \/ Tick

Next == Editing \/ InBulk \/ Scheduled

\* Railway starts the job every quarter of an hour (docs/SCHEDULED_PRICING_CRON.md).
Fairness ==
    \A r \in Runs : WF_vars(Select(r)) /\ WF_vars(ApplySchedules(r) \/ BatchFails(r))

Spec == Init /\ [][Next]_vars /\ Fairness
-----------------------------------------------------------------------------
Statuses == {"none", "pending", "applied", "cancelled", "conflict"}
TypeOK ==
    /\ tags \in [Items -> Tags]
    /\ \A row \in ToSet(prices) : row.item \in Items /\ row.by \in Clerks \cup Bulks \cup Schedules
    /\ \A row \in ToSet(costs) : {row.old, row.new} \subseteq Costs
    /\ \A s \in Schedules : schedule[s].status \in Statuses
    /\ \A r \in Runs : \A s \in run[r] : schedule[s].status = "pending"
    /\ raced \subseteq Items

Tells(log, i, first, value) ==
    LET own == RowsFor(log, i)
    IN  value = IF own = {} THEN first ELSE log[Max(own)].new

\* The histories explain what an item costs today, whoever of forms, files,
\* rollbacks and schedules changed it and in whatever order (migration 0047:15-18),
\* as long as nobody wrote what another had changed after it was read.
HistoryTells ==
    \A i \in Items \ raced :
        (\A c \in Clerks : job[c].doing = "log" => job[c].item # i) =>
            /\ Tells(prices, i, Price(Fresh), Price(tags[i]))
            /\ Tells(costs, i, Fresh.cost, tags[i].cost)

\* A batch that nobody came between and that was rolled back once, as a whole, has
\* left prices, old prices and costs as they were (rollbackBatch).
BatchesUndo ==
    \A b \in Bulks :
        bulk[b].status = "rolled_back" /\ bulk[b].rolls = 1 /\ alone[b] =>
            tags = bulk[b].before

\* Of several prices scheduled against the same price one is applied, unless the
\* price came back to it in between: the later ones end as conflicts.
SchedulesDoNotStack ==
    \A j, k \in DOMAIN prices :
        j < k /\ {prices[j].by, prices[k].by} \subseteq Schedules =>
            LET first == schedule[prices[j].by]
                later == schedule[prices[k].by]
            IN  first.item = later.item /\ first.expected = later.expected =>
                   \/ first.item \in raced
                   \/ \E l \in j..(k-1) : /\ prices[l].item = later.item
                                           /\ prices[l].new.price = later.expected

\* What an item costs, and why, can be read from the histories, and no schedule
\* overwrote a price that was decided after it was made.
PricesExplained == TypeOK /\ HistoryTells /\ SchedulesDoNotStack

\* What became of a schedule stays: a cancelled one is never applied, and of two
\* runs at once one decides (pricingScheduleService.ts:86-87).
SchedulesAreFinal ==
    [][\A s \in Schedules :
          schedule[s].status \in {"applied", "cancelled", "conflict"} =>
              schedule'[s].status = schedule[s].status]_vars

Decided(s) == schedule[s].status \in {"applied", "cancelled", "conflict"}

\* The job decides every schedule that is due, as long as no variant's is.
DueIsDecided ==
    \A s \in Schedules :
        Due(s) ~> Decided(s) \/ \E t \in Schedules : Due(t) /\ schedule[t].item \in Variants
=============================================================================
