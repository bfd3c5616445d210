--------------------------- MODULE CatalogueProofs ---------------------------
(***************************************************************************)
(* What Catalogue keeps true for any number of products, variants, clerks, *)
(* files, schedules and runs of the job.                                   *)
(***************************************************************************)
EXTENDS Catalogue, FiniteSetTheorems, TLAPS

PriceTags == [price : Prices, was : Prices \cup {Null}]
PriceRows == [item : Items, old : PriceTags, new : PriceTags,
              by : Clerks \cup Bulks \cup Schedules]
CostRows  == [item : Items, old : Costs, new : Costs, by : Clerks \cup Bulks]

Jobs ==
    {Idle} \cup [doing : {"edit", "offer", "log"}, item : Items, seen : Tags, new : Tags]
    \cup [doing : {"schedule"}, item : Items, seen : Tags]
FileRows == [item : Items, from : Tags, to : Tags]
Batches ==
    [status : {"none", "completed", "rolled_back", "partially_rolled_back"},
     kind : {"price", "adjust", "cost"}, rolls : Nat, before : [Items -> Tags],
     rows : SUBSET FileRows]
ScheduleRows ==
    {[status |-> "none"]}
    \cup [status : {"pending", "applied", "cancelled", "conflict"}, item : Items,
          new : Tags, expected : Prices]

Types ==
    /\ tags \in [Items -> Tags]
    /\ prices \in Seq(PriceRows) /\ costs \in Seq(CostRows)
    /\ job \in [Clerks -> Jobs]
    /\ bulk \in [Bulks -> Batches]
    /\ schedule \in [Schedules -> ScheduleRows]
    /\ run \in [Runs -> SUBSET Schedules]
    /\ raced \subseteq Items /\ alone \in [Bulks -> BOOLEAN]

\* Only variants have their history written after the row, and an offer that ends
\* changes the old price alone.
JobsAreMeant ==
    \A c \in Clerks :
        /\ job[c].doing = "log" => job[c].item \in Variants
        /\ job[c].doing = "offer" => job[c].new = [job[c].seen EXCEPT !.was = Null]

Unlogged(c, i) == job[c].doing = "log" /\ job[c].item = i

\* What the histories do not tell of an item yet is about to be logged.
PriceTold(i) ==
    \/ Tells(prices, i, Price(Fresh), Price(tags[i]))
    \/ \E c \in Clerks : Unlogged(c, i) /\ Price(job[c].new) # Price(job[c].seen)
CostTold(i) ==
    \/ Tells(costs, i, Fresh.cost, tags[i].cost)
    \/ \E c \in Clerks : Unlogged(c, i) /\ job[c].new.cost # job[c].seen.cost
ItemsTold == \A i \in Items \ raced : PriceTold(i) /\ CostTold(i)

\* A run holds schedules that are pending, and no other run does.
LocksHold ==
    \A r \in Runs :
        /\ \A s \in run[r] : schedule[s].status = "pending"
        /\ \A q \in Runs : q # r => run[q] \cap run[r] = {}

\* A schedule's row in the history is of its product, once it is applied.
AppliedRows ==
    \A k \in DOMAIN prices : prices[k].by \in Schedules =>
        /\ schedule[prices[k].by].status = "applied"
        /\ schedule[prices[k].by].item = prices[k].item
        /\ prices[k].item \in Products

\* A batch that has not been confirmed has no rows.
Unbegun(b) ==
    /\ bulk[b].rows = {} /\ ~alone[b] /\ bulk[b].rolls = 0
    /\ \A k \in DOMAIN prices : prices[k].by # b
    /\ \A k \in DOMAIN costs : costs[k].by # b

\* The rows a batch that is alone has yet to apply are as they were read, and those
\* it has applied are logged.
StillOpen(b) ==
    \A r \in bulk[b].rows :
        /\ r.from = bulk[b].before[r.item] /\ r.from = tags[r.item]
        /\ RowsOf(prices, b, r.item) = {} /\ RowsOf(costs, b, r.item) = {}
        /\ \A q \in bulk[b].rows : q.item = r.item => q = r
Changed(b, i) ==
    LET before == bulk[b].before[i]
    IN  /\ RowsOf(prices, b, i) = {} => Price(tags[i]) = Price(before)
        /\ RowsOf(costs, b, i) = {} => tags[i].cost = before.cost
        /\ \A k \in RowsOf(prices, b, i) :
              prices[k].old = Price(before) /\ prices[k].new = Price(tags[i])
        /\ \A k \in RowsOf(costs, b, i) :
              costs[k].old = before.cost /\ costs[k].new = tags[i].cost

BatchInv(b) ==
    /\ bulk[b].status = "none" => Unbegun(b)
    /\ bulk[b].rolls = 0 => bulk[b].status \in {"none", "completed"}
    /\ alone[b] /\ bulk[b].rolls = 0 => StillOpen(b) /\ \A i \in Items : Changed(b, i)
    /\ alone[b] /\ bulk[b].rolls > 0 => bulk[b].rows = {}
    /\ alone[b] /\ bulk[b].rolls = 1 /\ bulk[b].status = "rolled_back" =>
          tags = bulk[b].before

IInv ==
    /\ Types /\ JobsAreMeant /\ ItemsTold
    /\ LocksHold /\ AppliedRows /\ SchedulesDoNotStack
    /\ \A b \in Bulks : BatchInv(b)
-----------------------------------------------------------------------------
(* The order of decisions *)
DecideNext(c, s, state) == Decide(state, s)
Itself(c, s) == s
Greatest(S) == Max(S)
InTurn == INSTANCE FoldFacts WITH op <- DecideNext, map <- Itself, choose <- Greatest

LEMMA GreatestIsMax ==
  ASSUME NEW n \in Nat, NEW S \in SUBSET (1..n), S # {}
  PROVE  Max(S) \in S /\ \A m \in S : m <= Max(S)
<1>1. \E i \in S : \A j \in S : i >= j
  BY InTurn!GreatestNatural
<1> QED
  BY <1>1 DEF Max
-----------------------------------------------------------------------------
(* Histories *)
Extends(new, old) == Len(old) <= Len(new) /\ \A k \in DOMAIN old : new[k] = old[k]

\* What a row or no row makes of a history.
LEMMA RowIfIs ==
  ASSUME NEW R, NEW log \in Seq(R), NEW row, NEW c \in BOOLEAN
  PROVE  log \o RowIf(c, row) = IF c THEN Append(log, row) ELSE log
<1>1. log \o <<row>> = Append(log, row)
  OBVIOUS
<1>2. log \o <<>> = log
  OBVIOUS
<1> QED
  BY <1>1, <1>2 DEF RowIf

LEMMA Appended ==
  ASSUME NEW R, NEW log \in Seq(R), NEW row \in R
  PROVE  LET new == Append(log, row)
         IN  /\ new \in Seq(R) /\ Len(new) = Len(log) + 1 /\ Extends(new, log)
             /\ DOMAIN new = 1..(Len(log) + 1) /\ DOMAIN log = 1..Len(log) /\ Len(log) \in Nat
             /\ new[Len(log) + 1] = row
BY DEF Extends

LEMMA Joined ==
  ASSUME NEW R, NEW log \in Seq(R), NEW rows \in Seq(R)
  PROVE  LET new == log \o rows
         IN  /\ new \in Seq(R) /\ Len(new) = Len(log) + Len(rows) /\ Extends(new, log)
             /\ Len(log) \in Nat /\ Len(rows) \in Nat
             /\ DOMAIN new = 1..(Len(log) + Len(rows)) /\ DOMAIN log = 1..Len(log)
             /\ DOMAIN rows = 1..Len(rows)
             /\ \A k \in DOMAIN rows : new[Len(log) + k] = rows[k]
             /\ \A k \in DOMAIN log : new[k] = log[k]
BY DEF Extends

\* The latest row of an item tells.
Latest(log, i, k) ==
    /\ k \in DOMAIN log /\ log[k].item = i
    /\ \A j \in DOMAIN log : j > k => log[j].item # i

LEMMA LatestTells ==
  ASSUME NEW R, NEW log \in Seq(R), NEW k, NEW i, Latest(log, i, k), NEW first, NEW value
  PROVE  Tells(log, i, first, value) <=> value = log[k].new
<1> DEFINE S == RowsFor(log, i)
<1>1. S \in SUBSET (1..Len(log)) /\ Len(log) \in Nat /\ k \in S /\ k \in Nat
  BY DEF RowsFor, Latest
<1>2. Max(S) \in S /\ k <= Max(S)
  <2> HIDE DEF S
  <2> QED
    BY <1>1, GreatestIsMax
<1>3. Max(S) \in DOMAIN log /\ Max(S) \in Nat /\ log[Max(S)].item = i
  BY <1>1, <1>2 DEF RowsFor
<1>4. Max(S) = k
  <2> HIDE DEF S
  <2> QED
    BY <1>1, <1>2, <1>3 DEF Latest
<1> QED
  BY <1>1, <1>4 DEF Tells

\* Of what an item's history tells there is a row, which no other row follows.
LEMMA TellsByARow ==
  ASSUME NEW R, NEW log \in Seq(R), NEW i, NEW j \in DOMAIN log, log[j].item = i,
         NEW first, NEW value, Tells(log, i, first, value)
  PROVE  \E k \in DOMAIN log : j <= k /\ log[k].item = i /\ log[k].new = value
<1> DEFINE S == RowsFor(log, i)
<1>1. S \in SUBSET (1..Len(log)) /\ Len(log) \in Nat /\ j \in S
  BY DEF RowsFor
<1>2. Max(S) \in S /\ j <= Max(S)
  <2> HIDE DEF S
  <2> QED
    BY <1>1, GreatestIsMax
<1>3. Max(S) \in DOMAIN log /\ log[Max(S)].item = i
  BY <1>2 DEF RowsFor
<1>4. value = log[Max(S)].new
  BY <1>1 DEF Tells
<1> QED
  BY <1>2, <1>3, <1>4

\* Rows of other items leave an item's history as it is.
LEMMA OthersTell ==
  ASSUME NEW R, NEW old \in Seq(R), NEW new \in Seq(R), Extends(new, old), NEW i,
         \A k \in DOMAIN new : k > Len(old) => new[k].item # i
  PROVE  /\ RowsFor(new, i) = RowsFor(old, i)
         /\ \A first, value : Tells(new, i, first, value) <=> Tells(old, i, first, value)
<1>1. /\ DOMAIN old = 1..Len(old) /\ DOMAIN new = 1..Len(new)
      /\ Len(old) \in Nat /\ Len(new) \in Nat
  OBVIOUS
<1>2. RowsFor(new, i) = RowsFor(old, i)
  BY <1>1 DEF RowsFor, Extends
<1>3. RowsFor(old, i) # {} => Max(RowsFor(old, i)) \in DOMAIN old
  <2> DEFINE S == RowsFor(old, i)
  <2>1. S \in SUBSET (1..Len(old))
    BY <1>1 DEF RowsFor
  <2>2. S # {} => Max(S) \in S
    <3> HIDE DEF S
    <3> QED
      BY <1>1, <2>1, GreatestIsMax
  <2> QED
    BY <1>1, <2>1, <2>2
<1>4. RowsFor(old, i) # {} => new[Max(RowsFor(old, i))] = old[Max(RowsFor(old, i))]
  BY <1>3 DEF Extends
<1>5. ASSUME NEW first, NEW value
      PROVE  Tells(new, i, first, value) <=> Tells(old, i, first, value)
  BY <1>2, <1>4 DEF Tells
<1> QED
  BY <1>2, <1>5

\* What one more row, or none, makes of a history.
LEMMA Grown ==
  ASSUME NEW R, NEW log \in Seq(R), NEW row \in R, NEW new,
         new = log \/ new = Append(log, row)
  PROVE  /\ new \in Seq(R) /\ Extends(new, log)
         /\ \A k \in DOMAIN new : k > Len(log) => new[k] = row
<1>1. CASE new = log
  <2>1. \A k \in DOMAIN log : k \in 1..Len(log) /\ ~(k > Len(log))
    OBVIOUS
  <2> QED
    BY <1>1, <2>1 DEF Extends
<1>2. CASE new = Append(log, row)
  <2>1. /\ new \in Seq(R) /\ Len(new) = Len(log) + 1 /\ Extends(new, log)
        /\ DOMAIN new = 1..(Len(log) + 1) /\ DOMAIN log = 1..Len(log) /\ Len(log) \in Nat
        /\ new[Len(log) + 1] = row
    BY <1>2, Appended
  <2>2. \A k \in DOMAIN new : k > Len(log) => k = Len(log) + 1
    BY <2>1
  <2> QED
    BY <2>1, <2>2
<1> QED
  BY <1>1, <1>2

\* It leaves the history of the other items.
LEMMA RowLeaves ==
  ASSUME NEW R, NEW log \in Seq(R), NEW row \in R, NEW new,
         new = log \/ new = Append(log, row),
         NEW i, row.item # i, NEW first, NEW value
  PROVE  Tells(new, i, first, value) <=> Tells(log, i, first, value)
<1>1. /\ new \in Seq(R) /\ Extends(new, log)
      /\ \A k \in DOMAIN new : k > Len(log) => new[k] = row
  BY Grown
<1>2. \A k \in DOMAIN new : k > Len(log) => new[k].item # i
  BY <1>1
<1> QED
  BY <1>1, <1>2, OthersTell

\* It tells of its own.
LEMMA RowIsTold ==
  ASSUME NEW R, NEW log \in Seq(R), NEW row \in R, NEW i, row.item = i,
         NEW first, NEW value
  PROVE  Tells(Append(log, row), i, first, value) <=> value = row.new
<1> DEFINE new == Append(log, row)
           k == Len(log) + 1
<1>1. /\ new \in Seq(R) /\ DOMAIN new = 1..k /\ new[k] = row /\ k \in Nat /\ k >= 1
  BY Appended
<1>2. \A j \in DOMAIN new : ~(j > k)
  BY <1>1
<1> HIDE DEF new, k
<1>3. new \in Seq(R) /\ k \in DOMAIN new /\ new[k].item = i /\ new[k].new = row.new
  BY <1>1
<1>4. Latest(new, i, k)
  BY <1>2, <1>3 DEF Latest
<1>5. Tells(new, i, first, value) <=> value = new[k].new
  BY <1>3, <1>4, LatestTells
<1> QED
  BY <1>3, <1>5 DEF new

\* A history to which only rows of others are added.
LeavesOut(new, old, b) ==
    Extends(new, old) /\ \A k \in DOMAIN new : k > Len(old) => new[k].by # b

LEMMA OthersRows ==
  ASSUME NEW R, NEW old \in Seq(R), NEW new \in Seq(R), NEW b, LeavesOut(new, old, b)
  PROVE  /\ \A i : RowsOf(new, b, i) = RowsOf(old, b, i)
         /\ (\A k \in DOMAIN old : old[k].by # b) => \A k \in DOMAIN new : new[k].by # b
<1>1. /\ DOMAIN old = 1..Len(old) /\ DOMAIN new = 1..Len(new)
      /\ Len(old) \in Nat /\ Len(new) \in Nat
  OBVIOUS
<1> QED
  BY <1>1 DEF RowsOf, RowsFor, Extends, LeavesOut

\* A finite set as a sequence: every element once.
LEMMA AsSequence ==
  ASSUME NEW S, IsFiniteSet(S)
  PROVE  LET seq == SetToSeq(S)
         IN  /\ seq \in Seq(S) /\ \A s \in S : \E k \in DOMAIN seq : seq[k] = s
             /\ \A j, k \in DOMAIN seq : seq[j] = seq[k] => j = k
<1> DEFINE n == Cardinality(S)
           Right(f) == f \in [1..n -> S] /\ IsInjective(f)
           seq == CHOOSE f \in [1..n -> S] : IsInjective(f)
<1>1. n \in Nat /\ ExistsBijection(1..n, S)
  BY FS_CardinalityType
<1>2. \E f \in [1..n -> S] : IsInjective(f)
  BY <1>1 DEF ExistsBijection, Bijection, Injection
<1>3. seq \in [1..n -> S] /\ IsInjective(seq)
  BY <1>2
<1>4. SetToSeq(S) = seq
  BY DEF SetToSeq
<1> HIDE DEF seq
<1>5. Cardinality(1..n) = n /\ IsFiniteSet(1..n)
  BY <1>1, FS_Interval
<1>6. seq \in Surjection(1..n, S)
  BY <1>3, <1>5, FS_Injection DEF Injection
<1>7. seq \in Seq(S) /\ DOMAIN seq = 1..n
  BY <1>1, <1>3
<1> QED
  BY <1>3, <1>4, <1>6, <1>7 DEF Surjection, IsInjective
-----------------------------------------------------------------------------
(* What the histories tell *)
PriceDue(c, i) == Unlogged(c, i) /\ Price(job[c].new) # Price(job[c].seen)
CostDue(c, i)  == Unlogged(c, i) /\ job[c].new.cost # job[c].seen.cost

\* A step that writes item i or logs what it wrote, with the rows pr and cr or without.
RowsAreOf(i, pr, cr) ==
    /\ pr \in PriceRows /\ cr \in CostRows /\ pr.item = i /\ cr.item = i
    /\ prices' = prices \/ prices' = Append(prices, pr)
    /\ costs' = costs \/ costs' = Append(costs, cr)
PriceFits(i, pr) ==
    /\ prices' # prices => pr.new = Price(tags'[i])
    /\ prices' = prices =>
          /\ Price(tags'[i]) = Price(tags[i]) \/ \E c \in Clerks : PriceDue(c, i)'
          /\ \A c \in Clerks : PriceDue(c, i) => job'[c] = job[c]
CostFits(i, cr) ==
    /\ costs' # costs => cr.new = tags'[i].cost
    /\ costs' = costs =>
          /\ tags'[i].cost = tags[i].cost \/ \E c \in Clerks : CostDue(c, i)'
          /\ \A c \in Clerks : CostDue(c, i) => job'[c] = job[c]
OthersStay(i) ==
    \A j \in Items : j # i =>
        tags'[j] = tags[j] /\ \A c \in Clerks : Unlogged(c, j) => job'[c] = job[c]

\* It leaves the histories telling of every item that has not been written from a
\* stale read.
LEMMA WriteTold ==
  ASSUME Types, ItemsTold, NEW i \in Items, NEW pr, NEW cr, RowsAreOf(i, pr, cr),
         raced \subseteq raced', OthersStay(i),
         i \notin raced' => PriceFits(i, pr) /\ CostFits(i, cr)
  PROVE  ItemsTold'
<1> SUFFICES ASSUME NEW j \in Items, j \notin raced'
             PROVE  PriceTold(j)' /\ CostTold(j)'
  BY DEF ItemsTold
<1>1. PriceTold(j) /\ CostTold(j)
  BY DEF ItemsTold
<1>2. /\ prices \in Seq(PriceRows) /\ pr \in PriceRows /\ pr.item = i
      /\ costs \in Seq(CostRows) /\ cr \in CostRows /\ cr.item = i
      /\ prices' = prices \/ prices' = Append(prices, pr)
      /\ costs' = costs \/ costs' = Append(costs, cr)
  BY DEF Types, RowsAreOf
<1>3. CASE j # i
  <2>1. tags'[j] = tags[j]
    BY <1>3 DEF OthersStay
  <2>2. \A c \in Clerks : Unlogged(c, j) => Unlogged(c, j)' /\ job'[c] = job[c]
    BY <1>3 DEF Unlogged, OthersStay
  <2>3. PriceTold(j)'
    <3>1. Tells(prices', j, Price(Fresh), Price(tags[j]))
             <=> Tells(prices, j, Price(Fresh), Price(tags[j]))
      BY <1>2, <1>3, RowLeaves
    <3> QED
      BY <1>1, <2>1, <2>2, <3>1 DEF PriceTold
  <2>4. CostTold(j)'
    <3>1. Tells(costs', j, Fresh.cost, tags[j].cost) <=> Tells(costs, j, Fresh.cost, tags[j].cost)
      BY <1>2, <1>3, RowLeaves
    <3> QED
      BY <1>1, <2>1, <2>2, <3>1 DEF CostTold
  <2> QED
    BY <2>3, <2>4
<1>4. CASE j = i
  <2>0. i \notin raced' /\ PriceTold(i) /\ CostTold(i)
    BY <1>1, <1>4
  <2>1. PriceTold(i)'
    <3>0. PriceFits(i, pr)
      BY <2>0
    <3>1. CASE prices' # prices
      <4>1. Tells(Append(prices, pr), i, Price(Fresh), Price(tags'[i]))
               <=> Price(tags'[i]) = pr.new
        BY <1>2, RowIsTold
      <4> QED
        BY <1>2, <3>0, <3>1, <4>1 DEF PriceTold, PriceFits
    <3>2. CASE prices' = prices
      <4>1. CASE \E c \in Clerks : PriceDue(c, i)'
        BY <4>1 DEF PriceTold, PriceDue
      <4>2. CASE Price(tags'[i]) = Price(tags[i])
        <5>1. \A c \in Clerks : PriceDue(c, i) => PriceDue(c, i)'
          BY <3>0, <3>2 DEF PriceDue, Unlogged, PriceFits
        <5> QED
          BY <2>0, <3>2, <4>2, <5>1 DEF PriceTold, PriceDue
      <4> QED
        BY <3>0, <3>2, <4>1, <4>2 DEF PriceFits
    <3> QED
      BY <3>1, <3>2
  <2>2. CostTold(i)'
    <3>0. CostFits(i, cr)
      BY <2>0
    <3>1. CASE costs' # costs
      <4>1. Tells(Append(costs, cr), i, Fresh.cost, tags'[i].cost) <=> tags'[i].cost = cr.new
        BY <1>2, RowIsTold
      <4> QED
        BY <1>2, <3>0, <3>1, <4>1 DEF CostTold, CostFits
    <3>2. CASE costs' = costs
      <4>1. CASE \E c \in Clerks : CostDue(c, i)'
        BY <4>1 DEF CostTold, CostDue
      <4>2. CASE tags'[i].cost = tags[i].cost
        <5>1. \A c \in Clerks : CostDue(c, i) => CostDue(c, i)'
          BY <3>0, <3>2 DEF CostDue, Unlogged, CostFits
        <5> QED
          BY <2>0, <3>2, <4>2, <5>1 DEF CostTold, CostDue
      <4> QED
        BY <3>0, <3>2, <4>1, <4>2 DEF CostFits
    <3> QED
      BY <3>1, <3>2
  <2> QED
    BY <1>4, <2>1, <2>2
<1> QED
  BY <1>3, <1>4

\* So does who writes nothing.
LEMMA SameTold ==
  ASSUME ItemsTold, UNCHANGED <<tags, prices, costs, raced>>,
         \A c \in Clerks : job[c].doing = "log" => job'[c] = job[c]
  PROVE  ItemsTold'
<1> SUFFICES ASSUME NEW j \in Items, j \notin raced'
             PROVE  PriceTold(j)' /\ CostTold(j)'
  BY DEF ItemsTold
<1>1. PriceTold(j) /\ CostTold(j)
  BY DEF ItemsTold
<1>2. \A c \in Clerks : Unlogged(c, j) => Unlogged(c, j)' /\ job'[c] = job[c]
  BY DEF Unlogged
<1>3. PriceTold(j)'
  BY <1>1, <1>2 DEF PriceTold
<1>4. CostTold(j)'
  BY <1>1, <1>2 DEF CostTold
<1> QED
  BY <1>3, <1>4
-----------------------------------------------------------------------------
(* Schedules in the history *)
AppliedIn(log, schedules) ==
    \A k \in DOMAIN log : log[k].by \in Schedules =>
        /\ schedules[log[k].by].status = "applied"
        /\ schedules[log[k].by].item = log[k].item
        /\ log[k].item \in Products
GaveWay(log, schedules, j, k, untold) ==
    LET first == schedules[log[j].by]
        later == schedules[log[k].by]
    IN  first.item = later.item /\ first.expected = later.expected =>
           \/ first.item \in untold
           \/ \E l \in j..(k-1) : /\ log[l].item = later.item
                                   /\ log[l].new.price = later.expected
NoneStack(log, schedules, untold) ==
    \A j, k \in DOMAIN log :
        j < k /\ {log[j].by, log[k].by} \subseteq Schedules =>
            GaveWay(log, schedules, j, k, untold)

LEMMA StackIs ==
  /\ AppliedRows = AppliedIn(prices, schedule)
  /\ SchedulesDoNotStack = NoneStack(prices, schedule, raced)
BY DEF AppliedRows, AppliedIn, SchedulesDoNotStack, NoneStack, GaveWay

LEMMA StackIsNext ==
  /\ AppliedRows' = AppliedIn(prices', schedule')
  /\ SchedulesDoNotStack' = NoneStack(prices', schedule', raced')
BY DEF AppliedRows, AppliedIn, SchedulesDoNotStack, NoneStack, GaveWay

\* Rows that were in the history have given way for good.
LEMMA StillGivesWay ==
  ASSUME NEW old \in Seq(PriceRows), NEW new \in Seq(PriceRows), Extends(new, old),
         NEW now1, NEW now2, NEW far1, NEW far2, far1 \subseteq far2,
         \A s \in Schedules : now1[s].status = "applied" => now2[s] = now1[s],
         AppliedIn(old, now1), NEW j \in DOMAIN old, NEW k \in DOMAIN old,
         j < k, {old[j].by, old[k].by} \subseteq Schedules, GaveWay(old, now1, j, k, far1)
  PROVE  GaveWay(new, now2, j, k, far2)
<1>1. /\ now2[old[j].by] = now1[old[j].by] /\ now2[old[k].by] = now1[old[k].by]
      /\ new[j] = old[j] /\ new[k] = old[k]
  BY DEF AppliedIn, Extends
<1>2. \A l \in j..(k-1) : new[l] = old[l]
  BY DEF Extends
<1>3. PICK first, later : first = now1[old[j].by] /\ later = now1[old[k].by]
  OBVIOUS
<1>4. ASSUME first.item = later.item, first.expected = later.expected, first.item \notin far2
      PROVE  \E l \in j..(k-1) : new[l].item = later.item /\ new[l].new.price = later.expected
  <2>1. first.item \notin far1
    BY <1>4
  <2>2. \E l \in j..(k-1) : old[l].item = later.item /\ old[l].new.price = later.expected
    BY <1>3, <1>4, <2>1 DEF GaveWay
  <2> QED
    BY <1>2, <2>2
<1>5. now2[new[j].by] = first /\ now2[new[k].by] = later
  BY <1>1, <1>3
<1> QED
  BY <1>4, <1>5 DEF GaveWay

\* So rows of others leave what is said of schedules true.
LEMMA StackKept ==
  ASSUME NEW old \in Seq(PriceRows), NEW new \in Seq(PriceRows), Extends(new, old),
         NEW now1, NEW now2, NEW far1, NEW far2, far1 \subseteq far2,
         \A s \in Schedules : now1[s].status = "applied" => now2[s] = now1[s],
         \A k \in DOMAIN new : k > Len(old) => new[k].by \notin Schedules,
         AppliedIn(old, now1), NoneStack(old, now1, far1)
  PROVE  AppliedIn(new, now2) /\ NoneStack(new, now2, far2)
<1>1. \A k \in DOMAIN new : new[k].by \in Schedules => k \in DOMAIN old /\ new[k] = old[k]
  BY DEF Extends
<1>2. AppliedIn(new, now2)
  BY <1>1 DEF AppliedIn
<1>3. ASSUME NEW j \in DOMAIN new, NEW k \in DOMAIN new, j < k,
             {new[j].by, new[k].by} \subseteq Schedules
      PROVE  GaveWay(new, now2, j, k, far2)
  <2>1. j \in DOMAIN old /\ k \in DOMAIN old /\ new[j] = old[j] /\ new[k] = old[k]
    BY <1>1, <1>3
  <2>2. GaveWay(old, now1, j, k, far1)
    BY <1>3, <2>1 DEF NoneStack
  <2> QED
    BY <1>3, <2>1, <2>2, StillGivesWay
<1> QED
  BY <1>2, <1>3 DEF NoneStack
-----------------------------------------------------------------------------
(* Batches *)
\* What others write a batch need not know, unless it is alone.
LEMMA BatchKept ==
  ASSUME Types, Types', NEW b \in Bulks, BatchInv(b), bulk'[b] = bulk[b],
         LeavesOut(prices', prices, b), LeavesOut(costs', costs, b),
         alone'[b] => alone[b] /\ tags' = tags
  PROVE  BatchInv(b)'
<1>1. /\ prices \in Seq(PriceRows) /\ prices' \in Seq(PriceRows)
      /\ costs \in Seq(CostRows) /\ costs' \in Seq(CostRows)
  BY DEF Types
<1>2. /\ \A i : RowsOf(prices', b, i) = RowsOf(prices, b, i)
      /\ (\A k \in DOMAIN prices : prices[k].by # b) => \A k \in DOMAIN prices' : prices'[k].by # b
  BY <1>1, OthersRows
<1>3. /\ \A i : RowsOf(costs', b, i) = RowsOf(costs, b, i)
      /\ (\A k \in DOMAIN costs : costs[k].by # b) => \A k \in DOMAIN costs' : costs'[k].by # b
  BY <1>1, OthersRows
<1>4. Unbegun(b) => Unbegun(b)'
  BY <1>2, <1>3 DEF Unbegun
<1>5. /\ \A i : \A k \in RowsOf(prices, b, i) : prices'[k] = prices[k]
      /\ \A i : \A k \in RowsOf(costs, b, i) : costs'[k] = costs[k]
  BY DEF RowsOf, RowsFor, LeavesOut, Extends
<1>6. ASSUME alone'[b] /\ bulk'[b].rolls = 0
      PROVE  StillOpen(b)' /\ \A i \in Items : Changed(b, i)'
  <2>1. tags' = tags /\ StillOpen(b) /\ \A i \in Items : Changed(b, i)
    BY <1>6 DEF BatchInv
  <2>2. StillOpen(b)'
    BY <1>2, <1>3, <2>1 DEF StillOpen
  <2>3. \A i \in Items : Changed(b, i)'
    BY <1>2, <1>3, <1>5, <2>1 DEF Changed
  <2> QED
    BY <2>2, <2>3
<1> QED
  BY <1>4, <1>6 DEF BatchInv
-----------------------------------------------------------------------------
(* Steps that write nothing *)
Quiet ==
    /\ UNCHANGED <<tags, prices, costs, bulk, raced, alone>>
    /\ \A c \in Clerks : job[c].doing = "log" => job'[c] = job[c]
    /\ \A s \in Schedules : schedule[s].status = "applied" => schedule'[s] = schedule[s]

LEMMA Untouched ==
  ASSUME NEW R, NEW log \in Seq(R)
  PROVE  /\ Extends(log, log) /\ \A b : LeavesOut(log, log, b)
         /\ \A k \in DOMAIN log : ~(k > Len(log))
<1>1. \A k \in DOMAIN log : k \in 1..Len(log) /\ ~(k > Len(log))
  OBVIOUS
<1> QED
  BY <1>1 DEF LeavesOut, Extends

LEMMA QuietKeeps ==
  ASSUME IInv, Quiet, job' \in [Clerks -> Jobs], JobsAreMeant',
         schedule' \in [Schedules -> ScheduleRows],
         run' \in [Runs -> SUBSET Schedules], LocksHold'
  PROVE  IInv'
<1>1. Types'
  BY DEF IInv, Types, Quiet
<1>2. ItemsTold'
  BY SameTold DEF IInv, Quiet
<1>3. AppliedRows' /\ SchedulesDoNotStack'
  <2>1. prices \in Seq(PriceRows) /\ raced \subseteq raced
    BY DEF IInv, Types
  <2>2. Extends(prices, prices) /\ \A k \in DOMAIN prices : k > Len(prices) => prices[k].by \notin Schedules
    BY <2>1, Untouched
  <2>3. AppliedIn(prices, schedule) /\ NoneStack(prices, schedule, raced)
    BY StackIs DEF IInv
  <2>4. \A s \in Schedules : schedule[s].status = "applied" => schedule'[s] = schedule[s]
    BY DEF Quiet
  <2>5. AppliedIn(prices, schedule') /\ NoneStack(prices, schedule', raced)
    BY <2>1, <2>2, <2>3, <2>4, StackKept
  <2> QED
    BY <2>5, StackIsNext DEF Quiet
<1>4. ASSUME NEW b \in Bulks
      PROVE  BatchInv(b)'
  <2>1. BatchInv(b) /\ Types
    BY DEF IInv
  <2>2. /\ bulk'[b] = bulk[b] /\ tags' = tags /\ alone' = alone
        /\ prices' = prices /\ costs' = costs
    BY DEF Quiet
  <2>3. LeavesOut(prices, prices, b) /\ LeavesOut(costs, costs, b)
    BY <2>1, Untouched DEF Types
  <2> QED
    BY <1>1, <2>1, <2>2, <2>3, BatchKept
<1> QED
  BY <1>1, <1>2, <1>3, <1>4 DEF IInv
-----------------------------------------------------------------------------
(* Steps of a clerk that write an item *)
ClerkWrites(c, i, pr, cr) ==
    /\ RowsAreOf(i, pr, cr) /\ pr.by = c /\ cr.by = c
    /\ tags' \in [Items -> Tags] /\ job' \in [Clerks -> Jobs] /\ JobsAreMeant'
    /\ raced \subseteq raced' /\ raced' \subseteq Items
    /\ alone' \in [Bulks -> BOOLEAN] /\ \A b \in Bulks : alone'[b] => alone[b] /\ tags' = tags
    /\ UNCHANGED <<bulk, schedule, run>>

LEMMA ClerkKeeps ==
  ASSUME IInv, NEW c \in Clerks, NEW i \in Items, NEW pr, NEW cr, ClerkWrites(c, i, pr, cr),
         OthersStay(i), i \notin raced' => PriceFits(i, pr) /\ CostFits(i, cr)
  PROVE  IInv'
<1>1. /\ prices \in Seq(PriceRows) /\ pr \in PriceRows
      /\ prices' = prices \/ prices' = Append(prices, pr)
      /\ costs \in Seq(CostRows) /\ cr \in CostRows
      /\ costs' = costs \/ costs' = Append(costs, cr)
  BY DEF IInv, Types, ClerkWrites, RowsAreOf
<1>2. /\ prices' \in Seq(PriceRows) /\ Extends(prices', prices)
      /\ \A k \in DOMAIN prices' : k > Len(prices) => prices'[k] = pr
  BY <1>1, Grown
<1>3. /\ costs' \in Seq(CostRows) /\ Extends(costs', costs)
      /\ \A k \in DOMAIN costs' : k > Len(costs) => costs'[k] = cr
  BY <1>1, Grown
<1>4. pr.by = c /\ cr.by = c /\ c \notin Schedules /\ \A b \in Bulks : c # b
  BY CatalogueAssumption DEF ClerkWrites
<1>5. Types'
  BY <1>2, <1>3 DEF IInv, Types, ClerkWrites
<1>6. ItemsTold'
  BY WriteTold DEF IInv, ClerkWrites
<1>7. LocksHold' /\ JobsAreMeant'
  BY DEF IInv, LocksHold, ClerkWrites
<1>8. AppliedRows' /\ SchedulesDoNotStack'
  <2>1. raced \subseteq raced' /\ schedule' = schedule
    BY DEF ClerkWrites
  <2>2. \A k \in DOMAIN prices' : k > Len(prices) => prices'[k].by \notin Schedules
    BY <1>2, <1>4
  <2>3. AppliedIn(prices, schedule) /\ NoneStack(prices, schedule, raced)
    BY StackIs DEF IInv
  <2>4. \A s \in Schedules : schedule[s].status = "applied" => schedule'[s] = schedule[s]
    BY <2>1
  <2>5. AppliedIn(prices', schedule') /\ NoneStack(prices', schedule', raced')
    BY <1>1, <1>2, <2>1, <2>2, <2>3, <2>4, StackKept
  <2> QED
    BY <2>5, StackIsNext
<1>9. ASSUME NEW b \in Bulks
      PROVE  BatchInv(b)'
  <2>1. BatchInv(b) /\ Types
    BY DEF IInv
  <2>2. bulk'[b] = bulk[b] /\ (alone'[b] => alone[b] /\ tags' = tags)
    BY DEF ClerkWrites
  <2>3. LeavesOut(prices', prices, b) /\ LeavesOut(costs', costs, b)
    BY <1>2, <1>3, <1>4 DEF LeavesOut
  <2> QED
    BY <1>5, <2>1, <2>2, <2>3, BatchKept
<1> QED
  BY <1>5, <1>6, <1>7, <1>8, <1>9 DEF IInv

\* What a clerk's request holds.
EditJobs == [doing : {"edit", "offer", "log"}, item : Items, seen : Tags, new : Tags]

LEMMA JobIs ==
  ASSUME Types, NEW c \in Clerks
  PROVE  /\ job[c].doing \in {"edit", "offer", "log"} =>
               /\ job[c].item \in Items /\ job[c].seen \in Tags /\ job[c].new \in Tags
               /\ job[c] \in EditJobs
         /\ job[c].doing = "schedule" => job[c].item \in Items /\ job[c].seen \in Tags
<1>1. job[c] \in Jobs
  BY DEF Types
<1>2. CASE job[c] = Idle
  BY <1>2 DEF Idle
<1>3. CASE job[c] \in EditJobs
  BY <1>3 DEF EditJobs
<1>4. CASE job[c] \in [doing : {"schedule"}, item : Items, seen : Tags]
  BY <1>4
<1> QED
  BY <1>1, <1>2, <1>3, <1>4 DEF Jobs, EditJobs

LEMMA OpenKeeps ==
  ASSUME IInv, NEW c \in Clerks, NEW what \in {"edit", "offer"}, NEW i \in Items, NEW new \in Tags,
         what = "offer" => new = [tags[i] EXCEPT !.was = Null], Open(c, what, i, new)
  PROVE  IInv'
<1> DEFINE step == [doing |-> what, item |-> i, seen |-> tags[i], new |-> new]
<1>1. job[c] = Idle /\ job' = [job EXCEPT ![c] = step] /\ job \in [Clerks -> Jobs]
  BY DEF Open, Become, IInv, Types
<1>2. step \in Jobs
  BY DEF IInv, Types, Jobs
<1>3. job' \in [Clerks -> Jobs]
  BY <1>1, <1>2
<1>4. \A d \in Clerks : d # c => job'[d] = job[d]
  BY <1>1
<1>5. job'[c] = step
  BY <1>1
<1>6. JobsAreMeant'
  BY <1>4, <1>5 DEF JobsAreMeant, IInv
<1>7. Quiet
  BY <1>1, <1>4 DEF Open, Quiet, Idle
<1>8. LocksHold' /\ schedule' = schedule /\ run' = run
  BY DEF Open, IInv, LocksHold
<1> QED
  BY <1>3, <1>6, <1>7, <1>8, QuietKeeps DEF IInv, Types

LEMMA OpenScheduleKeeps ==
  ASSUME IInv, NEW c \in Clerks, NEW i \in Items, OpenSchedule(c, i)
  PROVE  IInv'
<1> DEFINE step == [doing |-> "schedule", item |-> i, seen |-> tags[i]]
<1>1. job[c] = Idle /\ job' = [job EXCEPT ![c] = step] /\ job \in [Clerks -> Jobs]
  BY DEF OpenSchedule, Become, IInv, Types
<1>2. step \in Jobs
  BY DEF IInv, Types, Jobs
<1>3. job' \in [Clerks -> Jobs]
  BY <1>1, <1>2
<1>4. \A d \in Clerks : d # c => job'[d] = job[d]
  BY <1>1
<1>5. job'[c] = step
  BY <1>1
<1>6. JobsAreMeant'
  BY <1>4, <1>5 DEF JobsAreMeant, IInv
<1>7. Quiet
  BY <1>1, <1>4 DEF OpenSchedule, Quiet, Idle
<1>8. LocksHold' /\ schedule' = schedule /\ run' = run
  BY DEF OpenSchedule, IInv, LocksHold
<1> QED
  BY <1>3, <1>6, <1>7, <1>8, QuietKeeps DEF IInv, Types

\* A clerk's request ends.
LEMMA Ends ==
  ASSUME IInv, NEW c \in Clerks, Become(c, Idle)
  PROVE  /\ job' \in [Clerks -> Jobs] /\ JobsAreMeant'
         /\ \A d \in Clerks : d # c => job'[d] = job[d]
         /\ job'[c] = Idle
<1>1. job' = [job EXCEPT ![c] = Idle] /\ job \in [Clerks -> Jobs] /\ Idle \in Jobs
  BY DEF Become, IInv, Types, Jobs
<1>2. /\ job' \in [Clerks -> Jobs]
      /\ \A d \in Clerks : d # c => job'[d] = job[d]
      /\ job'[c] = Idle
  BY <1>1
<1>3. JobsAreMeant'
  BY <1>2 DEF JobsAreMeant, IInv, Idle
<1> QED
  BY <1>2, <1>3

LEMMA CreateScheduleKeeps ==
  ASSUME IInv, NEW c \in Clerks, NEW s \in Schedules, NEW new \in Edits, CreateSchedule(c, s, new)
  PROVE  IInv'
<1> DEFINE made == [status |-> "pending", item |-> job[c].item, new |-> new,
                    expected |-> job[c].seen.price]
<1>1. Become(c, Idle) /\ job[c].doing = "schedule" /\ schedule[s].status = "none"
  BY DEF CreateSchedule
<1>2. /\ job' \in [Clerks -> Jobs] /\ JobsAreMeant'
      /\ \A d \in Clerks : d # c => job'[d] = job[d]
  BY <1>1, Ends
<1>3. job[c].item \in Items /\ job[c].seen \in Tags /\ new \in Tags
  BY <1>1, JobIs, CatalogueAssumption DEF IInv, Tags
<1>4. made \in ScheduleRows
  BY <1>3 DEF ScheduleRows, Tags
<1>5. schedule' = [schedule EXCEPT ![s] = made] /\ schedule \in [Schedules -> ScheduleRows]
  BY DEF CreateSchedule, IInv, Types
<1>6. /\ schedule' \in [Schedules -> ScheduleRows]
      /\ \A t \in Schedules : t # s => schedule'[t] = schedule[t]
      /\ schedule'[s].status = "pending"
  BY <1>4, <1>5
<1>7. run' = run /\ run \in [Runs -> SUBSET Schedules]
  BY DEF CreateSchedule, IInv, Types
<1>8. LocksHold'
  BY <1>6, <1>7 DEF LocksHold, IInv
<1>9. Quiet
  BY <1>1, <1>2, <1>6 DEF Quiet, CreateSchedule
<1> QED
  BY <1>2, <1>6, <1>7, <1>8, <1>9, QuietKeeps

\* The rows a clerk's edit may log.
LEMMA EditRows ==
  ASSUME Types, NEW c \in Clerks, NEW e \in EditJobs
  PROVE  /\ PriceRow(e.item, e.seen, e.new, c) \in PriceRows
         /\ CostRow(e.item, e.seen, e.new, c) \in CostRows
         /\ PriceRow(e.item, e.seen, e.new, c).new = Price(e.new)
         /\ CostRow(e.item, e.seen, e.new, c).new = e.new.cost
         /\ PriceRow(e.item, e.seen, e.new, c).item = e.item
         /\ CostRow(e.item, e.seen, e.new, c).item = e.item
         /\ PriceRow(e.item, e.seen, e.new, c).by = c
         /\ CostRow(e.item, e.seen, e.new, c).by = c
         /\ Price(e.seen) \in PriceTags /\ Price(e.new) \in PriceTags
<1>1. \A tag \in Tags : Price(tag) \in PriceTags /\ tag.cost \in Costs
  BY DEF Price, Tags, PriceTags
<1>2. e.item \in Items /\ e.seen \in Tags /\ e.new \in Tags
  BY DEF EditJobs
<1> QED
  BY <1>1, <1>2 DEF PriceRow, CostRow, PriceRows, CostRows

\* Appending a row lengthens a history.
LEMMA Longer ==
  ASSUME NEW R, NEW log \in Seq(R), NEW row \in R
  PROVE  Append(log, row) # log
<1>1. Len(Append(log, row)) = Len(log) + 1 /\ Len(log) \in Nat
  OBVIOUS
<1> QED
  BY <1>1

LEMMA LogEditIs ==
  ASSUME Types, NEW c \in Clerks, job[c] \in EditJobs, LogEdit(c)
  PROVE  LET e == job[c]
             pr == PriceRow(e.item, e.seen, e.new, c)
             cr == CostRow(e.item, e.seen, e.new, c)
         IN  /\ RowsAreOf(e.item, pr, cr) /\ pr.by = c /\ cr.by = c
             /\ prices' # prices <=> Price(e.new) # Price(e.seen)
             /\ costs' # costs <=> e.new.cost # e.seen.cost
             /\ pr.new = Price(e.new) /\ cr.new = e.new.cost
<1> DEFINE e == job[c]
           pr == PriceRow(e.item, e.seen, e.new, c)
           cr == CostRow(e.item, e.seen, e.new, c)
           cp == Price(e.new) # Price(e.seen)
           cc == e.new.cost # e.seen.cost
<1>1. /\ pr \in PriceRows /\ cr \in CostRows /\ pr.new = Price(e.new) /\ cr.new = e.new.cost
      /\ pr.item = e.item /\ cr.item = e.item /\ pr.by = c /\ cr.by = c
  BY EditRows
<1>2. prices \in Seq(PriceRows) /\ costs \in Seq(CostRows)
  BY DEF Types
<1>3. prices' = prices \o RowIf(cp, pr) /\ costs' = costs \o RowIf(cc, cr)
  BY DEF LogEdit
<1>4. cp \in BOOLEAN /\ cc \in BOOLEAN
  OBVIOUS
<1> HIDE DEF e, pr, cr, cp, cc
<1>5. /\ prices \o RowIf(cp, pr) = IF cp THEN Append(prices, pr) ELSE prices
      /\ costs \o RowIf(cc, cr) = IF cc THEN Append(costs, cr) ELSE costs
  BY <1>2, <1>4, RowIfIs
<1>6. Append(prices, pr) # prices /\ Append(costs, cr) # costs
  BY <1>1, <1>2, Longer
<1>7. /\ cp => prices' = Append(prices, pr) 
      /\ ~cp => prices' = prices
      /\ cc => costs' = Append(costs, cr)
      /\ ~cc => costs' = costs
  BY <1>3, <1>5
<1>8. (prices' # prices <=> cp) /\ (costs' # costs <=> cc)
  BY <1>4, <1>6, <1>7
<1>9. RowsAreOf(e.item, pr, cr)
  BY <1>1, <1>7 DEF RowsAreOf
<1> QED
  BY <1>1, <1>8, <1>9 DEF e, pr, cr, cp, cc

LEMMA WrittenIs ==
  ASSUME Types, NEW i \in Items, NEW seen, NEW who, Written(i, seen, who)
  PROVE  /\ raced \subseteq raced' /\ raced' \subseteq Items
         /\ i \notin raced' => tags[i] = seen
         /\ alone' \in [Bulks -> BOOLEAN]
         /\ \A b \in Bulks : alone'[b] = (alone[b] /\ b = who)
BY DEF Types, Written

LEMMA SaveProductKeeps ==
  ASSUME IInv, NEW c \in Clerks, SaveProduct(c)
  PROVE  IInv'
<1>0. job[c] \in EditJobs
  BY JobIs DEF SaveProduct, IInv
<1> PICK e \in EditJobs : e = job[c]
  BY <1>0
<1> DEFINE i == e.item
           pr == PriceRow(e.item, e.seen, e.new, c)
           cr == CostRow(e.item, e.seen, e.new, c)
<1>1. /\ e.doing = "edit" /\ tags' = [tags EXCEPT ![i] = e.new] /\ LogEdit(c)
      /\ Written(i, e.seen, c) /\ Become(c, Idle) /\ UNCHANGED <<bulk, schedule, run>>
  BY DEF SaveProduct
<1>2. i \in Items /\ e.seen \in Tags /\ e.new \in Tags /\ Types
  BY DEF EditJobs, IInv
<1>3. /\ RowsAreOf(i, pr, cr) /\ pr.by = c /\ cr.by = c
      /\ prices' # prices <=> Price(e.new) # Price(e.seen)
      /\ costs' # costs <=> e.new.cost # e.seen.cost
      /\ pr.new = Price(e.new) /\ cr.new = e.new.cost
  BY <1>1, <1>2, LogEditIs
<1>4. /\ job' \in [Clerks -> Jobs] /\ JobsAreMeant'
      /\ \A d \in Clerks : d # c => job'[d] = job[d]
  BY <1>1, Ends
<1>5. /\ raced \subseteq raced' /\ raced' \subseteq Items
      /\ i \notin raced' => tags[i] = e.seen
      /\ alone' \in [Bulks -> BOOLEAN] /\ \A b \in Bulks : ~alone'[b]
  BY <1>1, <1>2, WrittenIs, CatalogueAssumption
<1>6. /\ tags' \in [Items -> Tags] /\ tags'[i] = e.new
      /\ \A j \in Items : j # i => tags'[j] = tags[j]
  BY <1>1, <1>2 DEF Types
<1>7. /\ \A j \in Items : \A d \in Clerks : Unlogged(d, j) => job'[d] = job[d]
      /\ \A d \in Clerks : PriceDue(d, i) => job'[d] = job[d]
      /\ \A d \in Clerks : CostDue(d, i) => job'[d] = job[d]
  <2>1. job[c].doing # "log"
    BY <1>1
  <2> HIDE DEF i
  <2> QED
    BY <1>4, <2>1 DEF Unlogged, PriceDue, CostDue
<1> HIDE DEF i, pr, cr
<1>8. OthersStay(i)
  BY <1>6, <1>7 DEF OthersStay
<1>9. i \notin raced' => PriceFits(i, pr) /\ CostFits(i, cr)
  <2> SUFFICES ASSUME i \notin raced' PROVE PriceFits(i, pr) /\ CostFits(i, cr)
    OBVIOUS
  <2>1. tags[i] = e.seen /\ tags'[i] = e.new
    BY <1>5, <1>6
  <2>4. /\ Price(tags[i]) = Price(e.seen) /\ Price(tags'[i]) = Price(e.new)
        /\ tags[i].cost = e.seen.cost /\ tags'[i].cost = e.new.cost
    BY <2>1
  <2>2. PriceFits(i, pr)
    BY <1>2, <1>3, <1>7, <2>4 DEF PriceFits
  <2>3. CostFits(i, cr)
    BY <1>2, <1>3, <1>7, <2>4 DEF CostFits
  <2> QED
    BY <2>2, <2>3
<1>10. ClerkWrites(c, i, pr, cr)
  BY <1>1, <1>3, <1>4, <1>5, <1>6 DEF ClerkWrites
<1> QED
  BY <1>2, <1>8, <1>9, <1>10, ClerkKeeps

LEMMA EndOfferKeeps ==
  ASSUME IInv, NEW c \in Clerks, EndOffer(c)
  PROVE  IInv'
<1>0. job[c] \in EditJobs
  BY JobIs DEF EndOffer, IInv
<1> PICK e \in EditJobs : e = job[c]
  BY <1>0
<1> DEFINE i == e.item
           pr == PriceRow(e.item, e.seen, e.new, c)
           cr == CostRow(e.item, e.seen, e.new, c)
<1>1. /\ e.doing = "offer" /\ tags' = [tags EXCEPT ![i].was = Null] /\ LogEdit(c)
      /\ Written(i, e.seen, c) /\ Become(c, Idle) /\ UNCHANGED <<bulk, schedule, run>>
  BY DEF EndOffer
<1>2. i \in Items /\ e.seen \in Tags /\ e.new \in Tags /\ Types
  BY DEF EditJobs, IInv
<1>3. /\ RowsAreOf(i, pr, cr) /\ pr.by = c /\ cr.by = c
      /\ prices' # prices <=> Price(e.new) # Price(e.seen)
      /\ costs' # costs <=> e.new.cost # e.seen.cost
      /\ pr.new = Price(e.new) /\ cr.new = e.new.cost
  BY <1>1, <1>2, LogEditIs
<1>4. /\ job' \in [Clerks -> Jobs] /\ JobsAreMeant'
      /\ \A d \in Clerks : d # c => job'[d] = job[d]
  BY <1>1, Ends
<1>5. /\ raced \subseteq raced' /\ raced' \subseteq Items
      /\ i \notin raced' => tags[i] = e.seen
      /\ alone' \in [Bulks -> BOOLEAN] /\ \A b \in Bulks : ~alone'[b]
  BY <1>1, <1>2, WrittenIs, CatalogueAssumption
<1>6. /\ tags' \in [Items -> Tags]
      /\ tags'[i] = [tags[i] EXCEPT !.was = Null]
      /\ \A j \in Items : j # i => tags'[j] = tags[j]
  <2>1. tags \in [Items -> Tags] /\ [tags[i] EXCEPT !.was = Null] \in Tags
    BY <1>2 DEF Types, Tags
  <2>2. tags' = [tags EXCEPT ![i] = [tags[i] EXCEPT !.was = Null]]
    BY <1>1
  <2> QED
    BY <1>2, <2>1, <2>2
<1>7. /\ \A j \in Items : \A d \in Clerks : Unlogged(d, j) => job'[d] = job[d]
      /\ \A d \in Clerks : PriceDue(d, i) => job'[d] = job[d]
      /\ \A d \in Clerks : CostDue(d, i) => job'[d] = job[d]
  <2>1. job[c].doing # "log"
    BY <1>1
  <2> HIDE DEF i
  <2> QED
    BY <1>4, <2>1 DEF Unlogged, PriceDue, CostDue
<1>8. e.new = [e.seen EXCEPT !.was = Null]
  BY <1>1 DEF IInv, JobsAreMeant
<1> HIDE DEF i, pr, cr
<1>9. OthersStay(i)
  BY <1>6, <1>7 DEF OthersStay
<1>10. i \notin raced' => tags'[i] = e.new /\ tags[i] = e.seen
  BY <1>5, <1>6, <1>8
<1>11. i \notin raced' => PriceFits(i, pr) /\ CostFits(i, cr)
  <2> SUFFICES ASSUME i \notin raced' PROVE PriceFits(i, pr) /\ CostFits(i, cr)
    OBVIOUS
  <2>1. tags[i] = e.seen /\ tags'[i] = e.new
    BY <1>10
  <2>4. /\ Price(tags[i]) = Price(e.seen) /\ Price(tags'[i]) = Price(e.new)
        /\ tags[i].cost = e.seen.cost /\ tags'[i].cost = e.new.cost
    BY <2>1
  <2>2. PriceFits(i, pr)
    BY <1>2, <1>3, <1>7, <2>4 DEF PriceFits
  <2>3. CostFits(i, cr)
    BY <1>2, <1>3, <1>7, <2>4 DEF CostFits
  <2> QED
    BY <2>2, <2>3
<1>12. ClerkWrites(c, i, pr, cr)
  BY <1>1, <1>3, <1>4, <1>5, <1>6 DEF ClerkWrites
<1> QED
  BY <1>2, <1>9, <1>11, <1>12, ClerkKeeps

LEMMA SaveVariantKeeps ==
  ASSUME IInv, NEW c \in Clerks, SaveVariant(c)
  PROVE  IInv'
<1>0. job[c] \in EditJobs
  BY JobIs DEF SaveVariant, IInv
<1> PICK e \in EditJobs : e = job[c]
  BY <1>0
<1> DEFINE i == e.item
           step == [e EXCEPT !.doing = "log"]
           pr == PriceRow(e.item, e.seen, e.new, c)
           cr == CostRow(e.item, e.seen, e.new, c)
<1>1. /\ e.doing = "edit" /\ i \in Variants /\ tags' = [tags EXCEPT ![i] = e.new]
      /\ Written(i, e.seen, c) /\ job' = [job EXCEPT ![c] = step]
      /\ UNCHANGED <<prices, costs, bulk, schedule, run>>
  BY DEF SaveVariant, Become
<1>2. i \in Items /\ e.seen \in Tags /\ e.new \in Tags /\ Types
  BY DEF EditJobs, IInv
<1>3. RowsAreOf(i, pr, cr) /\ pr.by = c /\ cr.by = c
  BY <1>1, <1>2, EditRows DEF RowsAreOf
<1>4. /\ step \in EditJobs /\ step.doing = "log" /\ step.item = i
      /\ step.seen = e.seen /\ step.new = e.new
  BY <1>2 DEF EditJobs
<1>5. /\ job' \in [Clerks -> Jobs] /\ job'[c] = step
      /\ \A d \in Clerks : d # c => job'[d] = job[d]
  <2>1. step \in Jobs /\ job \in [Clerks -> Jobs]
    BY <1>2, <1>4 DEF Jobs, EditJobs, Types
  <2> HIDE DEF step
  <2> QED
    BY <1>1, <2>1
<1>6. JobsAreMeant'
  BY <1>1, <1>4, <1>5 DEF JobsAreMeant, IInv
<1>7. /\ raced \subseteq raced' /\ raced' \subseteq Items
      /\ i \notin raced' => tags[i] = e.seen
      /\ alone' \in [Bulks -> BOOLEAN] /\ \A b \in Bulks : ~alone'[b]
  BY <1>1, <1>2, WrittenIs, CatalogueAssumption
<1>8. /\ tags' \in [Items -> Tags] /\ tags'[i] = e.new
      /\ \A j \in Items : j # i => tags'[j] = tags[j]
  BY <1>1, <1>2 DEF Types
<1>9. /\ \A j \in Items : \A d \in Clerks : Unlogged(d, j) => job'[d] = job[d]
      /\ \A d \in Clerks : PriceDue(d, i) => job'[d] = job[d]
      /\ \A d \in Clerks : CostDue(d, i) => job'[d] = job[d]
  <2>1. job[c].doing # "log"
    BY <1>1
  <2> HIDE DEF i
  <2> QED
    BY <1>5, <2>1 DEF Unlogged, PriceDue, CostDue
<1>10. /\ Price(e.new) # Price(e.seen) => PriceDue(c, i)'
       /\ e.new.cost # e.seen.cost => CostDue(c, i)'
  <2>1. job'[c].doing = "log" /\ job'[c].item = i /\ job'[c].seen = e.seen /\ job'[c].new = e.new
    BY <1>4, <1>5
  <2> HIDE DEF i, step
  <2> QED
    BY <2>1 DEF PriceDue, CostDue, Unlogged
<1> HIDE DEF i, pr, cr, step
<1>11. OthersStay(i)
  BY <1>8, <1>9 DEF OthersStay
<1>12. i \notin raced' => PriceFits(i, pr) /\ CostFits(i, cr)
  <2> SUFFICES ASSUME i \notin raced' PROVE PriceFits(i, pr) /\ CostFits(i, cr)
    OBVIOUS
  <2>1. tags[i] = e.seen /\ tags'[i] = e.new
    BY <1>7, <1>8
  <2>4. /\ Price(tags[i]) = Price(e.seen) /\ Price(tags'[i]) = Price(e.new)
        /\ tags[i].cost = e.seen.cost /\ tags'[i].cost = e.new.cost
    BY <2>1
  <2>2. PriceFits(i, pr)
    BY <1>1, <1>2, <1>9, <1>10, <2>4 DEF PriceFits
  <2>3. CostFits(i, cr)
    BY <1>1, <1>2, <1>9, <1>10, <2>4 DEF CostFits
  <2> QED
    BY <2>2, <2>3
<1>13. ClerkWrites(c, i, pr, cr)
  BY <1>1, <1>3, <1>5, <1>6, <1>7, <1>8 DEF ClerkWrites
<1> QED
  BY <1>2, <1>11, <1>12, <1>13, ClerkKeeps

LEMMA LogVariantKeeps ==
  ASSUME IInv, NEW c \in Clerks, LogVariant(c)
  PROVE  IInv'
<1>0. job[c] \in EditJobs
  BY JobIs DEF LogVariant, IInv
<1> PICK e \in EditJobs : e = job[c]
  BY <1>0
<1> DEFINE i == e.item
           pr == PriceRow(e.item, e.seen, e.new, c)
           cr == CostRow(e.item, e.seen, e.new, c)
<1>1. /\ e.doing = "log" /\ LogEdit(c) /\ Become(c, Idle)
      /\ raced' = IF tags[i] = e.new THEN raced ELSE raced \cup {i}
      /\ UNCHANGED <<tags, bulk, schedule, run, alone>>
  BY DEF LogVariant
<1>2. i \in Items /\ e.seen \in Tags /\ e.new \in Tags /\ Types
  BY DEF EditJobs, IInv
<1>3. /\ RowsAreOf(i, pr, cr) /\ pr.by = c /\ cr.by = c
      /\ prices' # prices <=> Price(e.new) # Price(e.seen)
      /\ costs' # costs <=> e.new.cost # e.seen.cost
      /\ pr.new = Price(e.new) /\ cr.new = e.new.cost
  BY <1>1, <1>2, LogEditIs
<1>4. /\ job' \in [Clerks -> Jobs] /\ JobsAreMeant'
      /\ \A d \in Clerks : d # c => job'[d] = job[d]
  BY <1>1, Ends
<1>5. /\ raced \subseteq raced' /\ raced' \subseteq Items
      /\ i \notin raced' => tags[i] = e.new
      /\ alone' \in [Bulks -> BOOLEAN] /\ tags' \in [Items -> Tags]
  BY <1>1, <1>2 DEF Types
<1>6. /\ \A j \in Items : j # i => \A d \in Clerks : Unlogged(d, j) => job'[d] = job[d]
      /\ Price(e.new) = Price(e.seen) => \A d \in Clerks : PriceDue(d, i) => job'[d] = job[d]
      /\ e.new.cost = e.seen.cost => \A d \in Clerks : CostDue(d, i) => job'[d] = job[d]
  BY <1>4 DEF Unlogged, PriceDue, CostDue
<1> HIDE DEF i, pr, cr
<1>7. OthersStay(i)
  BY <1>1, <1>6 DEF OthersStay
<1>8. i \notin raced' => PriceFits(i, pr) /\ CostFits(i, cr)
  BY <1>1, <1>2, <1>3, <1>5, <1>6 DEF PriceFits, CostFits
<1>9. ClerkWrites(c, i, pr, cr)
  BY <1>1, <1>3, <1>4, <1>5 DEF ClerkWrites
<1> QED
  BY <1>2, <1>7, <1>8, <1>9, ClerkKeeps

LEMMA StopClerkKeeps ==
  ASSUME IInv, NEW c \in Clerks, StopClerk(c)
  PROVE  IInv'
<1>1. /\ Become(c, Idle) /\ UNCHANGED <<tags, prices, costs, bulk, schedule, run, alone>>
      /\ job[c].doing # "log" => raced' = raced
      /\ job[c].doing = "log" => raced' = raced \cup {job[c].item}
  BY DEF StopClerk
<1>2. /\ job' \in [Clerks -> Jobs] /\ JobsAreMeant'
      /\ \A d \in Clerks : d # c => job'[d] = job[d]
  BY <1>1, Ends
<1>3. CASE job[c].doing # "log"
  <2>1. Quiet
    BY <1>1, <1>2, <1>3 DEF Quiet
  <2>2. LocksHold' /\ schedule' \in [Schedules -> ScheduleRows] /\ run' \in [Runs -> SUBSET Schedules]
    BY <1>1 DEF IInv, LocksHold, Types
  <2> QED
    BY <1>2, <2>1, <2>2, QuietKeeps
<1>4. CASE job[c].doing = "log"
  <2>0. job[c] \in EditJobs
    BY <1>4, JobIs DEF IInv
  <2> PICK e \in EditJobs : e = job[c]
    BY <2>0
  <2> DEFINE i == e.item
             pr == PriceRow(e.item, e.seen, e.new, c)
             cr == CostRow(e.item, e.seen, e.new, c)
  <2>1. i \in Items /\ Types /\ raced' = raced \cup {i}
    BY <1>1, <1>4 DEF IInv, EditJobs
  <2>2. RowsAreOf(i, pr, cr) /\ pr.by = c /\ cr.by = c
    BY <1>1, <2>1, EditRows DEF RowsAreOf
  <2>3. \A j \in Items : j # i => \A d \in Clerks : Unlogged(d, j) => job'[d] = job[d]
    BY <1>2 DEF Unlogged
  <2> HIDE DEF i, pr, cr
  <2>4. OthersStay(i) /\ i \in raced'
    BY <1>1, <2>1, <2>3 DEF OthersStay
  <2>5. ClerkWrites(c, i, pr, cr)
    BY <1>1, <1>2, <2>1, <2>2 DEF ClerkWrites, Types
  <2> QED
    BY <2>1, <2>4, <2>5, ClerkKeeps
<1> QED
  BY <1>3, <1>4
-----------------------------------------------------------------------------
(* Steps of the job that write no price *)
LEMMA CancelScheduleKeeps ==
  ASSUME IInv, NEW s \in Schedules, CancelSchedule(s)
  PROVE  IInv'
<1>1. /\ schedule[s].status = "pending" /\ \A r \in Runs : s \notin run[r]
      /\ schedule' = [schedule EXCEPT ![s].status = "cancelled"]
      /\ UNCHANGED <<tags, prices, costs, job, bulk, run, raced, alone>>
  BY DEF CancelSchedule, Locked
<1>2. schedule \in [Schedules -> ScheduleRows] /\ schedule[s] \in ScheduleRows
  BY DEF IInv, Types
<1>3. [schedule[s] EXCEPT !.status = "cancelled"] \in ScheduleRows
  BY <1>1, <1>2 DEF ScheduleRows
<1>4. /\ schedule' \in [Schedules -> ScheduleRows]
      /\ \A t \in Schedules : t # s => schedule'[t] = schedule[t]
  BY <1>1, <1>2, <1>3
<1>5. LocksHold' /\ run' \in [Runs -> SUBSET Schedules]
  BY <1>1, <1>4 DEF LocksHold, IInv, Types
<1>6. Quiet
  BY <1>1, <1>4 DEF Quiet
<1>7. job' \in [Clerks -> Jobs] /\ JobsAreMeant'
  BY <1>1 DEF IInv, Types, JobsAreMeant
<1> QED
  BY <1>4, <1>5, <1>6, <1>7, QuietKeeps

LEMMA SelectKeeps ==
  ASSUME IInv, NEW r \in Runs, Select(r)
  PROVE  IInv'
<1> DEFINE free == {s \in Schedules : Due(s) /\ ~Locked(s)}
           chosen == {s \in free : Cardinality({t \in free : t < s}) < BatchSize}
<1>1. /\ run' = [run EXCEPT ![r] = chosen] /\ run \in [Runs -> SUBSET Schedules]
      /\ UNCHANGED <<tags, prices, costs, job, bulk, schedule, raced, alone>>
  BY DEF Select, SelectAmong, IInv, Types
<1>2. chosen \in SUBSET Schedules
  OBVIOUS
<1>3. \A s \in chosen : schedule[s].status = "pending" /\ \A q \in Runs : s \notin run[q]
  BY DEF Due, Locked
<1> HIDE DEF chosen
<1>4. /\ run' \in [Runs -> SUBSET Schedules] /\ run'[r] = chosen
      /\ \A q \in Runs : q # r => run'[q] = run[q]
  BY <1>1, <1>2
<1>5. LocksHold'
  BY <1>1, <1>3, <1>4 DEF LocksHold, IInv
<1>6. Quiet
  BY <1>1 DEF Quiet
<1>7. job' \in [Clerks -> Jobs] /\ JobsAreMeant' /\ schedule' \in [Schedules -> ScheduleRows]
  BY <1>1 DEF IInv, Types, JobsAreMeant
<1> QED
  BY <1>4, <1>5, <1>6, <1>7, QuietKeeps

\* A run lets its schedules go.
LEMMA LetGoKeeps ==
  ASSUME IInv, NEW r \in Runs, run' = [run EXCEPT ![r] = {}],
         UNCHANGED <<tags, prices, costs, job, bulk, schedule, raced, alone>>
  PROVE  IInv'
<1>1. run \in [Runs -> SUBSET Schedules]
  BY DEF IInv, Types
<1>2. /\ run' \in [Runs -> SUBSET Schedules] /\ run'[r] = {}
      /\ \A q \in Runs : q # r => run'[q] = run[q]
  BY <1>1
<1>3. LocksHold'
  BY <1>2 DEF LocksHold, IInv
<1>4. Quiet
  BY DEF Quiet
<1>5. job' \in [Clerks -> Jobs] /\ JobsAreMeant' /\ schedule' \in [Schedules -> ScheduleRows]
  BY DEF IInv, Types, JobsAreMeant
<1> QED
  BY <1>2, <1>3, <1>4, <1>5, QuietKeeps

\* Time passes, or nothing happens.
LEMMA IdleKeeps ==
  ASSUME IInv, UNCHANGED <<tags, prices, costs, job, bulk, schedule, run, raced, alone>>
  PROVE  IInv'
<1>1. Quiet
  BY DEF Quiet
<1>2. LocksHold' /\ JobsAreMeant'
  BY DEF LocksHold, JobsAreMeant, IInv
<1>3. /\ job' \in [Clerks -> Jobs] /\ schedule' \in [Schedules -> ScheduleRows]
      /\ run' \in [Runs -> SUBSET Schedules]
  BY DEF IInv, Types
<1> QED
  BY <1>1, <1>2, <1>3, QuietKeeps
-----------------------------------------------------------------------------
(* Bulk changes *)
\* Everything but the batches stays.
LEMMA BulkAloneKeeps ==
  ASSUME IInv, NEW b \in Bulks, NEW batch \in Batches, NEW free \in BOOLEAN,
         bulk' = [bulk EXCEPT ![b] = batch], alone' = [alone EXCEPT ![b] = free],
         UNCHANGED <<tags, prices, costs, job, schedule, run, raced>>, BatchInv(b)'
  PROVE  IInv'
<1>1. bulk \in [Bulks -> Batches] /\ alone \in [Bulks -> BOOLEAN]
  BY DEF IInv, Types
<1>2. Types'
  BY <1>1 DEF IInv, Types
<1>3. ItemsTold'
  BY SameTold DEF IInv
<1>4. JobsAreMeant' /\ LocksHold' /\ AppliedRows' /\ SchedulesDoNotStack'
  BY DEF JobsAreMeant, LocksHold, AppliedRows, SchedulesDoNotStack, IInv
<1>5. ASSUME NEW x \in Bulks, x # b
      PROVE  BatchInv(x)'
  <2>1. BatchInv(x) /\ Types
    BY DEF IInv
  <2>2. bulk'[x] = bulk[x] /\ alone'[x] = alone[x] /\ prices' = prices /\ costs' = costs
    BY <1>1, <1>5
  <2>3. LeavesOut(prices, prices, x) /\ LeavesOut(costs, costs, x)
    BY <2>1, Untouched DEF Types
  <2> QED
    BY <1>2, <2>1, <2>2, <2>3, BatchKept
<1> QED
  BY <1>2, <1>3, <1>4, <1>5 DEF IInv

LEMMA StopConfirmingKeeps ==
  ASSUME IInv, NEW b \in Bulks, StopConfirming(b)
  PROVE  IInv'
<1> DEFINE batch == [bulk[b] EXCEPT !.rows = {}]
<1>1. /\ bulk[b].rows # {} /\ bulk' = [bulk EXCEPT ![b] = batch]
      /\ alone' = [alone EXCEPT ![b] = FALSE]
      /\ UNCHANGED <<tags, prices, costs, job, schedule, run, raced>>
  BY DEF StopConfirming
<1>2. bulk \in [Bulks -> Batches] /\ bulk[b] \in Batches /\ alone \in [Bulks -> BOOLEAN] /\ BatchInv(b)
  BY DEF IInv, Types
<1>3. /\ batch \in Batches /\ batch.status = bulk[b].status /\ batch.rolls = bulk[b].rolls
      /\ batch.rows = {}
  BY <1>2 DEF Batches
<1> HIDE DEF batch
<1>4. bulk'[b] = batch /\ ~alone'[b]
  BY <1>1, <1>2
<1>5. bulk[b].status # "none"
  BY <1>1, <1>2 DEF BatchInv, Unbegun
<1>6. BatchInv(b)'
  BY <1>2, <1>3, <1>4, <1>5 DEF BatchInv
<1> QED
  BY <1>1, <1>3, <1>6, BulkAloneKeeps

\* What an upload makes of an item is a price, an old price and a cost.
LEMMA TargetIs ==
  ASSUME NEW u \in Uploads, NEW tag \in Tags, Target(u, tag).price \in Prices
  PROVE  Target(u, tag) \in Tags
<1>1. u \in [kind : {"price", "adjust", "cost"}, price : Int,
             was : Prices \cup {Null, Keep}, cost : Costs \cup {Keep}]
  BY CatalogueAssumption
<1>2. CASE u.kind = "adjust"
  <2>1. Target(u, tag) = [tag EXCEPT !.price = tag.price + u.price]
    BY <1>2 DEF Target
  <2> QED
    BY <2>1 DEF Tags
<1>3. CASE u.kind # "adjust"
  <2> DEFINE price == IF u.price = Keep THEN tag.price ELSE u.price
             was == IF u.was = Keep THEN tag.was ELSE u.was
             cost == IF u.cost = Keep THEN tag.cost ELSE u.cost
  <2>1. was \in Prices \cup {Null} /\ cost \in Costs
    BY <1>1 DEF Tags
  <2>2. Target(u, tag) = [price |-> price, was |-> was, cost |-> cost]
    BY <1>3 DEF Target
  <2> HIDE DEF price, was, cost
  <2>3. price \in Prices
    BY <2>2
  <2> QED
    BY <2>1, <2>2, <2>3 DEF Tags
<1> QED
  BY <1>2, <1>3

LEMMA ConfirmKeeps ==
  ASSUME IInv, NEW b \in Bulks, NEW u \in Uploads, NEW chosen \in SUBSET Items,
         Confirm(b, u, chosen)
  PROVE  IInv'
<1> DEFINE read == {[item |-> i, from |-> tags[i], to |-> Target(u, tags[i])] : i \in chosen}
           batch == [status |-> "completed", kind |-> u.kind, rolls |-> 0, before |-> tags,
                     rows |-> read]
<1>1. /\ bulk[b].status = "none" /\ \A i \in chosen : Target(u, tags[i]).price \in Prices
      /\ bulk' = [bulk EXCEPT ![b] = batch] /\ alone' = [alone EXCEPT ![b] = TRUE]
      /\ UNCHANGED <<tags, prices, costs, job, schedule, run, raced>>
  BY DEF Confirm, Allowed
<1>2. /\ bulk \in [Bulks -> Batches] /\ alone \in [Bulks -> BOOLEAN] /\ tags \in [Items -> Tags]
      /\ Unbegun(b)
  BY <1>1 DEF IInv, Types, BatchInv
<1>3. read \in SUBSET FileRows
  BY <1>1, <1>2, TargetIs DEF FileRows
<1>4. \A r \in read : r.from = tags[r.item] /\ r.item \in Items /\ \A q \in read : q.item = r.item => q = r
  OBVIOUS
<1>5. batch \in Batches
  BY <1>2, <1>3, CatalogueAssumption DEF Batches
<1>6. bulk'[b] = batch /\ alone'[b]
  BY <1>1, <1>2
<1>7. /\ batch.status = "completed" /\ batch.rolls = 0 /\ batch.before = tags /\ batch.rows = read
  OBVIOUS
<1> HIDE DEF batch, read
<1>8. /\ \A i : RowsOf(prices, b, i) = {} /\ RowsOf(costs, b, i) = {}
  BY <1>2 DEF Unbegun, RowsOf, RowsFor
<1>9. StillOpen(b)'
  BY <1>1, <1>4, <1>6, <1>7, <1>8 DEF StillOpen
<1>10. \A i \in Items : Changed(b, i)'
  BY <1>1, <1>6, <1>7, <1>8 DEF Changed
<1>11. BatchInv(b)'
  BY <1>6, <1>7, <1>9, <1>10 DEF BatchInv
<1> QED
  BY <1>1, <1>5, <1>11, BulkAloneKeeps

\* The first row of a batch for an item.
LEMMA FirstRow ==
  ASSUME NEW R, NEW log \in Seq(R), NEW row \in R, NEW new,
         new = log \/ new = Append(log, row), RowsOf(log, row.by, row.item) = {}
  PROVE  /\ \A k \in RowsOf(new, row.by, row.item) : new[k] = row /\ new # log
         /\ new # log => RowsOf(new, row.by, row.item) # {}
<1>1. CASE new = log
  BY <1>1
<1>2. CASE new = Append(log, row)
  <2>1. /\ Extends(new, log) /\ DOMAIN new = 1..(Len(log) + 1) /\ DOMAIN log = 1..Len(log)
        /\ Len(log) \in Nat /\ new[Len(log) + 1] = row
    BY <1>2, Appended
  <2>2. new # log
    BY <1>2, Longer
  <2>3. ASSUME NEW k \in RowsOf(new, row.by, row.item)
        PROVE  new[k] = row
    <3>1. k \in DOMAIN new /\ new[k].by = row.by /\ new[k].item = row.item
      BY DEF RowsOf, RowsFor
    <3>2. k \notin DOMAIN log
      <4> SUFFICES ASSUME k \in DOMAIN log PROVE FALSE
        OBVIOUS
      <4>1. log[k] = new[k]
        BY <2>1 DEF Extends
      <4>2. k \in RowsOf(log, row.by, row.item)
        BY <3>1, <4>1 DEF RowsOf, RowsFor
      <4> QED
        BY <4>2
    <3>3. k = Len(log) + 1
      BY <2>1, <3>1, <3>2
    <3> QED
      BY <2>1, <3>3
  <2>4. Len(log) + 1 \in RowsOf(new, row.by, row.item)
    BY <2>1 DEF RowsOf, RowsFor
  <2> QED
    BY <2>2, <2>3, <2>4
<1> QED
  BY <1>1, <1>2

\* It is not one for another item.
LEMMA OtherItemsRows ==
  ASSUME NEW R, NEW log \in Seq(R), NEW row \in R, NEW new,
         new = log \/ new = Append(log, row), NEW j, row.item # j, NEW b
  PROVE  /\ RowsOf(new, b, j) = RowsOf(log, b, j)
         /\ \A k \in RowsOf(log, b, j) : new[k] = log[k]
<1>1. /\ new \in Seq(R) /\ Extends(new, log)
      /\ \A k \in DOMAIN new : k > Len(log) => new[k] = row
  BY Grown
<1>2. \A k \in DOMAIN new : k > Len(log) => new[k].item # j
  BY <1>1
<1>3. RowsFor(new, j) = RowsFor(log, j)
  BY <1>1, <1>2, OthersTell
<1>4. \A k \in RowsFor(log, j) : new[k] = log[k]
  BY <1>1 DEF RowsFor, Extends
<1> QED
  BY <1>3, <1>4 DEF RowsOf

\* What a row of a file writes is what it logs.
Honest(i, pr, cr) ==
    /\ prices' # prices => pr.old = Price(tags[i]) /\ pr.new = Price(tags'[i])
    /\ prices' = prices => Price(tags'[i]) = Price(tags[i])
    /\ costs' # costs => cr.old = tags[i].cost /\ cr.new = tags'[i].cost
    /\ costs' = costs => tags'[i].cost = tags[i].cost
BulkWrites(b, r, pr, cr) ==
    /\ RowsAreOf(r.item, pr, cr) /\ pr.by = b /\ cr.by = b
    /\ tags' \in [Items -> Tags] /\ \A j \in Items : j # r.item => tags'[j] = tags[j]
    /\ raced \subseteq raced' /\ raced' \subseteq Items
    /\ alone' \in [Bulks -> BOOLEAN] /\ \A x \in Bulks : alone'[x] = (alone[x] /\ x = b)
    /\ bulk' = [bulk EXCEPT ![b] = [bulk[b] EXCEPT !.rows = bulk[b].rows \ {r}]]
    /\ UNCHANGED <<job, schedule, run>>

\* A batch that is alone has changed what it logged.
LEMMA BatchWrites ==
  ASSUME IInv, Types', NEW b \in Bulks, NEW r \in bulk[b].rows, NEW pr, NEW cr,
         BulkWrites(b, r, pr, cr), tags[r.item] = r.from => Honest(r.item, pr, cr)
  PROVE  BatchInv(b)'
<1> DEFINE i == r.item
           rest == bulk[b].rows \ {r}
<1>1. BatchInv(b) /\ bulk[b] \in Batches /\ bulk \in [Bulks -> Batches]
  BY DEF IInv, Types
<1>2. /\ bulk'[b].rows = rest /\ bulk'[b].rolls = bulk[b].rolls /\ bulk'[b].status = bulk[b].status
      /\ bulk'[b].before = bulk[b].before
  <2>1. bulk'[b] = [bulk[b] EXCEPT !.rows = rest]
    BY <1>1 DEF BulkWrites
  <2> QED
    BY <1>1, <2>1 DEF Batches
<1>3. bulk[b].status # "none" /\ (alone[b] => bulk[b].rolls = 0)
  <2>1. bulk[b].rows # {} /\ bulk[b].rolls \in Nat
    BY <1>1 DEF Batches
  <2> QED
    BY <1>1, <2>1 DEF BatchInv, Unbegun
<1>4. ASSUME alone'[b]
      PROVE  StillOpen(b)' /\ \A j \in Items : Changed(b, j)'
  <2>1. StillOpen(b) /\ \A j \in Items : Changed(b, j)
    BY <1>1, <1>3, <1>4 DEF BatchInv, BulkWrites
  <2>2. /\ r.from = bulk[b].before[i] /\ r.from = tags[i]
        /\ RowsOf(prices, b, i) = {} /\ RowsOf(costs, b, i) = {}
        /\ \A q \in rest : q.item # i
    BY <2>1 DEF StillOpen
  <2>3. Honest(i, pr, cr)
    BY <2>2
  <2>4. /\ prices \in Seq(PriceRows) /\ pr \in PriceRows /\ pr.by = b /\ pr.item = i
        /\ prices' = prices \/ prices' = Append(prices, pr)
        /\ costs \in Seq(CostRows) /\ cr \in CostRows /\ cr.by = b /\ cr.item = i
        /\ costs' = costs \/ costs' = Append(costs, cr)
    BY DEF BulkWrites, RowsAreOf, IInv, Types
  <2> HIDE DEF i, rest
  <2>5. ASSUME NEW j, j # i
        PROVE  /\ RowsOf(prices', b, j) = RowsOf(prices, b, j)
               /\ \A k \in RowsOf(prices, b, j) : prices'[k] = prices[k]
    <3>1. pr.item # j /\ prices \in Seq(PriceRows) /\ pr \in PriceRows
      BY <2>4, <2>5
    <3>2. prices' = prices \/ prices' = Append(prices, pr)
      BY <2>4
    <3> QED
      BY <3>1, <3>2, OtherItemsRows
  <2>6. ASSUME NEW j, j # i
        PROVE  /\ RowsOf(costs', b, j) = RowsOf(costs, b, j)
               /\ \A k \in RowsOf(costs, b, j) : costs'[k] = costs[k]
    <3>1. cr.item # j /\ costs \in Seq(CostRows) /\ cr \in CostRows
      BY <2>4, <2>6
    <3>2. costs' = costs \/ costs' = Append(costs, cr)
      BY <2>4
    <3> QED
      BY ONLY <3>1, <3>2, OtherItemsRows
  <2>7. /\ \A k \in RowsOf(prices', b, i) : prices'[k] = pr /\ prices' # prices
        /\ prices' # prices => RowsOf(prices', b, i) # {}
    <3>1. RowsOf(prices, pr.by, pr.item) = {}
      BY <2>2, <2>4
    <3>2. /\ \A k \in RowsOf(prices', pr.by, pr.item) : prices'[k] = pr /\ prices' # prices
          /\ prices' # prices => RowsOf(prices', pr.by, pr.item) # {}
      BY <2>4, <3>1, FirstRow
    <3> QED
      BY <2>4, <3>2
  <2>8. /\ \A k \in RowsOf(costs', b, i) : costs'[k] = cr /\ costs' # costs
        /\ costs' # costs => RowsOf(costs', b, i) # {}
    <3>1. RowsOf(costs, cr.by, cr.item) = {}
      BY <2>2, <2>4
    <3>2. /\ \A k \in RowsOf(costs', cr.by, cr.item) : costs'[k] = cr /\ costs' # costs
          /\ costs' # costs => RowsOf(costs', cr.by, cr.item) # {}
      BY <2>4, <3>1, FirstRow
    <3> QED
      BY <2>4, <3>2
  <2>9. \A j \in Items : j # i => tags'[j] = tags[j]
    BY DEF BulkWrites, i
  <2>10. StillOpen(b)'
    <3>1. \A q \in rest : q \in bulk[b].rows /\ q.item # i /\ q.item \in Items
      BY <1>1, <2>2 DEF Batches, FileRows, rest
    <3> QED
      BY <1>2, <2>1, <2>5, <2>6, <2>9, <3>1 DEF StillOpen
  <2>11. ASSUME NEW j \in Items
         PROVE  Changed(b, j)'
    <3>1. CASE j # i
      BY <1>2, <2>1, <2>5, <2>6, <2>9, <3>1 DEF Changed
    <3>2. CASE j = i
      <4>1. Changed(b, i)'
        BY <1>2, <2>2, <2>3, <2>7, <2>8 DEF Changed, Honest
      <4> QED
        BY <3>2, <4>1
    <3> QED
      BY <3>1, <3>2
  <2> QED
    BY <2>10, <2>11
<1> QED
  BY <1>1, <1>2, <1>3, <1>4 DEF BatchInv, BulkWrites

LEMMA BulkKeeps ==
  ASSUME IInv, NEW b \in Bulks, NEW r \in bulk[b].rows, NEW pr, NEW cr,
         BulkWrites(b, r, pr, cr),
         tags[r.item] = r.from \/ r.item \notin raced' => Honest(r.item, pr, cr)
  PROVE  IInv'
<1> DEFINE i == r.item
<1>0. i \in Items
  BY DEF IInv, Types, Batches, FileRows
<1>1. /\ prices \in Seq(PriceRows) /\ pr \in PriceRows
      /\ prices' = prices \/ prices' = Append(prices, pr)
      /\ costs \in Seq(CostRows) /\ cr \in CostRows
      /\ costs' = costs \/ costs' = Append(costs, cr)
  BY DEF IInv, Types, BulkWrites, RowsAreOf
<1>2. /\ prices' \in Seq(PriceRows) /\ Extends(prices', prices)
      /\ \A k \in DOMAIN prices' : k > Len(prices) => prices'[k] = pr
  BY <1>1, Grown
<1>3. /\ costs' \in Seq(CostRows) /\ Extends(costs', costs)
      /\ \A k \in DOMAIN costs' : k > Len(costs) => costs'[k] = cr
  BY <1>1, Grown
<1>4. pr.by = b /\ cr.by = b /\ b \notin Schedules
  BY CatalogueAssumption DEF BulkWrites
<1>5. Types'
  <2>1. bulk \in [Bulks -> Batches] /\ bulk[b] \in Batches
    BY DEF IInv, Types
  <2>2. [bulk[b] EXCEPT !.rows = bulk[b].rows \ {r}] \in Batches
    BY <2>1 DEF Batches
  <2>3. bulk' \in [Bulks -> Batches]
    BY <2>1, <2>2 DEF BulkWrites
  <2> QED
    BY <1>2, <1>3, <2>3 DEF IInv, Types, BulkWrites
<1>6. ItemsTold'
  <2>1. job' = job /\ OthersStay(i) /\ RowsAreOf(i, pr, cr) /\ raced \subseteq raced'
    BY DEF BulkWrites, OthersStay
  <2>2. i \notin raced' => PriceFits(i, pr) /\ CostFits(i, cr)
    BY <2>1 DEF Honest, PriceFits, CostFits
  <2> HIDE DEF i
  <2> QED
    BY <1>0, <2>1, <2>2, WriteTold DEF IInv
<1>7. LocksHold' /\ JobsAreMeant'
  BY DEF IInv, LocksHold, JobsAreMeant, BulkWrites
<1>8. AppliedRows' /\ SchedulesDoNotStack'
  <2>1. raced \subseteq raced' /\ schedule' = schedule
    BY DEF BulkWrites
  <2>2. \A k \in DOMAIN prices' : k > Len(prices) => prices'[k].by \notin Schedules
    BY <1>2, <1>4
  <2>3. AppliedIn(prices, schedule) /\ NoneStack(prices, schedule, raced)
    BY StackIs DEF IInv
  <2>4. \A s \in Schedules : schedule[s].status = "applied" => schedule'[s] = schedule[s]
    BY <2>1
  <2>5. AppliedIn(prices', schedule') /\ NoneStack(prices', schedule', raced')
    BY <1>1, <1>2, <2>1, <2>2, <2>3, <2>4, StackKept
  <2> QED
    BY <2>5, StackIsNext
<1>9. ASSUME NEW x \in Bulks
      PROVE  BatchInv(x)'
  <2>1. CASE x = b
    BY <1>5, <2>1, BatchWrites
  <2>2. CASE x # b
    <3>1. BatchInv(x) /\ Types
      BY DEF IInv
    <3>2. bulk'[x] = bulk[x] /\ ~alone'[x]
      BY <2>2 DEF BulkWrites, IInv, Types
    <3>3. LeavesOut(prices', prices, x) /\ LeavesOut(costs', costs, x)
      BY <1>2, <1>3, <1>4, <2>2 DEF LeavesOut
    <3> QED
      BY <1>5, <3>1, <3>2, <3>3, BatchKept
  <2> QED
    BY <2>1, <2>2
<1> QED
  BY <1>5, <1>6, <1>7, <1>8, <1>9 DEF IInv

\* The rows a batch may log.
LEMMA BulkRows ==
  ASSUME NEW b \in Bulks, NEW i \in Items, NEW old \in Tags, NEW new \in Tags
  PROVE  LET pr == PriceRow(i, old, new, b)
             cr == CostRow(i, old, new, b)
         IN  /\ pr \in PriceRows /\ cr \in CostRows /\ pr.item = i /\ cr.item = i
             /\ pr.by = b /\ cr.by = b /\ pr.old = Price(old) /\ pr.new = Price(new)
             /\ cr.old = old.cost /\ cr.new = new.cost
<1>1. \A tag \in Tags : Price(tag) \in PriceTags /\ tag.cost \in Costs
  BY DEF Price, Tags, PriceTags
<1> QED
  BY <1>1 DEF PriceRow, CostRow, PriceRows, CostRows

\* Two prices with their old prices are the same if both are.
LEMMA SamePrice ==
  ASSUME NEW one \in Tags, NEW other \in Tags
  PROVE  Price(one) = Price(other) <=> one.price = other.price /\ one.was = other.was
BY DEF Price

LEMMA ApplyRowKeeps ==
  ASSUME IInv, NEW b \in Bulks, NEW r \in bulk[b].rows, ApplyRow(b, r)
  PROVE  IInv'
<1>1. PICK i \in Items : i = r.item
  BY DEF IInv, Types, Batches, FileRows
<1>2. PICK old \in Tags : old = tags[i]
  BY DEF IInv, Types
<1>3. r.from \in Tags /\ r.to \in Tags
  BY DEF IInv, Types, Batches, FileRows
<1> DEFINE pr == PriceRow(i, old, r.to, b)
           cr == CostRow(i, old, r.to, b)
           cp == r.to.price # r.from.price \/ r.to.was # old.was
           cc == r.to.cost # r.from.cost
<1>4. /\ tags' = [tags EXCEPT ![i] = r.to]
      /\ prices' = prices \o RowIf(cp, pr) /\ costs' = costs \o RowIf(cc, cr)
      /\ Written(i, r.from, b)
      /\ bulk' = [bulk EXCEPT ![b].rows = @ \ {r}] /\ UNCHANGED <<job, schedule, run>>
  BY <1>1, <1>2 DEF ApplyRow, ApplyRowIf, Applied
<1>5. /\ pr \in PriceRows /\ cr \in CostRows /\ pr.item = i /\ cr.item = i
      /\ pr.by = b /\ cr.by = b /\ pr.old = Price(old) /\ pr.new = Price(r.to)
      /\ cr.old = old.cost /\ cr.new = r.to.cost
  BY <1>3, BulkRows
<1>6. cp \in BOOLEAN /\ cc \in BOOLEAN /\ Types
  BY DEF IInv
<1>7. /\ tags' \in [Items -> Tags] /\ tags'[i] = r.to
      /\ \A j \in Items : j # i => tags'[j] = tags[j]
  BY <1>3, <1>4, <1>6 DEF Types
<1>8. /\ raced \subseteq raced' /\ raced' \subseteq Items
      /\ i \notin raced' => old = r.from
      /\ alone' \in [Bulks -> BOOLEAN]
      /\ \A x \in Bulks : alone'[x] = (alone[x] /\ x = b)
  BY <1>2, <1>4, <1>6, WrittenIs
<1>9. old = r.from => (cp <=> Price(r.to) # Price(old)) /\ (cc <=> r.to.cost # old.cost)
  BY <1>3, SamePrice
<1> HIDE DEF pr, cr, cp, cc
<1>10. /\ cp => prices' = Append(prices, pr)
       /\ ~cp => prices' = prices
       /\ cc => costs' = Append(costs, cr)
       /\ ~cc => costs' = costs
  <2>1. prices \in Seq(PriceRows) /\ costs \in Seq(CostRows)
    BY <1>6 DEF Types
  <2>2. /\ prices \o RowIf(cp, pr) = IF cp THEN Append(prices, pr) ELSE prices
        /\ costs \o RowIf(cc, cr) = IF cc THEN Append(costs, cr) ELSE costs
    BY <1>6, <2>1, RowIfIs
  <2> QED
    BY <1>4, <2>2
<1>11. /\ prices' # prices => cp
       /\ prices' = prices => ~cp
       /\ costs' # costs => cc
       /\ costs' = costs => ~cc
  <2>1. prices \in Seq(PriceRows) /\ costs \in Seq(CostRows)
    BY <1>6 DEF Types
  <2>2. Append(prices, pr) # prices /\ Append(costs, cr) # costs
    BY <1>5, <2>1, Longer
  <2> QED
    BY <1>10, <2>2
<1>12. old = r.from \/ i \notin raced' => Honest(i, pr, cr)
  <2> SUFFICES ASSUME old = r.from PROVE Honest(i, pr, cr)
    BY <1>8
  <2>1. (cp <=> Price(r.to) # Price(old)) /\ (cc <=> r.to.cost # old.cost)
    BY <1>9
  <2> QED
    BY <1>2, <1>5, <1>7, <1>11, <2>1 DEF Honest
<1>13. bulk' = [bulk EXCEPT ![b] = [bulk[b] EXCEPT !.rows = bulk[b].rows \ {r}]]
  BY <1>4
<1>14. BulkWrites(b, r, pr, cr)
  BY <1>1, <1>4, <1>5, <1>7, <1>8, <1>10, <1>13 DEF BulkWrites, RowsAreOf
<1> QED
  BY <1>1, <1>2, <1>12, <1>14, BulkKeeps

LEMMA ApplyCostKeeps ==
  ASSUME IInv, NEW b \in Bulks, NEW r \in bulk[b].rows, ApplyCost(b, r)
  PROVE  IInv'
<1>1. PICK i \in Items : i = r.item
  BY DEF IInv, Types, Batches, FileRows
<1>2. PICK old \in Tags : old = tags[i]
  BY DEF IInv, Types
<1> DEFINE new == [old EXCEPT !.cost = r.to.cost]
           pr == PriceRow(i, old, new, b)
           cr == CostRow(i, old, new, b)
           cc == new # old
<1>3. new \in Tags /\ Price(new) = Price(old) /\ (new.cost = old.cost <=> new = old)
  <2>1. r.to \in Tags
    BY DEF IInv, Types, Batches, FileRows
  <2> QED
    BY <2>1 DEF Tags, Price
<1>4. /\ tags' = [tags EXCEPT ![i] = new]
      /\ prices' = prices /\ costs' = costs \o RowIf(cc, cr)
      /\ Written(i, old, b)
      /\ bulk' = [bulk EXCEPT ![b].rows = @ \ {r}] /\ UNCHANGED <<job, schedule, run>>
  BY <1>1, <1>2 DEF ApplyCost, Applied
<1>5. /\ pr \in PriceRows /\ cr \in CostRows /\ pr.item = i /\ cr.item = i
      /\ pr.by = b /\ cr.by = b
      /\ cr.old = old.cost /\ cr.new = new.cost
  <2> HIDE DEF new
  <2> QED
    BY <1>3, BulkRows
<1>6. cc \in BOOLEAN /\ Types
  BY DEF IInv
<1> HIDE DEF new, pr, cr
<1>7. /\ tags' \in [Items -> Tags] /\ tags'[i] = new
      /\ \A j \in Items : j # i => tags'[j] = tags[j]
  BY <1>3, <1>4, <1>6 DEF Types
<1>8. /\ raced \subseteq raced' /\ raced' \subseteq Items
      /\ alone' \in [Bulks -> BOOLEAN]
      /\ \A x \in Bulks : alone'[x] = (alone[x] /\ x = b)
  BY <1>4, <1>6, WrittenIs
<1>9. cc <=> new.cost # old.cost
  BY <1>3
<1> HIDE DEF cc
<1>10. /\ cc => costs' = Append(costs, cr)
       /\ ~cc => costs' = costs
       /\ Append(costs, cr) # costs
  <2>1. costs \in Seq(CostRows)
    BY <1>6 DEF Types
  <2>2. costs \o RowIf(cc, cr) = IF cc THEN Append(costs, cr) ELSE costs
    BY <1>6, <2>1, RowIfIs
  <2>3. Append(costs, cr) # costs
    BY <1>5, <2>1, Longer
  <2> QED
    BY <1>4, <2>2, <2>3
<1>11. Honest(i, pr, cr)
  BY <1>2, <1>3, <1>4, <1>5, <1>7, <1>9, <1>10 DEF Honest
<1>13. bulk' = [bulk EXCEPT ![b] = [bulk[b] EXCEPT !.rows = bulk[b].rows \ {r}]]
  BY <1>4
<1>14. BulkWrites(b, r, pr, cr)
  BY <1>1, <1>4, <1>5, <1>7, <1>8, <1>10, <1>13 DEF BulkWrites, RowsAreOf
<1> QED
  BY <1>1, <1>11, <1>14, BulkKeeps
-----------------------------------------------------------------------------
(* Rollbacks *)
\* A history with one row u[i] more for every i of U.
WithEach(log, U, u) == log \o [k \in DOMAIN SetToSeq(U) |-> u[SetToSeq(U)[k]]]

LEMMA EachOnce ==
  ASSUME NEW R, NEW log \in Seq(R), NEW U, IsFiniteSet(U), NEW u \in [U -> R],
         \A i \in U : u[i].item = i
  PROVE  LET new == WithEach(log, U, u)
         IN  /\ new \in Seq(R) /\ Extends(new, log)
             /\ \A k \in DOMAIN new : k > Len(log) => \E i \in U : new[k] = u[i]
             /\ \A i \in U : \E k : Latest(new, i, k) /\ new[k] = u[i]
<1> DEFINE seq == SetToSeq(U)
           rows == [k \in DOMAIN seq |-> u[seq[k]]]
           new == log \o rows
<1>1. /\ seq \in Seq(U) /\ \A i \in U : \E k \in DOMAIN seq : seq[k] = i
      /\ \A j, k \in DOMAIN seq : seq[j] = seq[k] => j = k
  BY AsSequence
<1> HIDE DEF seq
<1>2. rows \in Seq(R) /\ DOMAIN rows = DOMAIN seq /\ \A k \in DOMAIN seq : rows[k] = u[seq[k]]
  BY <1>1
<1> HIDE DEF rows
<1>3. /\ new \in Seq(R) /\ Len(new) = Len(log) + Len(rows) /\ Extends(new, log)
      /\ Len(log) \in Nat /\ Len(rows) \in Nat
      /\ DOMAIN new = 1..(Len(log) + Len(rows)) /\ DOMAIN log = 1..Len(log)
      /\ DOMAIN rows = 1..Len(rows)
      /\ \A k \in DOMAIN rows : new[Len(log) + k] = rows[k]
      /\ \A k \in DOMAIN log : new[k] = log[k]
  BY <1>2, Joined
<1> HIDE DEF new
<1>4. ASSUME NEW k \in DOMAIN new, k > Len(log)
      PROVE  \E m \in DOMAIN seq : k = Len(log) + m /\ new[k] = u[seq[m]] /\ seq[m] \in U
  <2>1. k - Len(log) \in DOMAIN rows /\ k = Len(log) + (k - Len(log))
    BY <1>3, <1>4
  <2>2. new[k] = rows[k - Len(log)]
    BY <1>3, <2>1
  <2> QED
    BY <1>1, <1>2, <2>1, <2>2
<1>5. ASSUME NEW i \in U
      PROVE  \E k : Latest(new, i, k) /\ new[k] = u[i]
  <2>1. PICK m \in DOMAIN seq : seq[m] = i
    BY <1>1
  <2>2. /\ Len(log) + m \in DOMAIN new /\ new[Len(log) + m] = u[i] /\ m \in Nat
        /\ Len(log) + m > Len(log)
    BY <1>2, <1>3, <2>1
  <2>3. ASSUME NEW j \in DOMAIN new, j > Len(log) + m
        PROVE  new[j].item # i
    <3>1. j > Len(log) /\ j \in Nat
      BY <1>3, <2>2, <2>3
    <3>2. PICK l \in DOMAIN seq : j = Len(log) + l /\ new[j] = u[seq[l]] /\ seq[l] \in U
      BY <1>4, <3>1
    <3>3. l # m
      BY <1>3, <2>2, <2>3, <3>2
    <3>4. seq[l] # i
      BY <1>1, <2>1, <3>3
    <3> QED
      BY <3>2, <3>4
  <2> QED
    BY <2>2, <2>3 DEF Latest
<1>6. \A k \in DOMAIN new : k > Len(log) => \E i \in U : new[k] = u[i]
  BY <1>4
<1>7. /\ new \in Seq(R) /\ Extends(new, log)
      /\ \A k \in DOMAIN new : k > Len(log) => \E i \in U : new[k] = u[i]
      /\ \A i \in U : \E k : Latest(new, i, k) /\ new[k] = u[i]
  BY <1>3, <1>5, <1>6
<1>8. WithEach(log, U, u) = new
  BY DEF new, rows, seq, WithEach
<1> QED
  BY <1>7, <1>8

\* What it tells of those items, and of others.
LEMMA EachTells ==
  ASSUME NEW R, NEW log \in Seq(R), NEW U, IsFiniteSet(U), NEW u \in [U -> R],
         \A i \in U : u[i].item = i, NEW i, NEW first, NEW value
  PROVE  LET new == WithEach(log, U, u)
         IN  /\ i \in U => (Tells(new, i, first, value) <=> value = u[i].new)
             /\ i \notin U => (Tells(new, i, first, value) <=> Tells(log, i, first, value))
<1> DEFINE new == WithEach(log, U, u)
<1>1. /\ new \in Seq(R) /\ Extends(new, log)
      /\ \A k \in DOMAIN new : k > Len(log) => \E j \in U : new[k] = u[j]
      /\ \A j \in U : \E k : Latest(new, j, k) /\ new[k] = u[j]
  BY EachOnce
<1> HIDE DEF new
<1>2. CASE i \in U
  <2>1. PICK k : Latest(new, i, k) /\ new[k] = u[i]
    BY <1>1, <1>2
  <2>2. Tells(new, i, first, value) <=> value = new[k].new
    BY <1>1, <2>1, LatestTells
  <2> QED
    BY <1>2, <2>1, <2>2 DEF new
<1>3. CASE i \notin U
  <2>1. \A k \in DOMAIN new : k > Len(log) => new[k].item # i
    BY <1>1, <1>3
  <2>2. Tells(new, i, first, value) <=> Tells(log, i, first, value)
    BY <1>1, <2>1, OthersTell
  <2> QED
    BY <1>3, <2>2 DEF new
<1> QED
  BY <1>2, <1>3

\* A row of a batch is one of its history.
LEMMA RowsAreRows ==
  ASSUME Types, NEW b, NEW i
  PROVE  /\ \A k \in RowsOf(prices, b, i) :
               /\ k \in DOMAIN prices /\ prices[k] \in PriceRows
               /\ prices[k].item = i /\ prices[k].by = b
         /\ \A k \in RowsOf(costs, b, i) :
               /\ k \in DOMAIN costs /\ costs[k] \in CostRows
               /\ costs[k].item = i /\ costs[k].by = b
         /\ RowsOf(prices, b, i) # {} => Max(RowsOf(prices, b, i)) \in RowsOf(prices, b, i)
<1>1. prices \in Seq(PriceRows) /\ costs \in Seq(CostRows)
  BY DEF Types
<1>2. RowsOf(prices, b, i) \in SUBSET (1..Len(prices)) /\ Len(prices) \in Nat
  BY <1>1 DEF RowsOf, RowsFor
<1>3. RowsOf(prices, b, i) # {} => Max(RowsOf(prices, b, i)) \in RowsOf(prices, b, i)
  BY <1>2, GreatestIsMax
<1>4. /\ \A k \in RowsOf(prices, b, i) :
            k \in DOMAIN prices /\ prices[k].item = i /\ prices[k].by = b
      /\ \A k \in RowsOf(costs, b, i) :
            k \in DOMAIN costs /\ costs[k].item = i /\ costs[k].by = b
  BY DEF RowsOf, RowsFor
<1>5. /\ \A k \in DOMAIN prices : prices[k] \in PriceRows
      /\ \A k \in DOMAIN costs : costs[k] \in CostRows
  BY <1>1
<1> QED
  BY <1>3, <1>4, <1>5

\* What the rollback of a batch changes: the items of undoP go back to the price
\* before the row price[i], those of undoC to the cost before cost[i].
Undoes(b, price, cost, undoP, undoC) ==
    /\ \A i \in PriceItems(b) : \E k \in RowsOf(prices, b, i) : price[i] = prices[k]
    /\ \A i \in CostItems(b) : \E k \in RowsOf(costs, b, i) : cost[i] = costs[k]
    /\ undoP = {i \in PriceItems(b) : Price(tags[i]) = price[i].new}
    /\ undoC = {i \in CostItems(b) : tags[i].cost = cost[i].new}
    /\ tags' = [i \in Items |->
          [price |-> IF i \in undoP THEN price[i].old.price ELSE tags[i].price,
           was   |-> IF i \in undoP THEN price[i].old.was ELSE tags[i].was,
           cost  |-> IF i \in undoC THEN cost[i].old ELSE tags[i].cost]]
    /\ prices' = WithEach(prices, undoP, [i \in undoP |-> Undone(price[i])])
    /\ costs' = WithEach(costs, undoC, [i \in undoC |-> Undone(cost[i])])
    /\ bulk' = [bulk EXCEPT ![b].rolls = @ + 1, ![b].status =
          IF undoP # PriceItems(b) \/ undoC # CostItems(b) THEN "partially_rolled_back"
          ELSE IF undoP \cup undoC # {} THEN "rolled_back" ELSE @]
    /\ alone' = [x \in Bulks |-> alone[x] /\ x = b /\ bulk[b].rows = {}]
    /\ UNCHANGED <<job, schedule, run, raced>>

LEMMA RollbackIs ==
  ASSUME Types, NEW b \in Bulks, Rollback(b)
  PROVE  /\ bulk[b].status # "none"
         /\ \E price, cost, undoP, undoC : Undoes(b, price, cost, undoP, undoC)
<1> DEFINE price == [i \in PriceItems(b) |-> prices[Max(RowsOf(prices, b, i))]]
           cost(pick) == [i \in CostItems(b) |-> costs[pick[i]]]
           undoP == {i \in PriceItems(b) : Price(tags[i]) = price[i].new}
           undoC(pick) == {i \in CostItems(b) : tags[i].cost = cost(pick)[i].new}
           seqP == SetToSeq(undoP)
           seqC(pick) == SetToSeq(undoC(pick))
<1>1. bulk[b].status # "none"
  BY DEF Rollback
<1>2. PICK pick \in [CostItems(b) -> DOMAIN costs] :
        /\ \A i \in CostItems(b) : pick[i] \in RowsOf(costs, b, i)
        /\ tags' = [i \in Items |->
              [price |-> IF i \in undoP THEN price[i].old.price ELSE tags[i].price,
               was   |-> IF i \in undoP THEN price[i].old.was ELSE tags[i].was,
               cost  |-> IF i \in undoC(pick) THEN cost(pick)[i].old ELSE tags[i].cost]]
        /\ prices' = prices \o [k \in DOMAIN seqP |-> Undone(price[seqP[k]])]
        /\ costs' = costs \o [k \in DOMAIN seqC(pick) |-> Undone(cost(pick)[seqC(pick)[k]])]
        /\ bulk' = [bulk EXCEPT ![b].rolls = @ + 1, ![b].status =
              IF undoP # PriceItems(b) \/ undoC(pick) # CostItems(b) THEN "partially_rolled_back"
              ELSE IF undoP \cup undoC(pick) # {} THEN "rolled_back" ELSE @]
  BY DEF Rollback
<1>3. /\ alone' = [x \in Bulks |-> alone[x] /\ x = b /\ bulk[b].rows = {}]
      /\ UNCHANGED <<job, schedule, run, raced>>
  BY DEF Rollback
<1> DEFINE c == cost(pick)
           undoneC == undoC(pick)
<1>4. undoP \subseteq Items /\ undoneC \subseteq Items /\ IsFiniteSet(undoP) /\ IsFiniteSet(undoneC)
  <2>1. undoP \subseteq Items /\ undoneC \subseteq Items
    BY DEF PriceItems, CostItems
  <2> QED
    BY <2>1, FS_Subset, CatalogueAssumption
<1>5. /\ \A i \in PriceItems(b) : \E k \in RowsOf(prices, b, i) : price[i] = prices[k]
      /\ \A i \in CostItems(b) : \E k \in RowsOf(costs, b, i) : c[i] = costs[k]
  <2>1. \A i \in PriceItems(b) : Max(RowsOf(prices, b, i)) \in RowsOf(prices, b, i)
    BY RowsAreRows DEF PriceItems
  <2> QED
    BY <1>2, <2>1
<1>6. undoneC = {i \in CostItems(b) : tags[i].cost = c[i].new}
  OBVIOUS
<1>7. undoP = {i \in PriceItems(b) : Price(tags[i]) = price[i].new}
  OBVIOUS
<1>8. prices' = WithEach(prices, undoP, [i \in undoP |-> Undone(price[i])])
  <2> HIDE DEF undoP, price
  <2>1. \A k \in DOMAIN SetToSeq(undoP) : SetToSeq(undoP)[k] \in undoP
    BY <1>4, AsSequence
  <2>2. [k \in DOMAIN SetToSeq(undoP) |-> [i \in undoP |-> Undone(price[i])][SetToSeq(undoP)[k]]]
           = [k \in DOMAIN SetToSeq(undoP) |-> Undone(price[SetToSeq(undoP)[k]])]
    BY <2>1
  <2> QED
    BY <1>2, <2>2 DEF WithEach
<1>9. costs' = WithEach(costs, undoneC, [i \in undoneC |-> Undone(c[i])])
  <2>1. costs' = costs \o [k \in DOMAIN SetToSeq(undoneC) |-> Undone(c[SetToSeq(undoneC)[k]])]
    BY <1>2
  <2> HIDE DEF undoneC, c
  <2>2. \A k \in DOMAIN SetToSeq(undoneC) : SetToSeq(undoneC)[k] \in undoneC
    BY <1>4, AsSequence
  <2>3. [k \in DOMAIN SetToSeq(undoneC) |-> [i \in undoneC |-> Undone(c[i])][SetToSeq(undoneC)[k]]]
           = [k \in DOMAIN SetToSeq(undoneC) |-> Undone(c[SetToSeq(undoneC)[k]])]
    BY <2>2
  <2> QED
    BY <2>1, <2>3 DEF WithEach
<1>10. /\ tags' = [i \in Items |->
              [price |-> IF i \in undoP THEN price[i].old.price ELSE tags[i].price,
               was   |-> IF i \in undoP THEN price[i].old.was ELSE tags[i].was,
               cost  |-> IF i \in undoneC THEN c[i].old ELSE tags[i].cost]]
       /\ bulk' = [bulk EXCEPT ![b].rolls = @ + 1, ![b].status =
              IF undoP # PriceItems(b) \/ undoneC # CostItems(b) THEN "partially_rolled_back"
              ELSE IF undoP \cup undoneC # {} THEN "rolled_back" ELSE @]
  BY <1>2
<1> HIDE DEF undoP, undoneC, c, price, cost, undoC, seqP, seqC
<1>11. Undoes(b, price, c, undoP, undoneC)
  BY <1>3, <1>5, <1>6, <1>7, <1>8, <1>9, <1>10 DEF Undoes
<1> QED
  BY <1>1, <1>11

\* What a rollback adds to the histories.
LEMMA UndoRows ==
  ASSUME Types, NEW b \in Bulks, NEW price, NEW cost, NEW undoP, NEW undoC,
         Undoes(b, price, cost, undoP, undoC)
  PROVE  LET up == [i \in undoP |-> Undone(price[i])]
             uc == [i \in undoC |-> Undone(cost[i])]
         IN  /\ undoP \subseteq Items /\ IsFiniteSet(undoP)
             /\ undoC \subseteq Items /\ IsFiniteSet(undoC)
             /\ up \in [undoP -> PriceRows] /\ uc \in [undoC -> CostRows]
             /\ \A i \in undoP : up[i].item = i /\ up[i].by = b /\ up[i].new = price[i].old
             /\ \A i \in undoC : uc[i].item = i /\ uc[i].by = b /\ uc[i].new = cost[i].old
             /\ \A i \in undoP : price[i].old \in PriceTags
             /\ \A i \in undoC : cost[i].old \in Costs
<1>1. undoP \subseteq PriceItems(b) /\ undoC \subseteq CostItems(b)
  BY DEF Undoes
<1>2. /\ undoP \subseteq Items /\ IsFiniteSet(undoP)
      /\ undoC \subseteq Items /\ IsFiniteSet(undoC)
  BY <1>1, FS_Subset, CatalogueAssumption DEF PriceItems, CostItems
<1>3. ASSUME NEW i \in undoP
      PROVE  /\ Undone(price[i]) \in PriceRows /\ Undone(price[i]).item = i
             /\ Undone(price[i]).by = b /\ Undone(price[i]).new = price[i].old
             /\ price[i].old \in PriceTags
  <2>1. PICK k \in RowsOf(prices, b, i) : price[i] = prices[k]
    BY <1>1 DEF Undoes
  <2>2. price[i] \in PriceRows /\ price[i].item = i /\ price[i].by = b
    BY <2>1, RowsAreRows
  <2> QED
    BY <2>2 DEF Undone, PriceRows
<1>4. ASSUME NEW i \in undoC
      PROVE  /\ Undone(cost[i]) \in CostRows /\ Undone(cost[i]).item = i
             /\ Undone(cost[i]).by = b /\ Undone(cost[i]).new = cost[i].old
             /\ cost[i].old \in Costs
  <2>1. PICK k \in RowsOf(costs, b, i) : cost[i] = costs[k]
    BY <1>1 DEF Undoes
  <2>2. cost[i] \in CostRows /\ cost[i].item = i /\ cost[i].by = b
    BY <2>1, RowsAreRows
  <2> QED
    BY <2>2 DEF Undone, CostRows
<1> QED
  BY <1>2, <1>3, <1>4

LEMMA UndoTells ==
  ASSUME Types, ItemsTold, NEW b \in Bulks, NEW price, NEW cost, NEW undoP, NEW undoC,
         Undoes(b, price, cost, undoP, undoC)
  PROVE  ItemsTold' /\ tags' \in [Items -> Tags]
<1> DEFINE up == [i \in undoP |-> Undone(price[i])]
           uc == [i \in undoC |-> Undone(cost[i])]
<1>1. /\ undoP \subseteq Items /\ IsFiniteSet(undoP)
      /\ undoC \subseteq Items /\ IsFiniteSet(undoC)
      /\ up \in [undoP -> PriceRows] /\ uc \in [undoC -> CostRows]
      /\ \A i \in undoP : up[i].item = i /\ up[i].by = b /\ up[i].new = price[i].old
      /\ \A i \in undoC : uc[i].item = i /\ uc[i].by = b /\ uc[i].new = cost[i].old
      /\ \A i \in undoP : price[i].old \in PriceTags
      /\ \A i \in undoC : cost[i].old \in Costs
  BY UndoRows
<1>2. /\ prices' = WithEach(prices, undoP, up) /\ costs' = WithEach(costs, undoC, uc)
      /\ job' = job /\ raced' = raced
      /\ prices \in Seq(PriceRows) /\ costs \in Seq(CostRows) /\ tags \in [Items -> Tags]
  BY DEF Undoes, Types
<1> HIDE DEF up, uc
<1>3. ASSUME NEW i \in Items
      PROVE  /\ tags'[i] \in Tags
             /\ i \in undoP => Price(tags'[i]) = price[i].old
             /\ i \notin undoP => Price(tags'[i]) = Price(tags[i])
             /\ i \in undoC => tags'[i].cost = cost[i].old
             /\ i \notin undoC => tags'[i].cost = tags[i].cost
  <2>1. tags'[i] = [price |-> IF i \in undoP THEN price[i].old.price ELSE tags[i].price,
                    was   |-> IF i \in undoP THEN price[i].old.was ELSE tags[i].was,
                    cost  |-> IF i \in undoC THEN cost[i].old ELSE tags[i].cost]
    BY DEF Undoes
  <2>2. tags[i] \in Tags
    BY <1>2
  <2>3. i \in undoP => price[i].old \in PriceTags
    BY <1>1
  <2>4. i \in undoC => cost[i].old \in Costs
    BY <1>1
  <2> QED
    BY <2>1, <2>2, <2>3, <2>4 DEF Tags, Price, PriceTags
<1>4. DOMAIN tags' = Items /\ tags' = [i \in Items |-> tags'[i]]
  BY DEF Undoes
<1>5. tags' \in [Items -> Tags]
  BY <1>3, <1>4
<1>6. ASSUME NEW j \in Items, j \notin raced'
      PROVE  PriceTold(j)' /\ CostTold(j)'
  <2>1. PriceTold(j) /\ CostTold(j)
    BY <1>2, <1>6 DEF ItemsTold
  <2>2. ASSUME NEW value
        PROVE  /\ j \in undoP => (Tells(prices', j, Price(Fresh), value) <=> value = up[j].new)
               /\ j \notin undoP => (Tells(prices', j, Price(Fresh), value)
                                       <=> Tells(prices, j, Price(Fresh), value))
    BY <1>1, <1>2, EachTells
  <2>3. ASSUME NEW value
        PROVE  /\ j \in undoC => (Tells(costs', j, Fresh.cost, value) <=> value = uc[j].new)
               /\ j \notin undoC => (Tells(costs', j, Fresh.cost, value)
                                       <=> Tells(costs, j, Fresh.cost, value))
    BY <1>1, <1>2, EachTells
  <2>4. PriceTold(j)'
    <3>1. CASE j \in undoP
      <4>1. Tells(prices', j, Price(Fresh), Price(tags'[j]))
        BY <1>1, <1>3, <2>2, <3>1
      <4> QED
        BY <4>1 DEF PriceTold
    <3>2. CASE j \notin undoP
      BY <1>2, <1>3, <2>1, <2>2, <3>2 DEF PriceTold, Unlogged
    <3> QED
      BY <3>1, <3>2
  <2>5. CostTold(j)'
    <3>1. CASE j \in undoC
      <4>1. Tells(costs', j, Fresh.cost, tags'[j].cost)
        BY <1>1, <1>3, <2>3, <3>1
      <4> QED
        BY <4>1 DEF CostTold
    <3>2. CASE j \notin undoC
      BY <1>2, <1>3, <2>1, <2>3, <3>2 DEF CostTold, Unlogged
    <3> QED
      BY <3>1, <3>2
  <2> QED
    BY <2>4, <2>5
<1> QED
  BY <1>5, <1>6 DEF ItemsTold

\* A first rollback that undoes all a batch changed leaves everything as it was.
LEMMA UndoneIsBefore ==
  ASSUME Types, NEW b \in Bulks, BatchInv(b), alone[b], bulk[b].rolls = 0,
         NEW price, NEW cost, Undoes(b, price, cost, PriceItems(b), CostItems(b))
  PROVE  tags' = bulk[b].before
<1>1. bulk[b].before \in [Items -> Tags] /\ tags \in [Items -> Tags]
  BY DEF Types, Batches
<1>2. ASSUME NEW i \in Items
      PROVE  tags'[i] = bulk[b].before[i]
  <2>0. PICK before \in Tags : before = bulk[b].before[i]
    BY <1>1
  <2>1. Changed(b, i)
    BY DEF BatchInv
  <2>2. i \in PriceItems(b) => price[i].old = Price(before)
    <3>1. ASSUME i \in PriceItems(b)
          PROVE  price[i].old = Price(before)
      <4>1. PICK k \in RowsOf(prices, b, i) : price[i] = prices[k]
        BY <3>1 DEF Undoes
      <4> QED
        BY <2>0, <2>1, <4>1 DEF Changed
    <3> QED
      BY <3>1
  <2>3. i \notin PriceItems(b) => Price(tags[i]) = Price(before)
    BY <2>0, <2>1 DEF Changed, PriceItems
  <2>4. i \in CostItems(b) => cost[i].old = before.cost
    <3>1. ASSUME i \in CostItems(b)
          PROVE  cost[i].old = before.cost
      <4>1. PICK k \in RowsOf(costs, b, i) : cost[i] = costs[k]
        BY <3>1 DEF Undoes
      <4> QED
        BY <2>0, <2>1, <4>1 DEF Changed
    <3> QED
      BY <3>1
  <2>5. i \notin CostItems(b) => tags[i].cost = before.cost
    BY <2>0, <2>1 DEF Changed, CostItems
  <2>6. tags'[i] =
          [price |-> IF i \in PriceItems(b) THEN price[i].old.price ELSE tags[i].price,
           was   |-> IF i \in PriceItems(b) THEN price[i].old.was ELSE tags[i].was,
           cost  |-> IF i \in CostItems(b) THEN cost[i].old ELSE tags[i].cost]
    BY DEF Undoes
  <2>7. tags'[i] = [price |-> before.price, was |-> before.was, cost |-> before.cost]
    <3>1. /\ Price(before).price = before.price /\ Price(before).was = before.was
          /\ Price(tags[i]).price = tags[i].price /\ Price(tags[i]).was = tags[i].was
      BY DEF Price
    <3> QED
      BY <2>2, <2>3, <2>4, <2>5, <2>6, <3>1
  <2>8. before = [price |-> before.price, was |-> before.was, cost |-> before.cost]
    BY DEF Tags
  <2> QED
    BY <2>0, <2>7, <2>8
<1>3. tags' = [i \in Items |-> tags'[i]] /\ bulk[b].before = [i \in Items |-> bulk[b].before[i]]
  BY <1>1 DEF Undoes
<1> QED
  BY <1>2, <1>3

\* What a rollback makes of its batch.
LEMMA UndoBatch ==
  ASSUME Types, NEW b \in Bulks, BatchInv(b), bulk[b].status # "none",
         NEW price, NEW cost, NEW undoP, NEW undoC, Undoes(b, price, cost, undoP, undoC)
  PROVE  /\ bulk' \in [Bulks -> Batches] /\ alone' \in [Bulks -> BOOLEAN]
         /\ BatchInv(b)' /\ \A x \in Bulks \ {b} : bulk'[x] = bulk[x] /\ ~alone'[x]
<1>1. PICK old \in Batches : old = bulk[b]
  BY DEF Types
<1>2. PICK status : status = IF undoP # PriceItems(b) \/ undoC # CostItems(b)
                             THEN "partially_rolled_back"
                             ELSE IF undoP \cup undoC # {} THEN "rolled_back" ELSE old.status
  OBVIOUS
<1>3. bulk \in [Bulks -> Batches]
      /\ bulk' = [bulk EXCEPT ![b] = [old EXCEPT !.rolls = old.rolls + 1, !.status = status]]
  BY <1>1, <1>2 DEF Types, Undoes
<1>4. status \in {"none", "completed", "rolled_back", "partially_rolled_back"} /\ status # "none"
  BY <1>1, <1>2 DEF Batches
<1>5. PICK new : new = [old EXCEPT !.rolls = old.rolls + 1, !.status = status]
  OBVIOUS
<1>6. /\ new \in Batches /\ new.rolls = old.rolls + 1 /\ new.status = status
      /\ new.rows = old.rows /\ new.before = old.before /\ old.rolls \in Nat
  <2>1. /\ old.rolls \in Nat /\ old.kind \in {"price", "adjust", "cost"}
        /\ old.before \in [Items -> Tags] /\ old.rows \in SUBSET FileRows
    BY DEF Batches
  <2>2. new = [status |-> status, kind |-> old.kind, rolls |-> old.rolls + 1,
               before |-> old.before, rows |-> old.rows]
    BY <1>5 DEF Batches
  <2>3. old.rolls + 1 \in Nat
    BY <2>1
  <2> QED
    BY <1>4, <2>1, <2>2, <2>3 DEF Batches
<1>7. /\ bulk' \in [Bulks -> Batches] /\ bulk'[b] = new
      /\ \A x \in Bulks \ {b} : bulk'[x] = bulk[x]
  BY <1>3, <1>5, <1>6
<1>8. alone' \in [Bulks -> BOOLEAN] /\ \A x \in Bulks \ {b} : ~alone'[x]
  BY DEF Undoes, Types
<1>9. alone'[b] => alone[b] /\ old.rows = {}
  BY <1>1 DEF Undoes
<1>10. ASSUME alone'[b], new.rolls = 1, status = "rolled_back"
       PROVE  tags' = new.before
  <2>1. old.rolls = 0 /\ alone[b]
    BY <1>6, <1>9, <1>10
  <2>2. old.status \in {"none", "completed"}
    BY <1>1, <2>1 DEF BatchInv
  <2>3. undoP = PriceItems(b) /\ undoC = CostItems(b)
    BY <1>2, <1>10, <2>2
  <2>4. Undoes(b, price, cost, PriceItems(b), CostItems(b))
    BY <2>3
  <2> QED
    BY <1>1, <1>6, <2>1, <2>4, UndoneIsBefore
<1>11. new.rolls # 0 /\ new.rolls \in Nat
  BY <1>6
<1>12. BatchInv(b)'
  BY <1>4, <1>6, <1>7, <1>9, <1>10, <1>11 DEF BatchInv
<1> QED
  BY <1>7, <1>8, <1>12

LEMMA RollbackKeeps ==
  ASSUME IInv, NEW b \in Bulks, Rollback(b)
  PROVE  IInv'
<1>0. Types /\ ItemsTold /\ BatchInv(b)
  BY DEF IInv
<1>1. bulk[b].status # "none"
      /\ \E price, cost, undoP, undoC : Undoes(b, price, cost, undoP, undoC)
  BY <1>0, RollbackIs
<1>2. PICK price, cost, undoP, undoC : Undoes(b, price, cost, undoP, undoC)
  BY <1>1
<1> DEFINE up == [i \in undoP |-> Undone(price[i])]
           uc == [i \in undoC |-> Undone(cost[i])]
<1>3. /\ IsFiniteSet(undoP) /\ IsFiniteSet(undoC)
      /\ up \in [undoP -> PriceRows] /\ uc \in [undoC -> CostRows]
      /\ \A i \in undoP : up[i].item = i /\ up[i].by = b
      /\ \A i \in undoC : uc[i].item = i /\ uc[i].by = b
  BY <1>0, <1>2, UndoRows
<1>4. /\ prices' = WithEach(prices, undoP, up) /\ costs' = WithEach(costs, undoC, uc)
      /\ UNCHANGED <<job, schedule, run, raced>>
      /\ prices \in Seq(PriceRows) /\ costs \in Seq(CostRows)
  BY <1>0, <1>2 DEF Undoes, Types
<1> HIDE DEF up, uc
<1>5. /\ prices' \in Seq(PriceRows) /\ Extends(prices', prices)
      /\ \A k \in DOMAIN prices' : k > Len(prices) => \E i \in undoP : prices'[k] = up[i]
  BY <1>3, <1>4, EachOnce
<1>6. /\ costs' \in Seq(CostRows) /\ Extends(costs', costs)
      /\ \A k \in DOMAIN costs' : k > Len(costs) => \E i \in undoC : costs'[k] = uc[i]
  BY <1>3, <1>4, EachOnce
<1>7. /\ \A k \in DOMAIN prices' : k > Len(prices) => prices'[k].by = b
      /\ \A k \in DOMAIN costs' : k > Len(costs) => costs'[k].by = b
  BY <1>3, <1>5, <1>6
<1>8. /\ bulk' \in [Bulks -> Batches] /\ alone' \in [Bulks -> BOOLEAN]
      /\ BatchInv(b)' /\ \A x \in Bulks \ {b} : bulk'[x] = bulk[x] /\ ~alone'[x]
  BY <1>0, <1>1, <1>2, UndoBatch
<1>9. ItemsTold' /\ tags' \in [Items -> Tags]
  BY <1>0, <1>2, UndoTells
<1>10. Types'
  BY <1>0, <1>4, <1>5, <1>6, <1>8, <1>9 DEF Types
<1>11. JobsAreMeant' /\ LocksHold'
  BY <1>4 DEF IInv, JobsAreMeant, LocksHold
<1>12. AppliedRows' /\ SchedulesDoNotStack'
  <2>1. b \notin Schedules
    BY CatalogueAssumption
  <2>2. \A k \in DOMAIN prices' : k > Len(prices) => prices'[k].by \notin Schedules
    BY <1>7, <2>1
  <2>3. AppliedIn(prices, schedule) /\ NoneStack(prices, schedule, raced)
    BY StackIs DEF IInv
  <2>4. \A s \in Schedules : schedule[s].status = "applied" => schedule'[s] = schedule[s]
    BY <1>4
  <2>5. raced \subseteq raced'
    BY <1>4
  <2>6. AppliedIn(prices', schedule') /\ NoneStack(prices', schedule', raced')
    BY <1>4, <1>5, <2>2, <2>3, <2>4, <2>5, StackKept
  <2> QED
    BY <2>6, StackIsNext
<1>13. ASSUME NEW x \in Bulks
       PROVE  BatchInv(x)'
  <2>1. CASE x = b
    BY <1>8, <2>1
  <2>2. CASE x # b
    <3>1. BatchInv(x) /\ bulk'[x] = bulk[x] /\ ~alone'[x]
      BY <1>8, <2>2 DEF IInv
    <3>2. LeavesOut(prices', prices, x) /\ LeavesOut(costs', costs, x)
      BY <1>5, <1>6, <1>7, <2>2 DEF LeavesOut
    <3> QED
      BY <1>0, <1>10, <3>1, <3>2, BatchKept
  <2> QED
    BY <2>1, <2>2
<1> QED
  BY <1>9, <1>10, <1>11, <1>12, <1>13 DEF IInv
-----------------------------------------------------------------------------
(* The job *)
DecisionStates ==
    [tags : [Items -> Tags], log : Seq(PriceRows), schedules : [Schedules -> ScheduleRows]]

\* What a state between two decisions of a batch keeps of what the invariant says.
Explains(shown, log, schedules) ==
    /\ AppliedIn(log, schedules) /\ NoneStack(log, schedules, raced)
    /\ Extends(log, prices) /\ \A k \in DOMAIN log : k > Len(prices) => log[k].by \in Schedules
    /\ \A i \in Items : shown[i].cost = tags[i].cost
    /\ \A i \in Items \ raced :
          \/ Tells(log, i, Price(Fresh), Price(shown[i]))
          \/ \E c \in Clerks : PriceDue(c, i)

\* A decision applies a schedule or finds a conflict.
Refuses(state, s, end) ==
    /\ end.tags = state.tags /\ end.log = state.log
    /\ end.schedules = [state.schedules EXCEPT ![s].status = "conflict"]
Applies(state, s, i, new, end) ==
    /\ state.tags[i].price = state.schedules[s].expected
    /\ end.tags = [state.tags EXCEPT ![i].price = new.price, ![i].was = new.was]
    /\ end.log = Append(state.log, PriceRow(i, [state.tags[i] EXCEPT !.was = Null], new, s))
    /\ end.schedules = [state.schedules EXCEPT ![s].status = "applied"]
Decides(state, s, i, new, end) ==
    /\ i \in Items /\ new \in Tags
    /\ i = state.schedules[s].item /\ new = state.schedules[s].new
    /\ Refuses(state, s, end) \/ Applies(state, s, i, new, end)
    /\ end = [tags |-> end.tags, log |-> end.log, schedules |-> end.schedules]

LEMMA DecideIs ==
  ASSUME NEW state \in DecisionStates, NEW s \in Schedules,
         state.schedules[s].status = "pending"
  PROVE  \E i, new : Decides(state, s, i, new, Decide(state, s))
<1>0. PICK i, new : i = state.schedules[s].item /\ new = state.schedules[s].new
  OBVIOUS
<1>1. state.schedules \in [Schedules -> ScheduleRows]
  BY DEF DecisionStates
<1>2. PICK row \in ScheduleRows : row = state.schedules[s]
  BY <1>1
<1>3. i \in Items /\ new \in Tags
  BY <1>0, <1>2 DEF ScheduleRows
<1>4. CASE Unedited(state, s)
  <2>1. Applies(state, s, i, new, Decide(state, s))
    BY <1>0, <1>4 DEF Decide, DecideIf, Unedited, Applies
  <2>2. Decide(state, s) = [tags |-> Decide(state, s).tags, log |-> Decide(state, s).log,
                            schedules |-> Decide(state, s).schedules]
    BY <1>4 DEF Decide, DecideIf
  <2> QED
    BY <1>0, <1>3, <2>1, <2>2 DEF Decides
<1>5. CASE ~Unedited(state, s)
  <2>1. state = [tags |-> state.tags, log |-> state.log, schedules |-> state.schedules]
    BY DEF DecisionStates
  <2>2. Decide(state, s) = [tags |-> state.tags, log |-> state.log,
                            schedules |-> [state.schedules EXCEPT ![s].status = "conflict"]]
    BY <1>5, <2>1 DEF Decide, DecideIf
  <2>3. Refuses(state, s, Decide(state, s))
    BY <2>2 DEF Refuses
  <2> QED
    BY <1>0, <1>3, <2>2, <2>3 DEF Decides
<1> QED
  BY <1>4, <1>5

\* What becomes of the schedule, and of no other.
LEMMA DecideTypes ==
  ASSUME NEW state \in DecisionStates, NEW s \in Schedules,
         state.schedules[s].status = "pending",
         NEW i, NEW new, NEW end, Decides(state, s, i, new, end)
  PROVE  /\ end \in DecisionStates
         /\ \A t \in Schedules \ {s} : end.schedules[t] = state.schedules[t]
         /\ \E status \in {"applied", "conflict"} :
               end.schedules[s] = [state.schedules[s] EXCEPT !.status = status]
<1>2. /\ i \in Items /\ new \in Tags
      /\ i = state.schedules[s].item /\ new = state.schedules[s].new
      /\ Refuses(state, s, end) \/ Applies(state, s, i, new, end)
      /\ end = [tags |-> end.tags, log |-> end.log, schedules |-> end.schedules]
  BY DEF Decides
<1>3. /\ state.tags \in [Items -> Tags] /\ state.log \in Seq(PriceRows)
      /\ state.schedules \in [Schedules -> ScheduleRows]
  BY DEF DecisionStates
<1>4. PICK status \in {"applied", "conflict"} :
        end.schedules = [state.schedules EXCEPT ![s].status = status]
  BY <1>2 DEF Refuses, Applies
<1>5. PICK row \in ScheduleRows : row = state.schedules[s]
  BY <1>3
<1>6. [row EXCEPT !.status = status] \in ScheduleRows
  BY <1>2, <1>5 DEF ScheduleRows
<1>7. /\ end.schedules \in [Schedules -> ScheduleRows]
      /\ \A t \in Schedules \ {s} : end.schedules[t] = state.schedules[t]
      /\ end.schedules[s] = [state.schedules[s] EXCEPT !.status = status]
  BY <1>3, <1>4, <1>5, <1>6
<1>8. PICK tag \in Tags : tag = state.tags[i]
  BY <1>2, <1>3
<1>9. [tag EXCEPT !.price = new.price, !.was = new.was] \in Tags
  BY <1>2 DEF Tags
<1>10. [state.tags EXCEPT ![i].price = new.price, ![i].was = new.was] \in [Items -> Tags]
  <2>1. [state.tags EXCEPT ![i].price = new.price, ![i].was = new.was]
           = [state.tags EXCEPT ![i] = [tag EXCEPT !.price = new.price, !.was = new.was]]
    BY <1>2, <1>3, <1>8 DEF Tags
  <2> QED
    BY <1>3, <1>9, <2>1
<1>11. PriceRow(i, [state.tags[i] EXCEPT !.was = Null], new, s) \in PriceRows
  BY <1>2, <1>8 DEF PriceRow, PriceRows, PriceTags, Price, Tags
<1>12. Append(state.log, PriceRow(i, [state.tags[i] EXCEPT !.was = Null], new, s)) \in Seq(PriceRows)
  BY <1>3, <1>11
<1>13. end.tags \in [Items -> Tags] /\ end.log \in Seq(PriceRows)
  BY <1>2, <1>3, <1>10, <1>12 DEF Refuses, Applies
<1>14. end \in DecisionStates
  BY <1>2, <1>7, <1>13 DEF DecisionStates
<1> QED
  BY <1>7, <1>14

\* The history tells of a product that was not written from a stale read.
LEMMA ProductsAreTold ==
  ASSUME JobsAreMeant, NEW shown, NEW log, NEW schedules, Explains(shown, log, schedules),
         NEW i \in Items, i \notin raced, i \in Products
  PROVE  Tells(log, i, Price(Fresh), Price(shown[i]))
<1>1. \A c \in Clerks : ~PriceDue(c, i)
  BY CatalogueAssumption DEF JobsAreMeant, PriceDue, Unlogged
<1> QED
  BY <1>1 DEF Explains

\* A conflict leaves the histories.
LEMMA ConflictExplains ==
  ASSUME Types, NEW shown, NEW log \in Seq(PriceRows), NEW schedules, NEW decided,
         Explains(shown, log, schedules),
         \A t \in Schedules : schedules[t].status = "applied" => decided[t] = schedules[t]
  PROVE  Explains(shown, log, decided)
<1>1. raced \subseteq raced
  OBVIOUS
<1>2. Extends(log, log) /\ \A k \in DOMAIN log : k > Len(log) => log[k].by \notin Schedules
  BY Untouched
<1>4. AppliedIn(log, schedules) /\ NoneStack(log, schedules, raced)
  BY DEF Explains
<1>5. AppliedIn(log, decided) /\ NoneStack(log, decided, raced)
  BY <1>1, <1>2, <1>4, StackKept
<1> QED
  BY <1>5 DEF Explains

Repriced(shown, i, new) == [shown EXCEPT ![i].price = new.price, ![i].was = new.was]

\* A schedule that is applied gave way to nothing: its product still costs what it did.
LEMMA AppliedExplains ==
  ASSUME Types, JobsAreMeant, NEW shown \in [Items -> Tags], NEW log \in Seq(PriceRows),
         NEW schedules, NEW decided, Explains(shown, log, schedules),
         NEW s \in Schedules, NEW i \in Products, NEW new \in Tags, NEW row \in PriceRows,
         row.item = i, row.new = Price(new), row.by = s,
         \A t \in Schedules : schedules[t].status = "applied" => decided[t] = schedules[t],
         decided[s].status = "applied", decided[s].item = i,
         shown[i].price = decided[s].expected
  PROVE  Explains(Repriced(shown, i, new), Append(log, row), decided)
<1>0. PICK far : far = raced
  OBVIOUS
<1>1. i \in Items /\ prices \in Seq(PriceRows)
  BY DEF Types, Items
<1> DEFINE longer == Append(log, row)
<1>2. /\ longer \in Seq(PriceRows) /\ Len(longer) = Len(log) + 1 /\ Extends(longer, log)
      /\ DOMAIN longer = 1..(Len(log) + 1) /\ DOMAIN log = 1..Len(log) /\ Len(log) \in Nat
      /\ longer[Len(log) + 1] = row
  BY Appended
<1> HIDE DEF longer
<1>4. AppliedIn(log, schedules) /\ NoneStack(log, schedules, far) /\ Extends(log, prices)
  BY <1>0 DEF Explains
<1>6. ASSUME NEW k \in DOMAIN longer
      PROVE  \/ k \in DOMAIN log /\ longer[k] = log[k]
             \/ k = Len(log) + 1 /\ longer[k] = row
  BY <1>2, <1>6 DEF Extends
<1>7. AppliedIn(longer, decided)
  BY <1>4, <1>6 DEF AppliedIn
<1>8. NoneStack(longer, decided, far)
  <2> SUFFICES ASSUME NEW j \in DOMAIN longer, NEW k \in DOMAIN longer, j < k,
                      {longer[j].by, longer[k].by} \subseteq Schedules
               PROVE  GaveWay(longer, decided, j, k, far)
    BY DEF NoneStack
  <2>1. j \in DOMAIN log /\ longer[j] = log[j]
    BY <1>2 DEF Extends
  <2>2. CASE k \in DOMAIN log /\ longer[k] = log[k]
    <3>1. {log[j].by, log[k].by} \subseteq Schedules
      BY <2>1, <2>2
    <3>2. GaveWay(log, schedules, j, k, far)
      BY <1>4, <2>1, <2>2, <3>1 DEF NoneStack
    <3>3. far \subseteq far
      OBVIOUS
    <3> QED
      BY <1>2, <1>4, <2>1, <2>2, <3>1, <3>2, <3>3, StillGivesWay
  <2>3. CASE k = Len(log) + 1 /\ longer[k] = row
    <3> SUFFICES ASSUME decided[longer[j].by].item = i, i \notin raced
                 PROVE  \E l \in j..(k-1) :
                           /\ longer[l].item = i
                           /\ longer[l].new.price = decided[s].expected
      BY <1>0, <2>3 DEF GaveWay
    <3>1. log[j].item = i
      BY <1>7, <2>1 DEF AppliedIn
    <3>2. Tells(log, i, Price(Fresh), Price(shown[i]))
      BY <1>1, ProductsAreTold
    <3>3. PICK l \in DOMAIN log : j <= l /\ log[l].item = i /\ log[l].new = Price(shown[i])
      BY <2>1, <3>1, <3>2, TellsByARow
    <3>4. longer[l] = log[l] /\ l \in j..(k-1)
      BY <1>2, <2>1, <2>3, <3>3 DEF Extends
    <3> QED
      BY <3>3, <3>4 DEF Price
  <2> QED
    BY <1>6, <2>2, <2>3
<1>9. Extends(longer, prices) /\ \A k \in DOMAIN longer : k > Len(prices) => longer[k].by \in Schedules
  <2>1. \A k \in DOMAIN log : k > Len(prices) => log[k].by \in Schedules
    BY DEF Explains
  <2>2. DOMAIN prices = 1..Len(prices) /\ Len(prices) \in Nat
    BY <1>1
  <2> QED
    BY <1>2, <1>4, <1>6, <2>1, <2>2 DEF Extends
<1> DEFINE after == Repriced(shown, i, new)
<1>10. /\ \A m \in Items \ {i} : after[m] = shown[m]
       /\ Price(after[i]) = Price(new) /\ after[i].cost = shown[i].cost
  <2>1. PICK tag \in Tags : tag = shown[i]
    BY <1>1
  <2>2. tag = [price |-> tag.price, was |-> tag.was, cost |-> tag.cost]
    BY DEF Tags
  <2>3. after[i] = [price |-> new.price, was |-> new.was, cost |-> tag.cost]
    BY <1>1, <2>1, <2>2 DEF Repriced
  <2>4. \A m \in Items \ {i} : after[m] = shown[m]
    BY <1>1 DEF Repriced
  <2> QED
    BY <2>1, <2>3, <2>4 DEF Price
<1> HIDE DEF after
<1>11. ASSUME NEW m \in Items \ raced
       PROVE  \/ Tells(longer, m, Price(Fresh), Price(after[m]))
              \/ \E c \in Clerks : PriceDue(c, m)
  <2>1. CASE m = i
    <3>1. \A first, value : Tells(Append(log, row), i, first, value) <=> value = row.new
      BY ONLY log \in Seq(PriceRows), row \in PriceRows, row.item = i, RowIsTold
    <3> QED
      BY <1>10, <2>1, <3>1 DEF longer
  <2>2. CASE m # i
    <3>1. longer = log \/ longer = Append(log, row)
      BY DEF longer
    <3>2. PICK value : value = Price(shown[m])
      OBVIOUS
    <3>3. row.item # m
      BY <2>2
    <3>4. Tells(longer, m, Price(Fresh), value) <=> Tells(log, m, Price(Fresh), value)
      BY <3>1, <3>3, RowLeaves
    <3> QED
      BY <1>10, <2>2, <3>2, <3>4 DEF Explains
  <2> QED
    BY <2>1, <2>2
<1>12. \A m \in Items : after[m].cost = tags[m].cost
  BY <1>10 DEF Explains
<1>13. Explains(after, longer, decided)
  BY <1>0, <1>7, <1>8, <1>9, <1>11, <1>12 DEF Explains
<1> QED
  BY <1>13 DEF after, longer

\* The schedules of S are decided, and no other; if it is only products' that were
\* applied, the histories still tell.
DecidedIn(S, end) ==
    /\ end \in DecisionStates
    /\ \A t \in Schedules \ S : end.schedules[t] = schedule[t]
    /\ \A t \in S : \E status \in {"applied", "conflict"} :
          end.schedules[t] = [schedule[t] EXCEPT !.status = status]
    /\ (\A t \in S : end.schedules[t].status = "applied" => schedule[t].item \in Products) =>
          Explains(end.tags, end.log, end.schedules)

LEMMA OneDecision ==
  ASSUME Types, JobsAreMeant, NEW S \in SUBSET Schedules, NEW s \in Schedules, s \notin S,
         schedule[s].status = "pending", NEW state, DecidedIn(S, state)
  PROVE  DecidedIn(S \cup {s}, Decide(state, s))
<1>1. /\ state \in DecisionStates /\ state.schedules[s] = schedule[s]
      /\ state.schedules[s].status = "pending"
  BY DEF DecidedIn
<1>2. \E i, new : Decides(state, s, i, new, Decide(state, s))
  BY <1>1, DecideIs
<1>3. PICK end : end = Decide(state, s)
  OBVIOUS
<1>4. PICK i, new : Decides(state, s, i, new, end)
  BY <1>2, <1>3
<1>5. /\ end \in DecisionStates
      /\ \A t \in Schedules \ {s} : end.schedules[t] = state.schedules[t]
      /\ \E status \in {"applied", "conflict"} :
            end.schedules[s] = [state.schedules[s] EXCEPT !.status = status]
  BY <1>1, <1>4, DecideTypes
<1>6. /\ \A t \in Schedules \ (S \cup {s}) : end.schedules[t] = schedule[t]
      /\ \A t \in S \cup {s} : \E status \in {"applied", "conflict"} :
            end.schedules[t] = [schedule[t] EXCEPT !.status = status]
  BY <1>1, <1>5 DEF DecidedIn
<1>7. ASSUME \A t \in S \cup {s} : end.schedules[t].status = "applied" => schedule[t].item \in Products
      PROVE  Explains(end.tags, end.log, end.schedules)
  <2>1. \A t \in S : state.schedules[t].status = "applied" => schedule[t].item \in Products
    BY <1>5, <1>7
  <2>2. Explains(state.tags, state.log, state.schedules)
    BY <2>1 DEF DecidedIn
  <2>3. /\ state.tags \in [Items -> Tags] /\ state.log \in Seq(PriceRows)
        /\ state.schedules \in [Schedules -> ScheduleRows]
    BY <1>1 DEF DecisionStates
  <2>4. \A t \in Schedules : state.schedules[t].status = "applied" => end.schedules[t] = state.schedules[t]
    BY <1>1, <1>5
  <2>5. PICK shown, log, before, after :
          /\ shown = state.tags /\ log = state.log
          /\ before = state.schedules /\ after = end.schedules
    OBVIOUS
  <2>6. /\ shown \in [Items -> Tags] /\ log \in Seq(PriceRows) /\ Explains(shown, log, before)
        /\ \A t \in Schedules : before[t].status = "applied" => after[t] = before[t]
    BY <2>2, <2>3, <2>4, <2>5
  <2>7. CASE Refuses(state, s, end)
    <3>1. Explains(shown, log, after)
      BY <2>6, ConflictExplains
    <3> QED
      BY <2>5, <2>7, <3>1 DEF Refuses
  <2>8. CASE Applies(state, s, i, new, end)
    <3>1. PICK row : row = PriceRow(i, [shown[i] EXCEPT !.was = Null], new, s)
      OBVIOUS
    <3>2. i \in Items /\ new \in Tags /\ i = schedule[s].item
      BY <1>1, <1>4 DEF Decides
    <3>3. row \in PriceRows /\ row.item = i /\ row.new = Price(new) /\ row.by = s
      <4>1. PICK tag \in Tags : tag = shown[i]
        BY <2>6, <3>2
      <4> QED
        BY <3>1, <3>2, <4>1 DEF PriceRow, PriceRows, PriceTags, Price, Tags
    <3>4. PICK due \in ScheduleRows : due = before[s]
      BY <2>3, <2>5
    <3>5. after[s] = [due EXCEPT !.status = "applied"] /\ due.status = "pending" /\ due.item = i
      BY <1>1, <2>3, <2>5, <2>8, <3>2, <3>4 DEF Applies
    <3>6. after[s].status = "applied" /\ after[s].item = i /\ after[s].expected = due.expected
      BY <3>5 DEF ScheduleRows
    <3>7. i \in Products
      BY <1>7, <2>5, <3>2, <3>6
    <3>8. shown[i].price = after[s].expected
      BY <2>5, <2>8, <3>4, <3>6 DEF Applies
    <3>9. Explains(Repriced(shown, i, new), Append(log, row), after)
      <4>1. shown \in [Items -> Tags] /\ log \in Seq(PriceRows) /\ Explains(shown, log, before)
        BY <2>6
      <4>2. \A t \in Schedules : before[t].status = "applied" => after[t] = before[t]
        BY <2>6
      <4>3. new \in Tags /\ row \in PriceRows /\ row.item = i /\ row.new = Price(new) /\ row.by = s
        BY <3>2, <3>3
      <4> QED
        BY ONLY Types, JobsAreMeant, s \in Schedules, <4>1, <4>2, <4>3, <3>6, <3>7, <3>8,
                AppliedExplains
    <3> QED
      BY <2>5, <2>8, <3>1, <3>9 DEF Applies, Repriced
  <2> QED
    BY <1>4, <2>7, <2>8 DEF Decides
<1> QED
  BY <1>3, <1>5, <1>6, <1>7 DEF DecidedIn

\* A batch decides in turn, so that the facts about folds apply.
LEMMA DecideAllIsFold ==
  ASSUME NEW S
  PROVE  DecideAll(S) = InTurn!Fold(0, [tags |-> tags, log |-> prices, schedules |-> schedule], S)
BY DEF DecideAll, MapThenFoldSet, InTurn!Fold, InTurn!MapThenFoldSet, DecideNext, Itself, Greatest

LEMMA BatchDecides ==
  ASSUME IInv, NEW batch \in SUBSET Schedules, \A s \in batch : schedule[s].status = "pending"
  PROVE  DecidedIn(batch, DecideAll(batch))
<1>1. PICK start : start = [tags |-> tags, log |-> prices, schedules |-> schedule]
  OBVIOUS
<1> DEFINE After(S) == InTurn!Fold(0, start, S)
           T == {S \in SUBSET batch : ~DecidedIn(S, After(S))}
<1>2. IsFiniteSet(batch)
  <2>1. IsFiniteSet(1..LastSchedule)
    BY FS_Interval, CatalogueAssumption
  <2> QED
    BY <2>1, FS_Subset DEF Schedules
<1>3. T = {}
  <2> SUFFICES ASSUME T # {} PROVE FALSE
    OBVIOUS
  <2>1. T \subseteq SUBSET batch
    OBVIOUS
  <2>2. PICK S \in T : \A t \in T : t \subseteq S => t = S
    <3> HIDE DEF T
    <3>1. InTurn!IsFiniteSet(batch)
      BY <1>2 DEF IsFiniteSet, InTurn!IsFiniteSet
    <3> QED
      BY <2>1, <3>1, InTurn!SmallestSubset
  <2>3. DecidedIn({}, After({}))
    <3>1. After({}) = start
      BY InTurn!FoldEmpty
    <3> HIDE DEF After
    <3>2. start \in DecisionStates
      BY <1>1 DEF IInv, Types, DecisionStates
    <3>3. AppliedIn(prices, schedule) /\ NoneStack(prices, schedule, raced)
      BY StackIs DEF IInv
    <3>4. Extends(prices, prices) /\ \A k \in DOMAIN prices : ~(k > Len(prices))
      BY Untouched DEF IInv, Types
    <3>5. \A i \in Items \ raced : \/ Tells(prices, i, Price(Fresh), Price(tags[i]))
                                   \/ \E c \in Clerks : PriceDue(c, i)
      BY DEF IInv, ItemsTold, PriceTold, PriceDue
    <3>6. Explains(tags, prices, schedule)
      BY <3>3, <3>4, <3>5 DEF Explains
    <3> QED
      BY <1>1, <3>1, <3>2, <3>6 DEF DecidedIn
  <2>4. S # {} /\ S \in SUBSET batch /\ ~DecidedIn(S, After(S))
    BY <2>3
  <2> DEFINE s == Greatest(S)  R == S \ {s}
  <2>5. \A U \in SUBSET batch : U # {} => Max(U) \in U
    <3>1. LastSchedule \in Nat /\ \A U \in SUBSET batch : U \in SUBSET (1..LastSchedule)
      BY CatalogueAssumption DEF Schedules
    <3> QED
      BY <3>1, GreatestIsMax
  <2>6. s \in S /\ InTurn!Picks(S) /\ InTurn!IsFiniteSet(S)
    <3>1. InTurn!Picks(S)
      BY <2>4, <2>5 DEF InTurn!Picks, Greatest
    <3>2. IsFiniteSet(S)
      BY <1>2, <2>4, FS_Subset
    <3> QED
      BY <2>4, <2>5, <3>1, <3>2 DEF Greatest, IsFiniteSet, InTurn!IsFiniteSet
  <2>7. After(S) = Decide(After(R), s)
    <3>1. After(S) = DecideNext(0, Itself(0, Greatest(S)), InTurn!Fold(0, start, S \ {Greatest(S)}))
      BY <2>4, <2>6, InTurn!FoldUnfold
    <3> QED
      BY <3>1 DEF DecideNext, Itself
  <2> HIDE DEF s
  <2>8. R \in SUBSET batch /\ R \cup {s} = S /\ s \notin R /\ s \in batch /\ s \in Schedules
    BY <2>4, <2>6
  <2>9. DecidedIn(R, After(R))
    BY <2>2, <2>6, <2>8
  <2> HIDE DEF After
  <2>10. R \in SUBSET Schedules /\ schedule[s].status = "pending" /\ Types /\ JobsAreMeant
    BY <2>8 DEF IInv
  <2>11. DecidedIn(R \cup {s}, Decide(After(R), s))
    BY <2>8, <2>9, <2>10, OneDecision
  <2> QED
    BY <2>4, <2>7, <2>8, <2>11
<1>4. DecidedIn(batch, After(batch))
  BY <1>3
<1> HIDE DEF After
<1> QED
  BY <1>1, <1>4, DecideAllIsFold DEF After

LEMMA ApplySchedulesKeeps ==
  ASSUME IInv, NEW r \in Runs, ApplySchedules(r)
  PROVE  IInv'
<1>1. run \in [Runs -> SUBSET Schedules] /\ Types /\ LocksHold
  BY DEF IInv, Types
<1>2. PICK end : end = DecideAll(run[r])
  OBVIOUS
<1>3. /\ \A s \in run[r] : end.schedules[s].status = "applied" => schedule[s].item \in Products
      /\ tags' = end.tags /\ prices' = end.log /\ schedule' = end.schedules
      /\ alone' = [b \in Bulks |-> FALSE] /\ run' = [run EXCEPT ![r] = {}]
      /\ UNCHANGED <<costs, job, bulk, raced>>
  BY <1>2 DEF ApplySchedules
<1>4. DecidedIn(run[r], end)
  <2>1. run[r] \in SUBSET Schedules /\ \A s \in run[r] : schedule[s].status = "pending"
    BY <1>1 DEF LocksHold
  <2> QED
    BY <1>2, <2>1, BatchDecides
<1>5. /\ end \in DecisionStates
      /\ \A s \in Schedules \ run[r] : schedule'[s] = schedule[s]
  BY <1>3, <1>4 DEF DecidedIn
<1>6. Explains(tags', prices', schedule')
  BY <1>3, <1>4 DEF DecidedIn
<1>7. Types'
  <2>1. /\ tags' \in [Items -> Tags] /\ prices' \in Seq(PriceRows)
        /\ schedule' \in [Schedules -> ScheduleRows]
    BY <1>3, <1>5 DEF DecisionStates
  <2>2. alone' \in [Bulks -> BOOLEAN] /\ run' \in [Runs -> SUBSET Schedules]
    BY <1>1, <1>3
  <2> QED
    BY <1>1, <1>3, <2>1, <2>2 DEF Types
<1>8. ItemsTold'
  <2> SUFFICES ASSUME NEW i \in Items, i \notin raced'
               PROVE  PriceTold(i)' /\ CostTold(i)'
    BY DEF ItemsTold
  <2>1. i \in Items \ raced /\ CostTold(i)
    BY <1>3 DEF IInv, ItemsTold
  <2>2. PriceTold(i)'
    BY <1>3, <1>6, <2>1 DEF Explains, PriceTold, PriceDue, Unlogged
  <2>3. tags'[i].cost = tags[i].cost
    BY <1>6 DEF Explains
  <2>4. CostTold(i)'
    BY <1>3, <2>1, <2>3 DEF CostTold, Unlogged
  <2> QED
    BY <2>2, <2>4
<1>9. JobsAreMeant'
  BY <1>3 DEF IInv, JobsAreMeant
<1>10. LocksHold'
  <2>1. run'[r] = {} /\ \A q \in Runs : q # r => run'[q] = run[q]
    BY <1>1, <1>3
  <2>2. \A q \in Runs : q # r => run[q] \cap run[r] = {} /\ run[q] \in SUBSET Schedules
    BY <1>1 DEF LocksHold
  <2> QED
    BY <1>1, <1>5, <2>1, <2>2 DEF LocksHold
<1>11. AppliedRows' /\ SchedulesDoNotStack'
  <2>1. AppliedIn(prices', schedule') /\ NoneStack(prices', schedule', raced')
    BY <1>3, <1>6 DEF Explains
  <2> QED
    BY <2>1, StackIsNext
<1>12. ASSUME NEW b \in Bulks
       PROVE  BatchInv(b)'
  <2>1. BatchInv(b) /\ bulk'[b] = bulk[b] /\ ~alone'[b]
    BY <1>3 DEF IInv
  <2>2. LeavesOut(prices', prices, b)
    <3>1. b \notin Schedules
      BY CatalogueAssumption
    <3> QED
      BY <1>6, <3>1 DEF Explains, LeavesOut
  <2>3. LeavesOut(costs', costs, b)
    BY <1>1, <1>3, Untouched DEF Types
  <2> QED
    BY <1>1, <1>7, <2>1, <2>2, <2>3, BatchKept
<1> QED
  BY <1>7, <1>8, <1>9, <1>10, <1>11, <1>12 DEF IInv
-----------------------------------------------------------------------------
(* The invariant *)
LEMMA InitKeeps ==
  ASSUME Init
  PROVE  IInv
<1>1. /\ tags = [i \in Items |-> Fresh] /\ prices = <<>> /\ costs = <<>>
      /\ job = [c \in Clerks |-> Idle]
      /\ bulk = [b \in Bulks |-> [status |-> "none", kind |-> "price", rolls |-> 0,
                                  before |-> tags, rows |-> {}]]
      /\ schedule = [s \in Schedules |-> [status |-> "none"]]
      /\ run = [r \in Runs |-> {}] /\ raced = {} /\ alone = [b \in Bulks |-> FALSE]
  BY DEF Init
<1>2. DOMAIN prices = {} /\ DOMAIN costs = {}
  BY <1>1
<1>3. Types
  <2>1. Fresh \in Tags
    BY CatalogueAssumption DEF Fresh, Tags
  <2>2. tags \in [Items -> Tags]
    BY <1>1, <2>1
  <2>3. [status |-> "none", kind |-> "price", rolls |-> 0, before |-> tags, rows |-> {}] \in Batches
    BY <2>2 DEF Batches
  <2>4. bulk \in [Bulks -> Batches]
    BY <1>1, <2>3
  <2>5. job \in [Clerks -> Jobs] /\ schedule \in [Schedules -> ScheduleRows]
    BY <1>1 DEF Jobs, ScheduleRows
  <2>6. run \in [Runs -> SUBSET Schedules] /\ alone \in [Bulks -> BOOLEAN] /\ raced \subseteq Items
    BY <1>1
  <2>7. prices \in Seq(PriceRows) /\ costs \in Seq(CostRows)
    BY <1>1
  <2> QED
    BY <2>2, <2>4, <2>5, <2>6, <2>7 DEF Types
<1>4. JobsAreMeant
  BY <1>1 DEF JobsAreMeant, Idle
<1>5. ItemsTold
  <2>1. ASSUME NEW i, NEW first
        PROVE  Tells(prices, i, first, first) /\ Tells(costs, i, first, first)
    BY <1>2 DEF Tells, RowsFor
  <2> QED
    BY <1>1, <2>1 DEF ItemsTold, PriceTold, CostTold
<1>6. LocksHold /\ AppliedRows /\ SchedulesDoNotStack
  BY <1>1, <1>2 DEF LocksHold, AppliedRows, SchedulesDoNotStack
<1>7. ASSUME NEW b \in Bulks
      PROVE  BatchInv(b)
  <2>1. bulk[b].status = "none" /\ bulk[b].rolls = 0 /\ bulk[b].rows = {} /\ ~alone[b]
    BY <1>1
  <2> QED
    BY <1>2, <2>1 DEF BatchInv, Unbegun
<1> QED
  BY <1>3, <1>4, <1>5, <1>6, <1>7 DEF IInv

LEMMA EditingKeeps ==
  ASSUME IInv, Editing
  PROVE  IInv'
<1>1. PICK c \in Clerks :
        \/ \E i \in Items, new \in Edits : Open(c, "edit", i, new)
        \/ \E i \in Products : OpenOffer(c, i)
        \/ SaveProduct(c) \/ EndOffer(c) \/ SaveVariant(c) \/ LogVariant(c)
        \/ \E i \in Items : OpenSchedule(c, i)
        \/ \E s \in Schedules, new \in Edits : CreateSchedule(c, s, new)
        \/ StopClerk(c)
  BY DEF Editing
<1>2. CASE \E i \in Items, new \in Edits : Open(c, "edit", i, new)
  <2>1. PICK i \in Items, new \in Edits : Open(c, "edit", i, new)
    BY <1>2
  <2>2. new \in Tags
    BY CatalogueAssumption DEF Tags
  <2> QED
    BY <2>1, <2>2, OpenKeeps
<1>3. CASE \E i \in Products : OpenOffer(c, i)
  <2>1. PICK i \in Products : OpenOffer(c, i)
    BY <1>3
  <2>2. PICK tag \in Tags : tag = tags[i] /\ i \in Items
    BY DEF IInv, Types, Items
  <2>3. PICK new : new = [tag EXCEPT !.was = Null]
    OBVIOUS
  <2>4. new \in Tags /\ new = [tags[i] EXCEPT !.was = Null]
    BY <2>2, <2>3 DEF Tags
  <2>5. Open(c, "offer", i, new)
    BY <2>1, <2>4 DEF OpenOffer
  <2> QED
    BY <2>2, <2>4, <2>5, OpenKeeps
<1>4. CASE SaveProduct(c) \/ EndOffer(c) \/ SaveVariant(c) \/ LogVariant(c) \/ StopClerk(c)
  BY <1>4, SaveProductKeeps, EndOfferKeeps, SaveVariantKeeps, LogVariantKeeps, StopClerkKeeps
<1>5. CASE \E i \in Items : OpenSchedule(c, i)
  BY <1>5, OpenScheduleKeeps
<1>6. CASE \E s \in Schedules, new \in Edits : CreateSchedule(c, s, new)
  BY <1>6, CreateScheduleKeeps
<1> QED
  BY <1>1, <1>2, <1>3, <1>4, <1>5, <1>6

LEMMA InBulkKeeps ==
  ASSUME IInv, InBulk
  PROVE  IInv'
<1>1. PICK b \in Bulks :
        \/ \E u \in Uploads, chosen \in SUBSET Items : Confirm(b, u, chosen)
        \/ \E r \in bulk[b].rows : ApplyRow(b, r) \/ ApplyCost(b, r)
        \/ StopConfirming(b) \/ Rollback(b)
  BY DEF InBulk
<1>2. CASE \E u \in Uploads, chosen \in SUBSET Items : Confirm(b, u, chosen)
  BY <1>2, ConfirmKeeps
<1>3. CASE \E r \in bulk[b].rows : ApplyRow(b, r) \/ ApplyCost(b, r)
  BY <1>3, ApplyRowKeeps, ApplyCostKeeps
<1>4. CASE StopConfirming(b) \/ Rollback(b)
  BY <1>4, StopConfirmingKeeps, RollbackKeeps
<1> QED
  BY <1>1, <1>2, <1>3, <1>4

LEMMA ScheduledKeeps ==
  ASSUME IInv, Scheduled
  PROVE  IInv'
<1>1. ASSUME NEW s \in Schedules, CancelSchedule(s) PROVE IInv'
  BY <1>1, CancelScheduleKeeps
<1>2. ASSUME NEW r \in Runs, Select(r) PROVE IInv'
  BY <1>2, SelectKeeps
<1>3. ASSUME NEW r \in Runs, ApplySchedules(r) PROVE IInv'
  BY <1>3, ApplySchedulesKeeps
<1>4. ASSUME NEW r \in Runs, BatchFails(r) \/ StopRun(r) PROVE IInv'
  BY <1>4, LetGoKeeps DEF BatchFails, StopRun
<1>5. ASSUME Tick PROVE IInv'
  BY <1>5, IdleKeeps DEF Tick
<1> QED
  BY <1>1, <1>2, <1>3, <1>4, <1>5 DEF Scheduled

LEMMA NextKeeps ==
  ASSUME IInv, [Next]_vars
  PROVE  IInv'
<1>1. CASE Next
  BY <1>1, EditingKeeps, InBulkKeeps, ScheduledKeeps DEF Next
<1>2. CASE UNCHANGED vars
  BY <1>2, IdleKeeps DEF vars
<1> QED
  BY <1>1, <1>2

\* Whatever forms, files, rollbacks and the job do and in whatever order, the
\* histories tell of every item, or a variant's request is about to log its own; the
\* job's runs share no schedule; what a batch read and wrote stays known to it.
THEOREM CatalogueInvariant == Spec => []IInv
<1>1. Init => IInv
  BY InitKeeps
<1>2. IInv /\ [Next]_vars => IInv'
  BY NextKeeps
<1> QED
  BY <1>1, <1>2, PTL DEF Spec

\* For any number of items, clerks, batches, schedules and runs, what an item costs
\* is what its histories say, unless somebody wrote from a stale read; and of prices
\* scheduled against one price no second is applied over the first.
THEOREM PricesAreExplained == Spec => []PricesExplained
<1>1. IInv => TypeOK
  <2> SUFFICES ASSUME IInv PROVE TypeOK
    OBVIOUS
  <2>1. \A row \in ToSet(prices) : row.item \in Items /\ row.by \in Clerks \cup Bulks \cup Schedules
    <3>1. \A k \in DOMAIN prices : prices[k] \in PriceRows
      BY DEF IInv, Types
    <3> QED
      BY <3>1 DEF ToSet, PriceRows
  <2>2. \A row \in ToSet(costs) : {row.old, row.new} \subseteq Costs
    <3>1. \A k \in DOMAIN costs : costs[k] \in CostRows
      BY DEF IInv, Types
    <3> QED
      BY <3>1 DEF ToSet, CostRows
  <2>3. ASSUME NEW s \in Schedules
        PROVE  schedule[s].status \in Statuses
    <3>1. schedule[s] \in ScheduleRows
      BY DEF IInv, Types
    <3> QED
      BY <3>1 DEF ScheduleRows, Statuses
  <2>4. \A r \in Runs : \A s \in run[r] : schedule[s].status = "pending"
    BY DEF IInv, LocksHold
  <2> QED
    BY <2>1, <2>2, <2>3, <2>4 DEF TypeOK, IInv, Types
<1>2. IInv => HistoryTells
  BY DEF IInv, ItemsTold, PriceTold, CostTold, Unlogged, HistoryTells
<1>3. IInv => PricesExplained
  BY <1>1, <1>2 DEF PricesExplained, IInv
<1> QED
  BY <1>3, CatalogueInvariant, PTL

\* A rollback of a batch that nobody came between and that no conflict held up takes
\* back all the batch did, of as many items as it was for, and nothing else.
THEOREM BatchesAreUndone == Spec => []BatchesUndo
<1>1. IInv => BatchesUndo
  BY DEF IInv, BatchInv, BatchesUndo
<1> QED
  BY <1>1, CatalogueInvariant, PTL

LEMMA FinalStays ==
  ASSUME IInv, Next, NEW s \in Schedules,
         schedule[s].status \in {"applied", "cancelled", "conflict"}
  PROVE  schedule'[s].status = schedule[s].status
<1>0. schedule \in [Schedules -> ScheduleRows]
  BY DEF IInv, Types
<1>1. ASSUME NEW c \in Clerks, NEW t \in Schedules, NEW new \in Edits, CreateSchedule(c, t, new)
      PROVE  schedule'[s] = schedule[s]
  BY <1>0, <1>1 DEF CreateSchedule
<1>2. ASSUME NEW t \in Schedules, CancelSchedule(t)
      PROVE  schedule'[s] = schedule[s]
  BY <1>0, <1>2 DEF CancelSchedule
<1>3. ASSUME NEW r \in Runs, ApplySchedules(r)
      PROVE  schedule'[s] = schedule[s]
  <2>1. run[r] \in SUBSET Schedules /\ \A t \in run[r] : schedule[t].status = "pending"
    BY DEF IInv, Types, LocksHold
  <2>2. DecidedIn(run[r], DecideAll(run[r]))
    BY <2>1, BatchDecides
  <2>3. schedule' = DecideAll(run[r]).schedules
    BY <1>3 DEF ApplySchedules
  <2> QED
    BY <2>1, <2>2, <2>3 DEF DecidedIn
<1>4. CASE Editing
  BY <1>1, <1>4 DEF Editing, Open, OpenOffer, SaveProduct, EndOffer, SaveVariant, LogVariant,
                   OpenSchedule, StopClerk
<1>5. CASE InBulk
  <2>1. ASSUME NEW b \in Bulks, NEW u \in Uploads, NEW chosen \in SUBSET Items,
               Confirm(b, u, chosen)
        PROVE  schedule' = schedule
    BY ONLY <2>1 DEF Confirm
  <2>2. ASSUME NEW b \in Bulks, NEW r \in bulk[b].rows, ApplyRow(b, r) \/ ApplyCost(b, r)
        PROVE  schedule' = schedule
    BY ONLY <2>2 DEF ApplyRow, ApplyRowIf, ApplyCost, Applied
  <2>3. ASSUME NEW b \in Bulks, StopConfirming(b) \/ Rollback(b)
        PROVE  schedule' = schedule
    BY ONLY <2>3 DEF StopConfirming, Rollback
  <2> QED
    BY ONLY <1>5, <2>1, <2>2, <2>3 DEF InBulk
<1>6. CASE Scheduled
  BY <1>2, <1>3, <1>6 DEF Scheduled, Select, SelectAmong, BatchFails, StopRun, Tick
<1> QED
  BY <1>4, <1>5, <1>6 DEF Next

\* No request, file or run changes what became of a schedule: a cancelled one is
\* never applied, and what one run decided no other decides again.
THEOREM SchedulesStayFinal == Spec => SchedulesAreFinal
<1>1. IInv /\ [Next]_vars =>
        [\A s \in Schedules :
            schedule[s].status \in {"applied", "cancelled", "conflict"} =>
                schedule'[s].status = schedule[s].status]_vars
  BY FinalStays
<1> QED
  BY <1>1, CatalogueInvariant, PTL DEF Spec, SchedulesAreFinal
=============================================================================
