---------------------------- MODULE L2OrderBook -----------------------------
(***************************************************************************)
(* L2OrderBook over two TickLadders: whole snapshots, which are built      *)
(* aside and swapped in, and incremental batches, which are applied in     *)
(* place and clear the book where a snapshot burst begins.  Every method   *)
(* holds the mutex, so each is one step.                                   *)
(*                                                                         *)
(* A price is a number of 1/PriceScale ticks, so that rounding to a tick   *)
(* is not the identity.  The ratios of a market view (micro price,         *)
(* imbalance) are left out.                                                *)
(***************************************************************************)
EXTENDS Integers, Sequences, SequencesExt, FiniteSetsExt

CONSTANTS
  InitialSlots,    \* kInitialSlots
  GrowthMargin,    \* kGrowthMargin
  PriceScale,      \* how many price units a tick has
  ViewLevels       \* the levels of market_view

ASSUME LadderAssumption ==
  /\ InitialSlots \in Nat \ {0} /\ GrowthMargin \in Nat
  /\ PriceScale \in Nat \ {0} /\ ViewLevels \in Nat \ {0}

VARIABLES
  book,       \* the L2OrderBook
  shown,      \* history: what the applied events say of each level
  burst       \* history: the last batch applied was part of a snapshot

bookVars == <<book, shown, burst>>

-----------------------------------------------------------------------------
(* TickLadder: one side of the book as a flat array indexed by price tick.  The
   range is learned from the prices and grows on demand, and a remembered best slot
   is where every walk starts.  Slot i of the array is element i + 1 of the
   sequence. *)

NoBest == -1

NewLadder(descending) ==
  [descending |-> descending, base |-> 0, quantity |-> <<>>, count |-> 0, best |-> NoBest]

InRange(l, tick) == tick >= l.base /\ tick - l.base < Len(l.quantity)

At(l, tick) == l.quantity[tick - l.base + 1]

(* grow_to_cover: sized around the first price, then grown with a margin; a
   negative base is clamped, and the array is the longer for it. *)
GrowToCover(l, tick) ==
  LET old == Len(l.quantity)
      wanted == IF old = 0 THEN tick - InitialSlots \div 2
                ELSE Min({l.base, tick}) - GrowthMargin
      span == IF old = 0 THEN InitialSlots
              ELSE Max({l.base + old, tick + 1}) + GrowthMargin - wanted
      base == Max({0, wanted})
      slots == IF wanted < 0 THEN span - wanted ELSE span
      offset == l.base - base
  IN  [l EXCEPT !.base = base,
                !.quantity = [i \in 1 .. slots |->
                                IF i - offset \in 1 .. old THEN @[i - offset] ELSE 0]]

(* Ahead: nearer to the other side of the book. *)
Ahead(descending, t, u) == IF descending THEN t > u ELSE t < u

(* The populated ticks a walk from tick `from` meets, each at its rank. *)
Walk(l, from) ==
  LET met == {t \in l.base .. l.base + Len(l.quantity) - 1 :
                At(l, t) # 0 /\ ~Ahead(l.descending, t, from)}
      before(t) == {u \in met : Ahead(l.descending, u, t)}
  IN  [k \in 1 .. Cardinality(met) |->
         CHOOSE t \in met : Cardinality(before(t)) = k - 1]

(* advance_best_hint: the next populated slot behind the emptied best. *)
AdvanceBestHint(l) ==
  LET behind == Walk(l, l.best)
  IN  [l EXCEPT !.best = IF l.count = 0 \/ behind = <<>> THEN NoBest ELSE Head(behind)]

Better(l, tick) == Ahead(l.descending, tick, l.best)

(* Mutant: emptying the best level leaves the hint where it was. *)
SetKeepsHint(l, tick, amount) ==
  LET g == IF InRange(l, tick) THEN l ELSE GrowToCover(l, tick)
      previous == At(g, tick)
      w == [g EXCEPT !.quantity[tick - g.base + 1] = amount]
  IN  CASE previous = amount -> g
        [] amount = 0 -> [w EXCEPT !.count = @ - 1]
        [] amount # 0 /\ previous = 0 ->
             [w EXCEPT !.count = @ + 1,
                       !.best = IF @ = NoBest \/ Better(l, tick) THEN tick ELSE @]
        [] OTHER -> w

(* set: zero removes the level. *)
Set(l, tick, amount) ==
  LET g == IF InRange(l, tick) THEN l ELSE GrowToCover(l, tick)
      previous == At(g, tick)
      w == [g EXCEPT !.quantity[tick - g.base + 1] = amount]
  IN  CASE previous = amount -> g
        [] amount = 0 /\ previous # 0 ->
             LET removed == [w EXCEPT !.count = @ - 1]
             IN  IF l.best = tick THEN AdvanceBestHint(removed) ELSE removed
        [] amount # 0 /\ previous = 0 ->
             [w EXCEPT !.count = @ + 1,
                       !.best = IF @ = NoBest \/ Better(l, tick) THEN tick ELSE @]
        [] OTHER -> w

Clear(l) ==
  [l EXCEPT !.quantity = [i \in DOMAIN @ |-> 0], !.count = 0, !.best = NoBest]

(* top_levels: the touch and the depth of the best `levels` slots, in one walk. *)
TopLevels(l, levels) ==
  IF levels = 0 \/ l.best = NoBest \/ Walk(l, l.best) = <<>>
  THEN [tick |-> NoBest, quantity |-> 0, depth |-> 0]
  ELSE LET walk == Walk(l, l.best)
           near == [k \in 1 .. Min({levels, Len(walk)}) |-> At(l, walk[k])]
       IN  [tick |-> Head(walk), quantity |-> At(l, Head(walk)), depth |-> SumFunction(near)]

(* nth: the index-th best level, counted from 0; none when there are fewer. *)
Nth(l, index) ==
  LET walk == IF l.best = NoBest THEN <<>> ELSE Walk(l, l.best)
  IN  IF index >= l.count \/ index >= Len(walk) THEN <<>>
      ELSE <<[tick |-> walk[index + 1], quantity |-> At(l, walk[index + 1])]>>

-----------------------------------------------------------------------------
(* L2OrderBook. *)

EmptyBook ==
  [symbol |-> "", bids |-> NewLadder(TRUE), asks |-> NewLadder(FALSE),
   timestamp |-> 0, local_timestamp |-> 0, sequence |-> 0,
   snapshot_batch_active |-> FALSE]

(* llround(price / tick_size), for positive prices. *)
ToPriceTick(price) == (2 * price + PriceScale) \div (2 * PriceScale)

-----------------------------------------------------------------------------
(* apply_snapshot *)

(* The levels of one side build a ladder when every one of them is valid and
   the ticks run strictly away from the touch. *)
ValidSide(levels, descending) ==
  /\ \A i \in DOMAIN levels : levels[i].price > 0 /\ levels[i].quantity > 0
  /\ \A i \in DOMAIN levels : ToPriceTick(levels[i].price) > 0
  /\ \A i \in 2 .. Len(levels) :
       LET before == ToPriceTick(levels[i - 1].price)
           tick == ToPriceTick(levels[i].price)
       IN  IF descending THEN tick < before ELSE tick > before

SetAt(l, level) == Set(l, ToPriceTick(level.price), level.quantity)

LadderOf(levels, descending) == FoldLeft(SetAt, NewLadder(descending), levels)

SnapshotAccepted(b, s) ==
  /\ s.symbol # "" /\ s.ts > 0 /\ s.sequence > 0
  /\ b.symbol \in {"", s.symbol}
  /\ b.sequence # 0 => s.sequence > b.sequence
  /\ b.timestamp # 0 => s.ts >= b.timestamp
  /\ ValidSide(s.bids, TRUE) /\ ValidSide(s.asks, FALSE)
  /\ s.bids # <<>> /\ s.asks # <<>>
  /\ LadderOf(s.bids, TRUE).best <= LadderOf(s.asks, FALSE).best

(* A refused snapshot throws and leaves the book as it was. *)
ApplySnapshot(b, s) ==
  IF SnapshotAccepted(b, s)
  THEN [ok |-> TRUE,
        book |-> [b EXCEPT !.symbol = s.symbol, !.bids = LadderOf(s.bids, TRUE),
                           !.asks = LadderOf(s.asks, FALSE), !.timestamp = s.ts,
                           !.local_timestamp = 0, !.sequence = s.sequence]]
  ELSE [ok |-> FALSE, book |-> b]

-----------------------------------------------------------------------------
(* apply_incremental_batch *)

ValidUpdate(batch, u) ==
  /\ u.ts > 0 /\ u.local = batch.local /\ u.side \in {"Buy", "Sell"} /\ u.price > 0
  /\ ToPriceTick(u.price) > 0

BatchAccepted(b, batch) ==
  /\ batch.symbol # "" /\ batch.ts > 0 /\ batch.local > 0
  /\ b.symbol \in {"", batch.symbol}
  /\ b.timestamp # 0 => batch.ts >= b.timestamp
  /\ b.local_timestamp # 0 => batch.local >= b.local_timestamp

(* The book is cleared once, where a burst of snapshot batches begins. *)
Reset(b, batch) ==
  LET cleared == IF batch.snapshot /\ ~b.snapshot_batch_active
                 THEN [b EXCEPT !.bids = Clear(@), !.asks = Clear(@)] ELSE b
  IN  [cleared EXCEPT !.snapshot_batch_active = batch.snapshot]

SetLevel(b, u) ==
  IF u.side = "Buy" THEN [b EXCEPT !.bids = Set(@, ToPriceTick(u.price), u.amount)]
  ELSE [b EXCEPT !.asks = Set(@, ToPriceTick(u.price), u.amount)]

(* An invalid update throws with the updates before it applied. *)
ApplyIncrementalBatch(b, batch) ==
  LET bad == {i \in DOMAIN batch.updates : ~ValidUpdate(batch, batch.updates[i])}
      upto == IF bad = {} THEN Len(batch.updates) ELSE Min(bad) - 1
      applied == FoldLeft(SetLevel, Reset([b EXCEPT !.symbol = batch.symbol], batch),
                          SubSeq(batch.updates, 1, upto))
  IN  CASE batch.updates = <<>> -> [ok |-> TRUE, book |-> b]
        [] batch.updates # <<>> /\ ~BatchAccepted(b, batch) -> [ok |-> FALSE, book |-> b]
        [] OTHER ->
             [ok |-> bad = {},
              book |-> IF bad # {} THEN applied
                       ELSE [applied EXCEPT !.timestamp = batch.ts,
                                            !.local_timestamp = batch.local,
                                            !.sequence = @ + 1]]

-----------------------------------------------------------------------------
(* Views. *)

NoTop == [bid |-> NoBest, bid_size |-> 0, ask |-> NoBest, ask_size |-> 0]

(* top_of_book and market_view: nothing while a side is empty or they cross. *)
MarketView(b, levels) ==
  LET bid == TopLevels(b.bids, levels)
      ask == TopLevels(b.asks, levels)
      hidden == bid.tick = NoBest \/ ask.tick = NoBest \/ bid.tick >= ask.tick
  IN  [top |-> IF hidden THEN NoTop
               ELSE [bid |-> bid.tick, bid_size |-> bid.quantity,
                     ask |-> ask.tick, ask_size |-> ask.quantity],
       bid_depth |-> IF hidden THEN 0 ELSE bid.depth,
       ask_depth |-> IF hidden THEN 0 ELSE ask.depth]

Level(b, side, index) == Nth(IF side = "Buy" THEN b.bids ELSE b.asks, index)

Depth(b, side) == IF side = "Buy" THEN b.bids.count ELSE b.asks.count

-----------------------------------------------------------------------------
(* The steps: a book shows an event, or throws and ends the run. *)

NoLevels == [side \in {"Buy", "Sell"} |-> [tick \in {} |-> 0]]

Put(levels, tick, amount) ==
  [t \in (DOMAIN levels \cup {tick}) |-> IF t = tick THEN amount ELSE levels[t]]

(* What the events say of each level, by their own words: the last amount given
   for its tick since the last snapshot began. *)
Told(levels, u) == [levels EXCEPT ![u.side] = Put(@, ToPriceTick(u.price), u.amount)]

PutAt(levels, v) == Put(levels, ToPriceTick(v.price), v.quantity)

ToldBySnapshot(s) ==
  [d \in {"Buy", "Sell"} |->
     FoldLeft(PutAt, [tick \in {} |-> 0], IF d = "Buy" THEN s.bids ELSE s.asks)]

ToldByBatch(levels, began, batch) ==
  FoldLeft(Told, IF began THEN NoLevels ELSE levels, batch.updates)

BookInit == book = EmptyBook /\ shown = NoLevels /\ burst = FALSE

ShowSnapshot(s) ==
  /\ ApplySnapshot(book, s).ok
  /\ book' = ApplySnapshot(book, s).book
  /\ shown' = ToldBySnapshot(s)
  /\ UNCHANGED burst

ShowBatch(batch) ==
  /\ ApplyIncrementalBatch(book, batch).ok
  /\ book' = ApplyIncrementalBatch(book, batch).book
  /\ IF batch.updates = <<>> THEN UNCHANGED <<shown, burst>>
     ELSE /\ shown' = ToldByBatch(shown, batch.snapshot /\ ~burst, batch)
          /\ burst' = batch.snapshot

(* What the readers and the parsers of a live feed may hand to the book. *)
PriceLevels == Seq([price : Int, quantity : Nat])

Snapshots ==
  [kind : {"depth"}, ts : Int, symbol : STRING, sequence : Int,
   bids : PriceLevels, asks : PriceLevels]

LevelUpdates ==
  Seq([ts : Int, local : Int, snapshot : BOOLEAN, side : STRING, price : Int, amount : Nat])

Batches ==
  [kind : {"batch"}, ts : Int, local : Int, symbol : STRING, updates : LevelUpdates,
   snapshot : BOOLEAN]

BookNext == (\E s \in Snapshots : ShowSnapshot(s)) \/ (\E b \in Batches : ShowBatch(b))

BookSpec == BookInit /\ [][BookNext]_bookVars

-----------------------------------------------------------------------------
(* Properties. *)

Live(side) == {t \in DOMAIN shown[side] : shown[side][t] > 0}

Nearest(side, n) ==
  {t \in Live(side) :
     Cardinality({u \in Live(side) : IF side = "Buy" THEN u > t ELSE u < t}) < n}

Hidden ==
  Live("Buy") = {} \/ Live("Sell") = {} \/ Max(Live("Buy")) >= Min(Live("Sell"))

(* The ladders hold exactly the levels the events describe: the remembered best
   is the touch, the count and the n-th level are those of the map, and a
   view shows the touch and the sum over the nearest levels or, crossed or one-sided,
   nothing, whatever removals, re-insertions, growths and clears came before. *)
BookIsTheMap ==
  \A side \in {"Buy", "Sell"} :
    LET l == IF side = "Buy" THEN book.bids ELSE book.asks
        extreme == IF side = "Buy" THEN Max(Live(side)) ELSE Min(Live(side))
    IN
    /\ Depth(book, side) = Cardinality(Live(side))
    /\ l.best = IF Live(side) = {} THEN NoBest ELSE extreme
    /\ \A i \in 0 .. Cardinality(Live(side)) - 1 :
         LET v == Level(book, side, i)
         IN  v # <<>> /\ v[1].tick \in Nearest(side, i + 1) \ Nearest(side, i)
                      /\ v[1].quantity = shown[side][v[1].tick]
    /\ Level(book, side, Cardinality(Live(side))) = <<>>
    /\ IF Hidden THEN MarketView(book, ViewLevels).top = NoTop
       ELSE LET v == MarketView(book, ViewLevels)
                sum == SumFunctionOnSet(shown[side], Nearest(side, ViewLevels))
            IN IF side = "Buy" THEN v.bid_depth = sum /\ v.top.bid = extreme
                               ELSE v.ask_depth = sum /\ v.top.ask = extreme
=============================================================================
