------------------------- MODULE StrategyDeskProofs -------------------------
(***************************************************************************)
(* StrategyAlwaysKnows: whatever strategy of the factory is on the desk,   *)
(* and however the venue fills, cancels and refuses its orders, its        *)
(* position is the account's and the orders it believes open are those the *)
(* venue works, with what is left of each.                                 *)
(*                                                                         *)
(* From the inside out: what a strategy's books are (OrderBook, and one    *)
(* XBook, TBook, BBook, MBook, LBook a family) and, callback by callback,  *)
(* that they follow the orders; the same for a strategy of any kind        *)
(* (Fits); and then the desk, whose venue holds what Remains says.         *)
(*                                                                         *)
(* ParentAlwaysExact: an execution strategy that adds up what its children *)
(* were filled for never sends more than its parent order asks for.        *)
(*                                                                         *)
(* CooldownAlwaysHolds: after an exit on a loss the trend strategy targets *)
(* no position until the configured number of views has gone by.           *)
(*                                                                         *)
(* HaltAlwaysPulls, QuotesNeverStale: a maker that is halted or blind has  *)
(* pulled what it quoted, and the quotes that work were sent on one view.  *)
(*                                                                         *)
(* LimitAlwaysHolds: with sizes the limit has room for (LimitsFit), what a *)
(* trend, inventory-aware or legacy maker's orders may fill never takes it *)
(* beyond that limit.                                                      *)
(***************************************************************************)
EXTENDS StrategyDesk, FiniteInduction, SequenceTheorems, TLAPS

-----------------------------------------------------------------------------
(* What the desk asks of any strategy. *)

(* The open orders and what is left of each. *)
OrderBook(f) ==
  /\ f = [id \in DOMAIN f |-> f[id]] /\ DOMAIN f \subseteq Nat \ {0} /\ IsFiniteSet(DOMAIN f)
  /\ \A id \in DOMAIN f : f[id] \in Nat \ {0}

(* Orders the venue takes: each for something. *)
ForSome(o) == "quantity" \in DOMAIN o /\ o.quantity \in Nat \ {0}

OrdersOf(S, orders) == orders \in Seq(S) /\ \A o \in S : ForSome(o)

Sendable(orders) == \E S : OrdersOf(S, orders)

(* An open book without an order, and after a fill of q of one. *)
Closed(f, id) == Restrict(f, DOMAIN f \ {id})

Dented(f, id, q) == IF id \in DOMAIN f THEN [f EXCEPT ![id] = f[id] - q] ELSE f

(* What is left of an order that is filled in full is gone. *)
LEMMA ClosedDented ==
  ASSUME NEW f, OrderBook(f), NEW id, NEW q
  PROVE  Closed(Dented(f, id, q), id) = Closed(f, id)
BY DEF Closed, Dented, Restrict, OrderBook

(* No order, and a single one. *)
LEMMA SendNoneOrOne ==
  /\ Sendable(<<>>)
  /\ \A o : ForSome(o) => Sendable(<<o>>)
<1>1. OrdersOf({}, <<>>) BY EmptySeq DEF OrdersOf
<1>2. \A o : ForSome(o) => OrdersOf({o}, <<o>>) BY DEF OrdersOf
<1> QED BY <1>1, <1>2, Zenon DEF Sendable

(* One list of orders after another. *)
LEMMA SendBoth ==
  ASSUME NEW x, NEW y, Sendable(x), Sendable(y)
  PROVE  Sendable(x \o y)
<1>1. PICK S, R : OrdersOf(S, x) /\ OrdersOf(R, y) BY DEF Sendable
<1>2. x \in Seq(S \cup R) /\ y \in Seq(S \cup R) BY <1>1 DEF OrdersOf
<1>3. x \o y \in Seq(S \cup R) BY <1>2, ConcatProperties
<1>4. OrdersOf(S \cup R, x \o y) BY <1>1, <1>3 DEF OrdersOf
<1> QED BY <1>4 DEF Sendable

(* An order that is not sent when it is for nothing. *)
LEMMA SendScaled ==
  ASSUME NEW o, "quantity" \in DOMAIN o, o.quantity \in Int
  PROVE  Sendable(IF o.quantity > 0 THEN <<o>> ELSE <<>>)
BY SendNoneOrOne DEF ForSome

-----------------------------------------------------------------------------
(* The execution strategy. *)

XFields == {"cfg", "started", "sent_market", "end_ts", "next_slice_ts", "filled", "volume",
            "last_view_ts", "position", "slice_remaining", "must_cross", "working",
            "working_started", "working_is_post", "open", "cancel_queue"}

(* Its state, with the position a and the open children f. *)
XBook(s, a, f) ==
  /\ DOMAIN s = XFields /\ Configured([kind |-> "execution", cfg |-> s.cfg])
  /\ {s.filled, s.slice_remaining, s.volume} \subseteq Nat
  /\ s.position = a /\ s.open = f

(* The smaller and the larger of two numbers. *)
LEMMA XExtremes ==
  ASSUME NEW a \in Int, NEW b \in Int
  PROVE  /\ X!Min({a, b}) = IF a <= b THEN a ELSE b
         /\ X!Max({a, b}) = IF a >= b THEN a ELSE b
BY DEF X!Min, X!Max

(* The amounts of the code that are no less than a floor, and no more than a cap. *)
LEMMA XFloors ==
  ASSUME NEW n \in Int
  PROVE  X!Max({0, n}) = IF 0 >= n THEN 0 ELSE n
<1>1. 0 \in Int OBVIOUS
<1> QED BY <1>1, XExtremes, Zenon

(* The least size of a slice. *)
LEMMA XLeastOne ==
  ASSUME NEW n \in Int
  PROVE  X!AtLeastOne(n) = IF 1 >= n THEN 1 ELSE n
<1>1. 1 \in Int OBVIOUS
<1>2. X!Max({1, n}) = IF 1 >= n THEN 1 ELSE n BY <1>1, XExtremes, Zenon
<1> QED BY <1>2 DEF X!AtLeastOne

(* What is left of a size. *)
LEMMA XLess ==
  ASSUME NEW a \in Int, NEW b \in Int
  PROVE  X!Less(a, b) = IF a >= b THEN a - b ELSE 0
<1>1. a - b \in Int OBVIOUS
<1>2. X!Max({0, a - b}) = IF 0 >= a - b THEN 0 ELSE a - b BY <1>1, XFloors, Zenon
<1> QED BY <1>2 DEF X!Less

(* A configuration the factory gives. *)
LEMMA XConfigured ==
  ASSUME NEW cfg, Configured([kind |-> "execution", cfg |-> cfg])
  PROVE  /\ {cfg.quantity, cfg.slices, cfg.horizon} \subseteq Nat
         /\ cfg.share \in Nat \X (Nat \ {0}) /\ cfg.algo \in {"market", "twap", "pov"}
         /\ cfg.quantity \in Nat
<1> DEFINE d == [kind |-> "execution", cfg |-> cfg]
<1>1. d.kind = "execution" /\ d.cfg = cfg OBVIOUS
<1> HIDE DEF d
<1>2. d.kind \notin {"trend", "naive", "optimized", "active", "inventory"} \cup L!L1Kinds
  BY <1>1 DEF L!L1Kinds
<1>3. Configured(d) BY DEF d
<1> QED BY <1>1, <1>2, <1>3 DEF Configured

(* A fill moves the position, the parent and the slice, and takes from its child. *)
LEMMA XTradeFields ==
  ASSUME NEW s, DOMAIN s = XFields, NEW r
  PROVE  LET t == X!OnTrade(s, r) IN
         /\ DOMAIN t = XFields
         /\ t.position = IF r.side = "Buy" THEN s.position + r.quantity
                         ELSE s.position - r.quantity
         /\ t.filled = s.filled + r.quantity
         /\ t.slice_remaining = X!Less(s.slice_remaining, r.quantity)
         /\ t.open = X!Took(s.open, r.id, r.quantity)
         /\ \A a \in XFields \ {"position", "filled", "slice_remaining", "open"} : t[a] = s[a]
BY DEF X!OnTrade, XFields

(* The end of a child closes it, and frees the strategy if it was the working one. *)
LEMMA XEndFields ==
  ASSUME NEW s, DOMAIN s = XFields, NEW r, r.kind \in Ended
  PROVE  LET t == X!OnOrderUpdate(s, r) IN
         /\ DOMAIN t = XFields
         /\ t.open = X!Restrict(s.open, DOMAIN s.open \ {r.id})
         /\ t.working = IF r.id = s.working THEN 0 ELSE s.working
         /\ \A a \in XFields \ {"open", "working", "working_is_post"} : t[a] = s[a]
BY DEF X!OnOrderUpdate, XFields, X!NoWork, Ended

(* A child sent is the working one. *)
LEMMA XSubmitFields ==
  ASSUME NEW s, DOMAIN s = XFields, NEW id, NEW o
  PROVE  LET t == X!OnOrderSubmitted(s, id, o) IN
         /\ DOMAIN t = XFields
         /\ t.open = X!Joined(s.open, id, o.quantity) /\ t.working = id
         /\ \A a \in XFields \ {"open", "working", "working_started", "working_is_post"} :
              t[a] = s[a]
BY DEF X!OnOrderSubmitted, XFields

(* The start of the schedule. *)
LEMMA XStartFields ==
  ASSUME NEW s, DOMAIN s = XFields, NEW ts
  PROVE  LET t == X!Started(s, ts) IN
         /\ DOMAIN t = XFields
         /\ \A a \in XFields \ {"started", "end_ts", "next_slice_ts"} : t[a] = s[a]
BY DEF X!Started, XFields

(* The working child is given up. *)
LEMMA XPullFields ==
  ASSUME NEW s, DOMAIN s = XFields, s.working # 0
  PROVE  LET t == X!Pulled(s) IN
         /\ DOMAIN t = XFields
         /\ t.open = X!Restrict(s.open, DOMAIN s.open \ {s.working})
         /\ t.cancel_queue = s.cancel_queue \cup {s.working} /\ t.working = 0
         /\ \A a \in XFields \ {"cancel_queue", "open", "working", "working_is_post",
                                "must_cross"} : t[a] = s[a]
BY DEF X!Pulled, XFields, X!NoWork

(* The slice that is due changes the schedule alone. *)
LEMMA XSliceFields ==
  ASSUME NEW s, DOMAIN s = XFields, NEW ts, s.cfg.algo \in {"market", "twap", "pov"}
  PROVE  LET t == X!NextSlice(s, ts).strat IN
         /\ DOMAIN t = XFields
         /\ \A a \in XFields \ {"sent_market", "next_slice_ts"} : t[a] = s[a]
<1>1. CASE s.cfg.algo = "market" BY <1>1 DEF X!NextSlice, XFields
<1>2. CASE s.cfg.algo = "twap" BY <1>2 DEF X!NextSlice, XFields
<1>3. CASE s.cfg.algo = "pov" BY <1>3 DEF X!NextSlice, XFields
<1> QED BY <1>1, <1>2, <1>3

(* Only a market parent is sent, and no schedule takes that back. *)
LEMMA XSliceSends ==
  ASSUME NEW s, DOMAIN s = XFields, NEW ts, s.cfg.algo \in {"market", "twap", "pov"},
         X!NextSlice(s, ts).strat.sent_market
  PROVE  s.sent_market \/ s.cfg.algo = "market"
<1>1. CASE s.cfg.algo = "twap" BY <1>1 DEF X!NextSlice, XFields
<1>2. CASE s.cfg.algo = "pov" BY <1>2 DEF X!NextSlice, XFields
<1> QED BY <1>1, <1>2

(* Division by a positive number. *)
LEMMA Quotient ==
  ASSUME NEW a \in Int, NEW b \in Nat \ {0}
  PROVE  a \div b \in Int /\ (a >= 0 => a \div b \in Nat)
OBVIOUS

(* What neither filled nor works is a natural number. *)
LEMMA XRemaining ==
  ASSUME NEW s, NEW a, NEW f, XBook(s, a, f), OrderBook(f)
  PROVE  /\ X!RemainingQuantity(s) \in Nat
         /\ LET n == s.cfg.quantity - s.filled - SumFunctionOnSet(f, DOMAIN f)
            IN X!RemainingQuantity(s) = IF 0 >= n THEN 0 ELSE n
<1>1. X!SumFunction(s.open) = SumFunctionOnSet(f, DOMAIN f)
  <2>1. s.open = f BY DEF XBook
  <2>2. X!SumFunction(f) = SumFunctionOnSet(f, DOMAIN f)
    BY Zenon DEF X!SumFunction, X!SumFunctionOnSet, X!FoldFunctionOnSet, X!MapThenFoldSet,
       SumFunctionOnSet, FoldFunctionOnSet, MapThenFoldSet
  <2> QED BY <2>1, <2>2
<1>2. SumFunctionOnSet(f, DOMAIN f) \in Int
  <2>1. IsFiniteSet(DOMAIN f) /\ \A i \in DOMAIN f : f[i] \in Int BY DEF OrderBook
  <2> QED BY <2>1, SumRemove
<1>3. s.cfg.quantity \in Nat /\ s.filled \in Nat BY XConfigured DEF XBook
<1> DEFINE n == s.cfg.quantity - s.filled - SumFunctionOnSet(f, DOMAIN f)
<1>4. n \in Int BY <1>2, <1>3
<1>5. X!RemainingQuantity(s) = X!Max({0, n}) BY <1>1 DEF X!RemainingQuantity
<1> HIDE DEF n
<1>6. X!RemainingQuantity(s) = IF 0 >= n THEN 0 ELSE n BY <1>4, <1>5, XFloors
<1>7. X!RemainingQuantity(s) \in Nat BY <1>4, <1>6
<1> QED BY <1>6, <1>7 DEF n

(* The slice that is due is no more than that; a market parent is sent whole, once. *)
LEMMA XSliceQuantity ==
  ASSUME NEW s, NEW a, NEW f, XBook(s, a, f), OrderBook(f), NEW ts
  PROVE  LET q == X!NextSlice(s, ts).quantity IN
         /\ q \in Nat /\ q <= X!RemainingQuantity(s)
         /\ s.cfg.algo = "market" =>
              q = IF s.sent_market THEN 0 ELSE X!RemainingQuantity(s)
<1>1. /\ {s.cfg.quantity, s.cfg.slices, s.cfg.horizon} \subseteq Nat
      /\ s.cfg.share \in Nat \X (Nat \ {0}) /\ s.cfg.algo \in {"market", "twap", "pov"}
      /\ {s.filled, s.volume} \subseteq Nat
  BY XConfigured DEF XBook
<1>2. X!RemainingQuantity(s) \in Nat BY XRemaining
<1>3. CASE s.cfg.algo = "market"
  BY <1>2, <1>3 DEF X!NextSlice
<1>4. CASE s.cfg.algo = "twap"
  <2>1. X!SliceQuantity(s) \in Nat
    <3>0. s.cfg.slices \in Int /\ s.cfg.quantity \in Int BY <1>1
    <3>1. X!AtLeastOne(s.cfg.slices) \in Nat \ {0}
      BY <3>0, XLeastOne
    <3>2. s.cfg.quantity \div X!AtLeastOne(s.cfg.slices) \in Int BY <3>0, <3>1, Quotient
    <3>3. PICK n \in Int : n = s.cfg.quantity \div X!AtLeastOne(s.cfg.slices) BY <3>2
    <3>4. X!AtLeastOne(n) \in Nat BY XLeastOne
    <3> QED BY <3>3, <3>4 DEF X!SliceQuantity
  <2>2. LET m == X!Min({X!SliceQuantity(s), X!RemainingQuantity(s)})
        IN m \in Nat /\ m <= X!RemainingQuantity(s)
    BY <1>2, <2>1, XExtremes
  <2> QED BY <1>2, <1>4, <2>2 DEF X!NextSlice
<1>5. CASE s.cfg.algo = "pov"
  <2>1. X!PovQuantity(s) \in Nat
    <3>1. s.cfg.share[1] \in Nat /\ s.cfg.share[2] \in Nat \ {0} BY <1>1
    <3>2. s.cfg.share[1] * s.volume - s.cfg.share[2] * s.filled \in Int BY <1>1, <3>1
    <3>3. X!Max({0, s.cfg.share[1] * s.volume - s.cfg.share[2] * s.filled}) \in Nat
      BY <3>2, XFloors
    <3> QED BY <3>1, <3>3, Quotient DEF X!PovQuantity
  <2>2. LET m == X!Min({X!PovQuantity(s), X!RemainingQuantity(s)})
        IN m \in Nat /\ m <= X!RemainingQuantity(s)
    BY <1>2, <2>1, XExtremes
  <2> QED BY <1>2, <1>5, <2>2 DEF X!NextSlice
<1> QED BY <1>1, <1>3, <1>4, <1>5

(* What of the state a view may leave as it was, whatever it decides. *)
XKept == {"cfg", "filled", "volume", "position"}

(* The strategy t is s with its schedule moved on: what decides is as it was. *)
XScheduled(s, t) ==
  DOMAIN t = XFields /\ \A a \in XKept \cup {"sent_market", "slice_remaining", "open",
                                               "working", "cancel_queue"} : t[a] = s[a]

(* The strategy t is s with its working child, if any, given up. *)
XFreed(s, t) ==
  /\ DOMAIN t = XFields
  /\ \A a \in XKept \cup {"sent_market", "slice_remaining"} : t[a] = s[a]
  /\ t.working = 0
  /\ IF s.working = 0 THEN t.open = s.open /\ t.cancel_queue = s.cancel_queue
     ELSE /\ t.open = X!Restrict(s.open, DOMAIN s.open \ {s.working})
          /\ t.cancel_queue = s.cancel_queue \cup {s.working}

(* The orders d of a freed strategy t: none, or one child for its slice. *)
XWorks(t, d) ==
  /\ DOMAIN d.strat = XFields
  /\ \A a \in XKept \cup {"open", "working", "cancel_queue"} : d.strat[a] = t[a]
  /\ \/ /\ d.orders = <<>> /\ t.slice_remaining = 0 /\ d.strat.slice_remaining = 0
        /\ \E ts : /\ X!NextSlice(t, ts).quantity = 0
                   /\ d.strat.sent_market = X!NextSlice(t, ts).strat.sent_market
     \/ /\ t.slice_remaining # 0 /\ d.strat.slice_remaining = t.slice_remaining
        /\ d.strat.sent_market = t.sent_market
        /\ \E o : d.orders = <<o>> /\ "quantity" \in DOMAIN o /\ o.quantity = t.slice_remaining
     \/ /\ t.slice_remaining = 0 /\ d.strat.slice_remaining # 0
        /\ \E ts : /\ X!NextSlice(t, ts).quantity = d.strat.slice_remaining
                   /\ d.strat.sent_market = X!NextSlice(t, ts).strat.sent_market
        /\ \E o : /\ d.orders = <<o>> /\ "quantity" \in DOMAIN o
                 /\ o.quantity = d.strat.slice_remaining

(* A child for the slice. *)
LEMMA XChildFields ==
  ASSUME NEW s, DOMAIN s = XFields, NEW v, NEW crossed \in BOOLEAN
  PROVE  LET d == X!Child(s, v, crossed) IN
         /\ DOMAIN d.strat = XFields
         /\ \A a \in XFields \ {"must_cross"} : d.strat[a] = s[a]
         /\ \E o : d.orders = <<o>> /\ "quantity" \in DOMAIN o /\ o.quantity = s.slice_remaining
<1> DEFINE d == X!Child(s, v, crossed)
           o == [side |-> s.cfg.side, quantity |-> s.slice_remaining,
                 price |-> IF crossed THEN X!CrossingPrice(s, v) ELSE X!RestingPrice(s, v),
                 tif |-> IF crossed THEN "Ioc" ELSE "Gtc"]
<1>1. d.strat = [s EXCEPT !.must_cross = FALSE] /\ d.orders = <<o>> BY DEF X!Child
<1>2. "quantity" \in DOMAIN o /\ o.quantity = s.slice_remaining OBVIOUS
<1> HIDE DEF d, o
<1>3. /\ DOMAIN d.strat = XFields
      /\ \A a \in XFields \ {"must_cross"} : d.strat[a] = s[a]
  BY <1>1 DEF XFields
<1> QED BY <1>1, <1>2, <1>3 DEF d

(* A view is let pass, or the strategy freed of its child works the parent. *)
LEMMA XViewFields ==
  ASSUME NEW s, DOMAIN s = XFields, NEW v, s.cfg.algo \in {"market", "twap", "pov"}
  PROVE  LET d == X!OnL2MarketView(s, v) IN
         \/ d.orders = <<>> /\ XScheduled(s, d.strat)
         \/ /\ ~(s.filled >= s.cfg.quantity)
            /\ \E t : XFreed(s, t) /\ XWorks(t, d)
<1> DEFINE seen == [s EXCEPT !.last_view_ts = v.ts]
           st == X!Started(seen, v.ts)
           free == X!Pulled(st)
           due == X!NextSlice(free, v.ts)
           d == X!OnL2MarketView(s, v)
<1>1. XScheduled(s, seen) BY DEF XScheduled, XFields, XKept
<1>2. XScheduled(s, st)
  <2>1. DOMAIN seen = XFields BY <1>1 DEF XScheduled
  <2> HIDE DEF seen
  <2> QED BY <1>1, <2>1, XStartFields DEF XScheduled, XFields, XKept
<1> HIDE DEF st
<1>3. XFreed(s, free)
  <2>1. DOMAIN st = XFields BY <1>2 DEF XScheduled
  <2>2. CASE st.working = 0
    BY <1>2, <2>2 DEF XFreed, XScheduled, XKept, X!Pulled, X!NoWork
  <2>3. CASE st.working # 0
    <3>1. /\ DOMAIN free = XFields
          /\ free.open = X!Restrict(st.open, DOMAIN st.open \ {st.working})
          /\ free.cancel_queue = st.cancel_queue \cup {st.working} /\ free.working = 0
          /\ \A a \in XKept \cup {"sent_market", "slice_remaining"} : free[a] = st[a]
      BY <2>1, <2>3, XPullFields DEF XKept, XFields
    <3> QED BY <1>2, <2>3, <3>1 DEF XFreed, XScheduled
  <2> QED BY <2>2, <2>3
<1> HIDE DEF free
<1>4. /\ DOMAIN free = XFields /\ free.cfg = s.cfg /\ st.filled = s.filled /\ st.cfg = s.cfg
  BY <1>2, <1>3 DEF XFreed, XScheduled, XKept
<1>5. \/ d.orders = <<>> /\ (d.strat = seen \/ d.strat = st)
      \/ /\ ~(s.filled >= s.cfg.quantity) /\ free.slice_remaining # 0
         /\ d = X!Child(free, v, TRUE)
      \/ /\ ~(s.filled >= s.cfg.quantity) /\ free.slice_remaining = 0 /\ due.quantity = 0
         /\ d = [strat |-> due.strat, orders |-> <<>>]
      \/ /\ ~(s.filled >= s.cfg.quantity) /\ free.slice_remaining = 0 /\ due.quantity # 0
         /\ d = X!Child([due.strat EXCEPT !.slice_remaining = due.quantity], v,
                        ~s.cfg.post_first \/ free.must_cross)
  BY <1>4 DEF X!OnL2MarketView, st, free
<1> HIDE DEF d, due
<1>6. XScheduled(s, seen) /\ XScheduled(s, st) BY <1>1, <1>2
<1>7. ASSUME free.slice_remaining # 0, d = X!Child(free, v, TRUE) PROVE XWorks(free, d)
  <2>1. /\ DOMAIN d.strat = XFields
        /\ \A a \in XFields \ {"must_cross"} : d.strat[a] = free[a]
        /\ \E o : /\ d.orders = <<o>> /\ "quantity" \in DOMAIN o
                 /\ o.quantity = free.slice_remaining
    <3>1. PICK c \in BOOLEAN : c = TRUE OBVIOUS
    <3>2. d = X!Child(free, v, c) BY <1>7, <3>1, Zenon
    <3> QED BY <1>4, <3>2, XChildFields
  <2> QED BY <1>7, <2>1 DEF XWorks, XFields, XKept
<1>8. /\ DOMAIN due.strat = XFields
      /\ \A a \in XFields \ {"sent_market", "next_slice_ts"} : due.strat[a] = free[a]
  <2>1. free.cfg.algo \in {"market", "twap", "pov"} BY <1>4
  <2>2. due.strat = X!NextSlice(free, v.ts).strat BY DEF due
  <2> QED BY <1>4, <2>1, <2>2, XSliceFields
<1>9. ASSUME free.slice_remaining = 0, due.quantity = 0,
             d = [strat |-> due.strat, orders |-> <<>>]
      PROVE  XWorks(free, d)
  <2>1. d.strat = due.strat /\ d.orders = <<>> BY <1>9
  <2>2. /\ DOMAIN d.strat = XFields /\ d.strat.slice_remaining = 0
        /\ \A a \in XKept \cup {"open", "working", "cancel_queue"} : d.strat[a] = free[a]
    BY <1>8, <1>9, <2>1 DEF XFields, XKept
  <2>3. \E ts : /\ X!NextSlice(free, ts).quantity = 0
                /\ d.strat.sent_market = X!NextSlice(free, ts).strat.sent_market
    BY <1>9, <2>1 DEF due
  <2> QED BY <1>9, <2>1, <2>2, <2>3 DEF XWorks
<1>10. ASSUME free.slice_remaining = 0, due.quantity # 0,
              d = X!Child([due.strat EXCEPT !.slice_remaining = due.quantity], v,
                          ~s.cfg.post_first \/ free.must_cross)
       PROVE  XWorks(free, d)
  <2> DEFINE t == [due.strat EXCEPT !.slice_remaining = due.quantity]
  <2>1. /\ DOMAIN t = XFields /\ t.slice_remaining = due.quantity
        /\ t.sent_market = due.strat.sent_market
        /\ \A a \in XKept \cup {"open", "working", "cancel_queue"} : t[a] = free[a]
    BY <1>8 DEF XFields, XKept
  <2>2. PICK crossed \in BOOLEAN : crossed = (~s.cfg.post_first \/ free.must_cross)
    OBVIOUS
  <2>3. d = X!Child(t, v, crossed) BY <1>10, <2>2, Zenon
  <2> HIDE DEF t
  <2>4. /\ DOMAIN d.strat = XFields
        /\ \A a \in XFields \ {"must_cross"} : d.strat[a] = t[a]
        /\ \E o : d.orders = <<o>> /\ "quantity" \in DOMAIN o /\ o.quantity = t.slice_remaining
    BY <2>1, <2>3, XChildFields
  <2>5. /\ d.strat.slice_remaining = due.quantity
        /\ d.strat.sent_market = due.strat.sent_market
        /\ \A a \in XKept \cup {"open", "working", "cancel_queue"} : d.strat[a] = free[a]
    BY <2>1, <2>4 DEF XFields, XKept
  <2>6. \E ts : /\ X!NextSlice(free, ts).quantity = d.strat.slice_remaining
                /\ d.strat.sent_market = X!NextSlice(free, ts).strat.sent_market
    BY <2>5 DEF due
  <2>7. \E o : d.orders = <<o>> /\ "quantity" \in DOMAIN o /\ o.quantity = d.strat.slice_remaining
    BY <2>1, <2>4, <2>5
  <2> QED BY <1>10, <2>4, <2>5, <2>6, <2>7 DEF XWorks
<1>11. CASE d.orders = <<>> /\ (d.strat = seen \/ d.strat = st)
  <2> HIDE DEF seen
  <2> QED BY <1>6, <1>11 DEF d
<1> HIDE DEF seen
<1>12. CASE ~(s.filled >= s.cfg.quantity) /\ XWorks(free, d)
  BY <1>3, <1>12 DEF d
<1> QED BY <1>5, <1>7, <1>9, <1>10, <1>11, <1>12, Zenon

(* A fill of an open child, or of one already given up. *)
LEMMA XTrade ==
  ASSUME NEW s, NEW a \in Int, NEW f, XBook(s, a, f), OrderBook(f), NEW r,
         r.quantity \in Nat \ {0}, r.id \in DOMAIN f => r.quantity <= f[r.id]
  PROVE  XBook(X!OnTrade(s, r), a + Signed(r.side, r.quantity), Dented(f, r.id, r.quantity))
<1> DEFINE t == X!OnTrade(s, r)
<1>0. DOMAIN s = XFields BY DEF XBook
<1>a. /\ DOMAIN t = XFields
      /\ t.position = IF r.side = "Buy" THEN s.position + r.quantity
                      ELSE s.position - r.quantity
      /\ t.filled = s.filled + r.quantity
      /\ t.slice_remaining = X!Less(s.slice_remaining, r.quantity)
      /\ t.open = X!Took(s.open, r.id, r.quantity)
      /\ \A b \in XFields \ {"position", "filled", "slice_remaining", "open"} : t[b] = s[b]
  BY <1>0, XTradeFields
<1> HIDE DEF t
<1>1. /\ DOMAIN t = XFields /\ t.cfg = s.cfg /\ t.volume = s.volume
      /\ t.position = IF r.side = "Buy" THEN s.position + r.quantity
                      ELSE s.position - r.quantity
      /\ t.filled = s.filled + r.quantity
      /\ t.slice_remaining = X!Less(s.slice_remaining, r.quantity)
      /\ t.open = X!Took(s.open, r.id, r.quantity)
  BY <1>a DEF XFields
<1>2. t.position = a + Signed(r.side, r.quantity) BY <1>1 DEF XBook, Signed
<1>3. t.slice_remaining \in Nat
  <2>1. s.slice_remaining \in Nat /\ r.quantity \in Nat BY DEF XBook
  <2> QED BY <1>1, <2>1, XLess
<1>4. t.open = Dented(f, r.id, r.quantity)
  <2>1. CASE r.id \in DOMAIN f
    <3>1. X!Less(f[r.id], r.quantity) = f[r.id] - r.quantity
      <4>1. f[r.id] \in Int /\ r.quantity \in Int /\ f[r.id] >= r.quantity
        BY <2>1 DEF OrderBook
      <4> QED BY <4>1, XLess
    <3> QED BY <1>1, <2>1, <3>1 DEF XBook, X!Took, Dented
  <2>2. CASE r.id \notin DOMAIN f
    BY <1>1, <2>2 DEF XBook, X!Took, Dented
  <2> QED BY <2>1, <2>2
<1> QED BY <1>1, <1>2, <1>3, <1>4 DEF XBook, t

(* The end of a child. *)
LEMMA XEnd ==
  ASSUME NEW s, NEW a, NEW f, XBook(s, a, f), NEW r, r.kind \in Ended
  PROVE  XBook(X!OnOrderUpdate(s, r), a, Closed(f, r.id))
<1> DEFINE t == X!OnOrderUpdate(s, r)
<1>0. DOMAIN s = XFields BY DEF XBook
<1>a. /\ DOMAIN t = XFields /\ t.open = X!Restrict(s.open, DOMAIN s.open \ {r.id})
      /\ \A b \in XFields \ {"open", "working", "working_is_post"} : t[b] = s[b]
  BY <1>0, XEndFields
<1> HIDE DEF t
<1>1. /\ DOMAIN t = XFields /\ t.open = X!Restrict(s.open, DOMAIN s.open \ {r.id})
      /\ \A b \in XKept \cup {"slice_remaining"} : t[b] = s[b]
  BY <1>a DEF XFields, XKept
<1> QED BY <1>1 DEF XBook, XKept, Closed, Restrict, X!Restrict, t

(* A child sent. *)
LEMMA XSubmit ==
  ASSUME NEW s, NEW a, NEW f, XBook(s, a, f), NEW id, NEW o
  PROVE  XBook(X!OnOrderSubmitted(s, id, o), a, Joined(f, id, o.quantity))
<1> DEFINE t == X!OnOrderSubmitted(s, id, o)
<1>1. /\ DOMAIN t = XFields /\ t.open = X!Joined(s.open, id, o.quantity)
      /\ \A b \in XKept \cup {"slice_remaining"} : t[b] = s[b]
  BY XSubmitFields DEF XBook, XFields, XKept
<1> HIDE DEF t
<1> QED BY <1>1 DEF XBook, XKept, Joined, X!Joined, t

(* The volume of a public trade, and the cancels handed over. *)
LEMMA XPublic ==
  ASSUME NEW s, NEW a, NEW f, XBook(s, a, f), NEW q \in Nat
  PROVE  /\ XBook(X!OnMarketTrade(s, q), a, f) /\ XBook(X!CancelsTaken(s), a, f)
         /\ X!OnMarketTrade(s, q).cancel_queue = s.cancel_queue
         /\ X!CancelsTaken(s).cancel_queue = {}
<1>1. XBook(X!OnMarketTrade(s, q), a, f) /\ X!OnMarketTrade(s, q).cancel_queue = s.cancel_queue
  BY DEF XBook, X!OnMarketTrade, XFields
<1>2. XBook(X!CancelsTaken(s), a, f) /\ X!CancelsTaken(s).cancel_queue = {}
  BY DEF XBook, X!CancelsTaken, XFields
<1> QED BY <1>1, <1>2

(* A view. *)
LEMMA XView ==
  ASSUME NEW s, NEW a, NEW f, XBook(s, a, f), OrderBook(f), s.cancel_queue = {}, NEW v
  PROVE  LET d == X!OnL2MarketView(s, v) IN
         /\ XBook(d.strat, a, Restrict(f, DOMAIN f \ d.strat.cancel_queue))
         /\ Sendable(d.orders)
<1> DEFINE d == X!OnL2MarketView(s, v)
           g == Restrict(f, DOMAIN f \ d.strat.cancel_queue)
<1>0. /\ DOMAIN s = XFields /\ s.open = f
      /\ s.cfg.quantity \in Nat /\ s.cfg.algo \in {"market", "twap", "pov"}
  BY XConfigured DEF XBook
<1>1. \/ d.orders = <<>> /\ XScheduled(s, d.strat)
      \/ \E t : XFreed(s, t) /\ XWorks(t, d)
  BY <1>0, XViewFields
<1> HIDE DEF d
<1>2. CASE d.orders = <<>> /\ XScheduled(s, d.strat)
  <2>1. g = f
    <3>1. d.strat.cancel_queue = {} BY <1>2 DEF XScheduled
    <3> QED BY <3>1 DEF Restrict, OrderBook
  <2>2. XBook(d.strat, a, f) BY <1>2 DEF XScheduled, XKept, XBook
  <2> QED BY <1>2, <2>1, <2>2, SendNoneOrOne DEF d
<1>3. ASSUME NEW t, XFreed(s, t), XWorks(t, d)
      PROVE  XBook(d.strat, a, g) /\ Sendable(d.orders)
  <2>1. /\ t.cfg = s.cfg /\ t.filled = s.filled /\ t.volume = s.volume
        /\ t.position = s.position /\ t.slice_remaining = s.slice_remaining
        /\ DOMAIN t = XFields
    BY <1>3 DEF XFreed, XKept
  <2>2. t.open = Restrict(f, DOMAIN f \ t.cancel_queue)
    <3>1. CASE s.working = 0
      <4>1. t.cancel_queue = {} /\ t.open = f BY <1>0, <1>3, <3>1 DEF XFreed
      <4> QED BY <4>1 DEF Restrict, OrderBook
    <3>2. CASE s.working # 0
      <4>1. t.cancel_queue = {s.working}
            /\ t.open = X!Restrict(f, DOMAIN f \ {s.working})
        BY <1>0, <1>3, <3>2 DEF XFreed
      <4> QED BY <4>1 DEF Restrict, X!Restrict
    <3> QED BY <3>1, <3>2
  <2>3. XBook(t, a, t.open) BY <2>1 DEF XBook
  <2>4. OrderBook(t.open)
    <3>1. t.open = [id \in DOMAIN f \ t.cancel_queue |-> f[id]] BY <2>2 DEF Restrict
    <3>2. IsFiniteSet(DOMAIN f) BY DEF OrderBook
    <3>3. IsFiniteSet(DOMAIN f \ t.cancel_queue) BY <3>2, FS_Subset
    <3> QED BY <3>1, <3>3 DEF OrderBook
  <2>5. /\ DOMAIN d.strat = XFields /\ d.strat.cfg = s.cfg /\ d.strat.filled = s.filled
        /\ d.strat.volume = s.volume /\ d.strat.position = s.position
        /\ d.strat.open = t.open /\ d.strat.cancel_queue = t.cancel_queue
    BY <1>3, <2>1 DEF XWorks, XKept
  <2>6. d.strat.slice_remaining \in Nat /\ Sendable(d.orders)
    <3>1. CASE d.orders = <<>> /\ d.strat.slice_remaining = 0
      BY <3>1, SendNoneOrOne
    <3>2. CASE /\ d.strat.slice_remaining # 0
               /\ d.strat.slice_remaining = t.slice_remaining
               /\ \E o : /\ d.orders = <<o>> /\ "quantity" \in DOMAIN o
                        /\ o.quantity = d.strat.slice_remaining
      <4>1. d.strat.slice_remaining \in Nat \ {0} BY <2>1, <3>2 DEF XBook
      <4> QED BY <3>2, <4>1, SendNoneOrOne DEF ForSome
    <3>3. CASE /\ d.strat.slice_remaining # 0
               /\ \E ts : X!NextSlice(t, ts).quantity = d.strat.slice_remaining
               /\ \E o : /\ d.orders = <<o>> /\ "quantity" \in DOMAIN o
                        /\ o.quantity = d.strat.slice_remaining
      <4>1. d.strat.slice_remaining \in Nat \ {0} BY <2>3, <2>4, <3>3, XSliceQuantity
      <4> QED BY <3>3, <4>1, SendNoneOrOne DEF ForSome
    <3> QED BY <1>3, <3>1, <3>2, <3>3 DEF XWorks
  <2>7. d.strat.open = g BY <2>2, <2>5
  <2> QED BY <2>5, <2>6, <2>7 DEF XBook
<1> QED BY <1>1, <1>2, <1>3 DEF d

-----------------------------------------------------------------------------
(* The trend strategy. *)

TFields == {"cfg", "fast", "slow", "warm", "views", "position", "target", "entry_price",
            "entry_view", "cooldown", "wait", "retry_after", "open", "target_at_submit",
            "cancel_pending", "pauses"}

(* Open orders that tell their quantity, which f gives. *)
Lists(open, f) ==
  /\ open = [id \in DOMAIN f |-> open[id]]
  /\ \A id \in DOMAIN f : "quantity" \in DOMAIN open[id] /\ open[id].quantity = f[id]

(* Its state, with the position a and the open clips f. *)
TBook(s, a, f) ==
  /\ DOMAIN s = TFields /\ Configured([kind |-> "trend", cfg |-> s.cfg])
  /\ s.target \in Int /\ s.position = a /\ Lists(s.open, f)

(* What a fill of q leaves of a list that tells it. *)
Left(f, id, q) == IF f[id] > q THEN Dented(f, id, q) ELSE Closed(f, id)

(* A list without an order, and with one more. *)
LEMMA ListsChange ==
  ASSUME NEW open, NEW f, Lists(open, f), NEW id
  PROVE  /\ Lists(Closed(open, id), Closed(f, id))
         /\ \A o : "quantity" \in DOMAIN o =>
                Lists(Joined(open, id, o), Joined(f, id, o.quantity))
BY DEF Lists, Closed, Restrict, Joined

(* A list after a fill. *)
LEMMA ListsLeft ==
  ASSUME NEW open, NEW f, Lists(open, f), NEW id \in DOMAIN f, NEW q
  PROVE  Lists(IF open[id].quantity > q
               THEN [open EXCEPT ![id].quantity = open[id].quantity - q]
               ELSE Closed(open, id), Left(f, id, q))
<1>1. open[id].quantity = f[id] /\ DOMAIN open = DOMAIN f BY DEF Lists
<1>2. CASE f[id] > q
  <2> DEFINE g == [open EXCEPT ![id].quantity = f[id] - q]
  <2>1. g = [i \in DOMAIN f |-> IF i = id THEN [open[id] EXCEPT !.quantity = f[id] - q]
                                ELSE open[i]]
    BY <1>1 DEF Lists
  <2> HIDE DEF g
  <2>2. \A i \in DOMAIN f : "quantity" \in DOMAIN g[i]
                           /\ g[i].quantity = IF i = id THEN f[id] - q ELSE f[i]
    BY <2>1 DEF Lists
  <2>3. Lists(g, Dented(f, id, q)) BY <2>1, <2>2 DEF Lists, Dented
  <2> QED BY <1>1, <1>2, <2>3 DEF g, Left
<1>3. CASE ~(f[id] > q)
  BY <1>1, <1>3, ListsChange DEF Left
<1> QED BY <1>2, <1>3

(* A fill moves the position and the entry, clears a target reached at flat, and
   takes from its clip. *)
LEMMA TTradeFields ==
  ASSUME NEW s, DOMAIN s = TFields, NEW r
  PROVE  LET t == T!OnTrade(s, r) IN
         /\ DOMAIN t = TFields
         /\ t.position = IF r.side = "Buy" THEN s.position + r.quantity
                         ELSE s.position - r.quantity
         /\ t.target = IF t.position = 0 THEN 0 ELSE s.target
         /\ t.open = T!Took(s.open, r.id, r.quantity)
         /\ \A a \in TFields \ {"position", "entry_price", "entry_view", "target", "open"} :
              t[a] = s[a]
BY DEF T!OnTrade, TFields

(* The end of a clip closes it, and may set a backoff. *)
LEMMA TEndFields ==
  ASSUME NEW s, DOMAIN s = TFields, NEW r, r.kind \in Ended
  PROVE  LET t == T!OnOrderUpdate(s, r) IN
         /\ DOMAIN t = TFields
         /\ t.open = T!Restrict(s.open, DOMAIN s.open \ {r.id})
         /\ \A a \in TFields \ {"open", "wait", "retry_after"} : t[a] = s[a]
BY DEF T!OnOrderUpdate, TFields, T!ScheduleBackoff, Ended

(* A refusal may set a backoff. *)
LEMMA TRefuseFields ==
  ASSUME NEW s, DOMAIN s = TFields
  PROVE  LET t == T!OnOrderRejected(s) IN
         /\ DOMAIN t = TFields
         /\ \A a \in TFields \ {"wait", "retry_after"} : t[a] = s[a]
BY DEF T!OnOrderRejected, TFields, T!ScheduleBackoff

(* A clip sent. *)
LEMMA TSubmitFields ==
  ASSUME NEW s, DOMAIN s = TFields, NEW id, NEW o
  PROVE  LET t == T!OnOrderSubmitted(s, id, o) IN
         /\ DOMAIN t = TFields
         /\ t.open = T!Joined(s.open, id, o)
         /\ \A a \in TFields \ {"open", "target_at_submit", "wait", "retry_after"} :
              t[a] = s[a]
BY DEF T!OnOrderSubmitted, TFields

(* What a judgement of the target leaves alone. *)
TKept == {"cfg", "views", "position", "open", "target_at_submit", "wait", "retry_after",
          "cancel_pending"}

(* The target t after the judgement of s: a risk exit, a step of the cooldown, or a
   signal once that is over. *)
TJudged(s, t) ==
  /\ DOMAIN t = TFields /\ \A a \in TKept : t[a] = s[a]
  /\ \/ s.target = 0 /\ t.target = 0 /\ t.cooldown = s.cooldown /\ t.pauses = s.pauses
     \/ /\ s.target # 0 /\ t.target = 0
        /\ t.cooldown = s.cfg.cooldown /\ t.pauses = s.pauses + 1
     \/ s.cooldown > 0 /\ t.target = 0 /\ t.cooldown = s.cooldown - 1 /\ t.pauses = s.pauses
     \/ /\ ~(s.cooldown > 0) /\ t.cooldown = s.cooldown /\ t.pauses = s.pauses
        /\ t.target \in {0, s.cfg.max_position, -s.cfg.max_position, s.target}

(* Setting the target changes the target and the cooldown only. *)
LEMMA TJudgedFields ==
  ASSUME NEW s, DOMAIN s = TFields, NEW mid
  PROVE  TJudged(s, T!UpdateTarget(s, mid))
<1> DEFINE t == T!UpdateTarget(s, mid)
           exit == T!RiskExitDue(s, mid)
<1>1. CASE exit
  <2>1. t = T!RiskExit(s) BY <1>1 DEF T!UpdateTarget
  <2>2. CASE s.target = 0
    BY <2>1, <2>2 DEF T!RiskExit, TJudged, TKept, TFields
  <2>3. CASE s.target # 0
    BY <2>1, <2>3 DEF T!RiskExit, TJudged, TKept, TFields
  <2> QED BY <2>2, <2>3
<1>2. CASE ~exit /\ s.cooldown > 0
  <2>1. t = [s EXCEPT !.cooldown = s.cooldown - 1, !.target = 0]
    BY <1>2 DEF T!UpdateTarget
  <2> QED BY <1>2, <2>1 DEF TJudged, TKept, TFields
<1>3. CASE ~exit /\ ~(s.cooldown > 0)
  <2>1. T!SignalTarget(s) \in {0, s.cfg.max_position, -s.cfg.max_position, s.target}
    BY DEF T!SignalTarget
  <2>2. \/ t = [s EXCEPT !.target = 0]
        \/ t = [s EXCEPT !.target = T!SignalTarget(s)]
    BY <1>3 DEF T!UpdateTarget
  <2> QED BY <1>3, <2>1, <2>2 DEF TJudged, TKept, TFields
<1> QED BY <1>1, <1>2, <1>3

(* A view counted, with its averages. *)
TCounted(s, t) ==
  DOMAIN t = TFields /\ t.views = s.views + 1
  /\ \A a \in TFields \ {"views", "fast", "slow", "warm"} : t[a] = s[a]

(* The same but for an armed cancel. *)
TArmed(s, t) == DOMAIN t = TFields /\ \A a \in TFields \ {"cancel_pending"} : t[a] = s[a]

(* A request to cancel everything arms the cancel and changes nothing else. *)
LEMMA TArmedFields ==
  ASSUME NEW s, DOMAIN s = TFields
  PROVE  TArmed(s, T!RequestCancelAll(s)) /\ TArmed(s, s)
BY DEF TArmed, TFields, T!RequestCancelAll

(* A view without a book arms a cancel; any other is counted and judged, and one
   clip may go. *)
LEMMA TViewFields ==
  ASSUME NEW s, DOMAIN s = TFields, NEW v
  PROVE  LET d == T!OnL2MarketView(s, v) IN
         \/ TArmed(s, d.strat) /\ d.orders = <<>>
         \/ /\ \E c, j : TCounted(s, c) /\ TJudged(c, j) /\ TArmed(j, d.strat)
            /\ \/ d.orders = <<>>
               \/ /\ ~T!Waits(d.strat) /\ T!Clip(d.strat, v).quantity # 0
                  /\ d.orders = <<T!Clip(d.strat, v)>>
<1> DEFINE mid == (v.bid + v.ask) \div 2
           counted == [s EXCEPT !.views = @ + 1]
           c == T!UpdateSignal(counted, mid)
           j == T!UpdateTarget(c, mid)
           k == IF DOMAIN j.open # {} /\ T!Stale(j, v) THEN T!RequestCancelAll(j) ELSE j
           d == T!OnL2MarketView(s, v)
<1>1. TCounted(s, c)
  <2>1. /\ DOMAIN counted = TFields /\ counted.views = s.views + 1
        /\ \A a \in TFields \ {"views"} : counted[a] = s[a]
    BY DEF TFields
  <2> HIDE DEF counted
  <2>2. DOMAIN c = TFields /\ \A a \in TFields \ {"fast", "slow", "warm"} : c[a] = counted[a]
    BY <2>1 DEF T!UpdateSignal, TFields
  <2> HIDE DEF c
  <2> QED BY <2>1, <2>2 DEF TCounted, TFields
<1>2. \/ d.strat = T!RequestCancelAll(s) /\ d.orders = <<>>
      \/ /\ d.strat = k
         /\ \/ d.orders = <<>>
            \/ ~T!Waits(k) /\ T!Clip(k, v).quantity # 0 /\ d.orders = <<T!Clip(k, v)>>
  BY DEF T!OnL2MarketView
<1> HIDE DEF c
<1>3. DOMAIN c = TFields BY <1>1 DEF TCounted
<1>4. TJudged(c, j) BY <1>3, TJudgedFields
<1> HIDE DEF j
<1>5. TArmed(j, k)
  <2>1. DOMAIN j = TFields BY <1>4 DEF TJudged
  <2> QED BY <2>1, TArmedFields
<1> HIDE DEF k, d
<1>6. CASE d.strat = T!RequestCancelAll(s) /\ d.orders = <<>>
  BY <1>6, TArmedFields DEF d
<1>7. ASSUME d.strat = k,
             \/ d.orders = <<>>
             \/ ~T!Waits(k) /\ T!Clip(k, v).quantity # 0 /\ d.orders = <<T!Clip(k, v)>>
      PROVE  /\ \E x, y : TCounted(s, x) /\ TJudged(x, y) /\ TArmed(y, d.strat)
             /\ \/ d.orders = <<>>
                \/ /\ ~T!Waits(d.strat) /\ T!Clip(d.strat, v).quantity # 0
                   /\ d.orders = <<T!Clip(d.strat, v)>>
  BY <1>1, <1>4, <1>5, <1>7
<1> QED BY <1>2, <1>6, <1>7 DEF d

(* The absolute value. *)
LEMMA TMagn ==
  ASSUME NEW n \in Int
  PROVE  T!Magn(n) \in Nat
BY DEF T!Magn

(* The smaller of two numbers. *)
LEMMA TMin ==
  ASSUME NEW a \in Int, NEW b \in Int
  PROVE  T!Min({a, b}) = IF a <= b THEN a ELSE b
BY DEF T!Min

(* A configuration the factory gives. *)
LEMMA TConfigured ==
  ASSUME NEW cfg, Configured([kind |-> "trend", cfg |-> cfg])
  PROVE  cfg.order_size \in Nat /\ cfg.max_position \in Nat /\ cfg.cooldown \in Nat
<1> DEFINE d == [kind |-> "trend", cfg |-> cfg]
<1>1. d.kind = "trend" /\ d.cfg = cfg OBVIOUS
<1> HIDE DEF d
<1>2. d.kind \notin {"execution", "naive", "optimized", "active", "inventory"} \cup L!L1Kinds
  BY <1>1 DEF L!L1Kinds
<1>3. Configured(d) BY DEF d
<1> QED BY <1>1, <1>2, <1>3 DEF Configured

(* A fill of an open clip. *)
LEMMA TTrade ==
  ASSUME NEW s, NEW a \in Int, NEW f, TBook(s, a, f), NEW r, r.id \in DOMAIN f
  PROVE  TBook(T!OnTrade(s, r), a + Signed(r.side, r.quantity), Left(f, r.id, r.quantity))
<1> DEFINE t == T!OnTrade(s, r)
<1>0. DOMAIN s = TFields BY DEF TBook
<1>1. /\ DOMAIN t = TFields
      /\ t.position = IF r.side = "Buy" THEN s.position + r.quantity
                      ELSE s.position - r.quantity
      /\ t.target = IF t.position = 0 THEN 0 ELSE s.target
      /\ t.open = T!Took(s.open, r.id, r.quantity)
      /\ \A b \in TFields \ {"position", "entry_price", "entry_view", "target", "open"} :
           t[b] = s[b]
  BY <1>0, TTradeFields
<1> HIDE DEF t
<1>2. t.cfg = s.cfg BY <1>1 DEF TFields
<1>3. Lists(t.open, Left(f, r.id, r.quantity))
  <2>1. t.open = IF s.open[r.id].quantity > r.quantity
                 THEN [s.open EXCEPT ![r.id].quantity = s.open[r.id].quantity - r.quantity]
                 ELSE Closed(s.open, r.id)
    BY <1>1 DEF T!Took, T!Restrict, Restrict, Closed
  <2>2. Lists(s.open, f) BY DEF TBook
  <2> QED BY <2>1, <2>2, ListsLeft
<1>4. t.position = a + Signed(r.side, r.quantity)
  BY <1>1 DEF TBook, Signed
<1> QED BY <1>1, <1>2, <1>3, <1>4 DEF TBook, t

(* The end of a clip. *)
LEMMA TEnd ==
  ASSUME NEW s, NEW a, NEW f, TBook(s, a, f), NEW r, r.kind \in Ended
  PROVE  TBook(T!OnOrderUpdate(s, r), a, Closed(f, r.id))
<1> DEFINE t == T!OnOrderUpdate(s, r)
<1>1. /\ DOMAIN t = TFields /\ t.open = T!Restrict(s.open, DOMAIN s.open \ {r.id})
      /\ t.cfg = s.cfg /\ t.target = s.target /\ t.position = s.position
  BY TEndFields DEF TBook, TFields
<1> HIDE DEF t
<1>2. Lists(t.open, Closed(f, r.id))
  <2>1. t.open = Closed(s.open, r.id) BY <1>1 DEF T!Restrict, Restrict, Closed
  <2>2. Lists(s.open, f) BY DEF TBook
  <2> QED BY <2>1, <2>2, ListsChange
<1> QED BY <1>1, <1>2 DEF TBook, t

(* A clip sent. *)
LEMMA TSubmit ==
  ASSUME NEW s, NEW a, NEW f, TBook(s, a, f), NEW id, NEW o, "quantity" \in DOMAIN o
  PROVE  TBook(T!OnOrderSubmitted(s, id, o), a, Joined(f, id, o.quantity))
<1> DEFINE t == T!OnOrderSubmitted(s, id, o)
<1>1. /\ DOMAIN t = TFields /\ t.open = T!Joined(s.open, id, o)
      /\ t.cfg = s.cfg /\ t.target = s.target /\ t.position = s.position
  BY TSubmitFields DEF TBook, TFields
<1> HIDE DEF t
<1>2. Lists(t.open, Joined(f, id, o.quantity))
  <2>1. t.open = Joined(s.open, id, o) BY <1>1 DEF T!Joined, Joined
  <2>2. Lists(s.open, f) BY DEF TBook
  <2> QED BY <2>1, <2>2, ListsChange
<1> QED BY <1>1, <1>2 DEF TBook, t

(* A refusal, and the cancels handed over. *)
LEMMA TQuiet ==
  ASSUME NEW s, NEW a, NEW f, TBook(s, a, f)
  PROVE  TBook(T!OnOrderRejected(s), a, f) /\ TBook(T!CancelsTaken(s), a, f)
<1>1. TBook(T!OnOrderRejected(s), a, f)
  <2> DEFINE t == T!OnOrderRejected(s)
  <2>1. /\ DOMAIN t = TFields /\ t.open = s.open
        /\ t.cfg = s.cfg /\ t.target = s.target /\ t.position = s.position
    BY TRefuseFields DEF TBook, TFields
  <2> QED BY <2>1 DEF TBook
<1>2. TBook(T!CancelsTaken(s), a, f)
  BY DEF TBook, T!CancelsTaken, TFields
<1> QED BY <1>1, <1>2

(* A view. *)
LEMMA TView ==
  ASSUME NEW s, NEW a \in Int, NEW f, TBook(s, a, f), NEW v
  PROVE  LET d == T!OnL2MarketView(s, v) IN TBook(d.strat, a, f) /\ Sendable(d.orders)
<1> DEFINE d == T!OnL2MarketView(s, v)
<1>0. DOMAIN s = TFields BY DEF TBook
<1>1. \/ TArmed(s, d.strat) /\ d.orders = <<>>
      \/ /\ \E c, j : TCounted(s, c) /\ TJudged(c, j) /\ TArmed(j, d.strat)
         /\ \/ d.orders = <<>>
            \/ /\ ~T!Waits(d.strat) /\ T!Clip(d.strat, v).quantity # 0
               /\ d.orders = <<T!Clip(d.strat, v)>>
  BY <1>0, TViewFields
<1> HIDE DEF d
<1>2. CASE TArmed(s, d.strat) /\ d.orders = <<>>
  <2>1. TBook(d.strat, a, f) BY <1>2 DEF TArmed, TBook, TFields
  <2> QED BY <1>2, <2>1, SendNoneOrOne DEF d
<1>3. ASSUME NEW c, NEW j, TCounted(s, c), TJudged(c, j), TArmed(j, d.strat),
             \/ d.orders = <<>>
             \/ T!Clip(d.strat, v).quantity # 0 /\ d.orders = <<T!Clip(d.strat, v)>>
      PROVE  TBook(d.strat, a, f) /\ Sendable(d.orders)
  <2>1. /\ c.cfg = s.cfg /\ c.position = s.position /\ c.open = s.open /\ c.target = s.target
    BY <1>3 DEF TCounted, TFields
  <2>2. /\ j.cfg = s.cfg /\ j.position = s.position /\ j.open = s.open
        /\ j.target \in {0, s.cfg.max_position, -s.cfg.max_position, s.target}
    BY <1>3, <2>1 DEF TJudged, TKept
  <2>3. /\ d.strat.cfg = s.cfg /\ d.strat.position = s.position /\ d.strat.open = s.open
        /\ d.strat.target = j.target /\ DOMAIN d.strat = TFields
    BY <1>3, <2>2 DEF TArmed, TFields
  <2>4. s.cfg.max_position \in Nat /\ s.cfg.order_size \in Nat BY TConfigured DEF TBook
  <2>5. d.strat.target \in Int BY <2>2, <2>3, <2>4 DEF TBook
  <2>6. T!Clip(d.strat, v).quantity \in Nat
    <3>1. PICK n \in Int : n = d.strat.target - d.strat.position
      BY <2>3, <2>5 DEF TBook
    <3>2. T!Magn(n) \in Nat BY TMagn
    <3>3. PICK m \in Nat, w \in Nat : m = T!Magn(n) /\ w = s.cfg.order_size
      BY <2>4, <3>2
    <3>4. T!Min({w, m}) \in Nat
      <4>1. w \in Int /\ m \in Int BY <3>3
      <4>2. T!Min({w, m}) = IF w <= m THEN w ELSE m BY <4>1, TMin, Zenon
      <4> QED BY <4>2
    <3> QED BY <2>3, <3>1, <3>3, <3>4 DEF T!Clip
  <2>7. Sendable(d.orders)
    <3>1. CASE d.orders = <<>> BY <3>1, SendNoneOrOne
    <3>2. CASE d.orders # <<>>
      <4>1. ForSome(T!Clip(d.strat, v)) BY <1>3, <2>6, <3>2 DEF T!Clip, ForSome
      <4> QED BY <1>3, <3>2, <4>1, SendNoneOrOne
    <3> QED BY <3>1, <3>2
  <2> QED BY <2>3, <2>5, <2>7 DEF TBook
<1> QED BY <1>1, <1>2, <1>3 DEF d

-----------------------------------------------------------------------------
(* The two baselines. *)

(* The state of baseline k, with the position a and the open quotes f. *)
BBook(k, s, a, f) ==
  /\ {"cfg", "open", "position"} \subseteq DOMAIN s /\ Configured([kind |-> k, cfg |-> s.cfg])
  /\ s.position = a /\ Lists(s.open, f)

(* Nothing but other fields is changed. *)
BSame(s, t) ==
  {"cfg", "open", "position"} \subseteq DOMAIN t /\ \A b \in {"cfg", "open", "position"} : t[b] = s[b]

(* Books are kept when only other fields change. *)
LEMMA BSameBook ==
  ASSUME NEW k, NEW s, NEW a, NEW f, BBook(k, s, a, f), NEW t, BSame(s, t)
  PROVE  BBook(k, t, a, f)
BY DEF BBook, BSame

(* Configurations the factory gives. *)
LEMMA BConfigured ==
  ASSUME NEW cfg
  PROVE  /\ Configured([kind |-> "naive", cfg |-> cfg]) => cfg.size \in Nat \ {0}
         /\ Configured([kind |-> "optimized", cfg |-> cfg]) =>
              cfg.size \in Nat /\ {cfg.limit, cfg.window} \subseteq Nat \ {0}
<1>1. ASSUME NEW d, d.kind = "naive", d.cfg = cfg, Configured(d) PROVE cfg.size \in Nat \ {0}
  <2>1. d.kind \notin {"execution", "trend", "optimized", "active", "inventory"} \cup L!L1Kinds
    BY <1>1 DEF L!L1Kinds
  <2> QED BY <1>1, <2>1 DEF Configured
<1>2. ASSUME NEW d, d.kind = "optimized", d.cfg = cfg, Configured(d)
      PROVE  cfg.size \in Nat /\ {cfg.limit, cfg.window} \subseteq Nat \ {0}
  <2>1. d.kind \notin {"execution", "trend", "naive", "active", "inventory"} \cup L!L1Kinds
    BY <1>2 DEF L!L1Kinds
  <2> QED BY <1>2, <2>1 DEF Configured
<1> QED BY <1>1, <1>2

(* A fill of an open quote. *)
LEMMA BTrade ==
  ASSUME NEW k, NEW s, NEW a \in Int, NEW f, BBook(k, s, a, f), NEW r, r.kind = "Trade",
         r.id \in DOMAIN f
  PROVE  BBook(k, BaselineUpdate(s, r), a + Signed(r.side, r.quantity),
               Left(f, r.id, r.quantity))
<1>0. Lists(s.open, f) /\ DOMAIN s.open = DOMAIN f BY DEF BBook, Lists
<1> DEFINE p == IF r.side = "Buy" THEN s.position + r.quantity ELSE s.position - r.quantity
           o == Took(s.open, r.id, r.quantity)
           t == [[s EXCEPT !.position = p] EXCEPT !.open = o]
<1>1. BaselineUpdate(s, r) = t BY <1>0 DEF BaselineUpdate, Ended
<1>2. p = a + Signed(r.side, r.quantity) BY DEF BBook, Signed
<1>3. o = IF s.open[r.id].quantity > r.quantity
          THEN [s.open EXCEPT ![r.id].quantity = s.open[r.id].quantity - r.quantity]
          ELSE Closed(s.open, r.id)
  BY DEF Took, Without1, Closed
<1>4. Lists(o, Left(f, r.id, r.quantity))
  <2> HIDE DEF o
  <2> QED BY <1>0, <1>3, ListsLeft
<1> HIDE DEF p, o
<1> QED BY <1>1, <1>2, <1>4 DEF BBook

(* The end of a quote. *)
LEMMA BEnd ==
  ASSUME NEW k, NEW s, NEW a, NEW f, BBook(k, s, a, f), NEW r, r.kind \in Ended
  PROVE  BBook(k, BaselineUpdate(s, r), a, Closed(f, r.id))
<1>1. BaselineUpdate(s, r) = [s EXCEPT !.open = Closed(s.open, r.id)]
  BY DEF BaselineUpdate, Without1, Closed, Ended
<1>2. Lists(Closed(s.open, r.id), Closed(f, r.id)) BY ListsChange DEF BBook
<1> QED BY <1>1, <1>2 DEF BBook

(* A quote sent. *)
LEMMA BSubmit ==
  ASSUME NEW k, NEW s, NEW a, NEW f, BBook(k, s, a, f), NEW id, NEW o, "quantity" \in DOMAIN o
  PROVE  /\ BBook(k, NaiveSubmitted(s, id, o), a, Joined(f, id, o.quantity))
         /\ BBook(k, OptimizedSubmitted(s, id, o), a, Joined(f, id, o.quantity))
<1>1. Lists(Joined(s.open, id, o), Joined(f, id, o.quantity)) BY ListsChange DEF BBook
<1> DEFINE t == [s EXCEPT !.open = Joined(s.open, id, o)]
<1>2. BBook(k, t, a, Joined(f, id, o.quantity))
  BY <1>1 DEF BBook
<1>3. NaiveSubmitted(s, id, o) = t BY DEF NaiveSubmitted
<1>4. OptimizedSubmitted(s, id, o) = [[t EXCEPT !.quote_mid = s.last_mid] EXCEPT !.age = 0]
  BY DEF OptimizedSubmitted
<1> HIDE DEF t
<1>5. BSame(t, OptimizedSubmitted(s, id, o))
  BY <1>2, <1>4 DEF BSame, BBook
<1> QED BY <1>2, <1>3, <1>5, BSameBook

(* The naive maker on a view: a pair, when nothing is open. *)
LEMMA BNaiveView ==
  ASSUME NEW s, NEW a, NEW f, BBook("naive", s, a, f), NEW v
  PROVE  LET d == NaiveOnTop(s, v) IN BBook("naive", d.strat, a, f) /\ Sendable(d.orders)
<1> DEFINE d == NaiveOnTop(s, v)
           bid == MakerOrder("Buy", MidOf(v), s.cfg.size)
           ask == MakerOrder("Sell", MidOf(v), s.cfg.size)
<1>1. BSame(s, d.strat) BY DEF NaiveOnTop, BSame, BBook
<1>2. d.orders = <<>> \/ d.orders = <<bid, ask>> BY DEF NaiveOnTop
<1>3. s.cfg.size \in Nat \ {0} BY BConfigured DEF BBook
<1>4. ForSome(bid) /\ ForSome(ask) BY <1>3 DEF MakerOrder, ForSome
<1> HIDE DEF d, bid, ask
<1>5. OrdersOf({bid, ask}, <<bid, ask>>) BY <1>4 DEF OrdersOf
<1>6. Sendable(d.orders) BY <1>2, <1>5, SendNoneOrOne DEF Sendable
<1> QED BY <1>1, <1>6, BSameBook DEF d

(* The inventory that scales a level. *)
LEMMA BInventory ==
  ASSUME NEW k, NEW s, NEW a \in Int, NEW f, BBook(k, s, a, f), OrderBook(f)
  PROVE  Inventory(s) \in Int
<1> DEFINE g == [id \in DOMAIN s.open |-> IF s.open[id].side = "Buy" THEN s.open[id].quantity
                                         ELSE -s.open[id].quantity]
<1>1. DOMAIN g = DOMAIN f /\ \A id \in DOMAIN f : g[id] \in Int
  BY DEF BBook, Lists, OrderBook
<1>2. IsFiniteSet(DOMAIN f) BY DEF OrderBook
<1>3. Inventory(s) = s.position + SumFunctionOnSet(g, DOMAIN g)
  BY DEF Inventory, SumFunction
<1> HIDE DEF g
<1>4. SumFunctionOnSet(g, DOMAIN g) \in Int BY <1>1, <1>2, SumRemove
<1> QED BY <1>3, <1>4 DEF BBook

(* The larger and the smaller of two numbers, here. *)
LEMMA Larger ==
  ASSUME NEW a \in Int, NEW b \in Int
  PROVE  Max({a, b}) = IF a >= b THEN a ELSE b
BY DEF Max

(* The smaller of two integers. *)
LEMMA Smaller ==
  ASSUME NEW a \in Int, NEW b \in Int
  PROVE  Min({a, b}) = IF a <= b THEN a ELSE b
BY DEF Min

(* The size of a level. *)
LEMMA BLevelQuantity ==
  ASSUME NEW s, NEW a \in Int, NEW f, BBook("optimized", s, a, f), OrderBook(f),
         NEW side, NEW level \in Nat \ {0}
  PROVE  LevelQuantity(s, side, level) \in Int
<1>1. s.cfg.size \in Nat /\ s.cfg.limit \in Nat \ {0} BY BConfigured DEF BBook
<1>2. Inventory(s) \in Int BY BInventory
<1> DEFINE same == IF side = "Buy" THEN Inventory(s) ELSE -Inventory(s)
           top == s.cfg.size * (s.cfg.limit - Max({0, same}))
<1>3. same \in Int BY <1>2
<1>4. LevelQuantity(s, side, level)
        = IF same > s.cfg.limit THEN 0 ELSE top \div (s.cfg.limit * level)
  BY DEF LevelQuantity
<1> HIDE DEF same
<1>5. top \in Int
  <2>1. 0 \in Int OBVIOUS
  <2>2. Max({0, same}) = IF 0 >= same THEN 0 ELSE same BY <1>3, <2>1, Larger, Zenon
  <2> QED BY <1>1, <1>3, <2>2
<1>6. s.cfg.limit * level \in Nat \ {0} BY <1>1
<1> HIDE DEF top
<1>7. top \div (s.cfg.limit * level) \in Int BY <1>5, <1>6, Quotient
<1> QED BY <1>4, <1>7

(* The optimized maker on a view: up to three levels a side, or none. *)
LEMMA BOptimizedView ==
  ASSUME NEW s, NEW a \in Int, NEW f, BBook("optimized", s, a, f), OrderBook(f), NEW v
  PROVE  LET d == OptimizedOnTop(s, v) IN BBook("optimized", d.strat, a, f) /\ Sendable(d.orders)
<1> DEFINE t == Smoothed(s, v)
           d == OptimizedOnTop(s, v)
<1>1. BSame(s, t) BY DEF Smoothed, BSame, BBook
<1>2. \/ d.strat = s /\ d.orders = <<>>
      \/ d.strat = t /\ d.orders = <<>>
      \/ d.strat = t /\ d.orders = LevelOrders(t, v, 1) \o LevelOrders(t, v, 2)
                                   \o LevelOrders(t, v, 3)
  BY DEF OptimizedOnTop
<1> HIDE DEF t, d
<1>3. BBook("optimized", t, a, f) BY <1>1, BSameBook
<1>4. \A level \in Nat \ {0} : Sendable(LevelOrders(t, v, level))
  <2> SUFFICES ASSUME NEW level \in Nat \ {0} PROVE Sendable(LevelOrders(t, v, level))
    OBVIOUS
  <2> DEFINE bid == MakerOrder("Buy", MidOf(v), LevelQuantity(t, "Buy", level))
             ask == MakerOrder("Sell", MidOf(v), LevelQuantity(t, "Sell", level))
  <2>1. /\ "quantity" \in DOMAIN bid /\ bid.quantity \in Int
        /\ "quantity" \in DOMAIN ask /\ ask.quantity \in Int
    BY <1>3, BLevelQuantity DEF MakerOrder
  <2>2. LevelOrders(t, v, level) = Scaled(bid) \o Scaled(ask) BY DEF LevelOrders
  <2> HIDE DEF bid, ask
  <2>3. Sendable(Scaled(bid)) /\ Sendable(Scaled(ask)) BY <2>1, SendScaled DEF Scaled
  <2> QED BY <2>2, <2>3, SendBoth
<1>5. Sendable((LevelOrders(t, v, 1) \o LevelOrders(t, v, 2)) \o LevelOrders(t, v, 3))
  <2>1. /\ Sendable(LevelOrders(t, v, 1)) /\ Sendable(LevelOrders(t, v, 2))
        /\ Sendable(LevelOrders(t, v, 3))
    BY <1>4
  <2> QED BY <2>1, SendBoth
<1>6. Sendable(d.orders) BY <1>2, <1>5, SendNoneOrOne
<1>7. BBook("optimized", d.strat, a, f) BY <1>2, <1>3
<1> QED BY <1>6, <1>7 DEF d

-----------------------------------------------------------------------------
(* The makers around the base. *)

(* The base, with the position a and the open quotes f. *)
BaseBook(b, a, f) ==
  {"open", "position", "cancel_pending"} \subseteq DOMAIN b /\ b.position = a /\ b.open = f

(* The state of maker k around it. *)
MBook(k, s, a, f) ==
  /\ {"cfg", "base"} \subseteq DOMAIN s /\ Configured([kind |-> k, cfg |-> s.cfg])
  /\ BaseBook(s.base, a, f)

(* A maker with a new base has the books of the base. *)
LEMMA MRebased ==
  ASSUME NEW k, NEW s, NEW a, NEW f, MBook(k, s, a, f), NEW b, NEW x, NEW g, BaseBook(b, x, g)
  PROVE  MBook(k, [s EXCEPT !.base = b], x, g)
BY DEF MBook

(* A fill of an open quote. *)
LEMMA MTrade ==
  ASSUME NEW b, NEW a \in Int, NEW f, BaseBook(b, a, f), NEW r, r.kind = "Trade", r.id \in DOMAIN f
  PROVE  BaseBook(OnOrderUpdate(b, r), a + Signed(r.side, r.quantity),
                  Left(f, r.id, r.quantity))
<1> DEFINE p == IF r.side = "Buy" THEN b.position + r.quantity ELSE b.position - r.quantity
           o == Left(f, r.id, r.quantity)
<1>1. OnOrderUpdate(b, r) = [[b EXCEPT !.position = p] EXCEPT !.open = o]
  <2>1. o = IF f[r.id] > r.quantity THEN [f EXCEPT ![r.id] = f[r.id] - r.quantity]
            ELSE Without1(f, r.id)
    BY DEF Left, Dented, Closed, Without1
  <2> HIDE DEF o
  <2> QED BY <2>1 DEF OnOrderUpdate, Ended, BaseBook
<1>2. p = a + Signed(r.side, r.quantity) BY DEF BaseBook, Signed
<1> HIDE DEF p, o
<1> QED BY <1>1, <1>2 DEF BaseBook, o

(* The end of a quote, and one sent. *)
LEMMA MEndSubmit ==
  ASSUME NEW b, NEW a, NEW f, BaseBook(b, a, f)
  PROVE  /\ \A r : r.kind \in Ended => BaseBook(OnOrderUpdate(b, r), a, Closed(f, r.id))
         /\ \A id, q : BaseBook(OnOrderSubmitted(b, id, q), a, Joined(f, id, q))
<1>1. ASSUME NEW r, r.kind \in Ended PROVE BaseBook(OnOrderUpdate(b, r), a, Closed(f, r.id))
  BY <1>1 DEF OnOrderUpdate, Without1, Closed, BaseBook
<1>2. ASSUME NEW id, NEW q PROVE BaseBook(OnOrderSubmitted(b, id, q), a, Joined(f, id, q))
  BY DEF OnOrderSubmitted, Joined, BaseBook
<1> QED BY <1>1, <1>2

(* One side of a pair. *)
LEMMA MSide ==
  ASSUME NEW b, NEW side, NEW prices, NEW orders \in SideQuotes(b, side, prices)
  PROVE  Sendable(orders)
<1>1. \/ orders = <<>>
      \/ \E p \in prices, q \in QuoteSizes : orders = <<[side |-> side, price |-> p, quantity |-> q]>>
  BY DEF SideQuotes
<1>2. ASSUME NEW p, NEW q \in QuoteSizes
      PROVE  Sendable(<<[side |-> side, price |-> p, quantity |-> q]>>)
  <2> DEFINE o == [side |-> side, price |-> p, quantity |-> q]
  <2>1. ForSome(o) BY MakerAssumption DEF ForSome
  <2> HIDE DEF o
  <2>2. Sendable(<<o>>) BY <2>1, SendNoneOrOne
  <2> QED BY <2>2 DEF o
<1> QED BY <1>1, <1>2, SendNoneOrOne

(* A decision of the base: its books stand, and what it sends can be sent. *)
LEMMA MDecision ==
  ASSUME NEW b, NEW a \in Int, NEW f, BaseBook(b, a, f), NEW v, NEW d \in Decisions(b, v)
  PROVE  BaseBook(d.strat, a, f) /\ Sendable(d.orders)
<1>1. ASSUME NEW c, d = [strat |-> [b EXCEPT !.cancel_pending = c], orders |-> <<>>]
      PROVE  BaseBook(d.strat, a, f) /\ Sendable(d.orders)
  <2>1. BaseBook([b EXCEPT !.cancel_pending = c], a, f) BY DEF BaseBook
  <2> QED BY <1>1, <2>1, SendNoneOrOne
<1>2. ASSUME Flattens(b), d = [strat |-> b, orders |-> <<FlattenOrder(b, v)>>]
      PROVE  BaseBook(d.strat, a, f) /\ Sendable(d.orders)
  <2>1. b.position = a /\ FlattenBand \in Nat BY MakerAssumption DEF BaseBook
  <2>2. "quantity" \in DOMAIN FlattenOrder(b, v)
        /\ FlattenOrder(b, v).quantity = Size(b.position) - FlattenBand
    BY DEF FlattenOrder
  <2>3. ForSome(FlattenOrder(b, v))
    BY <1>2, <2>1, <2>2 DEF ForSome, Flattens, Size
  <2> QED BY <1>2, <2>3, SendNoneOrOne
<1>3. ASSUME NEW q \in FreshQuotes(b, v), d = [strat |-> b, orders |-> q]
      PROVE  BaseBook(d.strat, a, f) /\ Sendable(d.orders)
  <2> DEFINE bids == SideQuotes(b, "Buy", {p \in QuotePrices : p <= v.bid})
             asks == SideQuotes(b, "Sell", {p \in QuotePrices : p >= v.ask})
  <2>0. q \in BidThenAsk(bids, asks) BY DEF FreshQuotes
  <2> HIDE DEF bids, asks
  <2>1. PICK bid \in bids, ask \in asks : q = bid \o ask
    BY <2>0 DEF BidThenAsk
  <2>2. Sendable(bid) /\ Sendable(ask) BY MSide DEF bids, asks
  <2>3. Sendable(q) BY <2>1, <2>2, SendBoth
  <2> QED BY <1>3, <2>3
<1>4. CASE d = [strat |-> b, orders |-> <<>>]
  BY <1>4, SendNoneOrOne
<1> QED BY <1>1, <1>2, <1>3, <1>4 DEF Decisions

(* Orders with a lifetime are sendable as before. *)
LEMMA MWithTif ==
  ASSUME NEW orders, Sendable(orders)
  PROVE  Sendable(WithTif(orders))
<1>1. PICK S : OrdersOf(S, orders) BY DEF Sendable
<1> DEFINE with(o) == MakerOrder(o.side, o.price, o.quantity)
           R == {with(o) : o \in S}
           w == [k \in 1 .. Len(orders) |-> with(orders[k])]
<1>2. DOMAIN orders = 1 .. Len(orders) /\ Len(orders) \in Nat
      /\ \A k \in 1 .. Len(orders) : orders[k] \in S
  BY <1>1, LenProperties, ElementOfSeq DEF OrdersOf
<1>3. WithTif(orders) = w BY <1>2 DEF WithTif
<1>4. \A k \in 1 .. Len(orders) : w[k] \in R
  <2> HIDE DEF with
  <2> QED BY <1>2
<1>5. \A o \in R : ForSome(o) BY <1>1 DEF OrdersOf, ForSome, MakerOrder
<1> HIDE DEF R, with
<1>6. w \in [1 .. Len(orders) -> R] BY <1>4
<1> HIDE DEF w
<1>7. w \in Seq(R) BY <1>2, <1>6, SeqDef
<1> QED BY <1>3, <1>5, <1>7 DEF OrdersOf, Sendable

(* A view seen leaves the base and the configuration alone. *)
MSame(s, t) == {"cfg", "base"} \subseteq DOMAIN t /\ t.cfg = s.cfg /\ t.base = s.base

(* The active maker on a view. *)
LEMMA MActiveView ==
  ASSUME NEW s, NEW a \in Int, NEW f, MBook("active", s, a, f), NEW v,
         NEW d \in ActiveDecisions(s, v)
  PROVE  MBook("active", d.strat, a, f) /\ Sendable(d.orders)
<1> DEFINE moved == UpdateVolatility(s, v)
           t == IF Usable(v) THEN [moved EXCEPT !.views = @ + 1] ELSE moved
<1>1. MSame(s, moved) BY DEF UpdateVolatility, MSame, MBook
<1>2. \/ d = [strat |-> t, orders |-> <<>>]
      \/ d = [strat |-> Pause(t), orders |-> <<>>]
      \/ \E e \in Decisions(t.base, v) :
           d = [strat |-> [t EXCEPT !.base = e.strat], orders |-> WithTif(e.orders)]
  BY DEF ActiveDecisions
<1> HIDE DEF moved
<1>3. MSame(s, t) BY <1>1 DEF MSame
<1> HIDE DEF t
<1>4. MBook("active", t, a, f) BY <1>3 DEF MBook, MSame
<1>5. CASE d = [strat |-> t, orders |-> <<>>]
  BY <1>4, <1>5, SendNoneOrOne
<1>6. CASE d = [strat |-> Pause(t), orders |-> <<>>]
  <2> DEFINE b == [t.base EXCEPT !.cancel_pending = DOMAIN t.base.open # {}]
             p == IF DOMAIN t.base.open # {} THEN t.pauses + 1 ELSE t.pauses
             u == [t EXCEPT !.pauses = p]
  <2>1. BaseBook(b, a, f) BY <1>4 DEF MBook, BaseBook
  <2>2. MBook("active", u, a, f) /\ u.base = t.base BY <1>4 DEF MBook
  <2>3. Pause(t) = [u EXCEPT !.base = b]
    BY <1>4 DEF Pause, MBook
  <2> HIDE DEF b, u
  <2>4. MBook("active", Pause(t), a, f) BY <2>1, <2>2, <2>3, MRebased
  <2> QED BY <1>6, <2>4, SendNoneOrOne
<1>7. ASSUME NEW e \in Decisions(t.base, v),
             d = [strat |-> [t EXCEPT !.base = e.strat], orders |-> WithTif(e.orders)]
      PROVE  MBook("active", d.strat, a, f) /\ Sendable(d.orders)
  <2>1. BaseBook(e.strat, a, f) /\ Sendable(e.orders) BY <1>4, MDecision DEF MBook
  <2>2. MBook("active", [t EXCEPT !.base = e.strat], a, f) BY <1>4, <2>1, MRebased
  <2> QED BY <1>7, <2>1, <2>2, MWithTif
<1> QED BY <1>2, <1>5, <1>6, <1>7

(* A configuration the factory gives. *)
LEMMA MConfigured ==
  ASSUME NEW cfg, Configured([kind |-> "inventory", cfg |-> cfg])
  PROVE  cfg.limit \in Nat
<1> DEFINE d == [kind |-> "inventory", cfg |-> cfg]
<1>1. d.kind = "inventory" /\ d.cfg = cfg OBVIOUS
<1> HIDE DEF d
<1>2. d.kind \notin {"execution", "trend", "naive", "optimized", "active"} \cup L!L1Kinds
  BY <1>1 DEF L!L1Kinds
<1>3. Configured(d) BY DEF d
<1> QED BY <1>1, <1>2, <1>3 DEF Configured

(* An order of the base, sized by what is left of the limit. *)
LEMMA MAdjusted ==
  ASSUME NEW s, NEW a \in Int, NEW f, MBook("inventory", s, a, f),
         NEW orders, Sendable(orders), NEW k
  PROVE  Sendable(AdjustedAt(s, orders, k))
<1>1. PICK S : OrdersOf(S, orders) BY DEF Sendable
<1>2. CASE k \notin DOMAIN orders
  BY <1>2, SendNoneOrOne DEF AdjustedAt
<1>3. CASE k \in DOMAIN orders
  <2> DEFINE o == orders[k]
             e == [o EXCEPT !.quantity = Adjusted(s, o)]
  <2>1. ForSome(o)
    <3>1. o \in S BY <1>1, <1>3, ElementOfSeq, LenProperties DEF OrdersOf
    <3> QED BY <1>1, <3>1 DEF OrdersOf
  <2>2. AdjustedAt(s, orders, k) = Scaled(e) BY <1>3 DEF AdjustedAt
  <2> HIDE DEF o
  <2>3. Adjusted(s, o) \in Int
    <3>1. s.cfg.limit \in Nat /\ s.base.position = a BY MConfigured DEF MBook, BaseBook
    <3>2. o.quantity \in Int BY <2>1 DEF ForSome
    <3>3. CASE s.cfg.limit = 0 BY <3>2, <3>3 DEF Adjusted
    <3>4. CASE s.cfg.limit > 0
      <4>1. Size(a) \in Int /\ s.cfg.limit \in Int BY <3>1 DEF Size
      <4>2. Min({Size(a), s.cfg.limit}) \in Int BY <4>1, Smaller
      <4>3. PICK n \in Int : n = o.quantity * (s.cfg.limit - Min({Size(a), s.cfg.limit}))
        BY <3>2, <4>1, <4>2
      <4>4. n \div s.cfg.limit \in Int BY <3>1, <3>4, Quotient
      <4> QED BY <3>1, <3>2, <3>4, <4>3, <4>4 DEF Adjusted
    <3> QED BY <3>1, <3>3, <3>4
  <2>4. "quantity" \in DOMAIN e /\ e.quantity \in Int BY <2>1, <2>3 DEF ForSome
  <2> HIDE DEF e
  <2> QED BY <2>2, <2>4, SendScaled DEF Scaled
<1> QED BY <1>2, <1>3

(* The inventory-aware maker on a view. *)
LEMMA MInventoryView ==
  ASSUME NEW s, NEW a \in Int, NEW f, MBook("inventory", s, a, f), NEW v,
         NEW d \in InventoryDecisions(s, v)
  PROVE  MBook("inventory", d.strat, a, f) /\ Sendable(d.orders)
<1>1. PICK e \in Decisions(s.base, v) :
        d = [strat |-> [s EXCEPT !.base = e.strat], orders |-> WithTif(AdjustOrders(s, e.orders))]
  BY DEF InventoryDecisions
<1>2. BaseBook(e.strat, a, f) /\ Sendable(e.orders) BY MDecision DEF MBook
<1>3. MBook("inventory", [s EXCEPT !.base = e.strat], a, f) BY <1>2, MRebased
<1>4. Sendable(AdjustOrders(s, e.orders)) BY <1>2, MAdjusted, SendBoth DEF AdjustOrders
<1> QED BY <1>1, <1>3, <1>4, MWithTif

-----------------------------------------------------------------------------
(* The legacy makers. *)

LFields == {"cfg", "open", "position", "bought", "sold", "trades"}

(* A public trade of the flow they read. *)
Flow == [side : {"Buy", "Sell"}, quantity : TradeSizes]

(* The state of a legacy maker k, with the position a and the open quotes f. *)
LBook(k, s, a, f) ==
  /\ BBook(k, s, a, f) /\ k \in L!L1Kinds /\ LFields \subseteq DOMAIN s
  /\ s.bought \in Nat /\ s.sold \in Nat /\ s.trades \in Seq(Flow)

(* Nothing but other fields is changed. *)
LSame(s, t) == LFields \subseteq DOMAIN t /\ \A b \in LFields : t[b] = s[b]

(* Books are kept when only other fields change. *)
LEMMA LSameBook ==
  ASSUME NEW k, NEW s, NEW a, NEW f, LBook(k, s, a, f), NEW t, LSame(s, t)
  PROVE  LBook(k, t, a, f)
BY DEF LBook, BBook, LSame, LFields

(* Configurations the factory gives. *)
LEMMA LConfigured ==
  ASSUME NEW k \in L!L1Kinds, NEW cfg, Configured([kind |-> k, cfg |-> cfg])
  PROVE  cfg.size \in Nat /\ cfg.limit \in Nat /\ cfg.maker = k
<1> DEFINE d == [kind |-> k, cfg |-> cfg]
<1>1. d.kind = k /\ d.cfg = cfg OBVIOUS
<1> HIDE DEF d
<1>2. d.kind \notin {"execution", "trend", "naive", "optimized", "active", "inventory"}
  BY <1>1 DEF L!L1Kinds
<1>3. Configured(d) BY DEF d
<1> QED BY <1>1, <1>2, <1>3 DEF Configured

(* The larger of two integers. *)
LEMMA LLarger ==
  ASSUME NEW a \in Int, NEW b \in Int
  PROVE  L!Max({a, b}) = IF a >= b THEN a ELSE b
BY DEF L!Max

(* The smaller of two integers. *)
LEMMA LSmaller ==
  ASSUME NEW a \in Int, NEW b \in Int
  PROVE  L!Min({a, b}) = IF a <= b THEN a ELSE b
BY DEF L!Min

(* A volume of the window is a natural number. *)
LEMMA LVolume ==
  ASSUME NEW volume \in Nat, NEW side, NEW trade, trade.quantity \in Nat, NEW stale,
         stale.quantity \in Nat
  PROVE  L!Volume(volume, side, trade, stale) \in Nat
<1> DEFINE n == IF trade.side = side THEN volume + trade.quantity ELSE volume
<1>1. n \in Nat OBVIOUS
<1>2. L!Volume(volume, side, trade, stale)
        = IF stale.side = side THEN L!Max({0, n - stale.quantity}) ELSE n
  BY DEF L!Volume
<1> HIDE DEF n
<1>3. 0 \in Int /\ n - stale.quantity \in Int BY <1>1
<1>4. L!Max({0, n - stale.quantity}) \in Nat BY <1>3, LLarger
<1> QED BY <1>1, <1>2, <1>4

(* A public trade moves the window and its volumes alone. *)
LEMMA LPublic ==
  ASSUME NEW k, NEW s, NEW a, NEW f, LBook(k, s, a, f), NEW trade \in Flow
  PROVE  /\ LBook(k, L!OnMarketTrade(s, trade), a, f)
         /\ \A stale : LBook(k, L!OnQuotedTrade(s, trade, stale), a, f)
<1> DEFINE all == Append(s.trades, trade)
           slides == Len(all) > s.cfg.window
           stale == IF slides THEN Head(all) ELSE [side |-> "Unknown", quantity |-> 0]
           trades == IF slides THEN Tail(all) ELSE all
           bought == L!Volume(s.bought, "Buy", trade, stale)
           sold == L!Volume(s.sold, "Sell", trade, stale)
           t == [[[s EXCEPT !.trades = trades] EXCEPT !.bought = bought] EXCEPT !.sold = sold]
<1>1. \A q \in TradeSizes : q \in Nat BY DeskAssumption
<1>2. all \in Seq(Flow) /\ all # <<>> BY AppendProperties DEF LBook
<1> HIDE DEF all
<1>3. Head(all) \in Flow /\ Tail(all) \in Seq(Flow) BY <1>2, HeadTailProperties
<1>4. trades \in Seq(Flow) /\ trade.quantity \in Nat /\ stale.quantity \in Nat
  BY <1>1, <1>2, <1>3 DEF Flow
<1>5. L!OnMarketTrade(s, trade) = s \/ L!OnMarketTrade(s, trade) = t
  BY DEF L!OnMarketTrade, all
<1> HIDE DEF trades, stale
<1>6. bought \in Nat /\ sold \in Nat BY <1>4, LVolume DEF LBook
<1> HIDE DEF bought, sold
<1>7. LBook(k, t, a, f) BY <1>4, <1>6 DEF LBook, BBook, LFields
<1> HIDE DEF t
<1>8. LBook(k, L!OnMarketTrade(s, trade), a, f) BY <1>5, <1>7
<1> QED BY <1>8 DEF L!OnQuotedTrade

(* A fill of an open quote. *)
LEMMA LTrade ==
  ASSUME NEW k, NEW s, NEW a \in Int, NEW f, LBook(k, s, a, f), NEW r, r.kind = "Trade",
         r.id \in DOMAIN f
  PROVE  LBook(k, L!OnOrderUpdate(s, r), a + Signed(r.side, r.quantity),
               Left(f, r.id, r.quantity))
<1>0. Lists(s.open, f) /\ DOMAIN s.open = DOMAIN f BY DEF LBook, BBook, Lists
<1> DEFINE p == IF r.side = "Buy" THEN s.position + r.quantity ELSE s.position - r.quantity
           o == L!Took(s.open, r.id, r.quantity)
           t == [[s EXCEPT !.position = p] EXCEPT !.open = o]
<1>1. L!OnOrderUpdate(s, r) = L!Recovery(t, r) BY <1>0 DEF L!OnOrderUpdate
<1>2. p = a + Signed(r.side, r.quantity) BY DEF LBook, BBook, Signed
<1>3. o = IF s.open[r.id].quantity > r.quantity
          THEN [s.open EXCEPT ![r.id].quantity = s.open[r.id].quantity - r.quantity]
          ELSE Closed(s.open, r.id)
  BY DEF L!Took, L!Forgotten, L!Restrict, Restrict, Closed
<1>4. Lists(o, Left(f, r.id, r.quantity))
  <2> HIDE DEF o
  <2> QED BY <1>0, <1>3, ListsLeft
<1> HIDE DEF p, o
<1>5. LBook(k, t, a + Signed(r.side, r.quantity), Left(f, r.id, r.quantity))
  BY <1>2, <1>4 DEF LBook, BBook, LFields
<1> HIDE DEF t
<1>6. LSame(t, L!Recovery(t, r)) BY <1>5 DEF LSame, L!Recovery, LFields, LBook
<1> QED BY <1>1, <1>5, <1>6, LSameBook

(* The end of a quote. *)
LEMMA LEnd ==
  ASSUME NEW k, NEW s, NEW a, NEW f, LBook(k, s, a, f), NEW r, r.kind \in Ended
  PROVE  LBook(k, L!OnOrderUpdate(s, r), a, Closed(f, r.id))
<1>1. L!OnOrderUpdate(s, r) = [s EXCEPT !.open = Closed(s.open, r.id)]
  BY DEF L!OnOrderUpdate, L!Forgotten, L!Restrict, Restrict, Closed, Ended
<1>2. Lists(Closed(s.open, r.id), Closed(f, r.id)) BY ListsChange DEF LBook, BBook
<1> QED BY <1>1, <1>2 DEF LBook, BBook, LFields

(* A quote sent. *)
LEMMA LSubmit ==
  ASSUME NEW k, NEW s, NEW a, NEW f, LBook(k, s, a, f), NEW id, NEW o, "quantity" \in DOMAIN o
  PROVE  LBook(k, L!OnOrderSubmitted(s, id, o), a, Joined(f, id, o.quantity))
<1> DEFINE t == [s EXCEPT !.open = Joined(s.open, id, o)]
<1>1. Lists(Joined(s.open, id, o), Joined(f, id, o.quantity)) BY ListsChange DEF LBook, BBook
<1>2. LBook(k, t, a, Joined(f, id, o.quantity)) BY <1>1 DEF LBook, BBook, LFields
<1>3. L!OnOrderSubmitted(s, id, o) = [t EXCEPT !.age = 0]
  BY DEF L!OnOrderSubmitted, L!Joined, Joined
<1> HIDE DEF t
<1>4. LSame(t, L!OnOrderSubmitted(s, id, o)) BY <1>2, <1>3 DEF LSame, LFields, LBook
<1> QED BY <1>2, <1>4, LSameBook

(* The bias of the flow is a number. *)
LEMMA LBias ==
  ASSUME NEW k, NEW s, NEW a, NEW f, LBook(k, s, a, f), NEW book \in Int
  PROVE  L!FlowBias(s, book) \in Int
<1> DEFINE total == s.bought + s.sold
           num == 60 * (s.bought - s.sold)
           part == (40 * book) \div 100
           trade == IF total = 0 THEN 0 ELSE num \div total
<1>1. total \in Nat /\ num \in Int BY DEF LBook
<1>2. trade \in Int
  <2> HIDE DEF total, num
  <2>1. CASE total = 0 BY <2>1
  <2>2. CASE total # 0
    <3>1. total \in Nat \ {0} BY <1>1, <2>2
    <3>2. num \div total \in Int BY <1>1, <3>1, Quotient
    <3> QED BY <2>2, <3>2
  <2> QED BY <2>1, <2>2
<1>3. part \in Int OBVIOUS
<1>4. L!FlowBias(s, book) = IF L!ReadsFlow(s) THEN trade + part ELSE 0 BY DEF L!FlowBias
<1> HIDE DEF trade, part
<1> QED BY <1>2, <1>3, <1>4

(* What the flow leaves of a size is a number. *)
LEMMA LReduced ==
  ASSUME NEW n \in Int, NEW against \in Int
  PROVE  L!Reduced(n, against) \in Int
<1>1. 20 \in Int OBVIOUS
<1>2. L!Min({20, against}) \in Int BY <1>1, LSmaller
<1>3. PICK m \in Int : m = L!Min({20, against}) BY <1>2
<1>4. PICK x \in Int : x = 2 * n * (100 - m) + 100 OBVIOUS
<1>5. x \div 200 \in Int OBVIOUS
<1>6. L!Reduced(n, against) = IF against < 8 THEN n ELSE x \div 200
  BY <1>3, <1>4 DEF L!Reduced
<1> QED BY <1>5, <1>6

(* The sizes of a pair are numbers. *)
LEMMA LInventoryQuantity ==
  ASSUME NEW s, NEW side, s.cfg.size \in Nat, s.cfg.limit \in Nat, L!Same(s, side) \in Int
  PROVE  L!InventoryQuantity(s, side) \in Int
<1> DEFINE same == L!Same(s, side)
           num == s.cfg.size * (10 * s.cfg.limit - 9 * same)
           den == 10 * s.cfg.limit
<1>1. num \in Int /\ den \in Nat OBVIOUS
<1>2. L!InventoryQuantity(s, side)
        = CASE 2 * same > s.cfg.limit -> 0
            [] 2 * same <= s.cfg.limit /\ s.cfg.limit > 0 /\ same > 0 -> num \div den
            [] OTHER -> s.cfg.size
  BY DEF L!InventoryQuantity
<1>3. s.cfg.limit > 0 => num \div den \in Int
  <2>1. s.cfg.limit > 0 => den \in Nat \ {0} OBVIOUS
  <2> HIDE DEF num, den
  <2> QED BY <1>1, <2>1, Quotient
<1> HIDE DEF num, den
<1> QED BY <1>2, <1>3

(* The plain maker's size is a number, its scale included. *)
LEMMA LL1Quantity ==
  ASSUME NEW s, NEW side, NEW scale \in Int, s.cfg.size \in Nat, s.cfg.limit \in Nat,
         L!Same(s, side) \in Int
  PROVE  L!L1Quantity(s, side, scale) \in Int
<1> DEFINE same == L!Same(s, side)
           flat == s.cfg.size * scale
           num == s.cfg.size * (s.cfg.limit - same) * scale
           den == 10 * s.cfg.limit
           over(n) == 10 * n > 6 * L!Max({0, s.cfg.limit})
           scaled == CASE same <= 0 -> flat \div 10
                       [] same > 0 /\ s.cfg.limit > same -> num \div den
                       [] OTHER -> 0
<1>1. flat \in Int /\ num \in Int /\ den \in Nat OBVIOUS
<1>2. L!L1Quantity(s, side, scale)
        = CASE over(same) -> 0 [] over(-same) -> L!Max({1, scaled}) [] OTHER -> scaled
  BY DEF L!L1Quantity
<1>3. scaled \in Int
  <2>1. same > 0 /\ s.cfg.limit > same => den \in Nat \ {0} OBVIOUS
  <2>2. flat \div 10 \in Int BY <1>1, Quotient
  <2>3. same > 0 /\ s.cfg.limit > same => num \div den \in Int
    <3> HIDE DEF num, den
    <3> QED BY <1>1, <2>1, Quotient
  <2> HIDE DEF num, den, flat
  <2> QED BY <2>2, <2>3
<1> HIDE DEF scaled
<1>4. L!Max({1, scaled}) \in Int
  <2>1. 1 \in Int OBVIOUS
  <2>2. L!Max({1, scaled}) = IF 1 >= scaled THEN 1 ELSE scaled BY <1>3, <2>1, LLarger, Zenon
  <2> QED BY <1>3, <2>2
<1> DEFINE much == over(same)
           less == over(-same)
<1> HIDE DEF much, less
<1>5. L!L1Quantity(s, side, scale) = CASE much -> 0 [] less -> L!Max({1, scaled}) [] OTHER -> scaled
  BY <1>2, Zenon DEF much, less
<1>6. ~(much /\ less)
  <2>1. 0 \in Int /\ s.cfg.limit \in Int OBVIOUS
  <2>2. L!Max({0, s.cfg.limit}) = IF 0 >= s.cfg.limit THEN 0 ELSE s.cfg.limit
    BY <2>1, LLarger, Zenon
  <2>3. L!Max({0, s.cfg.limit}) \in Nat BY <2>2
  <2> QED BY <2>3 DEF much, less
<1> QED BY <1>3, <1>4, <1>5, <1>6

(* The active maker's size is a number. *)
LEMMA LActiveQuantity ==
  ASSUME NEW s, NEW side, s.cfg.size \in Nat, s.cfg.limit \in Nat, L!Same(s, side) \in Int
  PROVE  L!ActiveQuantity(s, side) \in Int
<1>1. L!Min({s.cfg.size, s.cfg.limit - L!Same(s, side)}) \in Int
  <2>1. s.cfg.size \in Int /\ s.cfg.limit - L!Same(s, side) \in Int OBVIOUS
  <2> QED BY <2>1, LSmaller
<1>2. PICK n \in Int : n = L!Min({s.cfg.size, s.cfg.limit - L!Same(s, side)}) BY <1>1
<1> QED BY <1>2 DEF L!ActiveQuantity

(* So is the size of every maker. *)
LEMMA LQuantity ==
  ASSUME NEW k, NEW s, NEW a \in Int, NEW f, LBook(k, s, a, f), NEW side,
         NEW bias \in Int, NEW scale \in Int
  PROVE  L!QuoteQuantity(s, side, bias, scale) \in Int
<1>1. s.cfg.size \in Nat /\ s.cfg.limit \in Nat /\ s.cfg.maker \in L!L1Kinds
  BY LConfigured DEF LBook, BBook
<1>2. L!Same(s, side) \in Int BY DEF L!Same, LBook, BBook
<1>3. L!Against(side, bias) \in Int BY DEF L!Against
<1>4. L!PassiveQuantity(s, side) \in Int BY <1>1, <1>2 DEF L!PassiveQuantity
<1>5. L!InventoryQuantity(s, side) \in Int BY <1>1, <1>2, LInventoryQuantity
<1>6. L!L1Quantity(s, side, scale) \in Int BY <1>1, <1>2, LL1Quantity
<1>7. L!ActiveQuantity(s, side) \in Int BY <1>1, <1>2, LActiveQuantity
<1> QED BY <1>1, <1>3, <1>4, <1>5, <1>6, <1>7, LReduced DEF L!QuoteQuantity, L!L1Kinds

(* A side of a pair goes when it is for something. *)
LEMMA LSent ==
  ASSUME NEW side, NEW price, NEW q \in Int
  PROVE  Sendable(L!Sent([side |-> side, price |-> price, tif |-> "Gtc", quantity |-> q]))
<1> DEFINE o == [side |-> side, price |-> price, tif |-> "Gtc", quantity |-> q]
<1>1. "quantity" \in DOMAIN o /\ o.quantity \in Int OBVIOUS
<1> HIDE DEF o
<1>2. Sendable(L!Sent(o)) BY <1>1, SendScaled DEF L!Sent
<1> QED BY <1>2 DEF o

(* A legacy maker on a usable view. *)
LEMMA LQuote ==
  ASSUME NEW k, NEW s, NEW a \in Int, NEW f, LBook(k, s, a, f), NEW v,
         NEW c \in L!Inputs(s)
  PROVE  LBook(k, L!Quote(s, v, c).strat, a, f) /\ Sendable(L!Quote(s, v, c).orders)
<1> DEFINE bias == L!FlowBias(s, c.book)
           quotes == L!Quotes(s, v, bias, c.behind)
           t == L!Recovering(s)
           seen == L!Compared(s, v, quotes)
           bid == [side |-> "Buy", price |-> quotes.bid, tif |-> "Gtc",
                   quantity |-> L!QuoteQuantity(t, "Buy", bias, c.scale)]
           ask == [side |-> "Sell", price |-> quotes.ask, tif |-> "Gtc",
                   quantity |-> L!QuoteQuantity(t, "Sell", bias, c.scale)]
           pull == s.cancel_pending \/ L!Moved(s, v, quotes) \/ s.age >= s.cfg.max_age
           aged == IF s.cfg.maker = "l1" THEN t.age ELSE 0
           d == L!Quote(s, v, c)
           pulled == [s EXCEPT !.cancel_pending = pull]
           idle == [t EXCEPT !.cancel_pending = FALSE]
           posted == [[[[t EXCEPT !.last_mid = L!Mid(v)] EXCEPT !.last_bid = seen.bid]
                        EXCEPT !.last_ask = seen.ask] EXCEPT !.age = aged]
<1>1. c.book \in Int /\ c.scale \in Int BY DEF L!Inputs
<1>2. bias \in Int BY <1>1, LBias
<1>3. \/ d.strat = pulled /\ d.orders = <<>>
      \/ d.strat = idle /\ d.orders = <<>>
      \/ d.strat = posted /\ d.orders = L!Sent(bid) \o L!Sent(ask)
  BY DEF L!Quote
<1> HIDE DEF bias, quotes, seen, pull, aged, d
<1>4. LSame(s, t) BY DEF L!Recovering, LSame, LFields, LBook
<1> HIDE DEF t
<1>5. LBook(k, t, a, f) BY <1>4, LSameBook
<1>6. LBook(k, pulled, a, f)
  <2>1. LSame(s, pulled) BY DEF LSame, LFields, LBook
  <2> QED BY <2>1, LSameBook
<1>7. LBook(k, idle, a, f)
  <2>1. LSame(t, idle) BY <1>5 DEF LSame, LFields, LBook
  <2> QED BY <1>5, <2>1, LSameBook
<1>8. LBook(k, posted, a, f)
  <2>1. LSame(t, posted) BY <1>5 DEF LSame, LFields, LBook
  <2> QED BY <1>5, <2>1, LSameBook
<1>9. Sendable(L!Sent(bid)) /\ Sendable(L!Sent(ask))
  <2>1. \A side : L!QuoteQuantity(t, side, bias, c.scale) \in Int
    BY <1>1, <1>2, <1>5, LQuantity
  <2> QED BY <2>1, LSent
<1> HIDE DEF pulled, idle, posted, bid, ask
<1>10. Sendable(d.orders) BY <1>3, <1>9, SendBoth, SendNoneOrOne
<1> QED BY <1>3, <1>6, <1>7, <1>8, <1>10 DEF d

(* A legacy maker on a view. *)
LEMMA LView ==
  ASSUME NEW k, NEW s, NEW a \in Int, NEW f, LBook(k, s, a, f), NEW v,
         NEW d \in L!L1Decisions(s, v)
  PROVE  LBook(k, d.strat, a, f) /\ Sendable(d.orders)
<1> DEFINE blind == [s EXCEPT !.cancel_pending = DOMAIN s.open # {}]
           t == L!Observed(s)
<1>1. \/ d = [strat |-> blind, orders |-> <<>>]
      \/ \E c \in L!Inputs(t) : d = L!Quote(t, v, c)
  BY DEF L!L1Decisions
<1>2. LBook(k, blind, a, f)
  <2>1. LSame(s, blind) BY DEF LSame, LFields, LBook
  <2> QED BY <2>1, LSameBook
<1>3. LBook(k, t, a, f)
  <2>1. LSame(s, t) BY DEF L!Observed, LSame, LFields, LBook
  <2> QED BY <2>1, LSameBook
<1> HIDE DEF blind, t
<1> QED BY <1>1, <1>2, <1>3, LQuote, SendNoneOrOne

(* The cancels handed over. *)
LEMMA LHanded ==
  ASSUME NEW k, NEW s, NEW a, NEW f
  PROVE  /\ BBook(k, s, a, f) => BBook(k, [s EXCEPT !.cancel_pending = FALSE], a, f)
         /\ LBook(k, s, a, f) => LBook(k, [s EXCEPT !.cancel_pending = FALSE], a, f)
<1>1. BBook(k, s, a, f) => BSame(s, [s EXCEPT !.cancel_pending = FALSE]) BY DEF BSame, BBook
<1>2. LBook(k, s, a, f) => LSame(s, [s EXCEPT !.cancel_pending = FALSE])
  BY DEF LSame, LFields, LBook
<1> QED BY <1>1, <1>2, BSameBook, LSameBook

-----------------------------------------------------------------------------
(* The calls of strategy.h, for a strategy of any kind. *)

Kinds == {"execution", "trend", "naive", "optimized", "active", "inventory"} \cup L!L1Kinds

(* The state of a strategy of kind k, with the position a and the open orders f; the
   cancels it has asked for are handed over. *)
Fits(k, s, a, f) ==
  /\ k \in Kinds
  /\ k = "execution" => XBook(s, a, f) /\ s.cancel_queue = {}
  /\ k = "trend" => TBook(s, a, f)
  /\ k \in {"naive", "optimized"} => BBook(k, s, a, f)
  /\ k \in {"active", "inventory"} => MBook(k, s, a, f)
  /\ k \in L!L1Kinds => LBook(k, s, a, f)

(* What a strategy of kind k believes is left after a fill of q. *)
After(k, f, id, q) == IF k = "execution" THEN Dented(f, id, q) ELSE Left(f, id, q)

(* The kinds exclude each other. *)
LEMMA KindsDiffer ==
  /\ "execution" \notin L!L1Kinds /\ "trend" \notin L!L1Kinds /\ "naive" \notin L!L1Kinds
  /\ "optimized" \notin L!L1Kinds /\ "active" \notin L!L1Kinds
  /\ "inventory" \notin L!L1Kinds
BY DEF L!L1Kinds

(* A fill, told to the strategy. *)
LEMMA KTrade ==
  ASSUME NEW s, NEW a \in Int, NEW f, Fits(kind, s, a, f), OrderBook(f), NEW r,
         r.kind = "Trade", r.quantity \in Nat \ {0},
         r.id \in DOMAIN f => r.quantity <= f[r.id], kind # "execution" => r.id \in DOMAIN f
  PROVE  Fits(kind, Told(s, r), a + Signed(r.side, r.quantity),
              After(kind, f, r.id, r.quantity))
<1> DEFINE b == a + Signed(r.side, r.quantity)
           g == After(kind, f, r.id, r.quantity)
           t == Told(s, r)
<1>0. r.kind \notin Ended BY DEF Ended
<1>1. CASE kind = "execution"
  <2>1. t = X!OnTrade(s, r) BY <1>1, KindsDiffer DEF Told, X!OnOrderUpdate
  <2>2. XBook(X!OnTrade(s, r), b, Dented(f, r.id, r.quantity))
    BY <1>1, XTrade DEF Fits
  <2>3. X!OnTrade(s, r).cancel_queue = {}
    <3>1. DOMAIN s = XFields /\ s.cancel_queue = {} BY <1>1 DEF Fits, XBook
    <3>2. X!OnTrade(s, r).cancel_queue = s.cancel_queue BY <3>1, XTradeFields DEF XFields
    <3> QED BY <3>1, <3>2
  <2>4. g = Dented(f, r.id, r.quantity) BY <1>1 DEF After
  <2> HIDE DEF t, g, b
  <2> QED BY <1>1, <2>1, <2>2, <2>3, <2>4, KindsDiffer DEF Fits, Kinds, t, g, b
<1>2. CASE kind = "trend"
  <2>1. TBook(s, a, f) /\ DOMAIN s.open = DOMAIN f BY <1>2 DEF Fits, TBook, Lists
  <2>2. t = T!OnTrade(s, r) BY <1>2, <2>1, KindsDiffer DEF Told, T!OnOrderUpdate
  <2>3. TBook(T!OnTrade(s, r), b, Left(f, r.id, r.quantity)) BY <1>2, <2>1, TTrade
  <2>4. g = Left(f, r.id, r.quantity) BY <1>2 DEF After
  <2> HIDE DEF t, g, b
  <2> QED BY <1>2, <2>2, <2>3, <2>4, KindsDiffer DEF Fits, Kinds, t, g, b
<1>3. CASE kind \in {"naive", "optimized"}
  <2>1. t = BaselineUpdate(s, r) BY <1>3, KindsDiffer DEF Told
  <2>2. BBook(kind, BaselineUpdate(s, r), b, Left(f, r.id, r.quantity))
    BY <1>3, BTrade DEF Fits
  <2>3. g = Left(f, r.id, r.quantity) BY <1>3 DEF After
  <2> HIDE DEF t, g, b
  <2> QED BY <1>3, <2>1, <2>2, <2>3, KindsDiffer DEF Fits, Kinds, t, g, b
<1>4. CASE kind \in {"active", "inventory"}
  <2>1. t = [s EXCEPT !.base = OnOrderUpdate(s.base, r)] BY <1>4, KindsDiffer DEF Told
  <2>2. BaseBook(OnOrderUpdate(s.base, r), b, Left(f, r.id, r.quantity))
    BY <1>4, MTrade DEF Fits, MBook
  <2>3. MBook(kind, t, b, Left(f, r.id, r.quantity)) BY <1>4, <2>1, <2>2, MRebased DEF Fits
  <2>4. g = Left(f, r.id, r.quantity) BY <1>4 DEF After
  <2> HIDE DEF t, g, b
  <2> QED BY <1>4, <2>3, <2>4, KindsDiffer DEF Fits, Kinds, t, g, b
<1>5. CASE kind \in L!L1Kinds
  <2>1. t = L!OnOrderUpdate(s, r) BY <1>5, KindsDiffer DEF Told
  <2>2. LBook(kind, L!OnOrderUpdate(s, r), b, Left(f, r.id, r.quantity))
    BY <1>5, KindsDiffer, LTrade DEF Fits
  <2>3. g = Left(f, r.id, r.quantity) BY <1>5, KindsDiffer DEF After
  <2> HIDE DEF t, g, b
  <2> QED BY <1>5, <2>1, <2>2, <2>3, KindsDiffer DEF Fits, Kinds, t, g, b
<1> QED BY <1>1, <1>2, <1>3, <1>4, <1>5 DEF Fits, Kinds

(* The end of an order, told to the strategy. *)
LEMMA KEnd ==
  ASSUME NEW s, NEW a, NEW f, Fits(kind, s, a, f), NEW r, r.kind \in Ended
  PROVE  Fits(kind, Told(s, r), a, Closed(f, r.id))
<1> DEFINE g == Closed(f, r.id)
           t == Told(s, r)
<1> HIDE DEF g
<1>1. CASE kind = "execution"
  <2>1. t = X!OnOrderUpdate(s, r) BY <1>1, KindsDiffer DEF Told
  <2>2. XBook(X!OnOrderUpdate(s, r), a, g) BY <1>1, XEnd DEF Fits, g
  <2>3. X!OnOrderUpdate(s, r).cancel_queue = {}
    <3>1. DOMAIN s = XFields /\ s.cancel_queue = {} BY <1>1 DEF Fits, XBook
    <3>2. \A b \in XFields \ {"open", "working", "working_is_post"} :
            X!OnOrderUpdate(s, r)[b] = s[b]
      BY <3>1, XEndFields
    <3>3. "cancel_queue" \in XFields \ {"open", "working", "working_is_post"} BY DEF XFields
    <3> QED BY <3>1, <3>2, <3>3
  <2> HIDE DEF t
  <2> QED BY <1>1, <2>1, <2>2, <2>3, KindsDiffer DEF Fits, Kinds, t, g
<1>2. CASE kind = "trend"
  <2>1. t = T!OnOrderUpdate(s, r) BY <1>2, KindsDiffer DEF Told
  <2>2. TBook(T!OnOrderUpdate(s, r), a, g) BY <1>2, TEnd DEF Fits, g
  <2> HIDE DEF t
  <2> QED BY <1>2, <2>1, <2>2, KindsDiffer DEF Fits, Kinds, t, g
<1>3. CASE kind \in {"naive", "optimized"}
  <2>1. t = BaselineUpdate(s, r) BY <1>3, KindsDiffer DEF Told
  <2>2. BBook(kind, BaselineUpdate(s, r), a, g) BY <1>3, BEnd DEF Fits, g
  <2> HIDE DEF t
  <2> QED BY <1>3, <2>1, <2>2, KindsDiffer DEF Fits, Kinds, t, g
<1>4. CASE kind \in {"active", "inventory"}
  <2>1. t = [s EXCEPT !.base = OnOrderUpdate(s.base, r)] BY <1>4, KindsDiffer DEF Told
  <2>2. BaseBook(OnOrderUpdate(s.base, r), a, g) BY <1>4, MEndSubmit DEF Fits, MBook, g
  <2>3. MBook(kind, t, a, g) BY <1>4, <2>1, <2>2, MRebased DEF Fits
  <2> HIDE DEF t
  <2> QED BY <1>4, <2>3, KindsDiffer DEF Fits, Kinds, t, g
<1>5. CASE kind \in L!L1Kinds
  <2>1. t = L!OnOrderUpdate(s, r) BY <1>5, KindsDiffer DEF Told
  <2>2. LBook(kind, L!OnOrderUpdate(s, r), a, g) BY <1>5, LEnd DEF Fits, g
  <2> HIDE DEF t
  <2> QED BY <1>5, <2>1, <2>2, KindsDiffer DEF Fits, Kinds, t, g
<1> QED BY <1>1, <1>2, <1>3, <1>4, <1>5 DEF Fits, Kinds

(* An order sent, told to the strategy. *)
LEMMA KSubmit ==
  ASSUME NEW s, NEW a, NEW f, Fits(kind, s, a, f), NEW id, NEW o, "quantity" \in DOMAIN o
  PROVE  Fits(kind, Submitted(s, id, o), a, Joined(f, id, o.quantity))
<1> DEFINE g == Joined(f, id, o.quantity)
           t == Submitted(s, id, o)
<1> HIDE DEF g
<1>1. CASE kind = "execution"
  <2>1. t = X!OnOrderSubmitted(s, id, o) BY <1>1, KindsDiffer DEF Submitted
  <2>2. XBook(X!OnOrderSubmitted(s, id, o), a, g) BY <1>1, XSubmit DEF Fits, g
  <2>3. X!OnOrderSubmitted(s, id, o).cancel_queue = {}
    <3>1. DOMAIN s = XFields /\ s.cancel_queue = {} BY <1>1 DEF Fits, XBook
    <3>2. X!OnOrderSubmitted(s, id, o).cancel_queue = s.cancel_queue
      BY <3>1, XSubmitFields DEF XFields
    <3> QED BY <3>1, <3>2
  <2> HIDE DEF t
  <2> QED BY <1>1, <2>1, <2>2, <2>3, KindsDiffer DEF Fits, Kinds, t, g
<1>2. CASE kind = "trend"
  <2>1. t = T!OnOrderSubmitted(s, id, o) BY <1>2, KindsDiffer DEF Submitted
  <2>2. TBook(T!OnOrderSubmitted(s, id, o), a, g) BY <1>2, TSubmit DEF Fits, g
  <2> HIDE DEF t
  <2> QED BY <1>2, <2>1, <2>2, KindsDiffer DEF Fits, Kinds, t, g
<1>3. CASE kind \in {"naive", "optimized"}
  <2>1. t = NaiveSubmitted(s, id, o) \/ t = OptimizedSubmitted(s, id, o)
    BY <1>3, KindsDiffer DEF Submitted
  <2>2. BBook(kind, NaiveSubmitted(s, id, o), a, g) /\ BBook(kind, OptimizedSubmitted(s, id, o), a, g)
    BY <1>3, BSubmit DEF Fits, g
  <2> HIDE DEF t
  <2> QED BY <1>3, <2>1, <2>2, KindsDiffer DEF Fits, Kinds, t, g
<1>4. CASE kind \in {"active", "inventory"}
  <2>1. t = [s EXCEPT !.base = OnOrderSubmitted(s.base, id, o.quantity)]
    BY <1>4, KindsDiffer DEF Submitted
  <2>2. BaseBook(OnOrderSubmitted(s.base, id, o.quantity), a, g)
    BY <1>4, MEndSubmit DEF Fits, MBook, g
  <2>3. MBook(kind, t, a, g) BY <1>4, <2>1, <2>2, MRebased DEF Fits
  <2> HIDE DEF t
  <2> QED BY <1>4, <2>3, KindsDiffer DEF Fits, Kinds, t, g
<1>5. CASE kind \in L!L1Kinds
  <2>1. t = L!OnOrderSubmitted(s, id, o) BY <1>5, KindsDiffer DEF Submitted
  <2>2. LBook(kind, L!OnOrderSubmitted(s, id, o), a, g) BY <1>5, LSubmit DEF Fits, g
  <2> HIDE DEF t
  <2> QED BY <1>5, <2>1, <2>2, KindsDiffer DEF Fits, Kinds, t, g
<1> QED BY <1>1, <1>2, <1>3, <1>4, <1>5 DEF Fits, Kinds

(* A refusal. *)
LEMMA KRefuse ==
  ASSUME NEW s, NEW a, NEW f, Fits(kind, s, a, f)
  PROVE  Fits(kind, Refused(s), a, f)
<1>1. CASE kind = "trend"
  <2>1. TBook(T!OnOrderRejected(s), a, f) BY <1>1, TQuiet DEF Fits
  <2> QED BY <1>1, <2>1, KindsDiffer DEF Refused, Fits
<1>2. CASE kind # "trend"
  BY <1>2 DEF Refused
<1> QED BY <1>1, <1>2

(* A public trade, told to the strategy. *)
LEMMA KPublic ==
  ASSUME NEW s, NEW a, NEW f, Fits(kind, s, a, f), NEW trade \in Trades
  PROVE  /\ Fits(kind, AfterTrade(s, trade), a, f)
         /\ kind \in L!L1Kinds =>
              \A stale : Fits(kind, L!OnQuotedTrade(s, trade, stale), a, f)
<1>0. trade.quantity \in Nat /\ (kind \in L!L1Kinds => trade \in Flow)
  BY DeskAssumption DEF Trades, Flow
<1>1. CASE kind = "execution"
  <2>1. LET t == X!OnMarketTrade(s, trade.quantity) IN XBook(t, a, f) /\ t.cancel_queue = {}
    BY <1>0, <1>1, XPublic DEF Fits
  <2> QED BY <1>1, <2>1, KindsDiffer DEF AfterTrade, Fits, Kinds
<1>2. CASE kind \in L!L1Kinds
  <2>1. LBook(kind, L!OnMarketTrade(s, trade), a, f)
        /\ \A stale : LBook(kind, L!OnQuotedTrade(s, trade, stale), a, f)
    BY <1>0, <1>2, LPublic DEF Fits
  <2>2. AfterTrade(s, trade) = L!OnMarketTrade(s, trade)
    BY <1>2, KindsDiffer DEF AfterTrade
  <2> QED BY <1>2, <2>1, <2>2, KindsDiffer DEF Fits, Kinds
<1>3. CASE kind = "active"
  <2> DEFINE n == s.trades + 1
             t == [s EXCEPT !.trades = n]
  <2>1. AfterTrade(s, trade) = t BY <1>3, KindsDiffer DEF AfterTrade
  <2>2. MBook(kind, s, a, f) BY <1>3 DEF Fits
  <2> HIDE DEF n
  <2>3. MBook(kind, t, a, f) BY <2>2 DEF MBook
  <2> HIDE DEF t
  <2> QED BY <1>3, <2>1, <2>3, KindsDiffer DEF Fits, Kinds
<1>4. CASE kind \notin {"execution", "active"} \cup L!L1Kinds
  BY <1>4 DEF AfterTrade
<1> QED BY <1>1, <1>2, <1>3, <1>4

(* The cancels it asks for when a decision leaves it at s; execution alone forgets
   the orders at once. *)
Forgone(s) == IF kind = "execution" THEN Cancels(s) ELSE {}

(* A view: the strategy's decision, and its cancels handed over. *)
LEMMA KDecide ==
  ASSUME NEW s, NEW a \in Int, NEW f, Fits(kind, s, a, f), OrderBook(f), NEW v,
         NEW d \in DecisionsOf(s, v)
  PROVE  /\ Fits(kind, Handed(d.strat), a, Restrict(f, DOMAIN f \ Forgone(d.strat)))
         /\ Sendable(d.orders)
<1> DEFINE g == Restrict(f, DOMAIN f \ Forgone(d.strat))
           t == Handed(d.strat)
<1>0. kind # "execution" => g = f BY DEF Forgone, Restrict, OrderBook
<1>1. CASE kind = "execution"
  <2>1. d = X!OnL2MarketView(s, v) BY <1>1, KindsDiffer DEF DecisionsOf
  <2>2. XBook(d.strat, a, g) /\ Sendable(d.orders)
    <3>1. Forgone(d.strat) = d.strat.cancel_queue BY <1>1, KindsDiffer DEF Forgone, Cancels, X!CancelRequests
    <3> QED BY <1>1, <2>1, <3>1, XView DEF Fits
  <2> HIDE DEF g
  <2>3. t = X!CancelsTaken(d.strat) BY <1>1, KindsDiffer DEF Handed
  <2>4. XBook(t, a, g) /\ t.cancel_queue = {}
    <3>1. 0 \in Nat OBVIOUS
    <3> QED BY <2>2, <2>3, <3>1, XPublic
  <2> HIDE DEF t
  <2> QED BY <1>1, <2>2, <2>4, KindsDiffer DEF Fits, Kinds, t, g
<1>2. CASE kind = "trend"
  <2>1. d = T!OnL2MarketView(s, v) BY <1>2, KindsDiffer DEF DecisionsOf
  <2>2. TBook(d.strat, a, f) /\ Sendable(d.orders) BY <1>2, <2>1, TView DEF Fits
  <2>3. t = T!CancelsTaken(d.strat) BY <1>2, KindsDiffer DEF Handed
  <2>4. TBook(t, a, f) BY <2>2, <2>3, TQuiet
  <2> HIDE DEF t, g
  <2> QED BY <1>0, <1>2, <2>2, <2>4, KindsDiffer DEF Fits, Kinds, t, g
<1>3. CASE kind = "naive"
  <2>1. d = NaiveOnTop(s, v) BY <1>3, KindsDiffer DEF DecisionsOf
  <2>2. BBook(kind, d.strat, a, f) /\ Sendable(d.orders) BY <1>3, <2>1, BNaiveView DEF Fits
  <2>3. t = [d.strat EXCEPT !.cancel_pending = FALSE] BY <1>3, KindsDiffer DEF Handed
  <2>4. BBook(kind, t, a, f) BY <2>2, <2>3, LHanded
  <2> HIDE DEF t, g
  <2> QED BY <1>0, <1>3, <2>2, <2>4, KindsDiffer DEF Fits, Kinds, t, g
<1>4. CASE kind = "optimized"
  <2>1. d = OptimizedOnTop(s, v) BY <1>4, KindsDiffer DEF DecisionsOf
  <2>2. BBook(kind, d.strat, a, f) /\ Sendable(d.orders) BY <1>4, <2>1, BOptimizedView DEF Fits
  <2>3. t = d.strat BY <1>4, KindsDiffer DEF Handed
  <2> HIDE DEF t, g
  <2> QED BY <1>0, <1>4, <2>2, <2>3, KindsDiffer DEF Fits, Kinds, t, g
<1>5. CASE kind \in {"active", "inventory"}
  <2>1. MBook(kind, d.strat, a, f) /\ Sendable(d.orders)
    <3>1. CASE kind = "active"
      <4>1. d \in ActiveDecisions(s, v) BY <3>1, KindsDiffer DEF DecisionsOf
      <4> QED BY <3>1, <4>1, MActiveView DEF Fits
    <3>2. CASE kind = "inventory"
      <4>1. d \in InventoryDecisions(s, v) BY <3>2, KindsDiffer DEF DecisionsOf
      <4> QED BY <3>2, <4>1, MInventoryView DEF Fits
    <3> QED BY <1>5, <3>1, <3>2
  <2> DEFINE b == [d.strat.base EXCEPT !.cancel_pending = FALSE]
  <2>2. t = [d.strat EXCEPT !.base = b] BY <1>5, <2>1, KindsDiffer DEF Handed, MBook
  <2>3. BaseBook(b, a, f) BY <2>1 DEF MBook, BaseBook
  <2> HIDE DEF b
  <2>4. MBook(kind, t, a, f) BY <2>1, <2>2, <2>3, MRebased
  <2> HIDE DEF t, g
  <2> QED BY <1>0, <1>5, <2>1, <2>4, KindsDiffer DEF Fits, Kinds, t, g
<1>6. CASE kind \in L!L1Kinds
  <2>1. d \in L!L1Decisions(s, v) BY <1>6, KindsDiffer DEF DecisionsOf
  <2>2. LBook(kind, d.strat, a, f) /\ Sendable(d.orders) BY <1>6, <2>1, LView DEF Fits
  <2>3. t = [d.strat EXCEPT !.cancel_pending = FALSE] BY <1>6, KindsDiffer DEF Handed
  <2>4. LBook(kind, t, a, f) BY <2>2, <2>3, LHanded
  <2> HIDE DEF t, g
  <2> QED BY <1>0, <1>6, <2>2, <2>4, KindsDiffer DEF Fits, Kinds, t, g
<1> QED BY <1>1, <1>2, <1>3, <1>4, <1>5, <1>6 DEF Fits, Kinds
(* A fill, and the end of an order it completes. *)
LEMMA KFill ==
  ASSUME NEW s, NEW a \in Int, NEW f, Fits(kind, s, a, f), OrderBook(f),
         NEW id, NEW o, NEW q \in Nat \ {0}, NEW rest \in Nat,
         id \in DOMAIN f => f[id] = q + rest, kind # "execution" => id \in DOMAIN f
  PROVE  Fits(kind, AfterFill(s, id, o, q, rest), a + Signed(o.side, q),
              IF rest > 0 THEN Dented(f, id, q) ELSE Closed(f, id))
<1> DEFINE r == TradeOf(id, o, q)
           e == Ends(id, o.side, 0, "Filled", "None")
           told == Told(s, r)
           b == a + Signed(o.side, q)
           g == After(kind, f, id, q)
<1>1. /\ r.kind = "Trade" /\ r.id = id /\ r.side = o.side /\ r.quantity = q
      /\ e.kind \in Ended /\ e.id = id
  BY DEF TradeOf, Ends, Ended
<1>2. id \in DOMAIN f => q <= f[id] BY DEF OrderBook
<1> HIDE DEF r, e
<1>3. Fits(kind, told, b, g) BY <1>1, <1>2, KTrade
<1>4. AfterFill(s, id, o, q, rest) = IF rest > 0 THEN told ELSE Told(told, e)
  BY DEF AfterFill, r, e
<1> HIDE DEF told, b
<1>5. CASE rest > 0
  <2>1. g = Dented(f, id, q) BY <1>5 DEF After, Left
  <2> QED BY <1>3, <1>4, <1>5, <2>1 DEF b
<1>6. CASE ~(rest > 0)
  <2>1. Fits(kind, Told(told, e), b, Closed(g, id)) BY <1>1, <1>3, KEnd
  <2>2. Closed(g, id) = Closed(f, id)
    <3>1. CASE kind = "execution" BY <3>1, ClosedDented DEF After
    <3>2. CASE kind # "execution"
      <4>1. g = Closed(f, id) BY <1>6, <3>2 DEF After, Left
      <4> QED BY <4>1 DEF Closed, Restrict
    <3> QED BY <3>1, <3>2
  <2> QED BY <1>4, <1>6, <2>1, <2>2 DEF b
<1> QED BY <1>5, <1>6

(* An order joins the open ones, and may leave them. *)
LEMMA JoinedBook ==
  ASSUME NEW f, OrderBook(f), NEW id \in Nat \ {0}, id \notin DOMAIN f, NEW n \in Nat \ {0}
  PROVE  /\ OrderBook(Joined(f, id, n)) /\ id \in DOMAIN Joined(f, id, n)
         /\ Joined(f, id, n)[id] = n
         /\ Closed(Joined(f, id, n), id) = f
         /\ \A q : Dented(Joined(f, id, n), id, q) = Joined(f, id, n - q)
<1>1. IsFiniteSet({id} \cup DOMAIN f) BY FS_AddElement DEF OrderBook
<1>2. OrderBook(Joined(f, id, n)) BY <1>1 DEF OrderBook, Joined
<1>3. Closed(Joined(f, id, n), id) = f BY DEF Joined, Closed, Restrict, OrderBook
<1>4. \A q : Dented(Joined(f, id, n), id, q) = Joined(f, id, n - q)
  BY DEF Joined, Dented
<1>5. id \in DOMAIN Joined(f, id, n) /\ Joined(f, id, n)[id] = n BY DEF Joined
<1> QED BY <1>2, <1>3, <1>4, <1>5

(* An order sent: what of it fills at once, what rests and what dies. *)
LEMMA KSend ==
  ASSUME NEW s, NEW a \in Int, NEW f, Fits(kind, s, a, f), OrderBook(f),
         NEW id \in Nat \ {0}, id \notin DOMAIN f, NEW o, ForSome(o),
         NEW q \in Nat, q <= o.quantity
  PROVE  Fits(kind, AfterSend(s, id, o, q), a + Signed(o.side, q),
              IF q < o.quantity /\ o.tif # "Ioc" THEN Joined(f, id, o.quantity - q) ELSE f)
<1> DEFINE n == o.quantity
           h == Joined(f, id, n)
           sent == Submitted(s, id, o)
           rest == n - q
           filled == IF q > 0 THEN AfterFill(sent, id, o, q, rest) ELSE sent
           b == a + Signed(o.side, q)
           g == IF rest > 0 THEN Joined(f, id, rest) ELSE f
           e == Ends(id, o.side, rest, "Cancelled", "Ioc")
<1>0. n \in Nat \ {0} /\ "quantity" \in DOMAIN o BY DEF ForSome
<1>1. Fits(kind, sent, a, h) BY <1>0, KSubmit
<1> HIDE DEF n
<1>2. /\ OrderBook(h) /\ id \in DOMAIN h /\ h[id] = n /\ Closed(h, id) = f
      /\ Dented(h, id, q) = Joined(f, id, rest)
  BY <1>0, JoinedBook
<1> HIDE DEF h, sent
<1>3. rest \in Nat /\ n = q + rest BY <1>0 DEF n
<1> HIDE DEF rest
<1>4. Fits(kind, filled, b, g)
  <2>1. CASE q > 0
    <3>1. q \in Nat \ {0} BY <2>1
    <3>2. Fits(kind, AfterFill(sent, id, o, q, rest), a + Signed(o.side, q),
               IF rest > 0 THEN Dented(h, id, q) ELSE Closed(h, id))
      BY <1>1, <1>2, <1>3, <3>1, KFill
    <3> QED BY <1>2, <2>1, <3>2
  <2>2. CASE ~(q > 0)
    <3>1. q = 0 BY <2>2
    <3>2. b = a BY <3>1 DEF Signed
    <3>3. rest > 0 /\ rest = n BY <1>0, <1>3, <3>1
    <3>4. g = h BY <3>3 DEF h
    <3> QED BY <1>1, <2>2, <3>2, <3>4
  <2> QED BY <2>1, <2>2
<1>5. q < o.quantity <=> rest > 0 BY <1>0, <1>3 DEF n
<1>6. AfterSend(s, id, o, q) = IF rest > 0 /\ o.tif = "Ioc" THEN Told(filled, e) ELSE filled
  BY <1>5 DEF AfterSend, sent, rest, n
<1> HIDE DEF filled, b
<1>7. CASE rest > 0 /\ o.tif = "Ioc"
  <2>1. e.kind \in Ended /\ e.id = id BY DEF Ends, Ended
  <2> HIDE DEF e
  <2>2. Fits(kind, Told(filled, e), b, Closed(g, id)) BY <1>4, <2>1, KEnd
  <2>3. Closed(g, id) = f
    <3>1. rest \in Nat \ {0} BY <1>3, <1>7
    <3> QED BY <1>7, <3>1, JoinedBook
  <2> QED BY <1>6, <1>7, <2>2, <2>3 DEF b
<1>8. CASE ~(rest > 0 /\ o.tif = "Ioc")
  <2>1. g = IF q < o.quantity /\ o.tif # "Ioc" THEN Joined(f, id, o.quantity - q) ELSE f
    BY <1>5, <1>8 DEF rest, n
  <2> HIDE DEF g
  <2> QED BY <1>4, <1>6, <1>8, <2>1 DEF b
<1> QED BY <1>7, <1>8

-----------------------------------------------------------------------------
(* The cancels that take effect. *)

ByCancel == INSTANCE FoldTheorems WITH Op <- CancelTold

(* A finite set, listed. *)
LEMMA Listed ==
  ASSUME NEW S, IsFiniteSet(S)
  PROVE  /\ SetToSeq(S) \in Seq(S)
         /\ \A x \in S : \E k \in 1 .. Len(SetToSeq(S)) : SetToSeq(S)[k] = x
<1> DEFINE n == Cardinality(S)
           l == SetToSeq(S)
<1>1. n \in Nat /\ ExistsBijection(1 .. n, S) BY FS_CardinalityType
<1>2. PICK h : h \in Bijection(1 .. n, S) BY <1>1 DEF ExistsBijection
<1>3. h \in [1 .. n -> S] /\ IsInjective(h)
  BY <1>2 DEF Bijection, Injection
<1>4. l \in [1 .. n -> S] /\ IsInjective(l)
  <2>1. \E g \in [1 .. n -> S] : IsInjective(g) BY <1>3
  <2> QED BY <2>1, Zenon DEF SetToSeq
<1>5. Cardinality(1 .. n) = n
  <2>1. 1 \in Int /\ n \in Int BY <1>1
  <2>2. Cardinality(1 .. n) = IF 1 > n THEN 0 ELSE n - 1 + 1 BY <2>1, FS_Interval
  <2> QED BY <1>1, <2>2
<1> HIDE DEF l, n
<1>6. l \in Injection(1 .. n, S) BY <1>4 DEF Injection
<1>7. l \in Surjection(1 .. n, S) BY <1>5, <1>6, FS_Injection DEF n
<1>8. l \in Seq(S) /\ Len(l) = n BY <1>1, <1>4, SeqDef
<1>9. \A x \in S : \E k \in 1 .. n : l[k] = x BY <1>7 DEF Surjection
<1> QED BY <1>8, <1>9 DEF l

(* The orders whose cancel is due are gone, and what else is open stands. *)
LEMMA KCancels ==
  ASSUME NEW s, NEW a, NEW f, Fits(kind, s, a, f), f = [id \in DOMAIN f |-> f[id]],
         IsFiniteSet(Doomed)
  PROVE  Fits(kind, AfterCancels(s), a, Restrict(f, DOMAIN f \ Doomed))
<1> DEFINE l == SetToSeq(Doomed)
           n == Len(l)
           told(k) == {l[i] : i \in 1 .. k}
           rest(k) == Restrict(f, DOMAIN f \ told(k))
<1>1. l \in Seq(Doomed) /\ n \in Nat /\ \A k \in 1 .. n : l[k] \in Doomed
  BY Listed, LenProperties, ElementOfSeq
<1>2. \A x \in Doomed : \E k \in 1 .. n : l[k] = x BY Listed
<1>3. AfterCancels(s) = ByCancel!FoldLeft(CancelTold, s, l)
  BY Zenon DEF AfterCancels, FoldLeft, MapThenFoldSet, Max,
     ByCancel!FoldLeft, ByCancel!MapThenFoldSet, ByCancel!Max
<1> HIDE DEF l
<1>4. PICK path : ByCancel!FoldPath(path, s, l) /\ AfterCancels(s) = path[n]
  <2>1. \E path : /\ ByCancel!FoldPath(path, s, l)
                  /\ ByCancel!FoldLeft(CancelTold, s, l) = path[Len(l)]
    BY <1>1, ByCancel!FoldFollowsPath
  <2> QED BY <1>3, <2>1
<1> HIDE DEF n
<1>5. path[0] = s /\ \A k \in 1 .. n : path[k] = CancelTold(path[k - 1], l[k])
  BY <1>4 DEF ByCancel!FoldPath, n
<1> DEFINE N == {k \in Nat : k <= n => Fits(kind, path[k], a, rest(k))}
<1>6. 0 \in N
  <2>1. told(0) = {} OBVIOUS
  <2> HIDE DEF told
  <2>2. rest(0) = f BY <2>1 DEF Restrict
  <2> HIDE DEF rest
  <2> QED BY <1>5, <2>2
<1>7. ASSUME NEW k \in Nat, k \in N PROVE k + 1 \in N
  <2> SUFFICES ASSUME k + 1 <= n PROVE Fits(kind, path[k + 1], a, rest(k + 1))
    OBVIOUS
  <2>1. k + 1 \in 1 .. n /\ (k + 1) - 1 = k /\ k <= n BY <1>1
  <2>2. Fits(kind, path[k], a, rest(k)) BY <1>7, <2>1
  <2> DEFINE e == Ends(l[k + 1], venue[l[k + 1]].side, venue[l[k + 1]].remaining,
                       "Cancelled", "User")
  <2>3. path[k + 1] = Told(path[k], e) BY <1>5, <2>1 DEF CancelTold
  <2>4. e.kind \in Ended /\ e.id = l[k + 1] BY DEF Ends, Ended
  <2>5. told(k + 1) = told(k) \cup {l[k + 1]}
    <3>1. 1 .. k + 1 = (1 .. k) \cup {k + 1} BY <1>7
    <3> QED BY <3>1
  <2> HIDE DEF e, told
  <2>6. Closed(rest(k), l[k + 1]) = rest(k + 1) BY <2>5 DEF Closed, Restrict
  <2> HIDE DEF rest
  <2>7. Fits(kind, Told(path[k], e), a, Closed(rest(k), e.id)) BY <2>2, <2>4, KEnd
  <2> QED BY <2>3, <2>4, <2>6, <2>7
<1>8. n \in N
  <2> HIDE DEF N
  <2>1. Nat \subseteq N BY <1>6, <1>7, NatSetInduction
  <2> QED BY <1>1, <2>1
<1>9. told(n) = Doomed BY <1>1, <1>2
<1> HIDE DEF told
<1>10. Fits(kind, path[n], a, rest(n)) BY <1>1, <1>8
<1> QED BY <1>4, <1>9, <1>10

-----------------------------------------------------------------------------
(* The desk. *)

(* The orders at the venue: known by an id that was given, each for something. *)
VenueFits ==
  /\ next_id \in Nat \ {0}
  /\ venue = [id \in DOMAIN venue |-> venue[id]] /\ DOMAIN venue \subseteq 1 .. next_id - 1
  /\ \A id \in DOMAIN venue :
       /\ {"side", "price", "remaining", "cancel", "born"} \subseteq DOMAIN venue[id]
       /\ venue[id].remaining \in Nat \ {0} /\ venue[id].cancel \in BOOLEAN

(* The orders a strategy believes open, and what is left of each. *)
Believable == IF kind = "execution" THEN DOMAIN venue \ Doomed ELSE DOMAIN venue

Remains == [id \in Believable |-> venue[id].remaining]

(* The strategy's books are the account's and the venue's at every step. *)
DeskBooks ==
  /\ VenueFits /\ account \in Int /\ Sendable(to_submit)
  /\ Fits(kind, strat, account, Remains)

(* What the venue leaves to a strategy is a book of open orders. *)
LEMMA RemainsBook ==
  ASSUME VenueFits
  PROVE  OrderBook(Remains) /\ IsFiniteSet(Doomed) /\ DOMAIN Remains = Believable
         /\ \A id \in Believable : Remains[id] = venue[id].remaining
<1>1. IsFiniteSet(1 .. next_id - 1)
  <2>1. 1 \in Int /\ next_id - 1 \in Int BY DEF VenueFits
  <2> QED BY <2>1, FS_Interval
<1>2. /\ Believable \subseteq DOMAIN venue /\ Doomed \subseteq DOMAIN venue
      /\ DOMAIN venue \subseteq 1 .. next_id - 1
  BY DEF Believable, Doomed, VenueFits
<1>3. IsFiniteSet(Believable) /\ IsFiniteSet(Doomed)
  <2>1. Believable \subseteq 1 .. next_id - 1 /\ Doomed \subseteq 1 .. next_id - 1
    BY <1>2
  <2> QED BY <1>1, <2>1, FS_Subset
<1>4. DOMAIN Remains = Believable /\ \A id \in Believable : Remains[id] = venue[id].remaining
  BY DEF Remains
<1>5. Believable \subseteq Nat \ {0} BY <1>2 DEF VenueFits
<1>6. \A id \in Believable : venue[id].remaining \in Nat \ {0} BY <1>2 DEF VenueFits
<1>7. Remains = [id \in DOMAIN Remains |-> Remains[id]] BY DEF Remains
<1>8. OrderBook(Remains) BY <1>3, <1>4, <1>5, <1>6, <1>7 DEF OrderBook
<1> QED BY <1>3, <1>4, <1>8

(* The orders whose cancel was due are gone. *)
LEMMA RemainsKept ==
  ASSUME VenueFits, venue' = Kept, UNCHANGED <<kind, next_id>>
  PROVE  VenueFits' /\ Remains' = Restrict(Remains, DOMAIN Remains \ Doomed)
<1>1. /\ DOMAIN venue' = DOMAIN venue \ Doomed
      /\ \A id \in DOMAIN venue' : venue'[id] = venue[id]
      /\ venue' = [id \in DOMAIN venue' |-> venue'[id]]
  BY DEF Kept, Restrict
<1>2. VenueFits' BY <1>1 DEF VenueFits
<1>3. Doomed' = {} BY <1>1 DEF Doomed
<1>4. Believable' = Believable \ Doomed BY <1>1, <1>3 DEF Believable
<1>5. DOMAIN Remains = Believable /\ \A id \in Believable : Remains[id] = venue[id].remaining
  BY RemainsBook
<1>6. Believable \ Doomed = DOMAIN venue \ Doomed BY DEF Believable
<1>7. Remains' = [id \in DOMAIN Remains \ Doomed |-> Remains[id]]
  BY <1>1, <1>4, <1>5, <1>6 DEF Remains
<1> QED BY <1>2, <1>7 DEF Restrict

(* Nothing happened at the venue. *)
LEMMA RemainsSame ==
  ASSUME VenueFits, UNCHANGED <<kind, venue, next_id>>
  PROVE  VenueFits' /\ Remains' = Remains
<1>1. VenueFits' BY DEF VenueFits
<1>2. Remains' = Remains BY DEF Remains, Believable, Doomed
<1> QED BY <1>1, <1>2

(* An id was given to an order that rests nowhere. *)
LEMMA RemainsGiven ==
  ASSUME VenueFits, UNCHANGED <<kind, venue>>, next_id' = next_id + 1
  PROVE  VenueFits' /\ Remains' = Remains
<1>1. VenueFits' BY DEF VenueFits
<1>2. Remains' = Remains BY DEF Remains, Believable, Doomed
<1> QED BY <1>1, <1>2

(* A fill of a resting order. *)
LEMMA RemainsFill ==
  ASSUME VenueFits, UNCHANGED <<kind, next_id>>, NEW id \in DOMAIN venue, NEW q \in Nat \ {0},
         q <= venue[id].remaining,
         venue' = IF venue[id].remaining = q THEN Restrict(venue, DOMAIN venue \ {id})
                  ELSE [venue EXCEPT ![id].remaining = @ - q]
  PROVE  /\ VenueFits'
         /\ Remains' = IF venue[id].remaining - q > 0 THEN Dented(Remains, id, q)
                       ELSE Closed(Remains, id)
<1>0. venue[id].remaining \in Nat \ {0} BY DEF VenueFits
<1>a. DOMAIN Remains = Believable /\ \A i \in Believable : Remains[i] = venue[i].remaining
  BY RemainsBook
<1>1. CASE venue[id].remaining = q
  <2>1. /\ DOMAIN venue' = DOMAIN venue \ {id}
        /\ \A i \in DOMAIN venue' : venue'[i] = venue[i]
        /\ venue' = [i \in DOMAIN venue' |-> venue'[i]]
    BY <1>1 DEF Restrict
  <2>2. VenueFits'
    <3>1. DOMAIN venue' \subseteq 1 .. next_id' - 1 /\ next_id' \in Nat \ {0}
      BY <2>1 DEF VenueFits
    <3>2. \A i \in DOMAIN venue' : i \in DOMAIN venue BY <2>1
    <3>3. \A i \in DOMAIN venue' :
            /\ {"side", "price", "remaining", "cancel", "born"} \subseteq DOMAIN venue'[i]
            /\ venue'[i].remaining \in Nat \ {0} /\ venue'[i].cancel \in BOOLEAN
      <4>1. \A i \in DOMAIN venue :
              /\ {"side", "price", "remaining", "cancel", "born"} \subseteq DOMAIN venue[i]
              /\ venue[i].remaining \in Nat \ {0} /\ venue[i].cancel \in BOOLEAN
        BY DEF VenueFits
      <4> QED BY ONLY <2>1, <3>2, <4>1
    <3> QED BY <2>1, <3>1, <3>3 DEF VenueFits
  <2>3. Believable' = Believable \ {id} BY <2>1 DEF Believable, Doomed
  <2>4. Remains' = [i \in DOMAIN Remains \ {id} |-> Remains[i]]
    <3>1. \A i \in Believable \ {id} : i \in DOMAIN venue' BY <2>1 DEF Believable
    <3> QED BY <1>a, <2>1, <2>3, <3>1 DEF Remains
  <2>5. ~(venue[id].remaining - q > 0) BY <1>0, <1>1
  <2> QED BY <2>2, <2>4, <2>5 DEF Closed, Restrict
<1>2. CASE venue[id].remaining # q
  <2> DEFINE n == venue[id].remaining - q
             o == [venue[id] EXCEPT !.remaining = n]
  <2>1. venue' = [venue EXCEPT ![id] = o] BY <1>2
  <2>2. n \in Nat \ {0} /\ n > 0 BY <1>0, <1>2
  <2>3. /\ {"side", "price", "remaining", "cancel", "born"} \subseteq DOMAIN o
        /\ o.remaining = n /\ o.cancel = venue[id].cancel
    BY DEF VenueFits
  <2> HIDE DEF n, o
  <2>4. /\ DOMAIN venue' = DOMAIN venue /\ venue'[id] = o
        /\ \A i \in DOMAIN venue \ {id} : venue'[i] = venue[i]
        /\ venue' = [i \in DOMAIN venue' |-> venue'[i]]
    BY <2>1
  <2>5. VenueFits'
    <3>1. DOMAIN venue' \subseteq 1 .. next_id' - 1 /\ next_id' \in Nat \ {0}
      BY <2>4 DEF VenueFits
    <3>2. o.cancel \in BOOLEAN BY <2>3 DEF VenueFits
    <3>3. \A i \in DOMAIN venue' :
            /\ {"side", "price", "remaining", "cancel", "born"} \subseteq DOMAIN venue'[i]
            /\ venue'[i].remaining \in Nat \ {0} /\ venue'[i].cancel \in BOOLEAN
      <4>1. \A i \in DOMAIN venue \ {id} :
              /\ {"side", "price", "remaining", "cancel", "born"} \subseteq DOMAIN venue'[i]
              /\ venue'[i].remaining \in Nat \ {0} /\ venue'[i].cancel \in BOOLEAN
        BY <2>4 DEF VenueFits
      <4>2. /\ {"side", "price", "remaining", "cancel", "born"} \subseteq DOMAIN venue'[id]
            /\ venue'[id].remaining \in Nat \ {0} /\ venue'[id].cancel \in BOOLEAN
        BY <2>2, <2>3, <2>4, <3>2
      <4> QED BY <2>4, <4>1, <4>2
    <3> QED BY <2>4, <3>1, <3>3 DEF VenueFits
  <2>6. Believable' = Believable BY <2>3, <2>4 DEF Believable, Doomed
  <2>7. Believable \subseteq DOMAIN venue BY DEF Believable
  <2>8. Remains' = [i \in Believable |-> IF i = id THEN n ELSE Remains[i]]
    BY <1>a, <2>3, <2>4, <2>6, <2>7 DEF Remains
  <2>9. Dented(Remains, id, q) = [i \in Believable |-> IF i = id THEN n ELSE Remains[i]]
    <3>1. Remains = [i \in Believable |-> Remains[i]] BY DEF Remains
    <3>2. CASE id \in Believable
      <4>1. Remains[id] - q = n BY <1>a, <3>2 DEF n
      <4>2. [Remains EXCEPT ![id] = Remains[id] - q]
              = [i \in Believable |-> IF i = id THEN n ELSE Remains[i]]
        BY <1>a, <4>1
      <4> QED BY <1>a, <3>2, <4>2 DEF Dented
    <3>3. CASE id \notin Believable BY <1>a, <3>1, <3>3 DEF Dented
    <3> QED BY <3>2, <3>3
  <2> QED BY <2>2, <2>5, <2>8, <2>9 DEF n
<1> QED BY <1>1, <1>2

(* An order that rests. *)
LEMMA RemainsJoined ==
  ASSUME VenueFits, kind' = kind, next_id' = next_id + 1, NEW o,
         {"side", "price", "remaining", "cancel", "born"} \subseteq DOMAIN o,
         o.remaining \in Nat \ {0}, o.cancel = FALSE, venue' = Joined(venue, next_id, o)
  PROVE  VenueFits' /\ Remains' = Joined(Remains, next_id, o.remaining)
<1>1. next_id \in Nat \ {0} /\ next_id \notin DOMAIN venue BY DEF VenueFits
<1>2. /\ DOMAIN venue' = {next_id} \cup DOMAIN venue /\ venue'[next_id] = o
      /\ \A i \in DOMAIN venue : venue'[i] = venue[i]
      /\ venue' = [i \in DOMAIN venue' |-> venue'[i]]
  BY <1>1 DEF Joined
<1>3. VenueFits'
  <2>1. DOMAIN venue' \subseteq 1 .. next_id' - 1 BY <1>1, <1>2 DEF VenueFits
  <2>2. next_id' \in Nat \ {0} BY <1>1
  <2>3. \A id \in DOMAIN venue' :
          /\ {"side", "price", "remaining", "cancel", "born"} \subseteq DOMAIN venue'[id]
          /\ venue'[id].remaining \in Nat \ {0} /\ venue'[id].cancel \in BOOLEAN
    <3>1. \A id \in DOMAIN venue :
            /\ {"side", "price", "remaining", "cancel", "born"} \subseteq DOMAIN venue'[id]
            /\ venue'[id].remaining \in Nat \ {0} /\ venue'[id].cancel \in BOOLEAN
      BY <1>2 DEF VenueFits
    <3>2. /\ {"side", "price", "remaining", "cancel", "born"} \subseteq DOMAIN venue'[next_id]
          /\ venue'[next_id].remaining \in Nat \ {0} /\ venue'[next_id].cancel \in BOOLEAN
      BY <1>2
    <3> QED BY <1>2, <3>1, <3>2
  <2> QED BY <1>2, <2>1, <2>2, <2>3 DEF VenueFits
<1>4. Believable' = {next_id} \cup Believable
  <2>1. Doomed' = Doomed BY <1>1, <1>2 DEF Doomed
  <2>2. next_id \notin Doomed BY <1>1 DEF Doomed
  <2> QED BY <1>2, <2>1, <2>2 DEF Believable
<1>5. DOMAIN Remains = Believable /\ \A i \in Believable : Remains[i] = venue[i].remaining
  BY RemainsBook
<1>6. Believable \subseteq DOMAIN venue BY DEF Believable
<1>7. Remains' = [i \in {next_id} \cup Believable |-> IF i = next_id THEN o.remaining
                                                     ELSE Remains[i]]
  BY <1>1, <1>2, <1>4, <1>5, <1>6 DEF Remains
<1> QED BY <1>3, <1>5, <1>7 DEF Joined

(* Cancels asked for: only the execution strategy forgets the orders at once. *)
LEMMA RemainsAsked ==
  ASSUME VenueFits, UNCHANGED <<kind, next_id>>, NEW s,
         venue' = [id \in DOMAIN venue |->
                     [venue[id] EXCEPT !.cancel = @ \/ id \in Cancels(s)]]
  PROVE  VenueFits' /\ Remains' = Restrict(Remains, DOMAIN Remains \ Forgone(s))
<1> DEFINE c(id) == venue[id].cancel \/ id \in Cancels(s)
<1>1. /\ DOMAIN venue' = DOMAIN venue
      /\ \A id \in DOMAIN venue : venue'[id] = [venue[id] EXCEPT !.cancel = c(id)]
      /\ venue' = [id \in DOMAIN venue' |-> venue'[id]]
  OBVIOUS
<1>2. \A id \in DOMAIN venue : c(id) \in BOOLEAN OBVIOUS
<1>3. \A id \in DOMAIN venue :
        /\ {"side", "price", "remaining", "cancel", "born"} \subseteq DOMAIN venue'[id]
        /\ venue'[id].remaining = venue[id].remaining /\ venue'[id].cancel = c(id)
  <2> HIDE DEF c
  <2>1. \A id \in DOMAIN venue :
          {"side", "price", "remaining", "cancel", "born"} \subseteq DOMAIN venue[id]
    BY DEF VenueFits
  <2>2. ASSUME NEW id \in DOMAIN venue
        PROVE  /\ {"side", "price", "remaining", "cancel", "born"} \subseteq DOMAIN venue'[id]
               /\ venue'[id].remaining = venue[id].remaining /\ venue'[id].cancel = c(id)
    <3>1. PICK o : o = venue[id] OBVIOUS
    <3>2. {"side", "price", "remaining", "cancel", "born"} \subseteq DOMAIN o BY <2>1, <3>1
    <3>3. venue'[id] = [o EXCEPT !.cancel = c(id)] BY <1>1, <3>1
    <3> QED BY ONLY <3>1, <3>2, <3>3
  <2> QED BY <2>2
<1>4. VenueFits'
  <2> HIDE DEF c
  <2> QED BY <1>1, <1>2, <1>3 DEF VenueFits
<1>5. Doomed' = Doomed \cup {id \in DOMAIN venue : id \in Cancels(s)}
  BY <1>1, <1>3 DEF Doomed
<1>6. Believable' = Believable \ Forgone(s) BY <1>1, <1>5 DEF Believable, Forgone
<1>7. DOMAIN Remains = Believable /\ \A i \in Believable : Remains[i] = venue[i].remaining
  BY RemainsBook
<1>8. Believable \subseteq DOMAIN venue BY DEF Believable
<1>9. Remains' = [id \in DOMAIN Remains \ Forgone(s) |-> Remains[id]]
  <2> HIDE DEF c
  <2> QED BY <1>3, <1>6, <1>7, <1>8 DEF Remains
<1> QED BY <1>4, <1>9 DEF Restrict

(* A desk opens with its books in order. *)
LEMMA DeskOpens == DInit => DeskBooks
<1> SUFFICES ASSUME DInit PROVE DeskBooks OBVIOUS
<1>1. PICK d \in Desks : kind = d.kind /\ strat = Fresh(d) BY DEF DInit
<1>2. Configured(d) BY DeskAssumption
<1>3. kind \in Kinds BY <1>1, <1>2 DEF Configured, Kinds
<1>4. Configured([kind |-> kind, cfg |-> d.cfg]) BY <1>1, <1>2 DEF Configured
<1>5. venue = <<>> /\ account = 0 /\ to_submit = <<>> /\ next_id = 1 BY DEF DInit
<1>6. DOMAIN venue = {} /\ venue = [id \in {} |-> venue[id]] BY <1>5
<1>7. VenueFits BY <1>5, <1>6 DEF VenueFits
<1>8. Remains = <<>> BY <1>6 DEF Remains, Believable, Doomed
<1>9. account \in Int /\ Sendable(to_submit) BY <1>5, SendNoneOrOne
<1>10. Lists(<<>>, <<>>) BY DEF Lists
<1>11. Fits(kind, strat, 0, <<>>)
  <2>1. CASE kind = "execution"
    <3>1. strat = X!NewExecution(d.cfg) BY <1>1, <2>1, KindsDiffer DEF Fresh
    <3>2. XBook(strat, 0, <<>>) /\ strat.cancel_queue = {}
      BY <1>4, <2>1, <3>1 DEF XBook, XFields, X!NewExecution
    <3> QED BY <1>3, <2>1, <3>2, KindsDiffer DEF Fits
  <2>2. CASE kind = "trend"
    <3>1. strat = T!NewTrend(d.cfg) BY <1>1, <2>2, KindsDiffer DEF Fresh
    <3>2. TBook(strat, 0, <<>>)
      BY <1>4, <1>10, <2>2, <3>1 DEF TBook, TFields, T!NewTrend
    <3> QED BY <1>3, <2>2, <3>2, KindsDiffer DEF Fits
  <2>3. CASE kind = "naive"
    <3>1. strat = NewNaive(d.cfg) BY <1>1, <2>3, KindsDiffer DEF Fresh
    <3>2. BBook(kind, strat, 0, <<>>) BY <1>4, <1>10, <3>1 DEF BBook, NewNaive
    <3> QED BY <1>3, <2>3, <3>2, KindsDiffer DEF Fits
  <2>4. CASE kind = "optimized"
    <3>1. strat = NewOptimized(d.cfg) BY <1>1, <2>4, KindsDiffer DEF Fresh
    <3>2. BBook(kind, strat, 0, <<>>) BY <1>4, <1>10, <3>1 DEF BBook, NewOptimized
    <3> QED BY <1>3, <2>4, <3>2, KindsDiffer DEF Fits
  <2>5. CASE kind = "active"
    <3>1. strat = NewActive(d.cfg) BY <1>1, <2>5, KindsDiffer DEF Fresh
    <3>2. MBook(kind, strat, 0, <<>>) BY <1>4, <3>1 DEF MBook, BaseBook, NewActive, Idle
    <3> QED BY <1>3, <2>5, <3>2, KindsDiffer DEF Fits
  <2>6. CASE kind = "inventory"
    <3>1. strat = NewInventory(d.cfg) BY <1>1, <2>6, KindsDiffer DEF Fresh
    <3>2. MBook(kind, strat, 0, <<>>) BY <1>4, <3>1 DEF MBook, BaseBook, NewInventory, Idle
    <3> QED BY <1>3, <2>6, <3>2, KindsDiffer DEF Fits
  <2>7. CASE kind \in L!L1Kinds
    <3>1. strat = L!NewL1(d.cfg) BY <1>1, <2>7, KindsDiffer DEF Fresh
    <3>2. BBook(kind, strat, 0, <<>>) BY <1>4, <1>10, <3>1 DEF BBook, L!NewL1
    <3>3. LFields \subseteq DOMAIN strat /\ strat.bought = 0 /\ strat.sold = 0
          /\ strat.trades = <<>>
      BY <3>1 DEF LFields, L!NewL1
    <3>4. LBook(kind, strat, 0, <<>>) BY <2>7, <3>2, <3>3, EmptySeq DEF LBook
    <3> QED BY <1>3, <2>7, <3>4, KindsDiffer DEF Fits
  <2> QED BY <1>3, <2>1, <2>2, <2>3, <2>4, <2>5, <2>6, <2>7 DEF Kinds
<1> QED BY <1>5, <1>7, <1>8, <1>9, <1>11 DEF DeskBooks

(* The orders left to send are sendable. *)
LEMMA SendRest ==
  ASSUME NEW orders, Sendable(orders), orders # <<>>
  PROVE  Sendable(Tail(orders)) /\ ForSome(Head(orders))
<1>1. PICK S : OrdersOf(S, orders) BY DEF Sendable
<1>2. Head(orders) \in S /\ Tail(orders) \in Seq(S)
  BY <1>1, HeadTailProperties DEF OrdersOf
<1>3. OrdersOf(S, Tail(orders)) BY <1>1, <1>2 DEF OrdersOf
<1> QED BY <1>1, <1>2, <1>3 DEF OrdersOf, Sendable

(* A view, a quote or a trade at the venue, with the cancels that are due. *)
LEMMA DeskCancels ==
  ASSUME DeskBooks, venue' = Kept, strat' = AfterCancels(strat),
         UNCHANGED <<kind, next_id, account, to_submit>>
  PROVE  DeskBooks'
<1>1. VenueFits' /\ Remains' = Restrict(Remains, DOMAIN Remains \ Doomed)
  BY RemainsKept DEF DeskBooks
<1>2. Remains = [id \in DOMAIN Remains |-> Remains[id]] /\ IsFiniteSet(Doomed)
  BY RemainsBook DEF DeskBooks, OrderBook
<1>3. Fits(kind, AfterCancels(strat), account, Restrict(Remains, DOMAIN Remains \ Doomed))
  BY <1>2, KCancels DEF DeskBooks
<1> QED BY <1>1, <1>3 DEF DeskBooks

(* The strategy heard of something that leaves its books alone. *)
LEMMA DeskHears ==
  ASSUME DeskBooks, Fits(kind, strat', account, Remains),
         UNCHANGED <<kind, venue, next_id, account, to_submit>>
  PROVE  DeskBooks'
<1>1. VenueFits' /\ Remains' = Remains BY RemainsSame DEF DeskBooks
<1> QED BY <1>1 DEF DeskBooks

(* A fill of a resting order. *)
LEMMA DeskFills ==
  ASSUME DeskBooks, NEW id \in DOMAIN venue, NEW q \in Sizes \ {0}, FillResting(id, q)
  PROVE  DeskBooks'
<1> DEFINE o == venue[id]
           rest == o.remaining - q
           f == IF rest > 0 THEN Dented(Remains, id, q) ELSE Closed(Remains, id)
<1>1. /\ q <= o.remaining
      /\ strat' = AfterFill(strat, id, o, q, rest)
      /\ account' = account + Signed(o.side, q)
      /\ venue' = IF o.remaining = q THEN Restrict(venue, DOMAIN venue \ {id})
                  ELSE [venue EXCEPT ![id].remaining = @ - q]
      /\ UNCHANGED <<kind, next_id, to_submit>>
  BY DEF FillResting
<1>2. VenueFits /\ account \in Int /\ Fits(kind, strat, account, Remains) /\ Sendable(to_submit)
  BY DEF DeskBooks
<1>3. q \in Nat \ {0} BY DEF Sizes
<1>4. o.remaining \in Nat \ {0} BY <1>2 DEF VenueFits
<1>5. VenueFits' /\ Remains' = f BY <1>1, <1>2, <1>3, RemainsFill
<1>6. /\ OrderBook(Remains) /\ DOMAIN Remains = Believable
      /\ \A i \in Believable : Remains[i] = venue[i].remaining
  BY <1>2, RemainsBook
<1>7. rest \in Nat /\ o.remaining = q + rest BY <1>1, <1>3, <1>4
<1>8. kind # "execution" => id \in DOMAIN Remains BY <1>6 DEF Believable
<1>9. id \in DOMAIN Remains => Remains[id] = q + rest BY <1>6, <1>7
<1> HIDE DEF o, rest
<1>10. Fits(kind, AfterFill(strat, id, o, q, rest), account + Signed(o.side, q), f)
  BY <1>2, <1>3, <1>6, <1>7, <1>8, <1>9, KFill
<1>11. account + Signed(o.side, q) \in Int BY <1>2, <1>3 DEF Signed
<1> HIDE DEF f
<1> QED BY <1>1, <1>2, <1>5, <1>10, <1>11 DEF DeskBooks

(* A view's decision. *)
LEMMA DeskDecides ==
  ASSUME DeskBooks, NEW d, Decide(d)
  PROVE  DeskBooks'
<1>1. /\ d \in DecisionsOf(strat, view) /\ strat' = Handed(d.strat) /\ to_submit' = d.orders
      /\ venue' = [id \in DOMAIN venue |->
                     [venue[id] EXCEPT !.cancel = @ \/ id \in Cancels(d.strat)]]
      /\ UNCHANGED <<kind, next_id, account>>
  BY DEF Decide
<1>2. VenueFits /\ account \in Int /\ Fits(kind, strat, account, Remains) BY DEF DeskBooks
<1>3. VenueFits' /\ Remains' = Restrict(Remains, DOMAIN Remains \ Forgone(d.strat))
  BY <1>1, <1>2, RemainsAsked
<1>4. OrderBook(Remains) BY <1>2, RemainsBook
<1>5. /\ Fits(kind, Handed(d.strat), account, Restrict(Remains, DOMAIN Remains \ Forgone(d.strat)))
      /\ Sendable(d.orders)
  BY <1>1, <1>2, <1>4, KDecide
<1> QED BY <1>1, <1>2, <1>3, <1>5 DEF DeskBooks

(* The venue refuses an order. *)
LEMMA DeskRejects ==
  ASSUME DeskBooks, RejectOrder
  PROVE  DeskBooks'
<1> DEFINE o == Head(to_submit)
           e == Ends(next_id, o.side, o.quantity, "Rejected", "None")
           sent == Submitted(strat, next_id, o)
<1>1. /\ strat' = Told(sent, e) /\ to_submit' = Tail(to_submit) /\ next_id' = next_id + 1
      /\ to_submit # <<>> /\ UNCHANGED <<kind, venue, account>>
  BY DEF RejectOrder
<1>2. VenueFits /\ account \in Int /\ Fits(kind, strat, account, Remains) /\ Sendable(to_submit)
  BY DEF DeskBooks
<1>3. Sendable(Tail(to_submit)) /\ ForSome(o) BY <1>1, <1>2, SendRest
<1>4. VenueFits' /\ Remains' = Remains BY <1>1, <1>2, RemainsGiven
<1>6. o.quantity \in Nat \ {0} /\ "quantity" \in DOMAIN o BY <1>3 DEF ForSome
<1>7. e.kind \in Ended /\ e.id = next_id BY DEF Ends, Ended
<1> HIDE DEF o, e
<1>8. Fits(kind, sent, account, Joined(Remains, next_id, o.quantity)) BY <1>2, <1>6, KSubmit
<1> HIDE DEF sent
<1>9. Fits(kind, Told(sent, e), account, Closed(Joined(Remains, next_id, o.quantity), e.id))
  BY <1>7, <1>8, KEnd
<1>10. Closed(Joined(Remains, next_id, o.quantity), next_id) = Remains
  <2>1. OrderBook(Remains) /\ DOMAIN Remains = Believable BY <1>2, RemainsBook
  <2>2. next_id \in Nat \ {0} /\ next_id \notin DOMAIN Remains
    BY <1>2, <2>1 DEF VenueFits, Believable
  <2> QED BY <1>6, <2>1, <2>2, JoinedBook
<1> QED BY <1>1, <1>2, <1>3, <1>4, <1>7, <1>9, <1>10 DEF DeskBooks

(* An order is sent. *)
LEMMA DeskSends ==
  ASSUME DeskBooks, NEW q \in Sizes, SendOrder(q)
  PROVE  DeskBooks'
<1> DEFINE o == Head(to_submit)
           w == [side |-> o.side, price |-> o.price, remaining |-> o.quantity - q,
                 cancel |-> FALSE, born |-> left]
           rests == q < o.quantity /\ o.tif # "Ioc"
           f == IF rests THEN Joined(Remains, next_id, o.quantity - q) ELSE Remains
<1>1. /\ q <= (IF AtFarTouch(o) THEN o.quantity ELSE 0)
      /\ strat' = AfterSend(strat, next_id, o, q) /\ account' = account + Signed(o.side, q)
      /\ venue' = IF rests THEN Joined(venue, next_id, w) ELSE venue
      /\ to_submit' = Tail(to_submit) /\ next_id' = next_id + 1
      /\ to_submit # <<>> /\ kind' = kind
  BY DEF SendOrder
<1>2. VenueFits /\ account \in Int /\ Fits(kind, strat, account, Remains) /\ Sendable(to_submit)
  BY DEF DeskBooks
<1>3. Sendable(Tail(to_submit)) /\ ForSome(o) BY <1>1, <1>2, SendRest
<1>4. o.quantity \in Nat \ {0} BY <1>3 DEF ForSome
<1>5. q \in Nat /\ q <= o.quantity BY <1>1, <1>4 DEF Sizes
<1>6. OrderBook(Remains) /\ DOMAIN Remains = Believable BY <1>2, RemainsBook
<1>7. next_id \in Nat \ {0} /\ next_id \notin DOMAIN Remains
  BY <1>2, <1>6 DEF VenueFits, Believable
<1>8. Fits(kind, AfterSend(strat, next_id, o, q), account + Signed(o.side, q), f)
  <2> HIDE DEF o
  <2> QED BY <1>2, <1>3, <1>5, <1>6, <1>7, KSend
<1>9. account + Signed(o.side, q) \in Int BY <1>2, <1>5 DEF Signed
<1>10. VenueFits' /\ Remains' = f
  <2>1. CASE rests
    <3>1. /\ {"side", "price", "remaining", "cancel", "born"} \subseteq DOMAIN w
          /\ w.remaining = o.quantity - q /\ w.cancel = FALSE
      OBVIOUS
    <3>2. w.remaining \in Nat \ {0} BY <1>4, <1>5, <2>1
    <3>3. venue' = Joined(venue, next_id, w) BY <1>1, <2>1
    <3> HIDE DEF w, o
    <3>4. VenueFits' /\ Remains' = Joined(Remains, next_id, w.remaining)
      BY <1>1, <1>2, <3>1, <3>2, <3>3, RemainsJoined
    <3> QED BY <2>1, <3>1, <3>4
  <2>2. CASE ~rests
    <3>1. venue' = venue BY <1>1, <2>2
    <3>2. kind' = kind /\ next_id' = next_id + 1 BY <1>1
    <3>3. VenueFits' /\ Remains' = Remains BY <1>2, <3>1, <3>2, RemainsGiven
    <3> QED BY <2>2, <3>3
  <2> QED BY <2>1, <2>2
<1> HIDE DEF f, o
<1> QED BY <1>1, <1>2, <1>3, <1>8, <1>9, <1>10 DEF DeskBooks

(* Every step of the desk keeps the books. *)
LEMMA DeskStep == DeskBooks /\ [DNext]_dvars => DeskBooks'
<1> SUFFICES ASSUME DeskBooks, [DNext]_dvars PROVE DeskBooks' OBVIOUS
<1>0. Fits(kind, strat, account, Remains) BY DEF DeskBooks
<1>1. ASSUME NEW top, NEW dt, ViewEvent(top, dt) PROVE DeskBooks'
  <2>1. UNCHANGED <<kind, next_id, account, to_submit>> BY <1>1 DEF ViewEvent
  <2>2. CASE top.bid > 0 /\ top.ask > 0
    BY <1>1, <2>1, <2>2, DeskCancels DEF ViewEvent
  <2>3. CASE ~(top.bid > 0 /\ top.ask > 0)
    BY <1>0, <1>1, <2>1, <2>3, DeskHears DEF ViewEvent
  <2> QED BY <2>2, <2>3
<1>2. ASSUME NEW top, QuoteEvent(top) PROVE DeskBooks'
  BY <1>2, DeskCancels DEF QuoteEvent
<1>3. ASSUME NEW trade \in Trades, TradeEvent(trade) PROVE DeskBooks'
  <2>1. Fits(kind, AfterTrade(strat, trade), account, Remains) BY <1>0, KPublic
  <2> QED BY <1>3, <2>1, DeskHears DEF TradeEvent
<1>4. ASSUME NEW trade \in Trades, NEW far, NEW stale, QuotedTrade(trade, far, stale)
      PROVE  DeskBooks'
  <2>1. kind \in L!L1Kinds BY <1>4 DEF QuotedTrade, OnQuotes
  <2>2. Fits(kind, L!OnQuotedTrade(strat, trade, stale), account, Remains)
    BY <1>0, <2>1, KPublic
  <2>3. strat' = strat \/ strat' = L!OnQuotedTrade(strat, trade, stale)
    BY <1>4 DEF QuotedTrade
  <2>4. UNCHANGED <<kind, venue, next_id, account, to_submit>> BY <1>4 DEF QuotedTrade
  <2> QED BY <1>0, <2>2, <2>3, <2>4, DeskHears
<1>5. ASSUME NEW id \in DOMAIN venue, NEW q \in Sizes \ {0}, FillResting(id, q)
      PROVE  DeskBooks'
  BY <1>5, DeskFills
<1>6. CASE TradeDone BY <1>6, DeskCancels DEF TradeDone
<1>7. ASSUME NEW d, Decide(d) PROVE DeskBooks' BY <1>7, DeskDecides
<1>8. CASE RefuseOrder
  <2>1. Fits(kind, Refused(strat), account, Remains) BY <1>0, KRefuse
  <2>2. Sendable(Tail(to_submit)) BY <1>8, SendRest DEF RefuseOrder, DeskBooks
  <2>3. VenueFits' /\ Remains' = Remains BY <1>8, RemainsSame DEF RefuseOrder, DeskBooks
  <2> QED BY <1>8, <2>1, <2>2, <2>3 DEF RefuseOrder, DeskBooks
<1>9. CASE RejectOrder BY <1>9, DeskRejects
<1>10. ASSUME NEW q \in Sizes, SendOrder(q) PROVE DeskBooks' BY <1>10, DeskSends
<1>11. CASE ViewDone BY <1>0, <1>11, DeskHears DEF ViewDone
<1>12. CASE UNCHANGED dvars BY <1>0, <1>12, DeskHears DEF dvars
<1> QED
  BY <1>1, <1>2, <1>3, <1>4, <1>5, <1>6, <1>7, <1>8, <1>9, <1>10, <1>11, <1>12 DEF DNext

(* What the strategy believes is what remains of the orders it believes open. *)
LEMMA BooksHeld == DeskBooks => PositionOf(strat) = account /\ Believed(strat) = Remains
<1> SUFFICES ASSUME DeskBooks PROVE PositionOf(strat) = account /\ Believed(strat) = Remains
  OBVIOUS
<1>1. Fits(kind, strat, account, Remains) /\ OrderBook(Remains) BY RemainsBook DEF DeskBooks
<1>2. Remains = [id \in DOMAIN Remains |-> Remains[id]] BY <1>1 DEF OrderBook
<1>3. CASE kind = "execution"
  <2>1. strat.position = account /\ strat.open = Remains BY <1>1, <1>3 DEF Fits, XBook
  <2> QED BY <1>2, <1>3, <2>1 DEF PositionOf, Believed, OpenOf
<1>4. CASE kind \in {"active", "inventory"}
  <2>1. strat.base.position = account /\ strat.base.open = Remains
    BY <1>1, <1>4 DEF Fits, MBook, BaseBook
  <2> QED BY <1>2, <1>4, <2>1 DEF PositionOf, Believed, OpenOf
<1>5. CASE kind \notin {"execution", "active", "inventory"}
  <2>1. strat.position = account /\ Lists(strat.open, Remains)
    <3>1. CASE kind = "trend" BY <1>1, <3>1 DEF Fits, TBook
    <3>2. CASE kind \in {"naive", "optimized"} BY <1>1, <3>2 DEF Fits, BBook
    <3>3. CASE kind \in L!L1Kinds BY <1>1, <3>3 DEF Fits, LBook, BBook
    <3> QED BY <1>1, <1>5, <3>1, <3>2, <3>3 DEF Fits, Kinds
  <2>2. DOMAIN strat.open = DOMAIN Remains
        /\ \A id \in DOMAIN Remains : strat.open[id].quantity = Remains[id]
    BY <2>1 DEF Lists
  <2> QED BY <1>2, <1>5, <2>1, <2>2 DEF PositionOf, Believed, OpenOf
<1> QED BY <1>3, <1>4, <1>5

(* Between events the strategy's position is the account's and its open orders are
   the venue's, quantities included, whatever fills, is refused, is cancelled late or
   dies in the call that sends it. *)
THEOREM StrategyAlwaysKnows == DSpec => []StrategyKnowsBooks
<1>1. DInit => DeskBooks BY DeskOpens
<1>2. DeskBooks /\ [DNext]_dvars => DeskBooks' BY DeskStep
<1>3. DeskBooks => StrategyKnowsBooks
  BY BooksHeld DEF StrategyKnowsBooks, Remains, Believable
<1> QED BY <1>1, <1>2, <1>3, PTL DEF DSpec

-----------------------------------------------------------------------------
(* The parent of the execution strategy. *)

(* No child but the working one is open, and neither the slice nor that child goes
   beyond what the parent still wants: all that filled of it, less l, which filled of
   children already given up.  A market parent that was sent still owes the rest. *)
WithinParent(s, l) ==
  /\ \A id \in DOMAIN s.open : id = s.working /\ id # 0
  /\ s.filled - l + s.slice_remaining <= s.cfg.quantity
  /\ \A id \in DOMAIN s.open : s.filled - l + s.open[id] <= s.cfg.quantity
  /\ s.sent_market => s.filled + s.slice_remaining >= s.cfg.quantity

(* The numbers of a parent. *)
LEMMA XNumbers ==
  ASSUME NEW s, NEW a, NEW f, XBook(s, a, f), OrderBook(f)
  PROVE  /\ s.filled \in Nat /\ s.slice_remaining \in Nat /\ s.cfg.quantity \in Nat
         /\ DOMAIN s = XFields /\ s.open = f /\ \A id \in DOMAIN f : f[id] \in Nat \ {0}
BY XConfigured DEF XBook, OrderBook

(* A fill of an open child counts for the parent; one of a child given up is late. *)
LEMMA XTradeWithin ==
  ASSUME NEW s, NEW a, NEW f, XBook(s, a, f), OrderBook(f), NEW l \in Nat, WithinParent(s, l),
         NEW r, r.quantity \in Nat \ {0}, r.id \in DOMAIN f => r.quantity <= f[r.id]
  PROVE  WithinParent(X!OnTrade(s, r), IF r.id \in DOMAIN f THEN l ELSE l + r.quantity)
<1> DEFINE t == X!OnTrade(s, r)
           n == r.quantity
<1>0. /\ s.filled \in Nat /\ s.slice_remaining \in Nat /\ s.cfg.quantity \in Nat
      /\ DOMAIN s = XFields /\ s.open = f /\ \A id \in DOMAIN f : f[id] \in Nat \ {0}
  BY XNumbers
<1>d. DOMAIN s = XFields BY <1>0
<1>a. /\ t.filled = s.filled + n /\ t.slice_remaining = X!Less(s.slice_remaining, n)
      /\ t.open = X!Took(s.open, r.id, n)
      /\ \A b \in XFields \ {"position", "filled", "slice_remaining", "open"} : t[b] = s[b]
  BY <1>d, XTradeFields
<1>1. t.cfg = s.cfg /\ t.working = s.working /\ t.sent_market = s.sent_market
  BY <1>a DEF XFields
<1>2. t.slice_remaining = IF s.slice_remaining >= n THEN s.slice_remaining - n ELSE 0
  <2>1. s.slice_remaining \in Int /\ n \in Int BY <1>0
  <2> QED BY <1>a, <2>1, XLess
<1>3. s.sent_market => s.filled + s.slice_remaining >= s.cfg.quantity BY DEF WithinParent
<1>4. t.sent_market => t.filled + t.slice_remaining >= t.cfg.quantity
  BY <1>0, <1>1, <1>2, <1>3, <1>a
<1>5. DOMAIN t.open = DOMAIN f BY <1>0, <1>a DEF X!Took
<1>6. \A id \in DOMAIN t.open : id = t.working /\ id # 0 BY <1>0, <1>1, <1>5 DEF WithinParent
<1>7. s.filled - l + s.slice_remaining <= s.cfg.quantity BY DEF WithinParent
<1>8. CASE r.id \in DOMAIN f
  <2>1. f[r.id] \in Nat /\ n <= f[r.id] /\ s.filled - l + f[r.id] <= s.cfg.quantity
    BY <1>0, <1>8 DEF WithinParent
  <2>2. X!Less(f[r.id], n) = f[r.id] - n
    <3>1. PICK k \in Int : k = f[r.id] /\ n <= k BY <2>1
    <3>2. PICK m \in Int : m = n OBVIOUS
    <3>3. X!Less(k, m) = IF k >= m THEN k - m ELSE 0 BY ONLY XLess
    <3> QED BY <3>1, <3>2, <3>3
  <2>3. t.open = [f EXCEPT ![r.id] = f[r.id] - n] BY <1>0, <1>8, <1>a, <2>2 DEF X!Took
  <2>4. DOMAIN f = {r.id} BY <1>0, <1>8 DEF WithinParent
  <2>5. \A id \in DOMAIN t.open : t.open[id] = f[r.id] - n BY <1>5, <2>3, <2>4
  <2>6. t.filled - l + t.slice_remaining <= t.cfg.quantity
    BY <1>0, <1>1, <1>2, <1>7, <1>a, <2>1
  <2>7. t.filled - l + (f[r.id] - n) <= t.cfg.quantity BY <1>0, <1>1, <1>a, <2>1
  <2> HIDE DEF t
  <2>8. WithinParent(t, l) BY <1>4, <1>6, <2>5, <2>6, <2>7 DEF WithinParent
  <2> QED BY <1>8, <2>8 DEF t
<1>9. CASE r.id \notin DOMAIN f
  <2>1. t.open = f BY <1>0, <1>9, <1>a DEF X!Took
  <2>2. t.filled - (l + n) = s.filled - l BY <1>0, <1>a
  <2>3. t.slice_remaining <= s.slice_remaining /\ t.slice_remaining \in Nat BY <1>0, <1>2
  <2>4. t.filled - (l + n) + t.slice_remaining <= t.cfg.quantity
    BY <1>0, <1>1, <1>7, <2>2, <2>3
  <2>5. \A id \in DOMAIN t.open : t.filled - (l + n) + t.open[id] <= t.cfg.quantity
    BY <1>0, <1>1, <2>1, <2>2 DEF WithinParent
  <2> HIDE DEF t
  <2>6. WithinParent(t, l + n) BY <1>4, <1>6, <2>4, <2>5 DEF WithinParent
  <2> QED BY <1>9, <2>6 DEF t
<1> QED BY <1>8, <1>9

(* The end of a child leaves the slice to the next. *)
LEMMA XEndWithin ==
  ASSUME NEW s, DOMAIN s = XFields, NEW l, WithinParent(s, l), NEW r, r.kind \in Ended
  PROVE  LET t == X!OnOrderUpdate(s, r) IN DOMAIN t = XFields /\ WithinParent(t, l)
<1> DEFINE t == X!OnOrderUpdate(s, r)
<1>1. /\ DOMAIN t = XFields /\ t.open = X!Restrict(s.open, DOMAIN s.open \ {r.id})
      /\ t.working = IF r.id = s.working THEN 0 ELSE s.working
      /\ t.cfg = s.cfg /\ t.filled = s.filled /\ t.slice_remaining = s.slice_remaining
      /\ t.sent_market = s.sent_market
  BY XEndFields DEF XFields
<1>2. DOMAIN t.open = DOMAIN s.open \ {r.id}
      /\ \A id \in DOMAIN t.open : t.open[id] = s.open[id]
  BY <1>1 DEF X!Restrict
<1> HIDE DEF t
<1>3. \A id \in DOMAIN t.open : id = t.working /\ id # 0 BY <1>1, <1>2 DEF WithinParent
<1>4. WithinParent(t, l) BY <1>1, <1>2, <1>3 DEF WithinParent
<1> QED BY <1>1, <1>4 DEF t

(* A child sent for the slice, with no other open. *)
LEMMA XSubmitWithin ==
  ASSUME NEW s, DOMAIN s = XFields, NEW l, WithinParent(s, l), DOMAIN s.open = {},
         NEW id, id # 0, NEW o, o.quantity = s.slice_remaining
  PROVE  WithinParent(X!OnOrderSubmitted(s, id, o), l)
<1> DEFINE t == X!OnOrderSubmitted(s, id, o)
<1>1. /\ t.open = X!Joined(s.open, id, o.quantity) /\ t.working = id
      /\ t.cfg = s.cfg /\ t.filled = s.filled /\ t.slice_remaining = s.slice_remaining
      /\ t.sent_market = s.sent_market
  BY XSubmitFields DEF XFields
<1>2. DOMAIN t.open = {id} /\ t.open[id] = s.slice_remaining BY <1>1 DEF X!Joined
<1> HIDE DEF t
<1>3. WithinParent(t, l) BY <1>1, <1>2 DEF WithinParent
<1> QED BY <1>3 DEF t

(* Nothing the parent is measured by is changed. *)
XAlike(s, t) ==
  DOMAIN t = XFields
  /\ \A b \in {"cfg", "filled", "slice_remaining", "sent_market", "open", "working"} : t[b] = s[b]

(* The parent is as it was when only other fields change. *)
LEMMA XAlikeWithin ==
  ASSUME NEW s, NEW t, XAlike(s, t), NEW l, WithinParent(s, l)
  PROVE  WithinParent(t, l)
BY DEF WithinParent, XAlike

(* A public trade and the cancels handed over leave it alone. *)
LEMMA XPublicAlike ==
  ASSUME NEW s, DOMAIN s = XFields, NEW q
  PROVE  XAlike(s, X!OnMarketTrade(s, q)) /\ XAlike(s, X!CancelsTaken(s))
BY DEF XAlike, X!OnMarketTrade, X!CancelsTaken, XFields

(* The one child an execution strategy sends, for the slice and with no other open. *)
OneChild(s, orders) ==
  /\ orders = <<Head(orders)>> /\ DOMAIN s.open = {}
  /\ Head(orders).quantity = s.slice_remaining

(* A view keeps the parent and sends at most one child, the others given up. *)
LEMMA XViewWithin ==
  ASSUME NEW s, NEW a, NEW f, XBook(s, a, f), OrderBook(f), NEW l \in Nat, WithinParent(s, l),
         NEW v
  PROVE  LET d == X!OnL2MarketView(s, v) IN
         /\ DOMAIN d.strat = XFields /\ WithinParent(d.strat, l)
         /\ d.orders # <<>> => OneChild(d.strat, d.orders)
<1> DEFINE d == X!OnL2MarketView(s, v)
<1>0. /\ s.filled \in Nat /\ s.slice_remaining \in Nat /\ s.cfg.quantity \in Nat
      /\ DOMAIN s = XFields /\ s.open = f /\ \A id \in DOMAIN f : f[id] \in Nat \ {0}
  BY XNumbers
<1>1. s.cfg.algo \in {"market", "twap", "pov"} BY XConfigured DEF XBook
<1>d. DOMAIN s = XFields BY <1>0
<1>2. \/ d.orders = <<>> /\ XScheduled(s, d.strat)
      \/ ~(s.filled >= s.cfg.quantity) /\ \E t : XFreed(s, t) /\ XWorks(t, d)
  BY <1>1, <1>d, XViewFields
<1> HIDE DEF d
<1>3. CASE d.orders = <<>> /\ XScheduled(s, d.strat)
  <2>1. XAlike(s, d.strat) BY <1>3 DEF XScheduled, XAlike, XKept
  <2>2. WithinParent(d.strat, l) BY <2>1, XAlikeWithin
  <2> QED BY <1>3, <2>1, <2>2 DEF d, XAlike
<1>4. ASSUME NEW t, ~(s.filled >= s.cfg.quantity), XFreed(s, t), XWorks(t, d)
      PROVE  /\ DOMAIN d.strat = XFields /\ WithinParent(d.strat, l)
             /\ d.orders # <<>> => OneChild(d.strat, d.orders)
  <2>1. /\ DOMAIN t = XFields /\ t.cfg = s.cfg /\ t.filled = s.filled /\ t.volume = s.volume
        /\ t.position = s.position /\ t.slice_remaining = s.slice_remaining
        /\ t.sent_market = s.sent_market
    BY <1>4 DEF XFreed, XKept
  <2>2. DOMAIN t.open = {}
    <3>1. CASE s.working = 0
      <4>1. t.open = f BY <1>0, <1>4, <3>1 DEF XFreed
      <4> QED BY <1>0, <3>1, <4>1 DEF WithinParent
    <3>2. CASE s.working # 0
      <4>1. t.open = X!Restrict(f, DOMAIN f \ {s.working}) BY <1>0, <1>4, <3>2 DEF XFreed
      <4>2. DOMAIN t.open = DOMAIN f \ {s.working} BY <4>1 DEF X!Restrict
      <4> QED BY <1>0, <4>2 DEF WithinParent
    <3> QED BY <3>1, <3>2
  <2>3. t.open = [id \in {} |-> 0]
    <3>1. CASE s.working = 0
      <4>1. t.open = f BY <1>0, <1>4, <3>1 DEF XFreed
      <4> QED BY <2>2, <4>1 DEF OrderBook
    <3>2. CASE s.working # 0
      <4>1. t.open = X!Restrict(f, DOMAIN f \ {s.working}) BY <1>0, <1>4, <3>2 DEF XFreed
      <4> QED BY <2>2, <4>1 DEF X!Restrict
    <3> QED BY <3>1, <3>2
  <2>4. XBook(t, a, t.open) BY <2>1 DEF XBook
  <2>5. OrderBook(t.open) BY <2>2, <2>3, FS_EmptySet DEF OrderBook
  <2>6. /\ X!RemainingQuantity(t) \in Nat
        /\ X!RemainingQuantity(t) = s.cfg.quantity - s.filled
    <3>1. LET n == t.cfg.quantity - t.filled - SumFunctionOnSet(t.open, DOMAIN t.open)
          IN X!RemainingQuantity(t) = IF 0 >= n THEN 0 ELSE n
      BY <2>4, <2>5, XRemaining
    <3>2. SumFunctionOnSet(t.open, DOMAIN t.open) = 0 BY <2>2, SumEmpty
    <3> QED BY <1>0, <1>4, <2>1, <3>1, <3>2
  <2>7. \A ts : LET q == X!NextSlice(t, ts).quantity IN
                /\ q \in Nat /\ q <= X!RemainingQuantity(t)
                /\ t.cfg.algo = "market" =>
                     q = IF t.sent_market THEN 0 ELSE X!RemainingQuantity(t)
    BY <2>4, <2>5, XSliceQuantity
  <2>8. \A ts : X!NextSlice(t, ts).strat.sent_market =>
                  t.sent_market \/ t.cfg.algo = "market"
    BY <1>1, <2>1, XSliceSends
  <2>9. /\ DOMAIN d.strat = XFields /\ d.strat.cfg = s.cfg /\ d.strat.filled = s.filled
        /\ d.strat.open = t.open
    BY <1>4, <2>1 DEF XWorks, XKept
  <2>10. s.filled - l + s.slice_remaining <= s.cfg.quantity
         /\ (s.sent_market => s.filled + s.slice_remaining >= s.cfg.quantity)
    BY DEF WithinParent
  <2>11. CASE /\ d.orders = <<>> /\ t.slice_remaining = 0 /\ d.strat.slice_remaining = 0
              /\ \E ts : /\ X!NextSlice(t, ts).quantity = 0
                         /\ d.strat.sent_market = X!NextSlice(t, ts).strat.sent_market
    <3>1. PICK ts : /\ X!NextSlice(t, ts).quantity = 0
                    /\ d.strat.sent_market = X!NextSlice(t, ts).strat.sent_market
      BY <2>11
    <3>2. s.filled - l <= s.cfg.quantity /\ s.slice_remaining = 0
      BY <1>0, <2>1, <2>10, <2>11
    <3>3. d.strat.sent_market => s.sent_market
      <4>1. ~s.sent_market /\ s.cfg.algo = "market" => X!RemainingQuantity(t) = 0
        BY <2>1, <2>7, <3>1
      <4>2. s.cfg.quantity - s.filled # 0 BY <1>0, <1>4
      <4> QED BY <2>1, <2>6, <2>8, <3>1, <4>1, <4>2
    <3>4. d.strat.sent_market => d.strat.filled + d.strat.slice_remaining >= d.strat.cfg.quantity
      BY <2>1, <2>9, <2>10, <2>11, <3>3
    <3>5. d.strat.filled - l + d.strat.slice_remaining <= d.strat.cfg.quantity
      BY <2>1, <2>9, <2>10, <2>11
    <3> QED BY <2>2, <2>9, <2>11, <3>4, <3>5 DEF WithinParent
  <2>12. CASE /\ t.slice_remaining # 0 /\ d.strat.slice_remaining = t.slice_remaining
              /\ d.strat.sent_market = t.sent_market
              /\ \E o : /\ d.orders = <<o>> /\ "quantity" \in DOMAIN o
                       /\ o.quantity = t.slice_remaining
    <3>1. OneChild(d.strat, d.orders) BY <2>2, <2>9, <2>12 DEF OneChild
    <3>2. WithinParent(d.strat, l) BY <2>1, <2>2, <2>9, <2>10, <2>12 DEF WithinParent
    <3> QED BY <2>9, <3>1, <3>2
  <2>13. CASE /\ t.slice_remaining = 0 /\ d.strat.slice_remaining # 0
              /\ \E ts : /\ X!NextSlice(t, ts).quantity = d.strat.slice_remaining
                         /\ d.strat.sent_market = X!NextSlice(t, ts).strat.sent_market
              /\ \E o : /\ d.orders = <<o>> /\ "quantity" \in DOMAIN o
                       /\ o.quantity = d.strat.slice_remaining
    <3>1. OneChild(d.strat, d.orders) BY <2>2, <2>9, <2>13 DEF OneChild
    <3>2. PICK ts : /\ X!NextSlice(t, ts).quantity = d.strat.slice_remaining
                    /\ d.strat.sent_market = X!NextSlice(t, ts).strat.sent_market
      BY <2>13
    <3>3. /\ d.strat.slice_remaining \in Nat
          /\ d.strat.slice_remaining <= s.cfg.quantity - s.filled
          /\ s.cfg.algo = "market" => d.strat.slice_remaining = s.cfg.quantity - s.filled
      BY <2>1, <2>6, <2>7, <2>13, <3>2
    <3>4. d.strat.sent_market => d.strat.filled + d.strat.slice_remaining >= d.strat.cfg.quantity
      <4>1. CASE s.cfg.algo = "market" BY <1>0, <2>9, <3>3, <4>1
      <4>2. CASE s.cfg.algo # "market"
        <5>1. d.strat.sent_market => s.sent_market BY <2>1, <2>8, <3>2, <4>2
        <5>2. s.sent_market => s.filled >= s.cfg.quantity BY <1>0, <2>1, <2>10, <2>13
        <5> QED BY <1>0, <1>4, <5>1, <5>2
      <4> QED BY <4>1, <4>2
    <3>5. d.strat.filled - l + d.strat.slice_remaining <= d.strat.cfg.quantity
      BY <1>0, <2>9, <3>3
    <3>6. WithinParent(d.strat, l) BY <2>2, <2>9, <3>4, <3>5 DEF WithinParent
    <3> QED BY <2>9, <3>1, <3>6
  <2> QED BY <1>4, <2>11, <2>12, <2>13 DEF XWorks
<1> QED BY <1>2, <1>3, <1>4 DEF d

(* The strategies on the way through the cancels that are due. *)
CancelSteps(path, n, s) ==
  /\ path[0] = s /\ AfterCancels(s) = path[n]
  /\ \A k \in 1 .. n : \E id \in Doomed : path[k] = CancelTold(path[k - 1], id)

(* The cancels that are due are told one by one. *)
LEMMA CancelsInSteps ==
  ASSUME NEW s, IsFiniteSet(Doomed)
  PROVE  \E n \in Nat : \E path : CancelSteps(path, n, s)
<1> DEFINE l == SetToSeq(Doomed)
           n == Len(l)
<1>1. l \in Seq(Doomed) /\ n \in Nat /\ \A k \in 1 .. n : l[k] \in Doomed
  BY Listed, LenProperties, ElementOfSeq
<1>2. AfterCancels(s) = ByCancel!FoldLeft(CancelTold, s, l)
  BY Zenon DEF AfterCancels, FoldLeft, MapThenFoldSet, Max,
     ByCancel!FoldLeft, ByCancel!MapThenFoldSet, ByCancel!Max
<1> HIDE DEF l
<1>3. PICK path : ByCancel!FoldPath(path, s, l) /\ AfterCancels(s) = path[n]
  <2>1. \E path : /\ ByCancel!FoldPath(path, s, l)
                  /\ ByCancel!FoldLeft(CancelTold, s, l) = path[Len(l)]
    BY <1>1, ByCancel!FoldFollowsPath
  <2> QED BY <1>2, <2>1
<1> HIDE DEF n
<1>4. path[0] = s /\ \A k \in 1 .. n : path[k] = CancelTold(path[k - 1], l[k])
  BY <1>3 DEF ByCancel!FoldPath, n
<1>5. CancelSteps(path, n, s) BY <1>1, <1>3, <1>4 DEF CancelSteps
<1> QED BY <1>1, <1>5

(* The cancels of other children, or of its own, leave the parent its slice. *)
LEMMA XCancelsWithin ==
  ASSUME NEW s, DOMAIN s = XFields, NEW l, WithinParent(s, l), kind = "execution",
         IsFiniteSet(Doomed)
  PROVE  WithinParent(AfterCancels(s), l)
<1>1. PICK n \in Nat : \E path : CancelSteps(path, n, s) BY CancelsInSteps
<1>2. PICK path : CancelSteps(path, n, s) BY <1>1
<1> DEFINE Good(k) == DOMAIN path[k] = XFields /\ WithinParent(path[k], l)
           N == {k \in Nat : k <= n => Good(k)}
<1>3. 0 \in N BY <1>2 DEF CancelSteps
<1>4. ASSUME NEW k \in Nat, k \in N PROVE k + 1 \in N
  <2> SUFFICES ASSUME k + 1 <= n PROVE Good(k + 1) OBVIOUS
  <2>1. k + 1 \in 1 .. n /\ (k + 1) - 1 = k /\ k <= n BY <1>4
  <2>2. Good(k) BY <1>4, <2>1
  <2>3. PICK id \in Doomed : path[k + 1] = CancelTold(path[k], id)
    BY <1>2, <2>1 DEF CancelSteps
  <2> DEFINE e == Ends(id, venue[id].side, venue[id].remaining, "Cancelled", "User")
  <2>4. e.kind \in Ended BY DEF Ends, Ended
  <2>5. path[k + 1] = X!OnOrderUpdate(path[k], e)
    BY <2>3, KindsDiffer DEF CancelTold, Told
  <2> HIDE DEF e
  <2> QED BY <2>2, <2>4, <2>5, XEndWithin
<1> HIDE DEF N
<1>5. N \subseteq Nat BY DEF N
<1>6. n \in N BY <1>3, <1>4, <1>5, NatSetInduction
<1>7. n <= n BY <1>1
<1>8. Good(n) BY <1>6, <1>7 DEF N
<1> QED BY <1>2, <1>8 DEF CancelSteps

(* A fill, and the end of the child it completes. *)
LEMMA XFillWithin ==
  ASSUME kind = "execution", NEW s, NEW a \in Int, NEW f, XBook(s, a, f), OrderBook(f),
         NEW l \in Nat, WithinParent(s, l), NEW id, NEW o, NEW q \in Nat \ {0}, NEW rest,
         id \in DOMAIN f => q <= f[id]
  PROVE  LET t == AfterFill(s, id, o, q, rest) IN
         DOMAIN t = XFields /\ WithinParent(t, IF id \in DOMAIN f THEN l ELSE l + q)
<1> DEFINE r == TradeOf(id, o, q)
           e == Ends(id, o.side, 0, "Filled", "None")
           m == IF id \in DOMAIN f THEN l ELSE l + q
           told == X!OnTrade(s, r)
<1>1. r.kind = "Trade" /\ r.id = id /\ r.quantity = q /\ e.kind \in Ended
  BY DEF TradeOf, Ends, Ended
<1>2. AfterFill(s, id, o, q, rest) = IF rest > 0 THEN told ELSE X!OnOrderUpdate(told, e)
  <2>1. \A z, x : Told(z, x) = X!OnOrderUpdate(z, x) BY KindsDiffer DEF Told
  <2>2. X!OnOrderUpdate(s, r) = told BY <1>1 DEF X!OnOrderUpdate
  <2> QED BY <2>1, <2>2 DEF AfterFill
<1> HIDE DEF r, e
<1>3. WithinParent(told, m) BY <1>1, XTradeWithin
<1>4. DOMAIN told = XFields BY XTradeFields DEF XBook
<1> HIDE DEF told, m
<1>5. LET t == X!OnOrderUpdate(told, e) IN DOMAIN t = XFields /\ WithinParent(t, m)
  BY <1>1, <1>3, <1>4, XEndWithin
<1>6. CASE rest > 0 BY <1>2, <1>3, <1>4, <1>6 DEF m
<1>7. CASE ~(rest > 0) BY <1>2, <1>5, <1>7 DEF m
<1> QED BY <1>6, <1>7

(* The one child sent, filled as far as q at once, and gone if it is an IOC. *)
LEMMA XSendWithin ==
  ASSUME kind = "execution", NEW s, NEW a \in Int, NEW f, XBook(s, a, f), OrderBook(f),
         NEW l \in Nat, WithinParent(s, l), NEW id \in Nat \ {0}, id \notin DOMAIN f,
         NEW o, ForSome(o), DOMAIN s.open = {}, o.quantity = s.slice_remaining,
         NEW q \in Nat, q <= o.quantity
  PROVE  WithinParent(AfterSend(s, id, o, q), l)
<1> DEFINE n == o.quantity
           h == Joined(f, id, n)
           sent == X!OnOrderSubmitted(s, id, o)
           filled == IF q > 0 THEN AfterFill(sent, id, o, q, n - q) ELSE sent
           e == Ends(id, o.side, n - q, "Cancelled", "Ioc")
<1>1. n \in Nat \ {0} BY DEF ForSome
<1>2. OrderBook(h) /\ id \in DOMAIN h /\ h[id] = n BY <1>1, JoinedBook
<1>3. XBook(sent, a, h) BY XSubmit
<1>4. id # 0 /\ DOMAIN s = XFields BY DEF XBook
<1>5. WithinParent(sent, l) BY <1>4, XSubmitWithin
<1>6. Submitted(s, id, o) = sent BY KindsDiffer DEF Submitted
<1>7. AfterSend(s, id, o, q) =
        IF q < n /\ o.tif = "Ioc" THEN X!OnOrderUpdate(filled, e) ELSE filled
  <2>1. \A z, x : Told(z, x) = X!OnOrderUpdate(z, x) BY KindsDiffer DEF Told
  <2> QED BY <1>6, <2>1 DEF AfterSend
<1>8. e.kind \in Ended BY DEF Ends, Ended
<1> HIDE DEF sent, h, e
<1>9. DOMAIN filled = XFields /\ WithinParent(filled, l)
  <2>1. CASE q > 0
    <3>1. q \in Nat \ {0} /\ q <= h[id] BY <1>1, <1>2, <2>1
    <3>2. LET t == AfterFill(sent, id, o, q, n - q) IN
          DOMAIN t = XFields /\ WithinParent(t, IF id \in DOMAIN h THEN l ELSE l + q)
      BY <1>2, <1>3, <1>5, <3>1, XFillWithin
    <3> QED BY <1>2, <2>1, <3>2
  <2>2. CASE ~(q > 0) BY <1>3, <1>5, <2>2 DEF XBook
  <2> QED BY <2>1, <2>2
<1> HIDE DEF filled
<1>10. LET t == X!OnOrderUpdate(filled, e) IN DOMAIN t = XFields /\ WithinParent(t, l)
  BY <1>8, <1>9, XEndWithin
<1> QED BY <1>7, <1>9, <1>10

-----------------------------------------------------------------------------
(* The parent at the desk. *)

(* Nothing is left to send between decisions. *)
NothingWaits == stage # "submit" => to_submit = <<>>

(* The execution desk: the parent is kept within its quantity, and what is to be sent
   is its one child. *)
ParentHeld ==
  /\ late \in Nat
  /\ kind = "execution" =>
       /\ WithinParent(strat, late)
       /\ to_submit # <<>> => OneChild(strat, to_submit)

(* The strategy of an execution desk keeps books. *)
LEMMA XDesk ==
  ASSUME DeskBooks, kind = "execution"
  PROVE  XBook(strat, account, Remains) /\ OrderBook(Remains) /\ IsFiniteSet(Doomed)
         /\ account \in Int /\ DOMAIN strat = XFields
<1>1. XBook(strat, account, Remains) BY DEF DeskBooks, Fits
<1>2. OrderBook(Remains) /\ IsFiniteSet(Doomed) BY RemainsBook DEF DeskBooks
<1> QED BY <1>1, <1>2 DEF DeskBooks, XBook

(* The orders wait only while they are sent. *)
LEMMA WaitsStep == NothingWaits /\ [DNext]_dvars => NothingWaits'
BY DEF NothingWaits, DNext, dvars, ViewEvent, QuoteEvent, TradeEvent, QuotedTrade, FillResting,
   TradeDone, Decide, RefuseOrder, RejectOrder, SendOrder, ViewDone

(* The cancels that are due. *)
LEMMA ParentCancels ==
  ASSUME DeskBooks, ParentHeld, to_submit = <<>>, strat' = AfterCancels(strat),
         UNCHANGED <<kind, late, to_submit>>
  PROVE  ParentHeld'
<1>1. CASE kind = "execution"
  <2>1. WithinParent(AfterCancels(strat), late) BY <1>1, XDesk, XCancelsWithin DEF ParentHeld
  <2> QED BY <2>1 DEF ParentHeld
<1>2. CASE kind # "execution" BY <1>2 DEF ParentHeld
<1> QED BY <1>1, <1>2

(* Nothing the parent is measured by is changed. *)
LEMMA ParentSame ==
  ASSUME ParentHeld, kind = "execution" => XAlike(strat, strat'),
         UNCHANGED <<kind, late>>, to_submit' = to_submit \/ to_submit' = <<>>
  PROVE  ParentHeld'
<1>1. CASE kind = "execution"
  <2>1. WithinParent(strat', late) BY <1>1, XAlikeWithin DEF ParentHeld
  <2>2. OneChild(strat, to_submit) => OneChild(strat', to_submit)
    BY <1>1 DEF OneChild, XAlike
  <2> QED BY <1>1, <2>1, <2>2 DEF ParentHeld
<1>2. CASE kind # "execution" BY <1>2 DEF ParentHeld
<1> QED BY <1>1, <1>2

(* A fill of a resting child: on time, or late when its cancel was asked for. *)
LEMMA ParentFills ==
  ASSUME DeskBooks, ParentHeld, NothingWaits, NEW id \in DOMAIN venue,
         NEW q \in Sizes \ {0}, FillResting(id, q)
  PROVE  ParentHeld'
<1>1. /\ q <= venue[id].remaining
      /\ strat' = AfterFill(strat, id, venue[id], q, venue[id].remaining - q)
      /\ late' = IF venue[id].cancel THEN late + q ELSE late
      /\ UNCHANGED <<kind, stage, to_submit>> /\ stage # "submit"
  BY DEF FillResting
<1>2. q \in Nat \ {0} BY DEF Sizes
<1>3. late' \in Nat BY <1>1, <1>2 DEF ParentHeld
<1>4. to_submit' = <<>> BY <1>1 DEF NothingWaits
<1>5. CASE kind = "execution"
  <2>1. /\ XBook(strat, account, Remains) /\ OrderBook(Remains) /\ account \in Int
        /\ late \in Nat /\ WithinParent(strat, late)
    BY <1>5, XDesk DEF ParentHeld
  <2>2. /\ DOMAIN Remains = Believable /\ \A i \in Believable : Remains[i] = venue[i].remaining
        /\ venue[id].cancel \in BOOLEAN
    BY RemainsBook DEF DeskBooks, VenueFits
  <2>3. id \in DOMAIN Remains <=> ~venue[id].cancel
    BY <1>5, <2>2 DEF Believable, Doomed
  <2>4. id \in DOMAIN Remains => q <= Remains[id] BY <1>1, <2>2
  <2> DEFINE rest == venue[id].remaining - q
  <2>5. strat' = AfterFill(strat, id, venue[id], q, rest) BY <1>1
  <2> HIDE DEF rest
  <2>6. WithinParent(strat', IF id \in DOMAIN Remains THEN late ELSE late + q)
    BY <1>2, <1>5, <2>1, <2>4, <2>5, XFillWithin
  <2> QED BY <1>1, <1>3, <1>4, <2>3, <2>6 DEF ParentHeld
<1>6. CASE kind # "execution" BY <1>1, <1>3, <1>6 DEF ParentHeld
<1> QED BY <1>5, <1>6

(* A view's decision. *)
LEMMA ParentDecides ==
  ASSUME DeskBooks, ParentHeld, NEW d, Decide(d)
  PROVE  ParentHeld'
<1>1. /\ d \in DecisionsOf(strat, view) /\ strat' = Handed(d.strat) /\ to_submit' = d.orders
      /\ UNCHANGED <<kind, late>>
  BY DEF Decide
<1>2. CASE kind = "execution"
  <2>1. d = X!OnL2MarketView(strat, view) BY <1>1, <1>2, KindsDiffer DEF DecisionsOf
  <2>2. strat' = X!CancelsTaken(d.strat) BY <1>1, <1>2, KindsDiffer DEF Handed
  <2>3. XBook(strat, account, Remains) /\ OrderBook(Remains) /\ late \in Nat
        /\ WithinParent(strat, late)
    BY <1>2, XDesk DEF ParentHeld
  <2>4. /\ DOMAIN d.strat = XFields /\ WithinParent(d.strat, late)
        /\ d.orders # <<>> => OneChild(d.strat, d.orders)
    BY <2>1, <2>3, XViewWithin
  <2>5. XAlike(d.strat, strat') BY <2>2, <2>4, XPublicAlike
  <2>6. WithinParent(strat', late) BY <2>4, <2>5, XAlikeWithin
  <2>7. d.orders # <<>> => OneChild(strat', d.orders) BY <2>4, <2>5 DEF OneChild, XAlike
  <2> QED BY <1>1, <2>6, <2>7 DEF ParentHeld
<1>3. CASE kind # "execution" BY <1>1, <1>3 DEF ParentHeld
<1> QED BY <1>2, <1>3

(* The child is refused by the venue, or sent. *)
LEMMA ParentSends ==
  ASSUME DeskBooks, ParentHeld, RejectOrder \/ \E q \in Sizes : SendOrder(q)
  PROVE  ParentHeld'
<1> DEFINE o == Head(to_submit)
           e == Ends(next_id, o.side, o.quantity, "Rejected", "None")
<1>1. /\ to_submit # <<>> /\ to_submit' = Tail(to_submit) /\ UNCHANGED <<kind, late>>
      /\ \/ strat' = Told(Submitted(strat, next_id, o), e)
         \/ \E q \in Sizes : /\ q <= (IF AtFarTouch(o) THEN o.quantity ELSE 0)
                             /\ strat' = AfterSend(strat, next_id, o, q)
  BY DEF RejectOrder, SendOrder
<1>2. CASE kind = "execution"
  <2>1. /\ XBook(strat, account, Remains) /\ OrderBook(Remains) /\ late \in Nat
        /\ WithinParent(strat, late) /\ OneChild(strat, to_submit) /\ account \in Int
        /\ DOMAIN strat = XFields
    BY <1>1, <1>2, XDesk DEF ParentHeld
  <2>2. DOMAIN strat.open = {} /\ o.quantity = strat.slice_remaining /\ to_submit = <<o>>
    BY <2>1 DEF OneChild
  <2>3. to_submit' = <<>> BY <1>1, <2>2
  <2>4. ForSome(o) BY <1>1, SendRest DEF DeskBooks
  <2>5. /\ next_id \in Nat \ {0} /\ next_id \notin DOMAIN Remains
    BY RemainsBook DEF DeskBooks, VenueFits, Believable
  <2>6. e.kind \in Ended BY DEF Ends, Ended
  <2> HIDE DEF o, e
  <2>7. ASSUME strat' = Told(Submitted(strat, next_id, o), e) PROVE WithinParent(strat', late)
    <3> DEFINE sent == X!OnOrderSubmitted(strat, next_id, o)
    <3>1. strat' = X!OnOrderUpdate(sent, e) BY <1>2, <2>7, KindsDiffer DEF Told, Submitted
    <3>2. next_id # 0 BY <2>5
    <3>3. WithinParent(sent, late) BY <2>1, <2>2, <3>2, XSubmitWithin
    <3>4. DOMAIN sent = XFields BY <2>1, XSubmitFields
    <3> HIDE DEF sent
    <3> QED BY <2>6, <3>1, <3>3, <3>4, XEndWithin
  <2>8. ASSUME NEW q \in Sizes, q <= (IF AtFarTouch(o) THEN o.quantity ELSE 0),
               strat' = AfterSend(strat, next_id, o, q)
        PROVE  WithinParent(strat', late)
    <3>1. q \in Nat /\ q <= o.quantity BY <2>4, <2>8 DEF Sizes, ForSome
    <3> QED BY <1>2, <2>1, <2>2, <2>4, <2>5, <2>8, <3>1, XSendWithin
  <2>9. WithinParent(strat', late) BY <1>1, <2>7, <2>8
  <2> QED BY <1>1, <2>1, <2>3, <2>9 DEF ParentHeld
<1>3. CASE kind # "execution" BY <1>1, <1>3 DEF ParentHeld
<1> QED BY <1>2, <1>3

(* Every step keeps the parent. *)
LEMMA ParentStep ==
  DeskBooks /\ NothingWaits /\ ParentHeld /\ [DNext]_dvars => ParentHeld'
<1> SUFFICES ASSUME DeskBooks, NothingWaits, ParentHeld, [DNext]_dvars PROVE ParentHeld'
  OBVIOUS
<1>0. /\ kind = "execution" => DOMAIN strat = XFields
      /\ kind = "execution" => XAlike(strat, strat)
  BY XDesk DEF XAlike
<1>1. ASSUME NEW top, NEW dt, ViewEvent(top, dt) PROVE ParentHeld'
  <2>1. UNCHANGED <<kind, late, to_submit>> /\ stage = "idle" BY <1>1 DEF ViewEvent
  <2>2. to_submit = <<>> BY <2>1 DEF NothingWaits
  <2>3. strat' = strat \/ strat' = AfterCancels(strat) BY <1>1 DEF ViewEvent
  <2> QED BY <1>0, <2>1, <2>2, <2>3, ParentCancels, ParentSame
<1>2. ASSUME NEW top, QuoteEvent(top) PROVE ParentHeld'
  BY <1>2, ParentCancels DEF QuoteEvent, NothingWaits
<1>3. ASSUME NEW trade \in Trades, TradeEvent(trade) PROVE ParentHeld'
  <2>1. UNCHANGED <<kind, late, to_submit>> /\ strat' = AfterTrade(strat, trade)
    BY <1>3 DEF TradeEvent
  <2>2. kind = "execution" => XAlike(strat, strat')
    BY <1>0, <2>1, XPublicAlike, KindsDiffer DEF AfterTrade
  <2> QED BY <2>1, <2>2, ParentSame
<1>4. ASSUME NEW trade, NEW far, NEW stale, QuotedTrade(trade, far, stale) PROVE ParentHeld'
  <2>1. kind # "execution" /\ UNCHANGED <<kind, late, to_submit>>
    BY <1>4, KindsDiffer DEF QuotedTrade, OnQuotes
  <2> QED BY <2>1, ParentSame
<1>5. ASSUME NEW id \in DOMAIN venue, NEW q \in Sizes \ {0}, FillResting(id, q)
      PROVE  ParentHeld'
  BY <1>5, ParentFills
<1>6. CASE TradeDone BY <1>6, ParentCancels DEF TradeDone, NothingWaits
<1>7. ASSUME NEW d, Decide(d) PROVE ParentHeld' BY <1>7, ParentDecides
<1>8. CASE RefuseOrder
  <2>1. UNCHANGED <<kind, late>> /\ strat' = Refused(strat) /\ to_submit' = Tail(to_submit)
        /\ to_submit # <<>>
    BY <1>8 DEF RefuseOrder
  <2>2. kind = "execution" => to_submit' = <<>>
    <3> SUFFICES ASSUME kind = "execution" PROVE to_submit' = <<>> OBVIOUS
    <3>1. PICK x : to_submit = <<x>> BY <2>1 DEF ParentHeld, OneChild
    <3> QED BY <2>1, <3>1
  <2>3. kind = "execution" => strat' = strat BY <2>1 DEF Refused
  <2>4. CASE kind = "execution" BY <1>0, <2>1, <2>2, <2>3, <2>4, ParentSame
  <2>5. CASE kind # "execution" BY <2>1, <2>5 DEF ParentHeld
  <2> QED BY <2>4, <2>5
<1>9. CASE RejectOrder BY <1>9, ParentSends
<1>10. ASSUME NEW q \in Sizes, SendOrder(q) PROVE ParentHeld' BY <1>10, ParentSends
<1>11. CASE ViewDone BY <1>0, <1>11, ParentSame DEF ViewDone
<1>12. CASE UNCHANGED dvars BY <1>0, <1>12, ParentSame DEF dvars
<1> QED
  BY <1>1, <1>2, <1>3, <1>4, <1>5, <1>6, <1>7, <1>8, <1>9, <1>10, <1>11, <1>12 DEF DNext

(* A fresh strategy owes its whole parent. *)
LEMMA ParentOpens == DInit => NothingWaits /\ ParentHeld
<1> SUFFICES ASSUME DInit PROVE NothingWaits /\ ParentHeld OBVIOUS
<1>1. late = 0 /\ to_submit = <<>> BY DEF DInit
<1>2. CASE kind = "execution"
  <2>1. PICK d \in Desks : kind = d.kind /\ strat = Fresh(d) BY DEF DInit
  <2>2. strat = X!NewExecution(d.cfg) BY <1>2, <2>1, KindsDiffer DEF Fresh
  <2>3. DeskBooks BY DeskOpens
  <2>4. strat.cfg.quantity \in Nat BY <1>2, <2>3, XDesk, XNumbers
  <2>5. /\ strat.filled = 0 /\ strat.slice_remaining = 0 /\ ~strat.sent_market
        /\ DOMAIN strat.open = {}
    BY <2>2 DEF X!NewExecution
  <2>6. WithinParent(strat, 0) BY <2>4, <2>5 DEF WithinParent
  <2> QED BY <1>1, <2>6 DEF ParentHeld, NothingWaits
<1>3. CASE kind # "execution" BY <1>1, <1>3 DEF ParentHeld, NothingWaits
<1> QED BY <1>2, <1>3

(* All that fills beyond the quantity of a parent is of children whose cancel was already
   asked for, and a market parent that was sent owes what has not filled. *)
THEOREM ParentAlwaysExact == DSpec => []ParentExact
<1>1. DInit => DeskBooks /\ NothingWaits /\ ParentHeld BY DeskOpens, ParentOpens
<1>2. DeskBooks /\ NothingWaits /\ ParentHeld /\ [DNext]_dvars
        => (DeskBooks /\ NothingWaits /\ ParentHeld)'
  BY DeskStep, WaitsStep, ParentStep
<1>3. DeskBooks /\ ParentHeld => ParentExact
  <2> SUFFICES ASSUME DeskBooks, ParentHeld, kind = "execution"
               PROVE  /\ strat.filled - late <= strat.cfg.quantity
                      /\ strat.sent_market =>
                           strat.filled + strat.slice_remaining >= strat.cfg.quantity
    BY DEF ParentExact
  <2>1. strat.filled \in Nat /\ strat.slice_remaining \in Nat /\ strat.cfg.quantity \in Nat
    BY XDesk, XNumbers
  <2> QED BY <2>1 DEF ParentHeld, WithinParent
<1> QED BY <1>1, <1>2, <1>3, PTL DEF DSpec

-----------------------------------------------------------------------------
(* The cooldown of the trend strategy. *)

(* Nothing the cooldown is measured by is changed, and a target is kept or given up. *)
TCalm(s, t) ==
  /\ DOMAIN t = TFields /\ \A b \in {"cfg", "views", "cooldown", "pauses"} : t[b] = s[b]
  /\ t.target \in {s.target, 0}

(* Two calm steps are one. *)
LEMMA TCalmTwice ==
  ASSUME NEW s, NEW t, NEW u, TCalm(s, t), TCalm(t, u)
  PROVE  TCalm(s, u)
BY DEF TCalm

(* Reports, sending, refusals and the cancels handed over are calm. *)
LEMMA TCalmCalls ==
  ASSUME kind = "trend", NEW s, DOMAIN s = TFields
  PROVE  /\ TCalm(s, s) /\ TCalm(s, Refused(s)) /\ TCalm(s, Handed(s))
         /\ \A r : TCalm(s, Told(s, r))
         /\ \A id, o : TCalm(s, Submitted(s, id, o))
<1>1. TCalm(s, s) BY DEF TCalm
<1>2. TCalm(s, Refused(s))
  <2>1. Refused(s) = T!OnOrderRejected(s) BY KindsDiffer DEF Refused
  <2>2. /\ DOMAIN T!OnOrderRejected(s) = TFields
        /\ \A a \in TFields \ {"wait", "retry_after"} : T!OnOrderRejected(s)[a] = s[a]
    BY TRefuseFields
  <2> QED BY <2>1, <2>2 DEF TCalm, TFields
<1>3. TCalm(s, Handed(s))
  <2>1. Handed(s) = T!CancelsTaken(s) BY KindsDiffer DEF Handed
  <2> QED BY <2>1 DEF T!CancelsTaken, TCalm, TFields
<1>4. ASSUME NEW r PROVE TCalm(s, Told(s, r))
  <2>1. Told(s, r) = T!OnOrderUpdate(s, r) BY KindsDiffer DEF Told
  <2>2. CASE r.kind \in Ended
    <3> DEFINE t == T!OnOrderUpdate(s, r)
    <3>1. DOMAIN t = TFields /\ \A a \in TFields \ {"open", "wait", "retry_after"} : t[a] = s[a]
      BY <2>2, TEndFields
    <3> HIDE DEF t
    <3>2. TCalm(s, t) BY <3>1 DEF TCalm, TFields
    <3> QED BY <2>1, <3>2 DEF t
  <2>3. CASE r.kind \notin Ended
    <3> DEFINE t == T!OnTrade(s, r)
    <3>1. Told(s, r) = s \/ Told(s, r) = t BY <2>1, <2>3 DEF T!OnOrderUpdate, Ended
    <3>2. /\ DOMAIN t = TFields /\ t.target \in {s.target, 0}
          /\ \A a \in TFields \ {"position", "entry_price", "entry_view", "target", "open"} :
               t[a] = s[a]
      BY TTradeFields
    <3> HIDE DEF t
    <3>3. TCalm(s, t) BY <3>2 DEF TCalm, TFields
    <3> QED BY <1>1, <3>1, <3>3
  <2> QED BY <2>2, <2>3
<1>5. ASSUME NEW id, NEW o PROVE TCalm(s, Submitted(s, id, o))
  <2> DEFINE t == T!OnOrderSubmitted(s, id, o)
  <2>1. Submitted(s, id, o) = t BY KindsDiffer DEF Submitted
  <2>2. /\ DOMAIN t = TFields
        /\ \A a \in TFields \ {"open", "target_at_submit", "wait", "retry_after"} : t[a] = s[a]
    BY TSubmitFields
  <2> HIDE DEF t
  <2> QED BY <2>1, <2>2 DEF TCalm, TFields
<1> QED BY <1>1, <1>2, <1>3, <1>4, <1>5

(* So are a fill, an order sent, and the cancels that are due. *)
LEMMA TCalmEvents ==
  ASSUME kind = "trend", NEW s, DOMAIN s = TFields, IsFiniteSet(Doomed)
  PROVE  /\ \A id, o, q, rest : TCalm(s, AfterFill(s, id, o, q, rest))
         /\ \A id, o, q : TCalm(s, AfterSend(s, id, o, q))
         /\ \A id, o, e : TCalm(s, Told(Submitted(s, id, o), e))
         /\ TCalm(s, AfterCancels(s))
<1>1. ASSUME NEW z, TCalm(s, z), NEW r PROVE TCalm(s, Told(z, r))
  <2>1. DOMAIN z = TFields BY <1>1 DEF TCalm
  <2>2. TCalm(z, Told(z, r)) BY <2>1, TCalmCalls
  <2> QED BY <1>1, <2>2, TCalmTwice
<1>2. ASSUME NEW z, TCalm(s, z), NEW id, NEW o, NEW q, NEW rest
      PROVE  TCalm(s, AfterFill(z, id, o, q, rest))
  BY <1>1, <1>2 DEF AfterFill
<1>3. TCalm(s, s) /\ \A id, o : TCalm(s, Submitted(s, id, o)) BY TCalmCalls
<1>4. ASSUME NEW id, NEW o, NEW q PROVE TCalm(s, AfterSend(s, id, o, q))
  BY <1>1, <1>2, <1>3 DEF AfterSend
<1>5. TCalm(s, AfterCancels(s))
  <2>1. PICK n \in Nat : \E path : CancelSteps(path, n, s) BY CancelsInSteps
  <2>2. PICK path : CancelSteps(path, n, s) BY <2>1
  <2> DEFINE N == {k \in Nat : k <= n => TCalm(s, path[k])}
  <2>3. 0 \in N BY <1>3, <2>2 DEF CancelSteps
  <2>4. ASSUME NEW k \in Nat, k \in N PROVE k + 1 \in N
    <3> SUFFICES ASSUME k + 1 <= n PROVE TCalm(s, path[k + 1]) OBVIOUS
    <3>1. k + 1 \in 1 .. n /\ (k + 1) - 1 = k /\ k <= n BY <2>4
    <3>2. TCalm(s, path[k]) BY <2>4, <3>1
    <3>3. PICK id \in Doomed : path[k + 1] = CancelTold(path[k], id)
      BY <2>2, <3>1 DEF CancelSteps
    <3> QED BY <1>1, <3>2, <3>3 DEF CancelTold
  <2> HIDE DEF N
  <2>5. N \subseteq Nat BY DEF N
  <2>6. n \in N BY <2>3, <2>4, <2>5, NatSetInduction
  <2>7. n <= n BY <2>1
  <2>8. TCalm(s, path[n]) BY <2>6, <2>7 DEF N
  <2> QED BY <2>2, <2>8 DEF CancelSteps
<1> QED BY <1>1, <1>2, <1>3, <1>4, <1>5

(* The cooldown after a risk exit on view p runs out after its last view, and no target
   is taken up before. *)
Cooling(s, p) ==
  /\ {s.views, s.cooldown, s.pauses} \subseteq Nat /\ p \in Nat /\ p <= s.views
  /\ p > 0 => /\ s.cooldown + s.views >= p + s.cfg.cooldown
              /\ s.target = 0 \/ s.views > p + s.cfg.cooldown

(* A calm step leaves it running. *)
LEMMA CoolingCalm ==
  ASSUME NEW s, NEW t, TCalm(s, t), NEW p, Cooling(s, p)
  PROVE  Cooling(t, p)
BY DEF TCalm, Cooling

(* The clip a trend strategy sends takes it towards its target. *)
TowardsFlat(s, a, orders) ==
  /\ orders = <<Head(orders)>>
  /\ s.target = 0 => Signed(Head(orders).side, 1) * a < 0

(* A view starts a cooldown, counts it down or, once it is over, may set a target. *)
LEMMA CoolingView ==
  ASSUME NEW s, NEW a \in Int, NEW f, TBook(s, a, f), NEW p, Cooling(s, p), NEW v
  PROVE  LET d == T!OnL2MarketView(s, v) IN
         /\ DOMAIN d.strat = TFields /\ d.strat.cfg = s.cfg
         /\ Cooling(d.strat, IF d.strat.pauses > s.pauses THEN d.strat.views ELSE p)
         /\ s.views <= d.strat.views
         /\ d.strat.pauses > s.pauses => s.views < d.strat.views
         /\ d.orders # <<>> => TowardsFlat(d.strat, a, d.orders)
<1> DEFINE d == T!OnL2MarketView(s, v)
<1>0. DOMAIN s = TFields /\ s.position = a /\ s.target \in Int /\ s.cfg.cooldown \in Nat
  BY TConfigured DEF TBook
<1>d. DOMAIN s = TFields BY <1>0
<1>1. \/ TArmed(s, d.strat) /\ d.orders = <<>>
      \/ /\ \E c, j : TCounted(s, c) /\ TJudged(c, j) /\ TArmed(j, d.strat)
         /\ \/ d.orders = <<>>
            \/ /\ ~T!Waits(d.strat) /\ T!Clip(d.strat, v).quantity # 0
               /\ d.orders = <<T!Clip(d.strat, v)>>
  BY <1>d, TViewFields
<1> HIDE DEF d
<1>2. {s.views, s.cooldown, s.pauses} \subseteq Nat BY DEF Cooling
<1>3. CASE TArmed(s, d.strat) /\ d.orders = <<>>
  <2>1. TCalm(s, d.strat) BY <1>3 DEF TArmed, TCalm, TFields
  <2>2. Cooling(d.strat, p) BY <2>1, CoolingCalm
  <2>3. DOMAIN d.strat = TFields /\ d.strat.cfg = s.cfg /\ d.strat.pauses = s.pauses
        /\ d.strat.views = s.views
    BY <2>1 DEF TCalm
  <2> QED BY <1>2, <1>3, <2>2, <2>3 DEF d
<1>4. ASSUME NEW c, NEW j, TCounted(s, c), TJudged(c, j), TArmed(j, d.strat),
             \/ d.orders = <<>>
             \/ ~T!Waits(d.strat) /\ d.orders = <<T!Clip(d.strat, v)>>
      PROVE  /\ DOMAIN d.strat = TFields /\ d.strat.cfg = s.cfg
             /\ Cooling(d.strat, IF d.strat.pauses > s.pauses THEN d.strat.views ELSE p)
             /\ s.views <= d.strat.views
             /\ d.strat.pauses > s.pauses => s.views < d.strat.views
             /\ d.orders # <<>> => TowardsFlat(d.strat, a, d.orders)
  <2>1. /\ c.cfg = s.cfg /\ c.position = s.position /\ c.target = s.target
        /\ c.cooldown = s.cooldown /\ c.pauses = s.pauses /\ c.views = s.views + 1
    BY <1>4 DEF TCounted, TFields
  <2>2. j.cfg = s.cfg /\ j.position = s.position /\ j.views = s.views + 1
    BY <1>4, <2>1 DEF TJudged, TKept
  <2>3. /\ DOMAIN d.strat = TFields /\ d.strat.cfg = s.cfg /\ d.strat.position = a
        /\ d.strat.views = s.views + 1 /\ d.strat.target = j.target
        /\ d.strat.cooldown = j.cooldown /\ d.strat.pauses = j.pauses
    BY <1>0, <1>4, <2>2 DEF TArmed, TFields
  <2>4. \/ s.target = 0 /\ j.target = 0 /\ j.cooldown = s.cooldown /\ j.pauses = s.pauses
        \/ s.target # 0 /\ j.target = 0 /\ j.cooldown = s.cfg.cooldown /\ j.pauses = s.pauses + 1
        \/ /\ s.cooldown > 0 /\ j.target = 0
           /\ j.cooldown = s.cooldown - 1 /\ j.pauses = s.pauses
        \/ ~(s.cooldown > 0) /\ j.cooldown = s.cooldown /\ j.pauses = s.pauses
    BY <1>4, <2>1 DEF TJudged
  <2>5. /\ p \in Nat /\ p <= s.views
        /\ p > 0 => s.cooldown + s.views >= p + s.cfg.cooldown
    BY DEF Cooling
  <2>6. Cooling(d.strat, IF d.strat.pauses > s.pauses THEN d.strat.views ELSE p)
    <3>1. CASE j.target = 0 /\ j.cooldown = s.cooldown /\ j.pauses = s.pauses
      BY <1>0, <1>2, <2>3, <2>5, <3>1 DEF Cooling
    <3>2. CASE j.target = 0 /\ j.cooldown = s.cfg.cooldown /\ j.pauses = s.pauses + 1
      BY <1>0, <1>2, <2>3, <2>5, <3>2 DEF Cooling
    <3>3. CASE /\ s.cooldown > 0 /\ j.target = 0
               /\ j.cooldown = s.cooldown - 1 /\ j.pauses = s.pauses
      BY <1>0, <1>2, <2>3, <2>5, <3>3 DEF Cooling
    <3>4. CASE ~(s.cooldown > 0) /\ j.cooldown = s.cooldown /\ j.pauses = s.pauses
      BY <1>0, <1>2, <2>3, <2>5, <3>4 DEF Cooling
    <3> QED BY <2>4, <3>1, <3>2, <3>3, <3>4
  <2>7. CASE d.orders = <<>> BY <1>2, <2>3, <2>6, <2>7
  <2>8. CASE ~T!Waits(d.strat) /\ d.orders = <<T!Clip(d.strat, v)>>
    <3> DEFINE o == T!Clip(d.strat, v)
    <3>1. d.strat.position # d.strat.target BY <2>8 DEF T!Waits
    <3>2. o.side = IF d.strat.target > d.strat.position THEN "Buy" ELSE "Sell" BY DEF T!Clip
    <3>3. d.strat.target = 0 => o.side = IF 0 > a THEN "Buy" ELSE "Sell" BY <2>3, <3>2
    <3>4. d.strat.target = 0 => a # 0 BY <2>3, <3>1
    <3> HIDE DEF o
    <3>5. d.strat.target = 0 => Signed(o.side, 1) * a < 0
      <4>1. CASE 0 > a BY <3>3, <4>1 DEF Signed
      <4>2. CASE ~(0 > a) BY <3>3, <3>4, <4>2 DEF Signed
      <4> QED BY <4>1, <4>2
    <3>6. d.orders = <<o>> BY <2>8 DEF o
    <3>7. TowardsFlat(d.strat, a, d.orders) BY <3>5, <3>6 DEF TowardsFlat
    <3> QED BY <1>2, <2>3, <2>6, <3>7
  <2> QED BY <1>4, <2>7, <2>8
<1> QED BY <1>1, <1>3, <1>4 DEF d

-----------------------------------------------------------------------------
(* The cooldown at the desk. *)

(* No order that adds was sent on a view of the cooldown after the exit on view p. *)
KeptOut(sent, p, c) == \A e \in sent : p > 0 /\ e.view \in p .. p + c => ~e.adds

(* The trend desk: its cooldown runs, what was sent is of views it has seen, and what
   is to be sent is one clip towards the target. *)
CooldownHeld ==
  kind = "trend" =>
    /\ Cooling(strat, pause_view)
    /\ \A e \in entries : e.view \in Nat /\ e.view <= strat.views
    /\ KeptOut(entries, pause_view, strat.cfg.cooldown)
    /\ to_submit # <<>> => TowardsFlat(strat, account, to_submit)

(* The strategy of a trend desk keeps books. *)
LEMMA TDesk ==
  ASSUME DeskBooks, kind = "trend"
  PROVE  TBook(strat, account, Remains) /\ IsFiniteSet(Doomed) /\ account \in Int
         /\ DOMAIN strat = TFields /\ strat.cfg.cooldown \in Nat
<1>1. TBook(strat, account, Remains) BY DEF DeskBooks, Fits
<1>2. IsFiniteSet(Doomed) BY RemainsBook DEF DeskBooks
<1>3. strat.cfg.cooldown \in Nat BY <1>1, TConfigured DEF TBook
<1> QED BY <1>1, <1>2, <1>3 DEF DeskBooks, TBook

(* A calm step that sends nothing, or has nothing left to send. *)
LEMMA CooldownCalm ==
  ASSUME CooldownHeld, kind = "trend" => TCalm(strat, strat'), to_submit' = <<>>,
         UNCHANGED <<kind, entries, pause_view>>
  PROVE  CooldownHeld'
<1> SUFFICES ASSUME kind = "trend" PROVE CooldownHeld' BY DEF CooldownHeld
<1>1. TCalm(strat, strat') OBVIOUS
<1>2. Cooling(strat', pause_view) BY <1>1, CoolingCalm DEF CooldownHeld
<1>3. strat'.views = strat.views /\ strat'.cfg = strat.cfg BY <1>1 DEF TCalm
<1> QED BY <1>2, <1>3 DEF CooldownHeld

(* A view's decision. *)
LEMMA CooldownDecides ==
  ASSUME DeskBooks, CooldownHeld, NEW d, Decide(d)
  PROVE  CooldownHeld'
<1>1. /\ d \in DecisionsOf(strat, view) /\ strat' = Handed(d.strat) /\ to_submit' = d.orders
      /\ pause_view' = IF RiskExits(strat, d.strat) THEN d.strat.views ELSE pause_view
      /\ UNCHANGED <<kind, account, entries>>
  BY DEF Decide
<1> SUFFICES ASSUME kind = "trend" PROVE CooldownHeld' BY <1>1 DEF CooldownHeld
<1>2. d = T!OnL2MarketView(strat, view) BY <1>1, KindsDiffer DEF DecisionsOf
<1> DEFINE p == IF d.strat.pauses > strat.pauses THEN d.strat.views ELSE pause_view
<1>3. pause_view' = p BY <1>1 DEF RiskExits
<1>4. TBook(strat, account, Remains) /\ account \in Int /\ Cooling(strat, pause_view)
  BY TDesk DEF CooldownHeld
<1>5. /\ DOMAIN d.strat = TFields /\ d.strat.cfg = strat.cfg /\ Cooling(d.strat, p)
      /\ strat.views <= d.strat.views
      /\ d.strat.pauses > strat.pauses => strat.views < d.strat.views
      /\ d.orders # <<>> => TowardsFlat(d.strat, account, d.orders)
  BY <1>2, <1>4, CoolingView
<1>6. TCalm(d.strat, strat') BY <1>1, <1>5, TCalmCalls
<1>7. strat'.views = d.strat.views /\ strat'.cfg = strat.cfg /\ strat'.target = d.strat.target
  <2>1. strat' = T!CancelsTaken(d.strat) BY <1>1, KindsDiffer DEF Handed
  <2>2. strat'.target = d.strat.target BY <1>5, <2>1 DEF T!CancelsTaken, TFields
  <2> QED BY <1>5, <1>6, <2>2 DEF TCalm
<1>8. Cooling(strat', p) BY <1>5, <1>6, CoolingCalm
<1>9. \A e \in entries : e.view \in Nat /\ e.view <= strat.views BY DEF CooldownHeld
<1>10. strat.views \in Nat /\ d.strat.views \in Nat BY <1>4, <1>5 DEF Cooling
<1>11. \A e \in entries : e.view <= strat'.views BY <1>5, <1>7, <1>9, <1>10
<1>12. KeptOut(entries, p, strat.cfg.cooldown)
  <2>1. CASE d.strat.pauses > strat.pauses
    <3>1. \A e \in entries : e.view < p BY <1>5, <1>9, <1>10, <2>1
    <3>2. p \in Nat /\ strat.cfg.cooldown \in Nat BY <1>10, <2>1, TDesk
    <3> HIDE DEF p
    <3> QED BY <1>9, <3>1, <3>2 DEF KeptOut
  <2>2. CASE ~(d.strat.pauses > strat.pauses) BY <2>2 DEF CooldownHeld
  <2> QED BY <2>1, <2>2
<1>13. d.orders # <<>> => TowardsFlat(strat', account, d.orders)
  BY <1>5, <1>7 DEF TowardsFlat
<1> HIDE DEF p
<1> QED BY <1>1, <1>3, <1>7, <1>8, <1>9, <1>11, <1>12, <1>13 DEF CooldownHeld

(* A clip is sent. *)
LEMMA CooldownSends ==
  ASSUME DeskBooks, CooldownHeld, NEW q \in Sizes, SendOrder(q)
  PROVE  CooldownHeld'
<1> DEFINE o == Head(to_submit)
           e == [view |-> strat.views, adds |-> Adds(o)]
<1>1. /\ to_submit # <<>> /\ to_submit' = Tail(to_submit) /\ UNCHANGED <<kind, pause_view>>
      /\ strat' = AfterSend(strat, next_id, o, q) /\ entries' = Noted(o)
  BY DEF SendOrder
<1> SUFFICES ASSUME kind = "trend" PROVE CooldownHeld' BY <1>1 DEF CooldownHeld
<1>2. /\ account \in Int /\ IsFiniteSet(Doomed) /\ DOMAIN strat = TFields
      /\ strat.cfg.cooldown \in Nat
  BY TDesk
<1>3. Cooling(strat, pause_view) /\ TowardsFlat(strat, account, to_submit)
  BY <1>1 DEF CooldownHeld
<1>4. TCalm(strat, strat') BY <1>1, <1>2, TCalmEvents
<1>5. Cooling(strat', pause_view) BY <1>3, <1>4, CoolingCalm
<1>6. strat'.views = strat.views /\ strat'.cfg = strat.cfg BY <1>4 DEF TCalm
<1>7. entries' = entries \cup {e} BY <1>1 DEF Noted
<1>8. to_submit' = <<>>
  <2>1. PICK x : to_submit = <<x>> BY <1>3 DEF TowardsFlat
  <2> QED BY <1>1, <2>1
<1>9. strat.views \in Nat BY <1>3 DEF Cooling
<1>10. \A x \in entries' : x.view \in Nat /\ x.view <= strat'.views
  BY <1>6, <1>7, <1>9 DEF CooldownHeld
<1>11. KeptOut({e}, pause_view, strat.cfg.cooldown)
  <2> SUFFICES ASSUME pause_view > 0,
                      strat.views \in pause_view .. pause_view + strat.cfg.cooldown
               PROVE  ~Adds(o)
    BY DEF KeptOut
  <2>1. strat.target = 0 BY <1>2, <1>3 DEF Cooling
  <2>2. Signed(o.side, 1) * account < 0 BY <1>3, <2>1 DEF TowardsFlat
  <2>3. Signed(o.side, 1) * account \in Int BY <1>2 DEF Signed
  <2> QED BY <2>2, <2>3 DEF Adds
<1>12. KeptOut(entries', pause_view, strat.cfg.cooldown)
  BY <1>7, <1>11 DEF KeptOut, CooldownHeld
<1> QED BY <1>1, <1>5, <1>6, <1>8, <1>10, <1>12 DEF CooldownHeld

(* Every step keeps the cooldown. *)
LEMMA CooldownStep ==
  DeskBooks /\ NothingWaits /\ CooldownHeld /\ [DNext]_dvars => CooldownHeld'
<1> SUFFICES ASSUME DeskBooks, NothingWaits, CooldownHeld, [DNext]_dvars PROVE CooldownHeld'
  OBVIOUS
<1>0. kind = "trend" =>
        /\ TCalm(strat, strat) /\ TCalm(strat, Refused(strat))
        /\ TCalm(strat, AfterCancels(strat))
        /\ \A id, o, q, rest : TCalm(strat, AfterFill(strat, id, o, q, rest))
        /\ \A id, o, e : TCalm(strat, Told(Submitted(strat, id, o), e))
  BY TDesk, TCalmCalls, TCalmEvents
<1>a. stage # "submit" => to_submit = <<>> BY DEF NothingWaits
<1>1. ASSUME NEW top, NEW dt, ViewEvent(top, dt) PROVE CooldownHeld'
  BY <1>0, <1>1, <1>a, CooldownCalm DEF ViewEvent
<1>2. ASSUME NEW top, QuoteEvent(top) PROVE CooldownHeld'
  BY <1>0, <1>2, <1>a, CooldownCalm DEF QuoteEvent
<1>3. ASSUME NEW trade \in Trades, TradeEvent(trade) PROVE CooldownHeld'
  <2>1. kind = "trend" => strat' = strat BY <1>3, KindsDiffer DEF TradeEvent, AfterTrade
  <2> QED BY <1>0, <1>3, <1>a, <2>1, CooldownCalm DEF TradeEvent
<1>4. ASSUME NEW trade, NEW far, NEW stale, QuotedTrade(trade, far, stale)
      PROVE  CooldownHeld'
  <2>1. kind # "trend" /\ kind' = kind BY <1>4, KindsDiffer DEF QuotedTrade, OnQuotes
  <2> QED BY <2>1 DEF CooldownHeld
<1>5. ASSUME NEW id \in DOMAIN venue, NEW q \in Sizes \ {0}, FillResting(id, q)
      PROVE  CooldownHeld'
  <2>1. /\ strat' = AfterFill(strat, id, venue[id], q, venue[id].remaining - q)
        /\ UNCHANGED <<kind, stage, to_submit, entries, pause_view>> /\ stage # "submit"
    BY <1>5 DEF FillResting
  <2> QED BY <1>0, <1>a, <2>1, CooldownCalm
<1>6. CASE TradeDone BY <1>0, <1>6, <1>a, CooldownCalm DEF TradeDone
<1>7. ASSUME NEW d, Decide(d) PROVE CooldownHeld' BY <1>7, CooldownDecides
<1>8. CASE RefuseOrder \/ RejectOrder
  <2> SUFFICES ASSUME kind = "trend" PROVE CooldownHeld'
    BY <1>8 DEF RefuseOrder, RejectOrder, CooldownHeld
  <2>1. /\ to_submit # <<>> /\ to_submit' = Tail(to_submit)
        /\ UNCHANGED <<kind, entries, pause_view>>
        /\ \/ strat' = Refused(strat)
           \/ \E id, o, e : strat' = Told(Submitted(strat, id, o), e)
    BY <1>8 DEF RefuseOrder, RejectOrder
  <2>2. PICK x : to_submit = <<x>> BY <2>1 DEF CooldownHeld, TowardsFlat
  <2>3. to_submit' = <<>> BY <2>1, <2>2
  <2>4. TCalm(strat, strat') BY <1>0, <2>1
  <2> QED BY <2>1, <2>3, <2>4, CooldownCalm
<1>9. ASSUME NEW q \in Sizes, SendOrder(q) PROVE CooldownHeld' BY <1>9, CooldownSends
<1>10. CASE ViewDone BY <1>0, <1>10, CooldownCalm DEF ViewDone
<1>11. CASE UNCHANGED dvars BY <1>11 DEF dvars, CooldownHeld
<1> QED
  BY <1>1, <1>2, <1>3, <1>4, <1>5, <1>6, <1>7, <1>8, <1>9, <1>10, <1>11 DEF DNext

(* A fresh strategy has no cooldown and has sent nothing. *)
LEMMA CooldownOpens == DInit => CooldownHeld
<1> SUFFICES ASSUME DInit, kind = "trend" PROVE CooldownHeld BY DEF CooldownHeld
<1>1. PICK d \in Desks : kind = d.kind /\ strat = Fresh(d) BY DEF DInit
<1>2. strat = T!NewTrend(d.cfg) BY <1>1, KindsDiffer DEF Fresh
<1>3. strat.views = 0 /\ strat.cooldown = 0 /\ strat.pauses = 0 BY <1>2 DEF T!NewTrend
<1>4. entries = {} /\ pause_view = 0 /\ to_submit = <<>> BY DEF DInit
<1> QED BY <1>3, <1>4 DEF CooldownHeld, Cooling, KeptOut

(* No order that adds to a position is sent on a view of the cooldown after a risk exit. *)
THEOREM CooldownAlwaysHolds == DSpec => []CooldownHolds
<1>1. DInit => DeskBooks /\ NothingWaits /\ CooldownHeld
  BY DeskOpens, ParentOpens, CooldownOpens
<1>2. DeskBooks /\ NothingWaits /\ CooldownHeld /\ [DNext]_dvars
        => (DeskBooks /\ NothingWaits /\ CooldownHeld)'
  BY DeskStep, WaitsStep, CooldownStep
<1>3. CooldownHeld => CooldownHolds BY DEF CooldownHeld, CooldownHolds, KeptOut
<1> QED BY <1>1, <1>2, <1>3, PTL DEF DSpec

-----------------------------------------------------------------------------
(* Quotes, and the view they were sent on. *)

(* The orders at the venue with no cancel pending. *)
Working == DOMAIN venue \ Doomed

(* The venue after a step that sends nothing: no order came, none that works is new. *)
Shrunk ==
  /\ DOMAIN venue' \subseteq DOMAIN venue /\ Working' \subseteq Working
  /\ \A id \in Working' : venue'[id].born = venue[id].born

(* Fills and cancels send nothing. *)
LEMMA VenueShrinks ==
  ASSUME VenueFits
  PROVE  /\ venue' = venue \/ venue' = Kept => Shrunk
         /\ \A id \in DOMAIN venue : \A q :
              venue' = (IF venue[id].remaining = q THEN Restrict(venue, DOMAIN venue \ {id})
                        ELSE [venue EXCEPT ![id].remaining = @ - q]) => Shrunk
<1>1. venue' = venue => Shrunk BY DEF Shrunk, Working, Doomed
<1>2. ASSUME NEW S \in SUBSET DOMAIN venue, venue' = Restrict(venue, S) PROVE Shrunk
  <2>1. DOMAIN venue' = S /\ \A id \in S : venue'[id] = venue[id] BY <1>2 DEF Restrict
  <2> QED BY <2>1 DEF Shrunk, Working, Doomed
<1>3. venue' = Kept => Shrunk BY <1>2 DEF Kept
<1>4. ASSUME NEW id \in DOMAIN venue, NEW q, venue' = [venue EXCEPT ![id].remaining = @ - q]
      PROVE  Shrunk
  <2> DEFINE o == [venue[id] EXCEPT !.remaining = venue[id].remaining - q]
  <2>1. venue' = [venue EXCEPT ![id] = o] BY <1>4
  <2>2. o.cancel = venue[id].cancel /\ o.born = venue[id].born BY DEF VenueFits
  <2> HIDE DEF o
  <2>3. /\ DOMAIN venue' = DOMAIN venue /\ venue'[id] = o
        /\ \A i \in DOMAIN venue \ {id} : venue'[i] = venue[i]
    BY <2>1
  <2> QED BY <2>2, <2>3 DEF Shrunk, Working, Doomed
<1>5. ASSUME NEW id \in DOMAIN venue, NEW q,
             venue' = IF venue[id].remaining = q THEN Restrict(venue, DOMAIN venue \ {id})
                      ELSE [venue EXCEPT ![id].remaining = @ - q]
      PROVE  Shrunk
  <2>1. CASE venue[id].remaining = q BY <1>2, <1>5, <2>1
  <2>2. CASE venue[id].remaining # q BY <1>4, <1>5, <2>2
  <2> QED BY <2>1, <2>2
<1> QED BY <1>1, <1>3, <1>5

(* What a maker decides by and no report changes, and what it has besides. *)
Parts ==
  CASE kind = "optimized" -> {"cfg", "mids", "last_mid", "quote_mid"}
    [] kind = "active" -> {"cfg", "vol", "trades", "views"}
    [] kind \in L!L1Kinds -> {"cfg", "cancel_pending"}
    [] OTHER -> {}

Marks == Parts \ {"cancel_pending"}

Steady(s, t) == Parts \subseteq DOMAIN t /\ \A b \in Marks : t[b] = s[b]

(* The four cases of it. *)
LEMMA PartsAre ==
  /\ kind = "optimized" => Parts = {"cfg", "mids", "last_mid", "quote_mid"} /\ Marks = Parts
  /\ kind = "active" => Parts = {"cfg", "vol", "trades", "views"} /\ Marks = Parts
  /\ kind \in L!L1Kinds => Parts = {"cfg", "cancel_pending"} /\ Marks = {"cfg"}
  /\ kind \notin {"optimized", "active"} \cup L!L1Kinds => Parts = {} /\ Marks = {}
BY KindsDiffer DEF Parts, Marks

(* Two steady steps are one. *)
LEMMA SteadyTwice ==
  ASSUME NEW s, NEW t, NEW u, Steady(s, t), Steady(t, u)
  PROVE  Steady(s, u)
BY DEF Steady

(* Reports, refusals and the cancels handed over change none of it. *)
LEMMA SteadyCalls ==
  ASSUME NEW s, Parts \subseteq DOMAIN s
  PROVE  /\ Steady(s, s) /\ Steady(s, Refused(s)) /\ Steady(s, Handed(s))
         /\ \A r : Steady(s, Told(s, r))
<1>1. Steady(s, s) BY DEF Steady
<1>2. CASE kind = "optimized"
  <2>1. Parts = {"cfg", "mids", "last_mid", "quote_mid"} /\ Marks = Parts BY <1>2, PartsAre
  <2>2. \A r : Told(s, r) = BaselineUpdate(s, r) BY <1>2, KindsDiffer DEF Told
  <2>3. Refused(s) = s /\ Handed(s) = s BY <1>2, KindsDiffer DEF Refused, Handed
  <2>4. \A r : Steady(s, BaselineUpdate(s, r)) BY <2>1 DEF Steady, BaselineUpdate
  <2> QED BY <1>1, <2>2, <2>3, <2>4
<1>3. CASE kind = "active"
  <2>1. Parts = {"cfg", "vol", "trades", "views"} /\ Marks = Parts BY <1>3, PartsAre
  <2>2. \A r : Told(s, r) = [s EXCEPT !.base = OnOrderUpdate(s.base, r)]
    BY <1>3, KindsDiffer DEF Told
  <2>3. Refused(s) = s /\ \E b : Handed(s) = [s EXCEPT !.base = b]
    BY <1>3, KindsDiffer DEF Refused, Handed
  <2>4. \A b : Steady(s, [s EXCEPT !.base = b]) BY <2>1 DEF Steady
  <2> QED BY <1>1, <2>2, <2>3, <2>4
<1>4. CASE kind \in L!L1Kinds
  <2>1. Parts = {"cfg", "cancel_pending"} /\ Marks = {"cfg"} BY <1>4, PartsAre
  <2>2. \A r : Told(s, r) = L!OnOrderUpdate(s, r) BY <1>4, KindsDiffer DEF Told
  <2>3. Refused(s) = s /\ Handed(s) = [s EXCEPT !.cancel_pending = FALSE]
    BY <1>4, KindsDiffer DEF Refused, Handed
  <2>4. \A r : Steady(s, L!OnOrderUpdate(s, r))
    BY <2>1 DEF Steady, L!OnOrderUpdate, L!Recovery
  <2>5. Steady(s, [s EXCEPT !.cancel_pending = FALSE]) BY <2>1 DEF Steady
  <2> QED BY <1>1, <2>2, <2>3, <2>4, <2>5
<1>5. CASE kind \notin {"optimized", "active"} \cup L!L1Kinds
  BY <1>5, PartsAre DEF Steady
<1> QED BY <1>2, <1>3, <1>4, <1>5

(* Sending a quote notes the mid it was sent at. *)
LEMMA SteadySubmits ==
  ASSUME NEW s, Parts \subseteq DOMAIN s, NEW id, NEW o
  PROVE  LET t == Submitted(s, id, o) IN
         /\ Parts \subseteq DOMAIN t /\ \A b \in Marks \ {"quote_mid"} : t[b] = s[b]
         /\ kind = "optimized" => t.quote_mid = s.last_mid
<1>1. CASE kind = "optimized"
  <2>1. Submitted(s, id, o) = OptimizedSubmitted(s, id, o)
    BY <1>1, KindsDiffer DEF Submitted
  <2>2. Parts = {"cfg", "mids", "last_mid", "quote_mid"} /\ Marks = Parts BY <1>1, PartsAre
  <2> QED BY <2>1, <2>2 DEF OptimizedSubmitted
<1>2. CASE kind = "active"
  <2>1. \E b : Submitted(s, id, o) = [s EXCEPT !.base = b]
    BY <1>2, KindsDiffer DEF Submitted
  <2>2. Parts = {"cfg", "vol", "trades", "views"} /\ Marks = Parts BY <1>2, PartsAre
  <2> QED BY <1>2, <2>1, <2>2
<1>3. CASE kind \in L!L1Kinds
  <2>1. Submitted(s, id, o) = L!OnOrderSubmitted(s, id, o)
    BY <1>3, KindsDiffer DEF Submitted
  <2>2. Parts = {"cfg", "cancel_pending"} /\ Marks = {"cfg"} BY <1>3, PartsAre
  <2> QED BY <1>3, <2>1, <2>2, KindsDiffer DEF L!OnOrderSubmitted
<1>4. CASE kind \notin {"optimized", "active"} \cup L!L1Kinds
  BY <1>4, PartsAre
<1> QED BY <1>1, <1>2, <1>3, <1>4

(* A fill, the cancels that are due, and what follows the sending of an order. *)
LEMMA SteadyEvents ==
  ASSUME NEW s, Parts \subseteq DOMAIN s, IsFiniteSet(Doomed)
  PROVE  /\ \A id, o, q, rest : Steady(s, AfterFill(s, id, o, q, rest))
         /\ \A id, o, q : Steady(Submitted(s, id, o), AfterSend(s, id, o, q))
         /\ \A id, o, e : Steady(Submitted(s, id, o), Told(Submitted(s, id, o), e))
         /\ Steady(s, AfterCancels(s))
<1>1. ASSUME NEW u, NEW z, Steady(u, z), NEW r PROVE Steady(u, Told(z, r))
  <2>1. Parts \subseteq DOMAIN z BY <1>1 DEF Steady
  <2>2. Steady(z, Told(z, r)) BY <2>1, SteadyCalls
  <2> QED BY <1>1, <2>2, SteadyTwice
<1>2. ASSUME NEW u, NEW z, Steady(u, z), NEW id, NEW o, NEW q, NEW rest
      PROVE  Steady(u, AfterFill(z, id, o, q, rest))
  BY <1>1, <1>2 DEF AfterFill
<1>3. Steady(s, s) BY SteadyCalls
<1>4. ASSUME NEW id, NEW o
      PROVE  /\ Steady(Submitted(s, id, o), Submitted(s, id, o))
             /\ \A q : Steady(Submitted(s, id, o), AfterSend(s, id, o, q))
  <2>1. Parts \subseteq DOMAIN Submitted(s, id, o) BY SteadySubmits
  <2>2. Steady(Submitted(s, id, o), Submitted(s, id, o)) BY <2>1, SteadyCalls
  <2> QED BY <1>1, <1>2, <2>2 DEF AfterSend
<1>5. Steady(s, AfterCancels(s))
  <2>1. PICK n \in Nat : \E path : CancelSteps(path, n, s) BY CancelsInSteps
  <2>2. PICK path : CancelSteps(path, n, s) BY <2>1
  <2> DEFINE N == {k \in Nat : k <= n => Steady(s, path[k])}
  <2>3. 0 \in N BY <1>3, <2>2 DEF CancelSteps
  <2>4. ASSUME NEW k \in Nat, k \in N PROVE k + 1 \in N
    <3> SUFFICES ASSUME k + 1 <= n PROVE Steady(s, path[k + 1]) OBVIOUS
    <3>1. k + 1 \in 1 .. n /\ (k + 1) - 1 = k /\ k <= n BY <2>4
    <3>2. Steady(s, path[k]) BY <2>4, <3>1
    <3>3. PICK id \in Doomed : path[k + 1] = CancelTold(path[k], id)
      BY <2>2, <3>1 DEF CancelSteps
    <3> QED BY <1>1, <3>2, <3>3 DEF CancelTold
  <2> HIDE DEF N
  <2>5. N \subseteq Nat BY DEF N
  <2>6. n \in N BY <2>3, <2>4, <2>5, NatSetInduction
  <2>7. n <= n BY <2>1
  <2>8. Steady(s, path[n]) BY <2>6, <2>7 DEF N
  <2> QED BY <2>2, <2>8 DEF CancelSteps
<1> QED BY <1>1, <1>2, <1>3, <1>4, <1>5

-----------------------------------------------------------------------------
(* What a view makes of the quotes. *)

(* All but the execution strategy and the optimized maker send with nothing open. *)
LEMMA SendsOnEmpty ==
  ASSUME kind \in {"active", "inventory"} => FlattenBand = 0,
         kind \in Kinds \ {"execution", "optimized"}, NEW s,
         kind = "trend" => DOMAIN s = TFields, NEW v, NEW d \in DecisionsOf(s, v),
         d.orders # <<>>
  PROVE  DOMAIN OpenOf(s) = {}
<1>1. ASSUME FlattenBand = 0, NEW b, NEW e \in Decisions(b, v), e.orders # <<>>
      PROVE  DOMAIN b.open = {}
  BY <1>1 DEF Decisions, Flattens
<1>2. CASE kind = "trend"
  <2>1. d = T!OnL2MarketView(s, v) /\ OpenOf(s) = s.open
    BY <1>2, KindsDiffer DEF DecisionsOf, OpenOf
  <2>2. PICK c, j : TCounted(s, c) /\ TJudged(c, j) /\ TArmed(j, d.strat) /\ ~T!Waits(d.strat)
    BY <1>2, <2>1, TViewFields
  <2>3. d.strat.open = s.open
    <3>1. c.open = s.open BY <2>2 DEF TCounted, TFields
    <3>2. j.open = c.open BY <2>2 DEF TJudged, TKept
    <3>3. d.strat.open = j.open BY <2>2 DEF TArmed, TFields
    <3> QED BY <3>1, <3>2, <3>3
  <2> QED BY <2>1, <2>2, <2>3 DEF T!Waits
<1>3. CASE kind = "naive"
  <2>1. d = NaiveOnTop(s, v) /\ OpenOf(s) = s.open BY <1>3, KindsDiffer DEF DecisionsOf, OpenOf
  <2> QED BY <2>1 DEF NaiveOnTop
<1>4. CASE kind = "active"
  <2>1. d \in ActiveDecisions(s, v) /\ OpenOf(s) = s.base.open
    BY <1>4, KindsDiffer DEF DecisionsOf, OpenOf
  <2> DEFINE moved == UpdateVolatility(s, v)
             t == IF Usable(v) THEN [moved EXCEPT !.views = @ + 1] ELSE moved
  <2>2. t.base = s.base BY DEF UpdateVolatility
  <2>3. \E e \in Decisions(t.base, v) : d.orders = WithTif(e.orders)
    BY <2>1 DEF ActiveDecisions
  <2> HIDE DEF t
  <2>4. PICK e \in Decisions(s.base, v) : d.orders = WithTif(e.orders) BY <2>2, <2>3
  <2>5. e.orders # <<>> BY <2>4 DEF WithTif
  <2> QED BY <1>1, <1>4, <2>1, <2>5
<1>5. CASE kind = "inventory"
  <2>1. d \in InventoryDecisions(s, v) /\ OpenOf(s) = s.base.open
    BY <1>5, KindsDiffer DEF DecisionsOf, OpenOf
  <2>2. PICK e \in Decisions(s.base, v) : d.orders = WithTif(AdjustOrders(s, e.orders))
    BY <2>1 DEF InventoryDecisions
  <2>3. ASSUME e.orders = <<>> PROVE FALSE
    <3>1. AdjustOrders(s, <<>>) = <<>> BY DEF AdjustOrders, AdjustedAt
    <3>2. WithTif(<<>>) = <<>> BY DEF WithTif
    <3> QED BY <2>2, <2>3, <3>1, <3>2
  <2> QED BY <1>1, <1>5, <2>1, <2>3
<1>6. CASE kind \in L!L1Kinds
  <2>1. d \in L!L1Decisions(s, v) /\ OpenOf(s) = s.open
    BY <1>6, KindsDiffer DEF DecisionsOf, OpenOf
  <2> DEFINE t == L!Observed(s)
  <2>2. PICK c : d = L!Quote(t, v, c) BY <2>1 DEF L!L1Decisions
  <2>3. t.open = s.open BY DEF L!Observed
  <2> HIDE DEF t
  <2>4. DOMAIN t.open = {} BY <2>2 DEF L!Quote
  <2> QED BY <2>1, <2>3, <2>4
<1> QED BY <1>2, <1>3, <1>4, <1>5, <1>6 DEF Kinds

(* The execution strategy sends a child when it has given up the one that worked. *)
LEMMA SendsFreed ==
  ASSUME NEW s, NEW a, NEW f, XBook(s, a, f), NEW l, WithinParent(s, l), NEW v,
         X!OnL2MarketView(s, v).orders # <<>>
  PROVE  DOMAIN s.open \subseteq X!OnL2MarketView(s, v).strat.cancel_queue
<1> DEFINE d == X!OnL2MarketView(s, v)
<1>1. DOMAIN s = XFields /\ s.cfg.algo \in {"market", "twap", "pov"}
  BY XConfigured DEF XBook
<1>2. PICK t : XFreed(s, t) /\ XWorks(t, d) BY <1>1, XViewFields
<1>3. d.strat.cancel_queue = t.cancel_queue BY <1>2 DEF XWorks
<1>4. \A id \in DOMAIN s.open : id = s.working /\ id # 0 BY DEF WithinParent
<1>5. s.working # 0 => s.working \in t.cancel_queue BY <1>2 DEF XFreed
<1> HIDE DEF d
<1>6. DOMAIN s.open \subseteq d.strat.cancel_queue BY <1>3, <1>4, <1>5
<1> QED BY <1>6 DEF d

(* A legacy maker that is blind pulls everything. *)
LEMMA BlindPulls ==
  ASSUME NEW s, {"cfg", "cancel_pending", "open"} \subseteq DOMAIN s,
         NEW v, NEW d \in L!L1Decisions(s, v)
  PROVE  /\ {"cfg", "cancel_pending"} \subseteq DOMAIN d.strat /\ d.strat.cfg = s.cfg
         /\ L!Blind(s, v) => d.orders = <<>> /\ DOMAIN s.open \subseteq L!CancelRequests(d.strat)
<1>1. CASE L!Blind(s, v)
  <2> DEFINE p == DOMAIN s.open # {}
  <2>1. d = [strat |-> [s EXCEPT !.cancel_pending = p], orders |-> <<>>]
    BY <1>1 DEF L!L1Decisions
  <2>2. /\ {"cfg", "cancel_pending"} \subseteq DOMAIN d.strat /\ d.strat.cfg = s.cfg
        /\ d.strat.cancel_pending = p /\ d.strat.open = s.open /\ d.orders = <<>>
    <3> HIDE DEF p
    <3> QED BY <2>1
  <2>3. DOMAIN s.open # {} => d.strat.cancel_pending BY <2>2
  <2> HIDE DEF p
  <2> QED BY <2>2, <2>3 DEF L!CancelRequests
<1>2. CASE ~L!Blind(s, v)
  <2> DEFINE t == L!Observed(s)
  <2>1. PICK c : d = L!Quote(t, v, c) BY <1>2 DEF L!L1Decisions
  <2>2. {"cfg", "cancel_pending"} \subseteq DOMAIN t /\ t.cfg = s.cfg BY DEF L!Observed
  <2> HIDE DEF t
  <2> DEFINE r == L!Recovering(t)
  <2>3. {"cfg", "cancel_pending"} \subseteq DOMAIN r /\ r.cfg = s.cfg
    BY <2>2 DEF L!Recovering
  <2> HIDE DEF r
  <2>4. {"cfg", "cancel_pending"} \subseteq DOMAIN d.strat /\ d.strat.cfg = s.cfg
    <3> DEFINE quotes == L!Quotes(t, v, L!FlowBias(t, c.book), c.behind)
               seen == L!Compared(t, v, quotes)
    <3>1. \/ \E p : d.strat = [t EXCEPT !.cancel_pending = p]
          \/ d.strat = [r EXCEPT !.cancel_pending = FALSE]
          \/ \E g : d.strat = [r EXCEPT !.last_mid = L!Mid(v), !.last_bid = seen.bid,
                                        !.last_ask = seen.ask, !.age = g]
      <4> HIDE DEF quotes
      <4> QED BY <2>1 DEF L!Quote, r, quotes
    <3> HIDE DEF seen
    <3> QED BY <2>2, <2>3, <3>1
  <2> QED BY <1>2, <2>4
<1> QED BY <1>1, <1>2

(* A configuration of the active maker. *)
LEMMA ActiveConfigured ==
  ASSUME NEW cfg, Configured([kind |-> "active", cfg |-> cfg])
  PROVE  cfg.warmup_trades \in Nat /\ cfg.warmup_views \in Nat
<1> DEFINE d == [kind |-> "active", cfg |-> cfg]
<1>1. d.kind = "active" /\ d.cfg = cfg OBVIOUS
<1> HIDE DEF d
<1>2. d.kind \notin {"execution", "trend", "naive", "optimized", "inventory"} \cup L!L1Kinds
  BY <1>1 DEF L!L1Kinds
<1>3. Configured(d) BY DEF d
<1> QED BY <1>1, <1>2, <1>3 DEF Configured

(* The active maker waits for its warmup, pulls everything when it is halted, or
   quotes. *)
LEMMA HaltPulls ==
  ASSUME NEW s, NEW a, NEW f, MBook("active", s, a, f),
         {"vol", "trades", "views"} \subseteq DOMAIN s,
         s.trades \in Nat, s.views \in Nat, NEW v, NEW d \in ActiveDecisions(s, v)
  PROVE  /\ {"cfg", "vol", "trades", "views"} \subseteq DOMAIN d.strat
         /\ d.strat.trades \in Nat /\ d.strat.views \in Nat
         /\ \/ ~WarmupComplete(s) /\ ~WarmupComplete(d.strat) /\ d.orders = <<>>
            \/ /\ WarmupComplete(d.strat) /\ d.orders = <<>>
               /\ DOMAIN s.base.open \subseteq CancelRequests(d.strat.base)
            \/ WarmupComplete(d.strat) /\ ~ShouldPause(d.strat)
<1> DEFINE moved == UpdateVolatility(s, v)
           t == IF Usable(v) THEN [moved EXCEPT !.views = @ + 1] ELSE moved
           Seen(u) == /\ {"cfg", "base", "vol", "trades", "views"} \subseteq DOMAIN u
                      /\ u.cfg = s.cfg /\ u.base = s.base /\ u.trades = s.trades
                      /\ u.views \in Nat /\ u.views >= s.views
<1>1. Seen(moved) BY DEF UpdateVolatility, MBook
<1>2. \/ ~WarmupComplete(t) /\ d = [strat |-> t, orders |-> <<>>]
      \/ WarmupComplete(t) /\ d = [strat |-> Pause(t), orders |-> <<>>]
      \/ WarmupComplete(t) /\ ~ShouldPause(t) /\ \E b : d.strat = [t EXCEPT !.base = b]
  <2>1. CASE ~WarmupComplete(t)
    <3>1. d \in {[strat |-> t, orders |-> <<>>]} BY <2>1 DEF ActiveDecisions
    <3> QED BY <2>1, <3>1
  <2>2. CASE WarmupComplete(t) /\ ShouldPause(t)
    <3>1. d \in {[strat |-> Pause(t), orders |-> <<>>]} BY <2>2 DEF ActiveDecisions
    <3> QED BY <2>2, <3>1
  <2>3. CASE WarmupComplete(t) /\ ~ShouldPause(t)
    <3>1. d \in {[strat |-> [t EXCEPT !.base = e.strat], orders |-> WithTif(e.orders)] :
                   e \in Decisions(t.base, v)}
      BY <2>3 DEF ActiveDecisions
    <3>2. PICK e \in Decisions(t.base, v) :
            d = [strat |-> [t EXCEPT !.base = e.strat], orders |-> WithTif(e.orders)]
      BY <3>1
    <3>3. d.strat = [t EXCEPT !.base = e.strat] BY <3>2
    <3> HIDE DEF t
    <3>4. \E b : d.strat = [t EXCEPT !.base = b] BY <3>3
    <3> QED BY <2>3, <3>4
  <2> QED BY <2>1, <2>2, <2>3
<1> HIDE DEF moved
<1>3. Seen(t) BY <1>1
<1> HIDE DEF t
<1>4. s.cfg.warmup_trades \in Int /\ s.cfg.warmup_views \in Int
  BY ActiveConfigured DEF MBook
<1>5. CASE ~WarmupComplete(t) /\ d = [strat |-> t, orders |-> <<>>]
  <2>1. ~WarmupComplete(s) BY <1>3, <1>4, <1>5 DEF WarmupComplete
  <2> QED BY <1>3, <1>5, <2>1
<1>6. CASE WarmupComplete(t) /\ d = [strat |-> Pause(t), orders |-> <<>>]
  <2> DEFINE p == IF DOMAIN t.base.open # {} THEN t.pauses + 1 ELSE t.pauses
             b == [t.base EXCEPT !.cancel_pending = DOMAIN t.base.open # {}]
  <2>1. d.strat = [[t EXCEPT !.pauses = p] EXCEPT !.base = b] BY <1>6 DEF Pause
  <2>2. DOMAIN s.base.open \subseteq CancelRequests(b)
    <3>1. {"cancel_pending", "open"} \subseteq DOMAIN t.base /\ t.base = s.base
      BY <1>3 DEF MBook, BaseBook
    <3>2. b.cancel_pending = (DOMAIN s.base.open # {}) /\ b.open = s.base.open BY <3>1
    <3>3. DOMAIN s.base.open # {} => b.cancel_pending BY <3>2
    <3> HIDE DEF b
    <3> QED BY <3>2, <3>3 DEF CancelRequests
  <2> HIDE DEF p, b
  <2>3. Seen([d.strat EXCEPT !.base = s.base]) /\ d.strat.base = b BY <1>3, <2>1
  <2>4. WarmupComplete(d.strat) BY <1>3, <1>6, <2>1 DEF WarmupComplete
  <2>5. {"cfg", "vol", "trades", "views"} \subseteq DOMAIN d.strat
        /\ d.strat.trades \in Nat /\ d.strat.views \in Nat
    BY <1>3, <2>1
  <2> QED BY <1>6, <2>2, <2>3, <2>4, <2>5
<1>7. CASE WarmupComplete(t) /\ ~ShouldPause(t) /\ \E b : d.strat = [t EXCEPT !.base = b]
  BY <1>3, <1>7 DEF WarmupComplete, ShouldPause
<1> QED BY <1>2, <1>5, <1>6, <1>7

BySum == INSTANCE FoldTheorems WITH Op <- +

(* Each mid adds at least one to the sum of the window. *)
LEMMA SumOfMids ==
  ASSUME NEW m \in Seq(Nat \ {0})
  PROVE  FoldLeft(+, 0, m) \in Nat /\ FoldLeft(+, 0, m) >= Len(m)
<1> DEFINE n == Len(m)
<1>1. n \in Nat /\ \A k \in 1 .. n : m[k] \in Nat \ {0} BY LenProperties, ElementOfSeq
<1>2. FoldLeft(+, 0, m) = BySum!FoldLeft(+, 0, m)
  BY Zenon DEF FoldLeft, MapThenFoldSet, Max,
     BySum!FoldLeft, BySum!MapThenFoldSet, BySum!Max
<1>3. PICK path : BySum!FoldPath(path, 0, m) /\ FoldLeft(+, 0, m) = path[n]
  <2>1. \E path : BySum!FoldPath(path, 0, m) /\ BySum!FoldLeft(+, 0, m) = path[Len(m)]
    BY BySum!FoldFollowsPath
  <2> QED BY <1>2, <2>1
<1>4. path[0] = 0 /\ \A k \in 1 .. n : path[k] = path[k - 1] + m[k]
  BY <1>3 DEF BySum!FoldPath
<1> DEFINE N == {k \in Nat : k <= n => path[k] \in Nat /\ path[k] >= k}
<1> HIDE DEF n
<1>5. 0 \in N BY <1>4
<1>6. ASSUME NEW k \in Nat, k \in N PROVE k + 1 \in N
  <2> SUFFICES ASSUME k + 1 <= n PROVE path[k + 1] \in Nat /\ path[k + 1] >= k + 1 OBVIOUS
  <2>1. k + 1 \in 1 .. n /\ (k + 1) - 1 = k /\ k <= n BY <1>1, <1>6
  <2>2. path[k + 1] = path[k] + m[k + 1] BY <1>4, <2>1
  <2>3. path[k] \in Nat /\ path[k] >= k /\ m[k + 1] \in Nat \ {0} BY <1>1, <1>6, <2>1
  <2> QED BY <2>2, <2>3
<1> HIDE DEF N
<1>7. n \in N BY <1>1, <1>5, <1>6, NatSetInduction
<1>8. path[n] \in Nat /\ path[n] >= n BY <1>1, <1>7 DEF N
<1> QED BY <1>3, <1>8 DEF n

(* A mean of numbers that are at least one. *)
LEMMA MeanOfMids ==
  ASSUME NEW a \in Nat, NEW b \in Nat \ {0}, a >= b
  PROVE  a \div b \in Nat \ {0}
OBVIOUS

(* The optimized maker sends with a smoothed mid above zero, and pulls what is open
   unless it was never sent. *)
LEMMA OptimizedPulls ==
  ASSUME NEW s, {"cfg", "open", "mids", "last_mid", "quote_mid"} \subseteq DOMAIN s,
         s.mids \in Seq(Nat \ {0}), s.cfg.window \in Nat \ {0},
         NEW v, v.bid \in Nat, v.ask \in Nat,
         DOMAIN s.open # {} => s.quote_mid \in Nat \ {0}
  PROVE  LET d == OptimizedOnTop(s, v) IN
         /\ {"cfg", "open", "mids", "last_mid", "quote_mid"} \subseteq DOMAIN d.strat
         /\ d.strat.mids \in Seq(Nat \ {0}) /\ d.strat.quote_mid = s.quote_mid
         /\ d.orders # <<>> => /\ d.strat.last_mid \in Nat \ {0}
                               /\ DOMAIN s.open \subseteq OptimizedCancels(d.strat)
<1> DEFINE t == Smoothed(s, v)
           d == OptimizedOnTop(s, v)
           mids == IF Len(s.mids) >= s.cfg.window THEN Append(Tail(s.mids), MidOf(v))
                   ELSE Append(s.mids, MidOf(v))
           mean == FoldLeft(+, 0, mids) \div Len(mids)
           age == IF DOMAIN s.open # {} THEN s.age + 1 ELSE s.age
<1>1. t = [[[s EXCEPT !.mids = mids] EXCEPT !.last_mid = mean] EXCEPT !.age = age]
  BY DEF Smoothed
<1>2. CASE ~Usable(v)
  <2>1. d.strat = s /\ d.orders = <<>> BY <1>2 DEF OptimizedOnTop
  <2> HIDE DEF d
  <2> QED BY <2>1 DEF d
<1>3. CASE Usable(v)
  <2>1. MidOf(v) \in Nat \ {0}
    <3>1. v.bid \in Nat /\ v.ask \in Nat /\ v.bid > 0 /\ v.ask > 0 BY <1>3 DEF Usable
    <3> QED BY <3>1 DEF MidOf
  <2>2. mids \in Seq(Nat \ {0}) /\ Len(mids) \in Nat \ {0}
    <3> DEFINE m == MidOf(v)
    <3> HIDE DEF m
    <3>0. m \in Nat \ {0} BY <2>1 DEF m
    <3>1. \A z \in Seq(Nat \ {0}) : Append(z, m) \in Seq(Nat \ {0}) /\ Len(Append(z, m)) \in Nat \ {0}
      <4>1. ASSUME NEW z \in Seq(Nat \ {0})
            PROVE  Append(z, m) \in Seq(Nat \ {0}) /\ Len(Append(z, m)) \in Nat \ {0}
        <5>1. Append(z, m) \in Seq(Nat \ {0}) /\ Len(Append(z, m)) = Len(z) + 1
          BY <3>0, AppendProperties
        <5>2. Len(z) \in Nat BY LenProperties
        <5> QED BY <5>1, <5>2
      <4> QED BY <4>1
    <3>2. Len(s.mids) >= s.cfg.window => Tail(s.mids) \in Seq(Nat \ {0})
      <4> SUFFICES ASSUME Len(s.mids) >= s.cfg.window PROVE Tail(s.mids) \in Seq(Nat \ {0})
        OBVIOUS
      <4>1. Len(s.mids) \in Nat BY LenProperties
      <4>2. s.mids # <<>> BY <4>1
      <4> QED BY <4>2, HeadTailProperties
    <3> QED BY <3>1, <3>2 DEF m
  <2> HIDE DEF mids
  <2>3. mean \in Nat \ {0}
    <3>1. /\ FoldLeft(+, 0, mids) \in Nat /\ FoldLeft(+, 0, mids) >= Len(mids)
      BY <2>2, SumOfMids
    <3>2. PICK z \in Nat : z = FoldLeft(+, 0, mids) BY <3>1
    <3> QED BY <2>2, <3>1, <3>2, MeanOfMids
  <2> HIDE DEF mean, age
  <2>4. /\ {"cfg", "open", "mids", "last_mid", "quote_mid"} \subseteq DOMAIN t
        /\ t.mids = mids /\ t.last_mid = mean /\ t.quote_mid = s.quote_mid /\ t.open = s.open
    BY <1>1
  <2>5. d.strat = t /\ (d.orders # <<>> => DOMAIN s.open = {} \/ ~Stands(t))
    BY <1>3 DEF OptimizedOnTop
  <2> HIDE DEF t, d
  <2>6. d.orders # <<>> => DOMAIN s.open \subseteq OptimizedCancels(d.strat)
    BY <2>4, <2>5 DEF OptimizedCancels
  <2>7. /\ {"cfg", "open", "mids", "last_mid", "quote_mid"} \subseteq DOMAIN d.strat
        /\ d.strat.mids \in Seq(Nat \ {0}) /\ d.strat.quote_mid = s.quote_mid
        /\ d.strat.last_mid \in Nat \ {0}
    BY <2>2, <2>3, <2>4, <2>5
  <2> QED BY <2>6, <2>7 DEF d
<1> QED BY <1>2, <1>3

-----------------------------------------------------------------------------
(* Quotes at the desk. *)

(* Nothing works and nothing is to be sent. *)
Quiet == Working = {} /\ to_submit = <<>>

(* What the optimized maker sends with, and has sent with. *)
MidsHeld ==
  kind = "optimized" =>
    /\ strat.mids \in Seq(Nat \ {0})
    /\ to_submit # <<>> => strat.last_mid \in Nat \ {0}
    /\ DOMAIN venue # {} => strat.quote_mid \in Nat \ {0}

(* The active maker has sent nothing before its warmup is complete; a maker that is
   halted, or blind to the view it decided on, is quiet. *)
HaltHeld ==
  /\ kind = "active" =>
       /\ strat.trades \in Nat /\ strat.views \in Nat
       /\ ~WarmupComplete(strat) => DOMAIN venue = {} /\ to_submit = <<>>
       /\ ShouldPause(strat) => Quiet
  /\ kind \in L!L1Kinds /\ stage # "view" /\ L!Blind(strat, view) => Quiet

QuotesHeld ==
  /\ view.bid \in Nat /\ view.ask \in Nat /\ Parts \subseteq DOMAIN strat
  /\ MidsHeld /\ HaltHeld

(* The quotes that work were sent on one view, the one that is being answered when
   there is more to send; no flatten order comes on top of them. *)
GenerationHeld ==
  /\ FlattenBand = 0
  /\ \A a, b \in Working : venue[a].born = venue[b].born
  /\ to_submit # <<>> => \A a \in Working : venue[a].born = left

(* What blinds or halts a maker is in its marks. *)
LEMMA SameMarks ==
  ASSUME NEW s, NEW t, Steady(s, t)
  PROVE  /\ kind = "active" => /\ WarmupComplete(t) <=> WarmupComplete(s)
                               /\ ShouldPause(t) <=> ShouldPause(s)
                               /\ t.trades = s.trades /\ t.views = s.views
         /\ kind \in L!L1Kinds => \A v : L!Blind(t, v) <=> L!Blind(s, v)
         /\ kind = "optimized" => /\ t.mids = s.mids /\ t.last_mid = s.last_mid
                                  /\ t.quote_mid = s.quote_mid
<1>1. kind = "active" => t.cfg = s.cfg /\ t.vol = s.vol /\ t.trades = s.trades /\ t.views = s.views
  BY PartsAre DEF Steady
<1>2. kind \in L!L1Kinds => t.cfg = s.cfg BY PartsAre DEF Steady
<1>3. kind = "optimized" => /\ t.mids = s.mids /\ t.last_mid = s.last_mid
                            /\ t.quote_mid = s.quote_mid
  BY PartsAre DEF Steady
<1> QED BY <1>1, <1>2, <1>3 DEF WarmupComplete, ShouldPause, L!Blind, L!CappedByTouch

(* A step that sends nothing. *)
LEMMA QuotesShrink ==
  ASSUME QuotesHeld, Shrunk, Steady(strat, strat'), to_submit = <<>>, to_submit' = <<>>,
         kind' = kind, view'.bid \in Nat, view'.ask \in Nat,
         stage' # "view" => stage # "view" /\ view' = view
  PROVE  QuotesHeld'
<1>1. Parts' = Parts BY DEF Parts
<1>2. Parts \subseteq DOMAIN strat' BY DEF Steady
<1>3. DOMAIN venue # {} \/ DOMAIN venue' = {} BY DEF Shrunk
<1>4. MidsHeld'
  BY <1>3, SameMarks DEF QuotesHeld, MidsHeld
<1>5. Quiet => Quiet' BY DEF Quiet, Shrunk
<1>6. HaltHeld'
  <2>1. CASE kind = "active"
    <3>1. /\ WarmupComplete(strat') <=> WarmupComplete(strat)
          /\ ShouldPause(strat') <=> ShouldPause(strat)
          /\ strat'.trades = strat.trades /\ strat'.views = strat.views
      BY <2>1, SameMarks
    <3> QED BY <1>3, <1>5, <2>1, <3>1, KindsDiffer DEF QuotesHeld, HaltHeld
  <2>2. CASE kind \in L!L1Kinds
    <3>1. stage' # "view" /\ L!Blind(strat', view') => L!Blind(strat, view) /\ stage # "view"
      BY <2>2, SameMarks
    <3> QED BY <1>5, <2>2, <3>1, KindsDiffer DEF QuotesHeld, HaltHeld
  <2>3. CASE kind \notin {"active"} \cup L!L1Kinds BY <2>3 DEF HaltHeld
  <2> QED BY <2>1, <2>2, <2>3
<1> QED BY <1>1, <1>2, <1>4, <1>6 DEF QuotesHeld

(* The generation after it. *)
LEMMA GenerationShrinks ==
  ASSUME GenerationHeld, Shrunk, to_submit' = <<>>
  PROVE  GenerationHeld'
BY DEF GenerationHeld, Shrunk

(* A public trade, of which the makers keep count. *)
LEMMA QuotesTrade ==
  ASSUME DeskBooks, NothingWaits, QuotesHeld, NEW trade \in Trades,
         TradeEvent(trade) \/ \E far, stale : QuotedTrade(trade, far, stale)
  PROVE  QuotesHeld' /\ Shrunk /\ to_submit' = <<>>
<1>1. /\ UNCHANGED <<kind, venue, view, to_submit>> /\ stage = "idle"
      /\ stage' \in {"idle", "trade"}
      /\ \/ strat' = strat
         \/ strat' = AfterTrade(strat, trade)
         \/ kind \in L!L1Kinds /\ \E stale : strat' = L!OnQuotedTrade(strat, trade, stale)
  BY DEF TradeEvent, QuotedTrade, OnQuotes
<1>2. to_submit = <<>> BY <1>1 DEF NothingWaits
<1>3. Shrunk BY <1>1, VenueShrinks DEF DeskBooks
<1>4. view.bid \in Nat /\ view.ask \in Nat /\ Parts \subseteq DOMAIN strat BY DEF QuotesHeld
<1>5. CASE kind = "active" /\ strat' = [strat EXCEPT !.trades = @ + 1]
  <2>1. Parts = {"cfg", "vol", "trades", "views"} BY <1>5, PartsAre
  <2>2. /\ Parts \subseteq DOMAIN strat' /\ strat'.cfg = strat.cfg /\ strat'.vol = strat.vol
        /\ strat'.views = strat.views /\ strat'.trades = strat.trades + 1
    BY <1>4, <1>5, <2>1
  <2>3. strat.trades \in Nat /\ strat.views \in Nat BY <1>5 DEF QuotesHeld, HaltHeld
  <2>4. strat.cfg.warmup_trades \in Int
    BY <1>5, ActiveConfigured DEF DeskBooks, Fits, MBook
  <2>5. WarmupComplete(strat) => WarmupComplete(strat') BY <2>2, <2>3, <2>4 DEF WarmupComplete
  <2>6. ShouldPause(strat') <=> ShouldPause(strat) BY <2>2 DEF ShouldPause
  <2>7. Parts' = Parts BY <1>1 DEF Parts
  <2>8. DOMAIN venue' = DOMAIN venue /\ (Quiet => Quiet')
    BY <1>1 DEF Quiet, Working, Doomed
  <2>9. HaltHeld'
    BY <1>1, <1>5, <2>2, <2>3, <2>5, <2>6, <2>8, KindsDiffer DEF QuotesHeld, HaltHeld
  <2> QED BY <1>1, <1>2, <1>3, <1>4, <1>5, <2>2, <2>7, <2>9 DEF QuotesHeld, MidsHeld
<1>6. CASE ~(kind = "active" /\ strat' = [strat EXCEPT !.trades = @ + 1])
  <2>1. Steady(strat, strat')
    <3>1. CASE strat' = strat BY <1>4, <3>1 DEF Steady
    <3>2. CASE kind \in L!L1Kinds
      <4>1. Parts = {"cfg", "cancel_pending"} /\ Marks = {"cfg"} BY <3>2, PartsAre
      <4>2. \/ strat' = strat \/ strat' = L!OnMarketTrade(strat, trade)
        BY <1>1, <3>2, KindsDiffer DEF AfterTrade, L!OnQuotedTrade
      <4> QED BY <1>4, <4>1, <4>2 DEF L!OnMarketTrade, Steady
    <3>3. CASE kind \notin L!L1Kinds /\ strat' = AfterTrade(strat, trade)
      <4>1. CASE kind = "execution" BY <4>1, PartsAre, KindsDiffer DEF Steady
      <4>2. CASE kind # "execution"
        BY <1>4, <1>6, <3>3, <4>2, KindsDiffer DEF AfterTrade, Steady
      <4> QED BY <4>1, <4>2
    <3> QED BY <1>1, <3>1, <3>2, <3>3
  <2>2. QuotesHeld' BY <1>1, <1>2, <1>3, <1>4, <2>1, QuotesShrink
  <2> QED BY <1>1, <1>2, <1>3, <2>2
<1> QED BY <1>5, <1>6

(* The orders a strategy lists as open are those it believes open. *)
LEMMA OpenAtVenue == DeskBooks => DOMAIN OpenOf(strat) = Believable
<1> SUFFICES ASSUME DeskBooks PROVE DOMAIN OpenOf(strat) = Believable OBVIOUS
<1>1. Believed(strat) = Remains BY BooksHeld
<1>2. DOMAIN Believed(strat) = DOMAIN OpenOf(strat) BY DEF Believed
<1>3. DOMAIN Remains = Believable BY DEF Remains
<1> QED BY <1>1, <1>2, <1>3

(* A decision that asks for all that is open leaves nothing working. *)
LEMMA AsksAll ==
  ASSUME DeskBooks, NEW d, Decide(d)
  PROVE  /\ Shrunk /\ DOMAIN venue' = DOMAIN venue
         /\ DOMAIN OpenOf(strat) \subseteq Cancels(d.strat) => Working' = {}
<1> DEFINE c(id) == venue[id].cancel \/ id \in Cancels(d.strat)
<1>1. /\ DOMAIN venue' = DOMAIN venue
      /\ \A id \in DOMAIN venue : venue'[id] = [venue[id] EXCEPT !.cancel = c(id)]
  BY DEF Decide
<1>2. \A id \in DOMAIN venue : {"cancel", "born"} \subseteq DOMAIN venue[id]
  BY DEF DeskBooks, VenueFits
<1>3. \A id \in DOMAIN venue : venue'[id].cancel = c(id) /\ venue'[id].born = venue[id].born
  <2> HIDE DEF c
  <2> QED BY <1>1, <1>2
<1>4. Working' = {id \in Working : id \notin Cancels(d.strat)}
  BY <1>1, <1>3 DEF Working, Doomed
<1>5. Working \subseteq Believable BY DEF Working, Believable
<1>6. Shrunk BY <1>1, <1>3, <1>4 DEF Shrunk, Working
<1> QED BY <1>1, <1>4, <1>5, <1>6, OpenAtVenue

(* What the optimized maker decides at the desk. *)
LEMMA OptimizedDesk ==
  ASSUME DeskBooks, QuotesHeld, kind = "optimized", NEW d, d \in DecisionsOf(strat, view)
  PROVE  /\ Parts \subseteq DOMAIN d.strat
         /\ d.strat.mids \in Seq(Nat \ {0}) /\ d.strat.quote_mid = strat.quote_mid
         /\ d.orders # <<>> => /\ d.strat.last_mid \in Nat \ {0}
                               /\ DOMAIN OpenOf(strat) \subseteq Cancels(d.strat)
<1>1. d = OptimizedOnTop(strat, view) BY KindsDiffer DEF DecisionsOf
<1>2. Parts = {"cfg", "mids", "last_mid", "quote_mid"} BY PartsAre
<1>3. BBook("optimized", strat, account, Remains) BY DEF DeskBooks, Fits
<1>4. {"cfg", "open", "mids", "last_mid", "quote_mid"} \subseteq DOMAIN strat
  BY <1>2, <1>3 DEF BBook, QuotesHeld
<1>5. strat.cfg.window \in Nat \ {0} BY <1>3, BConfigured DEF BBook
<1>6. OpenOf(strat) = strat.open BY KindsDiffer DEF OpenOf
<1>7. DOMAIN strat.open # {} => strat.quote_mid \in Nat \ {0}
  BY <1>6, OpenAtVenue DEF QuotesHeld, MidsHeld, Believable
<1>8. strat.mids \in Seq(Nat \ {0}) /\ view.bid \in Nat /\ view.ask \in Nat
  BY DEF QuotesHeld, MidsHeld
<1>9. /\ {"cfg", "open", "mids", "last_mid", "quote_mid"} \subseteq DOMAIN d.strat
      /\ d.strat.mids \in Seq(Nat \ {0}) /\ d.strat.quote_mid = strat.quote_mid
      /\ d.orders # <<>> => /\ d.strat.last_mid \in Nat \ {0}
                            /\ DOMAIN strat.open \subseteq OptimizedCancels(d.strat)
  BY <1>1, <1>4, <1>5, <1>7, <1>8, OptimizedPulls
<1>10. Cancels(d.strat) = OptimizedCancels(d.strat) BY KindsDiffer DEF Cancels
<1> QED BY <1>2, <1>6, <1>9, <1>10

(* A view's decision: the quotes. *)
LEMMA QuotesDecides ==
  ASSUME DeskBooks, QuotesHeld, NEW d, Decide(d)
  PROVE  QuotesHeld'
<1>1. /\ d \in DecisionsOf(strat, view) /\ strat' = Handed(d.strat) /\ to_submit' = d.orders
      /\ UNCHANGED <<kind, view>>
  BY DEF Decide
<1>2. /\ DOMAIN venue' = DOMAIN venue
      /\ DOMAIN OpenOf(strat) \subseteq Cancels(d.strat) => Working' = {}
  BY AsksAll
<1>3. Parts' = Parts BY <1>1 DEF Parts
<1>4. view'.bid \in Nat /\ view'.ask \in Nat /\ Parts \subseteq DOMAIN strat
  BY <1>1 DEF QuotesHeld
<1>5. CASE kind = "optimized"
  <2>1. /\ Parts \subseteq DOMAIN d.strat
        /\ d.strat.mids \in Seq(Nat \ {0}) /\ d.strat.quote_mid = strat.quote_mid
        /\ d.orders # <<>> => d.strat.last_mid \in Nat \ {0}
    BY <1>1, <1>5, OptimizedDesk
  <2>2. strat' = d.strat BY <1>1, <1>5, KindsDiffer DEF Handed
  <2>3. MidsHeld' BY <1>1, <1>2, <1>5, <2>1, <2>2 DEF QuotesHeld, MidsHeld
  <2>4. HaltHeld' BY <1>1, <1>5, KindsDiffer DEF HaltHeld
  <2> QED BY <1>3, <1>4, <2>1, <2>2, <2>3, <2>4 DEF QuotesHeld
<1>6. CASE kind = "active"
  <2>1. Parts = {"cfg", "vol", "trades", "views"} BY <1>6, PartsAre
  <2>2. MBook("active", strat, account, Remains) BY <1>6 DEF DeskBooks, Fits
  <2>3. /\ strat.trades \in Nat /\ strat.views \in Nat
        /\ ~WarmupComplete(strat) => DOMAIN venue = {}
    BY <1>6 DEF QuotesHeld, HaltHeld
  <2>4. d \in ActiveDecisions(strat, view) BY <1>1, <1>6, KindsDiffer DEF DecisionsOf
  <2>5. /\ {"cfg", "vol", "trades", "views"} \subseteq DOMAIN d.strat
        /\ d.strat.trades \in Nat /\ d.strat.views \in Nat
        /\ \/ ~WarmupComplete(strat) /\ ~WarmupComplete(d.strat) /\ d.orders = <<>>
           \/ /\ WarmupComplete(d.strat) /\ d.orders = <<>>
              /\ DOMAIN strat.base.open \subseteq CancelRequests(d.strat.base)
           \/ WarmupComplete(d.strat) /\ ~ShouldPause(d.strat)
    BY <1>4, <2>1, <2>2, <2>3, <2>4, HaltPulls
  <2>6. Steady(d.strat, strat') BY <1>1, <2>1, <2>5, SteadyCalls
  <2>7. /\ WarmupComplete(strat') <=> WarmupComplete(d.strat)
        /\ ShouldPause(strat') <=> ShouldPause(d.strat)
        /\ strat'.trades = d.strat.trades /\ strat'.views = d.strat.views
    BY <1>6, <2>6, SameMarks
  <2>8. OpenOf(strat) = strat.base.open /\ Cancels(d.strat) = CancelRequests(d.strat.base)
    BY <1>6, KindsDiffer DEF OpenOf, Cancels
  <2>9. DOMAIN venue = {} => Working' = {} BY <1>2 DEF Working
  <2>10. ShouldPause(strat') => Quiet'
    BY <1>1, <1>2, <2>3, <2>5, <2>7, <2>8, <2>9 DEF Quiet
  <2>11. ~WarmupComplete(strat') => DOMAIN venue' = {} /\ to_submit' = <<>>
    BY <1>1, <1>2, <2>3, <2>5, <2>7
  <2>12. HaltHeld' BY <1>1, <1>6, <2>5, <2>7, <2>10, <2>11, KindsDiffer DEF HaltHeld
  <2>13. MidsHeld' BY <1>1, <1>6 DEF MidsHeld
  <2>14. Parts \subseteq DOMAIN strat' BY <2>6 DEF Steady
  <2> QED BY <1>3, <1>4, <2>12, <2>13, <2>14 DEF QuotesHeld
<1>7. CASE kind \in L!L1Kinds
  <2>1. Parts = {"cfg", "cancel_pending"} BY <1>7, PartsAre
  <2>2. d \in L!L1Decisions(strat, view) BY <1>1, <1>7, KindsDiffer DEF DecisionsOf
  <2>3. LBook(kind, strat, account, Remains) BY <1>7 DEF DeskBooks, Fits
  <2>4. /\ {"cfg", "cancel_pending"} \subseteq DOMAIN d.strat /\ d.strat.cfg = strat.cfg
        /\ L!Blind(strat, view) => /\ d.orders = <<>>
                                   /\ DOMAIN strat.open \subseteq L!CancelRequests(d.strat)
    <3>1. {"cfg", "cancel_pending", "open"} \subseteq DOMAIN strat
      BY <1>4, <2>1, <2>3 DEF LBook, BBook
    <3> QED BY <2>2, <3>1, BlindPulls
  <2>5. Steady(d.strat, strat') BY <1>1, <2>1, <2>4, SteadyCalls
  <2>6. strat'.cfg = strat.cfg BY <1>7, <2>4, <2>5, PartsAre DEF Steady
  <2>7. L!Blind(strat', view') <=> L!Blind(strat, view)
    BY <1>1, <2>6 DEF L!Blind, L!CappedByTouch
  <2>8. OpenOf(strat) = strat.open /\ Cancels(d.strat) = L!CancelRequests(d.strat)
    BY <1>7, KindsDiffer DEF OpenOf, Cancels
  <2>9. L!Blind(strat', view') => Quiet' BY <1>1, <1>2, <2>4, <2>7, <2>8 DEF Quiet
  <2>10. HaltHeld' BY <1>1, <1>7, <2>9, KindsDiffer DEF HaltHeld
  <2>11. MidsHeld' BY <1>1, <1>7, KindsDiffer DEF MidsHeld
  <2>12. Parts \subseteq DOMAIN strat' BY <2>5 DEF Steady
  <2> QED BY <1>3, <1>4, <2>10, <2>11, <2>12 DEF QuotesHeld
<1>8. CASE kind \notin {"optimized", "active"} \cup L!L1Kinds
  <2>1. Parts = {} BY <1>8, PartsAre
  <2> QED BY <1>1, <1>3, <1>4, <1>8, <2>1 DEF QuotesHeld, MidsHeld, HaltHeld
<1> QED BY <1>5, <1>6, <1>7, <1>8

(* A view's decision: the generation. *)
LEMMA GenerationDecides ==
  ASSUME DeskBooks, ParentHeld, QuotesHeld, GenerationHeld, NEW d, Decide(d)
  PROVE  GenerationHeld'
<1>1. d \in DecisionsOf(strat, view) /\ to_submit' = d.orders BY DEF Decide
<1>2. Shrunk /\ (DOMAIN OpenOf(strat) \subseteq Cancels(d.strat) => Working' = {})
  BY AsksAll
<1>3. kind \in Kinds BY DEF DeskBooks, Fits
<1>4. d.orders # <<>> => DOMAIN OpenOf(strat) \subseteq Cancels(d.strat)
  <2> SUFFICES ASSUME d.orders # <<>> PROVE DOMAIN OpenOf(strat) \subseteq Cancels(d.strat)
    OBVIOUS
  <2>1. CASE kind = "execution"
    <3>1. d = X!OnL2MarketView(strat, view) BY <1>1, <2>1, KindsDiffer DEF DecisionsOf
    <3>2. XBook(strat, account, Remains) /\ WithinParent(strat, late)
      BY <2>1, XDesk DEF ParentHeld
    <3>3. DOMAIN strat.open \subseteq d.strat.cancel_queue BY <3>1, <3>2, SendsFreed
    <3>4. OpenOf(strat) = strat.open BY <2>1 DEF OpenOf
    <3>5. Cancels(d.strat) = d.strat.cancel_queue
      BY <2>1, KindsDiffer DEF Cancels, X!CancelRequests
    <3> QED BY <3>3, <3>4, <3>5
  <2>2. CASE kind = "optimized" BY <1>1, <2>2, OptimizedDesk
  <2>3. CASE kind \in Kinds \ {"execution", "optimized"}
    <3>1. kind = "trend" => DOMAIN strat = TFields BY TDesk
    <3>2. FlattenBand = 0 BY DEF GenerationHeld
    <3>3. DOMAIN OpenOf(strat) = {} BY <1>1, <2>3, <3>1, <3>2, SendsOnEmpty
    <3> QED BY <3>3
  <2> QED BY <1>3, <2>1, <2>2, <2>3
<1> QED BY <1>1, <1>2, <1>4 DEF GenerationHeld, Shrunk

(* An order is refused, or sent: what halts and blinds was looked at before. *)
LEMMA QuotesSends ==
  ASSUME QuotesHeld, stage = "submit", to_submit # <<>>, UNCHANGED <<kind, view, stage>>,
         \/ Steady(strat, strat') /\ venue' = venue
         \/ \E id, o : Steady(Submitted(strat, id, o), strat')
  PROVE  QuotesHeld'
<1>1. Parts' = Parts BY DEF Parts
<1>2. Parts \subseteq DOMAIN strat BY DEF QuotesHeld
<1>3. /\ Parts \subseteq DOMAIN strat' /\ \A b \in Marks \ {"quote_mid"} : strat'[b] = strat[b]
      /\ kind = "optimized" => \/ strat'.quote_mid = strat.last_mid
                               \/ strat'.quote_mid = strat.quote_mid /\ venue' = venue
  <2>1. CASE Steady(strat, strat') /\ venue' = venue
    BY <2>1, SameMarks DEF Steady
  <2>2. CASE \E id, o : Steady(Submitted(strat, id, o), strat')
    <3>1. PICK id, o : Steady(Submitted(strat, id, o), strat') BY <2>2
    <3> DEFINE t == Submitted(strat, id, o)
    <3>2. /\ \A b \in Marks \ {"quote_mid"} : t[b] = strat[b]
          /\ kind = "optimized" => t.quote_mid = strat.last_mid
      BY <1>2, SteadySubmits
    <3> HIDE DEF t
    <3>3. Steady(t, strat') BY <3>1 DEF t
    <3> QED BY <3>2, <3>3, SameMarks DEF Steady
  <2> QED BY <2>1, <2>2
<1>4. MidsHeld'
  <2> SUFFICES ASSUME kind = "optimized" PROVE MidsHeld' BY DEF MidsHeld
  <2>1. strat'.mids = strat.mids /\ strat'.last_mid = strat.last_mid BY <1>3, PartsAre
  <2>2. /\ strat.mids \in Seq(Nat \ {0}) /\ strat.last_mid \in Nat \ {0}
        /\ DOMAIN venue # {} => strat.quote_mid \in Nat \ {0}
    BY DEF QuotesHeld, MidsHeld
  <2> QED BY <1>3, <2>1, <2>2 DEF MidsHeld
<1>5. HaltHeld'
  <2>1. CASE kind = "active"
    <3>1. /\ strat'.cfg = strat.cfg /\ strat'.vol = strat.vol /\ strat'.trades = strat.trades
          /\ strat'.views = strat.views
      BY <1>3, <2>1, PartsAre
    <3>2. /\ WarmupComplete(strat) /\ ~ShouldPause(strat)
          /\ strat.trades \in Nat /\ strat.views \in Nat
      BY <2>1 DEF QuotesHeld, HaltHeld, Quiet
    <3>3. WarmupComplete(strat') /\ ~ShouldPause(strat')
      BY <3>1, <3>2 DEF WarmupComplete, ShouldPause
    <3> QED BY <2>1, <3>1, <3>2, <3>3, KindsDiffer DEF HaltHeld
  <2>2. CASE kind \in L!L1Kinds
    <3>1. strat'.cfg = strat.cfg BY <1>3, <2>2, PartsAre
    <3>2. ~L!Blind(strat, view) BY <2>2 DEF QuotesHeld, HaltHeld, Quiet
    <3>3. ~L!Blind(strat', view') BY <3>1, <3>2 DEF L!Blind, L!CappedByTouch
    <3> QED BY <2>2, <3>3, KindsDiffer DEF HaltHeld
  <2>3. CASE kind \notin {"active"} \cup L!L1Kinds BY <2>3 DEF HaltHeld
  <2> QED BY <2>1, <2>2, <2>3
<1> QED BY <1>1, <1>3, <1>4, <1>5 DEF QuotesHeld

(* What is sent is of the view that is being answered. *)
LEMMA GenerationSends ==
  ASSUME VenueFits, GenerationHeld, to_submit # <<>>, left' = left,
         \/ venue' = venue
         \/ \E o : o.born = left /\ o.cancel = FALSE /\ venue' = Joined(venue, next_id, o)
  PROVE  GenerationHeld'
<1>1. \A a \in Working : venue[a].born = left BY DEF GenerationHeld
<1>2. \A a \in Working' : venue'[a].born = left
  <2>1. CASE venue' = venue BY <1>1, <2>1 DEF Working, Doomed
  <2>2. CASE \E o : o.born = left /\ o.cancel = FALSE /\ venue' = Joined(venue, next_id, o)
    <3>1. PICK o : o.born = left /\ o.cancel = FALSE /\ venue' = Joined(venue, next_id, o)
      BY <2>2
    <3>2. next_id \notin DOMAIN venue BY DEF VenueFits
    <3>3. /\ DOMAIN venue' = {next_id} \cup DOMAIN venue /\ venue'[next_id] = o
          /\ \A i \in DOMAIN venue : venue'[i] = venue[i]
      BY <3>1, <3>2 DEF Joined
    <3> QED BY <1>1, <3>1, <3>3 DEF Working, Doomed
  <2> QED BY <2>1, <2>2
<1> QED BY <1>2 DEF GenerationHeld

(* Every step keeps the quotes. *)
LEMMA QuotesStep ==
  DeskBooks /\ NothingWaits /\ QuotesHeld /\ [DNext]_dvars => QuotesHeld'
<1> SUFFICES ASSUME DeskBooks, NothingWaits, QuotesHeld, [DNext]_dvars PROVE QuotesHeld'
  OBVIOUS
<1>a. stage # "submit" => to_submit = <<>> BY DEF NothingWaits
<1>b. /\ venue' = venue \/ venue' = Kept => Shrunk
      /\ \A id \in DOMAIN venue : \A q :
           venue' = (IF venue[id].remaining = q THEN Restrict(venue, DOMAIN venue \ {id})
                     ELSE [venue EXCEPT ![id].remaining = @ - q]) => Shrunk
  BY VenueShrinks DEF DeskBooks
<1>c. Parts \subseteq DOMAIN strat /\ view.bid \in Nat /\ view.ask \in Nat BY DEF QuotesHeld
<1>d. IsFiniteSet(Doomed) BY RemainsBook DEF DeskBooks
<1>e. Steady(strat, strat) /\ Steady(strat, Refused(strat)) BY <1>c, SteadyCalls
<1>f. /\ Steady(strat, AfterCancels(strat))
      /\ \A id, o, q, rest : Steady(strat, AfterFill(strat, id, o, q, rest))
      /\ \A id, o, q : Steady(Submitted(strat, id, o), AfterSend(strat, id, o, q))
      /\ \A id, o, e : Steady(Submitted(strat, id, o), Told(Submitted(strat, id, o), e))
  BY <1>c, <1>d, SteadyEvents
<1>g. \A top \in TopsSeen : top.bid \in Nat /\ top.ask \in Nat
  BY DeskAssumption DEF TopsSeen
<1>1. ASSUME NEW top \in TopsSeen, NEW dt, ViewEvent(top, dt) PROVE QuotesHeld'
  <2>1. /\ stage = "idle" /\ stage' = "view" /\ UNCHANGED <<kind, to_submit>>
        /\ view'.bid = top.bid /\ view'.ask = top.ask
        /\ venue' = venue \/ venue' = Kept
        /\ strat' = strat \/ strat' = AfterCancels(strat)
    BY <1>1 DEF ViewEvent
  <2>2. Shrunk /\ Steady(strat, strat') BY <1>b, <1>e, <1>f, <2>1
  <2>3. view'.bid \in Nat /\ view'.ask \in Nat BY <1>g, <2>1
  <2> QED BY <1>a, <2>1, <2>2, <2>3, QuotesShrink
<1>2. ASSUME NEW top \in TopsSeen, QuoteEvent(top) PROVE QuotesHeld'
  <2>1. /\ stage = "idle" /\ stage' = "view" /\ UNCHANGED <<kind, to_submit>>
        /\ view'.bid = top.bid /\ view'.ask = top.ask
        /\ venue' = Kept /\ strat' = AfterCancels(strat)
    BY <1>2 DEF QuoteEvent
  <2>2. Shrunk /\ Steady(strat, strat') BY <1>b, <1>f, <2>1
  <2>3. view'.bid \in Nat /\ view'.ask \in Nat BY <1>g, <2>1
  <2> QED BY <1>a, <2>1, <2>2, <2>3, QuotesShrink
<1>3. ASSUME NEW trade \in Trades, TradeEvent(trade) PROVE QuotesHeld' BY <1>3, QuotesTrade
<1>4. ASSUME NEW trade \in Trades, NEW far, NEW stale, QuotedTrade(trade, far, stale)
      PROVE  QuotesHeld'
  BY <1>4, QuotesTrade
<1>5. ASSUME NEW id \in DOMAIN venue, NEW q \in Sizes \ {0}, FillResting(id, q)
      PROVE  QuotesHeld'
  <2>1. /\ strat' = AfterFill(strat, id, venue[id], q, venue[id].remaining - q)
        /\ UNCHANGED <<kind, view, stage, to_submit>> /\ stage # "submit"
        /\ venue' = IF venue[id].remaining = q THEN Restrict(venue, DOMAIN venue \ {id})
                    ELSE [venue EXCEPT ![id].remaining = @ - q]
    BY <1>5 DEF FillResting
  <2>2. Shrunk /\ Steady(strat, strat') BY <1>b, <1>f, <2>1
  <2> QED BY <1>a, <1>c, <2>1, <2>2, QuotesShrink
<1>6. CASE TradeDone
  <2>1. /\ stage = "trade" /\ UNCHANGED <<kind, view, to_submit>>
        /\ venue' = Kept /\ strat' = AfterCancels(strat)
    BY <1>6 DEF TradeDone
  <2>2. Shrunk /\ Steady(strat, strat') BY <1>b, <1>f, <2>1
  <2> QED BY <1>a, <1>c, <2>1, <2>2, QuotesShrink
<1>7. ASSUME NEW d, Decide(d) PROVE QuotesHeld' BY <1>7, QuotesDecides
<1>8. CASE RefuseOrder BY <1>8, <1>e, QuotesSends DEF RefuseOrder
<1>9. CASE RejectOrder
  <2>1. /\ stage = "submit" /\ to_submit # <<>> /\ UNCHANGED <<kind, view, stage>>
        /\ \E id, o, e : strat' = Told(Submitted(strat, id, o), e)
    BY <1>9 DEF RejectOrder
  <2>2. \E id, o : Steady(Submitted(strat, id, o), strat') BY <1>f, <2>1
  <2> QED BY <2>1, <2>2, QuotesSends
<1>10. ASSUME NEW q \in Sizes, SendOrder(q) PROVE QuotesHeld'
  <2>1. /\ stage = "submit" /\ to_submit # <<>> /\ UNCHANGED <<kind, view, stage>>
        /\ strat' = AfterSend(strat, next_id, Head(to_submit), q)
    BY <1>10 DEF SendOrder
  <2>2. \E id, o : Steady(Submitted(strat, id, o), strat') BY <1>f, <2>1
  <2> QED BY <2>1, <2>2, QuotesSends
<1>11. CASE ViewDone
  <2>1. /\ stage = "submit" /\ to_submit = <<>> /\ stage' = "idle"
        /\ UNCHANGED <<kind, strat, venue, view, to_submit>>
    BY <1>11 DEF ViewDone
  <2>2. Shrunk /\ Steady(strat, strat') BY <1>b, <1>e, <2>1
  <2> QED BY <1>c, <2>1, <2>2, QuotesShrink
<1>12. CASE UNCHANGED dvars
  <2>1. UNCHANGED <<kind, strat, venue, view, stage, to_submit>> BY <1>12 DEF dvars
  <2>2. Parts' = Parts /\ Working' = Working BY <2>1 DEF Parts, Working, Doomed
  <2>3. MidsHeld' BY <2>1 DEF QuotesHeld, MidsHeld
  <2>4. HaltHeld'
    BY <2>1, <2>2 DEF QuotesHeld, HaltHeld, Quiet, WarmupComplete, ShouldPause, L!Blind,
       L!CappedByTouch
  <2> QED BY <2>1, <2>2, <2>3, <2>4 DEF QuotesHeld
<1> QED
  BY <1>1, <1>2, <1>3, <1>4, <1>5, <1>6, <1>7, <1>8, <1>9, <1>10, <1>11, <1>12 DEF DNext

(* Every step keeps the generation. *)
LEMMA GenerationStep ==
  DeskBooks /\ NothingWaits /\ ParentHeld /\ QuotesHeld /\ GenerationHeld /\ [DNext]_dvars
    => GenerationHeld'
<1> SUFFICES ASSUME DeskBooks, NothingWaits, ParentHeld, QuotesHeld, GenerationHeld,
                    [DNext]_dvars
             PROVE  GenerationHeld'
  OBVIOUS
<1>a. stage # "submit" => to_submit = <<>> BY DEF NothingWaits
<1>b. /\ venue' = venue \/ venue' = Kept => Shrunk
      /\ \A id \in DOMAIN venue : \A q :
           venue' = (IF venue[id].remaining = q THEN Restrict(venue, DOMAIN venue \ {id})
                     ELSE [venue EXCEPT ![id].remaining = @ - q]) => Shrunk
  BY VenueShrinks DEF DeskBooks
<1>c. VenueFits BY DEF DeskBooks
<1>1. ASSUME NEW top, NEW dt, ViewEvent(top, dt) PROVE GenerationHeld'
  BY <1>1, <1>a, <1>b, GenerationShrinks DEF ViewEvent
<1>2. ASSUME NEW top, QuoteEvent(top) PROVE GenerationHeld'
  BY <1>2, <1>a, <1>b, GenerationShrinks DEF QuoteEvent
<1>3. ASSUME NEW trade, TradeEvent(trade) PROVE GenerationHeld'
  BY <1>3, <1>a, <1>b, GenerationShrinks DEF TradeEvent
<1>4. ASSUME NEW trade, NEW far, NEW stale, QuotedTrade(trade, far, stale)
      PROVE  GenerationHeld'
  BY <1>4, <1>a, <1>b, GenerationShrinks DEF QuotedTrade
<1>5. ASSUME NEW id \in DOMAIN venue, NEW q \in Sizes \ {0}, FillResting(id, q)
      PROVE  GenerationHeld'
  <2>1. /\ to_submit' = to_submit /\ stage # "submit"
        /\ venue' = IF venue[id].remaining = q THEN Restrict(venue, DOMAIN venue \ {id})
                    ELSE [venue EXCEPT ![id].remaining = @ - q]
    BY <1>5 DEF FillResting
  <2>2. Shrunk BY <1>b, <2>1
  <2> QED BY <1>a, <2>1, <2>2, GenerationShrinks
<1>6. CASE TradeDone BY <1>6, <1>a, <1>b, GenerationShrinks DEF TradeDone
<1>7. ASSUME NEW d, Decide(d) PROVE GenerationHeld' BY <1>7, GenerationDecides
<1>8. CASE RefuseOrder BY <1>8, <1>c, GenerationSends DEF RefuseOrder
<1>9. CASE RejectOrder BY <1>9, <1>c, GenerationSends DEF RejectOrder
<1>10. ASSUME NEW q \in Sizes, SendOrder(q) PROVE GenerationHeld'
  <2> DEFINE o == Head(to_submit)
             w == [side |-> o.side, price |-> o.price, remaining |-> o.quantity - q,
                   cancel |-> FALSE, born |-> left]
  <2>1. /\ to_submit # <<>> /\ left' = left
        /\ venue' = venue \/ venue' = Joined(venue, next_id, w)
    BY <1>10 DEF SendOrder
  <2>2. w.born = left /\ w.cancel = FALSE OBVIOUS
  <2> HIDE DEF w
  <2> QED BY <1>c, <2>1, <2>2, GenerationSends
<1>11. CASE ViewDone BY <1>11, <1>b, GenerationShrinks DEF ViewDone
<1>12. CASE UNCHANGED dvars
  <2>1. UNCHANGED <<venue, to_submit, left>> BY <1>12 DEF dvars
  <2> QED BY <2>1 DEF GenerationHeld, Working, Doomed
<1> QED
  BY <1>1, <1>2, <1>3, <1>4, <1>5, <1>6, <1>7, <1>8, <1>9, <1>10, <1>11, <1>12 DEF DNext

(* A fresh strategy has sent nothing and seen nothing. *)
LEMMA QuotesOpen == DInit => QuotesHeld /\ (FlattenBand = 0 => GenerationHeld)
<1> SUFFICES ASSUME DInit PROVE QuotesHeld /\ (FlattenBand = 0 => GenerationHeld) OBVIOUS
<1>1. PICK d \in Desks : kind = d.kind /\ strat = Fresh(d) BY DEF DInit
<1>2. /\ view = [ts |-> 0, bid |-> 0, ask |-> 0] /\ to_submit = <<>> /\ DOMAIN venue = {}
  BY DEF DInit
<1>3. Quiet /\ Working = {} BY <1>2 DEF Quiet, Working
<1>4. view.bid \in Nat /\ view.ask \in Nat BY <1>2
<1>5. CASE kind = "optimized"
  <2>1. strat = NewOptimized(d.cfg) BY <1>1, <1>5, KindsDiffer DEF Fresh
  <2>2. Parts \subseteq DOMAIN strat /\ strat.mids = <<>>
    BY <1>5, <2>1, PartsAre DEF NewOptimized
  <2>3. MidsHeld BY <1>2, <2>2 DEF MidsHeld
  <2> QED BY <1>3, <1>4, <1>5, <2>2, <2>3, KindsDiffer DEF QuotesHeld, HaltHeld, GenerationHeld, Quiet
<1>6. CASE kind = "active"
  <2>1. strat = NewActive(d.cfg) BY <1>1, <1>6, KindsDiffer DEF Fresh
  <2>2. Parts \subseteq DOMAIN strat /\ strat.trades = 0 /\ strat.views = 0
    BY <1>6, <2>1, PartsAre DEF NewActive
  <2>3. HaltHeld BY <1>2, <1>3, <1>6, <2>2, KindsDiffer DEF HaltHeld
  <2> QED BY <1>3, <1>4, <1>6, <2>2, <2>3 DEF QuotesHeld, MidsHeld, GenerationHeld, Quiet
<1>7. CASE kind \in L!L1Kinds
  <2>1. strat = L!NewL1(d.cfg) BY <1>1, <1>7, KindsDiffer DEF Fresh
  <2>2. Parts \subseteq DOMAIN strat BY <1>7, <2>1, PartsAre DEF L!NewL1
  <2>3. HaltHeld BY <1>3, <1>7, KindsDiffer DEF HaltHeld
  <2> QED BY <1>3, <1>4, <1>7, <2>2, <2>3, KindsDiffer DEF QuotesHeld, MidsHeld, GenerationHeld, Quiet
<1>8. CASE kind \notin {"optimized", "active"} \cup L!L1Kinds
  <2>1. Parts = {} BY <1>8, PartsAre
  <2> QED BY <1>3, <1>4, <1>8, <2>1 DEF QuotesHeld, MidsHeld, HaltHeld, GenerationHeld, Quiet
<1> QED BY <1>5, <1>6, <1>7, <1>8

(* A halted maker, or one its last book blinds, has pulled every quote between events. *)
THEOREM HaltAlwaysPulls == DSpec => []HaltPullsQuotes
<1>1. DInit => DeskBooks /\ NothingWaits /\ QuotesHeld
  BY DeskOpens, ParentOpens, QuotesOpen
<1>2. DeskBooks /\ NothingWaits /\ QuotesHeld /\ [DNext]_dvars
        => (DeskBooks /\ NothingWaits /\ QuotesHeld)'
  BY DeskStep, WaitsStep, QuotesStep
<1>3. QuotesHeld => HaltPullsQuotes
  BY DEF QuotesHeld, HaltHeld, Quiet, HaltPullsQuotes, Working, Doomed
<1> QED BY <1>1, <1>2, <1>3, PTL DEF DSpec

(* No quote outlives the view that replaced it, when no flatten order is configured:
   a flatten order joins the quotes that work. *)
THEOREM QuotesNeverStale == DSpec /\ FlattenBand = 0 => []NoStaleQuotes
<1> DEFINE Held == DeskBooks /\ NothingWaits /\ ParentHeld /\ QuotesHeld /\ GenerationHeld
<1>1. DInit /\ FlattenBand = 0 => Held
  BY DeskOpens, ParentOpens, QuotesOpen
<1>2. Held /\ [DNext]_dvars => Held'
  BY DeskStep, WaitsStep, ParentStep, QuotesStep, GenerationStep
<1>3. Held => NoStaleQuotes
  BY DEF QuotesHeld, HaltHeld, Quiet, HaltPullsQuotes, NoStaleQuotes, OneGeneration,
     GenerationHeld, Working, Doomed
<1> HIDE DEF Held
<1> QED BY <1>1, <1>2, <1>3, PTL DEF DSpec

-----------------------------------------------------------------------------
(* The limit of a strategy, and what an order may take of it. *)

(* The strategies a limit of their own binds. *)
Limited == {"trend", "inventory"} \cup L!L1Kinds

Sides == {"Buy", "Sell"}

(* With the whole of n filled, a position a stays within l on this side. *)
Reach(a, side, n, l) == IF side = "Buy" THEN a + n <= l ELSE -l <= a - n

Within(o, a, l) == o.side \in Sides /\ o.quantity \in Nat /\ Reach(a, o.side, o.quantity, l)

(* An order on a side, or none. *)
OneSide(x, side, a, l) == x = <<>> \/ \E o : x = <<o>> /\ o.side = side /\ Within(o, a, l)

(* At most an order a side. *)
Pair(orders, a, l) ==
  \/ orders = <<>>
  \/ \E o : orders = <<o>> /\ Within(o, a, l)
  \/ \E o, p : orders = <<o, p>> /\ Within(o, a, l) /\ Within(p, a, l) /\ o.side # p.side

(* What a fill takes on one side it gives on the other. *)
LEMMA ReachTaken ==
  ASSUME NEW a \in Int, NEW l \in Nat, -l <= a, a <= l, NEW side \in Sides, NEW n \in Nat,
         Reach(a, side, n, l), NEW q \in Nat, q <= n, NEW b, b = a + Signed(side, q)
  PROVE  /\ b \in Int /\ -l <= b /\ b <= l /\ Reach(b, side, n - q, l)
         /\ \A other \in Sides \ {side}, m \in Nat : Reach(a, other, m, l) => Reach(b, other, m, l)
BY DEF Reach, Signed, Sides

(* An order a side, or none, is a pair. *)
LEMMA PairOf ==
  ASSUME NEW a, NEW l, NEW c, NEW d, c # d, NEW x, NEW y, OneSide(x, c, a, l), OneSide(y, d, a, l)
  PROVE  Pair(x \o y, a, l)
<1>1. CASE x = <<>> /\ y = <<>> BY <1>1 DEF Pair
<1>2. CASE x = <<>> /\ \E o : y = <<o>> /\ Within(o, a, l) BY <1>2 DEF Pair
<1>3. CASE y = <<>> /\ \E o : x = <<o>> /\ Within(o, a, l) BY <1>3 DEF Pair
<1>4. ASSUME NEW o, NEW p, x = <<o>>, y = <<p>>, o.side = c, p.side = d, Within(o, a, l),
             Within(p, a, l)
      PROVE  Pair(x \o y, a, l)
  <2>1. <<o>> \in Seq({o, p}) /\ <<p>> \in Seq({o, p}) OBVIOUS
  <2> DEFINE z == <<o>> \o <<p>>
  <2>a. Len(<<o>>) = 1 /\ Len(<<p>>) = 1 /\ <<o>>[1] = o /\ <<p>>[1] = p OBVIOUS
  <2>b. z \in Seq({o, p}) /\ Len(z) = 2 /\ z[1] = o /\ z[2] = p
    BY <2>1, <2>a, ConcatProperties
  <2> HIDE DEF z
  <2>2. z = <<o, p>> BY <2>b
  <2>3. x \o y = <<o, p>> BY <1>4, <2>2 DEF z
  <2> QED BY <1>4, <2>3 DEF Pair
<1> QED BY <1>1, <1>2, <1>3, <1>4 DEF OneSide

(* The equation behind the sum of a field over one order at most. *)
LEMMA OneOnBook ==
  ASSUME VenueFits, NEW side,
         \A i, j \in DOMAIN venue : venue[i].side = side /\ venue[j].side = side => i = j
  PROVE  \/ OnBook(side) = 0
         \/ \E id \in DOMAIN venue : venue[id].side = side /\ OnBook(side) = venue[id].remaining
<1> DEFINE D == {id \in DOMAIN venue : venue[id].side = side}
           left_of(id) == venue[id].remaining
           E(g) == g = [u \in SUBSET D |->
                          IF u = {} THEN 0
                          ELSE venue[CHOOSE x \in u : TRUE].remaining
                                 + g[u \ {CHOOSE x \in u : TRUE}]]
           h == CHOOSE g : E(g)
<1>1. OnBook(side) = h[D] BY DEF OnBook, MapThenSumSet, MapThenFoldSet
<1>2. D = {} \/ \E id \in DOMAIN venue : D = {id} /\ venue[id].side = side OBVIOUS
<1>3. CASE D = {}
  <2>1. E([u \in SUBSET D |-> 0]) BY <1>3
  <2> HIDE DEF D
  <2>2. E(h) BY <2>1
  <2> HIDE DEF h
  <2>3. h[{}] = 0 BY <1>3, <2>2
  <2> QED BY <1>1, <1>3, <2>3
<1>4. ASSUME NEW id \in DOMAIN venue, D = {id}, venue[id].side = side
      PROVE  OnBook(side) = venue[id].remaining
  <2>1. venue[id].remaining \in Nat BY DEF VenueFits
  <2>2. PICK n \in Nat : n = venue[id].remaining BY <2>1
  <2> DEFINE g == [u \in SUBSET D |-> IF u = {} THEN 0 ELSE n]
  <2> HIDE DEF D
  <2>3. SUBSET D = {{}, {id}} BY <1>4
  <2>4. g[{}] = 0 /\ g[{id}] = n BY <2>3
  <2>a. g = [u \in SUBSET D |-> g[u]] OBVIOUS
  <2> HIDE DEF g
  <2>5. E(g)
    <3>1. ASSUME NEW u \in SUBSET D
          PROVE  g[u] = IF u = {} THEN 0
                        ELSE venue[CHOOSE x \in u : TRUE].remaining
                               + g[u \ {CHOOSE x \in u : TRUE}]
      <4>1. CASE u = {} BY <2>4, <4>1
      <4>2. CASE u = {id}
        <5>1. (CHOOSE x \in u : TRUE) = id BY <4>2
        <5>2. u \ {id} = {} /\ u # {} BY <4>2
        <5>3. venue[id].remaining + g[{}] = n BY <2>2, <2>4
        <5>4. venue[CHOOSE x \in u : TRUE].remaining + g[u \ {CHOOSE x \in u : TRUE}] = n
          BY <5>1, <5>2, <5>3, Zenon
        <5> QED BY <2>4, <4>2, <5>2, <5>4, Zenon
      <4> QED BY <2>3, <4>1, <4>2
    <3> QED BY <2>a, <3>1
  <2>6. E(h) BY <2>5
  <2> HIDE DEF h
  <2>7. h[{}] = 0 BY <2>3, <2>6
  <2>8. h[{id}] = venue[id].remaining + h[{}]
    <3>1. (CHOOSE x \in {id} : TRUE) = id /\ {id} \ {id} = {} /\ {id} # {} OBVIOUS
    <3> QED BY <2>3, <2>6, <3>1
  <2> QED BY <1>1, <1>4, <2>2, <2>7, <2>8
<1> QED BY <1>2, <1>3, <1>4

-----------------------------------------------------------------------------
(* The sizes of the legacy makers. *)

(* Configurations whose limit binds: no quote is larger than the limit, a flatten order
   is not configured, and the size the inventory-aware makers scale down by a line from
   one to eleven twentieths meets the limit at half of it. *)
FitsLimit(k, cfg) ==
  /\ k = "inventory" => FlattenBand = 0 /\ \A q \in QuoteSizes : q <= cfg.limit
  /\ k \in L!L1Kinds => cfg.size <= cfg.limit
  /\ k \in {"inventory_aware_l1", "flow_aware_l1"} => 11 * cfg.size < 10 * cfg.limit + 20

(* Products of numbers in order. *)
LEMMA Products ==
  ASSUME NEW a \in Int, NEW b \in Int, a <= b, NEW c \in Nat
  PROVE  a * c <= b * c
OBVIOUS

(* What a quotient stays within. *)
LEMMA QuotientWithin ==
  ASSUME NEW x \in Int, NEW d \in Nat \ {0}, NEW y \in Int, x < d * (y + 1)
  PROVE  x \div d <= y
<1>1. PICK q \in Int : q = x \div d BY Quotient
<1>2. d * q <= x BY <1>1
<1>3. q >= y + 1 => (y + 1) * d <= q * d
  <2>1. y + 1 \in Int /\ d \in Nat OBVIOUS
  <2> QED BY <2>1, Products
<1>4. d * (y + 1) = (y + 1) * d /\ d * q = q * d OBVIOUS
<1>5. (y + 1) * d \in Int /\ q * d \in Int OBVIOUS
<1> QED BY <1>1, <1>2, <1>3, <1>4, <1>5

(* The flow never makes a size larger, or makes it nothing. *)
LEMMA ReducedWithin ==
  ASSUME NEW n \in Int, NEW against \in Int
  PROVE  L!Reduced(n, against) <= n \/ L!Reduced(n, against) <= 0
<1>1. 20 \in Int OBVIOUS
<1>2. L!Min({20, against}) = IF 20 <= against THEN 20 ELSE against BY <1>1, LSmaller, Zenon
<1>3. PICK r \in Int : r = L!Min({20, against}) BY <1>2
<1>4. L!Reduced(n, against) = IF against < 8 THEN n ELSE (2 * n * (100 - r) + 100) \div 200
  BY <1>3 DEF L!Reduced
<1>5. CASE against < 8 BY <1>4, <1>5
<1>6. CASE ~(against < 8)
  <2>1. PICK w \in Nat : w = 100 - r /\ w <= 92 /\ 80 <= w BY <1>2, <1>3, <1>6
  <2>2. PICK x \in Int : x = 2 * n * w + 100 OBVIOUS
  <2>3. CASE n >= 0
    <3>1. w * n <= 92 * n BY <2>1, <2>3, Products
    <3>2. x < 200 * (n + 1) BY <2>2, <2>3, <3>1
    <3>3. x \div 200 <= n BY <3>2, QuotientWithin
    <3> QED BY <1>4, <1>6, <2>1, <2>2, <3>3
  <2>4. CASE n < 0
    <3>1. n * w <= -1 * w BY <2>1, <2>4, Products
    <3>2. x < 200 * (0 + 1) BY <2>1, <2>2, <3>1
    <3>3. 0 \in Int /\ 200 \in Nat \ {0} OBVIOUS
    <3>4. x \div 200 <= 0 BY <3>2, <3>3, QuotientWithin
    <3> QED BY <1>4, <1>6, <2>1, <2>2, <3>4
  <2> QED BY <2>3, <2>4
<1> QED BY <1>5, <1>6

(* The size of the inventory-aware makers, for m held on the side: a line from the size
   down to eleven twentieths of it at half the limit. *)
LEMMA LineWithin ==
  ASSUME NEW n \in Nat, NEW l \in Nat, n <= l, 11 * n < 10 * l + 20, NEW m \in Nat \ {0},
         2 * m <= l
  PROVE  (n * (10 * l - 9 * m)) \div (10 * l) <= l - m
<1>0. 10 * l - 9 * n \in Nat OBVIOUS
<1>1. PICK c \in Nat : c = 10 * l - 9 * n BY <1>0
<1>2. (2 * m) * c <= l * c
  <2>1. 2 * m \in Int /\ l \in Int OBVIOUS
  <2> QED BY <2>1, Products
<1>3. PICK e \in Nat \ {0} : e = 10 * l + 20 - 11 * n OBVIOUS
<1>4. l \in Nat \ {0} OBVIOUS
<1>5. 0 < l * e
  <2>1. 1 * e <= l * e BY <1>3, <1>4, Products
  <2> QED BY <1>3, <2>1
<1>6. PICK ln \in Int, mn \in Int, ll \in Int, lm \in Int :
        ln = l * n /\ mn = m * n /\ ll = l * l /\ lm = l * m
  OBVIOUS
<1>7. l * e = 10 * ll + 20 * l - 11 * ln BY <1>3, <1>6
<1>8. (2 * m) * c = 20 * lm - 18 * mn /\ l * c = 10 * ll - 9 * ln BY <1>1, <1>6
<1>9. n * (10 * l - 9 * m) = 10 * ln - 9 * mn BY <1>6
<1>10. (10 * l) * ((l - m) + 1) = 10 * ll - 10 * lm + 10 * l BY <1>6
<1>11. 10 * ln - 9 * mn < 10 * ll - 10 * lm + 10 * l
  <2>1. 20 * lm - 18 * mn <= 10 * ll - 9 * ln BY <1>2, <1>8
  <2>2. 0 < 10 * ll + 20 * l - 11 * ln BY <1>5, <1>7
  <2> QED BY <1>6, <2>1, <2>2
<1>12. n * (10 * l - 9 * m) < (10 * l) * ((l - m) + 1) BY <1>9, <1>10, <1>11
<1>13. n * (10 * l - 9 * m) \in Int /\ 10 * l \in Nat \ {0} /\ l - m \in Int BY <1>4
<1> QED BY <1>12, <1>13, QuotientWithin

(* The size of the inventory-aware makers. *)
LEMMA InventoryWithin ==
  ASSUME NEW s, NEW side, NEW n \in Nat, NEW l \in Nat, NEW m \in Int, s.cfg.size = n,
         s.cfg.limit = l, L!Same(s, side) = m, n <= l, 11 * n < 10 * l + 20, m <= l
  PROVE  m + L!InventoryQuantity(s, side) <= l
<1> DEFINE z == (n * (10 * l - 9 * m)) \div (10 * l)
<1>1. L!InventoryQuantity(s, side)
        = CASE 2 * m > l -> 0 [] 2 * m <= l /\ l > 0 /\ m > 0 -> z [] OTHER -> n
  BY DEF L!InventoryQuantity
<1>2. 2 * m <= l /\ l > 0 /\ m > 0 => z <= l - m BY LineWithin
<1>3. l > 0 => z \in Int
  <2>1. l > 0 => 10 * l \in Nat \ {0} OBVIOUS
  <2>2. PICK x \in Int : x = n * (10 * l - 9 * m) OBVIOUS
  <2> QED BY <2>1, <2>2, Quotient
<1> HIDE DEF z
<1>4. CASE 2 * m > l BY <1>1, <1>4
<1>5. CASE 2 * m <= l /\ l > 0 /\ m > 0
  <2>1. L!InventoryQuantity(s, side) = z BY <1>1, <1>5
  <2> QED BY <1>2, <1>3, <1>5, <2>1
<1>6. CASE 2 * m <= l /\ ~(l > 0 /\ m > 0)
  <2>1. L!InventoryQuantity(s, side) = n BY <1>1, <1>6
  <2> QED BY <1>6, <2>1
<1> QED BY <1>4, <1>5, <1>6

(* The size of the plain maker, whatever its stress scale. *)
LEMMA L1Within ==
  ASSUME NEW s, NEW side, NEW n \in Nat, NEW l \in Nat, NEW m \in Int, s.cfg.size = n,
         s.cfg.limit = l, L!Same(s, side) = m, n <= l, m <= l, NEW scale \in {1, 5, 10}
  PROVE  m + L!L1Quantity(s, side, scale) <= l
<1> DEFINE y == (n * scale) \div 10
           z == (n * (l - m) * scale) \div (10 * l)
           scaled == CASE m <= 0 -> y [] m > 0 /\ l > m -> z [] OTHER -> 0
           over(i) == 10 * i > 6 * L!Max({0, l})
           much == over(m)
           less == over(-m)
<1>1. L!L1Quantity(s, side, scale)
        = CASE much -> 0 [] less -> L!Max({1, scaled}) [] OTHER -> scaled
  BY DEF L!L1Quantity
<1>2. y \in Int /\ y <= n
  <2>1. n * scale \in Int /\ n * scale < 10 * (n + 1) OBVIOUS
  <2>2. PICK x \in Int : x = n * scale /\ x < 10 * (n + 1) BY <2>1
  <2>3. x \div 10 <= n /\ x \div 10 \in Int BY <2>2, QuotientWithin, Quotient
  <2> QED BY <2>2, <2>3
<1>3. m > 0 /\ l > m => z \in Int /\ z <= l - m
  <2> SUFFICES ASSUME m > 0, l > m PROVE z \in Int /\ z <= l - m OBVIOUS
  <2>1. PICK r \in Nat : r = l - m OBVIOUS
  <2>2. PICK w \in Nat : w = n * scale OBVIOUS
  <2>3. w <= 10 * l BY <2>2
  <2>4. PICK x \in Int : x = w * r OBVIOUS
  <2>5. n * (l - m) * scale = x BY <2>1, <2>2, <2>4
  <2>6. PICK d \in Nat \ {0} : d = 10 * l OBVIOUS
  <2>7. x <= d * r BY <2>3, <2>4, <2>6, Products
  <2>8. x < d * (r + 1) BY <2>6, <2>7
  <2>a. r \in Int OBVIOUS
  <2>b. x \div d <= r BY <2>8, <2>a, QuotientWithin
  <2>9. x \div d <= r /\ x \div d \in Int BY <2>b, Quotient
  <2> QED BY <2>1, <2>5, <2>6, <2>9
<1>4. scaled \in Int /\ m + scaled <= l
  <2> HIDE DEF y, z
  <2>1. CASE m <= 0 BY <1>2, <2>1
  <2>2. CASE m > 0 /\ l > m BY <1>3, <2>2
  <2>3. CASE m > 0 /\ ~(l > m) BY <2>3
  <2> QED BY <2>1, <2>2, <2>3
<1> HIDE DEF scaled
<1>5. less => m < 0
  <2>1. 0 \in Int /\ l \in Int OBVIOUS
  <2>2. L!Max({0, l}) = IF 0 >= l THEN 0 ELSE l BY <2>1, LLarger, Zenon
  <2>3. L!Max({0, l}) \in Nat BY <2>2
  <2> QED BY <2>3
<1>6. L!Max({1, scaled}) = IF 1 >= scaled THEN 1 ELSE scaled
  <2>1. 1 \in Int OBVIOUS
  <2> QED BY <1>4, <2>1, LLarger, Zenon
<1> HIDE DEF much, less
<1>7. CASE much
  <2>1. L!L1Quantity(s, side, scale) \in {0, L!Max({1, scaled})}
        /\ (~less => L!L1Quantity(s, side, scale) = 0)
    BY <1>1, <1>7
  <2> QED BY <1>4, <1>5, <1>6, <2>1
<1>8. CASE ~much /\ less
  <2>1. L!L1Quantity(s, side, scale) = L!Max({1, scaled}) BY <1>1, <1>8
  <2> QED BY <1>4, <1>5, <1>6, <1>8, <2>1
<1>9. CASE ~much /\ ~less
  <2>1. L!L1Quantity(s, side, scale) = scaled BY <1>1, <1>9
  <2> QED BY <1>4, <2>1
<1> QED BY <1>7, <1>8, <1>9

(* The sizes of the passive and the active maker. *)
LEMMA PassiveActiveWithin ==
  ASSUME NEW s, NEW side, NEW n \in Nat, NEW l \in Nat, NEW m \in Int, s.cfg.size = n,
         s.cfg.limit = l, L!Same(s, side) = m, n <= l, m <= l
  PROVE  m + L!PassiveQuantity(s, side) <= l /\ m + L!ActiveQuantity(s, side) <= l
<1>1. m + L!PassiveQuantity(s, side) <= l BY DEF L!PassiveQuantity
<1>2. L!Min({n, l - m}) = IF n <= l - m THEN n ELSE l - m
  <2>1. n \in Int /\ l - m \in Int OBVIOUS
  <2> QED BY <2>1, LSmaller, Zenon
<1>3. PICK z \in Int : z = L!Min({n, l - m}) /\ z <= l - m BY <1>2
<1>4. m + L!ActiveQuantity(s, side) <= l BY <1>3 DEF L!ActiveQuantity
<1> QED BY <1>1, <1>4

(* The inventory on one side or the other. *)
LEMMA SameOnSides ==
  ASSUME NEW s, NEW a \in Int, s.position = a, NEW side \in Sides, NEW l \in Nat, -l <= a, a <= l
  PROVE  /\ L!Same(s, side) \in Int /\ L!Same(s, side) <= l
         /\ \A q \in Int : L!Same(s, side) + q <= l => Reach(a, side, q, l)
BY DEF L!Same, Sides, Reach

(* A quote of a legacy maker stays within its limit, filled in full. *)
LEMMA LWithin ==
  ASSUME NEW k, NEW s, NEW a \in Int, NEW f, LBook(k, s, a, f), FitsLimit(k, s.cfg),
         -s.cfg.limit <= a, a <= s.cfg.limit,
         NEW side \in Sides, NEW bias \in Int, NEW scale \in {1, 5, 10}
  PROVE  Reach(a, side, L!QuoteQuantity(s, side, bias, scale), s.cfg.limit)
<1>1. s.cfg.size \in Nat /\ s.cfg.limit \in Nat /\ s.cfg.maker = k /\ k \in L!L1Kinds
  BY LConfigured DEF LBook, BBook
<1>2. PICK n \in Nat, l \in Nat : n = s.cfg.size /\ l = s.cfg.limit BY <1>1
<1>3. s.position = a BY DEF LBook, BBook
<1>4. PICK m \in Int : m = L!Same(s, side) /\ m <= l BY <1>2, <1>3, SameOnSides
<1>5. n <= l /\ (k \in {"inventory_aware_l1", "flow_aware_l1"} => 11 * n < 10 * l + 20)
  BY <1>1, <1>2 DEF FitsLimit
<1>6. PICK g \in Int : g = L!Against(side, bias) BY DEF L!Against
<1>7. PICK q \in Int : q = L!QuoteQuantity(s, side, bias, scale) BY LQuantity
<1>8. ASSUME NEW z \in Int, m + z <= l, q \in {z, L!Reduced(z, g)} PROVE m + q <= l
  BY <1>4, <1>6, <1>8, ReducedWithin
<1>9. scale \in Int OBVIOUS
<1>10. m + q <= l
  <2>1. CASE k \in {"passive_l1", "active_l1"}
    <3>1. L!PassiveQuantity(s, side) \in Int BY <1>1, <1>2, <1>4 DEF L!PassiveQuantity
    <3>2. L!ActiveQuantity(s, side) \in Int BY <1>1, <1>2, <1>4, LActiveQuantity
    <3>3. m + L!PassiveQuantity(s, side) <= l /\ m + L!ActiveQuantity(s, side) <= l
      BY <1>2, <1>4, <1>5, PassiveActiveWithin
    <3>4. q = L!PassiveQuantity(s, side) \/ q = L!Reduced(L!ActiveQuantity(s, side), g)
      BY <1>1, <1>6, <1>7, <2>1 DEF L!QuoteQuantity
    <3> QED BY <1>8, <3>1, <3>2, <3>3, <3>4
  <2>2. CASE k \in {"inventory_aware_l1", "flow_aware_l1"}
    <3>1. L!InventoryQuantity(s, side) \in Int BY <1>1, <1>2, <1>4, LInventoryQuantity
    <3>2. m + L!InventoryQuantity(s, side) <= l
      BY <1>2, <1>4, <1>5, <2>2, InventoryWithin
    <3>3. q = L!InventoryQuantity(s, side) \/ q = L!Reduced(L!InventoryQuantity(s, side), g)
      BY <1>1, <1>6, <1>7, <2>2 DEF L!QuoteQuantity
    <3> QED BY <1>8, <3>1, <3>2, <3>3
  <2>3. CASE k = "l1"
    <3>1. L!L1Quantity(s, side, scale) \in Int BY <1>1, <1>2, <1>4, <1>9, LL1Quantity
    <3>2. m + L!L1Quantity(s, side, scale) <= l
      BY <1>2, <1>4, <1>5, <2>3, L1Within
    <3>3. q = L!Reduced(L!L1Quantity(s, side, scale), g)
      BY <1>1, <1>6, <1>7, <2>3 DEF L!QuoteQuantity
    <3> QED BY <1>8, <3>1, <3>2, <3>3
  <2> QED BY <1>1, <2>1, <2>2, <2>3 DEF L!L1Kinds
<1> QED BY <1>2, <1>3, <1>4, <1>7, <1>10, SameOnSides

-----------------------------------------------------------------------------
(* What a decision sends stays within the limit. *)

(* An order that is for something. *)
LEMMA SentOnSide ==
  ASSUME NEW side \in Sides, NEW price, NEW q \in Int, NEW a \in Int, NEW l \in Nat,
         Reach(a, side, q, l)
  PROVE  OneSide(L!Sent([side |-> side, price |-> price, tif |-> "Gtc", quantity |-> q]),
                 side, a, l)
<1> DEFINE o == [side |-> side, price |-> price, tif |-> "Gtc", quantity |-> q]
<1>1. o.side = side /\ o.quantity = q OBVIOUS
<1> HIDE DEF o
<1>2. CASE q > 0
  <2>1. L!Sent(o) = <<o>> BY <1>1, <1>2 DEF L!Sent
  <2>2. Within(o, a, l) BY <1>1, <1>2 DEF Within
  <2> QED BY <1>1, <2>1, <2>2 DEF OneSide, o
<1>3. CASE ~(q > 0)
  <2>1. L!Sent(o) = <<>> BY <1>1, <1>3 DEF L!Sent
  <2> QED BY <2>1 DEF OneSide, o
<1> QED BY <1>2, <1>3

(* A legacy maker on a view. *)
LEMMA LViewWithin ==
  ASSUME NEW k, NEW s, NEW a \in Int, NEW f, LBook(k, s, a, f), FitsLimit(k, s.cfg),
         -s.cfg.limit <= a, a <= s.cfg.limit, NEW v, NEW d \in L!L1Decisions(s, v)
  PROVE  Pair(d.orders, a, s.cfg.limit)
<1>1. d.orders = <<>> \/ \E c \in L!Inputs(L!Observed(s)) : d = L!Quote(L!Observed(s), v, c)
  BY DEF L!L1Decisions
<1>2. CASE d.orders = <<>> BY <1>2 DEF Pair
<1>3. CASE \E c \in L!Inputs(L!Observed(s)) : d = L!Quote(L!Observed(s), v, c)
  <2> DEFINE u == L!Observed(s)
  <2>1. PICK c \in L!Inputs(u) : d = L!Quote(u, v, c) BY <1>3
  <2>2. LSame(s, u) BY DEF L!Observed, LSame, LFields, LBook
  <2> HIDE DEF u
  <2> DEFINE bias == L!FlowBias(u, c.book)
             quotes == L!Quotes(u, v, bias, c.behind)
             t == L!Recovering(u)
             bid == [side |-> "Buy", price |-> quotes.bid, tif |-> "Gtc",
                     quantity |-> L!QuoteQuantity(t, "Buy", bias, c.scale)]
             ask == [side |-> "Sell", price |-> quotes.ask, tif |-> "Gtc",
                     quantity |-> L!QuoteQuantity(t, "Sell", bias, c.scale)]
  <2>3. d.orders = <<>> \/ d.orders = L!Sent(bid) \o L!Sent(ask) BY <2>1 DEF L!Quote
  <2>4. LBook(k, u, a, f) BY <2>2, LSameBook
  <2>5. c.book \in Int /\ c.scale \in {1, 5, 10} BY DEF L!Inputs
  <2>6. bias \in Int BY <2>4, <2>5, LBias
  <2>7. LSame(u, t) BY <2>4 DEF L!Recovering, LSame, LFields, LBook
  <2> HIDE DEF bias, quotes, t
  <2>8. LBook(k, t, a, f) BY <2>4, <2>7, LSameBook
  <2>9. t.cfg = s.cfg BY <2>2, <2>7 DEF LSame, LFields
  <2>10. s.cfg.limit \in Nat BY LConfigured DEF LBook, BBook
  <2>11. ASSUME NEW side \in Sides
         PROVE  /\ L!QuoteQuantity(t, side, bias, c.scale) \in Int
                /\ Reach(a, side, L!QuoteQuantity(t, side, bias, c.scale), s.cfg.limit)
    <3>1. c.scale \in Int BY <2>5
    <3>2. L!QuoteQuantity(t, side, bias, c.scale) \in Int BY <2>6, <2>8, <3>1, LQuantity
    <3>3. Reach(a, side, L!QuoteQuantity(t, side, bias, c.scale), s.cfg.limit)
      BY <2>5, <2>6, <2>8, <2>9, LWithin
    <3> QED BY <3>2, <3>3
  <2>12. OneSide(L!Sent(bid), "Buy", a, s.cfg.limit)
    <3>1. "Buy" \in Sides BY DEF Sides
    <3> QED BY <2>10, <2>11, <3>1, SentOnSide
  <2>13. OneSide(L!Sent(ask), "Sell", a, s.cfg.limit)
    <3>1. "Sell" \in Sides BY DEF Sides
    <3> QED BY <2>10, <2>11, <3>1, SentOnSide
  <2> HIDE DEF bid, ask
  <2>14. Pair(L!Sent(bid) \o L!Sent(ask), a, s.cfg.limit) BY <2>12, <2>13, PairOf
  <2> QED BY <2>3, <2>14 DEF Pair
<1> QED BY <1>1, <1>2, <1>3

(* The clip of the trend strategy takes it no further than its target, itself within
   the limit. *)
LEMMA TViewWithin ==
  ASSUME NEW s, NEW a \in Int, NEW f, TBook(s, a, f),
         -s.cfg.max_position <= s.target, s.target <= s.cfg.max_position,
         -s.cfg.max_position <= a, a <= s.cfg.max_position, NEW v
  PROVE  LET d == T!OnL2MarketView(s, v) IN
         /\ DOMAIN d.strat = TFields /\ d.strat.cfg = s.cfg
         /\ -s.cfg.max_position <= d.strat.target /\ d.strat.target <= s.cfg.max_position
         /\ d.strat.target \in Int
         /\ Pair(d.orders, a, s.cfg.max_position)
<1> DEFINE d == T!OnL2MarketView(s, v)
<1>0. DOMAIN s = TFields /\ s.position = a /\ s.target \in Int BY DEF TBook
<1>d. DOMAIN s = TFields BY <1>0
<1>1. \/ TArmed(s, d.strat) /\ d.orders = <<>>
      \/ /\ \E c, j : TCounted(s, c) /\ TJudged(c, j) /\ TArmed(j, d.strat)
         /\ \/ d.orders = <<>>
            \/ /\ ~T!Waits(d.strat) /\ T!Clip(d.strat, v).quantity # 0
               /\ d.orders = <<T!Clip(d.strat, v)>>
  BY <1>d, TViewFields
<1> HIDE DEF d
<1>2. PICK l \in Nat : l = s.cfg.max_position BY TConfigured DEF TBook
<1>3. CASE TArmed(s, d.strat) /\ d.orders = <<>>
  <2>1. DOMAIN d.strat = TFields /\ d.strat.cfg = s.cfg /\ d.strat.target = s.target
    BY <1>3 DEF TArmed, TFields
  <2> QED BY <1>0, <1>3, <2>1 DEF Pair, d
<1>4. ASSUME NEW c, NEW j, TCounted(s, c), TJudged(c, j), TArmed(j, d.strat),
             d.orders = <<>> \/ d.orders = <<T!Clip(d.strat, v)>>
      PROVE  /\ DOMAIN d.strat = TFields /\ d.strat.cfg = s.cfg
             /\ -s.cfg.max_position <= d.strat.target /\ d.strat.target <= s.cfg.max_position
             /\ d.strat.target \in Int
             /\ Pair(d.orders, a, s.cfg.max_position)
  <2>1. c.cfg = s.cfg /\ c.position = s.position /\ c.target = s.target
    BY <1>4 DEF TCounted, TFields
  <2>2. /\ j.cfg = s.cfg /\ j.position = s.position
        /\ j.target \in {0, s.cfg.max_position, -s.cfg.max_position, s.target}
    BY <1>4, <2>1 DEF TJudged, TKept
  <2>3. /\ DOMAIN d.strat = TFields /\ d.strat.cfg = s.cfg /\ d.strat.position = a
        /\ d.strat.target = j.target
    BY <1>0, <1>4, <2>2 DEF TArmed, TFields
  <2>4. PICK x \in Int : x = d.strat.target /\ -l <= x /\ x <= l
    BY <1>0, <1>2, <2>2, <2>3
  <2>5. CASE d.orders = <<>> BY <1>2, <2>3, <2>4, <2>5 DEF Pair
  <2>6. CASE d.orders = <<T!Clip(d.strat, v)>>
    <3> DEFINE o == T!Clip(d.strat, v)
    <3>1. PICK n \in Nat : n = s.cfg.order_size BY TConfigured DEF TBook
    <3>2. /\ o.side = IF x > a THEN "Buy" ELSE "Sell"
          /\ o.quantity = T!Min({n, T!Magn(x - a)})
      BY <2>3, <2>4, <3>1 DEF T!Clip
    <3> HIDE DEF o
    <3>3. PICK m \in Nat : m = T!Magn(x - a) /\ m = IF x - a < 0 THEN -(x - a) ELSE x - a
      BY DEF T!Magn
    <3>4. T!Min({n, m}) = IF n <= m THEN n ELSE m
      <4>1. n \in Int /\ m \in Int OBVIOUS
      <4> QED BY <4>1, TMin, Zenon
    <3>5. o.quantity \in Nat /\ o.quantity <= m BY <3>2, <3>3, <3>4
    <3>6. Within(o, a, l)
      <4>1. CASE x > a BY <1>2, <2>4, <3>2, <3>3, <3>5, <4>1 DEF Within, Reach, Sides
      <4>2. CASE ~(x > a) BY <1>2, <2>4, <3>2, <3>3, <3>5, <4>2 DEF Within, Reach, Sides
      <4> QED BY <4>1, <4>2
    <3>7. Pair(d.orders, a, s.cfg.max_position) BY <1>2, <2>6, <3>6 DEF Pair, o
    <3> QED BY <1>2, <2>3, <2>4, <3>7
  <2> QED BY <1>4, <2>5, <2>6
<1> QED BY <1>1, <1>3, <1>4 DEF d

(* A quote of the base. *)
BaseQuote(o, side) ==
  {"side", "price", "quantity"} \subseteq DOMAIN o /\ o.side = side /\ o.quantity \in QuoteSizes

(* A quote sized by what is left of the limit. *)
LEMMA AdjustedWithin ==
  ASSUME NEW s, NEW a \in Int, NEW f, MBook("inventory", s, a, f),
         FitsLimit("inventory", s.cfg), -s.cfg.limit <= a, a <= s.cfg.limit,
         NEW side \in Sides, NEW o, BaseQuote(o, side)
  PROVE  OneSide(Scaled([o EXCEPT !.quantity = Adjusted(s, o)]), side, a, s.cfg.limit)
<1>1. PICK l \in Nat : l = s.cfg.limit BY MConfigured DEF MBook
<1>2. PICK n \in Nat \ {0} : n = o.quantity /\ n <= l
  BY <1>1, MakerAssumption DEF FitsLimit, BaseQuote
<1>3. s.base.position = a /\ l > 0 /\ o.side = side BY <1>2 DEF MBook, BaseBook, BaseQuote
<1> DEFINE e == [o EXCEPT !.quantity = Adjusted(s, o)]
           adds == (a > 0 /\ side = "Buy") \/ (a < 0 /\ side = "Sell")
<1>4. PICK m \in Nat : m = Size(a) /\ m <= l BY <1>1 DEF Size
<1>5. Min({m, l}) = m
  <2>1. m \in Int /\ l \in Int OBVIOUS
  <2>2. Min({m, l}) = IF m <= l THEN m ELSE l BY <2>1, Smaller, Zenon
  <2> QED BY <1>4, <2>2
<1>6. PICK z \in Int : z = (n * (l - m)) \div l /\ z <= l - m
  <2>1. PICK r \in Nat : r = l - m BY <1>4
  <2>2. PICK x \in Int : x = n * r OBVIOUS
  <2>3. x <= l * r BY <1>2, <2>2, Products
  <2>4. x < l * (r + 1) BY <1>3, <2>3
  <2>5. r \in Int /\ l \in Nat \ {0} BY <1>3
  <2>6. x \div l <= r BY <2>4, <2>5, QuotientWithin
  <2>7. x \div l \in Int BY <2>5, Quotient
  <2> QED BY <2>1, <2>2, <2>6, <2>7
<1>7. Adjusted(s, o) = IF adds THEN z ELSE n
  BY <1>1, <1>2, <1>3, <1>4, <1>5, <1>6 DEF Adjusted
<1>8. PICK q \in Int : q = Adjusted(s, o) /\ Reach(a, side, q, l)
  <2>1. CASE adds
    <3>1. Reach(a, side, z, l) BY <1>4, <1>6, <2>1 DEF Reach, Size
    <3> QED BY <1>7, <2>1, <3>1
  <2>2. CASE ~adds
    <3>1. Reach(a, side, n, l) BY <1>1, <1>2, <2>2 DEF Reach, Sides
    <3> QED BY <1>7, <2>2, <3>1
  <2> QED BY <2>1, <2>2
<1>9. e.side = side /\ e.quantity = q BY <1>3, <1>8 DEF BaseQuote
<1> HIDE DEF e
<1>10. CASE q > 0
  <2>1. Scaled(e) = <<e>> BY <1>9, <1>10 DEF Scaled
  <2>2. Within(e, a, l) BY <1>8, <1>9, <1>10 DEF Within
  <2> QED BY <1>1, <1>9, <2>1, <2>2 DEF OneSide, e
<1>11. CASE ~(q > 0)
  <2>1. Scaled(e) = <<>> BY <1>9, <1>11 DEF Scaled
  <2> QED BY <2>1 DEF OneSide, e
<1> QED BY <1>10, <1>11

(* The pair of the base, sized. *)
LEMMA AdjustWithin ==
  ASSUME NEW s, NEW a \in Int, NEW f, MBook("inventory", s, a, f),
         FitsLimit("inventory", s.cfg), -s.cfg.limit <= a, a <= s.cfg.limit,
         NEW x, x = <<>> \/ \E o : x = <<o>> /\ BaseQuote(o, "Buy"),
         NEW y, y = <<>> \/ \E o : y = <<o>> /\ BaseQuote(o, "Sell")
  PROVE  Pair(AdjustOrders(s, x \o y), a, s.cfg.limit)
<1> DEFINE l == s.cfg.limit
           A(o) == Scaled([o EXCEPT !.quantity = Adjusted(s, o)])
<1>0. "Buy" \in Sides /\ "Sell" \in Sides /\ "Buy" # "Sell" BY DEF Sides
<1>1. \A side \in Sides : \A o : BaseQuote(o, side) => OneSide(A(o), side, a, l)
  BY AdjustedWithin
<1>2. \A side : OneSide(<<>>, side, a, l) BY DEF OneSide
<1> HIDE DEF A, l
<1>3. CASE x \o y = <<>>
  <2>1. AdjustOrders(s, <<>>) = <<>> \o <<>> BY DEF AdjustOrders, AdjustedAt
  <2>2. Pair(<<>> \o <<>>, a, l) BY <1>0, <1>2, PairOf
  <2> QED BY <1>3, <2>1, <2>2 DEF l
<1>4. ASSUME NEW o, NEW side \in Sides, BaseQuote(o, side), x \o y = <<o>>
      PROVE  Pair(AdjustOrders(s, x \o y), a, l)
  <2>1. AdjustOrders(s, <<o>>) = A(o) \o <<>>
    <3>1. 1 \in DOMAIN <<o>> /\ 2 \notin DOMAIN <<o>> /\ <<o>>[1] = o OBVIOUS
    <3> QED BY <3>1 DEF AdjustOrders, AdjustedAt, A
  <2>2. PICK other \in Sides : other # side BY DEF Sides
  <2>3. OneSide(A(o), side, a, l) BY <1>1, <1>4
  <2>4. Pair(A(o) \o <<>>, a, l) BY <1>2, <2>2, <2>3, PairOf
  <2> QED BY <1>4, <2>1, <2>4
<1>5. ASSUME NEW o, NEW p, BaseQuote(o, "Buy"), BaseQuote(p, "Sell"), x \o y = <<o, p>>
      PROVE  Pair(AdjustOrders(s, x \o y), a, l)
  <2>1. AdjustOrders(s, <<o, p>>) = A(o) \o A(p)
    <3>1. /\ 1 \in DOMAIN <<o, p>> /\ 2 \in DOMAIN <<o, p>>
          /\ <<o, p>>[1] = o /\ <<o, p>>[2] = p
      OBVIOUS
    <3> QED BY <3>1 DEF AdjustOrders, AdjustedAt, A
  <2>2. OneSide(A(o), "Buy", a, l) /\ OneSide(A(p), "Sell", a, l) BY <1>0, <1>1, <1>5
  <2>3. Pair(A(o) \o A(p), a, l) BY <1>0, <2>2, PairOf
  <2> QED BY <1>5, <2>1, <2>3
<1>6. ASSUME NEW o, NEW p, x = <<o>>, y = <<p>> PROVE x \o y = <<o, p>>
  <2>1. <<o>> \in Seq({o, p}) /\ <<p>> \in Seq({o, p}) OBVIOUS
  <2> DEFINE z == <<o>> \o <<p>>
  <2>2. Len(<<o>>) = 1 /\ Len(<<p>>) = 1 /\ <<o>>[1] = o /\ <<p>>[1] = p OBVIOUS
  <2>3. z \in Seq({o, p}) /\ Len(z) = 2 /\ z[1] = o /\ z[2] = p
    BY <2>1, <2>2, ConcatProperties
  <2> HIDE DEF z
  <2>4. z = <<o, p>> BY <2>3
  <2> QED BY <1>6, <2>4 DEF z
<1>7. CASE x = <<>> /\ y = <<>> BY <1>3, <1>7
<1>8. CASE x = <<>> /\ y # <<>>
  <2>1. PICK o : y = <<o>> /\ BaseQuote(o, "Sell") BY <1>8
  <2>2. x \o y = <<o>> BY <1>8, <2>1
  <2> QED BY <1>0, <1>4, <2>1, <2>2 DEF l
<1>9. CASE x # <<>> /\ y = <<>>
  <2>1. PICK o : x = <<o>> /\ BaseQuote(o, "Buy") BY <1>9
  <2>2. x \o y = <<o>> BY <1>9, <2>1
  <2> QED BY <1>0, <1>4, <2>1, <2>2 DEF l
<1>10. CASE x # <<>> /\ y # <<>>
  <2>1. PICK o : x = <<o>> /\ BaseQuote(o, "Buy") BY <1>10
  <2>2. PICK p : y = <<p>> /\ BaseQuote(p, "Sell") BY <1>10
  <2>3. x \o y = <<o, p>> BY <1>6, <2>1, <2>2
  <2> QED BY <1>5, <2>1, <2>2, <2>3 DEF l
<1> QED BY <1>7, <1>8, <1>9, <1>10

(* A pair keeps its sides and sizes when it is given a lifetime. *)
LEMMA TifWithin ==
  ASSUME NEW orders, NEW a, NEW l, Pair(orders, a, l)
  PROVE  Pair(WithTif(orders), a, l)
<1> DEFINE M(o) == MakerOrder(o.side, o.price, o.quantity)
<1>1. ASSUME NEW o, Within(o, a, l) PROVE Within(M(o), a, l) /\ M(o).side = o.side
  BY <1>1 DEF Within, MakerOrder
<1>2. WithTif(<<>>) = <<>> BY DEF WithTif
<1>3. \A o : WithTif(<<o>>) = <<M(o)>> BY DEF WithTif
<1>4. \A o, p : WithTif(<<o, p>>) = <<M(o), M(p)>> BY DEF WithTif
<1> HIDE DEF M
<1>5. CASE orders = <<>> BY <1>2, <1>5 DEF Pair
<1>6. ASSUME NEW o, orders = <<o>>, Within(o, a, l) PROVE Pair(WithTif(orders), a, l)
  BY <1>1, <1>3, <1>6 DEF Pair
<1>7. ASSUME NEW o, NEW p, orders = <<o, p>>, Within(o, a, l), Within(p, a, l), o.side # p.side
      PROVE  Pair(WithTif(orders), a, l)
  <2>1. WithTif(orders) = <<M(o), M(p)>> BY <1>4, <1>7
  <2>2. Within(M(o), a, l) /\ Within(M(p), a, l) /\ M(o).side # M(p).side BY <1>1, <1>7
  <2> QED BY <2>1, <2>2 DEF Pair
<1> QED BY <1>5, <1>6, <1>7 DEF Pair

(* The inventory-aware maker on a view. *)
LEMMA MViewWithin ==
  ASSUME NEW s, NEW a \in Int, NEW f, MBook("inventory", s, a, f),
         FitsLimit("inventory", s.cfg), -s.cfg.limit <= a, a <= s.cfg.limit,
         NEW v, NEW d \in InventoryDecisions(s, v)
  PROVE  "cfg" \in DOMAIN d.strat /\ d.strat.cfg = s.cfg /\ Pair(d.orders, a, s.cfg.limit)
<1>1. PICK e \in Decisions(s.base, v) :
        d = [strat |-> [s EXCEPT !.base = e.strat], orders |-> WithTif(AdjustOrders(s, e.orders))]
  BY DEF InventoryDecisions
<1>2. "cfg" \in DOMAIN d.strat /\ d.strat.cfg = s.cfg BY <1>1 DEF MBook
<1>3. ~Flattens(s.base) BY DEF FitsLimit, Flattens
<1> DEFINE bids == SideQuotes(s.base, "Buy", {p \in QuotePrices : p <= v.bid})
           asks == SideQuotes(s.base, "Sell", {p \in QuotePrices : p >= v.ask})
<1>4. e.orders = <<>> \/ e.orders \in BidThenAsk(bids, asks)
  BY <1>3 DEF Decisions, FreshQuotes
<1>5. \A x \in bids : x = <<>> \/ \E o : x = <<o>> /\ BaseQuote(o, "Buy")
  BY DEF SideQuotes, BaseQuote
<1>6. \A x \in asks : x = <<>> \/ \E o : x = <<o>> /\ BaseQuote(o, "Sell")
  BY DEF SideQuotes, BaseQuote
<1> HIDE DEF bids, asks
<1>7. \E x, y : /\ x = <<>> \/ \E o : x = <<o>> /\ BaseQuote(o, "Buy")
                /\ y = <<>> \/ \E o : y = <<o>> /\ BaseQuote(o, "Sell")
                /\ e.orders = x \o y
  <2>1. CASE e.orders = <<>>
    <3>1. <<>> = <<>> \o <<>> OBVIOUS
    <3> QED BY <2>1, <3>1
  <2>2. CASE e.orders \in BidThenAsk(bids, asks)
    <3>1. PICK x \in bids, y \in asks : e.orders = x \o y BY <2>2 DEF BidThenAsk
    <3> QED BY <1>5, <1>6, <3>1
  <2> QED BY <1>4, <2>1, <2>2
<1>8. PICK x, y : /\ x = <<>> \/ \E o : x = <<o>> /\ BaseQuote(o, "Buy")
                  /\ y = <<>> \/ \E o : y = <<o>> /\ BaseQuote(o, "Sell")
                  /\ e.orders = x \o y
  BY <1>7
<1>9. Pair(AdjustOrders(s, x \o y), a, s.cfg.limit) BY <1>8, AdjustWithin
<1>10. Pair(WithTif(AdjustOrders(s, e.orders)), a, s.cfg.limit) BY <1>8, <1>9, TifWithin
<1> QED BY <1>1, <1>2, <1>10

-----------------------------------------------------------------------------
(* The configuration, and the target of a trend. *)

(* The configuration stands, and a target is kept or given up. *)
Fixed(s, t) ==
  /\ "cfg" \in DOMAIN t /\ t.cfg = s.cfg
  /\ kind = "trend" => DOMAIN t = TFields /\ t.target \in {s.target, 0}

(* A strategy a limit binds. *)
Bound(s) == "cfg" \in DOMAIN s /\ (kind = "trend" => DOMAIN s = TFields)

(* Two such steps are one, and end as they began. *)
LEMMA FixedTwice ==
  ASSUME NEW s, NEW t, NEW u, Fixed(s, t), Fixed(t, u)
  PROVE  Fixed(s, u) /\ Bound(t)
BY DEF Fixed, Bound

(* Reports, sending, refusals and the cancels handed over leave them. *)
LEMMA FixedCalls ==
  ASSUME kind \in Limited, NEW s, Bound(s)
  PROVE  /\ Fixed(s, s) /\ Fixed(s, Refused(s)) /\ Fixed(s, Handed(s))
         /\ \A r : Fixed(s, Told(s, r))
         /\ \A id, o : Fixed(s, Submitted(s, id, o))
<1>1. CASE kind = "trend"
  <2>1. \A t : TCalm(s, t) => Fixed(s, t)
    <3>1. "cfg" \in TFields BY DEF TFields
    <3> QED BY <3>1 DEF TCalm, Fixed
  <2>2. DOMAIN s = TFields BY <1>1 DEF Bound
  <2> QED BY <1>1, <2>1, <2>2, TCalmCalls
<1>2. CASE kind = "inventory"
  <2>1. \A b : Fixed(s, [s EXCEPT !.base = b]) BY <1>2 DEF Fixed, Bound
  <2>2. Fixed(s, s) BY <1>2 DEF Fixed, Bound
  <2>3. Refused(s) = s BY <1>2, KindsDiffer DEF Refused
  <2>4. \E b : Handed(s) = [s EXCEPT !.base = b] BY <1>2, KindsDiffer DEF Handed
  <2>5. \A r : Told(s, r) = [s EXCEPT !.base = OnOrderUpdate(s.base, r)]
    BY <1>2, KindsDiffer DEF Told
  <2>6. \A id, o : Submitted(s, id, o) = [s EXCEPT !.base = OnOrderSubmitted(s.base, id, o.quantity)]
    BY <1>2, KindsDiffer DEF Submitted
  <2> QED BY <2>1, <2>2, <2>3, <2>4, <2>5, <2>6
<1>3. CASE kind \in L!L1Kinds
  <2>1. kind # "trend" /\ "cfg" \in DOMAIN s BY <1>3, KindsDiffer DEF Bound
  <2>2. Fixed(s, s) BY <2>1 DEF Fixed
  <2>3. Refused(s) = s /\ Handed(s) = [s EXCEPT !.cancel_pending = FALSE]
    BY <1>3, KindsDiffer DEF Refused, Handed
  <2>4. Fixed(s, [s EXCEPT !.cancel_pending = FALSE]) BY <2>1 DEF Fixed
  <2>5. \A r : Told(s, r) = L!OnOrderUpdate(s, r) BY <1>3, KindsDiffer DEF Told
  <2>6. \A r : Fixed(s, L!OnOrderUpdate(s, r))
    BY <2>1 DEF Fixed, L!OnOrderUpdate, L!Recovery
  <2>7. \A id, o : Submitted(s, id, o) = L!OnOrderSubmitted(s, id, o)
    BY <1>3, KindsDiffer DEF Submitted
  <2>8. \A id, o : Fixed(s, L!OnOrderSubmitted(s, id, o))
    BY <2>1 DEF Fixed, L!OnOrderSubmitted
  <2> QED BY <2>2, <2>3, <2>4, <2>5, <2>6, <2>7, <2>8
<1> QED BY <1>1, <1>2, <1>3 DEF Limited

(* So do a public trade, a fill, an order sent, and the cancels that are due. *)
LEMMA FixedEvents ==
  ASSUME kind \in Limited, NEW s, Bound(s), IsFiniteSet(Doomed)
  PROVE  /\ \A id, o, q, rest : Fixed(s, AfterFill(s, id, o, q, rest))
         /\ \A id, o, q : Fixed(s, AfterSend(s, id, o, q))
         /\ \A id, o, e : Fixed(s, Told(Submitted(s, id, o), e))
         /\ Fixed(s, AfterCancels(s))
         /\ \A trade : Fixed(s, AfterTrade(s, trade))
         /\ \A trade, stale : kind \in L!L1Kinds => Fixed(s, L!OnQuotedTrade(s, trade, stale))
<1>1. ASSUME NEW z, Fixed(s, z), NEW r PROVE Fixed(s, Told(z, r))
  <2>1. Bound(z) BY <1>1 DEF Fixed, Bound
  <2>2. Fixed(z, Told(z, r)) BY <2>1, FixedCalls
  <2> QED BY <1>1, <2>2, FixedTwice
<1>2. ASSUME NEW z, Fixed(s, z), NEW id, NEW o, NEW q, NEW rest
      PROVE  Fixed(s, AfterFill(z, id, o, q, rest))
  BY <1>1, <1>2 DEF AfterFill
<1>3. Fixed(s, s) /\ \A id, o : Fixed(s, Submitted(s, id, o)) BY FixedCalls
<1>4. ASSUME NEW id, NEW o, NEW q PROVE Fixed(s, AfterSend(s, id, o, q))
  BY <1>1, <1>2, <1>3 DEF AfterSend
<1>5. Fixed(s, AfterCancels(s))
  <2>1. PICK n \in Nat : \E path : CancelSteps(path, n, s) BY CancelsInSteps
  <2>2. PICK path : CancelSteps(path, n, s) BY <2>1
  <2> DEFINE N == {k \in Nat : k <= n => Fixed(s, path[k])}
  <2>3. 0 \in N BY <1>3, <2>2 DEF CancelSteps
  <2>4. ASSUME NEW k \in Nat, k \in N PROVE k + 1 \in N
    <3> SUFFICES ASSUME k + 1 <= n PROVE Fixed(s, path[k + 1]) OBVIOUS
    <3>1. k + 1 \in 1 .. n /\ (k + 1) - 1 = k /\ k <= n BY <2>4
    <3>2. Fixed(s, path[k]) BY <2>4, <3>1
    <3>3. PICK id \in Doomed : path[k + 1] = CancelTold(path[k], id)
      BY <2>2, <3>1 DEF CancelSteps
    <3> QED BY <1>1, <3>2, <3>3 DEF CancelTold
  <2> HIDE DEF N
  <2>5. N \subseteq Nat BY DEF N
  <2>6. n \in N BY <2>3, <2>4, <2>5, NatSetInduction
  <2>7. n <= n BY <2>1
  <2>8. Fixed(s, path[n]) BY <2>6, <2>7 DEF N
  <2> QED BY <2>2, <2>8 DEF CancelSteps
<1>6. ASSUME kind \in L!L1Kinds, NEW trade PROVE Fixed(s, L!OnMarketTrade(s, trade))
  <2>1. kind # "trend" /\ "cfg" \in DOMAIN s BY <1>6, KindsDiffer DEF Bound
  <2> QED BY <1>3, <2>1 DEF Fixed, L!OnMarketTrade
<1>7. ASSUME NEW trade PROVE Fixed(s, AfterTrade(s, trade))
  <2>1. CASE kind \in L!L1Kinds BY <1>6, <2>1, KindsDiffer DEF AfterTrade
  <2>2. CASE kind \notin L!L1Kinds
    <3>1. AfterTrade(s, trade) = s BY <2>2 DEF Limited, AfterTrade
    <3> QED BY <1>3, <3>1
  <2> QED BY <2>1, <2>2
<1>8. ASSUME kind \in L!L1Kinds, NEW trade, NEW stale
      PROVE  Fixed(s, L!OnQuotedTrade(s, trade, stale))
  BY <1>3, <1>6, <1>8 DEF L!OnQuotedTrade
<1> QED BY <1>1, <1>2, <1>3, <1>4, <1>5, <1>7, <1>8

-----------------------------------------------------------------------------
(* The limit at the desk. *)

CapOf(s) == IF kind = "trend" THEN s.cfg.max_position ELSE s.cfg.limit

(* The orders at the venue: one a side, each within l when it is filled in full. *)
VenueWithin(a, l) ==
  /\ \A id \in DOMAIN venue :
       venue[id].side \in Sides /\ Reach(a, venue[id].side, venue[id].remaining, l)
  /\ \A i, j \in DOMAIN venue : venue[i].side = venue[j].side => i = j

(* What is to be sent goes on other sides than what is there. *)
Apart == \A k \in DOMAIN to_submit, id \in DOMAIN venue : to_submit[k].side # venue[id].side

LimitHeld ==
  kind \in Limited =>
    /\ FitsLimit(kind, strat.cfg)
    /\ -CapOf(strat) <= account /\ account <= CapOf(strat)
    /\ kind = "trend" => -CapOf(strat) <= strat.target /\ strat.target <= CapOf(strat)
    /\ VenueWithin(account, CapOf(strat))
    /\ Pair(to_submit, account, CapOf(strat)) /\ Apart

(* The limit of a desk is a natural number. *)
LEMMA LimitDesk ==
  ASSUME DeskBooks, kind \in Limited
  PROVE  /\ CapOf(strat) \in Nat /\ Bound(strat) /\ IsFiniteSet(Doomed) /\ account \in Int
         /\ kind = "trend" => strat.target \in Int
<1>1. IsFiniteSet(Doomed) /\ account \in Int BY RemainsBook DEF DeskBooks
<1>2. Fits(kind, strat, account, Remains) BY DEF DeskBooks
<1>3. CASE kind = "trend"
  <2>1. TBook(strat, account, Remains) BY <1>2, <1>3 DEF Fits
  <2>2. DOMAIN strat = TFields /\ strat.target \in Int /\ strat.cfg.max_position \in Nat
    BY <2>1, TConfigured DEF TBook
  <2> QED BY <1>1, <1>3, <2>2 DEF CapOf, Bound, TFields
<1>4. CASE kind = "inventory"
  <2>1. MBook("inventory", strat, account, Remains) BY <1>2, <1>4 DEF Fits
  <2>2. "cfg" \in DOMAIN strat /\ strat.cfg.limit \in Nat BY <2>1, MConfigured DEF MBook
  <2> QED BY <1>1, <1>4, <2>2 DEF CapOf, Bound
<1>5. CASE kind \in L!L1Kinds
  <2>1. LBook(kind, strat, account, Remains) BY <1>2, <1>5 DEF Fits
  <2>2. "cfg" \in DOMAIN strat /\ strat.cfg.limit \in Nat
    BY <2>1, LConfigured DEF LBook, BBook
  <2> QED BY <1>1, <1>5, <2>2, KindsDiffer DEF CapOf, Bound
<1> QED BY <1>3, <1>4, <1>5 DEF Limited

(* A fixed strategy has the same limit, and a target no further. *)
LEMMA SameLimit ==
  ASSUME DeskBooks, LimitHeld, kind \in Limited, kind' = kind, Fixed(strat, strat')
  PROVE  /\ CapOf(strat)' = CapOf(strat) /\ FitsLimit(kind, strat.cfg)'
         /\ kind = "trend" => /\ -CapOf(strat) <= strat'.target
                              /\ strat'.target <= CapOf(strat)
<1>1. CapOf(strat)' = CapOf(strat) BY DEF CapOf, Fixed
<1>2. FitsLimit(kind, strat.cfg)' BY DEF LimitHeld, FitsLimit, Fixed
<1>3. PICK l \in Nat : l = CapOf(strat) BY LimitDesk
<1>4. kind = "trend" => strat'.target \in {strat.target, 0} BY DEF Fixed
<1>5. kind = "trend" => strat.target \in Int /\ -l <= strat.target /\ strat.target <= l
  BY <1>3, LimitDesk DEF LimitHeld
<1>6. kind = "trend" => -l <= strat'.target /\ strat'.target <= l BY <1>4, <1>5
<1> QED BY <1>1, <1>2, <1>3, <1>6

(* Steps that fill and send nothing. *)
LEMMA LimitCalm ==
  ASSUME DeskBooks, LimitHeld, kind \in Limited => Fixed(strat, strat'),
         UNCHANGED <<kind, account>>, venue' = venue \/ venue' = Kept,
         to_submit' = to_submit
  PROVE  LimitHeld'
<1> SUFFICES ASSUME kind \in Limited PROVE LimitHeld' BY DEF LimitHeld
<1>1. /\ CapOf(strat)' = CapOf(strat) /\ FitsLimit(kind, strat.cfg)'
      /\ kind = "trend" => /\ -CapOf(strat) <= strat'.target
                           /\ strat'.target <= CapOf(strat)
  BY SameLimit
<1>2. PICK l : l = CapOf(strat) OBVIOUS
<1>3. VenueWithin(account, l) /\ Apart /\ Pair(to_submit, account, l)
      /\ -l <= account /\ account <= l
  BY <1>2 DEF LimitHeld
<1>4. DOMAIN venue' \subseteq DOMAIN venue /\ \A id \in DOMAIN venue' : venue'[id] = venue[id]
  BY DEF Kept, Restrict
<1>5. VenueWithin(account, l)' /\ Apart' BY <1>3, <1>4 DEF VenueWithin, Apart
<1> QED BY <1>1, <1>2, <1>3, <1>5 DEF LimitHeld

(* A resting order fills. *)
LEMMA LimitFills ==
  ASSUME DeskBooks, LimitHeld, NothingWaits, NEW id \in DOMAIN venue, NEW q \in Sizes \ {0},
         FillResting(id, q)
  PROVE  LimitHeld'
<1> DEFINE o == venue[id]
<1>1. /\ q <= o.remaining /\ strat' = AfterFill(strat, id, o, q, o.remaining - q)
      /\ account' = account + Signed(o.side, q)
      /\ venue' = IF o.remaining = q THEN Restrict(venue, DOMAIN venue \ {id})
                  ELSE [venue EXCEPT ![id].remaining = @ - q]
      /\ UNCHANGED <<kind, to_submit>> /\ stage # "submit"
  BY DEF FillResting
<1> SUFFICES ASSUME kind \in Limited PROVE LimitHeld' BY <1>1 DEF LimitHeld
<1>2. to_submit' = <<>> BY <1>1 DEF NothingWaits
<1>3. Bound(strat) /\ IsFiniteSet(Doomed) /\ account \in Int BY LimitDesk
<1>4. Fixed(strat, strat') BY <1>1, <1>3, FixedEvents
<1>5. /\ CapOf(strat)' = CapOf(strat) /\ FitsLimit(kind, strat.cfg)'
      /\ kind = "trend" => /\ -CapOf(strat) <= strat'.target
                           /\ strat'.target <= CapOf(strat)
  BY <1>1, <1>4, SameLimit
<1>6. PICK l \in Nat : l = CapOf(strat) BY LimitDesk
<1>7. VenueWithin(account, l) /\ -l <= account /\ account <= l BY <1>6 DEF LimitHeld
<1>8. PICK n \in Nat : n = o.remaining BY DEF DeskBooks, VenueFits
<1>9. o.side \in Sides /\ Reach(account, o.side, n, l) BY <1>7, <1>8 DEF VenueWithin
<1>10. q \in Nat /\ q <= n BY <1>1, <1>8 DEF Sizes
<1>11. /\ account' \in Int /\ -l <= account' /\ account' <= l
       /\ Reach(account', o.side, n - q, l)
       /\ \A other \in Sides \ {o.side}, m \in Nat :
            Reach(account, other, m, l) => Reach(account', other, m, l)
  BY <1>1, <1>3, <1>7, <1>9, <1>10, ReachTaken
<1>12. /\ DOMAIN venue' \subseteq DOMAIN venue
       /\ \A i \in DOMAIN venue' \ {id} : venue'[i] = venue[i]
       /\ id \in DOMAIN venue' => venue'[id].side = o.side /\ venue'[id].remaining = n - q
  <2>1. CASE o.remaining = q
    <3>1. venue' = Restrict(venue, DOMAIN venue \ {id}) BY <1>1, <2>1
    <3> QED BY <3>1 DEF Restrict
  <2>2. CASE o.remaining # q
    <3> DEFINE e == [o EXCEPT !.remaining = n - q]
    <3>1. venue' = [venue EXCEPT ![id] = e] BY <1>1, <1>8, <2>2
    <3>2. e.side = o.side /\ e.remaining = n - q BY DEF DeskBooks, VenueFits
    <3> HIDE DEF e
    <3> QED BY <3>1, <3>2
  <2> QED BY <2>1, <2>2
<1>13. VenueWithin(account, l)'
  <2>1. \A i \in DOMAIN venue' \ {id} :
          venue'[i].side \in Sides /\ Reach(account', venue'[i].side, venue'[i].remaining, l)
    <3> SUFFICES ASSUME NEW i \in DOMAIN venue' \ {id}
                 PROVE  venue[i].side \in Sides /\ Reach(account', venue[i].side, venue[i].remaining, l)
      BY <1>12
    <3>1. i \in DOMAIN venue /\ venue[i].remaining \in Nat BY <1>12 DEF DeskBooks, VenueFits
    <3>2. venue[i].side \in Sides \ {o.side} /\ Reach(account, venue[i].side, venue[i].remaining, l)
      BY <1>7, <3>1 DEF VenueWithin
    <3> QED BY <1>11, <3>1, <3>2
  <2>2. \A i \in DOMAIN venue' : venue'[i].side = venue[i].side BY <1>12
  <2>3. \A i, j \in DOMAIN venue' : venue'[i].side = venue'[j].side => i = j
    BY <1>7, <1>12, <2>2 DEF VenueWithin
  <2> QED BY <1>9, <1>11, <1>12, <2>1, <2>3 DEF VenueWithin
<1>14. Pair(to_submit', account', l) /\ Apart' BY <1>2 DEF Pair, Apart
<1> QED BY <1>1, <1>5, <1>6, <1>11, <1>13, <1>14 DEF LimitHeld

(* What a strategy decides stays within its limit. *)
LEMMA DecidesWithin ==
  ASSUME DeskBooks, QuotesHeld, LimitHeld, kind \in Limited, NEW d, d \in DecisionsOf(strat, view)
  PROVE  /\ Bound(d.strat) /\ d.strat.cfg = strat.cfg
         /\ Pair(d.orders, account, CapOf(strat))
         /\ kind = "trend" => /\ -CapOf(strat) <= d.strat.target
                              /\ d.strat.target <= CapOf(strat)
<1>1. Fits(kind, strat, account, Remains) /\ account \in Int BY DEF DeskBooks
<1>2. /\ FitsLimit(kind, strat.cfg) /\ -CapOf(strat) <= account /\ account <= CapOf(strat)
      /\ kind = "trend" => -CapOf(strat) <= strat.target /\ strat.target <= CapOf(strat)
  BY DEF LimitHeld
<1>3. CASE kind = "trend"
  <2>1. d = T!OnL2MarketView(strat, view) BY <1>3, KindsDiffer DEF DecisionsOf
  <2>2. TBook(strat, account, Remains) BY <1>1, <1>3 DEF Fits
  <2>3. CapOf(strat) = strat.cfg.max_position BY <1>3 DEF CapOf
  <2>4. /\ DOMAIN d.strat = TFields /\ d.strat.cfg = strat.cfg
        /\ -strat.cfg.max_position <= d.strat.target
        /\ d.strat.target <= strat.cfg.max_position
        /\ Pair(d.orders, account, strat.cfg.max_position)
    BY <1>1, <1>2, <1>3, <2>1, <2>2, <2>3, TViewWithin
  <2> QED BY <2>3, <2>4 DEF Bound, TFields
<1>4. CASE kind = "inventory"
  <2>1. d \in InventoryDecisions(strat, view) BY <1>4, KindsDiffer DEF DecisionsOf
  <2>2. MBook("inventory", strat, account, Remains) BY <1>1, <1>4 DEF Fits
  <2>3. CapOf(strat) = strat.cfg.limit BY <1>4 DEF CapOf
  <2>4. /\ "cfg" \in DOMAIN d.strat /\ d.strat.cfg = strat.cfg
        /\ Pair(d.orders, account, strat.cfg.limit)
    BY <1>1, <1>2, <1>4, <2>1, <2>2, <2>3, MViewWithin
  <2> QED BY <1>4, <2>3, <2>4 DEF Bound
<1>5. CASE kind \in L!L1Kinds
  <2>1. d \in L!L1Decisions(strat, view) BY <1>5, KindsDiffer DEF DecisionsOf
  <2>2. LBook(kind, strat, account, Remains) BY <1>1, <1>5 DEF Fits
  <2>3. CapOf(strat) = strat.cfg.limit /\ kind # "trend" BY <1>5, KindsDiffer DEF CapOf
  <2>4. Pair(d.orders, account, strat.cfg.limit)
    BY <1>1, <1>2, <2>1, <2>2, <2>3, LViewWithin
  <2>5. {"cfg", "cancel_pending", "open"} \subseteq DOMAIN strat
    <3>1. Parts = {"cfg", "cancel_pending"} BY <1>5, PartsAre
    <3> QED BY <2>2, <3>1 DEF QuotesHeld, LBook, BBook
  <2>6. {"cfg", "cancel_pending"} \subseteq DOMAIN d.strat /\ d.strat.cfg = strat.cfg
    BY <2>1, <2>5, BlindPulls
  <2> QED BY <2>3, <2>4, <2>6 DEF Bound
<1> QED BY <1>3, <1>4, <1>5 DEF Limited

(* A view's decision. *)
LEMMA LimitDecides ==
  ASSUME DeskBooks, QuotesHeld, LimitHeld, NEW d, Decide(d)
  PROVE  LimitHeld'
<1>1. /\ d \in DecisionsOf(strat, view) /\ strat' = Handed(d.strat) /\ to_submit' = d.orders
      /\ UNCHANGED <<kind, account>>
      /\ venue' = [id \in DOMAIN venue |->
                     [venue[id] EXCEPT !.cancel = @ \/ id \in Cancels(d.strat)]]
  BY DEF Decide
<1> SUFFICES ASSUME kind \in Limited PROVE LimitHeld' BY <1>1 DEF LimitHeld
<1>2. PICK l : l = CapOf(strat) OBVIOUS
<1>3. /\ Bound(d.strat) /\ d.strat.cfg = strat.cfg /\ Pair(d.orders, account, l)
      /\ kind = "trend" => -l <= d.strat.target /\ d.strat.target <= l
  BY <1>1, <1>2, DecidesWithin
<1>4. Fixed(d.strat, strat') BY <1>1, <1>3, FixedCalls
<1>5. strat'.cfg = strat.cfg BY <1>3, <1>4 DEF Fixed
<1>6. CapOf(strat)' = l BY <1>1, <1>2, <1>5 DEF CapOf
<1>7. /\ FitsLimit(kind, strat.cfg) /\ VenueWithin(account, l)
      /\ -l <= account /\ account <= l
  BY <1>2 DEF LimitHeld
<1>8. FitsLimit(kind, strat.cfg)' BY <1>1, <1>5, <1>7 DEF FitsLimit
<1>9. kind = "trend" => -l <= strat'.target /\ strat'.target <= l
  <2> SUFFICES ASSUME kind = "trend" PROVE -l <= strat'.target /\ strat'.target <= l
    OBVIOUS
  <2>1. strat' = T!CancelsTaken(d.strat) BY <1>1, KindsDiffer DEF Handed
  <2>2. DOMAIN d.strat = TFields BY <1>3 DEF Bound
  <2>3. strat'.target = d.strat.target BY <2>1, <2>2 DEF T!CancelsTaken, TFields
  <2> QED BY <1>3, <2>3
<1>10. /\ DOMAIN venue' = DOMAIN venue
       /\ \A id \in DOMAIN venue :
            venue'[id].side = venue[id].side /\ venue'[id].remaining = venue[id].remaining
  <2> DEFINE c(id) == venue[id].cancel \/ id \in Cancels(d.strat)
  <2>1. /\ DOMAIN venue' = DOMAIN venue
        /\ \A id \in DOMAIN venue : venue'[id] = [venue[id] EXCEPT !.cancel = c(id)]
    BY <1>1
  <2>2. \A id \in DOMAIN venue : {"side", "remaining"} \subseteq DOMAIN venue[id]
    BY DEF DeskBooks, VenueFits
  <2> HIDE DEF c
  <2> QED BY <2>1, <2>2
<1>11. VenueWithin(account, l)' BY <1>1, <1>7, <1>10 DEF VenueWithin
<1>12. Apart'
  <2>1. CASE d.orders = <<>> BY <1>1, <2>1 DEF Apart
  <2>2. CASE d.orders # <<>>
    <3>1. kind \in Kinds \ {"execution", "optimized"}
      BY KindsDiffer DEF Limited, Kinds
    <3>2. kind \in {"active", "inventory"} => FlattenBand = 0
      BY <1>7, KindsDiffer DEF FitsLimit, Limited
    <3>3. kind = "trend" => DOMAIN strat = TFields BY TDesk
    <3>4. DOMAIN OpenOf(strat) = {} BY <1>1, <2>2, <3>1, <3>2, <3>3, SendsOnEmpty
    <3>5. DOMAIN venue = {} BY <3>1, <3>4, OpenAtVenue DEF Believable
    <3> QED BY <1>10, <3>5 DEF Apart
  <2> QED BY <2>1, <2>2
<1>13. Pair(to_submit, account, l)' BY <1>1, <1>3
<1> QED BY <1>1, <1>6, <1>7, <1>8, <1>9, <1>11, <1>12, <1>13 DEF LimitHeld

(* What is left of a pair when its first order is taken. *)
LEMMA PairRest ==
  ASSUME NEW orders, NEW a, NEW l, Pair(orders, a, l), orders # <<>>
  PROVE  /\ Within(Head(orders), a, l) /\ 1 \in DOMAIN orders /\ orders[1] = Head(orders)
         /\ \/ Tail(orders) = <<>>
            \/ \E p : /\ Tail(orders) = <<p>> /\ Within(p, a, l) /\ p.side # Head(orders).side
                      /\ 2 \in DOMAIN orders /\ orders[2] = p
<1>1. ASSUME NEW o, orders = <<o>>, Within(o, a, l)
      PROVE  /\ Head(orders) = o /\ 1 \in DOMAIN orders /\ orders[1] = o /\ Tail(orders) = <<>>
  BY <1>1
<1>2. ASSUME NEW o, NEW p, orders = <<o, p>>
      PROVE  /\ Head(orders) = o /\ 1 \in DOMAIN orders /\ orders[1] = o
             /\ Tail(orders) = <<p>> /\ 2 \in DOMAIN orders /\ orders[2] = p
  BY <1>2
<1>3. CASE \E o : orders = <<o>> /\ Within(o, a, l) BY <1>1, <1>3
<1>4. CASE \E o, p : orders = <<o, p>> /\ Within(o, a, l) /\ Within(p, a, l) /\ o.side # p.side
  BY <1>2, <1>4
<1> QED BY <1>3, <1>4 DEF Pair

(* An order is refused, by a control or by the venue. *)
LEMMA LimitDrops ==
  ASSUME DeskBooks, LimitHeld, kind \in Limited => Fixed(strat, strat'),
         to_submit # <<>>, to_submit' = Tail(to_submit), UNCHANGED <<kind, account, venue>>
  PROVE  LimitHeld'
<1> SUFFICES ASSUME kind \in Limited PROVE LimitHeld' BY DEF LimitHeld
<1>1. /\ CapOf(strat)' = CapOf(strat) /\ FitsLimit(kind, strat.cfg)'
      /\ kind = "trend" => /\ -CapOf(strat) <= strat'.target
                           /\ strat'.target <= CapOf(strat)
  BY SameLimit
<1>2. PICK l : l = CapOf(strat) OBVIOUS
<1>3. VenueWithin(account, l) /\ Apart /\ Pair(to_submit, account, l)
      /\ -l <= account /\ account <= l
  BY <1>2 DEF LimitHeld
<1>4. \/ to_submit' = <<>>
      \/ \E p : /\ to_submit' = <<p>> /\ Within(p, account, l)
                /\ 2 \in DOMAIN to_submit /\ to_submit[2] = p
  BY <1>3, PairRest
<1>5. Pair(to_submit', account, l) BY <1>4 DEF Pair
<1>6. Apart'
  <2>1. CASE to_submit' = <<>> BY <2>1 DEF Apart
  <2>2. CASE to_submit' # <<>>
    <3>1. PICK p : /\ to_submit' = <<p>> /\ 2 \in DOMAIN to_submit /\ to_submit[2] = p
      BY <1>4, <2>2
    <3>2. \A k \in DOMAIN to_submit' : to_submit'[k] = p
      <4>1. \A k \in DOMAIN <<p>> : <<p>>[k] = p OBVIOUS
      <4> QED BY <3>1, <4>1
    <3> QED BY <1>3, <3>1, <3>2 DEF Apart
  <2> QED BY <2>1, <2>2
<1>7. VenueWithin(account, l)' BY <1>3 DEF VenueWithin
<1> QED BY <1>1, <1>2, <1>3, <1>5, <1>6, <1>7 DEF LimitHeld

(* An order is sent, and fills as far as q at once. *)
LEMMA LimitSends ==
  ASSUME DeskBooks, LimitHeld, NEW q \in Sizes, SendOrder(q)
  PROVE  LimitHeld'
<1> DEFINE w == [side |-> Head(to_submit).side, price |-> Head(to_submit).price,
                 remaining |-> Head(to_submit).quantity - q, cancel |-> FALSE, born |-> left]
<1>0. PICK o : o = Head(to_submit) OBVIOUS
<1>1. /\ q <= (IF AtFarTouch(o) THEN o.quantity ELSE 0)
      /\ strat' = AfterSend(strat, next_id, o, q) /\ account' = account + Signed(o.side, q)
      /\ venue' = venue \/ venue' = Joined(venue, next_id, w)
      /\ to_submit # <<>> /\ to_submit' = Tail(to_submit) /\ kind' = kind
  BY <1>0 DEF SendOrder
<1> SUFFICES ASSUME kind \in Limited PROVE LimitHeld' BY <1>1 DEF LimitHeld
<1>2. Bound(strat) /\ IsFiniteSet(Doomed) /\ account \in Int BY LimitDesk
<1>3. Fixed(strat, strat') BY <1>1, <1>2, FixedEvents
<1>4. /\ CapOf(strat)' = CapOf(strat) /\ FitsLimit(kind, strat.cfg)'
      /\ kind = "trend" => /\ -CapOf(strat) <= strat'.target
                           /\ strat'.target <= CapOf(strat)
  BY <1>1, <1>3, SameLimit
<1>5. PICK l \in Nat : l = CapOf(strat) BY LimitDesk
<1>6. VenueWithin(account, l) /\ Apart /\ Pair(to_submit, account, l)
      /\ -l <= account /\ account <= l
  BY <1>5 DEF LimitHeld
<1>7. /\ Within(o, account, l) /\ 1 \in DOMAIN to_submit /\ to_submit[1] = o
      /\ \/ to_submit' = <<>>
         \/ \E p : /\ to_submit' = <<p>> /\ Within(p, account, l) /\ p.side # o.side
                   /\ 2 \in DOMAIN to_submit /\ to_submit[2] = p
  BY <1>0, <1>1, <1>6, PairRest
<1>8. PICK n \in Nat : n = o.quantity /\ o.side \in Sides /\ Reach(account, o.side, n, l)
  BY <1>7 DEF Within
<1>9. q \in Nat /\ q <= n BY <1>1, <1>8 DEF Sizes
<1>10. /\ account' \in Int /\ -l <= account' /\ account' <= l
       /\ Reach(account', o.side, n - q, l)
       /\ \A other \in Sides \ {o.side}, m \in Nat :
            Reach(account, other, m, l) => Reach(account', other, m, l)
  <2>1. PICK a \in Int : a = account BY <1>2
  <2>2. PICK b : b = account' OBVIOUS
  <2>3. PICK side \in Sides : side = o.side /\ Reach(a, side, n, l) BY <1>8, <2>1
  <2>4. b = a + Signed(side, q) /\ -l <= a /\ a <= l BY <1>1, <1>6, <2>1, <2>2, <2>3
  <2>5. /\ b \in Int /\ -l <= b /\ b <= l /\ Reach(b, side, n - q, l)
        /\ \A other \in Sides \ {side}, m \in Nat :
             Reach(a, other, m, l) => Reach(b, other, m, l)
    BY ONLY <1>9, <2>3, <2>4, l \in Nat, n \in Nat, a \in Int, side \in Sides, ReachTaken
  <2> QED BY <2>1, <2>2, <2>3, <2>5
<1>11. w.side = o.side /\ w.remaining = n - q BY <1>0, <1>8
<1> HIDE DEF w
<1>12. \A id \in DOMAIN venue : venue[id].side # o.side BY <1>6, <1>7 DEF Apart
<1>13. /\ DOMAIN venue \subseteq DOMAIN venue' /\ DOMAIN venue' \subseteq {next_id} \cup DOMAIN venue
       /\ \A id \in DOMAIN venue : venue'[id] = venue[id]
       /\ \A id \in DOMAIN venue' \ DOMAIN venue : venue'[id] = w
  <2>1. next_id \notin DOMAIN venue BY DEF DeskBooks, VenueFits
  <2>2. DOMAIN Joined(venue, next_id, w) = {next_id} \cup DOMAIN venue
        /\ Joined(venue, next_id, w)[next_id] = w
        /\ \A id \in DOMAIN venue : Joined(venue, next_id, w)[id] = venue[id]
    BY <2>1 DEF Joined
  <2> QED BY <1>1, <2>1, <2>2
<1>14. VenueWithin(account, l)'
  <2>1. ASSUME NEW id \in DOMAIN venue
        PROVE  venue[id].side \in Sides /\ Reach(account', venue[id].side, venue[id].remaining, l)
    <3>1. venue[id].remaining \in Nat BY DEF DeskBooks, VenueFits
    <3>2. venue[id].side \in Sides \ {o.side} /\ Reach(account, venue[id].side, venue[id].remaining, l)
      BY <1>6, <1>12 DEF VenueWithin
    <3> QED BY <1>10, <3>1, <3>2
  <2>2. \A id \in DOMAIN venue' :
          venue'[id].side \in Sides /\ Reach(account', venue'[id].side, venue'[id].remaining, l)
    BY <1>8, <1>10, <1>11, <1>13, <2>1
  <2>3. \A i, j \in DOMAIN venue' : venue'[i].side = venue'[j].side => i = j
    <3>1. ASSUME NEW i \in DOMAIN venue, NEW j \in DOMAIN venue' \ DOMAIN venue
          PROVE  venue'[i].side # venue'[j].side
      BY <1>11, <1>12, <1>13
    <3>2. \A i, j \in DOMAIN venue : venue'[i].side = venue'[j].side => i = j
      BY <1>6, <1>13 DEF VenueWithin
    <3>3. \A i, j \in DOMAIN venue' \ DOMAIN venue : i = j BY <1>13
    <3> QED BY <3>1, <3>2, <3>3
  <2> QED BY <2>2, <2>3 DEF VenueWithin
<1>15. CASE to_submit' = <<>>
  <2>1. Pair(to_submit', account', l) /\ Apart' BY <1>15 DEF Pair, Apart
  <2> QED BY <1>1, <1>4, <1>5, <1>10, <1>14, <2>1 DEF LimitHeld
<1>16. CASE to_submit' # <<>>
  <2>1. PICK p : /\ to_submit' = <<p>> /\ Within(p, account, l) /\ p.side # o.side
                 /\ 2 \in DOMAIN to_submit /\ to_submit[2] = p
    BY <1>7, <1>16
  <2>2. Within(p, account', l) BY <1>10, <2>1 DEF Within
  <2>3. Pair(to_submit', account', l) BY <2>1, <2>2 DEF Pair
  <2>4. \A id \in DOMAIN venue' : p.side # venue'[id].side
    BY <1>6, <1>11, <1>13, <2>1 DEF Apart
  <2>5. \A k \in DOMAIN to_submit' : to_submit'[k] = p
    <3>1. \A k \in DOMAIN <<p>> : <<p>>[k] = p OBVIOUS
    <3> QED BY <2>1, <3>1
  <2>6. Apart' BY <2>4, <2>5 DEF Apart
  <2> QED BY <1>1, <1>4, <1>5, <1>10, <1>14, <2>3, <2>6 DEF LimitHeld
<1> QED BY <1>15, <1>16

(* Every step keeps the limit. *)
LEMMA LimitStep ==
  DeskBooks /\ NothingWaits /\ QuotesHeld /\ LimitHeld /\ [DNext]_dvars => LimitHeld'
<1> SUFFICES ASSUME DeskBooks, NothingWaits, QuotesHeld, LimitHeld, [DNext]_dvars
             PROVE  LimitHeld'
  OBVIOUS
<1>0. kind \in Limited =>
        /\ Fixed(strat, strat) /\ Fixed(strat, Refused(strat))
        /\ Fixed(strat, AfterCancels(strat))
        /\ \A trade : Fixed(strat, AfterTrade(strat, trade))
        /\ \A trade, stale : kind \in L!L1Kinds => Fixed(strat, L!OnQuotedTrade(strat, trade, stale))
        /\ \A id, o, e : Fixed(strat, Told(Submitted(strat, id, o), e))
  BY LimitDesk, FixedCalls, FixedEvents
<1>1. ASSUME NEW top, NEW dt, ViewEvent(top, dt) PROVE LimitHeld'
  BY <1>0, <1>1, LimitCalm DEF ViewEvent
<1>2. ASSUME NEW top, QuoteEvent(top) PROVE LimitHeld'
  BY <1>0, <1>2, LimitCalm DEF QuoteEvent
<1>3. ASSUME NEW trade, TradeEvent(trade) PROVE LimitHeld'
  BY <1>0, <1>3, LimitCalm DEF TradeEvent
<1>4. ASSUME NEW trade, NEW far, NEW stale, QuotedTrade(trade, far, stale)
      PROVE  LimitHeld'
  <2>1. kind \in L!L1Kinds BY <1>4 DEF QuotedTrade, OnQuotes
  <2>2. strat' = strat \/ strat' = L!OnQuotedTrade(strat, trade, stale)
    BY <1>4 DEF QuotedTrade
  <2>3. UNCHANGED <<kind, venue, account, to_submit>> BY <1>4 DEF QuotedTrade
  <2>4. kind \in Limited => Fixed(strat, strat') BY <1>0, <2>1, <2>2
  <2> QED BY <2>3, <2>4, LimitCalm
<1>5. ASSUME NEW id \in DOMAIN venue, NEW q \in Sizes \ {0}, FillResting(id, q)
      PROVE  LimitHeld'
  BY <1>5, LimitFills
<1>6. CASE TradeDone BY <1>0, <1>6, LimitCalm DEF TradeDone
<1>7. ASSUME NEW d, Decide(d) PROVE LimitHeld' BY <1>7, LimitDecides
<1>8. CASE RefuseOrder BY <1>0, <1>8, LimitDrops DEF RefuseOrder
<1>9. CASE RejectOrder
  <2>1. \E id, o, e : strat' = Told(Submitted(strat, id, o), e) BY <1>9 DEF RejectOrder
  <2>2. kind \in Limited => Fixed(strat, strat') BY <1>0, <2>1
  <2> QED BY <1>9, <2>2, LimitDrops DEF RejectOrder
<1>10. ASSUME NEW q \in Sizes, SendOrder(q) PROVE LimitHeld' BY <1>10, LimitSends
<1>11. CASE ViewDone BY <1>0, <1>11, LimitCalm DEF ViewDone
<1>12. CASE UNCHANGED dvars BY <1>0, <1>12, LimitCalm DEF dvars
<1> QED
  BY <1>1, <1>2, <1>3, <1>4, <1>5, <1>6, <1>7, <1>8, <1>9, <1>10, <1>11, <1>12 DEF DNext

(* Every configured limit binds. *)
LimitsFit == \A d \in Desks : FitsLimit(d.kind, d.cfg)

(* A fresh strategy has nothing open, and aims at nothing. *)
LEMMA LimitOpens == DInit /\ LimitsFit => LimitHeld
<1> SUFFICES ASSUME DInit, LimitsFit, kind \in Limited PROVE LimitHeld BY DEF LimitHeld
<1>1. PICK d \in Desks : kind = d.kind /\ strat = Fresh(d) BY DEF DInit
<1>2. venue = <<>> /\ account = 0 /\ to_submit = <<>> BY DEF DInit
<1>3. strat.cfg = d.cfg /\ (kind = "trend" => strat.target = 0)
  <2>1. CASE kind = "trend"
    <3>1. strat = T!NewTrend(d.cfg) BY <1>1, <2>1, KindsDiffer DEF Fresh
    <3> QED BY <3>1 DEF T!NewTrend
  <2>2. CASE kind = "inventory"
    <3>1. strat = NewInventory(d.cfg) BY <1>1, <2>2, KindsDiffer DEF Fresh
    <3> QED BY <2>2, <3>1 DEF NewInventory
  <2>3. CASE kind \in L!L1Kinds
    <3>1. strat = L!NewL1(d.cfg) BY <1>1, <2>3, KindsDiffer DEF Fresh
    <3> QED BY <2>3, <3>1, KindsDiffer DEF L!NewL1
  <2> QED BY <2>1, <2>2, <2>3 DEF Limited
<1>4. FitsLimit(kind, strat.cfg) BY <1>1, <1>3 DEF LimitsFit
<1>5. CapOf(strat) \in Nat BY DeskOpens, LimitDesk
<1>6. PICK l \in Nat : l = CapOf(strat) BY <1>5
<1>7. VenueWithin(0, l) /\ Apart /\ Pair(to_submit, 0, l)
  BY <1>2 DEF VenueWithin, Apart, Pair
<1> QED BY <1>2, <1>3, <1>4, <1>6, <1>7 DEF LimitHeld

(* What a limit means at the venue. *)
LEMMA LimitShows == DeskBooks /\ LimitHeld => WithinOwnLimit
<1> SUFFICES ASSUME DeskBooks, LimitHeld PROVE WithinOwnLimit OBVIOUS
<1> SUFFICES ASSUME kind \in Limited PROVE WithinOwnLimit
  BY DEF Limited, WithinOwnLimit
<1>1. PICK l \in Nat : l = CapOf(strat) BY LimitDesk
<1>2. PICK a \in Int : a = account BY LimitDesk
<1>3. VenueWithin(a, l) /\ -l <= a /\ a <= l BY <1>1, <1>2 DEF LimitHeld
<1>4. VenueFits BY DEF DeskBooks
<1>5. ASSUME NEW side \in Sides
      PROVE  OnBook(side) \in Int /\ Reach(a, side, OnBook(side), l)
  <2>1. \/ OnBook(side) = 0
        \/ \E id \in DOMAIN venue : venue[id].side = side /\ OnBook(side) = venue[id].remaining
    BY <1>3, <1>4, OneOnBook DEF VenueWithin
  <2>2. CASE OnBook(side) = 0 BY <1>3, <2>2 DEF Reach
  <2>3. ASSUME NEW id \in DOMAIN venue, venue[id].side = side,
               OnBook(side) = venue[id].remaining
        PROVE  OnBook(side) \in Int /\ Reach(a, side, OnBook(side), l)
    BY <1>3, <1>4, <2>3 DEF VenueWithin, VenueFits
  <2> QED BY <2>1, <2>2, <2>3
<1>6. PICK b \in Int : b = OnBook("Buy") /\ a + b <= l BY <1>5 DEF Reach, Sides
<1>7. PICK c \in Int : c = OnBook("Sell") /\ a - c >= -l BY <1>5 DEF Reach, Sides
<1>8. Size(a) <= l BY <1>3 DEF Size
<1>9. CASE kind = "trend"
  <2>1. l = strat.cfg.max_position BY <1>1, <1>9 DEF CapOf
  <2> QED BY <1>2, <1>6, <1>7, <1>9, <2>1, KindsDiffer DEF WithinOwnLimit
<1>10. CASE kind # "trend"
  <2>1. l = strat.cfg.limit BY <1>1, <1>10 DEF CapOf
  <2> QED BY <1>2, <1>6, <1>7, <1>8, <1>10, <2>1 DEF WithinOwnLimit
<1> QED BY <1>9, <1>10

(* What fills, cancels in flight included, never takes a trend, an inventory-aware or a
   legacy maker's position beyond the limit it was configured with. *)
THEOREM LimitAlwaysHolds == DSpec /\ LimitsFit => []WithinOwnLimit
<1> DEFINE Held == DeskBooks /\ NothingWaits /\ QuotesHeld /\ LimitHeld
<1>1. DInit /\ LimitsFit => Held BY DeskOpens, ParentOpens, QuotesOpen, LimitOpens
<1>2. Held /\ [DNext]_dvars => Held' BY DeskStep, WaitsStep, QuotesStep, LimitStep
<1>3. Held => WithinOwnLimit BY LimitShows
<1> HIDE DEF Held
<1> QED BY <1>1, <1>2, <1>3, PTL DEF DSpec
=============================================================================
