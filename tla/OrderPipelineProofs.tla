------------------------ MODULE OrderPipelineProofs ------------------------
(***************************************************************************)
(* Proofs about OrderPipeline whose orders are sent without latency, for   *)
(* every engine, every setting of the controls and of the base maker, and  *)
(* every sequence of views and public trades.                              *)
(*                                                                         *)
(* PipelineInv is inductive.  Its core (CoreInv) is that the books tell of *)
(* what is open (Told): each report of a step moves the venue and the      *)
(* books by the same amounts, so the books are followed from report to     *)
(* report, through states no step ends in.  What else a step does to the   *)
(* books is to narrow the account (Narrower): the position, whichever      *)
(* side fills, can get no further than it could before.  The position      *)
(* gate is then about the one step that widens it, an order sent.          *)
(***************************************************************************)
EXTENDS OrderPipeline, MatchingEngineProofs

ByReport == INSTANCE FoldTheorems WITH Op <- HandleReport

(* The books p after the reports rs. *)
After(p, rs) == FoldLeft(HandleReport, p, rs)

(* The books after the reports of a step, of which there are at most three. *)
LEMMA FoldFollows ==
  ASSUME NEW p, NEW S, NEW s \in Seq(S)
  PROVE  \E path : /\ ByReport!FoldPath(path, p, s)
                   /\ After(p, s) = path[Len(s)]
<1>1. \A rs : FoldLeft(HandleReport, p, rs) = ByReport!FoldLeft(HandleReport, p, rs)
  BY Zenon DEF FoldLeft, MapThenFoldSet, Max,
     ByReport!FoldLeft, ByReport!MapThenFoldSet, ByReport!Max
<1> QED BY <1>1, ByReport!FoldFollowsPath DEF After

(* No report. *)
LEMMA FoldNone ==
  ASSUME NEW p
  PROVE  After(p, <<>>) = p
<1>1. \A rs : FoldLeft(HandleReport, p, rs) = ByReport!FoldLeft(HandleReport, p, rs)
  BY Zenon DEF FoldLeft, MapThenFoldSet, Max,
     ByReport!FoldLeft, ByReport!MapThenFoldSet, ByReport!Max
<1> QED BY <1>1, ByReport!FoldEmpty DEF After

(* One report. *)
LEMMA FoldOne ==
  ASSUME NEW p, NEW a
  PROVE  After(p, <<a>>)
           = HandleReport(p, a)
<1> DEFINE s == <<a>>
<1>1. s \in Seq({a}) /\ Len(s) = 1 /\ s[1] = a
  OBVIOUS
<1> HIDE DEF s
<1>2. PICK path : ByReport!FoldPath(path, p, s) /\ After(p, s) = path[Len(s)]
  BY <1>1, FoldFollows
<1>3. path[0] = p /\ path[1] = HandleReport(path[0], s[1])
  <2>1. path[0] = p /\ \A k \in 1 .. 1 : path[k] = HandleReport(path[k - 1], s[k])
    BY <1>1, <1>2 DEF ByReport!FoldPath
  <2> QED BY <2>1
<1>4. After(p, s) = HandleReport(p, a)
  BY <1>1, <1>2, <1>3, Zenon
<1> QED BY <1>4 DEF s

(* Two reports. *)
LEMMA FoldTwo ==
  ASSUME NEW p, NEW a, NEW b, NEW x, x = HandleReport(p, a)
  PROVE  After(p, <<a, b>>) = HandleReport(x, b)
<1> DEFINE s == <<a, b>>
<1>1. s \in Seq({a, b}) /\ Len(s) = 2 /\ s[1] = a /\ s[2] = b
  OBVIOUS
<1> HIDE DEF s
<1>2. PICK path : ByReport!FoldPath(path, p, s) /\ After(p, s) = path[Len(s)]
  BY <1>1, FoldFollows
<1>3. /\ path[0] = p
      /\ path[1] = HandleReport(path[0], s[1]) /\ path[2] = HandleReport(path[1], s[2])
  <2>1. path[0] = p /\ \A k \in 1 .. 2 : path[k] = HandleReport(path[k - 1], s[k])
    BY <1>1, <1>2 DEF ByReport!FoldPath
  <2> QED BY <2>1
<1>4. After(p, s) = HandleReport(x, b)
  BY <1>1, <1>2, <1>3, Zenon
<1> QED BY <1>4 DEF s

(* Three reports. *)
LEMMA FoldThree ==
  ASSUME NEW p, NEW a, NEW b, NEW c, NEW x, NEW y,
         x = HandleReport(p, a), y = HandleReport(x, b)
  PROVE  After(p, <<a, b, c>>) = HandleReport(y, c)
<1> DEFINE s == <<a, b, c>>
<1>1. s \in Seq({a, b, c}) /\ Len(s) = 3 /\ s[1] = a /\ s[2] = b /\ s[3] = c
  OBVIOUS
<1> HIDE DEF s
<1>2. PICK path : ByReport!FoldPath(path, p, s) /\ After(p, s) = path[Len(s)]
  BY <1>1, FoldFollows
<1>3. /\ path[0] = p
      /\ path[1] = HandleReport(path[0], s[1]) /\ path[2] = HandleReport(path[1], s[2])
      /\ path[3] = HandleReport(path[2], s[3])
  <2>1. path[0] = p /\ \A k \in 1 .. 3 : path[k] = HandleReport(path[k - 1], s[k])
    BY <1>1, <1>2 DEF ByReport!FoldPath
  <2> QED BY <2>1
<1>4. After(p, s) = HandleReport(y, c)
  BY <1>1, <1>2, <1>3, Zenon
<1> QED BY <1>4 DEF s

-----------------------------------------------------------------------------
(* Sums of what is open. *)

Amount == [Ids -> Nat]
SideAmounts == [Sides -> Amount]

Total(f) == SumFunctionOnSet(f, Ids)

Put(f, i, n) == [f EXCEPT ![i] = n]

(* A sum is a natural, is no less than any of its parts, and moves with them. *)
LEMMA TotalMoves ==
  ASSUME NEW f \in Amount, NEW i \in Ids, NEW n \in Nat
  PROVE  /\ Total(f) \in Nat /\ f[i] <= Total(f)
         /\ Put(f, i, n) \in Amount /\ Total(Put(f, i, n)) = Total(f) - f[i] + n
<1> DEFINE g == Put(f, i, n)
           rest == Ids \ {i}
<1>1. g \in Amount /\ \A j \in Ids : f[j] \in Nat /\ g[j] \in Nat
  BY DEF Amount, Put
<1>2. g[i] = n /\ \A j \in rest : f[j] = g[j]
  BY DEF Amount, Put
<1> HIDE DEF g
<1>3. /\ SumFunctionOnSet(f, Ids) \in Nat
      /\ SumFunctionOnSet(f, Ids) = f[i] + SumFunctionOnSet(f, rest)
  BY <1>1, IdSums
<1>4. SumFunctionOnSet(g, Ids) = g[i] + SumFunctionOnSet(g, rest)
  BY <1>1, IdSums
<1>5. IsFiniteSet(rest) /\ SumFunctionOnSet(f, rest) \in Nat
  BY <1>1, IdSums
<1>6. SumFunctionOnSet(f, rest) = SumFunctionOnSet(g, rest)
  <2>1. \A j \in rest : f[j] \in Int /\ f[j] = g[j]
    BY <1>1, <1>2
  <2> HIDE DEF rest
  <2> QED BY <1>5, <2>1, SumEqual
<1>7. f[i] \in Nat
  BY <1>1
<1> HIDE DEF rest
<1> QED BY <1>1, <1>2, <1>3, <1>4, <1>5, <1>6, <1>7 DEF Total, g

(* Where nothing is open the sum is zero, and a sum may leave out what is zero. *)
LEMMA TotalZero ==
  ASSUME NEW f \in Amount
  PROVE  SumFunctionOnSet(f, {i \in Ids : f[i] > 0}) = Total(f)
<1> DEFINE Pos == {i \in Ids : f[i] > 0}
           B == {u \in SUBSET Ids : Pos \subseteq u
                                    /\ SumFunctionOnSet(f, u) # SumFunctionOnSet(f, Pos)}
<1>1. \A u \in SUBSET Ids : /\ IsFiniteSet(u) /\ SumFunctionOnSet(f, u) \in Nat
                            /\ \A x \in u : SumFunctionOnSet(f, u)
                                              = f[x] + SumFunctionOnSet(f, u \ {x})
  BY IdSums DEF Amount
<1>2. IsFiniteSet(Ids)
  BY <1>1
<1>3. ASSUME B # {} PROVE FALSE
  <2>1. PICK U : Minimal(U, B)
    <3>1. B \in SUBSET (SUBSET Ids)
      OBVIOUS
    <3> HIDE DEF B
    <3> QED BY <1>2, <1>3, <3>1, FiniteMinimal
  <2>2. /\ U \in SUBSET Ids /\ Pos \subseteq U
        /\ SumFunctionOnSet(f, U) # SumFunctionOnSet(f, Pos)
    BY <2>1 DEF Minimal
  <2>3. PICK x \in U : x \notin Pos
    BY <2>2
  <2>4. f[x] = 0 /\ U \ {x} \in SUBSET Ids /\ Pos \subseteq U \ {x}
    BY <2>2, <2>3 DEF Amount
  <2>5. U \ {x} \notin B
    <3> HIDE DEF B
    <3> QED BY <2>1, <2>3, Zenon DEF Minimal
  <2>6. SumFunctionOnSet(f, U \ {x}) = SumFunctionOnSet(f, Pos)
    BY <2>4, <2>5
  <2>7. SumFunctionOnSet(f, U) = f[x] + SumFunctionOnSet(f, U \ {x})
    BY <1>1, <2>2
  <2>8. SumFunctionOnSet(f, U \ {x}) \in Nat
    BY <1>1, <2>4
  <2> QED BY <2>2, <2>4, <2>6, <2>7, <2>8
<1>4. Ids \notin B
  <2> HIDE DEF B
  <2> QED BY <1>3
<1> QED BY <1>4 DEF Total

-----------------------------------------------------------------------------
(* One report through the account and the strategy. *)

AccountRec == [position : Int, pending : [Sides -> Nat]]

(* What is open once q of order i, in h on its side, is no longer. *)
Cut(w, i, q) == [w EXCEPT ![i] = @ - q]
CutSide(h, side, i, q) == [h EXCEPT ![side][i] = @ - q]

(* The strategy s holds the orders o and the position n. *)
Holding(w) == [i \in OpenIds(w) |-> w[i]]
MakerIs(s, o, n) ==
  /\ s.open = o /\ s.position = n /\ s.cancel_pending = FALSE
  /\ DOMAIN s = {"open", "position", "cancel_pending"}

(* The position n after the fill r. *)
Moved(n, r) == IF r.side = "Buy" THEN n + r.quantity ELSE n - r.quantity

(* The account and the strategy have w open in all and h per side. *)
BooksAre(p, w, h) ==
  /\ p.account \in AccountRec
  /\ PositionLimit > 0 => \A s \in Sides : p.account.pending[s] = Total(h[s])
  /\ MakerIs(p.strategy, Holding(w), p.account.position)
  /\ p.mismatches = 0

(* What can still happen to the position in account b could happen to it in a. *)
Narrower(a, b) ==
  PositionLimit > 0 =>
    /\ \A s \in Sides : b.pending[s] <= a.pending[s]
    /\ b.position + b.pending["Buy"] <= a.position + a.pending["Buy"]
    /\ b.position - b.pending["Sell"] >= a.position - a.pending["Sell"]

(* Releasing what was reserved. *)
LEMMA ReleaseExact ==
  ASSUME NEW a \in AccountRec, NEW h \in SideAmounts, NEW side \in Sides, NEW i \in Ids,
         NEW q \in Nat, q <= h[side][i],
         PositionLimit > 0 => \A s \in Sides : a.pending[s] = Total(h[s])
  PROVE  /\ Release(a, side, q) \in AccountRec
         /\ Release(a, side, q).position = a.position
         /\ CutSide(h, side, i, q) \in SideAmounts
         /\ PositionLimit > 0 =>
              \A s \in Sides :
                /\ Release(a, side, q).pending[s]
                     = Total(CutSide(h, side, i, q)[s])
                /\ Release(a, side, q).pending[s]
                     = a.pending[s] - (IF s = side THEN q ELSE 0)
<1> DEFINE b == Release(a, side, q)
           g == CutSide(h, side, i, q)
<1>1. a.position \in Int /\ a.pending \in [Sides -> Nat]
  BY DEF AccountRec
<1>2. /\ b.position = a.position
      /\ b.pending = [a.pending EXCEPT ![side] =
                        IF a.pending[side] < q THEN 0 ELSE a.pending[side] - q]
  BY DEF Release, AccountRec
<1>3. b \in AccountRec
  <2>1. (IF a.pending[side] < q THEN 0 ELSE a.pending[side] - q) \in Nat
    BY <1>1
  <2> QED BY <2>1 DEF Release, AccountRec
<1>4. /\ h[side] \in Amount /\ h[side][i] \in Nat /\ h[side][i] - q \in Nat
      /\ \A s \in Sides : h[s] \in Amount
  BY DEF SideAmounts, Amount
<1>5. g = [h EXCEPT ![side] = Put(h[side], i, h[side][i] - q)]
  BY DEF SideAmounts, Amount, CutSide, Put
<1>6. Put(h[side], i, h[side][i] - q) \in Amount
  BY <1>4, TotalMoves
<1>7. /\ g \in SideAmounts
      /\ \A s \in Sides : s # side => g[s] = h[s]
      /\ g[side] = Put(h[side], i, h[side][i] - q)
  BY <1>5, <1>6 DEF SideAmounts
<1>8. /\ Total(h[side]) \in Nat /\ h[side][i] <= Total(h[side])
      /\ Total(g[side]) = Total(h[side]) - h[side][i] + (h[side][i] - q)
  BY <1>4, <1>7, TotalMoves
<1> HIDE DEF b, g
<1>9. ASSUME PositionLimit > 0, NEW s \in Sides
      PROVE  b.pending[s] = Total(g[s]) /\ b.pending[s] = a.pending[s] - (IF s = side THEN q ELSE 0)
  <2>1. CASE s = side
    <3>1. a.pending[side] = Total(h[side])
      BY <1>9
    <3>2. b.pending[side] = a.pending[side] - q
      BY <1>1, <1>2, <1>4, <1>8, <3>1
    <3> QED BY <1>4, <1>8, <2>1, <3>1, <3>2
  <2>2. CASE s # side
    BY <1>1, <1>2, <1>7, <1>9, <2>2
  <2> QED BY <2>1, <2>2
<1> QED BY <1>2, <1>3, <1>7, <1>9 DEF b, g

(* The strategy's open orders after a fill of q. *)
LEMMA OpenAfter ==
  ASSUME NEW w \in Amount, NEW i \in Ids, NEW q \in Nat, q <= w[i]
  PROVE  /\ Cut(w, i, q) \in Amount
         /\ w[i] > q => Holding(Cut(w, i, q)) = Put(Holding(w), i, w[i] - q)
         /\ ~(w[i] > q) => Holding(Cut(w, i, q)) = Without1(Holding(w), i)
<1> DEFINE v == Cut(w, i, q)
           n == w[i] - q
<1>1. /\ v \in Amount /\ v[i] = n /\ \A j \in Ids : j # i => v[j] = w[j]
      /\ w[i] \in Nat /\ n \in Nat /\ (w[i] > q <=> n > 0)
  BY DEF Amount, Cut
<1> HIDE DEF v, n
<1>2. ASSUME w[i] > q
      PROVE  Holding(v) = Put(Holding(w), i, n)
  <2>1. OpenIds(v) = OpenIds(w) /\ i \in OpenIds(w)
    BY <1>1, <1>2 DEF OpenIds
  <2>2. \A j \in OpenIds(w) : j \in Ids
    BY DEF OpenIds
  <2> QED BY <1>1, <2>1, <2>2 DEF Holding, Put
<1>3. ASSUME ~(w[i] > q)
      PROVE  Holding(v) = Without1(Holding(w), i)
  <2>1. OpenIds(v) = OpenIds(w) \ {i}
    BY <1>1, <1>3 DEF OpenIds
  <2>2. \A j \in OpenIds(v) : v[j] = w[j] /\ j \in OpenIds(w)
    BY <1>1, <2>1 DEF OpenIds
  <2> QED BY <2>1, <2>2 DEF Without1, Restrict, Holding
<1> QED BY <1>1, <1>2, <1>3 DEF v, n

(* on_order_update for an end, a fill and anything else. *)
LEMMA UpdateCases ==
  ASSUME NEW s, NEW o, NEW n, NEW r, MakerIs(s, o, n)
  PROVE  /\ r.kind \in Ended => MakerIs(OnOrderUpdate(s, r), Without1(o, r.id), n)
         /\ r.kind \notin Ended /\ (r.kind # "Trade" \/ r.id \notin DOMAIN o) =>
              OnOrderUpdate(s, r) = s
         /\ r.kind = "Trade" /\ r.id \in DOMAIN o /\ o[r.id] > r.quantity =>
              MakerIs(OnOrderUpdate(s, r), Put(o, r.id, o[r.id] - r.quantity), Moved(n, r))
         /\ r.kind = "Trade" /\ r.id \in DOMAIN o /\ ~(o[r.id] > r.quantity) =>
              MakerIs(OnOrderUpdate(s, r), Without1(o, r.id), Moved(n, r))
<1>1. ASSUME r.kind \in Ended PROVE MakerIs(OnOrderUpdate(s, r), Without1(o, r.id), n)
  BY <1>1 DEF OnOrderUpdate, MakerIs
<1>2. ASSUME r.kind \notin Ended, r.kind # "Trade" \/ r.id \notin DOMAIN o
      PROVE  OnOrderUpdate(s, r) = s
  BY <1>2 DEF OnOrderUpdate, MakerIs
<1>3. ASSUME r.kind = "Trade", r.id \in DOMAIN o, o[r.id] > r.quantity
      PROVE  MakerIs(OnOrderUpdate(s, r), Put(o, r.id, o[r.id] - r.quantity), Moved(n, r))
  <2>1. r.kind \notin Ended
    BY <1>3 DEF Ended
  <2>2. s.open = o /\ r.id \in DOMAIN s.open /\ s.open[r.id] > r.quantity
    BY <1>3 DEF MakerIs
  <2>3. OnOrderUpdate(s, r).open = [s.open EXCEPT ![r.id] = @ - r.quantity]
    <3> DEFINE x == [s.open EXCEPT ![r.id] = @ - r.quantity]
    <3>1. OnOrderUpdate(s, r) = [s EXCEPT
            !.position = IF r.side = "Buy" THEN @ + r.quantity ELSE @ - r.quantity,
            !.open = x]
      BY <1>3, <2>1, <2>2 DEF OnOrderUpdate
    <3> HIDE DEF x
    <3>2. OnOrderUpdate(s, r).open = x
      BY <3>1 DEF MakerIs
    <3> QED BY <3>2 DEF x
  <2>4. /\ OnOrderUpdate(s, r).position = Moved(n, r)
        /\ OnOrderUpdate(s, r).cancel_pending = s.cancel_pending
        /\ DOMAIN OnOrderUpdate(s, r) = DOMAIN s
    BY <1>3, <2>1, <2>2 DEF OnOrderUpdate, MakerIs, Moved
  <2> QED BY <2>2, <2>3, <2>4 DEF MakerIs, Put
<1>4. ASSUME r.kind = "Trade", r.id \in DOMAIN o, ~(o[r.id] > r.quantity)
      PROVE  MakerIs(OnOrderUpdate(s, r), Without1(o, r.id), Moved(n, r))
  <2>1. r.kind \notin Ended
    BY <1>4 DEF Ended
  <2> QED BY <1>4, <2>1 DEF OnOrderUpdate, MakerIs, Moved
<1> QED BY <1>1, <1>2, <1>3, <1>4

(* handle_report field by field. *)
LEMMA HandledFields ==
  \A p, r :
    LET booked == IF r.id # MarketId /\ r.kind = "Trade" THEN ApplyFill(p.account, r)
                                                           ELSE p.account
    IN
    /\ HandleReport(p, r).account =
         IF IsTerminal(r.kind) THEN Release(booked, r.side, r.quantity) ELSE booked
    /\ HandleReport(p, r).strategy = OnOrderUpdate(p.strategy, r)
    /\ HandleReport(p, r).mismatches =
         IF r.id # MarketId /\ OnOrderUpdate(p.strategy, r).position # booked.position
         THEN p.mismatches + 1 ELSE p.mismatches
    /\ HandleReport(p, r).ledger =
         OnReport(IF r.kind = "Resting" THEN MarkResting(p.ledger, r.id) ELSE p.ledger,
                  r, r.id # MarketId)
BY DEF HandleReport

(* A fill of one of our orders moves account and strategy alike. *)
LEMMA TradeBooks ==
  ASSUME NEW w \in Amount, NEW h \in SideAmounts, NEW p, BooksAre(p, w, h),
         NEW r \in ReportRec, r.kind = "Trade", r.id \in Ids,
         r.quantity > 0, r.quantity <= w[r.id], r.quantity <= h[r.side][r.id]
  PROVE  /\ BooksAre(HandleReport(p, r), Cut(w, r.id, r.quantity),
                     CutSide(h, r.side, r.id, r.quantity))
         /\ Narrower(p.account, HandleReport(p, r).account)
<1> DEFINE i == r.id
           q == r.quantity
           side == r.side
           a == p.account
           n == Moved(a.position, r)
           moved == [a EXCEPT !.position = n]
           b == HandleReport(p, r).account
           v == Cut(w, i, q)
           g == CutSide(h, side, i, q)
<1>1. i \in Ids /\ q \in Nat /\ side \in Sides /\ i # MarketId /\ w[i] \in Nat
  BY IdsAndTicks DEF ReportRec, Amount
<1>2. a \in AccountRec /\ a.position \in Int /\ a.pending \in [Sides -> Nat]
  BY DEF BooksAre, AccountRec
<1>3. n \in Int
  BY <1>1, <1>2 DEF Moved
<1>4. moved \in AccountRec /\ moved.position = n /\ moved.pending = a.pending
  BY <1>2, <1>3 DEF AccountRec
<1>5. b = Release(moved, side, q)
  <2>1. b = ApplyFill(a, r)
    BY <1>1, HandledFields DEF IsTerminal, Terminal
  <2> QED BY <2>1 DEF ApplyFill, Moved
<1>6. PositionLimit > 0 => \A s \in Sides : moved.pending[s] = Total(h[s])
  BY <1>4 DEF BooksAre
<1>7. /\ b \in AccountRec /\ b.position = n
      /\ PositionLimit > 0 => \A s \in Sides :
           /\ b.pending[s] = Total(g[s])
           /\ b.pending[s] = a.pending[s] - (IF s = side THEN q ELSE 0)
  <2>1. q <= h[side][i]
    OBVIOUS
  <2> HIDE DEF moved, n, b, i, q, side
  <2> QED BY <1>1, <1>4, <1>5, <1>6, <2>1, ReleaseExact DEF g
<1>8. MakerIs(HandleReport(p, r).strategy, Holding(v), n)
  <2> DEFINE o == Holding(w)
  <2>1. /\ HandleReport(p, r).strategy = OnOrderUpdate(p.strategy, r)
        /\ MakerIs(p.strategy, o, a.position)
    BY HandledFields DEF BooksAre
  <2>2. i \in DOMAIN o /\ o[i] = w[i]
    BY <1>1 DEF OpenIds, Holding
  <2> HIDE DEF o
  <2>3. CASE w[i] > q
    <3>1. MakerIs(HandleReport(p, r).strategy, Put(o, i, w[i] - q), n)
      BY <2>1, <2>2, <2>3, UpdateCases
    <3>2. Holding(v) = Put(o, i, w[i] - q)
      BY <1>1, <2>3, OpenAfter DEF o
    <3> QED BY <3>1, <3>2
  <2>4. CASE ~(w[i] > q)
    <3>1. MakerIs(HandleReport(p, r).strategy, Without1(o, i), n)
      BY <2>1, <2>2, <2>4, UpdateCases
    <3>2. Holding(v) = Without1(o, i)
      BY <1>1, <2>4, OpenAfter DEF o
    <3> QED BY <3>1, <3>2
  <2> QED BY <2>3, <2>4
<1>9. HandleReport(p, r).mismatches = 0
  <2>1. ApplyFill(a, r).position = n
    BY <1>4, <1>5, <1>7 DEF ApplyFill, Moved
  <2>2. OnOrderUpdate(p.strategy, r).position = n
    BY <1>8, HandledFields DEF MakerIs
  <2> QED BY <1>1, <2>1, <2>2, HandledFields DEF BooksAre
<1> HIDE DEF moved, n, b, g
<1>10. Narrower(a, b)
  <2> SUFFICES ASSUME PositionLimit > 0
               PROVE  /\ \A s \in Sides : b.pending[s] <= a.pending[s]
                      /\ b.position + b.pending["Buy"] <= a.position + a.pending["Buy"]
                      /\ b.position - b.pending["Sell"] >= a.position - a.pending["Sell"]
    BY DEF Narrower
  <2>1. \A s \in Sides : /\ b.pending[s] = a.pending[s] - (IF s = side THEN q ELSE 0)
                         /\ a.pending[s] \in Nat
    BY <1>2, <1>7
  <2>2. "Buy" \in Sides /\ "Sell" \in Sides
    BY DEF Sides
  <2>3. \A s \in Sides : b.pending[s] <= a.pending[s]
    BY <1>1, <2>1
  <2>4. /\ b.pending["Buy"] = a.pending["Buy"] - (IF "Buy" = side THEN q ELSE 0)
        /\ b.pending["Sell"] = a.pending["Sell"] - (IF "Sell" = side THEN q ELSE 0)
        /\ a.pending["Buy"] \in Nat /\ a.pending["Sell"] \in Nat
    BY <2>1, <2>2
  <2>5. side = "Buy" \/ side = "Sell"
    BY <1>1 DEF Sides
  <2> QED BY <1>1, <1>2, <1>7, <2>3, <2>4, <2>5 DEF n, Moved
<1> QED BY <1>7, <1>8, <1>9, <1>10 DEF BooksAre, b, g

(* The report that ends one of our orders releases what was left of it. *)
LEMMA EndBooks ==
  ASSUME NEW w \in Amount, NEW h \in SideAmounts, NEW p, BooksAre(p, w, h),
         NEW r \in ReportRec, r.kind \in {"Filled", "Cancelled"}, r.id \in Ids,
         r.quantity = w[r.id], r.quantity <= h[r.side][r.id]
  PROVE  /\ BooksAre(HandleReport(p, r), Cut(w, r.id, r.quantity),
                     CutSide(h, r.side, r.id, r.quantity))
         /\ Narrower(p.account, HandleReport(p, r).account)
         /\ HandleReport(p, r).account.position = p.account.position
<1> DEFINE i == r.id
           q == r.quantity
           side == r.side
           a == p.account
           b == HandleReport(p, r).account
           v == Cut(w, i, q)
           g == CutSide(h, side, i, q)
<1>1. /\ i \in Ids /\ q \in Nat /\ side \in Sides /\ i # MarketId /\ w[i] \in Nat
      /\ q <= h[side][i] /\ q = w[i]
  BY IdsAndTicks DEF ReportRec, Amount
<1>2. a \in AccountRec /\ a.position \in Int /\ a.pending \in [Sides -> Nat]
  BY DEF BooksAre, AccountRec
<1>3. r.kind # "Trade" /\ IsTerminal(r.kind) /\ r.kind \in Ended
  BY DEF IsTerminal, Terminal, Ended
<1>4. b = Release(a, side, q)
  BY <1>3, HandledFields
<1>5. PositionLimit > 0 => \A s \in Sides : a.pending[s] = Total(h[s])
  BY DEF BooksAre
<1>6. /\ b \in AccountRec /\ b.position = a.position
      /\ PositionLimit > 0 => \A s \in Sides :
           /\ b.pending[s] = Total(g[s])
           /\ b.pending[s] = a.pending[s] - (IF s = side THEN q ELSE 0)
  <2> HIDE DEF a, b, i, q, side
  <2> QED BY <1>1, <1>2, <1>4, <1>5, ReleaseExact DEF g
<1>7. MakerIs(HandleReport(p, r).strategy, Holding(v), a.position)
  <2>1. MakerIs(HandleReport(p, r).strategy, Without1(Holding(w), i), a.position)
    BY <1>3, HandledFields, UpdateCases DEF BooksAre
  <2>2. Holding(v) = Without1(Holding(w), i)
    <3>1. ~(w[i] > q) /\ q <= w[i]
      BY <1>1
    <3> HIDE DEF i, q
    <3> QED BY <1>1, <3>1, OpenAfter
  <2> QED BY <2>1, <2>2
<1>8. HandleReport(p, r).mismatches = 0
  <2>1. OnOrderUpdate(p.strategy, r).position = a.position
    BY <1>7, HandledFields DEF MakerIs
  <2> QED BY <1>3, <2>1, HandledFields DEF BooksAre
<1>9. Narrower(a, b)
  <2>1. "Buy" \in Sides /\ "Sell" \in Sides
    BY DEF Sides
  <2> HIDE DEF a, b, q, side
  <2> QED BY <1>1, <1>2, <1>6, <2>1 DEF Narrower
<1> HIDE DEF b, g
<1> QED BY <1>6, <1>7, <1>8, <1>9 DEF BooksAre, b, g

(* Any other report leaves account and strategy as they are: a partial fill's
   summary, an order come to rest, and what happens to the public trade's order. *)
LEMMA QuietBooks ==
  ASSUME NEW w \in Amount, NEW h \in SideAmounts, NEW p, BooksAre(p, w, h),
         NEW r \in ReportRec,
         \/ r.kind \in {"PartialFill", "Resting"}
         \/ r.id = MarketId /\ (r.kind = "Trade" \/ (r.kind = "Filled" /\ r.quantity = 0))
  PROVE  /\ BooksAre(HandleReport(p, r), w, h)
         /\ HandleReport(p, r).account = p.account
<1> DEFINE a == p.account
<1>1. /\ a \in AccountRec /\ a.position \in Int /\ a.pending \in [Sides -> Nat]
      /\ r.side \in Sides /\ MakerIs(p.strategy, Holding(w), a.position)
      /\ p.mismatches = 0
  BY DEF BooksAre, AccountRec, ReportRec
<1>2. MarketId \notin DOMAIN Holding(w)
  BY IdsAndTicks DEF Holding, OpenIds
<1>3. CASE r.kind \in {"PartialFill", "Resting"}
  <2>1. r.kind # "Trade" /\ ~IsTerminal(r.kind) /\ r.kind \notin Ended
    BY <1>3 DEF IsTerminal, Terminal, Ended
  <2>2. /\ HandleReport(p, r).account = a
        /\ HandleReport(p, r).strategy = OnOrderUpdate(p.strategy, r)
    BY <2>1, HandledFields
  <2>3. OnOrderUpdate(p.strategy, r) = p.strategy
    BY <1>1, <2>1, UpdateCases
  <2>4. HandleReport(p, r).mismatches = 0
    BY <1>1, <2>1, <2>3, HandledFields DEF MakerIs
  <2> QED BY <1>1, <2>2, <2>3, <2>4 DEF BooksAre
<1>4. CASE r.id = MarketId /\ r.kind = "Trade"
  <2>1. ~IsTerminal(r.kind) /\ r.kind \notin Ended
    BY <1>4 DEF IsTerminal, Terminal, Ended
  <2>2. /\ HandleReport(p, r).account = a
        /\ HandleReport(p, r).strategy = OnOrderUpdate(p.strategy, r)
        /\ HandleReport(p, r).mismatches = p.mismatches
    BY <1>4, <2>1, HandledFields
  <2>3. OnOrderUpdate(p.strategy, r) = p.strategy
    BY <1>1, <1>2, <1>4, <2>1, UpdateCases
  <2> QED BY <1>1, <2>2, <2>3 DEF BooksAre
<1>5. CASE r.id = MarketId /\ r.kind = "Filled" /\ r.quantity = 0
  <2>1. IsTerminal(r.kind) /\ r.kind \in Ended /\ r.kind # "Trade"
    BY <1>5 DEF IsTerminal, Terminal, Ended
  <2>2. /\ HandleReport(p, r).account = Release(a, r.side, 0)
        /\ HandleReport(p, r).strategy = OnOrderUpdate(p.strategy, r)
        /\ HandleReport(p, r).mismatches = p.mismatches
    BY <1>5, <2>1, HandledFields
  <2>3. Release(a, r.side, 0) = a
    <3>1. (IF a.pending[r.side] < 0 THEN 0 ELSE a.pending[r.side] - 0) = a.pending[r.side]
      BY <1>1
    <3> QED BY <1>1, <3>1 DEF Release, AccountRec
  <2>4. Without1(Holding(w), MarketId) = Holding(w)
    BY <1>2 DEF Without1, Restrict, Holding
  <2>5. MakerIs(OnOrderUpdate(p.strategy, r), Holding(w), a.position)
    BY <1>1, <1>5, <2>1, <2>4, UpdateCases
  <2> QED BY <1>1, <2>2, <2>3, <2>5 DEF BooksAre
<1> QED BY <1>3, <1>4, <1>5

-----------------------------------------------------------------------------
(* One report through the ledger. *)

(* The ledger l has the orders of D on record, in the states y. *)
LedgerIs(l, D, y) ==
  /\ l.audit = [i \in D |-> y[i]]
  /\ DOMAIN l = {"audit", "cancelling", "invalid", "orphans"}

(* The states once a fill of order i is known, and once it rests. *)
FilledSome(y, i) == [y EXCEPT ![i] = "PartiallyFilled"]
RestsNow(y, i) == [y EXCEPT ![i] = IF @ = "Pending" THEN "Resting" ELSE @]

States == [Ids -> {"Pending", "Resting", "PartiallyFilled"}]

(* A fill, or its summary, moves an order on record to PartiallyFilled. *)
LEMMA LedgerFill ==
  ASSUME NEW D \in SUBSET Ids, NEW y \in States, NEW p, LedgerIs(p.ledger, D, y),
         NEW r, r.kind \in {"Trade", "PartialFill"}
  PROVE  /\ r.id \in D => LedgerIs(HandleReport(p, r).ledger, D, FilledSome(y, r.id))
         /\ r.id \notin D => LedgerIs(HandleReport(p, r).ledger, D, y)
         /\ HandleReport(p, r).ledger.cancelling = p.ledger.cancelling
<1> DEFINE l == p.ledger
           m == HandleReport(p, r).ledger
<1>1. /\ r.kind # "Resting" /\ ~EndsCancel(r.kind) /\ ~Closes(r.kind)
      /\ StateAfter(r.kind) = "PartiallyFilled"
  BY DEF EndsCancel, Closes, IsTerminal, Terminal, StateAfter
<1>2. m = OnReport(l, r, r.id # MarketId)
  BY <1>1, HandledFields
<1>3. DOMAIN l.audit = D /\ DOMAIN l = {"audit", "cancelling", "invalid", "orphans"}
  BY DEF LedgerIs
<1>4. CASE r.id \in D
  <2>1. m = Transition(l, r.id, "PartiallyFilled")
    BY <1>1, <1>2, <1>3, <1>4 DEF OnReport
  <2>2. m = [l EXCEPT !.audit[r.id] = "PartiallyFilled"]
    BY <2>1 DEF Transition, Allowed
  <2>3. /\ m.audit = [l.audit EXCEPT ![r.id] = "PartiallyFilled"] /\ DOMAIN m = DOMAIN l
        /\ m.cancelling = l.cancelling
    BY <1>3, <2>2
  <2>4. [l.audit EXCEPT ![r.id] = "PartiallyFilled"] = [i \in D |-> FilledSome(y, r.id)[i]]
    BY <1>4 DEF LedgerIs, FilledSome, States
  <2> QED BY <1>3, <1>4, <2>3, <2>4 DEF LedgerIs
<1>5. CASE r.id \notin D
  <2>1. m = IF r.id # MarketId THEN [l EXCEPT !.orphans = @ + 1] ELSE l
    BY <1>1, <1>2, <1>3, <1>5 DEF OnReport
  <2>2. m.audit = l.audit /\ DOMAIN m = DOMAIN l /\ m.cancelling = l.cancelling
    BY <1>3, <2>1
  <2> QED BY <1>5, <2>2 DEF LedgerIs
<1> QED BY <1>4, <1>5

(* A terminal report takes the order off the record and its cancel with it. *)
LEMMA LedgerEnd ==
  ASSUME NEW D \in SUBSET Ids, NEW y \in States, NEW p, LedgerIs(p.ledger, D, y),
         NEW r, r.kind \in {"Filled", "Cancelled"}
  PROVE  /\ LedgerIs(HandleReport(p, r).ledger, D \ {r.id}, y)
         /\ HandleReport(p, r).ledger.cancelling = p.ledger.cancelling \ {r.id}
<1> DEFINE l == p.ledger
           m == HandleReport(p, r).ledger
           forgot == [l EXCEPT !.cancelling = @ \ {r.id}]
<1>1. /\ r.kind # "Resting" /\ EndsCancel(r.kind) /\ Closes(r.kind)
      /\ StateAfter(r.kind) = r.kind /\ r.kind \in Terminal
  BY DEF EndsCancel, Closes, IsTerminal, Terminal, StateAfter
<1>2. m = OnReport(l, r, r.id # MarketId)
  BY <1>1, HandledFields
<1>3. DOMAIN l.audit = D /\ DOMAIN l = {"audit", "cancelling", "invalid", "orphans"}
  BY DEF LedgerIs
<1>4. /\ forgot.audit = l.audit /\ DOMAIN forgot = DOMAIN l
      /\ forgot.cancelling = l.cancelling \ {r.id}
  BY <1>3
<1> HIDE DEF forgot
<1>5. CASE r.id \in D
  <2> DEFINE moved == Transition(forgot, r.id, r.kind)
  <2>1. m = [moved EXCEPT !.audit = Restrict(@, DOMAIN @ \ {r.id})]
    BY <1>1, <1>2, <1>3, <1>5 DEF OnReport, forgot
  <2>2. moved = [forgot EXCEPT !.audit[r.id] = r.kind]
    BY <1>1 DEF Transition, Allowed
  <2>3. /\ moved.audit = [forgot.audit EXCEPT ![r.id] = r.kind]
        /\ DOMAIN moved = DOMAIN forgot /\ moved.cancelling = forgot.cancelling
    BY <1>3, <1>4, <2>2
  <2> HIDE DEF moved
  <2>4. /\ m.audit = Restrict(moved.audit, DOMAIN moved.audit \ {r.id})
        /\ DOMAIN m = DOMAIN moved /\ m.cancelling = moved.cancelling
    BY <1>3, <1>4, <2>1, <2>3
  <2>5. /\ DOMAIN moved.audit = D
        /\ \A i \in D \ {r.id} : moved.audit[i] = y[i]
    BY <1>3, <1>4, <1>5, <2>3 DEF LedgerIs
  <2>6. m.audit = [i \in D \ {r.id} |-> y[i]]
    BY <2>4, <2>5 DEF Restrict
  <2> QED BY <1>3, <1>4, <2>3, <2>4, <2>6 DEF LedgerIs
<1>6. CASE r.id \notin D
  <2>1. m = IF r.id # MarketId THEN [forgot EXCEPT !.orphans = @ + 1] ELSE forgot
    BY <1>1, <1>2, <1>3, <1>6 DEF OnReport, forgot
  <2>2. m.audit = l.audit /\ DOMAIN m = DOMAIN l /\ m.cancelling = forgot.cancelling
    BY <1>3, <1>4, <2>1
  <2>3. D \ {r.id} = D
    BY <1>6
  <2> QED BY <1>4, <2>2, <2>3 DEF LedgerIs
<1> QED BY <1>5, <1>6

(* A Resting report moves a Pending order on record, and no other. *)
LEMMA LedgerRest ==
  ASSUME NEW D \in SUBSET Ids, NEW y \in States, NEW p, LedgerIs(p.ledger, D, y),
         NEW r, r.kind = "Resting", r.id \in D
  PROVE  /\ LedgerIs(HandleReport(p, r).ledger, D, RestsNow(y, r.id))
         /\ HandleReport(p, r).ledger.cancelling = p.ledger.cancelling
<1> DEFINE l == p.ledger
           k == MarkResting(l, r.id)
           m == HandleReport(p, r).ledger
<1>1. ~EndsCancel(r.kind) /\ ~Closes(r.kind)
  BY DEF EndsCancel, Closes, IsTerminal, Terminal
<1>2. m = OnReport(k, r, r.id # MarketId)
  BY HandledFields
<1>3. /\ DOMAIN l.audit = D /\ DOMAIN l = {"audit", "cancelling", "invalid", "orphans"}
      /\ l.audit[r.id] = y[r.id]
  BY DEF LedgerIs
<1>4. k = Transition(l, r.id, "Resting")
  BY <1>3 DEF MarkResting
<1>5. CASE y[r.id] = "Pending"
  <2>1. k = [l EXCEPT !.audit[r.id] = "Resting"]
    BY <1>3, <1>4, <1>5 DEF Transition, Allowed
  <2>2. /\ k.audit = [l.audit EXCEPT ![r.id] = "Resting"] /\ DOMAIN k = DOMAIN l
        /\ k.cancelling = l.cancelling
    BY <1>3, <2>1
  <2>3. [l.audit EXCEPT ![r.id] = "Resting"] = [i \in D |-> RestsNow(y, r.id)[i]]
    BY <1>5 DEF LedgerIs, RestsNow, States
  <2> HIDE DEF k
  <2>4. m = k
    BY <1>1, <1>2, <1>3, <2>2 DEF OnReport
  <2> QED BY <1>3, <2>2, <2>3, <2>4 DEF LedgerIs
<1>6. CASE y[r.id] # "Pending"
  <2>1. k = [l EXCEPT !.invalid = @ + 1]
    BY <1>3, <1>4, <1>6 DEF Transition, Allowed, Terminal
  <2>2. k.audit = l.audit /\ DOMAIN k = DOMAIN l /\ k.cancelling = l.cancelling
    BY <1>3, <2>1
  <2>3. RestsNow(y, r.id) = y
    BY <1>6 DEF RestsNow, States
  <2> HIDE DEF k
  <2>4. m = k
    BY <1>1, <1>2, <1>3, <2>2 DEF OnReport
  <2> QED BY <1>3, <2>2, <2>3, <2>4 DEF LedgerIs
<1> QED BY <1>5, <1>6

-----------------------------------------------------------------------------
(* The reports of one engine step through all four records. *)

(* The books p tell of w open in all, h per side, in the states y; a cancel is on
   record only for an open order. *)
Told(p, w, h, y) ==
  /\ BooksAre(p, w, h) /\ LedgerIs(p.ledger, OpenIds(w), y)
  /\ p.ledger.cancelling \subseteq OpenIds(w)

(* What the reports of a step do to the books besides. *)
Follows(p, q) ==
  /\ Narrower(p.account, q.account)
  /\ q.ledger.cancelling \subseteq p.ledger.cancelling

(* Taking off nothing changes nothing, and taking off some is seen there only. *)
LEMMA CutFacts ==
  ASSUME NEW w \in Amount, NEW h \in SideAmounts, NEW side \in Sides, NEW i \in Ids,
         NEW q \in Nat, q <= w[i], h[side][i] = w[i]
  PROVE  /\ Cut(w, i, q) \in Amount /\ CutSide(h, side, i, q) \in SideAmounts
         /\ Cut(w, i, q)[i] = w[i] - q /\ CutSide(h, side, i, q)[side][i] = w[i] - q
         /\ Cut(w, i, 0) = w /\ CutSide(h, side, i, 0) = h
         /\ q = w[i] => OpenIds(Cut(w, i, q)) = OpenIds(w) \ {i}
         /\ q < w[i] => OpenIds(Cut(w, i, q)) = OpenIds(w) /\ i \in OpenIds(w)
         /\ OpenIds(w) \in SUBSET Ids
<1>1. w[i] \in Nat /\ w[i] - q \in Nat /\ h[side] \in [Ids -> Nat]
  BY DEF Amount, SideAmounts
<1>2. /\ Cut(w, i, q) \in Amount /\ Cut(w, i, q)[i] = w[i] - q
      /\ \A j \in Ids : j # i => Cut(w, i, q)[j] = w[j]
  BY <1>1 DEF Cut, Amount
<1>3. /\ CutSide(h, side, i, q) \in SideAmounts
      /\ CutSide(h, side, i, q)[side][i] = w[i] - q
  BY <1>1 DEF CutSide, SideAmounts, Amount
<1>4. Cut(w, i, 0) = w /\ CutSide(h, side, i, 0) = h
  BY <1>1 DEF Cut, CutSide, Amount, SideAmounts
<1>5. ASSUME q = w[i] PROVE OpenIds(Cut(w, i, q)) = OpenIds(w) \ {i}
  BY <1>1, <1>2, <1>5 DEF OpenIds
<1>6. ASSUME q < w[i] PROVE OpenIds(Cut(w, i, q)) = OpenIds(w) /\ i \in OpenIds(w)
  BY <1>1, <1>2, <1>6 DEF OpenIds
<1> QED BY <1>2, <1>3, <1>4, <1>5, <1>6 DEF OpenIds

(* Narrower is transitive and reflexive on accounts. *)
LEMMA NarrowerChain ==
  ASSUME NEW a \in AccountRec, NEW b \in AccountRec, NEW c \in AccountRec
  PROVE  /\ Narrower(a, a)
         /\ Narrower(a, b) /\ Narrower(b, c) => Narrower(a, c)
<1>1. /\ \A s \in Sides : a.pending[s] \in Nat /\ b.pending[s] \in Nat /\ c.pending[s] \in Nat
      /\ a.position \in Int /\ b.position \in Int /\ c.position \in Int
      /\ "Buy" \in Sides /\ "Sell" \in Sides
  BY DEF AccountRec, Sides
<1> QED BY <1>1 DEF Narrower

(* The end of an order of ours. *)
LEMMA EndTold ==
  ASSUME NEW w \in Amount, NEW h \in SideAmounts, NEW y \in States, NEW p,
         Told(p, w, h, y), NEW r \in ReportRec, r.kind \in {"Filled", "Cancelled"},
         r.id \in Ids, r.quantity = w[r.id], h[r.side][r.id] = w[r.id]
  PROVE  /\ Told(HandleReport(p, r), Cut(w, r.id, r.quantity),
                 CutSide(h, r.side, r.id, r.quantity), y)
         /\ Follows(p, HandleReport(p, r))
         /\ HandleReport(p, r).account.position = p.account.position
<1>1. r.quantity \in Nat /\ r.side \in Sides /\ r.quantity <= h[r.side][r.id]
  BY DEF ReportRec
<1>2. /\ BooksAre(HandleReport(p, r), Cut(w, r.id, r.quantity),
                  CutSide(h, r.side, r.id, r.quantity))
      /\ Narrower(p.account, HandleReport(p, r).account)
      /\ HandleReport(p, r).account.position = p.account.position
  BY <1>1, EndBooks DEF Told
<1>3. /\ OpenIds(Cut(w, r.id, r.quantity)) = OpenIds(w) \ {r.id}
      /\ OpenIds(w) \in SUBSET Ids
  BY <1>1, CutFacts
<1>4. /\ LedgerIs(HandleReport(p, r).ledger, OpenIds(w) \ {r.id}, y)
      /\ HandleReport(p, r).ledger.cancelling = p.ledger.cancelling \ {r.id}
  BY <1>3, LedgerEnd DEF Told
<1> QED BY <1>2, <1>3, <1>4 DEF Told, Follows

(* A fill of an order of ours and the summary that follows it. *)
LEMMA FillTold ==
  ASSUME NEW w \in Amount, NEW h \in SideAmounts, NEW y \in States, NEW p,
         Told(p, w, h, y), NEW t \in ReportRec, NEW e \in ReportRec,
         t.kind = "Trade", t.id \in Ids, e.id = t.id, e.side = t.side,
         t.quantity > 0, t.quantity <= w[t.id], h[t.side][t.id] = w[t.id],
         e.kind = (IF t.quantity = w[t.id] THEN "Filled" ELSE "PartialFill"),
         e.quantity = w[t.id] - t.quantity
  PROVE  /\ Told(HandleReport(HandleReport(p, t), e), Cut(w, t.id, t.quantity),
                 CutSide(h, t.side, t.id, t.quantity), FilledSome(y, t.id))
         /\ Follows(p, HandleReport(HandleReport(p, t), e))
<1> DEFINE i == t.id
           q == t.quantity
           v == Cut(w, i, q)
           g == CutSide(h, t.side, i, q)
           z == FilledSome(y, i)
           p1 == HandleReport(p, t)
           p2 == HandleReport(p1, e)
<1>1. q \in Nat /\ t.side \in Sides /\ q <= h[t.side][i] /\ w[i] \in Nat
  BY DEF ReportRec, Amount
<1>2. BooksAre(p1, v, g) /\ Narrower(p.account, p1.account)
  BY <1>1, TradeBooks DEF Told
<1>3. /\ v \in Amount /\ g \in SideAmounts /\ v[i] = w[i] - q /\ g[t.side][i] = w[i] - q
      /\ q = w[i] => OpenIds(v) = OpenIds(w) \ {i}
      /\ q < w[i] => OpenIds(v) = OpenIds(w)
      /\ OpenIds(w) \in SUBSET Ids /\ i \in OpenIds(w)
  <2>1. i \in OpenIds(w)
    BY <1>1 DEF OpenIds
  <2> QED BY <1>1, <2>1, CutFacts
<1>4. z \in States
  BY DEF FilledSome, States
<1>5. /\ LedgerIs(p1.ledger, OpenIds(w), z)
      /\ p1.ledger.cancelling = p.ledger.cancelling
  BY <1>3, LedgerFill DEF Told
<1>6. /\ p.account \in AccountRec /\ p1.account \in AccountRec
      /\ p.ledger.cancelling \subseteq OpenIds(w)
  BY <1>2 DEF Told, BooksAre
<1>7. ASSUME q = w[i]
      PROVE  Told(p2, v, g, z) /\ Follows(p, p2)
  <2>1. e.kind = "Filled" /\ e.quantity = 0 /\ e.id = i /\ e.side = t.side /\ v[i] = 0
        /\ g[t.side][i] = 0
    BY <1>1, <1>3, <1>7
  <2>2. Cut(v, i, 0) = v /\ CutSide(g, t.side, i, 0) = g
    <3> HIDE DEF v, g, i
    <3> QED BY <1>1, <1>3, <2>1, CutFacts
  <2> HIDE DEF p1, v, g, z
  <2>3. BooksAre(p2, v, g) /\ Narrower(p1.account, p2.account)
    <3>1. e.kind \in {"Filled", "Cancelled"} /\ e.id \in Ids /\ e.quantity = v[e.id]
          /\ e.quantity <= g[e.side][e.id]
      BY <2>1
    <3> QED BY <1>2, <1>3, <2>1, <2>2, <3>1, EndBooks
  <2>4. /\ LedgerIs(p2.ledger, OpenIds(w) \ {i}, z)
        /\ p2.ledger.cancelling = p1.ledger.cancelling \ {i}
    BY <1>3, <1>4, <1>5, <2>1, LedgerEnd
  <2>5. p2.account \in AccountRec
    BY <2>3 DEF BooksAre
  <2>6. Narrower(p.account, p2.account)
    BY <1>2, <1>6, <2>3, <2>5, NarrowerChain
  <2> QED BY <1>3, <1>5, <1>6, <1>7, <2>3, <2>4, <2>6 DEF Told, Follows
<1>8. ASSUME q # w[i]
      PROVE  Told(p2, v, g, z) /\ Follows(p, p2)
  <2>1. e.kind = "PartialFill" /\ e.id = i /\ OpenIds(v) = OpenIds(w)
    BY <1>1, <1>3, <1>8
  <2>2. FilledSome(z, i) = z
    BY DEF FilledSome, States
  <2> HIDE DEF p1, v, g, z
  <2>3. BooksAre(p2, v, g) /\ p2.account = p1.account
    BY <1>2, <1>3, <2>1, QuietBooks
  <2>4. /\ LedgerIs(p2.ledger, OpenIds(w), z)
        /\ p2.ledger.cancelling = p1.ledger.cancelling
    BY <1>3, <1>4, <1>5, <2>1, <2>2, LedgerFill
  <2> QED BY <1>2, <1>5, <1>6, <2>1, <2>3, <2>4 DEF Told, Follows
<1> QED BY <1>7, <1>8

(* An order of ours comes to rest. *)
LEMMA RestTold ==
  ASSUME NEW w \in Amount, NEW h \in SideAmounts, NEW y \in States, NEW p,
         Told(p, w, h, y), NEW r \in ReportRec, r.kind = "Resting", r.id \in OpenIds(w)
  PROVE  /\ Told(HandleReport(p, r), w, h, RestsNow(y, r.id))
         /\ Follows(p, HandleReport(p, r))
         /\ HandleReport(p, r).account = p.account
<1>1. BooksAre(HandleReport(p, r), w, h) /\ HandleReport(p, r).account = p.account
  BY QuietBooks DEF Told
<1>2. /\ LedgerIs(HandleReport(p, r).ledger, OpenIds(w), RestsNow(y, r.id))
      /\ HandleReport(p, r).ledger.cancelling = p.ledger.cancelling
  <2>1. OpenIds(w) \in SUBSET Ids
    BY DEF OpenIds
  <2> QED BY <2>1, LedgerRest DEF Told
<1>3. Narrower(p.account, p.account)
  BY NarrowerChain DEF Told, BooksAre
<1> QED BY <1>1, <1>2, <1>3 DEF Told, Follows

(* What happens to the public trade's order concerns no record of ours. *)
LEMMA MarketTold ==
  ASSUME NEW w \in Amount, NEW h \in SideAmounts, NEW y \in States, NEW p,
         Told(p, w, h, y), NEW r \in ReportRec, r.id = MarketId,
         r.kind \in {"Trade", "PartialFill"} \/ (r.kind = "Filled" /\ r.quantity = 0)
  PROVE  /\ Told(HandleReport(p, r), w, h, y)
         /\ Follows(p, HandleReport(p, r))
         /\ HandleReport(p, r).account = p.account
<1>1. BooksAre(HandleReport(p, r), w, h) /\ HandleReport(p, r).account = p.account
  BY QuietBooks DEF Told
<1>2. OpenIds(w) \in SUBSET Ids /\ MarketId \notin OpenIds(w)
  BY IdsAndTicks DEF OpenIds
<1>3. /\ LedgerIs(HandleReport(p, r).ledger, OpenIds(w), y)
      /\ HandleReport(p, r).ledger.cancelling \subseteq p.ledger.cancelling
  <2>1. CASE r.kind \in {"Trade", "PartialFill"}
    BY <1>2, <2>1, LedgerFill DEF Told
  <2>2. CASE r.kind = "Filled"
    <3>1. OpenIds(w) \ {r.id} = OpenIds(w)
      BY <1>2
    <3>2. /\ LedgerIs(HandleReport(p, r).ledger, OpenIds(w) \ {r.id}, y)
          /\ HandleReport(p, r).ledger.cancelling = p.ledger.cancelling \ {r.id}
      BY <1>2, <2>2, LedgerEnd DEF Told
    <3> QED BY <3>1, <3>2
  <2> QED BY <2>1, <2>2
<1>4. Narrower(p.account, p.account)
  BY NarrowerChain DEF Told, BooksAre
<1> QED BY <1>1, <1>3, <1>4 DEF Told, Follows

(* The states of orders that are not open do not matter. *)
LEMMA StatesOfOpen ==
  ASSUME NEW w, NEW h, NEW y, NEW z, NEW p, Told(p, w, h, y),
         \A i \in OpenIds(w) : y[i] = z[i]
  PROVE  Told(p, w, h, z)
BY DEF Told, LedgerIs

-----------------------------------------------------------------------------
(* What is open at the venue. *)

Halves == [s \in Sides |-> OnSide(s)]
StatesNow == [i \in Ids |-> StateOf(i)]

(* The engine's half of the invariant. *)
VenueInv == EngineInv /\ CallsNest /\ OursOnly

(* Types of what is open, and where it is. *)
LEMMA OpenFacts ==
  ASSUME EngineInv
  PROVE  /\ Quantities \in Amount /\ Halves \in SideAmounts /\ StatesNow \in States
         /\ \A i \in Ids : /\ Open(i) \in Nat /\ Quantities[i] = Open(i)
                           /\ SideOf(i) \in Sides /\ Halves[SideOf(i)][i] = Open(i)
                           /\ StatesNow[i] = StateOf(i)
                           /\ Open(i) > 0 => i \in order_index \/ (pc = "match" /\ cur.id = i)
         /\ order_index \subseteq OpenIds(Quantities) /\ order_index \subseteq Ids
         /\ \A i \in order_index : /\ Open(i) = data[i].remaining /\ data[i].remaining \in Nat
                                   /\ data[i].remaining > 0 /\ SideOf(i) = data[i].side
                                   /\ data[i].id = i /\ data[i] \in OrderRec
         /\ pc = "match" /\ cur.id \in Ids => /\ Open(cur.id) = cur.remaining
                                              /\ SideOf(cur.id) = cur.side
                                              /\ cur.id \notin order_index
         /\ cur \in OrderRec /\ cur.remaining \in Nat /\ cur.side \in Sides
         /\ \A i \in Ids : data[i] \in OrderRec
<1>1. TypeInv /\ IndexMatchesBook
  BY Zenon DEF EngineInv, TypeInv
<1>2. BookTypes /\ LoopTypes /\ MatchingOrder
  BY <1>1, TypeParts DEF TypeInv
<1>3. \A i \in Ids : Open(i) \in Nat
  BY <1>1, OpenTypes
<1>4. order_index \subseteq Ids /\ cur \in OrderRec /\ \A i \in Ids : data[i] \in OrderRec
  BY <1>2 DEF BookTypes, LoopTypes
<1>5. cur.side \in Sides /\ cur.remaining \in Nat
  BY <1>4 DEF OrderRec
<1>6. \A i \in Ids : SideOf(i) \in Sides
  BY <1>4, <1>5 DEF SideOf, OrderRec
<1>7. \A i \in order_index : data[i].id = i /\ data[i].remaining > 0
  BY <1>1 DEF IndexMatchesBook
<1>8. ASSUME NEW i \in order_index
      PROVE  /\ Open(i) = data[i].remaining /\ data[i].remaining \in Nat
             /\ SideOf(i) = data[i].side
  <2>1. data[i].remaining \in Nat
    BY <1>4 DEF OrderRec
  <2>2. ~(pc = "match" /\ cur.id = i)
    BY <1>2 DEF MatchingOrder
  <2> QED BY <2>1, <2>2 DEF Open, SideOf
<1>9. ASSUME pc = "match", cur.id \in Ids
      PROVE  /\ Open(cur.id) = cur.remaining /\ SideOf(cur.id) = cur.side
             /\ cur.id \notin order_index
  BY <1>2, <1>5, <1>9 DEF Open, SideOf, MatchingOrder
<1>10. \A i \in Ids : Open(i) > 0 => i \in order_index \/ (pc = "match" /\ cur.id = i)
  BY DEF Open
<1>11. Quantities \in Amount /\ \A i \in Ids : Quantities[i] = Open(i)
  BY <1>3 DEF Quantities, Amount
<1>12. Halves \in SideAmounts /\ \A i \in Ids : Halves[SideOf(i)][i] = Open(i)
  BY <1>3, <1>6 DEF Halves, OnSide, SideAmounts, Amount
<1>13. StatesNow \in States /\ \A i \in Ids : StatesNow[i] = StateOf(i)
  BY DEF StatesNow, StateOf, States
<1>14. order_index \subseteq OpenIds(Quantities)
  BY <1>4, <1>7, <1>8, <1>11 DEF OpenIds
<1> QED BY <1>3, <1>4, <1>5, <1>6, <1>7, <1>8, <1>9, <1>10, <1>11, <1>12, <1>13, <1>14

(* The books p after the step's reports tell of what is then open. *)
Tracks(p) ==
  /\ Told(Reporting(p), Quantities', Halves', StatesNow')
  /\ Follows(p, Reporting(p))

(* A step after which less of one order is open. *)
LEMMA OpenMoves ==
  ASSUME EngineInv, NEW j \in Ids, NEW q \in Nat, q <= Open(j), Open(j)' = Open(j) - q,
         \A i \in Ids : i # j => Open(i)' = Open(i),
         \A i \in Ids : Open(i)' > 0 => SideOf(i)' = SideOf(i)
  PROVE  /\ Quantities' = Cut(Quantities, j, q)
         /\ Halves' = CutSide(Halves, SideOf(j), j, q)
<1> DEFINE w == Quantities
           v == Quantities'
           h == Halves
           g == Halves'
<1>1. /\ w = [i \in Ids |-> Open(i)] /\ v = [i \in Ids |-> Open(i)']
      /\ h = [s \in Sides |-> [i \in Ids |-> IF SideOf(i) = s THEN Open(i) ELSE 0]]
      /\ g = [s \in Sides |-> [i \in Ids |-> IF SideOf(i)' = s THEN Open(i)' ELSE 0]]
  BY DEF Quantities, Halves, OnSide
<1>2. \A i \in Ids : Open(i) \in Nat /\ Open(i)' \in Nat /\ SideOf(i) \in Sides
  BY OpenFacts
<1> HIDE DEF w, v, h, g
<1>3. v = Cut(w, j, q)
  BY <1>1, <1>2 DEF Cut
<1>4. \A s \in Sides, i \in Ids : g[s][i] = IF s = SideOf(j) /\ i = j THEN h[s][i] - q ELSE h[s][i]
  BY <1>1, <1>2
<1>5. g = CutSide(h, SideOf(j), j, q)
  <2> DEFINE S == SideOf(j)
             c == CutSide(h, S, j, q)
  <2>1. S \in Sides /\ h \in [Sides -> [Ids -> Nat]]
    BY <1>1, <1>2
  <2> HIDE DEF S
  <2>2. /\ c = [s \in Sides |-> c[s]] /\ g = [s \in Sides |-> g[s]]
        /\ \A s \in Sides : g[s] = [i \in Ids |-> g[s][i]]
    BY <1>1, <2>1 DEF CutSide
  <2>3. \A s \in Sides : c[s] = [i \in Ids |-> IF s = S /\ i = j THEN h[s][i] - q ELSE h[s][i]]
    BY <2>1 DEF CutSide
  <2>4. \A s \in Sides : g[s] = [i \in Ids |-> IF s = S /\ i = j THEN h[s][i] - q ELSE h[s][i]]
    BY <1>4, <2>2 DEF S
  <2> HIDE DEF c
  <2>5. \A s \in Sides : g[s] = c[s]
    BY <2>3, <2>4
  <2> QED BY <2>2, <2>5 DEF c, S
<1> QED BY <1>3, <1>5 DEF v, w, h, g

(* A step after which the same is open, on the same side and in the same state. *)
LEMMA OpenStays ==
  ASSUME EngineInv, \A i \in Ids : Open(i)' = Open(i),
         \A i \in Ids : Open(i) > 0 => SideOf(i)' = SideOf(i)
  PROVE  Quantities' = Quantities /\ Halves' = Halves
<1>1. \A i \in Ids : Open(i) \in Nat /\ SideOf(i) \in Sides
  BY OpenFacts
<1>2. \A i \in Ids, s \in Sides :
        (IF SideOf(i)' = s THEN Open(i)' ELSE 0) = IF SideOf(i) = s THEN Open(i) ELSE 0
  BY <1>1
<1> QED BY <1>2 DEF Quantities, Halves, OnSide

(* Nothing reported, nothing changed. *)
LEMMA QuietTracks ==
  ASSUME EngineInv, NEW p, Told(p, Quantities, Halves, StatesNow),
         \A i \in Ids : Open(i)' = Open(i),
         \A i \in Ids : Open(i) > 0 => SideOf(i)' = SideOf(i) /\ StateOf(i)' = StateOf(i),
         reports' = <<>>
  PROVE  Tracks(p) /\ Reporting(p) = p
<1>1. Reporting(p) = p
  BY FoldNone, FoldOne DEF Reporting, After
<1>2. Quantities' = Quantities /\ Halves' = Halves
  BY OpenStays
<1>3. \A i \in OpenIds(Quantities) : StatesNow[i] = StatesNow'[i]
  <2>1. \A i \in OpenIds(Quantities) : i \in Ids /\ Open(i) > 0
    BY DEF OpenIds, Quantities
  <2> QED BY <2>1 DEF StatesNow
<1>4. Told(p, Quantities', Halves', StatesNow')
  BY <1>2, <1>3, StatesOfOpen
<1>5. Narrower(p.account, p.account)
  BY NarrowerChain DEF Told, BooksAre
<1> QED BY <1>1, <1>4, <1>5 DEF Tracks, Follows

-----------------------------------------------------------------------------
(* Every step of the engine keeps the records together. *)

(* What Emit and TakeInAndReport report. *)
LEMMA ReportsAre ==
  /\ \A rs : Emit(rs) => reports' = rs
  /\ \A id, qty, rs : TakeInAndReport(id, qty, rs) => reports' = rs
BY DEF Emit, TakeInAndReport

(* cancel_order_immediate *)
LEMMA RemoveTracks ==
  ASSUME EngineInv, NEW p, Told(p, Quantities, Halves, StatesNow),
         NEW id \in order_index, pc # "match", pc' = pc, RemoveOrder(id)
  PROVE  Tracks(p) /\ Reporting(p).account.position = p.account.position
<1> DEFINE o == data[id]
           r == Report("Cancelled", o, o.remaining)
<1>1. /\ id \in Ids /\ o \in OrderRec /\ o.remaining \in Nat /\ Open(id) = o.remaining
      /\ SideOf(id) = o.side /\ o.id = id /\ Open(id) \in Nat
      /\ Quantities[id] = Open(id) /\ Halves[o.side][id] = Open(id)
      /\ Quantities \in Amount /\ Halves \in SideAmounts /\ StatesNow \in States
  BY OpenFacts
<1>2. r \in ReportRec
  BY <1>1, ReportTypes DEF Kinds
<1>3. r.kind = "Cancelled" /\ r.id = id /\ r.side = o.side /\ r.quantity = o.remaining
  BY <1>1 DEF Report
<1>4. order_index' = order_index \ {id} /\ data' = data /\ reports' = <<r>>
  BY ReportsAre DEF RemoveOrder
<1>5. /\ Open(id)' = 0
      /\ \A i \in Ids : i # id => Open(i)' = Open(i)
      /\ \A i \in Ids : Open(i)' > 0 => i \in order_index /\ i \in order_index'
  BY <1>4 DEF Open
<1>6. \A i \in Ids : Open(i)' > 0 => SideOf(i)' = SideOf(i)
  BY <1>4, <1>5 DEF SideOf
<1> HIDE DEF o, r
<1>7. /\ Quantities' = Cut(Quantities, id, o.remaining)
      /\ Halves' = CutSide(Halves, o.side, id, o.remaining)
  <2>1. o.remaining <= Open(id) /\ Open(id)' = Open(id) - o.remaining
    BY <1>1, <1>5
  <2> QED BY <1>1, <1>5, <1>6, <2>1, OpenMoves
<1>8. /\ Told(HandleReport(p, r), Quantities', Halves', StatesNow)
      /\ Follows(p, HandleReport(p, r))
      /\ HandleReport(p, r).account.position = p.account.position
  BY <1>1, <1>2, <1>3, <1>7, EndTold
<1>9. Reporting(p) = HandleReport(p, r)
  BY <1>4, FoldNone, FoldOne DEF Reporting, After
<1>10. \A i \in OpenIds(Quantities)' : StatesNow[i] = StatesNow'[i]
  <2>1. \A i \in OpenIds(Quantities)' : i \in Ids /\ Open(i)' > 0
    BY DEF OpenIds, Quantities
  <2>2. \A i \in Ids : i \in order_index /\ i \in order_index' => StateOf(i)' = StateOf(i)
    BY <1>4 DEF StateOf
  <2> QED BY <1>5, <2>1, <2>2 DEF StatesNow
<1>11. Told(HandleReport(p, r), Quantities', Halves', StatesNow')
  <2>1. OpenIds(Quantities)' = OpenIds(Quantities')
    BY DEF OpenIds
  <2> QED BY <1>8, <1>10, <2>1, StatesOfOpen
<1> QED BY <1>8, <1>9, <1>11 DEF Tracks

(* Only ours are in the book, so a public trade's order is never refused as a
   self-trade and one of ours always is. *)
LEMMA WhoTrades ==
  ASSUME VenueInv, pc = "match", CanMatch
  PROVE  /\ FrontId \in order_index
         /\ SelfTrade(data[FrontId], cur) <=> cur.id # MarketId
         /\ cur.id # MarketId => cur.id \in Ids
         /\ cur.id = MarketId <=> cur.owner = "Market"
<1>1. TypeInv /\ IndexMatchesBook /\ OursOnly /\ MatchingOrder
  BY Zenon DEF VenueInv, EngineInv, TypeInv
<1>2. BookTypes /\ LoopTypes
  BY <1>1, TypeParts DEF TypeInv
<1>3. /\ Facing \in Sides /\ Best(Facing) \in Ticks
      /\ levels[Facing][Best(Facing)] \in Seq(Ids) /\ levels[Facing][Best(Facing)] # <<>>
  BY <1>2, FrontTypes
<1>4. FrontId \in order_index
  <2> DEFINE queue == levels[Facing][Best(Facing)]
  <2>1. Len(queue) > 0 /\ FrontId = queue[1]
    BY <1>3, HeadTailProperties, LenProperties, EmptySeq DEF FrontId
  <2>2. 1 \in 1 .. Len(queue)
    BY <1>3, <2>1, LenProperties
  <2>3. queue[1] \in order_index
    BY <1>1, <1>3, <2>2 DEF IndexMatchesBook
  <2> QED BY <2>1, <2>3
<1>5. data[FrontId].owner = "MarketMaker"
  BY <1>1, <1>4 DEF OursOnly
<1>6. NormalizeOwner["MarketMaker"] # NormalizeOwner["Market"]
  BY PipelineAssumption, Zenon
<1>7. cur.id = MarketId <=> cur.owner = "Market"
  BY <1>1 DEF MatchingOrder
<1>8. cur.id # MarketId => cur.owner = "MarketMaker"
  BY <1>1 DEF OursOnly
<1>9. SelfTrade(data[FrontId], cur) <=> cur.id # MarketId
  <2>1. CASE cur.id = MarketId
    <3>1. NormalizeOwner[data[FrontId].owner] # NormalizeOwner[cur.owner]
      BY <1>5, <1>6, <1>7, <2>1
    <3> QED BY <2>1, <3>1 DEF SelfTrade
  <2>2. CASE cur.id # MarketId
    BY <1>5, <1>8, <2>2 DEF SelfTrade
  <2> QED BY <2>1, <2>2
<1>10. cur.id # MarketId => cur.id \in Ids
  BY <1>2 DEF LoopTypes, OrderRec
<1> QED BY <1>4, <1>7, <1>9, <1>10

(* match_side cancels the rest of an order of ours at a self-trade. *)
LEMMA SelfTradeTracks ==
  ASSUME VenueInv, NEW p, Told(p, Quantities, Halves, StatesNow), CancelSelfTrade
  PROVE  Tracks(p)
<1> DEFINE q == cur.remaining
           r == Report("Cancelled", cur, q)
<1>0. EngineInv /\ pc = "match" /\ CanMatch /\ SelfTrade(data[FrontId], cur)
  BY DEF CancelSelfTrade, VenueInv
<1>1. PICK id \in Ids : id = cur.id
  BY <1>0, WhoTrades
<1>2. /\ Quantities \in Amount /\ Halves \in SideAmounts /\ StatesNow \in States
      /\ cur \in OrderRec /\ q \in Nat /\ cur.side \in Sides
      /\ Open(id) = q /\ SideOf(id) = cur.side /\ id \notin order_index
      /\ Quantities[id] = Open(id) /\ Halves[cur.side][id] = Open(id)
      /\ \A i \in Ids : Open(i) > 0 => i \in order_index \/ cur.id = i
  BY <1>0, <1>1, OpenFacts
<1>3. r \in ReportRec
  BY <1>2, ReportTypes DEF Kinds
<1>4. r.kind = "Cancelled" /\ r.id = id /\ r.side = cur.side /\ r.quantity = q
  BY <1>1 DEF Report
<1>5. /\ order_index' = order_index /\ data' = data /\ reports' = <<r>> /\ pc' = pc
      /\ cur' = [cur EXCEPT !.remaining = 0]
  BY ReportsAre DEF CancelSelfTrade, bookVars
<1>6. cur'.remaining = 0 /\ cur'.id = id
  BY <1>1, <1>2, <1>5 DEF OrderRec
<1>7. /\ Open(id)' = 0
      /\ \A i \in Ids : i # id => Open(i)' = Open(i)
      /\ \A i \in Ids : Open(i)' > 0 => i \in order_index
  BY <1>0, <1>1, <1>2, <1>5, <1>6 DEF Open
<1>8. \A i \in Ids : Open(i)' > 0 => SideOf(i)' = SideOf(i) /\ StateOf(i)' = StateOf(i)
  BY <1>5, <1>7 DEF SideOf, StateOf
<1> HIDE DEF r, q
<1>9. /\ Quantities' = Cut(Quantities, id, q) /\ Halves' = CutSide(Halves, cur.side, id, q)
  <2>1. q <= Open(id) /\ Open(id)' = Open(id) - q
    BY <1>2, <1>7
  <2> QED BY <1>0, <1>1, <1>2, <1>7, <1>8, <2>1, OpenMoves
<1>10. Told(HandleReport(p, r), Quantities', Halves', StatesNow) /\ Follows(p, HandleReport(p, r))
  BY <1>1, <1>2, <1>3, <1>4, <1>9, EndTold
<1>11. Reporting(p) = HandleReport(p, r)
  BY <1>5, FoldNone, FoldOne DEF Reporting, After
<1>12. \A i \in OpenIds(Quantities') : StatesNow[i] = StatesNow'[i]
  BY <1>8 DEF OpenIds, Quantities, StatesNow
<1> QED BY <1>10, <1>11, <1>12, StatesOfOpen DEF Tracks

(* match_side trades a public trade's order with the front order, one of ours. *)
LEMMA MatchTracks ==
  ASSUME VenueInv, NEW p, Told(p, Quantities, Halves, StatesNow), MatchFront
  PROVE  Tracks(p)
<1>0. EngineInv /\ OursOnly /\ pc = "match" /\ CanMatch /\ cur.id = MarketId
  BY WhoTrades DEF MatchFront, VenueInv
<1>1. PICK f \in order_index : f = FrontId
  BY <1>0, WhoTrades
<1> DEFINE o == data[f]
           q == Least(cur.remaining, o.remaining)
           left == o.remaining - q
           m == Report("Trade", cur, q)
           t == Report("Trade", o, q)
           e == Report(IF left = 0 THEN "Filled" ELSE "PartialFill", o, left)
<1>2. /\ f \in Ids /\ o \in OrderRec /\ o.remaining \in Nat /\ o.remaining > 0
      /\ Open(f) = o.remaining /\ SideOf(f) = o.side /\ o.id = f /\ o.side \in Sides
      /\ Quantities[f] = Open(f) /\ Halves[o.side][f] = Open(f)
      /\ Quantities \in Amount /\ Halves \in SideAmounts /\ StatesNow \in States
      /\ cur \in OrderRec /\ cur.remaining \in Nat /\ data \in [Ids -> OrderRec]
      /\ \A i \in Ids : Open(i) > 0 => i \in order_index
  <2>1. \A i \in Ids : i # MarketId
    BY IdsAndTicks
  <2>2. data \in [Ids -> OrderRec]
    BY <1>0, Zenon DEF EngineInv, ETypeOK
  <2> QED BY <1>0, <2>1, <2>2, OpenFacts
<1>3. /\ q \in Nat /\ q > 0 /\ q <= o.remaining /\ left \in Nat /\ left = Open(f) - q
      /\ (left = 0 <=> q = o.remaining)
  BY <1>0, <1>2 DEF Least, CanMatch
<1>4. m \in ReportRec /\ t \in ReportRec /\ e \in ReportRec
  BY <1>2, <1>3, ReportTypes DEF Kinds
<1>5. /\ m.kind = "Trade" /\ m.id = MarketId
      /\ t.kind = "Trade" /\ t.id = f /\ t.side = o.side /\ t.quantity = q
      /\ e.kind = (IF left = 0 THEN "Filled" ELSE "PartialFill") /\ e.id = f
      /\ e.side = o.side /\ e.quantity = left
  BY <1>0, <1>2 DEF Report
<1>6. /\ order_index' = IF left = 0 THEN order_index \ {f} ELSE order_index
      /\ data' = [data EXCEPT ![f].remaining = left]
      /\ reports' = <<m, t, e>> /\ pc' = pc
      /\ cur' = [cur EXCEPT !.remaining = cur.remaining - q]
  BY <1>1, ReportsAre DEF MatchFront
<1>7. /\ cur'.id = MarketId /\ data'[f].remaining = left /\ data'[f].side = o.side
      /\ data'[f].qty = o.qty /\ \A i \in Ids : i # f => data'[i] = data[i]
  BY <1>0, <1>2, <1>6 DEF OrderRec
<1>8. \A i \in Ids : i # MarketId
  BY IdsAndTicks
<1> HIDE DEF o, q, left, m, t, e
<1>9. /\ Open(f)' = left /\ \A i \in Ids : i # f => Open(i)' = Open(i)
      /\ \A i \in Ids : Open(i)' > 0 => i \in order_index'
  <2>1. Open(f)' = left
    <3>1. CASE left = 0
      BY <1>2, <1>6, <1>7, <1>8, <3>1 DEF Open
    <3>2. CASE left # 0
      BY <1>2, <1>3, <1>6, <1>7, <1>8, <3>2 DEF Open
    <3> QED BY <3>1, <3>2
  <2>2. ASSUME NEW i \in Ids, i # f
        PROVE  Open(i)' = Open(i)
    BY <1>0, <1>6, <1>7, <1>8, <2>2 DEF Open
  <2>3. ASSUME NEW i \in Ids, Open(i)' > 0
        PROVE  i \in order_index'
    BY <1>7, <1>8, <2>3 DEF Open
  <2> QED BY <2>1, <2>2, <2>3
<1>10. \A i \in Ids : Open(i)' > 0 => i \in order_index /\ i \in order_index'
  BY <1>6, <1>9
<1>11. \A i \in Ids : Open(i)' > 0 => SideOf(i)' = SideOf(i)
  BY <1>7, <1>10 DEF SideOf, o
<1>12. /\ Quantities' = Cut(Quantities, f, q) /\ Halves' = CutSide(Halves, o.side, f, q)
  <2>1. q <= Open(f) /\ Open(f)' = Open(f) - q
    BY <1>2, <1>3, <1>9
  <2> QED BY <1>0, <1>2, <1>3, <1>9, <1>11, <2>1, OpenMoves
<1> DEFINE p1 == HandleReport(p, m)
           p2 == HandleReport(HandleReport(p1, t), e)
<1>13. Told(p1, Quantities, Halves, StatesNow) /\ Follows(p, p1)
  <2>1. m.kind \in {"Trade", "PartialFill"} \/ (m.kind = "Filled" /\ m.quantity = 0)
    BY <1>5
  <2> QED BY <1>2, <1>4, <1>5, <2>1, MarketTold
<1> HIDE DEF p1
<1>14. /\ Told(p2, Quantities', Halves', FilledSome(StatesNow, f))
       /\ Follows(p1, p2)
  <2>1. /\ t.quantity > 0 /\ t.quantity <= Quantities[t.id] /\ t.id \in Ids
        /\ Halves[t.side][t.id] = Quantities[t.id] /\ e.id = t.id /\ e.side = t.side
        /\ e.kind = (IF t.quantity = Quantities[t.id] THEN "Filled" ELSE "PartialFill")
        /\ e.quantity = Quantities[t.id] - t.quantity /\ t.kind = "Trade"
    BY <1>2, <1>3, <1>5
  <2> QED BY <1>2, <1>4, <1>5, <1>12, <1>13, <2>1, FillTold
<1>15. Follows(p, p2)
  <2>1. p.account \in AccountRec /\ p1.account \in AccountRec /\ p2.account \in AccountRec
    BY <1>13, <1>14 DEF Told, BooksAre
  <2> HIDE DEF p2
  <2>2. Narrower(p.account, p2.account)
    BY <1>13, <1>14, <2>1, NarrowerChain DEF Follows
  <2> QED BY <1>13, <1>14, <2>2 DEF Follows
<1>16. Reporting(p) = p2
  <2> DEFINE p11 == HandleReport(p1, t)
  <2>1. p1 = HandleReport(p, m) /\ p11 = HandleReport(p1, t) /\ p2 = HandleReport(p11, e)
    BY DEF p1
  <2> HIDE DEF p11, p2
  <2>2. After(p, <<m, t, e>>) = p2
    BY <2>1, FoldThree
  <2> QED BY <1>6, <2>2 DEF Reporting, After
<1>17. \A i \in OpenIds(Quantities') : FilledSome(StatesNow, f)[i] = StatesNow'[i]
  <2> SUFFICES ASSUME NEW i \in Ids, Open(i)' > 0
               PROVE  FilledSome(StatesNow, f)[i] = StateOf(i)'
    BY DEF OpenIds, Quantities, StatesNow
  <2>1. i \in order_index /\ i \in order_index'
    BY <1>10
  <2>2. CASE i = f
    <3>1. FilledSome(StatesNow, f)[i] = "PartiallyFilled"
      BY <1>2, <2>2 DEF FilledSome, States
    <3>2. o.remaining <= o.qty /\ o.qty \in Nat
      BY <1>0, <1>2 DEF OursOnly, OrderRec, o
    <3>3. data'[i].remaining # data'[i].qty
      BY <1>2, <1>3, <1>7, <2>2, <3>2
    <3> QED BY <2>1, <3>1, <3>3 DEF StateOf
  <2>3. CASE i # f
    <3>1. FilledSome(StatesNow, f)[i] = StateOf(i)
      BY <1>2, <2>3 DEF FilledSome, StatesNow, States
    <3> QED BY <1>7, <2>1, <2>3, <3>1 DEF StateOf
  <2> QED BY <2>2, <2>3
<1>18. Told(p2, Quantities', Halves', StatesNow')
  <2> HIDE DEF p2
  <2> QED BY <1>14, <1>17, StatesOfOpen
<1> QED BY <1>15, <1>16, <1>18 DEF Tracks

(* match_side has ended: an order of ours rests, is cancelled, or was cancelled in
   the loop and is reported filled once more; a public trade's leaves no record. *)
LEMMA MatchEndTracks ==
  ASSUME VenueInv, NEW p, Told(p, Quantities, Halves, StatesNow), MatchEnd
  PROVE  Tracks(p)
<1>0. /\ EngineInv /\ OursOnly /\ CallsNest /\ pc = "match" /\ pc' # "match"
      /\ MatchingOrder /\ starting_qty \in Nat
  <2>1. EngineInv /\ OursOnly /\ CallsNest /\ pc = "match" /\ pc' = back
    BY DEF MatchEnd, VenueInv
  <2>2. ETypeOK /\ MatchingOrder
    BY <2>1, Zenon DEF EngineInv
  <2>3. LoopTypes
    BY <2>2, TypeParts
  <2> QED BY <2>1, <2>2, <2>3 DEF LoopTypes
<1>1. /\ Quantities \in Amount /\ Halves \in SideAmounts /\ StatesNow \in States
      /\ cur \in OrderRec /\ cur.remaining \in Nat /\ cur.side \in Sides
      /\ data \in [Ids -> OrderRec] /\ order_index \subseteq Ids
      /\ \A i \in Ids : Open(i) > 0 => i \in order_index \/ cur.id = i
      /\ cur.id \notin order_index
      /\ \A i \in Ids : /\ Open(i) \in Nat /\ Quantities[i] = Open(i)
                        /\ SideOf(i) \in Sides /\ Halves[SideOf(i)][i] = Open(i)
                        /\ StatesNow[i] = StateOf(i)
  <2>1. data \in [Ids -> OrderRec]
    BY <1>0, Zenon DEF EngineInv, ETypeOK
  <2> QED BY <1>0, <2>1, OpenFacts DEF MatchingOrder
<1>2. reports' = EndReports(cur, starting_qty)
  BY ReportsAre DEF MatchEnd
<1>3. EndFill(cur) \in ReportRec /\ EndRest(cur) \in ReportRec /\ EndCancel(cur) \in ReportRec
  BY <1>1, ReportTypes DEF Kinds, EndFill, EndRest, EndCancel
<1>4. CASE cur.id = MarketId
  <2>1. ~Rests(cur) /\ ~CancelsRest(cur) /\ MarketId \notin Ids
    BY <1>0, <1>4, IdsAndTicks DEF Rests, CancelsRest, MatchingOrder
  <2>2. order_index' = order_index /\ data' = data
    BY <2>1 DEF MatchEnd, bookVars
  <2>3. \A i \in Ids : Open(i)' = Open(i)
    BY <1>0, <1>4, <2>1, <2>2 DEF Open
  <2>4. \A i \in Ids : Open(i) > 0 => SideOf(i)' = SideOf(i) /\ StateOf(i)' = StateOf(i)
    BY <1>1, <1>4, <2>1, <2>2 DEF SideOf, StateOf
  <2>5. CASE starting_qty > cur.remaining
    <3>1. reports' = <<EndFill(cur)>>
      BY <1>2, <2>1, <2>5, EndReportsAre
    <3>2. /\ EndFill(cur).id = MarketId
          /\ \/ EndFill(cur).kind = "PartialFill"
             \/ EndFill(cur).kind = "Filled" /\ EndFill(cur).quantity = 0
      BY <1>4 DEF EndFill, Report
    <3> DEFINE r == EndFill(cur)
    <3> HIDE DEF r
    <3>3. Told(HandleReport(p, r), Quantities, Halves, StatesNow) /\ Follows(p, HandleReport(p, r))
      <4>1. r.kind \in {"Trade", "PartialFill"} \/ (r.kind = "Filled" /\ r.quantity = 0)
        BY <3>2 DEF r
      <4>2. r \in ReportRec /\ r.id = MarketId
        BY <1>3, <3>2 DEF r
      <4> QED BY <1>1, <4>1, <4>2, MarketTold
    <3>4. Quantities' = Quantities /\ Halves' = Halves
      BY <1>0, <2>3, <2>4, OpenStays
    <3>5. \A i \in OpenIds(Quantities) : StatesNow[i] = StatesNow'[i]
      BY <2>4 DEF OpenIds, Quantities, StatesNow
    <3>6. Told(HandleReport(p, r), Quantities', Halves', StatesNow')
      BY <3>3, <3>4, <3>5, StatesOfOpen
    <3>7. Reporting(p) = HandleReport(p, r)
      BY <3>1, FoldNone, FoldOne DEF Reporting, After, r
    <3> QED BY <3>3, <3>6, <3>7 DEF Tracks
  <2>6. CASE ~(starting_qty > cur.remaining)
    <3>1. reports' = <<>>
      BY <1>2, <2>1, <2>6, EndReportsAre
    <3> QED BY <1>0, <2>3, <2>4, <3>1, QuietTracks
  <2> QED BY <2>5, <2>6
<1>5. ASSUME cur.id # MarketId PROVE Tracks(p)
  <2>1. PICK id \in Ids : id = cur.id
    BY <1>1, <1>5 DEF OrderRec
  <2>2. /\ cur.remaining = 0 \/ cur.remaining = starting_qty
        /\ starting_qty > 0
    BY <1>0, <1>5 DEF OursOnly, MatchingOrder
  <2>3. Open(id) = cur.remaining /\ SideOf(id) = cur.side
    BY <1>0, <2>1, OpenFacts
  <2>4. CASE Rests(cur)
    <3> DEFINE r == EndRest(cur)
    <3>1. cur.remaining > 0 /\ ~(starting_qty > cur.remaining)
      BY <1>0, <1>1, <2>2, <2>4 DEF Rests
    <3>2. reports' = <<r>>
      BY <1>2, <2>4, <3>1, EndReportsAre
    <3>3. r.kind = "Resting" /\ r.id = id
      BY <2>1 DEF EndRest, Report
    <3>4. order_index' = order_index \cup {id} /\ data' = [data EXCEPT ![id] = cur]
      BY <2>1, <2>4 DEF MatchEnd
    <3>5. data'[id] = cur /\ \A i \in Ids : i # id => data'[i] = data[i]
      BY <1>1, <3>4
    <3>6. \A i \in Ids : Open(i)' = Open(i)
      BY <1>0, <1>1, <2>1, <2>3, <3>4, <3>5 DEF Open
    <3>7. \A i \in Ids : Open(i) > 0 => SideOf(i)' = SideOf(i)
      BY <1>1, <2>1, <3>4, <3>5 DEF SideOf
    <3>8. Quantities' = Quantities /\ Halves' = Halves
      BY <1>0, <3>6, <3>7, OpenStays
    <3> HIDE DEF r
    <3>9. /\ Told(HandleReport(p, r), Quantities, Halves, RestsNow(StatesNow, id))
          /\ Follows(p, HandleReport(p, r))
      <4>1. id \in OpenIds(Quantities)
        BY <1>1, <2>1, <2>3, <3>1 DEF OpenIds
      <4> QED BY <1>1, <1>3, <3>3, <4>1, RestTold DEF r
    <3>10. \A i \in OpenIds(Quantities) : RestsNow(StatesNow, id)[i] = StatesNow'[i]
      <4> SUFFICES ASSUME NEW i \in Ids, Open(i) > 0
                   PROVE  RestsNow(StatesNow, id)[i] = StateOf(i)'
        BY DEF OpenIds, Quantities, StatesNow
      <4>1. CASE i = id
        <5>1. StatesNow[id] = IF cur.remaining = cur.qty THEN "Pending" ELSE "PartiallyFilled"
          BY <1>1, <2>1 DEF StateOf
        <5>2. RestsNow(StatesNow, id)[id]
                = IF cur.remaining = cur.qty THEN "Resting" ELSE "PartiallyFilled"
          BY <1>1, <5>1 DEF RestsNow, States
        <5> QED BY <3>4, <3>5, <4>1, <5>2 DEF StateOf
      <4>2. CASE i # id
        <5>1. RestsNow(StatesNow, id)[i] = StateOf(i) /\ i \in order_index
          BY <1>1, <2>1, <4>2 DEF RestsNow, States
        <5> QED BY <3>4, <3>5, <4>2, <5>1 DEF StateOf
      <4> QED BY <4>1, <4>2
    <3>11. Told(HandleReport(p, r), Quantities', Halves', StatesNow')
      BY <3>8, <3>9, <3>10, StatesOfOpen
    <3>12. Reporting(p) = HandleReport(p, r)
      BY <3>2, FoldNone, FoldOne DEF Reporting, After
    <3> QED BY <3>9, <3>11, <3>12 DEF Tracks
  <2>5. CASE ~Rests(cur)
    <3>1. PICK r \in ReportRec : /\ reports' = <<r>> /\ r.kind \in {"Filled", "Cancelled"}
                                 /\ r.id = id /\ r.side = cur.side /\ r.quantity = cur.remaining
      <4>1. CASE cur.remaining = 0
        <5>1. reports' = <<EndFill(cur)>>
          BY <1>2, <2>2, <2>5, <4>1, EndReportsAre DEF CancelsRest
        <5> QED BY <1>3, <2>1, <4>1, <5>1 DEF EndFill, Report
      <4>2. CASE cur.remaining # 0
        <5>1. CancelsRest(cur) /\ ~(starting_qty > cur.remaining)
          BY <1>0, <1>1, <1>5, <2>2, <2>5, <4>2 DEF Rests, CancelsRest
        <5>2. reports' = <<EndCancel(cur)>>
          BY <1>2, <2>5, <5>1, EndReportsAre
        <5> QED BY <1>3, <2>1, <5>2 DEF EndCancel, Report
      <4> QED BY <4>1, <4>2
    <3>2. order_index' = order_index /\ data' = data
      BY <2>5 DEF MatchEnd, bookVars
    <3>3. /\ Open(id)' = 0 /\ \A i \in Ids : i # id => Open(i)' = Open(i)
          /\ \A i \in Ids : Open(i)' > 0 => i \in order_index
      BY <1>0, <1>1, <2>1, <3>2 DEF Open
    <3>4. \A i \in Ids : Open(i)' > 0 => SideOf(i)' = SideOf(i) /\ StateOf(i)' = StateOf(i)
      BY <3>2, <3>3 DEF SideOf, StateOf
    <3>5. /\ Quantities' = Cut(Quantities, id, cur.remaining)
          /\ Halves' = CutSide(Halves, cur.side, id, cur.remaining)
      <4>1. cur.remaining <= Open(id) /\ Open(id)' = Open(id) - cur.remaining
        BY <1>1, <2>3, <3>3
      <4> QED BY <1>0, <1>1, <2>3, <3>3, <3>4, <4>1, OpenMoves
    <3>6. /\ Told(HandleReport(p, r), Quantities', Halves', StatesNow)
          /\ Follows(p, HandleReport(p, r))
      BY <1>1, <2>3, <3>1, <3>5, EndTold
    <3>7. Reporting(p) = HandleReport(p, r)
      BY <3>1, FoldNone, FoldOne DEF Reporting, After
    <3>8. \A i \in OpenIds(Quantities') : StatesNow[i] = StatesNow'[i]
      BY <3>4 DEF OpenIds, Quantities, StatesNow
    <3> QED BY <3>6, <3>7, <3>8, StatesOfOpen DEF Tracks
  <2> QED BY <2>4, <2>5
<1> QED BY <1>4, <1>5

(* The orders in the book as they were, and none of ours being matched. *)
LEMMA BookStill ==
  ASSUME EngineInv, NEW p, Told(p, Quantities, Halves, StatesNow),
         order_index' = order_index, data' = data, reports' = <<>>,
         pc = "match" => cur.id = MarketId, pc' = "match" => cur'.id = MarketId
  PROVE  Tracks(p) /\ Reporting(p) = p
<1>1. \A i \in Ids : i # MarketId
  BY IdsAndTicks
<1>2. \A i \in Ids : Open(i)' = Open(i)
  BY <1>1 DEF Open
<1>3. \A i \in Ids : Open(i) > 0 => i \in order_index
  BY <1>1 DEF Open
<1>4. \A i \in Ids : Open(i) > 0 => SideOf(i)' = SideOf(i) /\ StateOf(i)' = StateOf(i)
  BY <1>3 DEF SideOf, StateOf
<1> QED BY <1>2, <1>4, QuietTracks

(* The public trade eats the queue ahead of us: nothing of ours moves. *)
LEMMA QueueTracks ==
  ASSUME VenueInv, NEW p, Told(p, Quantities, Halves, StatesNow), ConsumeQueueAhead
  PROVE  Tracks(p)
<1>1. /\ EngineInv /\ pc = "match" /\ CanMatch /\ cur.owner = "Market"
      /\ order_index' = order_index /\ data' = data /\ reports' = <<>>
      /\ pc' = pc
  BY ReportsAre DEF ConsumeQueueAhead, VenueInv, QueueStandsAhead
<1>2. cur.id = MarketId
  BY <1>1, WhoTrades
<1>3. cur'.id = cur.id
  <2>1. cur \in OrderRec
    BY <1>1, OpenFacts
  <2>2. \E n : cur' = [cur EXCEPT !.remaining = n]
    BY DEF ConsumeQueueAhead
  <2> QED BY <2>1, <2>2 DEF OrderRec
<1> QED BY <1>1, <1>2, <1>3, BookStill

(* The landings are over; a public trade begins to match. *)
LEMMA LandedTracks ==
  ASSUME VenueInv, NEW p, Told(p, Quantities, Halves, StatesNow), Landed
  PROVE  Tracks(p)
<1>1. EngineInv /\ pc = "deliver" /\ order_index' = order_index /\ data' = data
  BY DEF VenueInv, Landed, bookVars
<1>2. reports' = <<>> /\ (pc' = "match" => cur'.id = MarketId)
  <2>1. CASE ApplyTrade
    <3>1. CASE ev.side \in Sides /\ ev.quantity > 0
      BY <2>1, <3>1, ReportsAre DEF ApplyTrade
    <3>2. CASE ~(ev.side \in Sides /\ ev.quantity > 0)
      BY <2>1, <3>2, ReportsAre DEF ApplyTrade, AfterPrint
    <3> QED BY <3>1, <3>2
  <2>2. CASE pc' = "cancels" /\ Emit(<<>>)
    BY <2>2, ReportsAre
  <2> QED BY <2>1, <2>2 DEF Landed
<1> QED BY <1>1, <1>2, BookStill

(* apply_pending_cancels *)
LEMMA PendingTracks ==
  ASSUME VenueInv, NEW p, Told(p, Quantities, Halves, StatesNow),
         NEW c \in pending, ApplyPendingCancel(c)
  PROVE  Tracks(p)
<1>1. EngineInv /\ pc = "cancels" /\ pc' = pc
  BY DEF VenueInv, ApplyPendingCancel
<1>2. CASE c.id \in order_index
  BY <1>1, <1>2, RemoveTracks DEF ApplyPendingCancel
<1>3. CASE c.id \notin order_index
  <2>1. order_index' = order_index /\ data' = data /\ reports' = <<>>
    BY <1>3, ReportsAre DEF ApplyPendingCancel, bookVars
  <2> QED BY <1>1, <2>1, BookStill
<1> QED BY <1>2, <1>3

(* The ends of apply_pending_cancels and of a quote's event. *)
LEMMA EventEndTracks ==
  ASSUME VenueInv, NEW p, Told(p, Quantities, Halves, StatesNow),
         NoCancelDue \/ ApplyQuote
  PROVE  Tracks(p)
<1>1. /\ EngineInv /\ pc # "match" /\ pc' # "match"
      /\ order_index' = order_index /\ data' = data /\ reports' = <<>>
  BY ReportsAre DEF VenueInv, NoCancelDue, ApplyQuote, bookVars
<1> QED BY <1>1, BookStill

(* Whatever the engine does on its own, the books tell of it. *)
LEMMA WorkingTracks ==
  ASSUME VenueInv, NEW p, Told(p, Quantities, Halves, StatesNow), Working
  PROVE  Tracks(p)
<1>1. ~(\E i \in DOMAIN in_flight : DeliverNext(i))
  <2>1. in_flight = <<>>
    BY DEF VenueInv, CallsNest
  <2> QED BY <2>1, EmptySeq
<1> QED BY <1>1, QueueTracks, SelfTradeTracks, MatchTracks, MatchEndTracks, PendingTracks,
        EventEndTracks, LandedTracks DEF Working

-----------------------------------------------------------------------------
(* The engine inside the pipeline. *)

(* An ignored cancel only ends with no report. *)
LEMMA IgnoredCancel ==
  ASSUME EngineInv, pc = "idle", Emit(<<>>),
         UNCHANGED <<bookVars, quoteVars, clockVars, delayVars, rejected, consumed, pc,
                     matchVars, ev, spent>>
  PROVE  EngineInv'
<1>1. TypeInv /\ IndexMatchesBook /\ NeverCrossed /\ Conserved /\ QuoteInv /\ NoDueCancelAhead
  BY Zenon DEF EngineInv, TypeInv, Conserved, QuoteInv
<1>2. owed' = owed /\ unended' = unended
  BY <1>1, EmitNothing, TypeParts DEF TypeInv
<1>3. UNCHANGED <<levels, ahead, order_index, data, bbo, l2_top, l2_seen, trade_ts, shown,
                  event_counter, now, in_flight, pending, rejected, consumed, pc, back, cur,
                  starting_qty, ev, spent, owed, unended>>
  BY <1>2, Zenon DEF bookVars, quoteVars, clockVars, delayVars, matchVars
<1>4. TypeInv'
  BY <1>1, <1>3, Zenon DEF TypeInv, ETypeOK, CallTypes, InEvent, MatchingOrder
<1>5. Conserved'
  BY <1>1, <1>3, Zenon DEF Conserved, QuantityConserved, PrintsConserved, EveryOrderEnds, Open
<1>6. IndexMatchesBook' /\ NeverCrossed'
  BY <1>1, <1>3, QuietBook DEF BookInv
<1>7. QuoteInv'
  BY <1>1, <1>3, Zenon DEF QuoteInv, OneQuote, DisplayedNotOversold
<1>8. NoDueCancelAhead'
  BY <1>1, <1>3, Zenon DEF NoDueCancelAhead, Due
<1>9. FokCovered'
  BY <1>3 DEF FokCovered
<1> QED BY <1>4, <1>5, <1>6, <1>7, <1>8, <1>9, Zenon DEF EngineInv, TypeInv, Conserved, QuoteInv

(* The order submit_order sends is one the engine takes. *)
LEMMA SentOrder ==
  ASSUME SubmitTypes, to_submit # <<>>
  PROVE  /\ Head(to_submit) \in [side : Sides, price : Ticks, quantity : Nat \ {0}]
         /\ next_id \in Ids /\ view.ts \in Nat
         /\ [id |-> next_id, side |-> Head(to_submit).side, price |-> Head(to_submit).price,
             qty |-> Head(to_submit).quantity, remaining |-> Head(to_submit).quantity,
             type |-> "Limit", tif |-> TimeInForce, owner |-> "MarketMaker"] \in Orders
<1> DEFINE S == [side : Sides, price : Ticks, quantity : Nat \ {0}]
           o == Head(to_submit)
<1>1. to_submit \in Seq(S) /\ view \in Quotes
  BY DEF SubmitTypes
<1> HIDE DEF S
<1>2. o \in S /\ Len(to_submit) >= 1
  BY <1>1, HeadTailProperties, EmptySeq, LenProperties
<1>3. next_id \in Ids /\ view.ts \in Nat
  BY <1>1, <1>2 DEF SubmitTypes, Quotes
<1>4. TimeInForce \in {"Gtc", "Ioc", "Fok"} /\ "MarketMaker" \in Owners
  BY PipelineAssumption, Zenon
<1>5. o.side \in Sides /\ o.price \in Ticks /\ o.price \in Nat /\ o.quantity \in Nat
  BY <1>2, IdsAndTicks DEF S
<1> HIDE DEF o
<1>6. "MarketMaker" # "Market"
  OBVIOUS
<1>7. [id |-> next_id, side |-> o.side, price |-> o.price, qty |-> o.quantity,
       remaining |-> o.quantity, type |-> "Limit", tif |-> TimeInForce,
       owner |-> "MarketMaker"] \in Orders
  BY <1>3, <1>4, <1>5, <1>6 DEF Orders, OrderRec
<1> QED BY <1>2, <1>3, <1>7 DEF o, S

(* Whatever the pipeline does, the engine's invariant is kept. *)
LEMMA EngineKept ==
  ASSUME EngineInv, SubmitTypes, PNext \/ UNCHANGED systemVars
  PROVE  EngineInv'
<1>1. CASE \E top \in Quotes : {next_id, next_id + 1} \subseteq Ids /\ ProcessView(top)
  <2>1. PICK top \in Quotes : ProcessView(top)
    BY <1>1
  <2>2. [kind |-> "l2", quote |-> top, ts |-> top.ts] \in Events
    BY DEF Events, Quotes
  <2>3. ENext \/ UNCHANGED engineVars
    BY <2>1, <2>2 DEF ProcessView, ENext
  <2> QED BY <2>3, EngineInvKept
<1>2. CASE \E e \in Events : e.kind = "trade" /\ ProcessTrade(e)
  BY <1>2, EngineInvKept DEF ProcessTrade, ENext
<1>3. CASE EngineWorks
  BY <1>3, EngineInvKept DEF EngineWorks, ENext
<1>4. CASE \/ TradeDone \/ (\E d \in Decisions(strategy, view) : Decide(d)) \/ CheckSwitch
           \/ RefuseOrder \/ ViewDone
  <2>1. UNCHANGED engineVars
    BY <1>4 DEF TradeDone, Decide, CheckSwitch, RefuseOrder, ViewDone
  <2> QED BY <2>1, EngineInvKept
<1>5. CASE \E id \in to_cancel : CancelNext(id)
  <2>1. PICK id \in to_cancel : CancelNext(id)
    BY <1>5
  <2>2. CASE CancelOrder(id)
    <3>1. id \in Ids
      BY <2>2, OpenFacts DEF CancelOrder
    <3> QED BY <2>2, <3>1, EngineInvKept DEF ENext
  <2>3. CASE ~CancelOrder(id)
    <3>1. /\ pc = "idle" /\ Emit(<<>>)
          /\ UNCHANGED <<bookVars, quoteVars, clockVars, delayVars, rejected, consumed, pc,
                         matchVars, ev, spent>>
      BY <2>1, <2>3, Zenon DEF CancelNext
    <3> QED BY <3>1, IgnoredCancel
  <2> QED BY <2>2, <2>3
<1>6. CASE SubmitOrder
  <2>1. PICK o \in Orders, ts \in Nat : SendOrder(o, ts)
    BY <1>6, SentOrder, Zenon DEF SubmitOrder
  <2> QED BY <2>1, EngineInvKept DEF ENext
<1>7. CASE UNCHANGED systemVars
  <2>1. UNCHANGED engineVars
    BY <1>7 DEF systemVars
  <2> QED BY <2>1, EngineInvKept
<1> QED BY <1>1, <1>2, <1>3, <1>4, <1>5, <1>6, <1>7 DEF PNext, Processing

(* The engine's own steps keep the rest of its half. *)
LEMMA WorkingVenue ==
  ASSUME VenueInv, Working, UNCHANGED <<stage, next_id>>
  PROVE  CallsNest' /\ OursOnly'
<1>0. EngineInv /\ CallsNest /\ OursOnly
  BY DEF VenueInv
<1>1. /\ cur \in OrderRec /\ data \in [Ids -> OrderRec] /\ order_index \subseteq Ids
      /\ LoopTypes /\ MatchingOrder /\ \A i \in Ids : i # MarketId
  <2>1. ETypeOK /\ MatchingOrder
    BY <1>0, Zenon DEF EngineInv
  <2>2. BookTypes /\ LoopTypes
    BY <2>1, TypeParts
  <2> QED BY <2>1, <2>2, IdsAndTicks DEF BookTypes, LoopTypes
<1>2. in_flight = <<>> /\ ~(\E i \in DOMAIN in_flight : DeliverNext(i))
  BY <1>0, EmptySeq DEF CallsNest
<1>3. stage' = stage /\ next_id' = next_id /\ stage \in {"idle", "trade", "view", "cancel", "submit"}
  BY <1>0 DEF CallsNest
<1>4. CASE ConsumeQueueAhead \/ CancelSelfTrade
  <2>1. /\ pc = "match" /\ pc' = pc /\ back' = back /\ starting_qty' = starting_qty
        /\ order_index' = order_index /\ data' = data /\ in_flight' = in_flight
        /\ \E n : cur' = [cur EXCEPT !.remaining = n]
    BY <1>4 DEF ConsumeQueueAhead, CancelSelfTrade, bookVars, delayVars
  <2>2. cur'.id = cur.id /\ cur'.owner = cur.owner /\ cur'.qty = cur.qty
    BY <1>1, <2>1 DEF OrderRec
  <2>3. cur.id # MarketId => cur'.remaining = 0
    <3>1. CASE ConsumeQueueAhead
      BY <1>1, <2>1, <3>1 DEF ConsumeQueueAhead, QueueStandsAhead, MatchingOrder
    <3>2. CASE CancelSelfTrade
      BY <1>1, <3>2 DEF CancelSelfTrade, OrderRec
    <3> QED BY <1>4, <3>1, <3>2
  <2>4. CallsNest'
    BY <1>0, <1>2, <1>3, <2>1, <2>2 DEF CallsNest
  <2>5. OursOnly'
    BY <1>0, <1>3, <2>1, <2>2, <2>3 DEF OursOnly
  <2> QED BY <2>4, <2>5
<1>5. CASE MatchFront
  <2>1. pc = "match" /\ cur.id = MarketId /\ FrontId \in order_index
    BY <1>5, WhoTrades DEF MatchFront
  <2> DEFINE left == data[FrontId].remaining - Least(cur.remaining, data[FrontId].remaining)
  <2>2. /\ pc' = pc /\ back' = back /\ in_flight' = in_flight
        /\ data' = [data EXCEPT ![FrontId].remaining = left]
        /\ order_index' \subseteq order_index
        /\ \E n : cur' = [cur EXCEPT !.remaining = n]
    BY <1>5 DEF MatchFront, delayVars
  <2>3. cur'.id = cur.id
    BY <1>1, <2>2 DEF OrderRec
  <2>4. left <= data[FrontId].remaining
    BY <1>1, <2>1 DEF Least, OrderRec
  <2> HIDE DEF left
  <2>5. \A i \in order_index : /\ data'[i].owner = data[i].owner /\ data'[i].qty = data[i].qty
                               /\ data'[i].remaining = IF i = FrontId THEN left ELSE data[i].remaining
    BY <1>1, <2>1, <2>2 DEF OrderRec
  <2>6. \A i \in order_index : data'[i].remaining <= data'[i].qty
    <3> SUFFICES ASSUME NEW i \in order_index PROVE data'[i].remaining <= data'[i].qty
      OBVIOUS
    <3>1. data[i].remaining <= data[i].qty /\ data[i].remaining \in Nat /\ data[i].qty \in Nat
      BY <1>0, <1>1 DEF OursOnly, OrderRec
    <3>2. left \in Int
      BY <1>1, <2>1 DEF left, Least, OrderRec
    <3> QED BY <2>4, <2>5, <3>1, <3>2
  <2>7. CallsNest'
    BY <1>0, <1>2, <1>3, <2>1, <2>2, <2>3 DEF CallsNest
  <2>8. OursOnly'
    BY <1>0, <1>3, <2>1, <2>2, <2>3, <2>5, <2>6 DEF OursOnly
  <2> QED BY <2>7, <2>8
<1>6. CASE MatchEnd
  <2>1. /\ pc = "match" /\ pc' = back /\ back \in {"idle", "deliver", "cancels"}
        /\ in_flight' = in_flight
    BY <1>1, <1>6 DEF MatchEnd, delayVars, LoopTypes
  <2>2. CallsNest'
    BY <1>0, <1>2, <1>3, <2>1 DEF CallsNest
  <2>3. CASE Rests(cur)
    <3>1. cur.id # MarketId /\ cur.id \in Ids
      BY <1>1, <2>3 DEF Rests, OrderRec
    <3>2. order_index' = order_index \cup {cur.id} /\ data' = [data EXCEPT ![cur.id] = cur]
      BY <1>6, <2>3 DEF MatchEnd
    <3>3. data'[cur.id] = cur /\ \A i \in Ids : i # cur.id => data'[i] = data[i]
      BY <1>1, <3>1, <3>2
    <3>4. cur.owner = "MarketMaker" /\ cur.id < next_id /\ cur.remaining <= cur.qty
      <4>1. cur.remaining \in {0, starting_qty} /\ starting_qty <= cur.qty /\ cur.qty \in Nat
        BY <1>0, <1>1, <2>1, <3>1 DEF OursOnly, OrderRec
      <4> QED BY <1>0, <2>1, <3>1, <4>1 DEF OursOnly
    <3>5. \A i \in order_index' :
            data'[i].owner = "MarketMaker" /\ i < next_id /\ data'[i].remaining <= data'[i].qty
      BY <1>0, <1>1, <3>2, <3>3, <3>4 DEF OursOnly
    <3> QED BY <1>3, <2>1, <2>2, <3>5 DEF OursOnly
  <2>4. CASE ~Rests(cur)
    <3>1. order_index' = order_index /\ data' = data
      BY <1>6, <2>4 DEF MatchEnd, bookVars
    <3> QED BY <1>0, <1>3, <2>1, <2>2, <3>1 DEF OursOnly
  <2> QED BY <2>3, <2>4
<1>7. CASE \E c \in pending : ApplyPendingCancel(c)
  <2>1. /\ pc = "cancels" /\ pc' = pc /\ in_flight' = in_flight
        /\ data' = data /\ order_index' \subseteq order_index
    BY <1>7 DEF ApplyPendingCancel, RemoveOrder, bookVars
  <2> QED BY <1>0, <1>2, <1>3, <2>1 DEF CallsNest, OursOnly
<1>8. CASE NoCancelDue \/ ApplyQuote
  <2>1. /\ pc \in {"cancels", "quote"} /\ pc' \in {"idle", "quote"} /\ in_flight' = in_flight
        /\ data' = data /\ order_index' = order_index
    BY <1>8 DEF NoCancelDue, ApplyQuote, bookVars, delayVars
  <2> QED BY <1>0, <1>2, <1>3, <2>1 DEF CallsNest, OursOnly
<1>9. CASE Landed
  <2>1. /\ pc = "deliver" /\ in_flight' = in_flight /\ data' = data /\ order_index' = order_index
    BY <1>9 DEF Landed, bookVars, delayVars
  <2>2. \/ pc' = "match" /\ cur'.id = MarketId /\ back' = "cancels"
        \/ pc' = "cancels"
    <3>1. CASE ApplyTrade
      <4>1. CASE ev.side \in Sides /\ ev.quantity > 0
        BY <3>1, <4>1 DEF ApplyTrade, AfterPrint
      <4>2. CASE ~(ev.side \in Sides /\ ev.quantity > 0)
        BY <3>1, <4>2 DEF ApplyTrade, AfterPrint
      <4> QED BY <4>1, <4>2
    <3> QED BY <1>9, <3>1 DEF Landed
  <2> QED BY <1>0, <1>2, <1>3, <2>1, <2>2 DEF CallsNest, OursOnly
<1> QED BY <1>2, <1>4, <1>5, <1>6, <1>7, <1>8, <1>9 DEF Working

-----------------------------------------------------------------------------
(* An order on its way in: reserved, known, on record, then reported on. *)

PutSide(h, side, i, n) == [h EXCEPT ![side][i] = n]
NewState(y, i) == [y EXCEPT ![i] = "Pending"]

(* What is open once i is open with q, or again with less. *)
LEMMA PutFacts ==
  ASSUME NEW w \in Amount, NEW h \in SideAmounts, NEW side \in Sides, NEW i \in Ids,
         NEW q \in Nat
  PROVE  /\ Put(w, i, q) \in Amount /\ Put(w, i, q)[i] = q
         /\ PutSide(h, side, i, q) \in SideAmounts /\ PutSide(h, side, i, q)[side][i] = q
         /\ \A n \in 0 .. q : /\ Cut(Put(w, i, q), i, n) = Put(w, i, q - n)
                              /\ CutSide(PutSide(h, side, i, q), side, i, n)
                                   = PutSide(h, side, i, q - n)
         /\ w[i] = 0 => Put(w, i, 0) = w
         /\ h[side][i] = 0 => PutSide(h, side, i, 0) = h
<1>1. h[side] \in [Ids -> Nat] /\ h \in [Sides -> [Ids -> Nat]]
  BY DEF SideAmounts, Amount
<1>2. Put(w, i, q) \in Amount /\ Put(w, i, q)[i] = q
  BY DEF Put, Amount
<1>3. PutSide(h, side, i, q) \in SideAmounts /\ PutSide(h, side, i, q)[side][i] = q
  BY <1>1 DEF PutSide, SideAmounts, Amount
<1>4. ASSUME NEW n \in 0 .. q
      PROVE  /\ Cut(Put(w, i, q), i, n) = Put(w, i, q - n)
             /\ CutSide(PutSide(h, side, i, q), side, i, n) = PutSide(h, side, i, q - n)
  <2>1. Cut(Put(w, i, q), i, n) = Put(w, i, q - n)
    BY DEF Put, Cut, Amount
  <2>2. CutSide(PutSide(h, side, i, q), side, i, n) = PutSide(h, side, i, q - n)
    BY <1>1 DEF PutSide, CutSide
  <2> QED BY <2>1, <2>2
<1>5. w[i] = 0 => Put(w, i, 0) = w
  BY DEF Put, Amount
<1>6. h[side][i] = 0 => PutSide(h, side, i, 0) = h
  BY <1>1 DEF PutSide
<1> QED BY <1>2, <1>3, <1>4, <1>5, <1>6

(* Sums with order i put in. *)
LEMMA PutTotals ==
  ASSUME NEW h \in SideAmounts, NEW side \in Sides, NEW i \in Ids, NEW q \in Nat,
         h[side][i] = 0, NEW s \in Sides
  PROVE  Total(PutSide(h, side, i, q)[s]) = Total(h[s]) + (IF s = side THEN q ELSE 0)
<1>1. h[s] \in Amount /\ h[s][i] \in Nat
  BY DEF SideAmounts, Amount
<1>2. Total(h[s]) \in Nat /\ Total(Put(h[s], i, q)) = Total(h[s]) - h[s][i] + q
  BY <1>1, TotalMoves
<1>3. PutSide(h, side, i, q)[s] = IF s = side THEN Put(h[s], i, q) ELSE h[s]
  BY DEF PutSide, Put, SideAmounts, Amount
<1> QED BY <1>1, <1>2, <1>3

(* handle_submitted, on the side of the books: begin_order, on_order_submitted and
   the reservation. *)
LEMMA EnterTold ==
  ASSUME NEW w \in Amount, NEW h \in SideAmounts, NEW y \in States, NEW p,
         Told(p, w, h, y), NEW i \in Ids, w[i] = 0, NEW side \in Sides, h[side][i] = 0,
         NEW q \in Nat \ {0}, NEW b,
         b.account = IF PositionLimit > 0 /\ q > 0 THEN Reserve(p.account, side, q)
                     ELSE p.account,
         b.strategy = OnOrderSubmitted(p.strategy, i, q),
         b.ledger = OpenOrder(p.ledger, i), b.mismatches = p.mismatches
  PROVE  /\ Told(b, Put(w, i, q), PutSide(h, side, i, q), NewState(y, i))
         /\ b.ledger.cancelling = p.ledger.cancelling
<1> DEFINE v == Put(w, i, q)
           g == PutSide(h, side, i, q)
<1>1. /\ v \in Amount /\ v[i] = q /\ g \in SideAmounts
      /\ \A j \in Ids : j # i => v[j] = w[j]
  BY PutFacts DEF Put, Amount
<1>2. OpenIds(v) = OpenIds(w) \cup {i}
  <2> HIDE DEF v
  <2> QED BY <1>1 DEF OpenIds
<1>3. /\ p.account \in AccountRec /\ p.account.position \in Int
      /\ p.account.pending \in [Sides -> Nat]
  BY DEF Told, BooksAre, AccountRec
<1>4. b.account \in AccountRec /\ b.account.position = p.account.position
  BY <1>3 DEF Reserve, AccountRec
<1>5. PositionLimit > 0 => \A s \in Sides : b.account.pending[s] = Total(g[s])
  <2> SUFFICES ASSUME PositionLimit > 0, NEW s \in Sides
               PROVE  b.account.pending[s] = Total(g[s])
    OBVIOUS
  <2>1. b.account.pending[s] = p.account.pending[s] + (IF s = side THEN q ELSE 0)
    BY <1>3 DEF Reserve, AccountRec
  <2>2. p.account.pending[s] = Total(h[s])
    BY DEF Told, BooksAre
  <2>3. Total(g[s]) = Total(h[s]) + (IF s = side THEN q ELSE 0)
    BY PutTotals
  <2> QED BY <2>1, <2>2, <2>3
<1> HIDE DEF v, g
<1>6. MakerIs(b.strategy, Holding(v), p.account.position)
  <2>1. MakerIs(p.strategy, Holding(w), p.account.position)
    BY DEF Told, BooksAre
  <2>2. /\ b.strategy.open = [j \in {i} \cup DOMAIN p.strategy.open |->
                               IF j = i THEN q ELSE p.strategy.open[j]]
        /\ b.strategy.position = p.strategy.position
        /\ b.strategy.cancel_pending = p.strategy.cancel_pending
        /\ DOMAIN b.strategy = DOMAIN p.strategy
    BY <2>1 DEF MakerIs, OnOrderSubmitted
  <2>3. [j \in {i} \cup DOMAIN Holding(w) |-> IF j = i THEN q ELSE Holding(w)[j]] = Holding(v)
    <3>1. \A j \in OpenIds(w) : j \in Ids
      BY DEF OpenIds
    <3> QED BY <1>1, <1>2, <3>1 DEF Holding
  <2> QED BY <2>1, <2>2, <2>3 DEF MakerIs
<1>7. LedgerIs(b.ledger, OpenIds(v), NewState(y, i)) /\ b.ledger.cancelling = p.ledger.cancelling
  <2>1. LedgerIs(p.ledger, OpenIds(w), y)
    BY DEF Told
  <2>2. /\ b.ledger.audit = [j \in {i} \cup DOMAIN p.ledger.audit |->
                              IF j = i THEN "Pending" ELSE p.ledger.audit[j]]
        /\ b.ledger.cancelling = p.ledger.cancelling /\ DOMAIN b.ledger = DOMAIN p.ledger
    BY <2>1 DEF LedgerIs, OpenOrder
  <2>3. [j \in {i} \cup OpenIds(w) |-> IF j = i THEN "Pending" ELSE p.ledger.audit[j]]
          = [j \in OpenIds(v) |-> NewState(y, i)[j]]
    <3>1. \A j \in OpenIds(w) : j \in Ids
      BY DEF OpenIds
    <3> QED BY <1>2, <2>1, <3>1 DEF LedgerIs, NewState, States
  <2>4. DOMAIN p.ledger.audit = OpenIds(w)
    BY <2>1 DEF LedgerIs
  <2> QED BY <2>1, <2>2, <2>3, <2>4 DEF LedgerIs
<1>8. p.ledger.cancelling \subseteq OpenIds(v) /\ b.mismatches = 0
  BY <1>2 DEF Told, BooksAre
<1> QED BY <1>4, <1>5, <1>6, <1>7, <1>8 DEF Told, BooksAre, v, g

(* handle_rejected_order *)
LEMMA RejectTold ==
  ASSUME NEW w \in Amount, NEW h \in SideAmounts, NEW y \in States, NEW p,
         Told(p, w, h, y), DOMAIN p = {"account", "ledger", "strategy", "mismatches"},
         NEW i \in Ids, NEW o, o.side \in Sides, o.quantity \in Nat,
         o.quantity = w[i], h[o.side][i] = w[i]
  PROVE  /\ Told(HandleRejectedOrder(p, i, o), Cut(w, i, o.quantity),
                 CutSide(h, o.side, i, o.quantity), y)
         /\ Follows(p, HandleRejectedOrder(p, i, o))
<1> DEFINE r == [kind |-> "Rejected", id |-> i, side |-> o.side, quantity |-> o.quantity]
           b == HandleRejectedOrder(p, i, o)
           q == o.quantity
           v == Cut(w, i, q)
           g == CutSide(h, o.side, i, q)
<1>1. /\ b.account = Release(p.account, o.side, q)
      /\ b.strategy = OnOrderUpdate(p.strategy, r)
      /\ b.ledger = OnReport(p.ledger, r, TRUE)
      /\ b.mismatches = p.mismatches
  BY DEF HandleRejectedOrder
<1>2. /\ p.account \in AccountRec /\ MakerIs(p.strategy, Holding(w), p.account.position)
      /\ PositionLimit > 0 => \A s \in Sides : p.account.pending[s] = Total(h[s])
      /\ p.mismatches = 0 /\ LedgerIs(p.ledger, OpenIds(w), y)
      /\ p.ledger.cancelling \subseteq OpenIds(w)
  BY DEF Told, BooksAre
<1>3. /\ r.kind = "Rejected" /\ r.id = i /\ r.kind \in Ended /\ EndsCancel(r.kind)
      /\ Closes(r.kind) /\ StateAfter(r.kind) = "Rejected" /\ "Rejected" \in Terminal
  BY DEF Ended, EndsCancel, Closes, IsTerminal, Terminal, StateAfter
<1>4. OpenIds(v) = OpenIds(w) \ {i} /\ OpenIds(w) \in SUBSET Ids /\ v \in Amount
  BY CutFacts
<1> HIDE DEF b, r
<1>5. /\ b.account \in AccountRec /\ b.account.position = p.account.position
      /\ PositionLimit > 0 => \A s \in Sides :
           /\ b.account.pending[s] = Total(g[s])
           /\ b.account.pending[s] = p.account.pending[s] - (IF s = o.side THEN q ELSE 0)
  <2>1. q \in Nat /\ q <= h[o.side][i]
    OBVIOUS
  <2> HIDE DEF q
  <2> QED BY <1>1, <1>2, <2>1, ReleaseExact
<1>6. MakerIs(b.strategy, Holding(v), p.account.position)
  <2>1. MakerIs(b.strategy, Without1(Holding(w), i), p.account.position)
    BY <1>1, <1>2, <1>3, UpdateCases
  <2>2. Holding(v) = Without1(Holding(w), i)
    <3>1. ~(w[i] > q) /\ q <= w[i] /\ q \in Nat
      BY DEF Amount
    <3> HIDE DEF q
    <3> QED BY <3>1, OpenAfter
  <2> QED BY <2>1, <2>2
<1>7. /\ LedgerIs(b.ledger, OpenIds(w) \ {i}, y)
      /\ b.ledger.cancelling = p.ledger.cancelling \ {i}
  <2> DEFINE l == p.ledger
             m == b.ledger
             forgot == [l EXCEPT !.cancelling = @ \ {r.id}]
             moved == Transition(forgot, r.id, "Rejected")
             D == OpenIds(w)
  <2>1. DOMAIN l.audit = D /\ DOMAIN l = {"audit", "cancelling", "invalid", "orphans"}
    BY <1>2 DEF LedgerIs
  <2>2. /\ forgot.audit = l.audit /\ DOMAIN forgot = DOMAIN l
        /\ forgot.cancelling = l.cancelling \ {i}
    BY <1>3, <2>1
  <2>3. m = IF r.id \in DOMAIN l.audit
            THEN [moved EXCEPT !.audit = Restrict(@, DOMAIN @ \ {r.id})]
            ELSE [forgot EXCEPT !.orphans = @ + 1]
    BY <1>1, <1>3 DEF OnReport
  <2> HIDE DEF forgot
  <2>4. CASE i \in D
    <3>1. moved = [forgot EXCEPT !.audit[i] = "Rejected"]
      BY <1>3 DEF Transition, Allowed
    <3>2. /\ moved.audit = [l.audit EXCEPT ![i] = "Rejected"] /\ DOMAIN moved = DOMAIN l
          /\ moved.cancelling = forgot.cancelling
      BY <2>1, <2>2, <3>1
    <3> HIDE DEF moved
    <3>3. m = [moved EXCEPT !.audit = Restrict(@, DOMAIN @ \ {i})]
      BY <1>3, <2>1, <2>3, <2>4
    <3>4. /\ m.audit = Restrict(moved.audit, DOMAIN moved.audit \ {i})
          /\ DOMAIN m = DOMAIN l /\ m.cancelling = moved.cancelling
      BY <2>1, <3>2, <3>3
    <3>5. DOMAIN moved.audit = D /\ \A j \in D \ {i} : moved.audit[j] = y[j]
      BY <1>2, <2>1, <3>2 DEF LedgerIs
    <3>6. m.audit = [j \in D \ {i} |-> y[j]]
      BY <3>4, <3>5 DEF Restrict
    <3> QED BY <2>1, <2>2, <3>2, <3>4, <3>6 DEF LedgerIs
  <2>5. CASE i \notin D
    <3>1. m = [forgot EXCEPT !.orphans = @ + 1]
      BY <1>3, <2>1, <2>3, <2>5
    <3>2. m.audit = l.audit /\ DOMAIN m = DOMAIN l /\ m.cancelling = forgot.cancelling
      BY <2>1, <2>2, <3>1
    <3>3. D \ {i} = D
      BY <2>5
    <3> QED BY <1>2, <2>1, <2>2, <3>2, <3>3 DEF LedgerIs
  <2> QED BY <2>4, <2>5
<1>8. Narrower(p.account, b.account)
  <2>1. "Buy" \in Sides /\ "Sell" \in Sides /\ q \in Nat
        /\ p.account.position \in Int /\ p.account.pending \in [Sides -> Nat]
    BY <1>2 DEF Sides, AccountRec
  <2> HIDE DEF q
  <2> QED BY <1>5, <2>1 DEF Narrower
<1> QED BY <1>1, <1>2, <1>4, <1>5, <1>6, <1>7, <1>8 DEF Told, BooksAre, Follows, b


(* A step after which one more order is open, or none. *)
LEMMA PutMoves ==
  ASSUME EngineInv, NEW j \in Ids, NEW n \in Nat, NEW S \in Sides, Open(j) = 0, Open(j)' = n,
         n > 0 => SideOf(j)' = S,
         \A i \in Ids : i # j => Open(i)' = Open(i),
         \A i \in Ids : i # j /\ Open(i) > 0 => SideOf(i)' = SideOf(i)
  PROVE  Quantities' = Put(Quantities, j, n) /\ Halves' = PutSide(Halves, S, j, n)
<1> DEFINE w == Quantities
           v == Quantities'
           h == Halves
           g == Halves'
           c == PutSide(h, S, j, n)
<1>1. /\ w = [i \in Ids |-> Open(i)] /\ v = [i \in Ids |-> Open(i)']
      /\ h = [s \in Sides |-> [i \in Ids |-> IF SideOf(i) = s THEN Open(i) ELSE 0]]
      /\ g = [s \in Sides |-> [i \in Ids |-> IF SideOf(i)' = s THEN Open(i)' ELSE 0]]
  BY DEF Quantities, Halves, OnSide
<1>2. \A i \in Ids : Open(i) \in Nat /\ SideOf(i) \in Sides
  BY OpenFacts
<1> HIDE DEF w, v, h, g
<1>3. v = Put(w, j, n)
  BY <1>1, <1>2 DEF Put
<1>4. \A s \in Sides, i \in Ids : g[s][i] = IF s = S /\ i = j THEN n ELSE h[s][i]
  <2> SUFFICES ASSUME NEW s \in Sides, NEW i \in Ids
               PROVE  g[s][i] = IF s = S /\ i = j THEN n ELSE h[s][i]
    OBVIOUS
  <2>1. /\ g[s][i] = IF SideOf(i)' = s THEN Open(i)' ELSE 0
        /\ h[s][i] = IF SideOf(i) = s THEN Open(i) ELSE 0
    BY <1>1
  <2>2. CASE i = j
    BY <2>1, <2>2
  <2>3. CASE i # j
    BY <1>2, <2>1, <2>3
  <2> QED BY <2>2, <2>3
<1>5. h \in [Sides -> [Ids -> Nat]]
  BY <1>1, <1>2
<1>6. /\ c = [s \in Sides |-> c[s]] /\ g = [s \in Sides |-> g[s]]
      /\ \A s \in Sides : g[s] = [i \in Ids |-> g[s][i]]
  BY <1>1, <1>5 DEF PutSide
<1>7. \A s \in Sides : c[s] = [i \in Ids |-> IF s = S /\ i = j THEN n ELSE h[s][i]]
  BY <1>5 DEF PutSide
<1>8. \A s \in Sides : g[s] = [i \in Ids |-> IF s = S /\ i = j THEN n ELSE h[s][i]]
  BY <1>4, <1>6
<1> HIDE DEF c
<1>9. \A s \in Sides : g[s] = c[s]
  BY <1>7, <1>8
<1> QED BY <1>3, <1>6, <1>9 DEF v, w, h, g, c

(* The four ways an order of ours can go into the engine, n of it then open. *)
Refusal(o, n) == n = 0 /\ rejected' # rejected /\ reports' = <<>>
Killed(o, n) ==
  n = 0 /\ rejected' = rejected /\ reports' = <<Report("Cancelled", o, o.remaining)>>
Untouched(o, n) ==
  n = o.remaining /\ rejected' = rejected /\ reports' = <<>> /\ StateOf(o.id)' = "Pending"
Taken(o, n) ==
  /\ n < o.remaining /\ rejected' = rejected
  /\ reports' = <<Report("Trade", o, o.remaining - n),
                  Report(IF n = 0 THEN "Filled" ELSE "PartialFill", o, n)>>
  /\ n > 0 => StateOf(o.id)' = "PartiallyFilled"

Sent(o, n) ==
  /\ Quantities' = Put(Quantities, o.id, n)
  /\ Halves' = PutSide(Halves, o.side, o.id, n)
  /\ Quantities[o.id] = 0 /\ Halves[o.side][o.id] = 0
  /\ \A i \in Ids : i # o.id /\ Open(i) > 0 => StateOf(i)' = StateOf(i)
  /\ Refusal(o, n) \/ Killed(o, n) \/ Untouched(o, n) \/ Taken(o, n)

(* send_order without latency *)
LEMMA SendMoves ==
  ASSUME EngineInv, OrderLatency = 0, NEW o \in Orders, o.id \in Ids, o.id \notin order_index,
         o.remaining = o.qty, o.remaining > 0, NEW ts, SendOrder(o, ts)
  PROVE  /\ \E n \in 0 .. o.remaining : Sent(o, n)
         /\ order_index' = order_index /\ data' = data /\ in_flight' = in_flight
         /\ pending' = pending
         /\ \/ pc' = "idle"
            \/ /\ pc' = "match" /\ back' = "idle" /\ cur'.id = o.id
               /\ cur'.owner = o.owner /\ cur'.remaining = starting_qty'
               /\ starting_qty' <= cur'.qty
<1> DEFINE id == o.id
<1>1. /\ pc = "idle" /\ SendOrderNow(o, "idle") /\ in_flight' = in_flight
      /\ order_index' = order_index /\ data' = data /\ pending' = pending
  BY DEF SendOrder, SendOrderNow, RejectOrder, KillOrder, TakeExternal, bookVars
<1>2. /\ o \in OrderRec /\ o.remaining \in Nat /\ o.side \in Sides /\ o.qty \in Nat
  BY DEF Orders, OrderRec
<1>3. /\ order_index \subseteq Ids /\ \A i \in Ids : Open(i) \in Nat
      /\ rejected \in Nat /\ bbo \in SUBSET Quotes
  BY OpenFacts, Zenon DEF EngineInv, ETypeOK
<1>4. \A i \in Ids : Open(i) = IF i \in order_index THEN data[i].remaining ELSE 0
  <2>1. \A i \in order_index : data[i].remaining \in Nat
    BY OpenFacts
  <2> QED BY <1>1, <2>1 DEF Open
<1>5. Open(id) = 0 /\ Quantities[id] = 0 /\ Halves[o.side][id] = 0
  BY <1>4, <1>2 DEF Quantities, Halves, OnSide
<1>6. \A i \in Ids : Open(i) > 0 => i \in order_index /\ i # id
  BY <1>4
<1>7. \A i \in Ids : i \in order_index => SideOf(i)' = SideOf(i) /\ StateOf(i)' = StateOf(i)
  BY <1>1 DEF SideOf, StateOf
<1>8. ASSUME pc' = "idle"
      PROVE  Quantities' = Put(Quantities, id, 0) /\ Halves' = PutSide(Halves, o.side, id, 0)
  <2>1. \A i \in Ids : Open(i)' = Open(i)
    <3>1. \A i \in order_index : data[i].remaining \in Nat
      BY OpenFacts
    <3> QED BY <1>1, <1>4, <1>8, <3>1 DEF Open
  <2> QED BY <1>2, <1>5, <1>6, <1>7, <2>1, PutMoves
<1>9. CASE RejectOrder(o, "idle")
  <2>1. rejected' # rejected /\ reports' = <<>> /\ pc' = "idle"
    BY <1>3, <1>9, ReportsAre DEF RejectOrder
  <2>2. Sent(o, 0)
    BY <1>5, <1>6, <1>7, <1>8, <2>1 DEF Sent, Refusal
  <2> QED BY <1>1, <1>2, <2>1, <2>2
<1>10. CASE KillOrder(o, "idle")
  <2>1. /\ rejected' = rejected /\ reports' = <<Report("Cancelled", o, o.remaining)>>
        /\ pc' = "idle"
    BY <1>10, ReportsAre DEF KillOrder
  <2>2. Sent(o, 0)
    BY <1>5, <1>6, <1>7, <1>8, <2>1 DEF Sent, Killed
  <2> QED BY <1>1, <1>2, <2>1, <2>2
<1>11. CASE TakeExternal(o, "idle")
  <2> DEFINE traded == Least(o.remaining, ExternalAvailable(o))
             n == o.remaining - traded
             rs == IF traded = 0 THEN <<>>
                   ELSE <<Report("Trade", o, traded),
                          Report(IF n = 0 THEN "Filled" ELSE "PartialFill", o, n)>>
  <2>1. traded \in 0 .. o.remaining /\ n \in 0 .. o.remaining /\ traded = o.remaining - n
    BY <1>2, <1>3, ExternalBound DEF Least
  <2>2. /\ rejected' = rejected /\ reports' = rs
        /\ n = 0 => pc' = "idle"
        /\ n # 0 => /\ pc' = "match" /\ back' = "idle" /\ cur' = [o EXCEPT !.remaining = n]
                    /\ starting_qty' = n
    BY <1>11, ReportsAre DEF TakeExternal
  <2> HIDE DEF traded
  <2>3. n # 0 => /\ cur'.id = id /\ cur'.owner = o.owner /\ cur'.remaining = n
                 /\ cur'.side = o.side /\ cur'.qty = o.qty
    BY <1>2, <2>2 DEF OrderRec
  <2>4. Quantities' = Put(Quantities, id, n) /\ Halves' = PutSide(Halves, o.side, id, n)
    <3>1. CASE n = 0
      BY <1>8, <2>2, <3>1
    <3>2. CASE n # 0
      <4>1. Open(id)' = n /\ SideOf(id)' = o.side
        BY <1>1, <2>1, <2>2, <2>3, <3>2 DEF Open, SideOf
      <4>2. \A i \in Ids : i # id => Open(i)' = Open(i)
        <5>1. \A i \in order_index : data[i].remaining \in Nat
          BY OpenFacts
        <5> QED BY <1>1, <1>4, <2>2, <2>3, <3>2, <5>1 DEF Open
      <4>3. n \in Nat /\ \A i \in Ids : i # id /\ Open(i) > 0 => SideOf(i)' = SideOf(i)
        BY <1>6, <1>7, <2>1
      <4> HIDE DEF n
      <4> QED BY <1>2, <1>5, <4>1, <4>2, <4>3, PutMoves
    <3> QED BY <3>1, <3>2
  <2>5. Sent(o, n)
    <3>1. CASE traded = 0
      <4>1. n = o.remaining /\ reports' = <<>> /\ StateOf(id)' = "Pending"
        <5>1. n = o.qty /\ n # 0 /\ reports' = <<>>
          BY <1>2, <2>1, <2>2, <3>1
        <5>2. cur'.remaining = cur'.qty /\ id \notin order_index'
          BY <1>1, <2>3, <5>1
        <5> QED BY <1>2, <5>1, <5>2 DEF StateOf
      <4> QED BY <1>5, <1>6, <1>7, <2>2, <2>4, <4>1 DEF Sent, Untouched
    <3>2. CASE traded # 0
      <4>1. n < o.remaining /\ reports' = <<Report("Trade", o, o.remaining - n),
                                Report(IF n = 0 THEN "Filled" ELSE "PartialFill", o, n)>>
        BY <1>2, <2>1, <2>2, <3>2
      <4>2. n > 0 => StateOf(id)' = "PartiallyFilled"
        <5> SUFFICES ASSUME n > 0 PROVE StateOf(id)' = "PartiallyFilled"
          OBVIOUS
        <5>1. cur'.remaining # cur'.qty /\ id \notin order_index'
          BY <1>1, <1>2, <2>3, <4>1
        <5> QED BY <5>1 DEF StateOf
      <4> HIDE DEF n
      <4> QED BY <1>5, <1>6, <1>7, <2>2, <2>4, <4>1, <4>2 DEF Sent, Taken
    <3> QED BY <3>1, <3>2
  <2>6. \/ pc' = "idle"
        \/ /\ pc' = "match" /\ back' = "idle" /\ cur'.id = id
           /\ cur'.owner = o.owner /\ cur'.remaining = starting_qty'
           /\ starting_qty' <= cur'.qty
    BY <1>2, <2>1, <2>2, <2>3
  <2> HIDE DEF n
  <2> QED BY <1>1, <2>1, <2>5, <2>6
<1> QED BY <1>1, <1>9, <1>10, <1>11 DEF SendOrderNow

(* submit_order, passed: the books tell of the order as the engine took it, and the
   reports inside the call only narrow what the books had with it reserved. *)
LEMMA SubmitTracks ==
  ASSUME VenueInv, SubmitTypes, OrderLatency = 0, SubmitOrder,
         Told(Books, Quantities, Halves, StatesNow)
  PROVE  /\ Told(Books', Quantities', Halves', StatesNow')
         /\ Narrower(Entered(next_id, Head(to_submit)).account, account')
         /\ ledger'.cancelling \subseteq ledger.cancelling
         /\ pending' = pending /\ order_index' = order_index
         /\ CallsNest' /\ OursOnly'
<1> DEFINE o == Head(to_submit)
           q == o.quantity
           b == Entered(next_id, o)
           sent == Reporting(b)
           z == NewState(StatesNow, next_id)
<1>0. PICK x \in Orders :
        x = [id |-> next_id, side |-> o.side, price |-> o.price, qty |-> q,
             remaining |-> q, type |-> "Limit", tif |-> TimeInForce,
             owner |-> "MarketMaker"]
  BY SentOrder DEF SubmitOrder
<1>1. /\ stage = "submit" /\ pc = "idle" /\ to_submit # <<>> /\ next_id' = next_id + 1
      /\ stage' = stage /\ SendOrder(x, view.ts)
      /\ BooksBecome(IF rejected' # rejected THEN HandleRejectedOrder(sent, next_id, o)
                     ELSE sent)
  BY <1>0 DEF SubmitOrder
<1>2. /\ o \in [side : Sides, price : Ticks, quantity : Nat \ {0}]
      /\ next_id \in Ids /\ x \in Orders
  BY <1>1, SentOrder
<1>3. o.side \in Sides /\ q \in Nat \ {0}
  BY <1>2
<1>4. /\ x.id = next_id /\ x.side = o.side /\ x.remaining = q /\ x.qty = q
      /\ x.owner = "MarketMaker" /\ x \in OrderRec
  BY <1>0, <1>2 DEF Orders
<1>5. /\ b.account = IF PositionLimit > 0 /\ q > 0 THEN Reserve(account, o.side, q)
                     ELSE account
      /\ b.strategy = OnOrderSubmitted(strategy, next_id, q)
      /\ b.ledger = OpenOrder(ledger, next_id) /\ b.mismatches = mismatches
      /\ DOMAIN b = {"account", "ledger", "strategy", "mismatches"}
  BY DEF Entered, Books
<1>6. /\ Books.account = account /\ Books.strategy = strategy /\ Books.ledger = ledger
      /\ Books.mismatches = mismatches
  BY DEF Books
<1> HIDE DEF o, b
<1>7. EngineInv /\ CallsNest /\ OursOnly /\ next_id \notin order_index
  <2>1. next_id \in Nat
    BY DEF SubmitTypes
  <2> QED BY <2>1 DEF VenueInv, OursOnly
<1>8. /\ order_index' = order_index /\ data' = data /\ in_flight' = in_flight
      /\ pending' = pending
      /\ \/ pc' = "idle"
         \/ /\ pc' = "match" /\ back' = "idle" /\ cur'.id = next_id
            /\ cur'.owner = "MarketMaker" /\ cur'.remaining = starting_qty'
            /\ starting_qty' <= cur'.qty
  BY <1>1, <1>2, <1>3, <1>4, <1>7, SendMoves
<1>9. PICK n \in 0 .. q : Sent(x, n)
  BY <1>1, <1>2, <1>3, <1>4, <1>7, SendMoves
<1>10. /\ Quantities \in Amount /\ Halves \in SideAmounts /\ StatesNow \in States
       /\ z \in States
  BY <1>7, OpenFacts DEF NewState, States
<1>11. /\ Quantities[next_id] = 0 /\ Halves[o.side][next_id] = 0
       /\ Quantities' = Put(Quantities, next_id, n)
       /\ Halves' = PutSide(Halves, o.side, next_id, n)
       /\ \A i \in Ids : i # next_id /\ Open(i) > 0 => StateOf(i)' = StateOf(i)
       /\ Refusal(x, n) \/ Killed(x, n) \/ Untouched(x, n) \/ Taken(x, n)
  BY <1>4, <1>9 DEF Sent
<1> DEFINE v == Put(Quantities, next_id, q)
           g == PutSide(Halves, o.side, next_id, q)
<1>12. Told(b, v, g, z) /\ b.ledger.cancelling = ledger.cancelling
  BY <1>2, <1>3, <1>5, <1>6, <1>10, <1>11, EnterTold
<1>13. /\ v \in Amount /\ v[next_id] = q /\ g \in SideAmounts /\ g[o.side][next_id] = q
       /\ \A m \in 0 .. q : /\ Cut(v, next_id, m) = Put(Quantities, next_id, q - m)
                            /\ CutSide(g, o.side, next_id, m)
                                 = PutSide(Halves, o.side, next_id, q - m)
  BY <1>2, <1>3, <1>10, PutFacts
<1> HIDE DEF v, g
<1> DEFINE c == IF rejected' # rejected THEN HandleRejectedOrder(sent, next_id, o) ELSE sent
           k == IF n = 0 \/ n = q THEN z ELSE FilledSome(z, next_id)
<1>14. Told(c, Quantities', Halves', k) /\ Follows(b, c)
  <2>1. CASE Refusal(x, n)
    <3>1. n = 0 /\ rejected' # rejected /\ reports' = <<>>
      BY <2>1 DEF Refusal
    <3>2. sent = b
      BY <3>1, FoldNone DEF Reporting, After
    <3>3. c = HandleRejectedOrder(b, next_id, o)
      BY <3>1, <3>2
    <3>4. Cut(v, next_id, q) = Quantities' /\ CutSide(g, o.side, next_id, q) = Halves'
      BY <1>3, <1>11, <1>13, <3>1
    <3>5. Told(c, Cut(v, next_id, q), CutSide(g, o.side, next_id, q), z) /\ Follows(b, c)
      BY <1>2, <1>3, <1>5, <1>10, <1>12, <1>13, <3>3, RejectTold
    <3> QED BY <3>1, <3>4, <3>5
  <2>2. CASE Killed(x, n)
    <3> DEFINE r == Report("Cancelled", x, q)
    <3>1. n = 0 /\ rejected' = rejected /\ reports' = <<r>>
      BY <1>4, <2>2 DEF Killed
    <3>2. r.kind = "Cancelled" /\ r.id = next_id /\ r.side = o.side /\ r.quantity = q
      BY <1>4 DEF Report
    <3>3. r \in ReportRec
      BY <1>3, <1>4, ReportTypes DEF Kinds
    <3> HIDE DEF r
    <3>4. c = HandleReport(b, r)
      BY <3>1, FoldOne DEF Reporting, After
    <3>5. Cut(v, next_id, q) = Quantities' /\ CutSide(g, o.side, next_id, q) = Halves'
      BY <1>3, <1>11, <1>13, <3>1
    <3>6. /\ Told(HandleReport(b, r), Cut(v, next_id, q), CutSide(g, o.side, next_id, q), z)
          /\ Follows(b, HandleReport(b, r))
      BY <1>2, <1>10, <1>12, <1>13, <3>2, <3>3, EndTold
    <3> QED BY <3>1, <3>4, <3>5, <3>6
  <2>3. CASE Untouched(x, n)
    <3>1. n = q /\ rejected' = rejected /\ reports' = <<>>
      BY <1>4, <2>3 DEF Untouched
    <3>2. c = b
      BY <3>1, FoldNone DEF Reporting, After
    <3>3. Follows(b, b)
      BY <1>12, NarrowerChain DEF Follows, Told, BooksAre
    <3> QED BY <1>11, <1>12, <3>1, <3>2, <3>3 DEF v, g
  <2>4. CASE Taken(x, n)
    <3> DEFINE t == Report("Trade", x, q - n)
               e == Report(IF n = 0 THEN "Filled" ELSE "PartialFill", x, n)
    <3>1. /\ n < q /\ rejected' = rejected /\ reports' = <<t, e>>
      BY <1>4, <2>4 DEF Taken
    <3>2. q - n \in Nat /\ q - n > 0 /\ q - n <= q /\ q - (q - n) = n /\ q - n \in 0 .. q
          /\ n \in Nat /\ (n = 0 <=> q - n = q)
      BY <1>3, <3>1
    <3>3. /\ t.kind = "Trade" /\ t.id = next_id /\ t.side = o.side /\ t.quantity = q - n
          /\ e.kind = (IF n = 0 THEN "Filled" ELSE "PartialFill") /\ e.id = next_id
          /\ e.side = o.side /\ e.quantity = n
      BY <1>4 DEF Report
    <3>4. t \in ReportRec /\ e \in ReportRec
      BY <1>4, <3>2, ReportTypes DEF Kinds
    <3> HIDE DEF t, e
    <3>5. c = HandleReport(HandleReport(b, t), e)
      <4>1. Reporting(b) = After(b, <<t, e>>)
        BY <3>1 DEF Reporting, After
      <4>2. After(b, <<t, e>>) = HandleReport(HandleReport(b, t), e)
        BY FoldTwo
      <4> QED BY <3>1, <4>1, <4>2
    <3>6. /\ Cut(v, next_id, q - n) = Quantities'
          /\ CutSide(g, o.side, next_id, q - n) = Halves'
      BY <1>11, <1>13, <3>2
    <3>7. /\ Told(HandleReport(HandleReport(b, t), e), Cut(v, next_id, q - n),
                  CutSide(g, o.side, next_id, q - n), FilledSome(z, next_id))
          /\ Follows(b, HandleReport(HandleReport(b, t), e))
      <4>1. PICK m \in Nat : m = q - n BY <3>2
      <4>2. /\ v \in Amount /\ g \in SideAmounts /\ z \in States /\ Told(b, v, g, z)
            /\ v[next_id] = q /\ g[o.side][next_id] = q /\ next_id \in Ids
        BY <1>2, <1>10, <1>12, <1>13
      <4>3. /\ t.quantity = m /\ m > 0 /\ m <= q /\ q - m = n /\ (n = 0 <=> m = q)
        BY <3>2, <3>3, <4>1
      <4>4. /\ t.kind = "Trade" /\ t.id = next_id /\ e.id = t.id /\ e.side = t.side
            /\ t.side = o.side
            /\ e.kind = (IF t.quantity = v[t.id] THEN "Filled" ELSE "PartialFill")
            /\ e.quantity = v[t.id] - t.quantity
        BY <3>3, <4>2, <4>3
      <4>5. /\ t.id \in Ids /\ t.quantity > 0 /\ t.quantity <= v[t.id]
            /\ g[t.side][t.id] = v[t.id]
        BY <4>2, <4>3, <4>4
      <4>6. /\ Told(HandleReport(HandleReport(b, t), e), Cut(v, t.id, t.quantity),
                    CutSide(g, t.side, t.id, t.quantity), FilledSome(z, t.id))
            /\ Follows(b, HandleReport(HandleReport(b, t), e))
        BY ONLY <3>4, <4>2, <4>4, <4>5, FillTold
      <4> QED BY <4>1, <4>3, <4>4, <4>6
    <3>8. Told(c, Quantities', Halves', FilledSome(z, next_id)) /\ Follows(b, c)
      BY <3>5, <3>6, <3>7
    <3>9. CASE n = 0
      <4>1. \A i \in OpenIds(Quantities') : i # next_id /\ i \in Ids
        BY <1>2, <1>10, <1>11, <3>9 DEF OpenIds, Put, Amount
      <4>2. \A i \in OpenIds(Quantities') : FilledSome(z, next_id)[i] = z[i]
        BY <1>10, <4>1 DEF FilledSome, States
      <4> QED BY <3>8, <3>9, <4>2, StatesOfOpen
    <3>10. CASE n # 0
      BY <3>1, <3>8, <3>10
    <3> QED BY <3>9, <3>10
  <2> QED BY <1>11, <2>1, <2>2, <2>3, <2>4
<1>15. \A i \in OpenIds(Quantities') : k[i] = StatesNow'[i]
  <2> SUFFICES ASSUME NEW i \in OpenIds(Quantities') PROVE k[i] = StatesNow'[i]
    OBVIOUS
  <2>1. i \in Ids /\ Quantities'[i] > 0
    BY DEF OpenIds
  <2>2. StatesNow'[i] = StateOf(i)'
    BY <2>1 DEF StatesNow
  <2>3. z[i] = IF i = next_id THEN "Pending" ELSE StateOf(i)
    BY <1>10, <2>1 DEF NewState, States, StatesNow
  <2>4. CASE i = next_id
    <3>1. n > 0
      BY <1>10, <1>11, <2>1, <2>4 DEF Put, Amount
    <3>2. CASE Untouched(x, n)
      BY <1>4, <2>2, <2>3, <2>4, <3>2 DEF Untouched
    <3>3. CASE Taken(x, n)
      <4>1. n < q /\ StateOf(i)' = "PartiallyFilled"
        BY <1>4, <2>4, <3>1, <3>3 DEF Taken
      <4>2. k[i] = "PartiallyFilled"
        BY <1>10, <2>1, <2>4, <3>1, <4>1 DEF FilledSome, States
      <4> QED BY <2>2, <4>1, <4>2
    <3> QED BY <1>11, <3>1, <3>2, <3>3 DEF Refusal, Killed
  <2>5. CASE i # next_id
    <3>1. Open(i) > 0
      BY <1>10, <1>11, <2>1, <2>5 DEF Put, Amount, Quantities
    <3>2. k[i] = z[i]
      BY <1>10, <2>1, <2>5 DEF FilledSome, States
    <3> QED BY <1>11, <2>1, <2>2, <2>3, <2>5, <3>1, <3>2
  <2> QED BY <2>4, <2>5
<1>16. Told(c, Quantities', Halves', StatesNow')
  BY <1>14, <1>15, StatesOfOpen
<1> HIDE DEF c, k
<1>17. /\ account' = c.account /\ ledger' = c.ledger /\ strategy' = c.strategy
       /\ mismatches' = c.mismatches
  BY <1>1 DEF BooksBecome, c
<1>18. Told(Books', Quantities', Halves', StatesNow')
  <2>1. /\ Books'.account = c.account /\ Books'.ledger = c.ledger
        /\ Books'.strategy = c.strategy /\ Books'.mismatches = c.mismatches
    BY <1>17 DEF Books
  <2> QED BY <1>16, <2>1 DEF Told, BooksAre
<1>19. Narrower(b.account, account') /\ ledger'.cancelling \subseteq ledger.cancelling
  BY <1>12, <1>14, <1>17 DEF Follows
<1>20. next_id \in Nat /\ next_id' = next_id + 1
  BY <1>1 DEF SubmitTypes
<1>21. \A i \in Ids : i # MarketId
  BY IdsAndTicks
<1>22. CallsNest'
  BY <1>1, <1>2, <1>7, <1>8, <1>21 DEF CallsNest
<1>23. OursOnly'
  <2>1. \A i \in order_index : i \in Nat /\ i < next_id + 1
    <3>1. order_index \subseteq Ids
      BY <1>7, OpenFacts
    <3> QED BY <1>7, <1>20, <3>1, IdsAndTicks DEF OursOnly
  <2> QED BY <1>7, <1>8, <1>20, <2>1 DEF OursOnly
<1> QED BY <1>8, <1>18, <1>19, <1>22, <1>23 DEF b, o

-----------------------------------------------------------------------------
(* The pipeline's own steps. *)

RecordsInv == AccountExact /\ StrategyExact /\ mismatches = 0 /\ LedgerExact

(* When the records are exact, the books tell of what is open. *)
LEMMA RecordsTold ==
  ASSUME EngineInv, RecordsInv, CancelsHeld
  PROVE  Told(Books, Quantities, Halves, StatesNow)
<1>1. /\ Books.account = account /\ Books.strategy = strategy /\ Books.ledger = ledger
      /\ Books.mismatches = mismatches
  BY DEF Books
<1>2. /\ Quantities \in Amount /\ Halves \in SideAmounts
      /\ order_index \subseteq OpenIds(Quantities)
  BY OpenFacts
<1>3. account \in AccountRec
  BY DEF RecordsInv, AccountExact, AccountRec
<1>4. PositionLimit > 0 => \A s \in Sides : account.pending[s] = Total(Halves[s])
  BY DEF RecordsInv, AccountExact, Total, Halves
<1>5. MakerIs(strategy, Holding(Quantities), account.position)
  <2>1. Holding(Quantities) = [i \in OpenIds(Quantities) |-> Open(i)]
    BY DEF Holding, Quantities, OpenIds
  <2> QED BY <2>1 DEF RecordsInv, StrategyExact, MakerIs
<1>6. LedgerIs(ledger, OpenIds(Quantities), StatesNow)
  BY DEF RecordsInv, LedgerExact, LedgerIs, StatesNow, OpenIds
<1>7. ledger.cancelling \subseteq OpenIds(Quantities)
  BY <1>2 DEF CancelsHeld
<1> QED BY <1>1, <1>3, <1>4, <1>5, <1>6, <1>7 DEF Told, BooksAre, RecordsInv

(* The other way round, after a step. *)
LEMMA ToldRecords ==
  ASSUME Told(Books', Quantities', Halves', StatesNow')
  PROVE  RecordsInv' /\ ledger'.cancelling \subseteq OpenIds(Quantities')
<1>1. /\ Books'.account = account' /\ Books'.strategy = strategy' /\ Books'.ledger = ledger'
      /\ Books'.mismatches = mismatches'
  BY DEF Books
<1>2. /\ account' \in AccountRec /\ mismatches' = 0
      /\ PositionLimit > 0 => \A s \in Sides : account'.pending[s] = Total(Halves'[s])
      /\ MakerIs(strategy', Holding(Quantities'), account'.position)
      /\ LedgerIs(ledger', OpenIds(Quantities'), StatesNow')
      /\ ledger'.cancelling \subseteq OpenIds(Quantities')
  BY <1>1 DEF Told, BooksAre
<1>3. AccountExact'
  <2>1. \A s \in Sides : Total(Halves'[s]) = SumFunctionOnSet(OnSide(s), Ids)'
    <3>1. \A s \in Sides : Halves'[s] = OnSide(s)'
      BY DEF Halves
    <3>2. \A s \in Sides : SumFunctionOnSet(OnSide(s), Ids)' = SumFunctionOnSet(OnSide(s)', Ids)
      BY Zenon
    <3> QED BY <3>1, <3>2 DEF Total
  <2> QED BY <1>2, <2>1 DEF AccountExact, AccountRec
<1>4. OpenIds(Quantities)' = OpenIds(Quantities')
  BY DEF OpenIds
<1>5. StrategyExact'
  <2>1. Holding(Quantities') = [i \in OpenIds(Quantities') |-> Open(i)']
    BY DEF Holding, Quantities, OpenIds
  <2> QED BY <1>2, <1>4, <2>1 DEF StrategyExact, MakerIs
<1>6. LedgerExact'
  <2>1. [i \in OpenIds(Quantities') |-> StatesNow'[i]]
          = [i \in OpenIds(Quantities') |-> StateOf(i)']
    BY DEF StatesNow, OpenIds
  <2> QED BY <1>2, <1>4, <2>1 DEF LedgerExact, LedgerIs
<1> QED BY <1>2, <1>3, <1>5, <1>6 DEF RecordsInv

(* An order whose cancel is under way stays in the book, and its cancel under way,
   until it is no longer open. *)
LEMMA HeldThroughWork ==
  ASSUME VenueInv, Working, NEW i \in order_index, Open(i)' > 0,
         \E p \in pending : p.id = i
  PROVE  i \in order_index' /\ \E p \in pending' : p.id = i
<1>0. EngineInv /\ i \in Ids /\ in_flight = <<>> /\ cur \in OrderRec
      /\ (pc = "match" => cur.id \notin order_index)
  <2>1. MatchingOrder
    BY Zenon DEF VenueInv, EngineInv
  <2> QED BY <2>1, OpenFacts DEF VenueInv, CallsNest, MatchingOrder
<1>1. i # MarketId
  BY <1>0, IdsAndTicks
<1>2. ~(pc' = "match" /\ cur'.id = i)
  <2>1. CASE ConsumeQueueAhead \/ CancelSelfTrade \/ MatchFront
    <3>1. pc = "match" /\ \E n : cur' = [cur EXCEPT !.remaining = n]
      BY <2>1 DEF ConsumeQueueAhead, CancelSelfTrade, MatchFront
    <3> QED BY <1>0, <3>1 DEF OrderRec
  <2>2. CASE MatchEnd
    BY <1>1, <2>2 DEF MatchEnd, NoOrder
  <2>3. CASE NoCancelDue \/ ApplyQuote \/ \E c \in pending : ApplyPendingCancel(c)
    BY <2>3 DEF NoCancelDue, ApplyQuote, ApplyPendingCancel
  <2>4. CASE Landed
    <3>1. pc = "deliver"
      BY <2>4 DEF Landed
    <3>2. CASE ApplyTrade
      <4>1. CASE ev.side \in Sides /\ ev.quantity > 0
        BY <1>1, <3>2, <4>1 DEF ApplyTrade
      <4>2. CASE ~(ev.side \in Sides /\ ev.quantity > 0)
        BY <3>2, <4>2 DEF ApplyTrade, AfterPrint
      <4> QED BY <4>1, <4>2
    <3> QED BY <2>4, <3>2 DEF Landed
  <2>5. ~(\E j \in DOMAIN in_flight : DeliverNext(j))
    BY <1>0, EmptySeq
  <2> QED BY <2>1, <2>2, <2>3, <2>4, <2>5 DEF Working
<1>3. i \in order_index'
  BY <1>2 DEF Open
<1>4. \E p \in pending' : p.id = i
  <2>1. CASE \E c \in pending : ApplyPendingCancel(c)
    <3>1. PICK c \in pending : ApplyPendingCancel(c)
      BY <2>1
    <3>2. c.id # i
      BY <1>3, <3>1 DEF ApplyPendingCancel, RemoveOrder
    <3> QED BY <3>1, <3>2 DEF ApplyPendingCancel
  <2>2. CASE ~(\E c \in pending : ApplyPendingCancel(c))
    <3>1. ~(\E j \in DOMAIN in_flight : DeliverNext(j))
      BY <1>0, EmptySeq
    <3>2. pending' = pending
      BY <2>2, <3>1 DEF Working, ConsumeQueueAhead, CancelSelfTrade, MatchFront, MatchEnd,
         NoCancelDue, Landed, ApplyQuote, delayVars
    <3> QED BY <3>2
  <2> QED BY <2>1, <2>2
<1> QED BY <1>3, <1>4

(* The engine never works while the pipeline is idle or asks for cancels. *)
LEMMA WorkingBusy ==
  ASSUME VenueInv, Working
  PROVE  pc # "idle" /\ stage # "cancel" /\ stage # "idle"
<1>1. in_flight = <<>> /\ ~(\E j \in DOMAIN in_flight : DeliverNext(j))
  BY EmptySeq DEF VenueInv, CallsNest
<1>2. pc # "idle"
  BY <1>1 DEF Working, ConsumeQueueAhead, CancelSelfTrade, MatchFront, MatchEnd,
     ApplyPendingCancel, NoCancelDue, Landed, ApplyQuote
<1> QED BY <1>2 DEF VenueInv, CallsNest

(* The engine's own step, reported. *)
LEMMA EngineWorksKeeps ==
  ASSUME VenueInv, CancelsHeld, Told(Books, Quantities, Halves, StatesNow), EngineWorks
  PROVE  /\ CallsNest' /\ OursOnly' /\ CancelsHeld'
         /\ Told(Books', Quantities', Halves', StatesNow')
         /\ Narrower(account, account') /\ pc # "idle"
<1>1. Working /\ UNCHANGED <<stage, next_id>> /\ BooksBecome(Reporting(Books))
  BY DEF EngineWorks
<1>2. Tracks(Books)
  BY <1>1, WorkingTracks
<1>3. /\ Books'.account = account' /\ Books'.strategy = strategy' /\ Books'.ledger = ledger'
      /\ Books'.mismatches = mismatches' /\ Books.account = account
      /\ Books.ledger = ledger
  BY DEF Books
<1>4. Told(Books', Quantities', Halves', StatesNow')
  BY <1>1, <1>2, <1>3 DEF Tracks, Told, BooksAre, BooksBecome
<1>5. Narrower(account, account') /\ ledger'.cancelling \subseteq ledger.cancelling
  BY <1>1, <1>2, <1>3 DEF Tracks, Follows, BooksBecome
<1>6. CallsNest' /\ OursOnly'
  BY <1>1, WorkingVenue
<1>7. CancelsHeld'
  <2>1. \A i \in ledger'.cancelling : i \in order_index /\ Open(i)' > 0
                                      /\ \E p \in pending : p.id = i
    <3>1. ledger'.cancelling \subseteq OpenIds(Quantities')
      BY <1>3, <1>4 DEF Told
    <3> QED BY <1>5, <3>1 DEF OpenIds, Quantities, CancelsHeld
  <2>2. \A i \in ledger'.cancelling : i \in order_index' /\ \E p \in pending' : p.id = i
    BY <1>1, <2>1, HeldThroughWork
  <2>3. stage' # "cancel"
    BY <1>1, WorkingBusy
  <2> QED BY <2>2, <2>3 DEF CancelsHeld
<1>8. pc # "idle"
  BY <1>1, WorkingBusy
<1> QED BY <1>4, <1>5, <1>6, <1>7, <1>8

(* One cancel asked for. *)
LEMMA CancelNextKeeps ==
  ASSUME VenueInv, CancelsHeld, Told(Books, Quantities, Halves, StatesNow),
         NEW id \in to_cancel, CancelNext(id)
  PROVE  /\ CallsNest' /\ OursOnly' /\ CancelsHeld'
         /\ Told(Books', Quantities', Halves', StatesNow')
         /\ Narrower(account, account') /\ account'.position = account.position
<1> DEFINE p == [Books EXCEPT !.ledger = BeginCancel(@, id)]
<1>1. /\ stage = "cancel" /\ pc = "idle" /\ to_cancel' = to_cancel \ {id}
      /\ stage' = stage /\ next_id' = next_id /\ BooksBecome(Reporting(p))
  BY DEF CancelNext
<1>2. EngineInv /\ CallsNest /\ OursOnly /\ id \in order_index
  BY <1>1 DEF VenueInv, CancelsHeld
<1>3. /\ p.account = account /\ p.strategy = strategy /\ p.mismatches = mismatches
      /\ p.ledger = BeginCancel(ledger, id)
      /\ Books.account = account /\ Books.strategy = strategy
      /\ Books.mismatches = mismatches /\ Books.ledger = ledger
  BY DEF Books
<1> HIDE DEF p
<1>4. DOMAIN ledger = {"audit", "cancelling", "invalid", "orphans"}
  BY <1>3 DEF Told, LedgerIs
<1>5. /\ p.ledger.audit = ledger.audit /\ DOMAIN p.ledger = DOMAIN ledger
      /\ p.ledger.cancelling = ledger.cancelling \cup {id}
  BY <1>3, <1>4 DEF BeginCancel
<1>6. Told(p, Quantities, Halves, StatesNow)
  <2>1. order_index \subseteq OpenIds(Quantities)
    BY <1>2, OpenFacts
  <2> QED BY <1>2, <1>3, <1>5, <2>1 DEF Told, BooksAre, LedgerIs
<1>7. CASE FirstCancel(ledger, id) /\ Immediate
  <2>1. RemoveOrder(id) /\ pending' = pending /\ pc' = pc /\ in_flight' = in_flight
    BY <1>2, <1>7 DEF CancelNext, CancelOrder
  <2>2. /\ Told(Reporting(p), Quantities', Halves', StatesNow')
        /\ Follows(p, Reporting(p)) /\ Reporting(p).account.position = p.account.position
    BY <1>1, <1>2, <1>6, <2>1, RemoveTracks DEF Tracks
  <2>3. order_index' = order_index \ {id} /\ data' = data
    BY <2>1 DEF RemoveOrder
  <2>4. CancelsHeld'
    <3>1. /\ ledger'.cancelling \subseteq OpenIds(Quantities')
          /\ ledger'.cancelling \subseteq ledger.cancelling \cup {id}
      BY <1>1, <1>5, <2>2 DEF Told, Follows, BooksBecome
    <3>2. \A i \in OpenIds(Quantities') : i \in order_index'
      BY <1>1, <2>1 DEF OpenIds, Quantities, Open
    <3> QED BY <1>1, <2>1, <2>3, <3>1, <3>2 DEF CancelsHeld
  <2> QED BY <1>1, <1>2, <1>3, <2>1, <2>2, <2>3, <2>4 DEF CallsNest, OursOnly, BooksBecome,
          Told, BooksAre, Follows, Books
<1>8. CASE ~(FirstCancel(ledger, id) /\ Immediate)
  <2>1. /\ order_index' = order_index /\ data' = data /\ reports' = <<>> /\ pc' = pc
        /\ in_flight' = in_flight
    BY <1>2, <1>8, ReportsAre DEF CancelNext, CancelOrder, bookVars, delayVars
  <2>2. \A i \in ledger.cancelling \cup {id} : \E c \in pending' : c.id = i
    <3>1. CASE FirstCancel(ledger, id)
      <4>1. pending' = {c \in pending : c.id # id} \cup
               {[id |-> id, event |-> event_counter + CancelDelayEvents,
                 time |-> now + CancelLatency]}
        BY <1>2, <1>8, <3>1 DEF CancelNext, CancelOrder
      <4>2. \A i \in ledger.cancelling : \E c \in pending : c.id = i
        BY DEF CancelsHeld
      <4>3. \E c \in pending' : c.id = id
        <5> DEFINE new == [id |-> id, event |-> event_counter + CancelDelayEvents,
                           time |-> now + CancelLatency]
        <5>1. new \in pending' /\ new.id = id
          BY <4>1
        <5> QED BY <5>1, Zenon
      <4>4. \A i \in ledger.cancelling \cup {id} : i # id => \E c \in pending' : c.id = i
        BY <4>1, <4>2
      <4> QED BY <4>3, <4>4
    <3>2. CASE ~FirstCancel(ledger, id)
      <4>1. pending' = pending
        BY <3>2 DEF CancelNext, delayVars
      <4> QED BY <3>2, <4>1 DEF CancelsHeld, FirstCancel
    <3> QED BY <3>1, <3>2
  <2>3. /\ Told(Reporting(p), Quantities', Halves', StatesNow')
        /\ Follows(p, Reporting(p)) /\ Reporting(p) = p
    <3>1. pc # "match" /\ pc' # "match"
      BY <1>1, <2>1
    <3> QED BY <1>2, <1>6, <2>1, <3>1, BookStill DEF Tracks
  <2>4. CancelsHeld'
    <3>1. ledger'.cancelling = ledger.cancelling \cup {id}
      BY <1>1, <1>5, <2>3 DEF BooksBecome
    <3> QED BY <1>1, <1>2, <2>1, <2>2, <3>1 DEF CancelsHeld
  <2> QED BY <1>1, <1>2, <1>3, <2>1, <2>3, <2>4 DEF CallsNest, OursOnly, BooksBecome,
          Told, BooksAre, Follows, Books
<1> QED BY <1>7, <1>8

(* The steps that leave the book, the account and the ledger as they are. *)
LEMMA StillTold ==
  ASSUME EngineInv, Told(Books, Quantities, Halves, StatesNow),
         order_index' = order_index, data' = data,
         (pc' = pc /\ cur' = cur) \/ (pc # "match" /\ pc' # "match"),
         account' = account, ledger' = ledger, mismatches' = mismatches,
         MakerIs(strategy', strategy.open, strategy.position)
  PROVE  Told(Books', Quantities', Halves', StatesNow')
<1>1. \A i \in Ids : Open(i)' = Open(i)
  BY DEF Open
<1>2. \A i \in Ids : Open(i) > 0 => SideOf(i)' = SideOf(i) /\ StateOf(i)' = StateOf(i)
  <2>1. \A i \in Ids : Open(i) > 0 => i \in order_index \/ (pc = "match" /\ cur.id = i)
    BY OpenFacts
  <2> QED BY <2>1 DEF SideOf, StateOf
<1>3. Quantities' = Quantities /\ Halves' = Halves
  BY <1>1, <1>2, OpenStays
<1>4. \A i \in OpenIds(Quantities) : StatesNow[i] = StatesNow'[i]
  BY <1>2 DEF OpenIds, Quantities, StatesNow
<1>5. /\ Books'.account = account /\ Books'.strategy = strategy' /\ Books'.ledger = ledger
      /\ Books'.mismatches = mismatches
      /\ Books.account = account /\ Books.strategy = strategy /\ Books.ledger = ledger
      /\ Books.mismatches = mismatches
  BY DEF Books
<1>6. Told(Books', Quantities, Halves, StatesNow)
  BY <1>5 DEF Told, BooksAre, MakerIs
<1> QED BY <1>3, <1>4, <1>6, StatesOfOpen

(* The steps besides: a view or a trade comes in, is done with, or the strategy
   decides, the kill switch is asked, an order is refused. *)
LEMMA QuietKeeps ==
  ASSUME VenueInv, CancelsHeld, Told(Books, Quantities, Halves, StatesNow),
         (\E top : ProcessView(top)) \/ (\E e : ProcessTrade(e)) \/ TradeDone
         \/ (\E d \in Decisions(strategy, view) : Decide(d)) \/ CheckSwitch \/ RefuseOrder
         \/ ViewDone \/ UNCHANGED systemVars
  PROVE  /\ CallsNest' /\ OursOnly' /\ CancelsHeld'
         /\ Told(Books', Quantities', Halves', StatesNow')
         /\ account' = account /\ strategy'.position = strategy.position
<1>0. /\ EngineInv /\ CallsNest /\ OursOnly
      /\ MakerIs(strategy, strategy.open, strategy.position)
      /\ strategy.open = Holding(Quantities)
  BY DEF VenueInv, Told, BooksAre, MakerIs, Books
<1> DEFINE Still == /\ order_index' = order_index /\ data' = data /\ in_flight' = in_flight
                    /\ pending' = pending /\ account' = account /\ ledger' = ledger
                    /\ mismatches' = mismatches /\ next_id' = next_id
<1>1. CASE \E top : ProcessView(top)
  <2>1. /\ Still /\ strategy' = strategy /\ stage = "idle" /\ stage' = "view"
        /\ (pc' = pc /\ cur' = cur) \/ (pc # "match" /\ pc' # "match")
        /\ pc' # "match"
    <3>1. PICK top : ProcessView(top)
      BY <1>1
    <3>2. pc = "idle"
      BY <1>0, <3>1 DEF ProcessView, CallsNest
    <3>3. CASE top.bid > 0 /\ top.ask > 0
      BY <3>1, <3>2, <3>3 DEF ProcessView, MarketEvent, bookVars, delayVars
    <3>4. CASE ~(top.bid > 0 /\ top.ask > 0)
      BY <3>1, <3>2, <3>4 DEF ProcessView, engineVars, bookVars, delayVars, matchVars
    <3> QED BY <3>3, <3>4
  <2> QED BY <1>0, <2>1, StillTold DEF CallsNest, OursOnly, CancelsHeld
<1>2. CASE \E e : ProcessTrade(e)
  <2>1. /\ Still /\ strategy' = strategy /\ stage = "idle" /\ stage' = "trade"
        /\ pc # "match" /\ pc' # "match"
    BY <1>2 DEF ProcessTrade, MarketEvent, bookVars, delayVars
  <2> QED BY <1>0, <2>1, StillTold DEF CallsNest, OursOnly, CancelsHeld
<1>3. CASE TradeDone \/ ViewDone
  <2>1. /\ Still /\ strategy' = strategy /\ stage' = "idle" /\ pc' = "idle" /\ pc = "idle"
    BY <1>3 DEF TradeDone, ViewDone, engineVars, bookVars, delayVars
  <2> QED BY <1>0, <2>1, StillTold DEF CallsNest, OursOnly, CancelsHeld
<1>4. CASE \E d \in Decisions(strategy, view) : Decide(d)
  <2>1. PICK d \in Decisions(strategy, view) : Decide(d)
    BY <1>4
  <2>2. Still /\ stage' = "cancel" /\ pc = "idle" /\ pc' = "idle"
    BY <2>1 DEF Decide, engineVars, bookVars, delayVars
  <2>3. \/ d.strat = strategy
        \/ \E x : d.strat = [strategy EXCEPT !.cancel_pending = x]
    <3>1. CASE Unusable(view)
      <4>1. d = [strat |-> [strategy EXCEPT !.cancel_pending = DOMAIN strategy.open # {}],
                 orders |-> <<>>]
        BY <3>1, Zenon DEF Decisions
      <4> QED BY <4>1, Zenon
    <3>2. CASE ~Unusable(view)
      <4>1. CASE Flattens(strategy)
        BY <3>2, <4>1 DEF Decisions
      <4>2. CASE ~Flattens(strategy) /\ DOMAIN strategy.open # {}
        <5>1. d \in {[strat |-> strategy, orders |-> <<>>],
                    [strat |-> [strategy EXCEPT !.cancel_pending = TRUE], orders |-> <<>>]}
          BY <3>2, <4>2, Zenon DEF Decisions
        <5>2. CASE d = [strat |-> strategy, orders |-> <<>>]
          BY <5>2, Zenon
        <5>3. CASE d = [strat |-> [strategy EXCEPT !.cancel_pending = TRUE], orders |-> <<>>]
          BY <5>3, Zenon
        <5> QED BY <5>1, <5>2, <5>3, Zenon
      <4>3. CASE ~Flattens(strategy) /\ DOMAIN strategy.open = {}
        <5>1. \E s \in FreshQuotes(strategy, view) : d = [strat |-> strategy, orders |-> s]
          BY <3>2, <4>3, Zenon DEF Decisions
        <5> QED BY <5>1
      <4> QED BY <4>1, <4>2, <4>3
    <3> QED BY <3>1, <3>2
  <2>4. /\ d.strat.open = strategy.open /\ d.strat.position = strategy.position
        /\ DOMAIN d.strat = DOMAIN strategy
    BY <1>0, <2>3 DEF MakerIs
  <2>5. MakerIs(strategy', strategy.open, strategy.position)
    BY <1>0, <2>1, <2>4 DEF Decide, MakerIs
  <2>6. to_cancel' \subseteq order_index
    <3>1. to_cancel' \subseteq DOMAIN strategy.open
      BY <2>1, <2>4 DEF Decide, CancelRequests
    <3>2. \A i \in DOMAIN Holding(Quantities) : i \in order_index
      BY <2>2 DEF Holding, OpenIds, Quantities, Open
    <3> QED BY <1>0, <3>1, <3>2
  <2>7. Told(Books', Quantities', Halves', StatesNow')
    BY <1>0, <2>2, <2>5, StillTold
  <2> QED BY <1>0, <2>2, <2>5, <2>6, <2>7 DEF CallsNest, OursOnly, CancelsHeld, MakerIs
<1>5. CASE CheckSwitch \/ RefuseOrder
  <2>1. /\ Still /\ strategy' = strategy /\ stage' = "submit" /\ pc' = pc /\ cur' = cur
        /\ back' = back /\ starting_qty' = starting_qty
    BY <1>5 DEF CheckSwitch, RefuseOrder, engineVars, bookVars, delayVars, matchVars
  <2>2. Told(Books', Quantities', Halves', StatesNow')
    BY <1>0, <2>1, StillTold
  <2>3. CallsNest'
    BY <1>0, <2>1 DEF CallsNest
  <2>4. OursOnly'
    BY <1>0, <2>1 DEF OursOnly
  <2>5. CancelsHeld'
    BY <2>1 DEF CancelsHeld
  <2> QED BY <2>1, <2>2, <2>3, <2>4, <2>5
<1>6. CASE UNCHANGED systemVars
  <2>1. /\ Still /\ strategy' = strategy /\ stage' = stage /\ pc' = pc /\ cur' = cur
        /\ back' = back /\ starting_qty' = starting_qty /\ to_cancel' = to_cancel
    BY <1>6 DEF systemVars, pipelineVars, engineVars, bookVars, delayVars, matchVars
  <2>2. Told(Books', Quantities', Halves', StatesNow')
    BY <1>0, <2>1, StillTold
  <2>3. CallsNest'
    BY <1>0, <2>1 DEF CallsNest
  <2>4. OursOnly'
    BY <1>0, <2>1 DEF OursOnly
  <2>5. CancelsHeld'
    BY <2>1 DEF CancelsHeld
  <2> QED BY <2>1, <2>2, <2>3, <2>4, <2>5
<1> QED BY <1>1, <1>2, <1>3, <1>4, <1>5, <1>6

-----------------------------------------------------------------------------
(* What is still to be submitted. *)

Wanted == [side : Sides, price : Ticks, quantity : Nat \ {0}]

(* Fresh quotes: a bid, an ask, or both in that order. *)
Fresh(s) ==
  /\ Len(s) <= 2
  /\ \A k \in 1 .. Len(s) : s[k].quantity \in QuoteSizes
  /\ Len(s) = 2 => s[1].side = "Buy" /\ s[2].side = "Sell"

(* A bid and an ask. *)
LEMMA TwoInOrder ==
  ASSUME NEW o, NEW x
  PROVE  <<o>> \o <<x>> = <<o, x>>
<1> DEFINE T == {o, x}
           a == <<o>>
           b == <<x>>
           c == <<o, x>>
<1>1. /\ a \in Seq(T) /\ b \in Seq(T) /\ c \in Seq(T)
      /\ Len(a) = 1 /\ Len(b) = 1 /\ Len(c) = 2
      /\ a[1] = o /\ b[1] = x /\ c[1] = o /\ c[2] = x
  OBVIOUS
<1> HIDE DEF T, a, b, c
<1>2. /\ a \o b \in Seq(T) /\ Len(a \o b) = 2
      /\ \A i \in 1 .. 2 : (a \o b)[i] = IF i <= 1 THEN a[i] ELSE b[i - 1]
  BY <1>1, ConcatProperties
<1>3. Len(a \o b) = Len(c) /\ \A i \in 1 .. Len(c) : (a \o b)[i] = c[i]
  BY <1>1, <1>2
<1>4. a \o b = c
  BY <1>1, <1>2, <1>3, SeqEqual
<1> QED BY <1>4 DEF a, b, c

(* What a decision is, whatever the signals say. *)
LEMMA DecidedOrders ==
  ASSUME view \in Quotes, strategy.position \in Int, NEW d \in Decisions(strategy, view)
  PROVE  /\ d.orders \in Seq(Wanted) /\ Len(d.orders) <= 2
         /\ \/ d.orders = <<>>
            \/ Flattens(strategy) /\ d.orders = <<FlattenOrder(strategy, view)>>
            \/ DOMAIN strategy.open = {} /\ Fresh(d.orders)
<1>0. /\ QuotePrices \subseteq Ticks /\ QuoteSizes \subseteq Nat \ {0} /\ FlattenBand \in Nat
      /\ <<>> \in Seq(Wanted) /\ Len(<<>>) = 0
  BY PipelineAssumption, MakerAssumption, Zenon, EmptySeq
<1>1. CASE Unusable(view)
  <2>1. d.orders = <<>>
    <3>1. d = [strat |-> [strategy EXCEPT !.cancel_pending = DOMAIN strategy.open # {}],
               orders |-> <<>>]
      BY <1>1, Zenon DEF Decisions
    <3> QED BY <3>1, Zenon
  <2> QED BY <1>0, <2>1
<1>2. CASE ~Unusable(view) /\ Flattens(strategy)
  <2>1. d.orders = <<FlattenOrder(strategy, view)>>
    <3>1. d = [strat |-> strategy, orders |-> <<FlattenOrder(strategy, view)>>]
      BY <1>2, Zenon DEF Decisions
    <3> QED BY <3>1, Zenon
  <2>2. view.bid \in Ticks /\ view.ask \in Ticks
    BY <1>2 DEF Unusable, Quotes
  <2>3. FlattenOrder(strategy, view) \in Wanted
    <3>1. Size(strategy.position) - FlattenBand \in Nat \ {0}
      BY <1>0, <1>2 DEF Flattens, Size
    <3> QED BY <2>2, <3>1 DEF FlattenOrder, Wanted, Sides
  <2> HIDE DEF Wanted
  <2>4. /\ <<FlattenOrder(strategy, view)>> \in Seq(Wanted)
        /\ Len(<<FlattenOrder(strategy, view)>>) = 1
    BY <2>3
  <2> QED BY <1>2, <2>1, <2>4
<1>3. CASE ~Unusable(view) /\ ~Flattens(strategy) /\ DOMAIN strategy.open # {}
  <2>1. d.orders = <<>>
    <3>1. d \in {[strat |-> strategy, orders |-> <<>>],
                 [strat |-> [strategy EXCEPT !.cancel_pending = TRUE], orders |-> <<>>]}
      BY <1>3, Zenon DEF Decisions
    <3>2. CASE d = [strat |-> strategy, orders |-> <<>>]
      BY <3>2, Zenon
    <3>3. CASE d = [strat |-> [strategy EXCEPT !.cancel_pending = TRUE], orders |-> <<>>]
      BY <3>3, Zenon
    <3> QED BY <3>1, <3>2, <3>3, Zenon
  <2> QED BY <1>0, <2>1
<1>4. CASE ~Unusable(view) /\ ~Flattens(strategy) /\ DOMAIN strategy.open = {}
  <2> DEFINE low == {p \in QuotePrices : p <= view.bid}
             high == {p \in QuotePrices : p >= view.ask}
  <2>1. PICK s \in FreshQuotes(strategy, view) : d = [strat |-> strategy, orders |-> s]
    BY <1>4, Zenon DEF Decisions
  <2>2. PICK b \in SideQuotes(strategy, "Buy", low), a \in SideQuotes(strategy, "Sell", high) :
          s = b \o a
    <3> DEFINE B == SideQuotes(strategy, "Buy", low)
               A == SideQuotes(strategy, "Sell", high)
    <3>1. s \in BidThenAsk(B, A)
      BY <2>1, Zenon DEF FreshQuotes
    <3> HIDE DEF A, B
    <3> SUFFICES \E b \in B, a \in A : s = b \o a
      BY Zenon DEF A, B
    <3> QED BY ONLY <3>1 DEF BidThenAsk
  <2>3. low \subseteq Ticks /\ high \subseteq Ticks
    BY <1>0
  <2> HIDE DEF low, high
  <2>4. b = <<>> \/ \E p \in low, q \in QuoteSizes :
                      b = <<[side |-> "Buy", price |-> p, quantity |-> q]>>
    BY <2>2 DEF SideQuotes
  <2>5. a = <<>> \/ \E p \in high, q \in QuoteSizes :
                      a = <<[side |-> "Sell", price |-> p, quantity |-> q]>>
    BY <2>2 DEF SideQuotes
  <2>6. \/ b = <<>>
        \/ \E o \in Wanted : b = <<o>> /\ o.side = "Buy" /\ o.quantity \in QuoteSizes
    <3> SUFFICES ASSUME NEW p \in low, NEW q \in QuoteSizes,
                        b = <<[side |-> "Buy", price |-> p, quantity |-> q]>>
                 PROVE  \E o \in Wanted : b = <<o>> /\ o.side = "Buy" /\ o.quantity \in QuoteSizes
      BY <2>4
    <3>1. [side |-> "Buy", price |-> p, quantity |-> q] \in Wanted
      BY <1>0, <2>3 DEF Wanted, Sides
    <3> QED BY <3>1
  <2>7. \/ a = <<>>
        \/ \E o \in Wanted : a = <<o>> /\ o.side = "Sell" /\ o.quantity \in QuoteSizes
    <3> SUFFICES ASSUME NEW p \in high, NEW q \in QuoteSizes,
                        a = <<[side |-> "Sell", price |-> p, quantity |-> q]>>
                 PROVE  \E o \in Wanted : a = <<o>> /\ o.side = "Sell" /\ o.quantity \in QuoteSizes
      BY <2>5
    <3>1. [side |-> "Sell", price |-> p, quantity |-> q] \in Wanted
      BY <1>0, <2>3 DEF Wanted, Sides
    <3> QED BY <3>1
  <2>8. s \in Seq(Wanted) /\ Fresh(s)
    <3>1. CASE b = <<>> /\ a = <<>>
      <4>1. s = <<>>
        BY <2>2, <3>1
      <4> QED BY <1>0, <4>1 DEF Fresh
    <3>2. CASE b # <<>> /\ a = <<>>
      <4>1. PICK o \in Wanted : b = <<o>> /\ o.side = "Buy" /\ o.quantity \in QuoteSizes
        BY <2>6, <3>2
      <4>2. s = <<o>>
        BY <2>2, <3>2, <4>1
      <4> HIDE DEF Wanted
      <4> QED BY <4>1, <4>2 DEF Fresh
    <3>3. CASE b = <<>> /\ a # <<>>
      <4>1. PICK o \in Wanted : a = <<o>> /\ o.side = "Sell" /\ o.quantity \in QuoteSizes
        BY <2>7, <3>3
      <4>2. s = <<o>>
        BY <2>2, <3>3, <4>1
      <4> HIDE DEF Wanted
      <4> QED BY <4>1, <4>2 DEF Fresh
    <3>4. CASE b # <<>> /\ a # <<>>
      <4>1. PICK o \in Wanted : b = <<o>> /\ o.side = "Buy" /\ o.quantity \in QuoteSizes
        BY <2>6, <3>4
      <4>2. PICK x \in Wanted : a = <<x>> /\ x.side = "Sell" /\ x.quantity \in QuoteSizes
        BY <2>7, <3>4
      <4>3. s = <<o, x>>
        BY <2>2, <4>1, <4>2, TwoInOrder, Zenon
      <4> HIDE DEF Wanted
      <4> QED BY <4>1, <4>2, <4>3 DEF Fresh
    <3> QED BY <3>1, <3>2, <3>3, <3>4
  <2>9. d.orders = s
    BY <2>1
  <2> QED BY <1>4, <2>8, <2>9 DEF Fresh
<1> QED BY <1>1, <1>2, <1>3, <1>4

(* The orders to be submitted, and the ids for them, stay what they are. *)
LEMMA SubmitTypesKept ==
  ASSUME SubmitTypes, strategy.position \in Int, PNext \/ UNCHANGED systemVars
  PROVE  SubmitTypes'
<1>0. /\ next_id \in Nat /\ view \in Quotes /\ to_submit \in Seq(Wanted)
      /\ stage = "view" => {next_id, next_id + 1} \subseteq Ids
      /\ stage \in {"idle", "trade", "view"} => to_submit = <<>>
      /\ Len(to_submit) <= 2 /\ Len(to_submit) \in Nat
      /\ Len(to_submit) >= 1 => next_id \in Ids
      /\ Len(to_submit) = 2 => next_id + 1 \in Ids
  BY LenProperties DEF SubmitTypes, Wanted
<1> HIDE DEF Wanted
<1>1. SUFFICES /\ next_id' \in Nat /\ view' \in Quotes /\ to_submit' \in Seq(Wanted)
               /\ stage' = "view" => {next_id', next_id' + 1} \subseteq Ids
               /\ stage' \in {"idle", "trade", "view"} => to_submit' = <<>>
               /\ Len(to_submit') <= 2
               /\ Len(to_submit') >= 1 => next_id' \in Ids
               /\ Len(to_submit') = 2 => next_id' + 1 \in Ids
  BY DEF SubmitTypes, Wanted
<1>2. CASE \E top \in Quotes : {next_id, next_id + 1} \subseteq Ids /\ ProcessView(top)
  BY <1>0, <1>2 DEF ProcessView
<1>3. CASE \E e \in Events : e.kind = "trade" /\ ProcessTrade(e)
  BY <1>0, <1>3 DEF ProcessTrade
<1>4. CASE EngineWorks
  BY <1>0, <1>4 DEF EngineWorks
<1>5. CASE TradeDone \/ ViewDone
  BY <1>0, <1>5 DEF TradeDone, ViewDone
<1>6. CASE \E d \in Decisions(strategy, view) : Decide(d)
  <2>1. PICK d \in Decisions(strategy, view) : Decide(d)
    BY <1>6
  <2>2. /\ to_submit' = d.orders /\ next_id' = next_id /\ view' = view /\ stage = "view"
        /\ stage' = "cancel"
    BY <2>1 DEF Decide
  <2>3. d.orders \in Seq(Wanted) /\ Len(d.orders) <= 2
    BY <1>0, DecidedOrders
  <2> QED BY <1>0, <2>2, <2>3
<1>7. CASE \E id \in to_cancel : CancelNext(id)
  BY <1>0, <1>7 DEF CancelNext
<1>8. CASE CheckSwitch
  BY <1>0, <1>8 DEF CheckSwitch
<1>9. ASSUME to_submit # <<>>
      PROVE  /\ Tail(to_submit) \in Seq(Wanted) /\ Len(to_submit) >= 1
             /\ Len(Tail(to_submit)) = Len(to_submit) - 1
  BY <1>0, <1>9, HeadTailProperties, EmptySeq
<1>10. CASE RefuseOrder
  <2>1. /\ to_submit # <<>> /\ to_submit' = Tail(to_submit) /\ next_id' = next_id
        /\ view' = view /\ stage = "submit" /\ stage' = stage
    BY <1>10 DEF RefuseOrder
  <2>2. to_submit' \in Seq(Wanted) /\ Len(to_submit') = Len(to_submit) - 1
        /\ Len(to_submit) >= 1
    BY <1>9, <2>1
  <2> QED BY <1>0, <2>1, <2>2
<1>11. CASE SubmitOrder
  <2>1. /\ to_submit # <<>> /\ to_submit' = Tail(to_submit) /\ next_id' = next_id + 1
        /\ view' = view /\ stage = "submit" /\ stage' = stage
    BY <1>11 DEF SubmitOrder
  <2>2. to_submit' \in Seq(Wanted) /\ Len(to_submit') = Len(to_submit) - 1
        /\ Len(to_submit) >= 1
    BY <1>9, <2>1
  <2>3. Len(to_submit') = 1 => next_id' \in Ids
    BY <1>0, <2>1, <2>2
  <2>4. Len(to_submit') <= 1 /\ next_id' \in Nat
    BY <1>0, <2>1, <2>2
  <2>5. Len(to_submit') \in Nat
    BY <1>0, <2>2
  <2>6. Len(to_submit') >= 1 => next_id' \in Ids
    <3>1. PICK n \in Nat : n = Len(to_submit')
      BY <2>5
    <3>2. n <= 1 /\ (n = 1 => next_id' \in Ids)
      BY ONLY <2>3, <2>4, <3>1
    <3>3. n >= 1 => n = 1
      BY ONLY n \in Nat, <3>2
    <3> QED BY <3>1, <3>2, <3>3, Zenon
  <2>7. ~(Len(to_submit') = 2) /\ Len(to_submit') <= 2
    BY ONLY <2>4, <2>5
  <2> QED BY <1>0, <2>1, <2>2, <2>4, <2>6, <2>7
<1>12. CASE UNCHANGED systemVars
  BY <1>0, <1>12 DEF systemVars, pipelineVars
<1> QED BY <1>2, <1>3, <1>4, <1>5, <1>6, <1>7, <1>8, <1>10, <1>11, <1>12 DEF PNext, Processing

-----------------------------------------------------------------------------
(* The records agree. *)

CoreInv == VenueInv /\ RecordsInv /\ CancelsHeld /\ SubmitTypes

(* Initially. *)
LEMMA CoreInit ==
  ASSUME PInit
  PROVE  CoreInv
<1>0. EngineInv
  BY InitInv DEF PInit
<1>1. /\ order_index = {} /\ in_flight = <<>> /\ pc = "idle" /\ stage = "idle"
      /\ next_id = 1 /\ mismatches = 0 /\ view = NoView /\ to_submit = <<>>
      /\ account = NoFills /\ ledger = NoOrders /\ strategy = Idle
  BY DEF PInit, EInit
<1>2. \A i \in Ids : Open(i) = 0
  BY <1>1 DEF Open
<1>3. OpenIds(Quantities) = {}
  BY <1>2 DEF OpenIds, Quantities
<1>4. AccountExact
  <2>1. account \in [position : Int, pending : [Sides -> Nat]]
    BY <1>1 DEF NoFills, Sides
  <2>2. \A s \in Sides : SumFunctionOnSet(OnSide(s), Ids) = 0
    <3> SUFFICES ASSUME NEW s \in Sides PROVE SumFunctionOnSet(OnSide(s), Ids) = 0
      OBVIOUS
    <3> DEFINE f == OnSide(s)
    <3>1. \A i \in Ids : f[i] = 0
      BY <1>2 DEF OnSide
    <3>2. f \in Amount /\ {i \in Ids : f[i] > 0} = {}
      <4>1. f = [i \in Ids |-> f[i]]
        BY DEF OnSide
      <4> HIDE DEF f
      <4> QED BY <3>1, <4>1 DEF Amount
    <3> HIDE DEF f
    <3> QED BY <3>2, TotalZero, SumEmpty DEF Total, f
  <2>3. \A s \in Sides : account.pending[s] = 0
    BY <1>1 DEF NoFills, Sides
  <2> QED BY <2>1, <2>2, <2>3 DEF AccountExact
<1>5. StrategyExact
  <2>1. strategy.open = <<>> /\ strategy.position = account.position
        /\ strategy.cancel_pending = FALSE
        /\ DOMAIN strategy = {"open", "position", "cancel_pending"}
    BY <1>1 DEF Idle, NoFills
  <2>2. [i \in OpenIds(Quantities) |-> Open(i)] = <<>>
    BY <1>3
  <2> QED BY <2>1, <2>2 DEF StrategyExact
<1>6. LedgerExact /\ ledger.cancelling = {}
  <2>1. ledger.audit = <<>> /\ DOMAIN ledger = {"audit", "cancelling", "invalid", "orphans"}
        /\ ledger.cancelling = {}
    BY <1>1 DEF NoOrders
  <2>2. [i \in OpenIds(Quantities) |-> StateOf(i)] = <<>>
    BY <1>3
  <2> QED BY <2>1, <2>2 DEF LedgerExact
<1>7. CallsNest /\ OursOnly /\ CancelsHeld
  BY <1>1, <1>6 DEF CallsNest, OursOnly, CancelsHeld
<1>8. SubmitTypes
  <2>1. view \in Quotes
    BY <1>1 DEF NoView, Quotes
  <2>2. to_submit \in Seq([side : Sides, price : Ticks, quantity : Nat \ {0}])
        /\ Len(to_submit) = 0
    BY <1>1, EmptySeq
  <2> QED BY <1>1, <2>1, <2>2 DEF SubmitTypes
<1> QED BY <1>0, <1>1, <1>4, <1>5, <1>6, <1>7, <1>8 DEF CoreInv, VenueInv, RecordsInv

(* Every step keeps it. *)
LEMMA CoreKept ==
  ASSUME OrderLatency = 0, CoreInv, PNext \/ UNCHANGED systemVars
  PROVE  CoreInv'
<1>1. /\ VenueInv /\ EngineInv /\ CancelsHeld /\ SubmitTypes
      /\ Told(Books, Quantities, Halves, StatesNow)
  BY RecordsTold DEF CoreInv, VenueInv
<1>2. EngineInv' /\ SubmitTypes'
  <2>1. strategy.position \in Int
    BY DEF CoreInv, RecordsInv, AccountExact, StrategyExact
  <2> QED BY <1>1, <2>1, EngineKept, SubmitTypesKept
<1>3. SUFFICES /\ CallsNest' /\ OursOnly' /\ CancelsHeld'
               /\ Told(Books', Quantities', Halves', StatesNow')
  BY <1>2, ToldRecords DEF CoreInv, VenueInv
<1>4. CASE EngineWorks
  BY <1>1, <1>4, EngineWorksKeeps
<1>5. CASE \E id \in to_cancel : CancelNext(id)
  BY <1>1, <1>5, CancelNextKeeps
<1>6. CASE SubmitOrder
  <2>1. /\ CallsNest' /\ OursOnly' /\ Told(Books', Quantities', Halves', StatesNow')
        /\ ledger'.cancelling \subseteq ledger.cancelling
        /\ pending' = pending /\ order_index' = order_index
    BY <1>1, <1>6, SubmitTracks
  <2>2. CancelsHeld'
    <3>1. stage' = "submit"
      BY <1>6 DEF SubmitOrder
    <3> QED BY <1>1, <2>1, <3>1 DEF CancelsHeld
  <2> QED BY <2>1, <2>2
<1>7. CASE \/ (\E top \in Quotes : {next_id, next_id + 1} \subseteq Ids /\ ProcessView(top))
           \/ (\E e \in Events : e.kind = "trade" /\ ProcessTrade(e)) \/ TradeDone
           \/ (\E d \in Decisions(strategy, view) : Decide(d)) \/ CheckSwitch \/ RefuseOrder
           \/ ViewDone \/ UNCHANGED systemVars
  <2>1. \/ (\E top : ProcessView(top)) \/ (\E e : ProcessTrade(e)) \/ TradeDone
        \/ (\E d \in Decisions(strategy, view) : Decide(d)) \/ CheckSwitch \/ RefuseOrder
        \/ ViewDone \/ UNCHANGED systemVars
    BY <1>7, Zenon
  <2> QED BY <1>1, <2>1, QuietKeeps
<1> QED BY <1>4, <1>5, <1>6, <1>7, Zenon DEF PNext, Processing

(* With no latency nothing is under way, and what is at the venue is what is open. *)
LEMMA VenueIsOpen ==
  ASSUME CoreInv, NEW i \in Ids
  PROVE  AtVenue(i) = Open(i) /\ (Open(i) > 0 => SideAt(i) = SideOf(i))
<1>1. in_flight = <<>> /\ EngineInv
  BY DEF CoreInv, VenueInv, CallsNest
<1>2. UnderWay(i) = 0
  <2> DEFINE f == [k \in DOMAIN in_flight |->
                     IF in_flight[k].order.id = i THEN in_flight[k].order.remaining ELSE 0]
  <2>1. DOMAIN f = {}
    BY <1>1
  <2> HIDE DEF f
  <2>2. SumFunction(f) = 0
    BY <2>1, SumEmpty DEF SumFunction
  <2> QED BY <2>2, Zenon DEF f, UnderWay
<1>3. Open(i) \in Nat
  BY <1>1, OpenFacts
<1>4. Open(i) > 0 => i \in order_index \/ (pc = "match" /\ cur.id = i)
  BY <1>1, OpenFacts
<1> QED BY <1>2, <1>3, <1>4 DEF AtVenue, SideAt, SideOf

(* Between engine calls exact records are records that agree. *)
LEMMA CoreAgrees ==
  ASSUME CoreInv
  PROVE  RecordsAgree /\ CancelHeld /\ ReservationExact
<1>0. EngineInv /\ RecordsInv /\ CancelsHeld
  BY DEF CoreInv, VenueInv
<1>1. /\ Quantities \in Amount /\ Halves \in SideAmounts
      /\ \A i \in Ids : Quantities[i] = Open(i) /\ AtVenue(i) = Open(i)
      /\ \A i \in Ids : Open(i) \in Nat /\ (Open(i) > 0 => SideAt(i) = SideOf(i))
  BY <1>0, OpenFacts, VenueIsOpen
<1>2. OpenIds(Quantities) = {i \in Ids : AtVenue(i) > 0}
  BY <1>1 DEF OpenIds
<1>3. BooksAgree
  BY <1>0, <1>1, <1>2 DEF BooksAgree, RecordsInv, StrategyExact, LedgerExact
<1>4. StateMatches
  <2> SUFFICES ASSUME pc = "idle", NEW i \in DOMAIN ledger.audit
               PROVE  CASE ledger.audit[i] = "Pending" -> i \notin order_index
                        [] ledger.audit[i] = "Resting" ->
                             i \in order_index /\ data[i].remaining = data[i].qty
                        [] ledger.audit[i] = "PartiallyFilled" ->
                             i \in order_index /\ data[i].remaining < data[i].qty
                        [] OTHER -> FALSE
    BY Zenon DEF StateMatches
  <2>1. i \in OpenIds(Quantities) /\ ledger.audit[i] = StateOf(i)
    BY <1>0 DEF RecordsInv, LedgerExact
  <2>2. i \in order_index /\ data[i].remaining <= data[i].qty
    <3>1. i \in order_index
      BY <2>1 DEF OpenIds, Quantities, Open
    <3> QED BY <3>1 DEF CoreInv, VenueInv, OursOnly
  <2>3. data[i].remaining \in Nat /\ data[i].qty \in Nat
    BY <1>0, <2>1, OpenFacts DEF OpenIds, OrderRec
  <2>4. ledger.audit[i] = IF data[i].remaining = data[i].qty THEN "Resting"
                          ELSE "PartiallyFilled"
    BY <2>1, <2>2 DEF StateOf
  <2> QED BY <2>2, <2>3, <2>4
<1>5. PositionAgrees
  BY <1>0 DEF RecordsInv, PositionAgrees
<1>6. CancelHeld
  BY <1>0 DEF CancelsHeld, CancelHeld
<1>7. ReservationExact
  <2> SUFFICES ASSUME PositionLimit > 0, NEW s \in Sides
               PROVE  account.pending[s] =
                        SumFunctionOnSet([i \in Ids |-> AtVenue(i)],
                                         {i \in Ids : AtVenue(i) > 0 /\ SideAt(i) = s})
    BY DEF ReservationExact
  <2> DEFINE f == OnSide(s)
             g == [i \in Ids |-> AtVenue(i)]
             E == {i \in Ids : f[i] > 0}
             D == {i \in Ids : AtVenue(i) > 0 /\ SideAt(i) = s}
  <2>1. \A i \in Ids : /\ f[i] = IF SideOf(i) = s THEN Open(i) ELSE 0
                       /\ g[i] = AtVenue(i)
    BY DEF OnSide
  <2>2. f \in Amount
    <3>1. f = [i \in Ids |-> f[i]]
      BY DEF OnSide
    <3> HIDE DEF f
    <3> QED BY <1>1, <2>1, <3>1 DEF Amount
  <2> HIDE DEF f, g
  <2>3. E = D
    <3> SUFFICES ASSUME NEW i \in Ids PROVE f[i] > 0 <=> AtVenue(i) > 0 /\ SideAt(i) = s
      OBVIOUS
    <3>1. /\ Open(i) \in Nat /\ AtVenue(i) = Open(i)
          /\ f[i] = IF SideOf(i) = s THEN Open(i) ELSE 0
          /\ Open(i) > 0 => SideAt(i) = SideOf(i)
      BY <1>1, <2>1
    <3> QED BY <3>1
  <2>4. IsFiniteSet(Ids) /\ E \in SUBSET Ids
    BY EngineAssumption, Zenon
  <2>5. \A i \in E : f[i] \in Int /\ f[i] = g[i]
    BY <1>1, <2>1
  <2>6. IsFiniteSet(E)
    BY <2>4, FS_Subset
  <2> HIDE DEF E, D
  <2>7. SumFunctionOnSet(f, E) = SumFunctionOnSet(g, E)
    BY <2>5, <2>6, SumEqual
  <2>8. account.pending[s] = SumFunctionOnSet(f, Ids)
    BY <1>0 DEF RecordsInv, AccountExact, f
  <2>9. SumFunctionOnSet(f, E) = SumFunctionOnSet(f, Ids)
    BY <2>2, TotalZero DEF Total, E
  <2> QED BY <2>3, <2>7, <2>8, <2>9, Zenon DEF g, D
<1> QED BY <1>3, <1>4, <1>5, <1>6, <1>7 DEF RecordsAgree

(* CoreInv is an invariant of the pipeline that sends its orders without latency. *)
THEOREM CoreInvariant ==
  ASSUME OrderLatency = 0
  PROVE  PSpec => []CoreInv
<1>1. CoreInv /\ [PNext]_systemVars => CoreInv'
  BY CoreKept
<1> QED BY <1>1, CoreInit, PTL DEF PSpec

(* handle_report and handle_rejected_order keep the engine, the strategy, the account
   and the ledger in step, whatever the engine reports inside its calls. *)
THEOREM RecordsAlwaysAgree ==
  ASSUME OrderLatency = 0
  PROVE  PSpec => []RecordsAgree
<1>1. CoreInv => RecordsAgree
  BY CoreAgrees
<1> QED BY <1>1, CoreInvariant, PTL

(* begin_cancel suppresses no cancel the engine has not still to apply. *)
THEOREM CancelsAlwaysHeld ==
  ASSUME OrderLatency = 0
  PROVE  PSpec => []CancelHeld
<1>1. CoreInv => CancelHeld
  BY CoreAgrees
<1> QED BY <1>1, CoreInvariant, PTL

(* The quantity the position gate has reserved is, after every single report, what
   can still fill. *)
THEOREM ReservationAlwaysExact ==
  ASSUME OrderLatency = 0
  PROVE  PSpec => []ReservationExact
<1>1. CoreInv => ReservationExact
  BY CoreAgrees
<1> QED BY <1>1, CoreInvariant, PTL

-----------------------------------------------------------------------------
(* How far past its limit the position gate lets the position go. *)

(* A buy of a fresh quote: nothing else is on its side, at most q on the other. *)
LEMMA QuoteReach ==
  ASSUME NEW P \in Int, NEW S \in Nat, NEW n \in Nat \ {0}, NEW q \in Nat \ {0},
         NEW L \in Nat, S <= q, n <= q,
         Magnitude(P - S + n) < Magnitude(P - S) \/ Magnitude(P - S + n) <= L
  PROVE  P + n <= Greatest(L, q - 1) + q
<1>1. CASE Magnitude(P - S + n) <= L
  BY <1>1 DEF Magnitude, Greatest
<1>2. CASE Magnitude(P - S + n) < Magnitude(P - S)
  <2>1. P - S <= -1
    BY <1>2 DEF Magnitude
  <2>2. P + n <= q - 1 + q
    BY <2>1
  <2> QED BY <2>2 DEF Greatest
<1> QED BY <1>1, <1>2

(* A buy that flattens the short position P to the band F, whatever is open: F is at
   least the limit less one, and the sells open cannot take the position past R. *)
LEMMA FlattenReach ==
  ASSUME NEW P \in Int, NEW B \in Nat, NEW S \in Nat, NEW n \in Nat \ {0}, NEW F \in Nat,
         NEW L \in Nat, NEW R \in Int, n = -P - F, L <= F + 1, P - S >= -R,
         \/ Magnitude(P + B - S + n) < Magnitude(P + B - S)
         \/ Magnitude(P + B - S + n) <= L
  PROVE  P + B + n <= R
<1>1. CASE Magnitude(P + B - S + n) <= L
  <2>1. P + B - S + n <= L
    BY <1>1 DEF Magnitude
  <2> QED BY <2>1
<1>2. CASE Magnitude(P + B - S + n) < Magnitude(P + B - S)
  <2>1. P + B - S < 0
    BY <1>2 DEF Magnitude
  <2> QED BY <2>1
<1> QED BY <1>1, <1>2

(* A sell is a buy seen in the mirror. *)
LEMMA MagnitudeMirrors ==
  ASSUME NEW x \in Int
  PROVE  Magnitude(x) = Magnitude(-x)
BY DEF Magnitude

(* The numbers in hand. *)
LEMMA GateNumbers ==
  ASSUME CoreInv
  PROVE  /\ account \in AccountRec /\ account.position \in Int
         /\ account.pending["Buy"] \in Nat /\ account.pending["Sell"] \in Nat
         /\ \A s \in Sides : account.pending[s] \in Nat
         /\ strategy.position = account.position
         /\ QuoteSizes \subseteq Nat \ {0} /\ FlattenBand \in Nat /\ PositionLimit \in Nat
         /\ to_submit \in Seq(Wanted) /\ Len(to_submit) \in Nat /\ Len(to_submit) <= 2
<1>1. account \in AccountRec /\ strategy.position = account.position
  BY DEF CoreInv, RecordsInv, AccountExact, StrategyExact, AccountRec
<1>2. to_submit \in Seq(Wanted) /\ Len(to_submit) <= 2
  BY DEF CoreInv, SubmitTypes, Wanted
<1>3. Len(to_submit) \in Nat
  BY <1>2, LenProperties
<1>4. QuoteSizes \subseteq Nat \ {0} /\ FlattenBand \in Nat /\ PositionLimit \in Nat
  BY MakerAssumption, RiskAssumption, Zenon
<1> QED BY <1>1, <1>2, <1>3, <1>4 DEF AccountRec, Sides

(* What an order may do that passes the position gate. *)
LEMMA PassedGate ==
  ASSUME CoreInv, PositionLimit > 0, to_submit # <<>>, Decision.reason = "none",
         NEW n, n = Head(to_submit).quantity, NEW side, side = Head(to_submit).side,
         NEW C, C = account.position + account.pending["Buy"] - account.pending["Sell"],
         NEW D, D = C + (IF side = "Buy" THEN n ELSE -n)
  PROVE  Magnitude(D) < Magnitude(C) \/ Magnitude(D) <= PositionLimit
<1> DEFINE o == Head(to_submit)
<1>1. n \in Nat \ {0} /\ o.quantity = n /\ o.side = side
  BY SentOrder DEF CoreInv
<1> HIDE DEF o
<1>2. ~OverLimit(o, Context)
  BY DEF Decision, Check, o
<1>3. IsReducing(o, Context) \/ ~(Magnitude(ProjectedPosition(o, Context)) > PositionLimit)
  BY <1>1, <1>2 DEF OverLimit
<1>4. Context.position = account.position /\ Context.pending = account.pending
  BY DEF Context
<1>5. /\ account.position \in Int /\ PositionLimit \in Nat
      /\ account.pending["Buy"] \in Nat /\ account.pending["Sell"] \in Nat
  BY GateNumbers
<1>6. CurrentPosition(Context) = C /\ C \in Int
  BY <1>4, <1>5 DEF CurrentPosition
<1>7. ProjectedPosition(o, Context) = D /\ D \in Int
  BY <1>1, <1>6 DEF ProjectedPosition
<1>8. Magnitude(D) < Magnitude(C) \/ ~(Magnitude(D) > PositionLimit)
  BY <1>3, <1>6, <1>7 DEF IsReducing
<1>9. Magnitude(D) \in Int
  BY <1>7 DEF Magnitude
<1> QED BY <1>5, <1>8, <1>9

(* The order sent first is a flattening one or a quote. *)
LEMMA HeadShape ==
  ASSUME CoreInv, NEW q \in QuoteSizes, SubmitShape(q), to_submit # <<>>
  PROVE  /\ Flattening(Head(to_submit)) \/ Quoting(Head(to_submit), q)
         /\ Head(to_submit) = to_submit[1]
<1>1. /\ to_submit \in Seq(Wanted) /\ Len(to_submit) \in Nat /\ Len(to_submit) <= 2
      /\ q \in Nat \ {0}
  BY GateNumbers
<1>2. Head(to_submit) = to_submit[1] /\ Len(to_submit) >= 1
  BY <1>1, HeadTailProperties, EmptySeq
<1>3. CASE Len(to_submit) = 1
  BY <1>2, <1>3 DEF SubmitShape
<1>4. CASE Len(to_submit) = 2
  <2>1. Head(to_submit).side = "Buy" /\ Head(to_submit).quantity <= q
        /\ \A s \in Sides : account.pending[s] = 0
    BY <1>2, <1>4 DEF SubmitShape
  <2>2. Quoting(Head(to_submit), q)
    BY <1>1, <2>1 DEF Quoting, Opposite, Sides
  <2> QED BY <1>2, <2>2
<1>5. Len(to_submit) = 1 \/ Len(to_submit) = 2
  <2>1. PICK m \in Nat : m = Len(to_submit)
    BY <1>1
  <2>2. m >= 1 /\ m <= 2
    BY <1>1, <1>2, <2>1
  <2>3. m = 1 \/ m = 2
    BY ONLY m \in Nat, <2>2
  <2> QED BY <2>1, <2>3, Zenon
<1> QED BY <1>2, <1>3, <1>4, <1>5

(* An order that passes the gate, once reserved, takes the position no further. *)
LEMMA EnteredReach ==
  ASSUME CoreInv, PositionLimit > 0, NEW q \in QuoteSizes, SubmitShape(q), WithinReach(q),
         FlattenBand = 0 \/ PositionLimit <= FlattenBand + 1,
         to_submit # <<>>, Decision.reason = "none",
         NEW e, e = Entered(next_id, Head(to_submit)).account
  PROVE  /\ e.position + e.pending["Buy"] <= Reach(q)
         /\ e.position - e.pending["Sell"] >= -Reach(q)
<1>1. PICK o \in Wanted : o = Head(to_submit)
  BY SentOrder DEF CoreInv, Wanted
<1>2. PICK n \in Nat \ {0} : n = o.quantity
  BY DEF Wanted
<1>3. o.side \in {"Buy", "Sell"}
  BY DEF Wanted, Sides
<1>4. PICK P \in Int : P = account.position
  BY GateNumbers
<1>5. PICK B \in Nat : B = account.pending["Buy"]
  BY GateNumbers
<1>6. PICK S \in Nat : S = account.pending["Sell"]
  BY GateNumbers
<1>7. /\ q \in Nat \ {0} /\ FlattenBand \in Nat /\ PositionLimit \in Nat
      /\ strategy.position = P
  BY <1>4, GateNumbers
<1>8. Reach(q) \in Int /\ P + B <= Reach(q) /\ P - S >= -Reach(q)
  BY <1>4, <1>5, <1>6, <1>7 DEF WithinReach, Reach, Greatest
<1>9. /\ e.position = P
      /\ e.pending["Buy"] = (IF o.side = "Buy" THEN B + n ELSE B)
      /\ e.pending["Sell"] = (IF o.side = "Sell" THEN S + n ELSE S)
  <2>1. account.pending \in [Sides -> Nat] /\ account \in AccountRec
    BY GateNumbers DEF AccountRec
  <2>2. e = Reserve(account, o.side, n)
    BY <1>1, <1>2 DEF Entered, Books
  <2>3. e.position = P /\ e.pending = [account.pending EXCEPT ![o.side] = @ + n]
    BY <1>4, <2>1, <2>2 DEF Reserve, AccountRec
  <2> QED BY <1>3, <1>5, <1>6, <2>1, <2>3 DEF Sides
<1>10. Flattening(o) \/ Quoting(o, q)
  BY <1>1, HeadShape
<1>11. CASE o.side = "Buy"
  <2>1. P + B - S \in Int /\ P + B - S + n \in Int
    OBVIOUS
  <2>2. \/ Magnitude(P + B - S + n) < Magnitude(P + B - S)
        \/ Magnitude(P + B - S + n) <= PositionLimit
    BY <1>1, <1>2, <1>4, <1>5, <1>6, <1>11, <2>1, PassedGate
  <2>3. CASE Quoting(o, q)
    <3>1. B = 0 /\ S <= q /\ n <= q
      BY <1>2, <1>5, <1>6, <1>11, <2>3 DEF Quoting, Opposite
    <3>2. P + B - S = P - S /\ P + B - S + n = P - S + n
      BY <3>1
    <3>3. P + n <= Reach(q)
      BY <1>7, <2>2, <3>1, <3>2, QuoteReach DEF Reach
    <3> QED BY <1>8, <1>9, <1>11, <3>1, <3>3
  <2>4. CASE Flattening(o)
    <3>1. Flattens(strategy) /\ n = Size(P) - FlattenBand /\ P < 0
      BY <1>2, <1>4, <1>7, <1>11, <2>4 DEF Flattening
    <3>2. n = -P - FlattenBand /\ PositionLimit <= FlattenBand + 1
      BY <1>7, <3>1 DEF Flattens, Size
    <3>3. P + B + n <= Reach(q)
      BY <1>7, <1>8, <2>2, <3>2, FlattenReach
    <3> QED BY <1>8, <1>9, <1>11, <3>3
  <2> QED BY <1>10, <2>3, <2>4
<1>12. CASE o.side = "Sell"
  <2>1. P + B - S \in Int /\ P + B - S - n \in Int /\ P + B - S + -n = P + B - S - n
    OBVIOUS
  <2>2. \/ Magnitude(P + B - S - n) < Magnitude(P + B - S)
        \/ Magnitude(P + B - S - n) <= PositionLimit
    BY <1>1, <1>2, <1>4, <1>5, <1>6, <1>12, <2>1, PassedGate
  <2>3. PICK Q \in Int : Q = -P
    OBVIOUS
  <2>4. /\ Q + S - B = -(P + B - S) /\ Q + S - B + n = -(P + B - S - n)
        /\ Q + S - B \in Int /\ Q + S - B + n \in Int
    BY <2>3
  <2>5. /\ Magnitude(Q + S - B) = Magnitude(P + B - S)
        /\ Magnitude(Q + S - B + n) = Magnitude(P + B - S - n)
    BY <2>1, <2>4, MagnitudeMirrors
  <2>6. \/ Magnitude(Q + S - B + n) < Magnitude(Q + S - B)
        \/ Magnitude(Q + S - B + n) <= PositionLimit
    BY <2>2, <2>5
  <2>7. CASE Quoting(o, q)
    <3>1. S = 0 /\ B <= q /\ n <= q
      BY <1>2, <1>5, <1>6, <1>12, <2>7 DEF Quoting, Opposite
    <3>2. Q + S - B = Q - B /\ Q + S - B + n = Q - B + n
      BY <3>1
    <3>3. Q + n <= Reach(q)
      BY <1>7, <2>6, <3>1, <3>2, QuoteReach DEF Reach
    <3> QED BY <1>8, <1>9, <1>12, <2>3, <3>1, <3>3
  <2>8. CASE Flattening(o)
    <3>1. Flattens(strategy) /\ n = Size(P) - FlattenBand /\ ~(P < 0)
      BY <1>2, <1>4, <1>7, <1>12, <2>8 DEF Flattening
    <3>2. n = -Q - FlattenBand /\ PositionLimit <= FlattenBand + 1
          /\ Q - B >= -Reach(q)
      BY <1>7, <1>8, <2>3, <3>1 DEF Flattens, Size
    <3>3. Q + S + n <= Reach(q)
      BY <1>7, <1>8, <2>6, <3>2, FlattenReach
    <3> QED BY <1>8, <1>9, <1>12, <2>3, <3>3
  <2> QED BY <1>10, <2>7, <2>8
<1> QED BY <1>3, <1>11, <1>12

(* With no order open nothing is reserved. *)
LEMMA NothingReserved ==
  ASSUME CoreInv, PositionLimit > 0, DOMAIN strategy.open = {}, NEW s \in Sides
  PROVE  account.pending[s] = 0
<1>0. EngineInv /\ RecordsInv
  BY DEF CoreInv, VenueInv
<1> DEFINE f == OnSide(s)
<1>1. \A i \in Ids : Open(i) \in Nat /\ ~(Open(i) > 0)
  <2>1. OpenIds(Quantities) = {}
    BY <1>0 DEF RecordsInv, StrategyExact
  <2>2. \A i \in Ids : Open(i) \in Nat /\ Quantities[i] = Open(i)
    BY <1>0, OpenFacts
  <2> QED BY <2>1, <2>2 DEF OpenIds
<1>2. \A i \in Ids : f[i] = 0
  BY <1>1 DEF OnSide
<1>3. f \in Amount /\ {i \in Ids : f[i] > 0} = {}
  <2>1. f = [i \in Ids |-> f[i]]
    BY DEF OnSide
  <2> HIDE DEF f
  <2> QED BY <1>2, <2>1 DEF Amount
<1>4. account.pending[s] = SumFunctionOnSet(f, Ids)
  BY <1>0 DEF RecordsInv, AccountExact
<1> HIDE DEF f
<1> QED BY <1>3, <1>4, TotalZero, SumEmpty DEF Total

(* What each step does to the account: nothing more can happen to the position than
   before, or than with the order just sent reserved. *)
LEMMA AccountNarrows ==
  ASSUME OrderLatency = 0, CoreInv
  PROVE  /\ EngineWorks => /\ Narrower(account, account') /\ pc # "idle"
                           /\ to_submit' = to_submit
         /\ \A id \in to_cancel : CancelNext(id) =>
              /\ Narrower(account, account') /\ account'.position = account.position
              /\ pc' = pc /\ to_submit' = to_submit
         /\ SubmitOrder => /\ Narrower(Entered(next_id, Head(to_submit)).account, account')
                           /\ to_submit' = Tail(to_submit) /\ to_submit # <<>>
                           /\ Decision.reason = "none"
<1>1. /\ VenueInv /\ CancelsHeld /\ SubmitTypes
      /\ Told(Books, Quantities, Halves, StatesNow)
  BY RecordsTold DEF CoreInv, VenueInv
<1>2. EngineWorks => Narrower(account, account') /\ pc # "idle" /\ to_submit' = to_submit
  BY <1>1, EngineWorksKeeps DEF EngineWorks
<1>3. ASSUME NEW id \in to_cancel, CancelNext(id)
      PROVE  /\ Narrower(account, account') /\ account'.position = account.position
             /\ pc' = pc /\ to_submit' = to_submit
  <2>1. pc' = pc /\ to_submit' = to_submit
    BY <1>3 DEF CancelNext, CancelOrder
  <2> QED BY <1>1, <1>3, <2>1, CancelNextKeeps
<1>4. SubmitOrder => /\ Narrower(Entered(next_id, Head(to_submit)).account, account')
                     /\ to_submit' = Tail(to_submit) /\ to_submit # <<>>
                     /\ Decision.reason = "none"
  BY <1>1, SubmitTracks DEF SubmitOrder
<1> QED BY <1>2, <1>3, <1>4

(* The steps besides leave the account as it is. *)
LEMMA AccountStays ==
  ASSUME CoreInv,
         (\E top : ProcessView(top)) \/ (\E e : ProcessTrade(e)) \/ TradeDone
         \/ (\E d \in Decisions(strategy, view) : Decide(d)) \/ CheckSwitch \/ RefuseOrder
         \/ ViewDone \/ UNCHANGED systemVars
  PROVE  account' = account
<1>1. VenueInv /\ CancelsHeld /\ Told(Books, Quantities, Halves, StatesNow)
  BY RecordsTold DEF CoreInv, VenueInv
<1> QED BY <1>1, QuietKeeps

(* The orders left keep their shape while the account only narrows. *)
LEMMA ShapeNarrows ==
  ASSUME CoreInv, CoreInv', PositionLimit > 0, NEW q \in QuoteSizes, SubmitShape(q),
         to_submit' = to_submit, Narrower(account, account'),
         pc # "idle" \/ (pc' = pc /\ account'.position = account.position)
  PROVE  SubmitShape(q)'
<1>1. /\ \A s \in Sides : /\ account.pending[s] \in Nat /\ account'.pending[s] \in Nat
                          /\ account'.pending[s] <= account.pending[s]
      /\ strategy.position = account.position /\ strategy'.position = account'.position
      /\ q \in Nat \ {0} /\ to_submit \in Seq(Wanted) /\ Len(to_submit) \in Nat
  <2>1. \A s \in Sides : account'.pending[s] \in Nat
    BY DEF CoreInv, RecordsInv, AccountExact
  <2>2. strategy'.position = account'.position
    BY DEF CoreInv, RecordsInv, StrategyExact
  <2> QED BY <2>1, <2>2, GateNumbers DEF Narrower
<1>2. ASSUME Len(to_submit) = 1
      PROVE  Flattening(to_submit[1])' \/ Quoting(to_submit[1], q)'
  <2>1. PICK o \in Wanted : o = to_submit[1]
    BY <1>1, <1>2
  <2>2. o.side \in Sides /\ Opposite(o.side) \in Sides
    BY DEF Wanted, Opposite, Sides
  <2>3. Flattening(o) \/ Quoting(o, q)
    BY <1>2, <2>1 DEF SubmitShape
  <2>4. Flattening(o) => Flattening(o)'
    BY <1>1 DEF Flattening, Flattens
  <2>5. Quoting(o, q) => Quoting(o, q)'
    <3>1. PICK s \in Sides : s = o.side
      BY <2>2
    <3>2. PICK t \in Sides : t = Opposite(o.side)
      BY <2>2
    <3>3. /\ account.pending[s] = 0 => account'.pending[s] = 0
          /\ account.pending[t] <= q => account'.pending[t] <= q
      BY <1>1
    <3> QED BY <3>1, <3>2, <3>3 DEF Quoting
  <2>6. Flattening(o)' \/ Quoting(o, q)'
    BY <2>3, <2>4, <2>5
  <2>7. o = to_submit'[1]
    BY <2>1
  <2> QED BY <2>6, <2>7 DEF Flattening, Quoting
<1>3. (\A s \in Sides : account.pending[s] = 0) => \A s \in Sides : account'.pending[s] = 0
  BY <1>1
<1> QED BY <1>2, <1>3, Zenon DEF SubmitShape

(* One order fewer: what is left of two is the ask, to be sent next to the bid. *)
LEMMA ShapeTail ==
  ASSUME CoreInv, NEW q \in QuoteSizes, SubmitShape(q),
         to_submit # <<>>, to_submit' = Tail(to_submit),
         Len(to_submit) = 2 => account'.pending["Sell"] = 0 /\ account'.pending["Buy"] <= q
  PROVE  SubmitShape(q)'
<1>1. to_submit \in Seq(Wanted) /\ Len(to_submit) \in Nat /\ Len(to_submit) <= 2
  BY GateNumbers
<1>2. /\ Len(to_submit') = Len(to_submit) - 1
      /\ \A k \in 1 .. Len(to_submit) - 1 : to_submit'[k] = to_submit[k + 1]
  BY <1>1, HeadTailProperties, EmptySeq
<1>0. PICK m \in Nat : m = Len(to_submit)
  BY <1>1
<1>3. Len(to_submit') # 2 /\ (Len(to_submit') = 1 => m = 2)
  <2>1. m <= 2 /\ Len(to_submit') = m - 1
    BY <1>1, <1>2, <1>0
  <2> QED BY ONLY <2>1, m \in Nat
<1>4. ASSUME Len(to_submit') = 1 PROVE Quoting(to_submit[1], q)'
  <2>1. Len(to_submit) = 2 /\ to_submit'[1] = to_submit[2]
    <3>1. Len(to_submit) = 2
      BY <1>0, <1>3, <1>4
    <3>2. 1 \in 1 .. Len(to_submit) - 1 /\ 1 + 1 = 2
      BY <3>1
    <3> QED BY <1>2, <3>1, <3>2
  <2>2. to_submit'[1].side = "Sell" /\ to_submit'[1].quantity <= q
    BY <2>1 DEF SubmitShape
  <2> QED BY <2>1, <2>2 DEF Quoting, Opposite
<1> QED BY <1>3, <1>4, Zenon DEF SubmitShape

(* What a decision makes of an empty list of orders. *)
LEMMA ShapeDecided ==
  ASSUME CoreInv, PositionLimit > 0, NEW q \in QuoteSizes, Largest(q),
         NEW d \in Decisions(strategy, view), Decide(d), account' = account,
         strategy'.position = strategy.position
  PROVE  SubmitShape(q)'
<1>1. /\ strategy.position \in Int /\ view \in Quotes /\ q \in Nat \ {0}
      /\ QuoteSizes \subseteq Nat \ {0}
  BY GateNumbers DEF CoreInv, SubmitTypes
<1>2. to_submit' = d.orders /\ pc' = "idle"
  BY DEF Decide, engineVars
<1>3. /\ d.orders \in Seq(Wanted) /\ Len(d.orders) <= 2
      /\ \/ d.orders = <<>>
         \/ Flattens(strategy) /\ d.orders = <<FlattenOrder(strategy, view)>>
         \/ DOMAIN strategy.open = {} /\ Fresh(d.orders)
  BY <1>1, DecidedOrders
<1>4. CASE d.orders = <<>>
  BY <1>2, <1>4 DEF SubmitShape
<1>5. CASE Flattens(strategy) /\ d.orders = <<FlattenOrder(strategy, view)>>
  <2>1. Len(to_submit') = 1 /\ to_submit'[1] = FlattenOrder(strategy, view)
    BY <1>2, <1>5
  <2>2. /\ FlattenOrder(strategy, view).side = (IF strategy.position < 0 THEN "Buy" ELSE "Sell")
        /\ FlattenOrder(strategy, view).quantity = Size(strategy.position) - FlattenBand
    BY DEF FlattenOrder
  <2>3. Flattening(to_submit[1])'
    BY <1>2, <1>5, <2>1, <2>2 DEF Flattening, Flattens
  <2> QED BY <2>1, <2>3 DEF SubmitShape
<1>6. CASE DOMAIN strategy.open = {} /\ Fresh(d.orders)
  <2>1. \A s \in Sides : account'.pending[s] = 0
    BY <1>6, NothingReserved
  <2>2. \A k \in 1 .. Len(to_submit') : to_submit'[k].quantity <= q
    BY <1>2, <1>6 DEF Fresh, Largest
  <2>3. ASSUME Len(to_submit') = 1 PROVE Quoting(to_submit[1], q)'
    <3>1. to_submit'[1].quantity <= q /\ to_submit'[1] \in Wanted
      BY <1>2, <1>3, <2>2, <2>3
    <3>2. to_submit'[1].side \in Sides /\ Opposite(to_submit'[1].side) \in Sides
      BY <3>1 DEF Wanted, Opposite, Sides
    <3> QED BY <1>1, <2>1, <3>1, <3>2 DEF Quoting
  <2>4. ASSUME Len(to_submit') = 2
        PROVE  /\ to_submit'[1].side = "Buy" /\ to_submit'[1].quantity <= q
               /\ to_submit'[2].side = "Sell" /\ to_submit'[2].quantity <= q
    BY <1>2, <1>6, <2>2, <2>4 DEF Fresh
  <2> QED BY <2>1, <2>3, <2>4, Zenon DEF SubmitShape
<1> QED BY <1>3, <1>4, <1>5, <1>6

(* A step of SubmitOrder leaves at most the bid just sent reserved when an ask is left. *)
LEMMA AskAlone ==
  ASSUME CoreInv, CoreInv', PositionLimit > 0, NEW q \in QuoteSizes, SubmitShape(q),
         to_submit # <<>>, Len(to_submit) = 2,
         Narrower(Entered(next_id, Head(to_submit)).account, account')
  PROVE  account'.pending["Sell"] = 0 /\ account'.pending["Buy"] <= q
<1>1. PICK e : e = Entered(next_id, Head(to_submit)).account
  OBVIOUS
<1>2. /\ Head(to_submit) = to_submit[1] /\ Head(to_submit).side = "Buy"
      /\ Head(to_submit).quantity <= q
      /\ account.pending["Buy"] = 0 /\ account.pending["Sell"] = 0
  BY HeadShape DEF SubmitShape, Sides
<1>3. PICK n \in Nat \ {0} : n = Head(to_submit).quantity
  BY SentOrder DEF CoreInv
<1>4. account \in AccountRec /\ account.pending \in [Sides -> Nat] /\ q \in Nat
  BY GateNumbers DEF AccountRec
<1>5. e = Reserve(account, "Buy", n)
  BY <1>1, <1>2, <1>3 DEF Entered, Books
<1>6. e.pending = [account.pending EXCEPT !["Buy"] = @ + n]
  BY <1>4, <1>5 DEF Reserve, AccountRec
<1>7. e.pending["Buy"] = n /\ e.pending["Sell"] = 0
  BY <1>2, <1>4, <1>6 DEF Sides
<1>8. account'.pending["Buy"] \in Nat /\ account'.pending["Sell"] \in Nat
  BY DEF CoreInv, RecordsInv, AccountExact, Sides
<1>9. account'.pending["Buy"] <= n /\ account'.pending["Sell"] <= 0
  BY <1>1, <1>7 DEF Narrower, Sides
<1> QED BY <1>2, <1>3, <1>4, <1>8, <1>9

(* Every step keeps the shape of what is to be submitted. *)
LEMMA ShapeKept ==
  ASSUME OrderLatency = 0, CoreInv, CoreInv', PositionLimit > 0, NEW q \in QuoteSizes,
         Largest(q), SubmitShape(q), PNext \/ UNCHANGED systemVars
  PROVE  SubmitShape(q)'
<1>0. account.position \in Int /\ \A s \in Sides : account.pending[s] \in Nat
  BY GateNumbers
<1>1. ASSUME stage' \in {"idle", "trade", "view"} PROVE SubmitShape(q)'
  <2>1. to_submit' = <<>>
    BY <1>1 DEF CoreInv, SubmitTypes
  <2> QED BY <2>1 DEF SubmitShape
<1>2. ASSUME account' = account, pc' = pc, to_submit' = to_submit PROVE SubmitShape(q)'
  <2>1. Narrower(account, account')
    BY <1>0, <1>2 DEF Narrower, Sides
  <2> QED BY <1>2, <2>1, ShapeNarrows
<1>3. CASE \E top \in Quotes : {next_id, next_id + 1} \subseteq Ids /\ ProcessView(top)
  BY <1>1, <1>3 DEF ProcessView
<1>4. CASE \E e \in Events : e.kind = "trade" /\ ProcessTrade(e)
  BY <1>1, <1>4 DEF ProcessTrade
<1>5. CASE EngineWorks
  BY <1>5, AccountNarrows, ShapeNarrows
<1>6. CASE TradeDone \/ ViewDone
  BY <1>1, <1>6 DEF TradeDone, ViewDone
<1>7. CASE \E d \in Decisions(strategy, view) : Decide(d)
  <2>1. PICK d \in Decisions(strategy, view) : Decide(d)
    BY <1>7
  <2>2. account' = account
    BY <1>7, AccountStays
  <2>3. strategy'.position = account'.position /\ strategy.position = account.position
    BY DEF CoreInv, RecordsInv, StrategyExact
  <2> QED BY <2>1, <2>2, <2>3, ShapeDecided
<1>8. CASE \E id \in to_cancel : CancelNext(id)
  BY <1>8, AccountNarrows, ShapeNarrows
<1>9. CASE CheckSwitch
  BY <1>2, <1>9 DEF CheckSwitch, engineVars
<1>10. CASE RefuseOrder
  <2>1. /\ to_submit # <<>> /\ to_submit' = Tail(to_submit) /\ account' = account
    BY <1>10 DEF RefuseOrder
  <2>2. Len(to_submit) = 2 => account'.pending["Sell"] = 0 /\ account'.pending["Buy"] <= q
    <3>1. q \in Nat
      BY GateNumbers
    <3> QED BY <2>1, <3>1 DEF SubmitShape, Sides
  <2> QED BY <2>1, <2>2, ShapeTail
<1>11. CASE SubmitOrder
  <2>1. /\ Narrower(Entered(next_id, Head(to_submit)).account, account')
        /\ to_submit' = Tail(to_submit) /\ to_submit # <<>>
    BY <1>11, AccountNarrows
  <2>2. Len(to_submit) = 2 => account'.pending["Sell"] = 0 /\ account'.pending["Buy"] <= q
    BY <2>1, AskAlone
  <2> QED BY <2>1, <2>2, ShapeTail
<1>12. CASE UNCHANGED systemVars
  BY <1>2, <1>12 DEF systemVars, pipelineVars, engineVars
<1> QED BY <1>3, <1>4, <1>5, <1>6, <1>7, <1>8, <1>9, <1>10, <1>11, <1>12
        DEF PNext, Processing

(* What is still open takes the position no further than it could before. *)
LEMMA ReachNarrows ==
  ASSUME CoreInv', PositionLimit > 0, NEW q \in QuoteSizes, NEW e, Narrower(e, account'),
         e.position + e.pending["Buy"] \in Int, e.position - e.pending["Sell"] \in Int,
         e.position + e.pending["Buy"] <= Reach(q),
         e.position - e.pending["Sell"] >= -Reach(q)
  PROVE  WithinReach(q)'
<1>1. /\ account'.position \in Int
      /\ account'.pending["Buy"] \in Nat /\ account'.pending["Sell"] \in Nat
  BY DEF CoreInv, RecordsInv, AccountExact, Sides
<1>2. Reach(q) \in Int
  BY MakerAssumption, RiskAssumption DEF Reach, Greatest
<1>3. PICK r \in Int : r = Reach(q)
  BY <1>2
<1>4. /\ account'.position + account'.pending["Buy"] <= e.position + e.pending["Buy"]
      /\ account'.position - account'.pending["Sell"] >= e.position - e.pending["Sell"]
  BY DEF Narrower
<1>5. /\ account'.position + account'.pending["Buy"] <= r
      /\ account'.position - account'.pending["Sell"] >= -r
  BY <1>1, <1>3, <1>4
<1> QED BY <1>3, <1>5 DEF WithinReach, Reach

(* Every step keeps the position within reach. *)
LEMMA ReachKept ==
  ASSUME OrderLatency = 0, CoreInv, CoreInv', PositionLimit > 0, NEW q \in QuoteSizes,
         SubmitShape(q), WithinReach(q), FlattenBand = 0 \/ PositionLimit <= FlattenBand + 1,
         PNext \/ UNCHANGED systemVars
  PROVE  WithinReach(q)'
<1>0. /\ account.position + account.pending["Buy"] \in Int
      /\ account.position - account.pending["Sell"] \in Int
      /\ account.position + account.pending["Buy"] <= Reach(q)
      /\ account.position - account.pending["Sell"] >= -Reach(q)
  BY GateNumbers DEF WithinReach
<1>1. ASSUME Narrower(account, account') PROVE WithinReach(q)'
  BY <1>0, <1>1, ReachNarrows
<1>2. CASE EngineWorks
  BY <1>1, <1>2, AccountNarrows
<1>3. CASE \E id \in to_cancel : CancelNext(id)
  BY <1>1, <1>3, AccountNarrows
<1>4. CASE SubmitOrder
  <2>1. PICK e : e = Entered(next_id, Head(to_submit)).account
    OBVIOUS
  <2>2. Narrower(e, account') /\ to_submit # <<>> /\ Decision.reason = "none"
    BY <1>4, <2>1, AccountNarrows
  <2>3. /\ e.position + e.pending["Buy"] <= Reach(q)
        /\ e.position - e.pending["Sell"] >= -Reach(q)
    BY <2>1, <2>2, EnteredReach
  <2>4. /\ e.position + e.pending["Buy"] \in Int
        /\ e.position - e.pending["Sell"] \in Int
    <3>1. PICK n \in Nat : n = Head(to_submit).quantity
      BY <2>2, SentOrder DEF CoreInv
    <3>2. PICK side \in Sides : side = Head(to_submit).side
      BY <2>2, SentOrder DEF CoreInv
    <3>3. account \in AccountRec
      BY GateNumbers
    <3>4. e = account \/ e = Reserve(account, side, n)
      BY <2>1, <3>1, <3>2 DEF Entered, Books
    <3>5. e.position \in Int /\ e.pending \in [Sides -> Nat]
      <4>1. account.position \in Int /\ account.pending \in [Sides -> Nat]
        BY <3>3 DEF AccountRec
      <4>2. Reserve(account, side, n).position = account.position
            /\ Reserve(account, side, n).pending = [account.pending EXCEPT ![side] = @ + n]
        BY <3>3 DEF Reserve, AccountRec
      <4>3. [account.pending EXCEPT ![side] = @ + n] \in [Sides -> Nat]
        BY <4>1
      <4> QED BY <3>4, <4>1, <4>2, <4>3
    <3> QED BY <3>5 DEF Sides
  <2> QED BY <2>2, <2>3, <2>4, ReachNarrows
<1>5. CASE \/ (\E top \in Quotes : {next_id, next_id + 1} \subseteq Ids /\ ProcessView(top))
           \/ (\E e \in Events : e.kind = "trade" /\ ProcessTrade(e)) \/ TradeDone
           \/ (\E d \in Decisions(strategy, view) : Decide(d)) \/ CheckSwitch \/ RefuseOrder
           \/ ViewDone \/ UNCHANGED systemVars
  <2>1. account' = account
    <3>1. \/ (\E top : ProcessView(top)) \/ (\E e : ProcessTrade(e)) \/ TradeDone
          \/ (\E d \in Decisions(strategy, view) : Decide(d)) \/ CheckSwitch \/ RefuseOrder
          \/ ViewDone \/ UNCHANGED systemVars
      BY <1>5, Zenon
    <3> QED BY <3>1, AccountStays
  <2> QED BY <1>0, <2>1 DEF WithinReach, Reach
<1> QED BY <1>2, <1>3, <1>4, <1>5, Zenon DEF PNext, Processing

(* At the start nothing is reserved and nothing is held. *)
LEMMA GateInit ==
  ASSUME PInit
  PROVE  GateHolds
<1>1. /\ to_submit = <<>> /\ account.position = 0
      /\ account.pending["Buy"] = 0 /\ account.pending["Sell"] = 0
  BY DEF PInit, NoFills, Sides
<1>2. \A q \in QuoteSizes : SubmitShape(q)
  BY <1>1 DEF SubmitShape
<1>3. \A q \in QuoteSizes : Reach(q) \in Nat
  BY MakerAssumption, RiskAssumption DEF Reach, Greatest
<1>4. \A q \in QuoteSizes : WithinReach(q)
  <2> SUFFICES ASSUME NEW q \in QuoteSizes PROVE WithinReach(q)
    OBVIOUS
  <2>1. PICK r \in Nat : r = Reach(q)
    BY <1>3
  <2>2. 0 + 0 <= r /\ 0 - 0 >= -r
    OBVIOUS
  <2> QED BY <1>1, <2>1, <2>2 DEF WithinReach
<1> QED BY <1>2, <1>4 DEF GateHolds

(* Every step keeps what the gate holds. *)
LEMMA GateKept ==
  ASSUME OrderLatency = 0, CoreInv, GateHolds, PNext \/ UNCHANGED systemVars
  PROVE  GateHolds'
<1>1. CoreInv'
  BY CoreKept
<1>2. ASSUME PositionLimit > 0, NEW q \in QuoteSizes, Largest(q) PROVE SubmitShape(q)'
  BY <1>1, <1>2, ShapeKept DEF GateHolds
<1>3. ASSUME PositionLimit > 0, NEW q \in QuoteSizes, Largest(q),
             FlattenBand = 0 \/ PositionLimit <= FlattenBand + 1
      PROVE  WithinReach(q)'
  BY <1>1, <1>3, ReachKept DEF GateHolds
<1> QED BY <1>2, <1>3 DEF GateHolds, Largest

(* The inductive invariant of the pipeline whose orders are sent without latency. *)
THEOREM PipelineInvariant ==
  ASSUME OrderLatency = 0
  PROVE  PSpec => []PipelineInv
<1>1. PInit => CoreInv /\ GateHolds
  BY CoreInit, GateInit
<1>2. CoreInv /\ GateHolds /\ [PNext]_systemVars => (CoreInv /\ GateHolds)'
  BY CoreKept, GateKept
<1>3. CoreInv /\ GateHolds => PipelineInv
  BY DEF CoreInv, VenueInv, RecordsInv, PipelineInv
<1> QED BY <1>1, <1>2, <1>3, PTL DEF PSpec

(* check_position_limit nets the two sides: the position may pass the limit, or one
   short of the largest quote where that is more, by no more than the largest quote. *)
THEOREM OvershootAlwaysBounded ==
  ASSUME OrderLatency = 0
  PROVE  PSpec => []OvershootBounded
<1>1. PipelineInv => OvershootBounded
  <2> SUFFICES ASSUME PipelineInv, PositionLimit > 0, NEW q \in QuoteSizes, Largest(q),
                      FlattenBand = 0 \/ PositionLimit <= FlattenBand + 1
               PROVE  Magnitude(account.position) <= Reach(q)
    BY DEF OvershootBounded
  <2>1. /\ account.position \in Int
        /\ account.pending["Buy"] \in Nat /\ account.pending["Sell"] \in Nat
    BY DEF PipelineInv, AccountExact, Sides
  <2>2. Reach(q) \in Int
    BY MakerAssumption, RiskAssumption DEF Reach, Greatest
  <2>3. /\ account.position + account.pending["Buy"] <= Reach(q)
        /\ account.position - account.pending["Sell"] >= -Reach(q)
    BY DEF PipelineInv, GateHolds, WithinReach
  <2> QED BY <2>1, <2>2, <2>3 DEF Magnitude
<1> QED BY <1>1, PipelineInvariant, PTL
=============================================================================
