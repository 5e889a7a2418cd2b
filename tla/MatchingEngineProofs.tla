------------------------ MODULE MatchingEngineProofs ------------------------
(***************************************************************************)
(* Proofs about MatchingEngine for every set of ids and ticks, every       *)
(* latency, cancel delay, lot size, participation and queue model, and     *)
(* every sequence of orders, cancels and market events.                    *)
(*                                                                         *)
(* EngineInv is inductive.  Types, the order being matched and the book    *)
(* (TypeInv, IndexMatchesBook) carry the accounts (Conserved), the stored  *)
(* quote (QuoteInv) and the book never crossing itself; which cancels can  *)
(* be due where (NoDueCancelAhead) and that a fill-or-kill order in        *)
(* match_side is covered by what it may cross (FokCovered) are kept apart. *)
(***************************************************************************)
EXTENDS MatchingEngine, FiniteInduction, SequenceTheorems, TLAPS

-----------------------------------------------------------------------------
(* Constants. *)

(* Ids and ticks are positive numbers, and 0 is no order's id. *)
LEMMA IdsAndTicks ==
  /\ Ids \subseteq Nat \ {0} /\ Ticks \subseteq Nat \ {0}
  /\ \A i \in Ids : i \in Nat /\ i # MarketId
  /\ \A t \in Ticks : t \in Nat /\ t > 0
<1>1. Ids \subseteq Nat \ {0} /\ Ticks \subseteq Nat \ {0}
  BY EngineAssumption, Zenon
<1> QED BY <1>1 DEF MarketId

(* The numbers the engine is configured with. *)
LEMMA Settings ==
  /\ IsFiniteSet(Ticks)
  /\ OrderLatency \in Nat /\ CancelLatency \in Nat /\ CancelDelayEvents \in Nat
  /\ ParticipationPct \in 0 .. 100 /\ ArrivalPct \in 0 .. 100
  /\ LumpChunks \in Nat \ {0}
  /\ QueueModelName \in {"conservative", "optimistic", "pro_rata", "lumpy"}
BY EngineAssumption, Zenon

-----------------------------------------------------------------------------
(* Reports and the histories they move. *)

AllIds == Ids \cup {MarketId}
Kinds == {"Trade", "Filled", "PartialFill", "Cancelled", "Resting"}
ReportRec == [kind : Kinds, id : AllIds, side : Sides, quantity : Nat]

(* What one report takes off the quantity owed, and off the open acceptances. *)
Paid(r, i) == IF r.id = i /\ r.kind \in {"Trade", "Cancelled"} THEN r.quantity ELSE 0
Closed(r, i) == IF r.id = i /\ r.kind \in {"Filled", "Cancelled"} THEN 1 ELSE 0

HistTypes == owed \in [AllIds -> Int] /\ unended \in [AllIds -> Int]

(* A report about an order has its type. *)
LEMMA ReportTypes ==
  \A o \in OrderRec, kind \in Kinds, n \in Nat : Report(kind, o, n) \in ReportRec
BY DEF OrderRec, Report, ReportRec, AllIds

(* The histories stay numbers, whatever is reported. *)
LEMMA TakeInTypes ==
  ASSUME HistTypes, NEW id \in Int, NEW qty \in Int, NEW rs \in Seq(ReportRec),
         TakeInAndReport(id, qty, rs)
  PROVE  HistTypes'
<1>1. \A k \in {1, 2, 3}, i \in AllIds : Reported(rs, k, i) \in Int
  <2>1. \A k \in {1, 2, 3} : k <= Len(rs) => rs[k] \in ReportRec
    BY ElementOfSeq, LenProperties
  <2> QED BY <2>1 DEF Reported, ReportRec
<1>2. \A k \in {1, 2, 3}, i \in AllIds : Ends(rs, k, i) \in Int
  BY DEF Ends
<1>3. owed' \in [AllIds -> Int]
  BY <1>1 DEF TakeInAndReport, HistTypes, AllIds
<1>4. unended' \in [AllIds -> Int]
  BY <1>2 DEF TakeInAndReport, HistTypes, AllIds
<1> QED BY <1>3, <1>4 DEF HistTypes

(* Nothing reported and nothing taken in: the histories stay as they are. *)
LEMMA EmitNothing ==
  ASSUME HistTypes, Emit(<<>>)
  PROVE  owed' = owed /\ unended' = unended
<1>1. \A k \in {1, 2, 3}, i \in AllIds : Reported(<<>>, k, i) = 0 /\ Ends(<<>>, k, i) = 0
  BY DEF Reported, Ends
<1>2. \A i \in AllIds : i # -1
  BY IdsAndTicks DEF AllIds, MarketId
<1> QED BY <1>1, <1>2 DEF Emit, TakeInAndReport, HistTypes, AllIds

(* The histories after no report, one, two or three. *)
LEMMA TakeInNone ==
  ASSUME HistTypes, NEW id \in Int, NEW qty \in Int, TakeInAndReport(id, qty, <<>>),
         NEW i \in AllIds
  PROVE  /\ owed'[i] = owed[i] + (IF i = id THEN qty ELSE 0)
         /\ unended'[i] = unended[i] + (IF i = id THEN 1 ELSE 0)
BY DEF TakeInAndReport, HistTypes, AllIds, Reported, Ends

(* After one report: on_report pays it off and, if terminal, closes its order. *)
LEMMA TakeInOne ==
  ASSUME HistTypes, NEW id \in Int, NEW qty \in Int, NEW a \in ReportRec,
         TakeInAndReport(id, qty, <<a>>), NEW i \in AllIds
  PROVE  /\ owed'[i] = owed[i] + (IF i = id THEN qty ELSE 0) - Paid(a, i)
         /\ unended'[i] = unended[i] + (IF i = id THEN 1 ELSE 0) - Closed(a, i)
<1>1. Paid(a, i) \in Int /\ Closed(a, i) \in Int
  BY DEF Paid, Closed, ReportRec
<1>2. /\ Reported(<<a>>, 1, i) = Paid(a, i) /\ Ends(<<a>>, 1, i) = Closed(a, i)
      /\ Reported(<<a>>, 2, i) = 0 /\ Ends(<<a>>, 2, i) = 0
      /\ Reported(<<a>>, 3, i) = 0 /\ Ends(<<a>>, 3, i) = 0
  BY DEF Reported, Ends, Paid, Closed
<1> QED BY <1>1, <1>2 DEF TakeInAndReport, HistTypes, AllIds

(* After two reports, as match_side emits for maker and taker. *)
LEMMA TakeInTwo ==
  ASSUME HistTypes, NEW id \in Int, NEW qty \in Int, NEW a \in ReportRec,
         NEW b \in ReportRec, TakeInAndReport(id, qty, <<a, b>>), NEW i \in AllIds
  PROVE  /\ owed'[i] = owed[i] + (IF i = id THEN qty ELSE 0) - Paid(a, i) - Paid(b, i)
         /\ unended'[i] = unended[i] + (IF i = id THEN 1 ELSE 0) - Closed(a, i) - Closed(b, i)
<1>1. /\ Paid(a, i) \in Int /\ Closed(a, i) \in Int
      /\ Paid(b, i) \in Int /\ Closed(b, i) \in Int
  BY DEF Paid, Closed, ReportRec
<1>2. /\ Reported(<<a, b>>, 1, i) = Paid(a, i) /\ Ends(<<a, b>>, 1, i) = Closed(a, i)
      /\ Reported(<<a, b>>, 2, i) = Paid(b, i) /\ Ends(<<a, b>>, 2, i) = Closed(b, i)
      /\ Reported(<<a, b>>, 3, i) = 0 /\ Ends(<<a, b>>, 3, i) = 0
  BY DEF Reported, Ends, Paid, Closed
<1> QED BY <1>1, <1>2 DEF TakeInAndReport, HistTypes, AllIds

(* After three reports, the most one engine step emits. *)
LEMMA TakeInThree ==
  ASSUME HistTypes, NEW id \in Int, NEW qty \in Int, NEW a \in ReportRec,
         NEW b \in ReportRec, NEW c \in ReportRec,
         TakeInAndReport(id, qty, <<a, b, c>>), NEW i \in AllIds
  PROVE  /\ owed'[i] = owed[i] + (IF i = id THEN qty ELSE 0)
                       - Paid(a, i) - Paid(b, i) - Paid(c, i)
         /\ unended'[i] = unended[i] + (IF i = id THEN 1 ELSE 0)
                       - Closed(a, i) - Closed(b, i) - Closed(c, i)
<1>1. /\ Paid(a, i) \in Int /\ Closed(a, i) \in Int
      /\ Paid(b, i) \in Int /\ Closed(b, i) \in Int
      /\ Paid(c, i) \in Int /\ Closed(c, i) \in Int
  BY DEF Paid, Closed, ReportRec
<1>2. /\ Reported(<<a, b, c>>, 1, i) = Paid(a, i) /\ Ends(<<a, b, c>>, 1, i) = Closed(a, i)
      /\ Reported(<<a, b, c>>, 2, i) = Paid(b, i) /\ Ends(<<a, b, c>>, 2, i) = Closed(b, i)
      /\ Reported(<<a, b, c>>, 3, i) = Paid(c, i) /\ Ends(<<a, b, c>>, 3, i) = Closed(c, i)
  BY DEF Reported, Ends, Paid, Closed
<1> QED BY <1>1, <1>2 DEF TakeInAndReport, HistTypes, AllIds

(* Two sequences of one element, one after the other. *)
LEMMA PairConcat ==
  ASSUME NEW a, NEW b
  PROVE  <<a>> \o <<b>> = <<a, b>>
<1> DEFINE S == {a, b}
           c == <<a>> \o <<b>>
           d == <<a, b>>
<1>1. <<a>> \in Seq(S) /\ <<b>> \in Seq(S) /\ d \in Seq(S)
  OBVIOUS
<1>2. Len(<<a>>) = 1 /\ Len(<<b>>) = 1 /\ Len(d) = 2 /\ d[1] = a /\ d[2] = b
  OBVIOUS
<1> HIDE DEF S
<1>3. c \in Seq(S) /\ Len(c) = 2 /\ c[1] = a /\ c[2] = b
  BY <1>1, <1>2, ConcatProperties
<1> HIDE DEF c, d
<1>4. Len(c) = Len(d) /\ \A i \in 1 .. Len(c) : c[i] = d[i]
  BY <1>2, <1>3
<1>5. c = d
  BY <1>1, <1>3, <1>4, SeqEqual
<1> QED BY <1>5 DEF c, d

(* Sequences of at most two elements, one after the other. *)
LEMMA ShortConcats ==
  \A a, b : /\ <<a>> \o <<b>> = <<a, b>>
            /\ <<>> \o <<a>> = <<a>> /\ <<a>> \o <<>> = <<a>> /\ <<>> \o <<>> = <<>>
            /\ <<a, b>> \o <<>> = <<a, b>>
<1> SUFFICES ASSUME NEW a, NEW b
             PROVE  /\ <<a>> \o <<b>> = <<a, b>>
                    /\ <<>> \o <<a>> = <<a>> /\ <<a>> \o <<>> = <<a>>
                    /\ <<>> \o <<>> = <<>> /\ <<a, b>> \o <<>> = <<a, b>>
  OBVIOUS
<1>1. <<a>> \in Seq({a, b}) /\ <<a, b>> \in Seq({a, b}) /\ <<>> \in Seq({a, b})
  OBVIOUS
<1> QED BY <1>1, PairConcat, ConcatEmptySeq

(* The reports at the end of match_side, written out. *)
EndFill(o) == Report(IF o.remaining = 0 THEN "Filled" ELSE "PartialFill", o, o.remaining)
EndRest(o) == Report("Resting", o, o.remaining)
EndCancel(o) == Report("Cancelled", o, o.remaining)
CancelsRest(o) == o.remaining > 0 /\ o.tif # "Gtc"

(* EndReports is one of six short sequences, chosen by what filled and what is left. *)
LEMMA EndReportsAre ==
  \A o, start :
         EndReports(o, start) =
           IF start > o.remaining
           THEN IF Rests(o) THEN <<EndFill(o), EndRest(o)>>
                ELSE IF CancelsRest(o) THEN <<EndFill(o), EndCancel(o)>>
                ELSE <<EndFill(o)>>
           ELSE IF Rests(o) THEN <<EndRest(o)>>
                ELSE IF CancelsRest(o) THEN <<EndCancel(o)>>
                ELSE <<>>
<1> TAKE o, start
<1>1. EndReports(o, start) =
        (IF start > o.remaining THEN <<EndFill(o)>> ELSE <<>>)
        \o (IF Rests(o) THEN <<EndRest(o)>> ELSE <<>>)
        \o (IF CancelsRest(o) THEN <<EndCancel(o)>> ELSE <<>>)
  BY Zenon DEF EndReports, EndFill, EndRest, EndCancel, CancelsRest
<1>2. ~(Rests(o) /\ CancelsRest(o))
  BY DEF Rests, CancelsRest
<1> QED BY <1>1, <1>2, ShortConcats

-----------------------------------------------------------------------------
(* The queue of a level. *)

InQueue(queue, x) == \E k \in 1 .. Len(queue) : queue[k] = x
Distinct(queue) == \A j, k \in 1 .. Len(queue) : j # k => queue[j] # queue[k]

(* Without drops the id and nothing else. *)
LEMMA WithoutQueue ==
  ASSUME NEW S, NEW queue \in Seq(S), NEW id
  PROVE  /\ Without(queue, id) \in Seq(S)
         /\ Distinct(queue) =>
              /\ Distinct(Without(queue, id))
              /\ \A x : InQueue(Without(queue, id), x) <=> InQueue(queue, x) /\ x # id
<1>1. CASE \A k \in 1 .. Len(queue) : queue[k] # id
  BY <1>1 DEF Without, InQueue
<1>2. CASE ~ \A k \in 1 .. Len(queue) : queue[k] # id
  <2> DEFINE k == CHOOSE j \in 1 .. Len(queue) : queue[j] = id
             n == Len(queue)
             w == [j \in 1 .. n - 1 |-> IF j < k THEN queue[j] ELSE queue[j + 1]]
  <2>1. Without(queue, id) = w
    BY <1>2 DEF Without
  <2>2. k \in 1 .. n /\ queue[k] = id /\ n \in Nat /\ n - 1 \in Nat
    BY <1>2, LenProperties
  <2>3. \A j \in 1 .. n : queue[j] \in S
    BY ElementOfSeq
  <2> HIDE DEF k, n
  <2>4. \A j \in 1 .. n - 1 : w[j] = (IF j < k THEN queue[j] ELSE queue[j + 1]) /\ w[j] \in S
    BY <2>2, <2>3
  <2>5. w \in Seq(S) /\ Len(w) = n - 1
    BY <2>2, <2>4, IsASeq
  <2> HIDE DEF w
  <2>6. ASSUME Distinct(queue) PROVE Distinct(w)
    <3>1. \A i, j \in 1 .. n : i # j => queue[i] # queue[j]
      BY <2>6 DEF Distinct, n
    <3> QED BY <3>1, <2>2, <2>4, <2>5 DEF Distinct
  <2>7. ASSUME Distinct(queue), NEW x, InQueue(w, x) PROVE InQueue(queue, x) /\ x # id
    <3>1. \A i, j \in 1 .. n : i # j => queue[i] # queue[j]
      BY <2>7 DEF Distinct, n
    <3>2. PICK j \in 1 .. n - 1 : w[j] = x
      BY <2>5, <2>7 DEF InQueue
    <3>3. CASE j < k
      BY <3>1, <3>2, <3>3, <2>2, <2>4 DEF InQueue, n
    <3>4. CASE ~(j < k)
      <4>1. j + 1 \in 1 .. n /\ j + 1 # k /\ queue[j + 1] = x
        BY <3>2, <3>4, <2>2, <2>4
      <4> QED BY <4>1, <3>1, <2>2 DEF InQueue, n
    <3> QED BY <3>3, <3>4
  <2>8. ASSUME NEW x, InQueue(queue, x), x # id PROVE InQueue(w, x)
    <3>1. PICK j \in 1 .. n : queue[j] = x
      BY <2>8 DEF InQueue, n
    <3>2. j # k
      BY <3>1, <2>2, <2>8
    <3>3. CASE j < k
      <4>1. j \in 1 .. n - 1 /\ w[j] = x
        BY <3>1, <3>3, <2>2, <2>4
      <4> QED BY <4>1, <2>5 DEF InQueue
    <3>4. CASE j > k
      <4>1. j - 1 \in 1 .. n - 1 /\ ~(j - 1 < k) /\ j - 1 + 1 = j
        BY <3>1, <3>4, <2>2
      <4>2. w[j - 1] = x
        BY <4>1, <3>1, <2>4
      <4> QED BY <4>1, <4>2, <2>5 DEF InQueue
    <3> QED BY <3>2, <3>3, <3>4, <2>2
  <2> QED BY <2>1, <2>5, <2>6, <2>7, <2>8
<1> QED BY <1>1, <1>2

(* Tail drops the front and nothing else. *)
LEMMA TailQueue ==
  ASSUME NEW S, NEW queue \in Seq(S), queue # <<>>
  PROVE  /\ Tail(queue) \in Seq(S) /\ InQueue(queue, Head(queue))
         /\ Distinct(queue) =>
              /\ Distinct(Tail(queue))
              /\ \A x : InQueue(Tail(queue), x) <=> InQueue(queue, x) /\ x # Head(queue)
<1> DEFINE n == Len(queue)
           w == Tail(queue)
<1>1. /\ w \in Seq(S) /\ Len(w) = n - 1 /\ n \in Nat \ {0} /\ Head(queue) = queue[1]
      /\ \A j \in 1 .. n - 1 : w[j] = queue[j + 1]
  BY HeadTailProperties, LenProperties
<1> HIDE DEF n, w
<1>2. InQueue(queue, Head(queue))
  BY <1>1 DEF InQueue, n
<1>3. ASSUME Distinct(queue) PROVE Distinct(w)
  <2>1. \A i, j \in 1 .. n : i # j => queue[i] # queue[j]
    BY <1>3 DEF Distinct, n
  <2> QED BY <2>1, <1>1 DEF Distinct
<1>4. ASSUME Distinct(queue), NEW x, InQueue(w, x) PROVE InQueue(queue, x) /\ x # Head(queue)
  <2>1. \A i, j \in 1 .. n : i # j => queue[i] # queue[j]
    BY <1>4 DEF Distinct, n
  <2>2. PICK j \in 1 .. n - 1 : w[j] = x
    BY <1>1, <1>4 DEF InQueue
  <2>3. j + 1 \in 1 .. n /\ j + 1 # 1 /\ queue[j + 1] = x
    BY <2>2, <1>1
  <2> QED BY <2>3, <2>1, <1>1 DEF InQueue, n
<1>5. ASSUME NEW x, InQueue(queue, x), x # Head(queue) PROVE InQueue(w, x)
  <2>1. PICK j \in 1 .. n : queue[j] = x
    BY <1>5 DEF InQueue, n
  <2>2. j - 1 \in 1 .. n - 1 /\ j - 1 + 1 = j
    BY <2>1, <1>1, <1>5
  <2>3. w[j - 1] = x
    BY <2>1, <2>2, <1>1
  <2> QED BY <2>2, <2>3, <1>1 DEF InQueue
<1> QED BY <1>1, <1>2, <1>3, <1>4, <1>5 DEF w

(* Append adds the id at the back and nothing else. *)
LEMMA AppendQueue ==
  ASSUME NEW S, NEW queue \in Seq(S), NEW id \in S
  PROVE  /\ Append(queue, id) \in Seq(S)
         /\ \A x : InQueue(Append(queue, id), x) <=> InQueue(queue, x) \/ x = id
         /\ Distinct(queue) /\ ~InQueue(queue, id) => Distinct(Append(queue, id))
<1> DEFINE n == Len(queue)
           w == Append(queue, id)
<1>1. /\ w \in Seq(S) /\ Len(w) = n + 1 /\ n \in Nat /\ w[n + 1] = id
      /\ \A j \in 1 .. n : w[j] = queue[j]
  BY AppendProperties, LenProperties
<1> HIDE DEF n, w
<1>2. ASSUME NEW x, InQueue(w, x) PROVE InQueue(queue, x) \/ x = id
  BY <1>1, <1>2 DEF InQueue, n
<1>3. ASSUME NEW x, InQueue(queue, x) \/ x = id PROVE InQueue(w, x)
  BY <1>1, <1>3 DEF InQueue, n
<1>4. ASSUME Distinct(queue), ~InQueue(queue, id) PROVE Distinct(w)
  <2>1. \A i, j \in 1 .. n : i # j => queue[i] # queue[j]
    BY <1>4 DEF Distinct, n
  <2>2. \A j \in 1 .. n : queue[j] # id
    BY <1>4 DEF InQueue, n
  <2> QED BY <2>1, <2>2, <1>1 DEF Distinct
<1> QED BY <1>1, <1>2, <1>3, <1>4 DEF w

-----------------------------------------------------------------------------
(* Types. *)

BookTypes ==
  /\ levels \in [Sides -> [Ticks -> Seq(Ids)]]
  /\ ahead \in [Sides -> [Ticks -> Nat]]
  /\ order_index \in SUBSET Ids
  /\ data \in [Ids -> OrderRec]

QuoteTypes ==
  /\ bbo \in SUBSET Quotes /\ l2_top \in SUBSET Quotes /\ shown \in SUBSET Quotes
  /\ trade_ts \in [Sides -> Nat]
  /\ spent \in [Sides -> Nat]

LoopTypes ==
  /\ event_counter \in Nat /\ now \in Nat
  /\ rejected \in Nat /\ consumed \in Nat
  /\ pc \in {"idle", "deliver", "match", "cancels", "quote"}
  /\ back \in {"idle", "deliver", "cancels"}
  /\ cur \in OrderRec /\ starting_qty \in Nat

(* The type invariant in parts. *)
LEMMA TypeParts ==
  ETypeOK <=> BookTypes /\ QuoteTypes /\ l2_seen \in BOOLEAN /\ LoopTypes /\ HistTypes
BY Zenon DEF ETypeOK, BookTypes, QuoteTypes, LoopTypes, HistTypes, AllIds

(* A share of a quantity is no more than the quantity. *)
LEMMA ShareBound ==
  ASSUME NEW n \in Nat, NEW pct \in 0 .. 100
  PROVE  (n * pct) \div 100 \in Nat /\ (n * pct) \div 100 <= n
<1>1. n * pct \in Nat /\ n * pct <= n * 100
  OBVIOUS
<1> QED BY <1>1

(* What an order can take from the displayed quote: no more than is displayed
   on the side it crosses. *)
LEMMA ExternalBound ==
  ASSUME bbo \in SUBSET Quotes, NEW o \in OrderRec
  PROVE  /\ ExternalAvailable(o) \in Nat
         /\ OneQuote => \A q \in bbo : ExternalAvailable(o) <= QtyOf(q, Opposite(o.side))
<1>1. /\ ExternalTouch(o) \in Nat
      /\ OneQuote => \A q \in bbo : ExternalTouch(o) <= QtyOf(q, Opposite(o.side))
  <2>1. CASE bbo = {}
    BY <2>1 DEF ExternalTouch
  <2>2. CASE bbo # {}
    <3> DEFINE q == CHOOSE x \in bbo : TRUE
    <3>1. q \in bbo /\ q \in Quotes
      BY <2>2
    <3>2. o.side \in Sides
      BY DEF OrderRec
    <3>3. q.ask_qty \in Nat /\ q.bid_qty \in Nat
      BY <3>1 DEF Quotes
    <3>4. OneQuote => \A p \in bbo : p = q
      BY <3>1 DEF OneQuote
    <3>5. /\ ExternalTouch(o) \in Nat
          /\ ExternalTouch(o) = 0 \/ ExternalTouch(o) = QtyOf(q, Opposite(o.side))
      BY <2>2, <3>2, <3>3 DEF ExternalTouch, QtyOf, Opposite, Sides
    <3>6. ASSUME NEW p \in bbo PROVE QtyOf(p, Opposite(o.side)) \in Nat
      BY <3>2 DEF QtyOf, Quotes, Opposite, Sides
    <3> QED
      <4> HIDE DEF q
      <4> QED BY <3>4, <3>5, <3>6
  <2> QED BY <2>1, <2>2
<1>2. ExternalAvailable(o) \in Nat /\ ExternalAvailable(o) <= ExternalTouch(o)
  BY <1>1, ShareBound, Settings DEF ExternalAvailable
<1>3. ASSUME NEW q \in bbo PROVE QtyOf(q, Opposite(o.side)) \in Nat
  BY DEF QtyOf, Quotes, Opposite, Sides, OrderRec
<1> QED BY <1>1, <1>2, <1>3

(* The first key of a side that is not empty: no occupied tick is better. *)
LEMMA BestIsBest ==
  ASSUME BookTypes, NEW side \in Sides, Occupied(side) # {}
  PROVE  /\ Best(side) \in Occupied(side) /\ Best(side) \in Ticks
         /\ levels[side][Best(side)] # <<>>
         /\ \A u \in Occupied(side) :
              IF side = "Sell" THEN Best(side) <= u ELSE Best(side) >= u
<1>1. Occupied(side) \in SUBSET Int /\ Occupied(side) \subseteq Ticks
  <2>1. Occupied(side) \subseteq Ticks
    BY DEF Occupied
  <2>2. Ticks \subseteq Int
    BY IdsAndTicks
  <2> QED BY <2>1, <2>2
<1>2. IsFiniteSet(Occupied(side))
  BY <1>1, Settings, FS_Subset
<1>3. \E t \in Occupied(side) :
        \A u \in Occupied(side) : IF side = "Sell" THEN t <= u ELSE t >= u
  <2>1. /\ \E x \in Occupied(side) : \A y \in Occupied(side) : x <= y
        /\ \E x \in Occupied(side) : \A y \in Occupied(side) : x >= y
    BY <1>1, <1>2, FiniteExtremes
  <2> QED BY <2>1
<1>4. /\ Best(side) \in Occupied(side)
      /\ \A u \in Occupied(side) : IF side = "Sell" THEN Best(side) <= u ELSE Best(side) >= u
  BY <1>3, Zenon DEF Best
<1> QED BY <1>1, <1>4 DEF Occupied

(* The front order of the best level is an id. *)
LEMMA FrontTypes ==
  ASSUME BookTypes, LoopTypes, CanMatch
  PROVE  /\ Facing \in Sides /\ Best(Facing) \in Ticks
         /\ levels[Facing][Best(Facing)] \in Seq(Ids)
         /\ levels[Facing][Best(Facing)] # <<>>
         /\ FrontId \in Ids /\ data[FrontId] \in OrderRec
<1>1. Facing \in Sides
  BY DEF Facing, Opposite, Sides
<1>2. Best(Facing) \in Ticks /\ levels[Facing][Best(Facing)] # <<>>
  BY <1>1, BestIsBest DEF CanMatch
<1>3. levels[Facing][Best(Facing)] \in Seq(Ids)
  BY <1>1, <1>2 DEF BookTypes
<1>4. FrontId \in Ids
  BY <1>2, <1>3, HeadTailProperties DEF FrontId
<1> QED BY <1>1, <1>2, <1>3, <1>4 DEF BookTypes

(* What displayed sizes do to the queue ahead are numbers. *)
LEMMA QueueTypes ==
  ASSUME BookTypes, QuoteTypes, NEW q \in Quotes, NEW side \in Sides,
         NEW n \in QueueAtTouch(side, q)
  PROVE  n \in Nat
<1>1. CASE ~UsableQuote(q)
  BY <1>1 DEF QueueAtTouch
<1>2. CASE UsableQuote(q)
  <2> DEFINE before == ahead[side][PriceOf(q, side)]
             fell == {p \in bbo : /\ PriceOf(p, side) = PriceOf(q, side)
                                  /\ QtyOf(p, side) > QtyOf(q, side)
                                  /\ trade_ts[side] <= p.ts}
  <2>1. PriceOf(q, side) \in Ticks
    BY <1>2 DEF UsableQuote, PriceOf, Quotes, Sides
  <2>2. before \in Nat
    BY <2>1 DEF BookTypes
  <2>3. CASE ~(l2_seen \/ ev.kind = "l2") \/ fell = {}
    BY <1>2, <2>2, <2>3 DEF QueueAtTouch
  <2>4. CASE (l2_seen \/ ev.kind = "l2") /\ fell # {}
    <3> DEFINE p == CHOOSE x \in fell : TRUE
               reduction == QtyOf(p, side) - QtyOf(q, side)
               previous == QtyOf(p, side)
    <3>1. p \in fell
      BY <2>4
    <3>2. p \in Quotes /\ QtyOf(p, side) > QtyOf(q, side)
      BY <3>1 DEF QuoteTypes
    <3>3. QtyOf(q, side) \in Nat /\ previous \in Nat /\ previous > 0
      <4> HIDE DEF p
      <4>1. \A x \in Quotes : QtyOf(x, side) \in Nat
        BY DEF QtyOf, Quotes, Sides
      <4> QED BY <3>2, <4>1
    <3>4. PICK removed \in AdvanceQuantities(reduction, previous, before) :
            n = before - TakenFromQueue(before, removed)
      BY <1>2, <2>4 DEF QueueAtTouch
    <3> HIDE DEF before, p, fell
    <3>5. removed \in Int
      <4>1. CASE QueueModelName = "conservative"
        BY <4>1, <3>4 DEF AdvanceQuantities
      <4>2. CASE QueueModelName = "optimistic"
        BY <4>2, <3>3, <3>4 DEF AdvanceQuantities
      <4>3. CASE QueueModelName = "pro_rata"
        <5>1. removed = (before * reduction) \div previous
          BY <4>3, <3>3, <3>4 DEF AdvanceQuantities
        <5>2. before * reduction \in Int
          BY <2>2, <3>3
        <5> QED BY <5>1, <5>2, <3>3
      <4>4. CASE QueueModelName = "lumpy"
        <5>1. PICK k \in 0 .. LumpChunks :
                removed = (2 * reduction * k + LumpChunks) \div (2 * LumpChunks)
          BY <4>4, <3>3, <3>4, Settings DEF AdvanceQuantities
        <5>2. 2 * reduction * k + LumpChunks \in Int /\ 2 * LumpChunks \in Nat \ {0}
          BY <3>3, Settings
        <5> QED BY <5>1, <5>2
      <4> QED BY <4>1, <4>2, <4>3, <4>4, Settings
    <3> QED BY <3>4, <3>5, <2>2 DEF TakenFromQueue, Least
  <2> QED BY <2>3, <2>4
<1> QED BY <1>1, <1>2

(* An arriving order joins behind a share of what is displayed. *)
LEMMA ArrivalTypes ==
  /\ \A n \in Nat : ScaleArrival(n) \in Nat
  /\ QuoteTypes => \A o \in OrderRec : DisplayedQuantityAhead(o) \in Nat
<1>1. ASSUME NEW n \in Nat PROVE ScaleArrival(n) \in Nat
  <2>1. n * ArrivalPct + 50 \in Nat
    BY Settings
  <2> QED BY <2>1 DEF ScaleArrival
<1>2. ASSUME QuoteTypes, NEW o \in OrderRec PROVE DisplayedQuantityAhead(o) \in Nat
  <2>1. CASE ~l2_seen \/ bbo = {}
    BY <2>1 DEF DisplayedQuantityAhead
  <2>2. CASE l2_seen /\ bbo # {}
    <3> DEFINE q == CHOOSE x \in bbo : TRUE
    <3>1. q \in Quotes
      BY <1>2, <2>2 DEF QuoteTypes
    <3>2. q.bid_qty \in Nat /\ q.ask_qty \in Nat
      BY <3>1 DEF Quotes
    <3> QED BY <2>2, <3>2, <1>1 DEF DisplayedQuantityAhead
  <2> QED BY <2>1, <2>2
<1> QED BY <1>1, <1>2

(* What is left of a quote is a quote. *)
LEMMA ShrinkTypes ==
  \A q \in Quotes, side \in Sides, n \in Nat : ShrinkQuote(q, side, n) \in Quotes
BY DEF ShrinkQuote, Quotes, Greatest, Sides

TypeInv == ETypeOK /\ CallTypes /\ InEvent /\ MatchingOrder

(* The order that stands for none. *)
LEMMA NoOrderType == NoOrder \in OrderRec
<1>1. "" \in Owners
  BY EngineAssumption, Zenon
<1> QED BY <1>1 DEF NoOrder, OrderRec, MarketId, Sides

(* An initial state has its types. *)
LEMMA InitTypes == EInit => TypeInv
<1> SUFFICES ASSUME EInit PROVE TypeInv
  OBVIOUS
<1>1. NoOrder \in OrderRec
  BY NoOrderType
<1>2. BookTypes
  <2>1. levels \in [Sides -> [Ticks -> Seq(Ids)]]
    BY EmptySeq DEF EInit
  <2> QED BY <1>1, <2>1 DEF EInit, BookTypes
<1>3. QuoteTypes
  BY DEF EInit, QuoteTypes
<1>4. LoopTypes
  BY <1>1 DEF EInit, LoopTypes
<1>5. HistTypes
  BY DEF EInit, HistTypes, AllIds
<1>6. l2_seen \in BOOLEAN
  BY DEF EInit
<1>7. CallTypes
  BY EmptySeq DEF EInit, CallTypes
<1>8. InEvent /\ MatchingOrder
  BY DEF EInit, InEvent, MatchingOrder
<1> QED BY <1>2, <1>3, <1>4, <1>5, <1>6, <1>7, <1>8, TypeParts DEF TypeInv

(* The fields of an order a caller may send. *)
LEMMA OrderFacts ==
  ASSUME NEW o \in Orders
  PROVE  /\ o \in OrderRec /\ o.price \in Ticks /\ o.remaining \in Nat /\ o.id \in AllIds
         /\ o.side \in Sides /\ Opposite(o.side) \in Sides /\ o.id \in Int
         /\ o.owner # "Market"
<1>1. o \in OrderRec /\ o.price \in Ticks /\ o.owner # "Market"
  BY DEF Orders
<1>2. o.remaining \in Nat /\ o.id \in AllIds /\ o.side \in Sides
  BY <1>1 DEF OrderRec, AllIds
<1>3. \A i \in AllIds : i \in Int
  BY IdsAndTicks DEF AllIds, MarketId
<1>4. Opposite(o.side) \in Sides
  BY DEF Opposite, Sides
<1> QED BY <1>1, <1>2, <1>3, <1>4

(* What send_order_now leaves behind has its types. *)
LEMMA SendNowTypes ==
  ASSUME ETypeOK, NEW o \in Orders, NEW cont \in {"idle", "deliver"},
         SendOrderNow(o, cont)
  PROVE  /\ UNCHANGED bookVars /\ QuoteTypes' /\ UNCHANGED l2_seen
         /\ rejected' \in Nat /\ cur' \in OrderRec /\ starting_qty' \in Nat
         /\ HistTypes'
         /\ \/ pc' = cont /\ UNCHANGED matchVars
            \/ /\ pc' = "match" /\ back' = cont /\ starting_qty' > 0
               /\ cur'.id = o.id /\ cur'.price = o.price /\ cur'.owner = o.owner
               /\ o.id # MarketId /\ o.id \notin order_index
<1>1. /\ o \in OrderRec /\ o.price \in Ticks /\ o.remaining \in Nat /\ o.id \in AllIds
      /\ o.side \in Sides /\ Opposite(o.side) \in Sides /\ o.id \in Int
  BY OrderFacts
<1>2. /\ BookTypes /\ QuoteTypes /\ HistTypes
      /\ rejected \in Nat /\ cur \in OrderRec /\ starting_qty \in Nat
  BY TypeParts DEF LoopTypes
<1>3. CASE RejectOrder(o, cont)
  <2>1. HistTypes'
    BY <1>3, <1>2, EmitNothing DEF RejectOrder, HistTypes
  <2>2. QuoteTypes' /\ UNCHANGED l2_seen
    BY <1>3, <1>2, Zenon DEF RejectOrder, QuoteTypes, quoteVars
  <2> QED BY <1>3, <1>2, <2>1, <2>2 DEF RejectOrder, matchVars
<1>4. CASE KillOrder(o, cont)
  <2>1. <<Report("Cancelled", o, o.remaining)>> \in Seq(ReportRec)
    BY <1>1, ReportTypes DEF Kinds
  <2>2. HistTypes'
    <3>1. TakeInAndReport(o.id, o.remaining, <<Report("Cancelled", o, o.remaining)>>)
      BY <1>4 DEF KillOrder
    <3>2. o.remaining \in Int
      BY <1>1
    <3> QED BY <3>1, <3>2, <1>1, <1>2, <2>1, TakeInTypes, Zenon
  <2>3. QuoteTypes' /\ UNCHANGED l2_seen
    BY <1>4, <1>2, Zenon DEF KillOrder, QuoteTypes, quoteVars
  <2> QED BY <1>4, <1>2, <2>2, <2>3 DEF KillOrder, matchVars
<1>5. CASE TakeExternal(o, cont)
  <2> DEFINE traded == Least(o.remaining, ExternalAvailable(o))
             rest == o.remaining - traded
  <2>1. traded \in Nat /\ rest \in Nat
    <3>1. ExternalAvailable(o) \in Nat
      BY <1>1, <1>2, ExternalBound DEF QuoteTypes
    <3> QED BY <3>1, <1>1 DEF Least
  <2> DEFINE rs == IF traded = 0 THEN <<>>
                   ELSE <<Report("Trade", o, traded),
                          Report(IF rest = 0 THEN "Filled" ELSE "PartialFill", o, rest)>>
  <2>2. rs \in Seq(ReportRec)
    <3> HIDE DEF traded, rest
    <3>1. /\ Report("Trade", o, traded) \in ReportRec
          /\ Report("Filled", o, rest) \in ReportRec
          /\ Report("PartialFill", o, rest) \in ReportRec
      BY <1>1, <2>1, ReportTypes DEF Kinds
    <3> QED BY <3>1, EmptySeq
  <2>3. HistTypes'
    <3>1. TakeInAndReport(o.id, o.remaining, rs)
      BY <1>5 DEF TakeExternal
    <3> HIDE DEF rs
    <3> QED BY <3>1, <2>2, <1>1, <1>2, TakeInTypes
  <2>4. bbo' \in SUBSET Quotes
    <3>1. bbo' = {ShrinkQuote(q, Opposite(o.side), traded) : q \in bbo}
      BY <1>5 DEF TakeExternal
    <3> HIDE DEF traded
    <3> QED BY <3>1, <2>1, <1>1, <1>2, ShrinkTypes DEF QuoteTypes
  <2>5. spent' \in [Sides -> Nat]
    <3>1. spent' = [spent EXCEPT ![Opposite(o.side)] = @ + traded]
      BY <1>5 DEF TakeExternal
    <3> HIDE DEF traded
    <3> QED BY <3>1, <2>1, <1>1, <1>2 DEF QuoteTypes
  <2>6. QuoteTypes' /\ UNCHANGED l2_seen
    BY <1>5, <1>2, <2>4, <2>5 DEF TakeExternal, QuoteTypes
  <2>7. /\ UNCHANGED <<bookVars, rejected>> /\ o.id # MarketId /\ o.id \notin order_index
        /\ \/ pc' = cont /\ UNCHANGED matchVars
           \/ /\ pc' = "match" /\ back' = cont /\ starting_qty' = rest /\ rest # 0
              /\ cur' = [o EXCEPT !.remaining = rest]
    BY <1>5 DEF TakeExternal, Refused, MarketId
  <2> HIDE DEF rest
  <2>8. [o EXCEPT !.remaining = rest] \in OrderRec
    BY <1>1, <2>1 DEF OrderRec
  <2> QED BY <1>1, <1>2, <2>1, <2>3, <2>6, <2>7, <2>8 DEF matchVars, OrderRec
<1> QED BY <1>3, <1>4, <1>5 DEF SendOrderNow

(* Every report of the engine's own steps is about an order: the histories
   stay numbers. *)
LEMMA MatchHistTypes ==
  ASSUME TypeInv, ConsumeQueueAhead \/ CancelSelfTrade \/ MatchFront \/ MatchEnd
  PROVE  HistTypes'
<1> USE DEF TypeInv
<1>1. /\ BookTypes /\ LoopTypes /\ HistTypes /\ -1 \in Int /\ 0 \in Int
      /\ cur \in OrderRec /\ cur.remaining \in Nat /\ starting_qty \in Nat
  BY TypeParts DEF LoopTypes, OrderRec
<1>2. CASE ConsumeQueueAhead
  BY <1>1, <1>2, EmitNothing DEF ConsumeQueueAhead, HistTypes
<1>3. CASE CancelSelfTrade
  <2>1. <<Report("Cancelled", cur, cur.remaining)>> \in Seq(ReportRec)
    BY <1>1, ReportTypes DEF Kinds
  <2>2. TakeInAndReport(-1, 0, <<Report("Cancelled", cur, cur.remaining)>>)
    BY <1>3, Zenon DEF CancelSelfTrade, Emit
  <2> QED BY <1>1, <2>1, <2>2, TakeInTypes, Zenon
<1>4. CASE MatchFront
  <2> DEFINE resting == data[FrontId]
             traded == Least(cur.remaining, resting.remaining)
             left == resting.remaining - traded
             rs == <<Report("Trade", cur, traded), Report("Trade", resting, traded),
                     Report(IF left = 0 THEN "Filled" ELSE "PartialFill", resting, left)>>
  <2>1. resting \in OrderRec
    BY <1>1, <1>4, FrontTypes DEF MatchFront
  <2>2. traded \in Nat /\ left \in Nat
    BY <1>1, <2>1 DEF OrderRec, Least
  <2>3. rs \in Seq(ReportRec)
    <3> HIDE DEF resting, traded, left
    <3>1. /\ Report("Trade", cur, traded) \in ReportRec
          /\ Report("Trade", resting, traded) \in ReportRec
          /\ Report(IF left = 0 THEN "Filled" ELSE "PartialFill", resting, left) \in ReportRec
      BY <1>1, <2>1, <2>2, ReportTypes DEF Kinds
    <3> QED BY <3>1
  <2>4. TakeInAndReport(-1, 0, rs)
    BY <1>4, Zenon DEF MatchFront, Emit
  <2> HIDE DEF rs
  <2> QED BY <1>1, <2>3, <2>4, TakeInTypes, Zenon
<1>5. CASE MatchEnd
  <2>1. EndFill(cur) \in ReportRec /\ EndRest(cur) \in ReportRec /\ EndCancel(cur) \in ReportRec
    BY <1>1, ReportTypes DEF EndFill, EndRest, EndCancel, Kinds
  <2>2. EndReports(cur, starting_qty) \in Seq(ReportRec)
    <3>1. /\ <<EndFill(cur), EndRest(cur)>> \in Seq(ReportRec)
          /\ <<EndFill(cur), EndCancel(cur)>> \in Seq(ReportRec)
          /\ <<EndFill(cur)>> \in Seq(ReportRec) /\ <<EndRest(cur)>> \in Seq(ReportRec)
          /\ <<EndCancel(cur)>> \in Seq(ReportRec) /\ <<>> \in Seq(ReportRec)
      BY <2>1
    <3> QED BY <3>1, EndReportsAre, Zenon
  <2>3. TakeInAndReport(-1, 0, EndReports(cur, starting_qty))
    BY <1>5, Zenon DEF MatchEnd, Emit
  <2> QED BY <1>1, <2>2, <2>3, TakeInTypes, Zenon
<1> QED BY <1>2, <1>3, <1>4, <1>5

(* remove_order reports one cancellation and keeps the histories typed. *)
LEMMA RemoveHistTypes ==
  ASSUME TypeInv, NEW id \in order_index, RemoveOrder(id)
  PROVE  HistTypes'
<1>1. data[id] \in OrderRec /\ data[id].remaining \in Nat /\ HistTypes
  BY TypeParts DEF TypeInv, BookTypes, OrderRec
<1>2. <<Report("Cancelled", data[id], data[id].remaining)>> \in Seq(ReportRec)
  BY <1>1, ReportTypes DEF Kinds
<1>3. TakeInAndReport(-1, 0, <<Report("Cancelled", data[id], data[id].remaining)>>)
  BY Zenon DEF RemoveOrder, Emit
<1>4. -1 \in Int /\ 0 \in Int
  OBVIOUS
<1> QED BY <1>1, <1>2, <1>3, <1>4, TakeInTypes, Zenon

(* The parts of the type invariant after a step. *)
LEMMA NextTypeParts ==
  ASSUME BookTypes', QuoteTypes', l2_seen' \in BOOLEAN, LoopTypes', HistTypes',
         CallTypes', InEvent', MatchingOrder'
  PROVE  TypeInv'
BY Zenon DEF TypeInv, ETypeOK, BookTypes, QuoteTypes, LoopTypes, HistTypes, AllIds

(* The steps of match_side keep the types. *)
LEMMA MatchTypes ==
  ASSUME TypeInv, ConsumeQueueAhead \/ CancelSelfTrade \/ MatchFront \/ MatchEnd
  PROVE  TypeInv'
<1>1. /\ BookTypes /\ QuoteTypes /\ l2_seen \in BOOLEAN /\ LoopTypes /\ HistTypes
      /\ CallTypes /\ InEvent /\ MatchingOrder
  BY TypeParts, Zenon DEF TypeInv
<1>2. HistTypes'
  BY MatchHistTypes
<1>3. pc = "match" /\ UNCHANGED <<quoteVars, clockVars, delayVars, rejected, back, ev, spent>>
  BY Zenon DEF ConsumeQueueAhead, CancelSelfTrade, MatchFront, MatchEnd
<1>4. QuoteTypes' /\ l2_seen' \in BOOLEAN
  BY <1>1, <1>3, Zenon DEF QuoteTypes, quoteVars
<1>5. CallTypes'
  BY <1>1, <1>3, Zenon DEF CallTypes, delayVars
<1>6. /\ cur \in OrderRec /\ cur.remaining \in Nat /\ cur.price \in Ticks
      /\ cur.id \notin order_index /\ starting_qty > 0
      /\ (cur.id = MarketId) <=> (cur.owner = "Market")
      /\ cur.id = MarketId => cur.tif = "Gtc"
  BY <1>1, <1>3 DEF LoopTypes, MatchingOrder, OrderRec
<1>7. SUFFICES BookTypes' /\ LoopTypes' /\ InEvent' /\ MatchingOrder'
  BY <1>2, <1>4, <1>5, NextTypeParts, Zenon
<1>8. CASE ConsumeQueueAhead
  <2> DEFINE eaten == TakenFromQueue(ahead[Facing][Best(Facing)], cur.remaining)
  <2>1. Facing \in Sides /\ Best(Facing) \in Ticks /\ ahead[Facing][Best(Facing)] \in Nat
    BY <1>1, <1>8, FrontTypes DEF ConsumeQueueAhead, BookTypes
  <2>2. /\ eaten \in Nat /\ cur.remaining - eaten \in Nat
        /\ ahead[Facing][Best(Facing)] - eaten \in Nat
    BY <2>1, <1>6 DEF TakenFromQueue, Least
  <2>3. /\ cur' = [cur EXCEPT !.remaining = @ - eaten]
        /\ ahead' = [ahead EXCEPT ![Facing][Best(Facing)] = @ - eaten]
        /\ consumed' = consumed + eaten
        /\ UNCHANGED <<levels, order_index, data, pc, starting_qty>>
    BY <1>8 DEF ConsumeQueueAhead
  <2> HIDE DEF eaten
  <2>4. BookTypes'
    BY <1>1, <2>1, <2>2, <2>3 DEF BookTypes
  <2>5. cur' \in OrderRec /\ LoopTypes'
    BY <1>1, <1>3, <2>2, <2>3 DEF LoopTypes, OrderRec, clockVars
  <2>6. InEvent' /\ MatchingOrder'
    BY <1>1, <1>3, <1>6, <2>3 DEF InEvent, MatchingOrder, OrderRec
  <2> QED BY <2>4, <2>5, <2>6
<1>9. CASE CancelSelfTrade
  <2>1. cur' = [cur EXCEPT !.remaining = 0] /\ UNCHANGED <<bookVars, consumed, pc, starting_qty>>
    BY <1>9 DEF CancelSelfTrade
  <2>2. BookTypes'
    BY <1>1, <2>1 DEF BookTypes, bookVars
  <2>3. LoopTypes'
    BY <1>1, <1>3, <2>1 DEF LoopTypes, OrderRec, clockVars
  <2>4. InEvent' /\ MatchingOrder'
    BY <1>1, <1>3, <1>6, <2>1 DEF InEvent, MatchingOrder, OrderRec, bookVars
  <2> QED BY <2>2, <2>3, <2>4
<1>10. CASE MatchFront
  <2> DEFINE resting == data[FrontId]
             tick == Best(Facing)
             traded == Least(cur.remaining, resting.remaining)
             left == resting.remaining - traded
             queue == IF left = 0 THEN Tail(levels[Facing][tick]) ELSE levels[Facing][tick]
  <2>1. /\ Facing \in Sides /\ tick \in Ticks /\ FrontId \in Ids /\ resting \in OrderRec
        /\ levels[Facing][tick] \in Seq(Ids) /\ levels[Facing][tick] # <<>>
    BY <1>1, <1>10, FrontTypes DEF MatchFront
  <2>2. traded \in Nat /\ left \in Nat /\ cur.remaining - traded \in Nat
    BY <2>1, <1>6 DEF OrderRec, Least
  <2>3. queue \in Seq(Ids)
    BY <2>1, TailQueue
  <2>4. /\ cur' = [cur EXCEPT !.remaining = @ - traded]
        /\ data' = [data EXCEPT ![FrontId].remaining = left]
        /\ levels' = [levels EXCEPT ![Facing][tick] = queue]
        /\ ahead' = [ahead EXCEPT ![Facing][tick] = IF queue = <<>> THEN 0 ELSE @]
        /\ order_index' = IF left = 0 THEN order_index \ {FrontId} ELSE order_index
        /\ UNCHANGED <<consumed, pc, starting_qty>>
    BY <1>10 DEF MatchFront
  <2> HIDE DEF resting, tick, traded, left, queue
  <2>5. levels' \in [Sides -> [Ticks -> Seq(Ids)]]
    BY <1>1, <2>1, <2>3, <2>4 DEF BookTypes
  <2>6. ahead' \in [Sides -> [Ticks -> Nat]]
    BY <1>1, <2>1, <2>4 DEF BookTypes
  <2>7. data' \in [Ids -> OrderRec]
    BY <1>1, <2>1, <2>2, <2>4 DEF BookTypes, OrderRec
  <2>8. BookTypes'
    BY <1>1, <2>4, <2>5, <2>6, <2>7 DEF BookTypes
  <2>9. LoopTypes'
    BY <1>1, <1>3, <2>2, <2>4 DEF LoopTypes, OrderRec, clockVars
  <2>10. InEvent' /\ MatchingOrder'
    BY <1>1, <1>3, <1>6, <2>4 DEF InEvent, MatchingOrder, OrderRec
  <2> QED BY <2>8, <2>9, <2>10
<1>11. CASE MatchEnd
  <2>1. pc' = back /\ cur' = NoOrder /\ starting_qty' = 0 /\ UNCHANGED consumed
    BY <1>11 DEF MatchEnd
  <2>2. BookTypes'
    <3>1. CASE ~Rests(cur)
      BY <1>1, <1>11, <3>1 DEF MatchEnd, BookTypes, bookVars
    <3>2. CASE Rests(cur)
      <4>1. cur.side \in Sides /\ cur.id \in Ids
        BY <1>6, <3>2 DEF OrderRec, Rests
      <4>2. Append(levels[cur.side][cur.price], cur.id) \in Seq(Ids)
        BY <1>1, <1>6, <4>1, AppendQueue DEF BookTypes
      <4>3. DisplayedQuantityAhead(cur) \in Nat
        BY <1>1, <1>6, ArrivalTypes
      <4>4. /\ levels' = [levels EXCEPT ![cur.side][cur.price] = Append(@, cur.id)]
            /\ ahead' = [ahead EXCEPT ![cur.side][cur.price] =
                           IF levels[cur.side][cur.price] = <<>>
                           THEN DisplayedQuantityAhead(cur) ELSE @]
            /\ order_index' = order_index \cup {cur.id}
            /\ data' = [data EXCEPT ![cur.id] = cur]
        BY <1>11, <3>2 DEF MatchEnd
      <4>5. levels' \in [Sides -> [Ticks -> Seq(Ids)]]
        BY <1>1, <1>6, <4>1, <4>2, <4>4 DEF BookTypes
      <4>6. ahead' \in [Sides -> [Ticks -> Nat]]
        BY <1>1, <1>6, <4>1, <4>3, <4>4 DEF BookTypes
      <4> QED BY <1>1, <1>6, <4>1, <4>4, <4>5, <4>6 DEF BookTypes
    <3> QED BY <3>1, <3>2
  <2>3. NoOrder \in OrderRec
    BY NoOrderType
  <2>4. LoopTypes'
    BY <1>1, <1>3, <2>1, <2>3 DEF LoopTypes, clockVars
  <2>5. InEvent' /\ MatchingOrder'
    BY <1>1, <1>3, <2>1 DEF InEvent, MatchingOrder, LoopTypes
  <2> QED BY <2>2, <2>4, <2>5
<1> QED BY <1>8, <1>9, <1>10, <1>11

(* cancel_order_immediate keeps the types of the book. *)
LEMMA RemoveTypes ==
  ASSUME BookTypes, NEW id \in order_index, RemoveOrder(id), data[id].price \in Ticks
  PROVE  BookTypes'
<1> DEFINE o == data[id]
           queue == Without(levels[o.side][o.price], id)
<1>1. id \in Ids /\ o \in OrderRec /\ o.side \in Sides
  BY DEF BookTypes, OrderRec
<1>2. levels[o.side][o.price] \in Seq(Ids)
  BY <1>1 DEF BookTypes
<1>3. queue \in Seq(Ids)
  BY <1>2, WithoutQueue
<1>4. /\ levels' = [levels EXCEPT ![o.side][o.price] = queue]
      /\ ahead' = [ahead EXCEPT ![o.side][o.price] = IF queue = <<>> THEN 0 ELSE @]
      /\ order_index' = order_index \ {id} /\ data' = data
  BY DEF RemoveOrder
<1> HIDE DEF o, queue
<1>5. o.price \in Ticks
  BY DEF o
<1>6. levels' \in [Sides -> [Ticks -> Seq(Ids)]]
  BY <1>1, <1>3, <1>4, <1>5 DEF BookTypes
<1>7. ahead' \in [Sides -> [Ticks -> Nat]]
  BY <1>1, <1>4, <1>5 DEF BookTypes
<1> QED BY <1>4, <1>6, <1>7 DEF BookTypes

(* The cancels keep the types: the order an index entry points at has a tick. *)
LEMMA CancelTypes ==
  ASSUME TypeInv, IndexMatchesBook,
         \/ \E p \in pending : ApplyPendingCancel(p)
         \/ \E id \in Ids : CancelOrder(id)
         \/ NoCancelDue
  PROVE  TypeInv'
<1>1. /\ BookTypes /\ QuoteTypes /\ l2_seen \in BOOLEAN /\ LoopTypes /\ HistTypes
      /\ CallTypes /\ InEvent /\ MatchingOrder
  BY TypeParts, Zenon DEF TypeInv
<1>2. /\ UNCHANGED <<quoteVars, clockVars, in_flight, rejected, consumed, matchVars, spent>>
      /\ pc # "match" /\ pc' # "match"
  BY DEF ApplyPendingCancel, CancelOrder, NoCancelDue, delayVars
<1>3. QuoteTypes' /\ l2_seen' \in BOOLEAN
  BY <1>1, <1>2, Zenon DEF QuoteTypes, quoteVars
<1>4. MatchingOrder'
  BY <1>2 DEF MatchingOrder
<1>5. SUFFICES BookTypes' /\ LoopTypes' /\ HistTypes' /\ CallTypes' /\ InEvent'
  BY <1>3, <1>4, NextTypeParts, Zenon
<1>6. ASSUME NEW id \in order_index, RemoveOrder(id) PROVE BookTypes' /\ HistTypes'
  BY <1>1, <1>6, RemoveTypes, RemoveHistTypes DEF IndexMatchesBook
<1>7. CASE \E p \in pending : ApplyPendingCancel(p)
  <2>1. PICK p \in pending : ApplyPendingCancel(p)
    BY <1>7
  <2>2. UNCHANGED <<pc, ev>> /\ pending' = pending \ {p}
    BY <2>1 DEF ApplyPendingCancel
  <2>3. LoopTypes' /\ CallTypes' /\ InEvent'
    <3>1. LoopTypes'
      BY <1>1, <1>2, <2>2 DEF LoopTypes, clockVars, matchVars
    <3>2. CallTypes'
      BY <1>1, <1>2, <2>2 DEF CallTypes
    <3>3. InEvent'
      BY <1>1, <1>2, <2>2 DEF InEvent, matchVars
    <3> QED BY <3>1, <3>2, <3>3
  <2>4. BookTypes' /\ HistTypes'
    <3>1. CASE p.id \in order_index
      BY <1>6, <2>1, <3>1 DEF ApplyPendingCancel
    <3>2. CASE p.id \notin order_index
      <4>1. Emit(<<>>) /\ UNCHANGED bookVars
        BY <2>1, <3>2 DEF ApplyPendingCancel
      <4> QED BY <1>1, <4>1, EmitNothing DEF BookTypes, HistTypes, bookVars
    <3> QED BY <3>1, <3>2
  <2> QED BY <2>3, <2>4
<1>8. CASE \E id \in Ids : CancelOrder(id)
  <2>1. PICK id \in Ids : CancelOrder(id)
    BY <1>8
  <2>2. UNCHANGED <<pc, ev>> /\ id \in order_index
    BY <2>1 DEF CancelOrder
  <2>3. LoopTypes'
    BY <1>1, <1>2, <2>2 DEF LoopTypes, clockVars, matchVars
  <2>4. InEvent'
    BY <1>1, <1>2, <2>2 DEF InEvent, matchVars
  <2>5. CASE Immediate
    <3>1. RemoveOrder(id) /\ UNCHANGED pending
      BY <2>1, <2>5 DEF CancelOrder
    <3>2. CallTypes'
      BY <1>1, <1>2, <2>2, <3>1 DEF CallTypes
    <3> QED BY <1>6, <2>2, <2>3, <2>4, <3>1, <3>2
  <2>6. CASE ~Immediate
    <3>1. /\ pending' = {p \in pending : p.id # id} \cup
               {[id |-> id, event |-> event_counter + CancelDelayEvents,
                 time |-> now + CancelLatency]}
          /\ Emit(<<>>) /\ UNCHANGED bookVars
      BY <2>1, <2>6 DEF CancelOrder
    <3>2. BookTypes' /\ HistTypes'
      BY <1>1, <3>1, EmitNothing DEF BookTypes, HistTypes, bookVars
    <3>3. CallTypes'
      BY <1>1, <1>2, <2>2, <3>1, Settings DEF CallTypes, LoopTypes
    <3> QED BY <2>3, <2>4, <3>2, <3>3
  <2> QED BY <2>5, <2>6
<1>9. CASE NoCancelDue
  <2>1. /\ Emit(<<>>) /\ UNCHANGED <<bookVars, pending>> /\ pc = "cancels"
        /\ IF ev.kind = "trade" THEN pc' = "idle" /\ ev' = NoEvent
                                ELSE pc' = "quote" /\ UNCHANGED ev
    BY <1>9 DEF NoCancelDue, delayVars
  <2>2. BookTypes' /\ HistTypes'
    BY <1>1, <2>1, EmitNothing DEF BookTypes, HistTypes, bookVars
  <2>3. LoopTypes'
    BY <1>1, <1>2, <2>1 DEF LoopTypes, clockVars, matchVars
  <2>4. CallTypes'
    BY <1>1, <1>2, <2>1 DEF CallTypes
  <2>5. InEvent'
    BY <1>1, <1>2, <2>1 DEF InEvent
  <2> QED BY <2>2, <2>3, <2>4, <2>5
<1> QED BY <1>7, <1>8, <1>9

(* The i-th order in flight is an order, and taking it out leaves the others. *)
LEMMA LandingTypes ==
  ASSUME CallTypes, NEW i \in DOMAIN in_flight
  PROVE  /\ in_flight[i].order \in Orders
         /\ SubSeq(in_flight, 1, i - 1) \o SubSeq(in_flight, i + 1, Len(in_flight))
              \in Seq([due : Nat, order : Orders])
<1> DEFINE Flight == [due : Nat, order : Orders]
<1>1. in_flight \in Seq(Flight) /\ Len(in_flight) \in Nat /\ i \in 1 .. Len(in_flight)
  BY LenProperties DEF CallTypes
<1>2. in_flight[i] \in Flight
  BY <1>1, ElementOfSeq
<1> HIDE DEF Flight
<1>3. SubSeq(in_flight, 1, i - 1) \in Seq(Flight)
  <2>1. \A j \in 1 .. i - 1 : in_flight[j] \in Flight
    BY <1>1, ElementOfSeq
  <2> QED BY <1>1, <2>1, SubSeqProperties
<1>4. SubSeq(in_flight, i + 1, Len(in_flight)) \in Seq(Flight)
  BY <1>1, SubSeqProperties
<1> QED BY <1>2, <1>3, <1>4, ConcatProperties DEF Flight

(* An order sent or landing keeps the types. *)
LEMMA OrderTypes ==
  ASSUME TypeInv,
         \/ \E i \in DOMAIN in_flight : DeliverNext(i)
         \/ \E o \in Orders, ts \in Nat : SendOrder(o, ts)
  PROVE  TypeInv'
<1>1. /\ BookTypes /\ QuoteTypes /\ l2_seen \in BOOLEAN /\ LoopTypes /\ HistTypes
      /\ CallTypes /\ InEvent /\ MatchingOrder
  BY TypeParts, Zenon DEF TypeInv
<1>2. ASSUME NEW o \in Orders, NEW cont \in {"idle", "deliver"}, SendOrderNow(o, cont),
             UNCHANGED <<clockVars, pending, consumed, ev>>, pc = cont,
             in_flight' \in Seq([due : Nat, order : Orders])
      PROVE  TypeInv'
  <2>1. /\ UNCHANGED bookVars /\ QuoteTypes' /\ UNCHANGED l2_seen
        /\ rejected' \in Nat /\ cur' \in OrderRec /\ starting_qty' \in Nat
        /\ HistTypes'
        /\ \/ pc' = cont /\ UNCHANGED matchVars
           \/ /\ pc' = "match" /\ back' = cont /\ starting_qty' > 0
              /\ cur'.id = o.id /\ cur'.price = o.price /\ cur'.owner = o.owner
              /\ o.id # MarketId /\ o.id \notin order_index
    BY <1>2, SendNowTypes DEF TypeInv
  <2>2. BookTypes'
    BY <1>1, <2>1 DEF BookTypes, bookVars
  <2>3. LoopTypes'
    BY <1>1, <1>2, <2>1 DEF LoopTypes, clockVars, matchVars
  <2>4. CallTypes'
    BY <1>1, <1>2 DEF CallTypes
  <2>5. InEvent'
    BY <1>1, <1>2, <2>1 DEF InEvent, matchVars
  <2>6. MatchingOrder'
    BY <1>2, <2>1, OrderFacts DEF MatchingOrder, bookVars
  <2>7. l2_seen' \in BOOLEAN
    BY <1>1, <2>1, Zenon
  <2> QED BY <2>1, <2>2, <2>3, <2>4, <2>5, <2>6, <2>7, NextTypeParts, Zenon
<1>3. CASE \E i \in DOMAIN in_flight : DeliverNext(i)
  <2>1. PICK i \in DOMAIN in_flight : DeliverNext(i)
    BY <1>3
  <2>2. in_flight[i].order \in Orders /\ in_flight' \in Seq([due : Nat, order : Orders])
    BY <1>1, <2>1, LandingTypes DEF DeliverNext
  <2> QED BY <1>2, <2>1, <2>2 DEF DeliverNext
<1>4. CASE \E o \in Orders, ts \in Nat : SendOrder(o, ts)
  <2>1. PICK o \in Orders, ts \in Nat : SendOrder(o, ts)
    BY <1>4
  <2>2. CASE OrderLatency = 0
    BY <1>1, <1>2, <2>1, <2>2 DEF SendOrder, CallTypes
  <2>3. CASE OrderLatency # 0
    <3>1. /\ in_flight' = Append(in_flight, [due |-> ts + OrderLatency, order |-> o])
          /\ Emit(<<>>)
          /\ UNCHANGED <<bookVars, quoteVars, rejected, pc, matchVars, spent>>
          /\ UNCHANGED <<clockVars, pending, consumed, ev>>
      BY <2>1, <2>3 DEF SendOrder
    <3>2. CallTypes'
      <4>1. [due |-> ts + OrderLatency, order |-> o] \in [due : Nat, order : Orders]
        BY Settings
      <4>2. in_flight' \in Seq([due : Nat, order : Orders])
        BY <1>1, <3>1, <4>1, AppendProperties DEF CallTypes
      <4> QED BY <1>1, <3>1, <4>2 DEF CallTypes
    <3>3. BookTypes' /\ HistTypes'
      BY <1>1, <3>1, EmitNothing DEF BookTypes, HistTypes, bookVars
    <3>4. QuoteTypes' /\ l2_seen' \in BOOLEAN
      BY <1>1, <3>1, Zenon DEF QuoteTypes, quoteVars
    <3>5. LoopTypes'
      BY <1>1, <3>1 DEF LoopTypes, clockVars, matchVars
    <3>6. InEvent' /\ MatchingOrder'
      BY <1>1, <3>1 DEF InEvent, MatchingOrder, matchVars, bookVars
    <3> QED BY <3>2, <3>3, <3>4, <3>5, <3>6, NextTypeParts, Zenon
  <2> QED BY <2>2, <2>3
<1> QED BY <1>3, <1>4

(* A market event's own steps keep the types. *)
LEMMA EventTypes ==
  ASSUME TypeInv, (\E e \in Events : MarketEvent(e)) \/ Landed \/ ApplyQuote
  PROVE  TypeInv'
<1>1. /\ BookTypes /\ QuoteTypes /\ l2_seen \in BOOLEAN /\ LoopTypes /\ HistTypes
      /\ CallTypes /\ InEvent /\ MatchingOrder
  BY TypeParts, Zenon DEF TypeInv
<1>2. CASE \E e \in Events : MarketEvent(e)
  <2>1. PICK e \in Events : MarketEvent(e)
    BY <1>2
  <2>2. /\ event_counter' = event_counter + 1 /\ now' = Greatest(now, e.ts)
        /\ ev' = e /\ pc' = "deliver" /\ Emit(<<>>)
        /\ UNCHANGED <<bookVars, quoteVars, delayVars, rejected, consumed, matchVars, spent>>
    BY <2>1 DEF MarketEvent
  <2>3. e.ts \in Nat
    BY DEF Events
  <2>4. BookTypes' /\ HistTypes'
    BY <1>1, <2>2, EmitNothing DEF BookTypes, HistTypes, bookVars
  <2>5. QuoteTypes' /\ l2_seen' \in BOOLEAN
    BY <1>1, <2>2, Zenon DEF QuoteTypes, quoteVars
  <2>6. LoopTypes'
    BY <1>1, <2>2, <2>3 DEF LoopTypes, matchVars, Greatest
  <2>7. CallTypes'
    BY <1>1, <2>2 DEF CallTypes, delayVars
  <2>8. InEvent' /\ MatchingOrder'
    BY <2>2 DEF InEvent, MatchingOrder
  <2> QED BY <2>4, <2>5, <2>6, <2>7, <2>8, NextTypeParts, Zenon
<1>3. CASE Landed
  <2>1. pc = "deliver" /\ ev \in Events
        /\ UNCHANGED <<bookVars, clockVars, delayVars, rejected, consumed, ev, spent>>
    BY <1>1, <1>3 DEF Landed, InEvent
  <2>2. BookTypes' /\ CallTypes'
    BY <1>1, <2>1 DEF BookTypes, bookVars, CallTypes, delayVars
  <2>3. SUFFICES QuoteTypes' /\ l2_seen' \in BOOLEAN /\ LoopTypes' /\ HistTypes' /\ InEvent'
                 /\ MatchingOrder'
    BY <2>2, NextTypeParts, Zenon
  <2>4. CASE ApplyTrade
    <3>1. /\ ev.kind = "trade" /\ ev.side \in Sides \cup {"Unknown"}
          /\ ev.price \in Ticks /\ ev.quantity \in Nat /\ ev.ts \in Nat
      BY <2>1, <2>4 DEF ApplyTrade, Events
    <3>2. trade_ts' \in [Sides -> Nat]
      BY <1>1, <2>4, <3>1 DEF ApplyTrade, QuoteTypes, Greatest
    <3>3. bbo' \in SUBSET Quotes
      <4>1. ASSUME NEW q \in bbo
            PROVE  (IF ev.side \in Sides /\ ev.price = PriceOf(q, Opposite(ev.side))
                    THEN ShrinkQuote(q, Opposite(ev.side), ev.quantity) ELSE q) \in Quotes
        <5>1. q \in Quotes /\ Opposite(ev.side) \in Sides
          BY <1>1 DEF QuoteTypes, Opposite, Sides
        <5> QED BY <5>1, <3>1, ShrinkTypes
      <4> QED BY <4>1, <2>4 DEF ApplyTrade
    <3>4. QuoteTypes'
      BY <1>1, <2>1, <2>4, <3>2, <3>3 DEF ApplyTrade, QuoteTypes
    <3>5. l2_seen' \in BOOLEAN
      BY <1>1, <2>4, Zenon DEF ApplyTrade
    <3>6. CASE ~(ev.side \in Sides /\ ev.quantity > 0)
      <4>1. pc' = "cancels" /\ Emit(<<>>) /\ UNCHANGED matchVars
        BY <2>4, <3>6, Zenon DEF ApplyTrade, AfterPrint
      <4>2. HistTypes'
        BY <1>1, <4>1, EmitNothing DEF HistTypes
      <4>3. LoopTypes'
        BY <1>1, <2>1, <4>1 DEF LoopTypes, clockVars, matchVars
      <4>4. InEvent' /\ MatchingOrder'
        BY <2>1, <4>1 DEF InEvent, MatchingOrder
      <4> QED BY <3>4, <3>5, <4>2, <4>3, <4>4
    <3>7. CASE ev.side \in Sides /\ ev.quantity > 0
      <4>1. /\ cur' = [id |-> MarketId, side |-> ev.side, price |-> ev.price,
                       qty |-> ev.quantity, remaining |-> ev.quantity,
                       type |-> "Market", tif |-> "Gtc", owner |-> "Market"]
            /\ starting_qty' = ev.quantity
            /\ TakeInAndReport(MarketId, ev.quantity, <<>>)
            /\ pc' = "match" /\ back' = "cancels"
        BY <2>4, <3>7, Zenon DEF ApplyTrade, AfterPrint
      <4>2. HistTypes'
        <5>1. MarketId \in Int /\ ev.quantity \in Int /\ <<>> \in Seq(ReportRec)
          BY <3>1 DEF MarketId
        <5> QED BY <1>1, <4>1, <5>1, TakeInTypes, Zenon
      <4>3. "Market" \in Owners
        BY EngineAssumption, Zenon
      <4>4. cur' \in OrderRec
        BY <3>1, <3>7, <4>1, <4>3, IdsAndTicks DEF OrderRec
      <4>5. LoopTypes'
        BY <1>1, <2>1, <3>1, <4>1, <4>4 DEF LoopTypes, clockVars
      <4>6. InEvent' /\ MatchingOrder'
        <5>1. MarketId \notin order_index'
          BY <1>1, <2>1, IdsAndTicks DEF BookTypes, bookVars
        <5> QED BY <2>1, <3>1, <3>7, <4>1, <5>1 DEF InEvent, MatchingOrder
      <4> QED BY <3>4, <3>5, <4>2, <4>5, <4>6
    <3> QED BY <3>6, <3>7
  <2>5. CASE /\ ev.kind # "trade" /\ pc' = "cancels" /\ Emit(<<>>)
             /\ UNCHANGED <<quoteVars, matchVars>>
    <3>1. QuoteTypes' /\ l2_seen' \in BOOLEAN
      BY <1>1, <2>1, <2>5, Zenon DEF QuoteTypes, quoteVars
    <3>2. HistTypes'
      BY <1>1, <2>5, EmitNothing DEF HistTypes
    <3>3. LoopTypes'
      BY <1>1, <2>1, <2>5 DEF LoopTypes, clockVars, matchVars
    <3>4. InEvent' /\ MatchingOrder'
      BY <2>1, <2>5 DEF InEvent, MatchingOrder
    <3> QED BY <3>1, <3>2, <3>3, <3>4
  <2> QED BY <1>3, <2>4, <2>5 DEF Landed
<1>4. CASE ApplyQuote
  <2> DEFINE q == ev.quote
  <2>1. /\ pc' = "idle" /\ ev' = NoEvent /\ Emit(<<>>)
        /\ UNCHANGED <<levels, order_index, data, trade_ts, clockVars, delayVars,
                       rejected, consumed, matchVars>>
        /\ l2_seen' = (l2_seen \/ ev.kind = "l2")
        /\ l2_top' = IF ev.kind = "l2" THEN {q} ELSE l2_top
        /\ bbo' = IF UsableQuote(q) THEN {q} ELSE {}
        /\ shown' = bbo'
        /\ spent' = [s \in Sides |-> 0]
    BY <1>4 DEF ApplyQuote
  <2>2. q \in Quotes
    BY <1>1, <1>4 DEF ApplyQuote, InEvent, Events
  <2>3. ahead' \in [Sides -> [Ticks -> Nat]]
    <3>1. PICK bid_queue \in QueueAtTouch("Buy", q), ask_queue \in QueueAtTouch("Sell", q) :
          ahead' = [s \in Sides |-> [t \in Ticks |->
            CASE TouchMoved(s, t, q) -> ScaleArrival(QtyOf(q, s))
              [] ~TouchMoved(s, t, q) /\ UsableQuote(q) /\ t = PriceOf(q, s)
                   -> IF s = "Buy" THEN bid_queue ELSE ask_queue
              [] OTHER -> ahead[s][t]]]
      BY <1>4, Zenon DEF ApplyQuote
    <3>2. bid_queue \in Nat /\ ask_queue \in Nat
      BY <1>1, <2>2, QueueTypes DEF Sides
    <3>3. \A s \in Sides : ScaleArrival(QtyOf(q, s)) \in Nat
      <4>1. \A s \in Sides : QtyOf(q, s) \in Nat
        BY <2>2 DEF QtyOf, Quotes
      <4> QED BY <4>1, ArrivalTypes
    <3> HIDE DEF q
    <3>4. \A s \in Sides, t \in Ticks : ahead[s][t] \in Nat
      BY <1>1 DEF BookTypes
    <3>5. ASSUME NEW s \in Sides, NEW t \in Ticks
          PROVE  (CASE TouchMoved(s, t, q) -> ScaleArrival(QtyOf(q, s))
                    [] ~TouchMoved(s, t, q) /\ UsableQuote(q) /\ t = PriceOf(q, s)
                         -> IF s = "Buy" THEN bid_queue ELSE ask_queue
                    [] OTHER -> ahead[s][t]) \in Nat
      BY <3>2, <3>3, <3>4
    <3> QED BY <3>1, <3>5
  <2> HIDE DEF q
  <2>4. BookTypes'
    BY <1>1, <2>1, <2>3 DEF BookTypes
  <2>5. QuoteTypes'
    BY <1>1, <2>1, <2>2 DEF QuoteTypes
  <2>6. l2_seen' \in BOOLEAN
    BY <1>1, <2>1, Zenon
  <2>7. HistTypes'
    BY <1>1, <2>1, EmitNothing DEF HistTypes
  <2>8. LoopTypes'
    BY <1>1, <2>1 DEF LoopTypes, clockVars, matchVars
  <2>9. CallTypes'
    BY <1>1, <2>1 DEF CallTypes, delayVars
  <2>10. InEvent' /\ MatchingOrder'
    BY <2>1 DEF InEvent, MatchingOrder
  <2> QED BY <2>4, <2>5, <2>6, <2>7, <2>8, <2>9, <2>10, NextTypeParts, Zenon
<1> QED BY <1>2, <1>3, <1>4

-----------------------------------------------------------------------------
(* The index and the book. *)

IndexedQueued ==
  \A i \in order_index :
    /\ data[i].id = i /\ data[i].remaining > 0 /\ data[i].price \in Ticks
    /\ InQueue(levels[data[i].side][data[i].price], i)

QueuesIndexed ==
  \A s \in Sides, t \in Ticks :
    /\ Distinct(levels[s][t])
    /\ \A x : InQueue(levels[s][t], x) =>
               x \in order_index /\ data[x].side = s /\ data[x].price = t

(* IndexMatchesBook in its two directions, before and after a step. *)
LEMMA IndexParts == IndexMatchesBook => IndexedQueued /\ QueuesIndexed
BY DEF IndexMatchesBook, IndexedQueued, QueuesIndexed, InQueue, Distinct

(* The two directions after a step give IndexMatchesBook after it. *)
LEMMA NextIndexParts ==
  ASSUME IndexedQueued', QueuesIndexed'
  PROVE  IndexMatchesBook'
BY DEF IndexMatchesBook, IndexedQueued, QueuesIndexed, InQueue, Distinct

(* One trade leaves index and book in agreement. *)
LEMMA MatchFrontIndex ==
  ASSUME TypeInv, IndexMatchesBook, NeverCrossed, MatchFront
  PROVE  IndexMatchesBook' /\ NeverCrossed'
<1> DEFINE f == FrontId
           F == Facing
           tick == Best(Facing)
           traded == Least(cur.remaining, data[f].remaining)
           left == data[f].remaining - traded
           queue == IF left = 0 THEN Tail(levels[F][tick]) ELSE levels[F][tick]
<1>1. BookTypes /\ LoopTypes /\ IndexedQueued /\ QueuesIndexed
  BY TypeParts, IndexParts DEF TypeInv
<1>2. /\ F \in Sides /\ tick \in Ticks /\ f \in Ids /\ data[f] \in OrderRec
      /\ levels[F][tick] \in Seq(Ids) /\ levels[F][tick] # <<>> /\ f = Head(levels[F][tick])
  BY <1>1, FrontTypes DEF MatchFront, FrontId
<1>3. f \in order_index /\ data[f].side = F /\ data[f].price = tick
  BY <1>1, <1>2, TailQueue DEF QueuesIndexed
<1>4. traded \in Nat /\ left \in Nat
  BY <1>1, <1>2 DEF OrderRec, Least, LoopTypes
<1>5. /\ data' = [data EXCEPT ![f].remaining = left]
      /\ levels' = [levels EXCEPT ![F][tick] = queue]
      /\ order_index' = IF left = 0 THEN order_index \ {f} ELSE order_index
  BY DEF MatchFront
<1>6. /\ Distinct(queue)
      /\ \A x : InQueue(queue, x) <=> InQueue(levels[F][tick], x) /\ (left = 0 => x # f)
  BY <1>1, <1>2, TailQueue DEF QueuesIndexed
<1> HIDE DEF f, F, tick, traded, left, queue
<1>7. \A i \in Ids : /\ data'[i].id = data[i].id /\ data'[i].side = data[i].side
                      /\ data'[i].price = data[i].price
                      /\ data'[i].remaining = IF i = f THEN left ELSE data[i].remaining
  BY <1>1, <1>2, <1>5 DEF BookTypes, OrderRec
<1>8. \A s \in Sides, t \in Ticks :
        levels'[s][t] = IF s = F /\ t = tick THEN queue ELSE levels[s][t]
  BY <1>1, <1>2, <1>5 DEF BookTypes
<1>9. order_index \subseteq Ids /\ order_index' \subseteq order_index
  BY <1>1, <1>5 DEF BookTypes
<1>10. IndexedQueued'
  <2> SUFFICES ASSUME NEW i \in order_index'
               PROVE  /\ data'[i].id = i /\ data'[i].remaining > 0 /\ data'[i].price \in Ticks
                      /\ InQueue(levels'[data'[i].side][data'[i].price], i)
    BY DEF IndexedQueued
  <2>1. /\ i \in order_index /\ i \in Ids /\ data[i].side \in Sides
        /\ data[i].id = i /\ data[i].remaining > 0 /\ data[i].price \in Ticks
        /\ InQueue(levels[data[i].side][data[i].price], i)
    BY <1>1, <1>9 DEF IndexedQueued, BookTypes, OrderRec
  <2>2. left = 0 => i # f
    BY <1>5
  <2>3. data'[i].remaining > 0
    BY <1>4, <1>7, <2>1, <2>2
  <2>4. InQueue(levels'[data[i].side][data[i].price], i)
    BY <1>6, <1>8, <2>1, <2>2
  <2> QED BY <1>7, <2>1, <2>3, <2>4
<1>11. QueuesIndexed'
  <2> SUFFICES ASSUME NEW s \in Sides, NEW t \in Ticks
               PROVE  /\ Distinct(levels'[s][t])
                      /\ \A x : InQueue(levels'[s][t], x) =>
                            x \in order_index' /\ data'[x].side = s /\ data'[x].price = t
    BY DEF QueuesIndexed
  <2>1. Distinct(levels'[s][t])
    BY <1>1, <1>6, <1>8 DEF QueuesIndexed
  <2>2. ASSUME NEW x, InQueue(levels'[s][t], x)
        PROVE  x \in order_index' /\ data'[x].side = s /\ data'[x].price = t
    <3>1. InQueue(levels[s][t], x) /\ (s = F /\ t = tick /\ left = 0 => x # f)
      BY <1>6, <1>8, <2>2
    <3>2. x \in order_index /\ data[x].side = s /\ data[x].price = t
      BY <1>1, <3>1 DEF QueuesIndexed
    <3>3. x \in order_index'
      BY <1>3, <1>5, <3>1, <3>2
    <3> QED BY <1>7, <1>9, <3>2, <3>3
  <2> QED BY <2>1, <2>2
<1>12. NeverCrossed'
  BY <1>7, <1>9 DEF NeverCrossed
<1> QED BY <1>10, <1>11, <1>12, NextIndexParts

(* An order that comes to rest was not in the book, and crosses no one: had the
   best opposite tick been within its limit the loop would have gone on. *)
LEMMA MatchEndIndex ==
  ASSUME TypeInv, IndexMatchesBook, NeverCrossed, MatchEnd
  PROVE  IndexMatchesBook' /\ NeverCrossed'
<1>1. BookTypes /\ LoopTypes /\ IndexedQueued /\ QueuesIndexed /\ MatchingOrder
  BY TypeParts, IndexParts DEF TypeInv
<1>2. CASE ~Rests(cur)
  BY <1>2 DEF MatchEnd, bookVars, IndexMatchesBook, NeverCrossed
<1>3. CASE Rests(cur)
  <2>1. /\ cur \in OrderRec /\ cur.side \in Sides /\ cur.id \in Ids /\ cur.price \in Ticks
        /\ cur.id \notin order_index /\ cur.remaining > 0 /\ cur.price \in Nat
    BY <1>1, <1>3 DEF LoopTypes, OrderRec, Rests, MatchingOrder, MatchEnd
  <2> DEFINE queue == Append(levels[cur.side][cur.price], cur.id)
  <2>2. /\ levels' = [levels EXCEPT ![cur.side][cur.price] = queue]
        /\ order_index' = order_index \cup {cur.id}
        /\ data' = [data EXCEPT ![cur.id] = cur]
    BY <1>1, <1>3, <2>1 DEF MatchEnd, BookTypes
  <2>3. /\ Distinct(queue)
        /\ \A x : InQueue(queue, x) <=> InQueue(levels[cur.side][cur.price], x) \/ x = cur.id
    <3>1. levels[cur.side][cur.price] \in Seq(Ids)
      BY <1>1, <2>1 DEF BookTypes
    <3>2. Distinct(levels[cur.side][cur.price]) /\ ~InQueue(levels[cur.side][cur.price], cur.id)
      BY <1>1, <2>1 DEF QueuesIndexed
    <3> QED BY <2>1, <3>1, <3>2, AppendQueue
  <2> HIDE DEF queue
  <2>4. \A i \in Ids : data'[i] = IF i = cur.id THEN cur ELSE data[i]
    BY <1>1, <2>1, <2>2 DEF BookTypes
  <2>5. \A s \in Sides, t \in Ticks :
          levels'[s][t] = IF s = cur.side /\ t = cur.price THEN queue ELSE levels[s][t]
    BY <1>1, <2>1, <2>2 DEF BookTypes
  <2>6. order_index \subseteq Ids
    BY <1>1 DEF BookTypes
  <2>7. IndexedQueued'
    <3> SUFFICES ASSUME NEW i \in order_index'
                 PROVE  /\ data'[i].id = i /\ data'[i].remaining > 0 /\ data'[i].price \in Ticks
                        /\ InQueue(levels'[data'[i].side][data'[i].price], i)
      BY DEF IndexedQueued
    <3>1. CASE i = cur.id
      BY <2>1, <2>3, <2>4, <2>5, <3>1
    <3>2. CASE i # cur.id
      <4>1. /\ i \in order_index /\ i \in Ids /\ data[i].side \in Sides /\ data'[i] = data[i]
            /\ data[i].id = i /\ data[i].remaining > 0 /\ data[i].price \in Ticks
            /\ InQueue(levels[data[i].side][data[i].price], i)
        BY <1>1, <2>2, <2>4, <2>6, <3>2 DEF IndexedQueued, BookTypes, OrderRec
      <4>2. InQueue(levels'[data[i].side][data[i].price], i)
        BY <2>3, <2>5, <4>1
      <4> QED BY <4>1, <4>2
    <3> QED BY <3>1, <3>2
  <2>8. QueuesIndexed'
    <3> SUFFICES ASSUME NEW s \in Sides, NEW t \in Ticks
                 PROVE  /\ Distinct(levels'[s][t])
                        /\ \A x : InQueue(levels'[s][t], x) =>
                              x \in order_index' /\ data'[x].side = s /\ data'[x].price = t
      BY DEF QueuesIndexed
    <3>1. Distinct(levels'[s][t])
      BY <1>1, <2>3, <2>5 DEF QueuesIndexed
    <3>2. ASSUME NEW x, InQueue(levels'[s][t], x)
          PROVE  x \in order_index' /\ data'[x].side = s /\ data'[x].price = t
      <4>1. InQueue(levels[s][t], x) \/ (x = cur.id /\ s = cur.side /\ t = cur.price)
        BY <2>3, <2>5, <3>2
      <4>2. CASE InQueue(levels[s][t], x)
        <5>1. x \in order_index /\ data[x].side = s /\ data[x].price = t
          BY <1>1, <4>2 DEF QueuesIndexed
        <5> QED BY <2>1, <2>2, <2>4, <2>6, <5>1
      <4>3. CASE x = cur.id /\ s = cur.side /\ t = cur.price
        BY <2>1, <2>2, <2>4, <4>3
      <4> QED BY <4>1, <4>2, <4>3
    <3> QED BY <3>1, <3>2
  <2>9. ASSUME NEW b \in order_index, data[b].side = Opposite(cur.side)
        PROVE  ~Reaches(cur, data[b].price)
    <3>1. /\ Facing \in Sides /\ data[b].price \in Ticks
          /\ InQueue(levels[Facing][data[b].price], b)
      BY <1>1, <2>9 DEF IndexedQueued, Facing, Opposite, Sides
    <3>2. levels[Facing][data[b].price] # <<>>
      BY <3>1 DEF InQueue
    <3>3. data[b].price \in Occupied(Facing)
      BY <3>1, <3>2 DEF Occupied
    <3>4. ~Reaches(cur, Best(Facing))
      BY <2>1, <3>3 DEF MatchEnd, CanMatch
    <3>5. /\ Best(Facing) \in Ticks
          /\ IF Facing = "Sell" THEN Best(Facing) <= data[b].price
                                ELSE Best(Facing) >= data[b].price
      BY <1>1, <3>1, <3>3, BestIsBest
    <3>6. data[b].price \in Nat /\ Best(Facing) \in Nat
      BY <3>1, <3>5, IdsAndTicks
    <3> QED BY <2>1, <3>4, <3>5, <3>6 DEF Reaches, Facing, Opposite, Sides
  <2>10. NeverCrossed'
    <3> SUFFICES ASSUME NEW a \in order_index', NEW b \in order_index',
                        data'[a].side = "Buy", data'[b].side = "Sell"
                 PROVE  data'[a].price < data'[b].price
      BY DEF NeverCrossed
    <3>1. a \in Ids /\ b \in Ids
      BY <2>1, <2>2, <2>6
    <3>2. CASE a = cur.id
      <4>1. data'[a] = cur /\ b # cur.id /\ b \in order_index /\ data'[b] = data[b]
        BY <2>2, <2>4, <3>1, <3>2
      <4>2. cur.side = "Buy" /\ data[b].side = "Sell"
        BY <4>1
      <4>3. ~Reaches(cur, data[b].price) /\ data[b].price \in Ticks
        BY <1>1, <2>9, <4>1, <4>2 DEF Opposite, IndexedQueued
      <4>4. data[b].price \in Nat
        BY <4>3, IdsAndTicks
      <4>5. cur.price < data[b].price
        BY <2>1, <4>2, <4>3, <4>4 DEF Reaches
      <4> QED BY <4>1, <4>5
    <3>3. CASE a # cur.id /\ b = cur.id
      <4>1. data'[b] = cur /\ a \in order_index /\ data'[a] = data[a]
        BY <2>2, <2>4, <3>1, <3>3
      <4>2. cur.side = "Sell" /\ data[a].side = "Buy"
        BY <4>1
      <4>3. ~Reaches(cur, data[a].price) /\ data[a].price \in Ticks
        BY <1>1, <2>9, <4>1, <4>2 DEF Opposite, IndexedQueued
      <4>4. data[a].price \in Nat
        BY <4>3, IdsAndTicks
      <4>5. data[a].price < cur.price
        BY <2>1, <4>2, <4>3, <4>4 DEF Reaches
      <4> QED BY <4>1, <4>5
    <3>4. CASE a # cur.id /\ b # cur.id
      BY <2>2, <2>4, <3>1, <3>4 DEF NeverCrossed
    <3> QED BY <3>2, <3>3, <3>4
  <2> QED BY <2>7, <2>8, <2>10, NextIndexParts
<1> QED BY <1>2, <1>3

(* A cancel takes the order out of both. *)
LEMMA RemoveIndex ==
  ASSUME TypeInv, IndexMatchesBook, NeverCrossed, NEW id \in order_index, RemoveOrder(id)
  PROVE  IndexMatchesBook' /\ NeverCrossed'
<1> DEFINE S == data[id].side
           P == data[id].price
           queue == Without(levels[S][P], id)
<1>1. BookTypes /\ IndexedQueued /\ QueuesIndexed
  BY TypeParts, IndexParts DEF TypeInv
<1>2. S \in Sides /\ P \in Ticks /\ order_index \subseteq Ids
  BY <1>1 DEF BookTypes, OrderRec, IndexedQueued
<1>3. /\ levels' = [levels EXCEPT ![S][P] = queue]
      /\ order_index' = order_index \ {id} /\ data' = data
  BY DEF RemoveOrder
<1>4. /\ Distinct(queue)
      /\ \A x : InQueue(queue, x) <=> InQueue(levels[S][P], x) /\ x # id
  <2>1. levels[S][P] \in Seq(Ids) /\ Distinct(levels[S][P])
    BY <1>1, <1>2 DEF BookTypes, QueuesIndexed
  <2> QED BY <2>1, WithoutQueue
<1> HIDE DEF queue, S, P
<1>5. \A s \in Sides, t \in Ticks :
        levels'[s][t] = IF s = S /\ t = P THEN queue ELSE levels[s][t]
  BY <1>1, <1>2, <1>3 DEF BookTypes
<1>6. IndexedQueued'
  <2> SUFFICES ASSUME NEW i \in order_index'
               PROVE  /\ data'[i].id = i /\ data'[i].remaining > 0 /\ data'[i].price \in Ticks
                      /\ InQueue(levels'[data'[i].side][data'[i].price], i)
    BY DEF IndexedQueued
  <2>1. /\ i \in order_index /\ i # id /\ data[i].side \in Sides
        /\ data[i].id = i /\ data[i].remaining > 0 /\ data[i].price \in Ticks
        /\ InQueue(levels[data[i].side][data[i].price], i)
    BY <1>1, <1>2, <1>3 DEF IndexedQueued, BookTypes, OrderRec
  <2>2. InQueue(levels'[data[i].side][data[i].price], i)
    BY <1>4, <1>5, <2>1
  <2> QED BY <1>3, <2>1, <2>2
<1>7. QueuesIndexed'
  <2> SUFFICES ASSUME NEW s \in Sides, NEW t \in Ticks
               PROVE  /\ Distinct(levels'[s][t])
                      /\ \A x : InQueue(levels'[s][t], x) =>
                            x \in order_index' /\ data'[x].side = s /\ data'[x].price = t
    BY DEF QueuesIndexed
  <2>1. Distinct(levels'[s][t])
    BY <1>1, <1>4, <1>5 DEF QueuesIndexed
  <2>2. ASSUME NEW x, InQueue(levels'[s][t], x)
        PROVE  x \in order_index' /\ data'[x].side = s /\ data'[x].price = t
    <3>1. InQueue(levels[s][t], x) /\ (s = S /\ t = P => x # id)
      BY <1>4, <1>5, <2>2
    <3>2. x \in order_index /\ data[x].side = s /\ data[x].price = t
      BY <1>1, <3>1 DEF QueuesIndexed
    <3> QED BY <1>3, <3>1, <3>2 DEF S, P
  <2> QED BY <2>1, <2>2
<1>8. NeverCrossed'
  BY <1>3 DEF NeverCrossed
<1> QED BY <1>6, <1>7, <1>8, NextIndexParts

-----------------------------------------------------------------------------
(* Quantities and ends. *)

Conserved == QuantityConserved /\ PrintsConserved /\ EveryOrderEnds

(* What is open is a number. *)
LEMMA OpenTypes ==
  ASSUME TypeInv
  PROVE  /\ \A i \in AllIds : Open(i) \in Nat
         /\ \A i \in Ids : i \in AllIds
         /\ MarketId \in AllIds /\ MarketId \notin order_index /\ consumed \in Nat
         /\ order_index \subseteq Ids
<1>1. BookTypes /\ LoopTypes
  BY TypeParts DEF TypeInv
<1>2. \A i \in Ids : data[i].remaining \in Nat
  BY <1>1 DEF BookTypes, OrderRec
<1>3. cur.remaining \in Nat /\ order_index \subseteq Ids /\ consumed \in Nat
  BY <1>1 DEF BookTypes, LoopTypes, OrderRec
<1>4. MarketId \notin order_index
  BY <1>3, IdsAndTicks
<1>5. ASSUME NEW i \in AllIds PROVE Open(i) \in Nat
  <2>1. i \in order_index => data[i].remaining \in Nat
    BY <1>2, <1>3
  <2> QED BY <1>3, <2>1 DEF Open
<1> QED BY <1>3, <1>4, <1>5 DEF AllIds

(* A step that reports nothing and moves no quantity. *)
LEMMA QuietConserved ==
  ASSUME TypeInv, Conserved, Emit(<<>>), UNCHANGED <<order_index, data, consumed>>,
         pc # "match", pc' # "match"
  PROVE  Conserved'
<1>1. owed' = owed /\ unended' = unended
  BY EmitNothing, TypeParts DEF TypeInv
<1>2. \A i : Open(i)' = Open(i)
  BY Zenon DEF Open
<1> QED BY <1>1, <1>2 DEF Conserved, QuantityConserved, PrintsConserved, EveryOrderEnds, Open

(* An order ended on arrival, or taking from the displayed quote: what is not
   reported is what match_side begins with. *)
LEMMA SendNowConserved ==
  ASSUME TypeInv, Conserved, NEW o \in Orders, NEW cont \in {"idle", "deliver"},
         SendOrderNow(o, cont), pc = cont, UNCHANGED consumed
  PROVE  Conserved'
<1>1. /\ o \in OrderRec /\ o.remaining \in Nat /\ o.id \in AllIds /\ o.id \in Int
  BY OrderFacts
<1>2. HistTypes /\ QuoteTypes
  BY TypeParts DEF TypeInv
<1>3. /\ \A i \in AllIds : Open(i) \in Nat
      /\ \A i \in Ids : i \in AllIds
      /\ MarketId \in AllIds /\ MarketId \notin order_index /\ consumed \in Nat
      /\ order_index \subseteq Ids
  BY OpenTypes
<1>4. UNCHANGED <<order_index, data>>
  BY DEF SendOrderNow, RejectOrder, KillOrder, TakeExternal, bookVars
<1>5. CASE RejectOrder(o, cont)
  BY <1>4, <1>5, QuietConserved DEF RejectOrder
<1>6. CASE KillOrder(o, cont)
  <2> DEFINE a == Report("Cancelled", o, o.remaining)
  <2>1. a \in ReportRec
    BY <1>1, ReportTypes DEF Kinds
  <2>2. TakeInAndReport(o.id, o.remaining, <<a>>) /\ pc' = cont
    BY <1>6 DEF KillOrder
  <2>3. \A i \in AllIds : /\ Paid(a, i) = (IF i = o.id THEN o.remaining ELSE 0)
                           /\ Closed(a, i) = (IF i = o.id THEN 1 ELSE 0)
    <3>1. a.id = o.id /\ a.kind = "Cancelled" /\ a.quantity = o.remaining
      BY DEF Report
    <3> HIDE DEF a
    <3> QED BY <3>1 DEF Paid, Closed
  <2> HIDE DEF a
  <2>4. \A i \in AllIds : /\ owed'[i] = owed[i] + (IF i = o.id THEN o.remaining ELSE 0)
                                          - Paid(a, i)
                           /\ unended'[i] = unended[i] + (IF i = o.id THEN 1 ELSE 0)
                                             - Closed(a, i)
    BY <1>1, <1>2, <2>1, <2>2, TakeInOne
  <2>5. ASSUME NEW i \in AllIds PROVE owed'[i] = owed[i] /\ unended'[i] = unended[i]
    <3>1. owed[i] \in Int /\ unended[i] \in Int
      BY <1>2 DEF HistTypes
    <3> QED BY <1>1, <2>3, <2>4, <3>1
  <2>6. \A i : Open(i)' = Open(i)
    BY <1>4, <2>2 DEF Open
  <2>7. QuantityConserved'
    BY <1>3, <2>5, <2>6 DEF Conserved, QuantityConserved
  <2>8. PrintsConserved'
    BY <1>3, <2>5, <2>6 DEF Conserved, PrintsConserved
  <2>9. EveryOrderEnds'
    BY <1>3, <1>4, <2>2, <2>5 DEF Conserved, EveryOrderEnds
  <2> QED BY <2>7, <2>8, <2>9 DEF Conserved
<1>7. CASE TakeExternal(o, cont)
  <2> DEFINE traded == Least(o.remaining, ExternalAvailable(o))
             rest == o.remaining - traded
             a == Report("Trade", o, traded)
             b == Report(IF rest = 0 THEN "Filled" ELSE "PartialFill", o, rest)
  <2>1. traded \in Nat /\ rest \in Nat
    <3>1. ExternalAvailable(o) \in Nat
      BY <1>1, <1>2, ExternalBound DEF QuoteTypes
    <3> QED BY <3>1, <1>1 DEF Least
  <2>2. /\ o.id # MarketId /\ o.id \notin order_index /\ o.remaining # 0
        /\ TakeInAndReport(o.id, o.remaining, IF traded = 0 THEN <<>> ELSE <<a, b>>)
        /\ IF rest = 0 THEN pc' = cont
           ELSE pc' = "match" /\ cur' = [o EXCEPT !.remaining = rest]
    BY <1>7 DEF TakeExternal, Refused, MarketId
  <2>3. rest + traded = o.remaining
    BY <1>1, <2>1
  <2> HIDE DEF traded, rest
  <2>4. a \in ReportRec /\ b \in ReportRec
    BY <1>1, <2>1, ReportTypes DEF Kinds
  <2>5. \A i \in AllIds : /\ Paid(a, i) = (IF i = o.id THEN traded ELSE 0) /\ Closed(a, i) = 0
                           /\ Paid(b, i) = 0
                           /\ Closed(b, i) = IF i = o.id /\ rest = 0 THEN 1 ELSE 0
    BY DEF Report, Paid, Closed
  <2> HIDE DEF a, b
  <2>6. \A i \in AllIds : /\ owed'[i] = owed[i] + (IF i = o.id THEN rest ELSE 0)
                           /\ unended'[i] = unended[i] + (IF i = o.id /\ rest # 0 THEN 1 ELSE 0)
    <3> SUFFICES ASSUME NEW i \in AllIds
                 PROVE  /\ owed'[i] = owed[i] + (IF i = o.id THEN rest ELSE 0)
                        /\ unended'[i] = unended[i] + (IF i = o.id /\ rest # 0 THEN 1 ELSE 0)
      OBVIOUS
    <3>1. owed[i] \in Int /\ unended[i] \in Int
      BY <1>2 DEF HistTypes
    <3>2. CASE traded = 0
      <4>1. TakeInAndReport(o.id, o.remaining, <<>>) /\ rest = o.remaining
        BY <1>1, <2>1, <2>2, <2>3, <3>2
      <4>2. /\ owed'[i] = owed[i] + (IF i = o.id THEN o.remaining ELSE 0)
            /\ unended'[i] = unended[i] + (IF i = o.id THEN 1 ELSE 0)
        BY <1>1, <1>2, <4>1, TakeInNone
      <4> QED BY <2>2, <3>1, <4>1, <4>2
    <3>3. CASE traded # 0
      <4>1. TakeInAndReport(o.id, o.remaining, <<a, b>>)
        BY <2>2, <3>3
      <4>2. /\ owed'[i] = owed[i] + (IF i = o.id THEN o.remaining ELSE 0)
                          - Paid(a, i) - Paid(b, i)
            /\ unended'[i] = unended[i] + (IF i = o.id THEN 1 ELSE 0)
                             - Closed(a, i) - Closed(b, i)
        BY <1>1, <1>2, <2>4, <4>1, TakeInTwo
      <4> QED BY <1>1, <2>1, <2>3, <2>5, <3>1, <4>2
    <3> QED BY <3>2, <3>3
  <2>7. \A i \in AllIds : Open(i)' = Open(i) + (IF i = o.id THEN rest ELSE 0)
    <3> SUFFICES ASSUME NEW i \in AllIds
                 PROVE  Open(i)' = Open(i) + (IF i = o.id THEN rest ELSE 0)
      OBVIOUS
    <3>1. Open(i) \in Nat /\ Open(i) = (IF i \in order_index THEN data[i].remaining ELSE 0) + 0
      BY <1>3 DEF Open
    <3>2. CASE rest = 0
      <4>1. Open(i)' = Open(i)
        BY <1>4, <2>2, <3>2 DEF Open
      <4> QED BY <3>1, <3>2, <4>1
    <3>3. CASE rest # 0
      <4>1. /\ pc' = "match" /\ cur'.id = o.id /\ cur'.remaining = rest
        BY <1>1, <2>2, <3>3 DEF OrderRec
      <4> QED BY <1>3, <1>4, <2>1, <2>2, <3>1, <4>1 DEF Open
    <3> QED BY <3>2, <3>3
  <2>8. QuantityConserved'
    BY <1>3, <2>6, <2>7 DEF Conserved, QuantityConserved
  <2>9. PrintsConserved'
    BY <1>2, <1>3, <2>1, <2>2, <2>6, <2>7 DEF Conserved, PrintsConserved, HistTypes
  <2>10. EveryOrderEnds'
    <3> SUFFICES ASSUME NEW i \in Ids
                 PROVE  unended'[i] <= (IF i \in order_index' THEN 1 ELSE 0)
                          + (IF pc' = "match" /\ cur'.id = i THEN 1 ELSE 0)
      BY DEF EveryOrderEnds
    <3>1. unended[i] \in Int /\ unended[i] <= (IF i \in order_index THEN 1 ELSE 0) + 0
      BY <1>2, <1>3 DEF HistTypes, Conserved, EveryOrderEnds
    <3>2. rest # 0 => pc' = "match" /\ cur'.id = o.id
      BY <1>1, <2>2 DEF OrderRec
    <3> QED BY <1>3, <1>4, <2>6, <3>1, <3>2
  <2> QED BY <2>8, <2>9, <2>10 DEF Conserved
<1> QED BY <1>5, <1>6, <1>7 DEF SendOrderNow

(* A cancelled order's remaining quantity is reported, and so is its end. *)
LEMMA RemoveConserved ==
  ASSUME TypeInv, IndexMatchesBook, Conserved, NEW id \in order_index, RemoveOrder(id),
         pc # "match", pc' # "match", UNCHANGED consumed
  PROVE  Conserved'
<1> DEFINE a == Report("Cancelled", data[id], data[id].remaining)
<1>1. /\ \A i \in AllIds : Open(i) \in Nat
      /\ \A i \in Ids : i \in AllIds
      /\ MarketId \in AllIds /\ MarketId \notin order_index /\ consumed \in Nat
      /\ order_index \subseteq Ids
  BY OpenTypes
<1>2. HistTypes /\ data[id] \in OrderRec /\ data[id].remaining \in Nat /\ data[id].id = id
  BY <1>1, TypeParts DEF TypeInv, BookTypes, OrderRec, IndexMatchesBook
<1>3. a \in ReportRec
  BY <1>2, ReportTypes DEF Kinds
<1>4. TakeInAndReport(-1, 0, <<a>>) /\ order_index' = order_index \ {id} /\ data' = data
  BY DEF RemoveOrder, Emit
<1>5. \A i \in AllIds : /\ Paid(a, i) = (IF i = id THEN data[id].remaining ELSE 0)
                         /\ Closed(a, i) = (IF i = id THEN 1 ELSE 0)
  <2>1. a.id = id /\ a.kind = "Cancelled" /\ a.quantity = data[id].remaining
    BY <1>2 DEF Report
  <2> HIDE DEF a
  <2> QED BY <2>1 DEF Paid, Closed
<1> HIDE DEF a
<1>6. ASSUME NEW i \in AllIds
      PROVE  /\ owed'[i] = owed[i] - (IF i = id THEN data[id].remaining ELSE 0)
             /\ unended'[i] = unended[i] - (IF i = id THEN 1 ELSE 0)
             /\ owed[i] \in Int /\ unended[i] \in Int
  <2>1. owed[i] \in Int /\ unended[i] \in Int /\ i # -1
    BY <1>2, IdsAndTicks DEF HistTypes, AllIds, MarketId
  <2>2. /\ owed'[i] = owed[i] + (IF i = -1 THEN 0 ELSE 0) - Paid(a, i)
        /\ unended'[i] = unended[i] + (IF i = -1 THEN 1 ELSE 0) - Closed(a, i)
    BY <1>2, <1>3, <1>4, TakeInOne
  <2> QED BY <1>2, <1>5, <2>1, <2>2
<1>7. ASSUME NEW i \in AllIds
      PROVE  Open(i)' = Open(i) - (IF i = id THEN data[id].remaining ELSE 0)
  BY <1>1, <1>2, <1>4 DEF Open
<1>8. QuantityConserved'
  BY <1>1, <1>6, <1>7 DEF Conserved, QuantityConserved
<1>9. PrintsConserved'
  <2>1. MarketId # id
    BY <1>1
  <2> QED BY <1>1, <1>6, <1>7, <2>1 DEF Conserved, PrintsConserved
<1>10. EveryOrderEnds'
  <2> SUFFICES ASSUME NEW i \in Ids
               PROVE  unended'[i] <= (IF i \in order_index' THEN 1 ELSE 0)
                        + (IF pc' = "match" /\ cur'.id = i THEN 1 ELSE 0)
    BY DEF EveryOrderEnds
  <2>1. unended[i] <= (IF i \in order_index THEN 1 ELSE 0) + 0
    BY DEF Conserved, EveryOrderEnds
  <2> QED BY <1>1, <1>4, <1>6, <2>1
<1> QED BY <1>8, <1>9, <1>10 DEF Conserved

(* A public trade brings its printed quantity in. *)
LEMMA TradeConserved ==
  ASSUME TypeInv, Conserved, pc = "deliver", ApplyTrade, ev \in Events,
         UNCHANGED <<bookVars, consumed>>
  PROVE  Conserved'
<1>1. CASE ~(ev.side \in Sides /\ ev.quantity > 0)
  <2>1. pc' = "cancels" /\ Emit(<<>>)
    BY <1>1, Zenon DEF ApplyTrade, AfterPrint
  <2> QED BY <2>1, QuietConserved DEF bookVars
<1>2. CASE ev.side \in Sides /\ ev.quantity > 0
  <2>1. ev.quantity \in Nat
    BY DEF ApplyTrade, Events
  <2>2. /\ cur' = [id |-> MarketId, side |-> ev.side, price |-> ev.price,
                   qty |-> ev.quantity, remaining |-> ev.quantity,
                   type |-> "Market", tif |-> "Gtc", owner |-> "Market"]
        /\ TakeInAndReport(MarketId, ev.quantity, <<>>) /\ pc' = "match"
    BY <1>2, Zenon DEF ApplyTrade
  <2>3. /\ \A i \in AllIds : Open(i) \in Nat
        /\ \A i \in Ids : i \in AllIds /\ i # MarketId
        /\ MarketId \in AllIds /\ MarketId \notin order_index /\ consumed \in Nat
    BY OpenTypes, IdsAndTicks
  <2>4. HistTypes
    BY TypeParts DEF TypeInv
  <2>5. cur'.id = MarketId /\ cur'.remaining = ev.quantity
    BY <2>2
  <2>6. ASSUME NEW i \in AllIds
        PROVE  /\ owed'[i] = owed[i] + (IF i = MarketId THEN ev.quantity ELSE 0)
               /\ unended'[i] = unended[i] + (IF i = MarketId THEN 1 ELSE 0)
               /\ owed[i] \in Int /\ unended[i] \in Int
    <3>1. MarketId \in Int /\ ev.quantity \in Int
      BY <2>1 DEF MarketId
    <3> QED BY <2>2, <2>4, <3>1, TakeInNone DEF HistTypes
  <2>7. ASSUME NEW i \in AllIds
        PROVE  Open(i)' = Open(i) + (IF i = MarketId THEN ev.quantity ELSE 0)
    <3>1. Open(i) \in Nat /\ Open(i) = (IF i \in order_index THEN data[i].remaining ELSE 0) + 0
      BY <2>3 DEF Open
    <3> QED BY <2>1, <2>2, <2>3, <2>5, <3>1 DEF Open, bookVars
  <2>8. QuantityConserved'
    BY <2>3, <2>6, <2>7 DEF Conserved, QuantityConserved
  <2>9. PrintsConserved'
    BY <2>1, <2>3, <2>6, <2>7 DEF Conserved, PrintsConserved
  <2>10. EveryOrderEnds'
    <3> SUFFICES ASSUME NEW i \in Ids
                 PROVE  unended'[i] <= (IF i \in order_index' THEN 1 ELSE 0)
                          + (IF pc' = "match" /\ cur'.id = i THEN 1 ELSE 0)
      BY DEF EveryOrderEnds
    <3>1. unended[i] <= (IF i \in order_index THEN 1 ELSE 0) + 0
      BY DEF Conserved, EveryOrderEnds
    <3> QED BY <2>3, <2>5, <2>6, <3>1 DEF bookVars
  <2> QED BY <2>8, <2>9, <2>10 DEF Conserved
<1> QED BY <1>1, <1>2

(* The steps of match_side account for what they trade, cancel and consume. *)
LEMMA MatchConserved ==
  ASSUME TypeInv, IndexMatchesBook, Conserved,
         ConsumeQueueAhead \/ CancelSelfTrade \/ MatchFront \/ MatchEnd
  PROVE  Conserved'
<1>1. BookTypes /\ LoopTypes /\ HistTypes /\ IndexedQueued /\ QueuesIndexed
  BY TypeParts, IndexParts DEF TypeInv
<1>2. /\ \A i \in AllIds : Open(i) \in Nat
      /\ \A i \in Ids : i \in AllIds /\ i # MarketId
      /\ MarketId \in AllIds /\ MarketId \notin order_index /\ consumed \in Nat
      /\ order_index \subseteq Ids
  BY OpenTypes, IdsAndTicks
<1>3. /\ pc = "match" /\ cur \in OrderRec /\ cur.remaining \in Nat /\ cur.id \in AllIds
      /\ cur.id \notin order_index /\ starting_qty > 0 /\ starting_qty \in Nat
      /\ (cur.id = MarketId) <=> (cur.owner = "Market")
      /\ cur.id = MarketId => cur.tif = "Gtc"
  BY <1>1 DEF TypeInv, LoopTypes, OrderRec, MatchingOrder, AllIds, ConsumeQueueAhead,
     CancelSelfTrade, MatchFront, MatchEnd
<1>4. -1 \in Int /\ 0 \in Int /\ \A i \in AllIds : i # -1
  BY IdsAndTicks DEF AllIds, MarketId
<1>5. \A i \in AllIds : owed[i] \in Int /\ unended[i] \in Int
  BY <1>1 DEF HistTypes
<1>6. CASE ConsumeQueueAhead
  <2> DEFINE eaten == TakenFromQueue(ahead[Facing][Best(Facing)], cur.remaining)
  <2>1. ahead[Facing][Best(Facing)] \in Nat
    BY <1>1, <1>6, FrontTypes DEF ConsumeQueueAhead, BookTypes
  <2>2. eaten \in Nat /\ cur.remaining - eaten \in Nat
    BY <1>3, <2>1 DEF TakenFromQueue, Least
  <2>3. /\ cur' = [cur EXCEPT !.remaining = @ - eaten] /\ consumed' = consumed + eaten
        /\ UNCHANGED <<order_index, data, pc>> /\ cur.id = MarketId
        /\ Emit(<<>>)
    BY <1>3, <1>6 DEF ConsumeQueueAhead, QueueStandsAhead
  <2> HIDE DEF eaten
  <2>4. owed' = owed /\ unended' = unended
    BY <1>1, <2>3, EmitNothing
  <2>5. cur'.id = cur.id /\ cur'.remaining = cur.remaining - eaten
    BY <1>3, <2>3 DEF OrderRec
  <2>6. \A i \in Ids : Open(i)' = Open(i)
    BY <1>2, <2>3, <2>5 DEF Open
  <2>7. Open(MarketId)' = cur.remaining - eaten /\ Open(MarketId) = cur.remaining
    BY <1>2, <1>3, <2>2, <2>3, <2>5 DEF Open, MarketId
  <2>8. QuantityConserved'
    BY <2>4, <2>6 DEF Conserved, QuantityConserved
  <2>9. PrintsConserved'
    BY <1>2, <1>3, <1>5, <2>2, <2>3, <2>4, <2>7 DEF Conserved, PrintsConserved
  <2>10. EveryOrderEnds'
    BY <2>3, <2>4, <2>5 DEF Conserved, EveryOrderEnds
  <2> QED BY <2>8, <2>9, <2>10 DEF Conserved
<1>7. CASE CancelSelfTrade
  <2> DEFINE a == Report("Cancelled", cur, cur.remaining)
  <2>1. a \in ReportRec
    BY <1>3, ReportTypes DEF Kinds
  <2>2. /\ TakeInAndReport(-1, 0, <<a>>) /\ cur' = [cur EXCEPT !.remaining = 0]
        /\ UNCHANGED <<order_index, data, consumed, pc>>
    BY <1>7 DEF CancelSelfTrade, Emit, bookVars
  <2>3. \A i \in AllIds : /\ Paid(a, i) = (IF i = cur.id THEN cur.remaining ELSE 0)
                           /\ Closed(a, i) = (IF i = cur.id THEN 1 ELSE 0)
    <3>1. a.id = cur.id /\ a.kind = "Cancelled" /\ a.quantity = cur.remaining
      BY DEF Report
    <3> HIDE DEF a
    <3> QED BY <3>1 DEF Paid, Closed
  <2> HIDE DEF a
  <2>4. cur'.id = cur.id /\ cur'.remaining = 0
    BY <1>3, <2>2 DEF OrderRec
  <2>5. ASSUME NEW i \in AllIds
        PROVE  /\ owed'[i] = owed[i] - (IF i = cur.id THEN cur.remaining ELSE 0)
               /\ unended'[i] <= unended[i]
               /\ unended'[i] \in Int
    <3>1. /\ owed'[i] = owed[i] + (IF i = -1 THEN 0 ELSE 0) - Paid(a, i)
          /\ unended'[i] = unended[i] + (IF i = -1 THEN 1 ELSE 0) - Closed(a, i)
      <4>1. HistTypes /\ TakeInAndReport(-1, 0, <<a>>)
        BY <1>1, <2>2
      <4> QED BY <2>1, <4>1, TakeInOne
    <3> QED BY <1>3, <1>4, <1>5, <2>3, <3>1
  <2>6. ASSUME NEW i \in AllIds
        PROVE  Open(i)' = Open(i) - (IF i = cur.id THEN cur.remaining ELSE 0)
    BY <1>2, <1>3, <2>2, <2>4 DEF Open
  <2>7. QuantityConserved'
    BY <1>2, <2>5, <2>6 DEF Conserved, QuantityConserved
  <2>8. PrintsConserved'
    BY <1>2, <1>3, <1>5, <2>2, <2>5, <2>6 DEF Conserved, PrintsConserved
  <2>9. EveryOrderEnds'
    <3> SUFFICES ASSUME NEW i \in Ids
                 PROVE  unended'[i] <= (IF i \in order_index' THEN 1 ELSE 0)
                          + (IF pc' = "match" /\ cur'.id = i THEN 1 ELSE 0)
      BY DEF EveryOrderEnds
    <3>1. unended[i] <= (IF i \in order_index THEN 1 ELSE 0)
                        + (IF pc = "match" /\ cur.id = i THEN 1 ELSE 0)
      BY DEF Conserved, EveryOrderEnds
    <3> QED BY <1>2, <1>5, <2>2, <2>4, <2>5, <3>1
  <2> QED BY <2>7, <2>8, <2>9 DEF Conserved
<1>8. CASE MatchFront
  <2> DEFINE f == FrontId
             traded == Least(cur.remaining, data[f].remaining)
             left == data[f].remaining - traded
             a == Report("Trade", cur, traded)
             b == Report("Trade", data[f], traded)
             c == Report(IF left = 0 THEN "Filled" ELSE "PartialFill", data[f], left)
  <2>1. /\ f \in Ids /\ data[f] \in OrderRec /\ data[f].remaining \in Nat
        /\ f \in order_index /\ data[f].id = f
    <3>1. /\ Facing \in Sides /\ Best(Facing) \in Ticks /\ f \in Ids /\ data[f] \in OrderRec
          /\ levels[Facing][Best(Facing)] \in Seq(Ids) /\ levels[Facing][Best(Facing)] # <<>>
      BY <1>1, <1>8, FrontTypes DEF MatchFront
    <3>2. f \in order_index
      BY <1>1, <3>1, TailQueue DEF QueuesIndexed, FrontId
    <3> QED BY <1>1, <3>1, <3>2 DEF IndexedQueued, OrderRec
  <2>2. traded \in Nat /\ left \in Nat /\ cur.remaining - traded \in Nat
    BY <1>3, <2>1 DEF Least
  <2>3. /\ cur' = [cur EXCEPT !.remaining = @ - traded]
        /\ data' = [data EXCEPT ![f].remaining = left]
        /\ order_index' = IF left = 0 THEN order_index \ {f} ELSE order_index
        /\ TakeInAndReport(-1, 0, <<a, b, c>>) /\ UNCHANGED <<consumed, pc>>
    BY <1>8 DEF MatchFront, Emit
  <2>4. left = data[f].remaining - traded
    OBVIOUS
  <2> HIDE DEF f, traded, left
  <2>5. a \in ReportRec /\ b \in ReportRec /\ c \in ReportRec
    BY <1>3, <2>1, <2>2, ReportTypes DEF Kinds
  <2>6. \A i \in AllIds : /\ Paid(a, i) = (IF i = cur.id THEN traded ELSE 0) /\ Closed(a, i) = 0
                           /\ Paid(b, i) = (IF i = f THEN traded ELSE 0) /\ Closed(b, i) = 0
                           /\ Paid(c, i) = 0
                           /\ Closed(c, i) = (IF i = f /\ left = 0 THEN 1 ELSE 0)
    BY <2>1 DEF Report, Paid, Closed
  <2> HIDE DEF a, b, c
  <2>7. cur'.id = cur.id /\ cur'.remaining = cur.remaining - traded /\ cur.id # f
    BY <1>3, <2>1, <2>3 DEF OrderRec
  <2>8. \A i \in Ids : data'[i].remaining = IF i = f THEN left ELSE data[i].remaining
    BY <1>1, <2>1, <2>3 DEF BookTypes, OrderRec
  <2>9. ASSUME NEW i \in AllIds
        PROVE  /\ owed'[i] = owed[i] - (IF i = cur.id \/ i = f THEN traded ELSE 0)
               /\ unended'[i] = unended[i] - (IF i = f /\ left = 0 THEN 1 ELSE 0)
    <3>1. /\ owed'[i] = owed[i] + (IF i = -1 THEN 0 ELSE 0) - Paid(a, i) - Paid(b, i) - Paid(c, i)
          /\ unended'[i] = unended[i] + (IF i = -1 THEN 1 ELSE 0)
                           - Closed(a, i) - Closed(b, i) - Closed(c, i)
      <4>1. HistTypes /\ TakeInAndReport(-1, 0, <<a, b, c>>)
        BY <1>1, <2>3
      <4> QED BY <2>5, <4>1, TakeInThree
    <3> QED BY <1>4, <1>5, <2>2, <2>6, <2>7, <3>1
  <2>10. ASSUME NEW i \in AllIds
         PROVE  Open(i)' = Open(i) - (IF i = cur.id \/ i = f THEN traded ELSE 0)
    <3>1. CASE i = cur.id
      BY <1>2, <1>3, <2>1, <2>2, <2>3, <2>7, <3>1 DEF Open
    <3>2. CASE i = f
      BY <1>2, <1>3, <2>1, <2>2, <2>3, <2>4, <2>7, <2>8, <3>2 DEF Open
    <3>3. CASE i # cur.id /\ i # f
      <4>1. Open(i) = (IF i \in order_index THEN data[i].remaining ELSE 0) + 0
        BY <3>3 DEF Open
      <4>2. Open(i)' = (IF i \in order_index THEN data[i].remaining ELSE 0) + 0
        BY <1>2, <2>3, <2>7, <2>8, <3>3 DEF Open
      <4> QED BY <1>2, <3>3, <4>1, <4>2
    <3> QED BY <3>1, <3>2, <3>3
  <2>11. QuantityConserved'
    BY <1>2, <2>9, <2>10 DEF Conserved, QuantityConserved
  <2>12. PrintsConserved'
    BY <1>2, <1>5, <2>1, <2>2, <2>3, <2>9, <2>10 DEF Conserved, PrintsConserved
  <2>13. EveryOrderEnds'
    <3> SUFFICES ASSUME NEW i \in Ids
                 PROVE  unended'[i] <= (IF i \in order_index' THEN 1 ELSE 0)
                          + (IF pc' = "match" /\ cur'.id = i THEN 1 ELSE 0)
      BY DEF EveryOrderEnds
    <3>1. unended[i] <= (IF i \in order_index THEN 1 ELSE 0)
                        + (IF pc = "match" /\ cur.id = i THEN 1 ELSE 0)
      BY DEF Conserved, EveryOrderEnds
    <3> QED BY <1>2, <1>5, <2>1, <2>3, <2>7, <2>9, <3>1
  <2> QED BY <2>11, <2>12, <2>13 DEF Conserved
<1>9. CASE MatchEnd
  <2>1. TakeInAndReport(-1, 0, EndReports(cur, starting_qty)) /\ pc' = back /\ back # "match"
        /\ UNCHANGED consumed
    BY <1>1, <1>9 DEF MatchEnd, Emit, LoopTypes
  <2>2. EndFill(cur) \in ReportRec /\ EndRest(cur) \in ReportRec /\ EndCancel(cur) \in ReportRec
    BY <1>3, ReportTypes DEF EndFill, EndRest, EndCancel, Kinds
  <2>3. \A i \in AllIds :
          /\ Paid(EndFill(cur), i) = 0 /\ Paid(EndRest(cur), i) = 0
          /\ Paid(EndCancel(cur), i) = (IF i = cur.id THEN cur.remaining ELSE 0)
          /\ Closed(EndFill(cur), i) = (IF i = cur.id /\ cur.remaining = 0 THEN 1 ELSE 0)
          /\ Closed(EndRest(cur), i) = 0
          /\ Closed(EndCancel(cur), i) = (IF i = cur.id THEN 1 ELSE 0)
    BY DEF EndFill, EndRest, EndCancel, Report, Paid, Closed
  <2>4. ASSUME NEW i \in AllIds
        PROVE  /\ owed'[i] = owed[i] - (IF i = cur.id /\ CancelsRest(cur)
                                        THEN cur.remaining ELSE 0)
               /\ unended'[i] = unended[i] - (IF i = cur.id /\ (cur.remaining = 0 \/ CancelsRest(cur))
                                              THEN 1 ELSE 0)
    <3>1. CASE starting_qty > cur.remaining /\ Rests(cur)
      <4>1. TakeInAndReport(-1, 0, <<EndFill(cur), EndRest(cur)>>)
        BY <2>1, <3>1, EndReportsAre
      <4>2. /\ owed'[i] = owed[i] + (IF i = -1 THEN 0 ELSE 0)
                          - Paid(EndFill(cur), i) - Paid(EndRest(cur), i)
            /\ unended'[i] = unended[i] + (IF i = -1 THEN 1 ELSE 0)
                          - Closed(EndFill(cur), i) - Closed(EndRest(cur), i)
        BY <1>1, <1>4, <2>2, <4>1, TakeInTwo
      <4> QED BY <1>3, <1>4, <1>5, <2>3, <3>1, <4>2 DEF Rests, CancelsRest
    <3>2. CASE starting_qty > cur.remaining /\ CancelsRest(cur)
      <4>1. TakeInAndReport(-1, 0, <<EndFill(cur), EndCancel(cur)>>)
        BY <2>1, <3>2, EndReportsAre DEF Rests, CancelsRest
      <4>2. /\ owed'[i] = owed[i] + (IF i = -1 THEN 0 ELSE 0)
                          - Paid(EndFill(cur), i) - Paid(EndCancel(cur), i)
            /\ unended'[i] = unended[i] + (IF i = -1 THEN 1 ELSE 0)
                          - Closed(EndFill(cur), i) - Closed(EndCancel(cur), i)
        BY <1>1, <1>4, <2>2, <4>1, TakeInTwo
      <4> QED BY <1>3, <1>4, <1>5, <2>3, <3>2, <4>2 DEF CancelsRest
    <3>3. CASE starting_qty > cur.remaining /\ ~Rests(cur) /\ ~CancelsRest(cur)
      <4>1. TakeInAndReport(-1, 0, <<EndFill(cur)>>)
        BY <2>1, <3>3, EndReportsAre
      <4>2. /\ owed'[i] = owed[i] + (IF i = -1 THEN 0 ELSE 0) - Paid(EndFill(cur), i)
            /\ unended'[i] = unended[i] + (IF i = -1 THEN 1 ELSE 0) - Closed(EndFill(cur), i)
        BY <1>1, <1>4, <2>2, <4>1, TakeInOne
      <4> QED BY <1>3, <1>4, <1>5, <2>3, <3>3, <4>2
    <3>4. CASE ~(starting_qty > cur.remaining) /\ Rests(cur)
      <4>1. TakeInAndReport(-1, 0, <<EndRest(cur)>>)
        BY <2>1, <3>4, EndReportsAre
      <4>2. /\ owed'[i] = owed[i] + (IF i = -1 THEN 0 ELSE 0) - Paid(EndRest(cur), i)
            /\ unended'[i] = unended[i] + (IF i = -1 THEN 1 ELSE 0) - Closed(EndRest(cur), i)
        BY <1>1, <1>4, <2>2, <4>1, TakeInOne
      <4> QED BY <1>3, <1>4, <1>5, <2>3, <3>4, <4>2 DEF Rests, CancelsRest
    <3>5. CASE ~(starting_qty > cur.remaining) /\ CancelsRest(cur)
      <4>1. TakeInAndReport(-1, 0, <<EndCancel(cur)>>)
        BY <2>1, <3>5, EndReportsAre DEF Rests, CancelsRest
      <4>2. /\ owed'[i] = owed[i] + (IF i = -1 THEN 0 ELSE 0) - Paid(EndCancel(cur), i)
            /\ unended'[i] = unended[i] + (IF i = -1 THEN 1 ELSE 0) - Closed(EndCancel(cur), i)
        BY <1>1, <1>4, <2>2, <4>1, TakeInOne
      <4> QED BY <1>3, <1>4, <1>5, <2>3, <3>5, <4>2 DEF CancelsRest
    <3>6. CASE ~(starting_qty > cur.remaining) /\ ~Rests(cur) /\ ~CancelsRest(cur)
      <4>1. Emit(<<>>) /\ cur.remaining # 0
        BY <1>3, <2>1, <3>6, EndReportsAre DEF Emit
      <4>2. owed' = owed /\ unended' = unended
        BY <1>1, <4>1, EmitNothing
      <4> QED BY <1>5, <3>6, <4>1, <4>2
    <3> QED BY <3>1, <3>2, <3>3, <3>4, <3>5, <3>6
  <2>5. CASE Rests(cur)
    <3>1. /\ order_index' = order_index \cup {cur.id} /\ cur.id \in Ids
          /\ data' = [data EXCEPT ![cur.id] = cur] /\ cur.remaining > 0 /\ ~CancelsRest(cur)
      BY <1>3, <1>9, <2>5 DEF MatchEnd, Rests, CancelsRest, AllIds
    <3>2. \A i \in Ids : data'[i] = IF i = cur.id THEN cur ELSE data[i]
      BY <1>1, <3>1 DEF BookTypes
    <3>3. ASSUME NEW i \in AllIds PROVE Open(i)' = Open(i)
      <4>1. CASE i = cur.id
        BY <1>3, <2>1, <3>1, <3>2, <4>1 DEF Open
      <4>2. CASE i # cur.id
        <5>1. Open(i) = (IF i \in order_index THEN data[i].remaining ELSE 0) + 0
          BY <4>2 DEF Open
        <5>2. Open(i)' = (IF i \in order_index THEN data[i].remaining ELSE 0) + 0
          BY <1>2, <2>1, <3>1, <3>2, <4>2 DEF Open
        <5> QED BY <5>1, <5>2
      <4> QED BY <4>1, <4>2
    <3>4. \A i \in AllIds : owed'[i] = owed[i] /\ unended'[i] = unended[i]
      BY <1>3, <1>5, <2>4, <3>1
    <3>5. QuantityConserved'
      BY <1>2, <3>3, <3>4 DEF Conserved, QuantityConserved
    <3>6. PrintsConserved'
      BY <1>2, <2>1, <3>3, <3>4 DEF Conserved, PrintsConserved
    <3>7. EveryOrderEnds'
      <4> SUFFICES ASSUME NEW i \in Ids
                   PROVE  unended'[i] <= (IF i \in order_index' THEN 1 ELSE 0)
                            + (IF pc' = "match" /\ cur'.id = i THEN 1 ELSE 0)
        BY DEF EveryOrderEnds
      <4>1. unended[i] <= (IF i \in order_index THEN 1 ELSE 0)
                          + (IF pc = "match" /\ cur.id = i THEN 1 ELSE 0)
        BY DEF Conserved, EveryOrderEnds
      <4> QED BY <1>2, <1>3, <1>5, <2>1, <3>1, <3>4, <4>1
    <3> QED BY <3>5, <3>6, <3>7 DEF Conserved
  <2>6. CASE ~Rests(cur)
    <3>1. UNCHANGED <<order_index, data>>
      BY <1>9, <2>6 DEF MatchEnd, bookVars
    <3>2. \A i \in AllIds : Open(i)' = Open(i) - (IF i = cur.id THEN cur.remaining ELSE 0)
      BY <1>2, <1>3, <2>1, <3>1 DEF Open
    <3>3. cur.id \in Ids => cur.remaining = 0 \/ CancelsRest(cur)
      BY <1>2, <1>3, <2>6 DEF Rests, CancelsRest
    <3>4. QuantityConserved'
      BY <1>2, <1>3, <1>5, <2>4, <3>2, <3>3 DEF Conserved, QuantityConserved
    <3>5. PrintsConserved'
      <4>1. owed'[MarketId] = owed[MarketId]
        BY <1>2, <1>3, <1>5, <2>4 DEF CancelsRest
      <4> QED BY <1>2, <1>3, <1>5, <2>1, <3>2, <4>1 DEF Conserved, PrintsConserved
    <3>6. EveryOrderEnds'
      <4> SUFFICES ASSUME NEW i \in Ids
                   PROVE  unended'[i] <= (IF i \in order_index' THEN 1 ELSE 0)
                            + (IF pc' = "match" /\ cur'.id = i THEN 1 ELSE 0)
        BY DEF EveryOrderEnds
      <4>1. unended[i] <= (IF i \in order_index THEN 1 ELSE 0)
                          + (IF pc = "match" /\ cur.id = i THEN 1 ELSE 0)
        BY DEF Conserved, EveryOrderEnds
      <4> QED BY <1>2, <1>3, <1>5, <2>1, <2>4, <3>1, <3>3, <4>1
    <3> QED BY <3>4, <3>5, <3>6 DEF Conserved
  <2> QED BY <2>5, <2>6
<1> QED BY <1>6, <1>7, <1>8, <1>9

-----------------------------------------------------------------------------
(* The displayed quote. *)

QuoteInv == OneQuote /\ DisplayedNotOversold

(* What a shrunk quote displays. *)
LEMMA ShrinkQty ==
  ASSUME NEW q \in Quotes, NEW side \in Sides, NEW n \in Nat, NEW s \in Sides
  PROVE  /\ QtyOf(q, s) \in Nat
         /\ QtyOf(ShrinkQuote(q, side, n), s) =
              IF s = side THEN Greatest(QtyOf(q, s) - n, 0) ELSE QtyOf(q, s)
         /\ QtyOf(ShrinkQuote(q, side, n), s) \in Nat
         /\ QtyOf(ShrinkQuote(q, side, n), s) <= QtyOf(q, s)
BY DEF ShrinkQuote, QtyOf, Quotes, Sides, Greatest

(* An order takes from the stored quote what it adds to what was taken. *)
LEMMA TakeExternalQuote ==
  ASSUME TypeInv, QuoteInv, NEW o \in Orders, NEW cont, TakeExternal(o, cont)
  PROVE  QuoteInv'
<1> DEFINE traded == Least(o.remaining, ExternalAvailable(o))
           side == Opposite(o.side)
<1>1. QuoteTypes /\ o \in OrderRec /\ o.remaining \in Nat /\ side \in Sides
  BY TypeParts, OrderFacts DEF TypeInv
<1>2. /\ ExternalAvailable(o) \in Nat
      /\ \A q \in bbo : ExternalAvailable(o) <= QtyOf(q, side)
  BY <1>1, ExternalBound DEF QuoteTypes, QuoteInv
<1>3. traded \in Nat /\ traded <= ExternalAvailable(o)
  BY <1>1, <1>2 DEF Least
<1>4. /\ bbo' = {ShrinkQuote(q, side, traded) : q \in bbo}
      /\ spent' = [spent EXCEPT ![side] = @ + traded] /\ shown' = shown
  BY DEF TakeExternal
<1> HIDE DEF traded, side
<1>5. OneQuote'
  BY <1>4 DEF QuoteInv, OneQuote
<1>6. ASSUME NEW s \in Sides, NEW q2 \in bbo', NEW p \in shown
      PROVE  spent'[s] + QtyOf(q2, s) <= QtyOf(p, s)
  <2>1. PICK q \in bbo : q2 = ShrinkQuote(q, side, traded)
    BY <1>4
  <2>2. q \in Quotes /\ p \in Quotes
    BY <1>1 DEF QuoteTypes
  <2>3. /\ QtyOf(q, s) \in Nat /\ QtyOf(p, s) \in Nat /\ spent[s] \in Nat
        /\ QtyOf(q2, s) = IF s = side THEN Greatest(QtyOf(q, s) - traded, 0) ELSE QtyOf(q, s)
    BY <1>1, <1>3, <2>1, <2>2, ShrinkQty DEF QuoteTypes
  <2>4. spent[s] + QtyOf(q, s) <= QtyOf(p, s)
    BY DEF QuoteInv, DisplayedNotOversold
  <2>5. s = side => traded <= QtyOf(q, s)
    BY <1>2, <1>3, <2>3
  <2>6. spent'[s] = IF s = side THEN spent[s] + traded ELSE spent[s]
    BY <1>1, <1>4 DEF QuoteTypes
  <2> QED BY <1>3, <2>3, <2>4, <2>5, <2>6 DEF Greatest
<1> QED BY <1>4, <1>5, <1>6 DEF QuoteInv, DisplayedNotOversold

(* A print only lessens what is displayed. *)
LEMMA TradeQuote ==
  ASSUME TypeInv, QuoteInv, ev \in Events, ApplyTrade, UNCHANGED spent
  PROVE  QuoteInv'
<1>1. QuoteTypes
  BY TypeParts DEF TypeInv
<1> DEFINE After(q) == IF ev.side \in Sides /\ ev.price = PriceOf(q, Opposite(ev.side))
                       THEN ShrinkQuote(q, Opposite(ev.side), ev.quantity) ELSE q
<1>2. bbo' = {After(q) : q \in bbo} /\ shown' = shown /\ ev.quantity \in Nat
  BY DEF ApplyTrade, Events
<1>3. ASSUME NEW q \in bbo, NEW s \in Sides
      PROVE  /\ QtyOf(q, s) \in Nat /\ QtyOf(After(q), s) \in Nat
             /\ QtyOf(After(q), s) <= QtyOf(q, s)
  <2>1. q \in Quotes /\ Opposite(ev.side) \in Sides
    BY <1>1 DEF QuoteTypes, Opposite, Sides
  <2> QED BY <1>2, <2>1, ShrinkQty
<1> HIDE DEF After
<1>4. OneQuote'
  BY <1>2 DEF QuoteInv, OneQuote
<1>5. ASSUME NEW s \in Sides, NEW q2 \in bbo', NEW p \in shown
      PROVE  spent'[s] + QtyOf(q2, s) <= QtyOf(p, s)
  <2>1. PICK q \in bbo : q2 = After(q)
    BY <1>2
  <2>2. p \in Quotes /\ spent[s] \in Nat
    BY <1>1 DEF QuoteTypes
  <2>3. QtyOf(p, s) \in Nat
    BY <2>2 DEF QtyOf, Quotes, Sides
  <2>4. spent[s] + QtyOf(q, s) <= QtyOf(p, s)
    BY DEF QuoteInv, DisplayedNotOversold
  <2> QED BY <1>3, <2>1, <2>2, <2>3, <2>4
<1> QED BY <1>2, <1>4, <1>5 DEF QuoteInv, DisplayedNotOversold

(* A new quote starts with nothing taken from it. *)
LEMMA NewQuote ==
  ASSUME TypeInv, ApplyQuote
  PROVE  QuoteInv'
<1>1. /\ bbo' = IF UsableQuote(ev.quote) THEN {ev.quote} ELSE {}
      /\ shown' = bbo' /\ spent' = [s \in Sides |-> 0]
  BY DEF ApplyQuote
<1>2. OneQuote'
  BY <1>1 DEF OneQuote
<1>3. ev.quote \in Quotes
  BY DEF ApplyQuote, TypeInv, InEvent, Events
<1>4. \A s \in Sides : QtyOf(ev.quote, s) \in Nat
  BY <1>3 DEF QtyOf, Quotes
<1>5. DisplayedNotOversold'
  BY <1>1, <1>4 DEF DisplayedNotOversold
<1> QED BY <1>2, <1>5 DEF QuoteInv

-----------------------------------------------------------------------------
(* The invariant. *)

(* A step keeps the types, the book, the accounts and the quote. *)
BookInv == TypeInv /\ IndexMatchesBook /\ NeverCrossed /\ Conserved /\ QuoteInv

(* The invariant holds at first. *)
LEMMA InitInv == EInit => EngineInv
<1> SUFFICES ASSUME EInit PROVE EngineInv
  OBVIOUS
<1>1. TypeInv
  BY InitTypes
<1>2. order_index = {} /\ pending = {} /\ bbo = {} /\ shown = {} /\ pc = "idle" /\ consumed = 0
  BY DEF EInit
<1>3. \A i \in Ids \cup {MarketId} : owed[i] = 0 /\ unended[i] = 0
  BY DEF EInit
<1>4. \A s \in Sides, t \in Ticks : levels[s][t] = <<>>
  BY DEF EInit
<1>5. IndexMatchesBook /\ NeverCrossed
  BY <1>2, <1>4 DEF IndexMatchesBook, NeverCrossed
<1>6. QuantityConserved /\ PrintsConserved /\ EveryOrderEnds
  <2>1. \A i : Open(i) = 0
    BY <1>2 DEF Open
  <2> QED BY <1>2, <1>3, <2>1 DEF QuantityConserved, PrintsConserved, EveryOrderEnds
<1>7. OneQuote /\ DisplayedNotOversold /\ NoDueCancelAhead /\ FokCovered
  BY <1>2 DEF OneQuote, DisplayedNotOversold, NoDueCancelAhead, FokCovered
<1> QED BY <1>1, <1>5, <1>6, <1>7 DEF EngineInv, TypeInv

(* A step that leaves the book's orders and the quote alone and reports nothing. *)
LEMMA QuietBook ==
  ASSUME BookInv, UNCHANGED <<levels, order_index, data>>
  PROVE  IndexMatchesBook' /\ NeverCrossed'
BY DEF BookInv, IndexMatchesBook, NeverCrossed

(* A step that leaves the quote and its histories alone keeps the quote invariant. *)
LEMMA QuietQuote ==
  ASSUME BookInv, UNCHANGED <<bbo, shown, spent>>
  PROVE  QuoteInv'
BY DEF BookInv, QuoteInv, OneQuote, DisplayedNotOversold

(* send_order_now keeps book, accounts and quote. *)
LEMMA SendNowKeeps ==
  ASSUME BookInv, NEW o \in Orders, NEW cont \in {"idle", "deliver"}, pc = cont,
         SendOrderNow(o, cont), UNCHANGED consumed
  PROVE  IndexMatchesBook' /\ NeverCrossed' /\ Conserved' /\ QuoteInv'
<1>1. Conserved'
  BY SendNowConserved DEF BookInv
<1>2. IndexMatchesBook' /\ NeverCrossed'
  BY QuietBook DEF SendOrderNow, RejectOrder, KillOrder, TakeExternal, bookVars
<1>3. QuoteInv'
  <2>1. CASE TakeExternal(o, cont)
    BY <2>1, TakeExternalQuote DEF BookInv
  <2>2. CASE RejectOrder(o, cont) \/ KillOrder(o, cont)
    BY <2>2, QuietQuote DEF RejectOrder, KillOrder, quoteVars
  <2> QED BY <2>1, <2>2 DEF SendOrderNow
<1> QED BY <1>1, <1>2, <1>3

(* Every step keeps all but the cancels that are due. *)
LEMMA BookInvKept == BookInv /\ [ENext]_engineVars => BookInv'
<1> SUFFICES ASSUME BookInv, [ENext]_engineVars PROVE BookInv'
  OBVIOUS
<1>1. TypeInv /\ IndexMatchesBook /\ NeverCrossed /\ Conserved /\ QuoteInv
  BY DEF BookInv
<1>2. CASE ConsumeQueueAhead \/ CancelSelfTrade
  <2>1. TypeInv' /\ Conserved'
    BY <1>1, <1>2, MatchTypes, MatchConserved
  <2>2. IndexMatchesBook' /\ NeverCrossed' /\ QuoteInv'
    BY <1>2, QuietBook, QuietQuote DEF ConsumeQueueAhead, CancelSelfTrade, bookVars, quoteVars
  <2> QED BY <2>1, <2>2 DEF BookInv
<1>3. CASE MatchFront
  <2>1. TypeInv' /\ Conserved' /\ IndexMatchesBook' /\ NeverCrossed'
    BY <1>1, <1>3, MatchTypes, MatchConserved, MatchFrontIndex
  <2>2. QuoteInv'
    BY <1>3, QuietQuote DEF MatchFront, quoteVars
  <2> QED BY <2>1, <2>2 DEF BookInv
<1>4. CASE MatchEnd
  <2>1. TypeInv' /\ Conserved' /\ IndexMatchesBook' /\ NeverCrossed'
    BY <1>1, <1>4, MatchTypes, MatchConserved, MatchEndIndex
  <2>2. QuoteInv'
    BY <1>4, QuietQuote DEF MatchEnd, quoteVars
  <2> QED BY <2>1, <2>2 DEF BookInv
<1>5. CASE \E p \in pending : ApplyPendingCancel(p)
  <2>1. PICK p \in pending : ApplyPendingCancel(p)
    BY <1>5
  <2>2. TypeInv'
    BY <1>1, <1>5, CancelTypes
  <2>3. pc = "cancels" /\ pc' = "cancels" /\ UNCHANGED <<quoteVars, consumed, spent>>
    BY <2>1 DEF ApplyPendingCancel
  <2>4. QuoteInv'
    BY <2>3, QuietQuote DEF quoteVars
  <2>5. CASE p.id \in order_index
    BY <1>1, <2>1, <2>2, <2>3, <2>4, <2>5, RemoveIndex, RemoveConserved
    DEF ApplyPendingCancel, BookInv
  <2>6. CASE p.id \notin order_index
    <3>1. Emit(<<>>) /\ UNCHANGED <<levels, order_index, data>>
      BY <2>1, <2>6 DEF ApplyPendingCancel, bookVars
    <3> QED BY <1>1, <2>2, <2>3, <2>4, <3>1, QuietBook, QuietConserved DEF BookInv
  <2> QED BY <2>5, <2>6
<1>6. CASE \E id \in Ids : CancelOrder(id)
  <2>1. PICK id \in Ids : CancelOrder(id)
    BY <1>6
  <2>2. TypeInv'
    BY <1>1, <1>6, CancelTypes
  <2>3. /\ pc = "idle" /\ pc' = "idle" /\ UNCHANGED <<quoteVars, consumed, spent>>
        /\ id \in order_index
    BY <2>1 DEF CancelOrder
  <2>4. QuoteInv'
    BY <2>3, QuietQuote DEF quoteVars
  <2>5. CASE Immediate
    BY <1>1, <2>1, <2>2, <2>3, <2>4, <2>5, RemoveIndex, RemoveConserved DEF CancelOrder, BookInv
  <2>6. CASE ~Immediate
    <3>1. Emit(<<>>) /\ UNCHANGED <<levels, order_index, data>>
      BY <2>1, <2>6 DEF CancelOrder, bookVars
    <3> QED BY <1>1, <2>2, <2>3, <2>4, <3>1, QuietBook, QuietConserved DEF BookInv
  <2> QED BY <2>5, <2>6
<1>7. CASE NoCancelDue
  <2>1. TypeInv'
    BY <1>1, <1>7, CancelTypes
  <2>2. /\ Emit(<<>>) /\ UNCHANGED <<levels, order_index, data, bbo, shown, spent, consumed>>
        /\ pc # "match" /\ pc' # "match"
    BY <1>7 DEF NoCancelDue, bookVars, quoteVars
  <2> QED BY <1>1, <2>1, <2>2, QuietBook, QuietQuote, QuietConserved DEF BookInv
<1>8. CASE \E i \in DOMAIN in_flight : DeliverNext(i)
  <2>1. PICK i \in DOMAIN in_flight : DeliverNext(i)
    BY <1>8
  <2>2. TypeInv'
    BY <1>1, <1>8, OrderTypes
  <2>3. in_flight[i].order \in Orders
    BY <1>1, LandingTypes DEF TypeInv
  <2>4. SendOrderNow(in_flight[i].order, "deliver") /\ pc = "deliver" /\ UNCHANGED consumed
    BY <2>1 DEF DeliverNext
  <2> QED BY <2>2, <2>3, <2>4, SendNowKeeps DEF BookInv
<1>9. CASE \E o \in Orders, ts \in Nat : SendOrder(o, ts)
  <2>1. PICK o \in Orders, ts \in Nat : SendOrder(o, ts)
    BY <1>9
  <2>2. TypeInv'
    BY <1>1, <1>9, OrderTypes
  <2>3. CASE OrderLatency = 0
    <3>1. SendOrderNow(o, "idle") /\ pc = "idle" /\ UNCHANGED consumed
      BY <2>1, <2>3 DEF SendOrder
    <3> QED BY <2>2, <3>1, SendNowKeeps DEF BookInv
  <2>4. CASE OrderLatency # 0
    <3>1. /\ Emit(<<>>) /\ UNCHANGED <<levels, order_index, data, bbo, shown, spent, consumed>>
          /\ pc # "match" /\ pc' # "match"
      BY <2>1, <2>4 DEF SendOrder, bookVars, quoteVars
    <3> QED BY <1>1, <2>2, <3>1, QuietBook, QuietQuote, QuietConserved DEF BookInv
  <2> QED BY <2>3, <2>4
<1>10. CASE Landed
  <2>1. TypeInv' /\ ev \in Events /\ pc = "deliver"
        /\ UNCHANGED <<bookVars, consumed, spent>>
    BY <1>1, <1>10, EventTypes DEF Landed, TypeInv, InEvent
  <2>2. IndexMatchesBook' /\ NeverCrossed'
    BY <2>1, QuietBook DEF bookVars
  <2>3. CASE ApplyTrade
    BY <1>1, <2>1, <2>2, <2>3, TradeConserved, TradeQuote DEF BookInv
  <2>4. CASE ev.kind # "trade" /\ pc' = "cancels" /\ Emit(<<>>) /\ UNCHANGED quoteVars
    BY <1>1, <2>1, <2>2, <2>4, QuietConserved, QuietQuote DEF BookInv, bookVars, quoteVars
  <2> QED BY <1>10, <2>3, <2>4 DEF Landed
<1>11. CASE ApplyQuote
  <2>1. TypeInv' /\ QuoteInv'
    BY <1>1, <1>11, EventTypes, NewQuote
  <2>2. /\ Emit(<<>>) /\ UNCHANGED <<levels, order_index, data, consumed>>
        /\ pc # "match" /\ pc' # "match"
    BY <1>11 DEF ApplyQuote
  <2> QED BY <1>1, <2>1, <2>2, QuietBook, QuietConserved DEF BookInv
<1>12. CASE \E e \in Events : MarketEvent(e)
  <2>1. TypeInv'
    BY <1>1, <1>12, EventTypes
  <2>2. /\ Emit(<<>>) /\ UNCHANGED <<levels, order_index, data, bbo, shown, spent, consumed>>
        /\ pc # "match" /\ pc' # "match"
    BY <1>12 DEF MarketEvent, bookVars, quoteVars
  <2> QED BY <1>1, <2>1, <2>2, QuietBook, QuietQuote, QuietConserved DEF BookInv
<1>13. CASE UNCHANGED engineVars
  <2>1. UNCHANGED <<bookVars, quoteVars, clockVars, delayVars, rejected, consumed, pc,
                    matchVars, ev, histVars, spent>>
    BY <1>13 DEF engineVars
  <2>2. TypeInv'
    BY <1>1, <2>1, Zenon DEF TypeInv, ETypeOK, CallTypes, InEvent, MatchingOrder, bookVars,
       quoteVars, clockVars, delayVars, matchVars, histVars
  <2>3. Conserved'
    BY <1>1, <2>1, Zenon DEF Conserved, QuantityConserved, PrintsConserved, EveryOrderEnds, Open,
       bookVars, matchVars, histVars
  <2> QED BY <2>1, <2>2, <2>3, QuietBook, QuietQuote DEF BookInv, bookVars, quoteVars
<1> QED BY <1>2, <1>3, <1>4, <1>5, <1>6, <1>7, <1>8, <1>9, <1>10, <1>11, <1>12, <1>13
        DEF ENext, Working

(* No step lets a due cancel wait past the end of its call: the clock moves only
   at the start of a market event, which ends with every due cancel applied, and a
   cancel that was just asked for is not yet due. *)
LEMMA DueKept == TypeInv /\ NoDueCancelAhead /\ [ENext]_engineVars => NoDueCancelAhead'
<1> SUFFICES ASSUME TypeInv, NoDueCancelAhead, [ENext]_engineVars PROVE NoDueCancelAhead'
  OBVIOUS
<1> USE DEF NoDueCancelAhead, Due
<1>1. LoopTypes /\ CallTypes
  BY TypeParts DEF TypeInv
<1>2. CASE ConsumeQueueAhead \/ CancelSelfTrade \/ MatchFront
  BY <1>2 DEF ConsumeQueueAhead, CancelSelfTrade, MatchFront, clockVars, delayVars
<1>3. CASE MatchEnd
  BY <1>1, <1>3 DEF MatchEnd, LoopTypes, clockVars, delayVars
<1>4. CASE \E p \in pending : ApplyPendingCancel(p)
  BY <1>4 DEF ApplyPendingCancel
<1>5. CASE NoCancelDue
  BY <1>5 DEF NoCancelDue, clockVars, delayVars
<1>6. CASE \E i \in DOMAIN in_flight : DeliverNext(i)
  BY <1>6 DEF DeliverNext, SendOrderNow, RejectOrder, KillOrder, TakeExternal
<1>7. CASE Landed
  BY <1>7, Zenon DEF Landed, ApplyTrade, AfterPrint
<1>8. CASE ApplyQuote
  BY <1>8 DEF ApplyQuote, clockVars, delayVars
<1>9. CASE \E o \in Orders, ts \in Nat : SendOrder(o, ts)
  BY <1>9 DEF SendOrder, SendOrderNow, RejectOrder, KillOrder, TakeExternal, clockVars
<1>10. CASE \E id \in Ids : CancelOrder(id)
  <2>1. PICK id \in Ids : CancelOrder(id)
    BY <1>10
  <2>2. CASE Immediate
    BY <2>1, <2>2 DEF CancelOrder, clockVars
  <2>3. CASE ~Immediate
    <3>1. /\ pending' = {p \in pending : p.id # id} \cup
               {[id |-> id, event |-> event_counter + CancelDelayEvents,
                 time |-> now + CancelLatency]}
          /\ UNCHANGED <<event_counter, now>> /\ pc = "idle"
      BY <2>1, <2>3 DEF CancelOrder, clockVars
    <3>2. CancelDelayEvents > 0 \/ CancelLatency > 0
      BY <2>3, Settings DEF Immediate
    <3>3. ~(event_counter + CancelDelayEvents <= event_counter /\ now + CancelLatency <= now)
      BY <1>1, <3>2, Settings DEF LoopTypes
    <3> QED BY <3>1, <3>3
  <2> QED BY <2>2, <2>3
<1>11. CASE \E e \in Events : MarketEvent(e)
  BY <1>11 DEF MarketEvent
<1>12. CASE UNCHANGED engineVars
  BY <1>12 DEF engineVars, clockVars, delayVars, matchVars
<1> QED BY <1>2, <1>3, <1>4, <1>5, <1>6, <1>7, <1>8, <1>9, <1>10, <1>11, <1>12
        DEF ENext, Working

-----------------------------------------------------------------------------
(* Fill-or-kill. *)

Amounts == [i \in Ids |-> data[i].remaining]

(* Sums of natural amounts over ids. *)
LEMMA IdSums ==
  ASSUME NEW h, \A i \in Ids : h[i] \in Nat, NEW S \in SUBSET Ids
  PROVE  /\ IsFiniteSet(S)
         /\ SumFunctionOnSet(h, S) \in Nat
         /\ \A T \in SUBSET S : SumFunctionOnSet(h, T) <= SumFunctionOnSet(h, S)
         /\ \A x \in S : SumFunctionOnSet(h, S) = h[x] + SumFunctionOnSet(h, S \ {x})
<1>1. IsFiniteSet(Ids)
  BY EngineAssumption, Zenon
<1>2. IsFiniteSet(S)
  BY <1>1, FS_Subset
<1>3. SumFunctionOnSet(h, S) \in Nat
  BY <1>2, SumSubset
<1>4. \A T \in SUBSET S : SumFunctionOnSet(h, T) <= SumFunctionOnSet(h, S)
  BY <1>2, SumSubset
<1>5. \A x \in S : SumFunctionOnSet(h, S) = h[x] + SumFunctionOnSet(h, S \ {x})
  BY <1>2, SumRemove
<1> QED BY <1>2, <1>3, <1>4, <1>5

(* An order finds all it asks for when what it may cross adds up to that. *)
LEMMA AvailableAll ==
  ASSUME BookTypes, NEW o, o.remaining \in Nat
  PROVE  /\ SumFunctionOnSet(Amounts, Crossable(o)) \in Nat
         /\ InternalAvailable(o) = o.remaining
              <=> SumFunctionOnSet(Amounts, Crossable(o)) >= o.remaining
<1>1. Crossable(o) \in SUBSET Ids /\ \A i \in Ids : Amounts[i] \in Nat
  BY DEF Crossable, FacingOrders, BookTypes, OrderRec, Amounts
<1>2. SumFunctionOnSet(Amounts, Crossable(o)) \in Nat
  BY <1>1, IdSums
<1>3. InternalAvailable(o)
        = Least(SumFunctionOnSet(Amounts, Crossable(o)), o.remaining)
  BY DEF InternalAvailable, Amounts
<1> QED BY <1>2, <1>3 DEF Least

(* When there is an order the taker may cross, match_side goes on, and the one at
   the front of the best level is not the taker's own. *)
LEMMA CrossableFront ==
  ASSUME BookTypes, LoopTypes, IndexMatchesBook, cur.remaining > 0, Crossable(cur) # {}
  PROVE  CanMatch /\ ~SelfTrade(data[FrontId], cur)
<1>1. IndexedQueued /\ QueuesIndexed
  BY IndexParts
<1>2. PICK i \in Crossable(cur) : TRUE
  OBVIOUS
<1>3. /\ i \in order_index /\ data[i].side = Facing /\ Reaches(cur, data[i].price)
      /\ i \in FacingOrders(cur)
      /\ \A z \in FacingOrders(cur) :
           z = i \/ StandsBefore(z, i) => ~SelfTrade(data[z], cur)
  BY <1>2 DEF Crossable, FacingOrders, Facing
<1>4. /\ data[i].price \in Ticks /\ InQueue(levels[Facing][data[i].price], i)
      /\ Facing \in Sides /\ levels[Facing][data[i].price] \in Seq(Ids)
  BY <1>1, <1>3 DEF IndexedQueued, Facing, Opposite, Sides, BookTypes
<1>5. data[i].price \in Occupied(Facing)
  <2>1. levels[Facing][data[i].price] # <<>>
    BY <1>4 DEF InQueue
  <2> QED BY <1>4, <2>1 DEF Occupied
<1> DEFINE b == Best(Facing)
<1>6. /\ b \in Occupied(Facing) /\ b \in Ticks /\ levels[Facing][b] # <<>>
      /\ IF Facing = "Sell" THEN b <= data[i].price ELSE b >= data[i].price
  BY <1>4, <1>5, BestIsBest
<1>7. Reaches(cur, b)
  <2>1. b \in Int /\ data[i].price \in Int
    <3>1. \A t \in Ticks : t \in Int BY IdsAndTicks
    <3> QED BY ONLY <1>4, <1>6, <3>1
  <2>2. cur.side \in Sides /\ cur.price \in Int
    BY DEF LoopTypes, OrderRec
  <2> QED BY <1>3, <1>6, <2>1, <2>2 DEF Reaches, Facing, Opposite, Sides
<1>8. CanMatch
  BY <1>5, <1>7 DEF CanMatch
<1>9. /\ FrontId \in order_index /\ data[FrontId].side = Facing /\ data[FrontId].price = b
      /\ levels[Facing][b] \in Seq(Ids) /\ FrontId = levels[Facing][b][1]
      /\ Len(levels[Facing][b]) >= 1
  <2>1. levels[Facing][b] \in Seq(Ids) /\ levels[Facing][b] # <<>>
    BY <1>4, <1>6 DEF BookTypes
  <2>2. InQueue(levels[Facing][b], FrontId)
    BY <2>1, TailQueue DEF FrontId
  <2>3. FrontId = levels[Facing][b][1] /\ Len(levels[Facing][b]) >= 1
    BY <2>1, LenProperties, HeadTailProperties, EmptySeq DEF FrontId
  <2> QED BY <1>1, <1>4, <1>6, <2>1, <2>2, <2>3 DEF QueuesIndexed
<1> HIDE DEF b
<1>10. FrontId \in FacingOrders(cur)
  BY <1>7, <1>9 DEF FacingOrders, Facing
<1>11. FrontId = i \/ StandsBefore(FrontId, i)
  <2>1. CASE b # data[i].price
    <3>1. b \in Int /\ data[i].price \in Int
      <4>1. \A t \in Ticks : t \in Int BY IdsAndTicks
      <4> QED BY ONLY <1>4, <1>6, <4>1
    <3>2. IF Facing = "Sell" THEN b < data[i].price ELSE b > data[i].price
      BY <1>6, <2>1, <3>1
    <3> QED BY <1>9, <2>1, <3>2 DEF StandsBefore
  <2>2. CASE b = data[i].price
    <3>1. PICK k \in 1 .. Len(levels[Facing][b]) : levels[Facing][b][k] = i
      BY <1>4, <2>2 DEF InQueue
    <3>2. Len(levels[Facing][b]) \in Nat
      BY <1>9, LenProperties
    <3>3. CASE k = 1
      BY <1>9, <3>1, <3>3
    <3>4. CASE k # 1
      <4>1. 1 \in 1 .. Len(levels[Facing][b]) /\ 1 < k
        BY <1>9, <3>1, <3>2, <3>4
      <4> QED BY <1>9, <2>2, <3>1, <4>1 DEF StandsBefore
    <3> QED BY <3>3, <3>4
  <2> QED BY <2>1, <2>2
<1> QED BY <1>3, <1>8, <1>10, <1>11

(* One trade: what the taker may still cross is at least what it could cross before,
   less the order it has just used up. *)
LEMMA MatchFrontFok ==
  ASSUME TypeInv, IndexMatchesBook, MatchFront,
         SumFunctionOnSet(Amounts, Crossable(cur)) >= cur.remaining
  PROVE  SumFunctionOnSet(Amounts, Crossable(cur))' >= cur'.remaining
<1> DEFINE f == FrontId
           F == Facing
           tick == Best(Facing)
           traded == Least(cur.remaining, data[f].remaining)
           left == data[f].remaining - traded
           queue == IF left = 0 THEN Tail(levels[F][tick]) ELSE levels[F][tick]
<1>1. BookTypes /\ LoopTypes /\ IndexedQueued /\ QueuesIndexed /\ BookTypes'
  <2>1. TypeInv'
    BY MatchTypes
  <2> QED BY <2>1, TypeParts, IndexParts DEF TypeInv, ETypeOK, BookTypes
<1>2. /\ F \in Sides /\ tick \in Ticks /\ f \in Ids /\ data[f] \in OrderRec
      /\ levels[F][tick] \in Seq(Ids) /\ levels[F][tick] # <<>> /\ f = Head(levels[F][tick])
  BY <1>1, FrontTypes DEF MatchFront, FrontId
<1>3. traded \in Nat /\ left \in Nat /\ cur.remaining \in Nat /\ data[f].remaining \in Nat
  BY <1>1, <1>2 DEF OrderRec, Least, LoopTypes
<1>4. /\ data' = [data EXCEPT ![f].remaining = left]
      /\ levels' = [levels EXCEPT ![F][tick] = queue]
      /\ order_index' = IF left = 0 THEN order_index \ {f} ELSE order_index
      /\ cur' = [cur EXCEPT !.remaining = @ - traded]
  BY DEF MatchFront
<1>5. /\ cur'.remaining = cur.remaining - traded /\ cur'.side = cur.side
      /\ cur'.price = cur.price /\ cur'.owner = cur.owner
  BY <1>1, <1>3, <1>4 DEF LoopTypes, OrderRec
<1>6. left > 0 => cur'.remaining = 0
  BY <1>3, <1>5 DEF Least
<1>7. left = 0 => traded = data[f].remaining
  BY <1>3
<1> HIDE DEF f, F, tick, traded, left, queue
<1>8. \A i \in Ids : /\ data'[i].id = data[i].id /\ data'[i].side = data[i].side
                      /\ data'[i].price = data[i].price /\ data'[i].owner = data[i].owner
                      /\ data'[i].remaining = IF i = f THEN left ELSE data[i].remaining
  BY <1>1, <1>2, <1>4 DEF BookTypes, OrderRec
<1>9. order_index \subseteq Ids /\ order_index' \subseteq order_index
  BY <1>1, <1>4 DEF BookTypes
<1>10. /\ Crossable(cur) \in SUBSET order_index /\ Crossable(cur) \in SUBSET Ids
       /\ Crossable(cur)' \in SUBSET order_index' /\ Crossable(cur)' \in SUBSET Ids
       /\ Crossable(cur) \ {f} \in SUBSET Ids
  BY <1>9 DEF Crossable, FacingOrders
<1>11. /\ \A i \in Ids : Amounts[i] \in Nat /\ Amounts'[i] \in Nat
       /\ \A i \in Ids : i # f => Amounts'[i] = Amounts[i]
       /\ Amounts[f] = data[f].remaining
  BY <1>1, <1>2, <1>3, <1>8 DEF Amounts, BookTypes, OrderRec
<1>12. /\ SumFunctionOnSet(Amounts', Crossable(cur)') \in Nat
       /\ \A T \in SUBSET Crossable(cur)' :
            SumFunctionOnSet(Amounts', T) <= SumFunctionOnSet(Amounts', Crossable(cur)')
  BY <1>10, <1>11, IdSums
<1>13. CASE left > 0
  BY <1>6, <1>12, <1>13
<1>14. CASE left = 0
  <2> DEFINE rest == Crossable(cur) \ {f}
  <2>1. levels'[F][tick] = Tail(levels[F][tick])
    BY <1>1, <1>2, <1>4, <1>14 DEF queue, BookTypes
  <2>2. ASSUME NEW z \in Ids, NEW i \in Ids, z \in order_index, StandsBefore(z, i)'
        PROVE  StandsBefore(z, i)
    <3> DEFINE s == data[z].side
               t == data[z].price
    <3>1. /\ data'[z].side = s /\ data'[z].price = t /\ data'[i].price = data[i].price
          /\ s \in Sides /\ t \in Ticks
      BY <1>1, <1>8, <2>2 DEF IndexedQueued, BookTypes, OrderRec
    <3> HIDE DEF s, t
    <3>2. CASE t # data[i].price
      BY <2>2, <3>1, <3>2 DEF StandsBefore, s, t
    <3>3. CASE t = data[i].price
      <4>1. PICK j, k \in 1 .. Len(levels'[s][t]) :
              j < k /\ levels'[s][t][j] = z /\ levels'[s][t][k] = i
        BY <2>2, <3>1, <3>3 DEF StandsBefore
      <4>2. \E m, n \in 1 .. Len(levels[s][t]) :
              m < n /\ levels[s][t][m] = z /\ levels[s][t][n] = i
        <5>1. CASE s = F /\ t = tick
          <6>1. /\ levels'[s][t] = Tail(levels[s][t]) /\ levels[s][t] \in Seq(Ids)
                /\ levels[s][t] # <<>>
            BY <1>2, <2>1, <5>1
          <6>2. /\ Len(Tail(levels[s][t])) = Len(levels[s][t]) - 1
                /\ Len(levels[s][t]) \in Nat
                /\ \A n \in 1 .. Len(Tail(levels[s][t])) :
                     Tail(levels[s][t])[n] = levels[s][t][n + 1]
            BY <6>1, HeadTailProperties, LenProperties
          <6>3. /\ j + 1 \in 1 .. Len(levels[s][t]) /\ k + 1 \in 1 .. Len(levels[s][t])
                /\ j + 1 < k + 1
            BY <4>1, <6>1, <6>2
          <6>4. levels[s][t][j + 1] = z /\ levels[s][t][k + 1] = i
            BY <4>1, <6>1, <6>2
          <6> QED BY <6>3, <6>4
        <5>2. CASE ~(s = F /\ t = tick)
          <6>1. levels'[s][t] = levels[s][t]
            BY <1>1, <1>2, <1>4, <3>1, <5>2 DEF BookTypes
          <6> QED BY <4>1, <6>1
        <5> QED BY <5>1, <5>2
      <4> QED BY <3>3, <4>2 DEF StandsBefore, s, t
    <3> QED BY <3>2, <3>3
  <2>3. \A z \in Ids : SelfTrade(data[z], cur)' <=> SelfTrade(data[z], cur)
    BY <1>5, <1>8 DEF SelfTrade
  <2>4. \A i : i \in FacingOrders(cur)' <=> i \in FacingOrders(cur) /\ i # f
    BY <1>4, <1>5, <1>8, <1>9, <1>14 DEF FacingOrders, Reaches
  <2>5. rest \subseteq Crossable(cur)'
    <3> SUFFICES ASSUME NEW i \in Crossable(cur), i # f PROVE i \in Crossable(cur)'
      OBVIOUS
    <3>1. i \in FacingOrders(cur)' /\ i \in Ids
      BY <1>10, <2>4 DEF Crossable
    <3>2. ASSUME NEW z \in FacingOrders(cur)', z = i \/ StandsBefore(z, i)'
          PROVE  ~SelfTrade(data[z], cur)'
      <4>1. z \in FacingOrders(cur) /\ z \in order_index /\ z \in Ids
        BY <1>9, <2>4, <3>2 DEF FacingOrders
      <4>2. z = i \/ StandsBefore(z, i)
        BY <2>2, <3>1, <3>2, <4>1
      <4> QED BY <2>3, <4>1, <4>2 DEF Crossable
    <3> QED BY <3>1, <3>2 DEF Crossable
  <2> HIDE DEF rest
  <2>6. SumFunctionOnSet(Amounts', rest) = SumFunctionOnSet(Amounts, rest)
    <3>1. IsFiniteSet(rest) /\ rest \subseteq Ids
      BY <1>10, <1>11, IdSums DEF rest
    <3>2. \A i \in rest : Amounts'[i] \in Int /\ Amounts'[i] = Amounts[i]
      BY <1>11, <3>1 DEF rest
    <3> QED BY <3>1, <3>2, SumEqual
  <2>7. /\ SumFunctionOnSet(Amounts, rest) \in Nat
        /\ SumFunctionOnSet(Amounts, Crossable(cur))
             <= data[f].remaining + SumFunctionOnSet(Amounts, rest)
    <3>1. SumFunctionOnSet(Amounts, rest) \in Nat
      BY <1>10, <1>11, IdSums DEF rest
    <3>2. CASE f \in Crossable(cur)
      <4>1. SumFunctionOnSet(Amounts, Crossable(cur))
              = Amounts[f] + SumFunctionOnSet(Amounts, rest)
        BY <1>10, <1>11, <3>2, IdSums DEF rest
      <4> QED BY <1>3, <1>11, <3>1, <4>1
    <3>3. CASE f \notin Crossable(cur)
      <4>1. rest = Crossable(cur)
        BY <3>3 DEF rest
      <4> QED BY <1>3, <3>1, <4>1
    <3> QED BY <3>1, <3>2, <3>3
  <2>8. SumFunctionOnSet(Amounts, rest) <= SumFunctionOnSet(Amounts', Crossable(cur)')
    BY <1>12, <2>5, <2>6
  <2>9. SumFunctionOnSet(Amounts, Crossable(cur)) \in Nat
    BY <1>10, <1>11, IdSums
  <2> QED BY <1>3, <1>5, <1>7, <1>12, <1>14, <2>7, <2>8, <2>9
<1> QED BY <1>3, <1>13, <1>14

(* While the book stays, what the order in match_side may cross is what an order of
   the same side, price and owner could cross before the step. *)
LEMMA SameCrossable ==
  ASSUME UNCHANGED <<levels, order_index, data>>, NEW o,
         cur'.side = o.side, cur'.price = o.price, cur'.owner = o.owner
  PROVE  SumFunctionOnSet(Amounts, Crossable(cur))' = SumFunctionOnSet(Amounts, Crossable(o))
<1>1. \A i : i \in FacingOrders(cur)' <=> i \in FacingOrders(o)
  BY DEF FacingOrders, Reaches
<1>2. \A z, i : StandsBefore(z, i)' <=> StandsBefore(z, i)
  BY DEF StandsBefore
<1>3. \A z : SelfTrade(data[z], cur)' <=> SelfTrade(data[z], o)
  BY DEF SelfTrade
<1>4. Crossable(cur)' = Crossable(o)
  BY <1>1, <1>2, <1>3 DEF Crossable
<1>5. Amounts' = Amounts
  BY DEF Amounts
<1> QED BY <1>4, <1>5

(* send_order_now lets a fill-or-kill order into match_side only when the resting
   orders it may cross cover what the displayed quote left of it. *)
LEMMA SendNowFok ==
  ASSUME TypeInv, NEW o \in Orders, NEW cont \in {"idle", "deliver"},
         SendOrderNow(o, cont), pc' = "match", cur'.tif = "Fok"
  PROVE  SumFunctionOnSet(Amounts, Crossable(cur))' >= cur'.remaining
<1>1. TakeExternal(o, cont)
  BY DEF SendOrderNow, RejectOrder, KillOrder
<1>2. BookTypes /\ QuoteTypes /\ o \in OrderRec /\ o.remaining \in Nat
  BY TypeParts, OrderFacts DEF TypeInv
<1>3. ExternalAvailable(o) \in Nat
  BY <1>2, ExternalBound DEF QuoteTypes
<1> DEFINE traded == Least(o.remaining, ExternalAvailable(o))
           rest == o.remaining - traded
<1>4. cur' = [o EXCEPT !.remaining = rest] /\ rest # 0 /\ ~FokUnavailable(o)
      /\ UNCHANGED <<levels, order_index, data>>
  BY <1>1 DEF TakeExternal, bookVars
<1>5. /\ cur'.remaining = rest /\ cur'.tif = o.tif /\ cur'.side = o.side
      /\ cur'.price = o.price /\ cur'.owner = o.owner
  BY <1>2, <1>4 DEF OrderRec
<1>6. rest = o.remaining - ExternalAvailable(o)
  BY <1>2, <1>3, <1>4 DEF Least
<1> DEFINE sum == SumFunctionOnSet(Amounts, Crossable(o))
<1>7. sum \in Nat /\ InternalAvailable(o) = Least(sum, o.remaining)
  BY <1>2, AvailableAll DEF InternalAvailable, Amounts
<1>8. ExternalAvailable(o) + InternalAvailable(o) >= o.remaining
  <2>1. ~(ExternalAvailable(o) + InternalAvailable(o) < o.remaining)
    BY <1>4, <1>5 DEF FokUnavailable
  <2>2. InternalAvailable(o) \in Int
    BY <1>2, <1>7 DEF Least
  <2> QED BY <1>2, <1>3, <2>1, <2>2
<1>9. SumFunctionOnSet(Amounts, Crossable(cur))' = sum
  BY <1>4, <1>5, SameCrossable
<1> HIDE DEF sum, rest, traded
<1>10. sum >= rest
  BY <1>2, <1>3, <1>6, <1>7, <1>8 DEF Least
<1> QED BY <1>5, <1>9, <1>10

(* A fill-or-kill order stays covered. *)
LEMMA FokKept == BookInv /\ FokCovered /\ [ENext]_engineVars => FokCovered'
<1> SUFFICES ASSUME BookInv, FokCovered, [ENext]_engineVars, pc' = "match", cur'.tif = "Fok"
             PROVE  InternalAvailable(cur)' = cur'.remaining
  BY DEF FokCovered
<1> DEFINE Sum == SumFunctionOnSet(Amounts, Crossable(cur))
<1>1. /\ TypeInv /\ TypeInv' /\ IndexMatchesBook /\ BookTypes /\ LoopTypes /\ CallTypes
      /\ MatchingOrder /\ BookTypes' /\ LoopTypes'
  <2>1. TypeInv /\ IndexMatchesBook /\ TypeInv'
    BY BookInvKept DEF BookInv
  <2>2. BookTypes /\ LoopTypes /\ CallTypes /\ MatchingOrder
    BY <2>1, TypeParts DEF TypeInv
  <2>3. BookTypes' /\ LoopTypes'
    BY <2>1, Zenon DEF TypeInv, ETypeOK, BookTypes, LoopTypes
  <2> QED BY <2>1, <2>2, <2>3
<1>2. cur.remaining \in Nat /\ cur'.remaining \in Nat
  BY <1>1 DEF LoopTypes, OrderRec
<1>3. pc = "match" /\ cur.tif = "Fok" => Sum >= cur.remaining
  BY <1>1, <1>2, AvailableAll DEF FokCovered
<1>4. Sum' \in Nat
  <2>1. Crossable(cur)' \in SUBSET Ids /\ \A i \in Ids : Amounts'[i] \in Nat
    BY <1>1 DEF Crossable, FacingOrders, BookTypes, OrderRec, Amounts
  <2> QED BY <2>1, IdSums
<1>5. InternalAvailable(cur)' = Least(Sum', cur'.remaining)
  BY DEF InternalAvailable, Amounts
<1> SUFFICES Sum' >= cur'.remaining
  <2> HIDE DEF Sum
  <2> QED BY <1>2, <1>4, <1>5 DEF Least
<1>6. CASE ConsumeQueueAhead
  <2>1. pc = "match" /\ cur.owner = "Market" /\ cur'.tif = cur.tif
    BY <1>1, <1>6 DEF ConsumeQueueAhead, QueueStandsAhead, LoopTypes, OrderRec
  <2>2. cur.tif = "Gtc"
    BY <1>1, <2>1 DEF MatchingOrder
  <2> QED BY <2>1, <2>2
<1>7. CASE CancelSelfTrade
  <2>1. cur'.remaining = 0
    BY <1>1, <1>7 DEF CancelSelfTrade, LoopTypes, OrderRec
  <2> QED BY <1>4, <2>1
<1>8. CASE MatchFront
  <2>1. pc = "match" /\ cur.tif = "Fok"
    BY <1>1, <1>8 DEF MatchFront, LoopTypes, OrderRec
  <2> QED BY <1>1, <1>3, <1>8, <2>1, MatchFrontFok
<1>9. CASE MatchEnd
  BY <1>1, <1>9 DEF MatchEnd, LoopTypes
<1>10. CASE \E i \in DOMAIN in_flight : DeliverNext(i)
  <2>1. PICK i \in DOMAIN in_flight : DeliverNext(i)
    BY <1>10
  <2>2. SendOrderNow(in_flight[i].order, "deliver") /\ in_flight[i].order \in Orders
    BY <1>1, <2>1, LandingTypes DEF DeliverNext
  <2> QED BY <1>1, <2>2, SendNowFok
<1>11. CASE \E o \in Orders, ts \in Nat : SendOrder(o, ts)
  <2>1. PICK o \in Orders, ts \in Nat : SendOrder(o, ts)
    BY <1>11
  <2>2. SendOrderNow(o, "idle")
    BY <2>1 DEF SendOrder
  <2> QED BY <1>1, <2>2, SendNowFok
<1>12. CASE Landed
  <2>1. cur'.tif = "Gtc" \/ pc' # "match"
    BY <1>12 DEF Landed, ApplyTrade, AfterPrint
  <2> QED BY <2>1
<1>13. CASE \/ \E p \in pending : ApplyPendingCancel(p)
            \/ NoCancelDue \/ ApplyQuote
            \/ \E id \in Ids : CancelOrder(id)
            \/ \E e \in Events : MarketEvent(e)
  BY <1>13 DEF ApplyPendingCancel, NoCancelDue, ApplyQuote, CancelOrder, MarketEvent
<1>14. CASE UNCHANGED engineVars
  <2>1. UNCHANGED <<levels, order_index, data, pc, cur>>
    BY <1>14, Zenon DEF engineVars, bookVars, matchVars
  <2>2. Sum' = Sum
    <3>1. cur'.side = cur.side /\ cur'.price = cur.price /\ cur'.owner = cur.owner
      BY <2>1
    <3> QED BY <2>1, <3>1, SameCrossable
  <2> HIDE DEF Sum
  <2> QED BY <1>3, <2>1, <2>2
<1> QED BY <1>6, <1>7, <1>8, <1>9, <1>10, <1>11, <1>12, <1>13, <1>14 DEF ENext, Working

(* So it does while the book and the order in match_side stay. *)
LEMMA QuietFok ==
  ASSUME FokCovered, UNCHANGED <<levels, order_index, data, cur, pc>>
  PROVE  FokCovered'
<1>1. SumFunctionOnSet(Amounts, Crossable(cur))' = SumFunctionOnSet(Amounts, Crossable(cur))
  BY SameCrossable
<1>2. InternalAvailable(cur)' = InternalAvailable(cur)
  BY <1>1 DEF InternalAvailable, Amounts
<1> QED BY <1>2 DEF FokCovered

(* Every step keeps the whole invariant. *)
LEMMA EngineInvKept == EngineInv /\ [ENext]_engineVars => EngineInv'
<1> SUFFICES ASSUME EngineInv, [ENext]_engineVars PROVE EngineInv'
  OBVIOUS
<1>1. BookInv /\ NoDueCancelAhead /\ FokCovered
  BY Zenon DEF EngineInv, BookInv, TypeInv, Conserved, QuoteInv
<1>2. BookInv' /\ NoDueCancelAhead' /\ FokCovered'
  BY <1>1, BookInvKept, DueKept, FokKept DEF BookInv
<1> QED BY <1>2, Zenon DEF EngineInv, BookInv, TypeInv, Conserved, QuoteInv

(* EngineInv is an invariant of the engine, for any ids, ticks, latencies, queue
   model and participation. *)
THEOREM EngineInvariant == ESpec => []EngineInv
BY EngineInvKept, InitInv, PTL DEF ESpec

(* No quantity is lost or made up: what send_order took in under an id, less what
   its Trade and Cancelled reports account for, is resting or being matched. *)
THEOREM QuantitiesConserved == ESpec => []QuantityConserved
<1>1. EngineInv => QuantityConserved
  BY DEF EngineInv
<1> QED BY <1>1, EngineInvariant, PTL

(* Liquidity is spent once: process_market_trade gives out no more than printed,
   match_external_bbo takes no more than was displayed. *)
THEOREM NothingSpentTwice == ESpec => []LiquiditySpentOnce
<1>1. EngineInv => LiquiditySpentOnce
  BY DEF EngineInv, LiquiditySpentOnce
<1> QED BY <1>1, EngineInvariant, PTL

(* order_index_ holds exactly the ids queued in books_, each in the level of its
   own side and price, and no two resting orders would trade with one another. *)
THEOREM BookAlwaysSound == ESpec => []BookSound
<1>1. EngineInv => BookSound
  BY DEF EngineInv, BookSound
<1> QED BY <1>1, EngineInvariant, PTL

(* Orders end right: none that was accepted disappears without a terminal report,
   and match_side never leaves a fill-or-kill order partly filled, because the
   quantity internal_available counted for it is all there when it is taken. *)
THEOREM AcceptedOrdersEnd == ESpec => []OrdersEndRight
<1>1. EngineInv => FokAllOrNothing
  <2> SUFFICES ASSUME EngineInv, pc = "match", cur.tif = "Fok", cur.remaining > 0
               PROVE  CanMatch /\ ~SelfTrade(data[FrontId], cur)
    BY DEF FokAllOrNothing
  <2>1. BookTypes /\ LoopTypes /\ IndexMatchesBook /\ FokCovered
    BY TypeParts DEF EngineInv
  <2>2. cur.remaining \in Nat
    BY <2>1 DEF LoopTypes, OrderRec
  <2>3. SumFunctionOnSet(Amounts, Crossable(cur)) >= cur.remaining
    BY <2>1, <2>2, AvailableAll DEF FokCovered
  <2>4. Crossable(cur) # {}
    BY <2>2, <2>3, SumEmpty
  <2> QED BY <2>1, <2>4, CrossableFront
<1>2. EngineInv => OrdersEndRight
  BY <1>1 DEF EngineInv, OrdersEndRight
<1> QED BY <1>2, EngineInvariant, PTL

(* Between calls no cancel that is due is waiting in pending_cancels_. *)
THEOREM CancelsOnTime == ESpec => []DueCancelsApplied
<1>1. EngineInv => DueCancelsApplied
  BY DEF EngineInv, NoDueCancelAhead, DueCancelsApplied
<1> QED BY <1>1, EngineInvariant, PTL
=============================================================================
