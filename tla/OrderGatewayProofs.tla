------------------------ MODULE OrderGatewayProofs -------------------------
(***************************************************************************)
(* Proofs about OrderGateway, PaperBroker and the engine under them, for   *)
(* every configuration of faults, every client and every market: the       *)
(* venue sees the submissions in order, and reconciliation finds a lost    *)
(* fill and nothing else.                                                  *)
(*                                                                         *)
(* GatewayInv is inductive.  The engine's own invariant is part of it:     *)
(* what makes a withheld fill visible is that no Trade report has quantity *)
(* zero, which is a fact about the book.  The reports of a step are folded *)
(* twice, into the statement and then, as forwarded, into the client's     *)
(* books; the second fold is followed along the path of the first.         *)
(***************************************************************************)
EXTENDS OrderGateway, MatchingEngineProofs

ByBroker == INSTANCE FoldTheorems WITH Op <- OnVenueReport
ByClient == INSTANCE FoldTheorems WITH Op <- OnReport

-----------------------------------------------------------------------------
(* The engine under the gateway. *)

(* A report of the engine: what trades is never nothing. *)
VenueReports == {r \in ReportRec : r.kind = "Trade" => r.quantity > 0}

(* A report that is no trade, and one of some quantity. *)
LEMMA VenueReportTypes ==
  /\ \A o \in OrderRec, n \in Nat, kind \in Kinds \ {"Trade"} :
       Report(kind, o, n) \in VenueReports
  /\ \A o \in OrderRec, n \in Nat : n > 0 => Report("Trade", o, n) \in VenueReports
BY ReportTypes DEF VenueReports, Report, Kinds

(* send_order_now reports a fill against the displayed size only when there was
   something to take. *)
LEMMA SendNowReports ==
  ASSUME EngineInv, NEW o \in Orders, NEW cont, SendOrderNow(o, cont)
  PROVE  reports' \in Seq(VenueReports)
<1>1. o \in OrderRec /\ o.remaining \in Nat
  BY OrderFacts
<1>2. CASE RejectOrder(o, cont)
  BY <1>2, EmptySeq DEF RejectOrder, Emit, TakeInAndReport
<1>3. CASE KillOrder(o, cont)
  <2>1. Report("Cancelled", o, o.remaining) \in VenueReports
    BY <1>1, VenueReportTypes DEF Kinds
  <2>2. reports' = <<Report("Cancelled", o, o.remaining)>>
    BY <1>3, Zenon DEF KillOrder, TakeInAndReport
  <2> QED BY <2>1, <2>2
<1>4. CASE TakeExternal(o, cont)
  <2> DEFINE traded == Least(o.remaining, ExternalAvailable(o))
             rest == o.remaining - traded
  <2>1. reports' = IF traded = 0 THEN <<>>
                   ELSE <<Report("Trade", o, traded),
                          Report(IF rest = 0 THEN "Filled" ELSE "PartialFill", o, rest)>>
    BY <1>4, Zenon DEF TakeExternal, TakeInAndReport
  <2>2. traded \in Nat /\ rest \in Nat
    <3>1. bbo \in SUBSET Quotes
      BY Zenon DEF EngineInv, ETypeOK
    <3>2. ExternalAvailable(o) \in Nat
      BY <1>1, <3>1, ExternalBound
    <3> QED BY <3>2, <1>1 DEF Least
  <2> HIDE DEF traded, rest
  <2>3. /\ Report("Filled", o, rest) \in VenueReports
        /\ Report("PartialFill", o, rest) \in VenueReports
        /\ traded # 0 => Report("Trade", o, traded) \in VenueReports
    BY <1>1, <2>2, VenueReportTypes DEF Kinds
  <2> QED BY <2>1, <2>3, EmptySeq
<1> QED BY <1>2, <1>3, <1>4 DEF SendOrderNow

(* Nor does match_side: the front of a level is indexed and has something left. *)
LEMMA MatchReports ==
  ASSUME EngineInv, ConsumeQueueAhead \/ CancelSelfTrade \/ MatchFront \/ MatchEnd
  PROVE  reports' \in Seq(VenueReports)
<1>1. /\ BookTypes /\ LoopTypes /\ cur \in OrderRec /\ cur.remaining \in Nat
      /\ starting_qty \in Nat
  BY TypeParts DEF EngineInv, LoopTypes, OrderRec
<1>2. CASE ConsumeQueueAhead
  BY <1>2, EmptySeq DEF ConsumeQueueAhead, Emit, TakeInAndReport
<1>3. CASE CancelSelfTrade
  <2>1. Report("Cancelled", cur, cur.remaining) \in VenueReports
    BY <1>1, VenueReportTypes DEF Kinds
  <2>2. reports' = <<Report("Cancelled", cur, cur.remaining)>>
    BY <1>3, Zenon DEF CancelSelfTrade, Emit, TakeInAndReport
  <2> QED BY <2>1, <2>2
<1>4. CASE MatchFront
  <2> DEFINE resting == data[FrontId]
             traded == Least(cur.remaining, resting.remaining)
             left == resting.remaining - traded
  <2>1. reports' = <<Report("Trade", cur, traded), Report("Trade", resting, traded),
                     Report(IF left = 0 THEN "Filled" ELSE "PartialFill", resting, left)>>
    BY <1>4, Zenon DEF MatchFront, Emit, TakeInAndReport
  <2>2. CanMatch /\ cur.remaining > 0
    BY <1>4 DEF MatchFront, CanMatch
  <2>3. /\ Facing \in Sides /\ Best(Facing) \in Ticks
        /\ levels[Facing][Best(Facing)] \in Seq(Ids) /\ levels[Facing][Best(Facing)] # <<>>
        /\ resting \in OrderRec
    BY <1>1, <2>2, FrontTypes
  <2>4. FrontId \in order_index
    <3> DEFINE queue == levels[Facing][Best(Facing)]
    <3>1. 1 \in 1 .. Len(queue) /\ queue[1] = Head(queue)
      BY <2>3, HeadTailProperties, LenProperties, EmptySeq
    <3>2. queue[1] \in order_index
      BY <2>3, <3>1 DEF EngineInv, IndexMatchesBook
    <3> QED BY <3>1, <3>2 DEF FrontId
  <2>5. resting.remaining > 0
    BY <2>4 DEF EngineInv, IndexMatchesBook
  <2>6. traded \in Nat /\ traded > 0 /\ left \in Nat
    BY <1>1, <2>2, <2>3, <2>5 DEF Least, OrderRec
  <2> HIDE DEF resting, traded, left
  <2>7. /\ Report("Trade", cur, traded) \in VenueReports
        /\ Report("Trade", resting, traded) \in VenueReports
        /\ Report("Filled", resting, left) \in VenueReports
        /\ Report("PartialFill", resting, left) \in VenueReports
    BY <1>1, <2>3, <2>6, VenueReportTypes DEF Kinds
  <2> QED BY <2>1, <2>7
<1>5. CASE MatchEnd
  <2>1. /\ EndFill(cur) \in VenueReports /\ EndRest(cur) \in VenueReports
        /\ EndCancel(cur) \in VenueReports
    BY <1>1, VenueReportTypes DEF EndFill, EndRest, EndCancel, Kinds
  <2>2. EndReports(cur, starting_qty) \in Seq(VenueReports)
    <3>1. /\ <<EndFill(cur), EndRest(cur)>> \in Seq(VenueReports)
          /\ <<EndFill(cur), EndCancel(cur)>> \in Seq(VenueReports)
          /\ <<EndFill(cur)>> \in Seq(VenueReports) /\ <<EndRest(cur)>> \in Seq(VenueReports)
          /\ <<EndCancel(cur)>> \in Seq(VenueReports) /\ <<>> \in Seq(VenueReports)
      BY <2>1
    <3> QED BY <3>1, EndReportsAre, Zenon
  <2> QED BY <1>5, <2>2, Zenon DEF MatchEnd, Emit, TakeInAndReport
<1> QED BY <1>2, <1>3, <1>4, <1>5

(* Nor does a cancel. *)
LEMMA RemoveReports ==
  ASSUME EngineInv, NEW id \in order_index, RemoveOrder(id)
  PROVE  reports' \in Seq(VenueReports)
<1>1. data[id] \in OrderRec /\ data[id].remaining \in Nat
  BY TypeParts DEF EngineInv, BookTypes, OrderRec
<1>2. Report("Cancelled", data[id], data[id].remaining) \in VenueReports
  BY <1>1, VenueReportTypes DEF Kinds
<1>3. reports' = <<Report("Cancelled", data[id], data[id].remaining)>>
  BY Zenon DEF RemoveOrder, Emit, TakeInAndReport
<1> QED BY <1>2, <1>3

(* What any step of the engine reports. *)
LEMMA EngineReports ==
  ASSUME EngineInv, ENext
  PROVE  reports' \in Seq(VenueReports)
<1> USE EmptySeq
<1>1. CASE ConsumeQueueAhead \/ CancelSelfTrade \/ MatchFront \/ MatchEnd
  BY <1>1, MatchReports
<1>2. CASE \E p \in pending : ApplyPendingCancel(p)
  BY <1>2, RemoveReports DEF ApplyPendingCancel, Emit, TakeInAndReport
<1>3. CASE NoCancelDue
  BY <1>3 DEF NoCancelDue, Emit, TakeInAndReport
<1>4. CASE \E i \in DOMAIN in_flight : DeliverNext(i)
  <2>1. PICK i \in DOMAIN in_flight : DeliverNext(i)
    BY <1>4
  <2>2. in_flight[i].order \in Orders
    BY LandingTypes DEF EngineInv
  <2> QED BY <2>1, <2>2, SendNowReports DEF DeliverNext
<1>5. CASE Landed
  BY <1>5 DEF Landed, ApplyTrade, Emit, TakeInAndReport
<1>6. CASE ApplyQuote
  BY <1>6 DEF ApplyQuote, Emit, TakeInAndReport
<1>7. CASE \E o \in Orders, ts \in Nat : SendOrder(o, ts)
  BY <1>7, SendNowReports DEF SendOrder, Emit, TakeInAndReport
<1>8. CASE \E id \in Ids : CancelOrder(id)
  BY <1>8, RemoveReports DEF CancelOrder, Emit, TakeInAndReport
<1>9. CASE \E e \in Events : MarketEvent(e)
  BY <1>9 DEF MarketEvent, Emit, TakeInAndReport
<1> QED BY <1>1, <1>2, <1>3, <1>4, <1>5, <1>6, <1>7, <1>8, <1>9 DEF ENext, Working

(* A step of the broker that only clears the last reports keeps the engine's
   invariant too. *)
LEMMA EngineQuiet ==
  ASSUME EngineInv, Emit(<<>>),
         UNCHANGED <<bookVars, quoteVars, clockVars, delayVars, rejected, consumed, pc,
                     matchVars, ev, spent>>
  PROVE  EngineInv'
<1>1. owed' = owed /\ unended' = unended
  <2>1. HistTypes
    BY TypeParts DEF EngineInv
  <2> QED BY <2>1, EmitNothing DEF HistTypes
<1>2. UNCHANGED <<levels, ahead, order_index, data, bbo, l2_top, l2_seen, trade_ts, shown,
                  event_counter, now, in_flight, pending, rejected, consumed, pc, back, cur,
                  starting_qty, ev, spent, owed, unended>>
  BY <1>1, Zenon DEF bookVars, quoteVars, clockVars, delayVars, matchVars
<1>3. EngineInv
  OBVIOUS
<1>4. (ETypeOK /\ CallTypes /\ InEvent /\ MatchingOrder /\ OneQuote)'
  BY <1>2, <1>3, Zenon DEF EngineInv, ETypeOK, CallTypes, InEvent, MatchingOrder, OneQuote
<1>5. (IndexMatchesBook /\ NeverCrossed)'
  <2>1. IndexMatchesBook /\ NeverCrossed BY <1>3 DEF EngineInv
  <2>2. UNCHANGED <<order_index, data, levels>> BY <1>2
  <2>3. IndexMatchesBook' BY ONLY <2>1, <2>2, SMT DEF IndexMatchesBook
  <2>4. NeverCrossed' BY ONLY <2>1, <2>2, SMT DEF NeverCrossed
  <2> QED BY <2>3, <2>4
<1>6. (QuantityConserved /\ PrintsConserved /\ EveryOrderEnds)'
  BY <1>2, <1>3, Zenon DEF EngineInv, QuantityConserved, PrintsConserved, EveryOrderEnds, Open
<1>7. (DisplayedNotOversold /\ NoDueCancelAhead)'
  BY <1>2, <1>3, Zenon DEF EngineInv, DisplayedNotOversold, NoDueCancelAhead, Due
<1>8. FokCovered'
  BY <1>2, <1>3, QuietFok, Zenon DEF EngineInv
<1> QED BY <1>4, <1>5, <1>6, <1>7, <1>8, Zenon DEF EngineInv

-----------------------------------------------------------------------------
(* The broker's queues. *)

(* RemoveAt closes the gap. *)
LEMMA RemoveAtIs ==
  ASSUME NEW S, NEW s \in Seq(S), NEW k \in DOMAIN s
  PROVE  /\ RemoveAt(s, k) \in Seq(S)
         /\ DOMAIN RemoveAt(s, k) = 1 .. Len(s) - 1
         /\ \A i \in 1 .. Len(s) - 1 : RemoveAt(s, k)[i] = IF i < k THEN s[i] ELSE s[i + 1]
<1> DEFINE a == SubSeq(s, 1, k - 1)
           b == SubSeq(s, k + 1, Len(s))
<1>1. Len(s) \in Nat /\ DOMAIN s = 1 .. Len(s) /\ k \in 1 .. Len(s)
  BY LenProperties
<1>2. /\ a \in Seq(S) /\ Len(a) = k - 1
      /\ \A i \in 1 .. k - 1 : a[i] = s[i]
  BY <1>1, SubSeqProperties
<1>3. /\ b \in Seq(S) /\ Len(b) = Len(s) - k
      /\ \A i \in 1 .. Len(s) - k : b[i] = s[k + i]
  BY <1>1, SubSeqProperties
<1>4. RemoveAt(s, k) = a \o b
  BY DEF RemoveAt
<1> HIDE DEF a, b
<1>5. /\ a \o b \in Seq(S) /\ Len(a \o b) = Len(a) + Len(b)
      /\ \A i \in 1 .. Len(a) + Len(b) :
           (a \o b)[i] = IF i <= Len(a) THEN a[i] ELSE b[i - Len(a)]
  BY <1>2, <1>3, ConcatProperties
<1>6. Len(a) + Len(b) = Len(s) - 1 /\ DOMAIN (a \o b) = 1 .. Len(s) - 1
  <2>1. Len(a) + Len(b) = Len(s) - 1
    BY <1>1, <1>2, <1>3
  <2>2. DOMAIN (a \o b) = 1 .. Len(a \o b)
    BY <1>5, LenProperties
  <2> QED BY <1>5, <2>1, <2>2
<1>7. ASSUME NEW i \in 1 .. Len(s) - 1
      PROVE  (a \o b)[i] = IF i < k THEN s[i] ELSE s[i + 1]
  <2>1. CASE i < k
    <3>1. i \in 1 .. Len(a) + Len(b)
      BY <1>6
    <3>2. i <= k - 1 /\ i \in 1 .. k - 1
      BY <1>1, <2>1
    <3> QED BY <1>2, <1>5, <2>1, <3>1, <3>2
  <2>2. CASE ~(i < k)
    <3>1. i \in 1 .. Len(a) + Len(b)
      BY <1>6
    <3>2. /\ ~(i <= k - 1) /\ i - (k - 1) \in 1 .. Len(s) - k /\ k + (i - (k - 1)) = i + 1
      BY <1>1, <2>2
    <3>3. (a \o b)[i] = b[i - (k - 1)]
      BY <1>2, <1>5, <3>1, <3>2
    <3>4. b[i - (k - 1)] = s[i + 1]
      BY <1>3, <3>2
    <3> QED BY <2>2, <3>3, <3>4
  <2> QED BY <2>1, <2>2
<1> QED BY <1>4, <1>5, <1>6, <1>7

(* The first held order under an id is held. *)
LEMMA FirstHeld ==
  ASSUME NEW id, holding \in Seq(Submission), HeldAt(id) # {}
  PROVE  Min(HeldAt(id)) \in DOMAIN holding
<1>1. DOMAIN holding = 1 .. Len(holding) /\ Len(holding) \in Nat
  BY LenProperties
<1>2. HeldAt(id) \in SUBSET Int /\ IsFiniteSet(HeldAt(id)) /\ HeldAt(id) \subseteq DOMAIN holding
  <2>1. HeldAt(id) \subseteq 1 .. Len(holding)
    BY <1>1 DEF HeldAt
  <2>2. IsFiniteSet(1 .. Len(holding))
    BY <1>1, FS_Interval
  <2> QED BY <1>1, <2>1, <2>2, FS_Subset
<1>3. \E x \in HeldAt(id) : \A y \in HeldAt(id) : x <= y
  BY <1>2, FiniteExtremes
<1>4. Min(HeldAt(id)) \in HeldAt(id)
  BY <1>3, Zenon DEF Min
<1> QED BY <1>2, <1>4

(* Submissions are numbered. *)
LEMMA Numbered ==
  ASSUME NEW queue \in Seq(Submission)
  PROVE  /\ Len(queue) \in Nat /\ DOMAIN queue = 1 .. Len(queue)
         /\ \A i \in DOMAIN queue : queue[i] \in Submission /\ queue[i].n \in Nat
<1>1. Len(queue) \in Nat /\ DOMAIN queue = 1 .. Len(queue)
  BY LenProperties
<1>2. ASSUME NEW i \in DOMAIN queue PROVE queue[i] \in Submission
  BY <1>1, ElementOfSeq
<1>3. \A e \in Submission : e.n \in Nat
  BY DEF Submission
<1> QED BY <1>1, <1>2, <1>3

(* A submission is refused, held back, sent with what was held, or sent. *)
LEMMA FateIs ==
  ASSUME NEW n
  PROVE  /\ Fate(n) \in {"refused", "held", "released", "sent"}
         /\ Fate(n) = "sent" => ~Down
         /\ Fate(n) \in {"held", "released"} => Down
<1>1. EveryNth(plan.reject_every, n) \in BOOLEAN /\ Holds \in BOOLEAN /\ Down \in BOOLEAN
  BY DEF EveryNth, Holds, Down
<1>2. Holds => Down
  BY DEF Holds
<1> HIDE DEF EveryNth, Holds, Down
<1> QED BY <1>1, <1>2 DEF Fate

(* send_order keeps the queues in order. *)
LEMMA SendQueues ==
  ASSUME BrokerQueues, NEW o \in ClientOrders, NEW ts \in Nat, BrokerSend(o, ts)
  PROVE  BrokerQueues'
<1> DEFINE n == submitted + 1
           entry == [order |-> o, ts |-> ts, n |-> n]
           fate == Fate(n)
<1>1. /\ holding \in Seq(Submission) /\ sending = <<>> /\ given \in Seq(Nat)
      /\ submitted \in Nat /\ n \in Nat
      /\ DOMAIN holding = 1 .. Len(holding) /\ Len(holding) \in Nat
  BY LenProperties DEF BrokerQueues, BrokerSend, Idle
<1>2. entry \in Submission /\ entry.n = n
  BY <1>1 DEF Submission
<1>3. /\ submitted' = n /\ given' = given
      /\ outage' = IF fate = "held" THEN "active" ELSE IF fate = "released" THEN "over" ELSE outage
      /\ holding' = IF fate = "held" THEN Append(holding, entry)
                    ELSE IF fate = "released" THEN <<>> ELSE holding
      /\ sending' = IF fate = "sent" THEN <<entry>>
                    ELSE IF fate = "released" THEN Released(entry) ELSE <<>>
  BY Zenon DEF BrokerSend
<1>4. /\ fate \in {"refused", "held", "released", "sent"}
      /\ fate = "sent" => outage # "active"
  BY FateIs DEF Down
<1> HIDE DEF fate, entry
<1> DEFINE queue == Append(holding, entry)
<1>5. /\ queue \in Seq(Submission) /\ DOMAIN queue = 1 .. Len(holding) + 1
      /\ queue[Len(holding) + 1] = entry
      /\ \A i \in 1 .. Len(holding) : queue[i] = holding[i]
  BY <1>1, <1>2, AppendProperties, LenProperties
<1>6. Released(entry) = queue
  BY <1>1, <1>2, AppendIsConcat DEF Released
<1> HIDE DEF queue
<1>7. /\ DOMAIN given = 1 .. Len(given) /\ Len(given) \in Nat
      /\ \A k \in DOMAIN given : given[k] \in Nat /\ given[k] < n
  BY <1>1, LenProperties, ElementOfSeq DEF BrokerQueues
<1>8. \A i \in DOMAIN holding : holding[i].n \in Nat /\ holding[i].n < n
  <2>1. \A i \in DOMAIN holding : holding[i].n \in Nat
    BY <1>1, Numbered
  <2>2. \A i \in DOMAIN holding : holding[i].n <= submitted
    BY DEF BrokerQueues, Waiting
  <2> QED BY <1>1, <2>1, <2>2
<1>9. /\ \A i, j \in DOMAIN queue : i < j => queue[i].n < queue[j].n
      /\ \A i \in DOMAIN queue : queue[i].n <= n
      /\ \A i \in DOMAIN queue, k \in DOMAIN given : given[k] < queue[i].n
  <2>1. /\ \A i, j \in DOMAIN holding : i < j => holding[i].n < holding[j].n
        /\ \A i \in DOMAIN holding, k \in DOMAIN given : given[k] < holding[i].n
    BY Zenon DEF BrokerQueues, Waiting
  <2>2. \A i \in DOMAIN queue : \/ i \in DOMAIN holding /\ queue[i].n = holding[i].n
                                \/ i = Len(holding) + 1 /\ queue[i].n = n
    BY <1>1, <1>2, <1>5
  <2>3. \A i \in DOMAIN queue : i \in 1 .. Len(holding) + 1
    BY <1>5
  <2> HIDE DEF n
  <2>4. ASSUME NEW i \in DOMAIN queue, NEW j \in DOMAIN queue, i < j
        PROVE  queue[i].n < queue[j].n
    <3>1. i \in DOMAIN holding /\ queue[i].n = holding[i].n
      BY <1>1, <2>2, <2>3, <2>4
    <3>2. CASE j \in DOMAIN holding /\ queue[j].n = holding[j].n
      BY <2>1, <2>4, <3>1, <3>2
    <3>3. CASE queue[j].n = n
      BY <1>8, <3>1, <3>3
    <3> QED BY <2>2, <3>2, <3>3
  <2>5. \A i \in DOMAIN queue : queue[i].n <= n
    BY <1>1, <1>8, <2>2
  <2>6. \A i \in DOMAIN queue, k \in DOMAIN given : given[k] < queue[i].n
    BY <1>7, <2>1, <2>2
  <2> QED BY <2>4, <2>5, <2>6
<1>10. /\ \A i, j \in DOMAIN holding : i < j => holding[i].n < holding[j].n
       /\ \A i \in DOMAIN holding : holding[i].n <= n
       /\ \A i \in DOMAIN holding, k \in DOMAIN given : given[k] < holding[i].n
  BY <1>1, <1>8 DEF BrokerQueues, Waiting
<1>11. /\ \A i, j \in DOMAIN given : i < j => given[i] < given[j]
       /\ \A i \in DOMAIN given : given[i] <= n
  BY <1>1, <1>7 DEF BrokerQueues
<1>12. /\ <<>> \in Seq(Submission) /\ DOMAIN <<>> = {} /\ <<entry>> \in Seq(Submission)
       /\ DOMAIN <<entry>> = {1} /\ <<entry>>[1] = entry
  BY <1>2, EmptySeq
<1>13. CASE fate = "refused"
  <2>1. holding' = holding /\ sending' = <<>> /\ outage' = outage
    BY <1>3, <1>13
  <2> QED BY <1>1, <1>3, <1>10, <1>11, <1>12, <2>1 DEF BrokerQueues, Waiting
<1>14. CASE fate = "held"
  <2>1. holding' = queue /\ sending' = <<>> /\ outage' = "active"
    BY <1>3, <1>14 DEF queue
  <2> QED BY <1>1, <1>3, <1>5, <1>9, <1>11, <1>12, <2>1 DEF BrokerQueues, Waiting
<1>15. CASE fate = "released"
  <2>1. holding' = <<>> /\ sending' = queue /\ outage' = "over"
    BY <1>3, <1>6, <1>15
  <2> QED BY <1>1, <1>3, <1>5, <1>9, <1>11, <1>12, <2>1 DEF BrokerQueues, Waiting
<1>16. CASE fate = "sent"
  <2>1. holding' = holding /\ sending' = <<entry>> /\ outage' = outage /\ outage # "active"
    BY <1>3, <1>4, <1>16
  <2>2. holding = <<>>
    BY <2>1 DEF BrokerQueues
  <2>3. Waiting(sending)'
    <3>1. \A i \in DOMAIN sending' : i = 1 /\ sending'[i].n = n
      BY <1>2, <1>12, <2>1
    <3> HIDE DEF n
    <3> QED BY <1>1, <1>3, <1>7, <3>1 DEF Waiting
  <2> QED BY <1>1, <1>3, <1>10, <1>11, <1>12, <2>1, <2>2, <2>3 DEF BrokerQueues, Waiting
<1> QED BY <1>4, <1>13, <1>14, <1>15, <1>16

(* The next order of a call goes to the venue: it is later than all before. *)
LEMMA TakeQueues ==
  ASSUME BrokerQueues, VenueTakes
  PROVE  BrokerQueues'
<1> DEFINE x == Head(sending).n
<1>1. /\ sending \in Seq(Submission) /\ sending # <<>> /\ given \in Seq(Nat)
      /\ sending' = Tail(sending) /\ given' = Append(given, x)
      /\ UNCHANGED <<holding, outage, submitted>>
  BY DEF BrokerQueues, VenueTakes
<1>2. outage # "active" /\ holding = <<>>
  BY <1>1 DEF BrokerQueues
<1>3. /\ Len(sending) \in Nat /\ Len(sending) # 0 /\ DOMAIN sending = 1 .. Len(sending)
      /\ Head(sending) = sending[1]
      /\ Tail(sending) \in Seq(Submission) /\ DOMAIN Tail(sending) = 1 .. Len(sending) - 1
      /\ \A i \in 1 .. Len(sending) - 1 : Tail(sending)[i] = sending[i + 1]
  BY <1>1, HeadTailProperties, LenProperties, EmptySeq
<1>4. \A i \in DOMAIN sending : sending[i].n \in Nat
  BY <1>1, Numbered
<1>5. x \in Nat /\ x = sending[1].n /\ 1 \in DOMAIN sending
  BY <1>3, <1>4
<1> HIDE DEF x
<1>6. /\ given' \in Seq(Nat) /\ Len(given) \in Nat /\ DOMAIN given = 1 .. Len(given)
      /\ DOMAIN given' = 1 .. Len(given) + 1 /\ given'[Len(given) + 1] = x
      /\ \A k \in 1 .. Len(given) : given'[k] = given[k]
  BY <1>1, <1>5, AppendProperties, LenProperties
<1>7. \A k \in DOMAIN given : given[k] \in Nat /\ given[k] < x
  BY <1>1, <1>5, <1>6, ElementOfSeq DEF BrokerQueues, Waiting
<1>8. Waiting(sending)'
  <2>1. /\ \A i, j \in DOMAIN sending : i < j => sending[i].n < sending[j].n
        /\ \A i \in DOMAIN sending : sending[i].n <= submitted
        /\ \A i \in DOMAIN sending, k \in DOMAIN given : given[k] < sending[i].n
    BY Zenon DEF BrokerQueues, Waiting
  <2>2. \A i \in DOMAIN sending' : /\ i \in Nat /\ i + 1 \in DOMAIN sending /\ 1 < i + 1
                                   /\ sending'[i].n = sending[i + 1].n
    BY <1>1, <1>3
  <2>3. \A i, j \in DOMAIN sending' : i < j => sending'[i].n < sending'[j].n
    <3> SUFFICES ASSUME NEW i \in DOMAIN sending', NEW j \in DOMAIN sending', i < j
                 PROVE  sending'[i].n < sending'[j].n
      OBVIOUS
    <3>1. i + 1 < j + 1
      BY <2>2
    <3> QED BY <2>1, <2>2, <3>1
  <2>4. \A i \in DOMAIN sending' : x < sending'[i].n
    BY <1>5, <2>1, <2>2
  <2>5. \A i \in DOMAIN sending', k \in DOMAIN given' : given'[k] < sending'[i].n
    <3> SUFFICES ASSUME NEW i \in DOMAIN sending', NEW k \in DOMAIN given'
                 PROVE  given'[k] < sending'[i].n
      OBVIOUS
    <3>1. CASE k \in DOMAIN given
      BY <1>6, <2>1, <2>2, <3>1
    <3>2. CASE k = Len(given) + 1
      BY <1>6, <2>4, <3>2
    <3> QED BY <1>6, <3>1, <3>2
  <2>6. \A i \in DOMAIN sending' : sending'[i].n <= submitted
    BY <2>1, <2>2
  <2> QED BY <1>1, <2>3, <2>5, <2>6, Zenon DEF Waiting
<1>9. Waiting(holding)'
  BY <1>1, <1>2 DEF Waiting
<1>10. /\ \A i, j \in DOMAIN given' : i < j => given'[i] < given'[j]
       /\ \A i \in DOMAIN given' : given'[i] <= submitted
  <2>1. x <= submitted /\ submitted \in Nat
    BY <1>5 DEF BrokerQueues, Waiting
  <2>2. /\ \A i, j \in DOMAIN given : i < j => given[i] < given[j]
        /\ \A i \in DOMAIN given : given[i] <= submitted
    BY Zenon DEF BrokerQueues
  <2>3. ASSUME NEW i \in DOMAIN given', NEW j \in DOMAIN given', i < j
        PROVE  given'[i] < given'[j]
    <3>1. i \in DOMAIN given /\ given'[i] = given[i]
      BY <1>6, <2>3
    <3>2. CASE j \in DOMAIN given
      BY <1>6, <2>2, <2>3, <3>1, <3>2
    <3>3. CASE j = Len(given) + 1
      BY <1>6, <1>7, <3>1, <3>3
    <3> QED BY <1>6, <3>2, <3>3
  <2>4. \A i \in DOMAIN given' : given'[i] <= submitted
    BY <1>6, <2>1, <2>2
  <2> QED BY <2>3, <2>4
<1> QED BY <1>1, <1>2, <1>3, <1>6, <1>8, <1>9, <1>10 DEF BrokerQueues

(* A held order that is cancelled leaves the rest in order. *)
LEMMA CancelQueues ==
  ASSUME BrokerQueues, NEW id, CancelHeldOrder(id)
  PROVE  BrokerQueues'
<1> DEFINE k == Min(HeldAt(id))
<1>1. /\ holding \in Seq(Submission) /\ holding' = RemoveAt(holding, k)
      /\ UNCHANGED <<sending, outage, submitted, given>> /\ HeldAt(id) # {}
  BY DEF BrokerQueues, CancelHeldOrder
<1>2. k \in DOMAIN holding
  BY <1>1, FirstHeld
<1> HIDE DEF k
<1>3. /\ RemoveAt(holding, k) \in Seq(Submission)
      /\ DOMAIN RemoveAt(holding, k) = 1 .. Len(holding) - 1
      /\ \A i \in 1 .. Len(holding) - 1 :
           RemoveAt(holding, k)[i] = IF i < k THEN holding[i] ELSE holding[i + 1]
  BY <1>1, <1>2, RemoveAtIs
<1>4. Len(holding) \in Nat /\ DOMAIN holding = 1 .. Len(holding)
  BY <1>1, LenProperties
<1>5. outage = "active"
  BY <1>1, <1>2, <1>4, EmptySeq DEF BrokerQueues
<1>6. \A i \in 1 .. Len(holding) - 1 : i \in DOMAIN holding /\ i + 1 \in DOMAIN holding
  BY <1>4
<1>7. Waiting(holding)'
  <2>1. /\ \A i, j \in DOMAIN holding : i < j => holding[i].n < holding[j].n
        /\ \A i \in DOMAIN holding : holding[i].n <= submitted
        /\ \A i \in DOMAIN holding, m \in DOMAIN given : given[m] < holding[i].n
    BY Zenon DEF BrokerQueues, Waiting
  <2> DEFINE from(i) == IF i < k THEN i ELSE i + 1
  <2>2. \A i \in DOMAIN holding' : /\ i \in Nat /\ from(i) \in DOMAIN holding
                                   /\ holding'[i].n = holding[from(i)].n
    BY <1>1, <1>3, <1>6
  <2>3. \A i, j \in DOMAIN holding' : i < j => from(i) < from(j)
    BY <1>2, <1>4, <2>2
  <2> HIDE DEF from
  <2>4. /\ \A i, j \in DOMAIN holding' : i < j => holding'[i].n < holding'[j].n
        /\ \A i \in DOMAIN holding' : holding'[i].n <= submitted
        /\ \A i \in DOMAIN holding', m \in DOMAIN given : given[m] < holding'[i].n
    BY <2>1, <2>2, <2>3
  <2> QED BY <1>1, <2>4, Zenon DEF Waiting
<1> QED BY <1>1, <1>3, <1>5, <1>7 DEF BrokerQueues, Waiting

(* Nothing else moves them. *)
LEMMA QuietQueues ==
  ASSUME BrokerQueues, UNCHANGED <<holding, sending, given, submitted, outage>>
  PROVE  BrokerQueues'
BY DEF BrokerQueues, Waiting

-----------------------------------------------------------------------------
(* The two accounts. *)

ToldReports == [kind : Kinds, id : AllIds, side : Sides, quantity : Nat, fee : Int]
Statement == [net : Int, filled : Int, fills : Int, fees : Int, forwarded : Int]

(* The broker's side as PassReports folds it. *)
Desk(b) ==
  /\ DOMAIN b = {"seen", "dropped", "statement", "told"}
  /\ b.seen \in Nat /\ b.dropped \in Nat /\ b.statement \in Statement
  /\ b.told \in Seq(ToldReports)

(* A fill of one of the client's orders. *)
IsFill(r) == r.kind = "Trade" /\ r.id \in Ids

(* The table as Answered folds it. *)
Table(g) ==
  /\ DOMAIN g = {"held", "track", "acks", "filled", "books"}
  /\ g.held \in SUBSET Ids /\ g.track \in [Ids -> Tracked] /\ g.books \in Account

(* What a fill does to a position. *)
Moved(r) == IF r.side = "Buy" THEN r.quantity ELSE -r.quantity

(* One fill moves every sum of an account. *)
LEMMA BookedIs ==
  /\ \A a \in Account, r \in ToldReports :
       /\ Booked(a, r) \in Account
       /\ Booked(a, r).net = a.net + Moved(r) /\ Booked(a, r).filled = a.filled + r.quantity
       /\ Booked(a, r).fills = a.fills + 1 /\ Booked(a, r).fees = a.fees + r.fee
  /\ \A a \in Statement, r \in ToldReports :
       /\ Booked(a, r) \in Statement
       /\ Booked(a, r).net = a.net + Moved(r) /\ Booked(a, r).filled = a.filled + r.quantity
       /\ Booked(a, r).fees = a.fees + r.fee /\ Booked(a, r).forwarded = a.forwarded
<1>1. \A r \in ToldReports : r.quantity \in Nat /\ -r.quantity \in Int /\ r.fee \in Int
  BY DEF ToldReports
<1>2. ASSUME NEW a \in Account, NEW r \in ToldReports
      PROVE  /\ Booked(a, r) \in Account
             /\ Booked(a, r).net = a.net + Moved(r)
             /\ Booked(a, r).filled = a.filled + r.quantity
             /\ Booked(a, r).fills = a.fills + 1 /\ Booked(a, r).fees = a.fees + r.fee
  <2>1. /\ a.net \in Int /\ a.filled \in Int /\ a.fills \in Int /\ a.fees \in Int
        /\ Moved(r) \in Int
    BY <1>1 DEF Account, Moved
  <2> DEFINE c == [a EXCEPT !.net = @ + Moved(r), !.filled = @ + r.quantity,
                            !.fills = @ + 1, !.fees = @ + r.fee]
  <2>2. Booked(a, r) = c
    BY Zenon DEF Booked, Moved
  <2>3. c \in Account
    <3>1. /\ a.net + Moved(r) \in Int /\ a.filled + r.quantity \in Int
          /\ a.fills + 1 \in Int /\ a.fees + r.fee \in Int
      BY <1>1, <2>1
    <3>2. \A x, y, z, w \in Int :
            [a EXCEPT !.net = x, !.filled = y, !.fills = z, !.fees = w] \in Account
      BY DEF Account
    <3> QED BY <3>1, <3>2
  <2>4. c.net = a.net + Moved(r) /\ c.filled = a.filled + r.quantity
    BY DEF Account
  <2>5. c.fills = a.fills + 1 /\ c.fees = a.fees + r.fee
    BY DEF Account
  <2> QED BY <2>2, <2>3, <2>4, <2>5
<1>3. ASSUME NEW a \in Statement, NEW r \in ToldReports
      PROVE  /\ Booked(a, r) \in Statement
             /\ Booked(a, r).net = a.net + Moved(r)
             /\ Booked(a, r).filled = a.filled + r.quantity
             /\ Booked(a, r).fees = a.fees + r.fee /\ Booked(a, r).forwarded = a.forwarded
  <2>1. /\ a.net \in Int /\ a.filled \in Int /\ a.fills \in Int /\ a.fees \in Int
        /\ Moved(r) \in Int
    BY <1>1 DEF Statement, Moved
  <2> DEFINE c == [a EXCEPT !.net = @ + Moved(r), !.filled = @ + r.quantity,
                            !.fills = @ + 1, !.fees = @ + r.fee]
  <2>2. Booked(a, r) = c
    BY Zenon DEF Booked, Moved
  <2>3. c \in Statement
    <3>1. /\ a.net + Moved(r) \in Int /\ a.filled + r.quantity \in Int
          /\ a.fills + 1 \in Int /\ a.fees + r.fee \in Int
      BY <1>1, <2>1
    <3>2. \A x, y, z, w \in Int :
            [a EXCEPT !.net = x, !.filled = y, !.fills = z, !.fees = w] \in Statement
      BY DEF Statement
    <3> QED BY <3>1, <3>2
  <2>4. c.net = a.net + Moved(r) /\ c.filled = a.filled + r.quantity
    BY DEF Statement
  <2>5. c.fills = a.fills + 1 /\ c.fees = a.fees + r.fee
    BY DEF Statement
  <2>6. c.forwarded = a.forwarded
    BY DEF Statement
  <2> QED BY <2>2, <2>3, <2>4, <2>5, <2>6
<1> QED BY <1>2, <1>3

(* What is left of a tracked order is a quantity. *)
LEMMA RemainingTypes ==
  ASSUME NEW t \in Tracked, NEW r \in ToldReports
  PROVE  RemainingAfter(t, r) \in Nat
<1>1. t.remaining \in Nat /\ r.quantity \in Nat
  BY DEF Tracked, ToldReports
<1> QED BY <1>1 DEF RemainingAfter, Greatest

(* The gateway's on_venue_report: the books move by a fill and by nothing else,
   and no order enters the table. *)
LEMMA ClientStep ==
  ASSUME NEW g, Table(g), NEW r \in ToldReports
  PROVE  /\ Table(OnReport(g, r))
         /\ OnReport(g, r).books = IF IsFill(r) THEN Booked(g.books, r) ELSE g.books
         /\ OnReport(g, r).held \subseteq g.held
         /\ \A i \in Ids : OnReport(g, r).track[i].order = g.track[i].order
<1> DEFINE t == g.track[r.id]
           left == RemainingAfter(t, r)
           booked == IF r.kind = "Trade"
                     THEN [g EXCEPT !.filled[r.id] = @ + r.quantity, !.books = Booked(@, r)]
                     ELSE g
           h == [booked EXCEPT
                   !.track[r.id].answered = @ \/ Answers(r),
                   !.track[r.id].remaining = left,
                   !.held = IF left = 0 THEN @ \ {r.id} ELSE @,
                   !.acks = IF ~t.answered /\ Answers(r) THEN @ + 1 ELSE @]
<1>1. OnReport(g, r) = IF r.id \notin Ids THEN g ELSE IF r.id \notin g.held THEN booked ELSE h
  BY Zenon DEF OnReport
<1>2. CASE r.id \notin Ids
  BY <1>1, <1>2 DEF IsFill
<1>3. ASSUME r.id \in Ids
      PROVE  /\ Table(booked) /\ booked.held = g.held /\ booked.track = g.track
             /\ booked.books = IF IsFill(r) THEN Booked(g.books, r) ELSE g.books
  <2>1. Booked(g.books, r) \in Account
    BY BookedIs DEF Table
  <2> QED BY <1>3, <2>1 DEF Table, IsFill
<1>4. ASSUME r.id \in Ids, r.id \in g.held
      PROVE  /\ Table(h) /\ h.books = booked.books /\ h.held \subseteq g.held
             /\ \A i \in Ids : h.track[i].order = g.track[i].order
  <2>1. t \in Tracked /\ left \in Nat
    BY <1>4, RemainingTypes DEF Table
  <2> HIDE DEF booked, left
  <2>2. /\ h.track = [g.track EXCEPT ![r.id] = [t EXCEPT !.answered = @ \/ Answers(r),
                                                         !.remaining = left]]
        /\ h.held = IF left = 0 THEN g.held \ {r.id} ELSE g.held
        /\ h.books = booked.books
        /\ DOMAIN h = {"held", "track", "acks", "filled", "books"}
    <3>1. /\ DOMAIN booked = {"held", "track", "acks", "filled", "books"}
          /\ booked.held = g.held /\ booked.track = g.track
          /\ g.track \in [Ids -> Tracked] /\ r.id \in Ids
      BY <1>3, <1>4 DEF Table
    <3>2. h.books = booked.books /\ h.held = IF left = 0 THEN g.held \ {r.id} ELSE g.held
      BY <3>1
    <3>3. h.track = [g.track EXCEPT ![r.id] = [t EXCEPT !.answered = @ \/ Answers(r),
                                                        !.remaining = left]]
      BY <3>1
    <3>4. DOMAIN h = {"held", "track", "acks", "filled", "books"}
      BY <3>1
    <3> QED BY <3>2, <3>3, <3>4
  <2>3. [t EXCEPT !.answered = @ \/ Answers(r), !.remaining = left] \in Tracked
    BY <2>1 DEF Tracked, Answers
  <2>4. [t EXCEPT !.answered = @ \/ Answers(r), !.remaining = left].order = t.order
    BY <2>1 DEF Tracked
  <2> HIDE DEF h
  <2> QED BY <1>3, <1>4, <2>2, <2>3, <2>4 DEF Table
<1> HIDE DEF booked, h
<1>5. CASE r.id \in Ids /\ r.id \notin g.held
  BY <1>1, <1>3, <1>5
<1>6. CASE r.id \in Ids /\ r.id \in g.held
  BY <1>1, <1>3, <1>4, <1>6
<1> QED BY <1>2, <1>5, <1>6

(* A report with its fee. *)
LEMMA FeeTypes ==
  ASSUME NEW report \in ReportRec, NEW fee \in Int
  PROVE  /\ WithFee(report, fee) \in ToldReports
         /\ WithFee(report, fee).kind = report.kind /\ WithFee(report, fee).id = report.id
         /\ WithFee(report, fee).quantity = report.quantity
BY DEF WithFee, ReportRec, ToldReports

(* The two prints of a split fill add up to it. *)
LEMMA SplitIs ==
  ASSUME NEW r \in ToldReports, r.quantity > 1
  PROVE  \E x, y \in ToldReports :
           /\ Split(r) = <<x, y>>
           /\ x.kind = r.kind /\ x.id = r.id /\ y.kind = r.kind /\ y.id = r.id
           /\ Moved(x) + Moved(y) = Moved(r) /\ x.quantity + y.quantity = r.quantity
           /\ x.fee + y.fee = r.fee
<1> DEFINE half == r.quantity \div 2
           fee == (r.fee * half) \div r.quantity
           x == [r EXCEPT !.quantity = half, !.fee = fee]
           y == [r EXCEPT !.quantity = r.quantity - half, !.fee = r.fee - fee]
<1>1. r.quantity \in Nat /\ r.fee \in Int /\ r.side \in Sides
  BY DEF ToldReports
<1>2. half \in Nat /\ r.quantity - half \in Nat
  BY <1>1
<1>3. fee \in Int /\ r.fee - fee \in Int
  <2> HIDE DEF half
  <2>1. r.fee * half \in Int /\ r.quantity \in Nat /\ r.quantity > 0
    BY <1>1, <1>2
  <2>2. \A m \in Int, n \in Nat : n > 0 => m \div n \in Int
    OBVIOUS
  <2>3. fee \in Int
    BY <2>1, <2>2
  <2> HIDE DEF fee
  <2> QED BY <1>1, <2>3
<1>4. Split(r) = <<x, y>>
  BY Zenon DEF Split
<1> HIDE DEF half, fee
<1>5. x \in ToldReports /\ y \in ToldReports
  BY <1>2, <1>3 DEF ToldReports
<1>6. /\ x.kind = r.kind /\ x.id = r.id /\ x.side = r.side /\ x.quantity = half /\ x.fee = fee
      /\ y.kind = r.kind /\ y.id = r.id /\ y.side = r.side
      /\ y.quantity = r.quantity - half /\ y.fee = r.fee - fee
  BY DEF ToldReports
<1> HIDE DEF x, y
<1>7. /\ Moved(x) + Moved(y) = Moved(r) /\ x.quantity + y.quantity = r.quantity
      /\ x.fee + y.fee = r.fee
  BY <1>1, <1>2, <1>3, <1>6 DEF Moved
<1> QED BY <1>4, <1>5, <1>6, <1>7

(* The statement after a fill of which n reports are passed on. *)
LEMMA ExecutedIs ==
  ASSUME NEW account \in Statement, NEW r \in ToldReports, NEW n \in Nat
  PROVE  /\ Executed(account, r, n) \in Statement
         /\ Executed(account, r, n).net = account.net + Moved(r)
         /\ Executed(account, r, n).filled = account.filled + r.quantity
         /\ Executed(account, r, n).fees = account.fees + r.fee
         /\ Executed(account, r, n).forwarded = account.forwarded + n
<1> DEFINE c == Booked(account, r)
<1>1. /\ c \in Statement
      /\ c.net = account.net + Moved(r) /\ c.filled = account.filled + r.quantity
      /\ c.fees = account.fees + r.fee /\ c.forwarded = account.forwarded
  BY BookedIs
<1> HIDE DEF c
<1>2. c.forwarded + n \in Int
  BY <1>1 DEF Statement
<1>3. \A m \in Int : /\ [c EXCEPT !.forwarded = m] \in Statement
                     /\ [c EXCEPT !.forwarded = m].net = c.net
                     /\ [c EXCEPT !.forwarded = m].filled = c.filled
                     /\ [c EXCEPT !.forwarded = m].fees = c.fees
                     /\ [c EXCEPT !.forwarded = m].forwarded = m
  BY <1>1 DEF Statement
<1>4. Executed(account, r, n) = [c EXCEPT !.forwarded = c.forwarded + n]
  BY DEF Executed, c
<1> QED BY <1>1, <1>2, <1>3, <1>4

(* What the broker makes of one report: passed on; or a fill, written in the
   statement and withheld, passed on whole or in two. *)
Outcome(b, c, r, prints) ==
  /\ c.statement = Executed(b.statement, r, Len(prints))
  /\ c.dropped = IF prints = <<>> THEN b.dropped + 1 ELSE b.dropped
  /\ c.told = b.told \o prints

(* on_venue_report in PaperBroker does one of the Outcomes to a fill, forwards the rest. *)
LEMMA BrokerStep ==
  ASSUME NEW b, Desk(b), NEW report \in VenueReports
  PROVE  LET r == WithFee(report, report.quantity * FeeRate)
             c == OnVenueReport(b, report)
         IN  /\ r \in ToldReports
             /\ \/ /\ ~IsFill(r) /\ c.told = Append(b.told, r) /\ c.seen = b.seen
                   /\ c.statement = b.statement /\ c.dropped = b.dropped
                \/ /\ IsFill(r) /\ r.quantity > 0 /\ c.seen = b.seen + 1
                   /\ \/ Outcome(b, c, r, <<>>)
                      \/ Outcome(b, c, r, <<r>>)
                      \/ r.quantity > 1 /\ Outcome(b, c, r, Split(r))
             /\ DOMAIN c = DOMAIN b
<1> DEFINE r == WithFee(report, report.quantity * FeeRate)
           n == b.seen + 1
           drop == EveryNth(plan.drop_every, n)
           split == EveryNth(plan.partial_every, n) /\ r.quantity > 1
           prints == CASE drop -> <<>>
                       [] split /\ ~drop -> Split(r)
                       [] OTHER -> <<r>>
           passed == [b EXCEPT !.told = Append(@, r)]
           fill == [b EXCEPT !.seen = n,
                             !.dropped = IF prints = <<>> THEN @ + 1 ELSE @,
                             !.statement = Executed(@, r, Len(prints)),
                             !.told = @ \o prints]
<1>1. /\ report \in ReportRec /\ report.quantity \in Nat /\ report.id \in AllIds
      /\ report.kind = "Trade" => report.quantity > 0
  BY DEF VenueReports, ReportRec
<1>2. report.quantity * FeeRate \in Int
  BY <1>1, BrokerAssumption
<1>3. /\ r \in ToldReports /\ r.kind = report.kind /\ r.id = report.id
      /\ r.quantity = report.quantity
  BY <1>1, <1>2, FeeTypes
<1>4. OnVenueReport(b, report) = IF r.kind # "Trade" \/ r.id = MarketId THEN passed ELSE fill
  BY Zenon DEF OnVenueReport
<1> HIDE DEF r
<1>5. DOMAIN b = {"seen", "dropped", "statement", "told"}
  BY DEF Desk
<1>6. IsFill(r) <=> ~(r.kind # "Trade" \/ r.id = MarketId)
  BY <1>1, <1>3, IdsAndTicks DEF IsFill, AllIds
<1>7. CASE ~IsFill(r)
  <2>1. /\ passed.told = Append(b.told, r) /\ passed.statement = b.statement
        /\ passed.dropped = b.dropped /\ passed.seen = b.seen /\ DOMAIN passed = DOMAIN b
    BY <1>5
  <2> HIDE DEF passed, fill
  <2> QED BY <1>3, <1>4, <1>6, <1>7, <2>1 DEF r
<1>8. CASE IsFill(r)
  <2>1. \/ prints = <<>> \/ prints = <<r>>
        \/ r.quantity > 1 /\ prints = Split(r)
    <3>1. drop \in BOOLEAN /\ split \in BOOLEAN /\ (split => r.quantity > 1)
      BY DEF EveryNth
    <3> HIDE DEF drop, split
    <3> QED BY <3>1
  <2> HIDE DEF prints
  <2>2. /\ fill.seen = b.seen + 1 /\ DOMAIN fill = DOMAIN b
        /\ fill.statement = Executed(b.statement, r, Len(prints))
        /\ fill.dropped = IF prints = <<>> THEN b.dropped + 1 ELSE b.dropped
        /\ fill.told = b.told \o prints
    <3>1. fill.seen = b.seen + 1 /\ DOMAIN fill = DOMAIN b
      BY <1>5
    <3>2. fill.statement = Executed(b.statement, r, Len(prints))
      BY <1>5
    <3>3. fill.dropped = IF prints = <<>> THEN b.dropped + 1 ELSE b.dropped
      BY <1>5
    <3>4. fill.told = b.told \o prints
      BY <1>5
    <3> QED BY <3>1, <3>2, <3>3, <3>4
  <2>3. Outcome(b, fill, r, prints)
    BY <2>2, Zenon DEF Outcome
  <2> HIDE DEF passed, fill
  <2>4. r.quantity > 0
    BY <1>1, <1>3, <1>8 DEF IsFill
  <2>5. OnVenueReport(b, report) = fill
    BY <1>4, <1>6, <1>8
  <2>6. \/ Outcome(b, fill, r, <<>>) \/ Outcome(b, fill, r, <<r>>)
        \/ r.quantity > 1 /\ Outcome(b, fill, r, Split(r))
    BY <2>1, <2>3
  <2> QED BY <1>3, <1>8, <2>2, <2>4, <2>5, <2>6 DEF r
<1> QED BY <1>7, <1>8

(* The table after the reports rs. *)
After(g, rs) == FoldLeft(OnReport, g, rs)

(* The table after one more report is OnReport of the table before it. *)
LEMMA AfterIs ==
  ASSUME NEW g
  PROVE  /\ After(g, <<>>) = g
         /\ \A rs \in Seq(ToldReports), r \in ToldReports :
              After(g, Append(rs, r)) = OnReport(After(g, rs), r)
<1>0. \A rs : After(g, rs) = ByClient!FoldLeft(OnReport, g, rs)
  BY Zenon DEF After, FoldLeft, MapThenFoldSet, Max,
     ByClient!FoldLeft, ByClient!MapThenFoldSet, ByClient!Max
<1>1. After(g, <<>>) = g
  BY <1>0, ByClient!FoldEmpty
<1>2. ASSUME NEW rs \in Seq(ToldReports), NEW r \in ToldReports
      PROVE  After(g, Append(rs, r)) = OnReport(After(g, rs), r)
  <2>1. ByClient!FoldLeft(OnReport, g, Append(rs, r))
          = OnReport(ByClient!FoldLeft(OnReport, g, rs), r)
    BY ByClient!FoldAppend
  <2> QED BY <1>0, <2>1
<1> QED BY <1>1, <1>2

(* The books and the statement, when the client has had every report forwarded
   so far; and no order has entered the table meanwhile. *)
Settled(b, g0, g) ==
  /\ Desk(b) /\ Table(g)
  /\ Reconciled(b.statement, b.dropped, g.books)
  /\ g.held \subseteq g0.held
  /\ \A i \in Ids : g.track[i].order = g0.track[i].order

(* Forwarding a report as a whole, in two, or not at all. *)
LEMMA ForwardOne ==
  ASSUME NEW g0, NEW rs \in Seq(ToldReports), NEW r \in ToldReports,
         Table(After(g0, rs)), IsFill(r)
  PROVE  LET g == After(g0, rs)
             h == After(g0, Append(rs, r))
         IN  /\ Table(h) /\ h.held \subseteq g.held
             /\ \A i \in Ids : h.track[i].order = g.track[i].order
             /\ h.books.net = g.books.net + Moved(r)
             /\ h.books.filled = g.books.filled + r.quantity
             /\ h.books.fills = g.books.fills + 1 /\ h.books.fees = g.books.fees + r.fee
<1> DEFINE g == After(g0, rs)
           h == OnReport(g, r)
<1>1. After(g0, Append(rs, r)) = h
  BY AfterIs
<1> HIDE DEF g
<1>2. Table(g)
  BY DEF g
<1>3. /\ Table(h) /\ h.books = Booked(g.books, r) /\ h.held \subseteq g.held
      /\ \A i \in Ids : h.track[i].order = g.track[i].order
  BY <1>2, ClientStep
<1>4. g.books \in Account
  BY <1>2 DEF Table
<1> HIDE DEF h
<1>5. /\ h.books.net = g.books.net + Moved(r)
      /\ h.books.filled = g.books.filled + r.quantity
      /\ h.books.fills = g.books.fills + 1 /\ h.books.fees = g.books.fees + r.fee
  BY <1>3, <1>4, BookedIs
<1> QED BY <1>1, <1>3, <1>5 DEF g

(* One report of the engine through the broker and the gateway. *)
LEMMA ReportSettled ==
  ASSUME NEW b, NEW g0, Settled(b, g0, After(g0, b.told)), NEW report \in VenueReports
  PROVE  LET c == OnVenueReport(b, report) IN Settled(c, g0, After(g0, c.told))
<1> DEFINE c == OnVenueReport(b, report)
           r == WithFee(report, report.quantity * FeeRate)
           g == After(g0, b.told)
           h == After(g0, c.told)
<1>1. /\ Desk(b) /\ Table(g) /\ Reconciled(b.statement, b.dropped, g.books)
      /\ g.held \subseteq g0.held /\ \A i \in Ids : g.track[i].order = g0.track[i].order
  BY DEF Settled
<1>2. /\ r \in ToldReports
      /\ \/ /\ ~IsFill(r) /\ c.told = Append(b.told, r) /\ c.seen = b.seen
            /\ c.statement = b.statement /\ c.dropped = b.dropped
         \/ /\ IsFill(r) /\ r.quantity > 0 /\ c.seen = b.seen + 1
            /\ \/ Outcome(b, c, r, <<>>)
               \/ Outcome(b, c, r, <<r>>)
               \/ r.quantity > 1 /\ Outcome(b, c, r, Split(r))
      /\ DOMAIN c = DOMAIN b
  BY <1>1, BrokerStep
<1>3. /\ b.told \in Seq(ToldReports) /\ b.statement \in Statement /\ b.dropped \in Nat
      /\ b.seen \in Nat /\ DOMAIN b = {"seen", "dropped", "statement", "told"}
  BY <1>1 DEF Desk
<1>4. /\ g.books \in Account
      /\ g.books.net \in Int /\ g.books.filled \in Int /\ g.books.fills \in Int
      /\ g.books.fees \in Int
  BY <1>1 DEF Table, Account
<1>5. /\ b.statement.net \in Int /\ b.statement.filled \in Int
      /\ b.statement.fees \in Int /\ b.statement.forwarded \in Int
  BY <1>3 DEF Statement
<1>6. r.quantity \in Nat /\ r.fee \in Int /\ Moved(r) \in Int
  BY <1>2 DEF ToldReports, Moved
<1> HIDE DEF c, r
<1>7. CASE /\ ~IsFill(r) /\ c.told = Append(b.told, r) /\ c.seen = b.seen
           /\ c.statement = b.statement /\ c.dropped = b.dropped
  <2>1. c.told \in Seq(ToldReports) /\ h = OnReport(g, r)
    <3>1. r \in ToldReports /\ b.told \in Seq(ToldReports)
      BY <1>2, <1>3
    <3>2. After(g0, Append(b.told, r)) = OnReport(After(g0, b.told), r)
      BY <3>1, AfterIs
    <3>3. Append(b.told, r) \in Seq(ToldReports)
      BY <3>1, AppendProperties
    <3> QED BY <1>7, <3>2, <3>3
  <2> HIDE DEF g, h
  <2>2. /\ Table(h) /\ h.books = g.books /\ h.held \subseteq g.held
        /\ \A i \in Ids : h.track[i].order = g.track[i].order
    BY <1>1, <1>2, <1>7, <2>1, ClientStep
  <2>3. Desk(c)
    BY <1>2, <1>3, <1>7, <2>1 DEF Desk
  <2> QED BY <1>1, <1>7, <2>2, <2>3 DEF Settled, c, h
<1>8. ASSUME IsFill(r), r.quantity > 0, c.seen = b.seen + 1
      PROVE  Settled(c, g0, h)
  <2>1. CASE Outcome(b, c, r, <<>>)
    <3>1. /\ c.told = b.told /\ c.dropped = b.dropped + 1
          /\ c.statement = Executed(b.statement, r, 0)
      BY <1>3, <2>1, ConcatEmptySeq, EmptySeq DEF Outcome
    <3>2. /\ c.statement \in Statement
          /\ c.statement.filled = b.statement.filled + r.quantity
          /\ c.statement.forwarded = b.statement.forwarded
      <4>1. r \in ToldReports /\ b.statement \in Statement /\ 0 \in Nat
        BY <1>2, <1>3
      <4>2. b.statement.forwarded + 0 = b.statement.forwarded
        BY <1>5
      <4> QED BY <3>1, <4>1, <4>2, ExecutedIs
    <3>3. Desk(c)
      BY <1>2, <1>3, <1>8, <3>1, <3>2 DEF Desk
    <3>4. b.statement.filled >= g.books.filled /\ b.statement.forwarded = g.books.fills
      BY <1>1, <1>3, <1>4, <1>5 DEF Reconciled
    <3>5. Reconciled(c.statement, c.dropped, g.books)
      <4>1. PICK n \in Nat, x \in Int, f \in Int :
              /\ n = r.quantity /\ x = b.statement.filled /\ f = g.books.filled /\ n > 0
        BY <1>4, <1>5, <1>6, <1>8
      <4>2. c.statement.filled = x + n /\ x >= f BY <3>2, <3>4, <4>1
      <4>3. c.statement.filled >= f /\ c.statement.filled # f BY <4>1, <4>2
      <4>4. c.dropped = b.dropped + 1 /\ c.dropped # 0 BY <1>3, <3>1
      <4> QED BY <3>2, <3>4, <4>1, <4>3, <4>4 DEF Reconciled
    <3> QED BY <1>1, <3>1, <3>3, <3>5 DEF Settled
  <2>2. CASE Outcome(b, c, r, <<r>>)
    <3>1. /\ c.told = Append(b.told, r) /\ c.dropped = b.dropped
          /\ c.statement = Executed(b.statement, r, 1)
      BY <1>2, <1>3, <2>2, AppendIsConcat DEF Outcome
    <3>2. /\ c.statement \in Statement
          /\ c.statement.net = b.statement.net + Moved(r)
          /\ c.statement.filled = b.statement.filled + r.quantity
          /\ c.statement.fees = b.statement.fees + r.fee
          /\ c.statement.forwarded = b.statement.forwarded + 1
      <4>1. r \in ToldReports /\ b.statement \in Statement /\ 1 \in Nat
        BY <1>2, <1>3
      <4> QED BY <3>1, <4>1, ExecutedIs
    <3>3. c.told \in Seq(ToldReports)
      BY <1>2, <1>3, <3>1, AppendProperties
    <3>4. Desk(c)
      BY <1>2, <1>3, <1>8, <3>1, <3>2, <3>3 DEF Desk
    <3>5. /\ Table(h) /\ h.held \subseteq g.held
          /\ \A i \in Ids : h.track[i].order = g.track[i].order
          /\ h.books.net = g.books.net + Moved(r)
          /\ h.books.filled = g.books.filled + r.quantity
          /\ h.books.fills = g.books.fills + 1 /\ h.books.fees = g.books.fees + r.fee
      BY <1>1, <1>2, <1>3, <1>8, <3>1, ForwardOne
    <3> HIDE DEF g, h
    <3>6. Reconciled(c.statement, c.dropped, h.books)
      <4>1. Reconciled(b.statement, b.dropped, g.books)
        BY <1>1
      <4>2. /\ h.books.net = g.books.net + Moved(r)
            /\ h.books.filled = g.books.filled + r.quantity
            /\ h.books.fills = g.books.fills + 1 /\ h.books.fees = g.books.fees + r.fee
        BY <3>5
      <4>3. c.dropped = b.dropped
        BY <3>1
      <4>4. b.statement.forwarded = g.books.fills
        BY <4>1 DEF Reconciled
      <4>5. b.dropped = 0 => /\ b.statement.net = g.books.net
                               /\ b.statement.filled = g.books.filled
                               /\ b.statement.fees = g.books.fees
        BY <4>1 DEF Reconciled
      <4>6. b.dropped > 0 => b.statement.filled > g.books.filled
        BY <4>1 DEF Reconciled
      <4>7. c.statement.forwarded = h.books.fills
        BY ONLY <4>4, <3>2, <4>2
      <4>8. c.dropped = 0 => /\ c.statement.net = h.books.net
                               /\ c.statement.filled = h.books.filled
                               /\ c.statement.fees = h.books.fees
        BY ONLY <4>5, <3>2, <4>2, <4>3
      <4>9. c.dropped > 0 => c.statement.filled > h.books.filled
        BY ONLY <1>4, <1>5, <1>6, <4>6, <3>2, <4>2, <4>3
      <4> QED BY <4>7, <4>8, <4>9 DEF Reconciled
    <3> QED BY <1>1, <3>4, <3>5, <3>6 DEF Settled
  <2>3. CASE r.quantity > 1 /\ Outcome(b, c, r, Split(r))
    <3>1. PICK x \in ToldReports, y \in ToldReports :
            /\ Split(r) = <<x, y>>
            /\ x.kind = r.kind /\ x.id = r.id /\ y.kind = r.kind /\ y.id = r.id
            /\ Moved(x) + Moved(y) = Moved(r) /\ x.quantity + y.quantity = r.quantity
            /\ x.fee + y.fee = r.fee
      BY <1>2, <2>3, SplitIs
    <3> DEFINE one == Append(b.told, x)
    <3>2. one \in Seq(ToldReports) /\ one = b.told \o <<x>>
      BY <1>3, AppendProperties, AppendIsConcat
    <3>3. c.told = Append(one, y)
      <4>1. <<x>> \in Seq(ToldReports) /\ <<y>> \in Seq(ToldReports)
        OBVIOUS
      <4>2. c.told = b.told \o (<<x>> \o <<y>>)
        BY <2>3, <3>1, PairConcat DEF Outcome
      <4>3. b.told \o (<<x>> \o <<y>>) = (b.told \o <<x>>) \o <<y>>
        BY <1>3, <4>1, ConcatAssociative
      <4>4. Append(one, y) = one \o <<y>>
        BY <3>2, AppendIsConcat
      <4> QED BY <3>2, <4>2, <4>3, <4>4
    <3>4. c.dropped = b.dropped /\ c.statement = Executed(b.statement, r, 2)
      <4>1. <<x, y>> # <<>> /\ Len(<<x, y>>) = 2
        OBVIOUS
      <4> QED BY <2>3, <3>1, <4>1 DEF Outcome
    <3>5. /\ c.statement \in Statement
          /\ c.statement.net = b.statement.net + Moved(r)
          /\ c.statement.filled = b.statement.filled + r.quantity
          /\ c.statement.fees = b.statement.fees + r.fee
          /\ c.statement.forwarded = b.statement.forwarded + 2
      <4>1. r \in ToldReports /\ b.statement \in Statement /\ 2 \in Nat
        BY <1>2, <1>3
      <4> QED BY <3>4, <4>1, ExecutedIs
    <3>6. c.told \in Seq(ToldReports)
      BY <3>2, <3>3, AppendProperties
    <3>7. Desk(c)
      BY <1>2, <1>3, <1>8, <3>4, <3>5, <3>6 DEF Desk
    <3>8. IsFill(x) /\ IsFill(y)
      BY <1>8, <3>1 DEF IsFill
    <3> DEFINE m == After(g0, one)
    <3>9. /\ Table(m) /\ m.held \subseteq g.held
          /\ \A i \in Ids : m.track[i].order = g.track[i].order
          /\ m.books.net = g.books.net + Moved(x)
          /\ m.books.filled = g.books.filled + x.quantity
          /\ m.books.fills = g.books.fills + 1 /\ m.books.fees = g.books.fees + x.fee
      BY <1>1, <1>3, <3>8, ForwardOne
    <3> HIDE DEF one, g
    <3>10. /\ Table(h) /\ h.held \subseteq m.held
           /\ \A i \in Ids : h.track[i].order = m.track[i].order
           /\ h.books.net = m.books.net + Moved(y)
           /\ h.books.filled = m.books.filled + y.quantity
           /\ h.books.fills = m.books.fills + 1 /\ h.books.fees = m.books.fees + y.fee
      <4>1. one \in Seq(ToldReports) /\ y \in ToldReports /\ Table(After(g0, one)) /\ IsFill(y)
        BY <3>2, <3>8, <3>9
      <4>2. h = After(g0, Append(one, y))
        BY <3>3
      <4> HIDE DEF h
      <4> QED BY <4>1, <4>2, ForwardOne
    <3> HIDE DEF m, h
    <3>11. /\ x.quantity \in Nat /\ y.quantity \in Nat /\ x.fee \in Int /\ y.fee \in Int
           /\ Moved(x) \in Int /\ Moved(y) \in Int
      BY DEF ToldReports, Moved
    <3>12. /\ h.books.net = g.books.net + Moved(r)
           /\ h.books.filled = g.books.filled + r.quantity
           /\ h.books.fills = g.books.fills + 2 /\ h.books.fees = g.books.fees + r.fee
      BY <1>4, <1>6, <3>1, <3>9, <3>10, <3>11
    <3>13. Reconciled(c.statement, c.dropped, h.books)
      <4>1. Reconciled(b.statement, b.dropped, g.books)
        BY <1>1
      <4>2. b.statement.forwarded = g.books.fills
        BY <4>1 DEF Reconciled
      <4>3. b.dropped = 0 => /\ b.statement.net = g.books.net
                               /\ b.statement.filled = g.books.filled
                               /\ b.statement.fees = g.books.fees
        BY <4>1 DEF Reconciled
      <4>4. b.dropped > 0 => b.statement.filled > g.books.filled
        BY <4>1 DEF Reconciled
      <4>5. c.statement.forwarded = h.books.fills
        BY ONLY <4>2, <3>5, <3>12
      <4>6. c.dropped = 0 => /\ c.statement.net = h.books.net
                               /\ c.statement.filled = h.books.filled
                               /\ c.statement.fees = h.books.fees
        BY ONLY <4>3, <3>5, <3>12, <3>4
      <4>7. c.dropped > 0 => c.statement.filled > h.books.filled
        BY ONLY <1>4, <1>5, <1>6, <4>4, <3>5, <3>12, <3>4
      <4> QED BY <4>5, <4>6, <4>7 DEF Reconciled
    <3> QED BY <1>1, <3>7, <3>9, <3>10, <3>13 DEF Settled
  <2> QED BY <1>2, <1>8, <2>1, <2>2, <2>3
<1> QED BY <1>2, <1>7, <1>8 DEF c, h

(* All the reports of a step. *)
LEMMA ReportsSettled ==
  ASSUME NEW rs \in Seq(VenueReports), NEW b, NEW g0, Settled(b, g0, After(g0, b.told))
  PROVE  LET c == FoldLeft(OnVenueReport, b, rs) IN Settled(c, g0, After(g0, c.told))
<1>1. PICK path : /\ ByBroker!FoldPath(path, b, rs)
                  /\ FoldLeft(OnVenueReport, b, rs) = path[Len(rs)]
  BY ByBroker!FoldFollowsPath, Zenon DEF FoldLeft, MapThenFoldSet, Max,
     ByBroker!FoldLeft, ByBroker!MapThenFoldSet, ByBroker!Max
<1>2. Len(rs) \in Nat /\ \A k \in 1 .. Len(rs) : rs[k] \in VenueReports
  BY LenProperties, ElementOfSeq
<1> DEFINE Ok(k) == Settled(path[k], g0, After(g0, path[k].told))
           T == {k \in Nat : k <= Len(rs) => Ok(k)}
<1>3. 0 \in T
  BY <1>1 DEF ByBroker!FoldPath
<1>4. ASSUME NEW k \in Nat, k \in T PROVE k + 1 \in T
  <2> SUFFICES ASSUME k + 1 <= Len(rs) PROVE Ok(k + 1)
    OBVIOUS
  <2>1. k + 1 \in 1 .. Len(rs) /\ k <= Len(rs) /\ (k + 1) - 1 = k
    BY <1>2
  <2>2. path[k + 1] = OnVenueReport(path[k], rs[k + 1])
    BY <1>1, <2>1 DEF ByBroker!FoldPath
  <2>3. Ok(k) /\ rs[k + 1] \in VenueReports
    BY <1>2, <1>4, <2>1
  <2> QED BY <2>2, <2>3, ReportSettled
<1>5. Len(rs) \in T
  <2> HIDE DEF T
  <2>1. Nat \subseteq T
    BY <1>3, <1>4, NatSetInduction
  <2> QED BY <1>2, <2>1
<1> QED BY <1>1, <1>2, <1>5

-----------------------------------------------------------------------------
(* The steps of the gateway. *)

Accounts == StatementTypes /\ TableTypes /\ Reconciled(statement, dropped, books)

(* A step that hands its reports on, through the broker and into the table. *)
LEMMA PassSettles ==
  ASSUME Accounts, reports' \in Seq(VenueReports), PassReports,
         TableIs(Answered(held, track)), UNCHANGED due
  PROVE  Accounts'
<1> DEFINE b0 == [seen |-> seen, dropped |-> dropped, statement |-> statement, told |-> <<>>]
           g0 == [held |-> held, track |-> track, acks |-> gstats.acks, filled |-> filled,
                  books |-> books]
           c == FoldLeft(OnVenueReport, b0, reports')
           g == After(g0, c.told)
<1>1. /\ seen \in Nat /\ dropped \in Nat /\ statement \in Statement
      /\ held \in SUBSET Ids /\ track \in [Ids -> Tracked] /\ books \in Account
      /\ \A i \in held : track[i].order \in ClientOrders
      /\ Reconciled(statement, dropped, books)
  BY DEF Accounts, StatementTypes, TableTypes, Statement
<1>2. seen' = c.seen /\ dropped' = c.dropped /\ statement' = c.statement /\ told' = c.told
  BY Zenon DEF PassReports
<1>3. Answered(held, track) = g
  BY <1>2, Zenon DEF Answered, After
<1>4. /\ b0.told = <<>> /\ Desk(b0)
  BY <1>1, EmptySeq DEF Desk
<1>5. Table(g0)
  BY <1>1 DEF Table
<1>6. /\ b0.statement = statement /\ b0.dropped = dropped
      /\ g0.books = books /\ g0.held = held /\ g0.track = track
  OBVIOUS
<1> HIDE DEF b0, g0
<1>7. After(g0, b0.told) = g0
  BY <1>4, AfterIs
<1>8. Settled(b0, g0, After(g0, b0.told))
  BY <1>1, <1>4, <1>5, <1>6, <1>7 DEF Settled
<1>9. Settled(c, g0, g)
  BY <1>8, ReportsSettled
<1> HIDE DEF c, g
<1>10. held' = g.held /\ track' = g.track /\ books' = g.books
  BY <1>3 DEF TableIs
<1>11. /\ Desk(c) /\ Table(g) /\ Reconciled(c.statement, c.dropped, g.books)
       /\ g.held \subseteq held /\ \A i \in Ids : g.track[i].order = track[i].order
  BY <1>6, <1>9 DEF Settled
<1>12. StatementTypes'
  BY <1>2, <1>11 DEF Desk, StatementTypes, Statement
<1>13. TableTypes'
  <2>1. /\ held' \in SUBSET Ids /\ track' \in [Ids -> Tracked] /\ books' \in Account
    BY <1>10, <1>11 DEF Table
  <2>2. \A i \in held' : track'[i].order \in ClientOrders
    BY <1>1, <1>10, <1>11, <2>1
  <2>3. due' \in SUBSET [order : ClientOrders, ts : Nat]
    BY DEF Accounts, TableTypes
  <2> QED BY <2>1, <2>2, <2>3 DEF TableTypes
<1> QED BY <1>2, <1>10, <1>11, <1>12, <1>13 DEF Accounts

(* A step without reports, or with a cancel of an order that never left the broker. *)
LEMMA QuietAccounts ==
  ASSUME Accounts, UNCHANGED <<seen, dropped, statement, held, track, due, books>>
  PROVE  Accounts'
BY DEF Accounts, StatementTypes, TableTypes

(* cancel_order of a held order: answered by the broker itself. *)
LEMMA CancelHeldSettles ==
  ASSUME Accounts, BrokerQueues, NEW id \in Ids, CancelHeldOrder(id),
         TableIs(Answered(held, track)), UNCHANGED due
  PROVE  Accounts'
<1> DEFINE g0 == [held |-> held, track |-> track, acks |-> gstats.acks, filled |-> filled,
                  books |-> books]
           k == Min(HeldAt(id))
           o == holding[k].order
           r == WithFee(Report("Cancelled", o, o.remaining), 0)
           g == OnReport(g0, r)
<1>1. holding \in Seq(Submission) /\ HeldAt(id) # {}
  BY DEF BrokerQueues, CancelHeldOrder
<1>2. k \in DOMAIN holding
  BY <1>1, FirstHeld
<1>3. o \in Orders
  <2> HIDE DEF k
  <2>1. holding[k] \in Submission
    BY <1>1, <1>2, Numbered
  <2> QED BY <2>1 DEF Submission, ClientOrders
<1>4. told' = <<r>> /\ UNCHANGED <<seen, dropped, statement>>
  BY Zenon DEF CancelHeldOrder
<1> HIDE DEF o
<1>5. r \in ToldReports /\ ~IsFill(r)
  <2>1. o \in OrderRec /\ o.remaining \in Nat
    BY <1>3, OrderFacts
  <2>2. /\ Report("Cancelled", o, o.remaining) \in ReportRec
        /\ Report("Cancelled", o, o.remaining).kind = "Cancelled"
    BY <2>1, ReportTypes DEF Kinds, Report
  <2> QED BY <2>2, FeeTypes DEF IsFill
<1> HIDE DEF r
<1>6. Answered(held, track) = g
  <2>1. Answered(held, track) = After(g0, <<r>>)
    BY <1>4, Zenon DEF Answered, After
  <2>2. <<>> \in Seq(ToldReports) /\ Append(<<>>, r) = <<r>>
    BY EmptySeq
  <2> HIDE DEF g0
  <2>3. After(g0, Append(<<>>, r)) = OnReport(After(g0, <<>>), r)
    BY <1>5, <2>2, AfterIs
  <2> QED BY <2>1, <2>2, <2>3, AfterIs
<1>7. Table(g0)
  BY DEF Table, Accounts, TableTypes
<1>8. g0.books = books /\ g0.held = held /\ g0.track = track
  OBVIOUS
<1> HIDE DEF g0
<1>9. /\ Table(g) /\ g.books = books /\ g.held \subseteq held
      /\ \A i \in Ids : g.track[i].order = track[i].order
  BY <1>5, <1>7, <1>8, ClientStep
<1> HIDE DEF g
<1>10. held' = g.held /\ track' = g.track /\ books' = books
  BY <1>6, <1>9 DEF TableIs
<1>11. TableTypes'
  <2>1. /\ held' \in SUBSET Ids /\ track' \in [Ids -> Tracked] /\ books' \in Account
    BY <1>9, <1>10 DEF Table
  <2>2. \A i \in held' : track'[i].order \in ClientOrders
    BY <1>9, <1>10, <2>1 DEF Accounts, TableTypes
  <2>3. due' \in SUBSET [order : ClientOrders, ts : Nat]
    BY DEF Accounts, TableTypes
  <2> QED BY <2>1, <2>2, <2>3 DEF TableTypes
<1>12. StatementTypes'
  BY <1>4 DEF Accounts, StatementTypes
<1> QED BY <1>4, <1>10, <1>11, <1>12 DEF Accounts

(* GatewayInv holds before the first call. *)
LEMMA GatewayInit == GInit => GatewayInv
<1> SUFFICES ASSUME GInit PROVE GatewayInv
  OBVIOUS
<1>1. EngineInv
  BY InitInv DEF GInit
<1>2. BrokerQueues
  BY EmptySeq DEF GInit, BrokerInit, BrokerQueues, Waiting
<1>3. StatementTypes /\ Reconciled(statement, dropped, books)
  BY DEF GInit, BrokerInit, StatementTypes, Reconciled, NoAccount
<1>4. TableTypes
  <2>1. NoTrack \in Tracked
    BY DEF NoTrack, Tracked
  <2>2. NoAccount \in Account
    BY DEF NoAccount, Account
  <2> QED BY <2>1, <2>2 DEF GInit, TableTypes
<1> QED BY <1>1, <1>2, <1>3, <1>4 DEF GatewayInv

(* send_order into the broker, from a submission or a retry. *)
LEMMA SendKeeps ==
  ASSUME EngineInv, BrokerQueues, NEW o \in ClientOrders, NEW ts \in Nat, BrokerSend(o, ts)
  PROVE  EngineInv' /\ BrokerQueues' /\ UNCHANGED <<seen, dropped, statement>>
<1>1. BrokerQueues'
  BY SendQueues
<1>2. /\ Emit(<<>>) /\ UNCHANGED <<seen, dropped, statement>>
      /\ UNCHANGED <<bookVars, quoteVars, clockVars, delayVars, rejected, consumed, pc,
                     matchVars, ev, spent>>
  BY DEF BrokerSend, NoReports
<1> QED BY <1>1, <1>2, EngineQuiet

(* A submission is entered in the table before the venue is called. *)
LEMMA SubmitKeeps ==
  ASSUME GatewayInv, NEW o \in ClientOrders, Submit(o)
  PROVE  GatewayInv'
<1>1. EngineInv /\ BrokerQueues /\ Accounts /\ now \in Nat
  BY TypeParts DEF GatewayInv, Accounts, EngineInv, LoopTypes
<1>2. BrokerSend(o, now)
  BY DEF Submit
<1>3. EngineInv' /\ BrokerQueues' /\ UNCHANGED <<seen, dropped, statement>>
  BY <1>1, <1>2, SendKeeps
<1> DEFINE t == [NoTrack EXCEPT !.order = o, !.submitted_ts = now, !.remaining = o.remaining]
<1>4. /\ held' = held \cup {o.id} /\ track' = [track EXCEPT ![o.id] = t]
      /\ UNCHANGED <<due, books>>
  BY DEF Submit
<1>5. o.id \in Ids /\ o.remaining \in Nat
  BY OrderFacts DEF ClientOrders
<1>6. t \in Tracked /\ t.order = o
  BY <1>1, <1>5 DEF NoTrack, Tracked
<1> HIDE DEF t
<1>7. TableTypes'
  BY <1>1, <1>4, <1>5, <1>6 DEF Accounts, TableTypes
<1>8. StatementTypes' /\ Reconciled(statement, dropped, books)'
  BY <1>1, <1>3, <1>4 DEF Accounts, StatementTypes
<1> QED BY <1>3, <1>7, <1>8 DEF GatewayInv

(* The sweep: an order it sends again is one the table holds. *)
LEMMA SweepKeeps ==
  ASSUME GatewayInv, SweepTimeouts
  PROVE  Accounts'
<1> DEFINE late == IF AckTimeout = 0 THEN {} ELSE {i \in held : Late(i)}
           asked == {i \in late : ~track[i].queried}
           working == {i \in asked : QueryWorking(i)}
           again == IF RetryOnTimeout THEN {i \in late : ~track[i].retried} ELSE {}
           new(i) == [track[i] EXCEPT !.timed_out = TRUE, !.queried = TRUE,
                            !.venue_working = IF i \in asked THEN i \in working ELSE @,
                            !.retried = IF i \in again THEN TRUE ELSE @]
<1>1. /\ track' = [i \in Ids |-> IF i \notin late THEN track[i] ELSE new(i)]
      /\ due' = {[order |-> track[i].order, ts |-> track[i].submitted_ts] : i \in again}
      /\ UNCHANGED <<held, books>> /\ UNCHANGED brokerVars
  BY DEF SweepTimeouts
<1>2. again \subseteq held
  BY DEF Late
<1>3. /\ held \in SUBSET Ids /\ track \in [Ids -> Tracked]
      /\ \A i \in held : track[i].order \in ClientOrders
  BY DEF GatewayInv, TableTypes
<1>4. ASSUME NEW i \in Ids PROVE new(i) \in Tracked /\ new(i).order = track[i].order
  <2>1. track[i] \in Tracked
    BY <1>3
  <2>2. (i \in working) \in BOOLEAN
    OBVIOUS
  <2> HIDE DEF asked, working, again
  <2> QED BY <2>1, <2>2 DEF Tracked
<1> HIDE DEF late, again, new
<1>5. \A i \in Ids : track'[i] \in Tracked /\ track'[i].order = track[i].order
  BY <1>1, <1>3, <1>4
<1>6. track' \in [Ids -> Tracked]
  BY <1>1, <1>5
<1>7. due' \in SUBSET [order : ClientOrders, ts : Nat]
  <2>1. \A i \in again : track[i].order \in ClientOrders /\ track[i].submitted_ts \in Nat
    BY <1>2, <1>3 DEF Tracked
  <2> QED BY <1>1, <2>1
<1>8. TableTypes'
  BY <1>1, <1>3, <1>5, <1>6, <1>7 DEF GatewayInv, TableTypes
<1>9. StatementTypes' /\ Reconciled(statement, dropped, books)'
  BY <1>1 DEF GatewayInv, StatementTypes, brokerVars
<1> QED BY <1>8, <1>9 DEF Accounts

(* Every step keeps GatewayInv. *)
LEMMA GatewayKept == GatewayInv /\ [GNext]_allVars => GatewayInv'
<1> SUFFICES ASSUME GatewayInv, [GNext]_allVars PROVE GatewayInv'
  OBVIOUS
<1>1. EngineInv /\ BrokerQueues /\ Accounts
  BY DEF GatewayInv, Accounts
<1>2. ASSUME EngineInv', BrokerQueues', Accounts' PROVE GatewayInv'
  BY <1>2 DEF GatewayInv, Accounts
<1>3. ASSUME UNCHANGED <<engineVars, brokerVars>>, Accounts' PROVE GatewayInv'
  <2>1. EngineInv'
    BY <1>1, <1>3, EngineInvKept
  <2>2. BrokerQueues'
    BY <1>1, <1>3, QuietQueues DEF brokerVars
  <2> QED BY <1>2, <1>3, <2>1, <2>2
<1>4. ASSUME UNCHANGED <<engineVars, brokerVars, track, due, books>>,
             held' \subseteq held
      PROVE  GatewayInv'
  <2>1. Accounts'
    BY <1>1, <1>4 DEF Accounts, StatementTypes, TableTypes, brokerVars
  <2> QED BY <1>3, <1>4, <2>1
<1>5. CASE \E o \in ClientOrders : Submit(o)
  BY <1>5, SubmitKeeps
<1>6. CASE \E o \in ClientOrders : SubmitDuplicate(o)
  BY <1>4, <1>6 DEF SubmitDuplicate
<1>7. CASE Submitted
  BY <1>4, <1>7 DEF Submitted
<1>8. CASE \E id \in Ids : Cancel(id)
  <2>1. PICK id \in Ids : Cancel(id)
    BY <1>8
  <2>2. /\ CancelHeldOrder(id) \/ CancelAtVenue(id)
        /\ TableIs(Answered(held, track)) /\ UNCHANGED due
    BY <2>1 DEF Cancel, BrokerCancel
  <2>3. CASE CancelHeldOrder(id)
    <3>1. Accounts'
      BY <1>1, <2>2, <2>3, CancelHeldSettles
    <3>2. BrokerQueues'
      BY <1>1, <2>3, CancelQueues
    <3>3. /\ Emit(<<>>)
          /\ UNCHANGED <<bookVars, quoteVars, clockVars, delayVars, rejected, consumed, pc,
                         matchVars, ev, spent>>
      BY <2>3 DEF CancelHeldOrder
    <3>4. EngineInv'
      BY <1>1, <3>3, EngineQuiet
    <3> QED BY <1>2, <3>1, <3>2, <3>4
  <2>4. CASE CancelAtVenue(id)
    <3>1. PassReports /\ UNCHANGED <<holding, sending, given, submitted, outage>>
      BY <2>4 DEF CancelAtVenue
    <3>2. BrokerQueues'
      BY <1>1, <3>1, QuietQueues
    <3>3. EngineInv' /\ reports' \in Seq(VenueReports)
      <4>1. CASE id \in order_index
        <5>1. CancelOrder(id)
          BY <2>4, <4>1 DEF CancelAtVenue
        <5>2. ENext
          BY <5>1 DEF ENext
        <5> QED BY <1>1, <5>2, EngineInvKept, EngineReports
      <4>2. CASE id \notin order_index
        <5>1. /\ Emit(<<>>)
              /\ UNCHANGED <<bookVars, quoteVars, clockVars, delayVars, rejected, consumed,
                             pc, matchVars, ev, spent>>
          BY <2>4, <4>2 DEF CancelAtVenue
        <5>2. EngineInv'
          BY <1>1, <5>1, EngineQuiet
        <5>3. reports' = <<>>
          BY <5>1 DEF Emit, TakeInAndReport
        <5> QED BY <5>2, <5>3, EmptySeq
      <4> QED BY <4>1, <4>2
    <3>4. Accounts'
      BY <1>1, <2>2, <3>1, <3>3, PassSettles
    <3> QED BY <1>2, <3>2, <3>3, <3>4
  <2> QED BY <2>2, <2>3, <2>4
<1>9. CASE \E id \in Ids : CancelAfterFill(id)
  BY <1>4, <1>9 DEF CancelAfterFill
<1>10. CASE \E e \in Events : Feed(e)
  <2>1. PICK e \in Events : Feed(e)
    BY <1>10
  <2>2. /\ MarketEvent(e) /\ UNCHANGED <<seen, dropped, statement, held, track, due, books>>
        /\ UNCHANGED <<holding, sending, given, submitted, outage>>
    BY <2>1 DEF Feed, BrokerEvent, NoReports
  <2>3. ENext
    BY <2>2 DEF ENext
  <2>4. EngineInv'
    BY <1>1, <2>3, EngineInvKept
  <2>5. BrokerQueues' /\ Accounts'
    BY <1>1, <2>2, QuietQueues, QuietAccounts
  <2> QED BY <1>2, <2>4, <2>5
<1>11. CASE VenueWorks
  <2>1. TableIs(Answered(held, track)) /\ UNCHANGED due /\ (VenueTakes \/ VenueWorking)
    BY <1>11 DEF VenueWorks
  <2>2. CASE VenueTakes
    <3>1. SendOrder(Head(sending).order, Head(sending).ts) /\ PassReports /\ sending # <<>>
      BY <2>2 DEF VenueTakes
    <3>2. Head(sending).order \in Orders /\ Head(sending).ts \in Nat
      <4>1. Head(sending) \in Submission
        BY <1>1, <3>1, HeadTailProperties DEF BrokerQueues
      <4> QED BY <4>1 DEF Submission, ClientOrders
    <3>3. ENext
      BY <3>1, <3>2 DEF ENext
    <3>4. EngineInv' /\ reports' \in Seq(VenueReports)
      BY <1>1, <3>3, EngineInvKept, EngineReports
    <3>5. BrokerQueues'
      BY <1>1, <2>2, TakeQueues
    <3>6. Accounts'
      BY <1>1, <2>1, <3>1, <3>4, PassSettles
    <3> QED BY <1>2, <3>4, <3>5, <3>6
  <2>3. CASE VenueWorking
    <3>1. /\ Working /\ PassReports
          /\ UNCHANGED <<holding, sending, given, submitted, outage>>
      BY <2>3 DEF VenueWorking
    <3>2. ENext
      BY <3>1 DEF ENext
    <3>3. EngineInv' /\ reports' \in Seq(VenueReports)
      BY <1>1, <3>2, EngineInvKept, EngineReports
    <3>4. BrokerQueues'
      BY <1>1, <3>1, QuietQueues
    <3>5. Accounts'
      BY <1>1, <2>1, <3>1, <3>3, PassSettles
    <3> QED BY <1>2, <3>3, <3>4, <3>5
  <2> QED BY <2>1, <2>2, <2>3
<1>12. CASE SweepTimeouts
  <2>1. Accounts'
    BY <1>12, SweepKeeps
  <2>2. UNCHANGED <<engineVars, brokerVars>>
    BY <1>12 DEF SweepTimeouts
  <2> QED BY <1>3, <2>1, <2>2
<1>13. CASE \E d \in due : Resend(d)
  <2>1. PICK d \in due : Resend(d)
    BY <1>13
  <2>2. d.order \in ClientOrders /\ d.ts \in Nat
    BY <1>1 DEF Accounts, TableTypes
  <2>3. /\ BrokerSend(d.order, d.ts) /\ due' = due \ {d}
        /\ UNCHANGED <<held, track, books>>
    BY <2>1 DEF Resend
  <2>4. EngineInv' /\ BrokerQueues' /\ UNCHANGED <<seen, dropped, statement>>
    BY <1>1, <2>2, <2>3, SendKeeps
  <2>5. Accounts'
    BY <1>1, <2>3, <2>4 DEF Accounts, StatementTypes, TableTypes
  <2> QED BY <1>2, <2>4, <2>5
<1>14. CASE Resent
  BY <1>4, <1>14 DEF Resent
<1>15. CASE SweepDone
  BY <1>4, <1>15 DEF SweepDone
<1>16. CASE UNCHANGED allVars
  BY <1>4, <1>16 DEF allVars, gatewayVars
<1> QED BY <1>5, <1>6, <1>7, <1>8, <1>9, <1>10, <1>11, <1>12, <1>13, <1>14, <1>15, <1>16
        DEF GNext

-----------------------------------------------------------------------------
(* The theorems. *)

(* GatewayInv is an invariant of the gateway over the broker and the engine, for
   every plan of faults, every client and every market. *)
THEOREM GatewayInvariant == GSpec => []GatewayInv
BY GatewayInit, GatewayKept, PTL DEF GSpec

(* The venue is given the submissions in the order they were made and each at most
   once, however send_order holds them back during an outage, release_held lets
   them go, or a cancel takes one out of the middle. *)
THEOREM SubmissionsInOrder == GSpec => []VenueSeesSubmissionOrder
<1>1. GatewayInv => VenueSeesSubmissionOrder
  <2> SUFFICES ASSUME GatewayInv, NEW i \in 2 .. Len(given) PROVE given[i - 1] < given[i]
    BY DEF VenueSeesSubmissionOrder
  <2>1. given \in Seq(Nat) /\ \A j, k \in DOMAIN given : j < k => given[j] < given[k]
    BY DEF GatewayInv, BrokerQueues
  <2>2. DOMAIN given = 1 .. Len(given) /\ Len(given) \in Nat
    BY <2>1, LenProperties
  <2>3. i - 1 \in DOMAIN given /\ i \in DOMAIN given /\ i - 1 < i
    BY <2>2
  <2> QED BY <2>1, <2>3
<1> QED BY <1>1, GatewayInvariant, PTL

(* reconcile_positions reports a break exactly when the broker withheld a fill:
   splitting, holding back, refusing or retrying orders never makes one. *)
THEOREM ReconciliationExact == GSpec => []ReconcileFindsLoss
<1>1. GatewayInv => ReconcileFindsLoss
  <2> SUFFICES ASSUME GatewayInv PROVE Broken(books) <=> dropped > 0
    BY DEF ReconcileFindsLoss
  <2>1. /\ statement.filled \in Int /\ books.filled \in Int /\ dropped \in Nat
        /\ Reconciled(statement, dropped, books)
    BY DEF GatewayInv, StatementTypes, TableTypes, Account
  <2> QED BY <2>1 DEF Reconciled, Broken
<1> QED BY <1>1, GatewayInvariant, PTL
=============================================================================
