------------------------ MODULE WebSocketFeedProofs -------------------------
(***************************************************************************)
(* Proofs about WebSocketFeed for every ring capacity, every set of        *)
(* messages the peer may send and any number of frames.                    *)
(*                                                                         *)
(* FeedInv is inductive.  Types, the threads' places and the ring's        *)
(* indices come first.  HandedInv is about Handed, what was pushed and     *)
(* what the receive thread still holds, in the order it will be pushed:    *)
(* pushing and popping move events inside it, and only an accepted row     *)
(* changes it, by one event at its end or one row in its last batch.       *)
(***************************************************************************)
EXTENDS WebSocketFeed, Integers, SequenceTheorems, TLAPS

-----------------------------------------------------------------------------
(* Operators. *)

(* The ring has room for an event, and messages are sequences of rows. *)
LEMMA FeedConstants ==
  Capacity \in Nat /\ Capacity > 0 /\ Messages \subseteq Seq(Row)
<1>1. Capacity \in Nat \ {0} /\ Messages \subseteq Seq(Row)
  BY FeedAssumption, Zenon
<1> QED BY <1>1

(* Numbering changes nothing of a row but its number. *)
LEMMA NumberedRow ==
  ASSUME accepted \in Seq(Row), NEW r \in Row
  PROVE  /\ Numbered(r) \in Row /\ Numbered(r).n = Len(accepted) + 1
         /\ Key(Numbered(r)) = Key(r) /\ Numbered(r).snapshot = r.snapshot
         /\ Numbered(r).kind = r.kind
<1>1. Len(accepted) \in Nat BY LenProperties
<1>2. Len(accepted) + 1 \in Nat BY <1>1
<1>3. /\ r = [kind |-> r.kind, ts |-> r.ts, symbol |-> r.symbol, snapshot |-> r.snapshot,
             n |-> r.n]
      /\ r.kind \in {"header", "bad", "trade", "depth"} /\ r.ts \in Nat
      /\ r.symbol \in Symbols
  BY DEF Row
<1>4. Numbered(r) = [kind |-> r.kind, ts |-> r.ts, symbol |-> r.symbol,
                     snapshot |-> r.snapshot, n |-> Len(accepted) + 1]
  BY <1>3 DEF Numbered
<1>5. Numbered(r) \in Row BY <1>2, <1>3, <1>4 DEF Row
<1> QED BY <1>4, <1>5 DEF Key

TradeEvent(r) == [kind |-> "trade", row |-> r]
BatchEvent(b) == [kind |-> "batch", batch |-> b]

(* The events made of a row and of a batch. *)
LEMMA EventTypes ==
  /\ \A r \in Row : TradeEvent(r) \in FeedEvent
  /\ \A b \in Batch : BatchEvent(b) \in FeedEvent
BY DEF TradeEvent, BatchEvent, FeedEvent

(* No batch is a batch without rows. *)
LEMMA NoBatchType == NoBatch \in Batch /\ NoBatch.updates = <<>>
<1>1. 0 \in Nat /\ <<>> \in Seq(Row) BY EmptySeq
<1> QED BY <1>1 DEF NoBatch, Batch

(* FlushPending of a batch and the trades held with it. *)
Flushed(b, held) ==
  (IF b.updates # <<>> THEN <<BatchEvent(b)>> ELSE <<>>)
  \o [i \in DOMAIN held |-> TradeEvent(held[i])]

(* What a flush pushes, element by element. *)
LEMMA FlushedParts ==
  ASSUME NEW b \in Batch, NEW held \in Seq(Row)
  PROVE  /\ Flushed(b, held) \in Seq(FeedEvent)
         /\ b.updates # <<>> =>
              /\ Len(Flushed(b, held)) = 1 + Len(held)
              /\ Flushed(b, held)[1] = BatchEvent(b)
              /\ \A i \in 1 .. Len(held) :
                   Flushed(b, held)[i + 1] = TradeEvent(held[i])
         /\ b.updates = <<>> /\ held = <<>> => Flushed(b, held) = <<>>
<1> DEFINE ts == [i \in DOMAIN held |-> TradeEvent(held[i])]
           bs == IF b.updates # <<>> THEN <<BatchEvent(b)>> ELSE <<>>
<1>1. Flushed(b, held) = bs \o ts
  BY DEF Flushed
<1>2. DOMAIN held = 1 .. Len(held) /\ Len(held) \in Nat
  BY LenProperties
<1>3. ts \in Seq(FeedEvent) /\ Len(ts) = Len(held)
  <2>1. \A i \in 1 .. Len(held) : TradeEvent(held[i]) \in FeedEvent
    BY ElementOfSeq, EventTypes
  <2>2. ts = [i \in 1 .. Len(held) |-> TradeEvent(held[i])]
    BY <1>2
  <2>3. ts \in Seq(FeedEvent)
    <3> HIDE DEF TradeEvent
    <3> QED BY <2>1, <2>2, <1>2, IsASeq
  <2>4. DOMAIN ts = 1 .. Len(ts) /\ Len(ts) \in Nat
    BY <2>3, LenProperties
  <2> QED BY <2>2, <2>3, <2>4, <1>2
<1>4. \A i \in 1 .. Len(held) : ts[i] = TradeEvent(held[i])
  BY <1>2
<1>5. <<BatchEvent(b)>> \in Seq(FeedEvent) BY EventTypes
<1>6. bs \in Seq(FeedEvent) BY <1>5, EmptySeq
<1> HIDE DEF ts
<1>7. bs \o ts \in Seq(FeedEvent) BY <1>6, <1>3, ConcatProperties
<1>8. ASSUME b.updates # <<>>
      PROVE  /\ Len(bs \o ts) = 1 + Len(held)
             /\ (bs \o ts)[1] = BatchEvent(b)
             /\ \A i \in 1 .. Len(held) : (bs \o ts)[i + 1] = ts[i]
  <2>1. bs = <<BatchEvent(b)>> /\ Len(bs) = 1
        /\ bs[1] = BatchEvent(b)
    BY <1>8
  <2> HIDE DEF bs
  <2> QED BY <2>1, <1>2, <1>3, <1>6, ConcatProperties
<1>9. b.updates = <<>> /\ held = <<>> => bs \o ts = <<>>
  <2> SUFFICES ASSUME b.updates = <<>>, held = <<>> PROVE bs \o ts = <<>>
    OBVIOUS
  <2>1. ts = <<>> BY <1>3, EmptySeq
  <2>2. bs = <<>> OBVIOUS
  <2> QED BY <2>1, <2>2, <1>3, ConcatEmptySeq
<1> QED BY <1>1, <1>4, <1>7, <1>8, <1>9

(* What is pending, as it would be pushed. *)
LEMMA FlushParts ==
  ASSUME pending_batch \in Batch, pending_trades \in Seq(Row)
  PROVE  /\ FlushPending \in Seq(FeedEvent)
         /\ HasBatch =>
              /\ Len(FlushPending) = 1 + Len(pending_trades)
              /\ FlushPending[1] = BatchEvent(pending_batch)
              /\ \A i \in 1 .. Len(pending_trades) :
                   FlushPending[i + 1] = TradeEvent(pending_trades[i])
         /\ ~HasBatch /\ pending_trades = <<>> => FlushPending = <<>>
<1>1. FlushPending = Flushed(pending_batch, pending_trades)
  BY DEF FlushPending, Flushed, HasBatch, TradeEvent, BatchEvent
<1>2. HasBatch <=> pending_batch.updates # <<>> BY DEF HasBatch
<1> QED BY <1>1, <1>2, FlushedParts, Zenon

(* The same of what is pending after a step. *)
LEMMA NextFlushParts ==
  ASSUME pending_batch' \in Batch, pending_trades' \in Seq(Row)
  PROVE  /\ FlushPending' \in Seq(FeedEvent)
         /\ HasBatch' =>
              /\ Len(FlushPending') = 1 + Len(pending_trades')
              /\ FlushPending'[1] = BatchEvent(pending_batch')
              /\ \A i \in 1 .. Len(pending_trades') :
                   FlushPending'[i + 1] = TradeEvent(pending_trades'[i])
         /\ ~HasBatch' /\ pending_trades' = <<>> => FlushPending' = <<>>
<1>1. FlushPending' = Flushed(pending_batch', pending_trades')
  BY DEF FlushPending, Flushed, HasBatch, TradeEvent, BatchEvent
<1>2. HasBatch' <=> pending_batch'.updates # <<>> BY DEF HasBatch
<1> QED BY <1>1, <1>2, FlushedParts, Zenon

-----------------------------------------------------------------------------
(* Types, the threads' places, the ring's indices. *)

(* A feed not started holds empty sequences of the right types. *)
LEMMA FeedTypesInit == Init => FeedTypes
BY NoBatchType, EmptySeq DEF Init, FeedTypes

(* A depth row opens a batch of its own. *)
LEMMA NewBatchType ==
  ASSUME accepted \in Seq(Row), NEW r \in Row
  PROVE  /\ NewBatch(r) \in Batch /\ Key(NewBatch(r)) = Key(r)
         /\ NewBatch(r).updates = <<Numbered(r)>> /\ NewBatch(r).snapshot = r.snapshot
<1>1. Numbered(r) \in Row BY NumberedRow
<1>2. <<Numbered(r)>> \in Seq(Row) BY <1>1
<1> HIDE DEF Numbered
<1> QED BY <1>2 DEF NewBatch, Row, Batch, Key

(* A depth row joins its batch. *)
LEMMA JoinedType ==
  ASSUME accepted \in Seq(Row), NEW r \in Row, NEW b \in Batch
  PROVE  [b EXCEPT !.snapshot = @ \/ r.snapshot, !.updates = Append(@, Numbered(r))]
           \in Batch
<1>1. Numbered(r) \in Row BY NumberedRow
<1>2. Append(b.updates, Numbered(r)) \in Seq(Row)
  BY <1>1, AppendProperties DEF Batch
<1>3. (b.snapshot \/ r.snapshot) \in BOOLEAN BY DEF Batch, Row
<1> HIDE DEF Numbered
<1> QED BY <1>2, <1>3 DEF Batch

(* No step of the receive thread, the reader or stop breaks the types. *)
LEMMA FeedTypesStep ==
  ASSUME FeedTypes, FeedControl, Next
  PROVE  FeedTypes'
<1> USE DEF FeedTypes
<1>0. /\ rows # <<>> => Head(rows) \in Row /\ Tail(rows) \in Seq(Row)
      /\ events # <<>> => Head(events) \in FeedEvent /\ Tail(events) \in Seq(FeedEvent)
      /\ out # <<>> => Head(out) \in FeedEvent /\ Tail(out) \in Seq(FeedEvent)
  BY HeadTailProperties
<1>1. FlushPending \in Seq(FeedEvent) BY FlushParts
<1>2. \A r \in Row : /\ Append(accepted, Numbered(r)) \in Seq(Row)
                    /\ Append(pending_trades, Numbered(r)) \in Seq(Row)
                    /\ NewBatch(r) \in Batch
                    /\ <<[kind |-> "trade", row |-> Numbered(r)]>> \in Seq(FeedEvent)
  <2>1. \A r \in Row : Numbered(r) \in Row /\ NewBatch(r) \in Batch
    BY NumberedRow, NewBatchType
  <2>2. \A r \in Row : <<TradeEvent(r)>> \in Seq(FeedEvent)
    BY EventTypes
  <2>3. \A r \in Row : <<[kind |-> "trade", row |-> r]>> \in Seq(FeedEvent)
    BY <2>2 DEF TradeEvent
  <2> QED BY <2>1, <2>3, AppendProperties
<1>3. ASSUME NEW a \in {<<>>, <<"refused">>, <<"late", "connects">>},
             NEW r \in Responses, Start(a, r)
      PROVE  FeedTypes'
  BY <1>3, Zenon DEF Start, parseVars, pendingVars, ringVars
<1>4. CASE Deadline BY <1>4, Zenon DEF Deadline, parseVars, pendingVars, ringVars
<1>5. ASSUME NEW m \in Messages, NEW fin \in BOOLEAN, DataFrame(m, fin)
      PROVE  FeedTypes'
  <2>1. m \in Seq(Row) BY FeedConstants
  <2>2. assembled \o m \in Seq(Row) BY <2>1, ConcatProperties
  <2> QED BY <1>5, <2>2, EmptySeq DEF DataFrame, pendingVars, ringVars
<1>6. CASE ControlFrame
  BY <1>6, Zenon DEF ControlFrame, parseVars, pendingVars, ringVars
<1>7. CASE LeaveLoop BY <1>7, <1>1 DEF LeaveLoop, parseVars, pendingVars, ringVars
<1>8. CASE MessageDone
  BY <1>8, Zenon DEF MessageDone, parseVars, pendingVars, ringVars
<1>9. CASE SkipRow BY <1>9, <1>0 DEF SkipRow, pendingVars, ringVars
<1>10. CASE TradeRow BY <1>10, <1>0, <1>2 DEF TradeRow, Accept, ringVars
<1>11. CASE DepthRow
  <2>1. wpc = "rows" /\ rows # <<>> BY <1>11 DEF DepthRow
  <2>2. [pending_batch EXCEPT !.snapshot = @ \/ Head(rows).snapshot,
                              !.updates = Append(@, Numbered(Head(rows)))] \in Batch
    BY <1>0, <2>1, JoinedType
  <2>3. CASE SameBatch(Head(rows))
    BY <1>11, <2>1, <2>2, <2>3, <1>0, <1>2 DEF DepthRow, Accept, ringVars
  <2>4. CASE ~SameBatch(Head(rows))
    BY <1>11, <2>4, <1>1 DEF DepthRow, ringVars
  <2> QED BY <2>3, <2>4
<1>12. CASE PushEvent
  <2>1. Append(events, Head(out)) \in Seq(FeedEvent)
    BY <1>12, <1>0, AppendProperties DEF PushEvent
  <2>2. Len(seen) \in Nat /\ Len(events) \in Nat BY LenProperties
  <2>3. cached_read' \in Nat
    BY <1>12, <2>2 DEF PushEvent
  <2>4. high_water' \in Nat
    <3>1. PICK depth \in Occupancies :
            high_water' = IF depth > high_water THEN depth ELSE high_water
      BY <1>12 DEF PushEvent
    <3>2. Occupancies \subseteq Int BY <2>2 DEF Occupancies, Pushed
    <3> QED BY <3>1, <3>2
  <2>5. pending_batch' \in Batch BY <1>12, NoBatchType DEF PushEvent
  <2> QED BY <1>12, <1>0, <2>1, <2>3, <2>4, <2>5 DEF PushEvent, parseVars
<1>13. CASE PushesDone
  <2>1. rows # <<>> \/ then = "final" BY <1>13 DEF PushesDone, FeedControl
  <2>2. then = "trade" \/ then = "depth" \/ then = "final" BY DEF FeedControl
  <2> QED
    BY <1>13, <2>1, <2>2, <1>0, <1>2, EmptySeq
    DEF PushesDone, OpenBatch, ReceiveEnds, Accept, ringVars
<1>14. CASE PushFails
  <2>1. rows # <<>> \/ then = "final" BY <1>14 DEF PushFails, FeedControl
  <2>2. then = "trade" \/ then = "depth" \/ then = "final" BY DEF FeedControl
  <2> QED
    BY <1>14, <2>1, <2>2, <1>0, <1>2, EmptySeq
    DEF PushFails, OpenBatch, ReceiveEnds, Accept, ringVars
<1>15. CASE Pop
  BY <1>15, <1>0, AppendProperties DEF Pop, parseVars, pendingVars
<1>16. CASE ReaderStep
  BY <1>16, Zenon DEF ReaderStep, parseVars, pendingVars, ringVars
<1>17. CASE ReaderAbandons
  BY <1>17, Zenon DEF ReaderAbandons, parseVars, pendingVars, ringVars
<1>18. CASE StopBegins BY <1>18, Zenon DEF StopBegins, parseVars, pendingVars, ringVars
<1>19. CASE StopReturns BY <1>19, Zenon DEF StopReturns, parseVars, pendingVars, ringVars
<1>20. CASE SessionOver
  BY <1>20, Zenon DEF SessionOver, feedVars, parseVars, pendingVars, ringVars
<1> QED
  BY <1>3, <1>4, <1>5, <1>6, <1>7, <1>8, <1>9, <1>10, <1>11, <1>12, <1>13, <1>14, <1>15,
     <1>16, <1>17, <1>18, <1>19, <1>20, Zenon DEF Next, Receive

(* Before start neither thread runs. *)
LEMMA FeedControlInit == Init => FeedControl
BY DEF Init, FeedControl, Stopped

(* The threads' places and flags agree after every step: in particular the end of
   the stream is only reported once the receive thread is through. *)
LEMMA FeedControlStep ==
  ASSUME FeedTypes, FeedControl, Next
  PROVE  FeedControl'
<1> USE DEF FeedControl, Stopped
<1>3. ASSUME NEW a \in {<<>>, <<"refused">>, <<"late", "connects">>},
             NEW r \in Responses, Start(a, r)
      PROVE  FeedControl'
  <2>1. CASE ConnectSocket(a) /\ Handshake(r)
    BY <1>3, <2>1 DEF Start, parseVars, pendingVars, ringVars
  <2>2. CASE ~(ConnectSocket(a) /\ Handshake(r))
    BY <1>3, <2>2 DEF Start, parseVars, pendingVars, ringVars
  <2> QED BY <2>1, <2>2
<1>4. CASE Deadline
  BY <1>4 DEF Deadline, parseVars, pendingVars, ringVars
<1>5. ASSUME NEW m \in Messages, NEW fin \in BOOLEAN, DataFrame(m, fin)
      PROVE  FeedControl'
  BY <1>5 DEF DataFrame, pendingVars, ringVars, flagVars
<1>6. CASE ControlFrame
  BY <1>6 DEF ControlFrame, parseVars, pendingVars, ringVars, flagVars
<1>7. CASE LeaveLoop BY <1>7 DEF LeaveLoop, parseVars, pendingVars, ringVars, flagVars
<1>8. CASE MessageDone
  BY <1>8 DEF MessageDone, parseVars, pendingVars, ringVars, flagVars
<1>9. CASE SkipRow BY <1>9 DEF SkipRow, pendingVars, ringVars, flagVars
<1>10. CASE TradeRow BY <1>10 DEF TradeRow, Accept, ringVars, flagVars
<1>11. CASE DepthRow BY <1>11 DEF DepthRow, Accept, ringVars, flagVars
<1>12. CASE PushEvent BY <1>12 DEF PushEvent, parseVars, flagVars
<1>13. CASE PushesDone
  <2>1. then = "trade" \/ then = "depth" \/ then = "final" OBVIOUS
  <2> QED
    BY <1>13, <2>1 DEF PushesDone, OpenBatch, ReceiveEnds, Accept, ringVars
<1>14. CASE PushFails
  <2>1. then = "trade" \/ then = "depth" \/ then = "final" OBVIOUS
  <2> QED
    BY <1>14, <2>1 DEF PushFails, OpenBatch, ReceiveEnds, Accept, ringVars
<1>15. CASE Pop BY <1>15 DEF Pop, parseVars, pendingVars, flagVars
<1>16. CASE ReaderStep
  BY <1>16 DEF ReaderStep, parseVars, pendingVars, ringVars, flagVars
<1>17. CASE ReaderAbandons
  BY <1>17 DEF ReaderAbandons, parseVars, pendingVars, ringVars, flagVars
<1>18. CASE StopBegins BY <1>18 DEF StopBegins, parseVars, pendingVars, ringVars
<1>19. CASE StopReturns BY <1>19 DEF StopReturns, parseVars, pendingVars, ringVars
<1>20. CASE SessionOver
  BY <1>20, Zenon DEF SessionOver, feedVars, parseVars, pendingVars, ringVars, flagVars
<1> QED
  BY <1>3, <1>4, <1>5, <1>6, <1>7, <1>8, <1>9, <1>10, <1>11, <1>12, <1>13, <1>14, <1>15,
     <1>16, <1>17, <1>18, <1>19, <1>20, Zenon DEF Next, Receive

(* The empty ring is within its bounds. *)
LEMMA RingBoundsInit == Init => RingBounds
BY FeedConstants, EmptySeq DEF Init, RingBounds, Pushed

(* Only a push and a pop touch the ring's indices. *)
LEMMA RingUntouched ==
  ASSUME Next PROVE UNCHANGED ringVars \/ PushEvent \/ Pop
<1>1. ASSUME NEW a \in {<<>>, <<"refused">>, <<"late", "connects">>},
             NEW r \in Responses, Start(a, r)
      PROVE  UNCHANGED ringVars
  BY <1>1, Zenon DEF Start
<1>2. ASSUME NEW m \in Messages, NEW fin \in BOOLEAN, DataFrame(m, fin)
      PROVE  UNCHANGED ringVars
  BY <1>2, Zenon DEF DataFrame
<1>3. CASE Deadline \/ ControlFrame \/ LeaveLoop \/ MessageDone \/ SkipRow
  BY <1>3, Zenon DEF Deadline, ControlFrame, LeaveLoop, MessageDone, SkipRow
<1>4. CASE TradeRow BY <1>4, Zenon DEF TradeRow
<1>5. CASE DepthRow BY <1>5, Zenon DEF DepthRow
<1>6. CASE PushesDone BY <1>6, Zenon DEF PushesDone
<1>7. CASE PushFails BY <1>7, Zenon DEF PushFails
<1>8. CASE ReaderStep \/ ReaderAbandons \/ StopBegins \/ StopReturns
  BY <1>8, Zenon DEF ReaderStep, ReaderAbandons, StopBegins, StopReturns
<1>9. CASE SessionOver BY <1>9, Zenon DEF SessionOver, feedVars, ringVars
<1> QED
  BY <1>1, <1>2, <1>3, <1>4, <1>5, <1>6, <1>7, <1>8, <1>9, Zenon DEF Next, Receive

(* Whatever index the receive thread reads, it is no older than the one it
   acquired, so the occupancy it computes is at most the ring's size. *)
LEMMA RingBoundsStep ==
  ASSUME FeedTypes, RingBounds, [Next]_feedVars
  PROVE  RingBounds'
<1>1. /\ Len(seen) \in Nat /\ Len(events) \in Nat /\ cached_read \in Nat
      /\ high_water \in Nat /\ Capacity \in Nat
  BY LenProperties, FeedConstants DEF FeedTypes
<1>2. CASE UNCHANGED ringVars BY <1>2 DEF ringVars, RingBounds, Pushed
<1>3. CASE PushEvent
  <2>1. Len(events') = Len(events) + 1 /\ seen' = seen
    <3>1. Head(out) \in FeedEvent
      BY <1>3, HeadTailProperties DEF PushEvent, FeedTypes
    <3> QED BY <1>3, <3>1, AppendProperties DEF PushEvent, FeedTypes
  <2>2. /\ Len(events) < Capacity
        /\ cached_read' = IF Pushed - cached_read >= Capacity THEN Len(seen)
                           ELSE cached_read
    BY <1>3 DEF PushEvent
  <2>3. PICK depth \in Occupancies :
          high_water' = IF depth > high_water THEN depth ELSE high_water
    BY <1>3 DEF PushEvent
  <2>4. depth \in Int /\ depth <= Capacity
    BY <1>1, <2>2 DEF Occupancies, Pushed, RingBounds
  <2> QED BY <1>1, <2>1, <2>2, <2>3, <2>4 DEF RingBounds, Pushed
<1>4. CASE Pop
  <2>1. Len(events') = Len(events) - 1 /\ Len(seen') = Len(seen) + 1
    <3>1. Head(events) \in FeedEvent /\ Len(Tail(events)) = Len(events) - 1
      BY <1>4, HeadTailProperties DEF Pop, FeedTypes
    <3> QED BY <1>4, <3>1, AppendProperties DEF Pop, FeedTypes
  <2>2. cached_read' = cached_read /\ high_water' = high_water BY <1>4 DEF Pop
  <2> QED BY <1>1, <2>1, <2>2 DEF RingBounds, Pushed
<1>5. UNCHANGED feedVars => UNCHANGED ringVars BY Zenon DEF feedVars, ringVars
<1> QED BY <1>2, <1>3, <1>4, <1>5, RingUntouched

-----------------------------------------------------------------------------
(* Orderly sequences, and how a row extends one. *)

(* EachOnce, row by row. *)
LEMMA RowsGathered ==
  ASSUME NEW s, NEW t
  PROVE  EachOnce(s, t) <=>
           /\ \A u : u \in ToSet(t) <=> \E i \in DOMAIN s : u \in RowsOf(s[i])
           /\ \A i, j \in DOMAIN s : i # j => RowsOf(s[i]) \cap RowsOf(s[j]) = {}
<1>1. UNION {RowsOf(s[i]) : i \in DOMAIN s} = ToSet(t) <=>
        \A u : u \in ToSet(t) <=> \E i \in DOMAIN s : u \in RowsOf(s[i])
  OBVIOUS
<1> QED BY <1>1, Zenon DEF EachOnce

(* Every row of an event was taken, under a number no larger than the last. *)
LEMMA RowsTaken ==
  ASSUME NEW h \in Seq(FeedEvent), NEW t \in Seq(Row), Orderly(h, t),
         NEW i \in 1 .. Len(h)
  PROVE  /\ RowsOf(h[i]) \subseteq ToSet(t)
         /\ FirstRow(h[i]) \in 1 .. Len(t)
         /\ \A u \in ToSet(t) : u \in Row /\ u.n \in 1 .. Len(t)
<1>1. /\ DOMAIN h = 1 .. Len(h) /\ DOMAIN t = 1 .. Len(t) /\ h[i] \in FeedEvent
      /\ \A k \in 1 .. Len(t) : t[k] \in Row
  BY LenProperties, ElementOfSeq
<1>2. RowsOf(h[i]) \subseteq ToSet(t)
  BY <1>1 DEF Orderly, EachOnce
<1>3. \A u \in ToSet(t) : u \in Row /\ u.n \in 1 .. Len(t)
  BY <1>1 DEF Orderly, NumberedInTurn, ToSet
<1>4. CASE h[i].kind = "batch"
  <2>1. h[i].batch.updates # <<>> BY <1>1, <1>4 DEF Orderly
  <2>2. h[i].batch.updates \in Seq(Row)
    BY <1>1, <1>4 DEF FeedEvent, Batch
  <2>3. 1 \in DOMAIN h[i].batch.updates
    BY <2>1, <2>2, EmptySeq, LenProperties
  <2>4. h[i].batch.updates[1] \in RowsOf(h[i])
    BY <1>4, <2>3 DEF RowsOf, ToSet
  <2> QED BY <1>2, <1>3, <1>4, <2>4 DEF FirstRow
<1>5. CASE h[i].kind # "batch"
  <2>1. h[i].row \in RowsOf(h[i]) BY <1>5 DEF RowsOf
  <2> QED BY <1>2, <1>3, <1>5, <2>1 DEF FirstRow
<1> QED BY <1>2, <1>3, <1>4, <1>5

(* The rows of a sequence with one more. *)
LEMMA RowsAppended ==
  ASSUME NEW t \in Seq(Row), NEW r \in Row
  PROVE  ToSet(Append(t, r)) = ToSet(t) \cup {r}
<1>1. /\ Len(t) \in Nat /\ DOMAIN t = 1 .. Len(t)
      /\ Append(t, r) \in Seq(Row) /\ Len(Append(t, r)) = Len(t) + 1
      /\ \A k \in 1 .. Len(t) : Append(t, r)[k] = t[k]
      /\ Append(t, r)[Len(t) + 1] = r
  BY LenProperties, AppendProperties
<1>2. DOMAIN Append(t, r) = 1 .. Len(t) + 1 BY <1>1, LenProperties
<1> DEFINE g == Append(t, r)
<1> HIDE DEF g
<1>3. /\ DOMAIN g = 1 .. Len(t) + 1
      /\ \A k \in 1 .. Len(t) : g[k] = t[k]
      /\ g[Len(t) + 1] = r
  BY <1>1, <1>2 DEF g
<1>4. ToSet(g) = ToSet(t) \cup {r} BY <1>1, <1>3 DEF ToSet
<1> QED BY <1>4 DEF g

(* The next row keeps the numbering, and is none of those before it. *)
LEMMA NextRow ==
  ASSUME NEW t \in Seq(Row), NumberedInTurn(t), NEW r \in Row, r.n = Len(t) + 1
  PROVE  /\ NumberedInTurn(Append(t, r)) /\ Append(t, r) \in Seq(Row)
         /\ ToSet(Append(t, r)) = ToSet(t) \cup {r} /\ r \notin ToSet(t)
<1>1. /\ Len(t) \in Nat /\ DOMAIN t = 1 .. Len(t)
      /\ Append(t, r) \in Seq(Row) /\ Len(Append(t, r)) = Len(t) + 1
      /\ \A k \in 1 .. Len(t) : Append(t, r)[k] = t[k]
      /\ Append(t, r)[Len(t) + 1] = r
  BY LenProperties, AppendProperties
<1>2. DOMAIN Append(t, r) = 1 .. Len(t) + 1 BY <1>1, LenProperties
<1> DEFINE g == Append(t, r)
<1> HIDE DEF g
<1>3. /\ g \in Seq(Row) /\ DOMAIN g = 1 .. Len(t) + 1
      /\ \A k \in 1 .. Len(t) : g[k] = t[k]
      /\ g[Len(t) + 1] = r
  BY <1>1, <1>2 DEF g
<1>4. NumberedInTurn(g) BY <1>1, <1>3 DEF NumberedInTurn
<1>5. ToSet(g) = ToSet(t) \cup {r} BY RowsAppended DEF g
<1>6. r \notin ToSet(t) BY <1>1 DEF NumberedInTurn, ToSet
<1> QED BY <1>3, <1>4, <1>5, <1>6 DEF g

(* An event made of the next row alone goes last; a batch must be of another run
   than the batch before it. *)
LEMMA OrderlyAppend ==
  ASSUME NEW h \in Seq(FeedEvent), NEW t \in Seq(Row), Orderly(h, t),
         NEW r \in Row, r.n = Len(t) + 1,
         NEW e \in FeedEvent, RowsOf(e) = {r}, FirstRow(e) = r.n,
         e.kind = "batch" =>
           OfOneRun(e.batch) /\ e.batch.updates # <<>> /\ Key(e.batch) = Key(r)
           /\ LastRunEnded(h, r)
  PROVE  Orderly(Append(h, e), Append(t, r))
<1> DEFINE g == Append(h, e)
           n == Len(h)
<1>1. /\ n \in Nat /\ DOMAIN h = 1 .. n /\ Len(t) \in Nat
      /\ g \in Seq(FeedEvent) /\ Len(g) = n + 1
      /\ \A k \in 1 .. n : g[k] = h[k]
      /\ g[n + 1] = e
  BY LenProperties, AppendProperties
<1>2. DOMAIN g = 1 .. n + 1 BY <1>1, LenProperties
<1> HIDE DEF g, n
<1>3. /\ NumberedInTurn(Append(t, r)) /\ ToSet(Append(t, r)) = ToSet(t) \cup {r}
      /\ r \notin ToSet(t)
  BY NextRow DEF Orderly
<1>4. \A k \in 1 .. n : RowsOf(h[k]) \subseteq ToSet(t) /\ FirstRow(h[k]) \in 1 .. Len(t)
  BY RowsTaken DEF n
<1>5. ByArrival(g)
  <2>1. ByArrival(h) BY DEF Orderly, InOrder
  <2> QED BY <1>1, <1>2, <1>4, <2>1 DEF ByArrival
<1>6. RunsApart(g)
  <2> SUFFICES ASSUME NEW i \in DOMAIN g, NEW j \in DOMAIN g, i < j,
                      g[i].kind = "batch", g[j].kind = "batch",
                      \A k \in i + 1 .. j - 1 : g[k].kind # "batch"
               PROVE  Key(g[i].batch) # Key(g[j].batch)
    BY DEF RunsApart
  <2>1. CASE j <= n
    <3>1. RunsApart(h) BY DEF Orderly, InOrder
    <3>2. i \in DOMAIN h /\ j \in DOMAIN h /\ h[i] = g[i] /\ h[j] = g[j]
          /\ \A k \in i + 1 .. j - 1 : h[k] = g[k]
      BY <1>1, <1>2, <2>1
    <3> QED BY <3>1, <3>2 DEF RunsApart
  <2>2. CASE j = n + 1
    <3>1. i \in DOMAIN h /\ g[i] = h[i] /\ g[j] = e BY <1>1, <1>2, <2>2
    <3>2. \A m \in DOMAIN h : m > i => h[m].kind # "batch"
      <4>1. \A m \in DOMAIN h : m > i => m \in i + 1 .. j - 1 /\ g[m] = h[m]
        BY <1>1, <1>2, <2>2
      <4> QED BY <4>1
    <3> QED BY <3>1, <3>2 DEF LastRunEnded
  <2> QED BY <1>1, <1>2, <2>1, <2>2
<1>7. \A i \in DOMAIN g : g[i].kind = "batch" =>
                          OfOneRun(g[i].batch) /\ g[i].batch.updates # <<>>
  BY <1>1, <1>2 DEF Orderly, InOrder
<1>8. EachOnce(g, Append(t, r))
  <2>1. EachOnce(h, t) BY DEF Orderly
  <2>2. \A u : u \in ToSet(t) <=> \E i \in 1 .. n : u \in RowsOf(h[i])
    BY <1>1, <2>1, RowsGathered, Zenon
  <2>3. \A u : (\E i \in 1 .. n + 1 : u \in RowsOf(g[i])) <=> u \in ToSet(t) \cup {r}
    <3>1. \A i \in 1 .. n + 1 : i \in 1 .. n \/ i = n + 1 BY <1>1
    <3>2. 1 .. n \subseteq 1 .. n + 1 /\ n + 1 \in 1 .. n + 1 BY <1>1
    <3>3. /\ \A i \in 1 .. n : RowsOf(g[i]) = RowsOf(h[i])
          /\ RowsOf(g[n + 1]) = {r}
      BY <1>1
    <3> QED BY <2>2, <3>1, <3>2, <3>3
  <2>4. \A i, j \in 1 .. n + 1 : i # j => RowsOf(g[i]) \cap RowsOf(g[j]) = {}
    <3> SUFFICES ASSUME NEW i \in 1 .. n + 1, NEW j \in 1 .. n + 1, i # j
                 PROVE  RowsOf(g[i]) \cap RowsOf(g[j]) = {}
      OBVIOUS
    <3>1. CASE i <= n /\ j <= n BY <1>1, <2>1, <3>1 DEF EachOnce
    <3>2. CASE i <= n /\ j = n + 1 BY <1>1, <1>3, <1>4, <3>2
    <3>3. CASE i = n + 1 /\ j <= n BY <1>1, <1>3, <1>4, <3>3
    <3> QED BY <1>1, <3>1, <3>2, <3>3
  <2>5. \A u : u \in ToSet(Append(t, r)) <=> \E i \in DOMAIN g : u \in RowsOf(g[i])
    BY <1>2, <1>3, <2>3
  <2>6. \A i, j \in DOMAIN g : i # j => RowsOf(g[i]) \cap RowsOf(g[j]) = {}
    BY <1>2, <2>4, Zenon
  <2> QED BY <2>5, <2>6, RowsGathered, Zenon
<1> QED BY <1>3, <1>5, <1>6, <1>7, <1>8 DEF Orderly, InOrder, g

(* The next row joins a batch of its own run. *)
LEMMA OrderlyExtend ==
  ASSUME NEW h \in Seq(FeedEvent), NEW t \in Seq(Row), Orderly(h, t),
         NEW r \in Row, r.n = Len(t) + 1,
         NEW g \in Seq(FeedEvent), Len(g) = Len(h), NEW p \in 1 .. Len(h),
         \A k \in 1 .. Len(h) : k # p => g[k] = h[k],
         h[p].kind = "batch", g[p].kind = "batch",
         Key(r) = Key(h[p].batch), Key(g[p].batch) = Key(h[p].batch),
         g[p].batch.snapshot <=> h[p].batch.snapshot \/ r.snapshot,
         g[p].batch.updates = Append(h[p].batch.updates, r)
  PROVE  Orderly(g, Append(t, r))
<1> DEFINE n == Len(h)
           us == h[p].batch.updates
<1>1. /\ n \in Nat /\ DOMAIN h = 1 .. n /\ DOMAIN g = 1 .. n /\ Len(t) \in Nat
      /\ h[p] \in FeedEvent
  BY LenProperties, ElementOfSeq
<1>2. us \in Seq(Row) BY <1>1 DEF FeedEvent, Batch
<1>3. us # <<>> BY <1>1 DEF Orderly
<1> HIDE DEF n, us
<1>4. /\ Append(us, r) # <<>> /\ Append(us, r)[1] = us[1]
      /\ ToSet(Append(us, r)) = ToSet(us) \cup {r}
  <2>1. /\ Len(us) \in Nat \ {0} /\ DOMAIN us = 1 .. Len(us)
        /\ Append(us, r) \in Seq(Row) /\ Append(us, r) # <<>>
        /\ Len(Append(us, r)) = Len(us) + 1
        /\ \A k \in 1 .. Len(us) : Append(us, r)[k] = us[k]
        /\ Append(us, r)[Len(us) + 1] = r
    BY <1>2, <1>3, EmptySeq, LenProperties, AppendProperties
  <2>2. ToSet(Append(us, r)) = ToSet(us) \cup {r} BY <1>2, RowsAppended
  <2> QED BY <2>1, <2>2
<1>5. g[p].batch.updates = Append(us, r) BY DEF us
<1>6. /\ RowsOf(g[p]) = RowsOf(h[p]) \cup {r} /\ FirstRow(g[p]) = FirstRow(h[p])
      /\ RowsOf(h[p]) = ToSet(us)
  BY <1>4, <1>5 DEF RowsOf, FirstRow, us
<1>7. /\ NumberedInTurn(Append(t, r)) /\ ToSet(Append(t, r)) = ToSet(t) \cup {r}
      /\ r \notin ToSet(t)
  BY NextRow DEF Orderly
<1>8. \A k \in 1 .. n : /\ g[k].kind = h[k].kind
                       /\ FirstRow(g[k]) = FirstRow(h[k])
                       /\ Key(g[k].batch) = Key(h[k].batch)
                       /\ RowsOf(h[k]) \subseteq ToSet(t)
  BY <1>6, RowsTaken DEF n
<1>9. ByArrival(g)
  <2>1. ByArrival(h) BY DEF Orderly, InOrder
  <2> QED BY <1>1, <1>8, <2>1 DEF ByArrival
<1>10. RunsApart(g)
  <2> SUFFICES ASSUME NEW i \in DOMAIN g, NEW j \in DOMAIN g, i < j,
                      g[i].kind = "batch", g[j].kind = "batch",
                      \A k \in i + 1 .. j - 1 : g[k].kind # "batch"
               PROVE  Key(g[i].batch) # Key(g[j].batch)
    BY DEF RunsApart
  <2>1. RunsApart(h) BY DEF Orderly, InOrder
  <2>2. \A k \in i + 1 .. j - 1 : k \in 1 .. n BY <1>1
  <2>3. \A k \in i + 1 .. j - 1 : h[k].kind # "batch" BY <1>8, <2>2
  <2>4. /\ h[i].kind = "batch" /\ h[j].kind = "batch"
        /\ Key(h[i].batch) = Key(g[i].batch) /\ Key(h[j].batch) = Key(g[j].batch)
    BY <1>1, <1>8
  <2> QED BY <1>1, <2>1, <2>3, <2>4 DEF RunsApart
<1>11. \A i \in DOMAIN g : g[i].kind = "batch" =>
                           OfOneRun(g[i].batch) /\ g[i].batch.updates # <<>>
  <2> SUFFICES ASSUME NEW i \in DOMAIN g, g[i].kind = "batch"
               PROVE  OfOneRun(g[i].batch) /\ g[i].batch.updates # <<>>
    OBVIOUS
  <2>1. CASE i # p BY <1>1, <2>1 DEF Orderly, InOrder, n
  <2>2. CASE i = p
    <3>1. OfOneRun(h[p].batch) BY <1>1 DEF Orderly, InOrder, n
    <3>2. /\ \A u \in ToSet(us) : Key(u) = Key(h[p].batch)
          /\ h[p].batch.snapshot <=> \E u \in ToSet(us) : u.snapshot
      BY <3>1 DEF OfOneRun, us
    <3>3. \A u \in ToSet(Append(us, r)) : Key(u) = Key(g[p].batch)
      BY <1>4, <3>2
    <3>4. g[p].batch.snapshot <=> \E u \in ToSet(Append(us, r)) : u.snapshot
      BY <1>4, <3>2
    <3> QED BY <1>4, <1>5, <2>2, <3>3, <3>4 DEF OfOneRun
  <2> QED BY <2>1, <2>2
<1>12. EachOnce(g, Append(t, r))
  <2>1. EachOnce(h, t) BY DEF Orderly
  <2>2. /\ \A u : u \in ToSet(t) <=> \E i \in 1 .. n : u \in RowsOf(h[i])
        /\ \A i, j \in 1 .. n : i # j => RowsOf(h[i]) \cap RowsOf(h[j]) = {}
    BY <1>1, <2>1, RowsGathered, Zenon
  <2>3. \A k \in 1 .. n : k # p => RowsOf(g[k]) = RowsOf(h[k]) BY DEF n
  <2>4. p \in 1 .. n BY DEF n
  <2>5. \A u : (\E i \in 1 .. n : u \in RowsOf(g[i])) <=> u \in ToSet(t) \cup {r}
    BY <1>6, <2>2, <2>3, <2>4
  <2>6. \A u : u \in ToSet(Append(t, r)) <=> \E i \in DOMAIN g : u \in RowsOf(g[i])
    BY <1>1, <1>7, <2>5
  <2>7. \A i, j \in 1 .. n : i # j => RowsOf(g[i]) \cap RowsOf(g[j]) = {}
    <3> SUFFICES ASSUME NEW i \in 1 .. n, NEW j \in 1 .. n, i # j
                 PROVE  RowsOf(g[i]) \cap RowsOf(g[j]) = {}
      OBVIOUS
    <3>1. CASE i # p /\ j # p BY <2>2, <2>3, <3>1
    <3>0. \A k \in 1 .. n : r \notin RowsOf(h[k]) BY <1>7, <1>8
    <3>2. CASE i = p
      <4>1. RowsOf(g[i]) = RowsOf(h[i]) \cup {r} /\ RowsOf(g[j]) = RowsOf(h[j])
        BY <1>6, <2>3, <3>2
      <4>2. RowsOf(h[i]) \cap RowsOf(h[j]) = {} BY <2>2
      <4> QED BY <3>0, <4>1, <4>2, Zenon
    <3>3. CASE j = p
      <4>1. RowsOf(g[j]) = RowsOf(h[j]) \cup {r} /\ RowsOf(g[i]) = RowsOf(h[i])
        BY <1>6, <2>3, <3>3
      <4>2. RowsOf(h[i]) \cap RowsOf(h[j]) = {} BY <2>2
      <4> QED BY <3>0, <4>1, <4>2, Zenon
    <3> QED BY <3>1, <3>2, <3>3
  <2>8. \A i, j \in DOMAIN g : i # j => RowsOf(g[i]) \cap RowsOf(g[j]) = {}
    BY <1>1, <2>7, Zenon
  <2> QED BY <2>6, <2>8, RowsGathered, Zenon
<1> QED BY <1>7, <1>9, <1>10, <1>11, <1>12 DEF Orderly, InOrder

(* What comes first is in order when the whole is. *)
LEMMA PrefixInOrder ==
  ASSUME NEW s \in Seq(FeedEvent), NEW w \in Seq(FeedEvent), InOrder(s \o w)
  PROVE  InOrder(s)
<1> DEFINE g == s \o w
           n == Len(s)
<1>1. /\ n \in Nat /\ DOMAIN s = 1 .. n /\ Len(w) \in Nat
      /\ g \in Seq(FeedEvent) /\ Len(g) = n + Len(w)
      /\ \A k \in 1 .. n : g[k] = s[k]
  BY LenProperties, ConcatProperties
<1>2. DOMAIN g = 1 .. n + Len(w) BY <1>1, LenProperties
<1>3. InOrder(g) OBVIOUS
<1> HIDE DEF g, n
<1>4. \A k \in DOMAIN s : k \in DOMAIN g /\ g[k] = s[k] BY <1>1, <1>2
<1>5. ByArrival(s) BY <1>3, <1>4 DEF InOrder, ByArrival
<1>6. RunsApart(s)
  <2> SUFFICES ASSUME NEW i \in DOMAIN s, NEW j \in DOMAIN s, i < j,
                      s[i].kind = "batch", s[j].kind = "batch",
                      \A k \in i + 1 .. j - 1 : s[k].kind # "batch"
               PROVE  Key(s[i].batch) # Key(s[j].batch)
    BY DEF RunsApart
  <2>1. \A k \in i + 1 .. j - 1 : k \in DOMAIN s BY <1>1
  <2>2. \A k \in i + 1 .. j - 1 : g[k].kind # "batch" BY <1>4, <2>1
  <2>3. RunsApart(g) BY <1>3 DEF InOrder
  <2> QED BY <1>4, <2>2, <2>3 DEF RunsApart
<1>7. \A i \in DOMAIN s : s[i].kind = "batch" => OfOneRun(s[i].batch)
  BY <1>3, <1>4 DEF InOrder
<1> QED BY <1>5, <1>6, <1>7 DEF InOrder

-----------------------------------------------------------------------------
(* Handed, step by step. *)

(* What Handed is made of has its type. *)
LEMMA HandedTypes ==
  ASSUME FeedTypes, FeedControl
  PROVE  /\ Stream \in Seq(FeedEvent) /\ Waiting \in Seq(FeedEvent)
         /\ Handed \in Seq(FeedEvent) /\ Taken \in Seq(Row)
         /\ FlushPending \in Seq(FeedEvent)
<1>1. FlushPending \in Seq(FeedEvent) BY FlushParts DEF FeedTypes
<1>2. Stream \in Seq(FeedEvent) BY ConcatProperties DEF Stream, FeedTypes
<1>3. Waiting \in Seq(FeedEvent)
  BY <1>1, EmptySeq DEF Waiting, FeedTypes, FeedControl
<1>4. Handed \in Seq(FeedEvent) BY <1>2, <1>3, ConcatProperties DEF Handed
<1>5. Taken \in Seq(Row)
  <2>1. CASE wpc = "push" /\ then = "trade"
    <3>1. Head(rows) \in Row BY <2>1, HeadTailProperties DEF FeedTypes, FeedControl
    <3>2. Numbered(Head(rows)) \in Row BY <3>1, NumberedRow DEF FeedTypes
    <3> QED BY <2>1, <3>2, AppendProperties DEF Taken, FeedTypes
  <2>2. CASE ~(wpc = "push" /\ then = "trade") BY <2>2 DEF Taken, FeedTypes
  <2> QED BY <2>1, <2>2
<1> QED BY <1>1, <1>2, <1>3, <1>4, <1>5

(* An element moves from the head of one sequence to the end of the other. *)
LEMMA MoveOver ==
  ASSUME NEW S, NEW s \in Seq(S), NEW t \in Seq(S), t # <<>>
  PROVE  Append(s, Head(t)) \o Tail(t) = s \o t
<1>1. /\ Head(t) \in S /\ Tail(t) \in Seq(S) /\ Len(Tail(t)) = Len(t) - 1
      /\ \A i \in 1 .. Len(Tail(t)) : Tail(t)[i] = t[i + 1]
      /\ Len(t) \in Nat \ {0} /\ Len(s) \in Nat
  BY HeadTailProperties, EmptySeq, LenProperties
<1>2. Head(t) = t[1] OBVIOUS
<1> DEFINE a == Append(s, Head(t))
<1>3. /\ a \in Seq(S) /\ Len(a) = Len(s) + 1 /\ a[Len(s) + 1] = t[1]
      /\ \A i \in 1 .. Len(s) : a[i] = s[i]
  BY <1>1, <1>2, AppendProperties
<1> HIDE DEF a
<1>4. /\ a \o Tail(t) \in Seq(S) /\ Len(a \o Tail(t)) = Len(a) + Len(Tail(t))
      /\ \A i \in 1 .. Len(a) + Len(Tail(t)) :
           (a \o Tail(t))[i] = IF i <= Len(a) THEN a[i] ELSE Tail(t)[i - Len(a)]
  BY <1>1, <1>3, ConcatProperties
<1>5. /\ s \o t \in Seq(S) /\ Len(s \o t) = Len(s) + Len(t)
      /\ \A i \in 1 .. Len(s) + Len(t) :
           (s \o t)[i] = IF i <= Len(s) THEN s[i] ELSE t[i - Len(s)]
  BY ConcatProperties
<1>6. \A i \in 1 .. Len(s) + Len(t) : (a \o Tail(t))[i] = (s \o t)[i]
  <2> SUFFICES ASSUME NEW i \in 1 .. Len(s) + Len(t)
               PROVE  (a \o Tail(t))[i] = (s \o t)[i]
    OBVIOUS
  <2>1. CASE i <= Len(s) BY <1>1, <1>3, <1>4, <1>5, <2>1
  <2>2. CASE i = Len(s) + 1 BY <1>1, <1>3, <1>4, <1>5, <2>2
  <2>3. CASE i > Len(s) + 1
    <3>1. (a \o Tail(t))[i] = Tail(t)[i - (Len(s) + 1)] BY <1>1, <1>3, <1>4, <2>3
    <3>2. i - (Len(s) + 1) \in 1 .. Len(Tail(t)) BY <1>1, <2>3
    <3>3. Tail(t)[i - (Len(s) + 1)] = t[(i - (Len(s) + 1)) + 1] BY <1>1, <3>2
    <3>4. (i - (Len(s) + 1)) + 1 = i - Len(s) BY <1>1
    <3>5. ~(i <= Len(s)) BY <1>1, <2>3
    <3>6. (s \o t)[i] = t[i - Len(s)] BY <1>5, <3>5
    <3> QED BY <3>1, <3>3, <3>4, <3>6
  <2>4. i <= Len(s) \/ i = Len(s) + 1 \/ i > Len(s) + 1 BY <1>1
  <2> QED BY <2>1, <2>2, <2>3, <2>4
<1>7. a \o Tail(t) = s \o t
  BY <1>1, <1>3, <1>4, <1>5, <1>6, SeqEqual
<1> QED BY <1>7 DEF a

(* Appending to the second part appends to the whole. *)
LEMMA ConcatAppend ==
  ASSUME NEW S, NEW s \in Seq(S), NEW t \in Seq(S), NEW e \in S
  PROVE  s \o Append(t, e) = Append(s \o t, e)
<1>1. <<e>> \in Seq(S) /\ s \o t \in Seq(S) BY ConcatProperties
<1>2. Append(t, e) = t \o <<e>> /\ Append(s \o t, e) = (s \o t) \o <<e>>
  BY <1>1, AppendIsConcat
<1> QED BY <1>1, <1>2, ConcatAssociative

(* The parts of Handed a step may leave alone. *)
heldVars == <<wpc, rows, pendingVars, out, then, events, seen, accepted>>

(* What is pending is flushed the same until it changes. *)
LEMMA FlushKept ==
  ASSUME UNCHANGED pendingVars
  PROVE  FlushPending' = FlushPending /\ HasBatch' = HasBatch
<1>1. pending_batch' = pending_batch /\ pending_trades' = pending_trades
  BY DEF pendingVars
<1>2. HasBatch' = HasBatch BY <1>1 DEF HasBatch
<1> QED BY <1>1, <1>2, Zenon DEF FlushPending

(* A step that leaves those parts alone. *)
LEMMA HeldKept ==
  ASSUME HandedInv, UNCHANGED heldVars, Stopped => Stopped'
  PROVE  HandedInv'
<1>1. /\ wpc' = wpc /\ rows' = rows /\ UNCHANGED pendingVars
      /\ pending_trades' = pending_trades /\ out' = out /\ then' = then
      /\ events' = events /\ seen' = seen /\ accepted' = accepted
  BY DEF heldVars, pendingVars
<1>2. HasBatch' = HasBatch /\ FlushPending' = FlushPending BY <1>1, FlushKept
<1>3. Handed' = Handed BY <1>1, <1>2, Zenon DEF Handed, Stream, Waiting
<1>4. Taken' = Taken BY <1>1, Zenon DEF Taken, Numbered
<1> QED BY <1>1, <1>2, <1>3, <1>4, Zenon DEF HandedInv

(* The receive thread moves between frames and rows with nothing accepted. *)
LEMMA HandedBetweenRows ==
  ASSUME HandedInv, wpc \in {"frames", "rows"}, wpc' \in {"frames", "rows"},
         UNCHANGED <<apc, pendingVars, events, seen, accepted>>
  PROVE  HandedInv'
<1>1. /\ apc' = apc /\ UNCHANGED pendingVars /\ pending_trades' = pending_trades
      /\ events' = events /\ seen' = seen /\ accepted' = accepted
  BY DEF pendingVars
<1>2. HasBatch' = HasBatch /\ FlushPending' = FlushPending BY <1>1, FlushKept
<1>3. Waiting = FlushPending /\ Waiting' = FlushPending' BY DEF Waiting
<1>4. Handed' = Handed BY <1>1, <1>2, <1>3, Zenon DEF Handed, Stream
<1>5. wpc # "push" /\ wpc' # "push" OBVIOUS
<1>6. Taken' = Taken BY <1>1, <1>5 DEF Taken
<1>7. Stopped' = Stopped BY <1>1 DEF Stopped
<1> QED BY <1>1, <1>2, <1>4, <1>5, <1>6, <1>7, Zenon DEF HandedInv

(* The session starts with nothing handed over. *)
LEMMA HandedAtStart ==
  ASSUME FeedTypes, FeedControl, HandedInv, wpc = "none", wpc' = "frames",
         apc = "new", UNCHANGED <<pendingVars, events, seen, accepted>>
  PROVE  HandedInv'
<1>1. /\ UNCHANGED pendingVars /\ pending_trades' = pending_trades
      /\ events' = events /\ seen' = seen /\ accepted' = accepted
  BY DEF pendingVars
<1>2. /\ pending_batch = NoBatch /\ pending_trades = <<>> /\ events = <<>>
      /\ seen = <<>> /\ accepted = <<>>
  BY DEF FeedControl
<1>3. ~HasBatch BY <1>2, NoBatchType DEF HasBatch
<1>4. FlushPending = <<>> BY <1>2, <1>3, FlushParts DEF FeedTypes
<1>5. HasBatch' = HasBatch /\ FlushPending' = FlushPending BY <1>1, FlushKept
<1>6. Waiting = <<>> BY DEF Waiting
<1>7. Waiting' = <<>> BY <1>4, <1>5 DEF Waiting
<1>8. Handed' = Handed /\ Handed = <<>>
  <2>1. Stream' = Stream BY <1>1 DEF Stream
  <2>2. Stream = <<>> BY <1>2, EmptySeq, ConcatEmptySeq DEF Stream
  <2> QED BY <1>6, <1>7, <2>1, <2>2, EmptySeq, ConcatEmptySeq DEF Handed
<1>9. Taken' = Taken BY <1>1 DEF Taken
<1>10. ~Stopped BY DEF Stopped
<1>11. NoBatchIn(Handed) BY <1>8, EmptySeq, LenProperties DEF NoBatchIn
<1> QED BY <1>1, <1>2, <1>8, <1>9, <1>10, <1>11 DEF HandedInv

(* The run under way is handed to the pushes: the loop ends. *)
LEMMA HandedLeaveLoop ==
  ASSUME HandedInv, LeaveLoop PROVE HandedInv'
<1>1. /\ wpc = "frames" /\ wpc' = "push" /\ then' = "final" /\ out' = FlushPending
      /\ apc' = apc /\ events' = events /\ seen' = seen /\ accepted' = accepted
  BY DEF LeaveLoop, ringVars
<1>2. Waiting' = Waiting BY <1>1 DEF Waiting
<1>3. Handed' = Handed BY <1>1, <1>2, Zenon DEF Handed, Stream
<1>4. Taken' = Taken BY <1>1 DEF Taken
<1>5. Stopped' = Stopped BY <1>1 DEF Stopped
<1> QED BY <1>1, <1>3, <1>4, <1>5 DEF HandedInv

(* A depth row of another run ends the run under way. *)
LEMMA HandedRunEnds ==
  ASSUME FeedTypes, FeedControl, HandedInv, DepthRow, ~SameBatch(Head(rows))
  PROVE  HandedInv'
<1>1. /\ wpc = "rows" /\ wpc' = "push" /\ then' = "depth" /\ out' = FlushPending
      /\ apc' = apc /\ events' = events /\ seen' = seen /\ accepted' = accepted
      /\ rows' = rows /\ rows # <<>>
  BY DEF DepthRow, ringVars
<1>2. Waiting' = Waiting /\ Waiting = FlushPending BY <1>1 DEF Waiting
<1>3. Handed' = Handed BY <1>1, <1>2, Zenon DEF Handed, Stream
<1>4. Taken' = Taken BY <1>1 DEF Taken
<1>5. Stopped' = Stopped BY <1>1 DEF Stopped
<1>6. ASSUME ~Stopped PROVE LastRunEnded(Handed, Head(rows))
  <2>1. CASE ~HasBatch
    <3>1. NoBatchIn(Handed) BY <1>1, <1>6, <2>1 DEF HandedInv
    <3> QED BY <3>1 DEF NoBatchIn, LastRunEnded
  <2>2. CASE HasBatch
    <3> DEFINE n == Len(Stream)
    <3>1. Stream \in Seq(FeedEvent) /\ FlushPending \in Seq(FeedEvent)
      BY HandedTypes
    <3>2. /\ Len(FlushPending) = 1 + Len(pending_trades)
          /\ FlushPending[1] = BatchEvent(pending_batch)
          /\ \A i \in 1 .. Len(pending_trades) :
               FlushPending[i + 1] = TradeEvent(pending_trades[i])
      BY <2>2, FlushParts DEF FeedTypes
    <3>3. n \in Nat /\ Len(pending_trades) \in Nat
      BY <3>1, LenProperties DEF FeedTypes
    <3>4. /\ Handed \in Seq(FeedEvent) /\ Len(Handed) = n + Len(FlushPending)
          /\ \A i \in 1 .. n + Len(FlushPending) :
               Handed[i] = IF i <= n THEN Stream[i] ELSE FlushPending[i - n]
      BY <3>1, <1>2, ConcatProperties DEF Handed
    <3>5. DOMAIN Handed = 1 .. n + 1 + Len(pending_trades)
      BY <3>2, <3>3, <3>4, LenProperties
    <3> HIDE DEF n
    <3>6. Handed[n + 1] = BatchEvent(pending_batch) BY <3>2, <3>3, <3>4
    <3>7. \A k \in DOMAIN Handed : k > n + 1 => Handed[k].kind # "batch"
      <4> SUFFICES ASSUME NEW k \in DOMAIN Handed, k > n + 1
                   PROVE  Handed[k].kind # "batch"
        OBVIOUS
      <4>1. Handed[k] = FlushPending[k - n] BY <3>2, <3>3, <3>4, <3>5
      <4>2. k - n - 1 \in 1 .. Len(pending_trades) /\ k - n = (k - n - 1) + 1
        BY <3>3, <3>5
      <4>3. FlushPending[k - n] = TradeEvent(pending_trades[k - n - 1])
        BY <3>2, <4>2
      <4> QED BY <4>1, <4>3 DEF TradeEvent
    <3>8. Key(pending_batch) # Key(Head(rows))
      BY <2>2 DEF SameBatch, Key
    <3>9. \A k \in DOMAIN Handed :
            (\A m \in DOMAIN Handed : m > k => Handed[m].kind # "batch")
            /\ Handed[k].kind = "batch" => k = n + 1
      <4> SUFFICES ASSUME NEW k \in DOMAIN Handed, Handed[k].kind = "batch",
                          \A m \in DOMAIN Handed : m > k => Handed[m].kind # "batch"
                   PROVE  k = n + 1
        OBVIOUS
      <4>1. ~(k > n + 1) BY <3>7
      <4>2. n + 1 \in DOMAIN Handed BY <3>3, <3>5
      <4>3. Handed[n + 1].kind = "batch" BY <3>6 DEF BatchEvent
      <4>4. ~(n + 1 > k) BY <4>2, <4>3
      <4> QED BY <4>1, <4>4, <3>3, <3>5
    <3>10. Handed[n + 1].batch = pending_batch BY <3>6 DEF BatchEvent
    <3> QED BY <3>8, <3>9, <3>10 DEF LastRunEnded
  <2> QED BY <2>1, <2>2
<1> QED BY <1>1, <1>3, <1>4, <1>5, <1>6 DEF HandedInv

(* EventReader::next takes the oldest event; the stream stays the same. *)
LEMMA HandedPop ==
  ASSUME FeedTypes, HandedInv, Pop PROVE HandedInv'
<1>1. /\ wpc' = wpc /\ rows' = rows /\ UNCHANGED pendingVars
      /\ pending_trades' = pending_trades /\ out' = out /\ then' = then
      /\ apc' = apc /\ accepted' = accepted /\ events # <<>>
      /\ events' = Tail(events) /\ seen' = Append(seen, Head(events))
  BY Zenon DEF Pop, parseVars, pendingVars
<1>2. HasBatch' = HasBatch /\ FlushPending' = FlushPending BY <1>1, FlushKept
<1>3. Stream' = Stream BY <1>1, MoveOver DEF Stream, FeedTypes
<1>4. Handed' = Handed BY <1>1, <1>2, <1>3, Zenon DEF Handed, Waiting
<1>5. Taken' = Taken BY <1>1, Zenon DEF Taken, Numbered
<1>6. Stopped' = Stopped BY <1>1 DEF Stopped
<1> QED BY <1>1, <1>2, <1>4, <1>5, <1>6, Zenon DEF HandedInv

(* A push moves the first event that waits to the end of the ring. *)
LEMMA HandedPush ==
  ASSUME FeedTypes, HandedInv, PushEvent PROVE HandedInv'
<1>1. /\ wpc = "push" /\ wpc' = "push" /\ rows' = rows /\ then' = then
      /\ pending_trades' = pending_trades /\ apc' = apc /\ accepted' = accepted
      /\ out # <<>> /\ events' = Append(events, Head(out)) /\ out' = Tail(out)
      /\ seen' = seen
      /\ pending_batch' = IF Head(out).kind = "batch" THEN NoBatch ELSE pending_batch
  BY DEF PushEvent, parseVars
<1>2. HasBatch' => HasBatch BY <1>1, NoBatchType DEF HasBatch
<1>3. Head(out) \in FeedEvent /\ Stream \in Seq(FeedEvent)
  BY <1>1, HeadTailProperties, ConcatProperties DEF FeedTypes, Stream
<1>4. Stream' = Append(Stream, Head(out))
  BY <1>1, <1>3, ConcatAppend DEF Stream, FeedTypes
<1>5. Waiting = out /\ Waiting' = Tail(out) BY <1>1 DEF Waiting
<1>6. Handed' = Handed
  BY <1>1, <1>3, <1>4, <1>5, MoveOver DEF Handed, FeedTypes
<1>7. Taken' = Taken BY <1>1, Zenon DEF Taken, Numbered
<1>8. Stopped' = Stopped BY <1>1 DEF Stopped
<1> QED BY <1>1, <1>2, <1>6, <1>7, <1>8 DEF HandedInv

(* A trade waits behind the batch it arrived in, or is pushed at once: either way
   it is the last event handed over. *)
LEMMA HandedTrade ==
  ASSUME FeedTypes, FeedControl, HandedInv, TradeRow PROVE HandedInv'
<1> DEFINE r == Numbered(Head(rows))
           e == TradeEvent(r)
<1>1. /\ wpc = "rows" /\ rows # <<>> /\ Head(rows).kind = "trade" /\ apc' = apc
      /\ pending_batch' = pending_batch /\ events' = events /\ seen' = seen
  BY DEF TradeRow, ringVars
<1>2. Head(rows) \in Row BY <1>1, HeadTailProperties DEF FeedTypes
<1>3. r \in Row /\ r.n = Len(accepted) + 1 BY <1>2, NumberedRow DEF FeedTypes
<1>4. e \in FeedEvent /\ RowsOf(e) = {r} /\ FirstRow(e) = r.n /\ e.kind = "trade"
  BY <1>3, EventTypes DEF TradeEvent, RowsOf, FirstRow
<1>5. Taken = accepted BY <1>1 DEF Taken
<1>6. /\ Handed \in Seq(FeedEvent) /\ Stream \in Seq(FeedEvent) /\ Stream' = Stream
      /\ FlushPending \in Seq(FeedEvent) /\ Handed = Stream \o FlushPending
      /\ accepted \in Seq(Row)
  BY <1>1, HandedTypes DEF Stream, Handed, Waiting, FeedTypes
<1>7. (HasBatch' <=> HasBatch) /\ Stopped' = Stopped BY <1>1 DEF HasBatch, Stopped
<1> SUFFICES ASSUME ~Stopped PROVE HandedInv'
  BY <1>7 DEF HandedInv
<1>8. Orderly(Append(Handed, e), Append(accepted, r))
  <2>1. Orderly(Handed, accepted) BY <1>5 DEF HandedInv
  <2> HIDE DEF r, e
  <2> QED BY <1>3, <1>4, <1>6, <2>1, OrderlyAppend
<1>9. CASE HasBatch
  <2>1. /\ wpc' = "rows" /\ pending_trades' = Append(pending_trades, r)
        /\ accepted' = Append(accepted, r)
    BY <1>1, <1>9 DEF TradeRow, Accept
  <2>2. FlushPending' = Append(FlushPending, e)
    <3>1. FlushPending \in Seq(FeedEvent)
          /\ Len(FlushPending) = 1 + Len(pending_trades)
          /\ FlushPending[1] = BatchEvent(pending_batch)
          /\ \A i \in 1 .. Len(pending_trades) :
               FlushPending[i + 1] = TradeEvent(pending_trades[i])
      BY <1>9, FlushParts DEF FeedTypes
    <3>2. /\ pending_trades' \in Seq(Row) /\ Len(pending_trades') = Len(pending_trades) + 1
          /\ Len(pending_trades) \in Nat
          /\ \A i \in 1 .. Len(pending_trades) : pending_trades'[i] = pending_trades[i]
          /\ pending_trades'[Len(pending_trades) + 1] = r
      BY <1>3, <2>1, AppendProperties, LenProperties DEF FeedTypes
    <3>3. pending_batch' \in Batch BY <1>1 DEF FeedTypes
    <3>4. /\ FlushPending' \in Seq(FeedEvent)
          /\ Len(FlushPending') = 1 + Len(pending_trades')
          /\ FlushPending'[1] = BatchEvent(pending_batch')
          /\ \A i \in 1 .. Len(pending_trades') :
               FlushPending'[i + 1] = TradeEvent(pending_trades'[i])
      BY <1>7, <1>9, <3>2, <3>3, NextFlushParts
    <3> DEFINE f == FlushPending
               g == FlushPending'
               a == Append(f, e)
    <3>5. /\ a \in Seq(FeedEvent) /\ Len(a) = Len(f) + 1 /\ a[Len(f) + 1] = e
          /\ \A i \in 1 .. Len(f) : a[i] = f[i]
      BY <1>4, <3>1, AppendProperties
    <3> HIDE DEF r, e, f, g, a
    <3>6. Len(g) = Len(a) BY <3>1, <3>2, <3>4, <3>5 DEF f, g
    <3>7. ASSUME NEW i \in 1 .. Len(a) PROVE g[i] = a[i]
      <4>1. CASE i = 1 BY <1>1, <3>1, <3>2, <3>4, <3>5, <4>1 DEF f, g
      <4>2. CASE i > 1 /\ i <= Len(f)
        <5>1. i - 1 \in 1 .. Len(pending_trades) /\ i - 1 \in 1 .. Len(pending_trades')
              /\ (i - 1) + 1 = i
          BY <3>1, <3>2, <4>2 DEF f
        <5>2. f[i] = TradeEvent(pending_trades[i - 1]) BY <3>1, <5>1 DEF f
        <5>3. g[i] = TradeEvent(pending_trades'[i - 1]) BY <3>4, <5>1 DEF g
        <5> QED BY <3>2, <3>5, <4>2, <5>1, <5>2, <5>3
      <4>3. CASE i = Len(f) + 1
        <5>1. i - 1 = Len(pending_trades) + 1 /\ i - 1 \in 1 .. Len(pending_trades')
              /\ (i - 1) + 1 = i
          BY <3>1, <3>2, <4>3 DEF f
        <5>2. g[i] = TradeEvent(pending_trades'[i - 1]) BY <3>4, <5>1 DEF g
        <5> QED BY <3>2, <3>5, <4>3, <5>1, <5>2 DEF e
      <4> QED BY <3>1, <3>2, <3>5, <4>1, <4>2, <4>3 DEF f
    <3>8. g \in Seq(FeedEvent) BY <3>4 DEF g
    <3>9. g = a BY <3>5, <3>6, <3>7, <3>8, SeqEqual
    <3> QED BY <3>9 DEF f, g, a
  <2>3. Waiting' = FlushPending' BY <2>1 DEF Waiting
  <2>4. Handed' = Append(Handed, e)
    BY <1>4, <1>6, <2>2, <2>3, ConcatAppend DEF Handed
  <2>5. Taken' = Append(accepted, r) BY <2>1 DEF Taken
  <2> QED BY <1>7, <1>8, <1>9, <2>1, <2>4, <2>5 DEF HandedInv
<1>10. CASE ~HasBatch
  <2>1. /\ wpc' = "push" /\ then' = "trade" /\ out' = <<e>>
        /\ pending_trades' = pending_trades /\ rows' = rows /\ accepted' = accepted
    BY <1>1, <1>10 DEF TradeRow, TradeEvent
  <2>2. NoBatchIn(Handed) /\ pending_trades = <<>> BY <1>1, <1>10 DEF HandedInv
  <2>3. FlushPending = <<>> BY <1>10, <2>2, FlushParts DEF FeedTypes
  <2>4. Handed = Stream BY <1>6, <2>3, ConcatEmptySeq
  <2>5. Waiting' = <<e>> BY <2>1 DEF Waiting
  <2>6. Handed' = Append(Handed, e)
    BY <1>4, <1>6, <2>4, <2>5, AppendIsConcat DEF Handed
  <2>7. Taken' = Append(accepted, r) BY <2>1 DEF Taken, Numbered
  <2>8. NoBatchIn(Append(Handed, e))
    <3> HIDE DEF e
    <3>1. /\ DOMAIN Handed = 1 .. Len(Handed) /\ Len(Handed) \in Nat
          /\ Append(Handed, e) \in Seq(FeedEvent)
          /\ Len(Append(Handed, e)) = Len(Handed) + 1
          /\ \A k \in 1 .. Len(Handed) : Append(Handed, e)[k] = Handed[k]
          /\ Append(Handed, e)[Len(Handed) + 1] = e
      BY <1>4, <1>6, LenProperties, AppendProperties
    <3>2. DOMAIN Append(Handed, e) = 1 .. Len(Handed) + 1 BY <3>1, LenProperties
    <3> QED BY <1>4, <2>2, <3>1, <3>2 DEF NoBatchIn
  <2> QED BY <1>7, <1>8, <1>10, <2>1, <2>2, <2>6, <2>7, <2>8 DEF HandedInv
<1> QED BY <1>9, <1>10

(* A depth row of the run under way joins its batch. *)
LEMMA HandedSameRun ==
  ASSUME FeedTypes, FeedControl, HandedInv, DepthRow, SameBatch(Head(rows))
  PROVE  HandedInv'
<1> DEFINE r == Numbered(Head(rows))
           b == pending_batch
           n == Len(Stream)
<1>1. /\ wpc = "rows" /\ wpc' = "rows" /\ rows # <<>> /\ apc' = apc
      /\ pending_batch' = [b EXCEPT !.snapshot = @ \/ Head(rows).snapshot,
                                    !.updates = Append(@, r)]
      /\ accepted' = Append(accepted, r) /\ pending_trades' = pending_trades
      /\ events' = events /\ seen' = seen
  BY Zenon DEF DepthRow, Accept, ringVars
<1>2. Head(rows) \in Row /\ b \in Batch /\ HasBatch
  BY <1>1, HeadTailProperties DEF FeedTypes, SameBatch
<1>3. /\ r \in Row /\ r.n = Len(accepted) + 1 /\ Key(r) = Key(b)
      /\ r.snapshot = Head(rows).snapshot
  <2>1. Key(Head(rows)) = Key(b) BY DEF SameBatch, Key
  <2> QED BY <1>2, <2>1, NumberedRow DEF FeedTypes
<1>4. /\ pending_batch' \in Batch
      /\ Key(pending_batch') = Key(b)
      /\ pending_batch'.updates = Append(b.updates, r)
      /\ pending_batch'.snapshot <=> b.snapshot \/ r.snapshot
  <2>1. pending_batch' \in Batch BY <1>1, <1>2, JoinedType DEF FeedTypes
  <2>2. /\ pending_batch'.ts = b.ts /\ pending_batch'.symbol = b.symbol
        /\ pending_batch'.updates = Append(b.updates, r)
    <3> HIDE DEF r
    <3> QED BY <1>1, <1>2 DEF Batch
  <2>3. pending_batch'.snapshot = (b.snapshot \/ Head(rows).snapshot)
    <3> HIDE DEF r
    <3> QED BY <1>1, <1>2 DEF Batch
  <2>4. Key(pending_batch') = Key(b) BY <2>2 DEF Key
  <2> QED BY <1>3, <2>1, <2>2, <2>3, <2>4
<1>5. /\ Handed \in Seq(FeedEvent) /\ Stream \in Seq(FeedEvent) /\ Stream' = Stream
      /\ Handed = Stream \o FlushPending /\ accepted \in Seq(Row) /\ Taken = accepted
      /\ pending_trades \in Seq(Row)
  BY <1>1, HandedTypes DEF Stream, Handed, Waiting, Taken, FeedTypes
<1>6. /\ FlushPending \in Seq(FeedEvent)
      /\ Len(FlushPending) = 1 + Len(pending_trades)
      /\ FlushPending[1] = BatchEvent(b)
      /\ \A i \in 1 .. Len(pending_trades) :
           FlushPending[i + 1] = TradeEvent(pending_trades[i])
  BY <1>2, <1>5, FlushParts
<1>7. HasBatch'
  <2>1. b.updates \in Seq(Row) BY <1>2 DEF Batch
  <2>2. Append(b.updates, r) # <<>>
    <3> HIDE DEF r, b
    <3> QED BY <1>3, <2>1, AppendProperties
  <2> QED BY <1>4, <2>2 DEF HasBatch
<1>8. /\ FlushPending' \in Seq(FeedEvent)
      /\ Len(FlushPending') = 1 + Len(pending_trades)
      /\ FlushPending'[1] = BatchEvent(pending_batch')
      /\ \A i \in 1 .. Len(pending_trades) :
           FlushPending'[i + 1] = TradeEvent(pending_trades[i])
  BY <1>1, <1>4, <1>5, <1>7, NextFlushParts
<1> SUFFICES ASSUME ~Stopped PROVE HandedInv'
  BY <1>1 DEF HandedInv, Stopped
<1>9. Orderly(Handed, accepted) BY <1>5 DEF HandedInv
<1>10. Handed' = Stream \o FlushPending' /\ Taken' = Append(accepted, r)
  BY <1>1, <1>5 DEF Handed, Waiting, Taken
<1> DEFINE f == FlushPending
           f2 == FlushPending'
           h == Stream \o f
           g == Stream \o f2
<1>11. n \in Nat /\ Len(pending_trades) \in Nat BY <1>5, LenProperties
<1>12. /\ f \in Seq(FeedEvent) /\ Len(f) = 1 + Len(pending_trades)
       /\ f2 \in Seq(FeedEvent) /\ Len(f2) = 1 + Len(pending_trades)
  BY <1>6, <1>8
<1> HIDE DEF f, f2
<1>13. /\ h \in Seq(FeedEvent) /\ Len(h) = n + (1 + Len(pending_trades))
       /\ \A i \in 1 .. n + (1 + Len(pending_trades)) :
            h[i] = IF i <= n THEN Stream[i] ELSE f[i - n]
  <2>1. /\ h \in Seq(FeedEvent) /\ Len(h) = n + Len(f)
        /\ \A i \in 1 .. n + Len(f) :
             h[i] = IF i <= n THEN Stream[i] ELSE f[i - n]
    <3>1. Stream \in Seq(FeedEvent) /\ f \in Seq(FeedEvent) BY <1>5, <1>12
    <3> QED BY ONLY <3>1, ConcatProperties
  <2> HIDE DEF h, n
  <2> QED BY <1>12, <2>1
<1>14. /\ g \in Seq(FeedEvent) /\ Len(g) = n + (1 + Len(pending_trades))
       /\ \A i \in 1 .. n + (1 + Len(pending_trades)) :
            g[i] = IF i <= n THEN Stream[i] ELSE f2[i - n]
  <2>1. /\ g \in Seq(FeedEvent) /\ Len(g) = n + Len(f2)
        /\ \A i \in 1 .. n + Len(f2) :
             g[i] = IF i <= n THEN Stream[i] ELSE f2[i - n]
    <3>1. Stream \in Seq(FeedEvent) /\ f2 \in Seq(FeedEvent) BY <1>5, <1>12
    <3> QED BY ONLY <3>1, ConcatProperties
  <2> HIDE DEF g, n
  <2> QED BY <1>12, <2>1
<1> HIDE DEF h, g, n, r
<1>15. n + 1 \in 1 .. Len(h) /\ Len(g) = Len(h) BY <1>11, <1>13, <1>14
<1>16. h[n + 1] = BatchEvent(b) /\ g[n + 1] = BatchEvent(pending_batch')
  BY <1>6, <1>8, <1>11, <1>13, <1>14 DEF f, f2
<1>17. ASSUME NEW k \in 1 .. Len(h), k # n + 1 PROVE g[k] = h[k]
  <2>1. CASE k <= n BY <1>11, <1>13, <1>14, <2>1
  <2>2. CASE k > n + 1
    <3>1. k - n - 1 \in 1 .. Len(pending_trades) /\ (k - n - 1) + 1 = k - n
      BY <1>11, <1>13, <2>2
    <3>2. f[k - n] = f2[k - n] BY <1>6, <1>8, <3>1 DEF f, f2
    <3> QED BY <1>11, <1>13, <1>14, <2>2, <3>2
  <2> QED BY <1>11, <1>13, <1>17, <2>1, <2>2
<1>18. /\ h[n + 1].kind = "batch" /\ g[n + 1].kind = "batch"
       /\ h[n + 1].batch = b /\ g[n + 1].batch = pending_batch'
  BY <1>16 DEF BatchEvent
<1>19. Orderly(h, accepted) BY <1>5, <1>9 DEF h, f
<1>20. Orderly(g, Append(accepted, r))
  <2>1. /\ Key(g[n + 1].batch) = Key(h[n + 1].batch) /\ Key(r) = Key(h[n + 1].batch)
        /\ g[n + 1].batch.updates = Append(h[n + 1].batch.updates, r)
        /\ g[n + 1].batch.snapshot <=> h[n + 1].batch.snapshot \/ r.snapshot
    BY <1>3, <1>4, <1>18
  <2> QED
    BY <1>3, <1>5, <1>13, <1>14, <1>15, <1>17, <1>18, <1>19, <2>1, OrderlyExtend
<1> QED BY <1>1, <1>7, <1>10, <1>20 DEF HandedInv, g, f2

(* The pushes are over: the trade is accepted, the next run opens, or the receive
   thread is done. *)
LEMMA HandedPushesDone ==
  ASSUME FeedTypes, FeedTypes', FeedControl, HandedInv, PushesDone
  PROVE  HandedInv'
<1>1. /\ wpc = "push" /\ out = <<>> /\ apc' = apc /\ events' = events /\ seen' = seen
      /\ pending_trades' = IF then = "trade" THEN pending_trades ELSE <<>>
  BY DEF PushesDone, ringVars
<1>2. /\ Stream \in Seq(FeedEvent) /\ Stream' = Stream /\ Waiting = <<>>
      /\ accepted \in Seq(Row)
  BY <1>1, HandedTypes DEF Stream, Waiting, FeedTypes
<1>3. Handed = Stream BY <1>2, ConcatEmptySeq DEF Handed
<1> SUFFICES ASSUME ~Stopped PROVE HandedInv'
  BY <1>1 DEF HandedInv, Stopped
<1>4. CASE then = "trade"
  <2>1. /\ wpc' = "rows" /\ pending_batch' = pending_batch
        /\ accepted' = Append(accepted, Numbered(Head(rows)))
    BY <1>4 DEF PushesDone, Accept
  <2>2. ~HasBatch /\ NoBatchIn(Handed) /\ pending_trades' = <<>>
        /\ Orderly(Handed, Taken)
    BY <1>1, <1>4 DEF HandedInv
  <2>3. ~HasBatch' BY <2>1, <2>2 DEF HasBatch
  <2>4. FlushPending' = <<>> BY <2>2, <2>3, NextFlushParts DEF FeedTypes
  <2>5. Handed' = Handed
    BY <1>2, <1>3, <2>1, <2>4, ConcatEmptySeq DEF Handed, Waiting
  <2>6. Taken' = Taken BY <1>1, <1>4, <2>1 DEF Taken
  <2> QED BY <2>1, <2>2, <2>5, <2>6 DEF HandedInv
<1>5. CASE then = "depth"
  <2> DEFINE r == Numbered(Head(rows))
             b == NewBatch(Head(rows))
             e == BatchEvent(b)
  <2>1. /\ wpc' = "rows" /\ pending_batch' = b /\ pending_trades' = <<>>
        /\ accepted' = Append(accepted, r)
    BY <1>1, <1>5 DEF PushesDone, OpenBatch, Accept
  <2>2. Head(rows) \in Row BY <1>1, <1>5, HeadTailProperties DEF FeedControl, FeedTypes
  <2>3. /\ r \in Row /\ r.n = Len(accepted) + 1 /\ Key(r) = Key(Head(rows))
        /\ r.snapshot = Head(rows).snapshot
    BY <1>2, <2>2, NumberedRow
  <2>4. /\ b \in Batch /\ Key(b) = Key(Head(rows)) /\ b.updates = <<r>>
        /\ b.snapshot = Head(rows).snapshot
    BY <1>2, <2>2, NewBatchType
  <2> HIDE DEF r, b
  <2>5. b.updates # <<>> /\ ToSet(b.updates) = {r} /\ b.updates[1] = r
    BY <2>4 DEF ToSet
  <2>6. /\ e \in FeedEvent /\ e.kind = "batch" /\ e.batch = b
        /\ RowsOf(e) = {r} /\ FirstRow(e) = r.n
    BY <2>4, <2>5, EventTypes DEF BatchEvent, RowsOf, FirstRow
  <2>7. OfOneRun(b) BY <2>3, <2>4, <2>5 DEF OfOneRun
  <2>8. LastRunEnded(Handed, r)
    BY <1>1, <1>5, <2>3 DEF HandedInv, LastRunEnded
  <2>9. Orderly(Handed, accepted)
    <3>1. Taken = accepted BY <1>5 DEF Taken
    <3> QED BY <3>1 DEF HandedInv
  <2> HIDE DEF e
  <2>10. Orderly(Append(Handed, e), Append(accepted, r))
    BY <1>2, <1>3, <2>3, <2>4, <2>5, <2>6, <2>7, <2>8, <2>9, OrderlyAppend
  <2>11. HasBatch' BY <2>1, <2>5 DEF HasBatch
  <2>12. /\ FlushPending' \in Seq(FeedEvent) /\ Len(FlushPending') = 1
         /\ FlushPending'[1] = e
    BY <2>1, <2>4, <2>11, NextFlushParts, EmptySeq DEF e
  <2>13. FlushPending' = <<e>>
    <3>1. <<e>> \in Seq(FeedEvent) /\ Len(<<e>>) = 1 /\ <<e>>[1] = e BY <2>6
    <3> QED BY <2>12, <3>1, SeqEqual
  <2>14. Handed' = Append(Handed, e)
    BY <1>2, <1>3, <2>1, <2>6, <2>13, AppendIsConcat DEF Handed, Waiting
  <2>15. Taken' = Append(accepted, r) BY <2>1 DEF Taken
  <2> QED BY <2>1, <2>10, <2>11, <2>14, <2>15 DEF HandedInv
<1>6. CASE then = "final"
  <2>1. wpc' = "ended" /\ accepted' = accepted
    BY <1>6 DEF PushesDone, ReceiveEnds
  <2>2. Handed' = Handed BY <1>2, <2>1 DEF Handed, Waiting
  <2>3. Taken' = Taken BY <1>6, <2>1 DEF Taken
  <2> QED BY <2>1, <2>2, <2>3 DEF HandedInv
<1> QED BY <1>4, <1>5, <1>6 DEF FeedControl

(* Nothing accepted, nothing handed over. *)
LEMMA HandedInit == Init => HandedInv
<1> SUFFICES ASSUME Init PROVE HandedInv
  OBVIOUS
<1>1. wpc = "none" /\ seen = <<>> /\ events = <<>> /\ accepted = <<>> BY DEF Init
<1>2. Stream = <<>> BY <1>1, EmptySeq, ConcatEmptySeq DEF Stream
<1>3. Handed = <<>> BY <1>1, <1>2, EmptySeq, ConcatEmptySeq DEF Handed, Waiting
<1>4. Taken = <<>> BY <1>1 DEF Taken
<1>5. DOMAIN Handed = {} /\ DOMAIN Taken = {} BY <1>3, <1>4
<1>6. EachOnce(Handed, Taken) BY <1>5 DEF EachOnce, ToSet
<1>7. Orderly(Handed, Taken)
  BY <1>5, <1>6 DEF Orderly, InOrder, ByArrival, RunsApart, NumberedInTurn
<1> QED BY <1>1, <1>7 DEF HandedInv

(* Every step keeps Handed orderly while nobody stops the feed. *)
LEMMA HandedStep ==
  ASSUME FeedTypes, FeedTypes', FeedControl, HandedInv, Next
  PROVE  HandedInv'
<1>1. ASSUME NEW a \in {<<>>, <<"refused">>, <<"late", "connects">>},
             NEW r \in Responses, Start(a, r)
      PROVE  HandedInv'
  <2>1. /\ apc = "new" /\ wpc = "none"
        /\ UNCHANGED <<rows, pendingVars, out, then, events, seen, accepted>>
    BY <1>1, Zenon DEF Start, FeedControl, parseVars, ringVars
  <2>2. CASE ConnectSocket(a) /\ Handshake(r)
    <3>1. wpc' = "frames" BY <1>1, <2>2 DEF Start
    <3>2. UNCHANGED <<pendingVars, events, seen, accepted>> BY <2>1, Zenon
    <3> QED BY <2>1, <3>1, <3>2, HandedAtStart
  <2>3. CASE ~(ConnectSocket(a) /\ Handshake(r))
    <3>1. wpc' = wpc BY <1>1, <2>3 DEF Start
    <3>2. UNCHANGED heldVars BY <2>1, <3>1, Zenon DEF heldVars
    <3>3. ~Stopped BY <2>1 DEF Stopped
    <3> QED BY <3>2, <3>3, HeldKept
  <2> QED BY <2>2, <2>3
<1>2. ASSUME NEW m \in Messages, NEW fin \in BOOLEAN, DataFrame(m, fin)
      PROVE  HandedInv'
  <2>1. wpc = "frames" /\ wpc' \in {"frames", "rows"} BY <1>2 DEF DataFrame
  <2>2. UNCHANGED <<apc, pendingVars, events, seen, accepted>>
    BY <1>2, Zenon DEF DataFrame, ringVars
  <2> QED BY <2>1, <2>2, HandedBetweenRows
<1>3. CASE ControlFrame \/ Deadline \/ ReaderStep \/ ReaderAbandons
  <2>1. UNCHANGED heldVars /\ apc' = apc
    BY <1>3, Zenon
    DEF ControlFrame, Deadline, ReaderStep, ReaderAbandons, heldVars, parseVars, ringVars
  <2>2. Stopped => Stopped' BY <2>1 DEF Stopped
  <2> QED BY <2>1, <2>2, HeldKept
<1>4. CASE StopBegins \/ StopReturns
  <2>1. Stopped' BY <1>4 DEF StopBegins, StopReturns, Stopped
  <2> QED BY <2>1 DEF HandedInv
<1>5. CASE SessionOver
  <2>1. UNCHANGED heldVars /\ apc' = apc
    BY <1>5, Zenon DEF SessionOver, feedVars, heldVars, parseVars, ringVars
  <2>2. Stopped => Stopped' BY <2>1 DEF Stopped
  <2> QED BY <2>1, <2>2, HeldKept
<1>6. CASE MessageDone \/ SkipRow
  <2>1. wpc = "rows" /\ wpc' \in {"frames", "rows"} BY <1>6 DEF MessageDone, SkipRow
  <2>2. UNCHANGED <<apc, pendingVars, events, seen, accepted>>
    BY <1>6, Zenon DEF MessageDone, SkipRow, ringVars
  <2> QED BY <2>1, <2>2, HandedBetweenRows
<1>7. CASE PushFails
  <2>1. wpc = "push" /\ ~running /\ apc' = apc BY <1>7 DEF PushFails
  <2>2. Stopped' BY <2>1 DEF FeedControl, Stopped
  <2> QED BY <2>2 DEF HandedInv
<1>8. CASE LeaveLoop BY <1>8, HandedLeaveLoop
<1>9. CASE TradeRow BY <1>9, HandedTrade
<1>10. CASE DepthRow BY <1>10, HandedSameRun, HandedRunEnds
<1>11. CASE PushEvent BY <1>11, HandedPush
<1>12. CASE PushesDone BY <1>12, HandedPushesDone
<1>13. CASE Pop BY <1>13, HandedPop
<1> QED
  BY <1>1, <1>2, <1>3, <1>4, <1>5, <1>6, <1>7, <1>8, <1>9, <1>10, <1>11, <1>12, <1>13,
     Zenon DEF Next, Receive

-----------------------------------------------------------------------------
(* Theorems. *)

(* FeedInv holds in every reachable state of the feed. *)
THEOREM FeedInvariant == FeedSpec => []FeedInv
<1>1. Init => FeedInv
  BY FeedTypesInit, FeedControlInit, RingBoundsInit, HandedInit DEF FeedInv
<1>2. FeedInv /\ [Next]_feedVars => FeedInv'
  <2> SUFFICES ASSUME FeedInv, [Next]_feedVars PROVE FeedInv'
    OBVIOUS
  <2>1. CASE Next
    <3>1. FeedTypes' /\ FeedControl'
      BY <2>1, FeedTypesStep, FeedControlStep DEF FeedInv
    <3>2. RingBounds' BY RingBoundsStep DEF FeedInv
    <3>3. HandedInv' BY <2>1, <3>1, HandedStep DEF FeedInv
    <3> QED BY <3>1, <3>2, <3>3 DEF FeedInv
  <2>2. CASE UNCHANGED feedVars
    <3>1. FeedTypes'
      BY <2>2, Zenon DEF FeedInv, FeedTypes, feedVars, parseVars, pendingVars, ringVars
    <3>2. FeedControl'
      BY <2>2, Zenon
      DEF FeedInv, FeedControl, Stopped, feedVars, parseVars, pendingVars, ringVars,
          flagVars
    <3>3. RingBounds' BY RingBoundsStep DEF FeedInv
    <3>4. UNCHANGED heldVars /\ apc' = apc
      BY <2>2, Zenon DEF feedVars, heldVars, parseVars, ringVars
    <3>5. Stopped => Stopped' BY <3>4 DEF Stopped
    <3>6. HandedInv' BY <3>4, <3>5, HeldKept DEF FeedInv
    <3> QED BY <3>1, <3>2, <3>3, <3>6 DEF FeedInv
  <2> QED BY <2>1, <2>2
<1> QED BY <1>1, <1>2, PTL DEF FeedSpec

(* For every capacity, the high-water mark the receive thread computes from the
   consumer's unsynchronised index never exceeds the ring. *)
THEOREM HighWaterWithinRing == FeedSpec => []HighWaterBounded
<1>1. FeedInv => HighWaterBounded BY DEF FeedInv, RingBounds, HighWaterBounded
<1> QED BY <1>1, FeedInvariant, PTL

(* For every script of messages, what reaches the ring keeps the venue's order:
   the trades behind the batch they interrupted, runs whole and apart. *)
THEOREM VenueOrderKept == FeedSpec => []StreamInOrder
<1>1. FeedInv => StreamInOrder
  <2> SUFFICES ASSUME FeedInv, ~Stopped PROVE InOrder(Stream)
    BY DEF StreamInOrder
  <2>1. Stream \in Seq(FeedEvent) /\ Waiting \in Seq(FeedEvent)
    BY HandedTypes DEF FeedInv
  <2>2. InOrder(Stream \o Waiting) BY DEF FeedInv, HandedInv, Orderly, Handed
  <2> QED BY <2>1, <2>2, PrefixInOrder
<1> QED BY <1>1, FeedInvariant, PTL

(* When next() first reports the end of a session nobody stopped, every accepted
   row is in exactly one of the events it handed back. *)
THEOREM SessionDelivered == FeedSpec => []DeliveredWhole
<1>1. FeedInv => DeliveredWhole
  <2> SUFFICES ASSUME FeedInv, rpc = "ended", ~Stopped PROVE EachOnce(seen, accepted)
    BY DEF DeliveredWhole
  <2>1. (wpc = "none" \/ wpc = "ended") /\ events = <<>> BY DEF FeedInv, FeedControl
  <2>2. seen \in Seq(FeedEvent) BY DEF FeedInv, FeedTypes
  <2>3. Stream = seen BY <2>1, <2>2, ConcatEmptySeq DEF Stream
  <2>4. Handed = seen BY <2>1, <2>2, <2>3, ConcatEmptySeq DEF Handed, Waiting
  <2>5. Taken = accepted BY <2>1 DEF Taken
  <2>6. EachOnce(Handed, Taken) BY DEF FeedInv, HandedInv, Orderly
  <2> QED BY <2>4, <2>5, <2>6
<1> QED BY <1>1, FeedInvariant, PTL
=============================================================================
