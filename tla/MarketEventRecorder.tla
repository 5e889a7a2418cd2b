------------------------ MODULE MarketEventRecorder -------------------------
(***************************************************************************)
(* MarketEventRecorder: the tap that writes the delivered events back out  *)
(* in the replay shapes.  The recorder is a record holding the rows of its *)
(* two files; Record gives the recorder after the call, or none where the  *)
(* code refuses the event.  Numbers are written exactly, so a row holds    *)
(* the values it was given.                                                *)
(***************************************************************************)
EXTENDS Integers, Sequences, SequencesExt

CONSTANTS
  Unwritable,     \* the names with a character the CSV cannot carry
  FlushEvery      \* the 4096 of record

NewRecorder ==
  [trades |-> <<>>, depth |-> <<>>, shape |-> "Unset", levels |-> 0,
   events |-> 0, flushed |-> 0]

WriteTrade(r, t) ==
  IF t.side \notin {"Buy", "Sell"} \/ t.symbol \in Unwritable THEN <<>>
  ELSE <<[r EXCEPT !.trades = Append(@, [ok |-> TRUE, symbol |-> t.symbol, ts |-> t.ts,
                                         id |-> t.sequence, side |-> t.side,
                                         price |-> t.price, amount |-> t.quantity])]>>

(* Mutant: every row carries the batch's timestamp. *)
WriteBatchOneTime(r, b) ==
  IF \/ r.shape = "Snapshot" \/ b.symbol \in Unwritable
     \/ \E i \in DOMAIN b.updates : b.updates[i].local # b.local
  THEN <<>>
  ELSE <<[r EXCEPT !.shape = "Incremental",
            !.depth = @ \o [i \in DOMAIN b.updates |->
                              [ok |-> TRUE, symbol |-> b.symbol, ts |-> b.ts,
                               local |-> b.updates[i].local,
                               snapshot |-> b.updates[i].snapshot, side |-> b.updates[i].side,
                               price |-> b.updates[i].price,
                               amount |-> b.updates[i].amount]]]>>

(* write_batch: a row per update, each with its own two timestamps. *)
WriteBatch(r, b) ==
  IF \/ r.shape = "Snapshot" \/ b.symbol \in Unwritable
     \/ \E i \in DOMAIN b.updates : b.updates[i].local # b.local
  THEN <<>>
  ELSE <<[r EXCEPT !.shape = "Incremental",
            !.depth = @ \o [i \in DOMAIN b.updates |->
                              [ok |-> TRUE, symbol |-> b.symbol, ts |-> b.updates[i].ts,
                               local |-> b.updates[i].local,
                               snapshot |-> b.updates[i].snapshot, side |-> b.updates[i].side,
                               price |-> b.updates[i].price,
                               amount |-> b.updates[i].amount]]]>>

(* write_snapshot: one header, so one level count for the whole file. *)
WriteSnapshot(r, s) ==
  IF \/ Len(s.bids) # Len(s.asks) \/ s.bids = <<>> \/ s.symbol \in Unwritable
     \/ r.shape = "Incremental"
     \/ r.shape = "Snapshot" /\ r.levels # Len(s.bids)
  THEN <<>>
  ELSE <<[r EXCEPT !.shape = "Snapshot", !.levels = Len(s.bids),
            !.depth = Append(@, [ok |-> TRUE, symbol |-> s.symbol, ts |-> s.ts,
                                 bids |-> s.bids, asks |-> s.asks])]>>

(* record, with the flush of every FlushEvery-th event. *)
Record(r, e) ==
  LET written == CASE e.kind = "trade" -> WriteTrade(r, e)
                   [] e.kind = "batch" -> WriteBatch(r, e)
                   [] e.kind = "depth" -> WriteSnapshot(r, e)
                   [] e.kind = "quote" -> <<>>
      n == r.events + 1
  IN  IF written = <<>> THEN <<>>
      ELSE <<[written[1] EXCEPT !.events = n,
                                !.flushed = IF n % FlushEvery = 0 THEN n ELSE @]>>
=============================================================================
