---------------------------- MODULE L2ReplayFeed ----------------------------
(***************************************************************************)
(* The market data path of a replay: L2ReplayFeed::run merges a trade and  *)
(* a depth reader (ReplayFeed::run a trade and a quote reader, a live      *)
(* session a single reader), paces, validates and delivers each event to a *)
(* callback that applies it to the book.  A run that asks for a recording  *)
(* also writes each event down before it is applied, and when it is over   *)
(* the recording may be replayed through the same path.                    *)
(*                                                                         *)
(* The loop runs on one thread, so a delivery is one step; how long the    *)
(* callback keeps it busy is a choice over Busy.                           *)
(***************************************************************************)
EXTENDS L2OrderBook, MarketDataValidator, MarketReaders, MarketEventRecorder

CONSTANTS
  Sources,        \* the runs: [trades, depth : reader formats, files], and whether
                  \* the run is recorded (--record) and paced
  Speed,          \* pacing_.speed
  MaxLateness,    \* pacing_.max_lateness_ns
  Busy            \* how long a callback may take

ASSUME PacingAssumption == Speed \in Nat \ {0} /\ MaxLateness \in Nat

(* The command line refuses to record quotes; only files have a schedule, and the
   quote replay has a fixed delay instead. *)
ASSUME SourcesAssumption ==
  \A s \in Sources :
    /\ {s.record, s.paced} \subseteq BOOLEAN
    /\ s.record => s.depth # "binance_book"
    /\ s.paced => s.depth \notin {"binance_book", "live"}

VARIABLES
  source,       \* the run: its files and options
  pass,         \* 1, or 2 for the replay of the recording
  fpc,          \* "open", "merge", "done" or "threw"
  trades,       \* the trade reader
  depth,        \* the depth or quote reader, or the single reader of a live session
  trade, next,  \* the event held of each
  validator, recorder,
  start, wall,  \* start_wall_ns_ and the clock
  delivered,    \* history: the events of this pass, each with its wall time
  first         \* history: the events of the first pass

feedVars == <<source, pass, fpc, trades, depth, trade, next, validator, recorder, start,
              wall, delivered, first>>
pathVars == <<bookVars, feedVars>>

FeedInit(input) ==
  /\ source = input
  /\ pass = 1 /\ fpc = "open"
  /\ trades = NewReader(source.trades, source.trade_rows)
  /\ depth = NewReader(source.depth, source.depth_rows)
  /\ trade = <<>> /\ next = <<>>
  /\ validator = NewValidator /\ recorder = NewRecorder
  /\ start = 0 /\ wall = 0 /\ delivered = <<>> /\ first = <<>>
  /\ BookInit

LiveSession == source.depth = "live"

-----------------------------------------------------------------------------
(* The first reads. *)
Open ==
  /\ fpc = "open"
  /\ LET t == NextOf(trades)
         d == NextOf(depth)
     IN
     /\ trades' = t.reader /\ trade' = t.event
     /\ depth' = d.reader /\ next' = d.event
     /\ fpc' = IF t.threw \/ d.threw THEN "threw" ELSE "merge"
  /\ UNCHANGED <<bookVars, source, pass, validator, recorder, start, wall, delivered, first>>

(* Mutant: the trade goes first when both carry the same timestamp. *)
UseDepthStrict == next # <<>> /\ (trade = <<>> \/ next[1].ts < trade[1].ts)

(* At equal timestamps the book moves before the trade is seen. *)
UseDepth == next # <<>> /\ (trade = <<>> \/ next[1].ts <= trade[1].ts)

(* pace: where the schedule puts an event, counted from the first one. *)
Target(e) ==
  IF delivered = <<>> THEN wall
  ELSE start + (e.ts - delivered[1].event.ts) \div Speed

(* The wait, skipped by a run that is too far behind; an unpaced run has none. *)
PacedTo(e) ==
  LET late == wall - Target(e)
  IN  IF source.paced /\ late <= MaxLateness /\ Target(e) > wall THEN Target(e) ELSE wall

(* The callback: record when there is a recorder, then apply to the book. *)
Applied(e) ==
  CASE e.kind = "batch" -> ApplyIncrementalBatch(book, e).ok
    [] e.kind = "depth" -> ApplySnapshot(book, e).ok
    [] OTHER -> TRUE

Consume(e) ==
  CASE e.kind = "batch" -> ShowBatch(e)
    [] e.kind = "depth" -> ShowSnapshot(e)
    [] OTHER -> UNCHANGED bookVars

Recorded(e) == IF source.record THEN Record(recorder, e) ELSE <<recorder>>

Accepted(e) == Validate(validator, e) # <<>> /\ Recorded(e) # <<>> /\ Applied(e)

(* One turn of the loop: the event, then the next read of its stream.  An unpaced
   run never asks for the time. *)
Deliver ==
  /\ fpc = "merge" /\ (trade # <<>> \/ next # <<>>)
  /\ LET e == IF UseDepth THEN next[1] ELSE trade[1]
         read == NextOf(IF UseDepth THEN depth ELSE trades)
     IN
     /\ Accepted(e)
     /\ start' = IF delivered = <<>> THEN wall ELSE start
     /\ delivered' = Append(delivered, [event |-> e, at |-> PacedTo(e)])
     /\ IF source.paced THEN \E b \in Busy : wall' = PacedTo(e) + b ELSE UNCHANGED wall
     /\ validator' = Validate(validator, e)[1]
     /\ recorder' = Recorded(e)[1]
     /\ Consume(e)
     /\ IF UseDepth THEN depth' = read.reader /\ next' = read.event /\ UNCHANGED <<trades, trade>>
        ELSE trades' = read.reader /\ trade' = read.event /\ UNCHANGED <<depth, next>>
     /\ fpc' = IF read.threw THEN "threw" ELSE "merge"
  /\ UNCHANGED <<source, pass, first>>

(* A refusal by the validator, the recorder or the book ends the run; what the
   failing event has left in them is not read again. *)
Refuse ==
  /\ fpc = "merge" /\ (trade # <<>> \/ next # <<>>)
  /\ ~Accepted(IF UseDepth THEN next[1] ELSE trade[1])
  /\ fpc' = "threw"
  /\ UNCHANGED <<bookVars, source, pass, trades, depth, trade, next, validator, recorder,
                 start, wall, delivered, first>>

(* Both readers are at their end; a run without events throws. *)
Finish ==
  /\ fpc = "merge" /\ trade = <<>> /\ next = <<>>
  /\ fpc' = IF validator.events = 0 THEN "threw" ELSE "done"
  /\ UNCHANGED <<bookVars, source, pass, trades, depth, trade, next, validator, recorder,
                 start, wall, delivered, first>>

(* The recording is replayed, with the same options: a new feed over the two files;
   the depth reader is chosen by the header, which a recording without depth does
   not have. *)
Replay ==
  /\ fpc = "done" /\ pass = 1 /\ source.record /\ recorder.shape # "Unset"
  /\ pass' = 2 /\ fpc' = "open"
  /\ trades' = NewReader("deribit_trades", recorder.trades)
  /\ depth' = NewReader(IF recorder.shape = "Snapshot" THEN "deribit_snapshot"
                        ELSE "deribit_incremental", recorder.depth)
  /\ trade' = <<>> /\ next' = <<>>
  /\ validator' = NewValidator /\ recorder' = NewRecorder
  /\ start' = 0 /\ wall' = 0 /\ delivered' = <<>>
  /\ first' = delivered
  /\ book' = EmptyBook /\ shown' = NoLevels /\ burst' = FALSE
  /\ UNCHANGED source

FeedNext == Open \/ Deliver \/ Refuse \/ Finish \/ Replay

-----------------------------------------------------------------------------
(* Properties. *)

Events(history) == [i \in DOMAIN history |-> history[i].event]

IsTrade(e) == e.kind = "trade"

IsBook(e) == ~IsTrade(e)

RECURSIVE StreamOf(_)

(* What a reader gives when nothing else is read. *)
StreamOf(r) ==
  LET got == NextOf(r) IN
  IF got.event = <<>> THEN <<>> ELSE got.event \o StreamOf(got.reader)

(* The ids of the trades a file holds for the instrument; only OKX's names others. *)
TradeIds ==
  LET own == IF source.trades # "okx_trades" THEN source.trade_rows
             ELSE SelectSeq(source.trade_rows, LAMBDA row : row.symbol = Symbol)
  IN  [i \in DOMAIN own |-> own[i].id]

IdsOf(events) == [i \in DOMAIN events |-> events[i].sequence]

(* l2_replay_feed.cpp run and run_single: what a run delivers is in the order of
   time, with the book ahead of a trade of the same time when the run merges two
   files; and a run that ends well, recorded or not, has delivered every trade of
   the file for the instrument and every event of the depth reader, each in its
   order. *)
MergeInOrder ==
  LET e == Events(delivered) IN
  /\ \A i \in 2 .. Len(e) : e[i - 1].ts <= e[i].ts
  /\ ~LiveSession \/ pass = 2 =>
       \A i \in 2 .. Len(e) : IsTrade(e[i - 1]) /\ IsBook(e[i]) => e[i - 1].ts < e[i].ts
  /\ fpc = "done" /\ pass = 1 =>
       IF LiveSession THEN e = source.depth_rows
       ELSE /\ IdsOf(SelectSeq(e, IsTrade)) = TradeIds
            /\ SelectSeq(e, IsBook) = StreamOf(NewReader(source.depth, source.depth_rows))

(* The snapshot readers number their events by themselves, and the numbers are
   not part of a row. *)
Unnumbered(events) ==
  [i \in DOMAIN events |-> IF events[i].kind = "depth" THEN [events[i] EXCEPT !.sequence = 0]
                                                      ELSE events[i]]

SameWhenReplayed ==
  pass = 2 =>
    /\ fpc # "threw"
    /\ fpc = "done" => Unnumbered(Events(delivered)) = Unnumbered(Events(first))

(* The recording of a replay is the replay: read back through the same readers
   and the same merge it is accepted, and gives the same events in the same
   order. *)
RecordingReplays == ~LiveSession => SameWhenReplayed

(* l2_replay_feed.cpp pace: no event of a paced run is delivered before its place in
   the schedule its timestamp sets, whatever the delays of the callbacks and however
   the run catches up. *)
NeverEarly ==
  source.paced => \A i \in DOMAIN delivered :
    delivered[i].at - start >= (delivered[i].event.ts - delivered[1].event.ts) \div Speed

(* A run is the recording in order and in time: MergeInOrder, NeverEarly. *)
ReplayFaithful == MergeInOrder /\ NeverEarly
=============================================================================
