---------------------------- MODULE MCMarketData ----------------------------
(***************************************************************************)
(* The market data path on small files, in three parts chosen at the       *)
(* start: bytes cut into lines, a book under arbitrary updates, and files  *)
(* replayed, recorded and replayed again.                                  *)
(***************************************************************************)
EXTENDS L2ReplayFeed, LineReader

CONSTANT
  MaxBatches     \* bound: batches applied to the book in the book part

VARIABLE part

vars == <<part, pathVars, lineVars>>

TradeRow(ts, id) ==
  [ok |-> TRUE, symbol |-> "btc", ts |-> ts, id |-> id, side |-> "Buy", price |-> 4, amount |-> 1]
BadTrade == [TradeRow(2, 1) EXCEPT !.ok = FALSE]
OtherTrade == [TradeRow(2, 7) EXCEPT !.symbol = "eth"]
TradeFiles ==
  {<<>>, <<BadTrade>>, <<TradeRow(1, 1), TradeRow(3, 2)>>, <<TradeRow(3, 2), TradeRow(1, 3)>>,
   <<TradeRow(2, 1), TradeRow(2, 2)>>, <<TradeRow(2, 1), TradeRow(3, 1)>>}

BookRow(ts, local, snapshot, side, price, amount) ==
  [ok |-> TRUE, symbol |-> "btc", ts |-> ts, local |-> local, snapshot |-> snapshot,
   side |-> side, price |-> price, amount |-> amount]
BookRows ==
  {BookRow(1, 1, TRUE, "Buy", 2, 1), BookRow(1, 2, FALSE, "Sell", 6, 1),
   BookRow(2, 2, TRUE, "Sell", 6, 2), BookRow(3, 3, FALSE, "Buy", 2, 0),
   BookRow(2, 3, FALSE, "Buy", 5, 1), [BookRow(2, 2, FALSE, "Buy", 2, 1) EXCEPT !.symbol = "eth"],
   [BookRow(3, 3, FALSE, "Buy", 2, 1) EXCEPT !.ok = FALSE],
   BookRow(3, 4, FALSE, "Unknown", 2, 1)}
BookFiles == UNION {[1 .. n -> BookRows] : n \in 0 .. 3}

PriceLevel(price, quantity) == [price |-> price, quantity |-> quantity]
SnapshotRow(ts, bids, asks) ==
  [ok |-> TRUE, symbol |-> "btc", ts |-> ts, bids |-> bids, asks |-> asks]
SnapshotRows ==
  {SnapshotRow(1, <<PriceLevel(4, 1)>>, <<PriceLevel(6, 1)>>),
   SnapshotRow(2, <<PriceLevel(4, 2)>>, <<PriceLevel(4, 1)>>),
   SnapshotRow(3, <<PriceLevel(4, 1), PriceLevel(2, 1)>>, <<PriceLevel(6, 1), PriceLevel(8, 1)>>),
   SnapshotRow(3, <<PriceLevel(4, 1), PriceLevel(3, 1)>>, <<PriceLevel(6, 1), PriceLevel(8, 1)>>),
   SnapshotRow(2, <<PriceLevel(6, 1)>>, <<PriceLevel(4, 1)>>)}
SnapshotFiles == UNION {[1 .. n -> SnapshotRows] : n \in 1 .. 2}

OkxLevel(price, size) == [price |-> price, size |-> size]
OkxLine(ts, instrument, action, bids, asks) ==
  [ok |-> TRUE, ts |-> ts, instrument |-> instrument, action |-> action, bids |-> bids,
   asks |-> asks]
OkxFirst == OkxLine(1, "btc", "snapshot", <<OkxLevel(4, 3)>>, <<OkxLevel(6, 1)>>)
OkxLines ==
  {OkxLine(2, "btc", "update", <<OkxLevel(4, 0)>>, <<>>), OkxLine(2, "btc", "update", <<>>, <<OkxLevel(6, 5)>>),
   OkxLine(3, "btc", "update", <<OkxLevel(2, 1)>>, <<>>),
   OkxLine(3, "btc", "snapshot", <<OkxLevel(2, 1)>>, <<OkxLevel(8, 1)>>),
   OkxLine(3, "eth", "update", <<OkxLevel(2, 1)>>, <<>>), OkxLine(3, "btc", "delete", <<>>, <<>>),
   [OkxFirst EXCEPT !.ok = FALSE]}
OkxFiles == {<<OkxFirst>> \o f : f \in UNION {[1 .. n -> OkxLines] : n \in 0 .. 2}}

Ticker(ts, id, bid, ask) ==
  [ok |-> TRUE, ts |-> ts, id |-> id, bid |-> bid, bid_quantity |-> 1, ask |-> ask,
   ask_quantity |-> 1]
TickerFiles ==
  UNION {[1 .. n -> {Ticker(1, 1, 3, 5), Ticker(2, 2, 8, 9), Ticker(2, 3, 5, 4),
                     [Ticker(1, 1, 1, 1) EXCEPT !.ok = FALSE]}] : n \in 0 .. 2}
AggTrade(row, maker) == row @@ [buyer_is_maker |-> maker]

LiveBatch(ts, local, snapshot) ==
  Batch(<<BookRow(ts, local, snapshot, "Buy", 2 * local, 1)>>)
LiveEvents ==
  {LiveBatch(1, 1, TRUE), LiveBatch(2, 2, FALSE), LiveBatch(3, 3, FALSE),
   TradeEvent(TradeRow(1, 1), 1), TradeEvent(TradeRow(2, 2), 1)}
LiveStreams == {<<e>> \o f : e \in LiveEvents, f \in [1 .. 2 -> LiveEvents]}

(* A run over two files, or over a live stream, and the options it may have. *)
Input(trades_format, trade_rows, depth_format, depth_rows) ==
  [trades |-> trades_format, trade_rows |-> trade_rows, depth |-> depth_format,
   depth_rows |-> depth_rows, record |-> FALSE, paced |-> FALSE]

DepthFiles ==
  {Input("deribit_trades", t, "deribit_incremental", d) : t \in TradeFiles, d \in BookFiles}
  \cup {Input("deribit_trades", t, "deribit_snapshot", d) : t \in TradeFiles, d \in SnapshotFiles}
  \cup {Input("okx_trades", t, "okx_book", d) :
          t \in TradeFiles \cup {<<OtherTrade, TradeRow(2, 1)>>}, d \in OkxFiles}

QuoteFiles ==
  {Input("binance_trades", [i \in DOMAIN t |-> AggTrade(t[i], TRUE)], "binance_book", d) :
     t \in TradeFiles, d \in TickerFiles}

LiveRuns == {Input("live", <<>>, "live", d) : d \in LiveStreams}

MCSources ==
  {[s EXCEPT !.record = r, !.paced = p] : s \in DepthFiles, r \in BOOLEAN, p \in BOOLEAN}
  \cup QuoteFiles
  \cup {[s EXCEPT !.record = r] : s \in LiveRuns, r \in BOOLEAN}

(* One- and two-level batches on five prices, of which two share a tick. *)
MCUpdates ==
  {[ts |-> 1, local |-> 1, snapshot |-> FALSE, side |-> s, price |-> p, amount |-> a] :
     s \in {"Buy", "Sell"}, p \in {2, 3, 4, 8, 12}, a \in {0, 1, 2}}
MCBatches ==
  {[kind |-> "batch", ts |-> 1, local |-> 1, symbol |-> "btc", snapshot |-> f,
    updates |-> <<u>>] : u \in MCUpdates, f \in BOOLEAN}

NoInput == Input("deribit_trades", <<>>, "deribit_incremental", <<>>)

MCInit ==
  \/ part = "feed" /\ (\E s \in Sources : FeedInit(s)) /\ LineInit(<<>>)
  \/ part = "lines" /\ FeedInit(NoInput) /\ \E f \in Files : LineInit(f)
  \/ part = "book" /\ FeedInit(NoInput) /\ LineInit(<<>>)

ApplyBatch == part = "book" /\ book.sequence < MaxBatches /\ \E b \in MCBatches : ShowBatch(b)

MCNext ==
  \/ part = "feed" /\ FeedNext /\ UNCHANGED <<part, lineVars>>
  \/ part = "lines" /\ LineNext /\ UNCHANGED <<part, pathVars>>
  \/ ApplyBatch /\ UNCHANGED <<part, lineVars, feedVars>>
=============================================================================
