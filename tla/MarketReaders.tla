--------------------------- MODULE MarketReaders ----------------------------
(***************************************************************************)
(* The readers that turn the rows of a file into market events: Deribit's  *)
(* incremental book, book snapshots and trades, OKX's book lines and       *)
(* trades, and Binance's trades and book tickers.                          *)
(*                                                                         *)
(* A row is a record of its parsed fields; ok = FALSE is a row the parsers *)
(* refuse.  A reader is a record; Next gives the reader after the call     *)
(* with the event (none at the end of the file), or threw.  Blank rows and *)
(* headers are skipped by all of them and are left out.                    *)
(***************************************************************************)
EXTENDS Integers, Sequences, SequencesExt, FiniteSetsExt

CONSTANTS
  Symbol,            \* the instrument the run asked for
  ContractNum, ContractDen   \* contract_size * quantity_scale, as a ratio

NewReader(format, rows) ==
  [format |-> format, rows |-> rows, started |-> FALSE, sequence |-> 0]

Ended(r) == [reader |-> r, event |-> <<>>, threw |-> FALSE]
Threw(r) == [reader |-> r, event |-> <<>>, threw |-> TRUE]
Gives(r, n, e) ==
  [reader |-> [r EXCEPT !.rows = SubSeq(@, n + 1, Len(@))], event |-> <<e>>, threw |-> FALSE]

(* How many rows from the first satisfy Same, the first one included. *)
RunLength(rows, Same(_)) ==
  LET other == {i \in 2 .. Len(rows) : ~Same(rows[i])}
  IN  IF other = {} THEN Len(rows) ELSE Min(other) - 1

-----------------------------------------------------------------------------
(* DeribitIncrementalBookReader *)

(* append_update, for a run of rows. *)
Updates(rows) ==
  [i \in DOMAIN rows |-> [ts |-> rows[i].ts, local |-> rows[i].local,
                          snapshot |-> rows[i].snapshot, side |-> rows[i].side,
                          price |-> rows[i].price, amount |-> rows[i].amount]]

Batch(rows) ==
  [kind |-> "batch", ts |-> rows[1].ts, local |-> rows[1].local,
   symbol |-> rows[1].symbol, updates |-> Updates(rows),
   snapshot |-> \E i \in DOMAIN rows : rows[i].snapshot]

(* read_batch: the rows that share the first one's local timestamp; the row that
   ends the run is parsed too, and kept for the next call. *)
ReadBatch(r) ==
  LET n == RunLength(r.rows, LAMBDA row : row.ok /\ row.local = r.rows[1].local)
      run == SubSeq(r.rows, 1, n)
  IN  CASE r.rows = <<>> -> Ended(r)
        [] r.rows # <<>> /\ ~r.rows[1].ok -> Threw(r)
        [] r.rows # <<>> /\ n < Len(r.rows) /\ ~r.rows[n + 1].ok -> Threw(r)
        [] r.rows # <<>> /\ \E i \in 1 .. n : run[i].symbol # run[1].symbol -> Threw(r)
        [] OTHER -> Gives(r, n, Batch(run))

RECURSIVE NextIncremental(_)

(* next: batches before the first snapshot are dropped. *)
NextIncremental(r) ==
  LET got == ReadBatch(r) IN
  IF got.threw \/ got.event = <<>> THEN got
  ELSE IF r.started \/ got.event[1].snapshot
  THEN [got EXCEPT !.reader.started = TRUE]
  ELSE NextIncremental(got.reader)

-----------------------------------------------------------------------------
(* DeribitBookSnapshotReader, DeribitTradeReader *)

NextSnapshot(r) ==
  IF r.rows = <<>> THEN Ended(r)
  ELSE LET row == Head(r.rows) IN
       IF ~row.ok THEN Threw(r)
       ELSE Gives([r EXCEPT !.sequence = @ + 1], 1,
                  [kind |-> "depth", ts |-> row.ts, symbol |-> row.symbol,
                   sequence |-> r.sequence + 1, bids |-> row.bids, asks |-> row.asks])

TradeEvent(row, quantity) ==
  [kind |-> "trade", ts |-> row.ts, symbol |-> row.symbol, price |-> row.price,
   quantity |-> quantity, side |-> row.side, sequence |-> row.id]

NextTrade(r) ==
  IF r.rows = <<>> THEN Ended(r)
  ELSE LET row == Head(r.rows) IN
       IF ~row.ok \/ row.side \notin {"Buy", "Sell"} THEN Threw(r)
       ELSE Gives(r, 1, TradeEvent(row, row.amount))

-----------------------------------------------------------------------------
(* OkxBookJsonReader, OkxTradeCsvReader *)

(* amount_of, contract_amount: contracts to units, rounded to the nearest. *)
ContractAmount(size) ==
  IF size <= 0 THEN 0 ELSE (2 * size * ContractNum + ContractDen) \div (2 * ContractDen)

Levels(levels) ==
  [i \in DOMAIN levels |-> [price |-> levels[i].price,
                            quantity |-> ContractAmount(levels[i].size)]]

(* The ordering token of a snapshot is its timestamp. *)
MakeSnapshot(line) ==
  [kind |-> "depth", ts |-> line.ts, symbol |-> line.instrument, sequence |-> line.ts,
   bids |-> Levels(line.bids), asks |-> Levels(line.asks)]

LineUpdates(line) ==
  LET updates(levels, side) ==
        [i \in DOMAIN levels |-> [ts |-> line.ts, local |-> line.ts, snapshot |-> FALSE,
                                  side |-> side, price |-> levels[i].price,
                                  amount |-> ContractAmount(levels[i].size)]]
  IN  updates(line.bids, "Buy") \o updates(line.asks, "Sell")

(* make_batch: every following line of the same timestamp joins the batch, its
   instrument and action unread. *)
MakeBatch(lines) ==
  [kind |-> "batch", ts |-> lines[1].ts, local |-> lines[1].ts,
   symbol |-> lines[1].instrument, snapshot |-> FALSE,
   updates |-> FoldLeft(LAMBDA acc, line : acc \o LineUpdates(line), <<>>, lines)]

RECURSIVE NextOkxBook(_)

NextOkxBook(r) ==
  LET line == Head(r.rows)
      n == RunLength(r.rows, LAMBDA l : l.ok /\ l.ts = line.ts)
      rest == [r EXCEPT !.rows = Tail(@)]
  IN  CASE r.rows = <<>> -> Ended(r)
        [] r.rows # <<>> /\ ~line.ok -> Threw(r)
        [] r.rows # <<>> /\ line.ok /\ line.instrument # Symbol -> NextOkxBook(rest)
        [] r.rows # <<>> /\ line.ok /\ line.instrument = Symbol /\ line.action = "snapshot"
             -> Gives(r, 1, MakeSnapshot(line))
        [] OTHER ->
             IF line.action # "update" THEN Threw(r)
             ELSE IF n < Len(r.rows) /\ ~r.rows[n + 1].ok THEN Threw(r)
             ELSE Gives(r, n, MakeBatch(SubSeq(r.rows, 1, n)))

RECURSIVE NextOkxTrade(_)

NextOkxTrade(r) ==
  IF r.rows = <<>> THEN Ended(r)
  ELSE LET row == Head(r.rows) IN
       IF ~row.ok THEN Threw(r)
       ELSE IF row.symbol # Symbol THEN NextOkxTrade([r EXCEPT !.rows = Tail(@)])
       ELSE IF row.side \notin {"Buy", "Sell"} THEN Threw(r)
       ELSE Gives(r, 1, TradeEvent(row, ContractAmount(row.amount)))

-----------------------------------------------------------------------------
(* BinanceAggTradeReader, BinanceBookTickerReader: one instrument per file. *)

NextAggTrade(r) ==
  IF r.rows = <<>> THEN Ended(r)
  ELSE LET row == Head(r.rows) IN
       IF ~row.ok THEN Threw(r)
       ELSE Gives(r, 1, [TradeEvent(row, row.amount) EXCEPT !.symbol = Symbol,
                           !.side = IF row.buyer_is_maker THEN "Sell" ELSE "Buy"])

NextBookTicker(r) ==
  IF r.rows = <<>> THEN Ended(r)
  ELSE LET row == Head(r.rows) IN
       IF ~row.ok THEN Threw(r)
       ELSE Gives(r, 1, [kind |-> "quote", ts |-> row.ts, symbol |-> Symbol,
                         bid |-> row.bid, bid_quantity |-> row.bid_quantity,
                         ask |-> row.ask, ask_quantity |-> row.ask_quantity,
                         sequence |-> row.id])

(* A live session's reader hands back whole events (see WebSocketFeed). *)
NextLive(r) ==
  IF r.rows = <<>> THEN Ended(r) ELSE Gives(r, 1, Head(r.rows))

(* IMarketEventReader::next, by the reader the router made. *)
NextOf(r) ==
  CASE r.format = "deribit_incremental" -> NextIncremental(r)
    [] r.format = "deribit_snapshot" -> NextSnapshot(r)
    [] r.format = "deribit_trades" -> NextTrade(r)
    [] r.format = "okx_book" -> NextOkxBook(r)
    [] r.format = "okx_trades" -> NextOkxTrade(r)
    [] r.format = "binance_trades" -> NextAggTrade(r)
    [] r.format = "binance_book" -> NextBookTicker(r)
    [] r.format = "live" -> NextLive(r)
=============================================================================
