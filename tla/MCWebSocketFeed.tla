-------------------------- MODULE MCWebSocketFeed ---------------------------
(* WebSocketFeed on a few rows: two timestamps, a trade, a refused row. *)
EXTENDS WebSocketFeed

Depth(ts, snapshot) ==
  [kind |-> "depth", ts |-> ts, symbol |-> "s", snapshot |-> snapshot, n |-> 0]
Trade == [kind |-> "trade", ts |-> 0, symbol |-> "s", snapshot |-> FALSE, n |-> 0]
Bad == [kind |-> "bad", ts |-> 0, symbol |-> "s", snapshot |-> FALSE, n |-> 0]

MCMessages ==
  {<<Depth(1, FALSE)>>, <<Depth(1, TRUE), Depth(1, FALSE)>>, <<Depth(2, FALSE), Trade>>,
   <<Trade>>, <<Bad, Trade, Trade>>}
=============================================================================
