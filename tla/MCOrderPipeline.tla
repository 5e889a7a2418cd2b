-------------------------- MODULE MCOrderPipeline --------------------------
(* Model-checking instance of OrderPipeline: a small menu of tops and public  *)
(* trades, one clock tick apart, at most MaxEvents of them and no view once   *)
(* the ids run out.                                                           *)
EXTENDS OrderPipeline

CONSTANTS
  MaxEvents,     \* views and trades in a run
  Tops,          \* the tops of book of the views, <<bid, size, ask, size>>
  Prints         \* the public trades, <<side, price, quantity>>

VARIABLE events

mcVars == <<systemVars, events>>

Normal == [o \in Owners |-> o]

(* A market that moves a tick and loses a side, and prints that reach the quotes. *)
MovingTop == {<<1, 1, 2, 1>>, <<2, 1, 3, 1>>, <<1, 1, 0, 0>>}
ManySides == {<<"Sell", 1, 3>>, <<"Buy", 3, 3>>}

TopView(t) == [bid |-> t[1], bid_qty |-> t[2], ask |-> t[3], ask_qty |-> t[4],
               ts |-> now + 1]

MCInit == PInit /\ events = 0

MCView ==
  /\ events < MaxEvents /\ {next_id, next_id + 1} \subseteq Ids
  /\ events' = events + 1
  /\ \E t \in Tops : ProcessView(TopView(t))

MCTrade ==
  /\ events < MaxEvents
  /\ events' = events + 1
  /\ \E p \in Prints :
       ProcessTrade([kind |-> "trade", ts |-> now + 1, side |-> p[1], price |-> p[2],
                     quantity |-> p[3]])

MCNext ==
  \/ MCView
  \/ MCTrade
  \/ Processing /\ UNCHANGED events

MCSpec == MCInit /\ [][MCNext]_mcVars
=============================================================================
