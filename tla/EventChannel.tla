---------------------------- MODULE EventChannel ----------------------------
(***************************************************************************)
(* What the ring promises its two callers: a bounded first-in first-out    *)
(* channel.  An accepted push appends one value, a successful pop removes  *)
(* the oldest, and there is never more than Capacity in between.           *)
(***************************************************************************)
EXTENDS Integers, Sequences

CONSTANT Capacity

VARIABLES
  queue,      \* values in the channel, oldest first
  sent,       \* how many values were accepted; the n-th value is n
  delivered   \* the values handed over, in order

chanVars == <<queue, sent, delivered>>

ChanInit == queue = <<>> /\ sent = 0 /\ delivered = <<>>

Send ==
  /\ Len(queue) < Capacity
  /\ queue' = Append(queue, sent)
  /\ sent' = sent + 1
  /\ UNCHANGED delivered

Receive ==
  /\ queue # <<>>
  /\ delivered' = Append(delivered, Head(queue))
  /\ queue' = Tail(queue)
  /\ UNCHANGED sent

ChanSpec == ChanInit /\ [][Send \/ Receive]_chanVars
=============================================================================
