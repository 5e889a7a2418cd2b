--------------------------- MODULE WebSocketFeed ----------------------------
(***************************************************************************)
(* WebSocketFeed: start() connects and performs the opening handshake on   *)
(* the caller's thread, the receive thread reads frames, assembles         *)
(* messages, parses their rows into events and pushes them into a bounded  *)
(* ring, EventReader::next pops them on the engine's thread, and stop()    *)
(* ends the session from outside.                                          *)
(*                                                                         *)
(* The ring is taken as the channel SpscRing is shown to implement: a push *)
(* or a pop is one step.  What the receive thread reads of the consumer's  *)
(* unsynchronised index is a choice over the values it may still see.  A   *)
(* row is its kind and, for depth, the local timestamp and symbol that key *)
(* its batch; the bytes of a frame, the masks and the hashes are left out. *)
(***************************************************************************)
EXTENDS Naturals, Sequences, SequencesExt

CONSTANTS
  Capacity,      \* options_.ring_capacity
  LiveSeconds,   \* options_.live_seconds > 0: the session has a deadline
  Symbols,       \* the symbols a row may name
  Messages,      \* the row sequences a frame of the peer may carry
  MaxFrames      \* bound: frames the peer sends

(* A row: what it is, the key and flag of a depth row, and where it stands
   among the rows accepted (0 until it is). *)
Row ==
  [kind : {"header", "bad", "trade", "depth"}, ts : Nat, symbol : Symbols,
   snapshot : BOOLEAN, n : Nat]

ASSUME FeedAssumption ==
  /\ Capacity \in Nat \ {0} /\ MaxFrames \in Nat
  /\ LiveSeconds \in BOOLEAN
  /\ Messages \subseteq Seq(Row)

VARIABLES
  apc,             \* the thread that owns the feed
  wpc,             \* the receive thread
  rpc,             \* EventReader::next on the engine's thread
  running,         \* running_
  producer_done,   \* producer_done_
  past,            \* the session deadline has passed
  assembled,       \* rows of the message under assembly
  rows,            \* rows of the message in handle_message, the next one first
  pending_batch,   \* pending_batch_, no updates when has_pending_batch_ is false
  pending_trades,  \* pending_trades_
  out, then,       \* the pushes under way and the call they belong to
  events,          \* events_
  cached_read,     \* the consumer's index as the producer last loaded it
  frames,          \* summary_.frames
  high_water,      \* summary_.ring_high_water
  accepted,        \* history: the rows counted in trades and depth_updates
  seen             \* history: the events next() handed back

flagVars == <<running, producer_done, past>>
parseVars == <<assembled, rows>>
pendingVars == <<pending_batch, pending_trades>>
ringVars == <<events, cached_read, high_water, seen>>
feedVars == <<apc, wpc, rpc, flagVars, parseVars, pendingVars, out, then, ringVars,
              frames, accepted>>

NoBatch == [ts |-> 0, symbol |-> "", snapshot |-> FALSE, updates |-> <<>>]

Init ==
  /\ apc = "new" /\ wpc = "none" /\ rpc = "pop"
  /\ running = FALSE /\ producer_done = FALSE /\ past = FALSE
  /\ assembled = <<>> /\ rows = <<>>
  /\ pending_batch = NoBatch /\ pending_trades = <<>>
  /\ out = <<>> /\ then = "final"
  /\ events = <<>> /\ cached_read = 0 /\ high_water = 0
  /\ frames = 0 /\ accepted = <<>> /\ seen = <<>>

-----------------------------------------------------------------------------
(* start(), on the owner's thread. *)

(* connect_socket: the addresses are tried in turn, each refused, out of its
   budget, or connected; a name that does not resolve has none. *)
ConnectSocket(addresses) == "connects" \in ToSet(addresses)

(* perform_handshake over the peer's response. *)
Handshake(response) ==
  /\ response.arrives = "whole"             \* not cut, late or too large
  /\ response.status = 101
  /\ response.accept \in {"absent", "right"}

Responses ==
  [arrives : {"whole", "cut", "late", "large"}, status : {101, 403},
   accept : {"absent", "right", "wrong"}]

Start(addresses, response) ==
  /\ apc = "new"
  /\ IF ConnectSocket(addresses) /\ Handshake(response)
     THEN /\ running' = TRUE /\ apc' = "started" /\ wpc' = "frames"
          /\ UNCHANGED producer_done
     ELSE /\ running' = FALSE /\ producer_done' = TRUE    \* stop(), then rethrow
          /\ apc' = "failed"
          /\ UNCHANGED wpc
  /\ UNCHANGED <<rpc, past, parseVars, pendingVars, out, then, ringVars, frames, accepted>>

-----------------------------------------------------------------------------
(* receive_loop: one frame. *)

(* Fragments are appended; the one with FIN delivers the message. *)
DataFrame(message, fin) ==
  /\ wpc = "frames" /\ running /\ ~past /\ frames < MaxFrames
  /\ frames' = frames + 1
  /\ IF fin
     THEN rows' = assembled \o message /\ assembled' = <<>> /\ wpc' = "rows"
     ELSE assembled' = assembled \o message /\ UNCHANGED <<rows, wpc>>
  /\ UNCHANGED <<apc, rpc, flagVars, pendingVars, out, then, ringVars, accepted>>

(* A ping is answered and a pong counted. *)
ControlFrame ==
  /\ wpc = "frames" /\ running /\ ~past /\ frames < MaxFrames
  /\ frames' = frames + 1
  /\ UNCHANGED <<apc, wpc, rpc, flagVars, parseVars, pendingVars, out, then, ringVars,
                 accepted>>

HasBatch == pending_batch.updates # <<>>

(* What flush_pending has to push: the batch, then the trades held with it. *)
FlushPending ==
  (IF HasBatch THEN <<[kind |-> "batch", batch |-> pending_batch]>> ELSE <<>>)
  \o [i \in DOMAIN pending_trades |-> [kind |-> "trade", row |-> pending_trades[i]]]

(* Mutant: the loop ends without a last flush. *)
LeaveLoopNoFlush ==
  /\ wpc = "frames"
  /\ out' = <<>> /\ then' = "final" /\ wpc' = "push"
  /\ UNCHANGED <<apc, rpc, flagVars, parseVars, pendingVars, ringVars, frames, accepted>>

(* The loop ends: a close frame, the end of the stream, a transport error, an
   oversized frame or unknown opcode, the deadline, or stop(). *)
LeaveLoop ==
  /\ wpc = "frames"
  /\ out' = FlushPending /\ then' = "final" /\ wpc' = "push"
  /\ UNCHANGED <<apc, rpc, flagVars, parseVars, pendingVars, ringVars, frames, accepted>>

Deadline ==
  /\ LiveSeconds /\ apc = "started" /\ ~past
  /\ past' = TRUE
  /\ UNCHANGED <<apc, wpc, rpc, running, producer_done, parseVars, pendingVars, out, then,
                 ringVars, frames, accepted>>

-----------------------------------------------------------------------------
(* handle_message: one row. *)

Numbered(row) == [row EXCEPT !.n = Len(accepted) + 1]

Accept(row) == accepted' = Append(accepted, Numbered(row))

MessageDone ==
  /\ wpc = "rows" /\ rows = <<>>
  /\ wpc' = "frames"
  /\ UNCHANGED <<apc, rpc, flagVars, parseVars, pendingVars, out, then, ringVars, frames,
                 accepted>>

(* A header, or a row the parsers refuse: counted and skipped. *)
SkipRow ==
  /\ wpc = "rows" /\ rows # <<>> /\ Head(rows).kind \in {"header", "bad"}
  /\ rows' = Tail(rows)
  /\ UNCHANGED <<apc, wpc, rpc, flagVars, assembled, pendingVars, out, then, ringVars,
                 frames, accepted>>

(* Mutant: a trade is pushed at once, ahead of the batch it arrived in. *)
TradeRowAtOnce ==
  /\ wpc = "rows" /\ rows # <<>> /\ Head(rows).kind = "trade"
  /\ out' = <<[kind |-> "trade", row |-> Numbered(Head(rows))]>>
  /\ then' = "trade" /\ wpc' = "push"
  /\ UNCHANGED <<apc, rpc, flagVars, parseVars, pendingVars, ringVars, frames, accepted>>

(* A trade inside a depth run waits for the batch, any other is pushed. *)
TradeRow ==
  /\ wpc = "rows" /\ rows # <<>> /\ Head(rows).kind = "trade"
  /\ IF HasBatch
     THEN /\ pending_trades' = Append(pending_trades, Numbered(Head(rows)))
          /\ Accept(Head(rows)) /\ rows' = Tail(rows)
          /\ UNCHANGED <<wpc, out, then>>
     ELSE /\ out' = <<[kind |-> "trade", row |-> Numbered(Head(rows))]>>
          /\ then' = "trade" /\ wpc' = "push"
          /\ UNCHANGED <<pending_trades, rows, accepted>>
  /\ UNCHANGED <<apc, rpc, flagVars, assembled, pending_batch, ringVars, frames>>

SameBatch(row) ==
  HasBatch /\ pending_batch.ts = row.ts /\ pending_batch.symbol = row.symbol

(* A depth row joins the run it belongs to; any other first flushes the run. *)
DepthRow ==
  /\ wpc = "rows" /\ rows # <<>> /\ Head(rows).kind = "depth"
  /\ IF SameBatch(Head(rows))
     THEN /\ pending_batch' = [pending_batch EXCEPT
                                 !.snapshot = @ \/ Head(rows).snapshot,
                                 !.updates = Append(@, Numbered(Head(rows)))]
          /\ Accept(Head(rows)) /\ rows' = Tail(rows)
          /\ UNCHANGED <<wpc, out, then>>
     ELSE /\ out' = FlushPending /\ then' = "depth" /\ wpc' = "push"
          /\ UNCHANGED <<pending_batch, rows, accepted>>
  /\ UNCHANGED <<apc, rpc, flagVars, assembled, pending_trades, ringVars, frames>>

-----------------------------------------------------------------------------
(* push_event, and what its caller does when the pushes are over. *)

Pushed == Len(seen) + Len(events)

(* Mutant: the index read is any the consumer ever had. *)
OccupancyUnsynchronised == {Pushed + 1 - r : r \in 0 .. Len(seen)}

(* consumer_occupancy: the producer reads read_local_ without synchronisation;
   it sees no value older than the index it last acquired. *)
Occupancies ==
  LET acquired == IF Pushed - cached_read >= Capacity THEN Len(seen) ELSE cached_read
  IN  {Pushed + 1 - r : r \in acquired .. Len(seen)}

PushEvent ==
  /\ wpc = "push" /\ out # <<>> /\ Len(events) < Capacity
  /\ events' = Append(events, Head(out)) /\ out' = Tail(out)
  /\ cached_read' = IF Pushed - cached_read >= Capacity THEN Len(seen) ELSE cached_read
  /\ \E depth \in Occupancies :
       high_water' = IF depth > high_water THEN depth ELSE high_water
  /\ pending_batch' = IF Head(out).kind = "batch" THEN NoBatch ELSE pending_batch
  /\ UNCHANGED <<apc, wpc, rpc, flagVars, parseVars, pending_trades, then, seen, frames,
                 accepted>>

NewBatch(row) ==
  [ts |-> row.ts, symbol |-> row.symbol, snapshot |-> row.snapshot,
   updates |-> <<Numbered(row)>>]

(* The depth row that ended a run opens the next one. *)
OpenBatch ==
  /\ pending_batch' = NewBatch(Head(rows))
  /\ Accept(Head(rows)) /\ rows' = Tail(rows)
  /\ wpc' = "rows"
  /\ UNCHANGED producer_done

(* receive_loop's last store. *)
ReceiveEnds ==
  /\ wpc' = "ended" /\ producer_done' = TRUE
  /\ UNCHANGED <<pending_batch, rows, accepted>>

PushesDone ==
  /\ wpc = "push" /\ out = <<>>
  /\ pending_trades' = IF then = "trade" THEN pending_trades ELSE <<>>
  /\ CASE then = "trade" -> /\ Accept(Head(rows)) /\ rows' = Tail(rows)
                            /\ wpc' = "rows"
                            /\ UNCHANGED <<pending_batch, producer_done>>
       [] then = "depth" -> OpenBatch
       [] then = "final" -> ReceiveEnds
  /\ UNCHANGED <<apc, rpc, running, past, assembled, out, then, ringVars, frames>>

(* Mutant: push_event waits for room whether or not the feed is stopping. *)
PushNeverFails ==
  /\ wpc = "push" /\ out # <<>> /\ Len(events) = Capacity /\ ~running
  /\ UNCHANGED feedVars

(* The ring is full and the feed is stopping: push_event returns false, the rest
   is dropped; a trade's failure also leaves handle_message. *)
PushFails ==
  /\ wpc = "push" /\ out # <<>> /\ Len(events) = Capacity /\ ~running
  /\ out' = <<>>
  /\ CASE then = "trade" -> /\ rows' = <<>> /\ wpc' = "rows"
                            /\ UNCHANGED <<pending_batch, producer_done, accepted>>
       [] then = "depth" -> OpenBatch
       [] then = "final" -> ReceiveEnds
  /\ UNCHANGED <<apc, rpc, running, past, assembled, pending_trades, then, ringVars,
                 frames>>

-----------------------------------------------------------------------------
(* EventReader::next, called until it returns false. *)

Pop ==
  /\ rpc \in {"pop", "last"} /\ events # <<>> /\ apc # "new"
  /\ events' = Tail(events) /\ seen' = Append(seen, Head(events))
  /\ rpc' = "pop"
  /\ UNCHANGED <<apc, wpc, flagVars, parseVars, pendingVars, out, then, cached_read,
                 high_water, frames, accepted>>

(* The ring was empty; then the flags are read; then, if the producer is done,
   the ring once more. *)
ReaderStep ==
  /\ rpc \in {"pop", "check", "last"} /\ apc # "new"
  /\ rpc # "check" => events = <<>>
  /\ rpc' = CASE rpc = "pop" -> "check"
              [] rpc = "check" -> IF producer_done THEN "last"
                                  ELSE IF ~running THEN "ended" ELSE "pop"
              [] rpc = "last" -> "ended"
  /\ UNCHANGED <<apc, wpc, flagVars, parseVars, pendingVars, out, then, ringVars, frames,
                 accepted>>

(* The engine gives up reading: its callback threw. *)
ReaderAbandons ==
  /\ rpc = "pop" /\ apc = "started"
  /\ rpc' = "gone"
  /\ UNCHANGED <<apc, wpc, flagVars, parseVars, pendingVars, out, then, ringVars, frames,
                 accepted>>

-----------------------------------------------------------------------------
(* stop(), by the owner at the end of the run, by the destructor, or by another
   thread in the middle of a session. *)

StopBegins ==
  /\ apc = "started"
  /\ running' = FALSE /\ apc' = "joining"
  /\ UNCHANGED <<wpc, rpc, producer_done, past, parseVars, pendingVars, out, then,
                 ringVars, frames, accepted>>

StopReturns ==
  /\ apc = "joining" /\ wpc = "ended"
  /\ producer_done' = TRUE /\ apc' = "stopped"
  /\ UNCHANGED <<wpc, rpc, running, past, parseVars, pendingVars, out, then, ringVars,
                 frames, accepted>>

SessionOver ==
  /\ apc \in {"stopped", "failed"} /\ rpc \in {"ended", "gone"}
  /\ UNCHANGED feedVars

-----------------------------------------------------------------------------
Receive ==
  \/ \E m \in Messages, fin \in BOOLEAN : DataFrame(m, fin)
  \/ ControlFrame \/ LeaveLoop
  \/ MessageDone \/ SkipRow \/ TradeRow \/ DepthRow
  \/ PushEvent \/ PushesDone \/ PushFails

Next ==
  \/ \E a \in {<<>>, <<"refused">>, <<"late", "connects">>}, r \in Responses : Start(a, r)
  \/ Deadline
  \/ Receive
  \/ Pop \/ ReaderStep \/ ReaderAbandons
  \/ StopBegins \/ StopReturns
  \/ SessionOver

(* Each thread takes the steps it can take; when the next frame or the close
   comes is up to the peer, but the wait for it ends with the deadline or stop().
   The owner calls stop() once the engine is done with the feed. *)
FeedFairness ==
  /\ WF_feedVars(Receive /\ (wpc = "frames" => past \/ ~running))
  /\ WF_feedVars(Pop \/ ReaderStep)
  /\ WF_feedVars(StopReturns)
  /\ WF_feedVars(rpc \in {"ended", "gone"} /\ StopBegins)

FeedSpec == Init /\ [][Next]_feedVars /\ FeedFairness

-----------------------------------------------------------------------------
(* Properties. *)

Stopped == apc \in {"joining", "stopped"}

Stream == seen \o events
FirstRow(e) == IF e.kind = "batch" THEN e.batch.updates[1].n ELSE e.row.n
RowsOf(e) == IF e.kind = "batch" THEN ToSet(e.batch.updates) ELSE {e.row}
Key(b) == <<b.ts, b.symbol>>

(* Events follow one another by the arrival of their first row. *)
ByArrival(s) == \A i, j \in DOMAIN s : i < j => FirstRow(s[i]) < FirstRow(s[j])

(* A batch holds rows of its own key, and its snapshot flag is theirs. *)
OfOneRun(b) ==
  /\ \A u \in ToSet(b.updates) : Key(u) = Key(b)
  /\ b.snapshot <=> \E u \in ToSet(b.updates) : u.snapshot

(* Two batches with no batch between them have different keys. *)
RunsApart(s) ==
  \A i, j \in DOMAIN s :
    /\ i < j /\ s[i].kind = "batch" /\ s[j].kind = "batch"
    /\ \A k \in i + 1 .. j - 1 : s[k].kind # "batch"
    => Key(s[i].batch) # Key(s[j].batch)

InOrder(s) ==
  /\ ByArrival(s) /\ RunsApart(s)
  /\ \A i \in DOMAIN s : s[i].kind = "batch" => OfOneRun(s[i].batch)

(* The stream keeps the venue's order: events follow one another by the arrival
   of their first row, so a trade comes after the batch it interrupted and
   before the next; a batch holds a whole run of one timestamp and symbol, no
   two neighbouring batches share them, and its snapshot flag is its rows'. *)
StreamInOrder == ~Stopped => InOrder(Stream)

(* The events of s are made of the rows rs, each in one event. *)
EachOnce(s, rs) ==
  /\ UNION {RowsOf(s[i]) : i \in DOMAIN s} = ToSet(rs)
  /\ \A i, j \in DOMAIN s : i # j => RowsOf(s[i]) \cap RowsOf(s[j]) = {}

(* A session that nobody stopped is delivered whole: when next() first returns
   false, every accepted row has been handed to the engine, exactly once, the
   run that was still open when the connection closed included. *)
DeliveredWhole == rpc = "ended" /\ ~Stopped => EachOnce(seen, accepted)

(* The high-water mark never exceeds the ring, although the receive thread
   computes it from an index it reads without synchronisation. *)
HighWaterBounded == high_water <= Capacity

(* Every wait ends: once the receive thread is done the reader sees the end of
   the stream, and stop() returns even when the ring is full and the engine has
   stopped reading. *)
EveryWaitEnds ==
  /\ (wpc = "ended") ~> (rpc \in {"ended", "gone"})
  /\ (apc = "joining") ~> (apc = "stopped")

-----------------------------------------------------------------------------
(* The inductive invariant. *)

Batch ==
  [ts : Nat, symbol : Symbols \cup {""}, snapshot : BOOLEAN, updates : Seq(Row)]
FeedEvent == [kind : {"batch"}, batch : Batch] \cup [kind : {"trade"}, row : Row]

FeedTypes ==
  /\ assembled \in Seq(Row) /\ rows \in Seq(Row)
  /\ pending_batch \in Batch /\ pending_trades \in Seq(Row)
  /\ out \in Seq(FeedEvent) /\ events \in Seq(FeedEvent) /\ seen \in Seq(FeedEvent)
  /\ accepted \in Seq(Row)
  /\ cached_read \in Nat /\ high_water \in Nat

(* The threads' places, and what the flags say of them. *)
FeedControl ==
  /\ apc \in {"new", "started", "failed", "joining", "stopped"}
  /\ wpc \in {"none", "frames", "rows", "push", "ended"}
  /\ then \in {"trade", "depth", "final"}
  /\ rpc \in {"pop", "check", "last", "ended", "gone"}
  /\ wpc = "none" <=> apc \in {"new", "failed"}
  /\ wpc = "none" => seen = <<>> /\ events = <<>> /\ accepted = <<>>
                     /\ pending_batch = NoBatch /\ pending_trades = <<>>
  /\ apc = "new" => rpc = "pop" /\ ~producer_done
  /\ apc = "started" => running
  /\ producer_done /\ ~Stopped => wpc \in {"none", "ended"}
  /\ rpc = "last" /\ ~Stopped => wpc \in {"none", "ended"}
  /\ rpc = "ended" /\ ~Stopped => wpc \in {"none", "ended"} /\ events = <<>>
  /\ wpc = "push" /\ then = "trade" => rows # <<>> /\ Head(rows).kind = "trade"
  /\ wpc = "push" /\ then = "depth" => rows # <<>> /\ Head(rows).kind = "depth"

(* The producer's view of the ring: never behind the index it last acquired by
   more than the ring holds. *)
RingBounds ==
  /\ Len(events) <= Capacity /\ cached_read <= Len(seen)
  /\ Pushed - cached_read <= Capacity
  /\ high_water <= Capacity

(* What the receive thread still has to push, behind what it pushed. *)
Waiting ==
  CASE wpc \in {"frames", "rows"} -> FlushPending
    [] wpc = "push" -> out
    [] OTHER -> <<>>

Handed == Stream \o Waiting

(* The rows those events stand for: a trade on its way is accepted only after. *)
Taken ==
  IF wpc = "push" /\ then = "trade" THEN Append(accepted, Numbered(Head(rows))) ELSE accepted

NumberedInTurn(rs) == \A k \in DOMAIN rs : rs[k].n = k

NoBatchIn(s) == \A k \in DOMAIN s : s[k].kind # "batch"

(* The last batch of s is of another run than row. *)
LastRunEnded(s, row) ==
  \A k \in DOMAIN s :
    s[k].kind = "batch" /\ (\A m \in DOMAIN s : m > k => s[m].kind # "batch")
    => Key(s[k].batch) # Key(row)

(* Events in order, made of the rows taken, every batch with a row in it. *)
Orderly(s, rs) ==
  /\ InOrder(s) /\ EachOnce(s, rs) /\ NumberedInTurn(rs)
  /\ \A k \in DOMAIN s : s[k].kind = "batch" => s[k].batch.updates # <<>>

HandedInv ==
  ~Stopped =>
    /\ Orderly(Handed, Taken)
    /\ wpc \in {"frames", "rows"} /\ ~HasBatch => NoBatchIn(Handed) /\ pending_trades = <<>>
    /\ wpc = "push" /\ then = "trade" =>
         ~HasBatch /\ NoBatchIn(Handed) /\ pending_trades = <<>>
    /\ wpc = "push" /\ then = "depth" => LastRunEnded(Handed, Head(rows))

FeedInv == FeedTypes /\ FeedControl /\ RingBounds /\ HandedInv
=============================================================================
