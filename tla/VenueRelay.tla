----------------------------- MODULE VenueRelay -----------------------------
(***************************************************************************)
(* The live relay: VenueClient::run reads the venue on a thread of its own *)
(* and pushes the decoded rows into a bounded RowQueue, stream_engine pops *)
(* them on the main thread and writes them to the engine.  RowQueue's      *)
(* methods hold its mutex, so push and pop are single steps and a wait on  *)
(* a condition variable is a step that is not enabled.                     *)
(*                                                                         *)
(* A message of the venue is one book update, RowsPerMessage rows of it,   *)
(* with the sequence numbers the decoder checks; a session starts with a   *)
(* snapshot.  Trades, heartbeats and the text of a row are left out.       *)
(***************************************************************************)
EXTENDS Naturals, Sequences

CONSTANTS
  QueueCapacity,          \* RowQueue::kCapacity
  RowsPerMessage,    \* rows a book message decodes to
  MaxUpdates,        \* bound: updates the venue makes
  MaxSkips,          \* bound: updates the venue loses inside a session
  MaxEnds            \* bound: sessions that end or fail before the relay does

ASSUME RelayAssumption ==
  /\ QueueCapacity \in Nat \ {0} /\ RowsPerMessage \in Nat \ {0}
  /\ MaxUpdates \in Nat /\ MaxSkips \in Nat /\ MaxEnds \in Nat

VARIABLES
  serve,        \* config.listen is set: rows go to an engine (enqueue_)
  vpc,          \* where the venue thread is
  spc,          \* where the main thread is
  rows, closed, \* RowQueue: rows_, closed_
  stop,         \* VenueClient::stop_
  past,         \* the deadline of --max-seconds has passed
  backoff,      \* backoff_ms, in seconds
  pending,      \* decoded rows of the message in hand, not yet pushed
  last_seq,     \* VenueDecoder::last_seq_, 0 before the first message
  gaps, reconnects,
  hand,         \* the row stream_engine has popped and not sent
  engine_up,    \* external: the engine's end of the connection
  venue_seq,    \* external: the venue's sequence number
  wire,         \* external: messages on the connection, not yet read
  up,           \* external: the venue's end of the connection
  lossy,        \* external: an update was lost since the last one on the wire
  skips, ends,  \* the bounded counts
  recorded,     \* every row the recorder was given
  delivered,    \* every row written to the engine
  losses        \* messages read whose predecessor the venue lost

venueVars == <<venue_seq, wire, up, lossy, skips, ends>>
queueVars == <<rows, closed>>
decoderVars == <<last_seq, gaps, losses>>
serverVars == <<serve, spc, stop, hand, engine_up, delivered>>
clientVars == <<vpc, backoff, pending, recorded, reconnects>>
relayVars == <<venueVars, queueVars, decoderVars, serverVars, clientVars, past>>

(* The venue's messages: a snapshot carries no predecessor. *)
Snapshot(seq) == [snapshot |-> TRUE, seq |-> seq, prev |-> 0, after_loss |-> FALSE]
Update(seq, loss) ==
  [snapshot |-> FALSE, seq |-> seq, prev |-> seq - 1, after_loss |-> loss]

RowsOf(m) == [i \in 1 .. RowsPerMessage |-> [seq |-> m.seq, part |-> i]]

RelayInit ==
  /\ serve \in BOOLEAN
  /\ vpc = "top" /\ spc = IF serve THEN "pop" ELSE "join"
  /\ rows = <<>> /\ closed = FALSE
  /\ stop = FALSE /\ past = FALSE /\ backoff = 1
  /\ pending = <<>> /\ last_seq = 0 /\ gaps = 0 /\ reconnects = 0
  /\ hand = <<>> /\ engine_up = TRUE
  /\ venue_seq = 1 /\ wire = <<>> /\ up = FALSE /\ lossy = FALSE
  /\ skips = 0 /\ ends = 0
  /\ recorded = <<>> /\ delivered = <<>> /\ losses = 0

-----------------------------------------------------------------------------
(* VenueClient::run, around a session. *)

StartSession ==
  /\ vpc = "top" /\ ~stop /\ ~past
  /\ vpc' = "connect"
  /\ UNCHANGED <<venueVars, queueVars, decoderVars, serverVars, backoff, pending,
                 recorded, reconnects, past>>

LeaveLoop ==
  /\ vpc = "top" /\ (stop \/ past)
  /\ vpc' = "closing"
  /\ UNCHANGED <<venueVars, queueVars, decoderVars, serverVars, backoff, pending,
                 recorded, reconnects, past>>

(* session returned: the backoff starts over. *)
SessionReturned ==
  /\ vpc = "returned"
  /\ backoff' = 1 /\ vpc' = "check"
  /\ UNCHANGED <<venueVars, queueVars, decoderVars, serverVars, pending, recorded,
                 reconnects, past>>

(* session threw; a session of thirty seconds or more starts the backoff over. *)
SessionThrew ==
  /\ vpc = "threw"
  /\ IF stop
     THEN vpc' = "closing" /\ UNCHANGED <<backoff, reconnects>>
     ELSE /\ reconnects' = reconnects + 1
          /\ backoff' \in {1, backoff}
          /\ vpc' = "check"
  /\ UNCHANGED <<venueVars, queueVars, decoderVars, serverVars, pending, recorded, past>>

CheckBeforeBackoff ==
  /\ vpc = "check"
  /\ vpc' = IF stop \/ past THEN "closing" ELSE "sleep"
  /\ UNCHANGED <<venueVars, queueVars, decoderVars, serverVars, backoff, pending,
                 recorded, reconnects, past>>

(* The sliced sleep, cut short by stop. *)
Backoff ==
  /\ vpc = "sleep"
  /\ backoff' = IF 2 * backoff < 8 THEN 2 * backoff ELSE 8
  /\ vpc' = "top"
  /\ UNCHANGED <<venueVars, queueVars, decoderVars, serverVars, pending, recorded,
                 reconnects, past>>

(* Mutant: only a stopped client closes the queue. *)
CloseWhenStopped ==
  /\ vpc = "closing"
  /\ closed' = (serve /\ stop)
  /\ vpc' = "ended"
  /\ UNCHANGED <<venueVars, rows, decoderVars, serverVars, backoff, pending, recorded,
                 reconnects, past>>

CloseRows ==
  /\ vpc = "closing"
  /\ closed' = serve
  /\ vpc' = "ended"
  /\ UNCHANGED <<venueVars, rows, decoderVars, serverVars, backoff, pending, recorded,
                 reconnects, past>>

-----------------------------------------------------------------------------
(* VenueClient::session. *)

(* connect, handshake and subscribe; the venue answers with a snapshot. *)
Connect ==
  /\ vpc = "connect"
  /\ vpc' = "read"
  /\ up' = TRUE /\ wire' = <<Snapshot(venue_seq)>> /\ lossy' = FALSE
  /\ UNCHANGED <<venue_seq, skips, ends, queueVars, decoderVars, serverVars, backoff,
                 pending, recorded, reconnects, past>>

ConnectFails ==
  /\ vpc = "connect" /\ ends < MaxEnds
  /\ vpc' = "threw" /\ ends' = ends + 1
  /\ UNCHANGED <<venue_seq, wire, up, lossy, skips, queueVars, decoderVars, serverVars,
                 backoff, pending, recorded, reconnects, past>>

(* The connection object dies with the session, whichever way it ends. *)
EndSession(how) ==
  /\ vpc' = how
  /\ up' = FALSE /\ wire' = <<>> /\ lossy' = FALSE

ReadStops ==
  /\ vpc = "read" /\ (stop \/ past)
  /\ EndSession("returned")
  /\ UNCHANGED <<venue_seq, skips, ends, queueVars, decoderVars, serverVars, backoff,
                 pending, recorded, reconnects, past>>

(* --drop-after-seconds. *)
DropForTest ==
  /\ vpc = "read" /\ ~stop /\ ~past /\ ends < MaxEnds
  /\ EndSession("threw") /\ ends' = ends + 1
  /\ UNCHANGED <<venue_seq, skips, queueVars, decoderVars, serverVars, backoff, pending,
                 recorded, reconnects, past>>

(* read_frame saw the end of the connection, a close frame, or a frame whose
   bytes stalled past the receive timeout; VenueDrops stands for all three. *)
ReadBroken ==
  /\ vpc = "read" /\ ~stop /\ ~past
  /\ ~up /\ wire = <<>>
  /\ EndSession("returned")
  /\ UNCHANGED <<venue_seq, skips, ends, queueVars, decoderVars, serverVars, backoff,
                 pending, recorded, reconnects, past>>

(* Mutant: a snapshot is checked like an update, so resynchronising is a gap. *)
GapOnSnapshotToo(m) == last_seq # 0 /\ m.prev # last_seq

(* decode_books: a break between prevSeqId and the last seqId is a lost update. *)
Gap(m) == ~m.snapshot /\ last_seq # 0 /\ m.prev # last_seq

ReadMessage ==
  /\ vpc = "read" /\ ~stop /\ ~past /\ wire # <<>>
  /\ LET m == Head(wire) IN
       /\ gaps' = IF Gap(m) THEN gaps + 1 ELSE gaps
       /\ last_seq' = m.seq
       /\ losses' = IF m.after_loss THEN losses + 1 ELSE losses
       /\ pending' = RowsOf(m)
  /\ wire' = Tail(wire)
  /\ vpc' = "push"
  /\ UNCHANGED <<venue_seq, up, lossy, skips, ends, queueVars, serverVars, backoff,
                 recorded, reconnects, past>>

-----------------------------------------------------------------------------
(* RowQueue::push, of the next row of the message. *)

QueueFull == Len(rows) >= QueueCapacity

AfterRow == IF Len(pending) = 1 THEN "read" ELSE "push"

RecordOnly ==
  /\ vpc = "push" /\ ~serve
  /\ recorded' = Append(recorded, Head(pending))
  /\ pending' = Tail(pending) /\ vpc' = AfterRow
  /\ UNCHANGED <<venueVars, queueVars, decoderVars, serverVars, backoff, reconnects, past>>

PushRow ==
  /\ vpc = "push" /\ serve /\ ~QueueFull
  /\ recorded' = Append(recorded, Head(pending))
  /\ rows' = Append(rows, Head(pending))
  /\ pending' = Tail(pending) /\ vpc' = AfterRow
  /\ UNCHANGED <<venueVars, closed, decoderVars, serverVars, backoff, reconnects, past>>

WaitForRoom ==
  /\ vpc = "push" /\ serve /\ QueueFull
  /\ recorded' = Append(recorded, Head(pending))
  /\ vpc' = "wait"
  /\ UNCHANGED <<venueVars, queueVars, decoderVars, serverVars, backoff, pending,
                 reconnects, past>>

(* room_.wait is over: a closed queue takes nothing and ends the session. *)
Woken ==
  /\ vpc = "wait" /\ (~QueueFull \/ closed)
  /\ IF closed
     THEN /\ EndSession("returned")
          /\ pending' = <<>> /\ UNCHANGED rows
     ELSE /\ rows' = Append(rows, Head(pending))
          /\ pending' = Tail(pending) /\ vpc' = AfterRow
          /\ UNCHANGED <<up, wire, lossy>>
  /\ UNCHANGED <<venue_seq, skips, ends, closed, decoderVars, serverVars, backoff,
                 recorded, reconnects, past>>

-----------------------------------------------------------------------------
(* stream_engine and run_relay_impl, on the main thread. *)

Pop ==
  /\ spc = "pop" /\ rows # <<>>
  /\ hand' = <<Head(rows)>> /\ rows' = Tail(rows)
  /\ spc' = "send"
  /\ UNCHANGED <<venueVars, closed, decoderVars, clientVars, serve, stop, engine_up,
                 delivered, past>>

(* Mutant: closed is asked before the rows. *)
PopClosedEarly ==
  /\ spc = "pop" /\ closed
  /\ spc' = "stop"
  /\ UNCHANGED <<venueVars, queueVars, decoderVars, clientVars, serve, stop, hand,
                 engine_up, delivered, past>>

PopClosed ==
  /\ spc = "pop" /\ rows = <<>> /\ closed
  /\ spc' = "stop"
  /\ UNCHANGED <<venueVars, queueVars, decoderVars, clientVars, serve, stop, hand,
                 engine_up, delivered, past>>

SendRow ==
  /\ spc = "send" /\ engine_up
  /\ delivered' = delivered \o hand /\ hand' = <<>>
  /\ spc' = "pop"
  /\ UNCHANGED <<venueVars, queueVars, decoderVars, clientVars, serve, stop, engine_up,
                 past>>

SendFails ==
  /\ spc = "send" /\ ~engine_up
  /\ spc' = "stop"
  /\ UNCHANGED <<venueVars, queueVars, decoderVars, clientVars, serve, stop, hand,
                 engine_up, delivered, past>>

StopClient ==
  /\ spc = "stop"
  /\ stop' = TRUE /\ spc' = "join"
  /\ UNCHANGED <<venueVars, queueVars, decoderVars, clientVars, serve, hand, engine_up,
                 delivered, past>>

JoinClient ==
  /\ spc = "join" /\ vpc = "ended"
  /\ spc' = "returned"
  /\ UNCHANGED <<venueVars, queueVars, decoderVars, clientVars, serve, stop, hand,
                 engine_up, delivered, past>>

-----------------------------------------------------------------------------
(* The world outside: the venue, the engine and the clock. *)

VenueUpdates ==
  /\ venue_seq < MaxUpdates
  /\ venue_seq' = venue_seq + 1
  /\ \/ /\ up
        /\ wire' = Append(wire, Update(venue_seq + 1, lossy)) /\ lossy' = FALSE
        /\ UNCHANGED skips
     \/ /\ up /\ skips < MaxSkips
        /\ lossy' = TRUE /\ skips' = skips + 1 /\ UNCHANGED wire
     \/ /\ ~up /\ UNCHANGED <<wire, lossy, skips>>
  /\ UNCHANGED <<up, ends, queueVars, decoderVars, serverVars, clientVars, past>>

(* The venue's end goes; what it had sent may not all arrive. *)
VenueDrops ==
  /\ up /\ ends < MaxEnds
  /\ up' = FALSE /\ ends' = ends + 1
  /\ \E n \in 0 .. Len(wire) : wire' = SubSeq(wire, 1, n)
  /\ UNCHANGED <<venue_seq, lossy, skips, queueVars, decoderVars, serverVars, clientVars,
                 past>>

EngineLeaves ==
  /\ engine_up /\ serve
  /\ engine_up' = FALSE
  /\ UNCHANGED <<venueVars, queueVars, decoderVars, clientVars, serve, spc, stop, hand,
                 delivered, past>>

DeadlinePasses ==
  /\ ~past /\ past' = TRUE
  /\ UNCHANGED <<venueVars, queueVars, decoderVars, serverVars, clientVars>>

VenueThread ==
  \/ StartSession \/ LeaveLoop \/ SessionReturned \/ SessionThrew
  \/ CheckBeforeBackoff \/ Backoff \/ CloseRows
  \/ Connect \/ ConnectFails \/ ReadStops \/ DropForTest \/ ReadBroken \/ ReadMessage
  \/ RecordOnly \/ PushRow \/ WaitForRoom \/ Woken

MainThread ==
  \/ Pop \/ PopClosed \/ SendRow \/ SendFails \/ StopClient \/ JoinClient

World == VenueUpdates \/ VenueDrops \/ EngineLeaves \/ DeadlinePasses

RelayNext == VenueThread \/ MainThread \/ World

RelaySpec == RelayInit /\ [][RelayNext]_relayVars

(* Both threads are scheduled and the clock reaches the deadline; the venue and
   the engine owe nothing. *)
FairSpec ==
  RelaySpec /\ WF_relayVars(VenueThread) /\ WF_relayVars(MainThread)
       /\ WF_relayVars(DeadlinePasses)

-----------------------------------------------------------------------------
Row == [seq : Nat, part : 1 .. RowsPerMessage]
Message == [snapshot : BOOLEAN, seq : Nat, prev : Nat, after_loss : BOOLEAN]

FlagTypes ==
  /\ serve \in BOOLEAN /\ closed \in BOOLEAN /\ stop \in BOOLEAN /\ past \in BOOLEAN
  /\ engine_up \in BOOLEAN /\ up \in BOOLEAN /\ lossy \in BOOLEAN

DataTypes ==
  /\ vpc \in {"top", "connect", "read", "push", "wait", "returned", "threw", "check",
              "sleep", "closing", "ended"}
  /\ spc \in {"pop", "send", "stop", "join", "returned"}
  /\ rows \in Seq(Row) /\ Len(rows) <= QueueCapacity
  /\ backoff \in {1, 2, 4, 8}
  /\ pending \in Seq(Row) /\ (vpc \in {"push", "wait"} => pending # <<>>)
  /\ hand \in Seq(Row) /\ Len(hand) <= 1
  /\ last_seq \in Nat /\ gaps \in Nat /\ losses \in Nat /\ reconnects \in Nat
  /\ venue_seq \in Nat /\ skips \in Nat /\ ends \in Nat
  /\ recorded \in Seq(Row) /\ delivered \in Seq(Row)
  /\ wire \in Seq(Message)

RelayTypeOK == FlagTypes /\ DataTypes

(* Every recorded row is in exactly one place on its way to the engine, in the
   order it was decoded: sent, in hand, queued, or held by the waiting push. *)
HandOffExact ==
  serve => recorded = delivered \o hand \o rows
                        \o (IF vpc = "wait" THEN <<Head(pending)>> ELSE <<>>)

(* A relay that ends while its engine is connected has given it every row. *)
EngineGetsAll == serve /\ spc = "returned" /\ engine_up => delivered = recorded

(* The recording and the engine's stream are the same rows: nothing decoded is lost
   or repeated between the threads, nor cut off by the close that ends the relay. *)
EngineGetsRecording == RelayTypeOK /\ HandOffExact /\ EngineGetsAll

(* gaps counts exactly the updates that follow a loss inside a session, however
   many sessions the run had: a reconnect is never taken for a gap. *)
GapsExact == gaps = losses

(* The relay returns, or its venue thread is left in a full queue whose engine
   has gone. *)
RelayReturns == <>(spc = "returned" \/ (vpc = "wait" /\ ~engine_up))

(* RowQueue::push's comment: a stop does not leave the venue thread blocked in a
   push nobody will consume, so the join after stop() ends. *)
StopReturns == (spc = "join" /\ stop) ~> (spc = "returned")
-----------------------------------------------------------------------------
(* The inductive invariants behind the properties above. *)

(* The message before wire[i], as the decoder will have it when it reads wire[i]. *)
SeqBefore(i) == IF i = 1 THEN last_seq ELSE wire[i - 1].seq

(* The sequence number the decoder has once it has read all of the wire. *)
LastOnWire == IF wire = <<>> THEN last_seq ELSE wire[Len(wire)].seq

(* Only the first message can be a snapshot, and an update breaks the chain of
   sequence numbers if and only if the venue lost its predecessor. *)
WireChain ==
  \A i \in 1 .. Len(wire) :
    /\ wire[i].seq > 0
    /\ wire[i].snapshot => i = 1 /\ ~wire[i].after_loss
    /\ ~wire[i].snapshot =>
         SeqBefore(i) > 0 /\ (wire[i].after_loss <=> wire[i].prev # SeqBefore(i))

(* A connected venue stands where the wire ends, or has lost what is in between. *)
VenueAhead ==
  /\ venue_seq > 0
  /\ up => /\ LastOnWire > 0 /\ LastOnWire <= venue_seq
           /\ (lossy <=> LastOnWire # venue_seq)

(* The invariant behind GapsExact. *)
GapInv == RelayTypeOK /\ WireChain /\ VenueAhead /\ GapsExact

(* Where the threads are: the queue is closed by the venue thread's last step and
   only when there is one to close, a row is in hand only while it is sent, and the
   main thread leaves a connected engine only with the queue closed and drained. *)
Shutdown ==
  /\ closed => vpc = "ended"
  /\ spc = "pop" => hand = <<>>
  /\ spc = "returned" => vpc = "ended"
  /\ serve /\ engine_up /\ spc \in {"stop", "join", "returned"} =>
       closed /\ rows = <<>> /\ hand = <<>>

(* The invariant behind EngineGetsRecording. *)
HandOffInv == RelayTypeOK /\ HandOffExact /\ Shutdown
=============================================================================
