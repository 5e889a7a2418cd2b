--------------------------- MODULE ThreadedReplay ---------------------------
(***************************************************************************)
(* ThreadedReplayFeed: L2ReplayFeed::run on a thread of its own, the       *)
(* consumer callback on the calling thread, an SpscRing between them, and  *)
(* the three ways the run can end (feed exhausted, feed threw, callback    *)
(* threw).                                                                 *)
(*                                                                         *)
(* The feed itself is a source of NumEvents events that may throw at any   *)
(* point between two of them (a malformed row, a validation failure); the  *)
(* callback may throw on any event.  The latency histograms and clocks are *)
(* left out, the counters a reader of the summary relies on are kept.      *)
(*                                                                         *)
(* abort_ and producer_done_ are atomics too: a store is seen by the other *)
(* thread later, and never before the stores that precede it on the        *)
(* storing thread.  abort_ is read by each thread only before that thread  *)
(* stores it, so each store is kept with the thread that makes it.         *)
(***************************************************************************)
EXTENDS SpscRing, FiniteSets

CONSTANTS
  NumEvents,         \* how many events the feed has to deliver
  FeedMayFail,       \* the feed can throw
  ConsumerMayFail    \* the callback can throw

ASSUME ReplayAssumption ==
  /\ NumEvents \in Nat \ {0}   \* an empty feed throws, see FeedThrow
  /\ FeedMayFail \in BOOLEAN
  /\ ConsumerMayFail \in BOOLEAN

VARIABLES
  fpc,              \* where the feed thread is
  kpc,              \* where the consuming (calling) thread is
  abort,            \* abort_, by the thread that stored it
  abort_seen,       \* abort_, as seen by the other thread
  done,             \* producer_done_
  done_seen,        \* producer_done_, as the consumer sees it
  producer_error,   \* producer_error_ holds an exception
  consumer_error,   \* consumer_error_ holds an exception
  handled,          \* events the callback returned from (handoffs)
  feed_waits,       \* summary_.feed_waits
  ring_depth_max,   \* summary_.ring_depth_max
  result            \* what run() gave its caller, "running" before it returns

flagVars == <<abort, abort_seen, done, done_seen>>
errorVars == <<producer_error, consumer_error>>
statVars == <<handled, feed_waits, ring_depth_max>>
replayVars == <<fpc, kpc, abort, abort_seen, done, done_seen, producer_error,
                consumer_error, handled, feed_waits, ring_depth_max, result>>
vars == <<ringVars, replayVars>>

Threads == {"feed", "strategy"}

RInit ==
  /\ Init
  /\ fpc = "feeding" /\ kpc = "pop"
  /\ abort = {} /\ abort_seen = {}
  /\ done = FALSE /\ done_seen = FALSE
  /\ producer_error = FALSE /\ consumer_error = FALSE
  /\ handled = 0 /\ feed_waits = 0 /\ ring_depth_max = 0
  /\ result = "running"

-----------------------------------------------------------------------------
(* The feed thread: producer_loop and produce. *)

(* The feed reads its next event and calls produce. *)
FeedNext ==
  /\ fpc = "feeding"
  /\ write_local < NumEvents
  /\ fpc' = "push"
  /\ UNCHANGED <<ringVars, kpc, flagVars, errorVars, statVars, result>>

FeedEnd ==
  /\ fpc = "feeding"
  /\ write_local = NumEvents
  /\ fpc' = "finishing"
  /\ UNCHANGED <<ringVars, kpc, flagVars, errorVars, statVars, result>>

FeedThrow ==
  /\ FeedMayFail
  /\ fpc = "feeding"
  /\ fpc' = "caught"
  /\ producer_error' = TRUE
  /\ UNCHANGED <<ringVars, kpc, flagVars, consumer_error, statVars, result>>

(* The first try_push of produce, or a later one in its wait loop. *)
PushBegin ==
  /\ fpc \in {"push", "retry"}
  /\ EmplaceBegin
  /\ UNCHANGED replayVars

PushEnd ==
  /\ EmplaceEnd
  /\ UNCHANGED replayVars

PushPublish ==
  /\ EmplacePublish
  /\ feed_waits' = IF fpc = "retry" THEN feed_waits + 1 ELSE feed_waits
  /\ fpc' = "feeding"
  /\ UNCHANGED <<kpc, flagVars, errorVars, handled, ring_depth_max, result>>

(* The first try_push is refused: the loop retries before it looks at abort_. *)
PushRefused ==
  /\ fpc = "push" /\ ppc = "ready"
  /\ Full
  /\ fpc' = "retry"
  /\ UNCHANGED <<ringVars, kpc, flagVars, errorVars, statVars, result>>

RetryRefused ==
  /\ fpc = "retry" /\ ppc = "ready"
  /\ Full
  /\ fpc' = "check_abort"
  /\ UNCHANGED <<ringVars, kpc, flagVars, errorVars, statVars, result>>

RetryAborted ==
  /\ fpc = "check_abort"
  /\ "strategy" \in abort_seen
  /\ fpc' = "caught"
  /\ producer_error' = TRUE
  /\ UNCHANGED <<ringVars, kpc, flagVars, consumer_error, statVars, result>>

RetrySpin ==
  /\ fpc = "check_abort"
  /\ "strategy" \notin abort_seen
  /\ fpc' = "retry"
  /\ UNCHANGED <<ringVars, kpc, flagVars, errorVars, statVars, result>>

FeedStoreAbort ==
  /\ fpc = "caught"
  /\ abort' = abort \cup {"feed"}
  /\ fpc' = "finishing"
  /\ UNCHANGED <<ringVars, kpc, abort_seen, done, done_seen, errorVars,
                 statVars, result>>

FeedStoreDone ==
  /\ fpc = "finishing"
  /\ done' = TRUE
  /\ fpc' = "exited"
  /\ UNCHANGED <<ringVars, kpc, abort, abort_seen, done_seen, errorVars,
                 statVars, result>>

-----------------------------------------------------------------------------
(* The calling thread: consume_loop, then the join in run(). *)

TakeBegin ==
  /\ kpc \in {"pop", "last_pop"}
  /\ PopBegin
  /\ UNCHANGED replayVars

TakeDestroy ==
  /\ PopDestroy
  /\ UNCHANGED replayVars

(* The pop completes; the event is now in hand. *)
TakePublish ==
  /\ PopPublish
  /\ kpc' = "callback"
  /\ UNCHANGED <<fpc, flagVars, errorVars, statVars, result>>

(* The depth is sampled with a fresh load of the write index, the event in
   hand included. *)
SampleDepth ==
  /\ kpc = "callback"
  /\ ring_depth_max' = IF ConsumerOccupancy + 1 > ring_depth_max
                       THEN ConsumerOccupancy + 1 ELSE ring_depth_max
  /\ kpc' = "in_callback"
  /\ UNCHANGED <<ringVars, fpc, flagVars, errorVars, handled, feed_waits,
                 result>>

CallbackReturns ==
  /\ kpc = "in_callback"
  /\ handled' = handled + 1
  /\ kpc' = "pop"
  /\ UNCHANGED <<ringVars, fpc, flagVars, errorVars, feed_waits,
                 ring_depth_max, result>>

(* Mutant: the failing consumer does not store abort_. *)
CallbackThrowsNoAbort ==
  /\ ConsumerMayFail
  /\ kpc = "in_callback"
  /\ consumer_error' = TRUE
  /\ kpc' = "join"
  /\ UNCHANGED <<ringVars, fpc, flagVars, producer_error, statVars, result>>

CallbackThrows ==
  /\ ConsumerMayFail
  /\ kpc = "in_callback"
  /\ consumer_error' = TRUE
  /\ abort' = abort \cup {"strategy"}
  /\ kpc' = "join"
  /\ UNCHANGED <<ringVars, fpc, abort_seen, done, done_seen, producer_error,
                 statVars, result>>

PopRefused ==
  /\ kpc = "pop" /\ cpc = "ready"
  /\ Empty
  /\ kpc' = "check_abort"
  /\ UNCHANGED <<ringVars, fpc, flagVars, errorVars, statVars, result>>

AbortObserved ==
  /\ kpc = "check_abort"
  /\ "feed" \in abort_seen
  /\ kpc' = "join"
  /\ UNCHANGED <<ringVars, fpc, flagVars, errorVars, statVars, result>>

AbortNotObserved ==
  /\ kpc = "check_abort"
  /\ "feed" \notin abort_seen
  /\ kpc' = "check_done"
  /\ UNCHANGED <<ringVars, fpc, flagVars, errorVars, statVars, result>>

DoneNotObserved ==
  /\ kpc = "check_done"
  /\ ~done_seen
  /\ kpc' = "pop"
  /\ UNCHANGED <<ringVars, fpc, flagVars, errorVars, statVars, result>>

(* Mutant: no last pop after producer_done_. *)
DoneObservedNoDrain ==
  /\ kpc = "check_done"
  /\ done_seen
  /\ kpc' = "join"
  /\ UNCHANGED <<ringVars, fpc, flagVars, errorVars, statVars, result>>

(* producer_done_ is set: one more attempt before giving up. *)
DoneObserved ==
  /\ kpc = "check_done"
  /\ done_seen
  /\ kpc' = "last_pop"
  /\ UNCHANGED <<ringVars, fpc, flagVars, errorVars, statVars, result>>

LastPopRefused ==
  /\ kpc = "last_pop" /\ cpc = "ready"
  /\ Empty
  /\ kpc' = "join"
  /\ UNCHANGED <<ringVars, fpc, flagVars, errorVars, statVars, result>>

(* producer.join() returns once the feed thread has exited; the consumer's
   error is rethrown in preference to the producer's. *)
JoinAndReturn ==
  /\ kpc = "join" /\ fpc = "exited"
  /\ kpc' = "returned"
  /\ result' = CASE consumer_error -> "consumer_error"
                 [] ~consumer_error /\ producer_error -> "producer_error"
                 [] OTHER -> "ok"
  /\ UNCHANGED <<ringVars, fpc, flagVars, errorVars, statVars>>

-----------------------------------------------------------------------------
(* Stores reach the other thread, in the order they were made. *)

SeeRing == (SeeWrite \/ SeeRead) /\ UNCHANGED replayVars

SeeFeedAbort ==
  /\ "feed" \in abort \ abort_seen
  /\ write_seen = write
  /\ abort_seen' = abort_seen \cup {"feed"}
  /\ UNCHANGED <<ringVars, fpc, kpc, abort, done, done_seen, errorVars,
                 statVars, result>>

SeeStrategyAbort ==
  /\ "strategy" \in abort \ abort_seen
  /\ read_seen = read
  /\ abort_seen' = abort_seen \cup {"strategy"}
  /\ UNCHANGED <<ringVars, fpc, kpc, abort, done, done_seen, errorVars,
                 statVars, result>>

SeeDone ==
  /\ done /\ ~done_seen
  /\ write_seen = write
  /\ "feed" \in abort => "feed" \in abort_seen
  /\ done_seen' = TRUE
  /\ UNCHANGED <<ringVars, fpc, kpc, abort, abort_seen, done, errorVars,
                 statVars, result>>

FeedStep ==
  \/ FeedNext \/ FeedEnd \/ FeedThrow
  \/ PushBegin \/ PushEnd \/ PushPublish
  \/ PushRefused \/ RetryRefused \/ RetryAborted \/ RetrySpin
  \/ FeedStoreAbort \/ FeedStoreDone

StrategyStep ==
  \/ TakeBegin \/ TakeDestroy \/ TakePublish \/ SampleDepth
  \/ CallbackReturns \/ CallbackThrows
  \/ PopRefused \/ AbortObserved \/ AbortNotObserved
  \/ DoneNotObserved \/ DoneObserved \/ LastPopRefused
  \/ JoinAndReturn

Visibility == SeeRing \/ SeeFeedAbort \/ SeeStrategyAbort \/ SeeDone

RNext == FeedStep \/ StrategyStep \/ Visibility

RSpec == RInit /\ [][RNext]_vars

(* Both threads keep running and every store is eventually seen.  Nothing
   forces the feed or the callback to throw. *)
FairRSpec ==
  /\ RSpec
  /\ WF_vars(FeedStep) /\ WF_vars(StrategyStep)
  /\ WF_vars(SeeRing) /\ WF_vars(SeeFeedAbort)
  /\ WF_vars(SeeStrategyAbort) /\ WF_vars(SeeDone)

-----------------------------------------------------------------------------
(* Properties. *)

(* Types of the hand-off's own variables. *)
ReplayFlagTypes ==
  /\ done \in BOOLEAN /\ done_seen \in BOOLEAN
  /\ producer_error \in BOOLEAN /\ consumer_error \in BOOLEAN

ReplayDataTypes ==
  /\ fpc \in {"feeding", "push", "retry", "check_abort", "caught",
              "finishing", "exited"}
  /\ kpc \in {"pop", "check_abort", "check_done", "last_pop", "callback",
              "in_callback", "join", "returned"}
  /\ abort \in SUBSET Threads /\ abort_seen \in SUBSET Threads
  /\ handled \in Nat /\ feed_waits \in Nat /\ ring_depth_max \in Nat
  /\ result \in {"running", "ok", "consumer_error", "producer_error"}

RTypeOK == TypeOK /\ ReplayFlagTypes /\ ReplayDataTypes

(* A run that returns normally handed every event of the feed to the callback,
   once and in order: the last pop after producer_done_ misses nothing. *)
CompleteWhenOk ==
  result = "ok" =>
    /\ received = [i \in 1 .. NumEvents |-> i - 1]
    /\ handled = NumEvents

(* A failure on either side is what run() rethrows, the consumer's first; a
   consumer that did not fail stops early only because the feed failed. *)
FailureReported ==
  result # "running" =>
    /\ result = "consumer_error" <=> consumer_error
    /\ result = "producer_error" <=> (producer_error /\ ~consumer_error)
    /\ ~consumer_error /\ Len(received) < NumEvents => producer_error

(* What run() gives its caller is what happened: CompleteWhenOk, FailureReported,
   over states that keep their types. *)
ResultHonest == RTypeOK /\ CompleteWhenOk /\ FailureReported

(* run() always returns: no thread is left spinning on the other. *)
RunReturns == <>(result # "running")

-----------------------------------------------------------------------------
(* The inductive invariant behind ResultHonest. *)

(* The feed thread is inside the ring only while it pushes, an event at a time and
   none past the last; it stores producer_done_ with its last step, and leaves
   having either delivered everything or failed and stored abort_. *)
FeedSide ==
  /\ fpc \notin {"push", "retry"} => ppc = "ready"
  /\ write_local <= NumEvents
  /\ fpc \in {"push", "retry", "check_abort"} => write_local < NumEvents
  /\ done <=> fpc = "exited"
  /\ fpc = "caught" => producer_error
  /\ "feed" \in abort => producer_error
  /\ fpc \in {"finishing", "exited"} => "feed" \in abort \/ write_local = NumEvents

(* A thread that sees producer_done_ sees every push before it, so the last pop
   that finds nothing has left nothing; the calling thread stops for one of three
   reasons, and has handled what it received but for the event in the callback. *)
StrategySide ==
  /\ kpc \notin {"pop", "last_pop"} => cpc = "ready"
  /\ abort_seen \subseteq abort
  /\ done_seen => done /\ write_seen = write
  /\ kpc = "last_pop" => done_seen
  /\ kpc \in {"join", "returned"} =>
       consumer_error \/ "feed" \in abort \/ (done /\ read_local = write)
  /\ consumer_error => kpc \in {"join", "returned"}
  /\ handled = IF kpc \in {"callback", "in_callback"} \/ consumer_error
               THEN read_local - 1 ELSE read_local

(* run() has a result once it has joined the feed thread, and not before. *)
Outcome ==
  /\ result # "running" <=> kpc = "returned"
  /\ kpc = "returned" =>
       /\ fpc = "exited"
       /\ result = "consumer_error" <=> consumer_error
       /\ result = "producer_error" <=> (producer_error /\ ~consumer_error)

ReplayInv == RTypeOK /\ RingInv /\ FeedSide /\ StrategySide /\ Outcome
=============================================================================
