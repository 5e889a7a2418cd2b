------------------------------ MODULE SpscRing ------------------------------
(***************************************************************************)
(* concurrency::SpscRing<T>: the bounded single-producer single-consumer   *)
(* ring the feed thread and the strategy thread share.                     *)
(*                                                                         *)
(* Every operation is split at its cross-thread steps: the acquire load    *)
(* that decides whether there is room, the construction or the move of     *)
(* the value (which is not atomic), the destruction, the release store.    *)
(*                                                                         *)
(* Memory order.  A release store by one thread reaches the other thread   *)
(* some time later.  "write" and "read" are the values last stored,        *)
(* "write_seen" and "read_seen" are what the other thread's acquire load   *)
(* returns; the See actions move the second towards the first.  The pair   *)
(* release/acquire is what makes the slot's content, stored before the     *)
(* index, visible with it, so the slots need no second copy.               *)
(*                                                                         *)
(* The value of the n-th push (counting from 0) is n, so an event that is  *)
(* lost, repeated, reordered or torn shows in "received".                  *)
(* The 64-bit counters do not wrap in any run and are natural numbers.     *)
(***************************************************************************)
EXTENDS Integers, Sequences

CONSTANT Capacity       \* capacity_, already rounded up by the constructor

ASSUME CapacityAssumption == Capacity \in Nat \ {0}

VARIABLES
  slot,          \* slots_: what each piece of raw storage holds
  write_local,   \* write_local_, private to the producer
  write,         \* write_, as last stored
  write_seen,    \* write_, as the consumer's acquire load returns it
  read_local,    \* read_local_, private to the consumer
  read,          \* read_, as last stored
  read_seen,     \* read_, as the producer's acquire load returns it
  ppc,           \* where the producer is inside try_emplace
  cpc,           \* where the consumer is inside try_pop
  out,           \* the consumer's local the value is moved into
  received       \* history: the values try_pop returned, in order

ringVars == <<slot, write_local, write, write_seen, read_local, read,
              read_seen, ppc, cpc, out, received>>

Slots == 0 .. Capacity - 1

(* What a slot can hold besides the value n of the n-th push. *)
Raw      == -1          \* raw storage: no object lives here
Building == -2          \* placement new has begun and not ended

(* slot_at: the index is masked, which for a power of two is the remainder. *)
SlotAt(index) == index % Capacity

Init ==
  /\ slot = [s \in Slots |-> Raw]
  /\ write_local = 0 /\ write = 0 /\ write_seen = 0
  /\ read_local = 0  /\ read = 0  /\ read_seen = 0
  /\ ppc = "ready"   /\ cpc = "ready"
  /\ out = Raw
  /\ received = <<>>

-----------------------------------------------------------------------------
(* Producer: try_emplace. *)

(* Mutant: the ring takes one value more than it has slots. *)
FullLate == write_local - read_seen = Capacity + 1

(* try_emplace would return false. *)
Full == write_local - read_seen = Capacity

(* Mutant: the write index is stored before the value is built. *)
EmplacePublishFirst ==
  /\ ppc = "ready"
  /\ ~Full
  /\ slot' = [slot EXCEPT ![SlotAt(write_local)] = Building]
  /\ write' = write_local + 1
  /\ ppc' = "building"
  /\ UNCHANGED <<write_local, write_seen, read_local, read, read_seen, cpc, out,
                 received>>

EmplaceBegin ==
  /\ ppc = "ready"
  /\ ~Full
  /\ slot' = [slot EXCEPT ![SlotAt(write_local)] = Building]
  /\ ppc' = "building"
  /\ UNCHANGED <<write_local, write, write_seen, read_local, read, read_seen,
                 cpc, out, received>>

EmplaceEnd ==
  /\ ppc = "building"
  /\ slot' = [slot EXCEPT ![SlotAt(write_local)] = write_local]
  /\ ppc' = "built"
  /\ UNCHANGED <<write_local, write, write_seen, read_local, read, read_seen,
                 cpc, out, received>>

EmplacePublish ==
  /\ ppc = "built"
  /\ write' = write_local + 1
  /\ write_local' = write_local + 1
  /\ ppc' = "ready"
  /\ UNCHANGED <<slot, write_seen, read_local, read, read_seen, cpc, out,
                 received>>

-----------------------------------------------------------------------------
(* Consumer: try_pop. *)

(* try_pop would return false. *)
Empty == read_local = write_seen

(* Mutant: the read index is stored before the value is moved out. *)
PopPublishFirst ==
  /\ cpc = "ready"
  /\ ~Empty
  /\ out' = slot[SlotAt(read_local)]
  /\ read' = read_local + 1
  /\ cpc' = "moving"
  /\ UNCHANGED <<slot, write_local, write, write_seen, read_local, read_seen, ppc,
                 received>>

PopBegin ==
  /\ cpc = "ready"
  /\ ~Empty
  /\ out' = slot[SlotAt(read_local)]
  /\ cpc' = "moving"
  /\ UNCHANGED <<slot, write_local, write, write_seen, read_local, read,
                 read_seen, ppc, received>>

(* Mutant: the moved-from object is not destroyed. *)
PopNoDestroy ==
  /\ cpc = "moving"
  /\ cpc' = "destroyed"
  /\ UNCHANGED <<slot, write_local, write, write_seen, read_local, read, read_seen,
                 ppc, out, received>>

PopDestroy ==
  /\ cpc = "moving"
  /\ slot' = [slot EXCEPT ![SlotAt(read_local)] = Raw]
  /\ cpc' = "destroyed"
  /\ UNCHANGED <<write_local, write, write_seen, read_local, read, read_seen,
                 ppc, out, received>>

PopPublish ==
  /\ cpc = "destroyed"
  /\ read' = read_local + 1
  /\ read_local' = read_local + 1
  /\ received' = Append(received, out)
  /\ cpc' = "ready"
  /\ UNCHANGED <<slot, write_local, write, write_seen, read_seen, ppc, out>>

(* consumer_occupancy, as the consumer computes it. *)
ConsumerOccupancy == write_seen - read_local

-----------------------------------------------------------------------------
(* The stores reach the other thread. *)

SeeWrite ==
  /\ write_seen < write
  /\ write_seen' \in (write_seen + 1) .. write
  /\ UNCHANGED <<slot, write_local, write, read_local, read, read_seen, ppc,
                 cpc, out, received>>

SeeRead ==
  /\ read_seen < read
  /\ read_seen' \in (read_seen + 1) .. read
  /\ UNCHANGED <<slot, write_local, write, write_seen, read_local, read, ppc,
                 cpc, out, received>>

Next ==
  \/ EmplaceBegin \/ EmplaceEnd \/ EmplacePublish
  \/ PopBegin \/ PopDestroy \/ PopPublish
  \/ SeeWrite \/ SeeRead

Spec == Init /\ [][Next]_ringVars

-----------------------------------------------------------------------------
(* Properties. *)

(* Every variable has its type; what try_pop handed over is always a pushed
   value, never raw storage nor a half-constructed object. *)
TypeOK ==
  /\ slot \in [Slots -> Nat \cup {Raw, Building}]
  /\ write_local \in Nat /\ write \in Nat /\ write_seen \in Nat
  /\ read_local \in Nat  /\ read \in Nat  /\ read_seen \in Nat
  /\ ppc \in {"ready", "building", "built"}
  /\ cpc \in {"ready", "moving", "destroyed"}
  /\ out \in Nat \cup {Raw}
  /\ received \in Seq(Nat)

(* try_pop hands over the pushed values in the order they were pushed: none
   lost, none twice, and none read while it was being constructed. *)
InOrder ==
  \A i \in 1 .. Len(received) : received[i] = i - 1

(* The two threads never touch one slot at once: while the producer constructs
   a value the consumer neither moves from nor destroys that slot, and the
   object the consumer moves from stays the one it found. *)
NoSlotRace ==
  /\ ppc \in {"building", "built"} /\ cpc \in {"moving", "destroyed"}
       => SlotAt(write_local) # SlotAt(read_local)
  /\ cpc = "moving" => slot[SlotAt(read_local)] = out

(* Between operations the live objects are exactly the ones the destructor
   loop would destroy, from read_local_ to write_: no object is leaked by an
   overwrite and none is destroyed twice. *)
LiveObjectsExact ==
  ppc = "ready" /\ cpc = "ready" =>
    \A s \in Slots :
      slot[s] # Raw <=> \E i \in read_local .. write - 1 : SlotAt(i) = s

(* A step of the producer never overwrites an object that still lives. *)
NoOverwriteOfLive ==
  [][\A s \in Slots : slot'[s] = Building => slot[s] \in {Raw, Building}]_ringVars

-----------------------------------------------------------------------------
(* The inductive invariant behind the properties above. *)

(* The order of the counters: what a thread sees lags what was stored, the
   reader never passes the writer, and the writer never laps the reader. *)
CounterOrder ==
  /\ write = write_local /\ read = read_local
  /\ read_seen <= read /\ read <= write_seen /\ write_seen <= write
  /\ write - read_seen <= Capacity
  /\ ppc # "ready" => write - read_seen < Capacity
  /\ cpc # "ready" => read_local < write_seen

(* Indices waiting to be popped hold their own number. *)
WaitingLive ==
  \A i \in read_local .. write - 1 :
    slot[SlotAt(i)] = IF i = read_local /\ cpc = "destroyed" THEN Raw ELSE i

(* The rest of the window is raw, but for the slot being constructed. *)
RestRaw ==
  \A i \in write .. read_local + Capacity - 1 :
    slot[SlotAt(i)] = IF i = write /\ ppc = "building" THEN Building
                      ELSE IF i = write /\ ppc = "built" THEN i ELSE Raw

(* The consumer's local is the event it is handing over. *)
InHand ==
  /\ cpc # "ready" => out = read_local
  /\ Len(received) = read_local

(* The invariant a step of either thread preserves: counters, slots and
   received events agree whatever the interleaving. *)
RingInv ==
  /\ TypeOK
  /\ CounterOrder
  /\ WaitingLive
  /\ RestRaw
  /\ InHand
  /\ InOrder
-----------------------------------------------------------------------------
(* The ring implements EventChannel.  A push takes effect when the write index is
   stored, a pop when the read index is stored; in between the value being handed
   over is the consumer's local, because its slot is already raw storage again. *)

ChannelQueue ==
  [k \in 1 .. (write - read_local) |->
     IF k = 1 /\ cpc = "destroyed" THEN out
     ELSE slot[SlotAt(read_local + k - 1)]]

Channel == INSTANCE EventChannel
           WITH queue <- ChannelQueue, sent <- write, delivered <- received

(* Every behaviour of the ring is, seen through its slots and counters, a
   behaviour of a bounded FIFO channel. *)
ImplementsChannel == Channel!ChanSpec
=============================================================================
