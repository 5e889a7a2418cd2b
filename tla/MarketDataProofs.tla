-------------------------- MODULE MarketDataProofs --------------------------
(***************************************************************************)
(* Proofs about how market data reaches the run: the threaded hand-off,    *)
(* the line reader, the order book and the live relay.                     *)
(*                                                                         *)
(* SpscRing for every capacity and any number of pushes, then              *)
(* ThreadedReplay over it for any number of events.  The ring's argument   *)
(* is about windows of indices rather than slots: the indices from         *)
(* read_local to read_local + Capacity - 1 name every slot once            *)
(* (SlotsDistinct, SlotsCovered), those below write hold their own number, *)
(* those above are raw storage, and the two thread positions say which of  *)
(* the border slots are in transition.  Every step of the replay threads   *)
(* is a step of the ring or leaves it alone, so the ring's invariant holds *)
(* inside the hand-off, and with it ReplayInv, from which run()'s result   *)
(* is honest.                                                              *)
(*                                                                         *)
(* LineReader for every file, every size of the first block and every size *)
(* the reads return: the lines are the file's.  LineInv says where in the  *)
(* file the reader is: what has been cut ends at a newline, and the buffer *)
(* with what is unread is the rest.                                        *)
(*                                                                         *)
(* L2OrderBook for every sequence of snapshots and batches: LadderIs says  *)
(* that a ladder holds the levels of a map, with its count and its best;   *)
(* every operation of a ladder keeps it (SetIs, ClearIs, LadderOfIs), and  *)
(* what its walks meet is the map in order (RankedOrder), so that every    *)
(* view is the map's.                                                      *)
(*                                                                         *)
(* VenueRelay for every queue capacity, message size and bound: gaps are   *)
(* counted exactly (GapInv), and what the engine receives is the recording *)
(* (HandOffInv).                                                           *)
(***************************************************************************)
EXTENDS ThreadedReplay, LineReader, L2OrderBook, VenueRelay, FiniteInduction,
        SequenceTheorems, TLAPS

-----------------------------------------------------------------------------
(* The index arithmetic. *)

(* Division with remainder by the capacity. *)
LEMMA DivMod ==
  ASSUME NEW a \in Nat
  PROVE  /\ a \div Capacity \in Nat
         /\ a % Capacity \in Slots
         /\ a = Capacity * (a \div Capacity) + (a % Capacity)
  BY CapacityAssumption DEF Slots

(* A non-zero multiple of the capacity is at least as large as it. *)
LEMMA Multiple ==
  ASSUME NEW d \in Int, d # 0
  PROVE  Capacity * d >= Capacity \/ Capacity * d <= -Capacity
  BY CapacityAssumption

(* Two indices less than a capacity apart fall in different slots. *)
LEMMA SlotsDistinct ==
  ASSUME NEW i \in Nat, NEW j \in Nat, i < j, j < i + Capacity
  PROVE  SlotAt(i) # SlotAt(j)
<1>1. SUFFICES ASSUME i % Capacity = j % Capacity PROVE FALSE
  BY DEF SlotAt
<1> DEFINE d == (j \div Capacity) - (i \div Capacity)
<1>2. d \in Int /\ Capacity * d = j - i
  BY <1>1, DivMod, CapacityAssumption
<1>3. d # 0
  BY <1>2, CapacityAssumption
<1>4. Capacity * d >= Capacity \/ Capacity * d <= -Capacity
  BY <1>2, <1>3, Multiple
<1> QED BY <1>2, <1>4, CapacityAssumption

(* An index and the one a capacity later share a slot. *)
LEMMA SlotsWrap ==
  ASSUME NEW i \in Nat
  PROVE  SlotAt(i + Capacity) = SlotAt(i)
<1> DEFINE j == i + Capacity
           d == (j \div Capacity) - (i \div Capacity) - 1
<1>1. j \in Nat
  BY CapacityAssumption
<1>2. /\ d \in Int
      /\ Capacity * d = (i % Capacity) - (j % Capacity)
  BY <1>1, DivMod, CapacityAssumption
<1>3. i % Capacity \in Slots /\ j % Capacity \in Slots
  BY <1>1, DivMod
<1>4. d = 0
  BY <1>2, <1>3, Multiple, CapacityAssumption DEF Slots
<1> QED BY <1>2, <1>3, <1>4, CapacityAssumption DEF SlotAt, Slots

(* A window of Capacity consecutive indices reaches every slot. *)
LEMMA SlotsCovered ==
  ASSUME NEW r \in Nat, NEW s \in Slots
  PROVE  \E i \in r .. r + Capacity - 1 : SlotAt(i) = s
<1> DEFINE q == r \div Capacity
           m == r % Capacity
           a == Capacity * q + s
<1>1. /\ q \in Nat /\ m \in Slots /\ r = Capacity * q + m
      /\ s \in Nat /\ s < Capacity
  BY DivMod, CapacityAssumption DEF Slots
<1>2. a \in Nat
  BY <1>1, CapacityAssumption
<1>3. SlotAt(a) = s
  <2> DEFINE d == (a \div Capacity) - q
  <2>1. /\ a % Capacity \in Slots /\ d \in Int
        /\ Capacity * d = s - (a % Capacity)
    BY <1>1, <1>2, DivMod, CapacityAssumption
  <2>2. d = 0
    BY <1>1, <2>1, Multiple, CapacityAssumption DEF Slots
  <2> QED BY <1>1, <2>1, <2>2, CapacityAssumption DEF SlotAt, Slots
<1>4. CASE s >= m
  <2>1. a \in r .. r + Capacity - 1
    BY <1>1, <1>2, <1>4, CapacityAssumption DEF Slots
  <2> QED BY <1>3, <2>1
<1>5. CASE s < m
  <2>1. /\ a + Capacity \in r .. r + Capacity - 1
        /\ SlotAt(a + Capacity) = s
    BY <1>1, <1>2, <1>3, <1>5, SlotsWrap, CapacityAssumption DEF Slots
  <2> QED BY <2>1
<1> QED BY <1>1, <1>4, <1>5, CapacityAssumption DEF Slots

(* A slot index is a slot. *)
LEMMA SlotAtType ==
  ASSUME NEW i \in Nat
  PROVE  SlotAt(i) \in Slots
  BY DivMod DEF SlotAt
-----------------------------------------------------------------------------
(* The invariant. *)

(* The empty ring satisfies the invariant. *)
LEMMA InitRingInv == Init => RingInv
<1> SUFFICES ASSUME Init PROVE RingInv
  OBVIOUS
<1>1. \A i \in Nat : SlotAt(i) \in Slots
  BY SlotAtType
<1>2. TypeOK
  BY DEF Init, TypeOK, Raw, Building
<1>3. CounterOrder /\ WaitingLive
  BY CapacityAssumption DEF Init, CounterOrder, WaitingLive
<1>4. RestRaw
  BY <1>1, CapacityAssumption DEF Init, RestRaw
<1>5. InHand /\ InOrder
  BY DEF Init, InHand, InOrder
<1> QED BY <1>2, <1>3, <1>4, <1>5 DEF RingInv

(* The two indices of a window fall in one slot only if they are equal. *)
LEMMA WindowDistinct ==
  ASSUME NEW r \in Nat, NEW i \in r .. r + Capacity - 1,
         NEW j \in r .. r + Capacity - 1, i # j
  PROVE  SlotAt(i) # SlotAt(j)
<1>1. i \in Nat /\ j \in Nat
  BY CapacityAssumption
<1>2. CASE i < j
  BY <1>1, <1>2, SlotsDistinct, CapacityAssumption
<1>3. CASE j < i
  BY <1>1, <1>3, SlotsDistinct, CapacityAssumption
<1> QED BY <1>1, <1>2, <1>3

(* A fresher read index leaves at least as much room. *)
LEMMA FresherIsRoomier ==
  ASSUME NEW w \in Nat, NEW old \in Nat, NEW new \in Nat, old < new
  PROVE  /\ w - old <= Capacity => w - new <= Capacity
         /\ w - old < Capacity => w - new < Capacity
  BY CapacityAssumption

(* Every step of either thread, and every store becoming visible, preserves
   the invariant. *)
LEMMA NextRingInv == RingInv /\ [Next]_ringVars => RingInv'
<1> SUFFICES ASSUME RingInv, [Next]_ringVars PROVE RingInv'
  OBVIOUS
<1> USE CapacityAssumption
<1>a. TypeOK /\ CounterOrder /\ WaitingLive /\ RestRaw /\ InHand /\ InOrder
  BY DEF RingInv
<1>b. \A i \in Nat : SlotAt(i) \in Slots
  BY SlotAtType
<1>c. \A i, j \in read_local .. read_local + Capacity - 1 :
         i # j => SlotAt(i) # SlotAt(j)
  BY <1>a, WindowDistinct DEF TypeOK
<1>1. CASE EmplaceBegin
  <2>0. write \in read_local .. read_local + Capacity - 1
    BY <1>a, <1>1 DEF EmplaceBegin, Full, TypeOK, CounterOrder
  <2>1. TypeOK'
    BY <1>a, <1>1 DEF TypeOK, EmplaceBegin
  <2>2. CounterOrder'
    BY <1>a, <1>1 DEF TypeOK, CounterOrder, EmplaceBegin, Full
  <2>3. WaitingLive'
    BY <1>a, <1>b, <1>c, <1>1, <2>0 DEF TypeOK, CounterOrder, WaitingLive, EmplaceBegin
  <2>4. RestRaw'
    BY <1>a, <1>b, <1>c, <1>1, <2>0 DEF TypeOK, CounterOrder, RestRaw, EmplaceBegin
  <2>5. InHand' /\ InOrder'
    BY <1>a, <1>1 DEF InHand, InOrder, EmplaceBegin
  <2> QED BY <2>1, <2>2, <2>3, <2>4, <2>5 DEF RingInv
<1>2. CASE EmplaceEnd
  <2>0. write \in read_local .. read_local + Capacity - 1
    BY <1>a, <1>2 DEF EmplaceEnd, TypeOK, CounterOrder
  <2>1. TypeOK'
    BY <1>a, <1>2 DEF TypeOK, EmplaceEnd
  <2>2. CounterOrder'
    BY <1>a, <1>2 DEF TypeOK, CounterOrder, EmplaceEnd
  <2>3. WaitingLive'
    BY <1>a, <1>b, <1>c, <1>2, <2>0 DEF TypeOK, CounterOrder, WaitingLive, EmplaceEnd
  <2>4. RestRaw'
    BY <1>a, <1>b, <1>c, <1>2, <2>0 DEF TypeOK, CounterOrder, RestRaw, EmplaceEnd
  <2>5. InHand' /\ InOrder'
    BY <1>a, <1>2 DEF InHand, InOrder, EmplaceEnd
  <2> QED BY <2>1, <2>2, <2>3, <2>4, <2>5 DEF RingInv
<1>3. CASE EmplacePublish
  <2>0. write \in read_local .. read_local + Capacity - 1
    BY <1>a, <1>3 DEF EmplacePublish, TypeOK, CounterOrder
  <2>1. TypeOK'
    BY <1>a, <1>3 DEF TypeOK, EmplacePublish
  <2>2. CounterOrder'
    BY <1>a, <1>3 DEF TypeOK, CounterOrder, EmplacePublish
  <2>3. WaitingLive'
    BY <1>a, <1>3, <2>0 DEF TypeOK, CounterOrder, WaitingLive, RestRaw, EmplacePublish
  <2>4. RestRaw'
    BY <1>a, <1>3, <2>0 DEF TypeOK, CounterOrder, RestRaw, EmplacePublish
  <2>5. InHand' /\ InOrder'
    BY <1>a, <1>3 DEF InHand, InOrder, EmplacePublish
  <2> QED BY <2>1, <2>2, <2>3, <2>4, <2>5 DEF RingInv
<1>4. CASE PopBegin
  <2>0. read_local < write_seen /\ read_local \in read_local .. write - 1
    BY <1>a, <1>4 DEF PopBegin, Empty, TypeOK, CounterOrder
  <2>1. TypeOK'
    <3>1. out' = read_local
      BY <1>a, <1>4, <2>0 DEF WaitingLive, PopBegin
    <3> QED BY <1>a, <1>4, <3>1 DEF TypeOK, PopBegin
  <2>2. CounterOrder'
    BY <1>a, <1>4, <2>0 DEF TypeOK, CounterOrder, PopBegin
  <2>3. WaitingLive' /\ RestRaw'
    BY <1>a, <1>4 DEF WaitingLive, RestRaw, PopBegin
  <2>4. InHand' /\ InOrder'
    BY <1>a, <1>4, <2>0 DEF InHand, InOrder, WaitingLive, PopBegin
  <2> QED BY <2>1, <2>2, <2>3, <2>4 DEF RingInv
<1>5. CASE PopDestroy
  <2>0. /\ read_local \in read_local .. write - 1
        /\ read_local \in read_local .. read_local + Capacity - 1
        /\ write - 1 < read_local + Capacity
    BY <1>a, <1>5 DEF PopDestroy, TypeOK, CounterOrder
  <2>1. TypeOK'
    BY <1>a, <1>5 DEF TypeOK, PopDestroy
  <2>2. CounterOrder'
    BY <1>a, <1>5 DEF TypeOK, CounterOrder, PopDestroy
  <2>3. WaitingLive'
    BY <1>a, <1>b, <1>c, <1>5, <2>0 DEF TypeOK, CounterOrder, WaitingLive, PopDestroy
  <2>4. RestRaw'
    BY <1>a, <1>b, <1>c, <1>5, <2>0 DEF TypeOK, CounterOrder, RestRaw, PopDestroy
  <2>5. InHand' /\ InOrder'
    BY <1>a, <1>5 DEF InHand, InOrder, PopDestroy
  <2> QED BY <2>1, <2>2, <2>3, <2>4, <2>5 DEF RingInv
<1>6. CASE PopPublish
  <2>0. /\ read_local \in read_local .. write - 1
        /\ slot[SlotAt(read_local)] = Raw
        /\ SlotAt(read_local + Capacity) = SlotAt(read_local)
    BY <1>a, <1>6, SlotsWrap DEF PopPublish, TypeOK, CounterOrder, WaitingLive
  <2>1. TypeOK'
    <3>1. out \in Nat
      BY <1>a, <1>6 DEF TypeOK, InHand, PopPublish
    <3> QED BY <1>a, <1>6, <3>1 DEF TypeOK, PopPublish
  <2>2. CounterOrder'
    BY <1>a, <1>6 DEF TypeOK, CounterOrder, PopPublish
  <2>3. WaitingLive'
    BY <1>a, <1>6 DEF TypeOK, CounterOrder, WaitingLive, PopPublish
  <2>4. RestRaw'
    <3>0. /\ read_local' = read_local + 1 /\ write' = write /\ ppc' = ppc
          /\ slot' = slot
          /\ read_local \in Nat /\ write \in Nat
          /\ ppc # "ready" => write < read_local + Capacity
      BY <1>a, <1>6 DEF TypeOK, CounterOrder, PopPublish
    <3> QED BY <1>a, <2>0, <3>0 DEF RestRaw
  <2>5. InHand' /\ InOrder'
    BY <1>a, <1>6 DEF TypeOK, InHand, InOrder, PopPublish
  <2> QED BY <2>1, <2>2, <2>3, <2>4, <2>5 DEF RingInv
<1>7. CASE SeeWrite
  <2>1. TypeOK' /\ CounterOrder'
    BY <1>a, <1>7 DEF TypeOK, CounterOrder, SeeWrite
  <2>2. WaitingLive' /\ RestRaw' /\ InHand' /\ InOrder'
    BY <1>a, <1>7 DEF WaitingLive, RestRaw, InHand, InOrder, SeeWrite
  <2> QED BY <2>1, <2>2 DEF RingInv
<1>8. CASE SeeRead
  <2>0. read_seen' \in Nat /\ read_seen < read_seen' /\ read_seen' <= read
    BY <1>a, <1>8 DEF TypeOK, SeeRead
  <2>t. TypeOK'
    BY <1>a, <1>8, <2>0 DEF TypeOK, SeeRead
  <2>1. /\ write - read_seen' <= Capacity
        /\ ppc # "ready" => write - read_seen' < Capacity
    <3>1. /\ write \in Nat /\ read_seen \in Nat
          /\ write - read_seen <= Capacity
          /\ ppc # "ready" => write - read_seen < Capacity
      BY <1>a DEF TypeOK, CounterOrder
    <3> QED BY <2>0, <3>1, FresherIsRoomier
  <2>c. CounterOrder'
    BY <1>a, <1>8, <2>0, <2>1 DEF CounterOrder, SeeRead
  <2>2. WaitingLive' /\ RestRaw' /\ InHand' /\ InOrder'
    BY <1>a, <1>8 DEF WaitingLive, RestRaw, InHand, InOrder, SeeRead
  <2> QED BY <2>t, <2>c, <2>2 DEF RingInv
<1>9. CASE UNCHANGED ringVars
  BY <1>a, <1>9 DEF RingInv, TypeOK, CounterOrder, WaitingLive, RestRaw, InHand,
                    InOrder, ringVars
<1> QED BY <1>1, <1>2, <1>3, <1>4, <1>5, <1>6, <1>7, <1>8, <1>9 DEF Next

(* The invariant holds in every state the ring reaches. *)
THEOREM RingInvariant == Spec => []RingInv
<1> QED BY InitRingInv, NextRingInv, PTL DEF Spec
-----------------------------------------------------------------------------
(* The properties. *)

(* Type correctness of the ring, for every capacity. *)
THEOREM TypeCorrect == Spec => []TypeOK
<1>1. RingInv => TypeOK
  BY DEF RingInv
<1> QED BY <1>1, RingInvariant, PTL

(* try_pop hands the pushed values over in order, none lost, none twice. *)
THEOREM DeliveryInOrder == Spec => []InOrder
<1>1. RingInv => InOrder
  BY DEF RingInv
<1> QED BY <1>1, RingInvariant, PTL

(* No slot is constructed by the producer while the consumer is in it. *)
THEOREM SlotsNeverRace == Spec => []NoSlotRace
<1>1. RingInv => NoSlotRace
  <2> SUFFICES ASSUME RingInv PROVE NoSlotRace
    OBVIOUS
  <2>1. CASE cpc = "ready"
    BY <2>1 DEF NoSlotRace
  <2>2. CASE cpc # "ready"
    <3>1. /\ read_local \in Nat /\ write \in Nat /\ write = write_local
          /\ read_local < write
          /\ ppc # "ready" => write < read_local + Capacity
      BY <2>2, CapacityAssumption DEF RingInv, TypeOK, CounterOrder
    <3>2. ppc # "ready" => SlotAt(write_local) # SlotAt(read_local)
      BY <3>1, SlotsDistinct
    <3>3. cpc = "moving" => slot[SlotAt(read_local)] = out
      BY <2>2, <3>1 DEF RingInv, WaitingLive, InHand
    <3> QED BY <3>2, <3>3 DEF NoSlotRace
  <2> QED BY <2>1, <2>2
<1> QED BY <1>1, RingInvariant, PTL

(* The destructor's loop destroys exactly the objects that are alive. *)
THEOREM DestructorExact == Spec => []LiveObjectsExact
<1>1. RingInv => LiveObjectsExact
  <2> SUFFICES ASSUME RingInv, ppc = "ready", cpc = "ready", NEW s \in Slots
               PROVE  slot[s] # Raw
                        <=> \E i \in read_local .. write - 1 : SlotAt(i) = s
    BY DEF LiveObjectsExact
  <2>1. /\ read_local \in Nat /\ write \in Nat
        /\ read_local <= write /\ write <= read_local + Capacity
    BY CapacityAssumption DEF RingInv, TypeOK, CounterOrder
  <2>2. PICK k \in read_local .. read_local + Capacity - 1 : SlotAt(k) = s
    BY <2>1, SlotsCovered
  <2>3. CASE k < write
    <3>1. k \in read_local .. write - 1 /\ slot[s] = k
      BY <2>1, <2>2, <2>3, CapacityAssumption DEF RingInv, WaitingLive
    <3>2. slot[s] # Raw
      BY <2>1, <3>1 DEF Raw
    <3> QED BY <2>2, <3>1, <3>2
  <2>4. CASE k >= write
    <3>1. k \in write .. read_local + Capacity - 1 /\ slot[s] = Raw
      BY <2>1, <2>2, <2>4, CapacityAssumption DEF RingInv, RestRaw
    <3>2. ASSUME NEW i \in read_local .. write - 1
          PROVE  SlotAt(i) # s
      BY <2>1, <2>2, <2>4, WindowDistinct, CapacityAssumption
    <3> QED BY <3>1, <3>2
  <2> QED BY <2>1, <2>2, <2>3, <2>4, CapacityAssumption
<1> QED BY <1>1, RingInvariant, PTL

(* Placement new never lands on an object that is still alive. *)
THEOREM NeverOverwrites == Spec => NoOverwriteOfLive
<1> DEFINE A == \A s \in Slots : slot'[s] = Building => slot[s] \in {Raw, Building}
<1>1. RingInv /\ [Next]_ringVars => [A]_ringVars
  <2> SUFFICES ASSUME RingInv, Next PROVE A
    OBVIOUS
  <2>1. CASE EmplaceBegin
    <3>1. /\ write \in write .. read_local + Capacity - 1
          /\ write = write_local
      BY <2>1, CapacityAssumption
         DEF RingInv, TypeOK, CounterOrder, EmplaceBegin, Full
    <3>2. slot[SlotAt(write_local)] = Raw
      BY <2>1, <3>1 DEF RingInv, RestRaw, EmplaceBegin
    <3> QED BY <2>1, <3>2 DEF RingInv, TypeOK, EmplaceBegin
  <2>2. CASE EmplaceEnd
    BY <2>2 DEF RingInv, TypeOK, EmplaceEnd, Building
  <2>3. CASE PopDestroy
    BY <2>3 DEF RingInv, TypeOK, PopDestroy, Building, Raw
  <2>4. CASE slot' = slot
    BY <2>4
  <2> QED BY <2>1, <2>2, <2>3, <2>4
          DEF Next, EmplacePublish, PopBegin, PopPublish, SeeWrite, SeeRead
<1>2. Spec => [][A]_ringVars
  BY <1>1, RingInvariant, PTL DEF Spec
<1> QED BY <1>2 DEF NoOverwriteOfLive
-----------------------------------------------------------------------------
(* The refinement. *)

(* The numbers from r up to w - 1, as a sequence. *)
Window(r, w) == [k \in 1 .. (w - r) |-> r + k - 1]

(* How a window grows at its end and shrinks at its front. *)
LEMMA WindowSteps ==
  ASSUME NEW r \in Nat, NEW w \in Nat, r <= w
  PROVE  /\ Window(r, w) \in Seq(Nat)
         /\ Len(Window(r, w)) = w - r
         /\ Window(r, w + 1) = Append(Window(r, w), w)
         /\ r < w => /\ Window(r, w) # <<>>
                    /\ Head(Window(r, w)) = r
                    /\ Tail(Window(r, w)) = Window(r + 1, w)
<1>1. Window(r, w) \in Seq(Nat) /\ Len(Window(r, w)) = w - r
  BY DEF Window
<1>2. Window(r, w + 1) = Append(Window(r, w), w)
  BY <1>1 DEF Window
<1>3. ASSUME r < w
      PROVE  /\ Window(r, w) # <<>>
             /\ Head(Window(r, w)) = r
             /\ Tail(Window(r, w)) = Window(r + 1, w)
  <2> DEFINE q == Window(r, w)
             t == Window(r + 1, w)
  <2>1. q \in Seq(Nat) /\ Len(q) = w - r /\ q # <<>>
    BY <1>1, <1>3, EmptySeq
  <2>2. \A k \in 1 .. w - r : q[k] = r + k - 1
    BY DEF Window
  <2>3. Head(q) = r
    <3>1. q[1] = r
      BY <1>3, <2>2
    <3> QED BY <2>1, <3>1
  <2>4. t \in Seq(Nat) /\ Len(t) = w - r - 1
    BY <1>3 DEF Window
  <2>5. \A k \in 1 .. w - r - 1 : t[k] = r + k
    BY <1>3 DEF Window
  <2>6. /\ Tail(q) \in Seq(Nat) /\ Len(Tail(q)) = w - r - 1
        /\ \A k \in 1 .. w - r - 1 : Tail(q)[k] = q[k + 1]
    BY <2>1, HeadTailProperties
  <2>7. \A k \in 1 .. w - r - 1 : Tail(q)[k] = t[k]
    BY <2>2, <2>5, <2>6
  <2>8. Tail(q) = t
    BY <2>4, <2>6, <2>7, SeqEqual
  <2> QED BY <2>1, <2>3, <2>8
<1> QED BY <1>1, <1>2, <1>3

(* Under the invariant the abstract queue is the window of waiting numbers. *)
LEMMA QueueIsWindow ==
  RingInv => ChannelQueue = Window(read_local, write)
<1> SUFFICES ASSUME RingInv PROVE ChannelQueue = Window(read_local, write)
  OBVIOUS
<1>1. ASSUME NEW k \in 1 .. (write - read_local)
      PROVE  (IF k = 1 /\ cpc = "destroyed" THEN out
              ELSE slot[SlotAt(read_local + k - 1)]) = read_local + k - 1
  <2>1. read_local \in Nat /\ write \in Nat
    BY DEF RingInv, TypeOK
  <2>2. read_local + k - 1 \in read_local .. write - 1
    BY <2>1
  <2>3. CASE k = 1 /\ cpc = "destroyed"
    BY <2>1, <2>3 DEF RingInv, InHand
  <2>4. CASE ~(k = 1 /\ cpc = "destroyed")
    <3>1. ~(read_local + k - 1 = read_local /\ cpc = "destroyed")
      BY <2>1, <2>4
    <3> QED BY <2>2, <2>4, <3>1 DEF RingInv, WaitingLive
  <2> QED BY <2>3, <2>4
<1> QED BY <1>1 DEF ChannelQueue, Window

(* The ring implements the bounded FIFO channel: publishing the write index is
   a Send, publishing the read index a Receive, and nothing else is visible. *)
THEOREM RingImplementsChannel == Spec => ImplementsChannel
<1>1. Init => Channel!ChanInit
  <2> SUFFICES ASSUME Init PROVE Channel!ChanInit
    OBVIOUS
  <2>1. ChannelQueue = <<>>
    BY DEF Init, ChannelQueue
  <2> QED BY <2>1 DEF Init, Channel!ChanInit
<1>2. RingInv /\ RingInv' /\ [Next]_ringVars
        => [Channel!Send \/ Channel!Receive]_(Channel!chanVars)
  <2> SUFFICES ASSUME RingInv, RingInv', [Next]_ringVars
               PROVE  [Channel!Send \/ Channel!Receive]_(Channel!chanVars)
    OBVIOUS
  <2>1. /\ read_local \in Nat /\ write \in Nat /\ read_local <= write
        /\ write = write_local /\ write - read_local <= Capacity
        /\ ppc # "ready" => write - read_local < Capacity
        /\ cpc # "ready" => read_local < write /\ out = read_local
    BY CapacityAssumption DEF RingInv, TypeOK, CounterOrder, InHand
  <2>2. ChannelQueue = Window(read_local, write)
    BY QueueIsWindow
  <2>3. (ChannelQueue = Window(read_local, write))'
    BY QueueIsWindow, PTL
  <2>4. CASE EmplacePublish
    <3>1. /\ write' = write + 1 /\ read_local' = read_local
          /\ received' = received /\ ppc # "ready"
      BY <2>1, <2>4 DEF EmplacePublish
    <3>2. /\ Len(ChannelQueue) < Capacity
          /\ ChannelQueue' = Append(ChannelQueue, write)
      BY <2>1, <2>2, <2>3, <3>1, WindowSteps
    <3> QED BY <3>1, <3>2 DEF Channel!Send
  <2>5. CASE PopPublish
    <3>1. /\ read_local' = read_local + 1 /\ write' = write
          /\ received' = Append(received, out) /\ cpc # "ready"
      BY <2>1, <2>5 DEF PopPublish
    <3>2. /\ ChannelQueue # <<>> /\ Head(ChannelQueue) = out
          /\ ChannelQueue' = Tail(ChannelQueue)
      BY <2>1, <2>2, <2>3, <3>1, WindowSteps
    <3> QED BY <3>1, <3>2 DEF Channel!Receive
  <2>6. CASE UNCHANGED <<read_local, write, received>>
    BY <2>2, <2>3, <2>6 DEF Channel!chanVars
  <2> QED BY <2>4, <2>5, <2>6
          DEF Next, ringVars, EmplaceBegin, EmplaceEnd, PopBegin, PopDestroy,
              SeeWrite, SeeRead
<1> QED BY <1>1, <1>2, RingInvariant, PTL
        DEF Spec, ImplementsChannel, Channel!ChanSpec
-----------------------------------------------------------------------------
(* The replay threads over the ring. *)

(* Every step of the hand-off is a step of the ring, or leaves it alone. *)
LEMMA RingSteps == [RNext]_vars => [Next]_ringVars
<1>1. FeedStep => [Next]_ringVars
  BY Zenon DEF FeedStep, FeedNext, FeedEnd, FeedThrow, PushBegin, PushEnd, PushPublish,
     PushRefused, RetryRefused, RetryAborted, RetrySpin, FeedStoreAbort, FeedStoreDone, Next
<1>2. StrategyStep => [Next]_ringVars
  BY Zenon DEF StrategyStep, TakeBegin, TakeDestroy, TakePublish, SampleDepth,
     CallbackReturns, CallbackThrows, PopRefused, AbortObserved, AbortNotObserved,
     DoneNotObserved, DoneObserved, LastPopRefused, JoinAndReturn, Next
<1>3. Visibility => [Next]_ringVars
  BY Zenon DEF Visibility, SeeRing, SeeFeedAbort, SeeStrategyAbort, SeeDone, Next
<1> QED BY <1>1, <1>2, <1>3, Zenon DEF RNext, vars

(* ThreadedReplayFeed uses its ring as the ring is meant to be used: one producer,
   one consumer, each operation run to its end.  What is proved of the
   ring is so true of the ring inside the feed. *)
THEOREM ReplayUsesRing == RSpec => Spec
<1>1. RInit => Init
  BY DEF RInit
<1>2. [RNext]_vars => [Next]_ringVars
  BY RingSteps
<1> QED BY <1>1, <1>2, PTL DEF RSpec, Spec

-----------------------------------------------------------------------------
(* Types. *)

(* Every step keeps the flags Boolean. *)
LEMMA ReplayFlagsKept == ReplayFlagTypes /\ [RNext]_vars => ReplayFlagTypes'
<1> SUFFICES ASSUME ReplayFlagTypes, [RNext]_vars PROVE ReplayFlagTypes'
  OBVIOUS
<1> USE DEF ReplayFlagTypes, vars, replayVars, flagVars, errorVars
<1>1. CASE FeedStep
  BY <1>1, Zenon DEF FeedStep, FeedNext, FeedEnd, FeedThrow, PushBegin, PushEnd, PushPublish,
     PushRefused, RetryRefused, RetryAborted, RetrySpin, FeedStoreAbort, FeedStoreDone
<1>2. CASE StrategyStep
  BY <1>2, Zenon DEF StrategyStep, TakeBegin, TakeDestroy, TakePublish, SampleDepth,
     CallbackReturns, CallbackThrows, PopRefused, AbortObserved, AbortNotObserved,
     DoneNotObserved, DoneObserved, LastPopRefused, JoinAndReturn
<1>3. CASE Visibility
  BY <1>3, Zenon DEF Visibility, SeeRing, SeeFeedAbort, SeeStrategyAbort, SeeDone
<1>4. CASE UNCHANGED vars
  BY <1>4, Zenon
<1> QED BY <1>1, <1>2, <1>3, <1>4 DEF RNext

(* Every step keeps the other types. *)
LEMMA ReplayDataKept == TypeOK /\ ReplayDataTypes /\ [RNext]_vars => ReplayDataTypes'
<1> SUFFICES ASSUME TypeOK, ReplayDataTypes, [RNext]_vars PROVE ReplayDataTypes'
  OBVIOUS
<1> USE DEF ReplayDataTypes, vars, replayVars, flagVars, errorVars, statVars, Threads
<1>1. CASE FeedNext \/ FeedEnd \/ FeedThrow \/ PushRefused \/ RetryRefused \/ RetryAborted
           \/ RetrySpin
  BY <1>1 DEF FeedNext, FeedEnd, FeedThrow, PushRefused, RetryRefused, RetryAborted, RetrySpin
<1>2. CASE PushBegin \/ PushEnd
  BY <1>2 DEF PushBegin, PushEnd
<1>3. CASE PushPublish
  BY <1>3 DEF PushPublish
<1>4. CASE FeedStoreAbort
  BY <1>4 DEF FeedStoreAbort
<1>5. CASE FeedStoreDone
  BY <1>5 DEF FeedStoreDone
<1>6. CASE TakeBegin \/ TakeDestroy
  BY <1>6 DEF TakeBegin, TakeDestroy
<1>7. CASE TakePublish
  BY <1>7 DEF TakePublish
<1>8. CASE SampleDepth
  BY <1>8 DEF SampleDepth, ConsumerOccupancy, TypeOK
<1>9. CASE CallbackReturns
  BY <1>9 DEF CallbackReturns
<1>10. CASE CallbackThrows
  BY <1>10 DEF CallbackThrows
<1>11. CASE PopRefused \/ AbortObserved \/ AbortNotObserved \/ DoneNotObserved \/ DoneObserved
            \/ LastPopRefused
  BY <1>11 DEF PopRefused, AbortObserved, AbortNotObserved, DoneNotObserved, DoneObserved,
     LastPopRefused
<1>12. CASE JoinAndReturn
  BY <1>12 DEF JoinAndReturn
<1>13. CASE SeeRing
  BY <1>13 DEF SeeRing
<1>14. CASE SeeFeedAbort
  BY <1>14 DEF SeeFeedAbort
<1>15. CASE SeeStrategyAbort
  BY <1>15 DEF SeeStrategyAbort
<1>16. CASE SeeDone
  BY <1>16 DEF SeeDone
<1>17. CASE UNCHANGED vars
  BY <1>17
<1> QED
  BY <1>1, <1>2, <1>3, <1>4, <1>5, <1>6, <1>7, <1>8, <1>9, <1>10, <1>11, <1>12, <1>13,
     <1>14, <1>15, <1>16, <1>17
     DEF RNext, FeedStep, StrategyStep, Visibility

-----------------------------------------------------------------------------
(* The invariant. *)

(* Every step keeps the feed thread's side. *)
LEMMA FeedSideKept == ReplayInv /\ [RNext]_vars => FeedSide'
<1> SUFFICES ASSUME ReplayInv, [RNext]_vars PROVE FeedSide'
  OBVIOUS
<1> USE DEF FeedSide
<1>0. FeedSide /\ write_local \in Nat /\ NumEvents \in Nat
  BY ReplayAssumption DEF ReplayInv, RTypeOK, TypeOK
<1>1. CASE FeedNext
  BY <1>0, <1>1 DEF FeedNext, ringVars, flagVars, errorVars
<1>2. CASE FeedEnd
  BY <1>0, <1>2 DEF FeedEnd, ringVars, flagVars, errorVars
<1>3. CASE FeedThrow
  BY <1>0, <1>3 DEF FeedThrow, ringVars, flagVars
<1>4. CASE PushBegin
  BY <1>0, <1>4 DEF PushBegin, EmplaceBegin, replayVars
<1>5. CASE PushEnd
  BY <1>0, <1>5 DEF PushEnd, EmplaceEnd, replayVars
<1>6. CASE PushPublish
  BY <1>0, <1>6 DEF PushPublish, EmplacePublish, flagVars, errorVars
<1>7. CASE PushRefused
  BY <1>0, <1>7 DEF PushRefused, ringVars, flagVars, errorVars
<1>8. CASE RetryRefused
  BY <1>0, <1>8 DEF RetryRefused, ringVars, flagVars, errorVars
<1>9. CASE RetryAborted
  BY <1>0, <1>9 DEF RetryAborted, ringVars, flagVars
<1>10. CASE RetrySpin
  BY <1>0, <1>10 DEF RetrySpin, ringVars, flagVars, errorVars
<1>11. CASE FeedStoreAbort
  BY <1>0, <1>11 DEF FeedStoreAbort, ringVars, errorVars
<1>12. CASE FeedStoreDone
  BY <1>0, <1>12 DEF FeedStoreDone, ringVars, errorVars
<1>13. CASE CallbackThrows
  BY <1>0, <1>13 DEF CallbackThrows, ringVars
<1>14. CASE UNCHANGED <<fpc, ppc, write_local, done, producer_error, abort>>
  BY <1>0, <1>14
<1>15. CASE StrategyStep /\ ~CallbackThrows
  BY <1>14, <1>15, Zenon DEF StrategyStep, TakeBegin, TakeDestroy, TakePublish, SampleDepth,
     CallbackReturns, PopRefused, AbortObserved, AbortNotObserved, DoneNotObserved,
     DoneObserved, LastPopRefused, JoinAndReturn, PopBegin, PopDestroy, PopPublish,
     ringVars, replayVars, flagVars, errorVars
<1>16. CASE Visibility \/ UNCHANGED vars
  BY <1>14, <1>16, Zenon DEF Visibility, SeeRing, SeeWrite, SeeRead, SeeFeedAbort,
     SeeStrategyAbort, SeeDone, vars, ringVars, replayVars, errorVars
<1> QED
  BY <1>1, <1>2, <1>3, <1>4, <1>5, <1>6, <1>7, <1>8, <1>9, <1>10, <1>11, <1>12, <1>13,
     <1>15, <1>16
     DEF RNext, FeedStep

(* Every step keeps the calling thread's side. *)
LEMMA StrategySideKept == ReplayInv /\ [RNext]_vars => StrategySide'
<1> SUFFICES ASSUME ReplayInv, [RNext]_vars PROVE StrategySide'
  OBVIOUS
<1> USE DEF StrategySide
<1>0. /\ StrategySide /\ FeedSide /\ CounterOrder
      /\ write \in Nat /\ write_seen \in Nat /\ read_local \in Nat /\ handled \in Nat
      /\ abort \in SUBSET Threads /\ abort_seen \in SUBSET Threads
  BY DEF ReplayInv, RTypeOK, TypeOK, RingInv, ReplayDataTypes
<1>1. CASE FeedNext \/ FeedEnd \/ FeedThrow \/ PushRefused \/ RetryRefused \/ RetryAborted
           \/ RetrySpin
  <2>1. UNCHANGED <<ringVars, kpc, flagVars, consumer_error, handled>>
    BY <1>1, Zenon DEF FeedNext, FeedEnd, FeedThrow, PushRefused, RetryRefused, RetryAborted,
       RetrySpin, errorVars, statVars
  <2> QED BY <1>0, <2>1, Zenon DEF ringVars, flagVars
<1>2. CASE PushBegin \/ PushEnd
  <2>1. /\ UNCHANGED <<cpc, write, write_seen, read_local>>
        /\ UNCHANGED <<kpc, abort, abort_seen, done, done_seen, consumer_error, handled>>
    BY <1>2, Zenon DEF PushBegin, PushEnd, EmplaceBegin, EmplaceEnd, replayVars
  <2> QED BY <1>0, <2>1, Zenon
<1>3. CASE PushPublish
  <2>1. ~done
    BY <1>0, <1>3 DEF PushPublish, EmplacePublish, FeedSide
  <2> QED BY <1>0, <1>3, <2>1 DEF PushPublish, EmplacePublish, flagVars, errorVars
<1>4. CASE FeedStoreAbort
  BY <1>0, <1>4 DEF FeedStoreAbort, ringVars, errorVars, statVars
<1>5. CASE FeedStoreDone
  BY <1>0, <1>5 DEF FeedStoreDone, ringVars, errorVars, statVars
<1>6. CASE TakeBegin
  BY <1>0, <1>6 DEF TakeBegin, PopBegin, replayVars
<1>7. CASE TakeDestroy
  BY <1>0, <1>7 DEF TakeDestroy, PopDestroy, replayVars
<1>8. CASE TakePublish
  BY <1>0, <1>8 DEF TakePublish, PopPublish, flagVars, errorVars, statVars
<1>9. CASE SampleDepth
  BY <1>0, <1>9 DEF SampleDepth, ringVars, flagVars, errorVars
<1>10. CASE CallbackReturns
  BY <1>0, <1>10 DEF CallbackReturns, ringVars, flagVars, errorVars
<1>11. CASE CallbackThrows
  BY <1>0, <1>11 DEF CallbackThrows, ringVars, statVars
<1>12. CASE PopRefused
  BY <1>0, <1>12 DEF PopRefused, ringVars, flagVars, errorVars, statVars
<1>13. CASE AbortObserved
  BY <1>0, <1>13 DEF AbortObserved, ringVars, flagVars, errorVars, statVars
<1>14. CASE AbortNotObserved
  BY <1>0, <1>14 DEF AbortNotObserved, ringVars, flagVars, errorVars, statVars
<1>15. CASE DoneNotObserved
  BY <1>0, <1>15 DEF DoneNotObserved, ringVars, flagVars, errorVars, statVars
<1>16. CASE DoneObserved
  BY <1>0, <1>16 DEF DoneObserved, ringVars, flagVars, errorVars, statVars
<1>17. CASE LastPopRefused
  BY <1>0, <1>17 DEF LastPopRefused, Empty, ringVars, flagVars, errorVars, statVars
<1>18. CASE JoinAndReturn
  BY <1>0, <1>18 DEF JoinAndReturn, ringVars, flagVars, errorVars, statVars
<1>19. CASE SeeRing
  <2>1. done_seen => write_seen' = write_seen
    BY <1>0, <1>19 DEF SeeRing, SeeWrite, SeeRead
  <2>2. UNCHANGED <<cpc, write, read_local>> /\ UNCHANGED replayVars
    BY <1>19, Zenon DEF SeeRing, SeeWrite, SeeRead
  <2> QED BY <1>0, <2>1, <2>2, Zenon DEF replayVars
<1>20. CASE SeeFeedAbort
  BY <1>0, <1>20 DEF SeeFeedAbort, ringVars, errorVars, statVars
<1>21. CASE SeeStrategyAbort
  BY <1>0, <1>21 DEF SeeStrategyAbort, ringVars, errorVars, statVars
<1>22. CASE SeeDone
  BY <1>0, <1>22 DEF SeeDone, ringVars, errorVars, statVars
<1>23. CASE UNCHANGED vars
  BY <1>0, <1>23, Zenon DEF vars, ringVars, replayVars
<1> QED
  BY <1>1, <1>2, <1>3, <1>4, <1>5, <1>6, <1>7, <1>8, <1>9, <1>10, <1>11, <1>12, <1>13,
     <1>14, <1>15, <1>16, <1>17, <1>18, <1>19, <1>20, <1>21, <1>22, <1>23
     DEF RNext, FeedStep, StrategyStep, Visibility

(* Every step keeps the outcome. *)
LEMMA OutcomeKept == ReplayInv /\ [RNext]_vars => Outcome'
<1> SUFFICES ASSUME ReplayInv, [RNext]_vars PROVE Outcome'
  OBVIOUS
<1> USE DEF Outcome
<1>0. Outcome /\ StrategySide /\ FeedSide
  BY DEF ReplayInv
<1>1. CASE JoinAndReturn
  BY <1>0, <1>1 DEF JoinAndReturn, errorVars
<1>2. CASE FeedStep
  <2>1. CASE UNCHANGED replayVars
    BY <1>0, <2>1, Zenon DEF replayVars
  <2>2. CASE kpc' = kpc /\ result' = result /\ fpc # "exited"
    BY <1>0, <2>2
  <2>3. CASE PushPublish
    <3>1. fpc # "exited"
      BY <1>0, <2>3 DEF PushPublish, EmplacePublish, FeedSide
    <3> QED BY <2>2, <2>3, <3>1 DEF PushPublish
  <2>4. FeedStep /\ ~PushPublish =>
          UNCHANGED replayVars \/ (kpc' = kpc /\ result' = result /\ fpc # "exited")
    BY DEF FeedStep, FeedNext, FeedEnd, FeedThrow, PushBegin, PushEnd, PushRefused,
       RetryRefused, RetryAborted, RetrySpin, FeedStoreAbort, FeedStoreDone
  <2> QED BY <1>2, <2>1, <2>2, <2>3, <2>4, Zenon
<1>3. CASE StrategyStep /\ ~JoinAndReturn
  <2>1. CASE UNCHANGED replayVars
    BY <1>0, <2>1, Zenon DEF replayVars
  <2>2. CASE result' = result /\ kpc # "returned" /\ kpc' # "returned"
    BY <1>0, <2>2
  <2>3. CASE TakePublish
    <3>1. kpc # "returned"
      BY <1>0, <2>3 DEF TakePublish, PopPublish, StrategySide
    <3> QED BY <2>2, <2>3, <3>1 DEF TakePublish
  <2>4. StrategyStep /\ ~JoinAndReturn /\ ~TakePublish =>
          UNCHANGED replayVars \/ (result' = result /\ kpc # "returned" /\ kpc' # "returned")
    BY DEF StrategyStep, TakeBegin, TakeDestroy, SampleDepth, CallbackReturns, CallbackThrows,
       PopRefused, AbortObserved, AbortNotObserved, DoneNotObserved, DoneObserved,
       LastPopRefused
  <2> QED BY <1>3, <2>1, <2>2, <2>3, <2>4, Zenon
<1>4. CASE Visibility \/ UNCHANGED vars
  <2>1. UNCHANGED <<fpc, kpc, result, errorVars>>
    BY <1>4, Zenon DEF Visibility, SeeRing, SeeFeedAbort, SeeStrategyAbort, SeeDone, vars,
       replayVars, errorVars
  <2> QED BY <1>0, <2>1, Zenon DEF errorVars
<1> QED BY <1>1, <1>2, <1>3, <1>4 DEF RNext

(* The invariant holds of every run. *)
THEOREM ReplayInvariant == RSpec => []ReplayInv
<1>1. RInit => ReplayInv
  <2> SUFFICES ASSUME RInit PROVE ReplayInv
    OBVIOUS
  <2>1. RingInv
    BY InitRingInv DEF RInit
  <2>2. ReplayFlagTypes
    BY Zenon DEF RInit, ReplayFlagTypes
  <2>3. ReplayDataTypes
    BY DEF RInit, ReplayDataTypes, Threads
  <2>4. FeedSide /\ Outcome
    BY ReplayAssumption DEF RInit, Init, FeedSide, Outcome
  <2>5. StrategySide
    BY DEF RInit, Init, StrategySide
  <2> QED BY <2>1, <2>2, <2>3, <2>4, <2>5 DEF ReplayInv, RTypeOK, RingInv
<1>2. ReplayInv /\ [RNext]_vars => ReplayInv'
  <2> SUFFICES ASSUME ReplayInv, [RNext]_vars PROVE ReplayInv'
    OBVIOUS
  <2>1. RingInv'
    BY RingSteps, NextRingInv DEF ReplayInv
  <2>2. ReplayFlagTypes' /\ ReplayDataTypes'
    BY ReplayFlagsKept, ReplayDataKept DEF ReplayInv, RTypeOK
  <2>3. FeedSide' /\ StrategySide' /\ Outcome'
    BY FeedSideKept, StrategySideKept, OutcomeKept
  <2> QED BY <2>1, <2>2, <2>3 DEF ReplayInv, RTypeOK, RingInv
<1> QED BY <1>1, <1>2, PTL DEF RSpec

(* For every ring capacity, any number of events and any interleaving of the two
   threads' steps and of the moments their stores become visible: a run() that
   returns normally has given the callback every event, once and in order, and one
   that fails rethrows the failure that happened, the callback's before the feed's;
   the events missing from a run are never missing silently. *)
THEOREM ReplayResultHonest == RSpec => []ResultHonest
<1>1. ReplayInv => ResultHonest
  <2> SUFFICES ASSUME ReplayInv PROVE ResultHonest
    OBVIOUS
  <2>1. /\ RTypeOK /\ FeedSide /\ StrategySide /\ Outcome
        /\ received \in Seq(Nat) /\ Len(received) = read_local /\ InOrder
        /\ write = write_local /\ NumEvents \in Nat
    BY ReplayAssumption DEF ReplayInv, RTypeOK, TypeOK, RingInv, InHand, CounterOrder
  <2>2. result # "running" /\ ~consumer_error /\ ~producer_error => Len(received) = NumEvents
    BY <2>1 DEF Outcome, FeedSide, StrategySide
  <2>3. FailureReported
    BY <2>1, <2>2 DEF FailureReported, Outcome
  <2>4. ASSUME result = "ok"
        PROVE  received = [i \in 1 .. NumEvents |-> i - 1] /\ handled = NumEvents
    <3>1. ~consumer_error /\ ~producer_error /\ kpc = "returned"
      BY <2>1, <2>4 DEF Outcome
    <3>2. Len(received) = NumEvents /\ handled = NumEvents
      BY <2>1, <2>2, <2>4, <3>1 DEF StrategySide
    <3>3. DOMAIN received = 1 .. NumEvents /\ received \in [1 .. NumEvents -> Nat]
      BY <2>1, <3>2, LenProperties
    <3> QED BY <2>1, <3>2, <3>3 DEF InOrder
  <2> QED BY <2>1, <2>3, <2>4 DEF ResultHonest, CompleteWhenOk
<1> QED BY <1>1, ReplayInvariant, PTL

-----------------------------------------------------------------------------
(* Lines of the file. *)

(* A file is a sequence of bytes, and its newlines are finitely many of its places. *)
LEMMA EndsFinite ==
  ASSUME file \in Seq(Bytes)
  PROVE  /\ Ends \subseteq 1 .. Len(file) /\ IsFiniteSet(Ends)
         /\ \A e \in Int : /\ IsFiniteSet({i \in Ends : i <= e})
                           /\ EndedBy(e) \in Nat
<1>1. Ends \subseteq 1 .. Len(file) /\ Len(file) \in Nat
  BY LenProperties DEF Ends
<1>2. IsFiniteSet(1 .. Len(file))
  BY <1>1, FS_Interval
<1>3. IsFiniteSet(Ends)
  BY <1>1, <1>2, FS_Subset
<1>4. ASSUME NEW e \in Int
      PROVE  IsFiniteSet({i \in Ends : i <= e}) /\ EndedBy(e) \in Nat
  <2>1. IsFiniteSet({i \in Ends : i <= e})
    BY <1>3, FS_Subset
  <2> QED BY <2>1, FS_CardinalityType DEF EndedBy
<1> QED BY <1>1, <1>3, <1>4

(* Between two places without a newline no line ends; the next newline ends one. *)
LEMMA EndedBySteps ==
  ASSUME file \in Seq(Bytes), NEW a \in Int, NEW e \in Int, a <= e
  PROVE  /\ (\A i \in Ends : i > a => i > e) => EndedBy(e) = EndedBy(a)
         /\ (e \in Ends /\ a < e /\ \A i \in Ends : i > a => i >= e)
              => EndedBy(e) = EndedBy(a) + 1
         /\ (e \in Ends /\ a < e) => EndedBy(a) < EndedBy(e)
         /\ EndedBy(a) <= EndedBy(e)
<1> DEFINE A == {i \in Ends : i <= a}
           B == {i \in Ends : i <= e}
<1>0. \A i \in Ends : i \in Int
  <2>1. Ends \subseteq 1 .. Len(file) /\ Len(file) \in Nat
    BY EndsFinite, LenProperties
  <2> QED BY <2>1
<1>1. /\ Ends \subseteq Int /\ IsFiniteSet(A) /\ IsFiniteSet(B)
      /\ EndedBy(a) = Cardinality(A) /\ EndedBy(e) = Cardinality(B)
      /\ EndedBy(a) \in Nat /\ EndedBy(e) \in Nat
  <2>1. Ends \subseteq 1 .. Len(file) /\ Len(file) \in Nat
    BY EndsFinite, LenProperties
  <2>2. IsFiniteSet(A) /\ IsFiniteSet(B) /\ EndedBy(a) \in Nat /\ EndedBy(e) \in Nat
    BY EndsFinite
  <2> QED BY <2>1, <2>2 DEF EndedBy
<1>2. ASSUME \A i \in Ends : i > a => i > e PROVE EndedBy(e) = EndedBy(a)
  <2>1. A = B BY <1>0, <1>2
  <2> QED BY <1>1, <2>1
<1>3. ASSUME e \in Ends, a < e, \A i \in Ends : i > a => i >= e
      PROVE  EndedBy(e) = EndedBy(a) + 1
  <2>1. \A i \in Ends : i <= e <=> i <= a \/ i = e BY <1>0, <1>3
  <2>3. B = A \cup {e} BY <1>3, <2>1
  <2>4. e \notin A BY <1>3
  <2> HIDE DEF A, B
  <2>2. Cardinality(A \cup {e}) = Cardinality(A) + 1
    BY <1>1, <2>4, FS_AddElement
  <2> QED BY <1>1, <2>2, <2>3
<1>4. ASSUME e \in Ends, a < e PROVE EndedBy(a) < EndedBy(e)
  <2>0. \A i \in Ends : i <= a => i <= e BY <1>0
  <2>1. A \subseteq B BY <2>0
  <2>3. e \in B /\ e \notin A BY <1>4
  <2> HIDE DEF A, B
  <2>2. Cardinality(A) <= Cardinality(B) /\ (Cardinality(A) = Cardinality(B) => A = B)
    BY <1>1, <2>1, FS_Subset
  <2> QED BY <1>1, <2>2, <2>3
<1>5. EndedBy(a) <= EndedBy(e)
  <2>0. \A i \in Ends : i <= a => i <= e BY <1>0
  <2>1. A \subseteq B BY <2>0
  <2> HIDE DEF A, B
  <2>2. Cardinality(A) <= Cardinality(B)
    BY <1>1, <2>1, FS_Subset
  <2> QED BY <1>1, <2>2
<1> QED BY <1>2, <1>3, <1>4, <1>5

(* A line runs from the newline before it. *)
LEMMA LineStarts ==
  ASSUME file \in Seq(Bytes), NEW a \in Nat, a \in {0} \cup Ends, NEW e \in Int, a < e,
         \A i \in Ends : i < e => i <= a
  PROVE  LineBefore(e) = Trimmed(SubSeq(file, a + 1, e - 1))
<1> DEFINE starts == {s + 1 : s \in {0} \cup {i \in Ends : i < e}}
<1>1. Ends \subseteq Nat
  BY EndsFinite, LenProperties
<1>2. a + 1 \in starts /\ \A x \in starts : a + 1 >= x /\ x \in Int
  BY <1>1
<1>3. Max(starts) = a + 1
  <2> HIDE DEF starts
  <2>1. Max(starts) \in starts /\ \A x \in starts : Max(starts) >= x
    BY <1>2 DEF Max
  <2> QED BY <1>2, <2>1
<1> QED BY <1>3 DEF LineBefore

(* Taking the carriage return off leaves a line of bytes. *)
LEMMA TrimmedType == \A s \in Seq(Bytes) : Trimmed(s) \in Seq(Bytes)
<1> SUFFICES ASSUME NEW s \in Seq(Bytes) PROVE Trimmed(s) \in Seq(Bytes)
  OBVIOUS
<1>1. s # <<>> => SubSeq(s, 1, Len(s) - 1) \in Seq(Bytes)
  BY SubSeqProperties, EmptySeq, LenProperties
<1> QED BY <1>1 DEF Trimmed

(* memchr: no newline in the buffer, or the first one. *)
LEMMA NewlineIs ==
  ASSUME block \in Seq(Bytes)
  PROVE  \/ Newline = 0 /\ \A i \in 1 .. Len(block) : block[i] # "\n"
         \/ /\ Newline \in 1 .. Len(block) /\ block[Newline] = "\n"
            /\ \A i \in 1 .. Newline - 1 : block[i] # "\n"
<1> DEFINE I == {i \in 1 .. Len(block) : block[i] = "\n"}
<1>1. Newline = IF I # {} THEN Min(I) ELSE 0
  BY DEF Newline, SelectInSeq
<1>2. CASE I = {}
  BY <1>1, <1>2
<1>3. CASE I # {}
  <2>1. Len(block) \in Nat BY LenProperties
  <2>2. I \in SUBSET Int /\ IsFiniteSet(I)
    <3>1. IsFiniteSet(1 .. Len(block)) BY <2>1, FS_Interval
    <3> QED BY <2>1, <3>1, FS_Subset
  <2>3. \E x \in I : \A y \in I : x <= y
    <3> HIDE DEF I
    <3> QED BY <1>3, <2>2, FiniteExtremes
  <2>4. Min(I) \in I /\ \A y \in I : Min(I) <= y
    <3> HIDE DEF I
    <3> QED BY <2>3 DEF Min
  <2>5. Newline = Min(I) BY <1>1, <1>3
  <2>6. Newline \in 1 .. Len(block) /\ block[Newline] = "\n"
    BY <2>4, <2>5
  <2>7. ASSUME NEW i \in 1 .. Newline - 1, block[i] = "\n" PROVE FALSE
    <3>1. i \in 1 .. Len(block) /\ ~(Newline <= i) BY <2>1, <2>6
    <3>2. i \in I BY <2>7, <3>1
    <3> QED BY <2>4, <2>5, <3>1, <3>2
  <2> QED BY <2>6, <2>7
<1> QED BY <1>2, <1>3

(* Where the reader is: lengths, and the newlines of the file that are in the
   buffer. *)
LEMMA Places ==
  ASSUME LineTypes, BufferIsTheFile
  PROVE  /\ Len(file) \in Nat /\ Len(block) \in Nat /\ Len(unread) \in Nat
         /\ Cut \in Nat /\ Cut = Len(file) - Len(block) - Len(unread)
         /\ \A i \in 1 .. Len(block) : Cut + i \in Ends <=> block[i] = "\n"
         /\ \A i \in Ends : i \in 1 .. Len(file)
<1>1. /\ Len(file) \in Nat /\ Len(block) \in Nat /\ Len(unread) \in Nat
      /\ DOMAIN file = 1 .. Len(file)
  BY LenProperties DEF LineTypes
<1>2. Cut \in Nat /\ Cut = Len(file) - Len(block) - Len(unread)
  BY DEF BufferIsTheFile, Cut
<1>3. ASSUME NEW i \in 1 .. Len(block)
      PROVE  Cut + i \in Ends <=> block[i] = "\n"
  <2>1. Cut + i \in 1 .. Len(file) BY <1>1, <1>2
  <2>2. block[i] = file[Cut + i] BY DEF BufferIsTheFile
  <2> QED BY <1>1, <2>1, <2>2 DEF Ends
<1>4. \A i \in Ends : i \in 1 .. Len(file) BY <1>1 DEF Ends
<1> QED BY <1>1, <1>2, <1>3, <1>4

(* A part of the buffer is that part of the file. *)
LEMMA PartOfFile ==
  ASSUME LineTypes, BufferIsTheFile, NEW k \in Nat, k <= Len(block)
  PROVE  /\ SubSeq(block, 1, k) = SubSeq(file, Cut + 1, Cut + k)
         /\ SubSeq(block, 1, k) \in Seq(Bytes)
<1>1. /\ Len(file) \in Nat /\ Len(block) \in Nat /\ Len(unread) \in Nat
      /\ Cut \in Nat /\ Cut = Len(file) - Len(block) - Len(unread)
      /\ block \in Seq(Bytes) /\ file \in Seq(Bytes)
  BY Places DEF LineTypes
<1>2. /\ SubSeq(block, 1, k) \in Seq(Bytes) /\ Len(SubSeq(block, 1, k)) = k
      /\ \A i \in 1 .. k : SubSeq(block, 1, k)[i] = block[i]
  BY <1>1, SubSeqProperties
<1>3. /\ SubSeq(file, Cut + 1, Cut + k) \in Seq(Bytes)
      /\ Len(SubSeq(file, Cut + 1, Cut + k)) = k
      /\ \A i \in 1 .. k : SubSeq(file, Cut + 1, Cut + k)[i] = file[Cut + i]
  BY <1>1, SubSeqProperties
<1>4. \A i \in 1 .. k : block[i] = file[Cut + i]
  BY <1>1 DEF BufferIsTheFile
<1>5. SubSeq(block, 1, k) = SubSeq(file, Cut + 1, Cut + k)
  BY <1>2, <1>3, <1>4, SeqEqual
<1> QED BY <1>2, <1>5

(* No step changes the file. *)
LEMMA FileKept ==
  ASSUME file' = file
  PROVE  /\ Ends' = Ends
         /\ \A e : EndedBy(e)' = EndedBy(e) /\ LineBefore(e)' = LineBefore(e)
BY DEF Ends, EndedBy, LineBefore

(* A line that was there stays, and its number is one of the lines so far. *)
LEMMA LineKept ==
  ASSUME LineInv, NEW e \in Ends, e <= Cut, EndedBy(Cut) <= Len(lines), NEW line
  PROVE  /\ EndedBy(e) \in 1 .. Len(lines)
         /\ Append(lines, line)[EndedBy(e)] = LineBefore(e)
<1>1. /\ file \in Seq(Bytes) /\ Cut \in Nat /\ e \in 1 .. Len(file) /\ Len(file) \in Nat
      /\ lines \in Seq(Seq(Bytes)) /\ Len(lines) \in Nat
  BY Places, LenProperties DEF LineInv, LineTypes
<1>2. EndedBy(0) \in Nat /\ EndedBy(e) \in Nat /\ EndedBy(Cut) \in Nat
  <2>1. 0 \in Int /\ e \in Int /\ Cut \in Int BY <1>1
  <2> QED BY <1>1, <2>1, EndsFinite
<1>3. EndedBy(0) < EndedBy(e) BY <1>1, EndedBySteps
<1>4. EndedBy(e) <= EndedBy(Cut) BY <1>1, EndedBySteps
<1>5. EndedBy(e) \in 1 .. Len(lines) BY <1>1, <1>2, <1>3, <1>4
<1>6. lines[EndedBy(e)] = LineBefore(e) BY DEF LineInv, LinesSoFar
<1>7. Append(lines, line)[EndedBy(e)] = lines[EndedBy(e)] BY <1>1, <1>5
<1> QED BY <1>5, <1>6, <1>7

(* next_line, a newline in the buffer. *)
LEMMA CutLineKeeps ==
  ASSUME LineInv, CutLine
  PROVE  LineInv'
<1> DEFINE k == Newline
           e == Cut + k
           line == Trimmed(SubSeq(block, 1, k - 1))
<1>1. /\ LineTypes /\ BufferIsTheFile /\ LinesSoFar
      /\ Len(file) \in Nat /\ Len(block) \in Nat /\ Len(unread) \in Nat
      /\ Cut \in Nat /\ Cut = Len(file) - Len(block) - Len(unread)
      /\ \A i \in 1 .. Len(block) : Cut + i \in Ends <=> block[i] = "\n"
      /\ \A i \in Ends : i \in 1 .. Len(file)
  BY Places DEF LineInv
<1>2. /\ file \in Seq(Bytes) /\ block \in Seq(Bytes) /\ lines \in Seq(Seq(Bytes))
      /\ unread \in Seq(Bytes) /\ offset \in Nat /\ capacity \in Nat \ {0}
      /\ Len(lines) \in Nat
  BY <1>1, LenProperties DEF LineTypes
<1>3. /\ k \in 1 .. Len(block) /\ block[k] = "\n"
      /\ \A i \in 1 .. k - 1 : block[i] # "\n"
  BY <1>2, NewlineIs DEF CutLine
<1>4. /\ lines' = Append(lines, line) /\ block' = SubSeq(block, k + 1, Len(block))
      /\ offset' = offset + k /\ file' = file /\ unread' = unread
      /\ capacity' = capacity /\ drained' = drained /\ at_end' = at_end
  BY DEF CutLine
<1> HIDE DEF k
<1>5. /\ block' \in Seq(Bytes) /\ Len(block') = Len(block) - k
      /\ \A i \in 1 .. Len(block) - k : block'[i] = block[k + i]
  <2>1. k + 1 \in Int /\ Len(block) \in Int /\ \A i \in k + 1 .. Len(block) : block[i] \in Bytes
    BY <1>1, <1>2, <1>3, ElementOfSeq
  <2>2. /\ SubSeq(block, k + 1, Len(block)) \in Seq(Bytes)
        /\ Len(SubSeq(block, k + 1, Len(block)))
             = IF k + 1 <= Len(block) THEN Len(block) - (k + 1) + 1 ELSE 0
        /\ \A i \in 1 .. Len(block) - (k + 1) + 1 :
             SubSeq(block, k + 1, Len(block))[i] = block[k + 1 + i - 1]
    BY <2>1, SubSeqProperties
  <2>3. PICK n \in Nat : n = Len(block) BY <1>1
  <2>4. k \in Nat /\ 1 <= k /\ k <= n BY <1>3, <2>3
  <2>5. (IF k + 1 <= n THEN n - (k + 1) + 1 ELSE 0) = n - k BY ONLY <2>4, n \in Nat
  <2>6. block' \in Seq(Bytes) /\ Len(block') = n - k BY <1>4, <2>2, <2>3, <2>5
  <2>7. \A i \in 1 .. n - k : i \in 1 .. n - (k + 1) + 1 /\ k + 1 + i - 1 = k + i
    BY ONLY <2>4, n \in Nat
  <2>8. \A i \in 1 .. n - k : block'[i] = block[k + i]
    BY ONLY <1>4, <2>2, <2>3, <2>7
  <2> QED BY ONLY <2>3, <2>6, <2>8
<1>6. Cut' = e /\ e \in Nat
  <2>1. Cut' = Len(file) - (Len(block) - k) - Len(unread)
    BY <1>4, <1>5 DEF Cut
  <2> QED BY <1>1, <1>3, <2>1
<1>7. line \in Seq(Bytes) /\ line = Trimmed(SubSeq(file, Cut + 1, e - 1))
  <2>1. /\ SubSeq(block, 1, k - 1) = SubSeq(file, Cut + 1, Cut + (k - 1))
        /\ SubSeq(block, 1, k - 1) \in Seq(Bytes)
    <3>1. k - 1 \in Nat /\ k - 1 <= Len(block) BY <1>1, <1>3
    <3> QED BY <1>1, <3>1, PartOfFile
  <2>2. Cut + (k - 1) = e - 1 BY <1>1, <1>3
  <2> QED BY <2>1, <2>2, TrimmedType
<1>8. LineTypes'
  <2>1. Append(lines, line) \in Seq(Seq(Bytes)) BY <1>2, <1>7, AppendProperties
  <2>2. offset + k \in Nat BY <1>1, <1>2, <1>3
  <2> QED BY <1>2, <1>4, <1>5, <2>1, <2>2 DEF LineTypes
<1>9. BufferIsTheFile'
  <2>1. \A i \in 1 .. Len(block') : block'[i] = file'[Cut' + i]
    <3> SUFFICES ASSUME NEW i \in 1 .. Len(block) - k PROVE block[k + i] = file[e + i]
      BY <1>4, <1>5, <1>6
    <3>1. k + i \in 1 .. Len(block) /\ e + i = Cut + (k + i) BY <1>1, <1>3
    <3> QED BY <1>1, <3>1 DEF BufferIsTheFile
  <2>2. \A i \in 1 .. Len(unread') : unread'[i] = file'[Cut' + Len(block') + i]
    <3>1. Cut' + Len(block') = Cut + Len(block) BY <1>1, <1>3, <1>5, <1>6
    <3> QED BY <1>1, <1>4, <3>1 DEF BufferIsTheFile
  <2>3. offset' + Len(block') <= capacity'
    <3>1. offset + Len(block) <= capacity BY <1>1 DEF BufferIsTheFile
    <3>2. offset' + Len(block') = offset + k + (Len(block) - k) BY <1>4, <1>5
    <3>3. offset \in Int /\ k \in Int /\ Len(block) \in Int BY <1>1, <1>2, <1>3
    <3>4. offset + k + (Len(block) - k) = offset + Len(block) BY <3>3
    <3> QED BY <1>4, <3>1, <3>2, <3>4
  <2>4. (drained' => unread' = <<>>) /\ ~at_end
    <3>1. block # <<>> BY <1>1, <1>2, <1>3, EmptySeq
    <3> QED BY <1>1, <1>4, <3>1 DEF BufferIsTheFile
  <2> QED BY <1>4, <1>6, <2>1, <2>2, <2>3, <2>4 DEF BufferIsTheFile
<1>10. e \in Ends /\ Cut < e BY <1>1, <1>3
<1>11. ASSUME NEW i \in Ends, i > Cut, i < e PROVE FALSE
  <2>1. i \in Int /\ i - Cut \in 1 .. k - 1 /\ Cut + (i - Cut) = i
    BY <1>1, <1>3, <1>11
  <2>2. i - Cut \in 1 .. Len(block) BY <1>1, <1>3, <2>1
  <2>3. block[i - Cut] = "\n" BY <1>1, <2>1, <2>2
  <2> QED BY <1>3, <2>1, <2>3
<1>12. Cut \in {0} \cup Ends /\ Len(lines) = EndedBy(Cut)
  BY <1>1, <1>3 DEF LinesSoFar
<1>13. EndedBy(e) = Len(lines) + 1
  <2>1. \A i \in Ends : i > Cut => i >= e BY <1>1, <1>6, <1>11
  <2> QED BY <1>1, <1>2, <1>6, <1>10, <1>12, <2>1, EndedBySteps
<1>14. LineBefore(e) = line
  <2>1. \A i \in Ends : i < e => i <= Cut BY <1>1, <1>6, <1>11
  <2> QED BY <1>1, <1>2, <1>6, <1>7, <1>10, <1>12, <2>1, LineStarts
<1>15. LinesSoFar'
  <2>1. Len(lines') = Len(lines) + 1 /\ lines'[Len(lines) + 1] = line
    BY <1>2, <1>4, <1>7, AppendProperties
  <2>2. ASSUME NEW f \in Ends, f <= e PROVE lines'[EndedBy(f)] = LineBefore(f)
    <3>1. CASE f <= Cut
      <4>1. EndedBy(Cut) <= Len(lines) BY <1>2, <1>12
      <4> QED BY <1>4, <3>1, <4>1, LineKept
    <3>2. CASE f > Cut
      <4>1. f = e BY <1>1, <1>6, <1>11, <2>2, <3>2
      <4> QED BY <1>13, <1>14, <2>1, <4>1
    <3> QED BY <1>1, <3>1, <3>2
  <2>3. /\ Ends' = Ends
        /\ \A x : EndedBy(x)' = EndedBy(x) /\ LineBefore(x)' = LineBefore(x)
    BY <1>4, FileKept
  <2>4. Cut' \in {0} \cup Ends' /\ Len(lines') = EndedBy(Cut')
    BY <1>6, <1>10, <1>13, <2>1, <2>3
  <2>5. EndedBy(Cut)' = EndedBy(Cut')
    BY <1>4 DEF EndedBy, Ends
  <2>6. \A x \in Ends' : x <= Cut' => lines'[EndedBy(x)'] = LineBefore(x)'
    BY <1>6, <2>2, <2>3
  <2> QED BY <2>3, <2>4, <2>5, <2>6 DEF LinesSoFar
<1> QED BY <1>8, <1>9, <1>15 DEF LineInv

(* next_line, everything read and no newline left: the last line, or the end. *)
LEMMA LastLineKeeps ==
  ASSUME LineInv, LastLine
  PROVE  LineInv'
<1>1. /\ LineTypes /\ BufferIsTheFile /\ LinesSoFar
      /\ Len(file) \in Nat /\ Len(block) \in Nat /\ Len(unread) \in Nat
      /\ Cut \in Nat /\ Cut = Len(file) - Len(block) - Len(unread)
      /\ \A i \in 1 .. Len(block) : Cut + i \in Ends <=> block[i] = "\n"
      /\ \A i \in Ends : i \in 1 .. Len(file)
  BY Places DEF LineInv
<1>2. /\ file \in Seq(Bytes) /\ block \in Seq(Bytes) /\ lines \in Seq(Seq(Bytes))
      /\ unread \in Seq(Bytes) /\ offset \in Nat /\ capacity \in Nat \ {0}
      /\ Len(lines) \in Nat
  BY <1>1, LenProperties DEF LineTypes
<1>3. /\ file' = file /\ unread' = unread /\ capacity' = capacity /\ drained' = drained
      /\ drained /\ Newline = 0
  BY DEF LastLine
<1>4. unread = <<>> /\ Len(unread) = 0
  BY <1>1, <1>3, EmptySeq DEF BufferIsTheFile
<1>5. /\ Ends' = Ends
      /\ \A x : EndedBy(x)' = EndedBy(x) /\ LineBefore(x)' = LineBefore(x)
  BY <1>3, FileKept
<1>6. CASE block = <<>>
  <2>1. lines' = lines /\ block' = block /\ offset' = offset
    BY <1>6 DEF LastLine
  <2>2. LineTypes'
    BY <1>1, <1>3, <2>1 DEF LineTypes
  <2>3. Cut' = Cut BY <1>3, <2>1 DEF Cut
  <2>4. BufferIsTheFile'
    BY <1>1, <1>3, <1>6, <2>1, <2>3 DEF BufferIsTheFile
  <2>5. LinesSoFar'
    <3>1. EndedBy(Cut)' = EndedBy(Cut') /\ LineBefore(Cut + 1)' = LineBefore(Cut' + 1)
      BY <1>3 DEF EndedBy, Ends, LineBefore
    <3>2. \A e \in Ends' : e <= Cut' => lines'[EndedBy(e)'] = LineBefore(e)'
      BY <1>1, <1>5, <2>1, <2>3 DEF LinesSoFar
    <3> QED BY <1>1, <1>3, <1>5, <2>1, <2>3, <3>1, <3>2 DEF LinesSoFar
  <2> QED BY <2>2, <2>4, <2>5 DEF LineInv
<1>7. CASE block # <<>>
  <2>1. /\ lines' = Append(lines, Trimmed(block)) /\ block' = <<>>
        /\ offset' = offset + Len(block) /\ at_end' = at_end
    BY <1>7 DEF LastLine
  <2>2. Len(block) > 0 /\ Len(block') = 0
    BY <1>1, <1>2, <1>7, <2>1, EmptySeq
  <2>3. Cut' = Len(file) /\ Cut + Len(block) = Len(file)
    <3>1. Cut' = Len(file) - Len(block') - Len(unread) BY <1>3 DEF Cut
    <3> QED BY <1>1, <1>4, <2>2, <3>1
  <2>4. \A i \in Ends : i <= Cut
    <3> SUFFICES ASSUME NEW i \in Ends, ~(i <= Cut) PROVE FALSE
      OBVIOUS
    <3>1. i - Cut \in 1 .. Len(block) /\ Cut + (i - Cut) = i
      BY <1>1, <2>3
    <3>2. block[i - Cut] = "\n" BY <1>1, <3>1
    <3> QED BY <1>2, <1>3, <3>1, <3>2, NewlineIs
  <2>5. Cut \in {0} \cup Ends /\ Len(lines) = EndedBy(Cut)
    BY <1>1, <2>2, <2>3 DEF LinesSoFar
  <2>6. EndedBy(Len(file)) = Len(lines)
    <3>1. \A i \in Ends : i > Cut => i > Len(file) BY <1>1, <2>4
    <3> QED BY <1>1, <1>2, <2>3, <2>5, <3>1, EndedBySteps
  <2>7. Trimmed(block) = LineBefore(Len(file) + 1) /\ Trimmed(block) \in Seq(Bytes)
    <3>1. SubSeq(block, 1, Len(block)) = SubSeq(file, Cut + 1, Cut + Len(block))
      <4>1. Len(block) \in Nat /\ Len(block) <= Len(block) BY <1>1
      <4> QED BY <1>1, <4>1, PartOfFile
    <3>2. SubSeq(block, 1, Len(block)) = block
      BY <1>2, SubSeqFull
    <3>3. LineBefore(Len(file) + 1) = Trimmed(SubSeq(file, Cut + 1, Len(file) + 1 - 1))
      BY <1>1, <1>2, <2>3, <2>4, <2>5, LineStarts
    <3>4. Len(file) + 1 - 1 = Cut + Len(block) BY <1>1, <2>3
    <3> QED BY <1>2, <3>1, <3>2, <3>3, <3>4, TrimmedType
  <2>8. LineTypes'
    <3>1. Append(lines, Trimmed(block)) \in Seq(Seq(Bytes))
      BY <1>2, <2>7, AppendProperties
    <3>2. offset + Len(block) \in Nat /\ <<>> \in Seq(Bytes) BY <1>1, <1>2, EmptySeq
    <3> QED BY <1>2, <1>3, <2>1, <3>1, <3>2 DEF LineTypes
  <2>9. BufferIsTheFile'
    <3>1. offset' + Len(block') <= capacity'
      <4>1. offset + Len(block) <= capacity BY <1>1 DEF BufferIsTheFile
      <4>2. offset' + Len(block') = offset + Len(block) + 0 BY <2>1, <2>2
      <4> QED BY <1>1, <1>2, <1>3, <4>1, <4>2
    <3>2. ~at_end BY <1>1, <1>7 DEF BufferIsTheFile
    <3>3. Len(unread') = 0 BY <1>3, <1>4
    <3>4. /\ \A i \in 1 .. Len(block') : block'[i] = file'[Cut' + i]
          /\ \A i \in 1 .. Len(unread') : unread'[i] = file'[Cut' + Len(block') + i]
      BY <2>2, <3>3
    <3> QED BY <1>1, <1>3, <1>4, <2>1, <2>3, <3>1, <3>2, <3>4 DEF BufferIsTheFile
  <2>10. LinesSoFar'
    <3>1. Len(lines') = Len(lines) + 1 /\ lines'[Len(lines) + 1] = Trimmed(block)
      BY <1>2, <2>1, <2>7, AppendProperties
    <3>2. EndedBy(Cut)' = EndedBy(Cut') /\ LineBefore(Cut + 1)' = LineBefore(Cut' + 1)
      BY <1>3 DEF EndedBy, Ends, LineBefore
    <3>3. ASSUME NEW e \in Ends PROVE lines'[EndedBy(e)] = LineBefore(e)
      <4>1. EndedBy(Cut) <= Len(lines) BY <1>2, <2>5
      <4> QED BY <2>1, <2>4, <4>1, LineKept
    <3>4. \A e \in Ends' : e <= Cut' => lines'[EndedBy(e)'] = LineBefore(e)'
      BY <1>5, <3>3
    <3>5. Cut' = Len(file') /\ Cut' > 0 /\ Cut' \notin Ends'
      BY <1>1, <1>3, <1>5, <2>2, <2>3, <2>4
    <3>6. Len(lines') = EndedBy(Cut)' + 1 /\ lines'[Len(lines')] = LineBefore(Cut + 1)'
      BY <2>3, <2>6, <2>7, <3>1, <3>2
    <3> QED BY <3>4, <3>5, <3>6 DEF LinesSoFar
  <2> QED BY <2>8, <2>9, <2>10 DEF LineInv
<1> QED BY <1>6, <1>7

(* When the lines, the file and the place of the cut stay, so does LinesSoFar. *)
LEMMA NothingCut ==
  ASSUME LinesSoFar, file' = file, lines' = lines, Cut' = Cut
  PROVE  LinesSoFar'
<1>1. /\ Ends' = Ends
      /\ \A x : EndedBy(x)' = EndedBy(x) /\ LineBefore(x)' = LineBefore(x)
  BY FileKept
<1>2. EndedBy(Cut)' = EndedBy(Cut') /\ LineBefore(Cut + 1)' = LineBefore(Cut' + 1)
  BY DEF EndedBy, Ends, LineBefore
<1>3. \A e \in Ends' : e <= Cut' => lines'[EndedBy(e)'] = LineBefore(e)'
  BY <1>1 DEF LinesSoFar
<1> QED BY <1>1, <1>2, <1>3 DEF LinesSoFar

(* refill: n bytes of the file move to the end of the compacted buffer, or the file
   is known to be at its end. *)
LEMMA RefillKeeps ==
  ASSUME LineInv, Refill
  PROVE  LineInv'
<1> DEFINE room == IF Len(block) = capacity THEN 2 * capacity ELSE capacity
<1>1. /\ LineTypes /\ BufferIsTheFile /\ LinesSoFar
      /\ Len(file) \in Nat /\ Len(block) \in Nat /\ Len(unread) \in Nat
      /\ Cut \in Nat /\ Cut = Len(file) - Len(block) - Len(unread)
  BY Places DEF LineInv
<1>2. /\ file \in Seq(Bytes) /\ block \in Seq(Bytes) /\ lines \in Seq(Seq(Bytes))
      /\ unread \in Seq(Bytes) /\ offset \in Nat /\ capacity \in Nat \ {0}
  BY <1>1 DEF LineTypes
<1>3. /\ capacity' = room /\ offset' = 0 /\ file' = file /\ lines' = lines
      /\ at_end' = at_end /\ ~drained
  BY DEF Refill
<1>4. offset + Len(block) <= capacity BY <1>1 DEF BufferIsTheFile
<1>5. room \in Nat \ {0} /\ Len(block) < room
  BY <1>1, <1>2, <1>4
<1>6. ~at_end BY <1>1, <1>3 DEF BufferIsTheFile
<1>7. CASE unread = <<>>
  <2>1. block' = block /\ unread' = unread
    BY <1>7 DEF Refill
  <2>2. Cut' = Cut BY <1>3, <2>1 DEF Cut
  <2>3. LineTypes' BY <1>2, <1>3, <1>5, <2>1 DEF LineTypes
  <2>4. offset' + Len(block') <= capacity'
    BY <1>1, <1>3, <1>5, <2>1
  <2>5. BufferIsTheFile'
    BY <1>1, <1>3, <1>6, <1>7, <2>1, <2>2, <2>4 DEF BufferIsTheFile
  <2>6. LinesSoFar' BY <1>1, <1>3, <2>2, NothingCut
  <2> QED BY <2>3, <2>5, <2>6 DEF LineInv
<1>8. CASE unread # <<>>
  <2>1. PICK n \in 1 .. Min({room - Len(block), Len(unread)}) :
          /\ block' = block \o SubSeq(unread, 1, n)
          /\ unread' = SubSeq(unread, n + 1, Len(unread))
          /\ drained' = drained
    BY <1>8 DEF Refill
  <2> HIDE DEF room
  <2>2. n \in Nat /\ n <= room - Len(block) /\ n <= Len(unread)
    <3>1. room - Len(block) \in Int /\ Len(unread) \in Int BY <1>1, <1>5
    <3>2. \A a, b \in Int : Min({a, b}) \in Int /\ Min({a, b}) <= a /\ Min({a, b}) <= b
      <4> SUFFICES ASSUME NEW a \in Int, NEW b \in Int
                   PROVE  Min({a, b}) \in Int /\ Min({a, b}) <= a /\ Min({a, b}) <= b
        OBVIOUS
      <4>1. \E x \in {a, b} : \A y \in {a, b} : x <= y
        <5>1. CASE a <= b BY <5>1
        <5>2. CASE b <= a BY <5>2
        <5> QED BY <5>1, <5>2
      <4>2. Min({a, b}) \in {a, b} /\ \A y \in {a, b} : Min({a, b}) <= y
        BY <4>1 DEF Min
      <4> QED BY <4>2
    <3> DEFINE most == Min({room - Len(block), Len(unread)})
    <3>3. most \in Int /\ most <= room - Len(block) /\ most <= Len(unread)
      BY <3>1, <3>2
    <3>4. n \in 1 .. most BY <2>1
    <3> HIDE DEF most
    <3> QED BY <3>1, <3>3, <3>4
  <2>3. \A i \in 1 .. Len(unread) : unread[i] \in Bytes
    BY <1>2, ElementOfSeq
  <2>4. /\ SubSeq(unread, 1, n) \in Seq(Bytes) /\ Len(SubSeq(unread, 1, n)) = n
        /\ \A i \in 1 .. n : SubSeq(unread, 1, n)[i] = unread[i]
    <3>1. n \in Int /\ 1 <= n /\ \A i \in 1 .. n : unread[i] \in Bytes
      BY <1>1, <2>1, <2>2, <2>3
    <3>2. /\ SubSeq(unread, 1, n) \in Seq(Bytes)
          /\ Len(SubSeq(unread, 1, n)) = IF 1 <= n THEN n - 1 + 1 ELSE 0
          /\ \A i \in 1 .. n - 1 + 1 : SubSeq(unread, 1, n)[i] = unread[1 + i - 1]
      BY <3>1, SubSeqProperties
    <3> QED BY <3>1, <3>2
  <2>5. /\ unread' \in Seq(Bytes) /\ Len(unread') = Len(unread) - n
        /\ \A i \in 1 .. Len(unread) - n : unread'[i] = unread[n + i]
    <3>1. n + 1 \in Int /\ Len(unread) \in Int
          /\ \A i \in n + 1 .. Len(unread) : unread[i] \in Bytes
      BY <1>1, <2>1, <2>2, <2>3
    <3>2. /\ SubSeq(unread, n + 1, Len(unread)) \in Seq(Bytes)
          /\ Len(SubSeq(unread, n + 1, Len(unread)))
               = IF n + 1 <= Len(unread) THEN Len(unread) - (n + 1) + 1 ELSE 0
          /\ \A i \in 1 .. Len(unread) - (n + 1) + 1 :
               SubSeq(unread, n + 1, Len(unread))[i] = unread[n + 1 + i - 1]
      BY <3>1, SubSeqProperties
    <3> QED BY <1>1, <2>1, <2>2, <3>2
  <2>6. /\ block' \in Seq(Bytes) /\ Len(block') = Len(block) + n
        /\ \A i \in 1 .. Len(block) + n :
             block'[i] = IF i <= Len(block) THEN block[i]
                         ELSE SubSeq(unread, 1, n)[i - Len(block)]
    BY <1>2, <2>1, <2>4, ConcatProperties
  <2>7. Cut' = Cut
    <3>1. Cut' = Len(file) - (Len(block) + n) - (Len(unread) - n)
      BY <1>3, <2>5, <2>6 DEF Cut
    <3> QED BY <1>1, <2>2, <3>1
  <2>8. LineTypes'
    BY <1>2, <1>3, <1>5, <2>5, <2>6 DEF LineTypes
  <2>9. BufferIsTheFile'
    <3>1. ASSUME NEW i \in 1 .. Len(block) + n PROVE block'[i] = file[Cut + i]
      <4>1. CASE i <= Len(block)
        <5>1. i \in 1 .. Len(block) /\ block'[i] = block[i] BY <2>6, <4>1
        <5> QED BY <1>1, <5>1 DEF BufferIsTheFile
      <4>2. CASE i > Len(block)
        <5>1. i - Len(block) \in 1 .. n /\ ~(i <= Len(block)) BY <1>1, <2>2, <4>2
        <5>2. block'[i] = unread[i - Len(block)] BY <2>4, <2>6, <5>1
        <5>3. i - Len(block) \in 1 .. Len(unread) BY <1>1, <2>2, <5>1
        <5>4. unread[i - Len(block)] = file[Cut + Len(block) + (i - Len(block))]
          BY <1>1, <5>3 DEF BufferIsTheFile
        <5>5. Cut + Len(block) + (i - Len(block)) = Cut + i BY <1>1, <2>2
        <5> QED BY <5>2, <5>4, <5>5
      <4> QED BY <1>1, <2>2, <4>1, <4>2
    <3>2. ASSUME NEW i \in 1 .. Len(unread) - n
          PROVE  unread'[i] = file[Cut + (Len(block) + n) + i]
      <4>1. n + i \in 1 .. Len(unread) BY <1>1, <2>2
      <4>2. unread[n + i] = file[Cut + Len(block) + (n + i)]
        BY <1>1, <4>1 DEF BufferIsTheFile
      <4>3. Cut + Len(block) + (n + i) = Cut + (Len(block) + n) + i BY <1>1, <2>2
      <4> QED BY <2>5, <4>2, <4>3
    <3>3. offset' + Len(block') <= capacity'
      BY <1>1, <1>3, <1>5, <2>2, <2>6
    <3>4. \A i \in 1 .. Len(block') : block'[i] = file'[Cut' + i]
      BY <1>3, <2>6, <2>7, <3>1
    <3>5. \A i \in 1 .. Len(unread') : unread'[i] = file'[Cut' + Len(block') + i]
      BY <1>3, <2>5, <2>6, <2>7, <3>2
    <3>6. ~drained' /\ ~at_end' /\ Cut' \in Nat BY <1>1, <1>3, <1>6, <2>1, <2>7
    <3> QED BY <3>3, <3>4, <3>5, <3>6 DEF BufferIsTheFile
  <2>10. LinesSoFar' BY <1>1, <1>3, <2>7, NothingCut
  <2> QED BY <2>8, <2>9, <2>10 DEF LineInv
<1> QED BY <1>7, <1>8

-----------------------------------------------------------------------------
(* The lines are the file's. *)

(* At the start the whole file is unread and no line has been cut. *)
LEMMA LineStart ==
  ASSUME NEW f \in Files, LineInit(f)
  PROVE  LineInv
<1>1. f \in Seq(Bytes)
  <2>1. PICK n \in 0 .. MaxBytes : f \in [1 .. n -> Bytes]
    BY DEF Files
  <2>2. n \in Nat BY BlockAssumption
  <2> QED BY <2>1, <2>2
<1>2. /\ file = f /\ unread = f /\ block = <<>> /\ offset = 0 /\ capacity = BlockSize
      /\ drained = FALSE /\ lines = <<>> /\ at_end = FALSE
  BY DEF LineInit
<1>3. /\ Len(file) \in Nat /\ Len(block) = 0 /\ Len(lines) = 0 /\ Len(unread) = Len(file)
      /\ <<>> \in Seq(Bytes) /\ <<>> \in Seq(Seq(Bytes))
  BY <1>1, <1>2, EmptySeq, LenProperties
<1>4. LineTypes BY <1>1, <1>2, <1>3, BlockAssumption DEF LineTypes
<1>5. Cut = 0 BY <1>3 DEF Cut
<1>6. BufferIsTheFile
  BY <1>2, <1>3, <1>5, BlockAssumption DEF BufferIsTheFile
<1>7. \A e \in Ends : ~(e <= 0)
  BY <1>1, <1>2, <1>3, EndsFinite
<1>8. EndedBy(0) = 0
  <2>1. {i \in Ends : i <= 0} = {} BY <1>7
  <2> QED BY <2>1, FS_EmptySet DEF EndedBy
<1>9. LinesSoFar BY <1>3, <1>5, <1>7, <1>8 DEF LinesSoFar
<1> QED BY <1>4, <1>6, <1>9 DEF LineInv

(* The inductive invariant of the reader. *)
THEOREM LineInvariant == LineSpec => []LineInv
<1>1. (\E f \in Files : LineInit(f)) => LineInv
  BY LineStart
<1>2. LineInv /\ [LineNext]_lineVars => LineInv'
  <2> SUFFICES ASSUME LineInv, [LineNext]_lineVars PROVE LineInv'
    OBVIOUS
  <2>1. CASE CutLine BY <2>1, CutLineKeeps
  <2>2. CASE LastLine BY <2>2, LastLineKeeps
  <2>3. CASE Refill BY <2>3, RefillKeeps
  <2>4. CASE UNCHANGED lineVars
    <3>1. /\ file' = file /\ unread' = unread /\ block' = block /\ offset' = offset
          /\ capacity' = capacity /\ drained' = drained /\ lines' = lines
          /\ at_end' = at_end
      BY <2>4, Zenon DEF lineVars
    <3>2. Cut' = Cut BY <3>1 DEF Cut
    <3>3. LineTypes' /\ BufferIsTheFile'
      BY <3>1, <3>2 DEF LineInv, LineTypes, BufferIsTheFile
    <3>4. LinesSoFar' BY <3>1, <3>2, NothingCut DEF LineInv
    <3> QED BY <3>3, <3>4 DEF LineInv
  <2> QED BY <2>1, <2>2, <2>3, <2>4 DEF LineNext
<1> QED BY <1>1, <1>2, PTL DEF LineSpec

(* next_line returns the lines of the file, in order and whole, with the last one when
   no newline ends it, for every file and whatever the sizes of the reads. *)
THEOREM LinesWhole == LineSpec => []LinesAreTheFiles
<1>1. LineInv => LinesAreTheFiles
  <2> SUFFICES ASSUME LineInv PROVE LinesAreTheFiles
    OBVIOUS
  <2> DEFINE n == Len(lines)
             whole == Cardinality(Ends)
             rest == file # <<>> /\ Last(file) # "\n"
  <2>1. /\ LineTypes /\ BufferIsTheFile /\ LinesSoFar
        /\ Len(file) \in Nat /\ Len(block) \in Nat /\ Len(unread) \in Nat
        /\ Cut \in Nat /\ Cut = Len(file) - Len(block) - Len(unread)
        /\ \A i \in Ends : i \in 1 .. Len(file)
    BY Places DEF LineInv
  <2>2. file \in Seq(Bytes) /\ n \in Nat
    BY <2>1, LenProperties DEF LineTypes
  <2>3. whole = EndedBy(Len(file))
    <3>1. Ends = {i \in Ends : i <= Len(file)} BY <2>1
    <3> QED BY <3>1 DEF EndedBy
  <2>4. EndedBy(Cut) \in Nat /\ EndedBy(Len(file)) \in Nat
    <3>1. Cut \in Int /\ Len(file) \in Int BY <2>1
    <3> QED BY <2>2, <3>1, EndsFinite
  <2>5. EndedBy(Cut) <= EndedBy(Len(file))
    <3>1. Cut <= Len(file) BY <2>1
    <3> QED BY <2>1, <2>2, <3>1, EndedBySteps
  <2>6. rest <=> Len(file) > 0 /\ Len(file) \notin Ends
    <3>1. file # <<>> <=> Len(file) > 0 BY <2>1, <2>2, EmptySeq
    <3>2. Len(file) > 0 => (Len(file) \in Ends <=> file[Len(file)] = "\n")
      <4>1. DOMAIN file = 1 .. Len(file) BY <2>2, LenProperties
      <4> QED BY <2>1, <4>1 DEF Ends
    <3> QED BY <3>1, <3>2 DEF Last
  <2>7. ASSUME NEW e \in Ends, EndedBy(e) <= n PROVE lines[EndedBy(e)] = LineBefore(e)
    <3>1. e \in Int /\ e <= Len(file) BY <2>1
    <3>2. CASE e <= Cut BY <2>1, <3>2 DEF LinesSoFar
    <3>3. CASE Cut < e
      <4>1. n = EndedBy(Cut) BY <2>1, <3>1, <3>3 DEF LinesSoFar
      <4>2. EndedBy(Cut) < EndedBy(e)
        <5>1. Cut \in Int /\ Cut <= e BY <2>1, <3>1, <3>3
        <5> QED BY <2>2, <3>1, <3>3, <5>1, EndedBySteps
      <4>3. EndedBy(e) \in Nat BY <2>2, <3>1, EndsFinite
      <4> QED BY <2>4, <2>7, <4>1, <4>2, <4>3
    <3> QED BY <2>1, <3>1, <3>2, <3>3
  <2>8. offset + Len(block) <= capacity BY <2>1 DEF BufferIsTheFile
  <2>9. n > whole => rest /\ n = whole + 1 /\ lines[n] = LineBefore(Len(file) + 1)
    <3>1. CASE Cut \in {0} \cup Ends /\ n = EndedBy(Cut)
      BY <2>2, <2>3, <2>4, <2>5, <3>1
    <3>2. CASE /\ Cut = Len(file) /\ Cut > 0 /\ Cut \notin Ends
               /\ n = EndedBy(Cut) + 1
               /\ lines[n] = LineBefore(Cut + 1)
      BY <2>3, <2>6, <3>2
    <3> QED BY <2>1, <3>1, <3>2 DEF LinesSoFar
  <2>10. at_end => n = whole + (IF rest THEN 1 ELSE 0)
    <3> SUFFICES ASSUME at_end PROVE n = whole + (IF rest THEN 1 ELSE 0)
      OBVIOUS
    <3>1. Len(block) = 0 /\ Len(unread) = 0
      BY <2>1, EmptySeq DEF BufferIsTheFile
    <3>2. Cut = Len(file) BY <2>1, <3>1
    <3>3. CASE Cut \in {0} \cup Ends /\ n = EndedBy(Cut)
      <4>1. ~rest BY <2>6, <3>2, <3>3
      <4> QED BY <2>3, <2>4, <3>2, <3>3, <4>1
    <3>4. CASE Cut > 0 /\ Cut \notin Ends /\ n = EndedBy(Cut) + 1
      <4>1. rest BY <2>6, <3>2, <3>4
      <4> QED BY <2>3, <3>2, <3>4, <4>1
    <3> QED BY <2>1, <3>3, <3>4 DEF LinesSoFar
  <2> QED BY <2>7, <2>8, <2>9, <2>10 DEF LinesAreTheFiles
<1> QED BY <1>1, LineInvariant, PTL

-----------------------------------------------------------------------------
(* Sets of ticks in the order of a walk. *)

(* The ticks of S a walk meets before t, and the ticks of S in its order. *)
Before(descending, S, t) == {u \in S : Ahead(descending, u, t)}

Ranked(descending, S) ==
  [k \in 1 .. Cardinality(S) |->
     CHOOSE t \in S : Cardinality(Before(descending, S, t)) = k - 1]

(* b is the first of S, or says that there is none. *)
IsBest(descending, S, b) ==
  IF S = {} THEN b = NoBest ELSE b \in S /\ \A t \in S : ~Ahead(descending, t, b)

(* Of two ticks, the one ahead has fewer ticks before it. *)
LEMMA RankGrows ==
  ASSUME NEW descending \in BOOLEAN, NEW S \in SUBSET Nat, IsFiniteSet(S),
         NEW t \in S, NEW u \in S, Ahead(descending, t, u)
  PROVE  Cardinality(Before(descending, S, t)) < Cardinality(Before(descending, S, u))
<1> DEFINE A == Before(descending, S, t)
           B == Before(descending, S, u)
<1>1. A \in SUBSET S /\ B \in SUBSET S
  BY DEF Before
<1>2. IsFiniteSet(A) /\ IsFiniteSet(B) /\ Cardinality(A) \in Nat /\ Cardinality(B) \in Nat
  BY <1>1, FS_Subset, FS_CardinalityType
<1>3. t \in B /\ t \notin A
  BY DEF Before, Ahead
<1>4. A \in SUBSET B
  <2>1. ASSUME NEW x \in S, Ahead(descending, x, t) PROVE Ahead(descending, x, u)
    BY <2>1 DEF Ahead
  <2> QED BY <2>1 DEF Before
<1> HIDE DEF A, B
<1>5. Cardinality(A) <= Cardinality(B) /\ (Cardinality(A) = Cardinality(B) => A = B)
  BY <1>2, <1>4, FS_Subset
<1> QED BY <1>2, <1>3, <1>5 DEF A, B

(* A tick has fewer ticks before it than there are. *)
LEMMA RankBounded ==
  ASSUME NEW descending \in BOOLEAN, NEW S \in SUBSET Nat, IsFiniteSet(S), NEW t \in S
  PROVE  /\ Cardinality(Before(descending, S, t)) \in 0 .. Cardinality(S) - 1
         /\ IsFiniteSet(Before(descending, S, t))
<1> DEFINE A == Before(descending, S, t)
<1>1. A \in SUBSET S /\ t \notin A
  BY DEF Before, Ahead
<1> HIDE DEF A
<1>2. /\ IsFiniteSet(A) /\ Cardinality(A) \in Nat /\ Cardinality(S) \in Nat
      /\ Cardinality(A) <= Cardinality(S) /\ (Cardinality(S) = Cardinality(A) => S = A)
  BY <1>1, FS_Subset, FS_CardinalityType
<1> QED BY <1>1, <1>2 DEF A

(* Every place of the walk is taken, by one tick. *)
LEMMA RankedOrder ==
  ASSUME NEW descending \in BOOLEAN, NEW S \in SUBSET Nat, IsFiniteSet(S)
  PROVE  /\ Cardinality(S) \in Nat
         /\ \A k \in 1 .. Cardinality(S) :
              /\ Ranked(descending, S)[k] \in S
              /\ Cardinality(Before(descending, S, Ranked(descending, S)[k])) = k - 1
         /\ \A t \in S : \A u \in S :
              Cardinality(Before(descending, S, t)) = Cardinality(Before(descending, S, u))
                => t = u
<1> DEFINE n == Cardinality(S)
           rank(t) == Cardinality(Before(descending, S, t))
           f == [t \in S |-> rank(t)]
           T == 0 .. n - 1
<1>1. n \in Nat
  BY FS_CardinalityType
<1>2. \A t \in S : rank(t) \in T
  BY RankBounded
<1>3. ASSUME NEW t \in S, NEW u \in S, rank(t) = rank(u) PROVE t = u
  <2>1. CASE Ahead(descending, t, u)
    <3>1. rank(t) < rank(u) BY <2>1, RankGrows
    <3> QED BY <1>1, <1>2, <1>3, <3>1
  <2>2. CASE Ahead(descending, u, t)
    <3>1. rank(u) < rank(t) BY <2>2, RankGrows
    <3> QED BY <1>1, <1>2, <1>3, <3>1
  <2>3. CASE ~Ahead(descending, t, u) /\ ~Ahead(descending, u, t)
    BY <2>3 DEF Ahead
  <2> QED BY <2>1, <2>2, <2>3
<1>4. f \in Injection(S, T)
  <2> HIDE DEF rank, T
  <2>1. f \in [S -> T] BY <1>2
  <2>2. \A t \in S : f[t] = rank(t) OBVIOUS
  <2> HIDE DEF f
  <2> QED BY <1>3, <2>1, <2>2 DEF Injection, IsInjective
<1>5. IsFiniteSet(T) /\ Cardinality(T) = n
  <2> HIDE DEF n
  <2>1. 0 \in Int /\ n - 1 \in Int BY <1>1
  <2>2. IsFiniteSet(T) /\ Cardinality(T) = IF 0 > n - 1 THEN 0 ELSE (n - 1) - 0 + 1
    BY <2>1, FS_Interval
  <2> QED BY <1>1, <2>2
<1>6. f \in Surjection(S, T)
  <2> HIDE DEF f, T
  <2> QED BY <1>4, <1>5, FS_Injection
<1>7. \A j \in T : \E t \in S : rank(t) = j
  <2> HIDE DEF rank, T
  <2>1. \A j \in T : \E t \in S : f[t] = j
    <3> HIDE DEF f
    <3> QED BY <1>6 DEF Surjection
  <2> QED BY <2>1
<1>8. ASSUME NEW k \in 1 .. n
      PROVE  /\ Ranked(descending, S)[k] \in S
             /\ rank(Ranked(descending, S)[k]) = k - 1
  <2>1. k - 1 \in T BY <1>1
  <2>2. \E t \in S : rank(t) = k - 1 BY <1>7, <2>1
  <2>3. Ranked(descending, S)[k] = CHOOSE t \in S : rank(t) = k - 1 BY DEF Ranked
  <2> HIDE DEF rank
  <2> QED BY <2>2, <2>3
<1> QED BY <1>1, <1>3, <1>8

(* The first of the walk is the best. *)
LEMMA RankedFirst ==
  ASSUME NEW descending \in BOOLEAN, NEW S \in SUBSET Nat, IsFiniteSet(S), S # {}
  PROVE  /\ Cardinality(S) \in Nat /\ Cardinality(S) >= 1
         /\ IsBest(descending, S, Ranked(descending, S)[1])
         /\ Len(Ranked(descending, S)) = Cardinality(S)
         /\ Ranked(descending, S) # <<>>
         /\ Head(Ranked(descending, S)) = Ranked(descending, S)[1]
<1>1. Cardinality(S) \in Nat /\ Cardinality(S) # 0
  BY FS_CardinalityType, FS_EmptySet
<1> DEFINE b == Ranked(descending, S)[1]
<1>2. b \in S /\ Cardinality(Before(descending, S, b)) = 0
  BY <1>1, RankedOrder
<1> HIDE DEF b
<1>3. Before(descending, S, b) = {}
  BY <1>2, RankBounded, FS_EmptySet
<1>4. \A t \in S : ~Ahead(descending, t, b)
  BY <1>3 DEF Before
<1>5. IsBest(descending, S, b)
  BY <1>2, <1>4 DEF IsBest
<1> DEFINE w == Ranked(descending, S)
<1>6. w \in Seq(S) /\ Len(w) = Cardinality(S)
  <2>1. \A k \in 1 .. Cardinality(S) : w[k] \in S BY RankedOrder
  <2>2. DOMAIN w = 1 .. Cardinality(S) BY DEF Ranked
  <2>3. w = [k \in 1 .. Cardinality(S) |-> w[k]] BY DEF Ranked
  <2> HIDE DEF w
  <2>4. w \in [1 .. Cardinality(S) -> S] BY <2>1, <2>3
  <2>5. w \in Seq(S) BY <1>1, <2>4, SeqDef
  <2> QED BY <1>1, <2>2, <2>5, LenProperties
<1>7. w # <<>> /\ Head(w) = w[1]
  <2> HIDE DEF w
  <2>1. Len(w) # 0 BY <1>1, <1>6
  <2>2. w # <<>> BY <2>1, EmptySeq
  <2> QED BY <1>6, <2>2, HeadTailProperties
<1> QED BY <1>1, <1>5, <1>6, <1>7 DEF b

(* The amounts along the first places of a walk add up to those of its ticks. *)
LEMMA SumAlongWalk ==
  ASSUME NEW descending \in BOOLEAN, NEW S \in SUBSET Nat, IsFiniteSet(S),
         NEW f, \A t \in S : f[t] \in Nat,
         NEW n \in Nat, n <= Cardinality(S)
  PROVE  SumFunction([k \in 1 .. n |-> f[Ranked(descending, S)[k]]])
           = SumFunctionOnSet(f, {t \in S : Cardinality(Before(descending, S, t)) < n})
<1> DEFINE w == Ranked(descending, S)
           rank(t) == Cardinality(Before(descending, S, t))
           g == [k \in 1 .. n |-> f[w[k]]]
           First(i) == {t \in S : rank(t) < i}
           T == {i \in Nat : i <= n =>
                   SumFunctionOnSet(g, 1 .. i) = SumFunctionOnSet(f, First(i))}
<1>1. /\ Cardinality(S) \in Nat
      /\ \A k \in 1 .. n : w[k] \in S /\ rank(w[k]) = k - 1
      /\ \A t \in S : \A u \in S : rank(t) = rank(u) => t = u
      /\ \A t \in S : rank(t) \in Nat
  <2>1. \A t \in S : rank(t) \in Nat BY RankBounded
  <2> QED BY <2>1, RankedOrder
<1>2. 0 \in T
  <2>1. 1 .. 0 = {} OBVIOUS
  <2>2. First(0) = {}
    <3> HIDE DEF rank
    <3>1. \A t \in S : rank(t) \in Nat /\ ~(rank(t) < 0) BY <1>1
    <3>2. \A t \in S : ~(rank(t) < 0) BY <3>1
    <3> QED BY <3>2, Zenon
  <2> QED BY <2>1, <2>2, SumEmpty
<1>3. ASSUME NEW i \in Nat, i \in T PROVE i + 1 \in T
  <2> SUFFICES ASSUME i + 1 <= n
               PROVE  SumFunctionOnSet(g, 1 .. i + 1) = SumFunctionOnSet(f, First(i + 1))
    OBVIOUS
  <2>1. /\ i + 1 \in 1 .. n /\ w[i + 1] \in S /\ rank(w[i + 1]) = i
    BY <1>1
  <2>2. SumFunctionOnSet(g, 1 .. i) = SumFunctionOnSet(f, First(i)) BY <1>3
  <2>3. First(i + 1) \ {w[i + 1]} = First(i) /\ w[i + 1] \in First(i + 1)
    <3> HIDE DEF rank, w
    <3>1. ASSUME NEW t \in First(i + 1), t # w[i + 1] PROVE t \in First(i)
      <4>1. t \in S /\ rank(t) \in Nat /\ rank(t) < i + 1 BY <1>1
      <4>2. rank(t) # i BY <1>1, <2>1, <3>1, <4>1
      <4> QED BY <4>1, <4>2
    <3>2. ASSUME NEW t \in First(i) PROVE t \in First(i + 1) /\ t # w[i + 1]
      BY <1>1, <2>1
    <3>3. w[i + 1] \in First(i + 1) BY <2>1
    <3> HIDE DEF First
    <3> QED BY <3>1, <3>2, <3>3
  <2>4. IsFiniteSet(First(i + 1)) /\ \A t \in First(i + 1) : f[t] \in Int
    <3>1. First(i + 1) \in SUBSET S OBVIOUS
    <3> HIDE DEF First
    <3>2. IsFiniteSet(First(i + 1)) BY <3>1, FS_Subset
    <3>3. \A t \in S : f[t] \in Int OBVIOUS
    <3>4. \A t \in First(i + 1) : f[t] \in Int BY <3>1, <3>3
    <3> QED BY <3>2, <3>4
  <2>5. (1 .. i + 1) \ {i + 1} = 1 .. i /\ i + 1 \in 1 .. i + 1 /\ IsFiniteSet(1 .. i + 1)
    <3>1. 1 \in Int /\ i + 1 \in Int OBVIOUS
    <3>2. IsFiniteSet(1 .. i + 1) BY <3>1, FS_Interval
    <3> QED BY <3>2
  <2>6. g[i + 1] = f[w[i + 1]] BY <2>1
  <2>7. \A k \in 1 .. i + 1 : g[k] \in Int
    <3> TAKE k \in 1 .. i + 1
    <3>1. k \in 1 .. n BY <2>1
    <3> HIDE DEF w
    <3>2. w[k] \in S BY <1>1, <3>1
    <3>3. g[k] = f[w[k]] BY <3>1
    <3>4. f[w[k]] \in Int
      <4>1. \A t \in S : f[t] \in Int OBVIOUS
      <4> QED BY ONLY <3>2, <4>1
    <3> HIDE DEF g
    <3> QED BY <3>3, <3>4
  <2> HIDE DEF g, First, w, rank, T
  <2>8. SumFunctionOnSet(g, 1 .. i + 1) = g[i + 1] + SumFunctionOnSet(g, (1 .. i + 1) \ {i + 1})
    BY <2>5, <2>7, SumRemove
  <2>9. SumFunctionOnSet(f, First(i + 1))
          = f[w[i + 1]] + SumFunctionOnSet(f, First(i + 1) \ {w[i + 1]})
    BY <2>3, <2>4, SumRemove
  <2> QED BY <2>2, <2>3, <2>5, <2>6, <2>8, <2>9
<1>4. n \in T
  <2> HIDE DEF T
  <2>1. Nat \subseteq T BY <1>2, <1>3, NatSetInduction
  <2> QED BY <2>1
<1>5. SumFunctionOnSet(g, 1 .. n) = SumFunctionOnSet(f, First(n))
  BY <1>4
<1>6. DOMAIN g = 1 .. n
  OBVIOUS
<1>7. SumFunction(g) = SumFunctionOnSet(g, DOMAIN g)
  <2> HIDE DEF g
  <2> QED BY DEF SumFunction
<1> QED BY <1>5, <1>6, <1>7

-----------------------------------------------------------------------------
(* What the events say of one side: an amount for some ticks. *)

IsSide(m) ==
  /\ DOMAIN m \in SUBSET Nat /\ IsFiniteSet(DOMAIN m)
  /\ \A t \in DOMAIN m : m[t] \in Nat

Amount(m, t) == IF t \in DOMAIN m THEN m[t] ELSE 0

Populated(m) == {t \in DOMAIN m : m[t] > 0}

(* The populated ticks are finitely many, and those whose amount is not zero. *)
LEMMA PopulatedTicks ==
  ASSUME NEW m, IsSide(m)
  PROVE  /\ Populated(m) \in SUBSET Nat /\ IsFiniteSet(Populated(m))
         /\ Cardinality(Populated(m)) \in Nat
         /\ \A t \in Nat : Amount(m, t) \in Nat /\ (t \in Populated(m) <=> Amount(m, t) # 0)
         /\ \A t \in Populated(m) : Amount(m, t) = m[t]
<1>1. Populated(m) \in SUBSET (DOMAIN m) /\ Populated(m) \in SUBSET Nat
  BY DEF Populated, IsSide
<1>2. IsFiniteSet(Populated(m))
  BY <1>1, FS_Subset DEF IsSide
<1>3. \A t \in Nat : Amount(m, t) \in Nat /\ (t \in Populated(m) <=> Amount(m, t) # 0)
  BY DEF IsSide, Amount, Populated
<1>4. \A t \in Populated(m) : Amount(m, t) = m[t]
  BY DEF Amount, Populated
<1> QED BY <1>1, <1>2, <1>3, <1>4, FS_CardinalityType

(* A level put where it belongs, and nothing else moved. *)
LEMMA PutTicks ==
  ASSUME NEW m, IsSide(m), NEW tick \in Nat, NEW amount \in Nat
  PROVE  LET p == Put(m, tick, amount) IN
         /\ IsSide(p)
         /\ \A t \in Nat : Amount(p, t) = IF t = tick THEN amount ELSE Amount(m, t)
         /\ Populated(p) = IF amount > 0 THEN Populated(m) \cup {tick}
                           ELSE Populated(m) \ {tick}
<1> DEFINE p == Put(m, tick, amount)
<1>1. /\ DOMAIN p = DOMAIN m \cup {tick}
      /\ \A t \in DOMAIN m \cup {tick} : p[t] = IF t = tick THEN amount ELSE m[t]
  BY DEF Put
<1> HIDE DEF p
<1>2. IsFiniteSet(DOMAIN p)
  BY <1>1, FS_AddElement DEF IsSide
<1>3. DOMAIN p \in SUBSET Nat /\ \A t \in DOMAIN p : p[t] \in Nat
  BY <1>1 DEF IsSide
<1>4. IsSide(p)
  BY <1>2, <1>3 DEF IsSide
<1>5. \A t \in Nat : Amount(p, t) = IF t = tick THEN amount ELSE Amount(m, t)
  BY <1>1 DEF Amount
<1>6. \A t \in Nat : t \in Populated(p) <=> IF t = tick THEN amount # 0 ELSE t \in Populated(m)
  BY <1>4, <1>5, PopulatedTicks
<1>7. Populated(p) \in SUBSET Nat /\ Populated(m) \in SUBSET Nat
  BY <1>4, PopulatedTicks
<1>8. Populated(p) = IF amount > 0 THEN Populated(m) \cup {tick} ELSE Populated(m) \ {tick}
  <2>1. CASE amount > 0 BY <1>6, <1>7, <2>1
  <2>2. CASE amount = 0 BY <1>6, <1>7, <2>2
  <2> QED BY <2>1, <2>2
<1> QED BY <1>4, <1>5, <1>8 DEF p

-----------------------------------------------------------------------------
(* A ladder holds the levels of a side. *)

Ladders ==
  [descending : BOOLEAN, base : Nat, quantity : Seq(Nat), count : Nat,
   best : Nat \cup {NoBest}]

LevelAt(l, tick) == IF InRange(l, tick) THEN At(l, tick) ELSE 0

Holds(l, m) == l \in Ladders /\ IsSide(m) /\ \A t \in Nat : LevelAt(l, t) = Amount(m, t)

(* The count and the remembered best are those of the side too. *)
LadderIs(l, m) ==
  /\ Holds(l, m)
  /\ l.count = Cardinality(Populated(m))
  /\ IsBest(l.descending, Populated(m), l.best)

(* The smaller and the larger of two numbers. *)
LEMMA TwoExtremes ==
  ASSUME NEW a \in Int, NEW b \in Int
  PROVE  /\ Min({a, b}) = IF a <= b THEN a ELSE b
         /\ Max({a, b}) = IF a >= b THEN a ELSE b
BY DEF Min, Max

(* A ladder grown is a ladder with the same levels, and covers the tick. *)
LEMMA GrowKeeps ==
  ASSUME NEW l \in Ladders, NEW tick \in Nat
  PROVE  LET g == GrowToCover(l, tick) IN
         /\ g \in Ladders /\ InRange(g, tick)
         /\ g.descending = l.descending /\ g.count = l.count /\ g.best = l.best
         /\ \A t \in Nat : LevelAt(g, t) = LevelAt(l, t)
<1> DEFINE old == Len(l.quantity)
           half == InitialSlots \div 2
           wanted == IF old = 0 THEN tick - half ELSE Min({l.base, tick}) - GrowthMargin
           span == IF old = 0 THEN InitialSlots
                   ELSE Max({l.base + old, tick + 1}) + GrowthMargin - wanted
           base == Max({0, wanted})
           slots == IF wanted < 0 THEN span - wanted ELSE span
           shift == l.base - base
           quantity == [i \in 1 .. slots |->
                          IF i - shift \in 1 .. old THEN l.quantity[i - shift] ELSE 0]
           g == [l EXCEPT !.base = base, !.quantity = quantity]
<1>1. GrowToCover(l, tick) = g
  BY DEF GrowToCover
<1>2. /\ l.base \in Nat /\ l.quantity \in Seq(Nat) /\ old \in Nat
      /\ DOMAIN l.quantity = 1 .. old /\ \A i \in 1 .. old : l.quantity[i] \in Nat
  BY LenProperties, ElementOfSeq DEF Ladders
<1>3. InitialSlots \in Nat /\ InitialSlots >= 1 /\ GrowthMargin \in Nat
      /\ half \in Nat /\ 2 * half <= InitialSlots /\ half < InitialSlots
  BY LadderAssumption
<1>4. /\ wanted \in Int /\ span \in Int /\ base \in Nat /\ slots \in Nat
      /\ base <= tick /\ tick < base + slots
      /\ old # 0 => base <= l.base /\ l.base + old <= base + slots
  <2> HIDE DEF half, old
  <2>1. CASE old = 0
    <3>1. wanted = tick - half /\ span = InitialSlots BY <2>1
    <3>2. base = IF 0 >= tick - half THEN 0 ELSE tick - half
      <4>1. 0 \in Int /\ tick - half \in Int BY <1>3
      <4>2. Max({0, tick - half}) = IF 0 >= tick - half THEN 0 ELSE tick - half
        BY ONLY <4>1, TwoExtremes
      <4> QED BY <3>1, <4>2
    <3>3. slots = IF tick - half < 0 THEN InitialSlots - (tick - half) ELSE InitialSlots
      BY <3>1
    <3> HIDE DEF wanted, span, base, slots
    <3> QED BY <1>3, <2>1, <3>1, <3>2, <3>3
  <2>2. CASE old # 0
    <3> DEFINE low == IF l.base <= tick THEN l.base ELSE tick
               high == IF l.base + old >= tick + 1 THEN l.base + old ELSE tick + 1
    <3>1. wanted = low - GrowthMargin /\ span = high + GrowthMargin - wanted
      <4>1. l.base \in Int /\ tick \in Int /\ l.base + old \in Int /\ tick + 1 \in Int
        BY <1>2
      <4>2. Min({l.base, tick}) = low
        BY <4>1, TwoExtremes
      <4>3. Max({l.base + old, tick + 1}) = high
        <5> HIDE DEF low
        <5> QED BY <4>1, TwoExtremes
      <4> QED BY <2>2, <4>2, <4>3
    <3>2. /\ low \in Nat /\ low <= l.base /\ low <= tick
          /\ high \in Nat /\ l.base + old <= high /\ tick + 1 <= high
      BY <1>2
    <3> HIDE DEF low, high, wanted, span
    <3>3. base = IF 0 >= wanted THEN 0 ELSE wanted
      BY <1>3, <3>1, <3>2, TwoExtremes
    <3>4. slots = IF wanted < 0 THEN span - wanted ELSE span
      OBVIOUS
    <3> HIDE DEF base, slots
    <3>5. /\ l.base \in Nat /\ old \in Nat /\ GrowthMargin \in Nat /\ tick \in Nat
          /\ low \in Nat /\ high \in Nat
      BY <1>2, <1>3, <3>2
    <3>6. wanted \in Int /\ span \in Int /\ wanted <= low /\ wanted + span >= high
      BY ONLY <3>1, <3>5
    <3>7. CASE wanted < 0
      <4>1. base = 0 /\ slots = span - wanted BY ONLY <3>3, <3>4, <3>6, <3>7
      <4>2. span - wanted \in Nat /\ span - wanted >= high BY ONLY <3>5, <3>6, <3>7
      <4> QED BY ONLY <3>2, <3>5, <3>6, <4>1, <4>2
    <3>8. CASE ~(wanted < 0)
      <4>1. base = wanted /\ slots = span BY ONLY <3>3, <3>4, <3>6, <3>8
      <4>2. high > wanted BY ONLY <3>2, <3>5, <3>6
      <4>3. span \in Nat /\ wanted \in Nat BY ONLY <3>5, <3>6, <3>8, <4>2
      <4> QED BY ONLY <3>2, <3>5, <3>6, <4>1, <4>3
    <3> QED BY <3>7, <3>8
  <2> QED BY <2>1, <2>2
<1> HIDE DEF wanted, span, base, slots, half
<1>5. \A i \in 1 .. slots :
        quantity[i] = IF i - shift \in 1 .. old THEN l.quantity[i - shift] ELSE 0
  OBVIOUS
<1>6. DOMAIN quantity = 1 .. slots
  OBVIOUS
<1> HIDE DEF quantity, old
<1>7. \A i \in 1 .. slots : quantity[i] \in Nat
  BY <1>2, <1>5
<1>8. quantity \in [1 .. slots -> Nat] /\ quantity \in Seq(Nat) /\ Len(quantity) = slots
  <2>1. quantity \in [1 .. slots -> Nat]
    <3>1. quantity = [i \in 1 .. slots |-> quantity[i]] BY DEF quantity
    <3> QED BY <1>7, <3>1
  <2>2. quantity \in Seq(Nat) BY <1>4, <2>1, SeqDef
  <2> QED BY <1>4, <1>6, <2>1, <2>2, LenProperties
<1>9. /\ g \in Ladders /\ g.base = base /\ g.quantity = quantity
      /\ g.descending = l.descending /\ g.count = l.count /\ g.best = l.best
  BY <1>4, <1>8 DEF Ladders
<1> HIDE DEF g
<1>10. InRange(g, tick)
  BY <1>4, <1>8, <1>9 DEF InRange
<1>11. ASSUME NEW t \in Nat PROVE LevelAt(g, t) = LevelAt(l, t)
  <2>1. InRange(g, t) <=> t >= base /\ t - base < slots
    BY <1>8, <1>9 DEF InRange
  <2>2. InRange(l, t) <=> t >= l.base /\ t - l.base < old
    BY DEF InRange, old
  <2>3. At(g, t) = quantity[t - base + 1] BY <1>9 DEF At
  <2>4. At(l, t) = l.quantity[t - l.base + 1] BY DEF At
  <2>5. CASE InRange(l, t)
    <3>1. old # 0 /\ InRange(g, t) BY <1>2, <1>4, <2>1, <2>2, <2>5
    <3>2. t - base + 1 \in 1 .. slots /\ (t - base + 1) - shift = t - l.base + 1
          /\ t - l.base + 1 \in 1 .. old
      BY <1>2, <1>4, <2>1, <2>2, <2>5, <3>1
    <3>3. quantity[t - base + 1] = l.quantity[t - l.base + 1] BY <1>5, <3>2
    <3> QED BY <2>3, <2>4, <2>5, <3>1, <3>3 DEF LevelAt
  <2>6. CASE ~InRange(l, t) /\ InRange(g, t)
    <3>1. t - base + 1 \in 1 .. slots /\ (t - base + 1) - shift = t - l.base + 1
          /\ t - l.base + 1 \notin 1 .. old
      BY <1>2, <1>4, <2>1, <2>2, <2>6
    <3>2. quantity[t - base + 1] = 0 BY <1>5, <3>1
    <3> QED BY <2>3, <2>6, <3>2 DEF LevelAt
  <2>7. CASE ~InRange(l, t) /\ ~InRange(g, t)
    BY <2>7 DEF LevelAt
  <2> QED BY <2>5, <2>6, <2>7
<1> QED BY <1>1, <1>9, <1>10, <1>11

(* The range of a ladder: a tick's level is in its slot. *)
LEMMA HoldsTypes ==
  ASSUME NEW l, NEW m, Holds(l, m)
  PROVE  /\ l.descending \in BOOLEAN /\ l.base \in Nat /\ l.count \in Nat
         /\ l.quantity \in Seq(Nat) /\ Len(l.quantity) \in Nat
         /\ \A i \in 1 .. Len(l.quantity) : l.quantity[i] \in Nat
         /\ DOMAIN l.quantity = 1 .. Len(l.quantity)
         /\ l.best \in Nat \cup {NoBest}
<1>1. /\ l.descending \in BOOLEAN /\ l.base \in Nat /\ l.count \in Nat
      /\ l.quantity \in Seq(Nat) /\ l.best \in Nat \cup {NoBest}
  BY DEF Holds, Ladders
<1> QED BY <1>1, LenProperties, ElementOfSeq

(* A walk from where nothing is ahead meets every level, in order. *)
LEMMA WalkIsRanked ==
  ASSUME NEW l, NEW m, Holds(l, m), NEW from,
         \A t \in Populated(m) : ~Ahead(l.descending, t, from)
  PROVE  Walk(l, from) = Ranked(l.descending, Populated(m))
<1> DEFINE met == {t \in l.base .. l.base + Len(l.quantity) - 1 :
                     At(l, t) # 0 /\ ~Ahead(l.descending, t, from)}
<1>1. Walk(l, from) = [k \in 1 .. Cardinality(met) |->
                         CHOOSE t \in met :
                           Cardinality({u \in met : Ahead(l.descending, u, t)}) = k - 1]
  BY DEF Walk
<1>2. met = Populated(m)
  <2>1. ASSUME NEW t \in met PROVE t \in Populated(m)
    <3>1. t \in Nat /\ InRange(l, t) /\ At(l, t) # 0
      BY HoldsTypes DEF InRange
    <3>2. Amount(m, t) # 0 BY <3>1 DEF Holds, LevelAt
    <3> QED BY <3>1, <3>2, PopulatedTicks DEF Holds
  <2>2. ASSUME NEW t \in Populated(m) PROVE t \in met
    <3>1. t \in Nat /\ Amount(m, t) # 0 BY PopulatedTicks DEF Holds
    <3>2. LevelAt(l, t) # 0 BY <3>1 DEF Holds
    <3>3. InRange(l, t) /\ At(l, t) # 0 BY <3>2 DEF LevelAt
    <3>4. t \in l.base .. l.base + Len(l.quantity) - 1
      BY <3>1, <3>3, HoldsTypes DEF InRange
    <3> QED BY <3>3, <3>4
  <2> HIDE DEF met
  <2> QED BY <2>1, <2>2
<1> HIDE DEF met
<1> QED BY <1>1, <1>2 DEF Ranked, Before

(* A walk from the best, and what it finds first. *)
LEMMA WalkFromBest ==
  ASSUME NEW l, NEW m, LadderIs(l, m), Populated(m) # {}
  PROVE  /\ Walk(l, l.best) = Ranked(l.descending, Populated(m))
         /\ Len(Walk(l, l.best)) = Cardinality(Populated(m))
         /\ Cardinality(Populated(m)) \in Nat /\ Cardinality(Populated(m)) >= 1
         /\ Walk(l, l.best) # <<>>
         /\ Head(Walk(l, l.best)) = l.best
         /\ l.best \in Populated(m)
<1> DEFINE S == Populated(m)
           w == Ranked(l.descending, S)
<1>1. /\ Holds(l, m) /\ l.best \in S /\ \A t \in S : ~Ahead(l.descending, t, l.best)
      /\ l.descending \in BOOLEAN
  BY HoldsTypes DEF LadderIs, IsBest
<1>2. Walk(l, l.best) = w
  BY <1>1, WalkIsRanked
<1>3. /\ S \in SUBSET Nat /\ IsFiniteSet(S) /\ Cardinality(S) \in Nat
  BY <1>1, PopulatedTicks DEF Holds
<1>4. /\ Cardinality(S) >= 1 /\ IsBest(l.descending, S, w[1])
      /\ Len(w) = Cardinality(S) /\ w # <<>> /\ Head(w) = w[1]
  <2> HIDE DEF S
  <2> QED BY <1>1, <1>3, RankedFirst DEF S
<1>5. w[1] = l.best
  <2>1. w[1] \in S /\ \A t \in S : ~Ahead(l.descending, t, w[1]) BY <1>4 DEF IsBest
  <2>2. ~Ahead(l.descending, l.best, w[1]) /\ ~Ahead(l.descending, w[1], l.best)
    BY <1>1, <2>1
  <2>3. w[1] \in Nat /\ l.best \in Nat BY <1>1, <1>3, <2>1
  <2> HIDE DEF w, S
  <2> QED BY <1>1, <2>2, <2>3 DEF Ahead
<1> QED BY <1>1, <1>2, <1>3, <1>4, <1>5

-----------------------------------------------------------------------------
(* The operations of a ladder, each as its effect on the levels. *)

(* An empty ladder holds no level. *)
LEMMA NewLadderIs ==
  ASSUME NEW descending \in BOOLEAN
  PROVE  /\ LadderIs(NewLadder(descending), [tick \in {} |-> 0])
         /\ NewLadder(descending).descending = descending
<1> DEFINE l == NewLadder(descending)
           m == [tick \in {} |-> 0]
<1>1. /\ l.descending = descending /\ l.base = 0 /\ l.quantity = <<>> /\ l.count = 0
      /\ l.best = NoBest
  BY DEF NewLadder
<1>2. l \in Ladders
  <2>1. <<>> \in Seq(Nat) BY EmptySeq
  <2> QED BY <2>1 DEF Ladders, NewLadder
<1>3. DOMAIN m = {}
  OBVIOUS
<1>4. IsSide(m) /\ Populated(m) = {}
  BY <1>3, FS_EmptySet DEF IsSide, Populated
<1>5. \A t \in Nat : LevelAt(l, t) = Amount(m, t)
  <2>1. Len(l.quantity) = 0 BY <1>1, EmptySeq
  <2> HIDE DEF l, m
  <2>2. \A t \in Nat : ~InRange(l, t) BY <1>1, <2>1 DEF InRange
  <2> QED BY <1>3, <2>2 DEF LevelAt, Amount
<1> HIDE DEF l, m
<1>6. Holds(l, m) BY <1>2, <1>4, <1>5 DEF Holds
<1>7. LadderIs(l, m) BY <1>1, <1>4, <1>6, FS_EmptySet DEF LadderIs, IsBest
<1> QED BY <1>1, <1>7 DEF l, m

(* clear leaves no level, whatever the array had grown to. *)
LEMMA ClearIs ==
  ASSUME NEW l, NEW m, LadderIs(l, m)
  PROVE  LadderIs(Clear(l), [tick \in {} |-> 0]) /\ Clear(l).descending = l.descending
<1> DEFINE c == Clear(l)
           zeros == [i \in DOMAIN l.quantity |-> 0]
           e == [tick \in {} |-> 0]
<1>0. Holds(l, m) BY DEF LadderIs
<1>1. l \in Ladders BY <1>0 DEF Holds
<1>2. /\ l.base \in Nat /\ Len(l.quantity) \in Nat
      /\ DOMAIN l.quantity = 1 .. Len(l.quantity)
  BY <1>0, HoldsTypes
<1>3. zeros \in Seq(Nat) /\ DOMAIN zeros = 1 .. Len(l.quantity)
      /\ \A i \in 1 .. Len(l.quantity) : zeros[i] = 0
  <2>1. zeros \in [1 .. Len(l.quantity) -> Nat] BY <1>2
  <2>2. zeros \in Seq(Nat) BY <1>2, <2>1, SeqDef
  <2> QED BY <1>2, <2>2
<1>4. /\ c.descending = l.descending /\ c.base = l.base /\ c.quantity = zeros
      /\ c.count = 0 /\ c.best = NoBest
  BY <1>1 DEF Clear, Ladders
<1>5. c \in Ladders
  <2> HIDE DEF zeros
  <2>1. c = [descending |-> l.descending, base |-> l.base, quantity |-> zeros,
             count |-> 0, best |-> NoBest]
    <3>1. Clear(l) = [[l EXCEPT !.quantity = zeros] EXCEPT !.count = 0, !.best = NoBest]
      BY DEF Clear, zeros
    <3>2. l = [descending |-> l.descending, base |-> l.base, quantity |-> l.quantity,
               count |-> l.count, best |-> l.best]
      BY <1>1 DEF Ladders
    <3> QED BY <3>1, <3>2
  <2>2. l.descending \in BOOLEAN BY <1>0, HoldsTypes
  <2> QED BY <1>2, <1>3, <2>1, <2>2 DEF Ladders
<1>6. IsSide(e) /\ Populated(e) = {} /\ DOMAIN e = {}
  BY FS_EmptySet DEF IsSide, Populated
<1>7. \A t \in Nat : LevelAt(c, t) = Amount(e, t)
  <2> HIDE DEF zeros, c, e
  <2>1. Len(zeros) = Len(l.quantity) BY <1>2, <1>3, LenProperties
  <2>2. ASSUME NEW t \in Nat, InRange(c, t) PROVE At(c, t) = 0
    <3>1. t - l.base + 1 \in 1 .. Len(l.quantity)
      BY <1>2, <1>4, <2>1, <2>2 DEF InRange
    <3> QED BY <1>3, <1>4, <3>1 DEF At
  <2> QED BY <1>6, <2>2 DEF LevelAt, Amount
<1> HIDE DEF c, e
<1>8. Holds(c, e) BY <1>5, <1>6, <1>7 DEF Holds
<1>9. LadderIs(c, e) BY <1>4, <1>6, <1>8, FS_EmptySet DEF LadderIs, IsBest
<1> QED BY <1>4, <1>9 DEF c, e

(* A ladder with another count and best. *)
Beside(w, c, b) == [w EXCEPT !.count = c, !.best = b]

(* The count and the best are beside the levels. *)
LEMMA HoldsBeside ==
  ASSUME NEW w, NEW p, Holds(w, p), NEW c \in Nat, NEW b \in Nat \cup {NoBest}
  PROVE  LET r == Beside(w, c, b) IN
         /\ Holds(r, p) /\ r.count = c /\ r.best = b /\ r.descending = w.descending
<1> DEFINE r == Beside(w, c, b)
<1>1. w \in Ladders BY DEF Holds
<1>2. w = [descending |-> w.descending, base |-> w.base, quantity |-> w.quantity,
           count |-> w.count, best |-> w.best]
  BY <1>1 DEF Ladders
<1>3. r = [descending |-> w.descending, base |-> w.base, quantity |-> w.quantity,
           count |-> c, best |-> b]
  <2>1. [w EXCEPT !.count = c] =
          [descending |-> w.descending, base |-> w.base, quantity |-> w.quantity,
           count |-> c, best |-> w.best]
    BY ONLY <1>2
  <2>2. r = [[w EXCEPT !.count = c] EXCEPT !.best = b]
    BY DEF Beside
  <2> HIDE DEF r
  <2> QED BY ONLY <2>1, <2>2
<1>4. r \in Ladders
  BY <1>3, HoldsTypes DEF Ladders
<1>5. /\ r.base = w.base /\ r.quantity = w.quantity /\ r.count = c /\ r.best = b
      /\ r.descending = w.descending
  BY <1>3
<1> HIDE DEF r
<1>6. \A t \in Nat : LevelAt(r, t) = LevelAt(w, t)
  BY <1>5 DEF LevelAt, InRange, At
<1>7. Holds(r, p)
  BY <1>4, <1>6 DEF Holds
<1> QED BY <1>5, <1>7 DEF r

(* A slot written is a level put. *)
LEMMA WriteHolds ==
  ASSUME NEW g, NEW m, Holds(g, m), NEW tick \in Nat, InRange(g, tick), NEW amount \in Nat
  PROVE  LET w == [g EXCEPT !.quantity[tick - g.base + 1] = amount] IN
         /\ Holds(w, Put(m, tick, amount))
         /\ w.count = g.count /\ w.best = g.best /\ w.descending = g.descending
<1> DEFINE w == [g EXCEPT !.quantity[tick - g.base + 1] = amount]
           p == Put(m, tick, amount)
           place == tick - g.base + 1
           q == [g.quantity EXCEPT ![place] = amount]
<1>1. g \in Ladders BY DEF Holds
<1>2. /\ g.base \in Nat /\ Len(g.quantity) \in Nat
      /\ g.quantity \in Seq(Nat) /\ DOMAIN g.quantity = 1 .. Len(g.quantity)
      /\ place \in 1 .. Len(g.quantity)
  BY HoldsTypes DEF InRange
<1>3. g = [descending |-> g.descending, base |-> g.base, quantity |-> g.quantity,
           count |-> g.count, best |-> g.best]
  BY <1>1 DEF Ladders
<1>4. w = [descending |-> g.descending, base |-> g.base, quantity |-> q,
           count |-> g.count, best |-> g.best]
  BY <1>3
<1>5. /\ q \in Seq(Nat) /\ Len(q) = Len(g.quantity)
      /\ \A i \in 1 .. Len(g.quantity) : q[i] = IF i = place THEN amount ELSE g.quantity[i]
  <2> HIDE DEF place
  <2> QED BY <1>2, ExceptSeq
<1> HIDE DEF q
<1>6. w \in Ladders
  BY <1>4, <1>5, HoldsTypes DEF Ladders
<1>7. /\ w.base = g.base /\ w.quantity = q /\ w.count = g.count /\ w.best = g.best
      /\ w.descending = g.descending
  BY <1>4
<1> HIDE DEF w
<1>8. ASSUME NEW t \in Nat
      PROVE  LevelAt(w, t) = IF t = tick THEN amount ELSE LevelAt(g, t)
  <2>1. InRange(w, t) <=> InRange(g, t) BY <1>5, <1>7 DEF InRange
  <2>2. CASE InRange(g, t)
    <3>1. t - g.base + 1 \in 1 .. Len(g.quantity)
      <4>1. PICK base \in Nat, n \in Nat : base = g.base /\ n = Len(g.quantity) BY <1>2
      <4>2. t >= base /\ t - base < n BY <2>2, <4>1 DEF InRange
      <4>3. t - base + 1 \in 1 .. n BY ONLY <4>2, t \in Nat, base \in Nat, n \in Nat
      <4> QED BY <4>1, <4>3
    <3>2. t - g.base + 1 = place <=> t = tick BY <1>2
    <3>3. q[t - g.base + 1] = IF t = tick THEN amount ELSE g.quantity[t - g.base + 1]
      BY <1>5, <3>1, <3>2
    <3> QED BY <1>7, <2>1, <2>2, <3>3 DEF LevelAt, At
  <2>3. CASE ~InRange(g, t)
    <3>1. t # tick BY <2>3
    <3> QED BY <2>1, <2>3, <3>1 DEF LevelAt
  <2> QED BY <2>2, <2>3
<1>9. IsSide(p) /\ \A t \in Nat : Amount(p, t) = IF t = tick THEN amount ELSE Amount(m, t)
  BY PutTicks DEF Holds
<1> HIDE DEF p
<1>10. Holds(w, p)
  BY <1>6, <1>8, <1>9 DEF Holds
<1> QED BY <1>7, <1>10 DEF w, p

(* set puts its level, whether it grows the array, writes nothing, empties the
   best level or betters it. *)
LEMMA SetIs ==
  ASSUME NEW l, NEW m, LadderIs(l, m), NEW tick \in Nat, NEW amount \in Nat
  PROVE  /\ LadderIs(Set(l, tick, amount), Put(m, tick, amount))
         /\ Set(l, tick, amount).descending = l.descending
<1> DEFINE p == Put(m, tick, amount)
           S == Populated(m)
           T == Populated(p)
           g == IF InRange(l, tick) THEN l ELSE GrowToCover(l, tick)
           previous == At(g, tick)
           w == [g EXCEPT !.quantity[tick - g.base + 1] = amount]
           removed == [w EXCEPT !.count = @ - 1]
           added == [w EXCEPT !.count = @ + 1,
                              !.best = IF @ = NoBest \/ Better(l, tick) THEN tick ELSE @]
           ok(r) == LadderIs(r, p) /\ r.descending = l.descending
<1>1. /\ Holds(l, m) /\ l \in Ladders /\ IsSide(m) /\ l.descending \in BOOLEAN
      /\ l.count = Cardinality(S) /\ IsBest(l.descending, S, l.best)
      /\ l.best \in Nat \cup {NoBest}
  BY HoldsTypes DEF LadderIs, Holds
<1>2. /\ Holds(g, m) /\ InRange(g, tick) /\ g.best = l.best /\ g.count = l.count
      /\ g.descending = l.descending
  <2>1. CASE InRange(l, tick) BY <1>1, <2>1
  <2>2. CASE ~InRange(l, tick)
    <3>1. g = GrowToCover(l, tick) BY <2>2
    <3> HIDE DEF g
    <3> QED BY <1>1, <3>1, GrowKeeps DEF Holds
  <2> QED BY <2>1, <2>2
<1>3. /\ S \in SUBSET Nat /\ IsFiniteSet(S) /\ Cardinality(S) \in Nat
      /\ tick \in S <=> Amount(m, tick) # 0
  BY <1>1, PopulatedTicks
<1>4. previous = Amount(m, tick) /\ previous \in Nat
  <2>1. LevelAt(g, tick) = Amount(m, tick) BY <1>2 DEF Holds
  <2>2. Amount(m, tick) \in Nat BY <1>1, PopulatedTicks
  <2> HIDE DEF g
  <2> QED BY <1>2, <2>1, <2>2 DEF LevelAt
<1>5. /\ Holds(w, p) /\ w.count = l.count /\ w.best = l.best /\ w.descending = l.descending
  <2> HIDE DEF g
  <2> QED BY <1>2, WriteHolds
<1>a. IsSide(m) BY <1>1
<1>6. T = IF amount > 0 THEN S \cup {tick} ELSE S \ {tick}
  BY ONLY <1>a, tick \in Nat, amount \in Nat, PutTicks
<1>7. /\ IsSide(p) /\ T \in SUBSET Nat /\ IsFiniteSet(T) /\ Cardinality(T) \in Nat
      /\ \A t \in Nat : Amount(p, t) = IF t = tick THEN amount ELSE Amount(m, t)
  <2>1. /\ IsSide(p)
        /\ \A t \in Nat : Amount(p, t) = IF t = tick THEN amount ELSE Amount(m, t)
    BY ONLY <1>a, tick \in Nat, amount \in Nat, PutTicks
  <2> HIDE DEF p
  <2>2. T \in SUBSET Nat /\ IsFiniteSet(T) /\ Cardinality(T) \in Nat
    BY <2>1, PopulatedTicks
  <2> QED BY <2>1, <2>2
<1>8. Set(l, tick, amount) =
        CASE previous = amount -> g
          [] amount = 0 /\ previous # 0 ->
               IF l.best = tick THEN AdvanceBestHint(removed) ELSE removed
          [] amount # 0 /\ previous = 0 -> added
          [] OTHER -> w
  BY DEF Set
<1> HIDE DEF g, w, previous, p, S, T, removed, added
<1>9. CASE previous = amount
  <2>1. \A t \in Nat : Amount(p, t) = Amount(m, t) BY <1>4, <1>7, <1>9
  <2>2. Holds(g, p) BY <1>2, <1>7, <2>1 DEF Holds
  <2>3. T = S BY <1>3, <1>4, <1>6, <1>9
  <2>4. LadderIs(g, p) BY <1>1, <1>2, <2>2, <2>3 DEF LadderIs, S, T
  <2>5. Set(l, tick, amount) = g BY <1>8, <1>9
  <2> QED BY <1>2, <2>4, <2>5 DEF p
<1>10. CASE previous # amount /\ amount = 0
  <2>1. tick \in S /\ T = S \ {tick} /\ Cardinality(T) = Cardinality(S) - 1
    BY <1>3, <1>4, <1>6, <1>10, FS_RemoveElement
  <2>2. /\ S # {} /\ l.best \in S /\ \A t \in S : ~Ahead(l.descending, t, l.best)
    BY <1>1, <2>1 DEF IsBest
  <2>3. removed = Beside(w, l.count - 1, l.best)
    <3>1. w \in Ladders BY <1>5 DEF Holds
    <3>2. w = [descending |-> w.descending, base |-> w.base, quantity |-> w.quantity,
               count |-> w.count, best |-> w.best]
      BY <3>1 DEF Ladders
    <3> QED BY <1>5, <3>2 DEF removed, Beside
  <2>4. l.count - 1 \in Nat /\ l.count - 1 = Cardinality(T)
    BY <1>1, <1>7, <2>1
  <2>5. /\ Holds(removed, p) /\ removed.count = Cardinality(T) /\ removed.best = l.best
        /\ removed.descending = l.descending
    <3>1. l.best \in Nat \cup {NoBest} BY <1>1
    <3>2. /\ Holds(removed, p) /\ removed.count = l.count - 1 /\ removed.best = l.best
          /\ removed.descending = w.descending
      <4>1. PICK c \in Nat : c = l.count - 1 BY <2>4
      <4>2. removed = Beside(w, c, l.best) BY <2>3, <4>1
      <4>3. Holds(removed, p) /\ removed.count = c /\ removed.best = l.best
            /\ removed.descending = w.descending
        <5>1. Holds(w, p) BY <1>5
        <5>2. PICK b \in Nat \cup {NoBest} : b = l.best BY <3>1
        <5>3. LET r == Beside(w, c, b) IN
              /\ Holds(r, p) /\ r.count = c /\ r.best = b /\ r.descending = w.descending
          BY ONLY <5>1, HoldsBeside
        <5> QED BY <4>2, <5>2, <5>3
      <4> QED BY <4>1, <4>3
    <3> QED BY <1>5, <2>4, <3>2
  <2>6. CASE l.best # tick
    <3>1. IsBest(l.descending, T, l.best) BY <2>1, <2>2, <2>6 DEF IsBest
    <3>2. LadderIs(removed, p) BY <2>5, <3>1 DEF LadderIs, T
    <3>3. Set(l, tick, amount) = removed BY <1>4, <1>8, <1>10, <2>6
    <3> QED BY <2>5, <3>2, <3>3 DEF p
  <2>7. CASE l.best = tick
    <3> DEFINE behind == Walk(removed, removed.best)
               b == IF removed.count = 0 \/ behind = <<>> THEN NoBest ELSE Head(behind)
    <3>1. AdvanceBestHint(removed) = [removed EXCEPT !.best = b]
      BY DEF AdvanceBestHint
    <3>2. behind = Ranked(l.descending, T)
      <4>1. \A t \in Populated(p) : ~Ahead(removed.descending, t, removed.best)
        BY <2>1, <2>2, <2>5 DEF T
      <4>2. Walk(removed, removed.best) = Ranked(removed.descending, Populated(p))
        BY <2>5, <4>1, WalkIsRanked
      <4> QED BY <2>5, <4>2 DEF T
    <3>3. IsBest(l.descending, T, b)
      <4>1. CASE T = {}
        <5>1. removed.count = 0 BY <2>5, <4>1, FS_EmptySet
        <5> QED BY <4>1, <5>1 DEF IsBest
      <4>2. CASE T # {}
        <5> DEFINE r == Ranked(l.descending, T)
        <5>1. /\ Cardinality(T) \in Nat /\ Cardinality(T) >= 1
              /\ IsBest(l.descending, T, r[1]) /\ r # <<>> /\ Head(r) = r[1]
          BY <1>1, <1>7, <4>2, RankedFirst
        <5> HIDE DEF r, behind
        <5>2. b = r[1] BY <2>5, <3>2, <5>1 DEF r
        <5> QED BY <5>1, <5>2
      <4> QED BY <4>1, <4>2
    <3> HIDE DEF b, behind
    <3>4. b \in Nat \cup {NoBest} BY <1>7, <3>3 DEF IsBest
    <3>5. [removed EXCEPT !.best = b] = Beside(removed, Cardinality(T), b)
      <4>1. removed \in Ladders BY <2>5 DEF Holds
      <4>2. removed = [descending |-> removed.descending, base |-> removed.base,
                       quantity |-> removed.quantity, count |-> removed.count,
                       best |-> removed.best]
        BY <4>1 DEF Ladders
      <4> QED BY <2>5, <4>2 DEF Beside
    <3> DEFINE r == Beside(removed, Cardinality(T), b)
    <3>6. Holds(r, p) /\ r.count = Cardinality(T) /\ r.best = b /\ r.descending = l.descending
      <4>1. /\ Holds(r, p) /\ r.count = Cardinality(T) /\ r.best = b
            /\ r.descending = removed.descending
        <5>1. Holds(removed, p) BY <2>5
        <5>2. PICK c \in Nat : c = Cardinality(T) BY <1>7
        <5>3. PICK e \in Nat \cup {NoBest} : e = b BY <3>4
        <5> HIDE DEF b
        <5>4. LET r1 == Beside(removed, c, e) IN
              /\ Holds(r1, p) /\ r1.count = c /\ r1.best = e
              /\ r1.descending = removed.descending
          BY ONLY <5>1, HoldsBeside
        <5> QED BY <5>2, <5>3, <5>4
      <4> QED BY <2>5, <4>1
    <3> HIDE DEF r
    <3>7. LadderIs(r, p) BY <3>3, <3>6 DEF LadderIs, T
    <3>8. Set(l, tick, amount) = r BY <1>4, <1>8, <1>10, <2>7, <3>1, <3>5 DEF r
    <3> QED BY <3>6, <3>7, <3>8 DEF p
  <2> QED BY <2>6, <2>7
<1>11. CASE previous # amount /\ amount # 0 /\ previous = 0
  <2> DEFINE b == IF l.best = NoBest \/ Better(l, tick) THEN tick ELSE l.best
  <2>1. tick \notin S /\ T = S \cup {tick} /\ Cardinality(T) = Cardinality(S) + 1
    BY <1>3, <1>4, <1>6, <1>11, FS_AddElement
  <2>2. IsBest(l.descending, T, b)
    <3>1. CASE S = {}
      <4>1. l.best = NoBest /\ T = {tick} BY <1>1, <2>1, <3>1 DEF IsBest
      <4>2. b = tick /\ ~Ahead(l.descending, tick, tick) BY <4>1 DEF Ahead
      <4> QED BY <4>1, <4>2 DEF IsBest
    <3>2. CASE S # {}
      <4>1. l.best \in S /\ \A t \in S : ~Ahead(l.descending, t, l.best)
        BY <1>1, <3>2 DEF IsBest
      <4>2. l.best \in Nat /\ l.best # NoBest
        <5>1. l.best \in Nat BY <1>3, <4>1
        <5> QED BY ONLY <5>1 DEF NoBest
      <4>3. CASE Ahead(l.descending, tick, l.best)
        <5>1. b = tick BY <4>3 DEF Better
        <5>2. ASSUME NEW t \in S PROVE ~Ahead(l.descending, t, tick)
          <6>1. ~Ahead(l.descending, t, l.best) /\ t \in Nat BY <1>3, <4>1
          <6> QED BY <1>1, <4>2, <4>3, <6>1 DEF Ahead
        <5>3. ~Ahead(l.descending, tick, tick) BY DEF Ahead
        <5> QED BY <2>1, <5>1, <5>2, <5>3 DEF IsBest
      <4>4. CASE ~Ahead(l.descending, tick, l.best)
        <5>1. b = l.best BY <4>2, <4>4 DEF Better
        <5> QED BY <2>1, <4>1, <4>4, <5>1 DEF IsBest
      <4> QED BY <4>3, <4>4
    <3> QED BY <3>1, <3>2
  <2>3. added = Beside(w, l.count + 1, b)
    <3>1. w \in Ladders BY <1>5 DEF Holds
    <3>2. w = [descending |-> w.descending, base |-> w.base, quantity |-> w.quantity,
               count |-> w.count, best |-> w.best]
      BY <3>1 DEF Ladders
    <3> QED BY <1>5, <3>2 DEF added, Beside
  <2>4. l.count + 1 \in Nat /\ l.count + 1 = Cardinality(T) /\ b \in Nat \cup {NoBest}
    <3>1. l.count + 1 \in Nat /\ l.count + 1 = Cardinality(T) BY <1>1, <1>3, <2>1
    <3>2. b \in Nat \cup {NoBest} BY <1>1
    <3> QED BY <3>1, <3>2
  <2> HIDE DEF b
  <2>5. /\ Holds(added, p) /\ added.count = Cardinality(T) /\ added.best = b
        /\ added.descending = l.descending
    <3>1. /\ Holds(added, p) /\ added.count = l.count + 1 /\ added.best = b
          /\ added.descending = w.descending
      <4>1. PICK c \in Nat : c = l.count + 1 BY <2>4
      <4>2. added = Beside(w, c, b) BY <2>3, <4>1
      <4>3. b \in Nat \cup {NoBest} BY <2>4
      <4>4. Holds(added, p) /\ added.count = c /\ added.best = b
            /\ added.descending = w.descending
        <5>1. Holds(w, p) BY <1>5
        <5>2. LET r == Beside(w, c, b) IN
              /\ Holds(r, p) /\ r.count = c /\ r.best = b /\ r.descending = w.descending
          BY ONLY <5>1, <4>3, HoldsBeside
        <5> QED BY <4>2, <5>2
      <4> QED BY <4>1, <4>4
    <3> QED BY <1>5, <2>4, <3>1
  <2>6. LadderIs(added, p) BY <2>2, <2>5 DEF LadderIs, T
  <2>7. Set(l, tick, amount) = added BY <1>8, <1>11
  <2> QED BY <2>5, <2>6, <2>7 DEF p
<1>12. CASE previous # amount /\ amount # 0 /\ previous # 0
  <2>1. T = S BY <1>3, <1>4, <1>6, <1>12
  <2>2. LadderIs(w, p) BY <1>1, <1>5, <2>1 DEF LadderIs, S, T
  <2>3. Set(l, tick, amount) = w BY <1>8, <1>12
  <2> QED BY <1>5, <2>2, <2>3 DEF p
<1> QED BY <1>9, <1>10, <1>11, <1>12

-----------------------------------------------------------------------------
(* The views of a ladder. *)

(* The first n ticks of a walk over S. *)
FirstTicks(descending, S, n) == {t \in S : Cardinality(Before(descending, S, t)) < n}

(* The amounts in the slots along a walk. *)
LEMMA AtAlongWalk ==
  ASSUME NEW l, NEW m, LadderIs(l, m), NEW k \in 1 .. Cardinality(Populated(m))
  PROVE  /\ Ranked(l.descending, Populated(m))[k] \in Populated(m)
         /\ At(l, Ranked(l.descending, Populated(m))[k])
              = m[Ranked(l.descending, Populated(m))[k]]
<1> DEFINE S == Populated(m)
           t == Ranked(l.descending, S)[k]
<1>1. Holds(l, m) /\ l.descending \in BOOLEAN
  BY HoldsTypes DEF LadderIs
<1>2. S \in SUBSET Nat /\ IsFiniteSet(S)
  BY <1>1, PopulatedTicks DEF Holds
<1>3. t \in S
  <2> HIDE DEF S
  <2> QED BY <1>1, <1>2, RankedOrder DEF S
<1> HIDE DEF t
<1>4. t \in Nat /\ Amount(m, t) = m[t] /\ Amount(m, t) # 0
  BY <1>1, <1>2, <1>3, PopulatedTicks DEF Holds
<1>5. LevelAt(l, t) = Amount(m, t)
  BY <1>1, <1>4 DEF Holds
<1>6. At(l, t) = m[t]
  BY <1>4, <1>5 DEF LevelAt
<1> QED BY <1>3, <1>6 DEF t

(* nth is the level of its place in the order. *)
LEMMA NthIs ==
  ASSUME NEW l, NEW m, LadderIs(l, m), NEW i \in Nat
  PROVE  Nth(l, i) = IF i < Cardinality(Populated(m))
                     THEN <<[tick |-> Ranked(l.descending, Populated(m))[i + 1],
                             quantity |-> m[Ranked(l.descending, Populated(m))[i + 1]]]>>
                     ELSE <<>>
<1> DEFINE S == Populated(m)
           w == Ranked(l.descending, S)
<1>1. Holds(l, m) /\ l.count = Cardinality(S) /\ IsBest(l.descending, S, l.best)
  BY DEF LadderIs
<1>2. S \in SUBSET Nat /\ IsFiniteSet(S) /\ Cardinality(S) \in Nat
  BY <1>1, PopulatedTicks DEF Holds
<1>3. CASE S = {}
  <2>1. Cardinality(S) = 0 BY <1>3, FS_EmptySet
  <2>2. i >= l.count BY <1>1, <2>1
  <2> QED BY <2>1, <2>2 DEF Nth
<1>4. CASE S # {}
  <2>1. /\ Walk(l, l.best) = w /\ Len(w) = Cardinality(S) /\ l.best \in Nat
    <3>1. Walk(l, l.best) = w /\ Len(w) = Cardinality(S) /\ l.best \in S
      BY <1>4, WalkFromBest
    <3> QED BY <1>2, <3>1
  <2>2. l.best # NoBest BY ONLY <2>1 DEF NoBest
  <2>3. Nth(l, i) = IF i >= l.count \/ i >= Len(w) THEN <<>>
                    ELSE <<[tick |-> w[i + 1], quantity |-> At(l, w[i + 1])]>>
    BY <2>1, <2>2 DEF Nth
  <2>4. CASE i < Cardinality(S)
    <3>1. i + 1 \in 1 .. Cardinality(S) BY <1>2, <2>4
    <3>2. At(l, w[i + 1]) = m[w[i + 1]] BY <3>1, AtAlongWalk
    <3>3. ~(i >= l.count \/ i >= Len(w)) BY <1>1, <1>2, <2>1, <2>4
    <3> HIDE DEF w, S
    <3>4. Nth(l, i) = <<[tick |-> w[i + 1], quantity |-> m[w[i + 1]]]>>
      BY <2>3, <3>2, <3>3
    <3> QED BY <2>4, <3>4 DEF w, S
  <2>5. CASE ~(i < Cardinality(S))
    <3>1. i >= l.count BY <1>1, <1>2, <2>5
    <3> QED BY <2>3, <2>5, <3>1
  <2> QED BY <2>4, <2>5
<1> QED BY <1>3, <1>4

(* top_levels is the touch, and the depth of the first levels. *)
LEMMA TopIs ==
  ASSUME NEW l, NEW m, LadderIs(l, m), NEW n \in Nat \ {0}
  PROVE  /\ Populated(m) = {} => TopLevels(l, n).tick = NoBest
         /\ Populated(m) # {} =>
              /\ l.best \in Populated(m)
              /\ TopLevels(l, n).tick = l.best
              /\ TopLevels(l, n).depth
                   = SumFunctionOnSet(m, FirstTicks(l.descending, Populated(m), n))
<1> DEFINE S == Populated(m)
           w == Ranked(l.descending, S)
<1>1. /\ Holds(l, m) /\ l.count = Cardinality(S) /\ IsBest(l.descending, S, l.best)
      /\ l.descending \in BOOLEAN
  BY HoldsTypes DEF LadderIs
<1>2. /\ S \in SUBSET Nat /\ IsFiniteSet(S) /\ Cardinality(S) \in Nat
      /\ \A t \in S : m[t] \in Nat
  <2>1. S \in SUBSET Nat /\ IsFiniteSet(S) /\ Cardinality(S) \in Nat
    BY <1>1, PopulatedTicks DEF Holds
  <2>2. \A t \in S : m[t] \in Nat BY <1>1 DEF Holds, IsSide, Populated
  <2> QED BY <2>1, <2>2
<1>3. CASE S = {}
  <2>1. l.best = NoBest BY <1>1, <1>3 DEF IsBest
  <2>2. TopLevels(l, n).tick = NoBest BY <2>1 DEF TopLevels
  <2> QED BY <1>3, <2>2
<1>4. CASE S # {}
  <2>1. /\ Walk(l, l.best) = w /\ Len(w) = Cardinality(S) /\ l.best \in S /\ w # <<>>
        /\ Head(w) = l.best
    BY <1>4, WalkFromBest
  <2>2. l.best # NoBest
    <3>1. l.best \in Nat BY <1>2, <2>1
    <3> QED BY ONLY <3>1 DEF NoBest
  <2> DEFINE c == Min({n, Len(w)})
             near == [k \in 1 .. c |-> At(l, w[k])]
  <2>3. TopLevels(l, n).tick = Head(w) /\ TopLevels(l, n).depth = SumFunction(near)
    <3>1. TopLevels(l, n) = [tick |-> Head(w), quantity |-> At(l, Head(w)),
                             depth |-> SumFunction(near)]
      BY <2>1, <2>2 DEF TopLevels
    <3> HIDE DEF near, w
    <3> QED BY <3>1
  <2>4. c = (IF n <= Cardinality(S) THEN n ELSE Cardinality(S))
    <3>1. n \in Int /\ Cardinality(S) \in Int BY <1>2
    <3> HIDE DEF S
    <3>2. Min({n, Cardinality(S)}) = IF n <= Cardinality(S) THEN n ELSE Cardinality(S)
      BY ONLY <3>1, TwoExtremes
    <3> QED BY <2>1, <3>2 DEF S
  <2>5. c \in Nat /\ c <= Cardinality(S)
    <3> HIDE DEF c
    <3> QED BY <1>2, <2>4
  <2>6. near = [k \in 1 .. c |-> m[w[k]]]
    <3> HIDE DEF c
    <3>1. \A k \in 1 .. c : k \in 1 .. Cardinality(S) BY <1>2, <2>5
    <3>2. \A k \in 1 .. c : At(l, w[k]) = m[w[k]] BY <3>1, AtAlongWalk
    <3> HIDE DEF w
    <3> QED BY <3>2
  <2>7. SumFunction(near) = SumFunctionOnSet(m, FirstTicks(l.descending, S, c))
    <3> HIDE DEF c, near, S
    <3>1. SumFunction([k \in 1 .. c |-> m[Ranked(l.descending, S)[k]]])
            = SumFunctionOnSet(m, {t \in S : Cardinality(Before(l.descending, S, t)) < c})
      BY <1>1, <1>2, <2>5, SumAlongWalk
    <3> QED BY <2>6, <3>1 DEF FirstTicks
  <2>8. FirstTicks(l.descending, S, c) = FirstTicks(l.descending, S, n)
    <3> HIDE DEF c, S, w
    <3>1. ASSUME NEW t \in S
          PROVE  Cardinality(Before(l.descending, S, t)) < c
                   <=> Cardinality(Before(l.descending, S, t)) < n
      <4>1. Cardinality(Before(l.descending, S, t)) \in 0 .. Cardinality(S) - 1
        BY <1>1, <1>2, RankBounded
      <4> QED BY <1>2, <2>4, <4>1
    <3> QED BY <3>1, Zenon DEF FirstTicks
  <2> HIDE DEF c, near, w
  <2> QED BY <1>4, <2>1, <2>3, <2>7, <2>8
<1> QED BY <1>3, <1>4

-----------------------------------------------------------------------------
(* The book. *)

Shaped(b) ==
  b = [symbol |-> b.symbol, bids |-> b.bids, asks |-> b.asks, timestamp |-> b.timestamp,
       local_timestamp |-> b.local_timestamp, sequence |-> b.sequence,
       snapshot_batch_active |-> b.snapshot_batch_active]

(* Both ladders of b hold what the events say of their sides. *)
BookHolds(b, told) ==
  /\ Shaped(b)
  /\ told = [side \in {"Buy", "Sell"} |-> told[side]]
  /\ LadderIs(b.bids, told["Buy"]) /\ b.bids.descending = TRUE
  /\ LadderIs(b.asks, told["Sell"]) /\ b.asks.descending = FALSE

BookHeld == BookHolds(book, shown) /\ burst = book.snapshot_batch_active

SideOf(b, side) == IF side = "Buy" THEN b.bids ELSE b.asks

(* One side of a held book, in the words of the property. *)
LEMMA SideFacts ==
  ASSUME BookHeld, NEW side \in {"Buy", "Sell"}
  PROVE  /\ LadderIs(SideOf(book, side), shown[side])
         /\ SideOf(book, side).descending = (side = "Buy")
         /\ Live(side) = Populated(shown[side])
         /\ Live(side) \in SUBSET Nat /\ IsFiniteSet(Live(side))
         /\ Cardinality(Live(side)) \in Nat
         /\ \A n : Nearest(side, n) = FirstTicks(side = "Buy", Live(side), n)
         /\ Live(side) # {} =>
              SideOf(book, side).best =
                IF side = "Buy" THEN Max(Live(side)) ELSE Min(Live(side))
<1> DEFINE l == SideOf(book, side)
<1>1. LadderIs(l, shown[side]) /\ l.descending = (side = "Buy")
  <2>1. CASE side = "Buy" BY <2>1 DEF BookHeld, BookHolds, SideOf
  <2>2. CASE side = "Sell" BY <2>2 DEF BookHeld, BookHolds, SideOf
  <2> QED BY <2>1, <2>2
<1>2. Live(side) = Populated(shown[side])
  BY DEF Live, Populated
<1>3. /\ Live(side) \in SUBSET Nat /\ IsFiniteSet(Live(side))
      /\ Cardinality(Live(side)) \in Nat
  BY <1>1, <1>2, PopulatedTicks DEF LadderIs, Holds
<1>4. \A n : Nearest(side, n) = FirstTicks(side = "Buy", Live(side), n)
  BY DEF Nearest, FirstTicks, Before, Ahead
<1>5. ASSUME Live(side) # {}
      PROVE  l.best = IF side = "Buy" THEN Max(Live(side)) ELSE Min(Live(side))
  <2>1. l.best \in Live(side) /\ \A t \in Live(side) : ~Ahead(side = "Buy", t, l.best)
    BY <1>1, <1>2, <1>5 DEF LadderIs, IsBest
  <2> HIDE DEF l
  <2>2. CASE side = "Buy"
    <3>1. \A t \in Live(side) : t <= l.best BY <1>3, <2>1, <2>2 DEF Ahead
    <3>2. Max(Live(side)) \in Live(side) /\ \A t \in Live(side) : Max(Live(side)) >= t
      <4>1. \E x \in Live(side) : \A y \in Live(side) : x >= y BY <1>3, <2>1, <3>1
      <4> QED BY <4>1 DEF Max
    <3>3. Max(Live(side)) <= l.best /\ Max(Live(side)) >= l.best BY <2>1, <3>1, <3>2
    <3>4. Max(Live(side)) \in Nat /\ l.best \in Nat BY <1>3, <2>1, <3>2
    <3> QED BY ONLY <2>2, <3>3, <3>4
  <2>3. CASE side # "Buy"
    <3>1. \A t \in Live(side) : t >= l.best BY <1>3, <2>1, <2>3 DEF Ahead
    <3>2. Min(Live(side)) \in Live(side) /\ \A t \in Live(side) : Min(Live(side)) <= t
      <4>1. \E x \in Live(side) : \A y \in Live(side) : x <= y BY <1>3, <2>1, <3>1
      <4> QED BY <4>1 DEF Min
    <3>3. Min(Live(side)) >= l.best /\ Min(Live(side)) <= l.best BY <2>1, <3>1, <3>2
    <3>4. Min(Live(side)) \in Nat /\ l.best \in Nat BY <1>3, <2>1, <3>2
    <3> QED BY ONLY <2>3, <3>3, <3>4
  <2> QED BY <2>2, <2>3
<1> QED BY <1>1, <1>2, <1>3, <1>4, <1>5

(* A view shows the touch and the depth of a side, or nothing. *)
LEMMA ViewFacts ==
  ASSUME BookHeld
  PROVE  /\ Hidden => MarketView(book, ViewLevels).top = NoTop
         /\ ~Hidden =>
              LET v == MarketView(book, ViewLevels) IN
              /\ v.top.bid = Max(Live("Buy")) /\ v.top.ask = Min(Live("Sell"))
              /\ v.bid_depth = SumFunctionOnSet(shown["Buy"], Nearest("Buy", ViewLevels))
              /\ v.ask_depth = SumFunctionOnSet(shown["Sell"], Nearest("Sell", ViewLevels))
<1> DEFINE bid == TopLevels(book.bids, ViewLevels)
           ask == TopLevels(book.asks, ViewLevels)
           hidden == bid.tick = NoBest \/ ask.tick = NoBest \/ bid.tick >= ask.tick
           v == MarketView(book, ViewLevels)
<1>1. ViewLevels \in Nat \ {0}
  BY LadderAssumption
<1>2. /\ LadderIs(book.bids, shown["Buy"]) /\ book.bids.descending = TRUE
      /\ Live("Buy") = Populated(shown["Buy"]) /\ Live("Buy") \in SUBSET Nat
      /\ Nearest("Buy", ViewLevels) = FirstTicks(TRUE, Live("Buy"), ViewLevels)
      /\ Live("Buy") # {} => book.bids.best = Max(Live("Buy"))
  BY SideFacts DEF SideOf
<1>3. /\ LadderIs(book.asks, shown["Sell"]) /\ book.asks.descending = FALSE
      /\ Live("Sell") = Populated(shown["Sell"]) /\ Live("Sell") \in SUBSET Nat
      /\ Nearest("Sell", ViewLevels) = FirstTicks(FALSE, Live("Sell"), ViewLevels)
      /\ Live("Sell") # {} => book.asks.best = Min(Live("Sell"))
  BY SideFacts DEF SideOf
<1>4. /\ Live("Buy") = {} => bid.tick = NoBest
      /\ Live("Buy") # {} =>
           /\ bid.tick = Max(Live("Buy")) /\ bid.tick \in Nat
           /\ bid.depth = SumFunctionOnSet(shown["Buy"], Nearest("Buy", ViewLevels))
  <2> DEFINE l == book.bids
             m == shown["Buy"]
  <2>1. LadderIs(l, m) BY <1>2
  <2>2. /\ Populated(m) = {} => bid.tick = NoBest
        /\ Populated(m) # {} =>
             /\ l.best \in Populated(m) /\ bid.tick = l.best
             /\ bid.depth =
                  SumFunctionOnSet(m, FirstTicks(l.descending, Populated(m), ViewLevels))
    <3> HIDE DEF l, m
    <3> QED BY <1>1, <2>1, TopIs DEF l
  <2>3. FirstTicks(l.descending, Populated(m), ViewLevels) = Nearest("Buy", ViewLevels)
    BY <1>2, Zenon
  <2> HIDE DEF bid
  <2>4. Live("Buy") = Populated(m) /\ Live("Buy") \in SUBSET Nat BY <1>2
  <2>5. Live("Buy") # {} => l.best = Max(Live("Buy")) BY <1>2
  <2> QED BY <2>2, <2>3, <2>4, <2>5
<1>5. /\ Live("Sell") = {} => ask.tick = NoBest
      /\ Live("Sell") # {} =>
           /\ ask.tick = Min(Live("Sell")) /\ ask.tick \in Nat
           /\ ask.depth = SumFunctionOnSet(shown["Sell"], Nearest("Sell", ViewLevels))
  <2> DEFINE l == book.asks
             m == shown["Sell"]
  <2>1. LadderIs(l, m) BY <1>3
  <2>2. /\ Populated(m) = {} => ask.tick = NoBest
        /\ Populated(m) # {} =>
             /\ l.best \in Populated(m) /\ ask.tick = l.best
             /\ ask.depth =
                  SumFunctionOnSet(m, FirstTicks(l.descending, Populated(m), ViewLevels))
    <3> HIDE DEF l, m
    <3> QED BY <1>1, <2>1, TopIs DEF l
  <2>3. FirstTicks(l.descending, Populated(m), ViewLevels) = Nearest("Sell", ViewLevels)
    BY <1>3, Zenon
  <2> HIDE DEF ask
  <2>4. Live("Sell") = Populated(m) /\ Live("Sell") \in SUBSET Nat BY <1>3
  <2>5. Live("Sell") # {} => l.best = Min(Live("Sell")) BY <1>3
  <2> QED BY <2>2, <2>3, <2>4, <2>5
<1>6. v = [top |-> IF hidden THEN NoTop
                   ELSE [bid |-> bid.tick, bid_size |-> bid.quantity,
                         ask |-> ask.tick, ask_size |-> ask.quantity],
           bid_depth |-> IF hidden THEN 0 ELSE bid.depth,
           ask_depth |-> IF hidden THEN 0 ELSE ask.depth]
  BY DEF MarketView
<1> HIDE DEF bid, ask, v
<1>7. \A t \in Nat : t # NoBest
  BY DEF NoBest
<1>8. hidden <=> Hidden
  <2>1. CASE Live("Buy") = {} \/ Live("Sell") = {}
    BY <1>4, <1>5, <2>1 DEF Hidden
  <2>2. CASE Live("Buy") # {} /\ Live("Sell") # {}
    <3>1. bid.tick # NoBest /\ ask.tick # NoBest BY <1>4, <1>5, <1>7, <2>2
    <3> QED BY <1>4, <1>5, <2>2, <3>1 DEF Hidden
  <2> QED BY <2>1, <2>2
<1> HIDE DEF hidden
<1>9. CASE Hidden
  <2>1. v.top = NoTop BY <1>6, <1>8, <1>9
  <2> QED BY <1>9, <2>1 DEF v
<1>10. CASE ~Hidden
  <2>1. /\ v.top.bid = bid.tick /\ v.top.ask = ask.tick
        /\ v.bid_depth = bid.depth /\ v.ask_depth = ask.depth
    BY <1>6, <1>8, <1>10
  <2>2. Live("Buy") # {} /\ Live("Sell") # {} BY <1>10 DEF Hidden
  <2>3. /\ v.top.bid = Max(Live("Buy")) /\ v.top.ask = Min(Live("Sell"))
        /\ v.bid_depth = SumFunctionOnSet(shown["Buy"], Nearest("Buy", ViewLevels))
        /\ v.ask_depth = SumFunctionOnSet(shown["Sell"], Nearest("Sell", ViewLevels))
    BY <1>4, <1>5, <2>1, <2>2
  <2> QED BY <1>10, <2>3 DEF v
<1> QED BY <1>9, <1>10

(* A held book shows the map of its events. *)
LEMMA HeldShows == BookHeld => BookIsTheMap
<1> SUFFICES ASSUME BookHeld, NEW side \in {"Buy", "Sell"}
             PROVE  LET l == IF side = "Buy" THEN book.bids ELSE book.asks
                        extreme == IF side = "Buy" THEN Max(Live(side)) ELSE Min(Live(side))
                    IN
                    /\ Depth(book, side) = Cardinality(Live(side))
                    /\ l.best = IF Live(side) = {} THEN NoBest ELSE extreme
                    /\ \A i \in 0 .. Cardinality(Live(side)) - 1 :
                         LET v == Level(book, side, i)
                         IN  v # <<>> /\ v[1].tick \in Nearest(side, i + 1) \ Nearest(side, i)
                                      /\ v[1].quantity = shown[side][v[1].tick]
                    /\ Level(book, side, Cardinality(Live(side))) = <<>>
                    /\ IF Hidden THEN MarketView(book, ViewLevels).top = NoTop
                       ELSE LET v == MarketView(book, ViewLevels)
                                sum == SumFunctionOnSet(shown[side], Nearest(side, ViewLevels))
                            IN IF side = "Buy" THEN v.bid_depth = sum /\ v.top.bid = extreme
                                               ELSE v.ask_depth = sum /\ v.top.ask = extreme
  BY Zenon DEF BookIsTheMap
<1> DEFINE l == SideOf(book, side)
           S == Live(side)
           w == Ranked(side = "Buy", S)
           extreme == IF side = "Buy" THEN Max(S) ELSE Min(S)
<1>1. /\ LadderIs(l, shown[side]) /\ l.descending = (side = "Buy")
      /\ S = Populated(shown[side]) /\ S \in SUBSET Nat /\ IsFiniteSet(S)
      /\ Cardinality(S) \in Nat
      /\ \A n : Nearest(side, n) = FirstTicks(side = "Buy", S, n)
      /\ S # {} => l.best = extreme
  BY SideFacts
<1> HIDE DEF l, extreme, S, w
<1>2. l.count = Cardinality(S) /\ (S = {} => l.best = NoBest)
  BY <1>1 DEF LadderIs, IsBest
<1>3. Depth(book, side) = Cardinality(S)
  BY <1>2 DEF Depth, l, SideOf
<1>4. \A i \in Nat : Level(book, side, i) = Nth(l, i)
  BY DEF Level, l, SideOf
<1>5. \A i \in Nat : Level(book, side, i) =
        IF i < Cardinality(S)
        THEN <<[tick |-> w[i + 1], quantity |-> shown[side][w[i + 1]]]>> ELSE <<>>
  BY <1>1, <1>4, NthIs DEF w
<1>6. ASSUME NEW i \in 0 .. Cardinality(S) - 1
      PROVE  LET v == Level(book, side, i)
             IN  v # <<>> /\ v[1].tick \in Nearest(side, i + 1) \ Nearest(side, i)
                          /\ v[1].quantity = shown[side][v[1].tick]
  <2>1. i \in Nat /\ i < Cardinality(S) /\ i + 1 \in 1 .. Cardinality(S)
    BY <1>1
  <2>2. Level(book, side, i) = <<[tick |-> w[i + 1], quantity |-> shown[side][w[i + 1]]]>>
    BY <1>5, <2>1
  <2>3. w[i + 1] \in S /\ Cardinality(Before(side = "Buy", S, w[i + 1])) = i
    <3>1. PICK d \in BOOLEAN : d = (side = "Buy") OBVIOUS
    <3>2. w = Ranked(d, S) BY <3>1, Zenon DEF w
    <3>3. Cardinality(Before(d, S, w[i + 1])) = (i + 1) - 1 /\ w[i + 1] \in S
      BY ONLY <1>1, <2>1, <3>2, RankedOrder
    <3>4. Cardinality(Before(side = "Buy", S, w[i + 1])) = (i + 1) - 1 /\ w[i + 1] \in S
      BY <3>1, <3>3, Zenon
    <3> QED BY <2>1, <3>4
  <2>4. w[i + 1] \in FirstTicks(side = "Buy", S, i + 1)
        /\ w[i + 1] \notin FirstTicks(side = "Buy", S, i)
    BY <2>1, <2>3 DEF FirstTicks
  <2>5. w[i + 1] \in Nearest(side, i + 1) \ Nearest(side, i)
    BY <1>1, <2>4
  <2> QED BY <2>2, <2>5
<1>7. Level(book, side, Cardinality(S)) = <<>>
  BY <1>1, <1>5
<1>8. IF Hidden THEN MarketView(book, ViewLevels).top = NoTop
      ELSE LET v == MarketView(book, ViewLevels)
               sum == SumFunctionOnSet(shown[side], Nearest(side, ViewLevels))
           IN IF side = "Buy" THEN v.bid_depth = sum /\ v.top.bid = extreme
                              ELSE v.ask_depth = sum /\ v.top.ask = extreme
  BY ViewFacts DEF extreme, S
<1>9. l.best = IF S = {} THEN NoBest ELSE extreme
  BY <1>1, <1>2
<1> QED BY <1>3, <1>6, <1>7, <1>8, <1>9, Zenon DEF l, S, extreme, SideOf

-----------------------------------------------------------------------------
(* The events of a book, level by level. *)

ByLevel == INSTANCE FoldTheorems WITH Op <- SetAt
ByAmount == INSTANCE FoldTheorems WITH Op <- PutAt
ByUpdate == INSTANCE FoldTheorems WITH Op <- SetLevel
ByWord == INSTANCE FoldTheorems WITH Op <- Told

(* A valid price has a tick. *)
LEMMA TickType ==
  ASSUME NEW price \in Int
  PROVE  ToPriceTick(price) \in Int
<1>1. 2 * price + PriceScale \in Int /\ 2 * PriceScale \in Nat /\ 2 * PriceScale > 0
  BY LadderAssumption
<1> QED BY ONLY <1>1 DEF ToPriceTick

(* The levels of a snapshot build a ladder of what they say. *)
LEMMA LadderOfIs ==
  ASSUME NEW levels \in PriceLevels, NEW descending \in BOOLEAN,
         \A i \in 1 .. Len(levels) : /\ ToPriceTick(levels[i].price) \in Nat
                                     /\ levels[i].quantity \in Nat
  PROVE  /\ LadderIs(LadderOf(levels, descending),
                     FoldLeft(PutAt, [tick \in {} |-> 0], levels))
         /\ LadderOf(levels, descending).descending = descending
<1> DEFINE l0 == NewLadder(descending)
           m0 == [tick \in {} |-> 0]
<1>1. PICK path : ByLevel!FoldPath(path, l0, levels)
                  /\ LadderOf(levels, descending) = path[Len(levels)]
  <2>1. \A rs : FoldLeft(SetAt, l0, rs) = ByLevel!FoldLeft(SetAt, l0, rs)
    BY Zenon DEF FoldLeft, MapThenFoldSet, Max,
       ByLevel!FoldLeft, ByLevel!MapThenFoldSet, ByLevel!Max
  <2> QED BY <2>1, ByLevel!FoldFollowsPath DEF LadderOf, PriceLevels
<1>2. PICK told : ByAmount!FoldPath(told, m0, levels)
                  /\ FoldLeft(PutAt, m0, levels) = told[Len(levels)]
  <2>1. \A rs : FoldLeft(PutAt, m0, rs) = ByAmount!FoldLeft(PutAt, m0, rs)
    BY Zenon DEF FoldLeft, MapThenFoldSet, Max,
       ByAmount!FoldLeft, ByAmount!MapThenFoldSet, ByAmount!Max
  <2> HIDE DEF m0
  <2> QED BY <2>1, ByAmount!FoldFollowsPath DEF PriceLevels
<1> HIDE DEF l0, m0
<1>3. Len(levels) \in Nat
  BY LenProperties DEF PriceLevels
<1> DEFINE Ok(k) == LadderIs(path[k], told[k]) /\ path[k].descending = descending
           T == {k \in Nat : k <= Len(levels) => Ok(k)}
<1>4. 0 \in T
  <2>1. path[0] = l0 /\ told[0] = m0
    BY <1>1, <1>2 DEF ByLevel!FoldPath, ByAmount!FoldPath
  <2>2. Ok(0) BY <2>1, NewLadderIs DEF l0, m0
  <2> HIDE DEF Ok
  <2> QED BY <2>2
<1>5. ASSUME NEW k \in Nat, k \in T PROVE k + 1 \in T
  <2> SUFFICES ASSUME k + 1 <= Len(levels) PROVE Ok(k + 1)
    OBVIOUS
  <2> DEFINE v == levels[k + 1]
  <2>1. k + 1 \in 1 .. Len(levels) /\ (k + 1) - 1 = k /\ k <= Len(levels)
    BY <1>3
  <2>2. Ok(k) BY <1>5, <2>1
  <2>3. path[k + 1] = SetAt(path[k], v)
    BY <1>1, <2>1 DEF ByLevel!FoldPath
  <2>4. told[k + 1] = PutAt(told[k], v)
    BY <1>2, <2>1 DEF ByAmount!FoldPath
  <2>5. ToPriceTick(v.price) \in Nat /\ v.quantity \in Nat
    BY <2>1
  <2> HIDE DEF v
  <2>6. /\ path[k + 1] = Set(path[k], ToPriceTick(v.price), v.quantity)
        /\ told[k + 1] = Put(told[k], ToPriceTick(v.price), v.quantity)
    BY <2>3, <2>4, Zenon DEF SetAt, PutAt
  <2>7. LadderIs(path[k], told[k]) /\ path[k].descending = descending
    BY <2>2
  <2>8. LadderIs(path[k + 1], told[k + 1]) /\ path[k + 1].descending = path[k].descending
    <3> DEFINE l == path[k]
               tick == ToPriceTick(v.price)
    <3>1. /\ LadderIs(Set(l, tick, v.quantity), Put(told[k], tick, v.quantity))
          /\ Set(l, tick, v.quantity).descending = l.descending
      <4> HIDE DEF tick
      <4> QED BY ONLY <2>5, <2>7, SetIs DEF tick
    <3> QED BY ONLY <2>6, <3>1
  <2> QED BY <2>7, <2>8
<1>6. Ok(Len(levels))
  <2> HIDE DEF T, Ok
  <2>1. Nat \subseteq T BY <1>4, <1>5, NatSetInduction
  <2> QED BY <1>3, <2>1 DEF T
<1> QED BY <1>1, <1>2, <1>6 DEF m0

(* A valid update moves one side, and nothing else. *)
LEMMA SetLevelHolds ==
  ASSUME NEW b, NEW told, BookHolds(b, told), NEW u, u.side \in {"Buy", "Sell"},
         ToPriceTick(u.price) \in Nat, u.amount \in Nat
  PROVE  /\ BookHolds(SetLevel(b, u), Told(told, u))
         /\ SetLevel(b, u).snapshot_batch_active = b.snapshot_batch_active
<1> DEFINE tick == ToPriceTick(u.price)
           c == SetLevel(b, u)
           t == Told(told, u)
<1>1. /\ Shaped(b) /\ told = [side \in {"Buy", "Sell"} |-> told[side]]
      /\ LadderIs(b.bids, told["Buy"]) /\ b.bids.descending = TRUE
      /\ LadderIs(b.asks, told["Sell"]) /\ b.asks.descending = FALSE
  BY DEF BookHolds
<1>2. t = [side \in {"Buy", "Sell"} |->
             IF side = u.side THEN Put(told[side], tick, u.amount) ELSE told[side]]
  BY <1>1 DEF Told
<1>3. t["Buy"] = (IF u.side = "Buy" THEN Put(told["Buy"], tick, u.amount) ELSE told["Buy"])
      /\ t["Sell"] = (IF u.side = "Sell" THEN Put(told["Sell"], tick, u.amount)
                      ELSE told["Sell"])
      /\ t = [side \in {"Buy", "Sell"} |-> t[side]]
  BY <1>2
<1> HIDE DEF tick, t
<1>4. CASE u.side = "Buy"
  <2>1. c = [symbol |-> b.symbol, bids |-> Set(b.bids, tick, u.amount), asks |-> b.asks,
             timestamp |-> b.timestamp, local_timestamp |-> b.local_timestamp,
             sequence |-> b.sequence, snapshot_batch_active |-> b.snapshot_batch_active]
    BY <1>1, <1>4 DEF SetLevel, Shaped, tick
  <2>2. /\ Shaped(c) /\ c.bids = Set(b.bids, tick, u.amount) /\ c.asks = b.asks
        /\ c.snapshot_batch_active = b.snapshot_batch_active
    BY <2>1 DEF Shaped
  <2> HIDE DEF c
  <2>3. LadderIs(c.bids, t["Buy"]) /\ c.bids.descending = TRUE
    BY <1>1, <1>3, <1>4, <2>2, SetIs DEF tick
  <2>4. LadderIs(c.asks, t["Sell"]) /\ c.asks.descending = FALSE
    BY <1>1, <1>3, <1>4, <2>2
  <2> QED BY <1>3, <2>2, <2>3, <2>4 DEF BookHolds, c, t
<1>5. CASE u.side = "Sell"
  <2>1. c = [symbol |-> b.symbol, bids |-> b.bids, asks |-> Set(b.asks, tick, u.amount),
             timestamp |-> b.timestamp, local_timestamp |-> b.local_timestamp,
             sequence |-> b.sequence, snapshot_batch_active |-> b.snapshot_batch_active]
    BY <1>1, <1>5 DEF SetLevel, Shaped, tick
  <2>2. /\ Shaped(c) /\ c.asks = Set(b.asks, tick, u.amount) /\ c.bids = b.bids
        /\ c.snapshot_batch_active = b.snapshot_batch_active
    BY <2>1 DEF Shaped
  <2> HIDE DEF c
  <2>3. LadderIs(c.asks, t["Sell"]) /\ c.asks.descending = FALSE
    BY <1>1, <1>3, <1>5, <2>2, SetIs DEF tick
  <2>4. LadderIs(c.bids, t["Buy"]) /\ c.bids.descending = TRUE
    BY <1>1, <1>3, <1>5, <2>2
  <2> QED BY <1>3, <2>2, <2>3, <2>4 DEF BookHolds, c, t
<1> QED BY <1>4, <1>5

(* So do all the updates of a batch. *)
LEMMA UpdatesHold ==
  ASSUME NEW b, NEW told, BookHolds(b, told), NEW us \in LevelUpdates,
         \A i \in 1 .. Len(us) : us[i].side \in {"Buy", "Sell"}
                                 /\ ToPriceTick(us[i].price) \in Nat /\ us[i].amount \in Nat
  PROVE  /\ BookHolds(FoldLeft(SetLevel, b, us), FoldLeft(Told, told, us))
         /\ FoldLeft(SetLevel, b, us).snapshot_batch_active = b.snapshot_batch_active
<1>1. PICK path : ByUpdate!FoldPath(path, b, us) /\ FoldLeft(SetLevel, b, us) = path[Len(us)]
  <2>1. \A rs : FoldLeft(SetLevel, b, rs) = ByUpdate!FoldLeft(SetLevel, b, rs)
    BY Zenon DEF FoldLeft, MapThenFoldSet, Max,
       ByUpdate!FoldLeft, ByUpdate!MapThenFoldSet, ByUpdate!Max
  <2> QED BY <2>1, ByUpdate!FoldFollowsPath DEF LevelUpdates
<1>2. PICK word : ByWord!FoldPath(word, told, us) /\ FoldLeft(Told, told, us) = word[Len(us)]
  <2>1. \A rs : FoldLeft(Told, told, rs) = ByWord!FoldLeft(Told, told, rs)
    BY Zenon DEF FoldLeft, MapThenFoldSet, Max,
       ByWord!FoldLeft, ByWord!MapThenFoldSet, ByWord!Max
  <2> QED BY <2>1, ByWord!FoldFollowsPath DEF LevelUpdates
<1>3. Len(us) \in Nat
  BY LenProperties DEF LevelUpdates
<1> DEFINE Ok(k) == /\ BookHolds(path[k], word[k])
                    /\ path[k].snapshot_batch_active = b.snapshot_batch_active
           T == {k \in Nat : k <= Len(us) => Ok(k)}
<1>4. 0 \in T
  BY <1>1, <1>2 DEF ByUpdate!FoldPath, ByWord!FoldPath
<1>5. ASSUME NEW k \in Nat, k \in T PROVE k + 1 \in T
  <2> SUFFICES ASSUME k + 1 <= Len(us) PROVE Ok(k + 1)
    OBVIOUS
  <2> DEFINE u == us[k + 1]
  <2>1. k + 1 \in 1 .. Len(us) /\ (k + 1) - 1 = k /\ k <= Len(us)
    BY <1>3
  <2>2. Ok(k) BY <1>5, <2>1
  <2>3. path[k + 1] = SetLevel(path[k], u)
    BY <1>1, <2>1 DEF ByUpdate!FoldPath
  <2>4. word[k + 1] = Told(word[k], u)
    BY <1>2, <2>1 DEF ByWord!FoldPath
  <2>5. u.side \in {"Buy", "Sell"} /\ ToPriceTick(u.price) \in Nat /\ u.amount \in Nat
    BY <2>1
  <2> HIDE DEF u
  <2> QED BY <2>2, <2>3, <2>4, <2>5, SetLevelHolds
<1>6. Ok(Len(us))
  <2> HIDE DEF T, Ok
  <2>1. Nat \subseteq T BY <1>4, <1>5, NatSetInduction
  <2> QED BY <1>3, <2>1 DEF T
<1> QED BY <1>1, <1>2, <1>6

-----------------------------------------------------------------------------
(* The steps of a book. *)

(* An accepted snapshot replaces both sides by what it says. *)
LEMMA SnapshotHeld ==
  ASSUME BookHeld, NEW s \in Snapshots, ShowSnapshot(s)
  PROVE  BookHeld'
<1> DEFINE c == [symbol |-> s.symbol, bids |-> LadderOf(s.bids, TRUE),
                 asks |-> LadderOf(s.asks, FALSE), timestamp |-> s.ts, local_timestamp |-> 0,
                 sequence |-> s.sequence,
                 snapshot_batch_active |-> book.snapshot_batch_active]
<1>1. SnapshotAccepted(book, s) /\ book' = ApplySnapshot(book, s).book
  BY DEF ShowSnapshot, ApplySnapshot
<1>2. book' = c
  <2>1. Shaped(book) BY DEF BookHeld, BookHolds
  <2>2. ApplySnapshot(book, s).book =
          [book EXCEPT !.symbol = s.symbol, !.bids = LadderOf(s.bids, TRUE),
                       !.asks = LadderOf(s.asks, FALSE), !.timestamp = s.ts,
                       !.local_timestamp = 0, !.sequence = s.sequence]
    BY <1>1 DEF ApplySnapshot
  <2> QED BY <1>1, <2>1, <2>2 DEF Shaped
<1>3. s.bids \in PriceLevels /\ s.asks \in PriceLevels
  BY DEF Snapshots
<1>4. ValidSide(s.bids, TRUE) /\ ValidSide(s.asks, FALSE)
  BY <1>1 DEF SnapshotAccepted
<1>5. ASSUME NEW levels \in PriceLevels, NEW d \in BOOLEAN, ValidSide(levels, d)
      PROVE  /\ LadderIs(LadderOf(levels, d), FoldLeft(PutAt, [tick \in {} |-> 0], levels))
             /\ LadderOf(levels, d).descending = d
  <2>1. \A i \in 1 .. Len(levels) :
          /\ levels[i] \in [price : Int, quantity : Nat] /\ ToPriceTick(levels[i].price) > 0
    BY <1>5, LenProperties, ElementOfSeq DEF PriceLevels, ValidSide
  <2>2. \A i \in 1 .. Len(levels) :
          ToPriceTick(levels[i].price) \in Nat /\ levels[i].quantity \in Nat
    <3> TAKE i \in 1 .. Len(levels)
    <3>1. levels[i].price \in Int /\ levels[i].quantity \in Nat BY <2>1
    <3>2. ToPriceTick(levels[i].price) \in Int BY <3>1, TickType
    <3>3. ToPriceTick(levels[i].price) > 0 BY <2>1
    <3> QED BY <3>1, <3>2, <3>3
  <2> QED BY <2>2, LadderOfIs
<1> DEFINE bids == LadderOf(s.bids, TRUE)
           asks == LadderOf(s.asks, FALSE)
           bids_told == FoldLeft(PutAt, [tick \in {} |-> 0], s.bids)
           asks_told == FoldLeft(PutAt, [tick \in {} |-> 0], s.asks)
           told == ToldBySnapshot(s)
<1>6. LadderIs(bids, bids_told) /\ bids.descending = TRUE
  <2>1. TRUE \in BOOLEAN OBVIOUS
  <2> QED BY <1>3, <1>4, <1>5, <2>1, Zenon
<1>7. LadderIs(asks, asks_told) /\ asks.descending = FALSE
  <2>1. FALSE \in BOOLEAN OBVIOUS
  <2> QED BY <1>3, <1>4, <1>5, <2>1, Zenon
<1>8. told["Buy"] = bids_told /\ told["Sell"] = asks_told
      /\ told = [side \in {"Buy", "Sell"} |-> told[side]]
  BY DEF ToldBySnapshot
<1>9. /\ Shaped(c) /\ c.bids = bids /\ c.asks = asks
      /\ c.snapshot_batch_active = book.snapshot_batch_active
  BY DEF Shaped
<1> HIDE DEF c, bids, asks, bids_told, asks_told, told
<1>10. BookHolds(c, told)
  BY <1>6, <1>7, <1>8, <1>9 DEF BookHolds
<1>11. shown' = told /\ burst' = burst
  BY DEF ShowSnapshot, told
<1>12. burst = book.snapshot_batch_active
  BY DEF BookHeld
<1>13. BookHolds(book', shown')
  BY <1>2, <1>10, <1>11
<1>14. burst' = book'.snapshot_batch_active
  BY <1>2, <1>9, <1>11, <1>12
<1> QED BY <1>13, <1>14, Zenon DEF BookHeld, BookHolds, Shaped

(* The book where a batch begins: cleared when a burst of snapshots begins. *)
LEMMA ResetHolds ==
  ASSUME NEW b, NEW told, BookHolds(b, told), NEW batch,
         batch.snapshot \in BOOLEAN, b.snapshot_batch_active \in BOOLEAN
  PROVE  LET c == Reset([b EXCEPT !.symbol = batch.symbol], batch) IN
         /\ BookHolds(c, IF batch.snapshot /\ ~b.snapshot_batch_active THEN NoLevels ELSE told)
         /\ c.snapshot_batch_active = batch.snapshot
<1> DEFINE began == batch.snapshot /\ ~b.snapshot_batch_active
           a == [b EXCEPT !.symbol = batch.symbol]
           c == Reset(a, batch)
           bids == IF began THEN Clear(b.bids) ELSE b.bids
           asks == IF began THEN Clear(b.asks) ELSE b.asks
           t == IF began THEN NoLevels ELSE told
<1>1. /\ Shaped(b) /\ told = [side \in {"Buy", "Sell"} |-> told[side]]
      /\ LadderIs(b.bids, told["Buy"]) /\ b.bids.descending = TRUE
      /\ LadderIs(b.asks, told["Sell"]) /\ b.asks.descending = FALSE
  BY DEF BookHolds
<1>2. c = [symbol |-> batch.symbol, bids |-> bids, asks |-> asks, timestamp |-> b.timestamp,
           local_timestamp |-> b.local_timestamp, sequence |-> b.sequence,
           snapshot_batch_active |-> batch.snapshot]
  <2>1. a = [symbol |-> batch.symbol, bids |-> b.bids, asks |-> b.asks,
             timestamp |-> b.timestamp, local_timestamp |-> b.local_timestamp,
             sequence |-> b.sequence, snapshot_batch_active |-> b.snapshot_batch_active]
    BY <1>1 DEF Shaped
  <2>2. CASE began
    <3>1. c = [[a EXCEPT !.bids = Clear(@), !.asks = Clear(@)]
                 EXCEPT !.snapshot_batch_active = batch.snapshot]
      BY <2>1, <2>2 DEF Reset
    <3> HIDE DEF a
    <3>2. [a EXCEPT !.bids = Clear(@)] =
            [symbol |-> batch.symbol, bids |-> bids, asks |-> b.asks,
             timestamp |-> b.timestamp, local_timestamp |-> b.local_timestamp,
             sequence |-> b.sequence, snapshot_batch_active |-> b.snapshot_batch_active]
      BY <2>1, <2>2
    <3>3. [a EXCEPT !.bids = Clear(@), !.asks = Clear(@)] =
            [symbol |-> batch.symbol, bids |-> bids, asks |-> asks,
             timestamp |-> b.timestamp, local_timestamp |-> b.local_timestamp,
             sequence |-> b.sequence, snapshot_batch_active |-> b.snapshot_batch_active]
      <4>1. [a EXCEPT !.bids = Clear(@), !.asks = Clear(@)]
              = [[a EXCEPT !.bids = Clear(@)] EXCEPT !.asks = Clear(@)]
        OBVIOUS
      <4>2. asks = Clear(b.asks) BY <2>2
      <4> DEFINE e == [a EXCEPT !.bids = Clear(@)]
      <4> HIDE DEF bids, asks
      <4>3. e = [symbol |-> batch.symbol, bids |-> bids, asks |-> b.asks,
                 timestamp |-> b.timestamp, local_timestamp |-> b.local_timestamp,
                 sequence |-> b.sequence, snapshot_batch_active |-> b.snapshot_batch_active]
        BY <3>2
      <4>4. [a EXCEPT !.bids = Clear(@), !.asks = Clear(@)] = [e EXCEPT !.asks = Clear(@)]
        BY ONLY <4>1
      <4> HIDE DEF e
      <4> QED BY ONLY <4>2, <4>3, <4>4
    <3> DEFINE e == [a EXCEPT !.bids = Clear(@), !.asks = Clear(@)]
    <3>4. c = [e EXCEPT !.snapshot_batch_active = batch.snapshot] BY ONLY <3>1
    <3> HIDE DEF c, bids, asks
    <3>5. e = [symbol |-> batch.symbol, bids |-> bids, asks |-> asks,
               timestamp |-> b.timestamp, local_timestamp |-> b.local_timestamp,
               sequence |-> b.sequence, snapshot_batch_active |-> b.snapshot_batch_active]
      BY ONLY <3>3
    <3> HIDE DEF e
    <3>6. [e EXCEPT !.snapshot_batch_active = batch.snapshot] =
            [symbol |-> batch.symbol, bids |-> bids, asks |-> asks,
             timestamp |-> b.timestamp, local_timestamp |-> b.local_timestamp,
             sequence |-> b.sequence, snapshot_batch_active |-> batch.snapshot]
      BY ONLY <3>5
    <3> QED BY ONLY <3>4, <3>6
  <2>3. CASE ~began
    <3>1. c = [a EXCEPT !.snapshot_batch_active = batch.snapshot]
      BY <2>1, <2>3 DEF Reset
    <3> QED BY <2>1, <2>3, <3>1
  <2> QED BY <2>2, <2>3
<1>3. /\ Shaped(c) /\ c.bids = bids /\ c.asks = asks
      /\ c.snapshot_batch_active = batch.snapshot
  BY <1>2 DEF Shaped
<1> HIDE DEF c
<1>4. /\ LadderIs(bids, t["Buy"]) /\ bids.descending = TRUE
      /\ LadderIs(asks, t["Sell"]) /\ asks.descending = FALSE
      /\ t = [side \in {"Buy", "Sell"} |-> t[side]]
  <2>1. CASE began
    <3>1. NoLevels["Buy"] = [tick \in {} |-> 0] /\ NoLevels["Sell"] = [tick \in {} |-> 0]
          /\ NoLevels = [side \in {"Buy", "Sell"} |-> NoLevels[side]]
      BY DEF NoLevels
    <3>2. LadderIs(Clear(b.bids), NoLevels["Buy"]) /\ Clear(b.bids).descending = TRUE
      BY <1>1, <3>1, ClearIs, Zenon
    <3>3. LadderIs(Clear(b.asks), NoLevels["Sell"]) /\ Clear(b.asks).descending = FALSE
      BY <1>1, <3>1, ClearIs, Zenon
    <3>4. bids = Clear(b.bids) /\ asks = Clear(b.asks) /\ t = NoLevels BY <2>1
    <3> QED BY <3>1, <3>2, <3>3, <3>4, Zenon
  <2>2. CASE ~began
    <3>1. bids = b.bids /\ asks = b.asks /\ t = told BY <2>2
    <3> QED BY <1>1, <3>1, Zenon
  <2> QED BY <2>1, <2>2
<1> HIDE DEF bids, asks, t
<1>5. BookHolds(c, t) BY <1>3, <1>4 DEF BookHolds
<1> QED BY <1>3, <1>5 DEF c, t

(* An applied batch leaves what it says. *)
LEMMA BatchHeld ==
  ASSUME BookHeld, burst \in BOOLEAN, NEW batch \in Batches, ShowBatch(batch)
  PROVE  BookHeld' /\ burst' \in BOOLEAN
<1> DEFINE us == batch.updates
           bad == {i \in DOMAIN us : ~ValidUpdate(batch, us[i])}
<1>1. us \in LevelUpdates /\ batch.snapshot \in BOOLEAN
  BY DEF Batches
<1>2. Len(us) \in Nat /\ DOMAIN us = 1 .. Len(us)
      /\ \A i \in 1 .. Len(us) :
           us[i] \in [ts : Int, local : Int, snapshot : BOOLEAN, side : STRING, price : Int,
                      amount : Nat]
  BY <1>1, LenProperties, ElementOfSeq DEF LevelUpdates
<1>3. BookHolds(book, shown) /\ burst = book.snapshot_batch_active
  BY DEF BookHeld
<1>4. CASE us = <<>>
  <2>1. ApplyIncrementalBatch(book, batch) = [ok |-> TRUE, book |-> book]
    BY <1>4 DEF ApplyIncrementalBatch
  <2>2. book' = book /\ shown' = shown /\ burst' = burst
    BY <1>4, <2>1 DEF ShowBatch
  <2>3. BookHeld' BY <1>3, <2>2, Zenon DEF BookHeld, BookHolds, Shaped
  <2> QED BY <2>2, <2>3
<1>5. CASE us # <<>>
  <2> DEFINE b0 == Reset([book EXCEPT !.symbol = batch.symbol], batch)
             t0 == IF batch.snapshot /\ ~burst THEN NoLevels ELSE shown
             upto == IF bad = {} THEN Len(us) ELSE Min(bad) - 1
             applied == FoldLeft(SetLevel, b0, SubSeq(us, 1, upto))
             changed == [applied EXCEPT !.timestamp = batch.ts,
                                        !.local_timestamp = batch.local,
                                        !.sequence = @ + 1]
  <2>1. /\ BatchAccepted(book, batch) /\ bad = {}
        /\ ApplyIncrementalBatch(book, batch).book = changed
    <3>1. ApplyIncrementalBatch(book, batch).ok BY DEF ShowBatch
    <3>2. ApplyIncrementalBatch(book, batch) =
            CASE us = <<>> -> [ok |-> TRUE, book |-> book]
              [] us # <<>> /\ ~BatchAccepted(book, batch) -> [ok |-> FALSE, book |-> book]
              [] OTHER -> [ok |-> bad = {}, book |-> IF bad # {} THEN applied ELSE changed]
      BY DEF ApplyIncrementalBatch
    <3> HIDE DEF applied, changed, bad
    <3>3. BatchAccepted(book, batch) BY <1>5, <3>1, <3>2
    <3>4. ApplyIncrementalBatch(book, batch) =
            [ok |-> bad = {}, book |-> IF bad # {} THEN applied ELSE changed]
      BY <1>5, <3>2, <3>3
    <3>5. bad = {}
      <4> SUFFICES ASSUME bad # {} PROVE FALSE
        OBVIOUS
      <4>1. ApplyIncrementalBatch(book, batch) = [ok |-> FALSE, book |-> applied]
        BY <3>4
      <4>2. ApplyIncrementalBatch(book, batch).ok = FALSE BY ONLY <4>1
      <4> QED BY <3>1, <4>2
    <3> QED BY <3>3, <3>4, <3>5
  <2>2. SubSeq(us, 1, upto) = us
    <3>1. upto = Len(us) BY <2>1
    <3> HIDE DEF upto, us
    <3> QED BY <1>1, <3>1, SubSeqFull DEF LevelUpdates
  <2>3. \A i \in 1 .. Len(us) : us[i].side \in {"Buy", "Sell"}
                                /\ ToPriceTick(us[i].price) \in Nat /\ us[i].amount \in Nat
    <3> TAKE i \in 1 .. Len(us)
    <3>1. ValidUpdate(batch, us[i]) BY <1>2, <2>1
    <3>2. us[i].price \in Int /\ us[i].amount \in Nat BY <1>2
    <3>3. us[i].side \in {"Buy", "Sell"} /\ ToPriceTick(us[i].price) > 0
      BY <3>1 DEF ValidUpdate
    <3>4. ToPriceTick(us[i].price) \in Int BY <3>2, TickType
    <3> HIDE DEF us
    <3> QED BY <3>2, <3>3, <3>4
  <2>4. BookHolds(b0, t0) /\ b0.snapshot_batch_active = batch.snapshot
    <3>1. book.snapshot_batch_active \in BOOLEAN BY <1>3
    <3> QED BY <1>1, <1>3, <3>1, ResetHolds
  <2> DEFINE told == FoldLeft(Told, t0, us)
  <2>5. applied = FoldLeft(SetLevel, b0, us) BY <2>2, Zenon
  <2> HIDE DEF us, b0, t0, applied, bad, upto
  <2>6. BookHolds(applied, told) /\ applied.snapshot_batch_active = batch.snapshot
    BY <1>1, <2>3, <2>4, <2>5, UpdatesHold
  <2>7. /\ Shaped(changed) /\ changed.bids = applied.bids /\ changed.asks = applied.asks
        /\ changed.snapshot_batch_active = applied.snapshot_batch_active
    <3>1. Shaped(applied) BY <2>6 DEF BookHolds
    <3> HIDE DEF told
    <3>2. [applied EXCEPT !.timestamp = batch.ts] =
            [symbol |-> applied.symbol, bids |-> applied.bids, asks |-> applied.asks,
             timestamp |-> batch.ts, local_timestamp |-> applied.local_timestamp,
             sequence |-> applied.sequence,
             snapshot_batch_active |-> applied.snapshot_batch_active]
      BY ONLY <3>1 DEF Shaped
    <3>3. [[applied EXCEPT !.timestamp = batch.ts] EXCEPT !.local_timestamp = batch.local] =
            [symbol |-> applied.symbol, bids |-> applied.bids, asks |-> applied.asks,
             timestamp |-> batch.ts, local_timestamp |-> batch.local,
             sequence |-> applied.sequence,
             snapshot_batch_active |-> applied.snapshot_batch_active]
      <4>1. [[symbol |-> applied.symbol, bids |-> applied.bids, asks |-> applied.asks,
              timestamp |-> batch.ts, local_timestamp |-> applied.local_timestamp,
              sequence |-> applied.sequence,
              snapshot_batch_active |-> applied.snapshot_batch_active]
               EXCEPT !.local_timestamp = batch.local] =
              [symbol |-> applied.symbol, bids |-> applied.bids, asks |-> applied.asks,
               timestamp |-> batch.ts, local_timestamp |-> batch.local,
               sequence |-> applied.sequence,
               snapshot_batch_active |-> applied.snapshot_batch_active]
        BY ONLY TRUE
      <4> QED BY ONLY <3>2, <4>1, Zenon
    <3>4. changed = [[[applied EXCEPT !.timestamp = batch.ts]
                    EXCEPT !.local_timestamp = batch.local]
                    EXCEPT !.sequence = @ + 1]
      OBVIOUS
    <3> HIDE DEF changed
    <3>5. changed = [symbol |-> applied.symbol, bids |-> applied.bids, asks |-> applied.asks,
                  timestamp |-> batch.ts, local_timestamp |-> batch.local,
                  sequence |-> applied.sequence + 1,
                  snapshot_batch_active |-> applied.snapshot_batch_active]
      BY ONLY <3>3, <3>4
    <3> QED BY <3>5 DEF Shaped
  <2>8. book' = changed /\ shown' = told /\ burst' = batch.snapshot
    <3>1. book' = ApplyIncrementalBatch(book, batch).book
          /\ (us # <<>> => /\ shown' = ToldByBatch(shown, batch.snapshot /\ ~burst, batch)
                           /\ burst' = batch.snapshot)
      BY DEF ShowBatch, us
    <3> HIDE DEF changed
    <3>2. ToldByBatch(shown, batch.snapshot /\ ~burst, batch) = told
      BY DEF ToldByBatch, us, t0
    <3> QED BY <1>5, <2>1, <3>1, <3>2
  <2> HIDE DEF changed, told
  <2>9. BookHolds(changed, told) BY <2>6, <2>7 DEF BookHolds
  <2>10. BookHolds(book', shown') /\ burst' = book'.snapshot_batch_active
    BY <2>6, <2>7, <2>8, <2>9
  <2>11. BookHeld' BY <2>10, Zenon DEF BookHeld, BookHolds, Shaped
  <2> QED BY <1>1, <2>8, <2>11
<1> QED BY <1>4, <1>5

(* A new book holds nothing, and nothing has been said. *)
LEMMA BookStarts == BookInit => BookHeld /\ burst \in BOOLEAN
<1> SUFFICES ASSUME BookInit PROVE BookHeld /\ burst \in BOOLEAN
  OBVIOUS
<1>1. book = EmptyBook /\ shown = NoLevels /\ burst = FALSE
  BY DEF BookInit
<1>2. /\ Shaped(book) /\ book.bids = NewLadder(TRUE) /\ book.asks = NewLadder(FALSE)
      /\ book.snapshot_batch_active = FALSE
  BY <1>1 DEF EmptyBook, Shaped
<1>3. /\ shown["Buy"] = [tick \in {} |-> 0] /\ shown["Sell"] = [tick \in {} |-> 0]
      /\ shown = [side \in {"Buy", "Sell"} |-> shown[side]]
  BY <1>1 DEF NoLevels
<1>4. /\ LadderIs(book.bids, shown["Buy"]) /\ book.bids.descending = TRUE
      /\ LadderIs(book.asks, shown["Sell"]) /\ book.asks.descending = FALSE
  <2>1. TRUE \in BOOLEAN /\ FALSE \in BOOLEAN OBVIOUS
  <2> QED BY <1>2, <1>3, <2>1, NewLadderIs, Zenon
<1>5. BookHolds(book, shown) BY <1>2, <1>3, <1>4 DEF BookHolds
<1> QED BY <1>1, <1>2, <1>5 DEF BookHeld

(* The remembered best, the count, the levels and the views of a book are those
   of the map its accepted events describe, for every tick size, initial range and
   growth margin, every depth of a view and every sequence of snapshots and
   batches. *)
THEOREM BookAlwaysTheMap == BookSpec => []BookIsTheMap
<1> DEFINE Inv == BookHeld /\ burst \in BOOLEAN
<1>1. BookInit => Inv
  BY BookStarts
<1>2. Inv /\ [BookNext]_bookVars => Inv'
  <2> SUFFICES ASSUME Inv, [BookNext]_bookVars PROVE Inv'
    OBVIOUS
  <2>1. CASE \E s \in Snapshots : ShowSnapshot(s)
    <3>1. PICK s \in Snapshots : ShowSnapshot(s) BY <2>1
    <3>2. BookHeld' BY <3>1, SnapshotHeld
    <3>3. burst' = burst BY <3>1 DEF ShowSnapshot
    <3> QED BY <3>2, <3>3
  <2>2. CASE \E b \in Batches : ShowBatch(b)
    BY <2>2, BatchHeld
  <2>3. CASE UNCHANGED bookVars
    <3>1. book' = book /\ shown' = shown /\ burst' = burst BY <2>3 DEF bookVars
    <3>2. BookHeld' BY <3>1, Zenon DEF BookHeld, BookHolds, Shaped
    <3> QED BY <3>1, <3>2
  <2> QED BY <2>1, <2>2, <2>3 DEF BookNext
<1>3. Inv => BookIsTheMap
  BY HeldShows
<1> QED BY <1>1, <1>2, <1>3, PTL DEF BookSpec
-----------------------------------------------------------------------------
(* The live relay: gaps are counted exactly, and what the engine receives is the
   recording. *)

-----------------------------------------------------------------------------
(* Types. *)

(* What the venue and the decoder make has its type. *)
LEMMA MessageTypes ==
  /\ \A n \in Nat : Snapshot(n) \in Message
  /\ \A n \in Nat, b \in BOOLEAN : Update(n + 1, b) \in Message
  /\ \A m \in Message : RowsOf(m) \in Seq(Row) /\ RowsOf(m) # <<>>
<1>1. \A n \in Nat : Snapshot(n) \in Message
  BY DEF Snapshot, Message
<1>2. \A n \in Nat, b \in BOOLEAN : Update(n + 1, b) \in Message
  BY DEF Update, Message
<1>3. ASSUME NEW m \in Message PROVE RowsOf(m) \in Seq(Row) /\ RowsOf(m) # <<>>
  <2>1. \A i \in 1 .. RowsPerMessage : RowsOf(m)[i] \in Row
    BY DEF RowsOf, Row, Message
  <2>2. RowsOf(m) \in Seq(Row) /\ Len(RowsOf(m)) = RowsPerMessage
    BY <2>1, IsASeq, RelayAssumption DEF RowsOf
  <2> QED BY <2>2, RelayAssumption
<1> QED BY <1>1, <1>2, <1>3

(* A relay starts with its types. *)
LEMMA InitTypes == RelayInit => RelayTypeOK
<1>1. RelayInit => FlagTypes
  BY Zenon DEF RelayInit, FlagTypes
<1>2. RelayInit => DataTypes
  BY RelayAssumption DEF RelayInit, DataTypes
<1> QED BY <1>1, <1>2 DEF RelayTypeOK

(* Every step keeps the flags Boolean. *)
LEMMA FlagsKept == FlagTypes /\ [RelayNext]_relayVars => FlagTypes'
<1> SUFFICES ASSUME FlagTypes, [RelayNext]_relayVars PROVE FlagTypes'
  OBVIOUS
<1> USE DEF FlagTypes, relayVars, venueVars, queueVars, decoderVars, serverVars, clientVars
<1>1. CASE VenueThread
  <2>1. CASE StartSession \/ LeaveLoop \/ SessionReturned \/ SessionThrew
    BY <2>1, Zenon DEF StartSession, LeaveLoop, SessionReturned, SessionThrew, EndSession
  <2>2. CASE CheckBeforeBackoff \/ Backoff \/ CloseRows \/ Connect \/ ConnectFails
    BY <2>2, Zenon DEF CheckBeforeBackoff, Backoff, CloseRows, Connect, ConnectFails, EndSession
  <2>3. CASE ReadStops \/ DropForTest \/ ReadBroken \/ ReadMessage
    BY <2>3, Zenon DEF ReadStops, DropForTest, ReadBroken, ReadMessage, EndSession
  <2>4. CASE RecordOnly \/ PushRow \/ WaitForRoom \/ Woken
    BY <2>4, Zenon DEF RecordOnly, PushRow, WaitForRoom, Woken, EndSession
  <2> HIDE DEF FlagTypes
  <2> QED BY <1>1, <2>1, <2>2, <2>3, <2>4, Zenon DEF VenueThread
<1>2. CASE MainThread
  BY <1>2, Zenon DEF MainThread, Pop, PopClosed, SendRow, SendFails, StopClient, JoinClient
<1>3. CASE World
  BY <1>3, Zenon DEF World, VenueUpdates, VenueDrops, EngineLeaves, DeadlinePasses
<1>4. CASE UNCHANGED relayVars
  BY <1>4, Zenon
<1> QED
  BY <1>1, <1>2, <1>3, <1>4 DEF RelayNext

(* The row in hand and what is left of the message. *)
LEMMA PendingParts ==
  ASSUME NEW s \in Seq(Row), s # <<>>
  PROVE  /\ Head(s) \in Row /\ Tail(s) \in Seq(Row)
         /\ Len(s) # 1 => Tail(s) # <<>>
<1>1. Head(s) \in Row /\ Tail(s) \in Seq(Row) /\ Len(Tail(s)) = Len(s) - 1
  BY HeadTailProperties
<1>2. Len(s) \in Nat
  BY LenProperties
<1>3. Tail(s) = <<>> => Len(Tail(s)) = 0
  BY EmptySeq, Zenon
<1> QED BY <1>1, <1>2, <1>3

(* Every step keeps the types. *)
LEMMA TypesKept == RelayTypeOK /\ [RelayNext]_relayVars => RelayTypeOK'
<1> SUFFICES ASSUME RelayTypeOK, [RelayNext]_relayVars PROVE DataTypes'
  BY FlagsKept DEF RelayTypeOK
<1> USE DEF DataTypes, venueVars, queueVars, decoderVars, serverVars, clientVars
<1>0. DataTypes
  BY DEF RelayTypeOK
<1>1. CASE StartSession
  BY <1>0, <1>1 DEF StartSession
<1>2. CASE LeaveLoop
  BY <1>0, <1>2 DEF LeaveLoop
<1>3. CASE SessionReturned
  BY <1>0, <1>3 DEF SessionReturned
<1>4. CASE SessionThrew
  BY <1>0, <1>4 DEF SessionThrew
<1>5. CASE CheckBeforeBackoff
  BY <1>0, <1>5 DEF CheckBeforeBackoff
<1>6. CASE Backoff
  BY <1>0, <1>6 DEF Backoff
<1>7. CASE CloseRows
  BY <1>0, <1>7 DEF CloseRows
<1>8. CASE ConnectFails
  BY <1>0, <1>8 DEF ConnectFails
<1>9. CASE ReadStops
  BY <1>0, <1>9 DEF ReadStops, EndSession
<1>10. CASE DropForTest
  BY <1>0, <1>10 DEF DropForTest, EndSession
<1>11. CASE ReadBroken
  BY <1>0, <1>11 DEF ReadBroken, EndSession
<1>12. CASE PopClosed
  BY <1>0, <1>12 DEF PopClosed
<1>13. CASE SendFails
  BY <1>0, <1>13 DEF SendFails
<1>14. CASE StopClient
  BY <1>0, <1>14 DEF StopClient
<1>15. CASE JoinClient
  BY <1>0, <1>15 DEF JoinClient
<1>16. CASE EngineLeaves
  BY <1>0, <1>16 DEF EngineLeaves
<1>17. CASE DeadlinePasses
  BY <1>0, <1>17 DEF DeadlinePasses
<1>18. CASE Connect
  <2>1. wire' = <<Snapshot(venue_seq)>> /\ Snapshot(venue_seq) \in Message
    BY <1>0, <1>18, MessageTypes DEF Connect
  <2> QED BY <1>0, <1>18, <2>1 DEF Connect
<1>19. CASE ReadMessage
  <2>1. Head(wire) \in Message /\ Tail(wire) \in Seq(Message)
    BY <1>0, <1>19, HeadTailProperties DEF ReadMessage
  <2>2. pending' \in Seq(Row) /\ pending' # <<>>
    BY <1>19, <2>1, MessageTypes DEF ReadMessage
  <2>3. last_seq' \in Nat /\ gaps' \in Nat /\ losses' \in Nat
    BY <1>0, <1>19, <2>1 DEF ReadMessage, Message
  <2> QED BY <1>0, <1>19, <2>1, <2>2, <2>3 DEF ReadMessage
<1>20. CASE RecordOnly
  <2>1. /\ Head(pending) \in Row /\ Tail(pending) \in Seq(Row)
        /\ Len(pending) # 1 => Tail(pending) # <<>>
    BY <1>0, <1>20, PendingParts DEF RecordOnly
  <2> QED BY <1>0, <1>20, <2>1, RelayAssumption DEF RecordOnly, AfterRow
<1>21. CASE PushRow
  <2>1. /\ Head(pending) \in Row /\ Tail(pending) \in Seq(Row)
        /\ Len(pending) # 1 => Tail(pending) # <<>>
    BY <1>0, <1>21, PendingParts DEF PushRow
  <2> QED BY <1>0, <1>21, <2>1, RelayAssumption DEF PushRow, AfterRow, QueueFull
<1>22. CASE WaitForRoom
  <2>1. /\ Head(pending) \in Row /\ Tail(pending) \in Seq(Row)
        /\ Len(pending) # 1 => Tail(pending) # <<>>
    BY <1>0, <1>22, PendingParts DEF WaitForRoom
  <2> QED BY <1>0, <1>22, <2>1, RelayAssumption DEF WaitForRoom, AfterRow
<1>23. CASE Woken
  <2>1. /\ Head(pending) \in Row /\ Tail(pending) \in Seq(Row)
        /\ Len(pending) # 1 => Tail(pending) # <<>>
    BY <1>0, <1>23, PendingParts DEF Woken
  <2>2. CASE closed
    BY <1>0, <1>23, <2>2 DEF Woken, EndSession
  <2>3. CASE ~closed
    <3>1. rows' = Append(rows, Head(pending)) /\ Len(rows) < QueueCapacity
      BY <1>0, <1>23, <2>3, RelayAssumption DEF Woken, QueueFull
    <3>2. rows' \in Seq(Row) /\ Len(rows') <= QueueCapacity
      BY <1>0, <2>1, <3>1, AppendProperties, RelayAssumption
    <3>3. /\ pending' = Tail(pending) /\ vpc' = AfterRow /\ wire' = wire
          /\ UNCHANGED <<venue_seq, skips, ends, decoderVars, serverVars, backoff, recorded,
                         reconnects>>
      BY <1>23, <2>3, Zenon DEF Woken
    <3> QED BY <1>0, <2>1, <3>2, <3>3 DEF AfterRow
  <2> QED BY <2>2, <2>3
<1>24. CASE Pop
  <2>1. Head(rows) \in Row /\ Tail(rows) \in Seq(Row) /\ Len(Tail(rows)) <= QueueCapacity
    BY <1>0, <1>24, HeadTailProperties, RelayAssumption DEF Pop
  <2> QED BY <1>0, <1>24, <2>1 DEF Pop
<1>25. CASE SendRow
  BY <1>0, <1>25 DEF SendRow
<1>26. CASE VenueUpdates
  <2>1. wire' \in Seq(Message)
    <3>1. Update(venue_seq + 1, lossy) \in Message
      BY <1>0, MessageTypes DEF RelayTypeOK, FlagTypes
    <3>2. Append(wire, Update(venue_seq + 1, lossy)) \in Seq(Message)
      BY <1>0, <3>1, AppendProperties
    <3>3. wire' = wire \/ wire' = Append(wire, Update(venue_seq + 1, lossy))
      BY <1>26, Zenon DEF VenueUpdates
    <3> QED BY <1>0, <3>2, <3>3
  <2>2. venue_seq' \in Nat /\ skips' \in Nat
    BY <1>0, <1>26 DEF VenueUpdates
  <2> QED BY <1>0, <1>26, <2>1, <2>2 DEF VenueUpdates
<1>27. CASE VenueDrops
  <2>1. wire' \in Seq(Message)
    BY <1>0, <1>27, SubSeqProperties DEF VenueDrops
  <2> QED BY <1>0, <1>27, <2>1 DEF VenueDrops
<1>28. CASE UNCHANGED relayVars
  BY <1>0, <1>28 DEF relayVars
<1> QED
  BY <1>1, <1>2, <1>3, <1>4, <1>5, <1>6, <1>7, <1>8, <1>9, <1>10, <1>11, <1>12, <1>13, <1>14,
     <1>15, <1>16, <1>17, <1>18, <1>19, <1>20, <1>21, <1>22, <1>23, <1>24, <1>25, <1>26, <1>27, <1>28
     DEF RelayNext, VenueThread, MainThread, World

-----------------------------------------------------------------------------
(* Gaps. *)

(* The wire is empty and the venue's end is down: nothing to be chained. *)
LEMMA EndedWire ==
  ASSUME RelayTypeOK, VenueAhead, ~up', wire' = <<>>, venue_seq' = venue_seq
  PROVE  WireChain' /\ VenueAhead'
  BY DEF WireChain, VenueAhead, RelayTypeOK, DataTypes

(* What the decoder calls a gap is an update whose predecessor was lost. *)
LEMMA GapIsLoss ==
  ASSUME RelayTypeOK, WireChain, wire # <<>>
  PROVE  Gap(Head(wire)) <=> Head(wire).after_loss
<1>1. Len(wire) \in Nat \ {0} /\ Head(wire) = wire[1]
  BY EmptySeq DEF RelayTypeOK, DataTypes
<1>2. 1 \in 1 .. Len(wire)
  BY <1>1
<1>3. /\ wire[1].snapshot => ~wire[1].after_loss
      /\ ~wire[1].snapshot => SeqBefore(1) > 0 /\ (wire[1].after_loss <=> wire[1].prev # SeqBefore(1))
  BY <1>2, Zenon DEF WireChain
<1>4. SeqBefore(1) = last_seq /\ last_seq \in Nat
  BY DEF SeqBefore, RelayTypeOK, DataTypes
<1> QED BY <1>1, <1>3, <1>4 DEF Gap

(* Reading the first message moves the chain along by one. *)
LEMMA ReadKeepsChain ==
  ASSUME RelayTypeOK, WireChain, VenueAhead, ReadMessage
  PROVE  WireChain' /\ VenueAhead'
<1>1. /\ wire \in Seq(Message) /\ wire # <<>> /\ wire' = Tail(wire)
      /\ last_seq' = Head(wire).seq /\ venue_seq' = venue_seq
      /\ up' = up /\ lossy' = lossy
  BY Zenon DEF RelayTypeOK, DataTypes, ReadMessage
<1>2. /\ Len(wire) \in Nat \ {0} /\ Head(wire) = wire[1]
      /\ wire' \in Seq(Message) /\ Len(wire') = Len(wire) - 1
      /\ \A i \in 1 .. Len(wire') : wire'[i] = wire[i + 1]
  BY <1>1, EmptySeq, HeadTailProperties
<1>3. \A i \in 1 .. Len(wire') : i + 1 \in 1 .. Len(wire) /\ SeqBefore(i)' = SeqBefore(i + 1)
  BY <1>1, <1>2 DEF SeqBefore
<1>4. WireChain'
  BY <1>2, <1>3 DEF WireChain
<1>5. LastOnWire' = LastOnWire
  <2>1. CASE Len(wire) = 1
    BY <1>1, <1>2, <2>1, EmptySeq DEF LastOnWire
  <2>2. CASE Len(wire) > 1
    <3>1. wire' # <<>> /\ wire # <<>>
      BY <1>1, <1>2, <2>2, EmptySeq
    <3> QED BY <1>1, <1>2, <2>2, <3>1 DEF LastOnWire
  <2> QED BY <1>2, <2>1, <2>2
<1> QED BY <1>1, <1>4, <1>5, Zenon DEF VenueAhead

(* The venue's next message continues the chain, or breaks it and says so. *)
LEMMA UpdateKeepsChain ==
  ASSUME RelayTypeOK, WireChain, VenueAhead, up, up' = up, last_seq' = last_seq,
         venue_seq' = venue_seq + 1, lossy' = FALSE,
         wire' = Append(wire, Update(venue_seq + 1, lossy))
  PROVE  WireChain' /\ VenueAhead'
<1> DEFINE m == Update(venue_seq + 1, lossy)
<1>1. venue_seq \in Nat /\ lossy \in BOOLEAN /\ wire \in Seq(Message) /\ Len(wire) \in Nat
  BY LenProperties DEF RelayTypeOK, DataTypes, FlagTypes
<1>2. m \in Message
  BY <1>1, MessageTypes
<1>3. /\ wire' \in Seq(Message) /\ Len(wire') = Len(wire) + 1 /\ wire' # <<>>
      /\ \A i \in 1 .. Len(wire) : wire'[i] = wire[i]
      /\ wire'[Len(wire) + 1] = m
  BY <1>1, <1>2, AppendProperties
<1>4. m.seq = venue_seq + 1 /\ m.prev = venue_seq /\ ~m.snapshot /\ (m.after_loss <=> lossy)
  BY <1>1 DEF Update
<1>5. \A i \in Nat : i = Len(wire) + 1 => SeqBefore(i)' = LastOnWire
  <2>1. wire = <<>> <=> Len(wire) = 0
    BY <1>1, EmptySeq
  <2> QED BY <1>1, <1>3, <2>1 DEF SeqBefore, LastOnWire
<1>6. \A i \in 1 .. Len(wire) : SeqBefore(i)' = SeqBefore(i)
  BY <1>1, <1>3 DEF SeqBefore
<1>7. LastOnWire > 0 /\ (lossy <=> LastOnWire # venue_seq)
  BY DEF VenueAhead
<1>8. ASSUME NEW i \in 1 .. Len(wire')
      PROVE  /\ wire'[i].seq > 0
             /\ wire'[i].snapshot => i = 1 /\ ~wire'[i].after_loss
             /\ ~wire'[i].snapshot =>
                  SeqBefore(i)' > 0 /\ (wire'[i].after_loss <=> wire'[i].prev # SeqBefore(i)')
  <2>1. CASE i \in 1 .. Len(wire)
    BY <1>3, <1>6, <2>1 DEF WireChain
  <2>2. CASE i = Len(wire) + 1
    <3>1. wire'[i] = m /\ SeqBefore(i)' = LastOnWire
      BY <1>1, <1>3, <1>5, <2>2
    <3>2. m.seq > 0 /\ LastOnWire > 0 /\ (m.after_loss <=> m.prev # LastOnWire)
      BY <1>1, <1>4, <1>7
    <3> HIDE DEF m
    <3> QED BY <1>4, <3>1, <3>2, Zenon
  <2> QED BY <1>1, <1>3, <2>1, <2>2
<1>9. LastOnWire' = venue_seq'
  BY <1>1, <1>3, <1>4 DEF LastOnWire
<1>10. VenueAhead'
  BY <1>1, <1>9 DEF VenueAhead
<1> QED BY <1>8, <1>10 DEF WireChain

(* A connection that drops leaves a prefix of what was sent. *)
LEMMA DropKeepsChain ==
  ASSUME RelayTypeOK, WireChain, VenueAhead, VenueDrops
  PROVE  WireChain' /\ VenueAhead'
<1>1. PICK n \in 0 .. Len(wire) : wire' = SubSeq(wire, 1, n)
  BY DEF VenueDrops
<1>2. wire \in Seq(Message) /\ Len(wire) \in Nat /\ n \in Nat /\ n <= Len(wire)
  BY LenProperties DEF RelayTypeOK, DataTypes
<1>3. Len(wire') = n /\ \A i \in 1 .. n : wire'[i] = wire[i]
  BY <1>1, <1>2, SubSeqProperties
<1>4. last_seq' = last_seq
  BY DEF VenueDrops, decoderVars
<1>5. \A i \in 1 .. n : i \in 1 .. Len(wire) /\ SeqBefore(i)' = SeqBefore(i)
  BY <1>2, <1>3, <1>4 DEF SeqBefore
<1>6. WireChain'
  BY <1>3, <1>5 DEF WireChain
<1>7. ~up' /\ venue_seq' = venue_seq
  BY DEF VenueDrops
<1> QED BY <1>6, <1>7 DEF VenueAhead

(* GapInv holds of every step of the relay. *)
LEMMA GapInvKept == GapInv /\ [RelayNext]_relayVars => GapInv'
<1> SUFFICES ASSUME GapInv, [RelayNext]_relayVars PROVE GapInv'
  OBVIOUS
<1>0. RelayTypeOK /\ RelayTypeOK' /\ WireChain /\ VenueAhead /\ GapsExact
  BY TypesKept DEF GapInv
<1> SUFFICES WireChain' /\ VenueAhead' /\ GapsExact'
  BY <1>0 DEF GapInv
<1>1. CASE UNCHANGED <<wire, last_seq, venue_seq, up, lossy, gaps, losses>>
  BY <1>0, <1>1, Zenon DEF WireChain, VenueAhead, GapsExact, SeqBefore, LastOnWire
<1>2. CASE Connect
  <2>1. /\ wire' = <<Snapshot(venue_seq)>> /\ venue_seq' = venue_seq /\ lossy' = FALSE
        /\ gaps' = gaps /\ losses' = losses
    BY <1>2, Zenon DEF Connect, decoderVars
  <2>2. venue_seq \in Nat /\ venue_seq > 0
    BY <1>0 DEF RelayTypeOK, DataTypes, VenueAhead
  <2>3. WireChain'
    BY <2>1, <2>2 DEF WireChain, Snapshot
  <2>4. LastOnWire' = venue_seq'
    BY <2>1 DEF LastOnWire, Snapshot
  <2>5. VenueAhead'
    BY <2>1, <2>2, <2>4 DEF VenueAhead
  <2> QED BY <1>0, <2>1, <2>3, <2>5 DEF GapsExact
<1>3. CASE ReadStops \/ DropForTest \/ ReadBroken \/ (Woken /\ closed)
  <2>1. ~up' /\ wire' = <<>> /\ UNCHANGED <<venue_seq, gaps, losses>>
    BY <1>3, Zenon DEF ReadStops, DropForTest, ReadBroken, Woken, EndSession, decoderVars
  <2> QED BY <1>0, <2>1, EndedWire DEF GapsExact
<1>4. CASE ReadMessage
  <2>1. wire # <<>> /\ (Gap(Head(wire)) <=> Head(wire).after_loss)
    BY <1>0, <1>4, GapIsLoss DEF ReadMessage
  <2>2. GapsExact'
    BY <1>0, <1>4, <2>1, Zenon DEF ReadMessage, GapsExact
  <2> QED BY <1>0, <1>4, <2>2, ReadKeepsChain
<1>5. CASE VenueUpdates
  <2>1. CASE up /\ wire' = Append(wire, Update(venue_seq + 1, lossy)) /\ lossy' = FALSE
    BY <1>0, <1>5, <2>1, UpdateKeepsChain, Zenon DEF VenueUpdates, decoderVars, GapsExact
  <2>2. CASE ~(up /\ wire' = Append(wire, Update(venue_seq + 1, lossy)) /\ lossy' = FALSE)
    <3>1. /\ UNCHANGED <<wire, last_seq, gaps, losses, up>> /\ venue_seq' = venue_seq + 1
          /\ up => lossy'
      BY <1>5, <2>2, Zenon DEF VenueUpdates, decoderVars
    <3>2. LastOnWire' = LastOnWire
      BY <3>1, Zenon DEF LastOnWire
    <3>3. WireChain' /\ GapsExact'
      BY <1>0, <3>1, Zenon DEF WireChain, SeqBefore, GapsExact
    <3>4. /\ venue_seq \in Nat /\ venue_seq > 0
          /\ up => LastOnWire > 0 /\ LastOnWire <= venue_seq
      BY <1>0 DEF RelayTypeOK, DataTypes, VenueAhead
    <3>5. LastOnWire \in Nat
      <4>1. last_seq \in Nat /\ wire \in Seq(Message)
        BY <1>0 DEF RelayTypeOK, DataTypes
      <4>2. wire # <<>> => wire[Len(wire)] \in Message
        BY <4>1, EmptySeq, ElementOfSeq
      <4> QED BY <4>1, <4>2 DEF LastOnWire, Message
    <3>6. /\ venue_seq' > 0
          /\ up' => LastOnWire' > 0 /\ LastOnWire' <= venue_seq' /\ LastOnWire' # venue_seq'
      BY <3>1, <3>2, <3>4, <3>5
    <3> QED BY <3>1, <3>3, <3>6, Zenon DEF VenueAhead
  <2> QED BY <2>1, <2>2
<1>6. CASE VenueDrops
  BY <1>0, <1>6, DropKeepsChain DEF VenueDrops, decoderVars, GapsExact
<1> QED
  <2>1. CASE VenueThread
    BY <2>1, <1>1, <1>2, <1>3, <1>4, Zenon DEF VenueThread, StartSession, LeaveLoop,
       SessionReturned, SessionThrew, CheckBeforeBackoff, Backoff, CloseRows, ConnectFails,
       RecordOnly, PushRow, WaitForRoom, Woken, venueVars, decoderVars
  <2>2. CASE MainThread
    BY <2>2, <1>1, Zenon DEF MainThread, Pop, PopClosed, SendRow, SendFails, StopClient,
       JoinClient, venueVars, decoderVars
  <2>3. CASE World
    BY <2>3, <1>1, <1>5, <1>6, Zenon DEF World, EngineLeaves, DeadlinePasses, venueVars,
       decoderVars
  <2>4. CASE UNCHANGED relayVars
    BY <2>4, <1>1, Zenon DEF relayVars, venueVars, decoderVars
  <2> QED BY <2>1, <2>2, <2>3, <2>4 DEF RelayNext

(* For every message size and any number of updates, losses and sessions, the gaps
   decode_books counts are exactly the updates that follow a lost one inside a
   session: a snapshot resynchronises, so a reconnect is never taken for a gap. *)
THEOREM GapsCounted == RelaySpec => []GapsExact
<1>1. RelayInit => GapInv
  <2>1. RelayInit => RelayTypeOK
    BY InitTypes
  <2>2. RelayInit => WireChain /\ VenueAhead /\ GapsExact
    BY DEF RelayInit, WireChain, VenueAhead, GapsExact
  <2> QED BY <2>1, <2>2 DEF GapInv
<1>2. GapInv /\ [RelayNext]_relayVars => GapInv'
  BY GapInvKept
<1>3. GapInv => GapsExact
  BY DEF GapInv
<1> QED BY <1>1, <1>2, <1>3, PTL DEF RelaySpec

-----------------------------------------------------------------------------
(* The hand-off. *)

(* The rows sent, in hand, queued and held, end to end. *)
Along(a, b, c, d) == a \o b \o c \o d

(* Moving rows along the places they pass through leaves the sequence of them. *)
LEMMA RowsMove ==
  ASSUME delivered \in Seq(Row), hand \in Seq(Row), rows \in Seq(Row), NEW e \in Row
  PROVE  /\ Append(Along(delivered, hand, rows, <<>>), e)
              = Along(delivered, hand, Append(rows, e), <<>>)
         /\ Append(Along(delivered, hand, rows, <<>>), e) = Along(delivered, hand, rows, <<e>>)
         /\ Along(delivered, hand, rows, <<e>>) = Along(delivered, hand, Append(rows, e), <<>>)
<1>1. /\ delivered \o hand \in Seq(Row) /\ delivered \o hand \o rows \in Seq(Row)
      /\ <<e>> \in Seq(Row) /\ Append(rows, e) \in Seq(Row)
  BY ConcatProperties, AppendProperties
<1>2. (delivered \o hand \o rows) \o <<>> = delivered \o hand \o rows
  BY <1>1, ConcatEmptySeq
<1>3. /\ Append(delivered \o hand \o rows, e) = (delivered \o hand \o rows) \o <<e>>
      /\ Append(rows, e) = rows \o <<e>>
  BY <1>1, AppendIsConcat
<1>4. (delivered \o hand \o rows) \o <<e>> = (delivered \o hand) \o (rows \o <<e>>)
  BY <1>1, ConcatAssociative
<1>5. delivered \o hand \o Append(rows, e) \in Seq(Row)
  BY <1>1, ConcatProperties
<1>6. (delivered \o hand \o Append(rows, e)) \o <<>> = delivered \o hand \o Append(rows, e)
  BY <1>5, ConcatEmptySeq
<1> QED BY <1>2, <1>3, <1>4, <1>6, Zenon DEF Along

(* Popping a row, and sending it, likewise. *)
LEMMA RowsLeave ==
  ASSUME delivered \in Seq(Row), hand \in Seq(Row), rows \in Seq(Row), NEW d \in Seq(Row)
  PROVE  /\ rows # <<>> => Along(delivered, <<>>, rows, d)
                              = Along(delivered, <<Head(rows)>>, Tail(rows), d)
         /\ Along(delivered, hand, rows, d) = Along(delivered \o hand, <<>>, rows, d)
<1>1. ASSUME rows # <<>>
      PROVE  delivered \o <<>> \o rows = delivered \o <<Head(rows)>> \o Tail(rows)
  <2>1. Head(rows) \in Row /\ Tail(rows) \in Seq(Row) /\ <<Head(rows)>> \in Seq(Row)
    BY <1>1, HeadTailProperties
  <2>2. <<Head(rows)>> \o Tail(rows) = rows
    <3>1. /\ <<Head(rows)>> \o Tail(rows) \in Seq(Row)
          /\ Len(<<Head(rows)>> \o Tail(rows)) = Len(rows)
      BY <1>1, <2>1, ConcatProperties, HeadTailProperties, LenProperties
    <3>2. ASSUME NEW i \in 1 .. Len(rows) PROVE (<<Head(rows)>> \o Tail(rows))[i] = rows[i]
      BY <1>1, <2>1, ConcatProperties, HeadTailProperties, LenProperties
    <3> QED BY <3>1, <3>2, SeqEqual
  <2>3. delivered \o <<>> = delivered
    BY ConcatEmptySeq
  <2>4. (delivered \o <<Head(rows)>>) \o Tail(rows) = delivered \o (<<Head(rows)>> \o Tail(rows))
    BY <2>1, ConcatAssociative
  <2> QED BY <2>2, <2>3, <2>4
<1>2. (delivered \o hand) \o <<>> = delivered \o hand
  BY ConcatProperties, ConcatEmptySeq
<1> QED BY <1>1, <1>2, Zenon DEF Along

(* Every step keeps a served relay's rows in one piece. *)
LEMMA HandOffKept == HandOffInv /\ [RelayNext]_relayVars => HandOffExact'
<1> SUFFICES ASSUME HandOffInv, [RelayNext]_relayVars, serve' PROVE HandOffExact'
  BY DEF HandOffExact
<1> DEFINE held == IF vpc = "wait" THEN <<Head(pending)>> ELSE <<>>
<1>0. /\ RelayTypeOK /\ Shutdown
      /\ rows \in Seq(Row) /\ hand \in Seq(Row) /\ delivered \in Seq(Row)
  BY DEF HandOffInv, RelayTypeOK, DataTypes
<1>1. serve
  BY Zenon DEF RelayNext, VenueThread, MainThread, World, StartSession, LeaveLoop,
     SessionReturned, SessionThrew, CheckBeforeBackoff, Backoff, CloseRows, Connect,
     ConnectFails, ReadStops, DropForTest, ReadBroken, ReadMessage, RecordOnly, PushRow,
     WaitForRoom, Woken, Pop, PopClosed, SendRow, SendFails, StopClient, JoinClient,
     VenueUpdates, VenueDrops, EngineLeaves, DeadlinePasses, relayVars, serverVars
<1>2. recorded = Along(delivered, hand, rows, held)
  BY <1>1 DEF HandOffInv, HandOffExact, Along
<1> SUFFICES recorded' = Along(delivered', hand', rows', held')
  BY DEF HandOffExact, Along
<1>3. vpc \in {"push", "wait"} => Head(pending) \in Row
  BY <1>0, PendingParts DEF RelayTypeOK, DataTypes
<1>4. held \in Seq(Row)
  BY <1>3
<1>5. CASE UNCHANGED <<recorded, delivered, hand, rows>> /\ held' = held
  BY <1>2, <1>5, Zenon
<1>6. CASE PushRow
  <2>1. held = <<>> /\ held' = <<>>
    BY <1>6 DEF PushRow, AfterRow
  <2>2. /\ recorded' = Append(recorded, Head(pending)) /\ rows' = Append(rows, Head(pending))
        /\ delivered' = delivered /\ hand' = hand /\ Head(pending) \in Row
    BY <1>3, <1>6, Zenon DEF PushRow, serverVars
  <2> HIDE DEF held
  <2>3. Append(Along(delivered, hand, rows, <<>>), Head(pending))
          = Along(delivered, hand, Append(rows, Head(pending)), <<>>)
    BY <1>0, <2>2, RowsMove, Zenon
  <2> QED BY <1>2, <2>1, <2>2, <2>3, Zenon
<1>7. CASE WaitForRoom
  <2>1. held = <<>> /\ held' = <<Head(pending)>>
    BY <1>7 DEF WaitForRoom
  <2>2. /\ recorded' = Append(recorded, Head(pending)) /\ rows' = rows
        /\ delivered' = delivered /\ hand' = hand /\ Head(pending) \in Row
    BY <1>3, <1>7, Zenon DEF WaitForRoom, serverVars, queueVars
  <2> HIDE DEF held
  <2>3. Append(Along(delivered, hand, rows, <<>>), Head(pending))
          = Along(delivered, hand, rows, <<Head(pending)>>)
    BY <1>0, <2>2, RowsMove, SMT
  <2> QED BY <1>2, <2>1, <2>2, <2>3, Zenon
<1>8. CASE Woken
  <2>1. ~closed
    BY <1>0, <1>8 DEF Woken, Shutdown
  <2>2. held = <<Head(pending)>> /\ held' = <<>>
    BY <1>8, <2>1 DEF Woken, AfterRow
  <2>3. /\ recorded' = recorded /\ rows' = Append(rows, Head(pending))
        /\ delivered' = delivered /\ hand' = hand /\ Head(pending) \in Row
    BY <1>3, <1>8, <2>1, Zenon DEF Woken, serverVars
  <2> HIDE DEF held
  <2>4. Along(delivered, hand, rows, <<Head(pending)>>)
          = Along(delivered, hand, Append(rows, Head(pending)), <<>>)
    BY <1>0, <2>3, RowsMove, SMT
  <2> QED BY <1>2, <2>2, <2>3, <2>4, Zenon
<1>9. CASE Pop
  <2>1. hand = <<>> /\ rows # <<>>
    BY <1>0, <1>9 DEF Pop, Shutdown
  <2>2. held' = held /\ recorded' = recorded /\ delivered' = delivered
    BY <1>9, Zenon DEF Pop, clientVars
  <2>3. hand' = <<Head(rows)>> /\ rows' = Tail(rows)
    BY <1>9 DEF Pop
  <2> HIDE DEF held
  <2>4. Along(delivered, <<>>, rows, held)
          = Along(delivered, <<Head(rows)>>, Tail(rows), held)
    BY <1>0, <1>4, <2>1, RowsLeave
  <2> QED BY <1>2, <2>1, <2>2, <2>3, <2>4, Zenon
<1>10. CASE SendRow
  <2>1. /\ held' = held /\ recorded' = recorded /\ rows' = rows
        /\ delivered' = delivered \o hand /\ hand' = <<>>
    BY <1>10, Zenon DEF SendRow, clientVars, queueVars
  <2> HIDE DEF held
  <2>2. Along(delivered, hand, rows, held) = Along(delivered \o hand, <<>>, rows, held)
    BY <1>0, <1>4, RowsLeave
  <2> QED BY <1>2, <2>1, <2>2, Zenon
<1>11. CASE VenueThread /\ ~(PushRow \/ WaitForRoom \/ Woken)
  <2>1. UNCHANGED <<recorded, delivered, hand, rows>>
    BY <1>1, <1>11, Zenon DEF VenueThread, StartSession, LeaveLoop, SessionReturned,
       SessionThrew, CheckBeforeBackoff, Backoff, CloseRows, Connect, ConnectFails, ReadStops,
       DropForTest, ReadBroken, ReadMessage, RecordOnly, queueVars, serverVars
  <2>2. vpc # "wait" /\ vpc' # "wait"
    BY <1>1, <1>11 DEF VenueThread, StartSession, LeaveLoop, SessionReturned, SessionThrew,
       CheckBeforeBackoff, Backoff, CloseRows, Connect, ConnectFails, ReadStops, DropForTest,
       ReadBroken, ReadMessage, RecordOnly, EndSession
  <2> QED BY <1>5, <2>1, <2>2
<1>12. CASE PopClosed \/ SendFails \/ StopClient \/ JoinClient \/ World \/ UNCHANGED relayVars
  <2>1. UNCHANGED <<recorded, delivered, hand, rows, vpc, pending>>
    BY <1>12, Zenon DEF PopClosed, SendFails, StopClient, JoinClient, World, VenueUpdates,
       VenueDrops, EngineLeaves, DeadlinePasses, relayVars, clientVars, queueVars, serverVars
  <2> QED BY <1>5, <2>1, Zenon
<1> QED
  BY <1>6, <1>7, <1>8, <1>9, <1>10, <1>11, <1>12 DEF RelayNext, MainThread

(* Every step keeps the order in which the relay shuts down. *)
LEMMA ShutdownKept == RelayTypeOK /\ Shutdown /\ [RelayNext]_relayVars => Shutdown'
<1> SUFFICES ASSUME RelayTypeOK, Shutdown, [RelayNext]_relayVars PROVE Shutdown'
  OBVIOUS
<1> USE DEF Shutdown, venueVars, queueVars, decoderVars, serverVars, clientVars
<1>1. CASE CloseRows
  BY <1>1 DEF CloseRows
<1>2. CASE VenueThread /\ ~CloseRows
  <2>1. vpc # "ended" /\ UNCHANGED <<closed, serverVars>>
    BY <1>2 DEF VenueThread, StartSession, LeaveLoop, SessionReturned, SessionThrew,
       CheckBeforeBackoff, Backoff, Connect, ConnectFails, ReadStops, DropForTest, ReadBroken,
       ReadMessage, RecordOnly, PushRow, WaitForRoom, Woken
  <2> QED BY <2>1, Zenon
<1>3. CASE Pop
  BY <1>3 DEF Pop
<1>4. CASE PopClosed
  BY <1>4 DEF PopClosed
<1>5. CASE SendRow
  BY <1>5 DEF SendRow
<1>6. CASE SendFails
  BY <1>6 DEF SendFails
<1>7. CASE StopClient
  BY <1>7 DEF StopClient
<1>8. CASE JoinClient
  BY <1>8 DEF JoinClient
<1>9. CASE VenueUpdates \/ VenueDrops \/ DeadlinePasses \/ UNCHANGED relayVars
  <2>1. UNCHANGED <<closed, rows, vpc, serverVars>>
    BY <1>9, Zenon DEF VenueUpdates, VenueDrops, DeadlinePasses, relayVars
  <2> QED BY <2>1, Zenon
<1>10. CASE EngineLeaves
  BY <1>10 DEF EngineLeaves
<1> QED
  BY <1>1, <1>2, <1>3, <1>4, <1>5, <1>6, <1>7, <1>8, <1>9, <1>10 DEF RelayNext, MainThread, World

(* For every queue capacity and message size: each row the venue thread recorded for
   an engine is, once and in order, sent, in hand, queued or held by the push that
   waits for room, and a relay that returns to a connected engine has sent them all,
   so RowQueue's close never cuts off a row. *)
THEOREM RecordingReachesEngine == RelaySpec => []EngineGetsRecording
<1>1. RelayInit => HandOffInv
  <2>1. RelayInit => RelayTypeOK
    BY InitTypes
  <2>2. RelayInit => Shutdown
    BY DEF RelayInit, Shutdown
  <2>3. RelayInit => HandOffExact
    <3>1. <<>> \o <<>> \o <<>> \o <<>> = <<>>
      BY EmptySeq, ConcatEmptySeq
    <3> QED BY <3>1 DEF RelayInit, HandOffExact
  <2> QED BY <2>1, <2>2, <2>3 DEF HandOffInv
<1>2. HandOffInv /\ [RelayNext]_relayVars => HandOffInv'
  BY TypesKept, HandOffKept, ShutdownKept DEF HandOffInv
<1>3. HandOffInv => EngineGetsRecording
  <2> SUFFICES ASSUME HandOffInv, serve, spc = "returned", engine_up
               PROVE  delivered = recorded
    BY DEF HandOffInv, EngineGetsRecording, EngineGetsAll
  <2>1. hand = <<>> /\ rows = <<>> /\ vpc = "ended"
    BY DEF HandOffInv, Shutdown
  <2>2. recorded = delivered \o <<>> \o <<>> \o <<>>
    BY <2>1 DEF HandOffInv, HandOffExact
  <2>3. delivered \o <<>> = delivered
    BY ConcatEmptySeq DEF HandOffInv, RelayTypeOK, DataTypes
  <2> QED BY <2>2, <2>3, Zenon
<1> QED BY <1>1, <1>2, <1>3, PTL DEF RelaySpec
=============================================================================
