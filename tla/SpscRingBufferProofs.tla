------------------------ MODULE SpscRingBufferProofs ------------------------
(* For every capacity and every set of values: the ring buffer is typed,   *)
(* keeps its slots consistent with its indices, and is a bounded FIFO.     *)
EXTENDS SpscRingBuffer, SequenceTheorems, TLAPS

USE CapacityAssumption

(* Advancing an index of the ring: lines 527-534 without the division. *)
LEMMA IncrementWraps ==
  ASSUME NEW i \in Index
  PROVE  /\ Increment(i) = IF i = Capacity - 1 THEN 0 ELSE i + 1
         /\ Increment(i) \in Index
<1>1. CASE i = Capacity - 1
  <2>1. (i + 1) \div Capacity = 1
    BY <1>1, SMT DEF Index
  <2>2. QED
    BY <1>1, <2>1, SMT DEF Index, Increment
<1>2. CASE i # Capacity - 1
  BY <1>2, SMT DEF Index, Increment
<1>3. QED
  BY <1>1, <1>2

(* The distance between two positions is a position, and is zero only      *)
(* between equal ones.                                                     *)
LEMMA SizeRange ==
  ASSUME NEW i \in Index, NEW j \in Index
  PROVE  Size(i, j) \in Index /\ (Size(i, j) = 0 <=> i = j)
BY SMT DEF Index, Size

(* Advancing the write position makes the queue one longer, unless that    *)
(* would close the ring; advancing the read position makes it one shorter. *)
LEMMA SizeAdvances ==
  ASSUME NEW i \in Index, NEW j \in Index
  PROVE  /\ Increment(j) # i => Size(i, Increment(j)) = Size(i, j) + 1
         /\ Increment(j) = i <=> Size(i, j) = Capacity - 1
         /\ i # j => Size(Increment(i), j) = Size(i, j) - 1
BY IncrementWraps, SMT DEF Index, Size

(* The inductive invariant: types, the circular order of the four indices, *)
(* what a thread in the middle of a push or pop may rely on, and the       *)
(* content of every slot.                                                  *)
THEOREM TypeAndSlots == Spec => []IInv
<1>1. Init => IInv
  BY ContentAssumption, SMT DEF Init, IInv, TypeOK, StaleViewsAreSafe, ChecksStayTrue,
     LiveObjects, Occupied, Size, Index
<1>2. IInv /\ [Next]_vars => IInv'
  <2> SUFFICES ASSUME IInv, [Next]_vars
               PROVE  IInv'
    OBVIOUS
  <2>i. /\ writeIndex \in Index /\ readIndex \in Index
        /\ cachedReadIndex \in Index /\ cachedWriteIndex \in Index
        /\ Increment(writeIndex) \in Index /\ Increment(readIndex) \in Index
    BY IncrementWraps DEF IInv, TypeOK
  <2> USE DEF IInv, consumerVars, producerVars
  <2>1. ASSUME NEW v \in Value, PushCall(v)
        PROVE  IInv'
    <3>1. TypeOK'
      BY <2>1 DEF TypeOK, PushCall
    <3>2. StaleViewsAreSafe'
      BY <2>1 DEF StaleViewsAreSafe, PushCall
    <3>3. ChecksStayTrue'
      BY <2>1, <2>i DEF ChecksStayTrue, PushCall, TypeOK
    <3>4. LiveObjects'
      BY <2>1, <2>i DEF LiveObjects, Occupied, PushCall, TypeOK
    <3>5. QED
      BY <3>1, <3>2, <3>3, <3>4
  <2>2. ASSUME NEW seen \in Index, RefreshReadIndex(seen)
        PROVE  IInv'
    <3>1. TypeOK'
      BY <2>2 DEF TypeOK, RefreshReadIndex
    <3>2. StaleViewsAreSafe'
      BY <2>2, <2>i, SMT DEF StaleViewsAreSafe, RefreshReadIndex, Visible, Size, Index
    <3>3. ChecksStayTrue'
      BY <2>2, <2>i DEF ChecksStayTrue, RefreshReadIndex, TypeOK
    <3>4. LiveObjects'
      BY <2>2, <2>i DEF LiveObjects, Occupied, RefreshReadIndex, TypeOK
    <3>5. QED
      BY <3>1, <3>2, <3>3, <3>4
  <2>3. CASE Construct
    <3>0. ~Occupied(writeIndex) /\ pushing \in Value
      BY <2>3, <2>i, SMT DEF Construct, Occupied, ChecksStayTrue, Size, Index
    <3>1. TypeOK'
      BY <2>3, <3>0 DEF TypeOK, Construct
    <3>2. StaleViewsAreSafe'
      BY <2>3 DEF StaleViewsAreSafe, Construct
    <3>3. ChecksStayTrue'
      BY <2>3, <2>i DEF ChecksStayTrue, Construct, TypeOK
    <3>4. LiveObjects'
      <4>1. cpc \in {"destroy", "release"} => readIndex # writeIndex
        BY <2>i, SMT DEF ChecksStayTrue, StaleViewsAreSafe, Size, Index
      <4>2. QED
        BY <2>3, <2>i, <3>0, <4>1 DEF LiveObjects, Occupied, Construct, TypeOK
    <3>5. QED
      BY <3>1, <3>2, <3>3, <3>4
  <2>4. CASE Publish
    <3>1. TypeOK'
      BY <2>4, <2>i DEF TypeOK, Publish
    <3>0. /\ Size(cachedReadIndex, writeIndex') = Size(cachedReadIndex, writeIndex) + 1
          /\ Size(readIndex, writeIndex') = Size(readIndex, writeIndex) + 1
          /\ Size(cachedWriteIndex, writeIndex')
               = Size(cachedWriteIndex, writeIndex) + 1
      BY <2>4, <2>i, IncrementWraps, SMT
      DEF Publish, ChecksStayTrue, StaleViewsAreSafe, Size, Index
    <3>2. StaleViewsAreSafe'
      <4>1. /\ Size(readIndex, writeIndex) \in Int
            /\ Size(cachedReadIndex, readIndex) \in Int
            /\ Size(readIndex, cachedWriteIndex) \in Int
            /\ Size(cachedWriteIndex, writeIndex) \in Int
        BY <2>i, SMT DEF Size, Index
      <4>2. /\ readIndex' = readIndex /\ cachedReadIndex' = cachedReadIndex
            /\ cachedWriteIndex' = cachedWriteIndex
        BY <2>4 DEF Publish
      <4>3. QED
        BY <3>0, <4>1, <4>2, SMT DEF StaleViewsAreSafe
    <3>3. ChecksStayTrue'
      BY <2>4, <2>i DEF ChecksStayTrue, Publish, TypeOK
    <3>4. LiveObjects'
      <4>1. ASSUME NEW i \in Index
            PROVE  Occupied(i)' <=> Occupied(i) \/ i = writeIndex
        <5>1. Occupied(i)' <=> Size(readIndex, i) < Size(readIndex, writeIndex) + 1
          BY <2>4, <3>0 DEF Publish, Occupied
        <5>2. Size(readIndex, i) = Size(readIndex, writeIndex) <=> i = writeIndex
          BY <2>i, SMT DEF Size, Index
        <5>3. QED
          BY <5>1, <5>2, <2>i, SMT DEF Occupied, Size, Index
      <4>2. pushing \in Value
        BY <2>4 DEF ChecksStayTrue, Publish
      <4>3. cpc \in {"destroy", "release"} => readIndex # writeIndex
        BY <2>i, SMT DEF ChecksStayTrue, StaleViewsAreSafe, Size, Index
      <4>4. /\ slots' = slots /\ readIndex' = readIndex /\ cpc' = cpc
            /\ ppc = "publish" /\ ppc' = "idle"
        BY <2>4 DEF Publish
      <4>5. QED
        BY <4>1, <4>2, <4>3, <4>4 DEF LiveObjects
    <3>5. QED
      BY <3>1, <3>2, <3>3, <3>4
  <2>5. CASE PopCall \/ Drain
    <3>1. TypeOK'
      BY <2>5 DEF TypeOK, PopCall, Drain, StartPop
    <3>2. StaleViewsAreSafe'
      BY <2>5 DEF StaleViewsAreSafe, PopCall, Drain
    <3>3. ChecksStayTrue'
      BY <2>5, <2>i DEF ChecksStayTrue, PopCall, Drain, StartPop, TypeOK
    <3>4. LiveObjects'
      BY <2>5, <2>i DEF LiveObjects, Occupied, PopCall, Drain, StartPop, TypeOK
    <3>5. QED
      BY <3>1, <3>2, <3>3, <3>4
  <2>6. ASSUME NEW seen \in Index, RefreshWriteIndex(seen)
        PROVE  IInv'
    <3>1. TypeOK'
      BY <2>6 DEF TypeOK, RefreshWriteIndex
    <3>2. StaleViewsAreSafe'
      BY <2>6, <2>i, SMT DEF StaleViewsAreSafe, RefreshWriteIndex, Visible, Size, Index
    <3>3. ChecksStayTrue'
      BY <2>6, <2>i DEF ChecksStayTrue, RefreshWriteIndex, TypeOK
    <3>4. LiveObjects'
      BY <2>6, <2>i DEF LiveObjects, Occupied, RefreshWriteIndex, TypeOK
    <3>5. QED
      BY <3>1, <3>2, <3>3, <3>4
  <2>7. CASE MoveOut
    <3>0. Occupied(readIndex) /\ readIndex # writeIndex
      BY <2>7, <2>i, SMT
      DEF MoveOut, Occupied, ChecksStayTrue, StaleViewsAreSafe, Size, Index
    <3>1. TypeOK' /\ popped' \in Value
      BY <2>7, <2>i, <3>0 DEF TypeOK, MoveOut, LiveObjects
    <3>2. StaleViewsAreSafe'
      BY <2>7 DEF StaleViewsAreSafe, MoveOut
    <3>3. ChecksStayTrue'
      BY <2>7, <2>i, <3>1 DEF ChecksStayTrue, MoveOut, TypeOK
    <3>4. LiveObjects'
      BY <2>7, <2>i, <3>0 DEF LiveObjects, Occupied, MoveOut, TypeOK
    <3>5. QED
      BY <3>1, <3>2, <3>3, <3>4
  <2>8. CASE DestroySlot
    <3>0. Occupied(readIndex) /\ readIndex # writeIndex
      BY <2>8, <2>i, SMT
      DEF DestroySlot, Occupied, ChecksStayTrue, StaleViewsAreSafe, Size, Index
    <3>1. TypeOK'
      BY <2>8 DEF TypeOK, DestroySlot
    <3>2. StaleViewsAreSafe'
      BY <2>8 DEF StaleViewsAreSafe, DestroySlot
    <3>3. ChecksStayTrue'
      BY <2>8, <2>i DEF ChecksStayTrue, DestroySlot, TypeOK
    <3>4. LiveObjects'
      BY <2>8, <2>i, <3>0 DEF LiveObjects, Occupied, DestroySlot, TypeOK
    <3>5. QED
      BY <3>1, <3>2, <3>3, <3>4
  <2>9. CASE Release
    <3>1. TypeOK'
      BY <2>9, <2>i DEF TypeOK, Release
    <3>0. /\ Size(cachedReadIndex, readIndex') = Size(cachedReadIndex, readIndex) + 1
          /\ Size(readIndex', writeIndex) = Size(readIndex, writeIndex) - 1
          /\ Size(readIndex', cachedWriteIndex)
               = Size(readIndex, cachedWriteIndex) - 1
      BY <2>9, <2>i, IncrementWraps, SMT
      DEF Release, ChecksStayTrue, StaleViewsAreSafe, Size, Index
    <3>2. StaleViewsAreSafe'
      <4>1. /\ Size(readIndex, writeIndex) \in Int
            /\ Size(cachedReadIndex, readIndex) \in Int
            /\ Size(readIndex, cachedWriteIndex) \in Int
            /\ Size(cachedWriteIndex, writeIndex) \in Int
        BY <2>i, SMT DEF Size, Index
      <4>2. /\ writeIndex' = writeIndex /\ cachedReadIndex' = cachedReadIndex
            /\ cachedWriteIndex' = cachedWriteIndex
        BY <2>9 DEF Release
      <4>3. QED
        BY <3>0, <4>1, <4>2, SMT DEF StaleViewsAreSafe
    <3>3. ChecksStayTrue'
      BY <2>9, <2>i DEF ChecksStayTrue, Release, TypeOK
    <3>4. LiveObjects'
      <4>1. ASSUME NEW i \in Index
            PROVE  Occupied(i)' <=> Occupied(i) /\ i # readIndex
        BY <2>9, <2>i, <3>0, IncrementWraps, SMT
        DEF Release, Occupied, Size, Index, ChecksStayTrue, StaleViewsAreSafe
      <4>2. QED
        BY <2>9, <2>i, <4>1 DEF LiveObjects, Release, TypeOK
    <3>5. QED
      BY <3>1, <3>2, <3>3, <3>4
  <2>10. CASE Destruct \/ FreeStorage
    BY <2>10, <2>i DEF Destruct, FreeStorage, TypeOK, StaleViewsAreSafe,
                  ChecksStayTrue, LiveObjects, Occupied
  <2>11. CASE UNCHANGED vars
    BY <2>11, <2>i DEF vars, TypeOK, StaleViewsAreSafe,
                  ChecksStayTrue, LiveObjects, Occupied
  <2>12. QED
    BY <2>1, <2>2, <2>3, <2>4, <2>5, <2>6, <2>7, <2>8, <2>9, <2>10, <2>11
    DEF Next, Producer, Consumer
<1>3. QED
  BY <1>1, <1>2, PTL DEF Spec
-----------------------------------------------------------------------------
(* No push constructs over an object, and no pop moves out of a slot       *)
(* without one.                                                            *)
THEOREM SlotsSafe == Spec => []SlotsAreUsedRight
<1>1. ASSUME IInv, ppc = "construct"
      PROVE  slots[writeIndex] = Raw
  BY <1>1, SMT DEF IInv, TypeOK, ChecksStayTrue, StaleViewsAreSafe, LiveObjects,
                   Occupied, Size, Index
<1>2. ASSUME IInv, cpc = "move"
      PROVE  slots[readIndex] \in Value
  <2>1. Occupied(readIndex)
    BY <1>2, SMT DEF IInv, TypeOK, ChecksStayTrue, StaleViewsAreSafe, Occupied,
                     Size, Index
  <2>2. QED
    BY <1>2, <2>1 DEF IInv, TypeOK, LiveObjects
<1>3. IInv => SlotsAreUsedRight
  BY <1>1, <1>2 DEF SlotsAreUsedRight
<1>4. QED
  BY <1>3, TypeAndSlots, PTL

(* The threads never work on the same slot. *)
THEOREM RaceFree == Spec => []NoDataRace
<1>1. IInv => NoDataRace
  BY SMT DEF IInv, TypeOK, ChecksStayTrue, StaleViewsAreSafe, Size, Index, NoDataRace
<1>2. QED
  BY <1>1, TypeAndSlots, PTL

(* The destructor leaves no object behind. *)
THEOREM NoLeak == Spec => []NothingLeaked
<1>1. ASSUME IInv, owner = "freed", NEW i \in Index
      PROVE  slots[i] = Raw
  <2>1. cpc = "idle" /\ readIndex = writeIndex /\ ppc = "idle"
    BY <1>1 DEF IInv, ChecksStayTrue
  <2>2. ~Occupied(i)
    BY <1>1, <2>1, SMT DEF IInv, TypeOK, Occupied, Size, Index
  <2>3. QED
    BY <1>1, <2>1, <2>2 DEF IInv, LiveObjects
<1>2. IInv => NothingLeaked
  BY <1>1 DEF NothingLeaked
<1>3. QED
  BY <1>2, TypeAndSlots, PTL
-----------------------------------------------------------------------------
(* The k-th queued object lies in an occupied slot, and the first free     *)
(* slot comes right behind the last one.                                   *)
LEMMA PositionOccupied ==
  ASSUME TypeOK, NEW k \in 0 .. Size(readIndex, writeIndex)
  PROVE  /\ Position(k) \in Index
         /\ Size(readIndex, Position(k)) = k
         /\ Position(Size(readIndex, writeIndex)) = writeIndex
         /\ Position(k) = readIndex <=> k = 0
BY SMT DEF TypeOK, Position, Size, Index

LEMMA QueuedType ==
  ASSUME IInv
  PROVE  /\ Size(readIndex, writeIndex) \in 0 .. Capacity - 1
         /\ Queued \in Seq(Value)
         /\ Len(Queued) = Size(readIndex, writeIndex)
<1>1. Size(readIndex, writeIndex) \in 0 .. Capacity - 1
  <2>1. readIndex \in Index /\ writeIndex \in Index
    BY DEF IInv, TypeOK
  <2>2. QED
    BY <2>1, SizeRange DEF Index
<1>2. ASSUME NEW k \in 1 .. Size(readIndex, writeIndex)
      PROVE  Queued[k] \in Value
  <2>1. k - 1 \in 0 .. Size(readIndex, writeIndex) /\ k - 1 < Size(readIndex, writeIndex)
    BY <1>1, SMT
  <2>2. Occupied(Position(k - 1)) /\ Position(k - 1) \in Index
    BY <2>1, PositionOccupied DEF Occupied, IInv
  <2>3. CASE k = 1 /\ cpc \in {"destroy", "release"}
    BY <2>3 DEF Queued, IInv, ChecksStayTrue
  <2>4. CASE ~(k = 1 /\ cpc \in {"destroy", "release"})
    <3>1. Position(k - 1) = readIndex <=> k = 1
      BY <2>1, <1>1, PositionOccupied, SMT DEF IInv
    <3>2. QED
      BY <2>4, <2>2, <3>1 DEF Queued, IInv, LiveObjects
  <2>5. QED
    BY <2>3, <2>4
<1>3. QED
  BY <1>1, <1>2, SMT DEF Queued

(* Every step of the two threads is a step of the bounded queue or leaves  *)
(* it as it is: the value a push publishes goes to the end, the value a    *)
(* pop returns comes from the head.                                        *)
THEOREM RefinesFifo == Spec => ImplementsFifo
<1>1. Init => Fifo!FifoInit
  BY SMT DEF Init, Fifo!FifoInit, Queued, Size
<1>2. ASSUME IInv, IInv', [Next]_vars
      PROVE  [Fifo!FifoNext]_(Fifo!fifoVars)
  <2>i. /\ writeIndex \in Index /\ readIndex \in Index
        /\ cachedReadIndex \in Index /\ cachedWriteIndex \in Index
    BY <1>2 DEF IInv, TypeOK
  <2>0. /\ Size(readIndex, writeIndex) \in 0 .. Capacity - 1
        /\ writeIndex \in Index /\ readIndex \in Index
        /\ cachedReadIndex \in Index /\ cachedWriteIndex \in Index
        /\ Queued \in Seq(Value)
        /\ Len(Queued) = Size(readIndex, writeIndex)
    BY <1>2, QueuedType DEF IInv, TypeOK
  <2>1. CASE Publish
    <3>1. pushing \in Value /\ slots[writeIndex] = pushing
      BY <1>2, <2>1 DEF Publish, IInv, ChecksStayTrue, LiveObjects
    <3>2. /\ Size(readIndex, writeIndex') = Size(readIndex, writeIndex) + 1
          /\ Size(readIndex, writeIndex) < Capacity - 1
          /\ cpc \in {"destroy", "release"} => Size(readIndex, writeIndex) > 0
      <4>1. /\ writeIndex' = Increment(writeIndex)
            /\ Increment(writeIndex) # cachedReadIndex
            /\ cpc \in {"destroy", "release"} => readIndex # cachedWriteIndex
            /\ StaleViewsAreSafe
        BY <1>2, <2>1 DEF Publish, IInv, ChecksStayTrue
      <4>2. writeIndex' = IF writeIndex = Capacity - 1 THEN 0 ELSE writeIndex + 1
        BY <2>i, <4>1, IncrementWraps
      <4>3. Increment(writeIndex) \in Index
        BY <2>i, IncrementWraps
      <4>4. QED
        BY <2>i, <4>1, <4>2, <4>3, SMT DEF StaleViewsAreSafe, Size, Index
    <3>3. Queued' = Append(Queued, pushing)
      <4>2. Position(Size(readIndex, writeIndex)) = writeIndex
        BY <1>2, <2>0, PositionOccupied DEF IInv
      <4>3. Queued' = [k \in 1 .. Size(readIndex, writeIndex) + 1 |->
                         IF k = 1 /\ cpc \in {"destroy", "release"}
                           THEN popped ELSE slots[Position(k - 1)]]
        BY <2>1, <3>2 DEF Publish, Queued, Position, consumerVars
      <4>0. Queued = [k \in 1 .. Size(readIndex, writeIndex) |->
                         IF k = 1 /\ cpc \in {"destroy", "release"}
                           THEN popped ELSE slots[Position(k - 1)]]
        BY DEF Queued
      <4>4. \A k \in 1 .. Size(readIndex, writeIndex) : Queued'[k] = Queued[k]
        BY <2>0, <4>0, <4>3, SMT
      <4>5. Queued'[Size(readIndex, writeIndex) + 1] = pushing
        <5>1. ~(Size(readIndex, writeIndex) + 1 = 1 /\ cpc \in {"destroy", "release"})
          BY <2>0, <3>2, SMT
        <5>2. Size(readIndex, writeIndex) + 1 - 1 = Size(readIndex, writeIndex)
          BY <2>0, SMT
        <5>3. QED
          BY <2>0, <3>1, <4>2, <4>3, <5>1, <5>2, SMT
      <4>6. /\ Append(Queued, pushing) \in Seq(Value)
            /\ Len(Append(Queued, pushing)) = Size(readIndex, writeIndex) + 1
            /\ \A k \in 1 .. Size(readIndex, writeIndex) :
                 Append(Queued, pushing)[k] = Queued[k]
            /\ Append(Queued, pushing)[Size(readIndex, writeIndex) + 1] = pushing
        BY <2>0, <3>1, AppendProperties
      <4>7. \A k \in 1 .. Size(readIndex, writeIndex) + 1 :
              Queued'[k] = Append(Queued, pushing)[k]
        BY <2>0, <4>4, <4>5, <4>6, SMT
      <4>8. \A k \in 1 .. Size(readIndex, writeIndex) + 1 : Queued'[k] \in Value
        BY <2>0, <4>6, <4>7, SMT
      <4>9. Queued' \in Seq(Value) /\ Len(Queued') = Size(readIndex, writeIndex) + 1
        BY <2>0, <4>3, <4>8, SMT
      <4>10. QED
        BY <4>6, <4>7, <4>9, SeqEqual
    <3>4. QED
      BY <2>0, <2>1, <3>1, <3>2, <3>3
      DEF Publish, Fifo!FifoNext, Fifo!Put, consumerVars
  <2>2. CASE Release
    <3>1. /\ Size(readIndex', writeIndex) = Size(readIndex, writeIndex) - 1
          /\ Size(readIndex, writeIndex) > 0
      <4>1. /\ readIndex' = Increment(readIndex)
            /\ readIndex # cachedWriteIndex
            /\ StaleViewsAreSafe
        BY <1>2, <2>2 DEF Release, IInv, ChecksStayTrue
      <4>2. readIndex' = IF readIndex = Capacity - 1 THEN 0 ELSE readIndex + 1
        BY <2>i, <4>1, IncrementWraps
      <4>3. QED
        BY <2>i, <4>1, <4>2, SMT DEF StaleViewsAreSafe, Size, Index
    <3>2. Queued # <<>> /\ Head(Queued) = popped
      BY <2>0, <2>2, <3>1, SMT DEF Release, Queued
    <3>3. Queued' = Tail(Queued)
      <4>1. \A k \in 1 .. Size(readIndex, writeIndex) - 1 :
              Position(k - 1)' = Position(k)
        <5>1. readIndex' = IF readIndex = Capacity - 1 THEN 0 ELSE readIndex + 1
          BY <2>0, <2>2, IncrementWraps DEF Release
        <5>2. QED
          BY <2>0, <5>1, <3>1, SMT DEF Position, Index
      <4>2. Queued' = [k \in 1 .. Size(readIndex, writeIndex) - 1 |->
                         slots[Position(k - 1)']]
        BY <2>2, <3>1 DEF Release, Queued, producerVars
      <4>3. \A k \in 2 .. Size(readIndex, writeIndex) :
              Queued[k] = slots[Position(k - 1)]
        BY <2>0, SMT DEF Queued
      <4>4. \A k \in 1 .. Size(readIndex, writeIndex) - 1 :
              Queued'[k] = Queued[k + 1]
        BY <2>0, <3>1, <4>1, <4>2, <4>3, SMT
      <4>5. /\ Tail(Queued) \in Seq(Value)
            /\ Len(Tail(Queued)) = Size(readIndex, writeIndex) - 1
            /\ \A k \in 1 .. Size(readIndex, writeIndex) - 1 :
                 Tail(Queued)[k] = Queued[k + 1]
        BY <2>0, <3>2, HeadTailProperties
      <4>6. \A k \in 1 .. Size(readIndex, writeIndex) - 1 : Queued'[k] \in Value
        BY <2>0, <3>1, <4>4, SMT
      <4>7. Queued' \in Seq(Value) /\ Len(Queued') = Size(readIndex, writeIndex) - 1
        BY <2>0, <3>1, <4>2, <4>6, SMT
      <4>8. QED
        BY <4>4, <4>5, <4>7, SeqEqual
    <3>4. QED
      BY <2>2, <3>2, <3>3 DEF Release, Fifo!FifoNext, Fifo!Take
  <2>3. ASSUME \/ \E v \in Value : PushCall(v)
               \/ \E seen \in Index : RefreshReadIndex(seen)
               \/ PopCall \/ Drain
               \/ \E seen \in Index : RefreshWriteIndex(seen)
               \/ Destruct \/ FreeStorage \/ UNCHANGED vars
        PROVE  UNCHANGED <<Queued, returned>>
    <3>1. /\ UNCHANGED <<readIndex, writeIndex, slots, popped, returned>>
          /\ cpc \in {"destroy", "release"} <=> cpc' \in {"destroy", "release"}
      BY <2>3, <1>2 DEF PushCall, RefreshReadIndex, PopCall, Drain, StartPop,
                   RefreshWriteIndex, Destruct, FreeStorage, vars,
                   producerVars, consumerVars
    <3>2. QED
      BY <3>1 DEF Queued, Position
  <2>4. CASE Construct
    <3>1. \A k \in 1 .. Size(readIndex, writeIndex) : Position(k - 1) # writeIndex
      BY <2>0, SMT DEF Position, Size, Index
    <3>2. \A k \in 1 .. Size(readIndex, writeIndex) : Position(k - 1) \in Index
      BY <2>0, SMT DEF Position, Index
    <3>3. UNCHANGED <<readIndex, writeIndex, popped, returned, cpc>>
          /\ slots' = [slots EXCEPT ![writeIndex] = pushing]
      BY <2>4 DEF Construct, consumerVars
    <3>4. \A k \in 1 .. Size(readIndex, writeIndex) :
            slots'[Position(k - 1)] = slots[Position(k - 1)]
      BY <1>2, <3>1, <3>2, <3>3 DEF IInv, TypeOK
    <3>5. Queued' = Queued
      BY <3>3, <3>4 DEF Queued, Position
    <3>6. QED
      BY <3>3, <3>5 DEF Fifo!fifoVars
  <2>5. CASE MoveOut \/ DestroySlot
    <3>1. /\ UNCHANGED <<readIndex, writeIndex, returned>>
          /\ cpc' \in {"destroy", "release"}
          /\ popped' = IF cpc \in {"destroy", "release"} THEN popped
                                                         ELSE slots[readIndex]
          /\ \A i \in Index \ {readIndex} : slots'[i] = slots[i]
      BY <1>2, <2>5, <2>0 DEF MoveOut, DestroySlot, producerVars, IInv, TypeOK
    <3>2. \A k \in 2 .. Size(readIndex, writeIndex) :
             Position(k - 1) \in Index \ {readIndex}
      BY <2>0, SMT DEF Position, Index
    <3>3. Position(0) = readIndex
      BY <2>0, SMT DEF Position, Index
    <3>4. ASSUME NEW k \in 1 .. Size(readIndex, writeIndex)
          PROVE  (IF k = 1 /\ cpc' \in {"destroy", "release"}
                    THEN popped' ELSE slots'[Position(k - 1)])
               = (IF k = 1 /\ cpc \in {"destroy", "release"}
                    THEN popped ELSE slots[Position(k - 1)])
      <4>1. CASE k = 1
        BY <4>1, <3>1, <3>3
      <4>2. CASE k # 1
        <5>1. k \in 2 .. Size(readIndex, writeIndex)
          BY <4>2, <2>0, SMT
        <5>2. QED
          BY <5>1, <4>2, <3>1, <3>2
      <4>3. QED
        BY <4>1, <4>2
    <3>5. Queued' = Queued
      BY <3>1, <3>4 DEF Queued, Position
    <3>6. QED
      BY <3>1, <3>5 DEF Fifo!fifoVars
  <2>6. QED
    BY <1>2, <2>1, <2>2, <2>3, <2>4, <2>5
    DEF Next, Producer, Consumer, Fifo!fifoVars
<1>3. QED
  BY <1>1, <1>2, TypeAndSlots, PTL DEF Spec, ImplementsFifo, Fifo!FifoSpec
=============================================================================
