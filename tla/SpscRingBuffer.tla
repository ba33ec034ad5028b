--------------------------- MODULE SpscRingBuffer ---------------------------
(***************************************************************************)
(* common/ring_buffer/SpscRingBuffer.h: the lock-free queue every pair of  *)
(* threads of the pipeline communicates through.                           *)
(*                                                                         *)
(* The producer and the consumer thread each take one step per access to   *)
(* shared memory.  A slot of the raw storage holds a live object, the      *)
(* shell left behind by a move, or no object at all (Raw).  An index owned *)
(* by the other thread is read by an acquire load that may lag behind: it  *)
(* returns any value the index took since this thread last looked.  One    *)
(* slot always stays free, so at most Capacity - 1 objects are queued.     *)
(***************************************************************************)
EXTENDS Integers, Sequences

CONSTANTS Capacity,   \* number of slots
          Value,      \* the objects that may be pushed
          Raw,        \* slot content: storage without an object
          Moved,      \* slot content: an object that was moved from
          Nothing     \* no object returned yet

ASSUME CapacityAssumption == Capacity \in Nat \ {0}
ASSUME ContentAssumption ==
  /\ Raw \notin Value /\ Moved \notin Value /\ Nothing \notin Value
  /\ Raw # Moved

VARIABLES writeIndex, readIndex,               \* the two atomics
          cachedReadIndex, cachedWriteIndex,   \* each thread's last look
          slots,                               \* the raw storage
          ppc, pushing,                        \* producer: pc and argument
          cpc, popped, returned,               \* consumer: pc, local, result
          owner                                \* "threads" or "destructor"

producerVars == <<writeIndex, cachedReadIndex, ppc, pushing>>
consumerVars == <<readIndex, cachedWriteIndex, cpc, popped, returned>>
vars == <<writeIndex, readIndex, cachedReadIndex, cachedWriteIndex, slots,
          ppc, pushing, cpc, popped, returned, owner>>

Index == 0 .. Capacity - 1

(* What if: wrapping to the second slot. *)
IncrementPastZero(i) == IF i = Capacity - 1 THEN 1 % Capacity ELSE i + 1

Increment(i) == (i + 1) % Capacity

(* size(): how far the read position is behind the write position. *)
Size(read, write) == IF write >= read THEN write - read
                                      ELSE Capacity - read + write

(* What an acquire load of an index may return: every position between the *)
(* one this thread saw last and the present one.                           *)
Visible(seen, now) == {i \in Index : Size(seen, i) <= Size(seen, now)}

Init ==
  /\ writeIndex = 0 /\ readIndex = 0
  /\ cachedReadIndex = 0 /\ cachedWriteIndex = 0
  /\ slots = [i \in Index |-> Raw]
  /\ ppc = "idle" /\ pushing = Nothing
  /\ cpc = "idle" /\ popped = Nothing /\ returned = Nothing
  /\ owner = "threads"
-----------------------------------------------------------------------------
(* push *)

(* What if: push did not look whether there is room. *)
PushCallUnchecked(v) ==
  /\ owner = "threads" /\ ppc = "idle"
  /\ ppc' = "construct" /\ pushing' = v
  /\ UNCHANGED <<writeIndex, cachedReadIndex, slots, owner>>
  /\ UNCHANGED consumerVars

PushCall(v) ==
  /\ owner = "threads" /\ ppc = "idle"
  /\ ppc' = IF Increment(writeIndex) = cachedReadIndex
              THEN "refresh" ELSE "construct"
  /\ pushing' = v
  /\ UNCHANGED <<writeIndex, cachedReadIndex, slots, owner>>
  /\ UNCHANGED consumerVars

(* What if: a push gave up before the fresh index, or went on whatever it. *)
RefreshAndGiveUp(seen) ==
  /\ ppc = "refresh" /\ seen \in Visible(cachedReadIndex, readIndex)
  /\ ppc' = "idle" /\ pushing' = Nothing
  /\ UNCHANGED <<writeIndex, cachedReadIndex, slots, owner>>
  /\ UNCHANGED consumerVars

RefreshAndGoOn(seen) ==
  /\ ppc = "refresh" /\ seen \in Visible(cachedReadIndex, readIndex)
  /\ cachedReadIndex' = seen /\ ppc' = "construct"
  /\ UNCHANGED <<writeIndex, pushing, slots, owner>> /\ UNCHANGED consumerVars

(* The queue looks full: look at the consumer's position, and give up     *)
(* (push returns false) if it still does.                                 *)
RefreshReadIndex(seen) ==
  /\ ppc = "refresh"
  /\ seen \in Visible(cachedReadIndex, readIndex)
  /\ cachedReadIndex' = seen
  /\ IF Increment(writeIndex) = seen
       THEN ppc' = "idle" /\ pushing' = Nothing
       ELSE ppc' = "construct" /\ UNCHANGED pushing
  /\ UNCHANGED <<writeIndex, slots, owner>> /\ UNCHANGED consumerVars

Construct ==
  /\ ppc = "construct"
  /\ slots' = [slots EXCEPT ![writeIndex] = pushing]
  /\ ppc' = "publish"
  /\ UNCHANGED <<writeIndex, cachedReadIndex, pushing, owner>>
  /\ UNCHANGED consumerVars

Publish ==
  /\ ppc = "publish"
  /\ writeIndex' = Increment(writeIndex)
  /\ ppc' = "idle" /\ pushing' = Nothing
  /\ UNCHANGED <<cachedReadIndex, slots, owner>> /\ UNCHANGED consumerVars

Producer == \/ \E v \in Value : PushCall(v)
            \/ \E seen \in Index : RefreshReadIndex(seen)
            \/ Construct
            \/ Publish
-----------------------------------------------------------------------------
(* pop, called by the consumer thread or by the destructor's drain loop *)

(* What if: pop did not look at its cached index. *)
StartPopBlindly == cpc' = "move"

StartPop == cpc' = IF readIndex = cachedWriteIndex THEN "refresh" ELSE "move"

PopCall ==
  /\ owner = "threads" /\ cpc = "idle"
  /\ StartPop
  /\ UNCHANGED <<readIndex, cachedWriteIndex, popped, returned, slots, owner>>
  /\ UNCHANGED producerVars

(* Once the threads are joined nothing lags any more. *)
RefreshWriteIndex(seen) ==
  /\ cpc = "refresh"
  /\ IF owner = "threads" THEN seen \in Visible(cachedWriteIndex, writeIndex)
                          ELSE seen = writeIndex
  /\ cachedWriteIndex' = seen
  /\ cpc' = IF readIndex = seen THEN "idle" ELSE "move"
  /\ UNCHANGED <<readIndex, popped, returned, slots, owner>>
  /\ UNCHANGED producerVars

MoveOut ==
  /\ cpc = "move"
  /\ popped' = slots[readIndex]
  /\ slots' = [slots EXCEPT ![readIndex] = Moved]
  /\ cpc' = "destroy"
  /\ UNCHANGED <<readIndex, cachedWriteIndex, returned, owner>>
  /\ UNCHANGED producerVars

DestroySlot ==
  /\ cpc = "destroy"
  /\ slots' = [slots EXCEPT ![readIndex] = Raw]
  /\ cpc' = "release"
  /\ UNCHANGED <<readIndex, cachedWriteIndex, popped, returned, owner>>
  /\ UNCHANGED producerVars

Release ==
  /\ cpc = "release"
  /\ readIndex' = Increment(readIndex)
  /\ returned' = popped /\ popped' = Nothing
  /\ cpc' = "idle"
  /\ UNCHANGED <<cachedWriteIndex, slots, owner>> /\ UNCHANGED producerVars

Consumer == \/ PopCall
            \/ \E seen \in Index : RefreshWriteIndex(seen)
            \/ MoveOut
            \/ DestroySlot
            \/ Release
-----------------------------------------------------------------------------
(* ~SpscRingBuffer(): runs after both threads were joined. *)

Destruct ==
  /\ owner = "threads" /\ ppc = "idle" /\ cpc = "idle"
  /\ owner' = "destructor"
  /\ UNCHANGED slots /\ UNCHANGED producerVars /\ UNCHANGED consumerVars

Drain ==
  /\ owner = "destructor" /\ cpc = "idle"
  /\ readIndex # writeIndex
  /\ StartPop
  /\ UNCHANGED <<readIndex, cachedWriteIndex, popped, returned, slots, owner>>
  /\ UNCHANGED producerVars

FreeStorage ==
  /\ owner = "destructor" /\ cpc = "idle"
  /\ readIndex = writeIndex
  /\ owner' = "freed"
  /\ UNCHANGED slots /\ UNCHANGED producerVars /\ UNCHANGED consumerVars

Next == Producer \/ Consumer \/ Destruct \/ Drain \/ FreeStorage

Spec == Init /\ [][Next]_vars

(* Both threads are scheduled for ever; the consumer keeps polling, which  *)
(* is what every consumer loop in app/ does.  An atomic store becomes      *)
(* visible to a thread that keeps loading, but not at the first load.      *)
Fairness ==
  /\ WF_vars(Construct) /\ WF_vars(Publish)
  /\ WF_vars(\E seen \in Index : RefreshReadIndex(seen))
  /\ SF_vars(RefreshReadIndex(readIndex))
  /\ WF_vars(Consumer)
  /\ SF_vars(RefreshWriteIndex(writeIndex))
  /\ WF_vars(Drain) /\ WF_vars(FreeStorage)

FairSpec == Spec /\ Fairness
-----------------------------------------------------------------------------
TypeOK ==
  /\ writeIndex \in Index /\ readIndex \in Index
  /\ cachedReadIndex \in Index /\ cachedWriteIndex \in Index
  /\ slots \in [Index -> Value \cup {Raw, Moved}]
  /\ ppc \in {"idle", "refresh", "construct", "publish"}
  /\ pushing \in Value \cup {Nothing}
  /\ cpc \in {"idle", "refresh", "move", "destroy", "release"}
  /\ popped \in Value \cup {Nothing}
  /\ returned \in Value \cup {Nothing}
  /\ owner \in {"threads", "destructor", "freed"}

(* Going round the ring one meets the producer's view of the read          *)
(* position, the read position, the consumer's view of the write position  *)
(* and the write position, in this order: "It may safely be stale".        *)
StaleViewsAreSafe ==
  /\ Size(cachedReadIndex, writeIndex)
       = Size(cachedReadIndex, readIndex) + Size(readIndex, writeIndex)
  /\ Size(readIndex, writeIndex)
       = Size(readIndex, cachedWriteIndex) + Size(cachedWriteIndex, writeIndex)

(* A pop that found an object still has one; a push that found room still  *)
(* has it, and holds the object it was called with.                        *)
ChecksStayTrue ==
  /\ ppc \in {"construct", "publish"} =>
       /\ Increment(writeIndex) # cachedReadIndex
       /\ pushing \in Value
  /\ ppc = "refresh" => pushing \in Value
  /\ cpc \in {"move", "destroy", "release"} => readIndex # cachedWriteIndex
  /\ cpc \in {"destroy", "release"} => popped \in Value
  /\ owner # "threads" => ppc = "idle"
  /\ owner = "freed" => cpc = "idle" /\ readIndex = writeIndex

(* What each slot holds is determined by the two indices and by how far a  *)
(* push and a pop in progress have come.                                   *)
Occupied(i) == Size(readIndex, i) < Size(readIndex, writeIndex)

LiveObjects ==
  /\ \A i \in Index :
       Occupied(i) /\ ~(i = readIndex /\ cpc \in {"destroy", "release"})
         => slots[i] \in Value
  /\ \A i \in Index :
       ~Occupied(i) /\ ~(i = writeIndex /\ ppc = "publish") => slots[i] = Raw
  /\ cpc = "destroy" => slots[readIndex] = Moved
  /\ cpc = "release" => slots[readIndex] = Raw
  /\ ppc = "publish" => slots[writeIndex] = pushing

IInv == TypeOK /\ StaleViewsAreSafe /\ ChecksStayTrue /\ LiveObjects
-----------------------------------------------------------------------------
(* push (lines 309-311) constructs into a slot that holds no object: with  *)
(* stale cached indices and a pop half done, no object is ever overwritten *)
(* before it was moved out and destroyed.  And pop (lines 415-417) moves   *)
(* out of a live object, never out of raw storage or one already popped.   *)
SlotsAreUsedRight ==
  /\ ppc = "construct" => slots[writeIndex] = Raw
  /\ cpc = "move" => slots[readIndex] \in Value

(* The two threads never work on one slot at the same time: between its    *)
(* check and its index store, push has a slot to itself (lines 306-318),   *)
(* and so has pop (lines 412-426).                                         *)
NoDataRace ==
  (ppc \in {"construct", "publish"} /\ cpc \in {"move", "destroy", "release"})
    => writeIndex # readIndex

(* When the storage is freed (lines 507-520) no slot holds an object, so   *)
(* every object that was constructed was destroyed.                        *)
NothingLeaked == owner = "freed" => \A i \in Index : slots[i] = Raw
-----------------------------------------------------------------------------
(* The queue as its users see it: the objects between the two indices, the *)
(* one being popped included until its slot is released.                   *)

Position(k) == LET i == readIndex + k
               IN  IF i < Capacity THEN i ELSE i - Capacity

Queued == [k \in 1 .. Size(readIndex, writeIndex) |->
             IF k = 1 /\ cpc \in {"destroy", "release"}
               THEN popped ELSE slots[Position(k - 1)]]

Fifo == INSTANCE BoundedFifo
          WITH Limit <- Capacity - 1, q <- Queued, out <- returned

(* The ring buffer implements the bounded FIFO queue: publishing appends,  *)
(* releasing takes the head, and nothing else a thread does is visible.    *)
ImplementsFifo == Fifo!FifoSpec

(* Transfers go on however stale the indices: every object a push          *)
(* constructs is eventually moved out and destroyed by a pop, the          *)
(* destructor's own pops included, and a producer that retries a push that *)
(* found the queue full gets in as long as the consumer keeps popping.     *)
TransfersGoOn ==
  /\ \A i \in Index : (slots[i] \in Value) ~> (slots[i] = Raw)
  /\ []<>(ppc = "refresh") => []<>(ppc = "construct")
=============================================================================
