----------------------------- MODULE OrderStore -----------------------------
(***************************************************************************)
(* common/market_data/normalized/OrderStore.h: the open-addressing table   *)
(* of active orders.  Collisions go to the next free slot, and removal     *)
(* shifts entries back over the hole, so that no tombstones are needed.    *)
(*                                                                         *)
(* One step is one iteration of a loop.  The hash function is any function *)
(* to the slots; Data is what a slot keeps with the id: the rest of the    *)
(* order and the handle of its price level.                                *)
(***************************************************************************)
EXTENDS Naturals, FiniteSets

CONSTANTS Capacity,      \* slots; 2^22 in the code
          OrderId, Data,
          Hash,          \* the home slot of every order id
          Empty, NoCall, NoData

Index == 0 .. Capacity - 1

ASSUME CapacityAssumption == Capacity \in Nat \ {0}
ASSUME HashAssumption == Hash \in [OrderId -> Index]
ASSUME EmptyAssumption == Empty \notin [id : OrderId, data : Data]

Call == [op : {"add", "find", "amend", "remove"}, id : OrderId, data : Data]
ASSUME NoCallAssumption == NoCall \notin Call /\ NoData \notin Data

VARIABLES
  slots,          \* slots_: Empty, or the entry of an occupied slot
  size, peakSize,
  pc,             \* "idle", "probe" (the search) or "shift" (in removeAt)
  call,           \* the call being searched for, or NoCall
  index, probe,   \* of the search
  hole, current,  \* of removeAt()
  answer          \* what the last call returned

search == <<call, index, probe>>
removal == <<hole, current>>
storeVars == <<slots, size, peakSize, pc, search, removal, answer>>

(* (i + 1) & Mask and (to - from) & Mask *)
Following(i) == IF i + 1 = Capacity THEN 0 ELSE i + 1
Distance(from, to) == IF to >= from THEN to - from ELSE to - from + Capacity

StoreInit ==
  /\ slots = [i \in Index |-> Empty] /\ size = 0 /\ peakSize = 0
  /\ pc = "idle" /\ call = NoCall /\ index = 0 /\ probe = 0
  /\ hole = 0 /\ current = 0
  /\ answer = [ok |-> FALSE, data |-> NoData]

(* add(order, level), findIterator(id) and stored(), the same followed by  *)
(* an assignment to order.quantity, and findIterator(id) and removeAt().   *)
Begin(c) ==
  /\ pc = "idle"
  /\ call' = c /\ index' = Hash[c.id] /\ probe' = 0
  /\ pc' = "probe"
  /\ UNCHANGED <<slots, size, peakSize, removal, answer>>

Return(ok, data) ==
  /\ pc' = "idle" /\ call' = NoCall
  /\ answer' = [ok |-> ok, data |-> data]
  /\ index' = 0 /\ probe' = 0

(* All slots were looked at. *)
ProbedAll ==
  /\ pc = "probe" /\ probe = Capacity
  /\ Return(FALSE, NoData)
  /\ UNCHANGED <<slots, size, peakSize, removal>>

(* What if: the search did not count how many slots it has looked at. *)
ProbeOnAndOn ==
  /\ pc = "probe" /\ slots[index] # Empty /\ slots[index].id # call.id
  /\ index' = Following(index)
  /\ UNCHANGED <<slots, size, peakSize, pc, call, probe, removal, answer>>

ProbeNext ==
  /\ pc = "probe" /\ probe < Capacity
  /\ slots[index] # Empty /\ slots[index].id # call.id
  /\ index' = Following(index) /\ probe' = probe + 1
  /\ UNCHANGED <<slots, size, peakSize, pc, call, removal, answer>>

(* An empty slot ends the search: the order is not there. *)
NotFound ==
  /\ pc = "probe" /\ probe < Capacity
  /\ slots[index] = Empty /\ call.op # "add"
  /\ Return(FALSE, NoData)
  /\ UNCHANGED <<slots, size, peakSize, removal>>

Insert ==
  /\ pc = "probe" /\ probe < Capacity
  /\ slots[index] = Empty /\ call.op = "add"
  /\ slots' = [slots EXCEPT ![index] = [id |-> call.id, data |-> call.data]]
  /\ size' = size + 1
  /\ peakSize' = IF size + 1 > peakSize THEN size + 1 ELSE peakSize
  /\ Return(TRUE, NoData)
  /\ UNCHANGED removal

Hit == /\ pc = "probe" /\ probe < Capacity
       /\ slots[index] # Empty /\ slots[index].id = call.id

AddDuplicate == /\ Hit /\ call.op = "add"
                /\ Return(FALSE, NoData)
                /\ UNCHANGED <<slots, size, peakSize, removal>>

Found == /\ Hit /\ call.op = "find"
         /\ Return(TRUE, slots[index].data)
         /\ UNCHANGED <<slots, size, peakSize, removal>>

AmendInPlace ==
  /\ Hit /\ call.op = "amend"
  /\ slots' = [slots EXCEPT ![index].data = call.data]
  /\ Return(TRUE, NoData)
  /\ UNCHANGED <<size, peakSize, removal>>

(* What if: removal only emptied the slot, as without collisions. *)
EmptyTheSlot ==
  /\ Hit /\ call.op = "remove"
  /\ slots' = [slots EXCEPT ![index] = Empty] /\ size' = size - 1
  /\ Return(TRUE, NoData)
  /\ UNCHANGED <<peakSize, removal>>

(* removeAt(): from here the order at the hole does not count any more. *)
RemoveAt ==
  /\ Hit /\ call.op = "remove"
  /\ hole' = index /\ current' = Following(index)
  /\ pc' = "shift" /\ call' = NoCall /\ index' = 0 /\ probe' = 0
  /\ answer' = [ok |-> TRUE, data |-> NoData]
  /\ UNCHANGED <<slots, size, peakSize>>

(* What if: only entries in their home slot were left in place. *)
NotAtHome(i) == Hash[slots[i].id] # i

(* The entry at `current' may go to the hole if it is reached by way of it. *)
ReachedThroughHole(i) ==
  LET home == Hash[slots[i].id] IN Distance(home, hole) < Distance(home, i)

MoveBack ==
  /\ pc = "shift" /\ slots[current] # Empty /\ ReachedThroughHole(current)
  /\ slots' = [slots EXCEPT ![hole] = slots[current]]
  /\ hole' = current
  /\ current' = Following(current)
  /\ UNCHANGED <<size, peakSize, pc, search, answer>>

LeaveInPlace ==
  /\ pc = "shift" /\ slots[current] # Empty /\ ~ReachedThroughHole(current)
  /\ current' = Following(current)
  /\ UNCHANGED <<slots, size, peakSize, pc, search, hole, answer>>

CloseHole ==
  /\ pc = "shift" /\ slots[current] = Empty
  /\ slots' = [slots EXCEPT ![hole] = Empty]
  /\ size' = size - 1
  /\ pc' = "idle" /\ hole' = 0 /\ current' = 0
  /\ UNCHANGED <<peakSize, search, answer>>

Step == \/ ProbedAll \/ ProbeNext \/ NotFound \/ Insert
        \/ AddDuplicate \/ Found \/ AmendInPlace \/ RemoveAt
        \/ MoveBack \/ LeaveInPlace \/ CloseHole

StoreNext == Step \/ \E c \in Call : Begin(c)

StoreSpec == StoreInit /\ [][StoreNext]_storeVars

(* The loops of a call that was made go on. *)
FairStoreSpec == StoreSpec /\ WF_storeVars(Step)
-----------------------------------------------------------------------------
Entry == [id : OrderId, data : Data]

TypeOK ==
  /\ slots \in [Index -> Entry \cup {Empty}]
  /\ size \in Nat /\ peakSize \in Nat
  /\ pc \in {"idle", "probe", "shift"}
  /\ call \in Call \cup {NoCall} /\ (pc = "probe" <=> call # NoCall)
  /\ index \in Index /\ probe \in 0 .. Capacity
  /\ hole \in Index /\ current \in Index
  /\ answer \in [ok : BOOLEAN, data : Data \cup {NoData}]

Occupied == {i \in Index : slots[i] # Empty}

(* The slots whose entries count: while removeAt() shifts, what is at the  *)
(* hole is the removed order or a copy of an entry that was moved.         *)
Live == IF pc = "shift" THEN Occupied \ {hole} ELSE Occupied

(* Linear probing finds what it looks for: the way from the home of every  *)
(* entry to its slot has no empty slot on it, and no id is there twice.    *)
ProbesReach ==
  \A i \in Live : \A j \in Index :
    Distance(Hash[slots[i].id], j) < Distance(Hash[slots[i].id], i)
      => slots[j] # Empty
IdsAreUnique == \A i, j \in Live : slots[i].id = slots[j].id => i = j

(* What the search has passed by is not what it looks for. *)
SearchMissed ==
  pc = "probe" =>
    LET home == Hash[call.id]
    IN  /\ IF probe = Capacity THEN index = home ELSE probe = Distance(home, index)
        /\ \A j \in Index : Distance(home, j) < probe =>
             slots[j] # Empty /\ slots[j].id # call.id

(* Between the hole and `current' all slots are occupied, and no entry     *)
(* there is reached by way of the hole.                                    *)
ShiftedIsSettled ==
  pc = "shift" =>
    /\ slots[hole] # Empty
    /\ \A i \in Index :
         Distance(hole, i) < Distance(hole, current) =>
           /\ slots[i] # Empty
           /\ i # hole => ~ReachedThroughHole(i)

(* size() is the number of occupied slots, and never passed peakSize().    *)
SizeIsRight == size = Cardinality(Occupied) /\ size <= peakSize

StoreInv == /\ TypeOK /\ ProbesReach /\ IdsAreUnique /\ SearchMissed
            /\ ShiftedIsSettled /\ SizeIsRight

(* The table is the map ItchMarketState takes it for: it never loses, mixes *)
(* up or resurrects an order, and answers every lookup rightly.            *)
SlotOf(k) == CHOOSE i \in Live : slots[i].id = k
Stored == [k \in {slots[i].id : i \in Live} |-> slots[SlotOf(k)].data]

Map == INSTANCE OrderMap WITH map <- Stored, Limit <- Capacity
ImplementsMap == Map!MapSpec

(* Every call returns, on a full table too: a search ends after all slots  *)
(* (lines 299 and 568).  The one exception is a removal that has found its *)
(* order in a table without an empty slot, for an empty slot is all that   *)
(* removeAt() waits for (line 471).                                        *)
CallsReturn ==
  /\ (pc = "probe") ~> (pc = "shift" \/ pc = "idle")
  /\ (pc = "probe" /\ call.op # "remove") ~> (pc = "idle")
  /\ (pc = "shift" /\ Occupied # Index) ~> (pc = "idle")
=============================================================================
