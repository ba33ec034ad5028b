-------------------------- MODULE OrderStoreProofs --------------------------
(* The open-addressing table for every number of slots, every hash         *)
(* function and every sequence of calls: probing finds what is stored, a   *)
(* removal that shifts entries loses and duplicates none, and the table is *)
(* the map that the market state takes it for.                             *)
EXTENDS OrderStore, FiniteSetTheorems, TLAPS

USE CapacityAssumption

-----------------------------------------------------------------------------
(* Going round the table *)

LEMMA DistanceType ==
  ASSUME NEW a \in Index, NEW b \in Index
  PROVE  Distance(a, b) \in Index /\ Distance(a, b) \in Nat /\ (Distance(a, b) = 0 <=> a = b)
BY DEF Index, Distance

LEMMA DistanceInjective ==
  ASSUME NEW h \in Index, NEW a \in Index, NEW b \in Index, Distance(h, a) = Distance(h, b)
  PROVE  a = b
BY DEF Index, Distance

(* From h one passes a before i, and from a one passes c before i: then    *)
(* one passes c before i from h too.                                       *)
LEMMA Between ==
  ASSUME NEW h \in Index, NEW a \in Index, NEW c \in Index, NEW i \in Index,
         Distance(h, a) < Distance(h, i), Distance(a, c) < Distance(a, i)
  PROVE  Distance(h, c) < Distance(h, i)
BY DEF Index, Distance

LEMMA FollowingType ==
  ASSUME NEW i \in Index
  PROVE  Following(i) \in Index
BY DEF Index, Following

(* One slot on is one further away, or back at the start. *)
LEMMA FollowingDistance ==
  ASSUME NEW h \in Index, NEW i \in Index
  PROVE  \/ Following(i) = h /\ Distance(h, i) + 1 = Capacity /\ Distance(h, Following(i)) = 0
         \/ Following(i) # h /\ Distance(h, Following(i)) = Distance(h, i) + 1
BY DEF Index, Following, Distance

(* What lies before the next slot lies before this one or is this one. *)
LEMMA BeforeFollowing ==
  ASSUME NEW h \in Index, NEW i \in Index, NEW j \in Index,
         Distance(h, j) < Distance(h, Following(i))
  PROVE  Distance(h, j) < Distance(h, i) \/ j = i
BY DEF Index, Following, Distance
-----------------------------------------------------------------------------
LEMMA SlotType ==
  ASSUME TypeOK
  PROVE  /\ Empty \notin Entry
         /\ \A i \in Index : slots[i] # Empty =>
              /\ slots[i] \in Entry /\ slots[i].id \in OrderId /\ slots[i].data \in Data
              /\ Hash[slots[i].id] \in Index
<1>1. Empty \notin Entry
  BY EmptyAssumption DEF Entry
<1>2. ASSUME NEW i \in Index, slots[i] # Empty
      PROVE  /\ slots[i] \in Entry /\ slots[i].id \in OrderId /\ slots[i].data \in Data
             /\ Hash[slots[i].id] \in Index
  <2>1. slots[i] \in Entry
    BY <1>2 DEF TypeOK
  <2>2. slots[i].id \in OrderId /\ slots[i].data \in Data
    BY <2>1 DEF Entry
  <2>3. QED
    BY <2>1, <2>2, HashAssumption
<1>3. QED
  BY <1>1, <1>2

LEMMA IndexIsFinite == IsFiniteSet(Index) /\ Cardinality(Index) = Capacity
<1>1. IsFiniteSet(0 .. Capacity - 1) /\ Cardinality(0 .. Capacity - 1) = Capacity
  BY FS_Interval
<1>2. QED
  BY <1>1 DEF Index

LEMMA OccupiedIsFinite ==
  /\ IsFiniteSet(Occupied) /\ Cardinality(Occupied) \in Nat
  /\ Cardinality(Occupied) <= Capacity
  /\ Cardinality(Occupied) = Capacity => Occupied = Index
BY IndexIsFinite, FS_Subset, FS_CardinalityType DEF Occupied

LEMMA CallType ==
  ASSUME TypeOK, pc = "probe"
  PROVE  call \in Call /\ call.id \in OrderId /\ call.data \in Data /\ Hash[call.id] \in Index
<1>1. call \in Call
  BY DEF TypeOK
<1>2. call.id \in OrderId /\ call.data \in Data
  BY <1>1 DEF Call
<1>3. QED
  BY <1>1, <1>2, HashAssumption
-----------------------------------------------------------------------------
(* Steps that leave the table alone *)

LEMMA TableStays ==
  ASSUME StoreInv, UNCHANGED <<slots, size, peakSize>>, (pc = "shift") = FALSE, (pc' = "shift") = FALSE
  PROVE  ProbesReach' /\ IdsAreUnique' /\ SizeIsRight' /\ ShiftedIsSettled'
<1>1. Occupied' = Occupied /\ Live = Occupied /\ Live' = Occupied'
  BY DEF Occupied, Live
<1>2. ProbesReach' /\ IdsAreUnique'
  BY <1>1 DEF StoreInv, ProbesReach, IdsAreUnique
<1>3. SizeIsRight' /\ ShiftedIsSettled'
  BY <1>1 DEF StoreInv, SizeIsRight, ShiftedIsSettled
<1>4. QED
  BY <1>2, <1>3

LEMMA ReturnType ==
  ASSUME StoreInv, NEW ok \in BOOLEAN, NEW data \in Data \cup {NoData}, Return(ok, data),
         UNCHANGED removal,
         slots' \in [Index -> Entry \cup {Empty}], size' \in Nat, peakSize' \in Nat
  PROVE  TypeOK' /\ SearchMissed' /\ ShiftedIsSettled'
<1>1. 0 \in Index /\ 0 \in 0 .. Capacity
  BY DEF Index
<1>2. TypeOK'
  BY <1>1 DEF StoreInv, TypeOK, Return, removal
<1>3. QED
  BY <1>2 DEF Return, SearchMissed, ShiftedIsSettled

(* A call that only answers. *)
LEMMA AnswerSteps ==
  ASSUME StoreInv, ProbedAll \/ NotFound \/ AddDuplicate \/ Found
  PROVE  StoreInv'
<1>1. pc = "probe" /\ UNCHANGED <<slots, size, peakSize, removal>>
  BY DEF ProbedAll, NotFound, AddDuplicate, Found, Hit
<1>2. \E ok \in BOOLEAN, data \in Data \cup {NoData} : Return(ok, data)
  <2>1. CASE Found
    <3>1. index \in Index /\ slots[index] # Empty
      BY <2>1 DEF Found, Hit, StoreInv, TypeOK
    <3>2. slots[index].data \in Data
      BY <3>1, SlotType DEF StoreInv
    <3>3. QED
      BY <2>1, <3>2 DEF Found
  <2>2. CASE ProbedAll \/ NotFound \/ AddDuplicate
    BY <2>2 DEF ProbedAll, NotFound, AddDuplicate
  <2>3. QED
    BY <2>1, <2>2
<1>3. slots' \in [Index -> Entry \cup {Empty}] /\ size' \in Nat /\ peakSize' \in Nat
  BY <1>1 DEF StoreInv, TypeOK
<1>4. TypeOK' /\ SearchMissed' /\ ShiftedIsSettled'
  BY <1>1, <1>2, <1>3, ReturnType
<1>5. pc' = "idle"
  BY <1>2 DEF Return
<1>6. QED
  BY <1>1, <1>4, <1>5, TableStays DEF StoreInv

LEMMA BeginSteps == ASSUME StoreInv, NEW c \in Call, Begin(c) PROVE StoreInv'
<1>1. /\ pc = "idle" /\ pc' = "probe" /\ call' = c /\ index' = Hash[c.id] /\ probe' = 0
      /\ UNCHANGED <<slots, size, peakSize, hole, current, answer>>
  BY DEF Begin, removal
<1>2. c.id \in OrderId /\ Hash[c.id] \in Index /\ c # NoCall
  BY HashAssumption, NoCallAssumption DEF Call
<1>3. TypeOK'
  BY <1>1, <1>2 DEF StoreInv, TypeOK
<1>4. SearchMissed'
  <2>1. Distance(Hash[c.id], Hash[c.id]) = 0
    BY <1>2, DistanceType
  <2>2. \A j \in Index : ~(Distance(Hash[c.id], j) < 0)
    <3>1. ASSUME NEW j \in Index PROVE ~(Distance(Hash[c.id], j) < 0)
      BY <1>2, DistanceType
    <3>2. QED
      BY <3>1
  <2>3. QED
    BY <1>1, <2>1, <2>2 DEF SearchMissed
<1>5. QED
  BY <1>1, <1>3, <1>4, TableStays DEF StoreInv

LEMMA ProbeSteps == ASSUME StoreInv, ProbeNext PROVE StoreInv'
<1>1. /\ pc = "probe" /\ pc' = "probe" /\ probe < Capacity
      /\ slots[index] # Empty /\ slots[index].id # call.id
      /\ index' = Following(index) /\ probe' = probe + 1
      /\ UNCHANGED <<slots, size, peakSize, call, hole, current, answer>>
  BY DEF ProbeNext, removal
<1>2. index \in Index /\ probe \in Nat /\ probe \in 0 .. Capacity
  BY DEF StoreInv, TypeOK
<1>3. TypeOK'
  <2>1. probe + 1 \in 0 .. Capacity
    BY <1>1, <1>2
  <2>2. Following(index) \in Index
    BY <1>2, FollowingType
  <2>3. QED
    BY <1>1, <2>1, <2>2 DEF StoreInv, TypeOK
<1>4. SearchMissed'
  <2> DEFINE home == Hash[call.id]
  <2>1. home \in Index
    BY <1>1, CallType DEF StoreInv
  <2>2. /\ probe = Distance(home, index)
        /\ \A j \in Index : Distance(home, j) < probe => slots[j] # Empty /\ slots[j].id # call.id
    BY <1>1, <1>2 DEF StoreInv, SearchMissed
  <2> HIDE DEF home
  <2>3. IF probe + 1 = Capacity THEN Following(index) = home
                                ELSE probe + 1 = Distance(home, Following(index))
    <3>1. \/ /\ Following(index) = home /\ Distance(home, index) + 1 = Capacity
             /\ Distance(home, Following(index)) = 0
          \/ /\ Following(index) # home
             /\ Distance(home, Following(index)) = Distance(home, index) + 1
      BY <1>2, <2>1, FollowingDistance
    <3>2. Distance(home, Following(index)) \in Index
      BY <1>2, <2>1, FollowingType, DistanceType
    <3>3. QED
      BY <2>2, <3>1, <3>2 DEF Index
  <2>4. ASSUME NEW j \in Index, Distance(home, j) < probe + 1
        PROVE  slots[j] # Empty /\ slots[j].id # call.id
    <3>1. CASE Distance(home, j) < probe
      BY <2>2, <3>1
    <3>2. CASE Distance(home, j) = probe
      BY <1>1, <1>2, <2>1, <2>2, <3>2, DistanceInjective
    <3>3. Distance(home, j) \in Nat
      BY <2>1, DistanceType
    <3>4. QED
      BY <1>2, <2>4, <3>1, <3>2, <3>3
  <2>5. QED
    BY <1>1, <2>3, <2>4 DEF SearchMissed, home
<1>5. QED
  BY <1>1, <1>3, <1>4, TableStays DEF StoreInv
-----------------------------------------------------------------------------
(* A search that ends at an empty slot proves that the order is not there. *)
LEMMA SearchIsComplete ==
  ASSUME StoreInv, pc = "probe", probe < Capacity, slots[index] = Empty,
         NEW i \in Live
  PROVE  slots[i].id # call.id
<1>1. /\ i \in Index /\ slots[i] # Empty /\ index \in Index /\ probe \in Nat
      /\ Hash[call.id] \in Index
  BY CallType DEF Live, Occupied, StoreInv, TypeOK
<1>2. SUFFICES ASSUME slots[i].id = call.id PROVE FALSE
  OBVIOUS
<1>3. /\ probe = Distance(Hash[call.id], index)
      /\ \A j \in Index : Distance(Hash[call.id], j) < probe => slots[j].id # call.id
  BY <1>1 DEF StoreInv, SearchMissed
<1>4. ~(Distance(Hash[call.id], index) < Distance(Hash[call.id], i))
  BY <1>1, <1>2 DEF StoreInv, ProbesReach
<1>5. ~(Distance(Hash[call.id], i) < probe)
  BY <1>1, <1>2, <1>3
<1>6. Distance(Hash[call.id], i) \in Nat
  BY <1>1, DistanceType
<1>7. Distance(Hash[call.id], i) = Distance(Hash[call.id], index)
  BY <1>1, <1>3, <1>4, <1>5, <1>6
<1>8. i = index
  BY <1>1, <1>7, DistanceInjective
<1>9. QED
  BY <1>1, <1>8

LEMMA InsertSteps == ASSUME StoreInv, Insert PROVE StoreInv'
<1> DEFINE entry == [id |-> call.id, data |-> call.data]
<1>1. /\ pc = "probe" /\ pc' = "idle" /\ probe < Capacity /\ slots[index] = Empty
      /\ slots' = [slots EXCEPT ![index] = entry]
      /\ size' = size + 1 /\ peakSize' = (IF size + 1 > peakSize THEN size + 1 ELSE peakSize)
      /\ Return(TRUE, NoData) /\ UNCHANGED removal
  BY DEF Insert, Return
<1>2. /\ index \in Index /\ size \in Nat /\ peakSize \in Nat /\ probe \in Nat
      /\ slots \in [Index -> Entry \cup {Empty}]
  BY DEF StoreInv, TypeOK
<1>3. /\ entry \in Entry /\ entry # Empty /\ entry.id = call.id /\ Hash[call.id] \in Index
  BY <1>1, CallType, EmptyAssumption DEF Entry, StoreInv
<1> HIDE DEF entry
<1>4. /\ slots' \in [Index -> Entry \cup {Empty}]
      /\ slots'[index] = entry
      /\ \A j \in Index : j # index => slots'[j] = slots[j]
  BY <1>1, <1>2, <1>3
<1>5. TypeOK' /\ SearchMissed' /\ ShiftedIsSettled'
  <2>1. size' \in Nat /\ peakSize' \in Nat
    BY <1>1, <1>2
  <2>2. QED
    BY <1>1, <1>4, <2>1, ReturnType
<1>6. /\ Live = Occupied /\ Live' = Occupied' /\ Occupied' = Occupied \cup {index}
      /\ index \notin Occupied
  BY <1>1, <1>2, <1>3, <1>4 DEF Live, Occupied
<1>7. SizeIsRight'
  <2>1. Cardinality(Occupied \cup {index}) = Cardinality(Occupied) + 1
    BY <1>6, OccupiedIsFinite, FS_AddElement
  <2>2. QED
    BY <1>1, <1>2, <1>6, <2>1 DEF StoreInv, SizeIsRight
<1>8. ProbesReach'
  <2>1. ASSUME NEW i \in Live', NEW j \in Index,
               Distance(Hash[slots'[i].id], j) < Distance(Hash[slots'[i].id], i)
        PROVE  slots'[j] # Empty
    <3>1. SUFFICES ASSUME j # index PROVE slots[j] # Empty
      BY <1>2, <1>3, <1>4
    <3>2. CASE i = index
      <4>1. Distance(Hash[call.id], j) < Distance(Hash[call.id], index)
        BY <1>3, <1>4, <2>1, <3>2
      <4>2. Distance(Hash[call.id], index) = probe
        BY <1>1, <1>2 DEF StoreInv, SearchMissed
      <4>3. QED
        BY <1>1, <4>1, <4>2 DEF StoreInv, SearchMissed
    <3>3. CASE i # index
      <4>1. i \in Live /\ i \in Index /\ slots'[i] = slots[i]
        BY <1>4, <1>6, <3>3 DEF Occupied
      <4>2. QED
        BY <2>1, <4>1 DEF StoreInv, ProbesReach
    <3>4. QED
      BY <3>2, <3>3
  <2>2. QED
    BY <2>1 DEF ProbesReach
<1>9. IdsAreUnique'
  <2>1. ASSUME NEW i \in Live', NEW j \in Live', slots'[i].id = slots'[j].id PROVE i = j
    <3>1. \A k \in Live : slots[k].id # call.id
      BY <1>1, SearchIsComplete
    <3>2. \A k \in Live : k \in Index /\ k # index /\ slots'[k] = slots[k]
      BY <1>4, <1>6 DEF Occupied
    <3>3. i \in Live \/ i = index
      BY <1>6
    <3>4. j \in Live \/ j = index
      BY <1>6
    <3>5. QED
      BY <1>3, <1>4, <2>1, <3>1, <3>2, <3>3, <3>4 DEF StoreInv, IdsAreUnique
  <2>2. QED
    BY <2>1 DEF IdsAreUnique
<1>10. QED
  BY <1>5, <1>7, <1>8, <1>9 DEF StoreInv

LEMMA AmendSteps == ASSUME StoreInv, AmendInPlace PROVE StoreInv'
<1>1. /\ pc = "probe" /\ pc' = "idle" /\ slots[index] # Empty
      /\ slots' = [slots EXCEPT ![index].data = call.data]
      /\ Return(TRUE, NoData) /\ UNCHANGED <<size, peakSize, removal>>
  BY DEF AmendInPlace, Hit, Return
<1>2. /\ index \in Index /\ size \in Nat /\ peakSize \in Nat
      /\ slots \in [Index -> Entry \cup {Empty}] /\ slots[index] \in Entry
      /\ call.data \in Data /\ Empty \notin Entry
  BY <1>1, CallType, SlotType DEF StoreInv, TypeOK
<1> DEFINE entry == [slots[index] EXCEPT !.data = call.data]
<1>3. entry \in Entry /\ entry.id = slots[index].id
  BY <1>2 DEF Entry
<1>4. /\ slots' \in [Index -> Entry \cup {Empty}]
      /\ slots'[index] = entry
      /\ \A j \in Index : j # index => slots'[j] = slots[j]
  BY <1>1, <1>2, <1>3
<1> HIDE DEF entry
<1>5. TypeOK' /\ SearchMissed' /\ ShiftedIsSettled'
  <2>1. size' \in Nat /\ peakSize' \in Nat
    BY <1>1, <1>2
  <2>2. QED
    BY <1>1, <1>4, <2>1, ReturnType
<1>6. \A j \in Index : (slots'[j] = Empty <=> slots[j] = Empty) /\ slots'[j].id = slots[j].id
  BY <1>1, <1>2, <1>3, <1>4
<1>7. Live = Occupied /\ Live' = Occupied' /\ Occupied' = Occupied
  BY <1>1, <1>6 DEF Live, Occupied
<1>8. ProbesReach' /\ IdsAreUnique' /\ SizeIsRight'
  <2>1. \A i \in Live : i \in Index
    BY <1>7 DEF Occupied
  <2>2. ProbesReach'
    BY <1>6, <1>7, <2>1 DEF StoreInv, ProbesReach
  <2>3. IdsAreUnique'
    BY <1>6, <1>7, <2>1 DEF StoreInv, IdsAreUnique
  <2>4. SizeIsRight'
    BY <1>1, <1>7 DEF StoreInv, SizeIsRight
  <2>5. QED
    BY <2>2, <2>3, <2>4
<1>9. QED
  BY <1>5, <1>8 DEF StoreInv
-----------------------------------------------------------------------------
(* removeAt() *)

LEMMA RemoveAtSteps == ASSUME StoreInv, RemoveAt PROVE StoreInv'
<1>1. /\ pc = "probe" /\ pc' = "shift" /\ slots[index] # Empty
      /\ hole' = index /\ current' = Following(index) /\ call' = NoCall
      /\ index' = 0 /\ probe' = 0 /\ answer' = [ok |-> TRUE, data |-> NoData]
      /\ UNCHANGED <<slots, size, peakSize>>
  BY DEF RemoveAt, Hit
<1>2. index \in Index /\ Following(index) \in Index /\ 0 \in Index /\ 0 \in 0 .. Capacity
  BY FollowingType DEF StoreInv, TypeOK, Index
<1>3. TypeOK'
  BY <1>1, <1>2 DEF StoreInv, TypeOK
<1>4. Occupied' = Occupied /\ Live = Occupied /\ Live' = Occupied \ {index}
  BY <1>1 DEF Occupied, Live
<1>5. ProbesReach' /\ IdsAreUnique'
  BY <1>1, <1>4 DEF StoreInv, ProbesReach, IdsAreUnique
<1>6. SizeIsRight' /\ SearchMissed'
  BY <1>1, <1>4 DEF StoreInv, SizeIsRight, SearchMissed
<1>7. ShiftedIsSettled'
  <2>1. ASSUME NEW i \in Index, Distance(index, i) < Distance(index, Following(index))
        PROVE  i = index
    <3>1. Distance(index, i) < Distance(index, index) \/ i = index
      BY <1>2, <2>1, BeforeFollowing
    <3>2. Distance(index, index) = 0 /\ Distance(index, i) \in Nat
      BY <1>2, DistanceType
    <3>3. QED
      BY <3>1, <3>2
  <2>2. QED
    BY <1>1, <2>1 DEF ShiftedIsSettled
<1>8. QED
  BY <1>3, <1>5, <1>6, <1>7 DEF StoreInv

LEMMA LeaveSteps == ASSUME StoreInv, LeaveInPlace PROVE StoreInv'
<1>1. /\ pc = "shift" /\ pc' = "shift" /\ slots[current] # Empty /\ ~ReachedThroughHole(current)
      /\ current' = Following(current)
      /\ UNCHANGED <<slots, size, peakSize, call, index, probe, hole, answer>>
  BY DEF LeaveInPlace, search
<1>2. hole \in Index /\ current \in Index /\ Following(current) \in Index
  BY FollowingType DEF StoreInv, TypeOK
<1>3. TypeOK'
  BY <1>1, <1>2 DEF StoreInv, TypeOK
<1>4. Occupied' = Occupied /\ Live' = Live
  BY <1>1 DEF Occupied, Live
<1>5. ProbesReach' /\ IdsAreUnique' /\ SizeIsRight' /\ SearchMissed'
  BY <1>1, <1>4 DEF StoreInv, ProbesReach, IdsAreUnique, SizeIsRight, SearchMissed
<1>6. ShiftedIsSettled'
  <2>1. ASSUME NEW i \in Index, Distance(hole, i) < Distance(hole, Following(current))
        PROVE  slots[i] # Empty /\ (i # hole => ~ReachedThroughHole(i))
    <3>1. Distance(hole, i) < Distance(hole, current) \/ i = current
      BY <1>2, <2>1, BeforeFollowing
    <3>2. QED
      BY <1>1, <3>1 DEF StoreInv, ShiftedIsSettled
  <2>2. slots[hole] # Empty
    BY <1>1 DEF StoreInv, ShiftedIsSettled
  <2>3. QED
    BY <1>1, <2>1, <2>2 DEF ShiftedIsSettled, ReachedThroughHole
<1>7. QED
  BY <1>3, <1>5, <1>6 DEF StoreInv

LEMMA MoveSteps == ASSUME StoreInv, MoveBack PROVE StoreInv'
<1> DEFINE home == Hash[slots[current].id]
<1>1. /\ pc = "shift" /\ pc' = "shift" /\ slots[current] # Empty
      /\ Distance(home, hole) < Distance(home, current)
      /\ slots' = [slots EXCEPT ![hole] = slots[current]]
      /\ hole' = current /\ current' = Following(current)
      /\ UNCHANGED <<size, peakSize, call, index, probe, answer>>
  BY DEF MoveBack, search, ReachedThroughHole
<1>2. /\ hole \in Index /\ current \in Index /\ Following(current) \in Index
      /\ slots \in [Index -> Entry \cup {Empty}] /\ slots[hole] # Empty
  BY <1>1, FollowingType DEF StoreInv, TypeOK, ShiftedIsSettled
<1>3. home \in Index
  BY <1>1, <1>2, SlotType DEF StoreInv
<1>4. hole # current
  <2>1. Distance(home, current) \in Nat
    BY <1>2, <1>3, DistanceType
  <2>2. QED
    BY <1>1, <2>1
<1>5. /\ slots' \in [Index -> Entry \cup {Empty}] /\ slots'[hole] = slots[current]
      /\ \A j \in Index : j # hole => slots'[j] = slots[j]
  BY <1>1, <1>2
<1>6. TypeOK'
  BY <1>1, <1>2, <1>5 DEF StoreInv, TypeOK
<1>7. \A j \in Index : slots[j] # Empty => slots'[j] # Empty
  BY <1>1, <1>5
<1>8. Occupied' = Occupied /\ Live = Occupied \ {hole} /\ Live' = Occupied \ {current}
  BY <1>1, <1>2, <1>5 DEF Occupied, Live
<1>9. current \in Live
  BY <1>1, <1>2, <1>4, <1>8 DEF Occupied
<1>10. \A i \in Live' : i \in Index /\ (i = hole \/ (i \in Live /\ i # current /\ slots'[i] = slots[i]))
  BY <1>5, <1>8 DEF Occupied
<1>11. ProbesReach'
  <2>1. ASSUME NEW i \in Live', NEW j \in Index,
               Distance(Hash[slots'[i].id], j) < Distance(Hash[slots'[i].id], i)
        PROVE  slots'[j] # Empty
    <3>1. CASE i = hole
      <4>1. Distance(home, j) < Distance(home, hole)
        BY <1>5, <2>1, <3>1
      <4>2. /\ Distance(home, j) \in Nat /\ Distance(home, hole) \in Nat
            /\ Distance(home, current) \in Nat
        BY <1>2, <1>3, DistanceType
      <4>3. Distance(home, j) < Distance(home, current)
        BY <1>1, <4>1, <4>2
      <4>4. slots[j] # Empty
        BY <1>9, <4>3 DEF StoreInv, ProbesReach
      <4>5. QED
        BY <1>7, <4>4
    <3>2. CASE i \in Live /\ slots'[i] = slots[i]
      <4>1. slots[j] # Empty
        BY <2>1, <3>2 DEF StoreInv, ProbesReach
      <4>2. QED
        BY <1>7, <4>1
    <3>3. QED
      BY <1>10, <3>1, <3>2
  <2>2. QED
    BY <2>1 DEF ProbesReach
<1>12. IdsAreUnique'
  <2>1. ASSUME NEW i \in Live', NEW j \in Live', slots'[i].id = slots'[j].id PROVE i = j
    <3>1. \A k \in Live : slots[k].id = slots[current].id => k = current
      BY <1>9 DEF StoreInv, IdsAreUnique
    <3>2. i # hole /\ j # hole => i = j
      BY <1>10, <2>1 DEF StoreInv, IdsAreUnique
    <3>3. QED
      BY <1>5, <1>10, <2>1, <3>1, <3>2
  <2>2. QED
    BY <2>1 DEF IdsAreUnique
<1>13. SizeIsRight' /\ SearchMissed'
  BY <1>1, <1>8 DEF StoreInv, SizeIsRight, SearchMissed
<1>14. ShiftedIsSettled'
  <2>1. ASSUME NEW i \in Index, Distance(current, i) < Distance(current, Following(current))
        PROVE  i = current
    <3>1. Distance(current, i) < Distance(current, current) \/ i = current
      BY <1>2, <2>1, BeforeFollowing
    <3>2. Distance(current, current) = 0 /\ Distance(current, i) \in Nat
      BY <1>2, DistanceType
    <3>3. QED
      BY <3>1, <3>2
  <2>2. slots'[current] # Empty
    BY <1>1, <1>2, <1>7
  <2>3. QED
    BY <1>1, <2>1, <2>2 DEF ShiftedIsSettled
<1>15. QED
  BY <1>6, <1>11, <1>12, <1>13, <1>14 DEF StoreInv

LEMMA CloseSteps == ASSUME StoreInv, CloseHole PROVE StoreInv'
<1>1. /\ pc = "shift" /\ pc' = "idle" /\ slots[current] = Empty
      /\ slots' = [slots EXCEPT ![hole] = Empty] /\ size' = size - 1
      /\ hole' = 0 /\ current' = 0
      /\ UNCHANGED <<peakSize, call, index, probe, answer>>
  BY DEF CloseHole, search
<1>2. /\ hole \in Index /\ current \in Index /\ 0 \in Index /\ size \in Nat /\ peakSize \in Nat
      /\ slots \in [Index -> Entry \cup {Empty}] /\ slots[hole] # Empty
  BY <1>1 DEF StoreInv, TypeOK, ShiftedIsSettled, Index
<1>3. /\ slots' \in [Index -> Entry \cup {Empty}] /\ slots'[hole] = Empty
      /\ \A j \in Index : j # hole => slots'[j] = slots[j]
  BY <1>1, <1>2
<1>4. /\ Live = Occupied \ {hole} /\ Live' = Occupied' /\ Occupied' = Occupied \ {hole}
      /\ hole \in Occupied
  BY <1>1, <1>2, <1>3 DEF Live, Occupied
<1>5. SizeIsRight' /\ size' \in Nat
  <2>1. /\ Cardinality(Occupied \ {hole}) = Cardinality(Occupied) - 1
        /\ IsFiniteSet(Occupied \ {hole})
    BY <1>4, OccupiedIsFinite, FS_RemoveElement
  <2>2. Cardinality(Occupied \ {hole}) \in Nat
    BY <2>1, FS_CardinalityType
  <2>3. size = Cardinality(Occupied) /\ size <= peakSize
    BY DEF StoreInv, SizeIsRight
  <2>4. size - 1 \in Nat /\ size - 1 = Cardinality(Occupied \ {hole}) /\ size - 1 <= peakSize
    BY <1>2, <2>1, <2>2, <2>3
  <2>5. QED
    BY <1>1, <1>4, <2>4 DEF SizeIsRight
<1>6. TypeOK'
  BY <1>1, <1>2, <1>3, <1>5 DEF StoreInv, TypeOK
<1>7. ASSUME NEW i \in Live
      PROVE  ~(Distance(Hash[slots[i].id], hole) < Distance(Hash[slots[i].id], i))
  <2> DEFINE home == Hash[slots[i].id]
  <2>1. i \in Index /\ slots[i] # Empty /\ i # hole /\ home \in Index
    BY <1>4, SlotType DEF Occupied, StoreInv
  <2>2. CASE Distance(hole, i) < Distance(hole, current)
    BY <1>1, <2>1, <2>2 DEF StoreInv, ShiftedIsSettled, ReachedThroughHole
  <2>3. CASE Distance(hole, current) < Distance(hole, i)
    <3>1. SUFFICES ASSUME Distance(home, hole) < Distance(home, i) PROVE FALSE
      OBVIOUS
    <3>2. Distance(home, current) < Distance(home, i)
      BY <1>2, <2>1, <2>3, <3>1, Between
    <3>3. QED
      BY <1>1, <1>2, <3>2 DEF StoreInv, ProbesReach
  <2>4. CASE Distance(hole, current) = Distance(hole, i)
    <3>1. i = current
      BY <1>2, <2>1, <2>4, DistanceInjective
    <3>2. QED
      BY <1>1, <2>1, <3>1
  <2>5. Distance(hole, i) \in Nat /\ Distance(hole, current) \in Nat
    BY <1>2, <2>1, DistanceType
  <2>6. QED
    BY <2>2, <2>3, <2>4, <2>5
<1>8. \A i \in Live : i \in Index /\ slots'[i] = slots[i]
  BY <1>3, <1>4 DEF Occupied
<1>9. ProbesReach'
  <2>1. ASSUME NEW i \in Live, NEW j \in Index,
               Distance(Hash[slots[i].id], j) < Distance(Hash[slots[i].id], i)
        PROVE  slots'[j] # Empty
    <3>1. j # hole
      BY <1>7, <2>1
    <3>2. slots[j] # Empty
      BY <2>1 DEF StoreInv, ProbesReach
    <3>3. QED
      BY <1>3, <3>1, <3>2
  <2>2. Live' = Live
    BY <1>4
  <2>3. QED
    BY <1>8, <2>1, <2>2 DEF ProbesReach
<1>10. IdsAreUnique'
  BY <1>4, <1>8 DEF StoreInv, IdsAreUnique
<1>11. SearchMissed' /\ ShiftedIsSettled'
  BY <1>1 DEF SearchMissed, ShiftedIsSettled
<1>12. QED
  BY <1>5, <1>6, <1>9, <1>10, <1>11 DEF StoreInv
-----------------------------------------------------------------------------
LEMMA StoreBegins == StoreInit => StoreInv
<1> SUFFICES ASSUME StoreInit PROVE StoreInv
  OBVIOUS
<1> USE DEF StoreInit
<1>1. 0 \in Index /\ 0 \in 0 .. Capacity
  BY DEF Index
<1>2. TypeOK
  BY <1>1 DEF TypeOK
<1>3. Occupied = {} /\ Live = {}
  BY DEF Occupied, Live
<1>4. SizeIsRight
  BY <1>3, FS_EmptySet DEF SizeIsRight
<1>5. QED
  BY <1>2, <1>3, <1>4 DEF StoreInv, ProbesReach, IdsAreUnique, SearchMissed, ShiftedIsSettled

LEMMA StoreSteps == ASSUME StoreInv, [StoreNext]_storeVars PROVE StoreInv'
<1>1. CASE UNCHANGED storeVars
  <2>1. UNCHANGED <<slots, size, peakSize, pc, call, index, probe, hole, current, answer>>
    BY <1>1 DEF storeVars, search, removal
  <2>2. Occupied' = Occupied /\ Live' = Live
    BY <2>1 DEF Occupied, Live
  <2>3. QED
    BY <2>1, <2>2 DEF StoreInv, TypeOK, ProbesReach, IdsAreUnique, SearchMissed,
       ShiftedIsSettled, SizeIsRight, ReachedThroughHole
<1>2. CASE Step
  BY <1>2, AnswerSteps, ProbeSteps, InsertSteps, AmendSteps, RemoveAtSteps, MoveSteps,
     LeaveSteps, CloseSteps DEF Step
<1>3. CASE \E c \in Call : Begin(c)
  BY <1>3, BeginSteps
<1>4. QED
  BY <1>1, <1>2, <1>3 DEF StoreNext

(* Whatever was added, amended and removed, in whatever order and with     *)
(* whatever collisions: every order stored is reached from its home slot,  *)
(* none is there twice, also while a removal shifts entries over its hole. *)
THEOREM TableIsSound == StoreSpec => []StoreInv
<1>1. QED
  BY StoreBegins, StoreSteps, PTL DEF StoreSpec
-----------------------------------------------------------------------------
(* The table is a map. *)

(* Looking up the id of an entry gives what is stored with it. *)
LEMMA StoredType ==
  ASSUME IdsAreUnique
  PROVE  /\ DOMAIN Stored = {slots[i].id : i \in Live}
         /\ Stored = [k \in DOMAIN Stored |-> Stored[k]]
         /\ \A i \in Live : Stored[slots[i].id] = slots[i].data
<1>1. Stored = [k \in {slots[i].id : i \in Live} |-> slots[SlotOf(k)].data]
  BY DEF Stored
<1>2. ASSUME NEW i \in Live PROVE SlotOf(slots[i].id) = i
  <2>1. SlotOf(slots[i].id) \in Live /\ slots[SlotOf(slots[i].id)].id = slots[i].id
    BY Zenon DEF SlotOf
  <2>2. QED
    BY <2>1 DEF IdsAreUnique
<1>3. DOMAIN Stored = {slots[i].id : i \in Live}
  BY <1>1
<1>4. ASSUME NEW i \in Live PROVE Stored[slots[i].id] = slots[i].data
  <2>1. slots[i].id \in {slots[j].id : j \in Live}
    OBVIOUS
  <2>2. Stored[slots[i].id] = slots[SlotOf(slots[i].id)].data
    BY <1>1, <2>1
  <2>3. QED
    BY <1>2, <2>2
<1>5. Stored = [k \in DOMAIN Stored |-> Stored[k]]
  BY <1>1, <1>3
<1>6. QED
  BY <1>3, <1>4, <1>5

(* After a step, the map is the one that has what every entry holds. *)
LEMMA NextStored ==
  ASSUME IdsAreUnique', NEW D, NEW f, f = [k \in D |-> f[k]],
         \A i \in Live' : slots'[i].id \in D /\ f[slots'[i].id] = slots'[i].data,
         \A k \in D : \E i \in Live' : slots'[i].id = k
  PROVE  Stored' = f
<1>1. Stored' = [k \in {slots'[i].id : i \in Live'} |-> slots'[SlotOf(k)'].data]
  BY DEF Stored
<1>2. ASSUME NEW k \in D PROVE slots'[SlotOf(k)'].data = f[k]
  <2>1. PICK i \in Live' : slots'[i].id = k
    OBVIOUS
  <2>2. SlotOf(k)' \in Live' /\ slots'[SlotOf(k)'].id = k
    BY <2>1, Zenon DEF SlotOf
  <2>3. QED
    BY <2>2
<1>3. {slots'[i].id : i \in Live'} = D
  OBVIOUS
<1>4. Stored' = [k \in D |-> slots'[SlotOf(k)'].data]
  BY <1>1, <1>3
<1>5. QED
  BY <1>2, <1>4

LEMMA MapCardinality == ASSUME NEW S PROVE Map!Cardinality(S) = Cardinality(S)
BY DEF Map!Cardinality, Cardinality

(* As many orders are stored as there are entries that count. *)
LEMMA StoredCardinality ==
  ASSUME IdsAreUnique, IsFiniteSet(Live)
  PROVE  Cardinality(DOMAIN Stored) = Cardinality(Live)
<1> DEFINE f == [i \in Live |-> slots[i].id]
           Ids == {slots[i].id : i \in Live}
<1>1. f \in [Live -> Ids]
  OBVIOUS
<1>2. \A i, j \in Live : f[i] = f[j] => i = j
  BY DEF IdsAreUnique
<1>3. \A k \in Ids : \E i \in Live : f[i] = k
  OBVIOUS
<1> HIDE DEF f
<1>4. f \in Surjection(Live, Ids)
  BY <1>1, <1>3 DEF Surjection
<1>5. f \in Injection(Live, Ids)
  BY <1>1, <1>2 DEF Injection, IsInjective
<1> HIDE DEF Ids
<1>6. Cardinality(Ids) = Cardinality(Live)
  BY <1>4, <1>5, FS_Surjection
<1>7. QED
  BY <1>6, StoredType DEF Ids

(* A search that went round the table, or to an empty slot, has missed     *)
(* nothing.                                                                *)
LEMMA NotStored ==
  ASSUME StoreInv, pc = "probe",
         probe = Capacity \/ (probe < Capacity /\ slots[index] = Empty)
  PROVE  call.id \notin DOMAIN Stored
<1>1. SUFFICES ASSUME NEW i \in Live PROVE slots[i].id # call.id
  BY StoredType DEF StoreInv
<1>2. CASE probe = Capacity
  <2>1. i \in Index /\ Hash[call.id] \in Index
    BY CallType DEF Live, Occupied, StoreInv
  <2>2. Distance(Hash[call.id], i) \in 0 .. Capacity - 1
    BY <2>1, DistanceType DEF Index
  <2>3. Distance(Hash[call.id], i) < probe
    BY <1>2, <2>2
  <2>4. QED
    BY <2>1, <2>3 DEF StoreInv, SearchMissed
<1>3. CASE probe < Capacity /\ slots[index] = Empty
  BY <1>3, SearchIsComplete
<1>4. QED
  BY <1>2, <1>3

(* What a search has at hand. *)
LEMMA SearchingCall ==
  ASSUME StoreInv, pc = "probe"
  PROVE  call \in Call /\ call # NoCall /\ Live = Occupied
BY CallType, NoCallAssumption DEF StoreInv, TypeOK, Live

(* A search that missed is answered as a map without the order answers. *)
LEMMA MissRefines ==
  ASSUME StoreInv, StoreInv', ProbedAll \/ NotFound
  PROVE  Map!Add \/ Map!Find \/ Map!Amend \/ Map!Remove
<1>1. /\ pc = "probe" /\ pc' = "idle" /\ slots' = slots
      /\ call' = NoCall /\ answer' = [ok |-> FALSE, data |-> NoData]
  BY DEF ProbedAll, NotFound, Return
<1>2. Live' = Live
  BY <1>1 DEF Live, Occupied
<1>3. Stored' = Stored
  BY <1>1, <1>2 DEF Stored, SlotOf
<1>4. call.id \notin DOMAIN Stored
  BY <1>1, NotStored DEF ProbedAll, NotFound
<1>5. call \in Call /\ call # NoCall
  BY <1>1, SearchingCall
<1>6. Stored = [k \in DOMAIN Stored |-> Stored[k]]
  BY StoredType DEF StoreInv
<1>7. (call.id \in DOMAIN Stored) = FALSE
  BY ONLY <1>4, SMT
<1>8. CASE call.op = "add"
  <2>1. probe = Capacity
    BY <1>8 DEF ProbedAll, NotFound
  <2>2. Live = Index
    <3>1. \A i \in Index : slots[i] # Empty
      <4>1. ASSUME NEW i \in Index PROVE slots[i] # Empty
        <5>1. Hash[call.id] \in Index
          BY <1>1, CallType DEF StoreInv
        <5>2. Distance(Hash[call.id], i) \in 0 .. Capacity - 1
          BY <5>1, DistanceType DEF Index
        <5>3. Distance(Hash[call.id], i) < probe
          BY <2>1, <5>2
        <5>4. QED
          BY <1>1, <5>3 DEF StoreInv, SearchMissed
      <4>2. QED
        BY <4>1
    <3>2. QED
      BY <1>1, <3>1 DEF Live, Occupied
  <2>3. ~(Cardinality(DOMAIN Stored) < Capacity)
    BY <2>2, IndexIsFinite, StoredCardinality DEF StoreInv
  <2>4. ~(Map!Cardinality(DOMAIN Stored) < Capacity)
    BY <2>3, MapCardinality
  <2>5. Map!Answer(FALSE, NoData)
    BY <1>1 DEF Map!Answer
  <2>6. QED
    BY ONLY <1>3, <1>4, <1>5, <1>8, <2>4, <2>5, Zenon DEF Map!Add
<1>9. CASE call.op = "find"
  BY <1>1, <1>3, <1>4, <1>5, <1>9 DEF Map!Find, Map!Answer
<1>10. CASE call.op = "amend"
  <2>1. Stored = [k \in DOMAIN Stored |-> IF k = call.id THEN call.data ELSE Stored[k]]
    BY <1>4, <1>6
  <2>2. Map!Answer(call.id \in DOMAIN Stored, NoData)
    BY ONLY <1>1, <1>7, Zenon DEF Map!Answer
  <2>3. QED
    BY ONLY <1>3, <1>5, <1>10, <2>1, <2>2 DEF Map!Amend
<1>11. CASE call.op = "remove"
  <2>1. DOMAIN Stored \ {call.id} = DOMAIN Stored
    BY <1>4
  <2>2. Map!Answer(call.id \in DOMAIN Stored, NoData)
    BY ONLY <1>1, <1>7, Zenon DEF Map!Answer
  <2>3. QED
    BY ONLY <1>3, <1>5, <1>6, <1>11, <2>1, <2>2 DEF Map!Remove
<1>12. QED
  BY <1>5, <1>8, <1>9, <1>10, <1>11 DEF Call

(* A search that hit finds the order in the map. *)
LEMMA HitIsStored ==
  ASSUME StoreInv, Hit
  PROVE  /\ index \in Live /\ slots[index].id = call.id
         /\ call.id \in DOMAIN Stored /\ Stored[call.id] = slots[index].data
<1>1. index \in Live /\ slots[index].id = call.id
  BY DEF Hit, Live, Occupied, StoreInv, TypeOK
<1>2. QED
  BY <1>1, StoredType DEF StoreInv

LEMMA InsertRefines == ASSUME StoreInv, StoreInv', Insert PROVE Map!Add
<1> DEFINE entry == [id |-> call.id, data |-> call.data]
           D == DOMAIN Stored \cup {call.id}
           f == [k \in D |-> IF k = call.id THEN call.data ELSE Stored[k]]
<1>1. /\ pc = "probe" /\ pc' = "idle" /\ probe < Capacity /\ slots[index] = Empty
      /\ call.op = "add" /\ slots' = [slots EXCEPT ![index] = entry]
      /\ call' = NoCall /\ answer' = [ok |-> TRUE, data |-> NoData]
  BY DEF Insert, Return
<1>2. index \in Index /\ slots \in [Index -> Entry \cup {Empty}]
  BY DEF StoreInv, TypeOK
<1>3. entry # Empty /\ entry.id = call.id /\ entry.data = call.data
  BY <1>1, CallType, EmptyAssumption DEF Entry, StoreInv
<1> HIDE DEF entry
<1>4. slots'[index] = entry /\ \A j \in Index : j # index => slots'[j] = slots[j]
  BY <1>1, <1>2
<1>5. /\ Live = Occupied /\ Live' = Occupied \cup {index}
      /\ index \notin Occupied
  BY <1>1, <1>2, <1>3, <1>4 DEF Live, Occupied
<1>6. call.id \notin DOMAIN Stored
  BY <1>1, NotStored
<1>7. Cardinality(DOMAIN Stored) < Capacity
  <2>1. Cardinality(DOMAIN Stored) = Cardinality(Occupied)
    BY <1>5, OccupiedIsFinite, StoredCardinality DEF StoreInv
  <2>2. Occupied # Index
    BY <1>2, <1>5
  <2>3. QED
    BY <2>1, <2>2, OccupiedIsFinite
<1>8. Stored' = f
  <2>1. ASSUME NEW i \in Live'
        PROVE  /\ slots'[i].id \in D
               /\ f[slots'[i].id] = slots'[i].data
    <3>1. CASE i = index
      BY <1>3, <1>4, <3>1
    <3>2. CASE i # index
      <4>1. i \in Live /\ slots'[i] = slots[i]
        BY <1>4, <1>5, <3>2 DEF Occupied
      <4>2. slots[i].id \in DOMAIN Stored /\ Stored[slots[i].id] = slots[i].data
        BY <4>1, StoredType DEF StoreInv
      <4>3. slots[i].id # call.id
        BY <1>6, <4>2
      <4>4. QED
        BY <4>1, <4>2, <4>3
    <3>3. QED
      BY <3>1, <3>2
  <2>2. ASSUME NEW k \in D PROVE \E i \in Live' : slots'[i].id = k
    <3>1. CASE k = call.id
      BY <1>3, <1>4, <1>5, <3>1
    <3>2. CASE k \in DOMAIN Stored
      <4>1. PICK i \in Live : slots[i].id = k
        BY <3>2, StoredType DEF StoreInv
      <4>2. i \in Live' /\ slots'[i] = slots[i]
        BY <1>4, <1>5, <4>1 DEF Occupied
      <4>3. QED
        BY <4>1, <4>2
    <3>3. QED
      BY <3>1, <3>2
  <2>3. f = [k \in D |-> f[k]]
    OBVIOUS
  <2>4. IdsAreUnique'
    BY DEF StoreInv
  <2> HIDE DEF f, D
  <2>5. QED
    BY ONLY <2>1, <2>2, <2>3, <2>4, NextStored
<1>9. call # NoCall
  BY <1>1, SearchingCall
<1>10. Map!Cardinality(DOMAIN Stored) < Capacity
  BY <1>7, MapCardinality
<1>11. Map!Answer(TRUE, NoData)
  BY <1>1 DEF Map!Answer
<1>12. call.op = "add"
  BY <1>1
<1>13. QED
  BY ONLY <1>6, <1>8, <1>9, <1>10, <1>11, <1>12, Zenon DEF Map!Add

(* An order that is there is answered as by the map, and left alone. *)
LEMMA AnswerRefines ==
  ASSUME StoreInv, StoreInv', AddDuplicate \/ Found
  PROVE  Map!Add \/ Map!Find
<1>1. /\ Hit /\ pc = "probe" /\ pc' = "idle" /\ slots' = slots /\ call' = NoCall
  BY DEF AddDuplicate, Found, Hit, Return
<1>2. Live' = Live
  BY <1>1 DEF Live, Occupied
<1>3. Stored' = Stored
  BY <1>1, <1>2 DEF Stored, SlotOf
<1>4. call.id \in DOMAIN Stored /\ Stored[call.id] = slots[index].data /\ call # NoCall
  BY <1>1, HitIsStored, SearchingCall
<1>5. CASE AddDuplicate
  <2>1. Map!Answer(FALSE, NoData) /\ call.op = "add"
    BY <1>5 DEF AddDuplicate, Return, Map!Answer
  <2>2. QED
    BY ONLY <1>3, <1>4, <2>1, Zenon DEF Map!Add
<1>6. CASE Found
  <2>1. Map!Answer(TRUE, Stored[call.id]) /\ call.op = "find"
    BY <1>4, <1>6 DEF Found, Return, Map!Answer
  <2>2. QED
    BY ONLY <1>3, <1>4, <2>1, Zenon DEF Map!Find
<1>7. QED
  BY <1>5, <1>6

LEMMA AmendRefines == ASSUME StoreInv, StoreInv', AmendInPlace PROVE Map!Amend
<1> DEFINE D == DOMAIN Stored
           f == [k \in D |-> IF k = call.id THEN call.data ELSE Stored[k]]
<1>1. /\ Hit /\ pc = "probe" /\ pc' = "idle" /\ slots[index] # Empty
      /\ slots' = [slots EXCEPT ![index].data = call.data]
      /\ call' = NoCall /\ answer' = [ok |-> TRUE, data |-> NoData]
      /\ call.op = "amend"
  BY DEF AmendInPlace, Hit, Return
<1>2. index \in Index /\ slots \in [Index -> Entry \cup {Empty}] /\ slots[index] \in Entry
  BY <1>1 DEF StoreInv, TypeOK
<1>3. /\ slots'[index] = [slots[index] EXCEPT !.data = call.data]
      /\ \A j \in Index : j # index => slots'[j] = slots[j]
  BY <1>1, <1>2
<1>4. /\ slots'[index].id = slots[index].id /\ slots'[index].data = call.data
      /\ slots'[index] \in Entry
  BY <1>1, <1>2, <1>3, CallType DEF Entry, StoreInv
<1>5. Live = Occupied /\ Live' = Live
  BY <1>1, <1>2, <1>3, <1>4, EmptyAssumption DEF Live, Occupied, Entry
<1>6. index \in Live /\ slots[index].id = call.id /\ call.id \in D /\ call # NoCall
  BY <1>1, HitIsStored, SearchingCall
<1>7. \A i \in Live : i # index => slots[i].id # call.id
  BY <1>6 DEF StoreInv, IdsAreUnique
<1>8. \A i \in Live : i # index => slots'[i] = slots[i]
  BY <1>3, <1>5 DEF Occupied
<1>9. Stored' = f
  <2>1. ASSUME NEW i \in Live' PROVE slots'[i].id \in D /\ f[slots'[i].id] = slots'[i].data
    <3>1. i \in Live /\ slots[i].id \in D /\ Stored[slots[i].id] = slots[i].data
      BY <1>5, StoredType DEF StoreInv
    <3>2. CASE i = index
      BY <1>4, <1>6, <3>2
    <3>3. CASE i # index
      BY <1>7, <1>8, <3>1, <3>3
    <3>4. QED
      BY <3>2, <3>3
  <2>2. ASSUME NEW k \in D PROVE \E i \in Live' : slots'[i].id = k
    <3>1. PICK i \in Live : slots[i].id = k
      BY StoredType DEF StoreInv
    <3>2. slots'[i].id = k
      BY <1>4, <1>8, <3>1
    <3>3. QED
      BY <1>5, <3>2
  <2>3. f = [k \in D |-> f[k]]
    OBVIOUS
  <2>4. IdsAreUnique'
    BY DEF StoreInv
  <2> HIDE DEF f, D
  <2>5. QED
    BY ONLY <2>1, <2>2, <2>3, <2>4, NextStored
<1>10. (call.id \in DOMAIN Stored) = TRUE
  BY <1>6, Zenon
<1>11. Map!Answer(call.id \in DOMAIN Stored, NoData)
  BY ONLY <1>1, <1>10, Zenon DEF Map!Answer
<1>12. call # NoCall /\ call.op = "amend"
  BY <1>1, <1>6
<1>13. QED
  BY ONLY <1>9, <1>11, <1>12 DEF Map!Amend

(* The order is gone from the map when removeAt() begins. *)
LEMMA RemoveRefines == ASSUME StoreInv, StoreInv', RemoveAt PROVE Map!Remove
<1> DEFINE D == DOMAIN Stored \ {call.id}
           f == [k \in D |-> Stored[k]]
<1>1. /\ Hit /\ pc = "probe" /\ pc' = "shift" /\ slots[index] # Empty /\ slots' = slots
      /\ hole' = index /\ call' = NoCall /\ answer' = [ok |-> TRUE, data |-> NoData]
      /\ call.op = "remove"
  BY DEF RemoveAt, Hit
<1>2. /\ index \in Live /\ slots[index].id = call.id /\ call.id \in DOMAIN Stored
      /\ call # NoCall
  BY <1>1, HitIsStored, SearchingCall
<1>3. Live' = Live \ {index}
  BY <1>1 DEF Live, Occupied
<1>4. Stored' = f
  <2>1. ASSUME NEW i \in Live' PROVE slots'[i].id \in D /\ f[slots'[i].id] = slots'[i].data
    <3>1. i \in Live /\ i # index /\ slots'[i] = slots[i]
      BY <1>1, <1>3
    <3>2. slots[i].id # call.id
      BY <1>2, <3>1 DEF StoreInv, IdsAreUnique
    <3>3. slots[i].id \in DOMAIN Stored /\ Stored[slots[i].id] = slots[i].data
      BY <3>1, StoredType DEF StoreInv
    <3>4. QED
      BY <3>1, <3>2, <3>3
  <2>2. ASSUME NEW k \in D PROVE \E i \in Live' : slots'[i].id = k
    <3>1. PICK i \in Live : slots[i].id = k
      BY StoredType DEF StoreInv
    <3>2. i # index
      BY <1>2, <3>1
    <3>3. QED
      BY <1>1, <1>3, <3>1, <3>2
  <2>3. f = [k \in D |-> f[k]]
    OBVIOUS
  <2>4. IdsAreUnique'
    BY DEF StoreInv
  <2> HIDE DEF f, D
  <2>5. QED
    BY ONLY <2>1, <2>2, <2>3, <2>4, NextStored
<1>5. (call.id \in DOMAIN Stored) = TRUE
  BY <1>2, Zenon
<1>6. Map!Answer(call.id \in DOMAIN Stored, NoData)
  BY ONLY <1>1, <1>5, Zenon DEF Map!Answer
<1>7. call # NoCall /\ call.op = "remove"
  BY <1>1, <1>2
<1>8. QED
  BY ONLY <1>4, <1>6, <1>7 DEF Map!Remove

(* Moving an entry to the hole moves the hole to where it was. *)
LEMMA MoveKeepsMap == ASSUME StoreInv, StoreInv', MoveBack PROVE Stored' = Stored
<1>1. /\ pc = "shift" /\ pc' = "shift" /\ slots[current] # Empty /\ hole' = current
      /\ slots' = [slots EXCEPT ![hole] = slots[current]]
      /\ Distance(Hash[slots[current].id], hole) < Distance(Hash[slots[current].id], current)
  BY DEF MoveBack, ReachedThroughHole
<1>2. /\ hole \in Index /\ current \in Index /\ slots[hole] # Empty
      /\ slots \in [Index -> Entry \cup {Empty}]
  BY <1>1 DEF StoreInv, TypeOK, ShiftedIsSettled
<1>3. hole # current
  <2>1. Hash[slots[current].id] \in Index
    BY <1>1, <1>2, SlotType, HashAssumption DEF StoreInv
  <2>2. SUFFICES ASSUME hole = current PROVE FALSE
    OBVIOUS
  <2>3. Distance(Hash[slots[current].id], hole) \in Nat
    BY <1>2, <2>1, DistanceType
  <2>4. QED
    BY <1>1, <2>2, <2>3
<1>4. slots'[hole] = slots[current] /\ \A j \in Index : j # hole => slots'[j] = slots[j]
  BY <1>1, <1>2
<1>5. Occupied' = Occupied /\ current \in Occupied /\ hole \in Occupied
  BY <1>1, <1>2, <1>4 DEF Occupied
<1>6. Live = Occupied \ {hole} /\ Live' = Occupied \ {current}
  BY <1>1, <1>5 DEF Live
<1> DEFINE D == DOMAIN Stored
<1>7. ASSUME NEW i \in Live'
      PROVE  slots'[i].id \in D /\ Stored[slots'[i].id] = slots'[i].data
  <2>1. PICK j \in Live : slots'[i] = slots[j]
    <3>1. CASE i = hole
      BY <1>3, <1>4, <1>5, <1>6, <3>1
    <3>2. CASE i # hole
      BY <1>4, <1>6, <3>2 DEF Occupied
    <3>3. QED
      BY <3>1, <3>2
  <2>2. QED
    BY <2>1, StoredType DEF StoreInv
<1>8. ASSUME NEW k \in D PROVE \E i \in Live' : slots'[i].id = k
  <2>1. PICK j \in Live : slots[j].id = k
    BY StoredType DEF StoreInv
  <2>2. CASE j = current
    BY <1>3, <1>4, <1>5, <1>6, <2>1, <2>2
  <2>3. CASE j # current
    BY <1>4, <1>6, <2>1, <2>3 DEF Occupied
  <2>4. QED
    BY <2>2, <2>3
<1>9. IdsAreUnique' /\ Stored = [k \in D |-> Stored[k]]
  BY StoredType DEF StoreInv
<1> HIDE DEF D
<1>10. QED
  BY ONLY <1>7, <1>8, <1>9, NextStored

LEMMA CloseKeepsMap == ASSUME StoreInv, CloseHole PROVE Stored' = Stored
<1>1. /\ pc = "shift" /\ pc' = "idle" /\ slots' = [slots EXCEPT ![hole] = Empty]
  BY DEF CloseHole
<1>2. hole \in Index /\ slots \in [Index -> Entry \cup {Empty}]
  BY DEF StoreInv, TypeOK
<1>3. slots'[hole] = Empty /\ \A j \in Index : j # hole => slots'[j] = slots[j]
  BY <1>1, <1>2
<1>4. Live' = Live
  BY <1>1, <1>2, <1>3 DEF Live, Occupied
<1>5. \A i \in Live : slots'[i] = slots[i]
  BY <1>1, <1>3 DEF Live, Occupied
<1>6. {slots'[i].id : i \in Live'} = {slots[i].id : i \in Live}
  BY <1>4, <1>5
<1>7. ASSUME NEW k \in {slots[i].id : i \in Live}
      PROVE  slots'[SlotOf(k)'].data = slots[SlotOf(k)].data
  <2>1. SlotOf(k) \in Live /\ slots[SlotOf(k)].id = k
    BY Zenon DEF SlotOf
  <2>2. PICK i \in Live : slots[i].id = k
    OBVIOUS
  <2>3. i \in Live' /\ slots'[i].id = k
    BY <1>4, <1>5, <2>2
  <2>4. SlotOf(k)' \in Live' /\ slots'[SlotOf(k)'].id = k
    BY <2>3, Zenon DEF SlotOf
  <2>5. SlotOf(k)' = SlotOf(k)
    BY <1>4, <1>5, <2>1, <2>4 DEF StoreInv, IdsAreUnique
  <2>6. QED
    BY <1>5, <2>1, <2>5
<1>8. QED
  BY <1>6, <1>7 DEF Stored

LEMMA MapSteps ==
  ASSUME StoreInv, StoreInv', [StoreNext]_storeVars
  PROVE  [Map!Begin \/ Map!Add \/ Map!Find \/ Map!Amend \/ Map!Remove]_(Map!mapVars)
<1>1. CASE UNCHANGED storeVars \/ ProbeNext \/ LeaveInPlace
  <2>1. UNCHANGED <<slots, call, answer>> /\ Live' = Live
    <3>1. UNCHANGED <<slots, call, answer>>
      BY <1>1 DEF storeVars, search, removal, ProbeNext, LeaveInPlace
    <3>2. (pc = "shift" <=> pc' = "shift") /\ hole' = hole
      BY <1>1 DEF storeVars, search, removal, ProbeNext, LeaveInPlace
    <3>3. QED
      BY <3>1, <3>2 DEF Live, Occupied
  <2>2. Stored' = Stored
    BY <2>1 DEF Stored, SlotOf
  <2>3. QED
    BY <2>1, <2>2 DEF Map!mapVars
<1>2. CASE MoveBack \/ CloseHole
  <2>1. UNCHANGED <<call, answer>>
    BY <1>2 DEF MoveBack, CloseHole, search
  <2>2. Stored' = Stored
    BY <1>2, MoveKeepsMap, CloseKeepsMap
  <2>3. QED
    BY <2>1, <2>2 DEF Map!mapVars
<1>3. CASE \E c \in Call : Begin(c)
  <2>1. PICK c \in Call : Begin(c)
    BY <1>3
  <2>2. call = NoCall /\ call' \in Call /\ UNCHANGED <<slots, answer>> /\ Live' = Live
    BY <2>1 DEF Begin, StoreInv, TypeOK, Live, Occupied
  <2>3. Stored' = Stored
    BY <2>2 DEF Stored, SlotOf
  <2>4. QED
    BY <2>2, <2>3 DEF Map!Begin, Call
<1>4. CASE Step
  BY <1>1, <1>2, <1>4, MissRefines, InsertRefines, AnswerRefines, AmendRefines,
     RemoveRefines DEF Step
<1>5. QED
  BY <1>1, <1>3, <1>4 DEF StoreNext

LEMMA MapBegins == StoreInit => Map!MapInit
<1> SUFFICES ASSUME StoreInit PROVE Map!MapInit
  OBVIOUS
<1>1. Live = {}
  BY DEF StoreInit, Live, Occupied
<1>2. Stored = [k \in {} |-> NoData]
  BY <1>1 DEF Stored
<1>3. QED
  BY <1>2 DEF Map!MapInit, StoreInit

(* The table is the map the market state takes it for (find, add, the      *)
(* update of a quantity and the removal of OrderStore.h), whatever the     *)
(* hash function and however full it is.                                   *)
THEOREM ImplementsTheMap == StoreSpec => ImplementsMap
<1>1. QED
  BY StoreBegins, StoreSteps, MapBegins, MapSteps, PTL DEF StoreSpec, ImplementsMap, Map!MapSpec
=============================================================================
