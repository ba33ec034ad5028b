------------------------ MODULE RecordedSessionProofs ------------------------
(* What parsing recovers of what was framed and packed, what a replay makes *)
(* of a recorded file and what the live feed makes of a replay with gaps,   *)
(* for every recorded session, number of messages and size of a datagram.   *)
EXTENDS RecordedSession, FiniteSetTheorems, SequenceTheorems, NaturalsInduction,
        WellFoundedInduction, TLAPS

USE ByteBaseAssumption

(* A set of naturals with 0 and the successors of its members has them all.*)
LEMMA SetInduction ==
  ASSUME NEW T \in SUBSET Nat, 0 \in T, \A n \in T : n + 1 \in T
  PROVE  \A n \in Nat : n \in T
<1> DEFINE Less == {p \in Nat \X Nat : p[1] < p[2]}
           U == Nat \ T
<1>1. IsWellFoundedOn(Less, Nat)
  BY NatLessThanWellFounded DEF OpToRel
<1>2. U \subseteq Nat
  OBVIOUS
<1>3. SUFFICES ASSUME U # {} PROVE FALSE
  OBVIOUS
<1>4. \E u \in U : \A v \in U : ~(<<v, u>> \in Less)
  <2> HIDE DEF Less, U
  <2>1. QED
    BY <1>1, <1>2, <1>3, WFMin
<1>5. PICK u \in U : \A v \in U : ~(<<v, u>> \in Less)
  BY <1>4
<1>6. u \in Nat /\ u \notin T /\ u # 0
  OBVIOUS
<1>7. u - 1 \in Nat /\ u - 1 < u /\ (u - 1) + 1 = u
  BY <1>6
<1>8. <<u - 1, u>> \in Less
  BY <1>6, <1>7
<1>9. u - 1 \in T
  BY <1>5, <1>7, <1>8
<1>10. QED
  BY <1>6, <1>7, <1>9
-----------------------------------------------------------------------------
(* Sums of quantities *)

(* f goes from a in n steps, each of which looks at the value before it.   *)
IsStep(step, V) == step \in [V \X Nat -> V]
Iterated(f, n, a, step, V) ==
  f \in [0 .. n -> V] /\ f[0] = a /\ \A i \in 1 .. n : f[i] = step[<<f[i - 1], i>>]

(* There is such an f for every a and every step. *)
LEMMA Iterates ==
  ASSUME NEW V, NEW a \in V, NEW step, IsStep(step, V), NEW n \in Nat
  PROVE  \E f : Iterated(f, n, a, step, V)
<1> USE DEF IsStep
<1> DEFINE P(m) == \E f : Iterated(f, m, a, step, V)
           T == {m \in Nat : P(m)}
<1>1. 0 \in T
  <2>1. [i \in 0 .. 0 |-> a] \in [0 .. 0 -> V] /\ [i \in 0 .. 0 |-> a][0] = a
    OBVIOUS
  <2>2. \A i \in 1 .. 0 : FALSE
    OBVIOUS
  <2>3. Iterated([i \in 0 .. 0 |-> a], 0, a, step, V)
    BY <2>1, <2>2 DEF Iterated
  <2>4. QED
    BY <2>3
<1>2. ASSUME NEW m \in T PROVE m + 1 \in T
  <2>1. PICK f : Iterated(f, m, a, step, V)
    OBVIOUS
  <2> USE DEF Iterated
  <2>2. m \in Nat /\ f[m] \in V
    BY <2>1
  <2>3. PICK v \in V : v = step[<<f[m], m + 1>>]
    BY <2>2
  <2> DEFINE g == [i \in 0 .. m + 1 |-> IF i = m + 1 THEN v ELSE f[i]]
  <2>4. g \in [0 .. m + 1 -> V] /\ g[m + 1] = v /\ \A i \in 0 .. m : g[i] = f[i]
    BY <2>1, <2>2
  <2>5. ASSUME NEW i \in 1 .. m + 1 PROVE g[i] = step[<<g[i - 1], i>>]
    <3>1. CASE i = m + 1
      <4>1. i - 1 = m /\ m \in 0 .. m
        BY <2>2, <3>1
      <4>2. QED
        BY <2>3, <2>4, <3>1, <4>1
    <3>2. CASE i \in 1 .. m
      <4>1. i \in 0 .. m /\ i - 1 \in 0 .. m
        BY <3>2
      <4>2. g[i] = f[i] /\ g[i - 1] = f[i - 1]
        BY <2>4, <4>1
      <4>3. QED
        BY <2>1, <3>2, <4>2
    <3>3. QED
      BY <2>2, <3>1, <3>2
  <2>6. g[0] = a
    BY <2>1, <2>2, <2>4
  <2> HIDE DEF g
  <2>7. Iterated(g, m + 1, a, step, V)
    BY <2>4, <2>5, <2>6
  <2>8. QED
    BY <2>2, <2>7
<1>3. T \in SUBSET Nat
  OBVIOUS
<1>4. n \in T
  <2> HIDE DEF T
  <2>1. QED
    BY <1>1, <1>2, <1>3, SetInduction
<1>5. QED
  BY <1>4

(* Two that begin alike and step alike agree. *)
LEMMA Agree ==
  ASSUME NEW f, NEW g, NEW n \in Nat, f[0] = g[0],
         \A i \in 1 .. n : f[i - 1] = g[i - 1] => f[i] = g[i]
  PROVE  \A i \in 0 .. n : f[i] = g[i]
<1> DEFINE T == {i \in Nat : i <= n => f[i] = g[i]}
<1>1. 0 \in T
  OBVIOUS
<1>2. ASSUME NEW i \in T PROVE i + 1 \in T
  <2>1. i + 1 <= n => i + 1 \in 1 .. n /\ (i + 1) - 1 = i
    OBVIOUS
  <2>2. QED
    BY <2>1
<1>3. T \in SUBSET Nat
  OBVIOUS
<1>4. \A i \in Nat : i \in T
  <2> HIDE DEF T
  <2>1. QED
    BY <1>1, <1>2, <1>3, SetInduction
<1>5. QED
  BY <1>4
-----------------------------------------------------------------------------
(* Numbers in bytes *)

LEMMA ShiftedSteps ==
  ASSUME NEW width \in Nat, NEW n \in Nat
  PROVE  /\ Shifted(width, n) \in [0 .. width -> Nat] /\ Shifted(width, n)[0] = n
         /\ \A i \in 1 .. width : Shifted(width, n)[i] = Shifted(width, n)[i - 1] \div ByteBase
<1> DEFINE step == [x \in Nat \X Nat |-> x[1] \div ByteBase]
<1>1. step \in [Nat \X Nat -> Nat] /\ \A v \in Nat, i \in Nat : step[<<v, i>>] = v \div ByteBase
  OBVIOUS
<1>2. \E f : Iterated(f, width, n, step, Nat)
  <2> HIDE DEF step
  <2>1. IsStep(step, Nat)
    BY <1>1 DEF IsStep
  <2>2. QED
    BY <2>1, Iterates
<1>3. PICK f \in [0 .. width -> Nat] :
        f[0] = n /\ \A i \in 1 .. width : f[i] = f[i - 1] \div ByteBase
  <2>1. PICK f : Iterated(f, width, n, step, Nat)
    BY <1>2
  <2> HIDE DEF step
  <2>2. f \in [0 .. width -> Nat] /\ f[0] = n
        /\ \A i \in 1 .. width : f[i] = step[<<f[i - 1], i>>]
    BY <2>1 DEF Iterated
  <2>3. \A i \in 1 .. width : f[i - 1] \in Nat /\ i \in Nat
    BY <2>2
  <2>4. \A i \in 1 .. width : f[i] = f[i - 1] \div ByteBase
    BY <1>1, <2>2, <2>3
  <2>5. QED
    BY <2>2, <2>4
<1>4. f = [i \in 0 .. width |-> IF i = 0 THEN n ELSE f[i - 1] \div ByteBase]
  <2>1. \A i \in 0 .. width : f[i] = IF i = 0 THEN n ELSE f[i - 1] \div ByteBase
    BY <1>3
  <2>2. QED
    BY <2>1
<1> DEFINE left == CHOOSE g : g = [i \in 0 .. width |-> IF i = 0 THEN n ELSE g[i - 1] \div ByteBase]
<1>5. left = [i \in 0 .. width |-> IF i = 0 THEN n ELSE left[i - 1] \div ByteBase]
  BY <1>4, Zenon
<1>6. Shifted(width, n) = left
  BY DEF Shifted
<1> HIDE DEF left
<1>7. left[0] = n /\ \A i \in 1 .. width : left[i] = left[i - 1] \div ByteBase
  BY <1>5
<1>8. \A i \in 0 .. width : left[i] = f[i]
  <2>1. \A i \in 1 .. width : left[i - 1] = f[i - 1] => left[i] = f[i]
    BY <1>3, <1>7
  <2>2. width \in Nat /\ left[0] = f[0]
    BY <1>3, <1>7
  <2>3. QED
    BY ONLY <2>1, <2>2, Agree, ZenonT(120)
<1>9. left \in [0 .. width -> Nat]
  BY <1>5, <1>8
<1>10. QED
  BY <1>6, <1>7, <1>9

(* Division by the base of the bytes, and what it leaves. *)
LEMMA ByteDivision ==
  ASSUME NEW n \in Nat
  PROVE  /\ n \div ByteBase \in Nat /\ n % ByteBase \in Nat
         /\ (n \div ByteBase) * ByteBase + (n % ByteBase) = n
  OBVIOUS

(* As many bytes as were asked for. *)
LEMMA WriteIs ==
  ASSUME NEW width \in Nat, NEW n \in Nat
  PROVE  /\ Write(width, n) \in Seq(Nat) /\ Len(Write(width, n)) = width
         /\ \A i \in 1 .. width : Write(width, n)[i] = Shifted(width, n)[width - i] % ByteBase
<1> DEFINE left == Shifted(width, n)
<1>1. left \in [0 .. width -> Nat]
  BY ShiftedSteps
<1>2. Write(width, n) = [i \in 1 .. width |-> left[width - i] % ByteBase]
  BY DEF Write
<1> HIDE DEF left
<1>3. \A i \in 1 .. width : left[width - i] % ByteBase \in Nat
  <2>1. TAKE i \in 1 .. width
  <2>2. width - i \in 0 .. width
    OBVIOUS
  <2>3. left[width - i] \in Nat
    BY <1>1, <2>2
  <2>4. QED
    BY <2>3, ByteDivision
<1>4. QED
  BY <1>2, <1>3 DEF left

(* What fits fits the more if it is smaller. *)
LEMMA SmallerFits ==
  ASSUME NEW width \in Nat, NEW n \in Nat, FitsIn(width, n), NEW m \in 0 .. n
  PROVE  FitsIn(width, m)
<1> DEFINE big == Shifted(width, n)
           small == Shifted(width, m)
<1>1. /\ big \in [0 .. width -> Nat] /\ big[0] = n
      /\ \A i \in 1 .. width : big[i] = big[i - 1] \div ByteBase
  BY ShiftedSteps
<1>2. /\ small \in [0 .. width -> Nat] /\ small[0] = m
      /\ \A i \in 1 .. width : small[i] = small[i - 1] \div ByteBase
  <2>1. m \in Nat
    OBVIOUS
  <2>2. QED
    BY <2>1, ShiftedSteps
<1>3. big[width] = 0
  BY DEF FitsIn
<1> HIDE DEF big, small
<1> DEFINE T == {i \in Nat : i <= width => small[i] <= big[i]}
<1>4. 0 \in T
  BY <1>1, <1>2
<1>5. ASSUME NEW i \in T PROVE i + 1 \in T
  <2>1. SUFFICES ASSUME i + 1 <= width PROVE small[i + 1] <= big[i + 1]
    OBVIOUS
  <2>2. i + 1 \in 1 .. width /\ (i + 1) - 1 = i /\ i \in 0 .. width
    BY <2>1
  <2>3. small[i] \in Nat /\ big[i] \in Nat /\ small[i] <= big[i]
    BY <1>1, <1>2, <2>1, <2>2
  <2>4. small[i + 1] = small[i] \div ByteBase /\ big[i + 1] = big[i] \div ByteBase
    BY <1>1, <1>2, <2>2
  <2>5. \A x, y \in Nat : x <= y => x \div ByteBase <= y \div ByteBase
    OBVIOUS
  <2>6. QED
    BY <2>3, <2>4, <2>5
<1>6. width \in T
  <2>1. T \in SUBSET Nat
    OBVIOUS
  <2> HIDE DEF T
  <2>2. QED
    BY <1>4, <1>5, <2>1, SetInduction
<1>7. small[width] = 0
  <2>1. small[width] \in Nat /\ small[width] <= big[width]
    BY <1>2, <1>6
  <2>2. QED
    BY <1>3, <2>1
<1>8. QED
  BY <1>7 DEF FitsIn, small

(* Bytes that were written are read as the number they were written for.   *)
LEMMA ReadsWhatWasWritten ==
  ASSUME NEW width \in Nat, NEW n \in Nat, FitsIn(width, n),
         NEW bytes, NEW before \in Nat,
         \A i \in 1 .. width : bytes[before + i] = Write(width, n)[i],
         NEW first, first = before + 1, NEW last, last = before + width
  PROVE  Read(bytes, first, last) = n
<1> DEFINE left == Shifted(width, n)
<1>1. /\ left \in [0 .. width -> Nat] /\ left[0] = n
      /\ \A i \in 1 .. width : left[i] = left[i - 1] \div ByteBase
  BY ShiftedSteps
<1>2. left[width] = 0
  BY DEF FitsIn
<1>3. \A i \in 1 .. width : bytes[before + i] = left[width - i] % ByteBase
  BY WriteIs
<1> HIDE DEF left
<1>4. \A i \in 1 .. width :
        left[width - (i - 1)] * ByteBase + bytes[before + i] = left[width - i]
  <2>1. TAKE i \in 1 .. width
  <2>2. width - (i - 1) \in 1 .. width /\ (width - (i - 1)) - 1 = width - i
        /\ width - i \in 0 .. width
    OBVIOUS
  <2>3. left[width - i] \in Nat /\ left[width - (i - 1)] = left[width - i] \div ByteBase
    BY <1>1, <2>2
  <2>4. PICK x \in Nat : x = left[width - i]
    BY <2>3
  <2>5. (x \div ByteBase) * ByteBase + (x % ByteBase) = x
    BY ByteDivision
  <2>6. QED
    BY <1>3, <2>3, <2>4, <2>5
<1> DEFINE From == first - 1
           Upto == last
           g == [i \in From .. Upto |-> left[width - (i - before)]]
<1>5. g = [i \in From .. Upto |->
             IF i = From THEN 0 ELSE g[i - 1] * ByteBase + bytes[i]]
  <2>1. ASSUME NEW i \in From .. Upto
        PROVE  g[i] = IF i = From THEN 0 ELSE g[i - 1] * ByteBase + bytes[i]
    <3>1. CASE i = From
      <4>1. width - (i - before) = width
        BY <3>1
      <4>2. QED
        BY <1>2, <3>1, <4>1
    <3>2. CASE i # From
      <4>1. i - before \in 1 .. width /\ before + (i - before) = i /\ i - 1 \in From .. Upto
            /\ (i - 1) - before = (i - before) - 1
        BY <3>2
      <4>2. left[width - ((i - before) - 1)] * ByteBase + bytes[i] = left[width - (i - before)]
        BY <1>4, <4>1
      <4>3. g[i - 1] = left[width - ((i - before) - 1)]
        BY <4>1
      <4>4. QED
        BY <3>2, <4>2, <4>3
    <3>3. QED
      BY <3>1, <3>2
  <2>2. QED
    BY <2>1
<1> DEFINE value == CHOOSE v : v = [i \in From .. Upto |->
                      IF i = From THEN 0 ELSE v[i - 1] * ByteBase + bytes[i]]
<1>6. value = [i \in From .. Upto |->
                 IF i = From THEN 0 ELSE value[i - 1] * ByteBase + bytes[i]]
  <2> HIDE DEF g, From, Upto
  <2>1. QED
    BY <1>5, Zenon
<1>7. Read(bytes, first, last) = value[last]
  <2> HIDE DEF g, left
  <2>1. QED
    BY DEF Read
<1> HIDE DEF value
<1> DEFINE T == {i \in Nat : i <= width => value[before + i] = left[width - i]}
<1>8. 0 \in T
  <2>1. before + 0 = From /\ From \in From .. Upto /\ width - 0 = width
    OBVIOUS
  <2>2. value[From] = 0
    BY <1>6, <2>1
  <2>3. QED
    BY <1>2, <2>1, <2>2
<1>9. ASSUME NEW i \in T PROVE i + 1 \in T
  <2>1. SUFFICES ASSUME i + 1 <= width PROVE value[before + (i + 1)] = left[width - (i + 1)]
    OBVIOUS
  <2>2. /\ before + (i + 1) \in From .. Upto /\ before + (i + 1) # From
        /\ (before + (i + 1)) - 1 = before + i /\ i + 1 \in 1 .. width /\ (i + 1) - 1 = i
    BY <2>1
  <2>3. value[before + (i + 1)] = value[before + i] * ByteBase + bytes[before + (i + 1)]
    BY <1>6, <2>2
  <2>4. left[width - i] * ByteBase + bytes[before + (i + 1)] = left[width - (i + 1)]
    BY <1>4, <2>2
  <2>5. value[before + i] = left[width - i]
    BY <2>1
  <2>6. QED
    BY <2>3, <2>4, <2>5
<1>10. width \in T
  <2>1. T \in SUBSET Nat
    OBVIOUS
  <2> HIDE DEF T
  <2>2. QED
    BY <1>8, <1>9, <2>1, SetInduction
<1>11. value[Upto] = left[0]
  BY <1>10
<1>12. QED
  BY <1>1, <1>7, <1>11

(* What two bytes hold. *)
LEMMA FitsU16 ==
  ASSUME NEW n \in 0 .. MaxU16
  PROVE  n \in Nat /\ FitsIn(2, n)
<1> DEFINE left == Shifted(2, n)
<1>1. n \in Nat /\ n < ByteBase * ByteBase
  BY DEF MaxU16
<1>2. /\ left \in [0 .. 2 -> Nat] /\ left[0] = n
      /\ \A i \in 1 .. 2 : left[i] = left[i - 1] \div ByteBase
  <2>1. 2 \in Nat /\ n \in Nat
    BY <1>1
  <2>2. QED
    BY <2>1, ShiftedSteps
<1> HIDE DEF left
<1>3. left[1] = n \div ByteBase /\ left[2] = left[1] \div ByteBase
  BY <1>2
<1>4. n \div ByteBase \in Nat /\ n \div ByteBase < ByteBase
  BY <1>1
<1>5. \A x \in Nat : x < ByteBase => x \div ByteBase = 0
  OBVIOUS
<1>6. left[2] = 0
  BY <1>3, <1>4, <1>5
<1>7. QED
  BY <1>1, <1>6 DEF FitsIn, left

LEMMA WriteU16Is ==
  ASSUME NEW n \in Nat
  PROVE  WriteU16(n) \in Seq(Nat) /\ Len(WriteU16(n)) = 2
<1>1. 2 \in Nat
  OBVIOUS
<1>2. QED
  BY <1>1, WriteIs DEF WriteU16

LEMMA WriteU64Is ==
  ASSUME NEW n \in Nat
  PROVE  WriteU64(n) \in Seq(Nat) /\ Len(WriteU64(n)) = 8
<1>1. 8 \in Nat
  OBVIOUS
<1>2. QED
  BY <1>1, WriteIs DEF WriteU64

(* Two bytes, or eight, found where they were written. *)
LEMMA ReadsU16 ==
  ASSUME NEW n \in 0 .. MaxU16, NEW bytes, NEW offset \in Nat,
         \A i \in 1 .. 2 : bytes[offset + i] = WriteU16(n)[i]
  PROVE  ReadU16(bytes, offset) = n
<1>1. 2 \in Nat /\ n \in Nat /\ FitsIn(2, n)
  BY FitsU16
<1>2. \A i \in 1 .. 2 : bytes[offset + i] = Write(2, n)[i]
  BY DEF WriteU16
<1>3. PICK first : first = offset + 1
  OBVIOUS
<1>4. PICK last : last = offset + 2
  OBVIOUS
<1>5. Read(bytes, first, last) = n
  BY <1>1, <1>2, <1>3, <1>4, ReadsWhatWasWritten
<1>6. QED
  BY <1>3, <1>4, <1>5 DEF ReadU16

LEMMA ReadsU64 ==
  ASSUME NEW n \in Nat, FitsIn(8, n), NEW bytes, NEW offset \in Nat,
         \A i \in 1 .. 8 : bytes[offset + i] = WriteU64(n)[i]
  PROVE  ReadU64(bytes, offset) = n
<1>1. 8 \in Nat
  OBVIOUS
<1>2. \A i \in 1 .. 8 : bytes[offset + i] = Write(8, n)[i]
  BY DEF WriteU64
<1>3. PICK first : first = offset + 1
  OBVIOUS
<1>4. PICK last : last = offset + 8
  OBVIOUS
<1>5. Read(bytes, first, last) = n
  BY <1>1, <1>2, <1>3, <1>4, ReadsWhatWasWritten
<1>6. QED
  BY <1>3, <1>4, <1>5 DEF ReadU64

(* What two bytes are read as, whoever wrote them. *)
LEMMA ReadU16Is ==
  ASSUME NEW bytes, NEW offset \in Nat, bytes[offset + 1] \in Nat, bytes[offset + 2] \in Nat
  PROVE  ReadU16(bytes, offset) = bytes[offset + 1] * ByteBase + bytes[offset + 2]
<1>1. PICK first : first = offset + 1
  OBVIOUS
<1>2. PICK last : last = offset + 2
  OBVIOUS
<1> DEFINE First == first - 1
           g == [i \in First .. last |->
                   IF i = First THEN 0
                   ELSE IF i = offset + 1 THEN bytes[offset + 1]
                   ELSE bytes[offset + 1] * ByteBase + bytes[offset + 2]]
<1>3. g = [i \in First .. last |->
             IF i = First THEN 0 ELSE g[i - 1] * ByteBase + bytes[i]]
  <2>1. First = offset /\ First .. last = {offset, offset + 1, offset + 2}
    BY <1>1, <1>2
  <2>2. g[offset] = 0
    BY <2>1
  <2>3. g[offset + 1] = bytes[offset + 1] /\ 0 * ByteBase = 0 /\ (offset + 1) - 1 = offset
    BY <2>1
  <2>4. g[offset + 2] = bytes[offset + 1] * ByteBase + bytes[offset + 2]
        /\ (offset + 2) - 1 = offset + 1
    BY <2>1
  <2> HIDE DEF g
  <2>5. \A i \in First .. last : g[i] = IF i = First THEN 0 ELSE g[i - 1] * ByteBase + bytes[i]
    BY <2>1, <2>2, <2>3, <2>4
  <2>6. QED
    BY <2>5 DEF g
<1> DEFINE value == CHOOSE v : v = [i \in First .. last |->
                      IF i = First THEN 0 ELSE v[i - 1] * ByteBase + bytes[i]]
<1>4. value = [i \in First .. last |->
                 IF i = First THEN 0 ELSE value[i - 1] * ByteBase + bytes[i]]
  <2> HIDE DEF g, First
  <2>1. QED
    BY <1>3, Zenon
<1>5. Read(bytes, first, last) = value[last]
  <2> HIDE DEF g
  <2>1. QED
    BY DEF Read
<1> HIDE DEF value
<1>6. /\ First = offset /\ offset \in First .. last /\ offset + 1 \in First .. last
      /\ offset + 2 \in First .. last /\ (offset + 1) - 1 = offset /\ last = offset + 2
      /\ (offset + 2) - 1 = offset + 1
  BY <1>1, <1>2
<1>7. value[offset] = 0
  BY <1>4, <1>6
<1>8. value[offset + 1] = value[offset] * ByteBase + bytes[offset + 1]
  BY <1>4, <1>6
<1>9. value[offset + 2] = value[offset + 1] * ByteBase + bytes[offset + 2]
  BY <1>4, <1>6
<1>10. value[last] = bytes[offset + 1] * ByteBase + bytes[offset + 2]
  BY <1>6, <1>7, <1>8, <1>9
<1>11. QED
  BY <1>1, <1>2, <1>5, <1>10 DEF ReadU16
-----------------------------------------------------------------------------
(* Sequences of sequences *)

(* The sequences put behind each other so far. *)
Flattened(f, ss, V) ==
  /\ f \in [0 .. Len(ss) -> Seq(V)] /\ f[0] = <<>>
  /\ \A i \in 1 .. Len(ss) : f[i] = f[i - 1] \o ss[i]

LEMMA FlattenedExists ==
  ASSUME NEW V, NEW ss \in Seq(Seq(V))
  PROVE  \E f : Flattened(f, ss, V)
<1> DEFINE step == [x \in Seq(V) \X Nat |->
                      IF x[2] \in 1 .. Len(ss) THEN x[1] \o ss[x[2]] ELSE <<>>]
<1>1. /\ \A s \in Seq(V), i \in Nat : step[<<s, i>>] \in Seq(V)
      /\ \A s \in Seq(V), i \in 1 .. Len(ss) : step[<<s, i>>] = s \o ss[i]
  <2>1. ASSUME NEW s \in Seq(V), NEW i \in Nat
        PROVE  step[<<s, i>>] = IF i \in 1 .. Len(ss) THEN s \o ss[i] ELSE <<>>
    <3>1. <<s, i>> \in Seq(V) \X Nat
      OBVIOUS
    <3>2. QED
      BY <3>1
  <2>2. ASSUME NEW s \in Seq(V), NEW i \in 1 .. Len(ss)
        PROVE  i \in Nat /\ s \o ss[i] \in Seq(V)
    <3>1. ss[i] \in Seq(V) /\ i \in Nat
      OBVIOUS
    <3>2. QED
      BY <3>1, ConcatProperties
  <2>3. <<>> \in Seq(V)
    OBVIOUS
  <2> HIDE DEF step
  <2>4. QED
    BY <2>1, <2>2, <2>3, ZenonT(60)
<1>2. IsStep(step, Seq(V))
  <2>1. DOMAIN step = Seq(V) \X Nat
    OBVIOUS
  <2>2. \A x \in Seq(V) \X Nat : x = <<x[1], x[2]>> /\ x[1] \in Seq(V) /\ x[2] \in Nat
    OBVIOUS
  <2>3. \A x \in Seq(V) \X Nat : step[x] \in Seq(V)
    <3> HIDE DEF step
    <3>1. QED
      BY <1>1, <2>2
  <2>4. QED
    BY <2>3 DEF IsStep
<1>3. Len(ss) \in Nat /\ <<>> \in Seq(V)
  OBVIOUS
<1> HIDE DEF step
<1>4. PICK f : Iterated(f, Len(ss), <<>>, step, Seq(V))
  <2>1. \E f : Iterated(f, Len(ss), <<>>, step, Seq(V))
    BY <1>2, <1>3, Iterates
  <2>2. QED
    BY <2>1
<1>5. f \in [0 .. Len(ss) -> Seq(V)] /\ f[0] = <<>>
      /\ \A i \in 1 .. Len(ss) : f[i] = step[<<f[i - 1], i>>]
  BY <1>4 DEF Iterated
<1>6. \A i \in 1 .. Len(ss) : i - 1 \in 0 .. Len(ss) /\ f[i - 1] \in Seq(V)
  <2>1. PICK n \in Nat : n = Len(ss)
    BY <1>3
  <2>2. \A i \in 1 .. n : i - 1 \in 0 .. n
    OBVIOUS
  <2>3. QED
    BY ONLY <1>5, <2>1, <2>2
<1>7. \A i \in 1 .. Len(ss) : f[i] = f[i - 1] \o ss[i]
  BY <1>1, <1>5, <1>6
<1>8. QED
  BY <1>5, <1>7 DEF Flattened

(* The last of them is what FlattenSeq yields. *)
LEMMA FlattenIs ==
  ASSUME NEW V, NEW ss \in Seq(Seq(V)), NEW f, Flattened(f, ss, V)
  PROVE  FlattenSeq(ss) = f[Len(ss)] /\ FlattenSeq(ss) \in Seq(V)
<1>1. /\ f \in [0 .. Len(ss) -> Seq(V)] /\ f[0] = <<>> /\ Len(ss) \in Nat
      /\ \A i \in 1 .. Len(ss) : f[i] = f[i - 1] \o ss[i]
  BY DEF Flattened
<1>2. f[Len(ss)] \in Seq(V)
  BY <1>1
<1>3. CASE Len(ss) = 0
  <2>1. ss = <<>>
    BY <1>3
  <2>2. FlattenSeq(ss) = ss
    BY <1>3 DEF FlattenSeq
  <2>3. QED
    BY <1>1, <1>2, <1>3, <2>1, <2>2
<1>4. CASE Len(ss) # 0
  <2> DEFINE g == [i \in 1 .. Len(ss) |-> f[i]]
  <2>1. \A i \in 1 .. Len(ss) : ss[i] \in Seq(V)
    OBVIOUS
  <2>2. f[1] = ss[1]
    <3>1. 1 \in 1 .. Len(ss) /\ 1 - 1 = 0
      BY <1>1, <1>4
    <3>2. f[1] = <<>> \o ss[1] /\ ss[1] \in Seq(V)
      BY <1>1, <2>1, <3>1
    <3>3. QED
      BY <3>2, ConcatEmptySeq
  <2>3. \A i \in 1 .. Len(ss) : g[i] = IF i = 1 THEN ss[i] ELSE g[i - 1] \o ss[i]
    <3>1. ASSUME NEW i \in 1 .. Len(ss), i # 1 PROVE g[i] = g[i - 1] \o ss[i]
      <4>1. i - 1 \in 1 .. Len(ss)
        BY <1>1, <3>1
      <4>2. g[i - 1] = f[i - 1] /\ g[i] = f[i]
        BY <4>1
      <4> HIDE DEF g
      <4>3. QED
        BY <1>1, <4>2
    <3>2. QED
      BY <2>2, <3>1
  <2>4. g = [i \in 1 .. Len(ss) |-> IF i = 1 THEN ss[i] ELSE g[i - 1] \o ss[i]]
    <3> DEFINE h == [i \in 1 .. Len(ss) |-> IF i = 1 THEN ss[i] ELSE g[i - 1] \o ss[i]]
    <3>1. \A i \in 1 .. Len(ss) : h[i] = g[i]
      <4>1. \A i \in 1 .. Len(ss) : h[i] = IF i = 1 THEN ss[i] ELSE g[i - 1] \o ss[i]
        BY Zenon
      <4>2. QED
        BY ONLY <2>3, <4>1, Zenon
    <3>2. g \in [1 .. Len(ss) -> Seq(V)]
      BY <1>1
    <3>3. h \in [1 .. Len(ss) -> Seq(V)]
      <4>1. \A i \in 1 .. Len(ss) : g[i] \in Seq(V)
        BY <3>2, Zenon
      <4>2. \A i \in 1 .. Len(ss) :
              (IF i = 1 THEN ss[i] ELSE g[i - 1] \o ss[i]) \in Seq(V)
        <5> HIDE DEF g
        <5>1. QED
          BY ONLY <2>3, <4>1, Zenon
      <4>3. QED
        BY ONLY <4>2, Zenon
    <3> HIDE DEF g, h
    <3>4. g = h
      BY ONLY <3>1, <3>2, <3>3
    <3>5. QED
      BY <3>4, Zenon DEF h
  <2> DEFINE flat == CHOOSE v : v = [i \in 1 .. Len(ss) |->
                       IF i = 1 THEN ss[i] ELSE v[i - 1] \o ss[i]]
  <2>5. flat = [i \in 1 .. Len(ss) |-> IF i = 1 THEN ss[i] ELSE flat[i - 1] \o ss[i]]
    <3> HIDE DEF g
    <3>1. QED
      BY <2>4, Zenon
  <2>6. FlattenSeq(ss) = flat[Len(ss)]
    <3> HIDE DEF g
    <3>1. QED
      BY <1>4, Zenon DEF FlattenSeq
  <2> HIDE DEF flat, g
  <2>7. \A i \in 1 .. Len(ss) : flat[i] = IF i = 1 THEN ss[i] ELSE flat[i - 1] \o ss[i]
    BY <2>5, Zenon
  <2> DEFINE T == {n \in Nat : n + 1 \in 1 .. Len(ss) => flat[n + 1] = f[n + 1]}
  <2>8. 0 \in T
    <3>1. 0 + 1 = 1 /\ 0 \in Nat
      OBVIOUS
    <3>2. 1 \in 1 .. Len(ss)
      BY <1>1, <1>4
    <3>3. flat[1] = ss[1]
      BY ONLY <2>7, <3>2, Zenon
    <3>4. QED
      BY <2>2, <3>1, <3>3
  <2>9. ASSUME NEW n \in T PROVE n + 1 \in T
    <3>1. SUFFICES ASSUME (n + 1) + 1 \in 1 .. Len(ss)
                   PROVE  flat[(n + 1) + 1] = f[(n + 1) + 1]
      OBVIOUS
    <3>2. PICK k \in 1 .. Len(ss) : k = (n + 1) + 1
      BY <3>1
    <3>3. k # 1 /\ k - 1 = n + 1 /\ n + 1 \in 1 .. Len(ss)
      BY <3>2, <1>1
    <3>4. flat[k] = flat[k - 1] \o ss[k]
      BY ONLY <2>7, <3>2, <3>3, Zenon
    <3>5. f[k] = f[k - 1] \o ss[k]
      BY <1>1
    <3>6. flat[k - 1] = f[k - 1]
      BY <3>3
    <3>7. QED
      BY <3>2, <3>4, <3>5, <3>6
  <2>10. \A n \in Nat : n \in T
    <3>1. T \in SUBSET Nat
      OBVIOUS
    <3> HIDE DEF T
    <3>2. QED
      BY <2>8, <2>9, <3>1, SetInduction
  <2>11. flat[Len(ss)] = f[Len(ss)]
    <3>1. Len(ss) - 1 \in Nat /\ (Len(ss) - 1) + 1 = Len(ss) /\ Len(ss) \in 1 .. Len(ss)
      BY <1>1, <1>4
    <3>2. Len(ss) - 1 \in T
      <4> HIDE DEF T
      <4>1. QED
        BY <2>10, <3>1
    <3>3. QED
      BY <3>1, <3>2
  <2>12. QED
    BY <1>2, <2>6, <2>11
<1>5. QED
  BY <1>3, <1>4

LEMMA FlattenType ==
  ASSUME NEW V, NEW ss \in Seq(Seq(V))
  PROVE  FlattenSeq(ss) \in Seq(V)
<1>1. PICK f : Flattened(f, ss, V)
  BY FlattenedExists
<1>2. QED
  BY <1>1, FlattenIs

LEMMA FlattenEmpty == FlattenSeq(<<>>) = <<>>
BY DEF FlattenSeq

LEMMA Single ==
  ASSUME NEW S, NEW e \in S
  PROVE  <<e>> \in Seq(S) /\ Len(<<e>>) = 1 /\ <<e>>[1] = e
  OBVIOUS

LEMMA FlattenOne ==
  ASSUME NEW V, NEW s \in Seq(V)
  PROVE  FlattenSeq(<<s>>) = s
<1> DEFINE f == [i \in 0 .. 1 |-> IF i = 0 THEN <<>> ELSE s]
<1>1. PICK ss \in Seq(Seq(V)) : ss = <<s>>
  BY Single
<1>2. Len(ss) = 1 /\ ss[1] = s
  BY <1>1, Single
<1>3. f \in [0 .. 1 -> Seq(V)] /\ f[0] = <<>> /\ f[1] = s
  OBVIOUS
<1> HIDE DEF f
<1>4. \A i \in 1 .. 1 : f[i] = f[i - 1] \o ss[i]
  <2>1. TAKE i \in 1 .. 1
  <2>2. i = 1 /\ i - 1 = 0
    OBVIOUS
  <2>3. <<>> \o s = s
    BY ConcatEmptySeq
  <2>4. QED
    BY <1>2, <1>3, <2>2, <2>3
<1>5. Flattened(f, ss, V)
  BY <1>2, <1>3, <1>4 DEF Flattened
<1>6. QED
  BY <1>1, <1>2, <1>3, <1>5, FlattenIs

(* Flattening two behind each other. *)
LEMMA FlattenConcat ==
  ASSUME NEW V, NEW ss \in Seq(Seq(V)), NEW tt \in Seq(Seq(V))
  PROVE  FlattenSeq(ss \o tt) = FlattenSeq(ss) \o FlattenSeq(tt)
<1>1. PICK f : Flattened(f, ss, V)
  BY FlattenedExists
<1>2. PICK g : Flattened(g, tt, V)
  BY FlattenedExists
<1>3. PICK m \in Nat : m = Len(ss)
  OBVIOUS
<1>4. PICK n \in Nat : n = Len(tt)
  OBVIOUS
<1>5. PICK all \in Seq(Seq(V)) : all = ss \o tt
  BY ConcatProperties
<1>6. /\ Len(all) = m + n
      /\ \A i \in 1 .. m + n : all[i] = IF i <= m THEN ss[i] ELSE tt[i - m]
  BY <1>3, <1>4, <1>5, ConcatProperties
<1>7. /\ f \in [0 .. m -> Seq(V)] /\ f[0] = <<>>
      /\ \A i \in 1 .. m : f[i] = f[i - 1] \o ss[i]
  BY <1>1, <1>3 DEF Flattened
<1>8. /\ g \in [0 .. n -> Seq(V)] /\ g[0] = <<>>
      /\ \A i \in 1 .. n : g[i] = g[i - 1] \o tt[i]
  BY <1>2, <1>4 DEF Flattened
<1>9. FlattenSeq(ss) = f[m] /\ FlattenSeq(tt) = g[n] /\ f[m] \in Seq(V)
  BY <1>1, <1>2, <1>3, <1>4, FlattenIs
<1>10. \A i \in 1 .. n : tt[i] \in Seq(V)
  BY <1>4
<1> DEFINE h == [i \in 0 .. m + n |-> IF i <= m THEN f[i] ELSE f[m] \o g[i - m]]
<1>11. \A i \in 0 .. m : h[i] = f[i] /\ h[i] \in Seq(V)
  BY <1>7
<1>12. \A i \in 0 .. n : h[m + i] = f[m] \o g[i] /\ h[m + i] \in Seq(V)
  <2>1. TAKE i \in 0 .. n
  <2>2. m + i \in 0 .. m + n /\ (m + i) - m = i /\ (m + i <= m => i = 0)
    OBVIOUS
  <2>3. g[i] \in Seq(V)
    BY <1>8
  <2>4. f[m] \o g[i] \in Seq(V) /\ f[m] \o <<>> = f[m]
    BY <1>9, <2>3, ConcatProperties, ConcatEmptySeq
  <2>5. CASE i = 0
    <3>1. m + i = m /\ m \in 0 .. m + n
      BY <2>5
    <3>2. h[m] = f[m]
      BY <3>1
    <3> HIDE DEF h
    <3>3. QED
      BY <1>8, <1>9, <2>4, <2>5, <3>1, <3>2
  <2>6. CASE i # 0
    <3>1. ~(m + i <= m)
      BY <2>2, <2>6
    <3>2. h[m + i] = f[m] \o g[(m + i) - m]
      BY <2>2, <3>1
    <3> HIDE DEF h
    <3>3. QED
      BY <2>2, <2>4, <3>2
  <2>7. QED
    BY <2>5, <2>6
<1>13. h \in [0 .. m + n -> Seq(V)]
  <2>1. ASSUME NEW i \in 0 .. m + n PROVE h[i] \in Seq(V)
    <3>1. i \in 0 .. m \/ (i - m \in 0 .. n /\ m + (i - m) = i)
      OBVIOUS
    <3> HIDE DEF h
    <3>2. QED
      BY <1>11, <1>12, <3>1
  <2> DEFINE e(i) == IF i <= m THEN f[i] ELSE f[m] \o g[i - m]
  <2>2. \A i \in 0 .. m + n : h[i] = e(i)
    OBVIOUS
  <2>3. \A i \in 0 .. m + n : e(i) \in Seq(V)
    <3> HIDE DEF h, e
    <3>1. QED
      BY <2>1, <2>2
  <2>4. h = [i \in 0 .. m + n |-> e(i)]
    OBVIOUS
  <2> HIDE DEF h, e
  <2>5. QED
    BY <2>3, <2>4
<1> HIDE DEF h
<1>14. \A i \in 1 .. m + n : h[i] = h[i - 1] \o all[i]
  <2>1. TAKE i \in 1 .. m + n
  <2>2. CASE i <= m
    <3>1. i \in 0 .. m /\ i - 1 \in 0 .. m /\ i \in 1 .. m
      BY <2>2
    <3>2. QED
      BY <1>6, <1>7, <1>11, <2>2, <3>1
  <2>3. CASE ~(i <= m)
    <3>1. PICK j \in 1 .. n : j = i - m
      BY <2>3
    <3>2. j \in 0 .. n /\ j - 1 \in 0 .. n /\ i = m + j /\ i - 1 = m + (j - 1)
      BY <3>1
    <3>3. h[i] = f[m] \o g[j] /\ h[i - 1] = f[m] \o g[j - 1]
      BY <1>12, <3>2
    <3>4. g[j] = g[j - 1] \o tt[j] /\ all[i] = tt[j]
      BY <1>6, <1>8, <2>3, <3>1
    <3>5. g[j - 1] \in Seq(V) /\ tt[j] \in Seq(V)
      BY <1>8, <1>10, <3>2
    <3>6. (f[m] \o g[j - 1]) \o tt[j] = f[m] \o (g[j - 1] \o tt[j])
      <4>1. PICK x \in Seq(V), y \in Seq(V), z \in Seq(V) :
              x = f[m] /\ y = g[j - 1] /\ z = tt[j]
        BY <1>9, <3>5
      <4>2. (x \o y) \o z = x \o (y \o z)
        BY ONLY ConcatAssociative
      <4>3. QED
        BY ONLY <4>1, <4>2
    <3>7. QED
      BY <3>3, <3>4, <3>6
  <2>4. QED
    BY <2>2, <2>3
<1>15. h[0] = <<>> /\ h[m + n] = f[m] \o g[n]
  <2>1. 0 \in 0 .. m /\ n \in 0 .. n
    OBVIOUS
  <2>2. QED
    BY ONLY <1>7, <1>11, <1>12, <2>1
<1>16. Flattened(h, all, V)
  BY <1>6, <1>13, <1>14, <1>15 DEF Flattened
<1>17. FlattenSeq(all) = h[m + n]
  BY <1>6, <1>16, FlattenIs
<1>18. QED
  BY <1>5, <1>9, <1>15, <1>17
-----------------------------------------------------------------------------
(* Records *)

Sessions == {ps \in Seq(Seq(Nat)) : \A n \in DOMAIN ps : Len(ps[n]) \in 1 .. MaxU16}
Record(p) == WriteU16(Len(p)) \o p
Records(ps) == [n \in DOMAIN ps |-> Record(ps[n])]

LEMMA RecordIs ==
  ASSUME NEW p \in Seq(Nat)
  PROVE  Record(p) \in Seq(Nat) /\ Len(Record(p)) = Len(p) + 2
<1>1. WriteU16(Len(p)) \in Seq(Nat) /\ Len(WriteU16(Len(p))) = 2
  <2>1. Len(p) \in Nat
    OBVIOUS
  <2>2. QED
    BY <2>1, WriteU16Is
<1>2. Record(p) \in Seq(Nat) /\ Len(Record(p)) = 2 + Len(p)
  <2>1. PICK w \in Seq(Nat) : w = WriteU16(Len(p)) /\ Len(w) = 2
    BY <1>1
  <2>2. w \o p \in Seq(Nat) /\ Len(w \o p) = 2 + Len(p)
    BY <2>1, ConcatProperties, ZenonT(60)
  <2>3. QED
    BY <2>1, <2>2 DEF Record
<1>3. Len(p) \in Nat
  OBVIOUS
<1>4. QED
  BY <1>2, <1>3

LEMMA RecordsIs ==
  ASSUME NEW ps \in Seq(Seq(Nat))
  PROVE  /\ Records(ps) \in Seq(Seq(Nat)) /\ Len(Records(ps)) = Len(ps)
         /\ \A i \in 1 .. Len(ps) : Records(ps)[i] = Record(ps[i])
<1>1. \A i \in 1 .. Len(ps) : Record(ps[i]) \in Seq(Nat)
  <2>1. TAKE i \in 1 .. Len(ps)
  <2>2. ps[i] \in Seq(Nat)
    OBVIOUS
  <2>3. QED
    BY <2>2, RecordIs
<1>2. DOMAIN ps = 1 .. Len(ps) /\ Len(ps) \in Nat
  OBVIOUS
<1>3. QED
  BY <1>1, <1>2 DEF Records

LEMMA FramedIs ==
  ASSUME NEW ps \in Seq(Seq(Nat))
  PROVE  Framed(ps) = FlattenSeq(Records(ps)) /\ Framed(ps) \in Seq(Nat)
<1>1. Framed(ps) = FlattenSeq(Records(ps))
  BY DEF Framed, Records, Record
<1>2. QED
  BY <1>1, RecordsIs, FlattenType

LEMMA FramedEmpty == Framed(<<>>) = <<>>
<1>1. <<>> \in Seq(Seq(Nat))
  OBVIOUS
<1>2. Records(<<>>) = <<>>
  <2>1. Records(<<>>) \in Seq(Seq(Nat)) /\ Len(Records(<<>>)) = Len(<<>>) /\ Len(<<>>) = 0
    BY <1>1, RecordsIs
  <2>2. QED
    BY <2>1
<1>3. QED
  BY <1>1, <1>2, FramedIs, FlattenEmpty

(* Framing what is recorded behind something. *)
LEMMA FramedConcat ==
  ASSUME NEW ps \in Seq(Seq(Nat)), NEW qs \in Seq(Seq(Nat))
  PROVE  Framed(ps \o qs) = Framed(ps) \o Framed(qs)
<1>1. /\ ps \o qs \in Seq(Seq(Nat)) /\ Len(ps \o qs) = Len(ps) + Len(qs)
      /\ \A i \in 1 .. Len(ps) + Len(qs) :
           (ps \o qs)[i] = IF i <= Len(ps) THEN ps[i] ELSE qs[i - Len(ps)]
  BY ConcatProperties
<1>2. PICK rs \in Seq(Seq(Nat)) : rs = Records(ps)
  BY RecordsIs
<1>3. PICK ts \in Seq(Seq(Nat)) : ts = Records(qs)
  BY RecordsIs
<1>4. PICK us \in Seq(Seq(Nat)) : us = Records(ps \o qs)
  BY <1>1, RecordsIs
<1>5. PICK m \in Nat : m = Len(ps)
  OBVIOUS
<1>6. PICK n \in Nat : n = Len(qs)
  OBVIOUS
<1>7. Len(rs) = m /\ \A i \in 1 .. m : rs[i] = Record(ps[i])
  BY <1>2, <1>5, RecordsIs
<1>8. Len(ts) = n /\ \A i \in 1 .. n : ts[i] = Record(qs[i])
  BY <1>3, <1>6, RecordsIs
<1>9. Len(us) = m + n /\ \A i \in 1 .. m + n : us[i] = Record((ps \o qs)[i])
  BY <1>1, <1>4, <1>5, <1>6, RecordsIs
<1>10. /\ rs \o ts \in Seq(Seq(Nat)) /\ Len(rs \o ts) = m + n
       /\ \A i \in 1 .. m + n : (rs \o ts)[i] = IF i <= m THEN rs[i] ELSE ts[i - m]
  BY <1>7, <1>8, ConcatProperties, ZenonT(60)
<1>11. \A i \in 1 .. m + n : us[i] = (rs \o ts)[i]
  <2>1. TAKE i \in 1 .. m + n
  <2>2. i <= m => i \in 1 .. m
    OBVIOUS
  <2>3. ~(i <= m) => i - m \in 1 .. n
    OBVIOUS
  <2>4. us[i] = Record(IF i <= m THEN ps[i] ELSE qs[i - m])
    BY <1>1, <1>5, <1>6, <1>9
  <2>5. QED
    BY <1>7, <1>8, <1>10, <2>2, <2>3, <2>4
<1>12. us = rs \o ts
  BY <1>9, <1>10, <1>11, SeqEqual
<1>13. FlattenSeq(rs \o ts) = FlattenSeq(rs) \o FlattenSeq(ts)
  BY FlattenConcat
<1>14. QED
  BY <1>1, <1>2, <1>3, <1>4, <1>12, <1>13, FramedIs

LEMMA FramedOne ==
  ASSUME NEW p \in Seq(Nat)
  PROVE  Framed(<<p>>) = Record(p)
<1>1. <<p>> \in Seq(Seq(Nat)) /\ Len(<<p>>) = 1 /\ <<p>>[1] = p
  OBVIOUS
<1>2. Record(p) \in Seq(Nat)
  BY RecordIs
<1>3. Records(<<p>>) = <<Record(p)>>
  <2>1. /\ Records(<<p>>) \in Seq(Seq(Nat)) /\ Len(Records(<<p>>)) = 1
        /\ \A i \in 1 .. 1 : Records(<<p>>)[i] = Record(<<p>>[i])
    BY <1>1, RecordsIs
  <2>2. /\ <<Record(p)>> \in Seq(Seq(Nat)) /\ Len(<<Record(p)>>) = 1
        /\ <<Record(p)>>[1] = Record(p)
    BY <1>2, Single
  <2>3. \A i \in 1 .. 1 : Records(<<p>>)[i] = <<Record(p)>>[i]
    BY <1>1, <2>1, <2>2
  <2>4. QED
    BY ONLY <2>1, <2>2, <2>3, SeqEqual
<1>4. QED
  BY <1>1, <1>2, <1>3, FramedIs, FlattenOne

LEMMA FramedAppend ==
  ASSUME NEW ps \in Seq(Seq(Nat)), NEW p \in Seq(Nat)
  PROVE  Framed(Append(ps, p)) = Framed(ps) \o Record(p)
<1>1. <<p>> \in Seq(Seq(Nat)) /\ Append(ps, p) = ps \o <<p>>
  BY AppendIsConcat
<1>2. QED
  BY <1>1, FramedConcat, FramedOne

(* A sequence cut behind one of its members. *)
LEMMA SplitBehind ==
  ASSUME NEW S, NEW ps \in Seq(S), NEW n \in Nat, n < Len(ps)
  PROVE  /\ SubSeq(ps, 1, n) \in Seq(S) /\ Len(SubSeq(ps, 1, n)) = n /\ ps[n + 1] \in S
         /\ SubSeq(ps, 1, n + 1) = Append(SubSeq(ps, 1, n), ps[n + 1])
         /\ SubSeq(ps, 1, n + 1) \in Seq(S)
         /\ SubSeq(ps, n + 2, Len(ps)) \in Seq(S)
         /\ ps = SubSeq(ps, 1, n + 1) \o SubSeq(ps, n + 2, Len(ps))
<1>1. PICK l \in Nat : l = Len(ps)
  OBVIOUS
<1>2. \A i \in 1 .. l : ps[i] \in S
  BY <1>1
<1>3. SubSeq(ps, 1, n) \in Seq(S) /\ Len(SubSeq(ps, 1, n)) = n /\ ps[n + 1] \in S
  <2>1. 1 \in Int /\ n \in Int /\ \A i \in 1 .. n : ps[i] \in S
    BY <1>1, <1>2
  <2>2. SubSeq(ps, 1, n) \in Seq(S) /\ Len(SubSeq(ps, 1, n)) = IF 1 <= n THEN n - 1 + 1 ELSE 0
    BY ONLY <2>1, SubSeqProperties
  <2>3. n + 1 \in 1 .. l
    BY <1>1
  <2>4. QED
    BY <1>2, <2>2, <2>3
<1>4. SubSeq(ps, 1, n + 1) = Append(SubSeq(ps, 1, n), ps[n + 1])
  <2>1. 1 \in 1 .. Len(ps) /\ n + 1 \in 1 .. Len(ps) /\ (n + 1) - 1 = n
    BY <1>1
  <2>2. SubSeq(ps, 1, n + 1) = SubSeq(ps, 1, (n + 1) - 1) \o <<ps[n + 1]>>
    BY ONLY <2>1, ps \in Seq(S), SubSeqRecursiveSecond
  <2>3. PICK a \in Seq(S), e \in S : a = SubSeq(ps, 1, n) /\ e = ps[n + 1]
    BY <1>3
  <2>4. Append(a, e) = a \o <<e>>
    BY ONLY AppendIsConcat
  <2>5. QED
    BY ONLY <2>1, <2>2, <2>3, <2>4
<1>5. SubSeq(ps, n + 2, Len(ps)) \in Seq(S)
  <2>1. n + 2 \in Int /\ l \in Int /\ \A i \in n + 2 .. l : ps[i] \in S
    BY <1>2
  <2>2. SubSeq(ps, n + 2, l) \in Seq(S)
    BY ONLY <2>1, SubSeqProperties
  <2>3. QED
    BY <1>1, <2>2
<1>6. ps = SubSeq(ps, 1, n + 1) \o SubSeq(ps, n + 2, Len(ps))
  <2>1. PICK k : k = n + 1
    OBVIOUS
  <2>2. 1 \in 1 .. Len(ps) + 1 /\ k \in 1 - 1 .. Len(ps) /\ Len(ps) \in k .. Len(ps) /\ k + 1 = n + 2
    BY <1>1, <2>1
  <2>3. SubSeq(ps, 1, k) \o SubSeq(ps, k + 1, Len(ps)) = SubSeq(ps, 1, Len(ps))
    BY ONLY <2>2, ps \in Seq(S), ConcatAdjacentSubSeq
  <2>4. SubSeq(ps, 1, Len(ps)) = ps
    BY SubSeqFull
  <2>5. QED
    BY ONLY <2>1, <2>2, <2>3, <2>4
<1>7. SubSeq(ps, 1, n + 1) \in Seq(S)
  <2>1. PICK a \in Seq(S), e \in S : a = SubSeq(ps, 1, n) /\ e = ps[n + 1]
    BY <1>3
  <2>2. Append(a, e) \in Seq(S)
    BY ONLY AppendProperties
  <2>3. QED
    BY ONLY <1>4, <2>1, <2>2
<1>8. QED
  BY <1>3, <1>4, <1>5, <1>6, <1>7

(* Two sequences behind each other, member by member. *)
LEMMA Joined ==
  ASSUME NEW S, NEW s \in Seq(S), NEW t \in Seq(S)
  PROVE  /\ s \o t \in Seq(S) /\ Len(s \o t) = Len(s) + Len(t)
         /\ \A i \in 1 .. Len(s) : (s \o t)[i] = s[i]
         /\ \A i \in 1 .. Len(t) : (s \o t)[Len(s) + i] = t[i]
<1>1. PICK m \in Nat : m = Len(s)
  OBVIOUS
<1>2. PICK n \in Nat : n = Len(t)
  OBVIOUS
<1>3. PICK u : u = s \o t
  OBVIOUS
<1>4. /\ s \o t \in Seq(S) /\ Len(s \o t) = Len(s) + Len(t)
      /\ \A i \in 1 .. Len(s) + Len(t) :
           (s \o t)[i] = IF i <= Len(s) THEN s[i] ELSE t[i - Len(s)]
  BY ConcatProperties
<1>5. \A i \in 1 .. m + n : u[i] = IF i <= m THEN s[i] ELSE t[i - m]
  BY ONLY <1>1, <1>2, <1>3, <1>4, Zenon
<1>6. ASSUME NEW i \in 1 .. m PROVE u[i] = s[i]
  <2>1. i \in 1 .. m + n /\ i <= m
    BY ONLY m \in Nat, n \in Nat
  <2>2. QED
    BY ONLY <1>5, <2>1, Zenon
<1>7. ASSUME NEW i \in 1 .. n PROVE u[m + i] = t[i]
  <2>1. m + i \in 1 .. m + n /\ ~(m + i <= m) /\ (m + i) - m = i
    BY ONLY m \in Nat, n \in Nat
  <2>2. u[m + i] = t[(m + i) - m]
    BY ONLY <1>5, <2>1, Zenon
  <2>3. QED
    BY ONLY <2>1, <2>2
<1>8. QED
  BY ONLY <1>1, <1>2, <1>3, <1>4, <1>6, <1>7, Zenon

(* A part of a sequence that is another one. *)
LEMMA PartOf ==
  ASSUME NEW S, NEW u \in Seq(S), NEW q \in Seq(S), NEW first \in Nat \ {0},
         NEW last, last = (first - 1) + Len(q), last <= Len(u),
         \A i \in 1 .. Len(q) : u[(first - 1) + i] = q[i]
  PROVE  SubSeq(u, first, last) = q
<1>1. PICK length \in Nat : length = Len(u) /\ \A i \in 1 .. length : u[i] \in S
  OBVIOUS
<1>2. PICK l \in Nat : l = Len(q)
  OBVIOUS
<1>3. /\ first \in Int /\ last \in Int /\ \A i \in first .. last : i \in 1 .. length
      /\ last - first + 1 = l /\ (first <= last <=> l >= 1)
      /\ \A i \in 1 .. l : first + i - 1 = (first - 1) + i
  <2>1. last = (first - 1) + l /\ last <= length
    BY <1>1, <1>2
  <2>2. QED
    BY ONLY <2>1, l \in Nat, length \in Nat, first \in Nat \ {0}
<1>4. \A i \in first .. last : u[i] \in S
  BY ONLY <1>1, <1>3
<1>5. /\ SubSeq(u, first, last) \in Seq(S)
      /\ Len(SubSeq(u, first, last)) = IF first <= last THEN last - first + 1 ELSE 0
      /\ \A i \in 1 .. last - first + 1 : SubSeq(u, first, last)[i] = u[first + i - 1]
  BY ONLY <1>3, <1>4, SubSeqProperties
<1>6. PICK r \in Seq(S) : r = SubSeq(u, first, last)
  BY ONLY <1>5
<1>7. Len(r) = l
  BY ONLY <1>3, <1>5, <1>6, l \in Nat
<1>8. \A i \in 1 .. l : r[i] = q[i]
  <2>1. TAKE i \in 1 .. l
  <2>2. r[i] = u[first + i - 1]
    BY ONLY <1>3, <1>5, <1>6
  <2>3. u[(first - 1) + i] = q[i]
    BY <1>2
  <2>4. QED
    BY ONLY <1>3, <2>2, <2>3
<1>9. r = q
  BY ONLY <1>2, <1>7, <1>8, r \in Seq(S), q \in Seq(S), SeqEqual
<1>10. QED
  BY ONLY <1>6, <1>9

(* One sequence stands in another, behind so many members.                 *)
Holds(bytes, before, part) ==
  /\ before + Len(part) <= Len(bytes)
  /\ \A i \in 1 .. Len(part) : bytes[before + i] = part[i]

LEMMA HoldsJoined ==
  ASSUME NEW s \in Seq(Nat), NEW t \in Seq(Nat)
  PROVE  /\ s \o t \in Seq(Nat) /\ Len(s \o t) = Len(s) + Len(t)
         /\ Holds(s \o t, 0, s) /\ Holds(s \o t, Len(s), t)
<1>1. /\ s \o t \in Seq(Nat) /\ Len(s \o t) = Len(s) + Len(t)
      /\ \A i \in 1 .. Len(s) : (s \o t)[i] = s[i]
      /\ \A i \in 1 .. Len(t) : (s \o t)[Len(s) + i] = t[i]
  BY Joined
<1>2. PICK u \in Seq(Nat) : u = s \o t
  BY <1>1
<1>3. PICK m \in Nat : m = Len(s)
  OBVIOUS
<1>4. PICK n \in Nat : n = Len(t)
  OBVIOUS
<1>5. Len(u) = m + n /\ 0 + m <= m + n /\ \A i \in 1 .. m : u[i] = s[i] /\ 0 + i = i
  BY ONLY <1>1, <1>2, <1>3, <1>4
<1>6. Holds(u, 0, s)
  BY ONLY <1>3, <1>5 DEF Holds
<1>7. m + n <= m + n
  OBVIOUS
<1>8. Holds(u, m, t)
  BY ONLY <1>1, <1>2, <1>3, <1>4, <1>5, <1>7, Zenon DEF Holds
<1>9. QED
  BY ONLY <1>1, <1>2, <1>3, <1>6, <1>8, Zenon

LEMMA HoldsWithin ==
  ASSUME NEW u, NEW s \in Seq(Nat), NEW t \in Seq(Nat), NEW a \in Nat, NEW b \in Nat,
         Len(u) \in Nat, Holds(u, a, s), Holds(s, b, t), NEW c, c = a + b
  PROVE  Holds(u, c, t)
<1>1. PICK l \in Nat : l = Len(u)
  OBVIOUS
<1>2. PICK m \in Nat : m = Len(s)
  OBVIOUS
<1>3. PICK n \in Nat : n = Len(t)
  OBVIOUS
<1>4. a + m <= l /\ \A i \in 1 .. m : u[a + i] = s[i]
  BY ONLY <1>1, <1>2, Holds(u, a, s), Zenon DEF Holds
<1>5. b + n <= m /\ \A i \in 1 .. n : s[b + i] = t[i]
  BY ONLY <1>2, <1>3, Holds(s, b, t), Zenon DEF Holds
<1>6. c + n <= l /\ \A i \in 1 .. n : b + i \in 1 .. m /\ c + i = a + (b + i)
  <2>1. a + m <= l /\ b + n <= m
    BY ONLY <1>4, <1>5
  <2>2. QED
    BY ONLY <2>1, c = a + b, a \in Nat, b \in Nat, l \in Nat, m \in Nat, n \in Nat
<1>7. \A i \in 1 .. n : u[c + i] = t[i]
  <2>1. TAKE i \in 1 .. n
  <2>2. u[a + (b + i)] = s[b + i]
    BY ONLY <1>4, <1>6, Zenon
  <2>3. s[b + i] = t[i]
    BY ONLY <1>5, Zenon
  <2>4. QED
    BY ONLY <1>6, <2>2, <2>3, Zenon
<1>8. QED
  BY ONLY <1>1, <1>3, <1>6, <1>7, Zenon DEF Holds

(* What is read there. *)
LEMMA HoldsU16 ==
  ASSUME NEW bytes, NEW at \in Nat, NEW n \in 0 .. MaxU16, Holds(bytes, at, WriteU16(n))
  PROVE  ReadU16(bytes, at) = n
<1>1. n \in Nat
  BY FitsU16
<1>2. Len(WriteU16(n)) = 2
  BY <1>1, WriteU16Is
<1>3. \A i \in 1 .. 2 : bytes[at + i] = WriteU16(n)[i]
  BY ONLY <1>2, Holds(bytes, at, WriteU16(n)), Zenon DEF Holds
<1>4. QED
  BY ONLY <1>3, ByteBaseAssumption, at \in Nat, n \in 0 .. MaxU16, ReadsU16

LEMMA HoldsU64 ==
  ASSUME NEW bytes, NEW at \in Nat, NEW n \in Nat, FitsIn(8, n), Holds(bytes, at, WriteU64(n))
  PROVE  ReadU64(bytes, at) = n
<1>1. Len(WriteU64(n)) = 8
  BY WriteU64Is
<1>2. \A i \in 1 .. 8 : bytes[at + i] = WriteU64(n)[i]
  BY ONLY <1>1, Holds(bytes, at, WriteU64(n)), Zenon DEF Holds
<1>3. QED
  BY ONLY <1>2, ByteBaseAssumption, at \in Nat, n \in Nat, FitsIn(8, n), ReadsU64

Part(bytes, first, last) == SubSeq(bytes, first, last)

LEMMA HoldsPart ==
  ASSUME NEW bytes \in Seq(Nat), NEW at \in Nat, NEW part \in Seq(Nat),
         Holds(bytes, at, part),
         NEW first, first = at + 1, NEW last, last = at + Len(part)
  PROVE  Part(bytes, first, last) = part
<1>1. /\ last <= Len(bytes) /\ \A i \in 1 .. Len(part) : bytes[at + i] = part[i]
  BY ONLY Holds(bytes, at, part), last = at + Len(part) DEF Holds
<1>2. first \in Nat \ {0} /\ first - 1 = at
  BY ONLY first = at + 1, at \in Nat
<1>3. last = (first - 1) + Len(part)
  BY ONLY <1>2, last = at + Len(part)
<1>4. \A i \in 1 .. Len(part) : bytes[(first - 1) + i] = part[i]
  BY ONLY <1>1, <1>2
<1>5. last <= Len(bytes)
  BY ONLY <1>1
<1>6. SubSeq(bytes, first, last) = part
  BY ONLY <1>2, <1>3, <1>4, <1>5, bytes \in Seq(Nat), part \in Seq(Nat), PartOf
<1>7. QED
  BY ONLY <1>6, Zenon DEF Part

(* What is read where a record stands. *)
LEMMA RecordAt ==
  ASSUME NEW bytes \in Seq(Nat), NEW at \in Nat, NEW p \in Seq(Nat),
         NEW l \in 0 .. MaxU16, l = Len(p), Holds(bytes, at, Record(p))
  PROVE  /\ ReadU16(bytes, at) = l /\ (at + 2) + l <= Len(bytes)
         /\ Part(bytes, at + 3, (at + 2) + l) = p
<1>1. l \in Nat
  BY FitsU16
<1>2. PICK w \in Seq(Nat) : w = WriteU16(l) /\ Len(w) = 2
  BY <1>1, WriteU16Is
<1>3. PICK record \in Seq(Nat) : record = Record(p) /\ record = w \o p
  BY <1>2, RecordIs DEF Record
<1>4. Holds(record, 0, w) /\ Holds(record, 2, p)
  BY ONLY <1>2, <1>3, HoldsJoined
<1>5. PICK length \in Nat : length = Len(bytes)
  OBVIOUS
<1>6. PICK next \in Nat : next = at + 2
  BY ONLY at \in Nat
<1>7. 0 \in Nat /\ 2 \in Nat /\ at = at + 0
  BY ONLY at \in Nat
<1>8. Len(bytes) \in Nat /\ Holds(bytes, at, record)
  BY ONLY <1>3, <1>5, Holds(bytes, at, Record(p))
<1>9. Holds(bytes, at, w)
  BY ONLY <1>4, <1>7, <1>8, HoldsWithin
<1>10. Holds(bytes, next, p)
  BY ONLY <1>4, <1>6, <1>7, <1>8, HoldsWithin
<1>11. ReadU16(bytes, at) = l
  BY ONLY <1>2, <1>9, ByteBaseAssumption, HoldsU16
<1>12. PICK first : first = next + 1
  OBVIOUS
<1>13. PICK last : last = next + l
  OBVIOUS
<1>14. last = next + Len(p)
  BY ONLY <1>13, l = Len(p)
<1>15. Part(bytes, first, last) = p
  BY ONLY <1>10, <1>12, <1>14, next \in Nat, bytes \in Seq(Nat), p \in Seq(Nat), HoldsPart
<1>16. next + l <= Len(bytes)
  BY ONLY <1>10, l = Len(p), Zenon DEF Holds
<1>17. first = at + 3 /\ last = (at + 2) + l
  BY ONLY <1>1, <1>6, <1>12, <1>13, at \in Nat
<1>18. QED
  BY ONLY <1>6, <1>11, <1>15, <1>16, <1>17
-----------------------------------------------------------------------------
(* The file, record by record *)

(* What readNext() finds behind the records it has read: the next of them, *)
(* or nothing more that is whole.                                          *)
ReadsRecord(n) ==
  LET at == Len(Framed(SubSeq(file.payloads, 1, n)))
  IN  /\ at \in Nat /\ at <= Len(file.bytes)
      /\ n < Len(file.payloads) =>
           /\ ReadNext(at) = [status |-> "Message", data |-> file.payloads[n + 1]]
           /\ Behind(at, ReadNext(at)) = Len(Framed(SubSeq(file.payloads, 1, n + 1)))
      /\ n = Len(file.payloads) => ReadNext(at).status # "Message"

LEMMA RecordingIs ==
  ASSUME IsRecording(file)
  PROVE  /\ file.payloads \in Sessions /\ file.fails \in BOOLEAN
         /\ \E ending \in Seq(Nat) : /\ file.bytes = Framed(file.payloads) \o ending
                                     /\ ~HoldsRecord(ending)
<1> DEFINE ending == SubSeq(file.bytes, Len(Framed(file.payloads)) + 1, Len(file.bytes))
<1>1. /\ file = RecordedFile(file.payloads, ending, file.fails)
      /\ file.payloads \in Seq(Seq(Nat)) /\ file.fails \in BOOLEAN
      /\ \A n \in DOMAIN file.payloads : Len(file.payloads[n]) \in 1 .. MaxU16
      /\ ending \in Seq(Nat) /\ ~HoldsRecord(ending)
  BY Zenon DEF IsRecording
<1> HIDE DEF ending
<1>2. file.bytes = Framed(file.payloads) \o ending
  <2>1. \A a, b, c : RecordedFile(a, b, c).bytes = Framed(a) \o b
    BY DEF RecordedFile
  <2>2. QED
    BY ONLY <1>1, <2>1, ZenonT(60)
<1>3. file.payloads \in Sessions
  BY <1>1 DEF Sessions
<1>4. QED
  BY <1>1, <1>2, <1>3

LEMMA Assoc ==
  \A x, y, z \in Seq(Nat) : y \o z \in Seq(Nat) /\ (x \o y) \o z = x \o (y \o z)
<1>1. ASSUME NEW x \in Seq(Nat), NEW y \in Seq(Nat), NEW z \in Seq(Nat)
      PROVE  y \o z \in Seq(Nat) /\ (x \o y) \o z = x \o (y \o z)
  <2>1. y \o z \in Seq(Nat)
    BY ONLY ConcatProperties, y \in Seq(Nat), z \in Seq(Nat)
  <2>2. (x \o y) \o z = x \o (y \o z)
    BY ONLY ConcatAssociative, x \in Seq(Nat), y \in Seq(Nat), z \in Seq(Nat), SMTT(30)
  <2>3. QED
    BY ONLY <2>1, <2>2
<1>2. QED
  BY ONLY <1>1, Zenon

(* Where each record stands among those that are framed. *)
LEMMA FramedHolds ==
  ASSUME NEW ps \in Seq(Seq(Nat)), NEW n \in Nat, n < Len(ps)
  PROVE  LET before == Framed(SubSeq(ps, 1, n))
         IN  /\ Framed(ps) \in Seq(Nat) /\ before \in Seq(Nat)
             /\ Holds(Framed(ps), Len(before), Record(ps[n + 1]))
             /\ Len(Framed(SubSeq(ps, 1, n + 1))) = (Len(before) + 2) + Len(ps[n + 1])
<1>1. /\ SubSeq(ps, 1, n) \in Seq(Seq(Nat)) /\ ps[n + 1] \in Seq(Nat)
      /\ SubSeq(ps, 1, n + 1) = Append(SubSeq(ps, 1, n), ps[n + 1])
      /\ SubSeq(ps, 1, n + 1) \in Seq(Seq(Nat))
      /\ SubSeq(ps, n + 2, Len(ps)) \in Seq(Seq(Nat))
      /\ ps = SubSeq(ps, 1, n + 1) \o SubSeq(ps, n + 2, Len(ps))
  BY SplitBehind
<1>2. PICK first \in Seq(Seq(Nat)) : first = SubSeq(ps, 1, n)
  BY ONLY <1>1
<1>3. PICK p \in Seq(Nat) : p = ps[n + 1]
  BY ONLY <1>1
<1>4. PICK rest \in Seq(Seq(Nat)) : rest = SubSeq(ps, n + 2, Len(ps))
  BY ONLY <1>1
<1>5. PICK both \in Seq(Seq(Nat)) : both = SubSeq(ps, 1, n + 1)
  BY ONLY <1>1
<1>6. both = Append(first, p) /\ ps = both \o rest
  BY ONLY <1>1, <1>2, <1>3, <1>4, <1>5
<1>7. Framed(both) = Framed(first) \o Record(p)
  BY ONLY <1>6, ByteBaseAssumption, FramedAppend
<1>8. PICK before \in Seq(Nat), start \in Seq(Nat), frest \in Seq(Nat) :
        before = Framed(first) /\ start = Framed(both) /\ frest = Framed(rest)
  BY ONLY ByteBaseAssumption, FramedIs
<1>9. PICK all \in Seq(Nat) : all = Framed(ps)
  BY ONLY ByteBaseAssumption, ps \in Seq(Seq(Nat)), FramedIs
<1>10. all = start \o frest
  BY ONLY <1>6, <1>8, <1>9, ByteBaseAssumption, FramedConcat
<1>11. PICK record \in Seq(Nat) : record = Record(p) /\ Len(record) = Len(p) + 2
  BY ONLY ByteBaseAssumption, RecordIs
<1>12. start = before \o record
  BY ONLY <1>7, <1>8, <1>11
<1>13. Holds(all, 0, start) /\ Len(all) = Len(start) + Len(frest)
  BY ONLY <1>10, HoldsJoined
<1>14. Holds(start, Len(before), record) /\ Len(start) = Len(before) + Len(record)
  BY ONLY <1>12, HoldsJoined
<1>15. PICK at \in Nat : at = Len(before)
  OBVIOUS
<1>16. PICK k \in Nat : k = Len(p)
  OBVIOUS
<1>17. Len(start) = (at + 2) + k
  BY ONLY <1>11, <1>14, <1>15, <1>16
<1>18. Holds(all, at, record)
  <2>1. 0 \in Nat /\ at = 0 + at /\ Len(all) \in Nat /\ Holds(start, at, record)
    BY ONLY <1>14, <1>15, at \in Nat, all \in Seq(Nat)
  <2>2. QED
    BY ONLY <1>13, <2>1, HoldsWithin
<1>19. QED
  BY ONLY <1>2, <1>3, <1>5, <1>8, <1>9, <1>11, <1>15, <1>16, <1>17, <1>18, Zenon

LEMMA ReadsTheFile ==
  ASSUME IsRecording(file), NEW n \in Nat, n <= Len(file.payloads)
  PROVE  ReadsRecord(n)
<1>1. PICK ps \in Sessions, ending \in Seq(Nat), bytes \in {file.bytes} :
        /\ ps = file.payloads /\ bytes = file.bytes
        /\ bytes = Framed(ps) \o ending /\ ~HoldsRecord(ending)
  BY RecordingIs, Zenon
<1>2. ps \in Seq(Seq(Nat)) /\ \A i \in 1 .. Len(ps) : Len(ps[i]) \in 1 .. MaxU16
  BY DEF Sessions
<1>3. PICK l \in Nat : l = Len(ps)
  BY <1>2
<1>4. CASE n < l
  <2>1. n < Len(ps)
    BY ONLY <1>3, <1>4
  <2>2. PICK p \in Seq(Nat) : p = ps[n + 1]
    BY ONLY <1>2, <2>1, n \in Nat, SplitBehind
  <2>3. PICK k \in 1 .. MaxU16 : k = Len(p)
    <3>1. n + 1 \in 1 .. l
      BY ONLY <1>4, n \in Nat, l \in Nat
    <3>2. QED
      BY ONLY <1>2, <1>3, <2>2, <3>1
  <2>4. k \in 0 .. MaxU16 /\ k \in Nat \ {0}
    <3>1. MaxU16 \in Nat
      BY DEF MaxU16
    <3>2. QED
      BY <3>1
  <2>5. /\ Framed(ps) \in Seq(Nat) /\ Framed(SubSeq(ps, 1, n)) \in Seq(Nat)
        /\ Holds(Framed(ps), Len(Framed(SubSeq(ps, 1, n))), Record(ps[n + 1]))
        /\ Len(Framed(SubSeq(ps, 1, n + 1))) =
             (Len(Framed(SubSeq(ps, 1, n))) + 2) + Len(ps[n + 1])
    BY ONLY <1>2, <2>1, n \in Nat, ByteBaseAssumption, FramedHolds
  <2>6. PICK framed \in Seq(Nat) : framed = Framed(ps)
    BY ONLY <2>5
  <2>7. PICK at \in Nat : at = Len(Framed(SubSeq(ps, 1, n)))
    <3>1. PICK before \in Seq(Nat) : before = Framed(SubSeq(ps, 1, n))
      BY ONLY <2>5
    <3>2. QED
      BY ONLY <3>1
  <2>8. PICK record \in Seq(Nat) : record = Record(p)
    BY ONLY ByteBaseAssumption, RecordIs
  <2>9. Holds(framed, at, record) /\ Len(Framed(SubSeq(ps, 1, n + 1))) = (at + 2) + k
    BY ONLY <2>2, <2>3, <2>5, <2>6, <2>7, <2>8, Zenon
  <2>10. PICK content \in Seq(Nat) : content = bytes /\ Holds(content, 0, framed)
    BY ONLY <1>1, <2>6, HoldsJoined
  <2>11. PICK length \in Nat : length = Len(content)
    OBVIOUS
  <2>12. Holds(content, at, record)
    <3>1. 0 \in Nat /\ at = 0 + at /\ Len(content) \in Nat
      BY ONLY <2>11, at \in Nat
    <3>2. QED
      BY ONLY <2>9, <2>10, <3>1, HoldsWithin
  <2>13. /\ ReadU16(content, at) = k /\ (at + 2) + k <= Len(content)
         /\ Part(content, at + 3, (at + 2) + k) = p
    BY ONLY <2>3, <2>4, <2>8, <2>12, ByteBaseAssumption, RecordAt
  <2>17. /\ Len(bytes) = length /\ (at + 2) + k <= length
         /\ ReadU16(bytes, at) = k
         /\ SubSeq(bytes, at + 3, (at + 2) + k) = p
    BY ONLY <2>10, <2>11, <2>13 DEF Part
  <2>18. /\ Len(bytes) - at # 0 /\ Len(bytes) - at # 1
         /\ k # 0 /\ ~((Len(bytes) - at) - 2 < k) /\ at <= Len(bytes)
         /\ at + 2 + k = (at + 2) + k
    BY ONLY <2>4, <2>17, at \in Nat, length \in Nat
  <2>19. ReadNext(at) = [status |-> "Message", data |-> p]
    <3>1. /\ Len(file.bytes) - at # 0 /\ Len(file.bytes) - at # 1
          /\ ReadU16(file.bytes, at) = k /\ k # 0
          /\ ~((Len(file.bytes) - at) - 2 < k)
          /\ SubSeq(file.bytes, at + 3, at + 2 + k) = p
      BY ONLY <1>1, <2>17, <2>18
    <3>2. QED
      BY ONLY <3>1, Zenon DEF ReadNext
  <2>20. Behind(at, ReadNext(at)) = (at + 2) + k
    <3>1. ReadNext(at).data = p
      BY ONLY <2>19
    <3>2. QED
      BY ONLY <2>3, <2>18, <3>1 DEF Behind
  <2>22. /\ Len(Framed(SubSeq(file.payloads, 1, n))) = at
         /\ Len(Framed(SubSeq(file.payloads, 1, n + 1))) = (at + 2) + k
         /\ file.payloads[n + 1] = p /\ n # Len(file.payloads)
    <3>1. n # l
      BY ONLY <1>4, n \in Nat, l \in Nat
    <3>2. QED
      BY ONLY <1>1, <1>3, <2>2, <2>7, <2>9, <3>1, Zenon
  <2>23. at <= Len(file.bytes)
    BY ONLY <1>1, <2>18
  <2>24. QED
    BY ONLY <2>19, <2>20, <2>22, <2>23, at \in Nat, Zenon DEF ReadsRecord
<1>5. CASE n = l
  <2>1. SubSeq(ps, 1, n) = ps
    BY ONLY <1>2, <1>3, <1>5, SubSeqFull
  <2>2. PICK before \in Seq(Nat) : before = Framed(ps)
    BY ONLY <1>2, ByteBaseAssumption, FramedIs
  <2>3. PICK at \in Nat : at = Len(before)
    OBVIOUS
  <2>4. PICK m \in Nat : m = Len(ending)
    OBVIOUS
  <2>5. /\ bytes \in Seq(Nat) /\ Len(bytes) = at + m
        /\ \A i \in 1 .. m : bytes[at + i] = ending[i]
    <3>1. /\ before \o ending \in Seq(Nat) /\ Len(before \o ending) = Len(before) + Len(ending)
          /\ \A i \in 1 .. Len(ending) : (before \o ending)[Len(before) + i] = ending[i]
      BY ONLY Joined
    <3>2. QED
      BY ONLY <1>1, <2>2, <2>3, <2>4, <3>1, Zenon
  <2>6. Len(bytes) - at = m /\ at <= Len(bytes)
    BY ONLY <2>5
  <2>7. ASSUME m >= 2 PROVE ReadU16(bytes, at) = 0 \/ m - 2 < ReadU16(bytes, at)
    <3>1. 1 \in 1 .. m /\ 2 \in 1 .. m /\ 0 \in Nat
      BY ONLY <2>7, m \in Nat
    <3>2. ending[1] \in Nat /\ ending[2] \in Nat
      BY <2>4, <3>1
    <3>3. PICK x \in Nat, y \in Nat : x = ending[1] /\ y = ending[2]
      BY <3>2
    <3>4. bytes[at + 1] = x /\ bytes[at + 2] = y
      BY ONLY <2>5, <3>1, <3>3
    <3>5. ReadU16(bytes, at) = x * ByteBase + y
      BY ONLY <3>4, ByteBaseAssumption, at \in Nat, ReadU16Is
    <3>6. ending[0 + 1] = x /\ ending[0 + 2] = y
      BY ONLY <3>3
    <3>7. ReadU16(ending, 0) = x * ByteBase + y
      BY ONLY <3>1, <3>6, ByteBaseAssumption, ReadU16Is
    <3>8. ~(ReadU16(ending, 0) \in 1 .. m - 2)
      BY ONLY <1>1, <2>4, <2>7 DEF HoldsRecord
    <3>9. x * ByteBase + y \in Nat
      <4>1. x * ByteBase \in Nat
        BY ONLY ByteBaseAssumption, x \in Nat
      <4>2. QED
        BY ONLY <4>1, y \in Nat
    <3>10. QED
      BY ONLY <3>5, <3>7, <3>8, <3>9, m \in Nat
  <2>8. NothingMore.status # "Message"
    BY DEF NothingMore
  <2>9. ReadNext(at).status # "Message"
    <3> DEFINE left == Len(file.bytes) - at
               length == ReadU16(file.bytes, at)
    <3>1. left = m /\ (left # 0 /\ left # 1 => length = 0 \/ left - 2 < length)
      <4>1. m # 0 /\ m # 1 => m >= 2
        BY ONLY m \in Nat
      <4>2. QED
        BY ONLY <1>1, <2>6, <2>7, <4>1
    <3>2. \/ left = 0 /\ ReadNext(at) = NothingMore
          \/ left # 0 /\ left = 1 /\ ReadNext(at) = [status |-> "Incomplete"]
          \/ left # 0 /\ left # 1 /\ length = 0 /\ ReadNext(at) = [status |-> "EndOfSession"]
          \/ left # 0 /\ left # 1 /\ length # 0 /\ left - 2 < length /\ ReadNext(at) = NothingMore
      BY ONLY <3>1, Zenon DEF ReadNext
    <3> HIDE DEF left, length
    <3>3. [status |-> "Incomplete"].status # "Message"
          /\ [status |-> "EndOfSession"].status # "Message"
      OBVIOUS
    <3>4. QED
      BY ONLY <2>8, <3>2, <3>3
  <2>10. /\ Len(Framed(SubSeq(file.payloads, 1, n))) = at
         /\ ~(n < Len(file.payloads))
    <3>1. ~(n < l)
      BY ONLY <1>5, n \in Nat
    <3>2. QED
      BY ONLY <1>1, <1>3, <2>1, <2>2, <2>3, <3>1, Zenon
  <2>11. at <= Len(file.bytes)
    BY ONLY <1>1, <2>6
  <2>12. QED
    BY ONLY <2>9, <2>10, <2>11, at \in Nat, Zenon DEF ReadsRecord
<1>6. QED
  BY ONLY <1>1, <1>3, <1>4, <1>5, n \in Nat, n <= Len(file.payloads)
-----------------------------------------------------------------------------
(* Datagrams *)

Header(first, count) == (Session \o WriteU64(first)) \o WriteU16(count)
OpenPacket(first, ps) == Header(first, 0) \o Framed(ps)
Datagram(first, ps) == Header(first, Len(ps)) \o Framed(ps)

LEMMA HeaderIs ==
  ASSUME NEW first \in Nat, NEW count \in Nat
  PROVE  /\ Header(first, count) \in Seq(Nat) /\ Len(Header(first, count)) = 20
         /\ Holds(Header(first, count), 10, WriteU64(first))
         /\ Holds(Header(first, count), 18, WriteU16(count))
<1>1. PICK session \in Seq(Nat) : session = Session /\ Len(session) = 10
  BY LoadGenAssumption DEF SequenceOffset
<1>2. PICK number \in Seq(Nat) : number = WriteU64(first) /\ Len(number) = 8
  BY WriteU64Is
<1>3. PICK many \in Seq(Nat) : many = WriteU16(count) /\ Len(many) = 2
  BY WriteU16Is
<1>4. session \o number \in Seq(Nat) /\ Len(session \o number) = 18
      /\ Holds(session \o number, 10, number)
  <2>1. session \o number \in Seq(Nat) /\ Len(session \o number) = Len(session) + Len(number)
        /\ Holds(session \o number, Len(session), number)
    BY ONLY HoldsJoined
  <2>2. 10 + 8 = 18
    OBVIOUS
  <2>3. QED
    BY ONLY <1>1, <1>2, <2>1, <2>2, Zenon
<1>5. PICK start \in Seq(Nat) : start = session \o number
  BY ONLY <1>4
<1>6. Len(start) = 18 /\ Holds(start, 10, number)
  BY ONLY <1>4, <1>5
<1>7. start \o many \in Seq(Nat) /\ Len(start \o many) = 20
      /\ Holds(start \o many, 0, start) /\ Holds(start \o many, 18, many)
  <2>1. start \o many \in Seq(Nat) /\ Len(start \o many) = Len(start) + Len(many)
        /\ Holds(start \o many, 0, start) /\ Holds(start \o many, Len(start), many)
    BY ONLY start \in Seq(Nat), many \in Seq(Nat), HoldsJoined
  <2>2. 18 + 2 = 20
    OBVIOUS
  <2>3. QED
    BY ONLY <1>3, <1>6, <2>1, <2>2, Zenon
<1>8. PICK all \in Seq(Nat) : all = start \o many
  BY ONLY <1>7
<1>9. Len(all) = 20 /\ Holds(all, 0, start) /\ Holds(all, 18, many)
  BY ONLY <1>7, <1>8
<1>10. Holds(all, 10, number)
  <2>1. 0 \in Nat /\ 10 \in Nat /\ 10 = 0 + 10 /\ Len(all) \in Nat
    BY ONLY <1>9
  <2>2. QED
    BY ONLY <1>6, <1>9, <2>1, HoldsWithin
<1>11. Header(first, count) = all
  BY ONLY <1>1, <1>2, <1>3, <1>5, <1>8, Zenon DEF Header
<1>12. QED
  BY ONLY <1>2, <1>3, <1>9, <1>10, <1>11

LEMMA BeginPacketIs ==
  ASSUME NEW first \in Nat
  PROVE  BeginPacket(Session, first) = OpenPacket(first, <<>>)
<1>1. BeginPacket(Session, first) = Header(first, 0)
  BY DEF BeginPacket, Header
<1>2. 0 \in Nat
  OBVIOUS
<1>3. Header(first, 0) \in Seq(Nat)
  BY <1>2, HeaderIs
<1>4. Header(first, 0) \o <<>> = Header(first, 0)
  BY <1>3, ConcatEmptySeq
<1>5. QED
  BY <1>1, <1>4, FramedEmpty DEF OpenPacket

LEMMA AssocFour ==
  \A x, y, z, t \in Seq(Nat) : ((x \o y) \o z) \o t = x \o (y \o (z \o t))
<1> DEFINE S == Seq(Nat)
           Cat(a, b) == a \o b
<1>1. \A x, y, z \in S : Cat(y, z) \in S /\ Cat(Cat(x, y), z) = Cat(x, Cat(y, z))
  BY ONLY Assoc
<1> HIDE DEF S, Cat
<1>2. ASSUME NEW x \in S, NEW y \in S, NEW z \in S, NEW t \in S
      PROVE  Cat(Cat(Cat(x, y), z), t) = Cat(x, Cat(y, Cat(z, t)))
  <2>1. Cat(x, y) \in S /\ Cat(z, t) \in S
    BY ONLY <1>1, x \in S, y \in S, z \in S, t \in S
  <2>2. Cat(Cat(Cat(x, y), z), t) = Cat(Cat(x, y), Cat(z, t))
    BY ONLY <1>1, <2>1, z \in S, t \in S
  <2>3. Cat(Cat(x, y), Cat(z, t)) = Cat(x, Cat(y, Cat(z, t)))
    BY ONLY <1>1, <2>1, x \in S, y \in S
  <2>4. QED
    BY ONLY <2>2, <2>3
<1>3. QED
  BY ONLY <1>2 DEF S, Cat

LEMMA AppendMessageIs ==
  ASSUME NEW first \in Nat, NEW ps \in Seq(Seq(Nat)), NEW p \in Seq(Nat)
  PROVE  AppendMessage(OpenPacket(first, ps), p) = OpenPacket(first, Append(ps, p))
<1>1. PICK header \in Seq(Nat) : header = Header(first, 0)
  <2>1. 0 \in Nat
    OBVIOUS
  <2>2. QED
    BY <2>1, HeaderIs
<1>2. PICK framed \in Seq(Nat) : framed = Framed(ps)
  BY FramedIs
<1>3. PICK length \in Seq(Nat) : length = WriteU16(Len(p))
  <2>1. Len(p) \in Nat
    OBVIOUS
  <2>2. QED
    BY <2>1, WriteU16Is
<1>4. Framed(Append(ps, p)) = framed \o (length \o p)
  BY <1>2, <1>3, FramedAppend DEF Record
<1>5. AppendMessage(OpenPacket(first, ps), p) = ((header \o framed) \o length) \o p
  BY <1>1, <1>2, <1>3, Zenon DEF AppendMessage, OpenPacket
<1>6. OpenPacket(first, Append(ps, p)) = header \o (framed \o (length \o p))
  BY <1>1, <1>4, Zenon DEF OpenPacket
<1>7. /\ header \in Seq(Nat) /\ framed \in Seq(Nat) /\ length \in Seq(Nat) /\ p \in Seq(Nat)
  OBVIOUS
<1>8. ((header \o framed) \o length) \o p = header \o (framed \o (length \o p))
  <2> DEFINE S == Seq(Nat)
             Cat(a, b) == a \o b
  <2>1. \A x, y, z, t \in S : Cat(Cat(Cat(x, y), z), t) = Cat(x, Cat(y, Cat(z, t)))
    BY ONLY AssocFour
  <2>2. header \in S /\ framed \in S /\ length \in S /\ p \in S
    BY ONLY <1>7
  <2> HIDE DEF S, Cat
  <2>3. Cat(Cat(Cat(header, framed), length), p) = Cat(header, Cat(framed, Cat(length, p)))
    BY ONLY <2>1, <2>2
  <2>4. QED
    BY ONLY <2>3 DEF Cat
<1>9. QED
  BY ONLY <1>5, <1>6, <1>8, Zenon

(* The bytes of a packet: a header and records. *)
LEMMA PacketBytes ==
  ASSUME NEW first \in Nat, NEW count \in Nat, NEW framed \in Seq(Nat)
  PROVE  /\ Header(first, count) \o framed \in Seq(Nat)
         /\ Len(Header(first, count) \o framed) = 20 + Len(framed)
         /\ Holds(Header(first, count) \o framed, 10, WriteU64(first))
         /\ Holds(Header(first, count) \o framed, 18, WriteU16(count))
         /\ Holds(Header(first, count) \o framed, 20, framed)
<1>1. PICK header \in Seq(Nat) : header = Header(first, count)
  BY HeaderIs
<1>2. Len(header) = 20 /\ Holds(header, 10, WriteU64(first))
      /\ Holds(header, 18, WriteU16(count))
  BY <1>1, HeaderIs
<1>3. /\ header \o framed \in Seq(Nat)
      /\ Len(header \o framed) = Len(header) + Len(framed)
      /\ Holds(header \o framed, 0, header) /\ Holds(header \o framed, Len(header), framed)
  BY ONLY framed \in Seq(Nat), HoldsJoined
<1>4. PICK whole \in Seq(Nat) : whole = header \o framed
  BY ONLY <1>3
<1>5. Len(whole) = 20 + Len(framed) /\ Holds(whole, 0, header) /\ Holds(whole, 20, framed)
  BY ONLY <1>2, <1>3, <1>4, Zenon
<1>6. PICK number \in Seq(Nat), many \in Seq(Nat) :
        number = WriteU64(first) /\ many = WriteU16(count)
  BY WriteU64Is, WriteU16Is
<1>7. /\ 0 \in Nat /\ 10 \in Nat /\ 18 \in Nat /\ Len(whole) \in Nat
      /\ 10 = 0 + 10 /\ 18 = 0 + 18
  BY ONLY whole \in Seq(Nat)
<1>8. Holds(whole, 10, number)
  BY ONLY <1>2, <1>5, <1>6, <1>7, HoldsWithin, SMTT(30)
<1>9. Holds(whole, 18, many)
  BY ONLY <1>2, <1>5, <1>6, <1>7, HoldsWithin, SMTT(30)
<1>10. QED
  BY ONLY <1>1, <1>4, <1>5, <1>6, <1>8, <1>9, whole \in Seq(Nat), Zenon

(* Two bytes in the middle, overwritten. *)
Overwriting(u, c) == [i \in DOMAIN u |-> IF i \in 19 .. 20 THEN c[i - 18] ELSE u[i]]

Three(a, b, d) == (a \o b) \o d

LEMMA Overwritten ==
  ASSUME NEW a \in Seq(Nat), NEW b \in Seq(Nat), NEW c \in Seq(Nat), NEW d \in Seq(Nat),
         Len(a) = 18, Len(b) = 2, Len(c) = 2,
         NEW u \in Seq(Nat), u = Three(a, b, d)
  PROVE  Overwriting(u, c) = Three(a, c, d)
<1>1. PICK l \in Nat : l = Len(d)
  OBVIOUS
<1>2. ASSUME NEW e \in Seq(Nat), Len(e) = 2
      PROVE  LET v == (a \o e) \o d
             IN  /\ v \in Seq(Nat) /\ Len(v) = 20 + l
                 /\ \A i \in 1 .. 18 : v[i] = a[i]
                 /\ \A i \in 1 .. 2 : v[18 + i] = e[i]
                 /\ \A i \in 1 .. l : v[20 + i] = d[i]
  <2>1. /\ a \o e \in Seq(Nat) /\ Len(a \o e) = Len(a) + Len(e)
        /\ \A i \in 1 .. Len(a) : (a \o e)[i] = a[i]
        /\ \A i \in 1 .. Len(e) : (a \o e)[Len(a) + i] = e[i]
    BY ONLY a \in Seq(Nat), e \in Seq(Nat), Joined
  <2>2. PICK w \in Seq(Nat) : w = a \o e
    BY ONLY <2>1
  <2>3. /\ Len(w) = 20 /\ \A i \in 1 .. 18 : w[i] = a[i]
        /\ \A i \in 1 .. 2 : w[18 + i] = e[i]
    <3>1. 18 + 2 = 20
      OBVIOUS
    <3>2. QED
      BY ONLY <1>2, <2>1, <2>2, <3>1, Len(a) = 18, Zenon
  <2>4. /\ w \o d \in Seq(Nat) /\ Len(w \o d) = Len(w) + Len(d)
        /\ \A i \in 1 .. Len(w) : (w \o d)[i] = w[i]
        /\ \A i \in 1 .. Len(d) : (w \o d)[Len(w) + i] = d[i]
    BY ONLY w \in Seq(Nat), d \in Seq(Nat), Joined
  <2>5. PICK v \in Seq(Nat) : v = w \o d
    BY ONLY <2>4
  <2>6. /\ Len(v) = 20 + l /\ \A i \in 1 .. 20 : v[i] = w[i]
        /\ \A i \in 1 .. l : v[20 + i] = d[i]
    BY ONLY <1>1, <2>3, <2>4, <2>5, Zenon
  <2>7. \A i \in 1 .. 18 : v[i] = a[i]
    <3>1. \A i \in 1 .. 18 : i \in 1 .. 20
      OBVIOUS
    <3>2. QED
      BY ONLY <2>3, <2>6, <3>1, Zenon
  <2>8. \A i \in 1 .. 2 : v[18 + i] = e[i]
    <3>1. \A i \in 1 .. 2 : 18 + i \in 1 .. 20
      OBVIOUS
    <3>2. QED
      BY ONLY <2>3, <2>6, <3>1, Zenon
  <2>9. QED
    BY ONLY <2>2, <2>5, <2>6, <2>7, <2>8, v \in Seq(Nat), Zenon
<1>3. /\ Len(u) = 20 + l
      /\ \A i \in 1 .. 18 : u[i] = a[i]
      /\ \A i \in 1 .. l : u[20 + i] = d[i]
  BY ONLY <1>2, Len(b) = 2, u = Three(a, b, d), b \in Seq(Nat), Zenon DEF Three
<1>4. PICK v \in Seq(Nat) : /\ v = (a \o c) \o d /\ Len(v) = 20 + l
                            /\ \A i \in 1 .. 18 : v[i] = a[i]
                            /\ \A i \in 1 .. 2 : v[18 + i] = c[i]
                            /\ \A i \in 1 .. l : v[20 + i] = d[i]
  BY ONLY <1>2, Len(c) = 2, c \in Seq(Nat), Zenon
<1>5. ASSUME NEW i \in 1 .. 20 + l
      PROVE  (IF i \in 19 .. 20 THEN c[i - 18] ELSE u[i]) = v[i]
  <2>1. CASE i \in 1 .. 18
    <3>1. i \notin 19 .. 20
      BY ONLY <2>1
    <3>2. u[i] = v[i]
      BY ONLY <1>3, <1>4, <2>1, Zenon
    <3>3. QED
      BY ONLY <3>1, <3>2, Zenon
  <2>2. CASE i \in 19 .. 20
    <3>1. i - 18 \in 1 .. 2 /\ 18 + (i - 18) = i
      BY ONLY <2>2
    <3>2. v[18 + (i - 18)] = c[i - 18]
      BY ONLY <1>4, <3>1, Zenon
    <3>3. QED
      BY ONLY <2>2, <3>1, <3>2, Zenon
  <2>3. CASE i \notin 1 .. 18 /\ i \notin 19 .. 20
    <3>1. i - 20 \in 1 .. l /\ 20 + (i - 20) = i
      BY ONLY <2>3, i \in 1 .. 20 + l, l \in Nat
    <3>2. u[20 + (i - 20)] = v[20 + (i - 20)]
      BY ONLY <1>3, <1>4, <3>1, Zenon
    <3>3. QED
      BY ONLY <2>3, <3>1, <3>2, Zenon
  <2>4. QED
    BY ONLY <2>1, <2>2, <2>3
<1>6. DOMAIN u = 1 .. 20 + l
  BY ONLY <1>3, u \in Seq(Nat)
<1>7. v = [i \in 1 .. 20 + l |-> v[i]]
  <2>1. PICK h \in Nat : h = 20 + l
    BY ONLY l \in Nat
  <2>2. v \in [1 .. h -> Nat]
    <3>1. Len(v) = h
      BY ONLY <1>4, <2>1
    <3>2. QED
      BY ONLY <3>1, v \in Seq(Nat), LenProperties
  <2>3. QED
    BY ONLY <2>1, <2>2
<1>8. Overwriting(u, c) = v
  BY ONLY <1>5, <1>6, <1>7 DEF Overwriting
<1>9. QED
  BY ONLY <1>4, <1>8, Zenon DEF Three

(* Finishing a packet writes the number of its messages into the header. *)
LEMMA FinalizePacketIs ==
  ASSUME NEW first \in Nat, NEW ps \in Seq(Seq(Nat))
  PROVE  FinalizePacket(OpenPacket(first, ps), Len(ps)) = Datagram(first, ps)
<1>1. PICK count \in Nat : count = Len(ps)
  OBVIOUS
<1>2. PICK session \in Seq(Nat) : session = Session /\ Len(session) = 10
  BY LoadGenAssumption DEF SequenceOffset
<1>3. PICK number \in Seq(Nat) : number = WriteU64(first) /\ Len(number) = 8
  BY WriteU64Is
<1>4. PICK none \in Seq(Nat) : none = WriteU16(0) /\ Len(none) = 2
  <2>1. 0 \in Nat
    OBVIOUS
  <2>2. QED
    BY <2>1, WriteU16Is
<1>5. PICK many \in Seq(Nat) : many = WriteU16(count) /\ Len(many) = 2
  BY WriteU16Is
<1>6. PICK framed \in Seq(Nat) : framed = Framed(ps)
  BY FramedIs
<1>7. PICK start \in Seq(Nat) : start = session \o number /\ Len(start) = 18
  <2>1. session \o number \in Seq(Nat) /\ Len(session \o number) = Len(session) + Len(number)
    BY ONLY session \in Seq(Nat), number \in Seq(Nat), HoldsJoined
  <2>2. 10 + 8 = 18
    OBVIOUS
  <2>3. QED
    BY ONLY <1>2, <1>3, <2>1, <2>2, Zenon
<1>8. OpenPacket(first, ps) = (start \o none) \o framed
  BY ONLY <1>2, <1>3, <1>4, <1>6, <1>7, Zenon DEF OpenPacket, Header
<1>9. Datagram(first, ps) = (start \o many) \o framed
  BY ONLY <1>1, <1>2, <1>3, <1>5, <1>6, <1>7, Zenon DEF Datagram, Header
<1>10. PICK open \in Seq(Nat) : open = (start \o none) \o framed
  BY ONLY ConcatProperties
<1>11. open = Three(start, none, framed)
  BY ONLY <1>10, Zenon DEF Three
<1>12. Overwriting(open, many) = Three(start, many, framed)
  <2>1. Len(start) = 18 /\ Len(none) = 2 /\ Len(many) = 2
    BY ONLY <1>4, <1>5, <1>7
  <2>2. QED
    BY ONLY <1>11, <2>1, start \in Seq(Nat), none \in Seq(Nat), many \in Seq(Nat),
            framed \in Seq(Nat), open \in Seq(Nat), Overwritten
<1>13. FinalizePacket(open, count) = Overwriting(open, many)
  <2>1. 18 + 1 = 19 /\ 18 + 2 = 20
    OBVIOUS
  <2>2. QED
    BY ONLY <1>5, <2>1, Zenon DEF FinalizePacket, MessageCountOffset, Overwriting
<1>14. QED
  BY ONLY <1>1, <1>8, <1>9, <1>10, <1>12, <1>13, Zenon DEF Three
-----------------------------------------------------------------------------
(* What is parsed of a datagram *)

FirstOffset(ps, n) == 20 + Len(Framed(SubSeq(ps, 1, n)))

(* Where the parser gets to behind each message, and what it then takes.   *)
LEMMA MessageAt ==
  ASSUME NEW ps \in Sessions, NEW n \in Nat, n < Len(ps), NEW d \in Seq(Nat),
         Holds(d, 20, Framed(ps))
  PROVE  /\ FirstOffset(ps, n) \in Nat /\ FirstOffset(ps, n + 1) \in Nat
         /\ NextOffset(d, FirstOffset(ps, n)) = FirstOffset(ps, n + 1)
         /\ SubSeq(d, FirstOffset(ps, n) + 3, FirstOffset(ps, n + 1)) = ps[n + 1]
<1>1. ps \in Seq(Seq(Nat)) /\ \A i \in 1 .. Len(ps) : Len(ps[i]) \in 1 .. MaxU16
  BY DEF Sessions
<1>2. PICK l \in Nat : l = Len(ps)
  BY <1>1
<1>3. n + 1 \in 1 .. l
  BY ONLY <1>2, n \in Nat, n < Len(ps), l \in Nat
<1>4. PICK p \in Seq(Nat) : p = ps[n + 1]
  BY ONLY <1>1, n \in Nat, n < Len(ps), SplitBehind
<1>5. PICK k \in 1 .. MaxU16 : k = Len(p)
  BY ONLY <1>1, <1>2, <1>3, <1>4
<1>6. k \in 0 .. MaxU16 /\ k \in Nat
  <2>1. MaxU16 \in Nat
    BY DEF MaxU16
  <2>2. QED
    BY ONLY <2>1, k \in 1 .. MaxU16
<1>7. /\ Framed(ps) \in Seq(Nat) /\ Framed(SubSeq(ps, 1, n)) \in Seq(Nat)
      /\ Holds(Framed(ps), Len(Framed(SubSeq(ps, 1, n))), Record(ps[n + 1]))
      /\ Len(Framed(SubSeq(ps, 1, n + 1))) =
           (Len(Framed(SubSeq(ps, 1, n))) + 2) + Len(ps[n + 1])
  BY ONLY <1>1, n < Len(ps), n \in Nat, ByteBaseAssumption, FramedHolds
<1>8. PICK framed \in Seq(Nat) : framed = Framed(ps)
  BY ONLY <1>7
<1>9. PICK before \in Seq(Nat) : before = Framed(SubSeq(ps, 1, n))
  BY ONLY <1>7
<1>10. PICK behind \in Nat : behind = Len(before)
  OBVIOUS
<1>11. PICK at \in Nat : at = 20 + behind
  BY ONLY behind \in Nat
<1>12. PICK record \in Seq(Nat) : record = Record(p)
  BY ONLY ByteBaseAssumption, RecordIs
<1>13. Holds(framed, behind, record)
       /\ Len(Framed(SubSeq(ps, 1, n + 1))) = (behind + 2) + k
  BY ONLY <1>4, <1>5, <1>7, <1>8, <1>9, <1>10, <1>12, Zenon
<1>14. PICK next \in Nat : next = (at + 2) + k
  BY ONLY at \in Nat, <1>6
<1>15. FirstOffset(ps, n) = at /\ FirstOffset(ps, n + 1) = next
  <2>1. 20 + ((behind + 2) + k) = next
    BY ONLY <1>6, <1>11, <1>14, behind \in Nat
  <2>2. QED
    BY ONLY <1>9, <1>10, <1>11, <1>13, <2>1, Zenon DEF FirstOffset
<1>16. Holds(d, 20, framed) /\ Len(d) \in Nat /\ 20 \in Nat
  <2>1. Holds(d, 20, framed)
    BY ONLY <1>8, Holds(d, 20, Framed(ps))
  <2>2. QED
    BY ONLY <2>1, d \in Seq(Nat)
<1>17. Holds(d, at, record)
  BY ONLY <1>11, <1>13, <1>16, behind \in Nat, framed \in Seq(Nat), record \in Seq(Nat),
          HoldsWithin
<1>18. ReadU16(d, at) = k /\ (at + 2) + k <= Len(d) /\ Part(d, at + 3, (at + 2) + k) = p
  BY ONLY <1>5, <1>6, <1>12, <1>17, ByteBaseAssumption, d \in Seq(Nat), at \in Nat,
          p \in Seq(Nat), RecordAt
<1>19. NextOffset(d, at) = next
  <2>1. PICK length \in Nat : length = Len(d)
    BY ONLY <1>16
  <2>2. ~(at + 2 > length) /\ ~(k > (length - at) - 2) /\ at + 2 + k = next
    BY ONLY <1>6, <1>14, <1>18, <2>1, at \in Nat
  <2>3. QED
    BY ONLY <1>18, <2>1, <2>2, Zenon DEF NextOffset
<1>20. SubSeq(d, at + 3, next) = p
  BY ONLY <1>14, <1>18, Zenon DEF Part
<1>21. QED
  BY ONLY <1>4, <1>15, <1>19, <1>20, at \in Nat, next \in Nat, Zenon

OffsetsOf(ps) == [i \in 0 .. Len(ps) |-> FirstOffset(ps, i)]

LEMMA OffsetsAre ==
  ASSUME NEW ps \in Sessions, NEW d \in Seq(Nat), Holds(d, 20, Framed(ps)),
         MessageCount(d) = Len(ps)
  PROVE  \A i \in 0 .. Len(ps) : Offsets(d)[i] = FirstOffset(ps, i)
<1>1. PICK n \in Nat : n = Len(ps)
  BY DEF Sessions
<1>2. PICK g : g = OffsetsOf(ps)
  OBVIOUS
<1>3. \A i \in 0 .. n : g[i] = FirstOffset(ps, i)
  BY ONLY <1>1, <1>2 DEF OffsetsOf
<1>4. g[0] = 20
  <2>1. SubSeq(ps, 1, 0) = <<>>
    BY DEF Sessions
  <2>2. FirstOffset(ps, 0) = 20
    <3>1. FirstOffset(ps, 0) = 20 + Len(<<>>)
      BY ONLY <2>1, ByteBaseAssumption, FramedEmpty, Zenon DEF FirstOffset
    <3>2. Len(<<>>) = 0 /\ 20 + 0 = 20
      OBVIOUS
    <3>3. QED
      BY ONLY <3>1, <3>2, Zenon
  <2>3. 0 \in 0 .. n
    OBVIOUS
  <2>4. QED
    BY ONLY <1>3, <2>2, <2>3
<1>5. ASSUME NEW i \in 1 .. n PROVE g[i] = NextOffset(d, g[i - 1])
  <2>1. PICK j \in Nat : j = i - 1
    OBVIOUS
  <2>2. j < n /\ j \in 0 .. n /\ j + 1 = i /\ i \in 0 .. n
    BY ONLY <2>1, i \in 1 .. n, n \in Nat
  <2>3. j < Len(ps)
    BY ONLY <1>1, <2>2
  <2>4. NextOffset(d, FirstOffset(ps, j)) = FirstOffset(ps, j + 1)
    BY <2>3, MessageAt
  <2>5. QED
    BY ONLY <1>3, <2>1, <2>2, <2>4, Zenon
<1> DEFINE offset == CHOOSE h : h = [i \in 0 .. n |->
                       IF i = 0 THEN HeaderSize ELSE NextOffset(d, h[i - 1])]
<1>6. g = [i \in 0 .. n |-> IF i = 0 THEN HeaderSize ELSE NextOffset(d, g[i - 1])]
  <2>1. g = [i \in 0 .. n |-> g[i]]
    BY ONLY <1>1, <1>2 DEF OffsetsOf
  <2>2. \A i \in 0 .. n : g[i] = IF i = 0 THEN HeaderSize ELSE NextOffset(d, g[i - 1])
    <3>1. \A i \in 0 .. n : i = 0 \/ i \in 1 .. n
      OBVIOUS
    <3>2. QED
      BY ONLY <1>4, <1>5, <3>1 DEF HeaderSize
  <2>3. QED
    BY ONLY <2>1, <2>2
<1>7. offset = [i \in 0 .. n |-> IF i = 0 THEN HeaderSize ELSE NextOffset(d, offset[i - 1])]
  BY ONLY <1>6, Zenon
<1>8. Offsets(d) = offset
  BY ONLY <1>1, MessageCount(d) = Len(ps), Zenon DEF Offsets
<1> HIDE DEF offset
<1>9. offset[0] = 20 /\ \A i \in 1 .. n : offset[i] = NextOffset(d, offset[i - 1])
  <2>1. 0 \in 0 .. n /\ \A i \in 1 .. n : i \in 0 .. n /\ i # 0
    OBVIOUS
  <2>2. QED
    BY ONLY <1>7, <2>1 DEF HeaderSize
<1>10. \A i \in 0 .. n : offset[i] = g[i]
  <2>1. \A i \in 1 .. n : offset[i - 1] = g[i - 1] => offset[i] = g[i]
    BY ONLY <1>5, <1>9, Zenon
  <2>2. n \in Nat /\ offset[0] = g[0]
    BY ONLY <1>4, <1>9, n \in Nat
  <2>3. QED
    BY ONLY <2>1, <2>2, Agree, ZenonT(60)
<1>11. QED
  BY ONLY <1>1, <1>3, <1>8, <1>10, Zenon

(* The feed handler accepts what was packed, and finds its messages in it. *)
LEMMA DatagramDecodes ==
  ASSUME NEW first \in Nat, FitsIn(8, first), NEW ps \in Sessions, Len(ps) \in 1 .. MaxU16
  PROVE  /\ Datagram(first, ps) \in Seq(Nat)
         /\ Len(Datagram(first, ps)) = 20 + Len(Framed(ps))
         /\ WellFramed(Datagram(first, ps))
         /\ MessagesOf(Datagram(first, ps)) = NumberedFrom(first, ps)
<1>1. PICK n \in 1 .. MaxU16 : n = Len(ps)
  OBVIOUS
<1>2. n \in Nat /\ n \in 0 .. MaxU16 /\ n # 0
  <2>1. MaxU16 \in Nat
    BY DEF MaxU16
  <2>2. QED
    BY ONLY <2>1, n \in 1 .. MaxU16
<1>3. ps \in Seq(Seq(Nat))
  BY DEF Sessions
<1>4. PICK framed \in Seq(Nat) : framed = Framed(ps)
  BY <1>3, FramedIs
<1>5. /\ Header(first, n) \o framed \in Seq(Nat)
      /\ Len(Header(first, n) \o framed) = 20 + Len(framed)
      /\ Holds(Header(first, n) \o framed, 10, WriteU64(first))
      /\ Holds(Header(first, n) \o framed, 18, WriteU16(n))
      /\ Holds(Header(first, n) \o framed, 20, framed)
  BY <1>2, PacketBytes
<1>6. PICK d \in Seq(Nat) : d = Header(first, n) \o framed
  BY ONLY <1>5
<1>7. d = Datagram(first, ps)
  BY ONLY <1>1, <1>4, <1>6, Zenon DEF Datagram
<1>8. /\ Len(d) = 20 + Len(framed)
      /\ Holds(d, 10, WriteU64(first)) /\ Holds(d, 18, WriteU16(n)) /\ Holds(d, 20, framed)
  BY ONLY <1>5, <1>6, Zenon
<1>9. SequenceNumber(d) = first
  <2>1. 10 \in Nat
    OBVIOUS
  <2>2. ReadU64(d, 10) = first
    BY ONLY <1>8, <2>1, ByteBaseAssumption, first \in Nat, FitsIn(8, first), HoldsU64
  <2>3. QED
    BY ONLY <2>2, Zenon DEF SequenceNumber, SequenceOffset
<1>10. MessageCount(d) = n
  <2>1. 18 \in Nat
    OBVIOUS
  <2>2. ReadU16(d, 18) = n
    BY ONLY <1>2, <1>8, <2>1, ByteBaseAssumption, HoldsU16
  <2>3. QED
    BY ONLY <2>2, Zenon DEF MessageCount, MessageCountOffset
<1>11. \A i \in 0 .. n : Offsets(d)[i] = FirstOffset(ps, i)
  <2>1. Holds(d, 20, Framed(ps)) /\ MessageCount(d) = Len(ps)
    BY ONLY <1>1, <1>4, <1>8, <1>10, Zenon
  <2>2. QED
    BY <1>1, <2>1, OffsetsAre
<1>12. WellFramed(d)
  <2>1. FirstOffset(ps, n) = 20 + Len(framed)
    <3>1. SubSeq(ps, 1, n) = ps
      BY ONLY <1>1, <1>3, SubSeqFull
    <3>2. QED
      BY ONLY <1>4, <3>1, Zenon DEF FirstOffset
  <2>2. n \in 0 .. n
    BY ONLY <1>2
  <2>3. Len(d) >= 20
    <3>1. Len(framed) \in Nat
      OBVIOUS
    <3>2. QED
      BY ONLY <1>8, <3>1
  <2>4. Offsets(d)[MessageCount(d)] = Len(d)
    BY ONLY <1>8, <1>10, <1>11, <2>1, <2>2, Zenon
  <2>5. QED
    BY ONLY <1>2, <1>10, <2>3, <2>4 DEF WellFramed, HeaderSize
<1>13. MessagesOf(d) = NumberedFrom(first, ps)
  <2>1. ASSUME NEW i \in 1 .. n
        PROVE  SubSeq(d, Offsets(d)[i - 1] + 3, Offsets(d)[i]) = ps[i]
    <3>1. PICK j \in Nat : j = i - 1
      OBVIOUS
    <3>2. j < n /\ j \in 0 .. n /\ i \in 0 .. n /\ j + 1 = i
      BY ONLY <1>2, <3>1, i \in 1 .. n
    <3>3. j < Len(ps) /\ Holds(d, 20, Framed(ps))
      BY ONLY <1>1, <1>4, <1>8, <3>2
    <3>4. SubSeq(d, FirstOffset(ps, j) + 3, FirstOffset(ps, j + 1)) = ps[j + 1]
      BY <3>3, MessageAt
    <3>5. QED
      BY ONLY <1>11, <3>1, <3>2, <3>4, Zenon
  <2>2. MessagesOf(d) = [i \in 1 .. n |-> [sequence |-> first + i - 1,
                           data |-> SubSeq(d, Offsets(d)[i - 1] + 3, Offsets(d)[i])]]
    BY ONLY <1>9, <1>10, Zenon DEF MessagesOf
  <2>3. NumberedFrom(first, ps) =
          [i \in 1 .. n |-> [sequence |-> first + i - 1, data |-> ps[i]]]
    BY ONLY <1>1, Zenon DEF NumberedFrom
  <2> DEFINE part(i) == SubSeq(d, Offsets(d)[i - 1] + 3, Offsets(d)[i])
  <2>4. \A i \in 1 .. n : part(i) = ps[i]
    BY ONLY <2>1
  <2>5. MessagesOf(d) = [i \in 1 .. n |-> [sequence |-> first + i - 1, data |-> part(i)]]
    BY ONLY <2>2
  <2> HIDE DEF part
  <2>6. QED
    BY ONLY <2>3, <2>4, <2>5
<1>14. QED
  BY ONLY <1>4, <1>7, <1>8, <1>12, <1>13, d \in Seq(Nat), Zenon
-----------------------------------------------------------------------------
(* Numbered messages *)

Message == [sequence : Nat, data : Seq(Nat)]
Rising(ms) ==
  \A i, j \in DOMAIN ms : i < j => ms[i].sequence < ms[j].sequence

LEMMA NumberedIs ==
  ASSUME NEW first \in Nat \ {0}, NEW ps \in Seq(Seq(Nat))
  PROVE  /\ NumberedFrom(first, ps) \in Seq(Message) /\ Len(NumberedFrom(first, ps)) = Len(ps)
         /\ \A i \in 1 .. Len(ps) :
              NumberedFrom(first, ps)[i] = [sequence |-> first + i - 1, data |-> ps[i]]
<1>1. PICK n \in Nat : n = Len(ps) /\ \A i \in 1 .. n : ps[i] \in Seq(Nat)
  OBVIOUS
<1>2. \A i \in 1 .. n : first + i - 1 \in Nat
  OBVIOUS
<1>3. PICK ms : ms = [i \in 1 .. n |-> [sequence |-> first + i - 1, data |-> ps[i]]]
  OBVIOUS
<1>4. \A i \in 1 .. n : ms[i] = [sequence |-> first + i - 1, data |-> ps[i]]
                        /\ ms[i] \in Message
  BY ONLY <1>1, <1>2, <1>3 DEF Message
<1>5. ms \in [1 .. n -> Message]
  BY ONLY <1>3, <1>4
<1>6. ms \in Seq(Message) /\ Len(ms) = n
  BY ONLY <1>5, n \in Nat
<1>7. NumberedFrom(first, ps) = ms
  BY ONLY <1>1, <1>3, Zenon DEF NumberedFrom
<1>8. QED
  BY ONLY <1>1, <1>4, <1>6, <1>7, Zenon

LEMMA NumberedEmpty == NumberedFrom(1, <<>>) = <<>>
<1>1. PICK ps \in Seq(Seq(Nat)) : ps = <<>> /\ Len(ps) = 0
  <2>1. <<>> \in Seq(Seq(Nat)) /\ Len(<<>>) = 0
    OBVIOUS
  <2>2. QED
    BY ONLY <2>1, Zenon
<1>2. 1 \in Nat \ {0}
  OBVIOUS
<1>3. NumberedFrom(1, ps) \in Seq(Message) /\ Len(NumberedFrom(1, ps)) = Len(ps)
  BY ONLY <1>2, ps \in Seq(Seq(Nat)), NumberedIs
<1>4. PICK ms \in Seq(Message) : ms = NumberedFrom(1, ps) /\ Len(ms) = 0
  BY ONLY <1>1, <1>3, Zenon
<1>5. ms = <<>>
  BY ONLY <1>4, ms \in Seq(Message)
<1>6. QED
  BY ONLY <1>1, <1>4, <1>5, Zenon

LEMMA NumberedRising ==
  ASSUME NEW first \in Nat \ {0}, NEW ps \in Seq(Seq(Nat))
  PROVE  Rising(NumberedFrom(first, ps))
<1>1. PICK ms \in Seq(Message) : ms = NumberedFrom(first, ps)
  BY NumberedIs
<1>2. PICK n \in Nat : n = Len(ps)
  OBVIOUS
<1>3. Len(ms) = n /\ \A i \in 1 .. n : ms[i].sequence = first + i - 1
  <2>1. Len(ms) = n /\ \A i \in 1 .. n : ms[i] = [sequence |-> first + i - 1, data |-> ps[i]]
    BY <1>1, <1>2, NumberedIs
  <2>2. QED
    BY ONLY <2>1
<1>4. DOMAIN ms = 1 .. n
  BY ONLY <1>3, ms \in Seq(Message)
<1>5. \A i, j \in 1 .. n : i < j => ms[i].sequence < ms[j].sequence
  BY ONLY <1>3, first \in Nat \ {0}, n \in Nat
<1>6. QED
  BY ONLY <1>1, <1>4, <1>5 DEF Rising

(* The numbers go on where those before end. *)
NumbersGoOn(first, ps, qs) ==
  NumberedFrom(first, ps \o qs) =
    NumberedFrom(first, ps) \o NumberedFrom(first + Len(ps), qs)

LEMMA NumberedConcat ==
  ASSUME NEW first \in Nat \ {0}, NEW ps \in Seq(Seq(Nat)), NEW qs \in Seq(Seq(Nat))
  PROVE  NumbersGoOn(first, ps, qs)
<1> DEFINE next == first + Len(ps)
<1>1. PICK m \in Nat : m = Len(ps)
  OBVIOUS
<1>2. PICK n \in Nat : n = Len(qs)
  OBVIOUS
<1>3. next \in Nat \ {0} /\ next = first + m
  BY ONLY <1>1, first \in Nat \ {0}
<1>n. next = first + Len(ps)
  OBVIOUS
<1> HIDE DEF next
<1>4. /\ ps \o qs \in Seq(Seq(Nat)) /\ Len(ps \o qs) = Len(ps) + Len(qs)
      /\ \A i \in 1 .. Len(ps) : (ps \o qs)[i] = ps[i]
      /\ \A i \in 1 .. Len(qs) : (ps \o qs)[Len(ps) + i] = qs[i]
  BY Joined
<1>5. PICK rs \in Seq(Seq(Nat)) : rs = ps \o qs
  BY ONLY <1>4
<1>6. /\ Len(rs) = m + n /\ \A i \in 1 .. m : rs[i] = ps[i]
      /\ \A i \in 1 .. n : rs[m + i] = qs[i]
  BY ONLY <1>1, <1>2, <1>4, <1>5, Zenon
<1>7. PICK a \in Seq(Message) : a = NumberedFrom(first, ps)
  BY NumberedIs
<1>8. Len(a) = m /\ \A i \in 1 .. m : a[i] = [sequence |-> first + i - 1, data |-> ps[i]]
  BY <1>1, <1>7, NumberedIs
<1>9. PICK b \in Seq(Message) : b = NumberedFrom(next, qs)
  BY <1>3, NumberedIs
<1>10. Len(b) = n /\ \A i \in 1 .. n : b[i] = [sequence |-> next + i - 1, data |-> qs[i]]
  BY <1>2, <1>3, <1>9, NumberedIs
<1>11. PICK c \in Seq(Message) : c = NumberedFrom(first, rs)
  BY NumberedIs
<1>12. /\ Len(c) = m + n
       /\ \A i \in 1 .. m + n : c[i] = [sequence |-> first + i - 1, data |-> rs[i]]
  <2>1. /\ NumberedFrom(first, rs) \in Seq(Message) /\ Len(NumberedFrom(first, rs)) = Len(rs)
        /\ \A i \in 1 .. Len(rs) :
              NumberedFrom(first, rs)[i] = [sequence |-> first + i - 1, data |-> rs[i]]
    BY ONLY first \in Nat \ {0}, rs \in Seq(Seq(Nat)), NumberedIs
  <2>2. QED
    BY ONLY <1>6, <1>11, <2>1, Zenon
<1>13. PICK d \in Seq(Message) : d = a \o b
  BY ONLY ConcatProperties
<1>14. /\ Len(d) = m + n /\ \A i \in 1 .. m : d[i] = a[i]
       /\ \A i \in 1 .. n : d[m + i] = b[i]
  <2>1. /\ Len(a \o b) = Len(a) + Len(b)
        /\ \A i \in 1 .. Len(a) : (a \o b)[i] = a[i]
        /\ \A i \in 1 .. Len(b) : (a \o b)[Len(a) + i] = b[i]
    BY ONLY a \in Seq(Message), b \in Seq(Message), Joined
  <2>2. QED
    BY ONLY <1>8, <1>10, <1>13, <2>1, Zenon
<1>15. ASSUME NEW i \in 1 .. m + n PROVE c[i] = d[i]
  <2>1. CASE i \in 1 .. m
    <3>1. c[i] = [sequence |-> first + i - 1, data |-> rs[i]]
      BY ONLY <1>12, i \in 1 .. m + n, Zenon
    <3>2. rs[i] = ps[i] /\ d[i] = a[i] /\ a[i] = [sequence |-> first + i - 1, data |-> ps[i]]
      BY ONLY <1>6, <1>8, <1>14, <2>1, Zenon
    <3>3. QED
      BY ONLY <3>1, <3>2, Zenon
  <2>2. CASE ~(i \in 1 .. m)
    <3>1. PICK j \in 1 .. n : i = m + j /\ first + i - 1 = next + j - 1
      <4>1. i - m \in 1 .. n /\ i = m + (i - m) /\ first + i - 1 = next + (i - m) - 1
        BY ONLY <1>3, <2>2, i \in 1 .. m + n, m \in Nat, n \in Nat, first \in Nat \ {0}
      <4>2. QED
        BY ONLY <4>1, Zenon
    <3>2. c[i] = [sequence |-> first + i - 1, data |-> rs[i]]
      BY ONLY <1>12, i \in 1 .. m + n, Zenon
    <3>3. /\ rs[m + j] = qs[j] /\ d[m + j] = b[j]
          /\ b[j] = [sequence |-> next + j - 1, data |-> qs[j]]
      BY ONLY <1>6, <1>10, <1>14, <3>1, Zenon
    <3>4. QED
      BY ONLY <3>1, <3>2, <3>3, Zenon
  <2>3. QED
    BY ONLY <2>1, <2>2
<1>16. c = d
  BY ONLY <1>12, <1>14, <1>15, SeqEqual
<1>17. QED
  BY ONLY <1>5, <1>7, <1>9, <1>11, <1>13, <1>16, <1>n, Zenon DEF NumbersGoOn

(* The members of u are members of v, in their order.                      *)
Keeps(u, v) ==
  /\ \A i \in 1 .. Len(u) : \E k \in 1 .. Len(v) : u[i] = v[k]
  /\ \A i \in 1 .. Len(u) : \A j \in 1 .. Len(u) : i < j =>
       \E k, l \in 1 .. Len(v) : k < l /\ u[i] = v[k] /\ u[j] = v[l]

(* Messages left out in the middle: what is left is in order. *)
LEMMA LeftOut ==
  ASSUME NEW S, NEW a \in Seq(S), NEW b \in Seq(S), NEW c \in Seq(S)
  PROVE  /\ a \o c \in Seq(S) /\ Len(a \o c) + Len(b) = Len((a \o b) \o c)
         /\ Keeps(a \o c, (a \o b) \o c)
<1>1. PICK m \in Nat : m = Len(a)
  OBVIOUS
<1>2. PICK n \in Nat : n = Len(b)
  OBVIOUS
<1>3. PICK h \in Nat : h = Len(c)
  OBVIOUS
<1>4. PICK ab \in Seq(S) : ab = a \o b
  BY ONLY ConcatProperties
<1>5. PICK abc \in Seq(S) : abc = ab \o c
  BY ONLY ConcatProperties
<1>6. PICK ac \in Seq(S) : ac = a \o c
  BY ONLY ConcatProperties
<1>7. Len(ab) = m + n /\ \A i \in 1 .. m : ab[i] = a[i]
  <2>1. Len(a \o b) = Len(a) + Len(b) /\ \A i \in 1 .. Len(a) : (a \o b)[i] = a[i]
    BY ONLY a \in Seq(S), b \in Seq(S), Joined
  <2>2. QED
    BY ONLY <1>1, <1>2, <1>4, <2>1, Zenon
<1>8. /\ Len(abc) = (m + n) + h /\ \A i \in 1 .. m + n : abc[i] = ab[i]
      /\ \A i \in 1 .. h : abc[(m + n) + i] = c[i]
  <2>1. /\ Len(ab \o c) = Len(ab) + Len(c) /\ \A i \in 1 .. Len(ab) : (ab \o c)[i] = ab[i]
        /\ \A i \in 1 .. Len(c) : (ab \o c)[Len(ab) + i] = c[i]
    BY ONLY ab \in Seq(S), c \in Seq(S), Joined
  <2>2. QED
    BY ONLY <1>3, <1>5, <1>7, <2>1, Zenon
<1>9. /\ Len(ac) = m + h /\ \A i \in 1 .. m : ac[i] = a[i]
      /\ \A i \in 1 .. h : ac[m + i] = c[i]
  <2>1. /\ Len(a \o c) = Len(a) + Len(c) /\ \A i \in 1 .. Len(a) : (a \o c)[i] = a[i]
        /\ \A i \in 1 .. Len(c) : (a \o c)[Len(a) + i] = c[i]
    BY ONLY a \in Seq(S), c \in Seq(S), Joined
  <2>2. QED
    BY ONLY <1>1, <1>3, <1>6, <2>1, Zenon
<1> DEFINE up(i) == IF i <= m THEN i ELSE i + n
<1>10. ASSUME NEW i \in 1 .. m + h
       PROVE  up(i) \in 1 .. (m + n) + h /\ ac[i] = abc[up(i)]
  <2>1. CASE i <= m
    <3>1. i \in 1 .. m /\ i \in 1 .. m + n /\ up(i) = i /\ i \in 1 .. (m + n) + h
      BY ONLY <2>1, i \in 1 .. m + h, m \in Nat, n \in Nat, h \in Nat
    <3> HIDE DEF up
    <3>2. QED
      BY ONLY <1>7, <1>8, <1>9, <3>1, Zenon
  <2>2. CASE ~(i <= m)
    <3>1. PICK j \in 1 .. h : i = m + j /\ up(i) = (m + n) + j /\ up(i) \in 1 .. (m + n) + h
      <4>1. i - m \in 1 .. h /\ i = m + (i - m) /\ up(i) = (m + n) + (i - m)
            /\ up(i) \in 1 .. (m + n) + h
        BY ONLY <2>2, i \in 1 .. m + h, m \in Nat, n \in Nat, h \in Nat
      <4> HIDE DEF up
      <4>2. QED
        BY ONLY <4>1, Zenon
    <3> HIDE DEF up
    <3>2. QED
      BY ONLY <1>8, <1>9, <3>1, Zenon
  <2>3. QED
    BY ONLY <2>1, <2>2
<1>11. \A i, j \in 1 .. m + h : i < j => up(i) < up(j)
  BY ONLY m \in Nat, n \in Nat, h \in Nat
<1> HIDE DEF up
<1>12. ac \in Seq(S) /\ Len(ac) + n = (m + n) + h
  BY ONLY <1>9, m \in Nat, n \in Nat, h \in Nat, ac \in Seq(S)
<1>13. \A i \in 1 .. m + h : \A j \in 1 .. m + h : i < j =>
         \E k, l \in 1 .. (m + n) + h : k < l /\ ac[i] = abc[k] /\ ac[j] = abc[l]
  <2>1. TAKE i \in 1 .. m + h
  <2>2. TAKE j \in 1 .. m + h
  <2>3. HAVE i < j
  <2>4. up(i) < up(j)
    BY ONLY <1>11, <2>3, i \in 1 .. m + h, j \in 1 .. m + h, Zenon
  <2>5. up(i) \in 1 .. (m + n) + h /\ ac[i] = abc[up(i)]
    BY ONLY <1>10, i \in 1 .. m + h, Zenon
  <2>6. up(j) \in 1 .. (m + n) + h /\ ac[j] = abc[up(j)]
    BY ONLY <1>10, j \in 1 .. m + h, Zenon
  <2>7. QED
    BY ONLY <2>4, <2>5, <2>6, Zenon
<1>14. \A i \in 1 .. m + h : \E k \in 1 .. (m + n) + h : ac[i] = abc[k]
  BY ONLY <1>10, Zenon
<1>15. Keeps(ac, abc)
  <2>1. PICK x \in Nat, y \in Nat : x = m + h /\ y = (m + n) + h
    BY ONLY m \in Nat, n \in Nat, h \in Nat
  <2>2. Len(ac) = x /\ Len(abc) = y
    BY ONLY <1>8, <1>9, <2>1
  <2>3. /\ \A i \in 1 .. x : \E k \in 1 .. y : ac[i] = abc[k]
        /\ \A i \in 1 .. x : \A j \in 1 .. x : i < j =>
             \E k, l \in 1 .. y : k < l /\ ac[i] = abc[k] /\ ac[j] = abc[l]
    BY ONLY <1>13, <1>14, <2>1
  <2>4. QED
    BY ONLY <2>2, <2>3 DEF Keeps
<1>16. Len(ac) + Len(b) = Len(abc)
  BY ONLY <1>2, <1>8, <1>12, Zenon
<1>17. QED
  BY ONLY <1>4, <1>5, <1>6, <1>12, <1>15, <1>16, Zenon
-----------------------------------------------------------------------------
(* What datagrams carry *)

(* Datagrams the feed handler accepts. *)
Good == {d \in Seq(Nat) : /\ Len(d) <= MaxDatagramSize /\ WellFramed(d)
                          /\ MessagesOf(d) \in Seq(Message) /\ Len(MessagesOf(d)) >= 1}
MessagesIn(ds) == [i \in DOMAIN ds |-> MessagesOf(ds[i])]
Carried(ds) == FlattenSeq(MessagesIn(ds))

LEMMA MessagesInIs ==
  ASSUME NEW ds \in Seq(Good)
  PROVE  /\ MessagesIn(ds) \in Seq(Seq(Message)) /\ Len(MessagesIn(ds)) = Len(ds)
         /\ \A i \in 1 .. Len(ds) : MessagesIn(ds)[i] = MessagesOf(ds[i])
<1>1. PICK n \in Nat : n = Len(ds) /\ DOMAIN ds = 1 .. n /\ \A i \in 1 .. n : ds[i] \in Good
  OBVIOUS
<1>2. \A d \in Good : MessagesOf(d) \in Seq(Message)
  BY DEF Good
<1>3. PICK ms : ms = MessagesIn(ds)
  OBVIOUS
<1>4. ms = [i \in 1 .. n |-> MessagesOf(ds[i])]
  BY ONLY <1>1, <1>3, Zenon DEF MessagesIn
<1>5. \A i \in 1 .. n : ms[i] = MessagesOf(ds[i]) /\ ms[i] \in Seq(Message)
  BY ONLY <1>1, <1>2, <1>4
<1>6. ms \in [1 .. n -> Seq(Message)]
  BY ONLY <1>4, <1>5
<1>7. ms \in Seq(Seq(Message)) /\ Len(ms) = n
  BY ONLY <1>6, n \in Nat
<1>8. QED
  BY ONLY <1>1, <1>3, <1>5, <1>7, Zenon

LEMMA CarriedIs ==
  ASSUME NEW ds \in Seq(Good)
  PROVE  Carried(ds) \in Seq(Message)
  BY MessagesInIs, FlattenType DEF Carried

LEMMA CarriedEmpty == Carried(<<>>) = <<>>
<1>1. <<>> \in Seq(Good) /\ Len(<<>>) = 0
  OBVIOUS
<1>2. MessagesIn(<<>>) \in Seq(Seq(Message)) /\ Len(MessagesIn(<<>>)) = Len(<<>>)
  BY <1>1, MessagesInIs
<1>3. PICK ms \in Seq(Seq(Message)) : ms = MessagesIn(<<>>)
  BY ONLY <1>2
<1>4. Len(ms) = 0
  BY ONLY <1>1, <1>2, <1>3
<1>5. ms = <<>>
  BY ONLY <1>4, ms \in Seq(Seq(Message))
<1>6. QED
  BY <1>3, <1>5, FlattenEmpty, Zenon DEF Carried

LEMMA CarriedOne ==
  ASSUME NEW d \in Good
  PROVE  <<d>> \in Seq(Good) /\ Carried(<<d>>) = MessagesOf(d)
<1>1. PICK ds \in Seq(Good) : ds = <<d>> /\ Len(ds) = 1 /\ ds[1] = d
  BY Single
<1>2. PICK s \in Seq(Message) : s = MessagesOf(d)
  BY DEF Good
<1>3. PICK ms \in Seq(Seq(Message)) : ms = MessagesIn(ds)
  BY ONLY ds \in Seq(Good), MessagesInIs
<1>4. Len(ms) = 1 /\ ms[1] = s
  <2>1. Len(ms) = Len(ds) /\ \A i \in 1 .. Len(ds) : ms[i] = MessagesOf(ds[i])
    BY ONLY <1>3, ds \in Seq(Good), MessagesInIs, Zenon
  <2>2. 1 \in 1 .. 1
    OBVIOUS
  <2>3. QED
    BY ONLY <1>1, <1>2, <2>1, <2>2, Zenon
<1>5. PICK os \in Seq(Seq(Message)) : os = <<s>> /\ Len(os) = 1 /\ os[1] = s
  BY ONLY Single
<1>6. ms = os
  <2>1. Len(ms) = Len(os) /\ \A i \in 1 .. Len(ms) : ms[i] = os[i]
    BY ONLY <1>4, <1>5
  <2>2. QED
    BY ONLY <2>1, SeqEqual
<1>7. FlattenSeq(<<s>>) = s
  BY FlattenOne
<1>8. QED
  BY ONLY <1>1, <1>2, <1>3, <1>5, <1>6, <1>7, ds \in Seq(Good), Zenon DEF Carried

LEMMA CarriedConcat ==
  ASSUME NEW ds \in Seq(Good), NEW es \in Seq(Good)
  PROVE  ds \o es \in Seq(Good) /\ Carried(ds \o es) = Carried(ds) \o Carried(es)
<1>1. /\ ds \o es \in Seq(Good) /\ Len(ds \o es) = Len(ds) + Len(es)
      /\ \A i \in 1 .. Len(ds) : (ds \o es)[i] = ds[i]
      /\ \A i \in 1 .. Len(es) : (ds \o es)[Len(ds) + i] = es[i]
  BY Joined
<1>2. PICK m \in Nat : m = Len(ds)
  OBVIOUS
<1>3. PICK n \in Nat : n = Len(es)
  OBVIOUS
<1>4. PICK all \in Seq(Good) : all = ds \o es
  BY ONLY <1>1
<1>5. /\ Len(all) = m + n /\ \A i \in 1 .. m : all[i] = ds[i]
      /\ \A i \in 1 .. n : all[m + i] = es[i]
  BY ONLY <1>1, <1>2, <1>3, <1>4, Zenon
<1>6. PICK r \in Seq(Seq(Message)) : r = MessagesIn(ds)
  BY ONLY ds \in Seq(Good), MessagesInIs
<1>7. Len(r) = m /\ \A i \in 1 .. m : r[i] = MessagesOf(ds[i])
  <2>1. Len(MessagesIn(ds)) = Len(ds)
        /\ \A i \in 1 .. Len(ds) : MessagesIn(ds)[i] = MessagesOf(ds[i])
    BY ONLY ds \in Seq(Good), MessagesInIs
  <2>2. QED
    BY ONLY <1>2, <1>6, <2>1, Zenon
<1>8. PICK t \in Seq(Seq(Message)) : t = MessagesIn(es)
  BY ONLY es \in Seq(Good), MessagesInIs
<1>9. Len(t) = n /\ \A i \in 1 .. n : t[i] = MessagesOf(es[i])
  <2>1. Len(MessagesIn(es)) = Len(es)
        /\ \A i \in 1 .. Len(es) : MessagesIn(es)[i] = MessagesOf(es[i])
    BY ONLY es \in Seq(Good), MessagesInIs
  <2>2. QED
    BY ONLY <1>3, <1>8, <2>1, Zenon
<1>10. PICK u \in Seq(Seq(Message)) : u = MessagesIn(all)
  BY ONLY all \in Seq(Good), MessagesInIs
<1>11. Len(u) = m + n /\ \A i \in 1 .. m + n : u[i] = MessagesOf(all[i])
  <2>1. Len(MessagesIn(all)) = Len(all)
        /\ \A i \in 1 .. Len(all) : MessagesIn(all)[i] = MessagesOf(all[i])
    BY ONLY all \in Seq(Good), MessagesInIs
  <2>2. QED
    BY ONLY <1>5, <1>10, <2>1, Zenon
<1>12. PICK v \in Seq(Seq(Message)) : v = r \o t
  BY ONLY ConcatProperties
<1>13. /\ Len(v) = m + n /\ \A i \in 1 .. m : v[i] = r[i]
       /\ \A i \in 1 .. n : v[m + i] = t[i]
  <2>1. /\ Len(r \o t) = Len(r) + Len(t)
        /\ \A i \in 1 .. Len(r) : (r \o t)[i] = r[i]
        /\ \A i \in 1 .. Len(t) : (r \o t)[Len(r) + i] = t[i]
    BY ONLY r \in Seq(Seq(Message)), t \in Seq(Seq(Message)), Joined
  <2>2. QED
    BY ONLY <1>7, <1>9, <1>12, <2>1, Zenon
<1>14. ASSUME NEW i \in 1 .. m + n PROVE u[i] = v[i]
  <2>1. CASE i \in 1 .. m
    BY ONLY <1>5, <1>7, <1>11, <1>13, <2>1, i \in 1 .. m + n, ZenonT(60)
  <2>2. CASE ~(i \in 1 .. m)
    <3>1. PICK j \in 1 .. n : i = m + j
      <4>1. i - m \in 1 .. n /\ i = m + (i - m)
        BY ONLY <2>2, i \in 1 .. m + n, m \in Nat, n \in Nat
      <4>2. QED
        BY ONLY <4>1, Zenon
    <3>2. QED
      BY ONLY <1>5, <1>9, <1>11, <1>13, <3>1, i \in 1 .. m + n, ZenonT(60)
  <2>3. QED
    BY ONLY <2>1, <2>2
<1>15. u = v
  <2>1. Len(u) = Len(v) /\ \A i \in 1 .. Len(u) : u[i] = v[i]
    BY ONLY <1>11, <1>13, <1>14
  <2>2. QED
    BY ONLY <2>1, SeqEqual
<1>16. FlattenSeq(r \o t) = FlattenSeq(r) \o FlattenSeq(t)
  BY FlattenConcat
<1>17. all \in Seq(Good)
  OBVIOUS
<1>18. QED
  BY ONLY <1>4, <1>6, <1>8, <1>10, <1>12, <1>15, <1>16, <1>17, Zenon DEF Carried

LEMMA CarriedAppend ==
  ASSUME NEW ds \in Seq(Good), NEW d \in Good
  PROVE  Append(ds, d) \in Seq(Good) /\ Carried(Append(ds, d)) = Carried(ds) \o MessagesOf(d)
<1>1. <<d>> \in Seq(Good) /\ Carried(<<d>>) = MessagesOf(d)
  BY CarriedOne
<1>2. Append(ds, d) = ds \o <<d>>
  BY AppendIsConcat
<1>3. PICK es \in Seq(Good) : es = <<d>>
  BY ONLY <1>1
<1>4. ds \o es \in Seq(Good) /\ Carried(ds \o es) = Carried(ds) \o Carried(es)
  BY ONLY ds \in Seq(Good), es \in Seq(Good), CarriedConcat
<1>5. QED
  BY ONLY <1>1, <1>2, <1>3, <1>4, Zenon

LEMMA HeadAndTail ==
  ASSUME NEW S, NEW s \in Seq(S), s # <<>>
  PROVE  Head(s) \in S /\ Tail(s) \in Seq(S) /\ s = <<Head(s)>> \o Tail(s)
<1>1. /\ Head(s) \in S /\ Tail(s) \in Seq(S) /\ Len(Tail(s)) = Len(s) - 1
      /\ \A i \in 1 .. Len(Tail(s)) : Tail(s)[i] = s[i + 1]
  BY HeadTailProperties
<1>2. PICK h \in S : h = Head(s) /\ h = s[1]
  BY <1>1
<1>3. PICK t \in Seq(S) : t = Tail(s)
  BY ONLY <1>1
<1>4. PICK n \in Nat : n = Len(t)
  OBVIOUS
<1>5. Len(s) = n + 1 /\ \A i \in 1 .. n : t[i] = s[i + 1]
  <2>1. PICK m \in Nat : m = Len(s)
    OBVIOUS
  <2>2. n = m - 1
    BY ONLY <1>1, <1>3, <1>4, <2>1
  <2>3. m = n + 1
    BY ONLY <2>2, m \in Nat, n \in Nat
  <2>4. QED
    BY ONLY <1>1, <1>3, <1>4, <2>1, <2>3, Zenon
<1>6. PICK one \in Seq(S) : one = <<h>> /\ Len(one) = 1 /\ one[1] = h
  BY ONLY Single
<1>7. PICK u \in Seq(S) : u = one \o t
  BY ONLY ConcatProperties
<1>8. /\ Len(u) = 1 + n /\ \A i \in 1 .. 1 : u[i] = one[i]
      /\ \A i \in 1 .. n : u[1 + i] = t[i]
  <2>1. /\ Len(one \o t) = Len(one) + Len(t)
        /\ \A i \in 1 .. Len(one) : (one \o t)[i] = one[i]
        /\ \A i \in 1 .. Len(t) : (one \o t)[Len(one) + i] = t[i]
    BY ONLY one \in Seq(S), t \in Seq(S), Joined
  <2>2. QED
    BY ONLY <1>4, <1>6, <1>7, <2>1, Zenon
<1>9. ASSUME NEW i \in 1 .. n + 1 PROVE s[i] = u[i]
  <2>1. CASE i = 1
    <3>1. 1 \in 1 .. 1
      OBVIOUS
    <3>2. QED
      BY ONLY <1>2, <1>6, <1>8, <2>1, <3>1, Zenon
  <2>2. CASE i # 1
    <3>1. PICK j \in 1 .. n : i = j + 1 /\ i = 1 + j
      <4>1. i - 1 \in 1 .. n /\ i = (i - 1) + 1 /\ i = 1 + (i - 1)
        BY ONLY <2>2, i \in 1 .. n + 1, n \in Nat
      <4>2. QED
        BY ONLY <4>1, Zenon
    <3>2. QED
      BY ONLY <1>5, <1>8, <3>1, ZenonT(60)
  <2>3. QED
    BY ONLY <2>1, <2>2
<1>10. s = u
  <2>1. 1 + n = n + 1
    BY ONLY n \in Nat
  <2>2. QED
    BY ONLY <1>5, <1>8, <1>9, <2>1, s \in Seq(S), u \in Seq(S), SeqEqual
<1>11. QED
  BY ONLY <1>1, <1>2, <1>3, <1>6, <1>7, <1>10, Zenon
-----------------------------------------------------------------------------
(* Packing *)

Framable == {p \in Seq(Nat) : Len(p) \in 1 .. MaxU16}

LEMMA SessionsAre == Sessions = Seq(Framable)
<1>1. ASSUME NEW ps \in Sessions PROVE ps \in Seq(Framable)
  BY DEF Sessions, Framable
<1>2. ASSUME NEW ps \in Seq(Framable) PROVE ps \in Sessions
  <2>1. \A i \in 1 .. Len(ps) : ps[i] \in Seq(Nat) /\ Len(ps[i]) \in 1 .. MaxU16
    BY DEF Framable
  <2>2. ps \in [1 .. Len(ps) -> Seq(Nat)] /\ DOMAIN ps = 1 .. Len(ps) /\ Len(ps) \in Nat
    BY <2>1
  <2>3. ps \in Seq(Seq(Nat))
    BY <2>2
  <2>4. QED
    BY <2>1, <2>2, <2>3 DEF Sessions
<1>3. QED
  BY ONLY <1>1, <1>2

(* What is packed: in finished datagrams, and in the open packet.          *)
Halves(done, open, packed, ds, all) ==
  /\ done \in Sessions /\ open \in Sessions /\ Len(open) <= MaxU16 /\ all = done \o open
  /\ packed = [bytes |-> OpenPacket(Len(done) + 1, open), messageCount |-> Len(open)]
  /\ ds \in Seq(Good) /\ Carried(ds) = NumberedFrom(1, done)

LEMMA OpenedHolds ==
  ASSUME NEW done \in Sessions, NEW ds \in Seq(Good), Carried(ds) = NumberedFrom(1, done),
         NEW next \in Nat, next = Len(done) + 1
  PROVE  Halves(done, <<>>, Opened(next), ds, done)
<1>1. done \in Seq(Framable) /\ <<>> \in Seq(Framable) /\ Len(<<>>) = 0
  BY SessionsAre
<1>2. <<>> \in Sessions
  BY <1>1, SessionsAre
<1>3. done = done \o <<>>
  BY <1>1, ConcatEmptySeq
<1>4. 0 <= MaxU16
  BY DEF MaxU16
<1>5. Opened(next) = [bytes |-> OpenPacket(next, <<>>), messageCount |-> 0]
  BY BeginPacketIs DEF Opened
<1>6. QED
  BY ONLY <1>1, <1>2, <1>3, <1>4, <1>5, done \in Sessions, ds \in Seq(Good),
          Carried(ds) = NumberedFrom(1, done), next = Len(done) + 1, Zenon DEF Halves

AppendsBehind(a, b, e) == Append(a \o b, e) = a \o Append(b, e)

LEMMA AppendBehind ==
  ASSUME NEW S, NEW a \in Seq(S), NEW b \in Seq(S), NEW e \in S
  PROVE  /\ Append(b, e) \in Seq(S) /\ Len(Append(b, e)) = Len(b) + 1
         /\ AppendsBehind(a, b, e)
<1>1. Append(b, e) \in Seq(S) /\ Len(Append(b, e)) = Len(b) + 1
  BY AppendProperties
<1>2. PICK ab \in Seq(S) : ab = a \o b
  BY ConcatProperties
<1>3. PICK one \in Seq(S) : one = <<e>>
  BY Single
<1>4. Append(b, e) = b \o one
  BY ONLY <1>3, AppendIsConcat, b \in Seq(S), e \in S
<1>5. Append(ab, e) = ab \o one
  BY ONLY <1>3, AppendIsConcat, ab \in Seq(S), e \in S
<1>6. (a \o b) \o one = a \o (b \o one)
  BY ONLY a \in Seq(S), b \in Seq(S), one \in Seq(S), ConcatAssociative
<1>7. QED
  BY ONLY <1>1, <1>2, <1>4, <1>5, <1>6, Zenon DEF AppendsBehind

LEMMA AppendedHolds ==
  ASSUME NEW done, NEW open, NEW packed, NEW ds, NEW all,
         Halves(done, open, packed, ds, all),
         NEW p \in Framable, Fits(packed.bytes, packed.messageCount, p)
  PROVE  /\ Halves(done, Append(open, p), Appended(packed, p), ds, Append(all, p))
         /\ Len(Append(open, p)) >= 1
         /\ Len(Appended(packed, p).bytes) <= MaxDatagramSize
<1>1. /\ done \in Sessions /\ open \in Sessions /\ Len(open) <= MaxU16 /\ all = done \o open
      /\ packed = [bytes |-> OpenPacket(Len(done) + 1, open), messageCount |-> Len(open)]
      /\ ds \in Seq(Good) /\ Carried(ds) = NumberedFrom(1, done)
  BY ONLY Halves(done, open, packed, ds, all), Zenon DEF Halves
<1>2. done \in Seq(Framable) /\ open \in Seq(Framable)
  BY ONLY <1>1, SessionsAre, ByteBaseAssumption, Zenon
<1>3. /\ Append(open, p) \in Seq(Framable) /\ Len(Append(open, p)) = Len(open) + 1
      /\ AppendsBehind(done, open, p)
  BY ONLY <1>2, p \in Framable, AppendBehind
<1>4. PICK m \in Nat : m = Len(done)
  BY ONLY <1>2
<1>5. PICK n \in Nat : n = Len(open)
  BY ONLY <1>2
<1>6. open \in Seq(Seq(Nat)) /\ p \in Seq(Nat)
  BY <1>1 DEF Sessions, Framable
<1>7. PICK first \in Nat : first = m + 1
  OBVIOUS
<1>8. PICK bytes \in Seq(Nat) : bytes = OpenPacket(first, open)
  <2>1. PICK framed \in Seq(Nat) : framed = Framed(open)
    BY <1>6, FramedIs
  <2>2. 0 \in Nat
    OBVIOUS
  <2>3. Header(first, 0) \o framed \in Seq(Nat)
    BY <2>2, PacketBytes
  <2>4. QED
    BY ONLY <2>1, <2>3, Zenon DEF OpenPacket
<1>9. packed = [bytes |-> bytes, messageCount |-> n]
  BY ONLY <1>1, <1>4, <1>5, <1>7, <1>8, Zenon
<1>10. packed.bytes = bytes /\ packed.messageCount = n
  BY ONLY <1>9
<1>11. n # MaxU16 /\ (Len(bytes) + 2) + Len(p) <= MaxDatagramSize
  BY ONLY <1>10, Fits(packed.bytes, packed.messageCount, p) DEF Fits
<1>12. Len(Append(open, p)) <= MaxU16 /\ Len(Append(open, p)) >= 1
  <2>1. MaxU16 \in Nat
    BY DEF MaxU16
  <2>2. n + 1 <= MaxU16 /\ n + 1 >= 1
    BY ONLY <1>1, <1>5, <1>11, <2>1, n \in Nat
  <2>3. QED
    BY ONLY <1>3, <1>5, <2>2
<1>13. AppendMessage(bytes, p) = OpenPacket(first, Append(open, p))
  <2>1. AppendMessage(OpenPacket(first, open), p) = OpenPacket(first, Append(open, p))
    BY <1>6, AppendMessageIs
  <2>2. QED
    BY ONLY <1>8, <2>1, Zenon
<1>14. Appended(packed, p) = [bytes |-> AppendMessage(bytes, p), messageCount |-> n + 1]
  BY ONLY <1>10, Zenon DEF Appended
<1>15. Len(Appended(packed, p).bytes) <= MaxDatagramSize
  <2>1. Appended(packed, p).bytes = AppendMessage(bytes, p)
    BY ONLY <1>14
  <2>2. PICK length \in Seq(Nat) : length = WriteU16(Len(p)) /\ Len(length) = 2
    <3>1. Len(p) \in Nat
      BY <1>6
    <3>2. QED
      BY <3>1, WriteU16Is
  <2>3. PICK b \in Seq(Nat) : b = bytes \o length /\ Len(b) = Len(bytes) + 2
    <3>1. bytes \o length \in Seq(Nat) /\ Len(bytes \o length) = Len(bytes) + Len(length)
      BY ONLY bytes \in Seq(Nat), length \in Seq(Nat), HoldsJoined
    <3>2. QED
      BY ONLY <2>2, <3>1, Zenon
  <2>4. Len(b \o p) = Len(b) + Len(p)
    BY ONLY <1>6, b \in Seq(Nat), HoldsJoined
  <2>5. AppendMessage(bytes, p) = b \o p
    BY ONLY <2>2, <2>3, Zenon DEF AppendMessage
  <2>6. QED
    BY ONLY <1>11, <2>1, <2>3, <2>4, <2>5, Zenon
<1>16. Append(open, p) \in Sessions
  BY ONLY <1>3, SessionsAre, ByteBaseAssumption, Zenon
<1>17. Append(all, p) = done \o Append(open, p)
  BY ONLY <1>1, <1>3, Zenon DEF AppendsBehind
<1>18. Appended(packed, p) = [bytes |-> OpenPacket(Len(done) + 1, Append(open, p)),
                              messageCount |-> Len(Append(open, p))]
  BY ONLY <1>3, <1>4, <1>5, <1>7, <1>13, <1>14, Zenon
<1>19. Halves(done, Append(open, p), Appended(packed, p), ds, Append(all, p))
  BY ONLY <1>1, <1>12, <1>16, <1>17, <1>18, Zenon DEF Halves
<1>20. QED
  BY ONLY <1>12, <1>15, <1>19, Zenon

(* A packet that is closed is a datagram that carries what it holds.       *)
LEMMA ClosedHolds ==
  ASSUME NEW done, NEW open, NEW packed, NEW ds, NEW all,
         Halves(done, open, packed, ds, all), Len(open) >= 1,
         Len(packed.bytes) <= MaxDatagramSize,
         NEW first \in Nat, first = Len(done) + 1, FitsIn(8, first)
  PROVE  /\ Finalized(packed) \in Good /\ all \in Sessions
         /\ Append(ds, Finalized(packed)) \in Seq(Good)
         /\ Carried(Append(ds, Finalized(packed))) = NumberedFrom(1, all)
<1>1. /\ done \in Sessions /\ open \in Sessions /\ Len(open) <= MaxU16 /\ all = done \o open
      /\ packed = [bytes |-> OpenPacket(Len(done) + 1, open), messageCount |-> Len(open)]
      /\ ds \in Seq(Good) /\ Carried(ds) = NumberedFrom(1, done)
  BY ONLY Halves(done, open, packed, ds, all), Zenon DEF Halves
<1>2. done \in Seq(Seq(Nat)) /\ open \in Seq(Seq(Nat))
  BY <1>1 DEF Sessions
<1>3. all \in Sessions
  <2>1. done \in Seq(Framable) /\ open \in Seq(Framable)
    BY ONLY <1>1, SessionsAre, ByteBaseAssumption, Zenon
  <2>2. done \o open \in Seq(Framable)
    BY ONLY <2>1, ConcatProperties
  <2>3. QED
    BY ONLY <1>1, <2>2, SessionsAre, ByteBaseAssumption, Zenon
<1>4. PICK n \in Nat : n = Len(open)
  BY ONLY <1>2
<1>5. Len(open) \in 1 .. MaxU16
  <2>1. MaxU16 \in Nat
    BY DEF MaxU16
  <2>2. n \in 1 .. MaxU16
    BY ONLY <1>1, <1>4, <2>1, Len(open) >= 1, n \in Nat
  <2>3. QED
    BY ONLY <1>4, <2>2
<1>6. /\ Datagram(first, open) \in Seq(Nat)
      /\ Len(Datagram(first, open)) = 20 + Len(Framed(open))
      /\ WellFramed(Datagram(first, open))
      /\ MessagesOf(Datagram(first, open)) = NumberedFrom(first, open)
  BY <1>1, <1>5, DatagramDecodes
<1>7. packed.bytes = OpenPacket(first, open) /\ packed.messageCount = Len(open)
  <2>1. packed = [bytes |-> OpenPacket(first, open), messageCount |-> Len(open)]
    BY ONLY <1>1, first = Len(done) + 1, Zenon
  <2>2. QED
    BY ONLY <2>1
<1>8. PICK d : d = Finalized(packed)
  OBVIOUS
<1>9. d = Datagram(first, open)
  <2>1. FinalizePacket(OpenPacket(first, open), Len(open)) = Datagram(first, open)
    BY <1>2, FinalizePacketIs
  <2>2. QED
    BY ONLY <1>7, <1>8, <2>1, Zenon DEF Finalized
<1>10. Len(d) = Len(packed.bytes)
  <2>1. PICK framed \in Seq(Nat) : framed = Framed(open)
    BY <1>2, FramedIs
  <2>2. 0 \in Nat
    OBVIOUS
  <2>3. Len(Header(first, 0) \o framed) = 20 + Len(framed)
    BY <2>2, PacketBytes
  <2>4. QED
    BY ONLY <1>6, <1>7, <1>9, <2>1, <2>3, Zenon DEF OpenPacket
<1>11. first \in Nat \ {0} /\ 1 \in Nat \ {0} /\ first = 1 + Len(done)
  <2>1. PICK m \in Nat : m = Len(done)
    BY ONLY <1>2
  <2>2. first \in Nat \ {0} /\ first = 1 + m
    BY ONLY <2>1, first = Len(done) + 1
  <2>3. QED
    BY ONLY <2>1, <2>2
<1>12. PICK ms \in Seq(Message) : ms = NumberedFrom(first, open) /\ Len(ms) = Len(open)
  BY <1>2, <1>11, NumberedIs
<1>13. MessagesOf(d) = ms
  BY ONLY <1>6, <1>9, <1>12, Zenon
<1>14. d \in Good
  <2>1. d \in Seq(Nat) /\ WellFramed(d)
    BY ONLY <1>6, <1>9, Zenon
  <2>2. Len(d) <= MaxDatagramSize
    BY ONLY <1>10, Len(packed.bytes) <= MaxDatagramSize, Zenon
  <2>3. MessagesOf(d) \in Seq(Message) /\ Len(MessagesOf(d)) >= 1
    BY ONLY <1>12, <1>13, Len(open) >= 1, Zenon
  <2>4. QED
    BY ONLY <2>1, <2>2, <2>3, Zenon DEF Good
<1>15. Append(ds, d) \in Seq(Good) /\ Carried(Append(ds, d)) = Carried(ds) \o MessagesOf(d)
  BY ONLY <1>1, <1>14, CarriedAppend
<1>16. NumberedFrom(1, done \o open) = NumberedFrom(1, done) \o NumberedFrom(first, open)
  <2>1. NumbersGoOn(1, done, open)
    BY ONLY <1>2, <1>11, NumberedConcat
  <2>2. QED
    BY ONLY <1>11, <2>1, Zenon DEF NumbersGoOn
<1>17. Carried(Append(ds, d)) = NumberedFrom(1, all)
  BY ONLY <1>1, <1>12, <1>13, <1>15, <1>16, Zenon
<1>18. QED
  BY ONLY <1>3, <1>8, <1>14, <1>15, <1>17, Zenon

(* Every payload that is not too large fits into a fresh packet.           *)
LEMMA OpenedFits ==
  ASSUME NEW next \in Nat, NEW p \in Framable, ~TooLargeForDatagram(p)
  PROVE  Fits(Opened(next).bytes, Opened(next).messageCount, p)
<1>1. PICK k \in Nat : k = Len(p) /\ k >= 1 /\ k <= MaxU16
  <2>1. MaxU16 \in Nat
    BY DEF MaxU16
  <2>2. PICK k \in 1 .. MaxU16 : k = Len(p)
    BY DEF Framable
  <2>3. QED
    BY <2>1, <2>2
<1>2. p # <<>>
  BY <1>1
<1>3. 0 # MaxU16
  BY DEF MaxU16
<1>4. Opened(next).bytes = OpenPacket(next, <<>>) /\ Opened(next).messageCount = 0
  BY BeginPacketIs DEF Opened
<1>5. Len(OpenPacket(next, <<>>)) = 20
  <2>1. 0 \in Nat /\ <<>> \in Seq(Nat) /\ Len(<<>>) = 0 /\ 20 + 0 = 20
    OBVIOUS
  <2>2. Len(Header(next, 0) \o <<>>) = 20 + Len(<<>>)
    BY <2>1, PacketBytes
  <2>3. QED
    BY ONLY <2>1, <2>2, FramedEmpty, ByteBaseAssumption, Zenon DEF OpenPacket
<1>6. 20 + 2 + k <= MaxDatagramSize
  BY ONLY <1>1, ~TooLargeForDatagram(p), DatagramSizeAssumption, k \in Nat
     DEF TooLargeForDatagram, HeaderSize
<1>7. QED
  BY ONLY <1>1, <1>2, <1>3, <1>4, <1>5, <1>6, Zenon DEF Fits
-----------------------------------------------------------------------------
(* The invariant *)

Recorded(f, n) == SubSeq(f.payloads, 1, n)

(* While a packet is open. *)
PackedWell(packed, ds, all) ==
  \E done, open : /\ Halves(done, open, packed, ds, all) /\ Len(open) >= 1
                  /\ Len(packed.bytes) <= MaxDatagramSize

(* When none is: what is sent and what waits, and how many were lost.      *)
SentWell(carried, all, lost) ==
  /\ carried \in Seq(Message) /\ Keeps(carried, all) /\ Len(carried) + lost <= Len(all)
  /\ lost = 0 => carried = all

GeneratorInv ==
  /\ requestedMessages \in RequestedMessages /\ IsRecording(file)
  /\ messagesRead \in Nat /\ messagesRead <= requestedMessages
  /\ messagesRead <= Len(file.payloads) /\ nextSequence = messagesRead + 1
  /\ sendErrors \in Nat /\ packetOpen \in BOOLEAN
  /\ sent \in Seq(Good) /\ datagrams \in Seq(Good)
  /\ generator = "pack" => packAt = Len(Framed(Recorded(file, messagesRead)))
  /\ generator = "pack" /\ ~packetOpen => messagesRead = 0 /\ datagrams = <<>>
  /\ generator = "pack" \/ packetOpen => sent = <<>> /\ sendErrors = 0
  /\ packetOpen => PackedWell(current, datagrams, Recorded(file, messagesRead))
  /\ ~packetOpen => SentWell(Carried(sent \o datagrams),
                             NumberedFrom(1, Recorded(file, messagesRead)), sendErrors)
  /\ generator \in {"send", "sent"} => ~packetOpen /\
       messagesRead = IF requestedMessages < Len(file.payloads) THEN requestedMessages
                      ELSE Len(file.payloads)
  /\ generator = "sent" => sendErrors = 0

LEMMA FitsRequested ==
  ASSUME NEW r \in RequestedMessages, NEW n \in Nat, n <= r
  PROVE  FitsIn(8, n)
<1>1. r \in Nat /\ FitsIn(8, r)
  BY LoadGenAssumption
<1>2. n \in 0 .. r /\ 8 \in Nat
  BY <1>1
<1>3. QED
  BY <1>1, <1>2, SmallerFits

LEMMA ClosesWell ==
  ASSUME NEW all \in Sessions, FitsIn(8, Len(all)),
         NEW packed, NEW ds, PackedWell(packed, ds, all)
  PROVE  /\ Finalized(packed) \in Good /\ Append(ds, Finalized(packed)) \in Seq(Good)
         /\ Carried(Append(ds, Finalized(packed))) = NumberedFrom(1, all)
<1>1. PICK l \in Nat : l = Len(all)
  BY DEF Sessions
<1>2. PICK done, open : /\ Halves(done, open, packed, ds, all) /\ Len(open) >= 1
                        /\ Len(packed.bytes) <= MaxDatagramSize
  BY Zenon DEF PackedWell
<1>3. PICK first \in Nat : first = Len(done) + 1 /\ first <= l
  <2>1. done \in Sessions /\ open \in Sessions /\ all = done \o open
    BY ONLY <1>2, Zenon DEF Halves
  <2>2. done \in Seq(Seq(Nat)) /\ open \in Seq(Seq(Nat))
    BY ONLY <2>1 DEF Sessions
  <2>3. Len(done \o open) = Len(done) + Len(open)
    BY ONLY <2>2, Joined
  <2>4. PICK m \in Nat : m = Len(done)
    BY ONLY <2>2
  <2>5. PICK n \in Nat : n = Len(open)
    BY ONLY <2>2
  <2>6. l = m + n /\ n >= 1
    BY ONLY <1>1, <1>2, <2>1, <2>3, <2>4, <2>5, Zenon
  <2>7. m + 1 \in Nat /\ m + 1 <= l
    BY ONLY <2>6, m \in Nat, n \in Nat
  <2>8. QED
    BY ONLY <2>4, <2>7
<1>4. FitsIn(8, first)
  <2>1. l \in Nat /\ FitsIn(8, l) /\ first \in 0 .. l /\ 8 \in Nat
    BY <1>1, <1>3
  <2>2. QED
    BY <2>1, SmallerFits
<1>5. QED
  BY ONLY <1>2, <1>3, <1>4, ByteBaseAssumption, LoadGenAssumption, ClosedHolds

LEMMA PackHolds ==
  ASSUME NEW all \in Sessions, NEW p \in Framable, ~TooLargeForDatagram(p),
         nextSequence = Len(all) + 1, FitsIn(8, Len(all)),
         packetOpen \in BOOLEAN, packetOpen => PackedWell(current, datagrams, all),
         ~packetOpen => all = <<>> /\ datagrams = <<>>, Pack(p)
  PROVE  packetOpen' = TRUE /\ PackedWell(current', datagrams', Append(all, p))
<1>1. PICK l \in Nat : l = Len(all)
  BY DEF Sessions
<1>2. nextSequence \in Nat
  BY <1>1
<1>3. Fits(Opened(nextSequence).bytes, Opened(nextSequence).messageCount, p)
  BY <1>2, OpenedFits
<1>4. packetOpen' = TRUE
  BY Zenon DEF Pack
<1>5. ASSUME NEW done, NEW open, NEW packed, NEW ds, Halves(done, open, packed, ds, all),
             Fits(packed.bytes, packed.messageCount, p),
             current' = Appended(packed, p), datagrams' = ds
      PROVE  PackedWell(current', datagrams', Append(all, p))
  <2>1. /\ Halves(done, Append(open, p), Appended(packed, p), ds, Append(all, p))
        /\ Len(Append(open, p)) >= 1
        /\ Len(Appended(packed, p).bytes) <= MaxDatagramSize
    BY ONLY <1>5, p \in Framable, ByteBaseAssumption, AppendedHolds
  <2>2. QED
    BY ONLY <1>5, <2>1, Zenon DEF PackedWell
<1>6. CASE packetOpen
  <2>1. PICK done, open : /\ Halves(done, open, current, datagrams, all) /\ Len(open) >= 1
                          /\ Len(current.bytes) <= MaxDatagramSize
    BY <1>6, Zenon DEF PackedWell
  <2>2. \/ /\ Fits(current.bytes, current.messageCount, p)
           /\ current' = Appended(current, p) /\ datagrams' = datagrams
        \/ /\ datagrams' = Append(datagrams, Finalized(current))
           /\ current' = Appended(Opened(nextSequence), p)
    BY <1>6, Zenon DEF Pack
  <2>3. CASE Fits(current.bytes, current.messageCount, p)
             /\ current' = Appended(current, p) /\ datagrams' = datagrams
    BY <1>4, <1>5, <2>1, <2>3, Zenon
  <2>4. CASE datagrams' = Append(datagrams, Finalized(current))
             /\ current' = Appended(Opened(nextSequence), p)
    <3>3. /\ Append(datagrams, Finalized(current)) \in Seq(Good)
          /\ Carried(Append(datagrams, Finalized(current))) = NumberedFrom(1, all)
      BY <1>6, ClosesWell
    <3>4. PICK ds \in Seq(Good) :
            ds = Append(datagrams, Finalized(current)) /\ Carried(ds) = NumberedFrom(1, all)
      BY ONLY <3>3, Zenon
    <3>5. Halves(all, <<>>, Opened(nextSequence), ds, all)
      BY <1>2, <3>4, OpenedHolds
    <3>6. QED
      BY <1>3, <1>4, <1>5, <2>4, <3>4, <3>5, Zenon
  <2>5. QED
    BY ONLY <2>2, <2>3, <2>4, Zenon
<1>7. CASE ~packetOpen
  <2>1. all = <<>> /\ datagrams = <<>>
    BY <1>7
  <2>2. <<>> \in Seq(Good) /\ 1 \in Nat \ {0} /\ <<>> \in Seq(Seq(Nat)) /\ Len(<<>>) = 0
    OBVIOUS
  <2>3. NumberedFrom(1, <<>>) = <<>>
    BY NumberedEmpty
  <2>4. Carried(<<>>) = NumberedFrom(1, <<>>)
    BY <2>3, CarriedEmpty
  <2>5. Halves(<<>>, <<>>, Opened(nextSequence), <<>>, <<>>)
    <3>1. <<>> \in Sessions
      BY <2>1
    <3>2. nextSequence = Len(<<>>) + 1
      BY <2>1
    <3>3. QED
      BY <1>2, <2>2, <2>4, <3>1, <3>2, OpenedHolds
  <2>6. current' = Appended(Opened(nextSequence), p) /\ datagrams' = datagrams
    BY <1>3, <1>7, Zenon DEF Pack
  <2>7. QED
    BY <1>3, <1>4, <1>5, <2>1, <2>5, <2>6, Zenon
<1>8. QED
  BY ONLY <1>4, <1>6, <1>7

LEMMA PayloadBehind ==
  ASSUME NEW n \in Nat, IsRecording(file), n < Len(file.payloads)
  PROVE  /\ Recorded(file, n) \in Sessions /\ Len(Recorded(file, n)) = n
         /\ file.payloads[n + 1] \in Framable
         /\ Recorded(file, n + 1) = Append(Recorded(file, n), file.payloads[n + 1])
         /\ n + 1 <= Len(file.payloads)
<1>1. PICK ps \in Seq(Framable) : ps = file.payloads
  BY RecordingIs, SessionsAre
<1>2. n < Len(ps)
  BY ONLY <1>1, n < Len(file.payloads)
<1>3. /\ SubSeq(ps, 1, n) \in Seq(Framable) /\ Len(SubSeq(ps, 1, n)) = n /\ ps[n + 1] \in Framable
      /\ SubSeq(ps, 1, n + 1) = Append(SubSeq(ps, 1, n), ps[n + 1])
  BY ONLY <1>2, n \in Nat, ps \in Seq(Framable), SplitBehind
<1>4. n + 1 <= Len(ps)
  <2>1. PICK l \in Nat : l = Len(ps)
    OBVIOUS
  <2>2. n + 1 <= l
    BY ONLY <1>2, <2>1, n \in Nat, l \in Nat
  <2>3. QED
    BY ONLY <2>1, <2>2
<1>5. QED
  BY ONLY <1>1, <1>3, <1>4, SessionsAre, ByteBaseAssumption, Zenon DEF Recorded

LEMMA PackRecordHolds ==
  ASSUME GeneratorInv, PackRecord, file' = file
  PROVE  GeneratorInv'
<1>1. PICK n \in Nat : n = messagesRead
  BY Zenon DEF GeneratorInv
<1>2. /\ generator = "pack" /\ n < requestedMessages
      /\ ReadNext(packAt).status = "Message"
      /\ requestedMessages' = requestedMessages /\ sent' = sent /\ sendErrors' = sendErrors
  BY <1>1, Zenon DEF PackRecord
<1>3. /\ requestedMessages \in RequestedMessages /\ IsRecording(file)
      /\ n <= requestedMessages /\ n <= Len(file.payloads) /\ nextSequence = n + 1
      /\ sendErrors \in Nat /\ packetOpen \in BOOLEAN
      /\ sent \in Seq(Good) /\ datagrams \in Seq(Good)
      /\ packAt = Len(Framed(Recorded(file, n)))
      /\ ~packetOpen => n = 0 /\ datagrams = <<>>
      /\ sent = <<>> /\ sendErrors = 0
      /\ packetOpen => PackedWell(current, datagrams, Recorded(file, n))
      /\ ~packetOpen => SentWell(Carried(sent \o datagrams),
                                 NumberedFrom(1, Recorded(file, n)), sendErrors)
  BY <1>1, <1>2, Zenon DEF GeneratorInv
<1>4. ReadsRecord(n)
  BY <1>3, ReadsTheFile
<1>5. n < Len(file.payloads)
  <2>1. PICK l \in Nat : l = Len(file.payloads)
    <3>1. file.payloads \in Seq(Framable)
      BY <1>3, RecordingIs, SessionsAre
    <3>2. QED
      BY <3>1
  <2>2. n # l
    BY ONLY <1>2, <1>3, <1>4, <2>1, Zenon DEF ReadsRecord, Recorded
  <2>3. n < l
    BY ONLY <1>3, <2>1, <2>2, n \in Nat, l \in Nat
  <2>4. QED
    BY ONLY <2>1, <2>3
<1>6. /\ Recorded(file, n) \in Sessions /\ Len(Recorded(file, n)) = n
      /\ file.payloads[n + 1] \in Framable
      /\ Recorded(file, n + 1) = Append(Recorded(file, n), file.payloads[n + 1])
      /\ n + 1 <= Len(file.payloads)
  BY <1>3, <1>5, PayloadBehind
<1>7. PICK p \in Framable : p = file.payloads[n + 1]
  BY <1>6
<1>8. /\ ReadNext(packAt) = [status |-> "Message", data |-> p]
      /\ Behind(packAt, ReadNext(packAt)) = Len(Framed(Recorded(file, n + 1)))
  BY ONLY <1>3, <1>4, <1>5, <1>7, Zenon DEF ReadsRecord, Recorded
<1>9. ReadNext(packAt).data = p
  BY ONLY <1>8
<1>10. /\ packAt' = Len(Framed(Recorded(file, n + 1)))
       /\ \/ /\ TooLargeForDatagram(p) /\ generator' = "failed"
             /\ messagesRead' = messagesRead /\ nextSequence' = nextSequence
             /\ packetOpen' = packetOpen /\ current' = current /\ datagrams' = datagrams
          \/ /\ ~TooLargeForDatagram(p) /\ Pack(p)
             /\ messagesRead' = messagesRead + 1 /\ nextSequence' = nextSequence + 1
             /\ generator' = generator
  <2>1. /\ packAt' = Behind(packAt, ReadNext(packAt))
        /\ \/ /\ TooLargeForDatagram(ReadNext(packAt).data) /\ generator' = "failed"
              /\ messagesRead' = messagesRead /\ nextSequence' = nextSequence
              /\ packetOpen' = packetOpen /\ current' = current /\ datagrams' = datagrams
           \/ /\ ~TooLargeForDatagram(ReadNext(packAt).data) /\ Pack(ReadNext(packAt).data)
              /\ messagesRead' = messagesRead + 1 /\ nextSequence' = nextSequence + 1
              /\ generator' = generator
    BY Zenon DEF PackRecord
  <2>2. QED
    BY ONLY <1>8, <1>9, <2>1, Zenon
<1>11. CASE /\ TooLargeForDatagram(p) /\ generator' = "failed"
            /\ messagesRead' = messagesRead /\ nextSequence' = nextSequence
            /\ packetOpen' = packetOpen /\ current' = current /\ datagrams' = datagrams
  <2>1. generator' # "pack" /\ generator' \notin {"send", "sent"} /\ generator' # "sent"
    BY ONLY <1>11
  <2>2. QED
    BY ONLY <1>1, <1>2, <1>3, <1>11, <2>1, file' = file, n \in Nat, Zenon DEF GeneratorInv
<1>12. CASE /\ ~TooLargeForDatagram(p) /\ Pack(p)
            /\ messagesRead' = messagesRead + 1 /\ nextSequence' = nextSequence + 1
            /\ generator' = generator
  <2>1. PICK all \in Sessions : all = Recorded(file, n) /\ Len(all) = n
    BY ONLY <1>6
  <2>2. packetOpen' = TRUE /\ PackedWell(current', datagrams', Append(all, p))
    <3>1. nextSequence = Len(all) + 1
      BY ONLY <1>3, <2>1
    <3>2. FitsIn(8, Len(all))
      <4>1. FitsIn(8, n)
        BY <1>3, FitsRequested
      <4>2. QED
        BY ONLY <2>1, <4>1, Zenon
    <3>3. packetOpen => PackedWell(current, datagrams, all)
      BY ONLY <1>3, <2>1, Zenon
    <3>4. ~packetOpen => all = <<>> /\ datagrams = <<>>
      <4>1. n = 0 => all = <<>>
        <5>1. all \in Seq(Framable)
          BY ONLY SessionsAre, ByteBaseAssumption, all \in Sessions, Zenon
        <5>2. QED
          BY ONLY <2>1, <5>1
      <4>2. QED
        BY ONLY <1>3, <4>1, Zenon
    <3>5. ~TooLargeForDatagram(p) /\ Pack(p)
      BY <1>12
    <3>6. packetOpen \in BOOLEAN
      BY <1>3
    <3>7. QED
      BY <3>1, <3>2, <3>3, <3>4, <3>5, <3>6, PackHolds
  <2>3. datagrams' \in Seq(Good)
    BY ONLY <2>2, Zenon DEF PackedWell, Halves
  <2>4. /\ messagesRead' = n + 1 /\ nextSequence' = messagesRead' + 1
        /\ n + 1 \in Nat /\ n + 1 <= requestedMessages
    <3>1. requestedMessages \in Nat
      BY <1>3, LoadGenAssumption
    <3>2. QED
      BY ONLY <1>1, <1>2, <1>3, <1>12, <3>1, n \in Nat
  <2>5. PackedWell(current', datagrams', Recorded(file, n + 1))
    BY ONLY <1>6, <1>7, <2>1, <2>2, Zenon
  <2>6. generator' = "pack" /\ generator' \notin {"send", "sent"} /\ generator' # "sent"
    BY ONLY <1>2, <1>12
  <2>7. QED
    BY ONLY <1>2, <1>3, <1>6, <1>10, <2>2, <2>3, <2>4, <2>5, <2>6, file' = file, Zenon
       DEF GeneratorInv
<1>13. QED
  BY ONLY <1>10, <1>11, <1>12, Zenon

LEMMA SentWhole ==
  ASSUME NEW ms \in Seq(Message)
  PROVE  SentWell(ms, ms, 0)
<1>1. PICK n \in Nat : n = Len(ms)
  OBVIOUS
<1>2. Keeps(ms, ms)
  BY Zenon DEF Keeps
<1>3. n + 0 <= n
  OBVIOUS
<1>4. QED
  BY ONLY <1>1, <1>2, <1>3, ms \in Seq(Message), Zenon DEF SentWell

LEMMA RecordedIs ==
  ASSUME GeneratorInv
  PROVE  /\ Recorded(file, messagesRead) \in Sessions
         /\ Len(Recorded(file, messagesRead)) = messagesRead
<1>1. messagesRead \in Nat /\ IsRecording(file) /\ messagesRead <= Len(file.payloads)
  BY Zenon DEF GeneratorInv
<1>2. PICK ps \in Seq(Framable) : ps = file.payloads
  BY <1>1, RecordingIs, SessionsAre
<1>3. PICK n \in Nat : n = messagesRead /\ n <= Len(ps)
  BY ONLY <1>1, <1>2
<1>4. SubSeq(ps, 1, n) \in Seq(Framable) /\ Len(SubSeq(ps, 1, n)) = n
  <2>1. PICK l \in Nat : l = Len(ps) /\ \A i \in 1 .. l : ps[i] \in Framable
    OBVIOUS
  <2>2. 1 \in Int /\ n \in Int /\ \A i \in 1 .. n : ps[i] \in Framable
    BY ONLY <1>3, <2>1
  <2>3. SubSeq(ps, 1, n) \in Seq(Framable)
        /\ Len(SubSeq(ps, 1, n)) = IF 1 <= n THEN n - 1 + 1 ELSE 0
    BY ONLY <2>2, SubSeqProperties
  <2>4. PICK q \in Seq(Framable) : q = SubSeq(ps, 1, n)
    BY ONLY <2>3
  <2>5. Len(q) = n
    BY ONLY <2>3, <2>4, n \in Nat
  <2>6. QED
    BY ONLY <2>4, <2>5
<1>5. QED
  BY ONLY <1>2, <1>3, <1>4, SessionsAre, ByteBaseAssumption, Zenon DEF Recorded

LEMMA PackingEndsHolds ==
  ASSUME GeneratorInv, PackingEnds, file' = file
  PROVE  GeneratorInv'
<1>1. PICK n \in Nat : n = messagesRead
  BY Zenon DEF GeneratorInv
<1>2. /\ generator = "pack" /\ packAt' = packAt /\ messagesRead' = messagesRead
      /\ requestedMessages' = requestedMessages /\ nextSequence' = nextSequence
      /\ sent' = sent /\ sendErrors' = sendErrors
      /\ n = requestedMessages \/ ReadNext(packAt).status # "Message"
  BY <1>1, Zenon DEF PackingEnds
<1>3. /\ requestedMessages \in RequestedMessages /\ IsRecording(file)
      /\ n <= requestedMessages /\ n <= Len(file.payloads) /\ nextSequence = n + 1
      /\ sendErrors \in Nat /\ packetOpen \in BOOLEAN
      /\ sent \in Seq(Good) /\ datagrams \in Seq(Good)
      /\ packAt = Len(Framed(Recorded(file, n)))
      /\ ~packetOpen => n = 0 /\ datagrams = <<>>
      /\ sent = <<>> /\ sendErrors = 0
      /\ packetOpen => PackedWell(current, datagrams, Recorded(file, n))
      /\ ~packetOpen => SentWell(Carried(sent \o datagrams),
                                 NumberedFrom(1, Recorded(file, n)), sendErrors)
  BY <1>1, <1>2, Zenon DEF GeneratorInv
<1>4. n = IF requestedMessages < Len(file.payloads) THEN requestedMessages
          ELSE Len(file.payloads)
  <2>1. PICK l \in Nat : l = Len(file.payloads)
    <3>1. file.payloads \in Seq(Framable)
      BY <1>3, RecordingIs, SessionsAre
    <3>2. QED
      BY <3>1
  <2>2. requestedMessages \in Nat
    BY <1>3, LoadGenAssumption
  <2>3. ReadsRecord(n)
    BY <1>3, ReadsTheFile
  <2>4. n < l => ReadNext(packAt).status = "Message"
    <3>1. n < l => ReadNext(packAt) = [status |-> "Message", data |-> file.payloads[n + 1]]
      BY ONLY <1>3, <2>1, <2>3, Zenon DEF ReadsRecord, Recorded
    <3>2. QED
      BY ONLY <3>1
  <2>5. QED
    BY ONLY <1>2, <1>3, <2>1, <2>2, <2>4, n \in Nat
<1>5. PICK all \in Sessions : all = Recorded(file, n) /\ Len(all) = n
  BY ONLY <1>1, GeneratorInv, ByteBaseAssumption, LoadGenAssumption, RecordedIs, Zenon
<1>6. CASE /\ generator' = "failed" /\ packetOpen' = packetOpen /\ current' = current
           /\ datagrams' = datagrams
  <2>1. generator' # "pack" /\ generator' \notin {"send", "sent"} /\ generator' # "sent"
    BY ONLY <1>6
  <2>2. QED
    BY ONLY <1>1, <1>2, <1>3, <1>6, <2>1, file' = file, n \in Nat, Zenon DEF GeneratorInv
<1>7. CASE /\ datagrams' = IF packetOpen THEN Append(datagrams, Finalized(current))
                           ELSE datagrams
           /\ packetOpen' = FALSE
           /\ generator' = IF datagrams' = <<>> THEN "failed" ELSE "send"
  <2>1. generator' # "pack" /\ generator' # "sent"
    BY ONLY <1>7
  <2>2. datagrams' \in Seq(Good)
        /\ SentWell(Carried(datagrams'), NumberedFrom(1, all), 0)
    <3>1. CASE packetOpen
      <4>1. FitsIn(8, Len(all))
        <5>1. FitsIn(8, n)
          BY <1>3, FitsRequested
        <5>2. QED
          BY ONLY <1>5, <5>1, Zenon
      <4>2. PackedWell(current, datagrams, all)
        BY ONLY <1>3, <1>5, <3>1, Zenon
      <4>3. /\ Append(datagrams, Finalized(current)) \in Seq(Good)
            /\ Carried(Append(datagrams, Finalized(current))) = NumberedFrom(1, all)
        BY <4>1, <4>2, ClosesWell
      <4>4. PICK ds \in Seq(Good) : ds = datagrams' /\ Carried(ds) = NumberedFrom(1, all)
        BY ONLY <1>7, <3>1, <4>3, Zenon
      <4>5. SentWell(Carried(ds), Carried(ds), 0)
        BY CarriedIs, SentWhole
      <4>6. QED
        BY ONLY <4>4, <4>5, Zenon
    <3>2. CASE ~packetOpen
      <4>1. <<>> \o <<>> = <<>>
        OBVIOUS
      <4>2. QED
        BY ONLY <1>3, <1>5, <1>7, <3>2, <4>1, Zenon
    <3>3. QED
      BY ONLY <3>1, <3>2
  <2>3. sent' \o datagrams' = datagrams'
    <3>1. PICK ds \in Seq(Good) : ds = datagrams'
      BY ONLY <2>2
    <3>2. <<>> \o ds = ds
      BY ONLY ds \in Seq(Good), ConcatEmptySeq
    <3>3. QED
      BY ONLY <1>2, <1>3, <3>1, <3>2, Zenon
  <2>4. SentWell(Carried(sent' \o datagrams'), NumberedFrom(1, Recorded(file, n)), sendErrors')
    BY ONLY <1>2, <1>3, <1>5, <2>2, <2>3, Zenon
  <2>5. QED
    BY ONLY <1>1, <1>2, <1>3, <1>4, <1>7, <2>1, <2>2, <2>4, file' = file, n \in Nat, Zenon
       DEF GeneratorInv
<1>8. QED
  BY ONLY <1>6, <1>7, PackingEnds, Zenon DEF PackingEnds

(* What the network takes, or refuses.                                     *)
LEMMA KeepsOn ==
  ASSUME NEW u, NEW v, NEW w, Len(v) \in Nat, Keeps(u, v), Keeps(v, w)
  PROVE  Keeps(u, w)
<1>1. ASSUME NEW i \in 1 .. Len(u) PROVE \E k \in 1 .. Len(w) : u[i] = w[k]
  <2>1. PICK k \in 1 .. Len(v) : u[i] = v[k]
    BY Zenon DEF Keeps
  <2>2. PICK l \in 1 .. Len(w) : v[k] = w[l]
    BY Zenon DEF Keeps
  <2>3. QED
    BY ONLY <2>1, <2>2, Zenon
<1>2. ASSUME NEW i \in 1 .. Len(u), NEW j \in 1 .. Len(u), i < j
      PROVE  \E k, l \in 1 .. Len(w) : k < l /\ u[i] = w[k] /\ u[j] = w[l]
  <2>1. PICK k \in 1 .. Len(v) :
          \E l \in 1 .. Len(v) : k < l /\ u[i] = v[k] /\ u[j] = v[l]
    BY <1>2, Zenon DEF Keeps
  <2>2. PICK l \in 1 .. Len(v) : k < l /\ u[i] = v[k] /\ u[j] = v[l]
    BY ONLY <2>1, Zenon
  <2>3. \E x, y \in 1 .. Len(w) : x < y /\ v[k] = w[x] /\ v[l] = w[y]
    BY <2>2, Zenon DEF Keeps
  <2>4. QED
    BY ONLY <2>2, <2>3, Zenon
<1>3. QED
  BY ONLY <1>1, <1>2, Zenon DEF Keeps

LEMMA SendHolds ==
  ASSUME GeneratorInv, Send, file' = file
  PROVE  GeneratorInv'
<1>1. PICK n \in Nat : n = messagesRead
  BY Zenon DEF GeneratorInv
<1>2. /\ generator = "send" /\ datagrams # <<>> /\ datagrams' = Tail(datagrams)
      /\ \/ sent' = Append(sent, Head(datagrams)) /\ sendErrors' = sendErrors
         \/ sent' = sent /\ sendErrors' = sendErrors + 1
      /\ generator' = generator /\ packing' = packing
  BY Zenon DEF Send
<1>3. /\ packAt' = packAt /\ messagesRead' = messagesRead /\ packetOpen' = packetOpen
      /\ requestedMessages' = requestedMessages /\ nextSequence' = nextSequence
      /\ current' = current
  BY ONLY <1>2 DEF packing
<1>4. /\ requestedMessages \in RequestedMessages /\ IsRecording(file)
      /\ n <= requestedMessages /\ n <= Len(file.payloads) /\ nextSequence = n + 1
      /\ sendErrors \in Nat /\ sent \in Seq(Good) /\ datagrams \in Seq(Good)
      /\ packetOpen \in BOOLEAN /\ ~packetOpen
      /\ n = IF requestedMessages < Len(file.payloads) THEN requestedMessages
             ELSE Len(file.payloads)
      /\ SentWell(Carried(sent \o datagrams), NumberedFrom(1, Recorded(file, n)), sendErrors)
  <2>1. generator \in {"send", "sent"}
    BY ONLY <1>2
  <2>2. QED
    BY <1>1, <2>1, Zenon DEF GeneratorInv
<1>5. PICK snt \in Seq(Good), ds \in Seq(Good) : snt = sent /\ ds = datagrams
  BY ONLY <1>4
<1>6. PICK h \in Good, rest \in Seq(Good) :
        h = Head(ds) /\ rest = Tail(ds) /\ ds = <<h>> \o rest
  BY ONLY <1>2, <1>5, HeadAndTail, Zenon
<1>7. PICK one \in Seq(Good) : one = <<h>> /\ Carried(one) = MessagesOf(h)
  BY ONLY CarriedOne, h \in Good, Zenon
<1>8. PICK both \in Seq(Good) : both = snt \o one /\ both = Append(snt, h)
        /\ snt \o ds = both \o rest
  <2>1. snt \o one \in Seq(Good)
    BY ONLY snt \in Seq(Good), one \in Seq(Good), ConcatProperties
  <2>2. Append(snt, h) = snt \o one
    BY ONLY <1>7, AppendIsConcat, snt \in Seq(Good), h \in Good
  <2>3. (snt \o one) \o rest = snt \o (one \o rest)
    BY ONLY snt \in Seq(Good), one \in Seq(Good), rest \in Seq(Good), ConcatAssociative
  <2>4. QED
    BY ONLY <1>6, <1>7, <2>1, <2>2, <2>3, Zenon
<1>9. PICK all : all = NumberedFrom(1, Recorded(file, n))
  OBVIOUS
<1>10. SentWell(Carried(both \o rest), all, sendErrors)
  BY ONLY <1>4, <1>5, <1>8, <1>9, Zenon
<1>11. sent' \in Seq(Good) /\ datagrams' \in Seq(Good) /\ sendErrors' \in Nat
       /\ SentWell(Carried(sent' \o datagrams'), all, sendErrors')
  <2>1. CASE sent' = Append(sent, Head(datagrams)) /\ sendErrors' = sendErrors
    BY ONLY <1>2, <1>4, <1>5, <1>6, <1>8, <1>10, <2>1, both \in Seq(Good),
            rest \in Seq(Good), Zenon
  <2>2. CASE sent' = sent /\ sendErrors' = sendErrors + 1
    <3>1. PICK a \in Seq(Message), b \in Seq(Message), c \in Seq(Message) :
            a = Carried(snt) /\ b = MessagesOf(h) /\ c = Carried(rest) /\ Len(b) >= 1
      <4>1. Carried(snt) \in Seq(Message) /\ Carried(rest) \in Seq(Message)
        BY ONLY snt \in Seq(Good), rest \in Seq(Good), CarriedIs
      <4>2. MessagesOf(h) \in Seq(Message) /\ Len(MessagesOf(h)) >= 1
        BY ONLY h \in Good, Zenon DEF Good
      <4>3. QED
        BY ONLY <4>1, <4>2, Zenon
    <3>2. Carried(both \o rest) = (a \o b) \o c
      <4>1. Carried(snt \o one) = Carried(snt) \o Carried(one)
        BY ONLY snt \in Seq(Good), one \in Seq(Good), CarriedConcat
      <4>2. Carried(both \o rest) = Carried(both) \o Carried(rest)
        BY ONLY both \in Seq(Good), rest \in Seq(Good), CarriedConcat
      <4>3. QED
        BY ONLY <1>7, <1>8, <3>1, <4>1, <4>2, Zenon
    <3>3. Carried(snt \o rest) = a \o c
      <4>1. Carried(snt \o rest) = Carried(snt) \o Carried(rest)
        BY ONLY snt \in Seq(Good), rest \in Seq(Good), CarriedConcat
      <4>2. QED
        BY ONLY <3>1, <4>1, Zenon
    <3>4. a \o c \in Seq(Message) /\ Len(a \o c) + Len(b) = Len((a \o b) \o c)
          /\ Keeps(a \o c, (a \o b) \o c)
      BY ONLY a \in Seq(Message), b \in Seq(Message), c \in Seq(Message), LeftOut
    <3>5. PICK abc \in Seq(Message) : abc = (a \o b) \o c
      <4>1. PICK ab \in Seq(Message) : ab = a \o b
        BY ONLY a \in Seq(Message), b \in Seq(Message), ConcatProperties
      <4>2. ab \o c \in Seq(Message)
        BY ONLY ab \in Seq(Message), c \in Seq(Message), ConcatProperties
      <4>3. QED
        BY ONLY <4>1, <4>2, Zenon
    <3>6. PICK ac \in Seq(Message) : ac = a \o c
      BY ONLY <3>4
    <3>7. Keeps(abc, all) /\ Len(abc) + sendErrors <= Len(all)
      BY ONLY <1>10, <3>2, <3>5, Zenon DEF SentWell
    <3>8. Keeps(ac, all)
      <4>1. Keeps(ac, abc) /\ Len(abc) \in Nat
        BY ONLY <3>4, <3>5, <3>6, abc \in Seq(Message)
      <4>2. QED
        BY ONLY <3>7, <4>1, KeepsOn
    <3>9. Len(ac) + (sendErrors + 1) <= Len(all)
      <4>1. PICK x \in Nat : x = Len(ac)
        OBVIOUS
      <4>2. PICK y \in Nat : y = Len(b)
        OBVIOUS
      <4>3. PICK e \in Nat : e = sendErrors
        BY ONLY <1>4
      <4>4. PICK l \in Nat : l = Len(all)
        <5>1. Recorded(file, n) \in Sessions /\ Len(Recorded(file, n)) = n
          BY ONLY <1>1, GeneratorInv, ByteBaseAssumption, LoadGenAssumption, RecordedIs, Zenon
        <5>2. Recorded(file, n) \in Seq(Seq(Nat)) /\ 1 \in Nat \ {0}
          BY ONLY <5>1 DEF Sessions
        <5>3. Len(all) = n
          BY ONLY <1>9, <5>1, <5>2, NumberedIs
        <5>4. QED
          BY ONLY <5>3
      <4>5. (x + y) + e <= l /\ y >= 1
        BY ONLY <3>1, <3>4, <3>5, <3>6, <3>7, <4>1, <4>2, <4>3, <4>4, Zenon
      <4>6. x + (e + 1) <= l
        BY ONLY <4>5, x \in Nat, y \in Nat, e \in Nat, l \in Nat
      <4>7. QED
        BY ONLY <4>1, <4>3, <4>4, <4>6, Zenon
    <3>10. sendErrors + 1 \in Nat /\ sendErrors + 1 # 0
      BY ONLY <1>4
    <3>11. SentWell(ac, all, sendErrors + 1)
      BY ONLY <3>8, <3>9, <3>10, ac \in Seq(Message), Zenon DEF SentWell
    <3>12. sent' \o datagrams' = snt \o rest
      BY ONLY <1>2, <1>5, <1>6, <2>2, Zenon
    <3>13. QED
      BY ONLY <1>2, <1>4, <1>5, <1>6, <2>2, <3>3, <3>6, <3>10, <3>11, <3>12,
              rest \in Seq(Good), Zenon
  <2>3. QED
    BY ONLY <1>2, <2>1, <2>2
<1>12. generator' # "pack" /\ generator' # "sent"
  BY ONLY <1>2
<1>13. QED
  BY ONLY <1>1, <1>2, <1>3, <1>4, <1>9, <1>11, <1>12, file' = file, n \in Nat, Zenon
     DEF GeneratorInv

LEMMA SendingEndsHolds ==
  ASSUME GeneratorInv, SendingEnds, file' = file
  PROVE  GeneratorInv'
<1>1. /\ generator = "send" /\ packing' = packing /\ datagrams' = datagrams
      /\ sent' = sent /\ sendErrors' = sendErrors
      /\ generator' = IF sendErrors = 0 THEN "sent" ELSE "failed"
  BY Zenon DEF SendingEnds
<1>2. /\ packAt' = packAt /\ messagesRead' = messagesRead /\ packetOpen' = packetOpen
      /\ requestedMessages' = requestedMessages /\ nextSequence' = nextSequence
      /\ current' = current
  BY ONLY <1>1 DEF packing
<1>3. generator' # "pack" /\ generator \in {"send", "sent"}
      /\ (generator' = "sent" => sendErrors = 0)
  BY ONLY <1>1
<1>4. QED
  BY ONLY <1>1, <1>2, <1>3, GeneratorInv, file' = file, Zenon DEF GeneratorInv

LEMMA GeneratorInvInit ==
  ASSUME SessionInit
  PROVE  GeneratorInv
<1>1. IsRecording(file)
  <2>1. file \in Files \cup GapFiles
    BY Zenon DEF SessionInit
  <2>2. QED
    BY <2>1, FilesAssumption
<1>2. GeneratorInit
  BY Zenon DEF SessionInit
<1>3. /\ generator = "pack" /\ packAt = 0 /\ requestedMessages \in RequestedMessages
      /\ messagesRead = 0 /\ nextSequence = 1 /\ packetOpen = FALSE
      /\ datagrams = <<>> /\ sent = <<>> /\ sendErrors = 0
  BY <1>2, Zenon DEF GeneratorInit
<1>4. PICK ps \in Sessions : ps = file.payloads
  BY <1>1, RecordingIs, Zenon
<1>5. Recorded(file, 0) = <<>>
  <2>1. SubSeq(ps, 1, 0) = <<>>
    BY DEF Sessions
  <2>2. QED
    BY ONLY <1>4, <2>1, Zenon DEF Recorded
<1>6. packAt = Len(Framed(Recorded(file, 0)))
  <2>1. Len(<<>>) = 0
    OBVIOUS
  <2>2. QED
    BY ONLY <1>3, <1>5, <2>1, FramedEmpty, ByteBaseAssumption, Zenon
<1>7. SentWell(Carried(sent \o datagrams), NumberedFrom(1, Recorded(file, 0)), sendErrors)
  <2>1. PICK ms \in Seq(Message) : ms = <<>>
    <3>1. <<>> \in Seq(Message)
      OBVIOUS
    <3>2. QED
      BY ONLY <3>1, Zenon
  <2>2. SentWell(ms, ms, 0)
    BY SentWhole
  <2>3. <<>> \o <<>> = <<>>
    OBVIOUS
  <2>4. QED
    BY ONLY <1>3, <1>5, <2>1, <2>2, <2>3, CarriedEmpty, NumberedEmpty, ByteBaseAssumption, Zenon
<1>8. requestedMessages \in Nat /\ 0 <= requestedMessages
  BY <1>3, LoadGenAssumption
<1>9. 0 <= Len(file.payloads)
  BY <1>4 DEF Sessions
<1>10. <<>> \in Seq(Good) /\ 0 \in Nat /\ 0 + 1 = 1
  OBVIOUS
<1>11. generator \notin {"send", "sent"} /\ generator # "sent"
  BY ONLY <1>3
<1>12. QED
  BY ONLY <1>1, <1>3, <1>6, <1>7, <1>8, <1>9, <1>10, <1>11, Zenon DEF GeneratorInv

LEMMA GeneratorInvStep ==
  ASSUME GeneratorInv, [SessionNext]_sessionVars
  PROVE  GeneratorInv'
<1>1. ASSUME file' = file, generatorVars' = generatorVars
      PROVE  GeneratorInv'
  <2>1. /\ generator' = generator /\ packing' = packing /\ datagrams' = datagrams
        /\ sent' = sent /\ sendErrors' = sendErrors
    BY ONLY <1>1 DEF generatorVars
  <2>2. /\ packAt' = packAt /\ messagesRead' = messagesRead /\ packetOpen' = packetOpen
        /\ requestedMessages' = requestedMessages /\ nextSequence' = nextSequence
        /\ current' = current
    BY ONLY <2>1 DEF packing
  <2>3. QED
    BY ONLY <1>1, <2>1, <2>2, GeneratorInv, Zenon DEF GeneratorInv
<1>2. CASE LoadGen
  <2>1. file' = file /\ Generator
    BY <1>2, Zenon DEF LoadGen
  <2>2. CASE PackRecord
    BY <2>1, <2>2, PackRecordHolds
  <2>3. CASE PackingEnds
    BY <2>1, <2>3, PackingEndsHolds
  <2>4. CASE Send
    BY <2>1, <2>4, SendHolds
  <2>5. CASE SendingEnds
    BY <2>1, <2>5, SendingEndsHolds
  <2>6. QED
    BY ONLY <2>1, <2>2, <2>3, <2>4, <2>5, Zenon DEF Generator
<1>3. CASE ReplayMainThread
  BY ONLY <1>1, <1>3, Zenon DEF ReplayMainThread
<1>4. CASE ReplayConsumerThread
  BY ONLY <1>1, <1>4, Zenon DEF ReplayConsumerThread
<1>5. CASE GapReplay
  BY ONLY <1>1, <1>5, Zenon DEF GapReplay
<1>6. CASE UNCHANGED sessionVars
  <2>1. file' = file /\ generatorVars' = generatorVars
    BY ONLY <1>6 DEF sessionVars
  <2>2. QED
    BY ONLY <1>1, <2>1
<1>7. CASE Finished
  BY <1>6, <1>7, Zenon DEF Finished
<1>8. QED
  BY <1>2, <1>3, <1>4, <1>5, <1>6, <1>7, Zenon DEF SessionNext

(* What is packed: whole datagrams, and what they carry. *)
LEMMA PackedIs ==
  ASSUME GeneratorInv
  PROVE  /\ Packed \in Seq(Good)
         /\ SentWell(Carried(Packed), NumberedFrom(1, Recorded(file, messagesRead)), sendErrors)
<1>1. PICK all \in Sessions : all = Recorded(file, messagesRead) /\ Len(all) = messagesRead
  BY RecordedIs, Zenon
<1>2. CASE packetOpen
  <2>1. /\ sent = <<>> /\ sendErrors = 0 /\ PackedWell(current, datagrams, all)
        /\ datagrams \in Seq(Good) /\ messagesRead \in Nat
        /\ requestedMessages \in RequestedMessages /\ messagesRead <= requestedMessages
    BY <1>1, <1>2, Zenon DEF GeneratorInv
  <2>2. FitsIn(8, Len(all))
    <3>1. FitsIn(8, messagesRead)
      BY <2>1, FitsRequested
    <3>2. QED
      BY ONLY <1>1, <3>1, Zenon
  <2>3. /\ Finalized(current) \in Good /\ Append(datagrams, Finalized(current)) \in Seq(Good)
        /\ Carried(Append(datagrams, Finalized(current))) = NumberedFrom(1, all)
    BY <2>1, <2>2, ClosesWell
  <2>4. PICK ds \in Seq(Good) :
          ds = Append(datagrams, Finalized(current)) /\ Carried(ds) = NumberedFrom(1, all)
    BY ONLY <2>3, Zenon
  <2>5. SentWell(Carried(ds), Carried(ds), 0)
    BY CarriedIs, SentWhole
  <2>6. Packed = ds
    <3>1. PICK es \in Seq(Good) : es = datagrams
      BY ONLY <2>1
    <3>2. Append(es, Finalized(current)) = es \o <<Finalized(current)>>
      <4>1. PICK d \in Good : d = Finalized(current)
        BY ONLY <2>3, Zenon
      <4>2. Append(es, d) = es \o <<d>>
        BY ONLY es \in Seq(Good), d \in Good, AppendIsConcat
      <4>3. QED
        BY ONLY <4>1, <4>2, Zenon
    <3>3. <<>> \o es = es
      BY ONLY es \in Seq(Good), ConcatEmptySeq
    <3>4. QED
      BY ONLY <1>2, <2>1, <2>4, <3>1, <3>2, <3>3, Zenon DEF Packed
  <2>7. QED
    BY ONLY <1>1, <2>1, <2>4, <2>5, <2>6, ds \in Seq(Good), Zenon
<1>3. CASE ~packetOpen
  <2>1. /\ sent \in Seq(Good) /\ datagrams \in Seq(Good)
        /\ SentWell(Carried(sent \o datagrams), NumberedFrom(1, all), sendErrors)
    BY <1>1, <1>3, Zenon DEF GeneratorInv
  <2>2. PICK ds \in Seq(Good) : ds = sent \o datagrams
    BY ONLY <2>1, ConcatProperties
  <2>3. ds \o <<>> = ds
    BY ONLY ds \in Seq(Good), ConcatEmptySeq
  <2>4. Packed = ds
    BY ONLY <1>3, <2>2, <2>3, Zenon DEF Packed
  <2>5. QED
    BY ONLY <1>1, <2>1, <2>2, <2>4, ds \in Seq(Good), Zenon
<1>4. QED
  BY ONLY <1>2, <1>3

LEMMA GeneratorInvImplies ==
  ASSUME GeneratorInv
  PROVE  DatagramsCarryTheFile
<1>1. PICK all \in Sessions : all = Recorded(file, messagesRead) /\ Len(all) = messagesRead
  BY RecordedIs, Zenon
<1>2. PICK ds \in Seq(Good) : ds = Packed
  BY PackedIs
<1>3. PICK recorded \in Seq(Message) :
        /\ recorded = NumberedFrom(1, all) /\ Len(recorded) = messagesRead /\ Rising(recorded)
  <2>1. all \in Seq(Seq(Nat)) /\ 1 \in Nat \ {0}
    BY DEF Sessions
  <2>2. NumberedFrom(1, all) \in Seq(Message) /\ Len(NumberedFrom(1, all)) = Len(all)
        /\ Rising(NumberedFrom(1, all))
    BY ONLY <2>1, NumberedIs, NumberedRising
  <2>3. QED
    BY ONLY <1>1, <2>2, Zenon
<1>4. PICK carried \in Seq(Message) :
        /\ carried = Carried(ds) /\ SentWell(carried, recorded, sendErrors)
  <2>1. Carried(ds) \in Seq(Message)
    BY CarriedIs
  <2>2. SentWell(Carried(ds), recorded, sendErrors)
    BY <1>1, <1>2, <1>3, PackedIs, Zenon
  <2>3. QED
    BY ONLY <2>1, <2>2, Zenon
<1>5. PICK n \in Nat : n = messagesRead
  BY Zenon DEF GeneratorInv
<1>6. PICK l \in Nat : l = Len(carried)
  OBVIOUS
<1>7. PICK e \in Nat : e = sendErrors
  BY Zenon DEF GeneratorInv
<1>8. /\ Keeps(carried, recorded) /\ l + e <= n /\ (e = 0 => carried = recorded)
  BY ONLY <1>3, <1>4, <1>5, <1>6, <1>7, Zenon DEF SentWell
<1>9. \A i \in DOMAIN Packed : Len(Packed[i]) <= MaxDatagramSize /\ WellFramed(Packed[i])
  <2>1. \A i \in DOMAIN ds : ds[i] \in Good
    BY ONLY ds \in Seq(Good)
  <2>2. QED
    BY ONLY <1>2, <2>1, Zenon DEF Good
<1>10. DOMAIN carried = 1 .. l /\ DOMAIN recorded = 1 .. n
  BY ONLY <1>3, <1>5, <1>6, carried \in Seq(Message), recorded \in Seq(Message)
<1>11. ToSet(carried) \subseteq ToSet(recorded)
  <2>1. \A i \in 1 .. l : \E k \in 1 .. n : carried[i] = recorded[k]
    BY ONLY <1>3, <1>5, <1>6, <1>8, Zenon DEF Keeps
  <2>2. QED
    BY ONLY <1>10, <2>1, Zenon DEF ToSet
<1>12. \A i \in 2 .. Len(carried) : carried[i - 1].sequence < carried[i].sequence
  <2>1. ASSUME NEW i \in 2 .. l PROVE carried[i - 1].sequence < carried[i].sequence
    <3>1. PICK j \in 1 .. l : j = i - 1 /\ j < i /\ i \in 1 .. l
      <4>1. i - 1 \in 1 .. l /\ i - 1 < i /\ i \in 1 .. l
        BY ONLY i \in 2 .. l, l \in Nat
      <4>2. QED
        BY ONLY <4>1, Zenon
    <3>2. \E k, m \in 1 .. n : k < m /\ carried[j] = recorded[k] /\ carried[i] = recorded[m]
      <4>1. Len(carried) = l /\ Len(recorded) = n
        BY ONLY <1>3, <1>5, <1>6
      <4>2. j \in 1 .. Len(carried) /\ i \in 1 .. Len(carried) /\ j < i
        BY ONLY <3>1, <4>1
      <4>3. \E k, m \in 1 .. Len(recorded) :
              k < m /\ carried[j] = recorded[k] /\ carried[i] = recorded[m]
        BY ONLY <1>8, <4>2, Zenon DEF Keeps
      <4>4. QED
        BY ONLY <4>1, <4>3, Zenon
    <3>3. \A k, m \in 1 .. n : k < m => recorded[k].sequence < recorded[m].sequence
      BY ONLY <1>3, <1>10, Zenon DEF Rising
    <3>4. QED
      BY ONLY <3>1, <3>2, <3>3, Zenon
  <2>2. QED
    BY ONLY <1>6, <2>1
<1>13. e # 0 => Len(carried) < messagesRead
  BY ONLY <1>5, <1>6, <1>8, l \in Nat, e \in Nat, n \in Nat
<1>14. messagesRead <= requestedMessages
       /\ (generator = "sent" => sendErrors = 0 /\
             messagesRead = IF requestedMessages < Len(file.payloads) THEN requestedMessages
                            ELSE Len(file.payloads))
  <2>1. generator = "sent" => generator \in {"send", "sent"}
    OBVIOUS
  <2>2. QED
    BY ONLY <2>1, GeneratorInv, Zenon DEF GeneratorInv
<1>15. FlattenSeq([i \in DOMAIN Packed |-> MessagesOf(Packed[i])]) = carried
  BY ONLY <1>2, <1>4, Zenon DEF Carried, MessagesIn
<1>16. NumberedFrom(1, SubSeq(file.payloads, 1, messagesRead)) = recorded
  BY ONLY <1>1, <1>3, Zenon DEF Recorded
<1>17. IF sendErrors = 0 THEN carried = recorded
       ELSE /\ ToSet(carried) \subseteq ToSet(recorded) /\ Len(carried) < messagesRead
            /\ \A i \in 2 .. Len(carried) : carried[i - 1].sequence < carried[i].sequence
  BY ONLY <1>7, <1>8, <1>11, <1>12, <1>13, Zenon
<1>18. QED
  BY ONLY <1>9, <1>14, <1>15, <1>16, <1>17, Zenon DEF DatagramsCarryTheFile

(* The MoldUDP64 load generator packs and sends the recorded session: every *)
(* datagram is one the feed handler accepts, and what it finds in them is   *)
(* the file from its beginning, under consecutive numbers, but for what     *)
(* send() refused, which is counted.                                        *)
THEOREM LoadGenCarriesTheFile == SessionSpec => []DatagramsCarryTheFile
<1>1. SessionInit => GeneratorInv
  BY GeneratorInvInit
<1>2. GeneratorInv /\ [SessionNext]_sessionVars => GeneratorInv'
  BY GeneratorInvStep
<1>3. GeneratorInv => DatagramsCarryTheFile
  BY GeneratorInvImplies
<1>4. QED
  BY <1>1, <1>2, <1>3, PTL DEF SessionSpec
-----------------------------------------------------------------------------
(* The replay *)

Fields == [first : Nat, last : Nat]
FieldsFrom(fs, from, to) ==
  /\ fs \in Seq(Fields)
  /\ Len(fs) >= 1 /\ fs[1].first = from /\ fs[Len(fs)].last = to
  /\ \A i \in 1 .. Len(fs) : from <= fs[i].first /\ fs[i].first <= fs[i].last /\ fs[i].last <= to
  /\ \A i \in 1 .. Len(fs) - 1 : fs[i + 1].first = fs[i].last + 1

(* Fields that begin where others end go on from them. *)
LEMMA FieldsGoOn ==
  ASSUME NEW fs, NEW gs, NEW a \in Nat, NEW b \in Nat, NEW c \in Nat,
         FieldsFrom(fs, a, b), FieldsFrom(gs, b + 1, c)
  PROVE  FieldsFrom(fs \o gs, a, c)
<1>1. fs \in Seq(Fields) /\ gs \in Seq(Fields)
  BY DEF FieldsFrom
<1>2. PICK m \in Nat : m = Len(fs)
  BY <1>1
<1>3. PICK n \in Nat : n = Len(gs)
  BY <1>1
<1>4. PICK all \in Seq(Fields) : all = fs \o gs
  BY <1>1, ConcatProperties
<1>5. /\ Len(all) = m + n
      /\ \A i \in 1 .. m + n : all[i] = IF i <= m THEN fs[i] ELSE gs[i - m]
  BY <1>1, <1>2, <1>3, <1>4, ConcatProperties
<1>6. /\ m >= 1 /\ fs[1].first = a /\ fs[m].last = b
      /\ \A i \in 1 .. m : a <= fs[i].first /\ fs[i].first <= fs[i].last /\ fs[i].last <= b
      /\ \A i \in 1 .. m - 1 : fs[i + 1].first = fs[i].last + 1
  BY <1>2 DEF FieldsFrom
<1>7. /\ n >= 1 /\ gs[1].first = b + 1 /\ gs[n].last = c
      /\ \A i \in 1 .. n : b + 1 <= gs[i].first /\ gs[i].first <= gs[i].last /\ gs[i].last <= c
      /\ \A i \in 1 .. n - 1 : gs[i + 1].first = gs[i].last + 1
  BY <1>3 DEF FieldsFrom
<1>8. \A i \in 1 .. m + n : all[i] \in Fields
  BY <1>4, <1>5
<1>9. /\ \A i \in 1 .. m : fs[i].first \in Nat /\ fs[i].last \in Nat
      /\ \A i \in 1 .. n : gs[i].first \in Nat /\ gs[i].last \in Nat
  <2>1. /\ \A i \in 1 .. m : fs[i] \in Fields
        /\ \A i \in 1 .. n : gs[i] \in Fields
    BY ONLY <1>1, <1>2, <1>3, m \in Nat, n \in Nat
  <2>2. QED
    BY ONLY <2>1 DEF Fields
<1>10. a <= b /\ b < c
  <2>1. 1 \in 1 .. m /\ 1 \in 1 .. n
    BY ONLY <1>6, <1>7, m \in Nat, n \in Nat
  <2>2. PICK x \in Nat, y \in Nat : a = x /\ x <= y /\ y <= b
    BY ONLY <1>6, <1>9, <2>1
  <2>3. PICK z \in Nat, w \in Nat : b + 1 = z /\ z <= w /\ w <= c
    BY ONLY <1>7, <1>9, <2>1
  <2>4. QED
    BY ONLY <2>2, <2>3, a \in Nat, b \in Nat, c \in Nat
<1>11. ASSUME NEW i \in 1 .. m + n
       PROVE  a <= all[i].first /\ all[i].first <= all[i].last /\ all[i].last <= c
  <2>1. CASE i <= m
    <3>1. i \in 1 .. m /\ all[i] = fs[i]
      BY ONLY <1>5, <2>1, i \in 1 .. m + n, m \in Nat, n \in Nat
    <3>2. PICK x \in Nat, y \in Nat : x = all[i].first /\ y = all[i].last /\ a <= x /\ x <= y /\ y <= b
      BY ONLY <1>6, <1>9, <3>1
    <3>3. QED
      BY ONLY <1>10, <3>2, a \in Nat, b \in Nat, c \in Nat
  <2>2. CASE i > m
    <3>1. i - m \in 1 .. n /\ all[i] = gs[i - m]
      BY ONLY <1>5, <2>2, i \in 1 .. m + n, m \in Nat, n \in Nat
    <3>2. PICK x \in Nat, y \in Nat :
            x = all[i].first /\ y = all[i].last /\ b + 1 <= x /\ x <= y /\ y <= c
      BY ONLY <1>7, <1>9, <3>1
    <3>3. QED
      BY ONLY <1>10, <3>2, a \in Nat, b \in Nat, c \in Nat
  <2>3. QED
    BY ONLY <2>1, <2>2, i \in 1 .. m + n, m \in Nat, n \in Nat
<1>12. ASSUME NEW i \in 1 .. (m + n) - 1
       PROVE  all[i + 1].first = all[i].last + 1
  <2>0. i \in 1 .. m + n /\ i + 1 \in 1 .. m + n
    BY ONLY i \in 1 .. (m + n) - 1, m \in Nat, n \in Nat
  <2>1. CASE i < m
    <3>1. i \in 1 .. m - 1 /\ i <= m /\ i + 1 <= m
      BY ONLY <2>0, <2>1, m \in Nat, n \in Nat
    <3>2. QED
      BY ONLY <1>5, <1>6, <2>0, <3>1
  <2>2. CASE i = m
    <3>1. all[i] = fs[m] /\ all[i + 1] = gs[1]
      <4>1. i <= m /\ ~(i + 1 <= m) /\ (i + 1) - m = 1
        BY ONLY <2>2, m \in Nat
      <4>2. QED
        BY ONLY <1>5, <2>0, <2>2, <4>1
    <3>2. QED
      BY ONLY <1>6, <1>7, <3>1
  <2>3. CASE i > m
    <3>1. i - m \in 1 .. n - 1 /\ ~(i <= m) /\ ~(i + 1 <= m) /\ (i + 1) - m = (i - m) + 1
      BY ONLY <2>0, <2>3, m \in Nat, n \in Nat
    <3>2. all[i] = gs[i - m] /\ all[i + 1] = gs[(i - m) + 1]
      BY ONLY <1>5, <2>0, <3>1
    <3>3. QED
      BY ONLY <1>7, <3>1, <3>2
  <2>4. QED
    BY ONLY <2>0, <2>1, <2>2, <2>3, m \in Nat, n \in Nat
<1>13. all[1].first = a /\ all[m + n].last = c /\ m + n >= 1
  <2>1. 1 \in 1 .. m + n /\ m + n \in 1 .. m + n /\ 1 <= m /\ ~(m + n <= m) /\ (m + n) - m = n
        /\ m + n >= 1
    BY ONLY <1>6, <1>7, m \in Nat, n \in Nat
  <2>2. all[1] = fs[1] /\ all[m + n] = gs[n]
    BY ONLY <1>5, <2>1
  <2>3. QED
    BY ONLY <1>6, <1>7, <2>1, <2>2
<1>14. FieldsFrom(all, a, c)
  BY ONLY all \in Seq(Fields), <1>5, <1>11, <1>12, <1>13 DEF FieldsFrom
<1>15. QED
  BY ONLY <1>4, <1>14

(* The size checked is where the last field ends. *)
Lays(layout) ==
  /\ layout.type \in Nat /\ layout.size \in Nat /\ layout.size >= 2
  /\ FieldsFrom(layout.fields, 2, layout.size)

(* The fields every message begins with. *)
LEMMA CommonIs == FieldsFrom(Common, 2, 11)
BY SMT DEF Common, FieldsFrom, Fields, Field, U16, U32, U48, U64, Char, Stock

(* A layout whose own fields begin behind those lays a whole message. *)
LEMMA LayoutIs ==
  ASSUME NEW type \in Nat, NEW size \in Nat, size >= 2, NEW fs, FieldsFrom(fs, 12, size)
  PROVE  Lays(Layout(type, size, fs))
<1>1. FieldsFrom(Common \o fs, 2, size)
  BY CommonIs, FieldsGoOn
<1>2. QED
  BY <1>1 DEF Layout, Lays

(* So does every layout of the decoder: its fields leave no byte out, and  *)
(* read none twice.                                                        *)
LEMMA LayoutsLay == \A layout \in Layouts : Lays(layout)
<1>1. Lays(AddOrder)
  <2>1. FieldsFrom(<<U64("orderReferenceNumber", 11), Char("buySellIndicator", 19),
        U32("shares", 20), Stock(24), U32("price", 32)>>, 12, 36)
    BY SMT DEF FieldsFrom, Fields, Field, U16, U32, U48, U64, Char, Stock
  <2>2. QED
    BY <2>1, LayoutIs DEF AddOrder
<1>2. Lays(SystemEvent)
  <2>1. FieldsFrom(<<Char("eventCode", 11)>>, 12, 12)
    BY SMT DEF FieldsFrom, Fields, Field, U16, U32, U48, U64, Char, Stock
  <2>2. QED
    BY <2>1, LayoutIs DEF SystemEvent
<1>3. Lays(StockDirectory)
  <2>1. FieldsFrom(<<Stock(11), Char("marketCategory", 19), Char("financialStatusIndicator",
        20), U32("roundLotSize", 21), Char("roundLotsOnly", 25), Char("issueClassification",
        26), Field("issueSubType", 27, 2), Char("authenticity", 29),
        Char("shortSaleThresholdIndicator", 30), Char("ipoFlag", 31),
        Char("luldReferencePriceTier", 32), Char("etpFlag", 33), U32("etpLeverageFactor",
        34), Char("inverseIndicator", 38)>>, 12, 39)
    BY SMT DEF FieldsFrom, Fields, Field, U16, U32, U48, U64, Char, Stock
  <2>2. QED
    BY <2>1, LayoutIs DEF StockDirectory
<1>4. Lays(OrderExecuted)
  <2>1. FieldsFrom(<<U64("orderReferenceNumber", 11), U32("executedShares", 19),
        U64("matchNumber", 23)>>, 12, 31)
    BY SMT DEF FieldsFrom, Fields, Field, U16, U32, U48, U64, Char, Stock
  <2>2. QED
    BY <2>1, LayoutIs DEF OrderExecuted
<1>5. Lays(OrderExecutedWithPrice)
  <2>1. FieldsFrom(<<U64("orderReferenceNumber", 11), U32("executedShares", 19),
        U64("matchNumber", 23), Char("printable", 31), U32("executionPrice", 32)>>, 12, 36)
    BY SMT DEF FieldsFrom, Fields, Field, U16, U32, U48, U64, Char, Stock
  <2>2. QED
    BY <2>1, LayoutIs DEF OrderExecutedWithPrice
<1>6. Lays(OrderCancel)
  <2>1. FieldsFrom(<<U64("orderReferenceNumber", 11), U32("cancelledShares", 19)>>, 12, 23)
    BY SMT DEF FieldsFrom, Fields, Field, U16, U32, U48, U64, Char, Stock
  <2>2. QED
    BY <2>1, LayoutIs DEF OrderCancel
<1>7. Lays(OrderDelete)
  <2>1. FieldsFrom(<<U64("orderReferenceNumber", 11)>>, 12, 19)
    BY SMT DEF FieldsFrom, Fields, Field, U16, U32, U48, U64, Char, Stock
  <2>2. QED
    BY <2>1, LayoutIs DEF OrderDelete
<1>8. Lays(OrderReplace)
  <2>1. FieldsFrom(<<U64("originalOrderReferenceNumber", 11), U64("newOrderReferenceNumber",
        19), U32("shares", 27), U32("price", 31)>>, 12, 35)
    BY SMT DEF FieldsFrom, Fields, Field, U16, U32, U48, U64, Char, Stock
  <2>2. QED
    BY <2>1, LayoutIs DEF OrderReplace
<1>9. Lays(AddOrderWithMpid)
  <2>1. FieldsFrom(<<U64("orderReferenceNumber", 11), Char("buySellIndicator", 19),
        U32("shares", 20), Stock(24), U32("price", 32), Field("attribution", 36, 4)>>, 12,
        40)
    BY SMT DEF FieldsFrom, Fields, Field, U16, U32, U48, U64, Char, Stock
  <2>2. QED
    BY <2>1, LayoutIs DEF AddOrderWithMpid
<1>10. Lays(Trade)
  <2>1. FieldsFrom(<<U64("orderReferenceNumber", 11), Char("buySellIndicator", 19),
        U32("shares", 20), Stock(24), U32("price", 32), U64("matchNumber", 36)>>, 12, 44)
    BY SMT DEF FieldsFrom, Fields, Field, U16, U32, U48, U64, Char, Stock
  <2>2. QED
    BY <2>1, LayoutIs DEF Trade
<1>11. Lays(CrossTrade)
  <2>1. FieldsFrom(<<U64("shares", 11), Stock(19), U32("crossPrice", 27), U64("matchNumber",
        31), Char("crossType", 39)>>, 12, 40)
    BY SMT DEF FieldsFrom, Fields, Field, U16, U32, U48, U64, Char, Stock
  <2>2. QED
    BY <2>1, LayoutIs DEF CrossTrade
<1>12. Lays(BrokenTrade)
  <2>1. FieldsFrom(<<U64("matchNumber", 11)>>, 12, 19)
    BY SMT DEF FieldsFrom, Fields, Field, U16, U32, U48, U64, Char, Stock
  <2>2. QED
    BY <2>1, LayoutIs DEF BrokenTrade
<1>13. Lays(StockTradingAction)
  <2>1. FieldsFrom(<<Stock(11), Char("tradingState", 19), Char("reserved", 20),
        Field("reason", 21, 4)>>, 12, 25)
    BY SMT DEF FieldsFrom, Fields, Field, U16, U32, U48, U64, Char, Stock
  <2>2. QED
    BY <2>1, LayoutIs DEF StockTradingAction
<1>14. Lays(MarketParticipantPosition)
  <2>1. FieldsFrom(<<Field("mpid", 11, 4), Stock(15), Char("primaryMarketMaker", 23),
        Char("marketMakerMode", 24), Char("marketParticipantState", 25)>>, 12, 26)
    BY SMT DEF FieldsFrom, Fields, Field, U16, U32, U48, U64, Char, Stock
  <2>2. QED
    BY <2>1, LayoutIs DEF MarketParticipantPosition
<1>15. Lays(RegShoRestriction)
  <2>1. FieldsFrom(<<Stock(11), Char("regShoAction", 19)>>, 12, 20)
    BY SMT DEF FieldsFrom, Fields, Field, U16, U32, U48, U64, Char, Stock
  <2>2. QED
    BY <2>1, LayoutIs DEF RegShoRestriction
<1>16. Lays(MwcbDeclineLevel)
  <2>1. FieldsFrom(<<U64("level1", 11), U64("level2", 19), U64("level3", 27)>>, 12, 35)
    BY SMT DEF FieldsFrom, Fields, Field, U16, U32, U48, U64, Char, Stock
  <2>2. QED
    BY <2>1, LayoutIs DEF MwcbDeclineLevel
<1>17. Lays(MwcbStatus)
  <2>1. FieldsFrom(<<Char("breachedLevel", 11)>>, 12, 12)
    BY SMT DEF FieldsFrom, Fields, Field, U16, U32, U48, U64, Char, Stock
  <2>2. QED
    BY <2>1, LayoutIs DEF MwcbStatus
<1>18. Lays(Noii)
  <2>1. FieldsFrom(<<U64("pairedShares", 11), U64("imbalanceShares", 19),
        Char("imbalanceDirection", 27), Stock(28), U32("farPrice", 36), U32("nearPrice",
        40), U32("currentReferencePrice", 44), Char("crossType", 48),
        Char("priceVariationIndicator", 49)>>, 12, 50)
    BY SMT DEF FieldsFrom, Fields, Field, U16, U32, U48, U64, Char, Stock
  <2>2. QED
    BY <2>1, LayoutIs DEF Noii
<1>19. Lays(LuldAuctionCollar)
  <2>1. FieldsFrom(<<Stock(11), U32("auctionCollarReferencePrice", 19),
        U32("upperAuctionCollarPrice", 23), U32("lowerAuctionCollarPrice", 27),
        U32("auctionCollarExtension", 31)>>, 12, 35)
    BY SMT DEF FieldsFrom, Fields, Field, U16, U32, U48, U64, Char, Stock
  <2>2. QED
    BY <2>1, LayoutIs DEF LuldAuctionCollar
<1>20. QED
  BY <1>1, <1>2, <1>3, <1>4, <1>5, <1>6, <1>7, <1>8, <1>9, <1>10, <1>11, <1>12, <1>13, <1>14, <1>15, <1>16, <1>17, <1>18, <1>19 DEF Layouts

(* The bytes of fields one behind the other, put together again. *)
Cut(data, fs) == [i \in DOMAIN fs |-> SubSeq(data, fs[i].first, fs[i].last)]

(* Fields from one byte to another, joined, are the bytes between. *)
LEMMA CutsJoin ==
  ASSUME NEW data \in Seq(Nat), NEW fs, NEW from \in Nat \ {0}, NEW to, to = Len(data),
         FieldsFrom(fs, from, to)
  PROVE  /\ Cut(data, fs) \in Seq(Seq(Nat))
         /\ FlattenSeq(Cut(data, fs)) = SubSeq(data, from, to)
<1>1. PICK n \in Nat : n = Len(fs)
  BY DEF FieldsFrom
<1>2. PICK l \in Nat : l = to /\ l = Len(data) /\ \A i \in 1 .. l : data[i] \in Nat
  OBVIOUS
<1>3. /\ n >= 1 /\ fs[1].first = from /\ fs[n].last = l
      /\ \A i \in 1 .. n : from <= fs[i].first /\ fs[i].first <= fs[i].last /\ fs[i].last <= l
      /\ \A i \in 1 .. n - 1 : fs[i + 1].first = fs[i].last + 1
      /\ fs \in Seq(Fields)
  BY <1>1, <1>2 DEF FieldsFrom
<1>4. \A i \in 1 .. n : fs[i].first \in Nat /\ fs[i].last \in Nat
  <2>1. \A i \in 1 .. n : fs[i] \in Fields
    BY <1>1, <1>3
  <2>2. QED
    BY ONLY <2>1 DEF Fields
<1>5. \A a \in Nat, b \in Nat : a >= 1 /\ b <= l => SubSeq(data, a, b) \in Seq(Nat)
  <2>1. TAKE a \in Nat, b \in Nat
  <2>2. HAVE a >= 1 /\ b <= l
  <2>3. a \in Int /\ b \in Int /\ \A i \in a .. b : data[i] \in Nat
    BY ONLY <1>2, <2>2, a \in Nat, b \in Nat, l \in Nat
  <2>4. QED
    BY ONLY <2>3, SubSeqProperties
<1>6. PICK cut : cut = Cut(data, fs)
  OBVIOUS
<1>7. cut = [i \in 1 .. n |-> SubSeq(data, fs[i].first, fs[i].last)]
  BY <1>1, <1>3, <1>6 DEF Cut
<1>8. \A i \in 1 .. n : SubSeq(data, fs[i].first, fs[i].last) \in Seq(Nat)
  <2>1. TAKE i \in 1 .. n
  <2>2. PICK x \in Nat, y \in Nat : x = fs[i].first /\ y = fs[i].last /\ from <= x /\ y <= l
    BY ONLY <1>3, <1>4, i \in 1 .. n
  <2>3. x >= 1
    BY ONLY <2>2, from \in Nat \ {0}
  <2>4. SubSeq(data, x, y) \in Seq(Nat)
    BY ONLY <1>5, <2>2, <2>3, Zenon
  <2>5. QED
    BY ONLY <2>2, <2>4
<1>9. cut \in Seq(Seq(Nat)) /\ Len(cut) = n
      /\ \A i \in 1 .. n : cut[i] = SubSeq(data, fs[i].first, fs[i].last)
  <2> DEFINE S(i) == SubSeq(data, fs[i].first, fs[i].last)
  <2>1. cut = [i \in 1 .. n |-> S(i)] /\ \A i \in 1 .. n : S(i) \in Seq(Nat)
    BY ONLY <1>7, <1>8
  <2> HIDE DEF S
  <2>2. cut \in Seq(Seq(Nat)) /\ Len(cut) = n /\ \A i \in 1 .. n : cut[i] = S(i)
    BY ONLY <2>1, n \in Nat
  <2>3. QED
    BY ONLY <2>2 DEF S
<1> DEFINE end(i) == IF i = 0 THEN from - 1 ELSE fs[i].last
           f == [i \in 0 .. n |-> SubSeq(data, from, end(i))]
<1>10. \A i \in 0 .. n : end(i) \in Nat /\ end(i) <= l
  <2>1. from - 1 \in Nat /\ from <= l
    <3>1. 1 \in 1 .. n
      BY ONLY <1>3, n \in Nat
    <3>2. PICK x \in Nat, y \in Nat : from <= x /\ x <= y /\ y <= l
      BY ONLY <1>3, <1>4, <3>1
    <3>3. QED
      BY ONLY <3>2, from \in Nat \ {0}, l \in Nat
  <2>2. QED
    BY ONLY <1>3, <1>4, <2>1, n \in Nat, from \in Nat \ {0}, l \in Nat
<1>11. \A i \in 1 .. n : /\ fs[i].first = end(i - 1) + 1
                         /\ end(i - 1) <= end(i) /\ from - 1 <= end(i - 1) /\ end(i) = fs[i].last
  <2>1. TAKE i \in 1 .. n
  <2>2. end(i) = fs[i].last
    BY ONLY i \in 1 .. n, n \in Nat
  <2>3. fs[i].first = end(i - 1) + 1
    <3>1. CASE i = 1
      BY ONLY <1>3, <3>1, from \in Nat \ {0}
    <3>2. CASE i # 1
      <4>1. i - 1 \in 1 .. n - 1 /\ (i - 1) + 1 = i /\ i - 1 # 0
        BY ONLY <3>2, i \in 1 .. n, n \in Nat
      <4>2. QED
        BY ONLY <1>3, <4>1
    <3>3. QED
      BY ONLY <3>1, <3>2
  <2> HIDE DEF end
  <2>4. i - 1 \in 0 .. n
    BY ONLY i \in 1 .. n, n \in Nat
  <2>5. PICK x \in Nat, y \in Nat, z \in Nat :
          /\ x = fs[i].first /\ y = end(i - 1) /\ z = fs[i].last
          /\ from <= x /\ x <= z
    BY ONLY <1>3, <1>4, <1>10, <2>4, i \in 1 .. n
  <2>6. QED
    BY ONLY <2>2, <2>3, <2>5, from \in Nat \ {0}
<1> HIDE DEF end
<1>12. f \in [0 .. n -> Seq(Nat)]
  <2>1. \A i \in 0 .. n : SubSeq(data, from, end(i)) \in Seq(Nat)
    <3>1. TAKE i \in 0 .. n
    <3>2. PICK m \in Nat : m = end(i) /\ m <= l
      BY ONLY <1>10, i \in 0 .. n
    <3>3. from \in Nat /\ from >= 1
      BY ONLY from \in Nat \ {0}
    <3>4. SubSeq(data, from, m) \in Seq(Nat)
      BY ONLY <1>5, <3>2, <3>3, Zenon
    <3>5. QED
      BY ONLY <3>2, <3>4
  <2>2. QED
    BY ONLY <2>1
<1>13. f[0] = <<>>
  <2>1. end(0) = from - 1 /\ from \in Int /\ from - 1 \in Int /\ from - 1 < from
    BY from \in Nat \ {0} DEF end
  <2>2. SubSeq(data, from, from - 1) = <<>>
    BY ONLY <2>1, SubSeqEmpty
  <2>3. 0 \in 0 .. n
    OBVIOUS
  <2>4. QED
    BY ONLY <2>1, <2>2, <2>3
<1>14. \A i \in 1 .. n : f[i] = f[i - 1] \o cut[i]
  <2>1. TAKE i \in 1 .. n
  <2>2. i - 1 \in 0 .. n /\ i \in 0 .. n
    BY ONLY i \in 1 .. n, n \in Nat
  <2>3. PICK k \in Nat : k = end(i - 1)
    BY ONLY <1>10, <2>2
  <2>4. PICK m \in Nat : m = end(i)
    BY ONLY <1>10, <2>2
  <2>5. k <= m /\ m <= l /\ from - 1 <= k /\ fs[i].first = k + 1 /\ fs[i].last = m
    BY ONLY <1>10, <1>11, <2>2, <2>3, <2>4, i \in 1 .. n
  <2>6. from \in 1 .. Len(data) + 1 /\ k \in from - 1 .. Len(data) /\ m \in k .. Len(data)
    BY ONLY <1>2, <2>5, from \in Nat \ {0}, k \in Nat, m \in Nat, l \in Nat
  <2>7. SubSeq(data, from, k) \o SubSeq(data, k + 1, m) = SubSeq(data, from, m)
    BY ONLY <2>6, data \in Seq(Nat), ConcatAdjacentSubSeq
  <2>8. f[i] = SubSeq(data, from, m) /\ f[i - 1] = SubSeq(data, from, k)
    BY ONLY <2>2, <2>3, <2>4
  <2>9. cut[i] = SubSeq(data, k + 1, m)
    BY ONLY <1>9, <2>5, i \in 1 .. n
  <2> HIDE DEF f
  <2>10. QED
    BY ONLY <2>7, <2>8, <2>9
<1>15. f[n] = SubSeq(data, from, l)
  <2>1. n \in 0 .. n /\ end(n) = l
    BY ONLY <1>3, n \in Nat DEF end
  <2>2. QED
    BY ONLY <2>1
<1> HIDE DEF f
<1>16. Flattened(f, cut, Nat)
  BY ONLY <1>9, <1>12, <1>13, <1>14 DEF Flattened
<1>17. FlattenSeq(cut) = f[n]
  BY ONLY <1>9, <1>16, FlattenIs, ByteBaseAssumption
<1>18. QED
  BY ONLY <1>2, <1>6, <1>9, <1>15, <1>17

(* A message decoded has the bytes of its payload. *)
Decodings == [type : Nat, fields : Seq(Seq(Nat))]
Says(message, data) ==
  /\ message \in Decodings /\ Payload(message) = data
  /\ message.type = data[1] /\ data[1] \in Types /\ Supported(data[1])

(* What a layout decodes has every byte of the payload. *)
LEMMA DecodeKeeps ==
  ASSUME NEW data \in Seq(Nat), NEW layout \in Layouts, Decodes(layout, data)
  PROVE  Says(Decode(layout, data), data)
<1>1. Lays(layout)
  BY LayoutsLay, Zenon
<1>2. PICK t \in Nat, n \in Nat, fs \in {layout.fields} :
        /\ t = layout.type /\ n = layout.size /\ fs = layout.fields
        /\ n >= 2 /\ FieldsFrom(fs, 2, n)
  BY <1>1 DEF Lays
<1>3. Len(data) = n /\ data[1] = t
  BY <1>2 DEF Decodes
<1>4. Cut(data, fs) \in Seq(Seq(Nat)) /\ FlattenSeq(Cut(data, fs)) = SubSeq(data, 2, n)
  <2>1. 2 \in Nat \ {0} /\ n = Len(data)
    BY ONLY <1>3
  <2>2. QED
    BY ONLY <1>2, <2>1, data \in Seq(Nat), CutsJoin
<1>5. PICK cut \in Seq(Seq(Nat)) : cut = Cut(data, fs)
  BY ONLY <1>4, Zenon
<1>6. PICK message : message = [type |-> t, fields |-> cut]
  OBVIOUS
<1>7. Decode(layout, data) = message
  BY ONLY <1>2, <1>5, <1>6, Zenon DEF Decode, Cut
<1>8. message \in Decodings /\ message.type = t /\ message.fields = cut
  BY ONLY <1>2, <1>5, <1>6 DEF Decodings
<1>9. <<t>> \o SubSeq(data, 2, n) = data
  <2>1. 1 \in 1 .. Len(data) /\ n \in 1 .. Len(data) /\ 1 + 1 = 2
    BY ONLY <1>2, <1>3, n \in Nat
  <2>2. SubSeq(data, 1, n) = <<data[1]>> \o SubSeq(data, 1 + 1, n)
    BY ONLY <2>1, data \in Seq(Nat), SubSeqRecursiveFirst
  <2>3. SubSeq(data, 1, Len(data)) = data
    BY ONLY data \in Seq(Nat), SubSeqFull
  <2>4. QED
    BY ONLY <1>3, <2>1, <2>2, <2>3, Zenon
<1>10. Payload(message) = data
  BY ONLY <1>4, <1>5, <1>8, <1>9, Zenon DEF Payload
<1>11. data[1] \in Types /\ Supported(data[1])
  BY ONLY <1>2, <1>3, layout \in Layouts, Zenon DEF Types, Supported
<1>12. QED
  BY ONLY <1>3, <1>7, <1>8, <1>10, <1>11, Zenon DEF Says

(* And what is dispatched: whatever layout it was. *)
LEMMA DispatchKeeps ==
  ASSUME NEW data \in Seq(Nat), Dispatches(data)
  PROVE  Says(Dispatch(data), data)
<1>1. PICK layout : layout = CHOOSE l \in Layouts : Decodes(l, data)
  OBVIOUS
<1>2. \E l \in Layouts : Decodes(l, data)
  BY Zenon DEF Dispatches
<1>3. layout \in Layouts /\ Decodes(layout, data)
  BY ONLY <1>1, <1>2, Zenon
<1>4. Dispatch(data) = Decode(layout, data)
  BY ONLY <1>1, Zenon DEF Dispatch
<1>5. QED
  BY ONLY <1>3, <1>4, data \in Seq(Nat), DecodeKeeps, ByteBaseAssumption

(* The payloads that decode, one more looked at. *)
Piece(p) == IF Dispatches(p) THEN <<p>> ELSE <<>>
Pieces(ps) == [n \in DOMAIN ps |-> Piece(ps[n])]

(* A sequence and the one with e behind it. *)
PutBehind(s, e, t, S) ==
  /\ t \in Seq(S) /\ t = Append(s, e) /\ Len(t) = Len(s) + 1 /\ DOMAIN t = 1 .. Len(s) + 1
  /\ t[Len(s) + 1] = e /\ \A i \in 1 .. Len(s) : t[i] = s[i]

(* Append() puts one behind. *)
LEMMA AppendIs ==
  ASSUME NEW S, NEW s \in Seq(S), NEW e \in S
  PROVE  PutBehind(s, e, Append(s, e), S)
<1>1. PICK n \in Nat : n = Len(s)
  OBVIOUS
<1>2. /\ Append(s, e) \in Seq(S) /\ Len(Append(s, e)) = n + 1
      /\ DOMAIN Append(s, e) = 1 .. n + 1
      /\ Append(s, e)[n + 1] = e /\ \A i \in 1 .. n : Append(s, e)[i] = s[i]
  BY <1>1
<1>3. QED
  BY ONLY <1>1, <1>2, Zenon DEF PutBehind

(* A payload gives one that decodes, or none. *)
LEMMA PieceType ==
  ASSUME NEW p \in Seq(Nat)
  PROVE  Piece(p) \in Seq(Seq(Nat))
<1>1. <<p>> \in Seq(Seq(Nat)) /\ <<>> \in Seq(Seq(Nat))
  OBVIOUS
<1>2. QED
  BY ONLY <1>1, Zenon DEF Piece

(* What the payloads give, one by one. *)
LEMMA PiecesAre ==
  ASSUME NEW ps \in Seq(Seq(Nat))
  PROVE  /\ Pieces(ps) \in Seq(Seq(Seq(Nat))) /\ Len(Pieces(ps)) = Len(ps)
         /\ \A i \in 1 .. Len(ps) : Pieces(ps)[i] = Piece(ps[i])
         /\ ThatDecode(ps) = FlattenSeq(Pieces(ps))
<1>1. PICK n \in Nat : n = Len(ps) /\ DOMAIN ps = 1 .. n /\ \A i \in 1 .. n : ps[i] \in Seq(Nat)
  OBVIOUS
<1>2. \A i \in 1 .. n : Piece(ps[i]) \in Seq(Seq(Nat))
  BY ONLY <1>1, PieceType, ByteBaseAssumption, Zenon
<1>3. PICK pieces : pieces = Pieces(ps)
  OBVIOUS
<1>4. pieces = [i \in 1 .. n |-> Piece(ps[i])]
  BY ONLY <1>1, <1>3, Zenon DEF Pieces
<1>5. /\ pieces \in Seq(Seq(Seq(Nat))) /\ Len(pieces) = n
      /\ \A i \in 1 .. n : pieces[i] = Piece(ps[i])
  <2> DEFINE S(i) == Piece(ps[i])
  <2> HIDE DEF S
  <2>1. pieces = [i \in 1 .. n |-> S(i)] /\ \A i \in 1 .. n : S(i) \in Seq(Seq(Nat))
    BY ONLY <1>2, <1>4 DEF S
  <2>2. /\ pieces \in Seq(Seq(Seq(Nat))) /\ Len(pieces) = n
        /\ \A i \in 1 .. n : pieces[i] = S(i)
    BY ONLY <2>1, n \in Nat
  <2>3. QED
    BY ONLY <2>2 DEF S
<1>6. ThatDecode(ps) = FlattenSeq(Pieces(ps))
  BY Zenon DEF ThatDecode, Pieces, Piece
<1>7. QED
  BY ONLY <1>1, <1>3, <1>5, <1>6, Zenon

(* A payload more is one more that decodes, or none. *)
LEMMA ThatDecodeAppend ==
  ASSUME NEW ps \in Seq(Seq(Nat)), NEW p \in Seq(Nat)
  PROVE  /\ ThatDecode(ps) \in Seq(Seq(Nat))
         /\ Dispatches(p) => ThatDecode(Append(ps, p)) = Append(ThatDecode(ps), p)
         /\ ~Dispatches(p) => ThatDecode(Append(ps, p)) = ThatDecode(ps)
<1>1. PutBehind(ps, p, Append(ps, p), Seq(Nat))
  BY AppendIs
<1>2. PICK n \in Nat : n = Len(ps)
  OBVIOUS
<1>3. PICK all \in Seq(Seq(Nat)) :
        /\ all = Append(ps, p) /\ Len(all) = n + 1
        /\ all[n + 1] = p /\ \A i \in 1 .. n : all[i] = ps[i]
  BY ONLY <1>1, <1>2, Zenon DEF PutBehind
<1>4. PICK xs \in Seq(Seq(Seq(Nat))) :
        /\ xs = Pieces(ps) /\ Len(xs) = n /\ \A i \in 1 .. n : xs[i] = Piece(ps[i])
        /\ ThatDecode(ps) = FlattenSeq(xs)
  BY ONLY <1>2, ps \in Seq(Seq(Nat)), PiecesAre, ByteBaseAssumption, Zenon
<1>5. PICK ys \in Seq(Seq(Seq(Nat))) :
        /\ ys = Pieces(all) /\ Len(ys) = n + 1 /\ \A i \in 1 .. n + 1 : ys[i] = Piece(all[i])
        /\ ThatDecode(all) = FlattenSeq(ys)
  BY ONLY <1>3, all \in Seq(Seq(Nat)), PiecesAre, ByteBaseAssumption, Zenon
<1>6. PICK x \in Seq(Seq(Nat)) : x = Piece(p)
  BY ONLY PieceType, ByteBaseAssumption, p \in Seq(Nat), Zenon
<1>7. PICK one \in Seq(Seq(Seq(Nat))) : one = <<x>> /\ Len(one) = 1 /\ one[1] = x
  <2>1. <<x>> \in Seq(Seq(Seq(Nat))) /\ Len(<<x>>) = 1 /\ <<x>>[1] = x
    BY ONLY x \in Seq(Seq(Nat)), Single, ByteBaseAssumption
  <2>2. QED
    BY ONLY <2>1, Zenon
<1>8. PICK zs \in Seq(Seq(Seq(Nat))) :
        /\ zs = xs \o one /\ Len(zs) = n + 1
        /\ \A i \in 1 .. n : zs[i] = xs[i]
        /\ zs[n + 1] = x
  <2>1. /\ xs \o one \in Seq(Seq(Seq(Nat))) /\ Len(xs \o one) = Len(xs) + Len(one)
        /\ \A i \in 1 .. Len(xs) : (xs \o one)[i] = xs[i]
        /\ \A i \in 1 .. Len(one) : (xs \o one)[Len(xs) + i] = one[i]
    BY ONLY xs \in Seq(Seq(Seq(Nat))), one \in Seq(Seq(Seq(Nat))), Joined, ByteBaseAssumption
  <2>2. 1 \in 1 .. 1
    OBVIOUS
  <2>3. QED
    BY ONLY <1>4, <1>7, <2>1, <2>2, Zenon
<1>9. ys = zs
  <2>1. ASSUME NEW i \in 1 .. n + 1 PROVE ys[i] = zs[i]
    <3>1. CASE i \in 1 .. n
      <4>1. ys[i] = Piece(all[i]) /\ all[i] = ps[i]
        BY ONLY <1>3, <1>5, <3>1, i \in 1 .. n + 1, Zenon
      <4>2. zs[i] = xs[i] /\ xs[i] = Piece(ps[i])
        BY ONLY <1>4, <1>8, <3>1, Zenon
      <4>3. QED
        BY ONLY <4>1, <4>2, Zenon
    <3>2. CASE i = n + 1
      BY ONLY <1>3, <1>5, <1>6, <1>8, <3>2, i \in 1 .. n + 1, Zenon
    <3>3. QED
      BY ONLY <3>1, <3>2, i \in 1 .. n + 1, n \in Nat
  <2>2. QED
    <3>1. Len(ys) = n + 1 /\ Len(zs) = n + 1
      BY ONLY <1>5, <1>8, Zenon
    <3>2. QED
      BY ONLY <2>1, <3>1, ys \in Seq(Seq(Seq(Nat))), zs \in Seq(Seq(Seq(Nat))), SeqEqual
<1>10. FlattenSeq(zs) = FlattenSeq(xs) \o x
  <2>1. FlattenSeq(xs \o one) = FlattenSeq(xs) \o FlattenSeq(one)
    BY ONLY xs \in Seq(Seq(Seq(Nat))), one \in Seq(Seq(Seq(Nat))), FlattenConcat, ByteBaseAssumption
  <2>2. FlattenSeq(<<x>>) = x
    BY ONLY x \in Seq(Seq(Nat)), FlattenOne, ByteBaseAssumption
  <2>3. QED
    BY ONLY <1>7, <1>8, <2>1, <2>2, Zenon
<1>11. PICK old \in Seq(Seq(Nat)) : old = FlattenSeq(xs)
  BY ONLY xs \in Seq(Seq(Seq(Nat))), FlattenType, ByteBaseAssumption
<1>12. ThatDecode(all) = old \o x /\ ThatDecode(ps) = old
  BY ONLY <1>4, <1>5, <1>9, <1>10, <1>11, Zenon
<1>13. ASSUME Dispatches(p) PROVE ThatDecode(all) = Append(old, p)
  <2>1. x = <<p>>
    BY ONLY <1>6, <1>13, Zenon DEF Piece
  <2>2. Append(old, p) = old \o <<p>>
    BY ONLY old \in Seq(Seq(Nat)), p \in Seq(Nat), AppendIsConcat
  <2>3. QED
    BY ONLY <1>12, <2>1, <2>2, Zenon
<1>14. ASSUME ~Dispatches(p) PROVE ThatDecode(all) = old
  <2>1. x = <<>>
    BY ONLY <1>6, <1>14, Zenon DEF Piece
  <2>2. old \o <<>> = old
    BY ONLY old \in Seq(Seq(Nat)), ConcatEmptySeq
  <2>3. QED
    BY ONLY <1>12, <2>1, <2>2, Zenon
<1>15. QED
  BY ONLY <1>3, <1>12, <1>13, <1>14, old \in Seq(Seq(Nat)), Zenon

(* What is delivered, written out, with one message more. *)
Written(messages) == [i \in DOMAIN messages |-> Payload(messages[i])]

(* The bytes of a message. *)
LEMMA PayloadType ==
  ASSUME NEW message \in Decodings
  PROVE  Payload(message) \in Seq(Nat)
<1>1. PICK t \in Nat, fs \in Seq(Seq(Nat)) : t = message.type /\ fs = message.fields
  BY DEF Decodings
<1>2. PICK bytes \in Seq(Nat) : bytes = FlattenSeq(fs)
  BY ONLY fs \in Seq(Seq(Nat)), FlattenType, ByteBaseAssumption
<1>3. <<t>> \in Seq(Nat)
  OBVIOUS
<1>4. <<t>> \o bytes \in Seq(Nat)
  BY ONLY <1>3, bytes \in Seq(Nat), ConcatProperties
<1>5. QED
  BY ONLY <1>1, <1>2, <1>4, Zenon DEF Payload

(* The bytes of the messages, with those of one more. *)
LEMMA WrittenAppend ==
  ASSUME NEW ms \in Seq(Decodings), NEW m \in Decodings
  PROVE  Written(Append(ms, m)) = Append(Written(ms), Payload(m))
<1>1. PICK n \in Nat : n = Len(ms) /\ DOMAIN ms = 1 .. n /\ \A i \in 1 .. n : ms[i] \in Decodings
  OBVIOUS
<1>2. PICK all \in Seq(Decodings) :
        /\ all = Append(ms, m) /\ Len(all) = n + 1 /\ DOMAIN all = 1 .. n + 1
        /\ all[n + 1] = m /\ \A i \in 1 .. n : all[i] = ms[i]
  <2>1. PutBehind(ms, m, Append(ms, m), Decodings)
    BY AppendIs
  <2>2. QED
    BY ONLY <1>1, <2>1, Zenon DEF PutBehind
<1>3. \A i \in 1 .. n : Payload(ms[i]) \in Seq(Nat)
  BY ONLY <1>1, PayloadType, ByteBaseAssumption, Zenon
<1>4. PICK p \in Seq(Nat) : p = Payload(m)
  BY ONLY m \in Decodings, PayloadType, ByteBaseAssumption, Zenon
<1> DEFINE P(i) == Payload(ms[i])
<1>5. PICK xs : xs = [i \in 1 .. n |-> P(i)]
  OBVIOUS
<1>6. Written(ms) = xs
  BY ONLY <1>1, <1>5, Zenon DEF Written
<1>7. \A i \in 1 .. n : P(i) \in Seq(Nat)
  BY ONLY <1>3
<1> HIDE DEF P
<1>8. xs \in Seq(Seq(Nat)) /\ Len(xs) = n /\ \A i \in 1 .. n : xs[i] = P(i)
  BY ONLY <1>5, <1>7, n \in Nat
<1>9. PICK ys \in Seq(Seq(Nat)) :
        /\ ys = Append(xs, p) /\ Len(ys) = n + 1 /\ DOMAIN ys = 1 .. n + 1 /\ ys[n + 1] = p
        /\ \A i \in 1 .. n : ys[i] = xs[i]
  <2>1. xs \in Seq(Seq(Nat))
    BY ONLY <1>8
  <2>2. PutBehind(xs, p, Append(xs, p), Seq(Nat))
    BY ONLY <2>1, p \in Seq(Nat), AppendIs, ByteBaseAssumption
  <2>3. QED
    BY ONLY <1>8, <2>2, Zenon DEF PutBehind
<1>10. ys = [i \in 1 .. n + 1 |-> ys[i]]
  <2>1. ys \in Seq(Seq(Nat)) /\ DOMAIN ys = 1 .. n + 1
    BY ONLY <1>9
  <2>2. ys = [i \in DOMAIN ys |-> ys[i]]
    BY ONLY <2>1
  <2>3. QED
    BY ONLY <2>1, <2>2, Zenon
<1>11. Written(all) = [i \in 1 .. n + 1 |-> Payload(all[i])]
  BY ONLY <1>2, Zenon DEF Written
<1>12. ASSUME NEW i \in 1 .. n + 1 PROVE Payload(all[i]) = ys[i]
  <2>1. CASE i \in 1 .. n
    BY ONLY <1>2, <1>8, <1>9, <2>1, Zenon DEF P
  <2>2. CASE i = n + 1
    BY ONLY <1>2, <1>4, <1>9, <2>2, Zenon
  <2>3. QED
    BY ONLY <2>1, <2>2, i \in 1 .. n + 1, n \in Nat
<1>13. Written(all) = ys
  BY ONLY <1>10, <1>11, <1>12, Zenon
<1>14. QED
  BY ONLY <1>2, <1>4, <1>6, <1>9, <1>13, Zenon

(* How many of the first n numbers are in a set, and of one number more. *)
Counted(n, S) == Cardinality((1 .. n) \cap S)

(* A number of numbers. *)
LEMMA CountedIs ==
  ASSUME NEW n \in Nat, NEW S
  PROVE  IsFiniteSet((1 .. n) \cap S) /\ Counted(n, S) \in Nat
<1>1. IsFiniteSet(1 .. n)
  BY FS_Interval
<1>2. (1 .. n) \cap S \subseteq 1 .. n
  OBVIOUS
<1>3. IsFiniteSet((1 .. n) \cap S)
  BY ONLY <1>1, <1>2, FS_Subset
<1>4. QED
  BY ONLY <1>3, FS_CardinalityType DEF Counted

(* The next number is counted if the set has it. *)
LEMMA CountGoesOn ==
  ASSUME NEW n \in Nat, NEW S
  PROVE  Counted(n + 1, S) = Counted(n, S) + (IF n + 1 \in S THEN 1 ELSE 0)
<1>1. PICK few : few = (1 .. n) \cap S
  OBVIOUS
<1>2. IsFiniteSet(few) /\ Cardinality(few) \in Nat /\ Counted(n, S) = Cardinality(few)
  BY ONLY <1>1, CountedIs, n \in Nat, ByteBaseAssumption, Zenon DEF Counted
<1>3. CASE n + 1 \in S
  <2>1. (1 .. n + 1) \cap S = few \cup {n + 1}
    BY <1>1, <1>3
  <2>2. n + 1 \notin few
    BY <1>1
  <2>3. Cardinality(few \cup {n + 1}) = Cardinality(few) + 1
    BY ONLY <1>2, <2>2, FS_AddElement
  <2>4. QED
    BY ONLY <1>2, <1>3, <2>1, <2>3, Zenon DEF Counted
<1>4. CASE n + 1 \notin S
  <2>1. (1 .. n + 1) \cap S = few
    BY <1>1, <1>4
  <2>2. Counted(n + 1, S) = Cardinality(few)
    BY ONLY <2>1, Zenon DEF Counted
  <2>3. QED
    BY ONLY <1>2, <1>4, <2>2
<1>5. QED
  BY ONLY <1>3, <1>4

(* Numbers that no member of the set is among are not counted. *)
LEMMA NoneCounted ==
  ASSUME NEW n \in Nat, NEW S, \A i \in 1 .. n : i \notin S
  PROVE  Counted(n, S) = 0
<1>1. (1 .. n) \cap S = {}
  OBVIOUS
<1>2. QED
  BY ONLY <1>1, FS_EmptySet DEF Counted

(* The messages of a type, counted, with one message more. *)
TypeCount(ms, t) == Cardinality({i \in DOMAIN ms : ms[i].type = t})

(* Messages of a type are counted by their positions. *)
LEMMA TypeCountIs ==
  ASSUME NEW ms \in Seq(Decodings), NEW t
  PROVE  TypeCount(ms, t) = Counted(Len(ms), {i \in 1 .. Len(ms) : ms[i].type = t})
<1>1. {i \in DOMAIN ms : ms[i].type = t} = (1 .. Len(ms)) \cap {i \in 1 .. Len(ms) : ms[i].type = t}
  OBVIOUS
<1>2. QED
  BY ONLY <1>1, Zenon DEF TypeCount, Counted

(* A message more is one more of its type. *)
LEMMA TypeCountAppend ==
  ASSUME NEW ms \in Seq(Decodings), NEW m \in Decodings, NEW t
  PROVE  /\ TypeCount(ms, t) \in Nat
         /\ TypeCount(Append(ms, m), t) = TypeCount(ms, t) + (IF m.type = t THEN 1 ELSE 0)
<1>1. PICK n \in Nat : n = Len(ms)
  OBVIOUS
<1>2. PICK all \in Seq(Decodings) :
        /\ all = Append(ms, m) /\ Len(all) = n + 1
        /\ all[n + 1] = m /\ \A i \in 1 .. n : all[i] = ms[i]
  <2>1. PutBehind(ms, m, Append(ms, m), Decodings)
    BY AppendIs
  <2>2. QED
    BY ONLY <1>1, <2>1, Zenon DEF PutBehind
<1>3. PICK S : S = {i \in 1 .. n + 1 : all[i].type = t}
  OBVIOUS
<1>4. TypeCount(all, t) = Counted(n + 1, S)
  BY ONLY <1>2, <1>3, TypeCountIs, all \in Seq(Decodings), ByteBaseAssumption, Zenon
<1>5. PICK R : R = {i \in 1 .. n : ms[i].type = t}
  OBVIOUS
<1>6. TypeCount(ms, t) = Counted(n, R)
  BY ONLY <1>1, <1>5, TypeCountIs, ms \in Seq(Decodings), ByteBaseAssumption, Zenon
<1>7. Counted(n, R) = Counted(n, S)
  <2>1. (1 .. n) \cap R = (1 .. n) \cap S
    BY ONLY <1>2, <1>3, <1>5, n \in Nat
  <2>2. QED
    BY ONLY <2>1, Zenon DEF Counted
<1>8. n + 1 \in S <=> m.type = t
  BY ONLY <1>2, <1>3, n \in Nat
<1>9. Counted(n, S) \in Nat
  BY ONLY CountedIs, n \in Nat, ByteBaseAssumption
<1>10. Counted(n + 1, S) = Counted(n, S) + (IF n + 1 \in S THEN 1 ELSE 0)
  BY ONLY CountGoesOn, n \in Nat, ByteBaseAssumption
<1>11. QED
  BY ONLY <1>2, <1>4, <1>6, <1>7, <1>8, <1>9, <1>10
-----------------------------------------------------------------------------
(* The invariant of the replay. *)

ReplayCounters == {"recordsRead", "decoded", "unsupported", "malformed"}
ReadSoFar == Recorded(file, replayStats["recordsRead"])

(* Where the two threads are, and what went through the queue. *)
EventsInv ==
  /\ replay \in {"run", "returned", "join", "done"}
  /\ replayStatus \in {"Complete", "IncompleteStream", "StreamError"}
  /\ producerDone \in BOOLEAN
  /\ consumer \in {"checkDone", "checkEmpty", "pop", "exited"}
  /\ events \in Seq(Nat) /\ Len(events) <= EventLimit
  /\ publishAttempts \in Nat /\ droppedEvents \in Nat /\ consumedEvents \in Nat
  /\ publishAttempts = droppedEvents + consumedEvents + Len(events)

(* What was read, and what the market state was given of it. *)
ReadingInv ==
  /\ IsRecording(file) /\ replayStats \in [ReplayCounters -> Nat]
  /\ replayStats["recordsRead"] <= Len(file.payloads)
  /\ replay # "run" => replayStats["recordsRead"] = Len(file.payloads)
  /\ replayAt = Len(Framed(ReadSoFar))
  /\ delivered \in Seq(Decodings) /\ Written(delivered) = ThatDecode(ReadSoFar)

(* What was counted of it. *)
CountingInv ==
  /\ replayStats["recordsRead"] =
       replayStats["decoded"] + replayStats["unsupported"] + replayStats["malformed"]
  /\ replayStats["decoded"] = Len(delivered)
  /\ decodedByType \in [Types -> Nat]
  /\ \A t \in Types : decodedByType[t] = TypeCount(delivered, t)
  /\ replayStats["unsupported"] = Counted(replayStats["recordsRead"], Unknown)
  /\ DOMAIN unsupportedByType =
       {file.payloads[n][1] : n \in (1 .. replayStats["recordsRead"]) \cap Unknown}
  /\ \A t \in DOMAIN unsupportedByType :
       unsupportedByType[t] = Counted(replayStats["recordsRead"], OfType(t))

ReplayingInv == EventsInv /\ ReadingInv /\ CountingInv

(* The invariant says what the run checks. *)
LEMMA ReplayingInvImplies ==
  ASSUME ReplayingInv
  PROVE  ReplayInv
<1>1. EventsInv /\ ReadingInv /\ CountingInv
  BY DEF ReplayingInv
<1>2. PICK n \in Nat : n = replayStats["recordsRead"] /\ n <= Len(file.payloads)
  <2>1. replayStats \in [ReplayCounters -> Nat] /\ "recordsRead" \in ReplayCounters
    BY <1>1 DEF ReadingInv, ReplayCounters
  <2>2. replayStats["recordsRead"] \in Nat
    BY ONLY <2>1
  <2>3. QED
    BY ONLY <1>1, <2>2, Zenon DEF ReadingInv
<1>3. IsRecording(file)
  BY <1>1 DEF ReadingInv
<1>4. ReadsRecord(n)
  BY <1>2, <1>3, ReadsTheFile
<1>5. replayAt = Len(Framed(SubSeq(file.payloads, 1, n)))
  BY ONLY <1>1, <1>2, Zenon DEF ReadingInv, ReadSoFar, Recorded
<1>6. replayAt \in Nat /\ replayAt <= Len(file.bytes)
  BY ONLY <1>4, <1>5, Zenon DEF ReadsRecord
<1>7. Len(file.bytes) \in Nat
  <2>1. PICK ps \in Sessions, ending \in Seq(Nat) : file.bytes = Framed(ps) \o ending
    BY <1>3, RecordingIs, Zenon
  <2>2. Framed(ps) \in Seq(Nat)
    BY FramedIs DEF Sessions
  <2>3. Framed(ps) \o ending \in Seq(Nat)
    BY ONLY <2>2, ending \in Seq(Nat), ConcatProperties
  <2>4. QED
    BY ONLY <2>1, <2>3
<1>8. replayAt \in 0 .. Len(file.bytes)
  BY ONLY <1>6, <1>7
<1>9. ReplayTypeOK
  BY ONLY <1>1, <1>8, Zenon DEF EventsInv, ReplayTypeOK
<1>10. ReplayReadsAll
  BY ONLY <1>1, Zenon DEF ReadingInv, ReplayReadsAll
<1>11. DeliveredIsTheFile
  BY ONLY <1>1, Zenon DEF ReadingInv, DeliveredIsTheFile, Written, ReadSoFar, Recorded
<1>12. StatsReconcile
  BY ONLY <1>1, Zenon DEF CountingInv, StatsReconcile, EventsInv, Counted, TypeCount
<1>13. QED
  BY ONLY <1>9, <1>10, <1>11, <1>12, Zenon DEF ReplayInv

(* A record is counted twice, altogether and as what it is. *)
LEMMA CountIs ==
  ASSUME replayStats \in [ReplayCounters -> Nat],
         NEW kind \in {"decoded", "unsupported", "malformed"}, Count(kind)
  PROVE  /\ replayStats' \in [ReplayCounters -> Nat]
         /\ \A c \in ReplayCounters :
              replayStats'[c] = replayStats[c] + (IF c \in {"recordsRead", kind} THEN 1 ELSE 0)
<1>1. PICK old \in [ReplayCounters -> Nat] : old = replayStats
  OBVIOUS
<1>2. replayStats' = [old EXCEPT !["recordsRead"] = @ + 1, ![kind] = @ + 1]
  BY <1>1 DEF Count
<1>3. /\ replayStats' \in [ReplayCounters -> Nat]
      /\ \A c \in ReplayCounters :
           replayStats'[c] = old[c] + (IF c \in {"recordsRead", kind} THEN 1 ELSE 0)
  BY ONLY <1>2, old \in [ReplayCounters -> Nat], kind \in {"decoded", "unsupported", "malformed"}
     DEF ReplayCounters
<1>4. QED
  BY ONLY <1>1, <1>3

(* The record that is read next. *)
Upcoming(n, p) ==
  /\ replayStats["recordsRead"] = n /\ n + 1 <= Len(file.payloads) /\ n + 1 \in DOMAIN file.payloads
  /\ p = file.payloads[n + 1]
  /\ Recorded(file, n) \in Seq(Seq(Nat)) /\ Recorded(file, n + 1) = Append(Recorded(file, n), p)

UnknownTypes(n) == {file.payloads[k][1] : k \in (1 .. n) \cap Unknown}

(* What a record more adds to what is counted. *)
LEMMA CountsGoOn ==
  ASSUME NEW n \in Nat, NEW p, Upcoming(n, p)
  PROVE  /\ Counted(n + 1, Unknown) = Counted(n, Unknown) + (IF Supported(p[1]) THEN 0 ELSE 1)
         /\ \A t : Counted(n + 1, OfType(t)) = Counted(n, OfType(t)) + (IF t = p[1] THEN 1 ELSE 0)
         /\ UnknownTypes(n + 1) = UnknownTypes(n) \cup (IF Supported(p[1]) THEN {} ELSE {p[1]})
<1>1. n + 1 \in DOMAIN file.payloads /\ p = file.payloads[n + 1]
  BY Zenon DEF Upcoming
<1>2. n + 1 \in Unknown <=> ~Supported(p[1])
  BY ONLY <1>1, Zenon DEF Unknown
<1>3. \A t : n + 1 \in OfType(t) <=> t = p[1]
  BY ONLY <1>1, Zenon DEF OfType
<1>4. Counted(n + 1, Unknown) = Counted(n, Unknown) + (IF Supported(p[1]) THEN 0 ELSE 1)
  <2>1. Counted(n + 1, Unknown) = Counted(n, Unknown) + (IF n + 1 \in Unknown THEN 1 ELSE 0)
    BY ONLY CountGoesOn, n \in Nat, ByteBaseAssumption
  <2>2. QED
    BY ONLY <1>2, <2>1, Zenon
<1>5. ASSUME NEW t
      PROVE  Counted(n + 1, OfType(t)) = Counted(n, OfType(t)) + (IF t = p[1] THEN 1 ELSE 0)
  <2>1. Counted(n + 1, OfType(t)) = Counted(n, OfType(t)) + (IF n + 1 \in OfType(t) THEN 1 ELSE 0)
    BY ONLY CountGoesOn, n \in Nat, ByteBaseAssumption
  <2>2. QED
    BY ONLY <1>3, <2>1, Zenon
<1>6. UnknownTypes(n + 1) = UnknownTypes(n) \cup (IF Supported(p[1]) THEN {} ELSE {p[1]})
  <2>1. \A k : k \in 1 .. n + 1 <=> k \in 1 .. n \/ k = n + 1
    BY ONLY n \in Nat
  <2>2. CASE Supported(p[1])
    <3>1. (1 .. n + 1) \cap Unknown = (1 .. n) \cap Unknown
      BY ONLY <1>2, <2>1, <2>2, Zenon
    <3>2. UnknownTypes(n + 1) = UnknownTypes(n)
      BY ONLY <3>1, Zenon DEF UnknownTypes
    <3>3. QED
      BY ONLY <2>2, <3>2, Zenon
  <2>3. CASE ~Supported(p[1])
    <3>1. (1 .. n + 1) \cap Unknown = ((1 .. n) \cap Unknown) \cup {n + 1}
      BY ONLY <1>2, <2>1, <2>3, Zenon
    <3>2. UnknownTypes(n + 1) = UnknownTypes(n) \cup {p[1]}
      <4>1. \A t : t \in UnknownTypes(n + 1) <=> \E k \in (1 .. n + 1) \cap Unknown : t = file.payloads[k][1]
        BY ONLY Zenon DEF UnknownTypes
      <4>2. \A t : t \in UnknownTypes(n) <=> \E k \in (1 .. n) \cap Unknown : t = file.payloads[k][1]
        BY ONLY Zenon DEF UnknownTypes
      <4>3. \A t : t \in UnknownTypes(n + 1) <=> t \in UnknownTypes(n) \/ t = p[1]
        BY ONLY <1>1, <3>1, <4>1, <4>2, Zenon
      <4>4. QED
        BY ONLY <4>3, Zenon
    <3>3. QED
      BY ONLY <2>3, <3>2, Zenon
  <2>4. QED
    BY ONLY <2>2, <2>3
<1>7. QED
  BY ONLY <1>4, <1>5, <1>6, Zenon

(* The types that are counted are unsupported ones, and every one of them. *)
LEMMA UnknownTypesAre ==
  ASSUME NEW n \in Nat, n <= Len(file.payloads), file.payloads \in Seq(Seq(Nat))
  PROVE  /\ \A t \in UnknownTypes(n) : ~Supported(t)
         /\ \A t : ~Supported(t) /\ t \notin UnknownTypes(n) => Counted(n, OfType(t)) = 0
<1>1. \A t \in UnknownTypes(n) : ~Supported(t)
  BY ONLY Zenon DEF UnknownTypes, Unknown
<1>2. ASSUME NEW t, ~Supported(t), t \notin UnknownTypes(n)
      PROVE  Counted(n, OfType(t)) = 0
  <2>1. \A i \in 1 .. n : i \notin OfType(t)
    BY ONLY <1>2, Zenon DEF OfType, UnknownTypes, Unknown
  <2>2. QED
    BY ONLY <2>1, n \in Nat, NoneCounted, ByteBaseAssumption
<1>3. QED
  BY ONLY <1>1, <1>2, Zenon

(* What the three kinds of records have in common. *)
Reads(n, p) ==
  /\ ReadingInv /\ CountingInv /\ Upcoming(n, p) /\ p \in Seq(Nat)
  /\ replayAt' = Len(Framed(Recorded(file, n + 1))) /\ file' = file
  /\ replay = "run" /\ replay' = replay

(* The record read is the next one of the file, and counted as one of three. *)
LEMMA NextRecord ==
  ASSUME ReadingInv, CountingInv, ReplayRecord, file' = file
  PROVE  \E n \in Nat, p \in Seq(Nat) :
           Reads(n, p) /\ (Unsupported(p) \/ Malformed(p) \/ Decoded(p))
<1>1. PICK n \in Nat : n = replayStats["recordsRead"]
  <2>1. replayStats \in [ReplayCounters -> Nat] /\ "recordsRead" \in ReplayCounters
    BY DEF ReadingInv, ReplayCounters
  <2>2. replayStats["recordsRead"] \in Nat
    BY ONLY <2>1
  <2>3. QED
    BY ONLY <2>2, Zenon
<1>2. IsRecording(file) /\ n <= Len(file.payloads) /\ replayAt = Len(Framed(Recorded(file, n)))
  BY <1>1, Zenon DEF ReadingInv, ReadSoFar
<1>3. /\ replay = "run" /\ replay' = replay /\ ReadNext(replayAt).status = "Message"
      /\ replayAt' = Behind(replayAt, ReadNext(replayAt))
      /\ \/ Unsupported(ReadNext(replayAt).data) \/ Malformed(ReadNext(replayAt).data)
         \/ Decoded(ReadNext(replayAt).data)
  BY Zenon DEF ReplayRecord
<1>4. ReadsRecord(n)
  BY <1>2, ReadsTheFile
<1>5. n < Len(file.payloads) /\ n + 1 \in DOMAIN file.payloads
  <2>1. PICK ps \in Seq(Framable) : ps = file.payloads
    BY <1>2, RecordingIs, SessionsAre
  <2>2. PICK l \in Nat : l = Len(ps) /\ DOMAIN ps = 1 .. l
    OBVIOUS
  <2>3. n # l
    BY ONLY <1>2, <1>3, <1>4, <2>1, <2>2, Zenon DEF ReadsRecord, Recorded
  <2>4. n < l /\ n + 1 \in 1 .. l
    BY ONLY <1>2, <2>1, <2>2, <2>3, n \in Nat, l \in Nat
  <2>5. QED
    BY ONLY <2>1, <2>2, <2>4
<1>6. /\ Recorded(file, n) \in Sessions
      /\ file.payloads[n + 1] \in Framable
      /\ Recorded(file, n + 1) = Append(Recorded(file, n), file.payloads[n + 1])
      /\ n + 1 <= Len(file.payloads)
  BY <1>2, <1>5, PayloadBehind
<1>7. PICK p \in Seq(Nat) : p = file.payloads[n + 1]
  BY ONLY <1>6 DEF Framable
<1>8. /\ ReadNext(replayAt) = [status |-> "Message", data |-> p]
      /\ Behind(replayAt, ReadNext(replayAt)) = Len(Framed(Recorded(file, n + 1)))
  BY ONLY <1>2, <1>4, <1>5, <1>7, Zenon DEF ReadsRecord, Recorded
<1>9. ReadNext(replayAt).data = p
  BY ONLY <1>8
<1>10. Recorded(file, n) \in Seq(Seq(Nat))
  BY ONLY <1>6 DEF Sessions
<1>11. Upcoming(n, p)
  BY ONLY <1>1, <1>5, <1>6, <1>7, <1>10, Zenon DEF Upcoming
<1>12. Reads(n, p)
  BY ONLY <1>3, <1>8, <1>11, p \in Seq(Nat), file' = file, ReadingInv, CountingInv, Zenon DEF Reads
<1>13. Unsupported(p) \/ Malformed(p) \/ Decoded(p)
  BY ONLY <1>3, <1>9, Zenon
<1>14. QED
  BY ONLY <1>12, <1>13, n \in Nat, p \in Seq(Nat), Zenon

(* What is read goes on, if what decodes is what is delivered. *)
LEMMA ReadingGoesOn ==
  ASSUME NEW n \in Nat, NEW p \in Seq(Nat), Reads(n, p),
         NEW kind \in {"decoded", "unsupported", "malformed"}, Count(kind),
         \/ ~Dispatches(p) /\ delivered' = delivered
         \/ Dispatches(p) /\ delivered' = Append(delivered, Dispatch(p))
  PROVE  /\ ReadingInv' /\ replayStats'["recordsRead"] = n + 1
         /\ replayStats' \in [ReplayCounters -> Nat]
         /\ \A c \in ReplayCounters \ {"recordsRead"} :
              replayStats'[c] = replayStats[c] + (IF c = kind THEN 1 ELSE 0)
<1>1. ReadingInv /\ Upcoming(n, p) /\ file' = file /\ replay = "run" /\ replay' = replay
      /\ replayAt' = Len(Framed(Recorded(file, n + 1)))
  BY Zenon DEF Reads
<1>2. /\ replayStats \in [ReplayCounters -> Nat] /\ IsRecording(file)
      /\ delivered \in Seq(Decodings) /\ replayStats["recordsRead"] = n
      /\ Written(delivered) = ThatDecode(Recorded(file, n))
  BY ONLY <1>1, Zenon DEF ReadingInv, ReadSoFar, Upcoming
<1>3. /\ replayStats' \in [ReplayCounters -> Nat]
      /\ \A c \in ReplayCounters :
           replayStats'[c] = replayStats[c] + (IF c \in {"recordsRead", kind} THEN 1 ELSE 0)
  BY <1>2, CountIs
<1>4. replayStats'["recordsRead"] = n + 1
  <2>1. "recordsRead" \in ReplayCounters /\ "recordsRead" \in {"recordsRead", kind}
    BY DEF ReplayCounters
  <2>2. QED
    BY ONLY <1>2, <1>3, <2>1, Zenon
<1>5. \A c \in ReplayCounters \ {"recordsRead"} :
        replayStats'[c] = replayStats[c] + (IF c = kind THEN 1 ELSE 0)
  BY ONLY <1>3, Zenon
<1>6. PICK ps \in Seq(Seq(Nat)) : ps = Recorded(file, n) /\ Recorded(file, n + 1) = Append(ps, p)
  BY ONLY <1>1, Zenon DEF Upcoming
<1>7. delivered' \in Seq(Decodings) /\ Written(delivered') = ThatDecode(Recorded(file, n + 1))
  <2>1. CASE ~Dispatches(p) /\ delivered' = delivered
    <3>1. ThatDecode(Append(ps, p)) = ThatDecode(ps)
      BY <2>1, ThatDecodeAppend
    <3>2. QED
      BY ONLY <1>2, <1>6, <2>1, <3>1, Zenon
  <2>2. CASE Dispatches(p) /\ delivered' = Append(delivered, Dispatch(p))
    <3>1. ThatDecode(Append(ps, p)) = Append(ThatDecode(ps), p)
      BY <2>2, ThatDecodeAppend
    <3>2. PICK m \in Decodings : m = Dispatch(p) /\ Payload(m) = p
      <4>1. Says(Dispatch(p), p)
        BY <2>2, DispatchKeeps
      <4>2. QED
        BY ONLY <4>1, Zenon DEF Says
    <3>3. Written(Append(delivered, m)) = Append(Written(delivered), Payload(m))
      BY <1>2, WrittenAppend
    <3>4. Append(delivered, m) \in Seq(Decodings)
      <4>1. PutBehind(delivered, m, Append(delivered, m), Decodings)
        BY <1>2, AppendIs
      <4>2. QED
        BY ONLY <4>1, Zenon DEF PutBehind
    <3>5. QED
      BY ONLY <1>2, <1>6, <2>2, <3>1, <3>2, <3>3, <3>4, Zenon
  <2>3. QED
    BY <2>1, <2>2
<1>8. n + 1 <= Len(file.payloads)
  BY ONLY <1>1, Zenon DEF Upcoming
<1>9. ReadingInv'
  <2>1. replay' = "run"
    BY ONLY <1>1
  <2>2. IsRecording(file') /\ replayStats'["recordsRead"] <= Len(file'.payloads)
        /\ Recorded(file', replayStats'["recordsRead"]) = Recorded(file, n + 1)
    BY ONLY <1>1, <1>2, <1>4, <1>8, Zenon
  <2>3. QED
    BY ONLY <1>1, <1>3, <1>7, <2>1, <2>2, Zenon DEF ReadingInv, ReadSoFar
<1>10. QED
  BY ONLY <1>3, <1>4, <1>5, <1>9, Zenon

(* What a record finds counted. *)
LEMMA CountedBefore ==
  ASSUME NEW n \in Nat, NEW p, Reads(n, p)
  PROVE  /\ n = replayStats["decoded"] + replayStats["unsupported"] + replayStats["malformed"]
         /\ replayStats["recordsRead"] = n /\ replayStats["decoded"] = Len(delivered)
         /\ replayStats["decoded"] \in Nat /\ replayStats["unsupported"] \in Nat
         /\ replayStats["malformed"] \in Nat
         /\ decodedByType \in [Types -> Nat]
         /\ \A t \in Types : decodedByType[t] = TypeCount(delivered, t)
         /\ replayStats["unsupported"] = Counted(n, Unknown)
         /\ DOMAIN unsupportedByType = UnknownTypes(n)
         /\ \A t \in UnknownTypes(n) : unsupportedByType[t] = Counted(n, OfType(t))
         /\ \A t \in UnknownTypes(n) : ~Supported(t)
         /\ \A t : ~Supported(t) /\ t \notin UnknownTypes(n) => Counted(n, OfType(t)) = 0
         /\ \A t : Counted(n, OfType(t)) \in Nat
<1>1. ReadingInv /\ CountingInv /\ Upcoming(n, p)
  BY Zenon DEF Reads
<1>2. replayStats["recordsRead"] = n /\ IsRecording(file) /\ n <= Len(file.payloads)
  BY ONLY <1>1, Zenon DEF Upcoming, ReadingInv
<1>3. file.payloads \in Seq(Seq(Nat))
  BY <1>2, RecordingIs DEF Sessions
<1>4. /\ \A t \in UnknownTypes(n) : ~Supported(t)
      /\ \A t : ~Supported(t) /\ t \notin UnknownTypes(n) => Counted(n, OfType(t)) = 0
  BY ONLY <1>2, <1>3, n \in Nat, UnknownTypesAre, ByteBaseAssumption
<1>5. \A t : Counted(n, OfType(t)) \in Nat
  BY ONLY n \in Nat, CountedIs, ByteBaseAssumption
<1>6. /\ replayStats["decoded"] \in Nat /\ replayStats["unsupported"] \in Nat
      /\ replayStats["malformed"] \in Nat
  <2>1. replayStats \in [ReplayCounters -> Nat]
    BY ONLY <1>1, Zenon DEF ReadingInv
  <2>2. QED
    BY ONLY <2>1 DEF ReplayCounters
<1>7. /\ decodedByType \in [Types -> Nat]
      /\ \A t \in Types : decodedByType[t] = TypeCount(delivered, t)
      /\ replayStats["unsupported"] = Counted(n, Unknown)
      /\ DOMAIN unsupportedByType = UnknownTypes(n)
      /\ \A t \in UnknownTypes(n) : unsupportedByType[t] = Counted(n, OfType(t))
      /\ replayStats["decoded"] = Len(delivered)
      /\ n = replayStats["decoded"] + replayStats["unsupported"] + replayStats["malformed"]
  BY ONLY <1>1, <1>2, Zenon DEF CountingInv, UnknownTypes
<1>8. QED
  BY ONLY <1>2, <1>4, <1>5, <1>6, <1>7, Zenon

(* What it leaves counted. *)
LEMMA CountedBehind ==
  ASSUME NEW n \in Nat, file' = file, replayStats'["recordsRead"] = n + 1,
         n + 1 = replayStats'["decoded"] + replayStats'["unsupported"]
                 + replayStats'["malformed"],
         replayStats'["decoded"] = Len(delivered'),
         decodedByType' \in [Types -> Nat],
         \A t \in Types : decodedByType'[t] = TypeCount(delivered', t),
         replayStats'["unsupported"] = Counted(n + 1, Unknown),
         DOMAIN unsupportedByType' = UnknownTypes(n + 1),
         \A t \in UnknownTypes(n + 1) : unsupportedByType'[t] = Counted(n + 1, OfType(t))
  PROVE  CountingInv'
<1>1. Unknown' = Unknown /\ (\A t : OfType(t)' = OfType(t)) /\ file'.payloads = file.payloads
  BY Zenon DEF Unknown, OfType
<1>2. {file'.payloads[k][1] : k \in (1 .. n + 1) \cap Unknown'} = UnknownTypes(n + 1)
  BY ONLY <1>1, Zenon DEF UnknownTypes
<1>3. QED
  BY <1>1, <1>2, Zenon DEF CountingInv

(* A record of an unsupported type keeps the invariant. *)
LEMMA UnsupportedHolds ==
  ASSUME NEW n \in Nat, NEW p \in Seq(Nat), Reads(n, p), Unsupported(p)
  PROVE  ReadingInv' /\ CountingInv'
<1>1. /\ ~Supported(p[1]) /\ Count("unsupported")
      /\ decodedByType' = decodedByType /\ delivered' = delivered
      /\ unsupportedByType' =
           [t \in DOMAIN unsupportedByType \cup {p[1]} |->
              (IF t \in DOMAIN unsupportedByType THEN unsupportedByType[t] ELSE 0)
              + (IF t = p[1] THEN 1 ELSE 0)]
  BY DEF Unsupported
<1>2. ~Dispatches(p)
  <2>1. ASSUME Dispatches(p) PROVE FALSE
    <3>1. Says(Dispatch(p), p)
      BY <2>1, DispatchKeeps
    <3>2. QED
      BY ONLY <1>1, <3>1, Zenon DEF Says
  <2>2. QED
    BY ONLY <2>1
<1>3. /\ ReadingInv' /\ replayStats'["recordsRead"] = n + 1
      /\ \A c \in ReplayCounters \ {"recordsRead"} :
           replayStats'[c] = replayStats[c] + (IF c = "unsupported" THEN 1 ELSE 0)
  BY <1>1, <1>2, ReadingGoesOn
<1>4. PICK d \in Nat, u \in Nat, m \in Nat :
        /\ d = replayStats["decoded"] /\ u = replayStats["unsupported"]
        /\ m = replayStats["malformed"] /\ n = d + u + m
  BY CountedBefore, ZenonT(60)
<1>5. /\ replayStats'["decoded"] = d /\ replayStats'["unsupported"] = u + 1
      /\ replayStats'["malformed"] = m
  <2>1. {"decoded", "unsupported", "malformed"} \subseteq ReplayCounters \ {"recordsRead"}
    BY ONLY Zenon DEF ReplayCounters
  <2>2. /\ replayStats'["decoded"] = d + 0 /\ replayStats'["unsupported"] = u + 1
        /\ replayStats'["malformed"] = m + 0
    BY ONLY <1>3, <1>4, <2>1, Zenon
  <2>3. QED
    BY ONLY <2>2, d \in Nat, u \in Nat, m \in Nat
<1>6. /\ d = Len(delivered') /\ decodedByType' \in [Types -> Nat]
      /\ \A t \in Types : decodedByType'[t] = TypeCount(delivered', t)
  BY <1>1, <1>4, CountedBefore
<1>7. /\ Counted(n + 1, Unknown) = Counted(n, Unknown) + (IF Supported(p[1]) THEN 0 ELSE 1)
      /\ \A t : Counted(n + 1, OfType(t)) = Counted(n, OfType(t)) + (IF t = p[1] THEN 1 ELSE 0)
      /\ UnknownTypes(n + 1) = UnknownTypes(n) \cup (IF Supported(p[1]) THEN {} ELSE {p[1]})
  <2>1. Upcoming(n, p)
    BY Zenon DEF Reads
  <2>2. QED
    BY <2>1, CountsGoOn
<1>8. /\ u = Counted(n, Unknown) /\ DOMAIN unsupportedByType = UnknownTypes(n)
      /\ \A t \in UnknownTypes(n) : unsupportedByType[t] = Counted(n, OfType(t))
      /\ \A t : ~Supported(t) /\ t \notin UnknownTypes(n) => Counted(n, OfType(t)) = 0
      /\ \A t : Counted(n, OfType(t)) \in Nat
  BY <1>4, CountedBefore, Zenon
<1>9. u + 1 = Counted(n + 1, Unknown)
  BY ONLY <1>1, <1>7, <1>8, Zenon
<1>10. UnknownTypes(n + 1) = UnknownTypes(n) \cup {p[1]}
  BY ONLY <1>1, <1>7, Zenon
<1>11. DOMAIN unsupportedByType' = UnknownTypes(n + 1)
  BY ONLY <1>1, <1>8, <1>10, Zenon
<1>12. ASSUME NEW t \in UnknownTypes(n + 1)
       PROVE  unsupportedByType'[t] = Counted(n + 1, OfType(t))
  <2>1. unsupportedByType'[t] = (IF t \in UnknownTypes(n) THEN unsupportedByType[t] ELSE 0)
                                + (IF t = p[1] THEN 1 ELSE 0)
    BY ONLY <1>1, <1>8, <1>10, t \in UnknownTypes(n + 1), Zenon
  <2>2. (IF t \in UnknownTypes(n) THEN unsupportedByType[t] ELSE 0) = Counted(n, OfType(t))
    <3>1. CASE t \in UnknownTypes(n)
      BY ONLY <1>8, <3>1, Zenon
    <3>2. CASE t \notin UnknownTypes(n)
      <4>1. t = p[1] /\ ~Supported(t)
        BY ONLY <1>1, <1>10, <3>2, t \in UnknownTypes(n + 1), Zenon
      <4>2. QED
        BY ONLY <1>8, <3>2, <4>1, Zenon
    <3>3. QED
      BY ONLY <3>1, <3>2
  <2>3. QED
    BY ONLY <1>7, <2>1, <2>2, Zenon
<1>13. n + 1 = d + (u + 1) + m
  <2>1. n = d + u + m
    BY ONLY <1>4, Zenon
  <2>2. QED
    BY ONLY <2>1, n \in Nat, d \in Nat, u \in Nat, m \in Nat
<1>14. file' = file
  BY Zenon DEF Reads
<1>15. CountingInv'
  BY ONLY <1>3, <1>5, <1>6, <1>9, <1>11, <1>12, <1>13, <1>14, n \in Nat, CountedBehind,
          ByteBaseAssumption, Zenon
<1>16. QED
  BY ONLY <1>3, <1>15

(* A record of a type that is supported is counted as none that is not.    *)
LEMMA SupportedCounts ==
  ASSUME NEW n \in Nat, NEW p, Reads(n, p), Supported(p[1]),
         unsupportedByType' = unsupportedByType
  PROVE  /\ Counted(n + 1, Unknown) = Counted(n, Unknown)
         /\ DOMAIN unsupportedByType' = UnknownTypes(n + 1)
         /\ \A t \in UnknownTypes(n + 1) : unsupportedByType'[t] = Counted(n + 1, OfType(t))
<1>1. /\ Counted(n + 1, Unknown) = Counted(n, Unknown) + (IF Supported(p[1]) THEN 0 ELSE 1)
      /\ \A t : Counted(n + 1, OfType(t)) = Counted(n, OfType(t)) + (IF t = p[1] THEN 1 ELSE 0)
      /\ UnknownTypes(n + 1) = UnknownTypes(n) \cup (IF Supported(p[1]) THEN {} ELSE {p[1]})
  <2>1. Upcoming(n, p)
    BY Zenon DEF Reads
  <2>2. QED
    BY <2>1, CountsGoOn
<1>2. /\ DOMAIN unsupportedByType = UnknownTypes(n)
      /\ \A t \in UnknownTypes(n) : unsupportedByType[t] = Counted(n, OfType(t))
      /\ \A t \in UnknownTypes(n) : ~Supported(t)
      /\ \A t : Counted(n, OfType(t)) \in Nat
  BY CountedBefore, ZenonT(60)
<1>3. Counted(n, Unknown) \in Nat
  BY ONLY n \in Nat, CountedIs, ByteBaseAssumption
<1>4. Counted(n + 1, Unknown) = Counted(n, Unknown)
  <2>1. Counted(n + 1, Unknown) = Counted(n, Unknown) + 0
    BY <1>1, Zenon
  <2>2. QED
    BY ONLY <1>3, <2>1
<1>5. UnknownTypes(n + 1) = UnknownTypes(n)
  <2>1. UnknownTypes(n + 1) = UnknownTypes(n) \cup {}
    BY <1>1, Zenon
  <2>2. QED
    BY ONLY <2>1
<1>6. ASSUME NEW t \in UnknownTypes(n)
      PROVE  Counted(n + 1, OfType(t)) = Counted(n, OfType(t))
  <2>1. t # p[1]
    BY <1>2, Zenon
  <2>2. Counted(n + 1, OfType(t)) = Counted(n, OfType(t)) + 0
    BY ONLY <1>1, <2>1, Zenon
  <2>3. Counted(n, OfType(t)) \in Nat
    BY ONLY <1>2
  <2>4. QED
    BY ONLY <2>2, <2>3
<1>7. QED
  BY <1>2, <1>4, <1>5, <1>6, Zenon

(* A record of the wrong size keeps it. *)
LEMMA MalformedHolds ==
  ASSUME NEW n \in Nat, NEW p \in Seq(Nat), Reads(n, p), Malformed(p)
  PROVE  ReadingInv' /\ CountingInv'
<1>1. /\ Supported(p[1]) /\ ~Dispatches(p) /\ Count("malformed")
      /\ decodedByType' = decodedByType /\ delivered' = delivered
      /\ unsupportedByType' = unsupportedByType
  BY DEF Malformed
<1>2. /\ ReadingInv' /\ replayStats'["recordsRead"] = n + 1
      /\ \A c \in ReplayCounters \ {"recordsRead"} :
           replayStats'[c] = replayStats[c] + (IF c = "malformed" THEN 1 ELSE 0)
  BY <1>1, ReadingGoesOn
<1>3. PICK d \in Nat, u \in Nat, m \in Nat :
        /\ d = replayStats["decoded"] /\ u = replayStats["unsupported"]
        /\ m = replayStats["malformed"] /\ n = d + u + m /\ u = Counted(n, Unknown)
  BY CountedBefore, ZenonT(60)
<1>4. /\ replayStats'["decoded"] = d /\ replayStats'["unsupported"] = u
      /\ replayStats'["malformed"] = m + 1
  <2>1. {"decoded", "unsupported", "malformed"} \subseteq ReplayCounters \ {"recordsRead"}
    BY ONLY Zenon DEF ReplayCounters
  <2>2. /\ replayStats'["decoded"] = d + 0 /\ replayStats'["unsupported"] = u + 0
        /\ replayStats'["malformed"] = m + 1
    BY ONLY <1>2, <1>3, <2>1, Zenon
  <2>3. QED
    BY ONLY <2>2, d \in Nat, u \in Nat, m \in Nat
<1>5. /\ d = Len(delivered') /\ decodedByType' \in [Types -> Nat]
      /\ \A t \in Types : decodedByType'[t] = TypeCount(delivered', t)
  BY <1>1, <1>3, CountedBefore
<1>6. /\ u = Counted(n + 1, Unknown) /\ DOMAIN unsupportedByType' = UnknownTypes(n + 1)
      /\ \A t \in UnknownTypes(n + 1) : unsupportedByType'[t] = Counted(n + 1, OfType(t))
  BY <1>1, <1>3, SupportedCounts, Zenon
<1>7. n + 1 = d + u + (m + 1)
  <2>1. n = d + u + m
    BY ONLY <1>3, Zenon
  <2>2. QED
    BY ONLY <2>1, n \in Nat, d \in Nat, u \in Nat, m \in Nat
<1>8. file' = file
  BY Zenon DEF Reads
<1>9. CountingInv'
  BY ONLY <1>2, <1>4, <1>5, <1>6, <1>7, <1>8, n \in Nat, CountedBehind, ByteBaseAssumption, Zenon
<1>10. QED
  BY ONLY <1>2, <1>9

(* A record that decodes keeps it. *)
LEMMA DecodedHolds ==
  ASSUME NEW n \in Nat, NEW p \in Seq(Nat), Reads(n, p), Decoded(p)
  PROVE  ReadingInv' /\ CountingInv'
<1>1. /\ Supported(p[1]) /\ Dispatches(p) /\ Count("decoded")
      /\ decodedByType' = [decodedByType EXCEPT ![p[1]] = @ + 1]
      /\ delivered' = Append(delivered, Dispatch(p))
      /\ unsupportedByType' = unsupportedByType
  BY DEF Decoded
<1>2. /\ ReadingInv' /\ replayStats'["recordsRead"] = n + 1
      /\ \A c \in ReplayCounters \ {"recordsRead"} :
           replayStats'[c] = replayStats[c] + (IF c = "decoded" THEN 1 ELSE 0)
  BY <1>1, ReadingGoesOn
<1>3. PICK d \in Nat, u \in Nat, m \in Nat :
        /\ d = replayStats["decoded"] /\ u = replayStats["unsupported"]
        /\ m = replayStats["malformed"] /\ n = d + u + m /\ u = Counted(n, Unknown)
        /\ d = Len(delivered)
  BY CountedBefore, ZenonT(60)
<1>4. /\ replayStats'["decoded"] = d + 1 /\ replayStats'["unsupported"] = u
      /\ replayStats'["malformed"] = m
  <2>1. {"decoded", "unsupported", "malformed"} \subseteq ReplayCounters \ {"recordsRead"}
    BY ONLY Zenon DEF ReplayCounters
  <2>2. /\ replayStats'["decoded"] = d + 1 /\ replayStats'["unsupported"] = u + 0
        /\ replayStats'["malformed"] = m + 0
    BY ONLY <1>2, <1>3, <2>1, Zenon
  <2>3. QED
    BY ONLY <2>2, d \in Nat, u \in Nat, m \in Nat
<1>5. delivered \in Seq(Decodings)
  BY Zenon DEF Reads, ReadingInv
<1>6. PICK message \in Decodings :
        message = Dispatch(p) /\ message.type = p[1] /\ p[1] \in Types
  <2>1. Says(Dispatch(p), p)
    BY <1>1, DispatchKeeps
  <2>2. QED
    BY ONLY <2>1, Zenon DEF Says
<1>7. d + 1 = Len(delivered')
  <2>1. PutBehind(delivered, message, Append(delivered, message), Decodings)
    BY <1>5, AppendIs
  <2>2. QED
    BY ONLY <1>1, <1>3, <1>6, <2>1, Zenon DEF PutBehind
<1>8. PICK old \in [Types -> Nat] :
        old = decodedByType /\ \A t \in Types : old[t] = TypeCount(delivered, t)
  BY CountedBefore, ZenonT(60)
<1>9. /\ decodedByType' \in [Types -> Nat]
      /\ \A t \in Types : decodedByType'[t] = TypeCount(delivered', t)
  <2>1. PICK new : new = [old EXCEPT ![p[1]] = @ + 1]
    OBVIOUS
  <2>2. PICK type \in Types : type = p[1]
    BY ONLY <1>6
  <2>3. new \in [Types -> Nat] /\ \A t \in Types : new[t] = old[t] + (IF t = type THEN 1 ELSE 0)
    BY ONLY <2>1, <2>2, old \in [Types -> Nat], type \in Types
  <2>4. ASSUME NEW t \in Types PROVE new[t] = TypeCount(delivered', t)
    <3>1. /\ TypeCount(delivered, t) \in Nat
          /\ TypeCount(Append(delivered, message), t) =
               TypeCount(delivered, t) + (IF message.type = t THEN 1 ELSE 0)
      BY <1>5, TypeCountAppend
    <3>2. PICK c \in Nat : c = TypeCount(delivered, t)
      BY ONLY <3>1
    <3>3. TypeCount(delivered', t) = c + (IF type = t THEN 1 ELSE 0)
      BY ONLY <1>1, <1>6, <2>2, <3>1, <3>2, Zenon
    <3>4. new[t] = c + (IF t = type THEN 1 ELSE 0)
      BY ONLY <1>8, <2>3, <3>2, t \in Types, Zenon
    <3>5. QED
      BY ONLY <3>3, <3>4
  <2>5. QED
    BY ONLY <1>1, <1>8, <2>1, <2>3, <2>4, Zenon
<1>10. /\ u = Counted(n + 1, Unknown) /\ DOMAIN unsupportedByType' = UnknownTypes(n + 1)
       /\ \A t \in UnknownTypes(n + 1) : unsupportedByType'[t] = Counted(n + 1, OfType(t))
  BY <1>1, <1>3, SupportedCounts, Zenon
<1>11. n + 1 = (d + 1) + u + m
  <2>1. n = d + u + m
    BY ONLY <1>3, Zenon
  <2>2. QED
    BY ONLY <2>1, n \in Nat, d \in Nat, u \in Nat, m \in Nat
<1>12. file' = file
  BY Zenon DEF Reads
<1>13. CountingInv'
  BY ONLY <1>2, <1>4, <1>7, <1>9, <1>10, <1>11, <1>12, n \in Nat, CountedBehind,
          ByteBaseAssumption, Zenon
<1>14. QED
  BY ONLY <1>2, <1>13

(* The queue and its counters, whoever moves. *)
LEMMA EventsGoOn ==
  ASSUME EventsInv, NEW k \in Nat, OnMessage(k), replay' = replay,
         replayStatus' = replayStatus, producerDone' = producerDone,
         consumer' = consumer, consumedEvents' = consumedEvents
  PROVE  EventsInv'
<1>1. CASE UNCHANGED publishing
  <2>1. events' = events /\ publishAttempts' = publishAttempts /\ droppedEvents' = droppedEvents
    BY ONLY <1>1 DEF publishing
  <2>2. QED
    BY <2>1, Zenon DEF EventsInv
<1>2. PICK a \in Nat, d \in Nat, c \in Nat, es \in Seq(Nat) :
        /\ a = publishAttempts /\ d = droppedEvents /\ c = consumedEvents /\ es = events
        /\ a = d + c + Len(es) /\ Len(es) <= EventLimit
  BY Zenon DEF EventsInv
<1>3. PICK l \in Nat : l = Len(es)
  OBVIOUS
<1>4. a = d + c + l /\ l <= EventLimit
  BY ONLY <1>2, <1>3, Zenon
<1>5. CASE /\ publishAttempts' = publishAttempts + 1
           /\ Len(events) < EventLimit /\ events' = Append(events, k)
           /\ droppedEvents' = droppedEvents
  <2>1. PutBehind(es, k, Append(es, k), Nat)
    BY ONLY es \in Seq(Nat), k \in Nat, AppendIs, ByteBaseAssumption
  <2>2. events' \in Seq(Nat) /\ Len(events') = l + 1
    BY ONLY <1>2, <1>3, <1>5, <2>1, Zenon DEF PutBehind
  <2>3. l < EventLimit
    BY ONLY <1>2, <1>3, <1>5
  <2>4. a + 1 = d + c + (l + 1) /\ l + 1 <= EventLimit /\ a + 1 \in Nat
    BY ONLY <1>4, <2>3, EventLimitAssumption, a \in Nat, d \in Nat, c \in Nat, l \in Nat
  <2>5. QED
    BY <1>2, <1>5, <2>2, <2>4, Zenon DEF EventsInv
<1>6. CASE /\ publishAttempts' = publishAttempts + 1
           /\ droppedEvents' = droppedEvents + 1 /\ events' = events
  <2>1. a + 1 = (d + 1) + c + l /\ a + 1 \in Nat /\ d + 1 \in Nat
    BY ONLY <1>4, a \in Nat, d \in Nat, c \in Nat, l \in Nat
  <2>2. QED
    BY <1>2, <1>3, <1>6, <2>1, Zenon DEF EventsInv
<1>7. QED
  BY <1>1, <1>5, <1>6, Zenon DEF OnMessage

(* The steps of the replay keep it, the queue included. *)
LEMMA ReplayRecordHolds ==
  ASSUME ReplayingInv, ReplayRecord, file' = file
  PROVE  ReplayingInv'
<1>1. EventsInv /\ ReadingInv /\ CountingInv
  BY DEF ReplayingInv
<1>2. PICK n \in Nat, p \in Seq(Nat) :
        Reads(n, p) /\ (Unsupported(p) \/ Malformed(p) \/ Decoded(p))
  BY <1>1, NextRecord
<1>3. ReadingInv' /\ CountingInv'
  BY <1>2, UnsupportedHolds, MalformedHolds, DecodedHolds
<1>4. /\ replay' = replay /\ replayStatus' = replayStatus /\ producerDone' = producerDone
      /\ consumer' = consumer /\ consumedEvents' = consumedEvents
  BY DEF ReplayRecord, consuming
<1>5. CASE Unsupported(p) \/ Malformed(p)
  <2>1. events' = events /\ publishAttempts' = publishAttempts /\ droppedEvents' = droppedEvents
    BY <1>5 DEF Unsupported, Malformed, publishing
  <2>2. EventsInv'
    BY ONLY <1>1, <1>4, <2>1, Zenon DEF EventsInv
  <2>3. QED
    BY ONLY <1>3, <2>2, Zenon DEF ReplayingInv
<1>6. CASE Decoded(p)
  <2>1. PICK k \in Nat : k = Len(delivered') /\ OnMessage(k)
    <3>1. Len(delivered') \in Nat
      <4>1. delivered' \in Seq(Decodings)
        BY ONLY <1>3, Zenon DEF ReadingInv
      <4>2. QED
        BY ONLY <4>1
    <3>2. OnMessage(Len(delivered'))
      BY <1>6, Zenon DEF Decoded
    <3>3. QED
      BY ONLY <3>1, <3>2, Zenon
  <2>2. EventsInv'
    BY <1>1, <1>4, <2>1, EventsGoOn
  <2>3. QED
    BY ONLY <1>3, <2>2, Zenon DEF ReplayingInv
<1>7. QED
  BY ONLY <1>2, <1>5, <1>6, Zenon

(* Nothing is read or counted when the file, and what was made of it, stay *)
(* and the replay does not begin again.                                    *)
LEMMA NothingRead ==
  ASSUME ReadingInv, CountingInv, file' = file, replayAt' = replayAt,
         replayStats' = replayStats, decodedByType' = decodedByType,
         unsupportedByType' = unsupportedByType, delivered' = delivered,
         replay' # "run" =>
           replay # "run" \/ replayStats["recordsRead"] = Len(file.payloads)
  PROVE  ReadingInv' /\ CountingInv'
<1>1. Unknown' = Unknown /\ (\A t : OfType(t)' = OfType(t))
  BY Zenon DEF Unknown, OfType
<1>2. CountingInv'
  BY <1>1, Zenon DEF CountingInv
<1>3. ReadingInv'
  <2>1. replay' # "run" => replayStats["recordsRead"] = Len(file.payloads)
    BY Zenon DEF ReadingInv
  <2>2. ReadSoFar' = ReadSoFar
    BY Zenon DEF ReadSoFar
  <2>3. QED
    BY <2>1, <2>2, Zenon DEF ReadingInv
<1>4. QED
  BY ONLY <1>2, <1>3

(* The reader finds no message only behind the last one. *)
LEMMA ReplayReturnsHolds ==
  ASSUME ReplayingInv, ReplayReturns, file' = file
  PROVE  ReplayingInv'
<1>1. EventsInv /\ ReadingInv /\ CountingInv
  BY DEF ReplayingInv
<1>2. /\ ReadNext(replayAt).status # "Message" /\ replay' = "returned"
      /\ replayStatus' = ReplayStatus(ReadNext(replayAt).status)
      /\ replayAt' = replayAt /\ replayStats' = replayStats /\ decodedByType' = decodedByType
      /\ unsupportedByType' = unsupportedByType /\ delivered' = delivered
      /\ producerDone' = producerDone /\ events' = events /\ publishAttempts' = publishAttempts
      /\ droppedEvents' = droppedEvents /\ consumer' = consumer
      /\ consumedEvents' = consumedEvents
  BY Zenon DEF ReplayReturns, publishing, consuming
<1>3. ReadNext(replayAt).status \in {"EndOfSession", "Incomplete", "Error"}
  <2>1. NothingMore.status \in {"Error", "Incomplete"}
    BY DEF NothingMore
  <2>2. QED
    BY <1>2, <2>1 DEF ReadNext
<1>4. replayStatus' \in {"Complete", "IncompleteStream", "StreamError"}
  BY ONLY <1>2, <1>3, Zenon DEF ReplayStatus
<1>5. PICK n \in Nat : n = replayStats["recordsRead"]
  <2>1. replayStats \in [ReplayCounters -> Nat] /\ "recordsRead" \in ReplayCounters
    BY <1>1 DEF ReadingInv, ReplayCounters
  <2>2. replayStats["recordsRead"] \in Nat
    BY ONLY <2>1
  <2>3. QED
    BY ONLY <2>2, Zenon
<1>6. IsRecording(file) /\ n <= Len(file.payloads) /\ replayAt = Len(Framed(Recorded(file, n)))
  BY <1>1, <1>5, Zenon DEF ReadingInv, ReadSoFar
<1>7. n = Len(file.payloads)
  <2>1. ReadsRecord(n)
    BY <1>6, ReadsTheFile
  <2>2. PICK l \in Nat : l = Len(file.payloads)
    <3>1. file.payloads \in Seq(Framable)
      BY <1>6, RecordingIs, SessionsAre
    <3>2. QED
      BY <3>1
  <2>3. ~(n < l)
    <3>1. ASSUME n < l PROVE FALSE
      <4>1. n < Len(file.payloads)
        BY ONLY <2>2, <3>1
      <4>2. ReadNext(replayAt) = [status |-> "Message", data |-> file.payloads[n + 1]]
        BY ONLY <1>6, <2>1, <4>1, Zenon DEF ReadsRecord, Recorded
      <4>3. QED
        BY ONLY <1>2, <4>2
    <3>2. QED
      BY ONLY <3>1
  <2>4. n <= l
    BY ONLY <1>6, <2>2
  <2>5. n = l
    BY ONLY <2>3, <2>4, n \in Nat, l \in Nat
  <2>6. QED
    BY ONLY <2>2, <2>5
<1>8. ReadingInv' /\ CountingInv'
  BY ONLY <1>1, <1>2, <1>5, <1>7, file' = file, NothingRead, ByteBaseAssumption, Zenon
<1>9. EventsInv'
  BY ONLY <1>1, <1>2, <1>4, Zenon DEF EventsInv
<1>10. QED
  BY ONLY <1>8, <1>9, Zenon DEF ReplayingInv

(* What main() does behind the replay keeps it. *)
LEMMA MainBehindHolds ==
  ASSUME ReplayingInv, TellConsumer \/ JoinConsumer, file' = file
  PROVE  ReplayingInv'
<1>1. EventsInv /\ ReadingInv /\ CountingInv
  BY DEF ReplayingInv
<1>2. /\ replay \in {"returned", "join"} /\ replay' \in {"join", "done"}
      /\ producerDone' \in {TRUE, producerDone}
      /\ replayStatus' = replayStatus
      /\ replayAt' = replayAt /\ replayStats' = replayStats /\ decodedByType' = decodedByType
      /\ unsupportedByType' = unsupportedByType /\ delivered' = delivered
      /\ events' = events /\ publishAttempts' = publishAttempts
      /\ droppedEvents' = droppedEvents /\ consumer' = consumer
      /\ consumedEvents' = consumedEvents
  BY Zenon DEF TellConsumer, JoinConsumer, publishing, consuming
<1>3. replay # "run" /\ replay' \in {"run", "returned", "join", "done"}
  BY ONLY <1>2
<1>4. ReadingInv' /\ CountingInv'
  BY ONLY <1>1, <1>2, <1>3, file' = file, NothingRead, ByteBaseAssumption, Zenon
<1>5. producerDone' \in BOOLEAN
  BY ONLY <1>1, <1>2, Zenon DEF EventsInv
<1>6. EventsInv'
  BY ONLY <1>1, <1>2, <1>3, <1>5, Zenon DEF EventsInv
<1>7. QED
  BY ONLY <1>4, <1>6, Zenon DEF ReplayingInv

(* The consumer keeps it. *)
LEMMA ConsumerHolds ==
  ASSUME ReplayingInv, ReplayConsumer, file' = file
  PROVE  ReplayingInv'
<1>1. EventsInv /\ ReadingInv /\ CountingInv
  BY DEF ReplayingInv
<1>2. /\ replay' = replay /\ replayStatus' = replayStatus /\ producerDone' = producerDone
      /\ replayAt' = replayAt /\ replayStats' = replayStats /\ decodedByType' = decodedByType
      /\ unsupportedByType' = unsupportedByType /\ delivered' = delivered
      /\ publishAttempts' = publishAttempts /\ droppedEvents' = droppedEvents
      /\ consumer' \in {"checkDone", "checkEmpty", "pop", "exited"}
      /\ \/ events' = events /\ consumedEvents' = consumedEvents
         \/ /\ events # <<>> /\ events' = Tail(events)
            /\ consumedEvents' = consumedEvents + 1
  <2>1. \E from, to \in {"checkDone", "checkEmpty", "pop", "exited"} : ConsumerAt(from, to)
    BY Zenon DEF ReplayConsumer, CheckDone, CheckEmpty, Pop
  <2>2. PICK from, to \in {"checkDone", "checkEmpty", "pop", "exited"} : ConsumerAt(from, to)
    BY ONLY <2>1, Zenon
  <2>3. \/ events' = events /\ consumedEvents' = consumedEvents
        \/ /\ events # <<>> /\ events' = Tail(events)
           /\ consumedEvents' = consumedEvents + 1
    BY DEF ReplayConsumer, CheckDone, CheckEmpty, Pop
  <2>4. QED
    BY ONLY <2>2, <2>3 DEF ConsumerAt, replayVars
<1>3. ReadingInv' /\ CountingInv'
  BY ONLY <1>1, <1>2, file' = file, NothingRead, ByteBaseAssumption, Zenon
<1>4. EventsInv'
  <2>1. CASE events' = events /\ consumedEvents' = consumedEvents
    BY ONLY <1>1, <1>2, <2>1, Zenon DEF EventsInv
  <2>2. CASE /\ events # <<>> /\ events' = Tail(events)
             /\ consumedEvents' = consumedEvents + 1
    <3>1. PICK a \in Nat, d \in Nat, c \in Nat, es \in Seq(Nat) :
            /\ a = publishAttempts /\ d = droppedEvents /\ c = consumedEvents /\ es = events
            /\ a = d + c + Len(es) /\ Len(es) <= EventLimit
      BY ONLY <1>1, Zenon DEF EventsInv
    <3>2. PICK l \in Nat : l = Len(es)
      OBVIOUS
    <3>3. events' \in Seq(Nat) /\ Len(events') = l - 1 /\ l >= 1
      BY ONLY <2>2, <3>1, <3>2, es \in Seq(Nat), l \in Nat
    <3>4. a = d + c + l /\ l <= EventLimit
      BY ONLY <3>1, <3>2, Zenon
    <3>5. a = d + (c + 1) + (l - 1) /\ l - 1 <= EventLimit /\ c + 1 \in Nat
      BY ONLY <3>3, <3>4, EventLimitAssumption, a \in Nat, d \in Nat, c \in Nat, l \in Nat
    <3>6. QED
      BY ONLY <1>1, <1>2, <2>2, <3>1, <3>3, <3>5, a \in Nat, d \in Nat, Zenon DEF EventsInv
  <2>3. QED
    BY ONLY <1>2, <2>1, <2>2
<1>5. QED
  BY ONLY <1>3, <1>4, Zenon DEF ReplayingInv

(* It holds at the beginning. *)
LEMMA ReplayingInvInit ==
  ASSUME SessionInit
  PROVE  ReplayingInv
<1>1. IsRecording(file)
  <2>1. file \in Files \cup GapFiles
    BY Zenon DEF SessionInit
  <2>2. QED
    BY <2>1, FilesAssumption
<1>2. /\ replay = "run" /\ replayAt = 0 /\ replayStatus = "StreamError"
      /\ replayStats = [c \in {"recordsRead", "decoded", "unsupported", "malformed"} |-> 0]
      /\ decodedByType = [t \in Types |-> 0] /\ unsupportedByType = [t \in {} |-> 0]
      /\ delivered = <<>> /\ producerDone = FALSE
      /\ events = <<>> /\ publishAttempts = 0 /\ droppedEvents = 0
      /\ consumer = "checkDone" /\ consumedEvents = 0
  BY Zenon DEF SessionInit, ReplayInit
<1>3. EventsInv
  <2>1. <<>> \in Seq(Nat) /\ Len(<<>>) = 0
    OBVIOUS
  <2>2. 0 \in Nat /\ 0 <= EventLimit /\ 0 = 0 + 0 + 0 /\ FALSE \in BOOLEAN
    BY ONLY EventLimitAssumption
  <2>3. QED
    BY ONLY <1>2, <2>1, <2>2, Zenon DEF EventsInv
<1>4. PICK ps \in Sessions : ps = file.payloads
  BY <1>1, RecordingIs, Zenon
<1>5. /\ replayStats \in [ReplayCounters -> Nat] /\ replayStats["recordsRead"] = 0
      /\ replayStats["decoded"] = 0 /\ replayStats["unsupported"] = 0
      /\ replayStats["malformed"] = 0
  BY ONLY <1>2 DEF ReplayCounters
<1>6. ReadSoFar = <<>>
  <2>1. SubSeq(ps, 1, 0) = <<>>
    BY DEF Sessions
  <2>2. QED
    BY ONLY <1>4, <1>5, <2>1, Zenon DEF ReadSoFar, Recorded
<1>7. replayAt = Len(Framed(ReadSoFar))
  <2>1. Len(<<>>) = 0
    OBVIOUS
  <2>2. QED
    BY ONLY <1>2, <1>6, <2>1, FramedEmpty, ByteBaseAssumption, Zenon
<1>8. delivered \in Seq(Decodings) /\ Len(delivered) = 0 /\ DOMAIN delivered = {}
  BY ONLY <1>2
<1>9. Written(delivered) = ThatDecode(ReadSoFar)
  <2>1. Written(delivered) = <<>>
    BY ONLY <1>8 DEF Written
  <2>2. ThatDecode(<<>>) = <<>>
    <3>1. <<>> \in Seq(Seq(Nat)) /\ Len(<<>>) = 0
      OBVIOUS
    <3>2. Pieces(<<>>) \in Seq(Seq(Seq(Nat))) /\ Len(Pieces(<<>>)) = 0
          /\ ThatDecode(<<>>) = FlattenSeq(Pieces(<<>>))
      BY <3>1, PiecesAre
    <3>3. Pieces(<<>>) = <<>>
      BY ONLY <3>2
    <3>4. QED
      BY ONLY <3>2, <3>3, FlattenEmpty, ByteBaseAssumption, Zenon
  <2>3. QED
    BY ONLY <1>6, <2>1, <2>2, Zenon
<1>10. 0 <= Len(file.payloads)
  BY <1>4 DEF Sessions
<1>11. ReadingInv
  BY ONLY <1>1, <1>2, <1>5, <1>7, <1>8, <1>9, <1>10, Zenon DEF ReadingInv
<1>12. \A S : Counted(0, S) = 0
  <2>1. TAKE S
  <2>2. \A i \in 1 .. 0 : i \notin S
    OBVIOUS
  <2>3. QED
    BY <2>2, NoneCounted
<1>13. \A t : TypeCount(delivered, t) = 0
  <2>1. TAKE t
  <2>2. {i \in DOMAIN delivered : delivered[i].type = t} = {}
    BY ONLY <1>8, Zenon
  <2>3. QED
    BY ONLY <2>2, FS_EmptySet, Zenon DEF TypeCount
<1>14. CountingInv
  <2>1. 1 .. 0 = {}
    OBVIOUS
  <2>2. {file.payloads[n][1] : n \in (1 .. 0) \cap Unknown} = {}
    BY ONLY <2>1, Zenon
  <2>3. DOMAIN unsupportedByType = {}
    BY ONLY <1>2
  <2>4. decodedByType \in [Types -> Nat] /\ \A t \in Types : decodedByType[t] = 0
    BY ONLY <1>2
  <2>5. 0 = 0 + 0 + 0
    OBVIOUS
  <2>6. QED
    BY ONLY <1>5, <1>8, <1>12, <1>13, <2>2, <2>3, <2>4, <2>5, Zenon DEF CountingInv
<1>15. QED
  BY ONLY <1>3, <1>11, <1>14, Zenon DEF ReplayingInv

(* And from then on, whichever program runs. *)
LEMMA ReplayingInvStep ==
  ASSUME ReplayingInv, [SessionNext]_sessionVars
  PROVE  ReplayingInv'
<1>1. ASSUME file' = file, replayAppVars' = replayAppVars
      PROVE  ReplayingInv'
  <2>1. EventsInv /\ ReadingInv /\ CountingInv
    BY DEF ReplayingInv
  <2>2. replayVars' = replayVars /\ producerDone' = producerDone /\ publishing' = publishing
        /\ consuming' = consuming
    BY ONLY <1>1 DEF replayAppVars
  <2>3. /\ replay' = replay /\ replayStatus' = replayStatus /\ producerDone' = producerDone
        /\ replayAt' = replayAt /\ replayStats' = replayStats /\ decodedByType' = decodedByType
        /\ unsupportedByType' = unsupportedByType /\ delivered' = delivered
        /\ publishAttempts' = publishAttempts /\ droppedEvents' = droppedEvents
        /\ events' = events /\ consumer' = consumer /\ consumedEvents' = consumedEvents
    BY ONLY <2>2 DEF replayVars, publishing, consuming
  <2>4. ReadingInv' /\ CountingInv'
    BY ONLY <1>1, <2>1, <2>3, NothingRead, ByteBaseAssumption, Zenon
  <2>5. EventsInv'
    BY ONLY <2>1, <2>3, Zenon DEF EventsInv
  <2>6. QED
    BY ONLY <2>4, <2>5, Zenon DEF ReplayingInv
<1>2. CASE ReplayMainThread
  <2>1. file' = file /\ ReplayMain
    BY <1>2, Zenon DEF ReplayMainThread
  <2>2. CASE ReplayRecord
    BY <2>1, <2>2, ReplayRecordHolds
  <2>3. CASE ReplayReturns
    BY <2>1, <2>3, ReplayReturnsHolds
  <2>4. CASE TellConsumer \/ JoinConsumer
    BY <2>1, <2>4, MainBehindHolds
  <2>5. QED
    BY ONLY <2>1, <2>2, <2>3, <2>4, Zenon DEF ReplayMain
<1>3. CASE ReplayConsumerThread
  <2>1. file' = file /\ ReplayConsumer
    BY <1>3, Zenon DEF ReplayConsumerThread
  <2>2. QED
    BY <2>1, ConsumerHolds
<1>4. CASE LoadGen
  BY ONLY <1>1, <1>4, Zenon DEF LoadGen
<1>5. CASE GapReplay
  BY ONLY <1>1, <1>5, Zenon DEF GapReplay
<1>6. CASE UNCHANGED sessionVars
  <2>1. file' = file /\ replayAppVars' = replayAppVars
    BY ONLY <1>6 DEF sessionVars
  <2>2. QED
    BY ONLY <1>1, <2>1
<1>7. CASE Finished
  BY <1>6, <1>7, Zenon DEF Finished
<1>8. QED
  BY <1>2, <1>3, <1>4, <1>5, <1>6, <1>7, Zenon DEF SessionNext

(* The replay gives the market state what the file holds and can be        *)
(* decoded, every field with the bytes it had, in the order of the file;   *)
(* it leaves out no record before one that cannot be read, and its report  *)
(* adds up at every step, whatever the consumer does meanwhile.            *)
THEOREM ReplayIsFaithful == SessionSpec => []ReplayInv
<1>1. SessionInit => ReplayingInv
  BY ReplayingInvInit
<1>2. ReplayingInv /\ [SessionNext]_sessionVars => ReplayingInv'
  BY ReplayingInvStep
<1>3. ReplayingInv => ReplayInv
  BY ReplayingInvImplies
<1>4. QED
  BY <1>1, <1>2, <1>3, PTL DEF SessionSpec
-----------------------------------------------------------------------------
(* The UDP replayer and the feed that fills its gaps *)

(* The datagram of record n. *)
SentBy(f, n) == Encode([seq |-> n, body |-> f.payloads[n]])

(* A datagram is taken for the number and the payload it was made from. *)
LEMMA DecodesWhatWasEncoded ==
  ASSUME NEW n \in Nat, FitsIn(8, n), NEW body \in Seq(Nat),
         Len(body) \in 0 .. MaxU16, Len(body) <= MaxPayloadSize
  PROVE  /\ Encode([seq |-> n, body |-> body]) \in Seq(Nat)
         /\ DecodesPacket(Encode([seq |-> n, body |-> body]))
         /\ DecodePacket(Encode([seq |-> n, body |-> body])) = [seq |-> n, body |-> body]
<1>1. PICK l \in 0 .. MaxU16 : l = Len(body)
  OBVIOUS
<1>2. l \in Nat
  BY FitsU16
<1>3. PICK a \in Seq(Nat) : a = WriteU64(n) /\ Len(a) = 8
  BY WriteU64Is
<1>4. PICK b \in Seq(Nat) : b = WriteU16(l) /\ Len(b) = 2
  BY <1>2, WriteU16Is
<1>5. /\ a \o b \in Seq(Nat) /\ Len(a \o b) = 8 + 2
      /\ Holds(a \o b, 0, a) /\ Holds(a \o b, 8, b)
  <2>1. /\ a \o b \in Seq(Nat) /\ Len(a \o b) = Len(a) + Len(b)
        /\ Holds(a \o b, 0, a) /\ Holds(a \o b, Len(a), b)
    BY ONLY HoldsJoined, a \in Seq(Nat), b \in Seq(Nat), ByteBaseAssumption
  <2>2. QED
    BY ONLY <1>3, <1>4, <2>1, Zenon
<1>6. PICK h \in Seq(Nat) : h = a \o b /\ Len(h) = 10 /\ Holds(h, 0, a) /\ Holds(h, 8, b)
  <2>1. 8 + 2 = 10
    OBVIOUS
  <2>2. QED
    BY ONLY <1>3, <1>4, <1>5, <2>1, Zenon
<1>7. /\ h \o body \in Seq(Nat) /\ Len(h \o body) = 10 + l
      /\ Holds(h \o body, 0, h) /\ Holds(h \o body, 10, body)
  BY ONLY <1>1, <1>6, HoldsJoined, ByteBaseAssumption, h \in Seq(Nat), body \in Seq(Nat)
<1>8. PICK d \in Seq(Nat) : /\ d = h \o body /\ Len(d) = 10 + l
                            /\ Holds(d, 0, h) /\ Holds(d, 10, body)
  BY ONLY <1>7, Zenon
<1>9. Len(d) \in Nat /\ 0 \in Nat /\ 8 \in Nat /\ 10 \in Nat /\ 0 = 0 + 0
  BY ONLY <1>2, <1>8
<1>10. Holds(d, 0, a)
  BY ONLY <1>6, <1>8, <1>9, HoldsWithin, ByteBaseAssumption, h \in Seq(Nat), a \in Seq(Nat)
<1>11. Holds(d, 8, b)
  <2>1. PICK z \in Nat, e \in Nat : z = 0 /\ e = 8 /\ e = z + e
    OBVIOUS
  <2>2. Holds(d, z, h) /\ Holds(h, e, b)
    BY ONLY <1>6, <1>8, <2>1, Zenon
  <2>3. Holds(d, e, b)
    BY ONLY <1>9, <2>1, <2>2, HoldsWithin, ByteBaseAssumption, h \in Seq(Nat), b \in Seq(Nat)
  <2>4. QED
    BY ONLY <2>1, <2>3
<1>12. ReadU64(d, 0) = n
  BY ONLY <1>3, <1>9, <1>10, HoldsU64, ByteBaseAssumption, n \in Nat, FitsIn(8, n)
<1>13. ReadU16(d, 8) = l
  BY ONLY <1>4, <1>9, <1>11, HoldsU16, ByteBaseAssumption, l \in 0 .. MaxU16
<1>14. Part(d, 11, Len(d)) = body
  <2>1. PICK x \in Nat, y \in Nat : x = 10 /\ y = 11 /\ y = x + 1
    OBVIOUS
  <2>2. PICK z \in Nat : z = Len(d) /\ z = x + Len(body)
    BY ONLY <1>1, <1>2, <1>8, <2>1
  <2>3. Holds(d, x, body)
    BY ONLY <1>8, <2>1, Zenon
  <2>4. Part(d, y, z) = body
    BY ONLY <2>1, <2>2, <2>3, HoldsPart, ByteBaseAssumption, d \in Seq(Nat), body \in Seq(Nat)
  <2>5. QED
    BY ONLY <2>1, <2>2, <2>4
<1>15. Encode([seq |-> n, body |-> body]) = d
  <2>1. [seq |-> n, body |-> body].seq = n /\ [seq |-> n, body |-> body].body = body
    OBVIOUS
  <2>2. QED
    BY ONLY <1>1, <1>3, <1>4, <1>6, <1>8, <2>1, Zenon DEF Encode
<1>16. DecodesPacket(d)
  <2>1. Len(d) >= 10 /\ ReadU16(d, 8) <= MaxPayloadSize /\ Len(d) = 10 + ReadU16(d, 8)
    BY ONLY <1>1, <1>2, <1>8, <1>13, Len(body) <= MaxPayloadSize
  <2>2. QED
    BY ONLY <2>1 DEF DecodesPacket, UdpHeaderSize
<1>17. DecodePacket(d) = [seq |-> n, body |-> body]
  <2>1. 10 + 1 = 11
    OBVIOUS
  <2>2. QED
    BY ONLY <1>12, <1>14, <2>1, Zenon DEF DecodePacket, UdpHeaderSize, Part
<1>18. QED
  BY ONLY <1>15, <1>16, <1>17, d \in Seq(Nat), Zenon

(* Nothing of a set between two numbers: both count the same. *)
LEMMA CountStays ==
  ASSUME NEW m \in Nat, NEW n \in Nat, m <= n, NEW S, \A k \in m + 1 .. n : k \notin S
  PROVE  Counted(n, S) = Counted(m, S)
<1>1. ASSUME NEW k \in 1 .. n, k \in S PROVE k \in 1 .. m
  <2>1. k \notin m + 1 .. n
    BY <1>1
  <2>2. QED
    BY ONLY <2>1, k \in 1 .. n, m \in Nat, n \in Nat, m <= n
<1>2. \A k \in 1 .. m : k \in 1 .. n
  OBVIOUS
<1>3. (1 .. n) \cap S = (1 .. m) \cap S
  BY ONLY <1>1, <1>2
<1>4. QED
  BY ONLY <1>3, Zenon DEF Counted

(* Of the numbers between two the first alone is in a set. *)
LEMMA OneMoreCounted ==
  ASSUME NEW m \in Nat, NEW n \in Nat, m < n, NEW S, m + 1 \in S,
         \A k \in m + 2 .. n : k \notin S
  PROVE  Counted(n, S) = Counted(m, S) + 1
<1>1. Counted(m + 1, S) = Counted(m, S) + 1
  BY CountGoesOn
<1>2. m + 1 \in Nat /\ m + 1 <= n /\ (m + 1) + 1 = m + 2
  OBVIOUS
<1>3. Counted(n, S) = Counted(m + 1, S)
  BY ONLY <1>2, CountStays, \A k \in m + 2 .. n : k \notin S, ByteBaseAssumption, n \in Nat
<1>4. QED
  BY ONLY <1>1, <1>3
-----------------------------------------------------------------------------
(* The numbers that are sent *)

(* Those no range holds. *)
KeptBy(s) == {n \in Nat \ {0} :
                \A i \in DOMAIN s.ranges : ~(s.ranges[i][1] <= n /\ n <= s.ranges[i][2])}

(* Where a stretch of numbers left out begins behind one that is kept, and *)
(* what is left out behind the first number.                               *)
Starts(K) == {n \in Nat : n \notin K /\ n - 1 \in K}
LeftOutBehind(K, first) == {n \in Nat : n > first /\ n \notin K}

FirstOf(K, n) == n \in K /\ \A k \in 1 .. n - 1 : k \notin K

(* A first number that is kept, one behind which the next that is kept is  *)
(* `last', and that.                                                       *)
Sits(K, first, done, last) ==
  /\ first \in Nat /\ done \in Nat /\ last \in Nat
  /\ FirstOf(K, first) /\ last \in K /\ first <= last
  /\ first <= done + 1 /\ done <= last
  /\ \A k \in done + 1 .. last - 1 : k \notin K

(* Numbers in a queue: those that are kept behind `last', up to `top'.     *)
Line(K, last, top, w) ==
  /\ w \in Seq(Nat)
  /\ \A i \in 1 .. Len(w) : w[i] \in K /\ last < w[i] /\ w[i] <= top
  /\ \A i, j \in 1 .. Len(w) : i < j => w[i] < w[j]
  /\ \A n \in K : last < n /\ n <= top => \E i \in 1 .. Len(w) : w[i] = n

(* None are waiting. *)
LEMMA LineEmpty ==
  ASSUME NEW K \in SUBSET Nat, NEW n \in Nat
  PROVE  Line(K, n, n, <<>>)
BY DEF Line

(* A number that is left out does not queue. *)
LEMMA LineSkips ==
  ASSUME NEW K \in SUBSET Nat, NEW last \in Nat, NEW top \in Nat, NEW w,
         Line(K, last, top, w), top + 1 \notin K
  PROVE  Line(K, last, top + 1, w)
<1>1. \A n \in K : n <= top + 1 => n <= top
  OBVIOUS
<1>2. w \in Seq(Nat)
  BY DEF Line
<1>3. \A i \in 1 .. Len(w) : w[i] \in Nat
  BY <1>2
<1>4. \A i \in 1 .. Len(w) : w[i] <= top + 1
  BY <1>3 DEF Line
<1>5. QED
  BY ONLY <1>1, <1>4, Line(K, last, top, w), Zenon DEF Line

(* One that is kept queues behind the others. *)
LEMMA LineGrows ==
  ASSUME NEW K \in SUBSET Nat, NEW last \in Nat, NEW top \in Nat, NEW w,
         Line(K, last, top, w), top + 1 \in K, last <= top
  PROVE  Line(K, last, top + 1, Append(w, top + 1))
<1>1. /\ w \in Seq(Nat) /\ \A i \in 1 .. Len(w) : w[i] \in K /\ last < w[i] /\ w[i] <= top
      /\ \A i, j \in 1 .. Len(w) : i < j => w[i] < w[j]
      /\ \A n \in K : last < n /\ n <= top => \E i \in 1 .. Len(w) : w[i] = n
  BY ONLY Line(K, last, top, w), Zenon DEF Line
<1>2. PutBehind(w, top + 1, Append(w, top + 1), Nat)
  BY <1>1, AppendIs
<1>3. PICK v \in Seq(Nat) : v = Append(w, top + 1)
  BY ONLY <1>2, Zenon DEF PutBehind
<1>4. PICK l \in Nat : l = Len(w)
  BY <1>1
<1>5. Len(v) = l + 1 /\ v[l + 1] = top + 1 /\ \A i \in 1 .. l : v[i] = w[i]
  BY ONLY <1>2, <1>3, <1>4, Zenon DEF PutBehind
<1>6. \A i \in 1 .. l : v[i] \in Nat /\ v[i] \in K /\ last < v[i] /\ v[i] <= top
  BY ONLY <1>1, <1>4, <1>5, K \in SUBSET Nat
<1>7. \A i \in 1 .. l + 1 : v[i] \in K /\ last < v[i] /\ v[i] <= top + 1
  <2>1. TAKE i \in 1 .. l + 1
  <2>2. CASE i = l + 1
    BY ONLY <1>5, <2>2, top + 1 \in K, last <= top, last \in Nat, top \in Nat
  <2>3. CASE i # l + 1
    <3>1. i \in 1 .. l
      BY <2>3
    <3>2. QED
      BY ONLY <1>6, <3>1, top \in Nat
  <2>4. QED
    BY ONLY <2>2, <2>3
<1>8. ASSUME NEW i \in 1 .. l + 1, NEW j \in 1 .. l + 1, i < j PROVE v[i] < v[j]
  <2>1. i \in 1 .. l
    BY <1>8
  <2>2. CASE j = l + 1
    <3>1. v[j] = top + 1 /\ v[i] \in Nat /\ v[i] <= top
      BY ONLY <1>5, <1>6, <2>1, <2>2
    <3>2. QED
      BY ONLY <3>1, top \in Nat
  <2>3. CASE j # l + 1
    <3>1. j \in 1 .. l
      BY <2>3
    <3>2. QED
      BY ONLY <1>1, <1>4, <1>5, <1>8, <2>1, <3>1, Zenon
  <2>4. QED
    BY ONLY <2>2, <2>3
<1>9. ASSUME NEW n \in K, last < n, n <= top + 1 PROVE \E i \in 1 .. l + 1 : v[i] = n
  <2>1. CASE n = top + 1
    <3>1. l + 1 \in 1 .. l + 1
      OBVIOUS
    <3>2. QED
      BY ONLY <1>5, <2>1, <3>1
  <2>2. CASE n # top + 1
    <3>1. n <= top
      BY <1>9, <2>2
    <3>2. PICK i \in 1 .. l : w[i] = n
      BY ONLY <1>1, <1>4, <1>9, <3>1, n \in K, Zenon
    <3>3. i \in 1 .. l + 1
      OBVIOUS
    <3>4. QED
      BY ONLY <1>5, <3>2, <3>3
  <2>3. QED
    BY ONLY <2>1, <2>2
<1>10. Line(K, last, top + 1, v)
  BY ONLY <1>5, <1>7, <1>8, <1>9, v \in Seq(Nat), Zenon DEF Line
<1>11. QED
  BY ONLY <1>3, <1>10, Zenon

(* The first in the queue is the next that is kept, and the others wait    *)
(* behind it.                                                              *)
LEMMA LineMoves ==
  ASSUME NEW K \in SUBSET Nat, NEW last \in Nat, NEW top \in Nat, NEW w,
         Line(K, last, top, w), w # <<>>
  PROVE  /\ Head(w) \in K /\ last < Head(w) /\ Head(w) <= top
         /\ \A k \in last + 1 .. Head(w) - 1 : k \notin K
         /\ Line(K, Head(w), top, Tail(w))
<1>1. /\ w \in Seq(Nat) /\ \A i \in 1 .. Len(w) : w[i] \in K /\ last < w[i] /\ w[i] <= top
      /\ \A i, j \in 1 .. Len(w) : i < j => w[i] < w[j]
      /\ \A n \in K : last < n /\ n <= top => \E i \in 1 .. Len(w) : w[i] = n
  BY ONLY Line(K, last, top, w), Zenon DEF Line
<1>2. PICK l \in Nat : Len(w) = l + 1
  <2>1. Len(w) \in Nat /\ Len(w) # 0
    BY ONLY <1>1, w # <<>>
  <2>2. Len(w) - 1 \in Nat /\ Len(w) = (Len(w) - 1) + 1
    BY ONLY <2>1
  <2>3. QED
    BY ONLY <2>2, Zenon
<1>3. PICK t \in Seq(Nat) : t = Tail(w) /\ Len(t) = l /\ \A i \in 1 .. l : t[i] = w[i + 1]
  <2>1. /\ Tail(w) \in Seq(Nat) /\ Len(Tail(w)) = Len(w) - 1
        /\ \A i \in 1 .. Len(Tail(w)) : Tail(w)[i] = w[i + 1]
    BY ONLY <1>1, w # <<>>, HeadTailProperties
  <2>2. Len(Tail(w)) = l
    BY ONLY <1>2, <2>1, l \in Nat
  <2>3. QED
    BY ONLY <2>1, <2>2, Zenon
<1>4. PICK h \in Nat : h = Head(w) /\ h = w[1]
  BY ONLY <1>1, w # <<>>, HeadTailProperties
<1>5. 1 \in 1 .. l + 1 /\ \A i \in 1 .. l : i + 1 \in 1 .. l + 1 /\ 1 < i + 1
  OBVIOUS
<1>6. h \in K /\ last < h /\ h <= top
  BY ONLY <1>1, <1>2, <1>4, <1>5
<1>7. \A i \in 1 .. l + 1 : w[i] = h \/ h < w[i]
  <2>1. TAKE i \in 1 .. l + 1
  <2>2. i = 1 \/ 1 < i
    OBVIOUS
  <2>3. QED
    BY ONLY <1>1, <1>2, <1>4, <1>5, <2>2, i \in 1 .. l + 1
<1>8. ASSUME NEW k \in last + 1 .. h - 1, k \in K PROVE FALSE
  <2>1. last < k /\ k <= top /\ k < h /\ k \in Nat
    BY <1>6
  <2>2. PICK i \in 1 .. l + 1 : w[i] = k
    BY ONLY <1>1, <1>2, <1>8, <2>1, Zenon
  <2>3. QED
    BY ONLY <1>7, <2>1, <2>2, h \in Nat
<1>9. \A i \in 1 .. l : t[i] \in K /\ h < t[i] /\ t[i] <= top
  BY ONLY <1>1, <1>2, <1>3, <1>4, <1>5
<1>10. \A i, j \in 1 .. l : i < j => t[i] < t[j]
  <2>1. TAKE i \in 1 .. l, j \in 1 .. l
  <2>2. i < j => i + 1 < j + 1
    OBVIOUS
  <2>3. QED
    BY ONLY <1>1, <1>2, <1>3, <1>5, <2>2, i \in 1 .. l, j \in 1 .. l
<1>11. ASSUME NEW n \in K, h < n, n <= top PROVE \E i \in 1 .. l : t[i] = n
  <2>1. last < n
    BY ONLY <1>6, <1>11, h \in Nat, last \in Nat, n \in K, K \in SUBSET Nat
  <2>2. PICK i \in 1 .. l + 1 : w[i] = n
    BY ONLY <1>1, <1>2, <1>11, <2>1, n \in K, Zenon
  <2>3. i # 1
    BY ONLY <1>4, <1>11, <2>2, h \in Nat
  <2>4. i - 1 \in 1 .. l /\ (i - 1) + 1 = i
    BY <2>3
  <2>5. t[i - 1] = n
    BY ONLY <1>3, <2>2, <2>4
  <2>6. QED
    BY ONLY <2>4, <2>5
<1>12. Line(K, h, top, t)
  BY ONLY <1>3, <1>9, <1>10, <1>11, t \in Seq(Nat), Zenon DEF Line
<1>13. QED
  BY ONLY <1>3, <1>4, <1>6, <1>8, <1>12, Zenon
-----------------------------------------------------------------------------
(* Up to the first that is kept nothing was left out behind one. *)
LEMMA NothingLeftOutYet ==
  ASSUME NEW K \in SUBSET (Nat \ {0}), NEW n \in Nat, FirstOf(K, n)
  PROVE  /\ Counted(n, Starts(K)) = 0
         /\ Counted(n - 1, LeftOutBehind(K, n)) = 0
<1>1. n \in K /\ n # 0 /\ 0 \notin K
  BY DEF FirstOf
<1>2. \A i \in 1 .. n : i \notin Starts(K)
  <2>1. TAKE i \in 1 .. n
  <2>2. CASE i = n
    BY <1>1, <2>2 DEF Starts
  <2>3. CASE i # n
    <3>1. i - 1 = 0 \/ i - 1 \in 1 .. n - 1
      BY <2>3
    <3>2. i - 1 \notin K
      BY <1>1, <3>1 DEF FirstOf
    <3>3. QED
      BY <3>2 DEF Starts
  <2>4. QED
    BY <2>2, <2>3
<1>3. \A i \in 1 .. n - 1 : i \notin LeftOutBehind(K, n)
  BY DEF LeftOutBehind
<1>4. n - 1 \in Nat
  BY <1>1
<1>5. QED
  BY <1>2, <1>3, <1>4, NoneCounted

(* Between one that is kept and the next there is a stretch, or none. *)
LEMMA StretchCounted ==
  ASSUME NEW K \in SUBSET (Nat \ {0}), NEW done \in K, NEW last \in K, done < last,
         \A k \in done + 1 .. last - 1 : k \notin K
  PROVE  Counted(last, Starts(K)) = Counted(done, Starts(K)) + (IF last = done + 1 THEN 0 ELSE 1)
<1>1. done \in Nat /\ last \in Nat /\ done <= last
  OBVIOUS
<1>2. ASSUME NEW k \in done + 2 .. last PROVE k \notin Starts(K)
  <2>1. CASE k = last
    BY <2>1 DEF Starts
  <2>2. CASE k # last
    <3>1. k - 1 \in done + 1 .. last - 1
      BY <1>1, <2>2
    <3>2. QED
      BY <3>1 DEF Starts
  <2>3. QED
    BY <2>1, <2>2
<1>3. CASE last = done + 1
  <2>1. \A k \in done + 1 .. last : k \notin Starts(K)
    BY <1>1, <1>3 DEF Starts
  <2>2. Counted(last, Starts(K)) = Counted(done, Starts(K))
    BY ONLY <1>1, <2>1, CountStays, ByteBaseAssumption
  <2>3. Counted(done, Starts(K)) \in Nat
    BY <1>1, CountedIs
  <2>4. QED
    BY ONLY <1>3, <2>2, <2>3
<1>4. CASE last # done + 1
  <2>1. done + 1 \in done + 1 .. last - 1 /\ done + 1 \in Nat /\ (done + 1) - 1 = done
    BY <1>1, <1>4
  <2>2. done + 1 \in Starts(K)
    BY <2>1 DEF Starts
  <2>3. Counted(last, Starts(K)) = Counted(done, Starts(K)) + 1
    BY ONLY <1>1, <1>2, <2>2, done < last, OneMoreCounted, ByteBaseAssumption
  <2>4. QED
    BY ONLY <1>4, <2>3
<1>5. QED
  BY <1>3, <1>4

(* One number more behind the first, left out or kept. *)
LEMMA LeftOutCounted ==
  ASSUME NEW K \in SUBSET (Nat \ {0}), NEW first \in Nat, NEW n \in Nat, first <= n
  PROVE  /\ n + 1 \notin K => Counted(n + 1, LeftOutBehind(K, first))
                              = Counted(n, LeftOutBehind(K, first)) + 1
         /\ n + 1 \in K => Counted(n + 1, LeftOutBehind(K, first))
                           = Counted(n, LeftOutBehind(K, first))
<1>1. n + 1 \in LeftOutBehind(K, first) <=> n + 1 \notin K
  BY DEF LeftOutBehind
<1>2. PICK S : S = LeftOutBehind(K, first)
  OBVIOUS
<1>3. Counted(n, S) \in Nat
  BY CountedIs
<1>4. Counted(n + 1, S) = Counted(n, S) + (IF n + 1 \in S THEN 1 ELSE 0)
  BY CountGoesOn
<1>5. QED
  BY ONLY <1>1, <1>2, <1>3, <1>4
-----------------------------------------------------------------------------
(* The numbers from one to another. *)
Consecutive(first, last) == [i \in 1 .. last - first + 1 |-> first + i - 1]

(* They follow each other, and none is missing. *)
LEMMA ConsecutiveIs ==
  ASSUME NEW first \in Nat, NEW last \in Nat, first <= last + 1
  PROVE  /\ Consecutive(first, last) \in Seq(Nat) /\ Len(Consecutive(first, last)) = last - first + 1
         /\ \A i \in 1 .. last - first + 1 : Consecutive(first, last)[i] = first + i - 1
<1>1. last - first + 1 \in Nat /\ \A i \in 1 .. last - first + 1 : first + i - 1 \in Nat
  OBVIOUS
<1>2. QED
  BY <1>1 DEF Consecutive

(* None, before the first is given. *)
LEMMA ConsecutiveNone ==
  ASSUME NEW first \in Nat \ {0}
  PROVE  Consecutive(first, first - 1) = <<>>
<1>1. (first - 1) - first + 1 = 0
  OBVIOUS
<1>2. QED
  BY <1>1 DEF Consecutive

(* The next one given is added at the end. *)
LEMMA ConsecutiveGoesOn ==
  ASSUME NEW first \in Nat, NEW last \in Nat, first <= last + 1
  PROVE  Append(Consecutive(first, last), last + 1) = Consecutive(first, last + 1)
<1>1. PICK s \in Seq(Nat) : s = Consecutive(first, last)
  BY ConsecutiveIs
<1>2. PICK n \in Nat : n = last - first + 1
  OBVIOUS
<1>3. Len(s) = n /\ \A i \in 1 .. n : s[i] = first + i - 1
  BY ONLY <1>1, <1>2, ConsecutiveIs, ByteBaseAssumption, first \in Nat, last \in Nat, first <= last + 1
<1>4. PutBehind(s, last + 1, Append(s, last + 1), Nat)
  BY AppendIs
<1>5. PICK t \in Seq(Nat) : t = Append(s, last + 1)
  BY ONLY <1>4, Zenon DEF PutBehind
<1>6. DOMAIN t = 1 .. n + 1 /\ t[n + 1] = last + 1 /\ \A i \in 1 .. n : t[i] = s[i]
  BY ONLY <1>3, <1>4, <1>5, Zenon DEF PutBehind
<1>7. \A i \in 1 .. n + 1 : t[i] = first + i - 1
  <2>1. TAKE i \in 1 .. n + 1
  <2>2. CASE i = n + 1
    BY ONLY <1>2, <1>6, <2>2, first \in Nat, last \in Nat, n \in Nat
  <2>3. CASE i # n + 1
    <3>1. i \in 1 .. n
      BY <2>3
    <3>2. QED
      BY ONLY <1>3, <1>6, <3>1
  <2>4. QED
    BY <2>2, <2>3
<1>8. t = [i \in 1 .. n + 1 |-> t[i]]
  BY ONLY <1>6, t \in Seq(Nat)
<1>9. t = [i \in 1 .. n + 1 |-> first + i - 1]
  BY ONLY <1>7, <1>8
<1>10. (last + 1) - first + 1 = n + 1
  BY ONLY <1>2, first \in Nat, last \in Nat
<1>11. QED
  BY ONLY <1>1, <1>5, <1>9, <1>10, Zenon DEF Consecutive
-----------------------------------------------------------------------------
(* The datagrams of the records of these numbers. *)
Datagrams(f, w) == [i \in DOMAIN w |-> SentBy(f, w[i])]

(* Records of a session, which datagrams can carry. *)
Carries(f, w) ==
  /\ w \in Seq(Nat)
  /\ \A i \in 1 .. Len(w) : /\ w[i] \in 1 .. Len(f.payloads) /\ FitsIn(8, w[i])
                            /\ f.payloads[w[i]] \in Framable
                            /\ Len(f.payloads[w[i]]) <= MaxPayloadSize

(* A record of a file that can be sent is decoded as it was encoded. *)
LEMMA SentByIs ==
  ASSUME NEW f, NEW n \in Nat, FitsIn(8, n), f.payloads[n] \in Framable,
         Len(f.payloads[n]) <= MaxPayloadSize
  PROVE  /\ SentBy(f, n) \in Seq(Nat) /\ DecodesPacket(SentBy(f, n))
         /\ DecodePacket(SentBy(f, n)) = [seq |-> n, body |-> f.payloads[n]]
<1>1. PICK p \in Framable : p = f.payloads[n]
  OBVIOUS
<1>2. p \in Seq(Nat) /\ Len(p) \in 0 .. MaxU16
  BY DEF Framable
<1>3. Len(p) <= MaxPayloadSize
  BY <1>1
<1>4. /\ Encode([seq |-> n, body |-> p]) \in Seq(Nat)
      /\ DecodesPacket(Encode([seq |-> n, body |-> p]))
      /\ DecodePacket(Encode([seq |-> n, body |-> p])) = [seq |-> n, body |-> p]
  BY ONLY <1>2, <1>3, DecodesWhatWasEncoded, ByteBaseAssumption, n \in Nat, FitsIn(8, n)
<1>5. QED
  BY ONLY <1>1, <1>4, Zenon DEF SentBy

(* The datagrams in the socket are as many as the numbers they carry. *)
LEMMA DatagramsAre ==
  ASSUME NEW f, NEW w, Carries(f, w)
  PROVE  /\ Datagrams(f, w) \in Seq(Seq(Nat)) /\ Len(Datagrams(f, w)) = Len(w)
         /\ \A i \in 1 .. Len(w) : Datagrams(f, w)[i] = SentBy(f, w[i])
<1>1. w \in Seq(Nat)
  BY DEF Carries
<1>2. PICK l \in Nat : l = Len(w)
  BY <1>1
<1>3. DOMAIN w = 1 .. l /\ \A i \in 1 .. l : w[i] \in Nat
  BY ONLY <1>1, <1>2
<1>4. \A i \in 1 .. l : SentBy(f, w[i]) \in Seq(Nat)
  <2>1. TAKE i \in 1 .. l
  <2>2. FitsIn(8, w[i]) /\ f.payloads[w[i]] \in Framable /\ Len(f.payloads[w[i]]) <= MaxPayloadSize
    BY ONLY <1>2, Carries(f, w), i \in 1 .. l, Zenon DEF Carries
  <2>3. w[i] \in Nat
    BY ONLY <1>3, i \in 1 .. l
  <2>4. QED
    BY ONLY <2>2, <2>3, SentByIs, ByteBaseAssumption
<1>5. PICK ds : ds = [i \in 1 .. l |-> SentBy(f, w[i])]
  OBVIOUS
<1>6. ds \in Seq(Seq(Nat)) /\ Len(ds) = l /\ \A i \in 1 .. l : ds[i] = SentBy(f, w[i])
  BY ONLY <1>4, <1>5, l \in Nat
<1>7. QED
  BY ONLY <1>2, <1>3, <1>5, <1>6, Zenon DEF Datagrams

(* One more is sent. *)
LEMMA DatagramsGrow ==
  ASSUME NEW f, NEW w, Carries(f, w), NEW n \in 1 .. Len(f.payloads),
         Len(f.payloads) \in Nat, FitsIn(8, n),
         f.payloads[n] \in Framable, Len(f.payloads[n]) <= MaxPayloadSize
  PROVE  /\ Carries(f, Append(w, n))
         /\ Datagrams(f, Append(w, n)) = Append(Datagrams(f, w), SentBy(f, n))
<1>1. n \in Nat /\ w \in Seq(Nat)
  BY DEF Carries
<1>2. PutBehind(w, n, Append(w, n), Nat)
  BY <1>1, AppendIs
<1>3. PICK v \in Seq(Nat) : v = Append(w, n)
  BY ONLY <1>2, Zenon DEF PutBehind
<1>4. PICK l \in Nat : l = Len(w)
  BY <1>1
<1>5. Len(v) = l + 1 /\ DOMAIN v = 1 .. l + 1 /\ v[l + 1] = n /\ \A i \in 1 .. l : v[i] = w[i]
  BY ONLY <1>2, <1>3, <1>4, Zenon DEF PutBehind
<1>6. \A i \in 1 .. l + 1 : i = l + 1 \/ i \in 1 .. l
  OBVIOUS
<1>7. Carries(f, v)
  <2>1. ASSUME NEW i \in 1 .. l + 1
        PROVE  /\ v[i] \in 1 .. Len(f.payloads) /\ FitsIn(8, v[i])
               /\ f.payloads[v[i]] \in Framable /\ Len(f.payloads[v[i]]) <= MaxPayloadSize
    <3>1. CASE i = l + 1
      BY ONLY <1>5, <3>1, n \in 1 .. Len(f.payloads), FitsIn(8, n),
              f.payloads[n] \in Framable, Len(f.payloads[n]) <= MaxPayloadSize, Zenon
    <3>2. CASE i \in 1 .. l
      BY ONLY <1>4, <1>5, <3>2, Carries(f, w), Zenon DEF Carries
    <3>3. QED
      BY ONLY <1>6, <3>1, <3>2, i \in 1 .. l + 1, Zenon
  <2>2. QED
    BY ONLY <1>5, <2>1, v \in Seq(Nat), Zenon DEF Carries
<1>8. PICK d \in Seq(Nat) : d = SentBy(f, n)
  BY ONLY <1>1, FitsIn(8, n), f.payloads[n] \in Framable, Len(f.payloads[n]) <= MaxPayloadSize,
          SentByIs, ByteBaseAssumption
<1>9. PICK ds \in Seq(Seq(Nat)) : ds = Datagrams(f, w) /\ Len(ds) = l
                                  /\ \A i \in 1 .. l : ds[i] = SentBy(f, w[i])
  BY ONLY <1>4, Carries(f, w), DatagramsAre, ByteBaseAssumption, Zenon
<1>10. PICK es \in Seq(Seq(Nat)) : es = Datagrams(f, v) /\ Len(es) = l + 1
                                   /\ \A i \in 1 .. l + 1 : es[i] = SentBy(f, v[i])
  <2>1. /\ Datagrams(f, v) \in Seq(Seq(Nat)) /\ Len(Datagrams(f, v)) = Len(v)
        /\ \A i \in 1 .. Len(v) : Datagrams(f, v)[i] = SentBy(f, v[i])
    BY ONLY <1>7, DatagramsAre, ByteBaseAssumption
  <2>2. QED
    BY ONLY <1>5, <2>1, Zenon
<1>11. PutBehind(ds, d, Append(ds, d), Seq(Nat))
  BY AppendIs
<1>12. PICK as \in Seq(Seq(Nat)) : as = Append(ds, d) /\ Len(as) = l + 1 /\ as[l + 1] = d
                                   /\ \A i \in 1 .. l : as[i] = ds[i]
  BY ONLY <1>9, <1>11, Zenon DEF PutBehind
<1>13. \A i \in 1 .. l + 1 : es[i] = as[i]
  <2>1. TAKE i \in 1 .. l + 1
  <2>2. es[i] = SentBy(f, v[i])
    BY ONLY <1>10, i \in 1 .. l + 1, Zenon
  <2>3. CASE i = l + 1
    BY ONLY <1>5, <1>8, <1>12, <2>2, <2>3, Zenon
  <2>4. CASE i \in 1 .. l
    BY ONLY <1>5, <1>9, <1>12, <2>2, <2>4, Zenon
  <2>5. QED
    BY ONLY <1>6, <2>3, <2>4, i \in 1 .. l + 1, Zenon
<1>14. es = as
  BY ONLY <1>10, <1>12, <1>13, l \in Nat, es \in Seq(Seq(Nat)), as \in Seq(Seq(Nat))
<1>15. QED
  BY ONLY <1>3, <1>7, <1>8, <1>9, <1>10, <1>12, <1>14, Zenon

(* The first is taken. *)
LEMMA DatagramsMove ==
  ASSUME NEW f, NEW w, Carries(f, w), w # <<>>
  PROVE  /\ Carries(f, Tail(w)) /\ Datagrams(f, w) # <<>>
         /\ Tail(Datagrams(f, w)) = Datagrams(f, Tail(w))
         /\ Head(Datagrams(f, w)) = SentBy(f, Head(w))
         /\ DecodesPacket(SentBy(f, Head(w))) /\ DecodePacket(SentBy(f, Head(w))).seq = Head(w)
<1>1. w \in Seq(Nat)
  BY DEF Carries
<1>2. PICK l \in Nat : Len(w) = l + 1
  <2>1. Len(w) \in Nat /\ Len(w) # 0
    BY ONLY <1>1, w # <<>>
  <2>2. Len(w) - 1 \in Nat /\ Len(w) = (Len(w) - 1) + 1
    BY ONLY <2>1
  <2>3. QED
    BY ONLY <2>2, Zenon
<1>3. PICK t \in Seq(Nat) : t = Tail(w) /\ Len(t) = l /\ \A i \in 1 .. l : t[i] = w[i + 1]
  <2>1. /\ Tail(w) \in Seq(Nat) /\ Len(Tail(w)) = Len(w) - 1
        /\ \A i \in 1 .. Len(Tail(w)) : Tail(w)[i] = w[i + 1]
    BY ONLY <1>1, w # <<>>, HeadTailProperties
  <2>2. Len(Tail(w)) = l
    BY ONLY <1>2, <2>1, l \in Nat
  <2>3. QED
    BY ONLY <2>1, <2>2, Zenon
<1>4. PICK h \in Nat : h = Head(w) /\ h = w[1]
  BY ONLY <1>1, w # <<>>, HeadTailProperties
<1>5. 1 \in 1 .. l + 1 /\ \A i \in 1 .. l : i + 1 \in 1 .. l + 1
  OBVIOUS
<1>6. PICK ds \in Seq(Seq(Nat)) : ds = Datagrams(f, w) /\ Len(ds) = l + 1
                                  /\ \A i \in 1 .. l + 1 : ds[i] = SentBy(f, w[i])
  BY ONLY <1>2, Carries(f, w), DatagramsAre, ByteBaseAssumption, Zenon
<1>7. Carries(f, t)
  BY ONLY <1>2, <1>3, <1>5, Carries(f, w), t \in Seq(Nat) DEF Carries
<1>8. PICK es \in Seq(Seq(Nat)) : es = Datagrams(f, t) /\ Len(es) = l
                                   /\ \A i \in 1 .. l : es[i] = SentBy(f, t[i])
  <2>1. /\ Datagrams(f, t) \in Seq(Seq(Nat)) /\ Len(Datagrams(f, t)) = Len(t)
        /\ \A i \in 1 .. Len(t) : Datagrams(f, t)[i] = SentBy(f, t[i])
    BY ONLY <1>7, DatagramsAre, ByteBaseAssumption
  <2>2. QED
    BY ONLY <1>3, <2>1, Zenon
<1>9. ds # <<>>
  BY ONLY <1>6, l \in Nat
<1>10. /\ Tail(ds) \in Seq(Seq(Nat)) /\ Len(Tail(ds)) = Len(ds) - 1
       /\ \A i \in 1 .. Len(Tail(ds)) : Tail(ds)[i] = ds[i + 1]
  BY ONLY <1>9, ds \in Seq(Seq(Nat)), HeadTailProperties
<1>11. PICK us \in Seq(Seq(Nat)) : us = Tail(ds) /\ Len(us) = l
                                   /\ \A i \in 1 .. l : us[i] = ds[i + 1]
  <2>1. Len(Tail(ds)) = l
    BY ONLY <1>6, <1>10, l \in Nat
  <2>2. QED
    BY ONLY <1>10, <2>1, Zenon
<1>12. \A i \in 1 .. l : us[i] = es[i]
  <2>1. TAKE i \in 1 .. l
  <2>2. us[i] = SentBy(f, w[i + 1])
    BY ONLY <1>5, <1>6, <1>11, i \in 1 .. l, Zenon
  <2>3. es[i] = SentBy(f, w[i + 1])
    BY ONLY <1>3, <1>8, i \in 1 .. l, Zenon
  <2>4. QED
    BY ONLY <2>2, <2>3
<1>13. us = es
  BY ONLY <1>8, <1>11, <1>12, l \in Nat, us \in Seq(Seq(Nat)), es \in Seq(Seq(Nat))
<1>14. Head(ds) = SentBy(f, h)
  <2>1. Head(ds) = ds[1]
    BY ONLY <1>9, ds \in Seq(Seq(Nat)), HeadTailProperties
  <2>2. QED
    BY ONLY <1>4, <1>5, <1>6, <2>1, Zenon
<1>15. FitsIn(8, h) /\ f.payloads[h] \in Framable /\ Len(f.payloads[h]) <= MaxPayloadSize
  BY ONLY <1>2, <1>4, <1>5, Carries(f, w), Zenon DEF Carries
<1>16. DecodesPacket(SentBy(f, h)) /\ DecodePacket(SentBy(f, h)) = [seq |-> h, body |-> f.payloads[h]]
  BY ONLY <1>15, SentByIs, ByteBaseAssumption, h \in Nat
<1>17. DecodePacket(SentBy(f, h)).seq = h
  BY ONLY <1>16
<1>18. QED
  BY ONLY <1>3, <1>4, <1>6, <1>7, <1>8, <1>9, <1>11, <1>13, <1>14, <1>16, <1>17, Zenon
-----------------------------------------------------------------------------
(* The invariant of the feed: K are the numbers that are kept, `last' the  *)
(* one of the last packet taken from the socket, `first' that of the first *)
(* and `done' how far the market state was brought.                        *)

(* What the market state was given, and what the handler counted.          *)
Given(K, first, done, upTo) ==
  /\ applied = Consecutive(first, done)
  /\ stats["gaps"] = Counted(upTo, Starts(K))
  /\ stats["recovered"] = Counted(done, LeftOutBehind(K, first))

Untouched ==
  /\ pc \in {"off", "loop", "receive"} /\ ~hasSequence
  /\ applied = <<>> /\ stats["gaps"] = 0 /\ stats["recovered"] = 0

Rests(K, first, last) ==
  /\ pc \in {"loop", "receive"} /\ hasSequence /\ expectedSequence = Succ(last)
  /\ Given(K, first, last, last)

LooksAtFirst(K, first) ==
  /\ pc = "packet" /\ ~hasSequence /\ packet.seq = first
  /\ Given(K, first, first - 1, first)

LooksAtNext(K, first, done, last) ==
  /\ pc = "packet" /\ hasSequence /\ packet.seq = last
  /\ done \in K /\ done < last /\ expectedSequence = Succ(done)
  /\ Given(K, first, done, done)

Found == [seq : Nat, body : Seq(Nat)]

Recovers(K, first, done, last) ==
  /\ pc = "recovered" /\ hasSequence /\ packet.seq = last
  /\ first <= done /\ done < last
  /\ toApply \in Seq(Found) /\ Len(toApply) = last - 1 - done
  /\ \A i \in 1 .. Len(toApply) : toApply[i].seq = done + i
  /\ Given(K, first, done, last)

Applies(K, first, last) ==
  /\ pc = "live" /\ hasSequence /\ packet.seq = last /\ expectedSequence = Succ(last)
  /\ Given(K, first, last - 1, last)

Handled(K, last) ==
  \/ last = 0 /\ Untouched
  \/ \E first, done \in Nat :
       /\ Sits(K, first, done, last)
       /\ \/ done = last /\ Rests(K, first, last)
          \/ done = last - 1 /\ first = last /\ LooksAtFirst(K, first)
          \/ LooksAtNext(K, first, done, last)
          \/ Recovers(K, first, done, last)
          \/ done = last - 1 /\ Applies(K, first, last)

HandlerWell ==
  /\ quota = Unlimited /\ stats \in [Counters -> Nat] /\ stats["ignored"] = 0
  /\ hasSequence \in BOOLEAN
  /\ pc # "off" => state = "Running" /\ running

Receives(K, last) == HandlerWell /\ Handled(K, last)

(* Before MaxSequence the next number is one more. *)
LEMMA SuccIs ==
  ASSUME NEW n \in Nat, NEW last \in Nat, n < last, last <= MaxSequence
  PROVE  Succ(n) = n + 1
BY MaxSequenceAssumption DEF Succ

(* Where the feed is between two packets. *)
LEMMA BetweenPackets ==
  ASSUME NEW K \in SUBSET (Nat \ {0}), NEW last \in Nat, Handled(K, last),
         pc \in {"off", "loop", "receive"}
  PROVE  \/ last = 0 /\ Untouched
         \/ \E first \in Nat : Sits(K, first, last, last) /\ Rests(K, first, last)
BY DEF Handled, LooksAtFirst, LooksAtNext, Recovers, Applies

(* The loop's condition, and a receive that finds nothing. *)
LEMMA LoopHolds ==
  ASSUME NEW K \in SUBSET (Nat \ {0}), NEW last \in Nat, Receives(K, last),
         LoopCondition \/ ReceiveNothing
  PROVE  Receives(K, last)'
<1>1. HandlerWell /\ Handled(K, last)
  BY Zenon DEF Receives
<1>2. /\ quota' = quota /\ stats' = stats /\ state' = state /\ running' = running
      /\ hasSequence' = hasSequence /\ expectedSequence' = expectedSequence /\ applied' = applied
      /\ pc \in {"loop", "receive"} /\ pc' \in {"loop", "receive"}
  <2>1. CASE LoopCondition
    <3>1. pc = "loop" /\ running /\ ~QuotaReached
      BY <1>1, <2>1 DEF HandlerWell, LoopCondition, QuotaReached
    <3>2. QED
      BY <2>1, <3>1 DEF LoopCondition, control, progress
  <2>2. CASE ReceiveNothing
    BY <2>2 DEF ReceiveNothing, control, progress
  <2>3. QED
    BY <2>1, <2>2
<1>3. HandlerWell'
  BY <1>1, <1>2 DEF HandlerWell
<1>4. \A first, done, upTo : Given(K, first, done, upTo) => Given(K, first, done, upTo)'
  BY ONLY <1>2, Zenon DEF Given
<1>5. CASE last = 0 /\ Untouched
  BY ONLY <1>2, <1>3, <1>5 DEF Receives, Handled, Untouched
<1>6. CASE \E first \in Nat : Sits(K, first, last, last) /\ Rests(K, first, last)
  <2>1. PICK first \in Nat : Sits(K, first, last, last) /\ Rests(K, first, last)
    BY <1>6
  <2>2. Rests(K, first, last)'
    BY ONLY <1>2, <1>4, <2>1 DEF Rests, Succ
  <2>3. QED
    BY ONLY <1>3, <2>1, <2>2, last \in Nat, first \in Nat DEF Receives, Handled
<1>7. QED
  BY <1>1, <1>2, <1>5, <1>6, BetweenPackets

(* A packet is taken: the next number that is kept. *)
LEMMA ReceiveHolds ==
  ASSUME NEW K \in SUBSET (Nat \ {0}), NEW last \in Nat, Receives(K, last),
         NEW p, ReceivePacket(p), p.seq \in K, last < p.seq,
         \A k \in last + 1 .. p.seq - 1 : k \notin K
  PROVE  Receives(K, p.seq)'
<1>1. HandlerWell /\ Handled(K, last)
  BY Zenon DEF Receives
<1>2. PICK h \in Nat : h = p.seq
  OBVIOUS
<1>3. /\ quota' = quota /\ stats' = stats /\ state' = state /\ running' = running
      /\ hasSequence' = hasSequence /\ expectedSequence' = expectedSequence /\ applied' = applied
      /\ pc = "receive" /\ pc' = "packet" /\ packet'.seq = h
  BY <1>2 DEF ReceivePacket, control, progress
<1>4. HandlerWell'
  BY <1>1, <1>3 DEF HandlerWell
<1>5. \A first, done, upTo : Given(K, first, done, upTo) => Given(K, first, done, upTo)'
  BY ONLY <1>3, Zenon DEF Given
<1>6. h \in K /\ last < h /\ \A k \in last + 1 .. h - 1 : k \notin K
  BY ONLY <1>2, p.seq \in K, last < p.seq, \A k \in last + 1 .. p.seq - 1 : k \notin K
<1>7. CASE last = 0 /\ Untouched
  <2>1. FirstOf(K, h)
    BY ONLY <1>6, <1>7 DEF FirstOf
  <2>2. Counted(h, Starts(K)) = 0 /\ Counted(h - 1, LeftOutBehind(K, h)) = 0
    BY ONLY <2>1, NothingLeftOutYet, ByteBaseAssumption, K \in SUBSET (Nat \ {0}), h \in Nat
  <2>3. Consecutive(h, h - 1) = <<>>
    BY ONLY <1>6, ConsecutiveNone, ByteBaseAssumption, h \in Nat, last \in Nat
  <2>4. LooksAtFirst(K, h)'
    BY ONLY <1>3, <1>7, <2>2, <2>3, Zenon DEF LooksAtFirst, Given, Untouched
  <2>5. h - 1 \in Nat /\ Sits(K, h, h - 1, h)
    <3>1. h - 1 \in Nat /\ h <= (h - 1) + 1 /\ h - 1 <= h /\ h <= h
          /\ \A k \in (h - 1) + 1 .. h - 1 : FALSE
      BY ONLY <1>6, <1>7, h \in Nat
    <3>2. QED
      BY ONLY <1>6, <2>1, <3>1, h \in Nat DEF Sits
  <2>6. QED
    BY ONLY <1>2, <1>4, <2>4, <2>5, h \in Nat DEF Receives, Handled
<1>8. CASE \E first \in Nat : Sits(K, first, last, last) /\ Rests(K, first, last)
  <2>1. PICK first \in Nat : Sits(K, first, last, last) /\ Rests(K, first, last)
    BY <1>8
  <2>2. last \in K
    BY ONLY <2>1 DEF Sits
  <2>3. LooksAtNext(K, first, last, h)'
    BY ONLY <1>3, <1>5, <1>6, <2>1, <2>2 DEF LooksAtNext, Rests, Succ
  <2>4. Sits(K, first, last, h)
    BY ONLY <1>6, <2>1, h \in Nat, last \in Nat DEF Sits
  <2>5. QED
    BY ONLY <1>2, <1>4, <2>3, <2>4, h \in Nat, last \in Nat, first \in Nat DEF Receives, Handled
<1>9. QED
  BY <1>1, <1>3, <1>7, <1>8, BetweenPackets

(* Where it is while it looks at one. *)
LEMMA AtPacket ==
  ASSUME NEW K \in SUBSET (Nat \ {0}), NEW last \in Nat, Handled(K, last), pc = "packet"
  PROVE  \/ FirstOf(K, last) /\ last \in K /\ LooksAtFirst(K, last)
         \/ \E first, done \in Nat : Sits(K, first, done, last) /\ LooksAtNext(K, first, done, last)
BY DEF Handled, Untouched, Rests, Recovers, Applies, Sits

(* It is the first, or the one expected. *)
LEMMA InSequenceHolds ==
  ASSUME NEW K \in SUBSET (Nat \ {0}), NEW last \in Nat, Receives(K, last), InSequence,
         last <= MaxSequence
  PROVE  Receives(K, last)'
<1>1. HandlerWell /\ Handled(K, last)
  BY Zenon DEF Receives
<1>2. /\ quota' = quota /\ stats' = stats /\ state' = state /\ running' = running
      /\ hasSequence' = TRUE /\ expectedSequence' = Succ(packet.seq) /\ applied' = applied
      /\ packet' = packet /\ pc = "packet" /\ pc' = "live"
      /\ ~hasSequence \/ packet.seq = expectedSequence
  BY DEF InSequence, control
<1>3. HandlerWell'
  BY <1>1, <1>2 DEF HandlerWell
<1>4. \A first, done, upTo : Given(K, first, done, upTo) => Given(K, first, done, upTo)'
  BY ONLY <1>2, Zenon DEF Given
<1>5. CASE FirstOf(K, last) /\ last \in K /\ LooksAtFirst(K, last)
  <2>1. Applies(K, last, last)'
    BY ONLY <1>2, <1>4, <1>5 DEF Applies, LooksAtFirst, Succ
  <2>2. last - 1 \in Nat /\ Sits(K, last, last - 1, last)
    <3>1. last - 1 \in Nat /\ last <= (last - 1) + 1 /\ last - 1 <= last /\ last <= last
          /\ \A k \in (last - 1) + 1 .. last - 1 : FALSE
      BY ONLY <1>5, K \in SUBSET (Nat \ {0})
    <3>2. QED
      BY ONLY <1>5, <3>1, last \in Nat DEF Sits
  <2>3. QED
    BY ONLY <1>3, <2>1, <2>2, last \in Nat DEF Receives, Handled
<1>6. CASE \E first, done \in Nat : Sits(K, first, done, last) /\ LooksAtNext(K, first, done, last)
  <2>1. PICK first, done \in Nat : Sits(K, first, done, last) /\ LooksAtNext(K, first, done, last)
    BY <1>6
  <2>2. /\ hasSequence /\ packet.seq = last /\ done \in K /\ done < last
        /\ expectedSequence = Succ(done) /\ Given(K, first, done, done)
    BY ONLY <2>1, Zenon DEF LooksAtNext
  <2>3. last = done + 1
    BY ONLY <1>2, <2>2, SuccIs, last <= MaxSequence, MaxSequenceAssumption, last \in Nat, done \in Nat
  <2>4. \A k \in done + 1 .. last - 1 : k \notin K
    BY ONLY <2>1, Zenon DEF Sits
  <2>5. Counted(last, Starts(K)) = Counted(done, Starts(K)) + 0
    <3>1. last \in K
      BY ONLY <2>1, Zenon DEF Sits
    <3>2. QED
      BY ONLY <2>2, <2>3, <2>4, <3>1, StretchCounted, ByteBaseAssumption, K \in SUBSET (Nat \ {0})
  <2>6. Counted(done, Starts(K)) \in Nat
    BY CountedIs
  <2>7. Counted(last, Starts(K)) = Counted(done, Starts(K)) /\ last - 1 = done
    BY ONLY <2>3, <2>5, <2>6, done \in Nat
  <2>8. Given(K, first, last - 1, last)'
    BY ONLY <1>2, <2>2, <2>7, Zenon DEF Given
  <2>9. Applies(K, first, last)'
    BY ONLY <1>2, <2>2, <2>8 DEF Applies, Succ
  <2>10. QED
    BY ONLY <1>3, <2>1, <2>7, <2>9, done \in Nat, first \in Nat DEF Receives, Handled
<1>7. QED
  BY <1>1, <1>2, <1>5, <1>6, AtPacket

(* No packet comes twice. *)
LEMMA NoOldPacket ==
  ASSUME NEW K \in SUBSET (Nat \ {0}), NEW last \in Nat, Receives(K, last), OldPacket,
         last <= MaxSequence
  PROVE  FALSE
<1>1. HandlerWell /\ Handled(K, last)
  BY Zenon DEF Receives
<1>2. pc = "packet" /\ hasSequence /\ packet.seq < expectedSequence
  BY DEF OldPacket
<1>3. PICK first, done \in Nat : Sits(K, first, done, last) /\ LooksAtNext(K, first, done, last)
  BY <1>1, <1>2, AtPacket DEF LooksAtFirst
<1>4. packet.seq = last /\ done < last /\ expectedSequence = Succ(done)
  BY ONLY <1>3, Zenon DEF LooksAtNext
<1>5. Succ(done) = done + 1
  BY ONLY <1>4, SuccIs, last <= MaxSequence, MaxSequenceAssumption, last \in Nat, done \in Nat
<1>6. QED
  BY ONLY <1>2, <1>4, <1>5, last \in Nat, done \in Nat
-----------------------------------------------------------------------------
(* Numbers were left out before it: they come from the file. *)
LEMMA RecoverHolds ==
  ASSUME NEW K \in SUBSET (Nat \ {0}), NEW last \in Nat, Receives(K, last), RecoverMissing,
         last <= MaxSequence, IsRecording(file), last <= Len(file.payloads)
  PROVE  Receives(K, last)'
<1>1. HandlerWell /\ Handled(K, last)
  BY Zenon DEF Receives
<1>2. /\ quota' = quota /\ state' = state /\ running' = running
      /\ hasSequence' = hasSequence /\ expectedSequence' = expectedSequence /\ applied' = applied
      /\ packet' = packet /\ pc = "packet" /\ pc' = "recovered" /\ hasSequence
      /\ packet.seq > expectedSequence
      /\ stats' = [stats EXCEPT !["gaps"] = @ + 1]
      /\ toApply' = [n \in 1 .. packet.seq - expectedSequence |->
                       [seq |-> expectedSequence + n - 1,
                        body |-> file.payloads[expectedSequence + n - 1]]]
  BY DEF RecoverMissing, GapRecovered, Gap, Bump, control, progress
<1>3. PICK first, done \in Nat : Sits(K, first, done, last) /\ LooksAtNext(K, first, done, last)
  BY <1>1, <1>2, AtPacket DEF LooksAtFirst
<1>4. /\ packet.seq = last /\ done \in K /\ done < last
      /\ expectedSequence = Succ(done) /\ Given(K, first, done, done)
  BY ONLY <1>3, Zenon DEF LooksAtNext
<1>5. expectedSequence = done + 1
  BY ONLY <1>4, SuccIs, last <= MaxSequence, MaxSequenceAssumption, last \in Nat, done \in Nat
<1>6. PICK len \in Nat : len = last - (done + 1) /\ len # 0
  BY ONLY <1>2, <1>4, <1>5, last \in Nat, done \in Nat
<1>7. PICK ps \in Seq(Framable) : ps = file.payloads
  BY RecordingIs, SessionsAre
<1>8. toApply' = [n \in 1 .. len |-> [seq |-> (done + 1) + n - 1,
                                      body |-> file.payloads[(done + 1) + n - 1]]]
  BY ONLY <1>2, <1>4, <1>5, <1>6, Zenon
<1>9. toApply' = [n \in 1 .. len |-> [seq |-> done + n, body |-> ps[done + n]]]
  <2>1. \A n \in 1 .. len : (done + 1) + n - 1 = done + n
    OBVIOUS
  <2>2. QED
    BY ONLY <1>7, <1>8, <2>1
<1>10. \A n \in 1 .. len : [seq |-> done + n, body |-> ps[done + n]] \in Found
  <2>1. TAKE n \in 1 .. len
  <2>2. done + n \in Nat /\ done + n \in 1 .. Len(ps)
    <3>1. PICK l \in Nat : l = Len(ps)
      OBVIOUS
    <3>2. last <= l
      BY ONLY <1>7, <3>1, last <= Len(file.payloads)
    <3>3. QED
      BY ONLY <1>6, <3>1, <3>2, l \in Nat, done \in Nat, last \in Nat, n \in 1 .. len, len \in Nat
  <2>3. ps[done + n] \in Seq(Nat)
    <3>1. ps[done + n] \in Framable
      BY ONLY <2>2, ps \in Seq(Framable)
    <3>2. QED
      BY ONLY <3>1 DEF Framable
  <2>4. QED
    BY ONLY <2>2, <2>3 DEF Found
<1>11. /\ toApply' \in Seq(Found) /\ Len(toApply') = len
       /\ \A i \in 1 .. len : toApply'[i].seq = done + i
  <2>1. PICK made : made = [n \in 1 .. len |-> [seq |-> done + n, body |-> ps[done + n]]]
    OBVIOUS
  <2>2. made \in [1 .. len -> Found]
    BY ONLY <1>10, <2>1
  <2>3. \A i \in 1 .. len : made[i].seq = done + i
    BY ONLY <2>1
  <2>4. made \in Seq(Found) /\ Len(made) = len
    BY ONLY <2>2, len \in Nat
  <2>5. QED
    BY ONLY <1>9, <2>1, <2>3, <2>4, Zenon
<1>12. /\ stats' \in [Counters -> Nat] /\ stats'["ignored"] = 0
       /\ stats'["recovered"] = stats["recovered"] /\ stats'["gaps"] = stats["gaps"] + 1
       /\ quota = Unlimited
  BY ONLY <1>1, <1>2 DEF HandlerWell, Counters
<1>13. HandlerWell'
  BY ONLY <1>1, <1>2, <1>12 DEF HandlerWell
<1>14. Counted(last, Starts(K)) = Counted(done, Starts(K)) + 1
  <2>1. \A k \in done + 1 .. last - 1 : k \notin K
    BY ONLY <1>3, Zenon DEF Sits
  <2>2. last \in K
    BY ONLY <1>3, Zenon DEF Sits
  <2>3. last # done + 1
    BY ONLY <1>6, last \in Nat, done \in Nat
  <2>4. QED
    BY ONLY <1>4, <2>1, <2>2, <2>3, StretchCounted, ByteBaseAssumption, K \in SUBSET (Nat \ {0})
<1>15. Given(K, first, done, last)'
  BY ONLY <1>2, <1>4, <1>12, <1>14, Zenon DEF Given
<1>16. first <= done
  <2>1. FirstOf(K, first) /\ first <= done + 1
    BY ONLY <1>3, Zenon DEF Sits
  <2>2. \A k \in 1 .. first - 1 : k \notin K
    BY ONLY <2>1, Zenon DEF FirstOf
  <2>3. QED
    BY ONLY <1>4, <2>1, <2>2, first \in Nat, done \in Nat, K \in SUBSET (Nat \ {0})
<1>17. len = last - 1 - done
  BY ONLY <1>6, last \in Nat, done \in Nat
<1>18. Recovers(K, first, done, last)'
  BY ONLY <1>2, <1>4, <1>11, <1>15, <1>16, <1>17, Zenon DEF Recovers
<1>19. QED
  BY ONLY <1>3, <1>13, <1>18, first \in Nat, done \in Nat, Zenon DEF Receives, Handled

(* Where it is while it applies what was recovered. *)
LEMMA AtRecovery ==
  ASSUME NEW K \in SUBSET (Nat \ {0}), NEW last \in Nat, Handled(K, last), pc = "recovered"
  PROVE  \E first, done \in Nat : Sits(K, first, done, last) /\ Recovers(K, first, done, last)
BY DEF Handled, Untouched, Rests, LooksAtFirst, LooksAtNext, Applies

(* One recovered packet more is applied. *)
LEMMA ProcessRecoveredHolds ==
  ASSUME NEW K \in SUBSET (Nat \ {0}), NEW last \in Nat, Receives(K, last),
         ProcessRecoveredPacket, state' # "Failed"
  PROVE  Receives(K, last)'
<1>1. HandlerWell /\ Handled(K, last)
  BY Zenon DEF Receives
<1>2. /\ quota' = quota /\ state' = state /\ running' = running
      /\ hasSequence' = hasSequence /\ expectedSequence' = expectedSequence
      /\ packet' = packet /\ pc = "recovered" /\ pc' = pc /\ toApply # <<>>
      /\ stats' = [stats EXCEPT !["recovered"] = @ + 1]
      /\ applied' = Append(applied, Head(toApply).seq) /\ toApply' = Tail(toApply)
  BY DEF ProcessRecoveredPacket, Fail, Bump, control
<1>3. PICK first, done \in Nat : Sits(K, first, done, last) /\ Recovers(K, first, done, last)
  BY <1>1, <1>2, AtRecovery
<1>4. /\ hasSequence /\ packet.seq = last /\ first <= done /\ done < last
      /\ toApply \in Seq(Found) /\ Len(toApply) = last - 1 - done
      /\ \A i \in 1 .. Len(toApply) : toApply[i].seq = done + i
      /\ Given(K, first, done, last)
  BY ONLY <1>3, Zenon DEF Recovers
<1>5. PICK l \in Nat : Len(toApply) = l + 1
  <2>1. Len(toApply) \in Nat /\ Len(toApply) # 0
    BY ONLY <1>2, <1>4
  <2>2. Len(toApply) - 1 \in Nat /\ Len(toApply) = (Len(toApply) - 1) + 1
    BY ONLY <2>1
  <2>3. QED
    BY ONLY <2>2, Zenon
<1>6. done + 1 < last /\ l = last - 1 - (done + 1) /\ done + 1 \in Nat /\ first <= done + 1
      /\ first <= (done + 1) + 1 /\ done + 1 <= last
  BY ONLY <1>4, <1>5, l \in Nat, done \in Nat, last \in Nat, first \in Nat
<1>7. /\ toApply' \in Seq(Found) /\ Len(toApply') = l
      /\ \A i \in 1 .. l : toApply'[i] = toApply[i + 1]
  BY ONLY <1>2, <1>4, <1>5, HeadTailProperties
<1>8. \A i \in 1 .. l : toApply'[i].seq = (done + 1) + i
  <2>1. TAKE i \in 1 .. l
  <2>2. i + 1 \in 1 .. l + 1 /\ done + (i + 1) = (done + 1) + i
    OBVIOUS
  <2>3. QED
    BY ONLY <1>4, <1>5, <1>7, <2>2, i \in 1 .. l
<1>9. Head(toApply).seq = done + 1
  BY ONLY <1>2, <1>4, <1>5, HeadTailProperties
<1>10. applied' = Consecutive(first, done + 1)
  <2>1. applied = Consecutive(first, done)
    BY ONLY <1>4, Zenon DEF Given
  <2>2. first <= done + 1
    BY ONLY <1>6
  <2>3. Append(Consecutive(first, done), done + 1) = Consecutive(first, done + 1)
    BY ONLY <2>2, ConsecutiveGoesOn, ByteBaseAssumption, first \in Nat, done \in Nat
  <2>4. QED
    BY ONLY <1>2, <1>9, <2>1, <2>3, Zenon
<1>11. /\ stats' \in [Counters -> Nat] /\ stats'["ignored"] = 0
       /\ stats'["recovered"] = stats["recovered"] + 1 /\ stats'["gaps"] = stats["gaps"]
  BY ONLY <1>1, <1>2 DEF HandlerWell, Counters
<1>12. HandlerWell'
  BY ONLY <1>1, <1>2, <1>11 DEF HandlerWell
<1>13. \A k \in done + 1 .. last - 1 : k \notin K
  BY ONLY <1>3, Zenon DEF Sits
<1>14. Counted(done + 1, LeftOutBehind(K, first)) = Counted(done, LeftOutBehind(K, first)) + 1
  <2>1. done + 1 \notin K
    BY ONLY <1>6, <1>13, done \in Nat, last \in Nat
  <2>2. QED
    BY ONLY <1>4, <2>1, LeftOutCounted, ByteBaseAssumption, K \in SUBSET (Nat \ {0}),
            first \in Nat, done \in Nat
<1>15. Given(K, first, done + 1, last)'
  BY ONLY <1>4, <1>10, <1>11, <1>14, Zenon DEF Given
<1>16. Recovers(K, first, done + 1, last)'
  BY ONLY <1>2, <1>4, <1>6, <1>7, <1>8, <1>15, Zenon DEF Recovers
<1>17. Sits(K, first, done + 1, last)
  <2>1. \A k \in (done + 1) + 1 .. last - 1 : k \notin K
    BY ONLY <1>13, done \in Nat, last \in Nat
  <2>2. QED
    BY ONLY <1>3, <1>6, <2>1, Zenon DEF Sits
<1>18. QED
  BY ONLY <1>6, <1>12, <1>16, <1>17, first \in Nat, Zenon DEF Receives, Handled

(* All of them are applied: the packet that showed the gap follows. *)
LEMMA GapClosedHolds ==
  ASSUME NEW K \in SUBSET (Nat \ {0}), NEW last \in Nat, Receives(K, last), GapClosed
  PROVE  Receives(K, last)'
<1>1. HandlerWell /\ Handled(K, last)
  BY Zenon DEF Receives
<1>2. /\ quota' = quota /\ state' = state /\ running' = running /\ stats' = stats
      /\ hasSequence' = hasSequence /\ expectedSequence' = Succ(packet.seq)
      /\ packet' = packet /\ applied' = applied
      /\ pc = "recovered" /\ pc' = "live" /\ toApply = <<>>
  BY DEF GapClosed, control
<1>3. PICK first, done \in Nat : Sits(K, first, done, last) /\ Recovers(K, first, done, last)
  BY <1>1, <1>2, AtRecovery
<1>4. /\ hasSequence /\ packet.seq = last /\ done < last
      /\ Len(toApply) = last - 1 - done /\ Given(K, first, done, last)
  BY ONLY <1>3, Zenon DEF Recovers
<1>5. done = last - 1
  BY ONLY <1>2, <1>4, done \in Nat, last \in Nat
<1>6. HandlerWell'
  BY ONLY <1>1, <1>2 DEF HandlerWell
<1>7. Given(K, first, last - 1, last)'
  BY ONLY <1>2, <1>4, <1>5, Zenon DEF Given
<1>8. Applies(K, first, last)'
  BY ONLY <1>2, <1>4, <1>7 DEF Applies, Succ
<1>9. QED
  BY ONLY <1>3, <1>5, <1>6, <1>8, first \in Nat, done \in Nat, Zenon DEF Receives, Handled

(* The packet itself is applied. *)
LEMMA ProcessLiveHolds ==
  ASSUME NEW K \in SUBSET (Nat \ {0}), NEW last \in Nat, Receives(K, last),
         ProcessLivePacket, state' # "Failed"
  PROVE  Receives(K, last)'
<1>1. HandlerWell /\ Handled(K, last)
  BY Zenon DEF Receives
<1>2. /\ quota' = quota /\ state' = state /\ running' = running
      /\ hasSequence' = hasSequence /\ expectedSequence' = expectedSequence
      /\ pc = "live" /\ pc' = "loop"
      /\ stats' = [stats EXCEPT !["processed"] = @ + 1]
      /\ applied' = Append(applied, packet.seq)
  BY DEF ProcessLivePacket, Fail, Bump, control
<1>3. PICK first, done \in Nat : /\ Sits(K, first, done, last) /\ done = last - 1
                                 /\ Applies(K, first, last)
  BY <1>1, <1>2 DEF Handled, Untouched, Rests, LooksAtFirst, LooksAtNext, Recovers
<1>4. /\ hasSequence /\ packet.seq = last /\ expectedSequence = Succ(last)
      /\ Given(K, first, done, last)
  BY ONLY <1>3, Zenon DEF Applies
<1>5. first <= done + 1 /\ last = done + 1 /\ last \in K /\ first <= last /\ FirstOf(K, first)
  <2>1. first <= done + 1 /\ last \in K /\ first <= last /\ FirstOf(K, first)
    BY ONLY <1>3, Zenon DEF Sits
  <2>2. QED
    BY ONLY <1>3, <2>1, done \in Nat, last \in Nat
<1>6. applied' = Consecutive(first, last)
  <2>1. applied = Consecutive(first, done)
    BY ONLY <1>4, Zenon DEF Given
  <2>2. Append(Consecutive(first, done), done + 1) = Consecutive(first, done + 1)
    BY ONLY <1>5, ConsecutiveGoesOn, ByteBaseAssumption, first \in Nat, done \in Nat
  <2>3. QED
    BY ONLY <1>2, <1>4, <1>5, <2>1, <2>2, Zenon
<1>7. /\ stats' \in [Counters -> Nat] /\ stats'["ignored"] = 0
      /\ stats'["recovered"] = stats["recovered"] /\ stats'["gaps"] = stats["gaps"]
  BY ONLY <1>1, <1>2 DEF HandlerWell, Counters
<1>8. HandlerWell'
  BY ONLY <1>1, <1>2, <1>7 DEF HandlerWell
<1>9. Counted(last, LeftOutBehind(K, first)) = Counted(done, LeftOutBehind(K, first))
  <2>1. CASE first = last
    <3>1. \A i \in 1 .. done : i \notin LeftOutBehind(K, first)
      BY ONLY <1>5, <2>1, done \in Nat, last \in Nat DEF LeftOutBehind
    <3>2. \A i \in 1 .. last : i \notin LeftOutBehind(K, first)
      BY ONLY <1>5, <2>1, done \in Nat, last \in Nat DEF LeftOutBehind
    <3>3. QED
      BY ONLY <3>1, <3>2, NoneCounted, ByteBaseAssumption, done \in Nat, last \in Nat
  <2>2. CASE first # last
    <3>1. first <= done
      BY ONLY <1>5, <2>2, first \in Nat, done \in Nat, last \in Nat
    <3>2. QED
      BY ONLY <1>5, <3>1, LeftOutCounted, ByteBaseAssumption, K \in SUBSET (Nat \ {0}),
              first \in Nat, done \in Nat
  <2>3. QED
    BY ONLY <2>1, <2>2
<1>10. Given(K, first, last, last)'
  BY ONLY <1>4, <1>6, <1>7, <1>9, Zenon DEF Given
<1>11. Rests(K, first, last)'
  BY ONLY <1>2, <1>4, <1>10 DEF Rests, Succ
<1>12. Sits(K, first, last, last)
  <2>1. first <= last + 1 /\ last <= last /\ \A k \in last + 1 .. last - 1 : FALSE
    BY ONLY <1>5, first \in Nat, last \in Nat
  <2>2. QED
    BY ONLY <1>5, <2>1, first \in Nat, last \in Nat, Zenon DEF Sits
<1>13. QED
  BY ONLY <1>8, <1>11, <1>12, first \in Nat, last \in Nat, Zenon DEF Receives, Handled

(* run() is entered once, and does not return. *)
LEMMA RunHolds ==
  ASSUME NEW K \in SUBSET (Nat \ {0}), NEW last \in Nat, Receives(K, last), Run
  PROVE  Receives(K, last)'
<1>1. HandlerWell /\ Handled(K, last)
  BY Zenon DEF Receives
<1>2. /\ pc = "off" /\ pc' = "loop" /\ hasSequence' = FALSE /\ stats' = [c \in Counters |-> 0]
      /\ state' = "Running" /\ running' = TRUE /\ quota' = Unlimited /\ applied' = <<>>
  BY DEF Run, StartLifecycle
<1>3. last = 0
  BY <1>1, <1>2, BetweenPackets DEF Rests
<1>4. /\ stats' \in [Counters -> Nat] /\ stats'["ignored"] = 0
      /\ stats'["recovered"] = 0 /\ stats'["gaps"] = 0
  BY ONLY <1>2 DEF Counters
<1>5. HandlerWell'
  BY ONLY <1>2, <1>4 DEF HandlerWell
<1>6. Untouched'
  BY ONLY <1>2, <1>4 DEF Untouched
<1>7. QED
  BY ONLY <1>3, <1>5, <1>6, Zenon DEF Receives, Handled

(* The live feed of a replay is not at its end while it is being used. *)
LEMMA NoFinish ==
  ASSUME NEW K \in SUBSET (Nat \ {0}), NEW last \in Nat, Receives(K, last), FinishLifecycle
  PROVE  FALSE
<1>1. Handled(K, last) /\ pc = "finish"
  BY Zenon DEF Receives, FinishLifecycle
<1>2. QED
  BY ONLY <1>1 DEF Handled, Untouched, Rests, LooksAtFirst, LooksAtNext, Recovers, Applies
-----------------------------------------------------------------------------
(* The sender has sent, or left out, the records it has read. *)
SendsTheFile ==
  /\ IsRecording(file) /\ script \in Scripts
  /\ recordsRead \in Nat /\ recordsRead <= script.records /\ recordsRead <= Len(file.payloads)
  /\ sendAt = Len(Framed(Recorded(file, recordsRead)))

Tallied(K) == /\ packetsSent = Counted(recordsRead, K)
              /\ packetsDropped = Counted(recordsRead, (Nat \ {0}) \ K)

(* What was sent and not yet taken waits in the socket. *)
Waiting(K, last, w) ==
  Line(K, last, recordsRead, w) /\ Carries(file, w) /\ socket = Datagrams(file, w)

FeedRuns(K) ==
  /\ Tallied(K)
  /\ \E last \in Nat : \E w : last <= recordsRead /\ Receives(K, last) /\ Waiting(K, last, w)

Disturbed == sender = "failed" \/ overrun \/ state = "Failed"

FeedInv ==
  /\ program = "gap" =>
       /\ SendsTheFile
       /\ Disturbed \/ \E K \in SUBSET (Nat \ {0}) : K = KeptBy(script) /\ FeedRuns(K)
  /\ program # "gap" => sender = "replay"

(* What the script does not drop is kept. *)
LEMMA KeptIs ==
  /\ KeptBy(script) \in SUBSET (Nat \ {0})
  /\ \A n \in Nat \ {0} : n \in KeptBy(script) <=> ~ShouldDrop(n)
BY DEF KeptBy, ShouldDrop

(* The records a script asks for are numbered in range. *)
LEMMA ScriptIs ==
  ASSUME NEW s \in Scripts
  PROVE  /\ s.records \in Nat /\ s.records <= MaxSequence
         /\ \A n \in Nat : n <= s.records => FitsIn(8, n)
<1>1. s.records \in 0 .. MaxSequence /\ FitsIn(8, s.records)
  BY ScriptAssumption
<1>2. PICK r \in Nat : r = s.records /\ r <= MaxSequence /\ FitsIn(8, r)
  BY ONLY <1>1, MaxSequenceAssumption
<1>3. ASSUME NEW n \in Nat, n <= r PROVE FitsIn(8, n)
  <2>1. n \in 0 .. r /\ 8 \in Nat
    BY <1>3
  <2>2. QED
    BY ONLY <1>2, <2>1, SmallerFits, ByteBaseAssumption, r \in Nat
<1>4. QED
  BY ONLY <1>2, <1>3

(* The sender does not touch the handler. *)
LEMMA HandlerStays ==
  ASSUME NEW K, NEW last, Receives(K, last), handlerVars' = handlerVars
  PROVE  Receives(K, last)'
<1>1. /\ expectedSequence' = expectedSequence /\ hasSequence' = hasSequence /\ stats' = stats
      /\ state' = state /\ running' = running /\ pc' = pc /\ quota' = quota
      /\ packet' = packet /\ toApply' = toApply /\ applied' = applied
  BY DEF handlerVars
<1>2. HandlerWell => HandlerWell'
  BY ONLY <1>1, Zenon DEF HandlerWell
<1>3. \A first, done, upTo : Given(K, first, done, upTo) => Given(K, first, done, upTo)'
  BY ONLY <1>1, Zenon DEF Given
<1>4. Untouched => Untouched'
  BY ONLY <1>1, Zenon DEF Untouched
<1>5. \A first : Rests(K, first, last) => Rests(K, first, last)'
  BY ONLY <1>1, <1>3 DEF Rests, Succ
<1>6. \A first : LooksAtFirst(K, first) => LooksAtFirst(K, first)'
  BY ONLY <1>1, <1>3, Zenon DEF LooksAtFirst
<1>7. \A first, done : LooksAtNext(K, first, done, last) => LooksAtNext(K, first, done, last)'
  BY ONLY <1>1, <1>3 DEF LooksAtNext, Succ
<1>8. \A first, done : Recovers(K, first, done, last) => Recovers(K, first, done, last)'
  BY ONLY <1>1, <1>3, Zenon DEF Recovers
<1>9. \A first : Applies(K, first, last) => Applies(K, first, last)'
  BY ONLY <1>1, <1>3 DEF Applies, Succ
<1>10. Handled(K, last) => Handled(K, last)'
  BY ONLY <1>4, <1>5, <1>6, <1>7, <1>8, <1>9 DEF Handled
<1>11. QED
  BY ONLY <1>2, <1>10, Receives(K, last), Zenon DEF Receives

(* A record more is tallied, sent or left out. *)
LEMMA TallyGoesOn ==
  ASSUME NEW K \in SUBSET (Nat \ {0}), NEW n \in Nat, n = recordsRead, Tallied(K),
         recordsRead' = n + 1,
         \/ n + 1 \in K /\ packetsSent' = packetsSent + 1 /\ packetsDropped' = packetsDropped
         \/ n + 1 \notin K /\ packetsSent' = packetsSent /\ packetsDropped' = packetsDropped + 1
  PROVE  Tallied(K)'
<1>1. PICK D : D = (Nat \ {0}) \ K
  OBVIOUS
<1>2. n + 1 \in D <=> n + 1 \notin K
  BY ONLY <1>1, n \in Nat
<1>3. packetsSent = Counted(n, K) /\ packetsDropped = Counted(n, D)
  BY ONLY <1>1, n = recordsRead, Tallied(K), Zenon DEF Tallied
<1>4. Counted(n, K) \in Nat /\ Counted(n, D) \in Nat
  BY ONLY CountedIs, n \in Nat, ByteBaseAssumption
<1>5. /\ Counted(n + 1, K) = Counted(n, K) + (IF n + 1 \in K THEN 1 ELSE 0)
      /\ Counted(n + 1, D) = Counted(n, D) + (IF n + 1 \in D THEN 1 ELSE 0)
  BY ONLY CountGoesOn, n \in Nat, ByteBaseAssumption
<1>6. packetsSent' = Counted(n + 1, K) /\ packetsDropped' = Counted(n + 1, D)
  <2>1. CASE n + 1 \in K /\ packetsSent' = packetsSent + 1 /\ packetsDropped' = packetsDropped
    BY ONLY <1>2, <1>3, <1>4, <1>5, <2>1
  <2>2. CASE n + 1 \notin K /\ packetsSent' = packetsSent /\ packetsDropped' = packetsDropped + 1
    BY ONLY <1>2, <1>3, <1>4, <1>5, <2>2
  <2>3. QED
    BY <2>1, <2>2
<1>7. QED
  BY ONLY <1>1, <1>6, recordsRead' = n + 1, Zenon DEF Tallied

(* What a record read is. *)
NextToSend(n, p) ==
  /\ n \in Nat /\ n = recordsRead /\ p \in Framable /\ p = file.payloads[n + 1]
  /\ n + 1 \in Nat /\ n + 1 <= script.records /\ n + 1 <= Len(file.payloads)
  /\ FitsIn(8, n + 1)

(* Sending reads one record: the next of the file. *)
LEMMA NextIsRead ==
  ASSUME SendsTheFile, SendRecord, file' = file
  PROVE  /\ SendsTheFile' /\ script' = script /\ recordsRead' = recordsRead + 1
         /\ handlerVars' = handlerVars /\ sender = "replay"
         /\ \E n, p : /\ NextToSend(n, p)
                      /\ \/ sender' = "failed"
                         \/ /\ Len(p) <= MaxPayloadSize
                            /\ Drop \/ SendPacket(p)
<1>1. PICK n \in Nat : n = recordsRead
  BY Zenon DEF SendsTheFile
<1>2. /\ IsRecording(file) /\ script \in Scripts /\ n <= script.records
      /\ n <= Len(file.payloads) /\ sendAt = Len(Framed(Recorded(file, n)))
  BY <1>1, Zenon DEF SendsTheFile
<1>3. /\ sender = "replay" /\ n < script.records /\ ReadNext(sendAt).status = "Message"
      /\ script' = script /\ handlerVars' = handlerVars
      /\ sendAt' = Behind(sendAt, ReadNext(sendAt)) /\ recordsRead' = recordsRead + 1
      /\ \/ ~Encodes([body |-> ReadNext(sendAt).data]) /\ sender' = "failed"
         \/ /\ Encodes([body |-> ReadNext(sendAt).data])
            /\ Drop \/ SendPacket(ReadNext(sendAt).data)
  BY <1>1, Zenon DEF SendRecord
<1>4. ReadsRecord(n)
  BY <1>2, ReadsTheFile
<1>5. n < Len(file.payloads)
  <2>1. PICK l \in Nat : l = Len(file.payloads)
    <3>1. file.payloads \in Seq(Framable)
      BY <1>2, RecordingIs, SessionsAre
    <3>2. QED
      BY <3>1
  <2>2. n # l
    BY ONLY <1>2, <1>3, <1>4, <2>1, Zenon DEF ReadsRecord, Recorded
  <2>3. n < l
    BY ONLY <1>2, <2>1, <2>2, n \in Nat, l \in Nat
  <2>4. QED
    BY ONLY <2>1, <2>3
<1>6. file.payloads[n + 1] \in Framable /\ n + 1 <= Len(file.payloads)
  BY <1>2, <1>5, PayloadBehind
<1>7. PICK p \in Framable : p = file.payloads[n + 1]
  BY <1>6
<1>8. /\ ReadNext(sendAt) = [status |-> "Message", data |-> p]
      /\ Behind(sendAt, ReadNext(sendAt)) = Len(Framed(Recorded(file, n + 1)))
  BY ONLY <1>2, <1>4, <1>5, <1>7, Zenon DEF ReadsRecord, Recorded
<1>9. ReadNext(sendAt).data = p
  BY ONLY <1>8
<1>10. /\ script.records \in Nat /\ \A m \in Nat : m <= script.records => FitsIn(8, m)
  BY <1>2, ScriptIs
<1>11. n + 1 \in Nat /\ n + 1 <= script.records
  BY ONLY <1>3, <1>10, n \in Nat
<1>12. NextToSend(n, p)
  BY ONLY <1>1, <1>6, <1>7, <1>10, <1>11, Zenon DEF NextToSend
<1>13. \/ sender' = "failed"
       \/ Len(p) <= MaxPayloadSize /\ (Drop \/ SendPacket(p))
  <2>1. Encodes([body |-> p]) => Len(p) <= MaxPayloadSize
    BY DEF Encodes
  <2>2. QED
    BY ONLY <1>3, <1>9, <2>1, Zenon
<1>14. SendsTheFile'
  BY ONLY <1>1, <1>2, <1>3, <1>6, <1>8, <1>11, file' = file, Zenon DEF SendsTheFile
<1>15. QED
  BY ONLY <1>3, <1>12, <1>13, <1>14, Zenon

(* A record is left out, or it waits behind those that were sent. *)
LEMMA RecordQueues ==
  ASSUME NEW K \in SUBSET (Nat \ {0}), K = KeptBy(script), FeedRuns(K),
         SendsTheFile, file' = file, handlerVars' = handlerVars, recordsRead' = recordsRead + 1,
         NEW n, NEW p, NextToSend(n, p), Len(p) <= MaxPayloadSize,
         Drop \/ SendPacket(p), sender' # "failed", ~overrun'
  PROVE  FeedRuns(K)'
<1>1. PICK last \in Nat : \E w : last <= recordsRead /\ Receives(K, last) /\ Waiting(K, last, w)
  BY Zenon DEF FeedRuns
<1>2. PICK w : last <= recordsRead /\ Receives(K, last) /\ Waiting(K, last, w)
  BY <1>1
<1>3. /\ n \in Nat /\ n = recordsRead /\ p \in Framable /\ p = file.payloads[n + 1]
      /\ n + 1 \in Nat /\ n + 1 <= Len(file.payloads) /\ FitsIn(8, n + 1)
  BY Zenon DEF NextToSend
<1>4. Receives(K, last)'
  BY ONLY <1>2, handlerVars' = handlerVars, HandlerStays, ByteBaseAssumption, Zenon
<1>5. recordsRead' = n + 1 /\ last <= n /\ last <= recordsRead'
  BY ONLY <1>2, <1>3, recordsRead' = recordsRead + 1, last \in Nat
<1>6. n + 1 \in K <=> ~ShouldDrop(n + 1)
  <2>1. n + 1 \in Nat \ {0}
    BY ONLY <1>3
  <2>2. QED
    BY ONLY <2>1, KeptIs, ByteBaseAssumption, K = KeptBy(script)
<1>7. Line(K, last, n, w) /\ Carries(file, w) /\ socket = Datagrams(file, w)
  BY ONLY <1>2, <1>3, Zenon DEF Waiting
<1>8. Tallied(K)
  BY Zenon DEF FeedRuns
<1>9. CASE Drop
  <2>1. /\ n + 1 \notin K /\ packetsDropped' = packetsDropped + 1
        /\ packetsSent' = packetsSent /\ socket' = socket
    BY ONLY <1>3, <1>6, <1>9 DEF Drop
  <2>2. Tallied(K)'
    BY ONLY <1>3, <1>5, <1>8, <2>1, TallyGoesOn, ByteBaseAssumption, K \in SUBSET (Nat \ {0})
  <2>3. Line(K, last, n + 1, w)
    BY ONLY <1>3, <1>7, <2>1, LineSkips, ByteBaseAssumption, K \in SUBSET (Nat \ {0}), last \in Nat
  <2>4. Waiting(K, last, w)'
    BY ONLY <1>5, <1>7, <2>1, <2>3, file' = file, Zenon DEF Waiting
  <2>5. QED
    BY ONLY <1>4, <1>5, <2>2, <2>4, last \in Nat, Zenon DEF FeedRuns
<1>10. CASE SendPacket(p)
  <2>1. /\ n + 1 \in K /\ packetsDropped' = packetsDropped /\ packetsSent' = packetsSent + 1
        /\ socket' = Append(socket, SentBy(file, n + 1))
    BY ONLY <1>3, <1>6, <1>10, sender' # "failed", ~overrun' DEF SendPacket, SentBy
  <2>2. Tallied(K)'
    BY ONLY <1>3, <1>5, <1>8, <2>1, TallyGoesOn, ByteBaseAssumption, K \in SUBSET (Nat \ {0})
  <2>3. Line(K, last, n + 1, Append(w, n + 1))
    BY ONLY <1>3, <1>5, <1>7, <2>1, LineGrows, ByteBaseAssumption, K \in SUBSET (Nat \ {0}), last \in Nat
  <2>4. /\ Carries(file, Append(w, n + 1))
        /\ Datagrams(file, Append(w, n + 1)) = Append(Datagrams(file, w), SentBy(file, n + 1))
    <3>1. Len(file.payloads) \in Nat
      <4>1. file.payloads \in Seq(Framable)
        BY SendsTheFile, RecordingIs, SessionsAre DEF SendsTheFile
      <4>2. QED
        BY <4>1
    <3>2. n + 1 \in 1 .. Len(file.payloads)
      BY ONLY <1>3, <3>1
    <3>3. file.payloads[n + 1] \in Framable /\ Len(file.payloads[n + 1]) <= MaxPayloadSize
      BY ONLY <1>3, Len(p) <= MaxPayloadSize
    <3>4. QED
      BY ONLY <1>3, <1>7, <3>1, <3>2, <3>3, DatagramsGrow, ByteBaseAssumption
  <2>5. Waiting(K, last, Append(w, n + 1))'
    BY ONLY <1>5, <1>7, <2>1, <2>3, <2>4, file' = file, Zenon DEF Waiting
  <2>6. QED
    BY ONLY <1>4, <1>5, <2>2, <2>5, last \in Nat, Zenon DEF FeedRuns
<1>11. QED
  BY <1>9, <1>10
-----------------------------------------------------------------------------
(* The sender sends a record, or leaves it out. *)
LEMMA SendRecordHolds ==
  ASSUME FeedInv, program = "gap", SendRecord, file' = file, program' = program
  PROVE  FeedInv'
<1>1. SendsTheFile /\ (Disturbed \/ \E K \in SUBSET (Nat \ {0}) : K = KeptBy(script) /\ FeedRuns(K))
  BY Zenon DEF FeedInv
<1>2. /\ SendsTheFile' /\ script' = script /\ recordsRead' = recordsRead + 1
      /\ handlerVars' = handlerVars /\ sender = "replay"
      /\ \E n, p : /\ NextToSend(n, p)
                   /\ \/ sender' = "failed"
                      \/ /\ Len(p) <= MaxPayloadSize
                         /\ Drop \/ SendPacket(p)
  BY <1>1, NextIsRead
<1>3. SUFFICES ASSUME ~Disturbed'
               PROVE  \E K \in SUBSET (Nat \ {0}) : K = KeptBy(script') /\ FeedRuns(K)'
  BY ONLY <1>2, <1>3, program = "gap", program' = program, Zenon DEF FeedInv
<1>4. sender' # "failed" /\ ~overrun' /\ state' # "Failed"
  BY <1>3, Zenon DEF Disturbed
<1>5. PICK n, p : NextToSend(n, p) /\ Len(p) <= MaxPayloadSize /\ (Drop \/ SendPacket(p))
  BY ONLY <1>2, <1>4, Zenon
<1>6. ~Disturbed
  <2>1. state' = state
    BY ONLY <1>2 DEF handlerVars
  <2>2. ~overrun
    <3>1. CASE Drop
      BY ONLY <1>4, <3>1 DEF Drop
    <3>2. CASE SendPacket(p)
      BY ONLY <1>4, <3>2 DEF SendPacket
    <3>3. QED
      BY ONLY <1>5, <3>1, <3>2
  <2>3. sender # "failed"
    BY ONLY <1>2
  <2>4. QED
    BY ONLY <1>4, <2>1, <2>2, <2>3, Zenon DEF Disturbed
<1>7. PICK K \in SUBSET (Nat \ {0}) : K = KeptBy(script) /\ FeedRuns(K)
  BY ONLY <1>1, <1>6, Zenon
<1>8. FeedRuns(K)'
  BY ONLY <1>1, <1>2, <1>4, <1>5, <1>7, file' = file, K \in SUBSET (Nat \ {0}), RecordQueues,
          ByteBaseAssumption
<1>9. QED
  BY ONLY <1>2, <1>7, <1>8, Zenon

(* Nothing of what the invariant tells of the sender, the socket and the   *)
(* handler has changed.                                                    *)
LEMMA FeedStays ==
  ASSUME NEW K, FeedRuns(K), file' = file, recordsRead' = recordsRead,
         packetsSent' = packetsSent, packetsDropped' = packetsDropped, socket' = socket,
         handlerVars' = handlerVars
  PROVE  FeedRuns(K)'
<1>1. PICK last \in Nat : \E w : last <= recordsRead /\ Receives(K, last) /\ Waiting(K, last, w)
  BY Zenon DEF FeedRuns
<1>2. PICK w : last <= recordsRead /\ Receives(K, last) /\ Waiting(K, last, w)
  BY <1>1
<1>3. Receives(K, last)'
  BY ONLY <1>2, handlerVars' = handlerVars, HandlerStays, ByteBaseAssumption
<1>4. Waiting(K, last, w)'
  BY ONLY <1>2, file' = file, recordsRead' = recordsRead, socket' = socket, Zenon DEF Waiting
<1>5. Tallied(K)'
  BY ONLY FeedRuns(K), recordsRead' = recordsRead, packetsSent' = packetsSent,
          packetsDropped' = packetsDropped, Zenon DEF FeedRuns, Tallied
<1>6. QED
  BY ONLY <1>2, <1>3, <1>4, <1>5, last \in Nat, recordsRead' = recordsRead, Zenon DEF FeedRuns

(* The sender is done. *)
LEMMA ReplayCompleteHolds ==
  ASSUME FeedInv, program = "gap", ReplayComplete, file' = file, program' = program
  PROVE  FeedInv'
<1>1. SendsTheFile /\ (Disturbed \/ \E K \in SUBSET (Nat \ {0}) : K = KeptBy(script) /\ FeedRuns(K))
  BY Zenon DEF FeedInv
<1>2. /\ sendAt' = sendAt /\ script' = script /\ recordsRead' = recordsRead
      /\ packetsSent' = packetsSent /\ packetsDropped' = packetsDropped
      /\ socket' = socket /\ overrun' = overrun /\ handlerVars' = handlerVars
      /\ sender = "replay"
  BY DEF ReplayComplete
<1>3. SendsTheFile'
  BY ONLY <1>1, <1>2, file' = file, Zenon DEF SendsTheFile
<1>4. CASE Disturbed
  <2>1. state' = state
    BY ONLY <1>2 DEF handlerVars
  <2>2. sender # "failed"
    BY ONLY <1>2
  <2>3. Disturbed'
    BY ONLY <1>2, <1>4, <2>1, <2>2, Zenon DEF Disturbed
  <2>4. QED
    BY ONLY <1>3, <2>3, program = "gap", program' = program, Zenon DEF FeedInv
<1>5. CASE \E K \in SUBSET (Nat \ {0}) : K = KeptBy(script) /\ FeedRuns(K)
  <2>1. PICK K \in SUBSET (Nat \ {0}) : K = KeptBy(script) /\ FeedRuns(K)
    BY <1>5
  <2>2. FeedRuns(K)'
    BY ONLY <1>2, <2>1, file' = file, FeedStays, ByteBaseAssumption
  <2>3. QED
    BY ONLY <1>2, <1>3, <2>1, <2>2, K \in SUBSET (Nat \ {0}), program = "gap", program' = program,
            Zenon DEF FeedInv
<1>6. QED
  BY <1>1, <1>4, <1>5

(* The receiver takes a datagram. *)
LEMMA ReceiveDatagramHolds ==
  ASSUME NEW K \in SUBSET (Nat \ {0}), NEW last \in Nat, NEW w, Receives(K, last),
         Waiting(K, last, w), recordsRead \in Nat,
         file' = file, recordsRead' = recordsRead, ReceiveDatagram
  PROVE  \E next \in Nat : next <= recordsRead /\ Receives(K, next)' /\ Waiting(K, next, Tail(w))'
<1>1. Line(K, last, recordsRead, w) /\ Carries(file, w) /\ socket = Datagrams(file, w)
  BY Zenon DEF Waiting
<1>2. socket # <<>> /\ socket' = Tail(socket)
  BY DEF ReceiveDatagram
<1>3. w # <<>>
  <2>1. socket \in Seq(Seq(Nat)) /\ Len(socket) = Len(w)
    BY ONLY <1>1, DatagramsAre, ByteBaseAssumption
  <2>2. w \in Seq(Nat)
    BY ONLY <1>1, Zenon DEF Carries
  <2>3. QED
    BY ONLY <1>2, <2>1, <2>2
<1>4. /\ Carries(file, Tail(w)) /\ Tail(socket) = Datagrams(file, Tail(w))
      /\ DecodesPacket(Head(socket)) /\ DecodePacket(Head(socket)).seq = Head(w)
  <2>1. /\ Carries(file, Tail(w)) /\ Tail(Datagrams(file, w)) = Datagrams(file, Tail(w))
        /\ Head(Datagrams(file, w)) = SentBy(file, Head(w))
        /\ DecodesPacket(SentBy(file, Head(w))) /\ DecodePacket(SentBy(file, Head(w))).seq = Head(w)
    BY ONLY <1>1, <1>3, DatagramsMove, ByteBaseAssumption
  <2>2. QED
    BY ONLY <1>1, <2>1, Zenon
<1>5. /\ Head(w) \in K /\ last < Head(w) /\ Head(w) <= recordsRead
      /\ \A k \in last + 1 .. Head(w) - 1 : k \notin K
      /\ Line(K, Head(w), recordsRead, Tail(w))
  <2>1. K \in SUBSET Nat
    OBVIOUS
  <2>2. QED
    BY ONLY <1>1, <1>3, <2>1, LineMoves, ByteBaseAssumption, last \in Nat, recordsRead \in Nat
<1>6. PICK h \in Nat : h = Head(w)
  BY <1>5
<1>7. PICK p : p = DecodePacket(Head(socket)) /\ p.seq = h
  BY ONLY <1>4, <1>6, Zenon
<1>8. ReceivePacket(p)
  BY ONLY <1>4, <1>7, ReceiveDatagram, Zenon DEF ReceiveDatagram
<1>9. Receives(K, p.seq)'
  BY ONLY <1>5, <1>6, <1>7, <1>8, Receives(K, last), ReceiveHolds, ByteBaseAssumption,
          K \in SUBSET (Nat \ {0}), last \in Nat
<1>10. Waiting(K, h, Tail(w))'
  BY ONLY <1>2, <1>4, <1>5, <1>6, file' = file, recordsRead' = recordsRead, Zenon DEF Waiting
<1>11. Receives(K, h)'
  <2>1. ASSUME NEW q, q = h, Receives(K, q)' PROVE Receives(K, h)'
    BY ONLY <2>1, Zenon
  <2>2. QED
    BY ONLY <1>7, <1>9, <2>1, Zenon
<1>12. QED
  BY ONLY <1>5, <1>6, <1>10, <1>11, h \in Nat, Zenon

(* The other steps of the receiver leave the socket alone. *)
LEMMA HandlerHolds ==
  ASSUME NEW K \in SUBSET (Nat \ {0}), NEW last \in Nat, Receives(K, last),
         IsRecording(file), last <= Len(file.payloads), last <= MaxSequence, state' # "Failed",
         \/ Run \/ LoopCondition \/ ProcessInSequence \/ RecoverMissing \/ FinishLifecycle
         \/ ReceiveNothing
  PROVE  Receives(K, last)'
<1>1. CASE Run
  BY <1>1, RunHolds
<1>2. CASE LoopCondition \/ ReceiveNothing
  BY <1>2, LoopHolds
<1>3. CASE InSequence
  BY <1>3, InSequenceHolds
<1>4. CASE OldPacket
  BY <1>4, NoOldPacket
<1>5. CASE ProcessRecoveredPacket
  BY <1>5, ProcessRecoveredHolds
<1>6. CASE GapClosed
  BY <1>6, GapClosedHolds
<1>7. CASE ProcessLivePacket
  BY <1>7, ProcessLiveHolds
<1>8. CASE RecoverMissing
  BY <1>8, RecoverHolds
<1>9. CASE FinishLifecycle
  BY <1>9, NoFinish
<1>10. QED
  BY <1>1, <1>2, <1>3, <1>4, <1>5, <1>6, <1>7, <1>8, <1>9 DEF ProcessInSequence

(* A failed feed stays failed. *)
LEMMA FailureStays ==
  ASSUME Receiver, state = "Failed"
  PROVE  state' = "Failed"
<1>1. CASE ReceiveDatagram
  BY <1>1 DEF ReceiveDatagram, ReceivePacket, ReceiveNothing, control
<1>2. CASE state = "Stopped" /\ Run
  BY <1>2
<1>3. CASE LoopCondition \/ ReceiveNothing
  BY <1>3 DEF LoopCondition, ReceiveNothing, control
<1>4. CASE ProcessInSequence
  BY <1>4 DEF ProcessInSequence, InSequence, OldPacket, ProcessRecoveredPacket, GapClosed,
              ProcessLivePacket, Fail, control
<1>5. CASE RecoverMissing
  BY <1>5 DEF RecoverMissing, GapRecovered, control
<1>6. CASE FinishLifecycle
  BY <1>6 DEF FinishLifecycle
<1>7. QED
  BY <1>1, <1>2, <1>3, <1>4, <1>5, <1>6 DEF Receiver

(* A step of the receiver. *)
LEMMA ReceiverHolds ==
  ASSUME FeedInv, program = "gap", Receiver, file' = file, program' = program
  PROVE  FeedInv'
<1>1. SendsTheFile /\ (Disturbed \/ \E K \in SUBSET (Nat \ {0}) : K = KeptBy(script) /\ FeedRuns(K))
  BY Zenon DEF FeedInv
<1>2. /\ sender' = sender /\ sendAt' = sendAt /\ script' = script /\ recordsRead' = recordsRead
      /\ packetsSent' = packetsSent /\ packetsDropped' = packetsDropped /\ overrun' = overrun
  BY DEF Receiver, senderVars
<1>3. SendsTheFile'
  BY ONLY <1>1, <1>2, file' = file, Zenon DEF SendsTheFile
<1>4. SUFFICES ASSUME ~Disturbed'
               PROVE  \E K \in SUBSET (Nat \ {0}) : K = KeptBy(script') /\ FeedRuns(K)'
  BY ONLY <1>3, <1>4, program = "gap", program' = program, Zenon DEF FeedInv
<1>5. state' # "Failed" /\ ~Disturbed
  <2>1. state = "Failed" => state' = "Failed"
    BY FailureStays
  <2>2. QED
    BY ONLY <1>2, <1>4, <2>1, Zenon DEF Disturbed
<1>6. PICK K \in SUBSET (Nat \ {0}) : K = KeptBy(script) /\ FeedRuns(K)
  BY ONLY <1>1, <1>5, Zenon
<1>7. PICK last \in Nat : \E w : last <= recordsRead /\ Receives(K, last) /\ Waiting(K, last, w)
  BY ONLY <1>6, Zenon DEF FeedRuns
<1>8. PICK w : last <= recordsRead /\ Receives(K, last) /\ Waiting(K, last, w)
  BY <1>7
<1>9. /\ recordsRead \in Nat /\ recordsRead <= script.records /\ IsRecording(file)
      /\ recordsRead <= Len(file.payloads) /\ script \in Scripts
  BY ONLY <1>1, Zenon DEF SendsTheFile
<1>10. Tallied(K)'
  <2>1. Tallied(K)
    BY ONLY <1>6, Zenon DEF FeedRuns
  <2>2. QED
    BY ONLY <1>2, <2>1, Zenon DEF Tallied
<1>11. last <= MaxSequence /\ last <= Len(file.payloads)
  <2>1. script.records \in Nat /\ script.records <= MaxSequence
    BY <1>9, ScriptIs
  <2>2. PICK l \in Nat : l = Len(file.payloads)
    <3>1. file.payloads \in Seq(Framable)
      BY <1>9, RecordingIs, SessionsAre
    <3>2. QED
      BY <3>1
  <2>3. QED
    BY ONLY <1>8, <1>9, <2>1, <2>2, last \in Nat, MaxSequenceAssumption
<1>12. \E next \in Nat : \E v : /\ next <= recordsRead' /\ Receives(K, next)'
                                /\ Waiting(K, next, v)'
  <2>1. CASE ReceiveDatagram
    <3>1. \E next \in Nat : /\ next <= recordsRead /\ Receives(K, next)'
                            /\ Waiting(K, next, Tail(w))'
      BY ONLY <1>2, <1>8, <1>9, <2>1, file' = file, K \in SUBSET (Nat \ {0}), last \in Nat,
              ReceiveDatagramHolds, ByteBaseAssumption
    <3>2. QED
      BY ONLY <1>2, <3>1, Zenon
  <2>2. CASE /\ \/ state = "Stopped" /\ Run
                \/ LoopCondition \/ ProcessInSequence \/ RecoverMissing \/ FinishLifecycle
                \/ ReceiveNothing /\ socket = <<>>
             /\ UNCHANGED socket
    <3>1. Receives(K, last)'
      BY ONLY <1>5, <1>8, <1>9, <1>11, <2>2, K \in SUBSET (Nat \ {0}), last \in Nat,
              HandlerHolds, ByteBaseAssumption
    <3>2. Waiting(K, last, w)'
      BY ONLY <1>2, <1>8, <2>2, file' = file, Zenon DEF Waiting
    <3>3. QED
      BY ONLY <1>2, <1>8, <3>1, <3>2, last \in Nat, Zenon
  <2>3. QED
    BY <2>1, <2>2 DEF Receiver
<1>13. FeedRuns(K)'
  BY ONLY <1>10, <1>12, Zenon DEF FeedRuns
<1>14. QED
  BY ONLY <1>2, <1>6, <1>13, K \in SUBSET (Nat \ {0}), Zenon
-----------------------------------------------------------------------------
(* It holds at first. *)
LEMMA FeedInvInit ==
  ASSUME SessionInit
  PROVE  FeedInv
<1>1. file \in Files \cup GapFiles /\ GapInit
  BY Zenon DEF SessionInit
<1>2. IsRecording(file)
  BY <1>1, FilesAssumption
<1>3. /\ sender = "replay" /\ sendAt = 0 /\ script \in Scripts
      /\ recordsRead = 0 /\ packetsSent = 0 /\ packetsDropped = 0 /\ socket = <<>> /\ HandlerInit
  BY <1>1, Zenon DEF GapInit
<1>4. PICK ps \in Sessions : ps = file.payloads
  BY <1>2, RecordingIs, Zenon
<1>5. Recorded(file, 0) = <<>>
  <2>1. SubSeq(ps, 1, 0) = <<>>
    BY DEF Sessions
  <2>2. QED
    BY ONLY <1>4, <2>1, Zenon DEF Recorded
<1>6. SendsTheFile
  <2>1. Len(<<>>) = 0 /\ 0 \in Nat
    OBVIOUS
  <2>2. sendAt = Len(Framed(Recorded(file, recordsRead)))
    BY ONLY <1>3, <1>5, <2>1, FramedEmpty, ByteBaseAssumption, Zenon
  <2>3. 0 <= script.records
    BY <1>3, ScriptIs
  <2>4. 0 <= Len(file.payloads)
    BY <1>4 DEF Sessions
  <2>5. QED
    BY ONLY <1>2, <1>3, <2>1, <2>2, <2>3, <2>4, Zenon DEF SendsTheFile
<1>7. PICK K \in SUBSET (Nat \ {0}) : K = KeptBy(script)
  BY KeptIs
<1>8. Tallied(K)
  <2>1. \A S : Counted(0, S) = 0
    BY NoneCounted
  <2>2. QED
    BY ONLY <1>3, <2>1, Zenon DEF Tallied
<1>9. Receives(K, 0)
  <2>1. HandlerWell
    BY <1>3 DEF HandlerInit, HandlerWell, Counters
  <2>2. Untouched
    BY <1>3 DEF HandlerInit, Untouched, Counters
  <2>3. QED
    BY <2>1, <2>2 DEF Receives, Handled
<1>10. PICK none \in Seq(Nat) : none = <<>> /\ Len(none) = 0
  <2>1. <<>> \in Seq(Nat) /\ Len(<<>>) = 0
    OBVIOUS
  <2>2. QED
    BY ONLY <2>1, Zenon
<1>11. Waiting(K, 0, none)
  <2>1. Line(K, 0, 0, none)
    BY <1>10, LineEmpty
  <2>2. Carries(file, none)
    BY <1>10 DEF Carries
  <2>3. Datagrams(file, none) \in Seq(Seq(Nat)) /\ Len(Datagrams(file, none)) = 0
    BY ONLY <1>10, <2>2, DatagramsAre, ByteBaseAssumption
  <2>4. Datagrams(file, none) = <<>>
    BY ONLY <2>3
  <2>5. QED
    BY ONLY <1>3, <2>1, <2>2, <2>4, Zenon DEF Waiting
<1>12. FeedRuns(K)
  <2>1. 0 \in Nat /\ 0 <= 0
    OBVIOUS
  <2>2. QED
    BY ONLY <1>3, <1>8, <1>9, <1>11, <2>1, Zenon DEF FeedRuns
<1>13. QED
  BY ONLY <1>3, <1>6, <1>7, <1>12, Zenon DEF FeedInv

(* Every step preserves it. *)
LEMMA FeedInvStep ==
  ASSUME FeedInv, [SessionNext]_sessionVars
  PROVE  FeedInv'
<1>1. ASSUME file' = file, program' = program, gapVars' = gapVars
      PROVE  FeedInv'
  <2>1. senderVars' = senderVars /\ socket' = socket /\ overrun' = overrun
        /\ handlerVars' = handlerVars
    BY ONLY <1>1 DEF gapVars
  <2>2. /\ sender' = sender /\ sendAt' = sendAt /\ script' = script /\ recordsRead' = recordsRead
        /\ packetsSent' = packetsSent /\ packetsDropped' = packetsDropped
    BY ONLY <2>1 DEF senderVars
  <2>3. state' = state
    BY ONLY <2>1 DEF handlerVars
  <2>4. SendsTheFile => SendsTheFile'
    BY ONLY <1>1, <2>2, Zenon DEF SendsTheFile
  <2>5. Disturbed => Disturbed'
    BY ONLY <2>1, <2>2, <2>3, Zenon DEF Disturbed
  <2>6. ASSUME NEW K \in SUBSET (Nat \ {0}), K = KeptBy(script), FeedRuns(K)
        PROVE  K = KeptBy(script') /\ FeedRuns(K)'
    <3>1. FeedRuns(K)'
      BY ONLY <1>1, <2>1, <2>2, <2>6, FeedStays, ByteBaseAssumption
    <3>2. QED
      BY ONLY <2>2, <2>6, <3>1
  <2>7. QED
    BY ONLY <1>1, <2>2, <2>4, <2>5, <2>6, FeedInv, Zenon DEF FeedInv
<1>2. CASE GapReplay
  <2>1. program = "gap" /\ (Sender \/ Receiver) /\ file' = file /\ program' = program
    BY <1>2, Zenon DEF GapReplay
  <2>2. CASE SendRecord
    BY <2>1, <2>2, SendRecordHolds
  <2>3. CASE ReplayComplete
    BY <2>1, <2>3, ReplayCompleteHolds
  <2>4. CASE Receiver
    BY <2>1, <2>4, ReceiverHolds
  <2>5. QED
    BY ONLY <2>1, <2>2, <2>3, <2>4, Zenon DEF Sender
<1>3. CASE ReplayMainThread
  BY ONLY <1>1, <1>3, Zenon DEF ReplayMainThread
<1>4. CASE ReplayConsumerThread
  BY ONLY <1>1, <1>4, Zenon DEF ReplayConsumerThread
<1>5. CASE LoadGen
  BY ONLY <1>1, <1>5, Zenon DEF LoadGen
<1>6. CASE UNCHANGED sessionVars
  <2>1. file' = file /\ program' = program /\ gapVars' = gapVars
    BY ONLY <1>6 DEF sessionVars
  <2>2. QED
    BY ONLY <1>1, <2>1
<1>7. CASE Finished
  BY <1>6, <1>7, Zenon DEF Finished
<1>8. QED
  BY <1>2, <1>3, <1>4, <1>5, <1>6, <1>7, Zenon DEF SessionNext
-----------------------------------------------------------------------------
(* What the program announces: numbers in its ranges. *)
Numbers(s, i) == s.ranges[i][1] .. s.ranges[i][2]
InRanges(s, n) == UNION {Numbers(s, i) : i \in 1 .. n}

(* The ranges of a script: numbers in order, of which none is in two.      *)
LEMMA RangesAre ==
  ASSUME NEW s \in Scripts
  PROVE  /\ s.ranges \in Seq(Nat \X Nat)
         /\ \A i \in 1 .. Len(s.ranges) :
              /\ s.ranges[i][1] \in Nat /\ s.ranges[i][2] \in Nat
              /\ 1 <= s.ranges[i][1] /\ s.ranges[i][1] <= s.ranges[i][2]
              /\ s.ranges[i][2] <= s.records
         /\ \A i \in 2 .. Len(s.ranges) : s.ranges[i - 1][2] < s.ranges[i][1]
<1>1. Accepted(s) /\ s.ranges \in Seq(Nat \X Nat)
  BY ScriptAssumption
<1>2. PICK rs \in Seq(Nat \X Nat) : rs = s.ranges
  BY <1>1
<1>3. \A i \in 1 .. Len(rs) : rs[i][1] \in Nat /\ rs[i][2] \in Nat
  OBVIOUS
<1>4. DOMAIN rs = 1 .. Len(rs)
  OBVIOUS
<1>5. QED
  BY ONLY <1>1, <1>2, <1>3, <1>4, Zenon DEF Accepted

(* Every number of an earlier range is before every range that follows. *)
LEMMA RangesRise ==
  ASSUME NEW s \in Scripts, NEW n \in Nat, n < Len(s.ranges)
  PROVE  \A i \in 1 .. n : s.ranges[i][2] < s.ranges[n + 1][1]
<1>1. PICK rs \in Seq(Nat \X Nat) : rs = s.ranges
  BY RangesAre
<1>2. PICK l \in Nat : l = Len(rs)
  OBVIOUS
<1>3. /\ \A i \in 1 .. l : rs[i][1] \in Nat /\ rs[i][2] \in Nat /\ rs[i][1] <= rs[i][2]
      /\ \A i \in 2 .. l : rs[i - 1][2] < rs[i][1]
  BY ONLY <1>1, <1>2, RangesAre, s \in Scripts, ByteBaseAssumption, Zenon
<1> DEFINE T == {m \in Nat : m < l => \A i \in 1 .. m : rs[i][2] < rs[m + 1][1]}
<1>4. 0 \in T
  OBVIOUS
<1>5. ASSUME NEW m \in T PROVE m + 1 \in T
  <2>1. PICK k \in Nat : k = m + 1
    OBVIOUS
  <2>2. ASSUME k < l, NEW i \in 1 .. k PROVE rs[i][2] < rs[k + 1][1]
    <3>1. m \in Nat /\ m < l /\ k \in 1 .. l /\ k + 1 \in 2 .. l /\ k + 1 \in 1 .. l
          /\ (k + 1) - 1 = k /\ i \in 1 .. l
      BY <2>1, <2>2
    <3>2. rs[k][2] < rs[k + 1][1]
      BY ONLY <1>3, <3>1
    <3>3. CASE i = k
      BY ONLY <3>2, <3>3
    <3>4. CASE i # k
      <4>1. i \in 1 .. m
        BY ONLY <2>1, <3>1, <3>4, i \in 1 .. k
      <4>2. rs[i][2] < rs[k][1]
        BY <2>1, <3>1, <4>1
      <4>3. PICK x, y, z, u \in Nat : x = rs[i][2] /\ y = rs[k][1] /\ z = rs[k][2] /\ u = rs[k + 1][1]
        BY ONLY <1>3, <3>1, Zenon
      <4>4. y <= z
        BY ONLY <1>3, <3>1, <4>3
      <4>5. x < y /\ z < u
        BY ONLY <3>2, <4>2, <4>3
      <4>6. x < u
        BY ONLY <4>4, <4>5, x \in Nat, y \in Nat, z \in Nat, u \in Nat
      <4>7. QED
        BY ONLY <4>3, <4>6
    <3>5. QED
      BY ONLY <3>3, <3>4
  <2>3. k \in T
    BY <2>2
  <2>4. QED
    BY ONLY <2>1, <2>3
<1>6. n \in T
  <2>1. T \in SUBSET Nat
    OBVIOUS
  <2> HIDE DEF T
  <2>2. QED
    BY <1>4, <1>5, <2>1, SetInduction
<1>7. n < l
  BY ONLY <1>1, <1>2, n < Len(s.ranges)
<1>8. QED
  BY ONLY <1>1, <1>6, <1>7

(* "Expected dropped" counts the numbers in the ranges. *)
LEMMA ExpectedIs ==
  ASSUME NEW s \in Scripts
  PROVE  /\ IsFiniteSet(InRanges(s, Len(s.ranges)))
         /\ Cardinality(InRanges(s, Len(s.ranges))) = ExpectedDropped(s)
<1>1. PICK rs \in Seq(Nat \X Nat) : rs = s.ranges
  BY RangesAre
<1>2. PICK l \in Nat : l = Len(rs)
  OBVIOUS
<1>3. \A i \in 1 .. l : rs[i][1] \in Nat /\ rs[i][2] \in Nat /\ rs[i][1] <= rs[i][2]
  BY ONLY <1>1, <1>2, RangesAre, s \in Scripts, ByteBaseAssumption, Zenon
<1> DEFINE step == [x \in Nat \X Nat |->
                      IF x[2] \in 1 .. l THEN x[1] + (rs[x[2]][2] - rs[x[2]][1] + 1) ELSE 0]
<1>4. step \in [Nat \X Nat -> Nat]
  <2>1. ASSUME NEW v \in Nat, NEW i \in 1 .. l PROVE v + (rs[i][2] - rs[i][1] + 1) \in Nat
    BY ONLY <1>3, <2>1, SMTT(60)
  <2>2. QED
    BY ONLY <2>1
<1>5. \A v \in Nat, i \in 1 .. l : step[<<v, i>>] = v + (rs[i][2] - rs[i][1] + 1)
  OBVIOUS
<1>6. PICK f : Iterated(f, l, 0, step, Nat)
  <2> HIDE DEF step
  <2>1. IsStep(step, Nat)
    BY ONLY <1>4 DEF IsStep
  <2>2. QED
    BY <2>1, Iterates
<1>7. /\ f \in [0 .. l -> Nat] /\ f[0] = 0
      /\ \A i \in 1 .. l : f[i] = f[i - 1] + (rs[i][2] - rs[i][1] + 1)
  <2> HIDE DEF step
  <2>1. f \in [0 .. l -> Nat] /\ f[0] = 0 /\ \A i \in 1 .. l : f[i] = step[<<f[i - 1], i>>]
    BY ONLY <1>6 DEF Iterated
  <2>2. \A i \in 1 .. l : f[i - 1] \in Nat
    BY ONLY <2>1
  <2>3. QED
    BY ONLY <1>5, <2>1, <2>2
<1> HIDE DEF step
<1>8. f = [n \in 0 .. l |-> IF n = 0 THEN 0 ELSE f[n - 1] + (rs[n][2] - rs[n][1] + 1)]
  <2>1. \A n \in 0 .. l : f[n] = IF n = 0 THEN 0 ELSE f[n - 1] + (rs[n][2] - rs[n][1] + 1)
    BY ONLY <1>7
  <2>2. QED
    BY ONLY <1>7, <2>1
<1> DEFINE total == CHOOSE g : g = [n \in 0 .. l |->
                      IF n = 0 THEN 0 ELSE g[n - 1] + (rs[n][2] - rs[n][1] + 1)]
<1>9. total = [n \in 0 .. l |-> IF n = 0 THEN 0 ELSE total[n - 1] + (rs[n][2] - rs[n][1] + 1)]
  BY ONLY <1>8, Zenon
<1>10. ExpectedDropped(s) = total[l]
  BY ONLY <1>1, <1>2, Zenon DEF ExpectedDropped
<1> HIDE DEF total
<1>11. total[l] = f[l]
  <2>1. total[0] = 0 /\ \A i \in 1 .. l : total[i] = total[i - 1] + (rs[i][2] - rs[i][1] + 1)
    <3>1. \A n \in 0 .. l :
            total[n] = IF n = 0 THEN 0 ELSE total[n - 1] + (rs[n][2] - rs[n][1] + 1)
      BY ONLY <1>9, Zenon
    <3>2. 0 \in 0 .. l /\ \A i \in 1 .. l : i \in 0 .. l /\ i # 0
      OBVIOUS
    <3>3. QED
      BY ONLY <3>1, <3>2, Zenon
  <2>2. \A i \in 1 .. l : total[i - 1] = f[i - 1] => total[i] = f[i]
    BY ONLY <1>7, <2>1
  <2>3. total[0] = f[0]
    BY ONLY <1>7, <2>1
  <2>4. \A i \in 0 .. l : total[i] = f[i]
    <3>1. l \in Nat /\ total[0] = f[0]
      BY <2>3
    <3>2. QED
      BY ONLY <2>2, <3>1, Agree, ZenonT(120)
  <2>5. QED
    BY ONLY <2>4, l \in Nat
<1> DEFINE In(n) == InRanges(s, n)
           T == {n \in Nat : n <= l => IsFiniteSet(In(n)) /\ Cardinality(In(n)) = f[n]}
<1>12. 0 \in T
  <2>1. In(0) = {}
    BY DEF InRanges
  <2>2. QED
    BY <1>7, <2>1, FS_EmptySet
<1>13. ASSUME NEW n \in T PROVE n + 1 \in T
  <2>1. SUFFICES ASSUME n + 1 <= l PROVE IsFiniteSet(In(n + 1)) /\ Cardinality(In(n + 1)) = f[n + 1]
    OBVIOUS
  <2>2. n \in Nat /\ n <= l /\ n < l /\ n + 1 \in 1 .. l /\ (n + 1) - 1 = n /\ n \in 0 .. l
    BY <2>1
  <2>3. PICK few : few = In(n) /\ IsFiniteSet(few) /\ Cardinality(few) = f[n]
    BY <2>2
  <2>4. PICK a, b \in Nat : a = rs[n + 1][1] /\ b = rs[n + 1][2] /\ a <= b
    BY ONLY <1>3, <2>2
  <2>5. IsFiniteSet(a .. b) /\ Cardinality(a .. b) = b - a + 1
    <3>1. a \in Int /\ b \in Int /\ ~(a > b)
      BY ONLY <2>4, a \in Nat, b \in Nat
    <3>2. QED
      BY ONLY <3>1, FS_Interval
  <2>6. In(n + 1) = few \cup (a .. b)
    <3>1. Numbers(s, n + 1) = a .. b
      BY ONLY <1>1, <2>4, Zenon DEF Numbers
    <3>2. {Numbers(s, i) : i \in 1 .. n + 1} = {Numbers(s, i) : i \in 1 .. n} \cup {Numbers(s, n + 1)}
      <4>1. \A i : i \in 1 .. n + 1 <=> i \in 1 .. n \/ i = n + 1
        BY ONLY <2>2
      <4>2. QED
        BY ONLY <4>1
    <3>3. QED
      BY ONLY <2>3, <3>1, <3>2 DEF InRanges
  <2>7. few \cap (a .. b) = {}
    <3>1. \A i \in 1 .. n : rs[i][2] < a
      <4>1. n < Len(s.ranges)
        BY ONLY <1>1, <1>2, <2>2
      <4>2. QED
        BY ONLY <1>1, <2>2, <2>4, <4>1, RangesRise, s \in Scripts, ByteBaseAssumption
    <3>2. ASSUME NEW x \in few PROVE x < a
      <4>1. PICK i \in 1 .. n : x \in rs[i][1] .. rs[i][2]
        BY ONLY <1>1, <2>3, <3>2 DEF InRanges, Numbers
      <4>2. i \in 1 .. l
        BY ONLY <2>2, <4>1
      <4>3. rs[i][1] \in Nat /\ rs[i][2] \in Nat /\ rs[i][2] < a
        BY ONLY <1>3, <3>1, <4>1, <4>2
      <4>4. QED
        BY ONLY <4>1, <4>3, a \in Nat
    <3>3. ASSUME NEW x \in few, x \in a .. b PROVE FALSE
      BY ONLY <3>2, <3>3, a \in Nat, b \in Nat
    <3>4. QED
      BY ONLY <3>3
  <2>8. IsFiniteSet(few \cup (a .. b))
        /\ Cardinality(few \cup (a .. b)) = Cardinality(few) + Cardinality(a .. b)
    <3>1. /\ IsFiniteSet(few \cup (a .. b))
          /\ Cardinality(few \cup (a .. b)) = Cardinality(few) + Cardinality(a .. b)
                                              - Cardinality(few \cap (a .. b))
      BY ONLY <2>3, <2>5, FS_Union
    <3>2. Cardinality(few \cap (a .. b)) = 0
      BY ONLY <2>7, FS_EmptySet
    <3>3. Cardinality(few) \in Nat /\ Cardinality(a .. b) \in Nat
      BY ONLY <2>3, <2>5, FS_CardinalityType
    <3>4. QED
      BY ONLY <3>1, <3>2, <3>3
  <2>9. f[n + 1] = f[n] + (b - a + 1)
    BY ONLY <1>7, <2>2, <2>4
  <2>10. QED
    BY ONLY <2>3, <2>5, <2>6, <2>8, <2>9
<1>14. l \in T
  <2>1. T \in SUBSET Nat
    OBVIOUS
  <2> HIDE DEF T
  <2>2. QED
    BY <1>12, <1>13, <2>1, SetInduction
<1>15. QED
  BY ONLY <1>1, <1>2, <1>10, <1>11, <1>14
-----------------------------------------------------------------------------
(* When the replay has arrived *)

(* The records sent, of the first R, and those between them.               *)
SentOf(K, R) == {n \in 1 .. R : n \in K}
BetweenOf(K, R) == {n \in 1 .. R : \E i, j \in SentOf(K, R) : i <= n /\ n <= j}
GapStartsOf(K, R) == {n \in BetweenOf(K, R) \ SentOf(K, R) : n - 1 \in SentOf(K, R)}

(* They are the sets that the property speaks of. *)
LEMMA SentIs ==
  ASSUME NEW K \in SUBSET (Nat \ {0}), K = KeptBy(script), NEW R \in Nat, R = recordsRead
  PROVE  /\ SentSequences = SentOf(K, R) /\ Between = BetweenOf(K, R)
         /\ GapStarts = GapStartsOf(K, R)
<1>1. \A n \in 1 .. R : n \in K <=> ~ShouldDrop(n)
  BY KeptIs
<1>2. SentSequences = SentOf(K, R)
  BY ONLY <1>1, R = recordsRead DEF SentSequences, SentOf
<1>3. Between = BetweenOf(K, R)
  BY ONLY <1>2, R = recordsRead, Zenon DEF Between, BetweenOf
<1>4. QED
  BY ONLY <1>2, <1>3, Zenon DEF GapStarts, GapStartsOf

(* Where none was sent. *)
LEMMA NoneSent ==
  ASSUME NEW K \in SUBSET (Nat \ {0}), NEW R \in Nat, \A n \in K : ~(n <= R)
  PROVE  SentOf(K, R) = {} /\ BetweenOf(K, R) = {} /\ GapStartsOf(K, R) = {}
<1>1. SentOf(K, R) = {}
  BY DEF SentOf
<1>2. BetweenOf(K, R) = {}
  BY ONLY <1>1 DEF BetweenOf
<1>3. QED
  BY ONLY <1>1, <1>2 DEF GapStartsOf

(* Where some were, from the first to the last.                            *)
NoneBehind(K, last, R) == \A n \in K : ~(last < n /\ n <= R)

SentFrom(K, R, first, last) ==
  /\ BetweenOf(K, R) = first .. last
  /\ GapStartsOf(K, R) = (1 .. last) \cap Starts(K)
  /\ BetweenOf(K, R) \ SentOf(K, R) = (1 .. last) \cap LeftOutBehind(K, first)

(* With nothing kept behind the last one taken, the sets end there. *)
LEMMA SomeSent ==
  ASSUME NEW K \in SUBSET (Nat \ {0}), NEW R \in Nat, NEW first \in Nat, NEW last \in Nat,
         Sits(K, first, last, last), last <= R, NoneBehind(K, last, R)
  PROVE  SentFrom(K, R, first, last)
<1>0. \A n \in K : ~(last < n /\ n <= R)
  BY ONLY NoneBehind(K, last, R), Zenon DEF NoneBehind
<1>1. /\ first \in K /\ last \in K /\ first <= last /\ \A k \in 1 .. first - 1 : k \notin K
      /\ first # 0
  BY DEF Sits, FirstOf
<1>2. \A n \in K : n <= R => first <= n /\ n <= last
  <2>1. TAKE n \in K
  <2>2. n \in Nat /\ n # 0
    OBVIOUS
  <2>3. n \in 1 .. first - 1 \/ first <= n
    BY <2>2
  <2>4. QED
    BY ONLY <1>0, <1>1, <2>2, <2>3, n \in K, R \in Nat, first \in Nat, last \in Nat
<1>3. SentOf(K, R) \subseteq first .. last
  BY ONLY <1>2, first \in Nat, last \in Nat, R \in Nat DEF SentOf
<1>4. first \in SentOf(K, R) /\ last \in SentOf(K, R)
  BY ONLY <1>1, first \in Nat, last \in Nat, R \in Nat, last <= R DEF SentOf
<1>5. BetweenOf(K, R) = first .. last
  <2>1. ASSUME NEW n \in BetweenOf(K, R) PROVE n \in first .. last
    <3>1. PICK i, j \in SentOf(K, R) : n \in 1 .. R /\ i <= n /\ n <= j
      BY ONLY n \in BetweenOf(K, R) DEF BetweenOf
    <3>2. i \in first .. last /\ j \in first .. last
      BY ONLY <1>3, <3>1
    <3>3. QED
      BY ONLY <3>1, <3>2, first \in Nat, last \in Nat, R \in Nat
  <2>2. ASSUME NEW n \in first .. last PROVE n \in BetweenOf(K, R)
    <3>1. n \in 1 .. R /\ first <= n /\ n <= last
      BY ONLY <1>1, <2>2, first \in Nat, last \in Nat, R \in Nat, last <= R
    <3>2. QED
      BY ONLY <1>4, <3>1, Zenon DEF BetweenOf
  <2>3. QED
    BY ONLY <2>1, <2>2
<1>6. \A n \in 1 .. R : n \in SentOf(K, R) <=> n \in K
  BY DEF SentOf
<1>7. GapStartsOf(K, R) = (1 .. last) \cap Starts(K)
  <2>1. ASSUME NEW n \in GapStartsOf(K, R) PROVE n \in 1 .. last /\ n \in Starts(K)
    <3>1. n \in first .. last /\ n \notin SentOf(K, R) /\ n - 1 \in SentOf(K, R)
      BY ONLY <1>5, n \in GapStartsOf(K, R) DEF GapStartsOf
    <3>2. n \in 1 .. R /\ n \in 1 .. last /\ n - 1 \in K
      BY ONLY <1>1, <3>1, first \in Nat, last \in Nat, R \in Nat, last <= R DEF SentOf
    <3>3. n \notin K
      BY ONLY <1>6, <3>1, <3>2
    <3>4. QED
      BY ONLY <3>2, <3>3, last \in Nat DEF Starts
  <2>2. ASSUME NEW n \in 1 .. last, n \in Starts(K) PROVE n \in GapStartsOf(K, R)
    <3>1. n \notin K /\ n - 1 \in K
      BY ONLY <2>2 DEF Starts
    <3>2. n \in 1 .. R /\ n - 1 \in 1 .. R
      BY ONLY <3>1, n \in 1 .. last, last \in Nat, R \in Nat, last <= R, K \in SUBSET (Nat \ {0})
    <3>3. first <= n - 1
      BY ONLY <1>2, <3>1, <3>2, R \in Nat
    <3>4. n \in first .. last
      BY ONLY <3>3, n \in 1 .. last, first \in Nat, last \in Nat
    <3>5. n \notin SentOf(K, R) /\ n - 1 \in SentOf(K, R)
      BY ONLY <1>6, <3>1, <3>2
    <3>6. QED
      BY ONLY <1>5, <3>4, <3>5 DEF GapStartsOf
  <2>3. QED
    BY ONLY <2>1, <2>2
<1>8. BetweenOf(K, R) \ SentOf(K, R) = (1 .. last) \cap LeftOutBehind(K, first)
  <2>1. ASSUME NEW n \in first .. last, n \notin SentOf(K, R)
        PROVE  n \in 1 .. last /\ n \in LeftOutBehind(K, first)
    <3>1. n \in Nat /\ n \in 1 .. last /\ n \in 1 .. R /\ first <= n
      BY ONLY <1>1, <2>1, first \in Nat, last \in Nat, R \in Nat, last <= R
    <3>2. n \notin K /\ n # first
      BY ONLY <1>4, <1>6, <2>1, <3>1
    <3>3. QED
      BY ONLY <3>1, <3>2, first \in Nat DEF LeftOutBehind
  <2>2. ASSUME NEW n \in 1 .. last, n \in LeftOutBehind(K, first)
        PROVE  n \in first .. last /\ n \notin SentOf(K, R)
    <3>1. n \notin K /\ n > first
      BY ONLY <2>2 DEF LeftOutBehind
    <3>2. n \in first .. last
      BY ONLY <3>1, n \in 1 .. last, first \in Nat, last \in Nat
    <3>3. QED
      BY ONLY <3>1, <3>2 DEF SentOf
  <2>3. QED
    BY ONLY <1>5, <2>1, <2>2
<1>9. QED
  BY ONLY <1>5, <1>7, <1>8, Zenon DEF SentFrom

(* What was given is what lies between. *)
LEMMA ConsecutiveSet ==
  ASSUME NEW first \in Nat, NEW last \in Nat, first <= last
  PROVE  /\ ToSet(Consecutive(first, last)) = first .. last
         /\ \A i \in 2 .. Len(Consecutive(first, last)) :
              Consecutive(first, last)[i] = Consecutive(first, last)[i - 1] + 1
<1>1. PICK s : s = Consecutive(first, last)
  OBVIOUS
<1>2. PICK l \in Nat : l = last - first + 1
  OBVIOUS
<1>3. s \in Seq(Nat) /\ Len(s) = l /\ \A i \in 1 .. l : s[i] = first + i - 1
  <2>1. first <= last + 1
    OBVIOUS
  <2>2. QED
    BY ONLY <1>1, <1>2, <2>1, ConsecutiveIs, ByteBaseAssumption, first \in Nat, last \in Nat
<1>4. \A i \in 2 .. l : s[i] = s[i - 1] + 1
  <2>1. TAKE i \in 2 .. l
  <2>2. i \in 1 .. l /\ i - 1 \in 1 .. l
    OBVIOUS
  <2>3. s[i] = first + i - 1 /\ s[i - 1] = first + (i - 1) - 1
    BY ONLY <1>3, <2>2
  <2>4. QED
    BY ONLY <2>2, <2>3, first \in Nat, l \in Nat
<1>5. ToSet(s) = first .. last
  <2>1. \A i \in 1 .. l : s[i] \in first .. last
    BY ONLY <1>2, <1>3, first \in Nat, last \in Nat, l \in Nat
  <2>2. ASSUME NEW n \in first .. last PROVE \E i \in 1 .. l : s[i] = n
    <3>1. n - first + 1 \in 1 .. l
      BY ONLY <1>2, n \in first .. last, first \in Nat, last \in Nat, l \in Nat
    <3>2. s[n - first + 1] = first + (n - first + 1) - 1
      BY ONLY <1>3, <3>1
    <3>3. QED
      BY ONLY <3>1, <3>2, n \in first .. last, first \in Nat, last \in Nat
  <2>3. DOMAIN s = 1 .. l
    BY ONLY <1>3
  <2>4. QED
    BY ONLY <2>1, <2>2, <2>3 DEF ToSet
<1>6. QED
  BY ONLY <1>1, <1>3, <1>4, <1>5, Zenon

(* Ranges that lie between records that were sent: the numbers in them are *)
(* those left out, and each has a beginning of its own.                    *)
LEMMA ApartIs ==
  ASSUME NEW s \in Scripts, NEW K, K = KeptBy(s), NEW R \in Nat, R <= s.records,
         \A i \in DOMAIN s.ranges : s.ranges[i][1] - 1 \in SentOf(K, R)
                                    /\ s.ranges[i][2] + 1 \in SentOf(K, R)
  PROVE  /\ InRanges(s, Len(s.ranges)) = BetweenOf(K, R) \ SentOf(K, R)
         /\ InRanges(s, Len(s.ranges)) = (1 .. R) \cap ((Nat \ {0}) \ K)
         /\ GapStartsOf(K, R) = {s.ranges[i][1] : i \in 1 .. Len(s.ranges)}
<1>1. PICK rs \in Seq(Nat \X Nat) : rs = s.ranges
  BY RangesAre
<1>2. PICK l \in Nat : l = Len(rs)
  OBVIOUS
<1>3. /\ \A i \in 1 .. l : rs[i][1] \in Nat /\ rs[i][2] \in Nat /\ 1 <= rs[i][1]
                           /\ rs[i][1] <= rs[i][2]
  BY ONLY <1>1, <1>2, RangesAre, s \in Scripts, ByteBaseAssumption, Zenon
<1>4. DOMAIN rs = 1 .. l
  BY <1>2
<1>5. \A i \in 1 .. l : rs[i][1] - 1 \in SentOf(K, R) /\ rs[i][2] + 1 \in SentOf(K, R)
  BY ONLY <1>1, <1>4, Zenon,
          \A i \in DOMAIN s.ranges : s.ranges[i][1] - 1 \in SentOf(K, R)
                                     /\ s.ranges[i][2] + 1 \in SentOf(K, R)
<1>6. \A n \in Nat \ {0} : n \notin K <=> \E i \in 1 .. l : rs[i][1] <= n /\ n <= rs[i][2]
  BY ONLY <1>1, <1>4, K = KeptBy(s) DEF KeptBy
<1>7. PICK all : all = InRanges(s, Len(s.ranges))
  OBVIOUS
<1>8. \A n : n \in all <=> \E i \in 1 .. l : n \in rs[i][1] .. rs[i][2]
  BY ONLY <1>1, <1>2, <1>7 DEF InRanges, Numbers
<1>9. ASSUME NEW i \in 1 .. l, NEW n \in rs[i][1] .. rs[i][2]
      PROVE  /\ n \in 1 .. R /\ n \notin K /\ n \notin SentOf(K, R) /\ n \in BetweenOf(K, R)
  <2>1. PICK a, b \in Nat : a = rs[i][1] /\ b = rs[i][2]
    BY ONLY <1>3, i \in 1 .. l
  <2>2. a - 1 \in SentOf(K, R) /\ b + 1 \in SentOf(K, R) /\ 1 <= a
    BY ONLY <1>3, <1>5, <2>1, i \in 1 .. l
  <2>3. b + 1 \in 1 .. R
    BY ONLY <2>2 DEF SentOf
  <2>4. n \in Nat /\ a <= n /\ n <= b
    BY ONLY <2>1, a \in Nat, b \in Nat, n \in rs[i][1] .. rs[i][2]
  <2>5. n \in 1 .. R /\ n # 0 /\ a - 1 <= n /\ n <= b + 1
    BY ONLY <2>2, <2>3, <2>4, a \in Nat, b \in Nat, R \in Nat
  <2>6. n \notin K
    BY ONLY <1>6, <2>1, <2>4, <2>5, i \in 1 .. l
  <2>7. n \notin SentOf(K, R)
    BY ONLY <2>6 DEF SentOf
  <2>8. n \in BetweenOf(K, R)
    BY ONLY <2>2, <2>5, Zenon DEF BetweenOf
  <2>9. QED
    BY ONLY <2>5, <2>6, <2>7, <2>8
<1>10. ASSUME NEW n \in 1 .. R, n \notin K
       PROVE  \E i \in 1 .. l : n \in rs[i][1] .. rs[i][2]
  <2>1. n \in Nat \ {0}
    OBVIOUS
  <2>2. PICK i \in 1 .. l : rs[i][1] <= n /\ n <= rs[i][2]
    BY ONLY <1>6, <1>10, <2>1
  <2>3. rs[i][1] \in Nat /\ rs[i][2] \in Nat
    BY ONLY <1>3, <2>2
  <2>4. n \in rs[i][1] .. rs[i][2]
    BY ONLY <2>1, <2>2, <2>3
  <2>5. QED
    BY ONLY <2>4
<1>11. all = (1 .. R) \cap ((Nat \ {0}) \ K)
  <2>1. \A n \in all : n \in 1 .. R /\ n \notin K
    BY ONLY <1>8, <1>9
  <2>2. \A n \in 1 .. R : n \notin K => n \in all
    BY ONLY <1>8, <1>10
  <2>3. \A n \in 1 .. R : n \in Nat \ {0}
    OBVIOUS
  <2>4. QED
    BY ONLY <2>1, <2>2, <2>3
<1>12. all = BetweenOf(K, R) \ SentOf(K, R)
  <2>1. \A n \in all : n \in BetweenOf(K, R) /\ n \notin SentOf(K, R)
    BY ONLY <1>8, <1>9
  <2>2. \A n \in BetweenOf(K, R) : n \in 1 .. R
    BY ONLY DEF BetweenOf
  <2>3. \A n \in 1 .. R : n \notin SentOf(K, R) => n \notin K
    BY ONLY DEF SentOf
  <2>4. \A n \in 1 .. R : n \notin K => n \in all
    BY ONLY <1>8, <1>10
  <2>5. QED
    BY ONLY <2>1, <2>2, <2>3, <2>4
<1>13. GapStartsOf(K, R) = {rs[i][1] : i \in 1 .. l}
  <2>1. ASSUME NEW n \in GapStartsOf(K, R) PROVE \E i \in 1 .. l : n = rs[i][1]
    <3>1. n \in all /\ n - 1 \in SentOf(K, R)
      BY ONLY <1>12, n \in GapStartsOf(K, R) DEF GapStartsOf
    <3>2. PICK i \in 1 .. l : n \in rs[i][1] .. rs[i][2]
      BY ONLY <1>8, <3>1
    <3>3. rs[i][1] \in Nat /\ rs[i][2] \in Nat
      BY ONLY <1>3, <3>2
    <3>4. n - 1 \notin rs[i][1] .. rs[i][2]
      BY ONLY <1>9, <3>1, <3>2
    <3>5. n = rs[i][1]
      BY ONLY <3>2, <3>3, <3>4
    <3>6. QED
      BY ONLY <3>5
  <2>2. ASSUME NEW i \in 1 .. l PROVE rs[i][1] \in GapStartsOf(K, R)
    <3>1. rs[i][1] \in rs[i][1] .. rs[i][2]
      <4>1. PICK a, b \in Nat : a = rs[i][1] /\ b = rs[i][2] /\ a <= b
        BY ONLY <1>3, <2>2
      <4>2. a \in a .. b
        BY ONLY <4>1, a \in Nat, b \in Nat
      <4>3. QED
        BY ONLY <4>1, <4>2
    <3>2. rs[i][1] \in BetweenOf(K, R) /\ rs[i][1] \notin SentOf(K, R)
      BY ONLY <1>9, <2>2, <3>1
    <3>3. rs[i][1] - 1 \in SentOf(K, R)
      BY ONLY <1>5, <2>2
    <3>4. QED
      BY ONLY <3>2, <3>3 DEF GapStartsOf
  <2>3. QED
    BY ONLY <2>1, <2>2
<1>14. QED
  BY ONLY <1>1, <1>2, <1>7, <1>11, <1>12, <1>13, Zenon

(* There are as many beginnings as ranges. *)
LEMMA BeginningsCounted ==
  ASSUME NEW s \in Scripts
  PROVE  Cardinality({s.ranges[i][1] : i \in 1 .. Len(s.ranges)}) = ExpectedGaps(s)
<1>1. PICK rs \in Seq(Nat \X Nat) : rs = s.ranges
  BY RangesAre
<1>2. PICK l \in Nat : l = Len(rs)
  OBVIOUS
<1>3. \A i \in 1 .. l : rs[i][1] \in Nat /\ rs[i][2] \in Nat /\ rs[i][1] <= rs[i][2]
  BY ONLY <1>1, <1>2, RangesAre, s \in Scripts, ByteBaseAssumption, Zenon
<1>4. ASSUME NEW i \in 1 .. l, NEW j \in 1 .. l, i < j PROVE rs[i][1] < rs[j][1]
  <2>1. PICK k \in Nat : k = j - 1 /\ j = k + 1
    BY <1>4
  <2>2. k < Len(s.ranges) /\ i \in 1 .. k
    BY ONLY <1>1, <1>2, <1>4, <2>1, i \in 1 .. l, j \in 1 .. l, l \in Nat
  <2>3. \A m \in 1 .. k : s.ranges[m][2] < s.ranges[k + 1][1]
    BY ONLY <2>2, RangesRise, s \in Scripts, ByteBaseAssumption, k \in Nat
  <2>4. rs[i][2] < rs[j][1]
    BY ONLY <1>1, <2>1, <2>2, <2>3
  <2>5. PICK x, y, z \in Nat : x = rs[i][1] /\ y = rs[i][2] /\ z = rs[j][1]
    BY ONLY <1>3, i \in 1 .. l, j \in 1 .. l
  <2>6. x <= y /\ y < z
    BY ONLY <1>3, <2>4, <2>5, i \in 1 .. l
  <2>7. x < z
    BY ONLY <2>6, x \in Nat, y \in Nat, z \in Nat
  <2>8. QED
    BY ONLY <2>5, <2>7
<1> DEFINE T == {rs[i][1] : i \in 1 .. l}
           f == [i \in 1 .. l |-> rs[i][1]]
<1>5. f \in [1 .. l -> T] /\ \A i \in 1 .. l : f[i] = rs[i][1]
  OBVIOUS
<1>6. \A t \in T : \E i \in 1 .. l : f[i] = t
  OBVIOUS
<1>7. \A i, j \in 1 .. l : f[i] = f[j] => i = j
  <2>1. TAKE i \in 1 .. l, j \in 1 .. l
  <2>2. f[i] \in Nat /\ f[j] \in Nat
    BY <1>3
  <2>3. CASE i < j
    BY ONLY <1>4, <1>5, <2>2, <2>3, i \in 1 .. l, j \in 1 .. l
  <2>4. CASE j < i
    BY ONLY <1>4, <1>5, <2>2, <2>4, i \in 1 .. l, j \in 1 .. l
  <2>5. QED
    BY <2>3, <2>4
<1> HIDE DEF f, T
<1>8. ExistsBijection(1 .. l, T)
  <2>1. IsInjective(f)
    BY ONLY <1>5, <1>7 DEF IsInjective
  <2>2. f \in Injection(1 .. l, T) /\ f \in Surjection(1 .. l, T)
    BY ONLY <1>5, <1>6, <2>1, Zenon DEF Injection, Surjection
  <2>3. QED
    BY ONLY <2>2 DEF ExistsBijection, Bijection
<1>9. IsFiniteSet(1 .. l) /\ Cardinality(1 .. l) = l
  <2>1. l \in Int /\ 1 \in Int /\ (1 > l => l = 0) /\ l - 1 + 1 = l
    OBVIOUS
  <2>2. IsFiniteSet(1 .. l) /\ Cardinality(1 .. l) = IF 1 > l THEN 0 ELSE l - 1 + 1
    BY ONLY <2>1, FS_Interval
  <2>3. QED
    BY ONLY <2>1, <2>2
<1>10. Cardinality(T) = l
  BY ONLY <1>8, <1>9, FS_Bijection
<1>11. QED
  BY ONLY <1>1, <1>2, <1>10, Zenon DEF ExpectedGaps, T
-----------------------------------------------------------------------------
(* What the invariant says of a replay that has arrived: everything sent   *)
(* was taken from the socket.                                              *)
LEMMA WhenArrived ==
  ASSUME FeedInv, Arrived
  PROVE  \E K \in SUBSET (Nat \ {0}) :
           /\ K = KeptBy(script) /\ Tallied(K) /\ SendsTheFile
           /\ \E last \in Nat : /\ last <= recordsRead /\ Receives(K, last)
                                /\ \A n \in K : ~(last < n /\ n <= recordsRead)
<1>1. /\ sender = "complete" /\ socket = <<>> /\ ~overrun
      /\ state = "Running" /\ pc \in {"loop", "receive"}
  BY Zenon DEF Arrived
<1>2. program = "gap" /\ ~Disturbed
  BY <1>1 DEF FeedInv, Disturbed
<1>3. SendsTheFile
  BY ONLY <1>2, FeedInv, Zenon DEF FeedInv
<1>4. PICK K \in SUBSET (Nat \ {0}) : K = KeptBy(script) /\ FeedRuns(K)
  BY ONLY <1>2, FeedInv, Zenon DEF FeedInv
<1>5. PICK last \in Nat : \E w : last <= recordsRead /\ Receives(K, last) /\ Waiting(K, last, w)
  BY ONLY <1>4, Zenon DEF FeedRuns
<1>6. PICK w : last <= recordsRead /\ Receives(K, last) /\ Waiting(K, last, w)
  BY <1>5
<1>7. Line(K, last, recordsRead, w) /\ Carries(file, w) /\ socket = Datagrams(file, w)
  BY ONLY <1>6, Zenon DEF Waiting
<1>8. Len(w) = 0
  <2>1. Len(Datagrams(file, w)) = Len(w)
    BY ONLY <1>7, DatagramsAre, ByteBaseAssumption
  <2>2. Len(<<>>) = 0
    OBVIOUS
  <2>3. QED
    BY ONLY <1>1, <1>7, <2>1, <2>2, Zenon
<1>9. \A n \in K : last < n /\ n <= recordsRead => \E i \in 1 .. Len(w) : w[i] = n
  BY ONLY <1>7, Zenon DEF Line
<1>10. \A n \in K : ~(last < n /\ n <= recordsRead)
  <2>1. \A i \in 1 .. 0 : FALSE
    OBVIOUS
  <2>2. QED
    BY ONLY <1>8, <1>9, <2>1, Zenon
<1>11. Tallied(K)
  BY ONLY <1>4, Zenon DEF FeedRuns
<1>12. QED
  BY ONLY <1>3, <1>4, <1>6, <1>10, <1>11, K \in SUBSET (Nat \ {0}), last \in Nat, Zenon

(* By then the market state was given what lies between the records sent,  *)
(* and the handler counted what was not.                                   *)
LEMMA GivenWhenArrived ==
  ASSUME NEW K \in SUBSET (Nat \ {0}), NEW R \in Nat, NEW last \in Nat, last <= R,
         Receives(K, last), \A n \in K : ~(last < n /\ n <= R), pc \in {"loop", "receive"}
  PROVE  /\ ToSet(applied) = BetweenOf(K, R)
         /\ \A i \in 2 .. Len(applied) : applied[i] = applied[i - 1] + 1
         /\ stats["gaps"] = Cardinality(GapStartsOf(K, R))
         /\ stats["recovered"] = Cardinality(BetweenOf(K, R) \ SentOf(K, R))
         /\ stats["ignored"] = 0
<1>1. HandlerWell /\ Handled(K, last)
  BY Zenon DEF Receives
<1>2. stats["ignored"] = 0
  BY ONLY <1>1, Zenon DEF HandlerWell
<1>3. CASE last = 0 /\ Untouched
  <2>1. applied = <<>> /\ stats["gaps"] = 0 /\ stats["recovered"] = 0
    BY ONLY <1>3, Zenon DEF Untouched
  <2>2. \A n \in K : ~(n <= R)
    BY ONLY <1>3, K \in SUBSET (Nat \ {0}), \A n \in K : ~(last < n /\ n <= R)
  <2>3. SentOf(K, R) = {} /\ BetweenOf(K, R) = {} /\ GapStartsOf(K, R) = {}
    BY ONLY <2>2, NoneSent, ByteBaseAssumption, K \in SUBSET (Nat \ {0}), R \in Nat
  <2>4. ToSet(<<>>) = {}
    BY DEF ToSet
  <2>5. {} \ {} = {} /\ \A i \in 2 .. Len(<<>>) : FALSE
    OBVIOUS
  <2>6. Cardinality({}) = 0
    BY FS_EmptySet
  <2>7. QED
    BY ONLY <1>2, <2>1, <2>3, <2>4, <2>5, <2>6, Zenon
<1>4. CASE \E first \in Nat : Sits(K, first, last, last) /\ Rests(K, first, last)
  <2>1. PICK first \in Nat : Sits(K, first, last, last) /\ Rests(K, first, last)
    BY <1>4
  <2>2. /\ applied = Consecutive(first, last)
        /\ stats["gaps"] = Counted(last, Starts(K))
        /\ stats["recovered"] = Counted(last, LeftOutBehind(K, first))
    BY ONLY <2>1, Zenon DEF Rests, Given
  <2>0. Sits(K, first, last, last) /\ NoneBehind(K, last, R)
    BY <2>1 DEF NoneBehind
  <2>3. SentFrom(K, R, first, last)
    BY ONLY <2>0, SomeSent, ByteBaseAssumption, K \in SUBSET (Nat \ {0}), R \in Nat, first \in Nat,
            last \in Nat, last <= R
  <2>4. first <= last
    BY ONLY <2>1, Zenon DEF Sits
  <2>5. /\ ToSet(Consecutive(first, last)) = first .. last
        /\ \A i \in 2 .. Len(Consecutive(first, last)) :
             Consecutive(first, last)[i] = Consecutive(first, last)[i - 1] + 1
    BY ONLY <2>4, ConsecutiveSet, ByteBaseAssumption, first \in Nat, last \in Nat
  <2>6. QED
    BY ONLY <1>2, <2>2, <2>3, <2>5, Zenon DEF Counted, SentFrom
<1>5. QED
  BY <1>1, <1>3, <1>4, BetweenPackets

(* The invariant implies that the gaps are filled. *)
LEMMA FeedInvImplies ==
  ASSUME FeedInv
  PROVE  InjectedGapsAreFilled
<1>1. SUFFICES ASSUME Arrived
      PROVE  /\ ToSet(applied) = Between
             /\ \A i \in 2 .. Len(applied) : applied[i] = applied[i - 1] + 1
             /\ stats["gaps"] = Cardinality(GapStarts)
             /\ stats["recovered"] = Cardinality(Between \ SentSequences)
             /\ packetsSent = Cardinality(SentSequences) /\ stats["ignored"] = 0
             /\ RangesApart => /\ stats["gaps"] = ExpectedGaps(script)
                               /\ stats["recovered"] = ExpectedDropped(script)
                               /\ packetsDropped = ExpectedDropped(script)
  BY ONLY <1>1, Zenon DEF InjectedGapsAreFilled
<1>2. PICK K \in SUBSET (Nat \ {0}) :
        /\ K = KeptBy(script) /\ Tallied(K) /\ SendsTheFile
        /\ \E last \in Nat : /\ last <= recordsRead /\ Receives(K, last)
                             /\ \A n \in K : ~(last < n /\ n <= recordsRead)
  BY <1>1, WhenArrived
<1>3. PICK R \in Nat : R = recordsRead
  BY <1>2, Zenon DEF SendsTheFile
<1>4. PICK last \in Nat : /\ last <= R /\ Receives(K, last)
                          /\ \A n \in K : ~(last < n /\ n <= R)
  BY ONLY <1>2, <1>3, Zenon
<1>5. script \in Scripts /\ R <= script.records
  BY ONLY <1>2, <1>3, Zenon DEF SendsTheFile
<1>6. pc \in {"loop", "receive"}
  BY <1>1, Zenon DEF Arrived
<1>7. /\ ToSet(applied) = BetweenOf(K, R)
      /\ \A i \in 2 .. Len(applied) : applied[i] = applied[i - 1] + 1
      /\ stats["gaps"] = Cardinality(GapStartsOf(K, R))
      /\ stats["recovered"] = Cardinality(BetweenOf(K, R) \ SentOf(K, R))
      /\ stats["ignored"] = 0
  BY ONLY <1>4, <1>6, GivenWhenArrived, ByteBaseAssumption, K \in SUBSET (Nat \ {0}), R \in Nat,
          last \in Nat
<1>8. /\ SentSequences = SentOf(K, R) /\ Between = BetweenOf(K, R)
      /\ GapStarts = GapStartsOf(K, R)
  BY ONLY <1>2, <1>3, SentIs, ByteBaseAssumption, K \in SUBSET (Nat \ {0}), R \in Nat
<1>9. /\ packetsSent = Counted(R, K)
      /\ packetsDropped = Counted(R, (Nat \ {0}) \ K)
  BY ONLY <1>2, <1>3, Zenon DEF Tallied
<1>10. packetsSent = Cardinality(SentSequences)
  <2>1. SentOf(K, R) = (1 .. R) \cap K
    BY DEF SentOf
  <2>2. QED
    BY ONLY <1>8, <1>9, <2>1, Zenon DEF Counted
<1>11. ASSUME RangesApart
       PROVE  /\ stats["gaps"] = ExpectedGaps(script)
              /\ stats["recovered"] = ExpectedDropped(script)
              /\ packetsDropped = ExpectedDropped(script)
  <2>1. \A i \in DOMAIN script.ranges : /\ script.ranges[i][1] - 1 \in SentOf(K, R)
                                        /\ script.ranges[i][2] + 1 \in SentOf(K, R)
    BY ONLY <1>8, <1>11, Zenon DEF RangesApart
  <2>2. /\ InRanges(script, Len(script.ranges)) = BetweenOf(K, R) \ SentOf(K, R)
        /\ InRanges(script, Len(script.ranges)) = (1 .. R) \cap ((Nat \ {0}) \ K)
        /\ GapStartsOf(K, R) = {script.ranges[i][1] : i \in 1 .. Len(script.ranges)}
    BY ONLY <1>2, <1>5, <2>1, ApartIs, ByteBaseAssumption, R \in Nat
  <2>3. Cardinality(InRanges(script, Len(script.ranges))) = ExpectedDropped(script)
    BY ONLY <1>5, ExpectedIs, ByteBaseAssumption
  <2>4. Cardinality({script.ranges[i][1] : i \in 1 .. Len(script.ranges)}) = ExpectedGaps(script)
    BY ONLY <1>5, BeginningsCounted, ByteBaseAssumption
  <2>5. QED
    BY ONLY <1>7, <1>9, <2>2, <2>3, <2>4, Zenon DEF Counted
<1>12. QED
  BY ONLY <1>7, <1>8, <1>10, <1>11, Zenon

(* The replayer leaves out the ranges it was told to, and the live feed    *)
(* fills them from the file: when a replay has arrived the market state    *)
(* was given every record between the first and the last that was sent, in *)
(* order, and the handler's counters and the sender's are those that       *)
(* itch_udp_replay_gap announces.                                          *)
THEOREM GapsAreFilled == SessionSpec => []InjectedGapsAreFilled
<1>1. SessionInit => FeedInv
  BY FeedInvInit
<1>2. FeedInv /\ [SessionNext]_sessionVars => FeedInv'
  BY FeedInvStep
<1>3. FeedInv => InjectedGapsAreFilled
  BY FeedInvImplies
<1>4. QED
  BY <1>1, <1>2, <1>3, PTL DEF SessionSpec
=============================================================================
