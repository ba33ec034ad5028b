------------------ MODULE FileMoldItchRecoverySourceProofs ------------------
(* For every set of files, every checkpoint interval and every sequence of *)
(* crashes: what is recovered is what the file holds, and a start without  *)
(* trouble ends ready.                                                     *)
EXTENDS FileMoldItchRecoverySource, SequenceTheorems, NaturalsInduction,
        WellFoundedInduction, TLAPS

(* A set of positions in a sequence has a last one. *)
LEMMA LastExists ==
  ASSUME NEW n \in Nat, NEW T \in SUBSET (1 .. n), T # {}
  PROVE  \E x \in T : \A y \in T : y <= x
<1> DEFINE Less == {p \in Nat \X Nat : p[1] < p[2]}
           U == {n - m : m \in T}
<1>1. IsWellFoundedOn(Less, Nat)
  BY NatLessThanWellFounded DEF OpToRel
<1>2. U \subseteq Nat /\ U # {}
  <2>1. ASSUME NEW m \in T PROVE n - m \in Nat
    <3>1. m \in 1 .. n
      OBVIOUS
    <3>2. QED
      BY <3>1, SMT
  <2>2. QED
    BY <2>1
<1>3. \E u \in U : \A v \in U : ~(<<v, u>> \in Less)
  <2> HIDE DEF Less, U
  <2>1. QED
    BY <1>1, <1>2, WFMin
<1>4. PICK u \in U : \A v \in U : ~(v < u)
  <2>1. PICK u \in U : \A v \in U : ~(<<v, u>> \in Less)
    BY <1>3
  <2>2. \A v \in U : <<v, u>> \in Nat \X Nat
    BY <1>2
  <2>3. QED
    BY <2>1, <2>2
<1>5. PICK x \in T : u = n - x
  OBVIOUS
<1>6. ASSUME NEW y \in T PROVE y <= x
  <2>1. ~(n - y < n - x)
    BY <1>4, <1>5
  <2>2. x \in Int /\ y \in Int
    OBVIOUS
  <2>3. QED
    BY <2>1, <2>2, SMT
<1>7. QED
  BY <1>6

USE FilesAssumption, GarbageAssumption, IntervalsAssumption, ConstantsAssumption

LEMMA FileType ==
  ASSUME NEW f \in Files
  PROVE  /\ f.messages \in Seq(Message) /\ Len(f.messages) \in Nat /\ f.size \in Nat
         /\ DOMAIN f.messages = 1 .. Len(f.messages)
         /\ \A n \in 1 .. Len(f.messages) : /\ f.messages[n] \in Message
                                            /\ f.messages[n].at \in Nat
<1>1. f \in File
  OBVIOUS
<1>2. f.messages \in Seq(Message) /\ f.size \in Nat
  BY <1>1 DEF File
<1>3. \A n \in 1 .. Len(f.messages) : f.messages[n] \in Message
  BY <1>2, SMT
<1>4. QED
  BY <1>2, <1>3 DEF Message

(* A file that grew still has what an index says of it. *)
LEMMA StillDescribes ==
  ASSUME NEW f \in Files, NEW g \in Files, Extends(g, f),
         NEW points \in Seq(Checkpoint), NEW messages \in Nat,
         Describes(points, messages, f)
  PROVE  Describes(points, messages, g)
<1>1. messages <= Len(g.messages)
  BY FileType DEF Extends, Describes
<1>2. ASSUME NEW n \in DOMAIN points
      PROVE  /\ points[n].sequence \in 1 .. messages
             /\ points[n].fileOffset = g.messages[points[n].sequence].at
  <2>1. /\ points[n].sequence \in 1 .. messages
        /\ points[n].fileOffset = f.messages[points[n].sequence].at
    BY DEF Describes
  <2>2. points[n].sequence \in DOMAIN f.messages
    BY <2>1, FileType DEF Describes
  <2>3. g.messages[points[n].sequence] = f.messages[points[n].sequence]
    BY <2>2 DEF Extends
  <2>4. QED
    BY <2>1, <2>3
<1>3. QED
  BY <1>1, <1>2 DEF Describes

(* What saveIndex() writes is an index, and true if memory is. *)
LEMMA ContentsAreTrue ==
  ASSUME TypeOK, NEW n \in 0 .. Len(checkpoints),
         Describes(checkpoints, indexedMessages, file)
  PROVE  /\ Contents(n) \in IndexFile
         /\ Describes(Contents(n).checkpoints, Contents(n).messages, Contents(n).of)
<1>1. checkpoints \in Seq(Checkpoint) /\ Len(checkpoints) \in Nat
  BY DEF TypeOK
<1>2. /\ SubSeq(checkpoints, 1, n) \in Seq(Checkpoint)
      /\ Len(SubSeq(checkpoints, 1, n)) = n
      /\ \A m \in 1 .. n : SubSeq(checkpoints, 1, n)[m] = checkpoints[m]
  BY <1>1, SMT
<1>3. Contents(n) \in IndexFile
  BY <1>1, <1>2 DEF Contents, IndexFile, TypeOK
<1>4. Describes(SubSeq(checkpoints, 1, n), indexedMessages, file)
  <2>1. ASSUME NEW m \in DOMAIN SubSeq(checkpoints, 1, n)
        PROVE  /\ SubSeq(checkpoints, 1, n)[m] = checkpoints[m]
               /\ m \in DOMAIN checkpoints
    BY <1>1, <1>2, SMT
  <2>2. QED
    BY <2>1 DEF Describes
<1>5. QED
  BY <1>3, <1>4 DEF Contents

(* An index that lost its end is an index still, and true if it was. *)
LEMMA CutOffIsTrue ==
  ASSUME NEW x \in IndexFile, Describes(x.checkpoints, x.messages, x.of),
         NEW y \in CutOff(x)
  PROVE  \/ y = NoHeader
         \/ y \in IndexFile /\ Describes(y.checkpoints, y.messages, y.of)
<1>1. SUFFICES ASSUME NEW n \in 0 .. Len(x.checkpoints),
                      y = [x EXCEPT !.checkpoints = SubSeq(@, 1, n)]
               PROVE  y \in IndexFile /\ Describes(y.checkpoints, y.messages, y.of)
  BY DEF CutOff
<1>2. x.checkpoints \in Seq(Checkpoint) /\ Len(x.checkpoints) \in Nat
  BY DEF IndexFile
<1>3. /\ SubSeq(x.checkpoints, 1, n) \in Seq(Checkpoint)
      /\ Len(SubSeq(x.checkpoints, 1, n)) = n
      /\ \A m \in 1 .. n : SubSeq(x.checkpoints, 1, n)[m] = x.checkpoints[m]
  BY <1>2, SMT
<1>4. /\ y.checkpoints = SubSeq(x.checkpoints, 1, n) /\ y.messages = x.messages
      /\ y.of = x.of /\ y \in IndexFile
  BY <1>1, <1>3 DEF IndexFile
<1>5. ASSUME NEW m \in DOMAIN y.checkpoints
      PROVE  y.checkpoints[m] = x.checkpoints[m] /\ m \in DOMAIN x.checkpoints
  BY <1>2, <1>3, <1>4, SMT
<1>6. QED
  BY <1>4, <1>5 DEF Describes

(* Reading on from where a message begins gives the rest of the file. *)
LEMMA ReadIsTheFile ==
  ASSUME TypeOK, NEW s \in 1 .. Len(file.messages)
  PROVE  ReadsAs(file.messages[s].at)
           = {[n \in 1 .. Len(file.messages) - s + 1 |-> file.messages[s + n - 1].body]}
<1> DEFINE Rest(m) == [n \in 1 .. Len(file.messages) - m + 1
                         |-> file.messages[m + n - 1].body]
           Starts == {k \in DOMAIN file.messages :
                        file.messages[k].at = file.messages[s].at}
<1>1. file \in Files
  BY DEF TypeOK
<1>2. Starts = {s}
  BY <1>1, FileType
<1>3. ReadFrom(file.messages[s].at) = {Rest(m) : m \in Starts}
  BY DEF ReadFrom
<1>4. {Rest(m) : m \in {s}} = {Rest(s)}
  <2> HIDE DEF Rest
  <2>1. QED
    OBVIOUS
<1>5. ReadFrom(file.messages[s].at) = {Rest(s)}
  <2> HIDE DEF Rest, Starts
  <2>1. QED
    BY <1>2, <1>3, <1>4
<1>6. QED
  BY <1>5 DEF ReadsAs

LEMMA Positions ==
  ASSUME NEW s \in Int, NEW from \in Int, NEW to \in Int, NEW total \in Int,
         NEW n \in Int, 1 <= s, s <= from, 1 <= n, n <= to - from,
         (from - s) + (to - from) <= total - s + 1
  PROVE  /\ (from - s) + n \in 1 .. total - s + 1
         /\ s + ((from - s) + n) - 1 = from + n - 1
         /\ from + n - 1 \in 1 .. total
BY SMT

(* Read after passing over `skipped' records are the messages [from, to).   *)
IsTheFile(read, skipped, from, to) ==
  /\ to - from \in Nat
  /\ \A n \in 1 .. to - from :
       /\ from + n - 1 \in DOMAIN file.messages
       /\ read[skipped + n] = file.messages[from + n - 1].body

(* A scan from a checkpoint reads the rest of the file from there.         *)
LEMMA ScanReadsOn ==
  ASSUME TypeOK, Describes(checkpoints, indexedMessages, file),
         NEW from \in Nat, CheckpointsUpTo(from) # {},
         NEW read \in ReadsAs(FindCheckpoint(from).fileOffset)
  PROVE  LET s == FindCheckpoint(from).sequence
             rest == Len(file.messages) - s + 1
         IN  /\ s \in 1 .. Len(file.messages) /\ s <= from
             /\ read = [n \in 1 .. rest |-> file.messages[s + n - 1].body]
             /\ Len(read) = rest
<1> DEFINE s == FindCheckpoint(from).sequence
           total == Len(file.messages)
<1>t. /\ file \in Files /\ total \in Nat /\ indexedMessages \in Nat
      /\ DOMAIN file.messages = 1 .. total
      /\ checkpoints \in Seq(Checkpoint) /\ Len(checkpoints) \in Nat
      /\ DOMAIN checkpoints = 1 .. Len(checkpoints)
  BY FileType DEF TypeOK
<1>1. PICK c \in CheckpointsUpTo(from) : FindCheckpoint(from) = checkpoints[c]
  <2>1. \E n \in CheckpointsUpTo(from) : \A m \in CheckpointsUpTo(from) : m <= n
    <3>1. CheckpointsUpTo(from) \in SUBSET (1 .. Len(checkpoints))
      BY <1>t DEF CheckpointsUpTo
    <3>2. QED
      BY <1>t, <3>1, LastExists
  <2>2. QED
    BY <2>1 DEF FindCheckpoint
<1>2. /\ s \in 1 .. total /\ s <= from
      /\ FindCheckpoint(from).fileOffset = file.messages[s].at
  <2>1. /\ s \in 1 .. indexedMessages /\ s <= from
        /\ FindCheckpoint(from).fileOffset = file.messages[s].at
        /\ indexedMessages <= total
    BY <1>1 DEF CheckpointsUpTo, Describes
  <2>2. QED
    BY <1>t, <2>1, SMT
<1>3. read = [n \in 1 .. total - s + 1 |-> file.messages[s + n - 1].body]
  BY <1>2, ReadIsTheFile
<1>4. Len(read) = total - s + 1
  <2>1. total - s + 1 \in Nat
    BY <1>t, <1>2, SMT
  <2> HIDE DEF s
  <2>2. QED
    BY <1>3, <2>1
<1>5. QED
  BY <1>2, <1>3, <1>4

(* With a true index, whatever a scan from a checkpoint reads behind the   *)
(* records passed over is the part of the file that was asked for.         *)
LEMMA RecoveredIsTheFile ==
  ASSUME TypeOK, Describes(checkpoints, indexedMessages, file),
         NEW from \in Nat, NEW to \in Nat, ~Refused(from, to),
         NEW read \in ReadsAs(FindCheckpoint(from).fileOffset),
         NEW skipped, skipped = from - FindCheckpoint(from).sequence,
         skipped + (to - from) <= Len(read)
  PROVE  IsTheFile(read, skipped, from, to)
<1> DEFINE s == FindCheckpoint(from).sequence
           total == Len(file.messages)
<1>t. /\ file \in Files /\ total \in Nat
      /\ DOMAIN file.messages = 1 .. total
  BY FileType DEF TypeOK
<1>1. from < to /\ CheckpointsUpTo(from) # {}
  BY DEF Refused
<1>2. /\ s \in 1 .. total /\ s <= from
      /\ read = [n \in 1 .. total - s + 1 |-> file.messages[s + n - 1].body]
      /\ Len(read) = total - s + 1
  BY <1>1, ScanReadsOn
<1> HIDE DEF s
<1>4. skipped = from - s /\ skipped + (to - from) <= total - s + 1
  BY <1>2 DEF s
<1>5. to - from \in Nat
  BY <1>1, SMT
<1>6. ASSUME NEW n \in 1 .. to - from
      PROVE  /\ from + n - 1 \in 1 .. total
             /\ read[skipped + n] = file.messages[from + n - 1].body
  <2>1. /\ skipped + n \in 1 .. total - s + 1
        /\ s + (skipped + n) - 1 = from + n - 1
        /\ from + n - 1 \in 1 .. total
    <3>1. /\ total \in Int /\ s \in Int /\ from \in Int /\ to \in Int /\ n \in Int
          /\ 1 <= s /\ s <= from /\ 1 <= n /\ n <= to - from
      BY <1>t, <1>2
    <3> HIDE DEF total
    <3>2. skipped = from - s /\ (from - s) + (to - from) <= total - s + 1
      BY <1>4
    <3>3. /\ (from - s) + n \in 1 .. total - s + 1
          /\ s + ((from - s) + n) - 1 = from + n - 1
          /\ from + n - 1 \in 1 .. total
      BY ONLY <3>1, <3>2, Positions
    <3>4. QED
      BY <3>2, <3>3
  <2>2. read[skipped + n] = file.messages[from + n - 1].body
    BY <1>2, <2>1
  <2>3. QED
    BY <2>1, <2>2
<1>7. QED
  BY <1>t, <1>5, <1>6 DEF IsTheFile

(* The inductive invariant: files on disk tell the truth of the file they  *)
(* were built from, and memory of the file that is there.                  *)
THEOREM IndexIsTrue == SourceSpec => []IInv
<1>1. SourceInit => IInv
  <2> SUFFICES ASSUME SourceInit PROVE IInv
    OBVIOUS
  <2>1. TypeOK
    BY EmptySeq DEF SourceInit, TypeOK, OnDisk
  <2>2. QED
    BY <2>1, FileType DEF SourceInit, IInv, IndexFilesAreTrue, MemoryIsTrue, Describes,
       BuildIsTrue, ReadyToBe, AnswerIsTheFile, StartIsReady, NoAnswer
<1>2. IInv /\ [SourceNext]_sourceVars => IInv'
  <2> SUFFICES ASSUME IInv, [SourceNext]_sourceVars PROVE IInv'
    OBVIOUS
  <2> USE DEF IInv, disk, memory, history
  <2>t. /\ file \in Files /\ Len(file.messages) \in Nat /\ file.size \in Nat
        /\ checkpoints \in Seq(Checkpoint) /\ indexedMessages \in Nat
        /\ sourceFileSize \in Nat /\ present \in Nat
    BY FileType DEF TypeOK
  <2>1. ASSUME NEW i \in Intervals, Construct(i)
        PROVE  IInv'
    <3>1. TypeOK'
      BY <2>1, <2>t DEF Construct, TypeOK
    <3>2. IndexFilesAreTrue' /\ MemoryIsTrue' /\ AnswerIsTheFile'
      BY <2>1 DEF Construct, IndexFilesAreTrue, MemoryIsTrue, AnswerIsTheFile
    <3>3. BuildIsTrue' /\ ~misled /\ checkpoints = <<>> /\ indexedMessages = 0
      BY <2>1 DEF Construct, BuildIsTrue
    <3>4. ReadyToBe' /\ StartIsReady'
      <4>1. file.messages # <<>> => file.size > 0
        BY <2>t
      <4>2. Len(file.messages) > 0 => file.size > 0
        BY <2>t, <4>1
      <4>3. pc = "off" /\ ~trouble /\ present = 0
        BY <2>1 DEF Construct, ReadyToBe
      <4>4. CASE pc' = "idle"
        BY <2>1, <4>3, <4>4 DEF Construct, ReadyToBe, StartIsReady
      <4>5. CASE pc' = "load"
        <5>1. /\ i # 0 /\ checkpointInterval' = i /\ UNCHANGED <<file, trouble>>
              /\ sourceFileSize' = file.size /\ present' = Len(file.messages)
              /\ UNCHANGED <<checkpoints, indexedMessages>>
          BY <2>1, <4>5 DEF Construct
        <5>2. indexedMessages = 0
          BY <4>3 DEF BuildIsTrue
        <5>3. QED
          BY <2>t, <4>2, <4>3, <4>5, <5>1, <5>2 DEF ReadyToBe, StartIsReady
      <4>6. QED
        BY <2>1, <4>4, <4>5 DEF Construct
    <3>5. QED
      BY <3>1, <3>2, <3>3, <3>4
  <2>2. CASE LoadIndex
    <3>1. /\ pc = "load" /\ pc' \in {"open", "build"}
          /\ UNCHANGED <<disk, checkpointInterval, sourceFileSize, indexReady, answer,
                         present, trouble>>
      BY <2>2 DEF LoadIndex
    <3>2. /\ ~misled /\ checkpoints = <<>> /\ indexedMessages = 0
          /\ answer.result # "found"
      BY <3>1 DEF BuildIsTrue
    <3>3. CASE pc' = "build"
      <4>1. UNCHANGED <<checkpoints, indexedMessages, misled>>
        BY <2>2, <3>3 DEF LoadIndex
      <4>2. present <= Len(file.messages)
        BY <3>1 DEF ReadyToBe
      <4>3. TypeOK' /\ IndexFilesAreTrue' /\ MemoryIsTrue' /\ AnswerIsTheFile'
        BY <3>1, <3>3, <4>1 DEF TypeOK, IndexFilesAreTrue, MemoryIsTrue, AnswerIsTheFile
      <4>4. QED
        BY <3>1, <3>2, <3>3, <4>1, <4>2, <4>3 DEF BuildIsTrue, ReadyToBe, StartIsReady
    <3>4. CASE pc' = "open"
      <4>1. /\ Usable(index)
            /\ checkpoints' = index.checkpoints /\ indexedMessages' = index.messages
            /\ misled' = (index.size = sourceFileSize /\ ~Extends(file, index.of))
        BY <2>2, <3>4 DEF LoadIndex
      <4>2. /\ index \in IndexFile /\ index.size = sourceFileSize
            /\ Describes(index.checkpoints, index.messages, index.of)
        BY <4>1 DEF Usable, TypeOK, OnDisk, IndexFilesAreTrue
      <4>3. /\ index.checkpoints \in Seq(Checkpoint) /\ index.messages \in Nat
            /\ index.of \in Files
        BY <4>2 DEF IndexFile
      <4>4. TypeOK'
        BY <3>1, <3>4, <4>1, <4>3 DEF TypeOK
      <4>5. MemoryIsTrue'
        <5>1. ~misled' => Extends(file, index.of)
          BY <4>1, <4>2
        <5>2. QED
          BY <2>t, <3>1, <4>1, <4>2, <4>3, <5>1, StillDescribes DEF MemoryIsTrue
      <4>6. IndexFilesAreTrue' /\ AnswerIsTheFile'
        BY <3>1, <3>2 DEF IndexFilesAreTrue, AnswerIsTheFile
      <4>7. QED
        BY <3>1, <3>2, <3>4, <4>4, <4>5, <4>6 DEF BuildIsTrue, ReadyToBe, StartIsReady
    <3>5. QED
      BY <3>1, <3>3, <3>4
  <2>3. CASE ScanRecord
    <3> DEFINE point == [sequence |-> indexedMessages + 1,
                         fileOffset |-> file.messages[indexedMessages + 1].at]
    <3>1. /\ pc = "build" /\ indexedMessages < Len(file.messages)
          /\ indexedMessages' = indexedMessages + 1
          /\ checkpoints' \in {checkpoints, Append(checkpoints, point)}
          /\ indexedMessages % checkpointInterval = 0
               => checkpoints' = Append(checkpoints, point)
          /\ UNCHANGED <<disk, pc, checkpointInterval, sourceFileSize, indexReady, answer,
                         history>>
      BY <2>3 DEF ScanRecord
    <3>2. /\ indexedMessages + 1 \in 1 .. Len(file.messages)
          /\ indexedMessages + 1 \in Nat
      BY <2>t, <3>1, SMT
    <3>3. point \in Checkpoint
      BY <2>t, <3>2, FileType DEF Checkpoint
    <3>4. /\ checkpoints' \in Seq(Checkpoint)
          /\ \A n \in DOMAIN checkpoints' :
               \/ n \in DOMAIN checkpoints /\ checkpoints'[n] = checkpoints[n]
               \/ checkpoints'[n] = point
      <4>1. CASE checkpoints' = checkpoints
        BY <2>t, <4>1
      <4>2. CASE checkpoints' = Append(checkpoints, point)
        <5> HIDE DEF point
        <5>1. QED
          BY <2>t, <3>3, <4>2, AppendProperties, SMT
      <4>3. QED
        BY <3>1, <4>1, <4>2
    <3>5. TypeOK'
      BY <3>1, <3>2, <3>4 DEF TypeOK
    <3>6. ~misled /\ Describes(checkpoints, indexedMessages, file)
      BY <3>1 DEF BuildIsTrue, MemoryIsTrue
    <3>7. Describes(checkpoints', indexedMessages', file)
      <4>1. indexedMessages' <= Len(file.messages)
        BY <3>1, <3>2
      <4>2. ASSUME NEW n \in DOMAIN checkpoints'
            PROVE  /\ checkpoints'[n].sequence \in 1 .. indexedMessages'
                   /\ checkpoints'[n].fileOffset
                        = file.messages[checkpoints'[n].sequence].at
        <5>1. CASE n \in DOMAIN checkpoints /\ checkpoints'[n] = checkpoints[n]
          <6>1. /\ checkpoints[n].sequence \in 1 .. indexedMessages
                /\ checkpoints[n].fileOffset = file.messages[checkpoints[n].sequence].at
            BY <3>6, <5>1 DEF Describes
          <6>2. checkpoints[n].sequence \in 1 .. indexedMessages'
            BY <2>t, <3>1, <6>1, SMT
          <6>3. QED
            BY <5>1, <6>1, <6>2
        <5>2. CASE checkpoints'[n] = point
          <6>1. indexedMessages + 1 \in 1 .. indexedMessages'
            BY <2>t, <3>1, SMT
          <6>2. QED
            BY <5>2, <6>1
        <5>3. QED
          BY <3>4, <5>1, <5>2
      <4>3. QED
        BY <4>1, <4>2 DEF Describes
    <3>8. /\ IndexFilesAreTrue' /\ MemoryIsTrue' /\ BuildIsTrue' /\ AnswerIsTheFile'
          /\ StartIsReady'
      BY <3>1, <3>7 DEF IndexFilesAreTrue, MemoryIsTrue, BuildIsTrue, AnswerIsTheFile,
         StartIsReady
    <3>9. ReadyToBe'
      <4>1. checkpoints' # <<>>
        <5>1. CASE checkpoints = <<>>
          <6>1. indexedMessages = 0
            BY <2>t, <3>1, <5>1 DEF ReadyToBe
          <6>2. checkpoints' = Append(checkpoints, point)
            <7>1. checkpointInterval \in Nat /\ checkpointInterval # 0
              BY <3>1 DEF ReadyToBe, TypeOK
            <7>2. 0 % checkpointInterval = 0
              BY <7>1, SMT
            <7>3. QED
              BY <3>1, <6>1, <7>2
          <6>3. QED
            BY <2>t, <3>3, <6>2, AppendProperties
        <5>2. CASE checkpoints # <<>>
          <6> HIDE DEF point
          <6>1. QED
            BY <2>t, <3>1, <3>3, <5>2, AppendProperties
        <5>3. QED
          BY <5>1, <5>2
      <4>2. QED
        BY <3>1, <4>1 DEF ReadyToBe
    <3>10. QED
      BY <3>5, <3>8, <3>9
  <2>4. CASE ScanEnds
    <3>1. /\ pc = "build" /\ indexedMessages = Len(file.messages)
          /\ pc' = (IF checkpoints = <<>> \/ sourceFileSize = 0 THEN "idle" ELSE "create")
          /\ UNCHANGED <<disk, memory, answer, history>>
      BY <2>4 DEF ScanEnds
    <3>2. /\ present > 0 => sourceFileSize > 0 /\ checkpoints # <<>>
          /\ ~misled
      BY <2>t, <3>1 DEF ReadyToBe, BuildIsTrue
    <3>3. StartIsReady' /\ ReadyToBe'
      BY <2>t, <3>1, <3>2 DEF StartIsReady, ReadyToBe
    <3>4. TypeOK' /\ BuildIsTrue'
      BY <3>1, <3>2 DEF TypeOK, BuildIsTrue
    <3>5. QED
      BY <3>1, <3>3, <3>4 DEF IndexFilesAreTrue, MemoryIsTrue, AnswerIsTheFile
  <2>5. CASE ScanFails
    <3>1. TypeOK'
      BY <2>5, EmptySeq DEF ScanFails, TypeOK
    <3>2. MemoryIsTrue'
      BY <2>5, <2>t DEF ScanFails, MemoryIsTrue, Describes
    <3>3. QED
      BY <2>5, <3>1, <3>2 DEF ScanFails, IndexFilesAreTrue, BuildIsTrue, ReadyToBe,
         AnswerIsTheFile, StartIsReady
  <2>6. CASE CreateTemporary
    <3>1. TypeOK' /\ IndexFilesAreTrue'
      BY <2>6 DEF CreateTemporary, TypeOK, OnDisk, IndexFilesAreTrue
    <3>2. QED
      BY <2>6, <3>1 DEF CreateTemporary, MemoryIsTrue, BuildIsTrue, ReadyToBe,
         AnswerIsTheFile, StartIsReady
  <2>7. ASSUME NEW n \in 0 .. Len(checkpoints), pc = "write", temporary' = Contents(n),
               UNCHANGED <<file, index, pc, memory, answer, history>>
        PROVE  IInv'
    <3>1. Describes(checkpoints, indexedMessages, file)
      BY <2>7 DEF BuildIsTrue, MemoryIsTrue
    <3>2. /\ Contents(n) \in IndexFile
          /\ Describes(Contents(n).checkpoints, Contents(n).messages, Contents(n).of)
      BY <3>1, ContentsAreTrue
    <3> HIDE DEF Contents
    <3>3. temporary' \in IndexFile
      BY <2>7, <3>2
    <3>4. IndexFilesAreTrue'
      BY <2>7, <3>2 DEF IndexFilesAreTrue
    <3>5. TypeOK'
      BY <2>7, <3>3 DEF TypeOK, OnDisk
    <3>6. QED
      BY <2>7, <3>3, <3>4, <3>5 DEF MemoryIsTrue, BuildIsTrue, ReadyToBe,
         AnswerIsTheFile, StartIsReady
  <2>8. CASE WriteHeader \/ WriteCheckpoint
    <3>1. CASE WriteHeader
      <4>1. 0 \in 0 .. Len(checkpoints)
        BY <2>t, SMT
      <4>2. QED
        BY <2>7, <3>1, <4>1 DEF WriteHeader
    <3>2. CASE WriteCheckpoint
      <4>1. temporary \in IndexFile
        BY <3>2 DEF WriteCheckpoint, TypeOK, OnDisk, BuildIsTrue
      <4>2. Len(temporary.checkpoints) \in Nat
        BY <4>1 DEF IndexFile
      <4>3. Len(temporary.checkpoints) + 1 \in 0 .. Len(checkpoints)
        BY <2>t, <3>2, <4>2, SMT DEF WriteCheckpoint
      <4>4. QED
        BY <2>7, <3>2, <4>3 DEF WriteCheckpoint
    <3>3. QED
      BY <2>8, <3>1, <3>2
  <2>9. CASE Flush
    <3>1. temporary \notin {NoFile, NoHeader}
      BY <2>9 DEF Flush, BuildIsTrue
    <3>2. QED
      BY <2>9, <3>1 DEF Flush, TypeOK, IndexFilesAreTrue, MemoryIsTrue, BuildIsTrue,
         ReadyToBe, AnswerIsTheFile, StartIsReady
  <2>10. CASE RemoveIndex
    <3>1. TypeOK' /\ IndexFilesAreTrue'
      BY <2>10 DEF RemoveIndex, TypeOK, OnDisk, IndexFilesAreTrue
    <3>2. QED
      BY <2>10, <3>1 DEF RemoveIndex, MemoryIsTrue, BuildIsTrue, ReadyToBe,
         AnswerIsTheFile, StartIsReady
  <2>11. CASE Rename
    <3>1. TypeOK' /\ IndexFilesAreTrue'
      BY <2>11 DEF Rename, TypeOK, OnDisk, IndexFilesAreTrue
    <3>2. QED
      BY <2>11, <3>1 DEF Rename, MemoryIsTrue, BuildIsTrue, ReadyToBe,
         AnswerIsTheFile, StartIsReady
  <2>12. CASE SaveFails
    <3>1. TypeOK' /\ IndexFilesAreTrue'
      BY <2>12 DEF SaveFails, TypeOK, OnDisk, IndexFilesAreTrue
    <3>2. QED
      BY <2>12, <3>1 DEF SaveFails, MemoryIsTrue, BuildIsTrue, ReadyToBe,
         AnswerIsTheFile, StartIsReady
  <2>13. CASE OpenRecoveryFile
    <3>1. TypeOK'
      BY <2>13 DEF OpenRecoveryFile, TypeOK
    <3>2. QED
      BY <2>13, <3>1 DEF OpenRecoveryFile, IndexFilesAreTrue, MemoryIsTrue, BuildIsTrue,
         ReadyToBe, AnswerIsTheFile, StartIsReady
  <2>14. ASSUME NEW r \in Requests, Recover(r[1], r[2])
         PROVE  IInv'
    <3>1. /\ pc = "idle" /\ UNCHANGED <<disk, pc, memory, history>>
      BY <2>14 DEF Recover
    <3>2. AnswerIsTheFile'
      <4>1. SUFFICES ASSUME answer'.result = "found", ~misled
                     PROVE  AnswerIsTheFile'
        BY <3>1 DEF AnswerIsTheFile
      <4>2. PICK read \in ReadsAs(FindCheckpoint(r[1]).fileOffset) :
              /\ ~Refused(r[1], r[2])
              /\ Delivers(read, r[1] - FindCheckpoint(r[1]).sequence, r[1], r[2])
              /\ answer' = [from |-> r[1], to |-> r[2], result |-> "found",
                   messages |-> [n \in 1 .. r[2] - r[1] |->
                     [sequence |-> r[1] + n - 1,
                      body |-> read[(r[1] - FindCheckpoint(r[1]).sequence) + n]]]]
        BY <2>14, <4>1 DEF Recover, Scan, Answer
      <4>3. r[1] \in Nat /\ r[2] \in Nat
        OBVIOUS
      <4>4. Describes(checkpoints, indexedMessages, file)
        BY <4>1 DEF MemoryIsTrue
      <4>5. /\ Len(answer'.messages) = r[2] - r[1]
            /\ \A n \in DOMAIN answer'.messages :
                 /\ r[1] + n - 1 \in DOMAIN file.messages
                 /\ answer'.messages[n] = [sequence |-> r[1] + n - 1,
                                           body |-> file.messages[r[1] + n - 1].body]
        <5> DEFINE skipped == r[1] - FindCheckpoint(r[1]).sequence
        <5>1. answer'.messages = [n \in 1 .. r[2] - r[1] |->
                                    [sequence |-> r[1] + n - 1, body |-> read[skipped + n]]]
          BY <4>2
        <5>2. /\ Delivers(read, skipped, r[1], r[2]) /\ ~Refused(r[1], r[2])
              /\ skipped = r[1] - FindCheckpoint(r[1]).sequence
              /\ read \in ReadsAs(FindCheckpoint(r[1]).fileOffset)
          BY <4>2
        <5>3. TypeOK
          OBVIOUS
        <5> HIDE DEF skipped, IInv
        <5>4. IsTheFile(read, skipped, r[1], r[2])
          BY ONLY <4>3, <4>4, <5>2, <5>3, RecoveredIsTheFile DEF Delivers
        <5>5. QED
          BY <5>1, <5>4 DEF IsTheFile
      <4>6. answer'.from = r[1] /\ answer'.to = r[2]
        BY <4>2
      <4>7. QED
        BY <3>1, <4>5, <4>6 DEF AnswerIsTheFile
    <3>3. TypeOK' /\ IndexFilesAreTrue' /\ MemoryIsTrue'
      BY <3>1 DEF TypeOK, IndexFilesAreTrue, MemoryIsTrue
    <3>4. QED
      BY <3>1, <3>2, <3>3 DEF BuildIsTrue, ReadyToBe, StartIsReady
  <2>15. ASSUME Forget, UNCHANGED <<file, temporary>>,
                index' \in OnDisk, IndexFilesAreTrue'
         PROVE  IInv'
    <3>1. TypeOK'
      BY <2>15, EmptySeq DEF Forget, TypeOK
    <3>2. MemoryIsTrue'
      BY <2>15, <2>t DEF Forget, MemoryIsTrue, Describes
    <3>3. QED
      BY <2>15, <3>1, <3>2 DEF Forget, BuildIsTrue, ReadyToBe, AnswerIsTheFile,
         StartIsReady, NoAnswer
  <2>16. CASE Crash \/ PowerFailure
    <3>1. CASE Crash
      BY <2>15, <3>1 DEF Crash, TypeOK, IndexFilesAreTrue
    <3>2. CASE PowerFailure
      <4>1. index \in IndexFile /\ Describes(index.checkpoints, index.messages, index.of)
        BY <3>2 DEF PowerFailure, TypeOK, OnDisk, IndexFilesAreTrue
      <4>2. /\ index' \in OnDisk
            /\ index' \notin {NoFile, NoHeader}
                 => Describes(index'.checkpoints, index'.messages, index'.of)
        BY <3>2, <4>1, CutOffIsTrue DEF PowerFailure, OnDisk
      <4>3. IndexFilesAreTrue'
        BY <3>2, <4>2 DEF PowerFailure, IndexFilesAreTrue
      <4>4. QED
        BY <2>15, <3>2, <4>2, <4>3 DEF PowerFailure
    <3>3. QED
      BY <2>16, <3>1, <3>2
  <2>17. ASSUME NEW f \in Files, Grow(f)
         PROVE  IInv'
    <3>1. /\ Extends(f, file) /\ f.size >= file.size /\ file' = f
          /\ UNCHANGED <<index, temporary, pc, memory, answer, history>>
      BY <2>17 DEF Grow
    <3>2. TypeOK' /\ IndexFilesAreTrue' /\ BuildIsTrue' /\ StartIsReady'
      BY <3>1 DEF TypeOK, IndexFilesAreTrue, BuildIsTrue, StartIsReady
    <3>3. MemoryIsTrue'
      BY <2>t, <3>1, StillDescribes DEF MemoryIsTrue
    <3>4. ReadyToBe'
      <4>1. Len(f.messages) \in Nat /\ Len(file.messages) <= Len(f.messages)
        BY <3>1, FileType DEF Extends
      <4>2. QED
        BY <2>t, <3>1, <4>1 DEF ReadyToBe
    <3>5. AnswerIsTheFile'
      <4>1. /\ DOMAIN file.messages \subseteq DOMAIN f.messages
            /\ \A n \in DOMAIN file.messages : f.messages[n] = file.messages[n]
        BY <2>t, <3>1, FileType DEF Extends
      <4>2. QED
        BY <3>1, <4>1 DEF AnswerIsTheFile
    <3>6. QED
      BY <3>2, <3>3, <3>4, <3>5
  <2>18. ASSUME NEW f \in Files, Replace(f)
         PROVE  IInv'
    <3>1. /\ pc = "off" /\ file' = f
          /\ UNCHANGED <<index, temporary, pc, memory, answer, history>>
      BY <2>18 DEF Replace
    <3>2. /\ checkpoints = <<>> /\ indexedMessages = 0 /\ answer.result # "found"
      BY <3>1 DEF BuildIsTrue
    <3>3. MemoryIsTrue'
      BY <3>1, <3>2, FileType DEF MemoryIsTrue, Describes
    <3>4. QED
      BY <3>1, <3>2, <3>3 DEF TypeOK, IndexFilesAreTrue, BuildIsTrue, ReadyToBe,
         AnswerIsTheFile, StartIsReady
  <2>19. CASE UNCHANGED sourceVars
    BY <2>19 DEF sourceVars, TypeOK, IndexFilesAreTrue, MemoryIsTrue, BuildIsTrue,
       ReadyToBe, AnswerIsTheFile, StartIsReady
  <2>20. QED
    BY <2>1, <2>2, <2>3, <2>4, <2>5, <2>6, <2>8, <2>9, <2>10, <2>11, <2>12,
       <2>13, <2>14, <2>16, <2>17, <2>18, <2>19
    DEF SourceNext, Initialize
<1>3. QED
  BY <1>1, <1>2, PTL DEF SourceSpec

(* For every file, request and crash: what recover() returns is the part   *)
(* of the file that was asked for (AnswerIsTheFile).                       *)
THEOREM RecoveredIsRight == SourceSpec => []AnswerIsTheFile
<1>1. IInv => AnswerIsTheFile
  BY DEF IInv
<1>2. QED
  BY <1>1, IndexIsTrue, PTL

(* Nothing that an earlier run left on disk keeps a start without trouble  *)
(* from being ready (StartIsReady).                                        *)
THEOREM StartsReady == SourceSpec => []StartIsReady
<1>1. IInv => StartIsReady
  BY DEF IInv
<1>2. QED
  BY <1>1, IndexIsTrue, PTL
-----------------------------------------------------------------------------
LEMMA ExtendsIsTransitive ==
  ASSUME NEW f \in Files, NEW g \in Files, NEW h \in Files, Extends(g, f), Extends(h, g)
  PROVE  Extends(h, f)
<1>1. /\ Len(f.messages) <= Len(h.messages)
      /\ DOMAIN f.messages \subseteq DOMAIN g.messages
  BY FileType DEF Extends
<1>2. QED
  BY <1>1 DEF Extends

(* Of two stages of one file those of the same size hold the same records. *)
LEMMA StagesOfOneSize ==
  ASSUME NEW f \in Files, NEW g \in Files, NEW h \in Files,
         Extends(h, f), Extends(h, g), f.size = g.size
  PROVE  Len(f.messages) = Len(g.messages)
<1>1. ASSUME NEW a \in Files, NEW b \in Files, Extends(h, a), Extends(h, b),
             Len(a.messages) <= Len(b.messages)
      PROVE  Extends(b, a)
  <2>1. DOMAIN a.messages \subseteq DOMAIN b.messages
    BY <1>1, FileType
  <2>2. QED
    BY <1>1, <2>1 DEF Extends
<1>2. Len(f.messages) <= Len(g.messages) \/ Len(g.messages) <= Len(f.messages)
  BY FileType
<1>3. Extends(g, f) \/ Extends(f, g)
  BY <1>1, <1>2
<1>4. QED
  BY <1>3, GrowthAssumption

(* When memory has all that was present, recover() refuses no request for  *)
(* it unless a record does not fit.                                        *)
LEMMA PresentIsAnswered ==
  ASSUME IInv, RangeInv, NEW from \in Nat, NEW to \in Nat, Recover(from, to)
  PROVE  RangeIsAnswered'
<1>1. SUFFICES ASSUME answer'.result = "refused", ~misled, indexReady,
                      0 < from, from < to, to - 1 <= present
               PROVE  \E n \in from .. to - 1 : file.messages[n].body \in TooLarge
  <2>1. answer'.from = from /\ answer'.to = to
    BY DEF Recover, Scan, Answer
  <2>2. UNCHANGED <<file, misled, indexReady, present>>
    BY DEF Recover, disk, memory, history
  <2>3. QED
    BY <2>1, <2>2 DEF RangeIsAnswered
<1>t. /\ TypeOK /\ file \in Files /\ present \in Nat /\ indexedMessages \in Nat
      /\ Len(file.messages) \in Nat /\ DOMAIN file.messages = 1 .. Len(file.messages)
      /\ checkpoints \in Seq(Checkpoint)
      /\ Describes(checkpoints, indexedMessages, file)
  BY <1>1, FileType DEF IInv, TypeOK, MemoryIsTrue
<1>2. /\ present <= indexedMessages /\ indexedMessages <= Len(file.messages)
      /\ checkpoints # <<>> /\ checkpoints[1].sequence = 1
  BY <1>1, <1>t DEF RangeInv, MemoryHasAll, Describes
<1>3. CheckpointsUpTo(from) # {}
  <2>1. 1 \in DOMAIN checkpoints
    BY <1>t, <1>2
  <2>2. 1 \in CheckpointsUpTo(from)
    BY <1>1, <1>2, <2>1 DEF CheckpointsUpTo
  <2>3. QED
    BY <2>2
<1>4. ~Refused(from, to)
  <2>1. to - 1 <= indexedMessages
    BY <1>1, <1>t, <1>2
  <2>2. QED
    BY <1>1, <1>t, <1>3, <2>1 DEF Refused
<1>5. PICK read \in ReadsAs(FindCheckpoint(from).fileOffset) :
        ~Delivers(read, from - FindCheckpoint(from).sequence, from, to)
  BY <1>1, <1>4 DEF Recover, Scan, Answer
<1> DEFINE s == FindCheckpoint(from).sequence
<1>6. /\ s \in 1 .. Len(file.messages) /\ Len(read) = Len(file.messages) - s + 1
  BY <1>t, <1>3, ScanReadsOn
<1>7. ~Delivers(read, from - s, from, to)
  BY <1>5
<1>8. (from - s) + (to - from) <= Len(read)
  <2> HIDE DEF s
  <2>1. to - 1 <= Len(file.messages)
    BY <1>1, <1>t, <1>2
  <2>2. QED
    BY <1>t, <1>6, <2>1
<1>9. IsTheFile(read, from - s, from, to)
  BY <1>t, <1>4, <1>8, RecoveredIsTheFile
<1> HIDE DEF s
<1>10. PICK n \in 1 .. to - from : read[(from - s) + n] \in TooLarge
  BY <1>7, <1>8 DEF Delivers
<1>11. file.messages[from + n - 1].body \in TooLarge
  BY <1>9, <1>10 DEF IsTheFile
<1>12. from + n - 1 \in from .. to - 1
  BY SMT
<1>13. QED
  BY <1>11, <1>12

(* What goes to the index file has all that was present. *)
LEMMA ContentsHaveAll ==
  ASSUME IInv, RangeInv, pc = "write", NEW n \in 0 .. Len(checkpoints)
  PROVE  HasAll(Contents(n))
<1>1. PICK p \in Files : /\ p.size = sourceFileSize /\ Len(p.messages) = present
                         /\ Extends(file, p)
  BY DEF RangeInv, SizeIsOfPresent
<1>2. present <= indexedMessages
  BY DEF IInv, BuildIsTrue, RangeInv, MemoryHasAll
<1>3. /\ Contents(n).size = sourceFileSize /\ Contents(n).of = file
      /\ Contents(n).messages = indexedMessages
  BY DEF Contents
<1>4. QED
  BY <1>1, <1>2, <1>3 DEF HasAll

LEMMA RangeBegins == SourceInit => RangeInv
BY EmptySeq DEF SourceInit, RangeInv, IndexFilesHaveAll, SizeIsOfPresent, MemoryHasAll,
   OnlyIdleAnswers, RangeIsAnswered, NoAnswer

LEMMA RangeSteps ==
  ASSUME IInv, RangeInv, [SourceNext]_sourceVars
  PROVE  RangeInv'
<1> USE DEF disk, memory, history
<1>t. /\ file \in Files /\ Len(file.messages) \in Nat
      /\ checkpoints \in Seq(Checkpoint) /\ indexedMessages \in Nat /\ present \in Nat
  BY FileType DEF IInv, TypeOK
<1>0. /\ IndexFilesHaveAll /\ SizeIsOfPresent /\ MemoryHasAll /\ OnlyIdleAnswers
      /\ RangeIsAnswered
  BY DEF RangeInv
<1>1. ASSUME NEW i \in Intervals, Construct(i)
      PROVE  RangeInv'
  <2>1. /\ pc = "off" /\ pc' \in {"load", "idle"} /\ ~indexReady /\ checkpoints = <<>>
        /\ UNCHANGED <<disk, checkpoints, indexedMessages, indexReady, answer, misled>>
        /\ answer.result = "none"
    BY <1>0, <1>1 DEF Construct, OnlyIdleAnswers, IInv, BuildIsTrue
  <2>2. SizeIsOfPresent'
    <3>1. CASE pc' = "idle"
      BY <2>1, <3>1 DEF SizeIsOfPresent
    <3>2. CASE pc' = "load"
      <4>1. sourceFileSize' = file.size /\ present' = Len(file.messages)
        BY <1>1, <3>2 DEF Construct
      <4>2. Extends(file, file)
        BY <1>t DEF Extends
      <4>3. QED
        BY <1>t, <2>1, <4>1, <4>2 DEF SizeIsOfPresent
    <3>3. QED
      BY <2>1, <3>1, <3>2
  <2>3. QED
    BY <1>0, <2>1, <2>2 DEF RangeInv, IndexFilesHaveAll, HasAll, MemoryHasAll,
       OnlyIdleAnswers, RangeIsAnswered
<1>2. CASE LoadIndex
  <2>1. /\ pc = "load" /\ pc' \in {"open", "build"} /\ ~indexReady /\ checkpoints = <<>>
        /\ UNCHANGED <<disk, checkpointInterval, sourceFileSize, indexReady, answer, present>>
        /\ answer.result = "none"
    BY <1>0, <1>2 DEF LoadIndex, OnlyIdleAnswers, IInv, BuildIsTrue
  <2>2. /\ SizeIsOfPresent' /\ IndexFilesHaveAll' /\ OnlyIdleAnswers' /\ RangeIsAnswered'
    BY <1>0, <2>1 DEF IndexFilesHaveAll, HasAll, SizeIsOfPresent, OnlyIdleAnswers,
       RangeIsAnswered
  <2>3. CASE pc' = "build"
    <3>1. UNCHANGED <<checkpoints, indexedMessages, misled>>
      BY <1>2, <2>3 DEF LoadIndex
    <3>2. QED
      BY <2>1, <2>2, <2>3, <3>1 DEF RangeInv, MemoryHasAll
  <2>4. CASE pc' = "open" /\ misled'
    BY <2>1, <2>2, <2>4 DEF RangeInv, MemoryHasAll
  <2>5. CASE pc' = "open" /\ ~misled'
    <3>1. /\ Usable(index)
          /\ checkpoints' = index.checkpoints /\ indexedMessages' = index.messages
          /\ misled' = (index.size = sourceFileSize /\ ~Extends(file, index.of))
      BY <1>2, <2>5 DEF LoadIndex
    <3>2. /\ index \in IndexFile /\ index \notin {NoFile, NoHeader}
          /\ index.size = sourceFileSize /\ Extends(file, index.of)
      BY <2>5, <3>1 DEF Usable, IInv, TypeOK, OnDisk
    <3>3. /\ index.of \in Files /\ index.messages \in Nat
          /\ index.checkpoints \in Seq(Checkpoint)
      BY <3>2 DEF IndexFile
    <3>4. present <= index.messages
      <4>1. PICK f \in Files : /\ f.size = index.size /\ Extends(index.of, f)
                               /\ Len(f.messages) <= index.messages
        BY <1>0, <3>2 DEF IndexFilesHaveAll, HasAll
      <4>2. PICK p \in Files : /\ p.size = sourceFileSize /\ Len(p.messages) = present
                               /\ Extends(file, p)
        BY <1>0, <2>1 DEF SizeIsOfPresent
      <4>3. Extends(file, f)
        BY <1>t, <3>2, <3>3, <4>1, ExtendsIsTransitive
      <4>4. Len(f.messages) = Len(p.messages)
        BY <1>t, <3>2, <4>1, <4>2, <4>3, StagesOfOneSize
      <4>5. QED
        BY <4>1, <4>2, <4>4
    <3>5. index.checkpoints # <<>> /\ index.checkpoints[1].sequence = 1
      <4>1. /\ Len(index.checkpoints) = index.count /\ index.count # 0
            /\ index.interval \in Nat
            /\ \A n \in DOMAIN index.checkpoints :
                 index.checkpoints[n].sequence = 1 + (n - 1) * index.interval
        BY <3>1, <3>2 DEF Usable, IndexFile
      <4>2. 1 \in DOMAIN index.checkpoints
        BY <3>3, <4>1
      <4>3. index.checkpoints[1].sequence = 1 + (1 - 1) * index.interval
        BY <4>1, <4>2
      <4>4. QED
        BY <4>1, <4>2, <4>3
    <3>6. QED
      BY <2>1, <2>2, <2>5, <3>1, <3>4, <3>5 DEF RangeInv, MemoryHasAll
  <2>6. QED
    BY <2>1, <2>3, <2>4, <2>5
<1>3. CASE ScanRecord
  <2> DEFINE point == [sequence |-> indexedMessages + 1,
                       fileOffset |-> file.messages[indexedMessages + 1].at]
  <2>1. /\ pc = "build" /\ ~indexReady /\ answer.result = "none"
        /\ checkpoints' \in {checkpoints, Append(checkpoints, point)}
        /\ UNCHANGED <<disk, pc, sourceFileSize, indexReady, answer, present, misled>>
    BY <1>0, <1>3 DEF ScanRecord, OnlyIdleAnswers
  <2>2. checkpoints = <<>> => indexedMessages = 0
    BY <1>t, <2>1 DEF IInv, ReadyToBe
  <2>3. ~misled /\ checkpoints' # <<>> => checkpoints'[1].sequence = 1
    <3>1. CASE checkpoints' = checkpoints
      BY <1>0, <3>1 DEF MemoryHasAll
    <3>2. CASE checkpoints = <<>> /\ checkpoints' = Append(checkpoints, point)
      <4>1. checkpoints' = <<point>> /\ point.sequence = 1
        BY <2>2, <3>2
      <4>2. QED
        BY <4>1
    <3>3. CASE checkpoints # <<>> /\ checkpoints' = Append(checkpoints, point)
      <4> HIDE DEF point
      <4>1. checkpoints'[1] = checkpoints[1]
        BY <1>t, <3>3
      <4>2. QED
        BY <1>0, <3>3, <4>1 DEF MemoryHasAll
    <3>4. QED
      BY <2>1, <3>1, <3>2, <3>3
  <2>4. QED
    BY <1>0, <2>1, <2>3 DEF RangeInv, IndexFilesHaveAll, HasAll, SizeIsOfPresent,
       MemoryHasAll, OnlyIdleAnswers, RangeIsAnswered
<1>4. CASE ScanEnds
  <2>1. /\ pc = "build" /\ ~indexReady /\ answer.result = "none"
        /\ indexedMessages = Len(file.messages) /\ present <= Len(file.messages)
        /\ pc' \in {"idle", "create"} /\ (pc' = "create" => checkpoints # <<>>)
        /\ UNCHANGED <<disk, memory, answer, history>>
    BY <1>0, <1>4 DEF ScanEnds, OnlyIdleAnswers, IInv, ReadyToBe
  <2>2. MemoryHasAll'
    BY <1>0, <2>1 DEF MemoryHasAll
  <2>3. QED
    BY <1>0, <2>1, <2>2 DEF RangeInv, IndexFilesHaveAll, HasAll, SizeIsOfPresent,
       OnlyIdleAnswers, RangeIsAnswered
<1>5. ASSUME pc \notin {"off", "idle"}, pc' = "idle", ~indexReady', answer' = answer,
             UNCHANGED <<file, index>>, temporary' \in {NoFile, temporary},
             UNCHANGED misled, checkpoints' \in {<<>>, checkpoints}
      PROVE  RangeInv'
  <2>1. IndexFilesHaveAll'
    BY <1>0, <1>5 DEF IndexFilesHaveAll, HasAll
  <2>2. QED
    BY <1>0, <1>5, <2>1 DEF RangeInv, SizeIsOfPresent, MemoryHasAll, OnlyIdleAnswers,
       RangeIsAnswered
<1>6. CASE ScanFails \/ SaveFails
  <2>1. pc \notin {"off", "idle"} => ~indexReady
    BY <1>0 DEF OnlyIdleAnswers
  <2>2. QED
    BY <1>5, <1>6, <2>1 DEF ScanFails, SaveFails
<1>7. ASSUME pc \in {"create", "write", "remove", "rename"},
             pc' \in {"create", "write", "remove", "rename", "open"},
             UNCHANGED <<file, memory, answer, history>>, IndexFilesHaveAll'
      PROVE  RangeInv'
  BY <1>0, <1>7 DEF RangeInv, SizeIsOfPresent, MemoryHasAll, OnlyIdleAnswers,
     RangeIsAnswered
<1>8. CASE CreateTemporary \/ Flush \/ RemoveIndex \/ Rename
  <2>1. IndexFilesHaveAll'
    BY <1>0, <1>8 DEF CreateTemporary, Flush, RemoveIndex, Rename, IndexFilesHaveAll, HasAll
  <2>2. QED
    BY <1>7, <1>8, <2>1 DEF CreateTemporary, Flush, RemoveIndex, Rename
<1>9. CASE WriteHeader \/ WriteCheckpoint
  <2>1. PICK n \in 0 .. Len(checkpoints) : temporary' = Contents(n)
    <3>1. CASE WriteHeader
      <4>1. 0 \in 0 .. Len(checkpoints)
        BY <1>t, SMT
      <4>2. QED
        BY <3>1, <4>1 DEF WriteHeader
    <3>2. CASE WriteCheckpoint
      <4>1. temporary \in IndexFile
        BY <3>2 DEF WriteCheckpoint, IInv, TypeOK, OnDisk, BuildIsTrue
      <4>2. Len(temporary.checkpoints) \in Nat
        BY <4>1 DEF IndexFile
      <4>3. Len(temporary.checkpoints) + 1 \in 0 .. Len(checkpoints)
        BY <1>t, <3>2, <4>2, SMT DEF WriteCheckpoint
      <4>4. QED
        BY <3>2, <4>3 DEF WriteCheckpoint
    <3>3. QED
      BY <1>9, <3>1, <3>2
  <2>2. /\ pc = "write" /\ pc' = "write"
        /\ UNCHANGED <<file, index, memory, answer, history>>
    BY <1>9 DEF WriteHeader, WriteCheckpoint
  <2>3. HasAll(Contents(n))
    BY <2>2, ContentsHaveAll
  <2>4. HasAll(temporary')
    BY <2>1, <2>3
  <2>5. IndexFilesHaveAll'
    <3> HIDE DEF HasAll
    <3>1. QED
      BY <1>0, <2>2, <2>4 DEF IndexFilesHaveAll
  <2>6. QED
    BY <1>7, <2>2, <2>5
<1>10. CASE OpenRecoveryFile
  <2>1. /\ pc = "open" /\ pc' = "idle" /\ answer.result = "none"
        /\ UNCHANGED <<disk, sourceFileSize, checkpoints, indexedMessages, answer, present,
                       misled>>
    BY <1>0, <1>10 DEF OpenRecoveryFile, OnlyIdleAnswers
  <2>2. QED
    BY <1>0, <2>1 DEF RangeInv, IndexFilesHaveAll, HasAll, SizeIsOfPresent, MemoryHasAll,
       OnlyIdleAnswers, RangeIsAnswered
<1>11. ASSUME NEW r \in Requests, Recover(r[1], r[2])
       PROVE  RangeInv'
  <2>1. pc = "idle" /\ UNCHANGED <<disk, pc, memory, history>>
    BY <1>11 DEF Recover
  <2>2. RangeIsAnswered'
    BY <1>11, PresentIsAnswered
  <2>3. answer'.from \in Nat /\ answer'.to \in Nat
    BY <1>11 DEF Recover, Scan, Answer
  <2>4. QED
    BY <1>0, <2>1, <2>2, <2>3 DEF RangeInv, IndexFilesHaveAll, HasAll, SizeIsOfPresent,
       MemoryHasAll, OnlyIdleAnswers
<1>12. ASSUME Forget, IndexFilesHaveAll'
       PROVE  RangeInv'
  BY <1>12 DEF Forget, RangeInv, SizeIsOfPresent, MemoryHasAll, OnlyIdleAnswers,
     RangeIsAnswered, NoAnswer
<1>13. CASE Crash
  <2>1. IndexFilesHaveAll'
    BY <1>0, <1>13 DEF Crash, IndexFilesHaveAll, HasAll
  <2>2. QED
    BY <1>12, <1>13, <2>1 DEF Crash
<1>14. CASE PowerFailure
  <2>1. /\ index \in IndexFile /\ HasAll(index) /\ index' \in CutOff(index)
        /\ UNCHANGED <<file, temporary>>
    BY <1>0, <1>14 DEF PowerFailure, IInv, TypeOK, OnDisk, IndexFilesHaveAll
  <2>2. index' # NoHeader => /\ index'.size = index.size /\ index'.of = index.of
                             /\ index'.messages = index.messages
    BY <2>1 DEF CutOff, IndexFile
  <2>3. index' # NoHeader => HasAll(index')
    BY <2>1, <2>2 DEF HasAll
  <2>4. IndexFilesHaveAll'
    <3> HIDE DEF HasAll
    <3>1. QED
      BY <1>0, <2>1, <2>3 DEF IndexFilesHaveAll
  <2>5. QED
    BY <1>12, <1>14, <2>4 DEF PowerFailure
<1>15. ASSUME NEW f \in Files, Grow(f)
       PROVE  RangeInv'
  <2>1. /\ Extends(f, file) /\ file' = f
        /\ UNCHANGED <<index, temporary, pc, memory, answer, history>>
    BY <1>15 DEF Grow
  <2>2. SizeIsOfPresent'
    <3>1. SUFFICES ASSUME pc \notin {"off", "idle"} \/ indexReady
                   PROVE  \E p \in Files : /\ p.size = sourceFileSize
                                           /\ Len(p.messages) = present /\ Extends(f, p)
      BY <2>1 DEF SizeIsOfPresent
    <3>2. PICK p \in Files : /\ p.size = sourceFileSize /\ Len(p.messages) = present
                             /\ Extends(file, p)
      BY <1>0, <3>1 DEF SizeIsOfPresent
    <3>3. QED
      BY <1>t, <2>1, <3>2, ExtendsIsTransitive
  <2>3. RangeIsAnswered'
    <3>1. SUFFICES ASSUME /\ answer.result = "refused" /\ ~misled /\ indexReady
                          /\ 0 < answer.from /\ answer.from < answer.to
                          /\ answer.to - 1 <= present
                   PROVE  \E n \in answer.from .. answer.to - 1 :
                            f.messages[n].body \in TooLarge
      BY <2>1 DEF RangeIsAnswered
    <3>2. PICK n \in answer.from .. answer.to - 1 : file.messages[n].body \in TooLarge
      BY <1>0, <3>1 DEF RangeIsAnswered
    <3>3. present <= Len(file.messages)
      <4>1. present <= indexedMessages /\ indexedMessages <= Len(file.messages)
        BY <1>0, <3>1 DEF MemoryHasAll, IInv, MemoryIsTrue, Describes
      <4>2. QED
        BY <1>t, <4>1
    <3>4. n \in DOMAIN file.messages
      <4>1. answer.from \in Int /\ answer.to \in Int
        BY <1>0, <3>1 DEF OnlyIdleAnswers
      <4>2. QED
        BY <1>t, <3>1, <3>3, <4>1, FileType
    <3>5. QED
      BY <2>1, <3>2, <3>4 DEF Extends
  <2>4. QED
    BY <1>0, <2>1, <2>2, <2>3 DEF RangeInv, IndexFilesHaveAll, HasAll, MemoryHasAll,
       OnlyIdleAnswers
<1>16. ASSUME NEW f \in Files, Replace(f)
       PROVE  RangeInv'
  <2>1. /\ pc = "off" /\ ~indexReady /\ answer.result = "none" /\ file' = f
        /\ UNCHANGED <<index, temporary, pc, memory, answer, history>>
    BY <1>0, <1>16 DEF Replace, OnlyIdleAnswers
  <2>2. QED
    BY <1>0, <2>1 DEF RangeInv, IndexFilesHaveAll, HasAll, SizeIsOfPresent, MemoryHasAll,
       OnlyIdleAnswers, RangeIsAnswered
<1>17. CASE UNCHANGED sourceVars
  BY <1>0, <1>17 DEF sourceVars, RangeInv, IndexFilesHaveAll, HasAll, SizeIsOfPresent,
     MemoryHasAll, OnlyIdleAnswers, RangeIsAnswered
<1>18. QED
  BY <1>1, <1>2, <1>3, <1>4, <1>6, <1>8, <1>9, <1>10, <1>11, <1>13, <1>14, <1>15, <1>16,
     <1>17 DEF SourceNext, Initialize

(* An index on disk counts at least the records that were in a file of the *)
(* size it notes, so that one that is loaded covers what was present, and  *)
(* no request within that is refused unless a record does not fit.         *)
THEOREM RangesAreAnswered == SourceSpec => []RangeIsAnswered
<1>1. RangeInv => RangeIsAnswered
  BY DEF RangeInv
<1>2. QED
  BY <1>1, RangeBegins, RangeSteps, IndexIsTrue, PTL DEF SourceSpec
=============================================================================
