------------------------ MODULE FileItchRecoverySource ------------------------
(***************************************************************************)
(* common/market_data/itch/FileItchRecoverySource.cpp as itch_live uses    *)
(* it: constructed once by main, while the recorder may still be writing   *)
(* the file, and asked by the feed thread for the packets of a gap.  (The  *)
(* same algorithm, one file operation at a time and with crashes, is in    *)
(* FileMoldItchRecoverySource.)                                            *)
(*                                                                         *)
(* The file is the beginning of Recording.  Every record takes RecordSize  *)
(* bytes of it, so that the file may end within a record.                  *)
(***************************************************************************)
EXTENDS Integers, Sequences

CONSTANTS Recording,            \* payloads of the records, by sequence number
          TooLarge,             \* payloads that do not fit an ItchUdpPacket
          RecordSize,
          CheckpointInterval,
          FileSizes,            \* sizes at which the file is seen
          OldIndexes,           \* what earlier runs may have left as the index
          NoIndex

VARIABLES
  fileSize,             \* bytes of Recording that are in the file by now
  index,                \* the file at indexPath_
  sourceFileSize, checkpoints, indexedRecords, indexReady,   \* members
  present,              \* history: whole records when the size was taken
  trouble               \* history: a call of the file system failed

source == <<sourceFileSize, checkpoints, indexedRecords, indexReady>>
sourceVars == <<fileSize, index, source, present, trouble>>

Records(size) == size \div RecordSize
Offset(sequence) == RecordSize * (sequence - 1)

SourceInit ==
  /\ fileSize \in FileSizes /\ index \in OldIndexes
  /\ sourceFileSize = 0 /\ checkpoints = <<>> /\ indexedRecords = 0
  /\ indexReady = FALSE /\ present = 0 /\ trouble = FALSE
-----------------------------------------------------------------------------
(* initialize() *)

TakeFileSize ==
  /\ sourceFileSize' = fileSize /\ present' = Records(fileSize)
  /\ UNCHANGED <<fileSize, index, checkpoints, indexedRecords, indexReady, trouble>>

(* What if: an index were taken whatever the size of its file was. *)
UsableWhateverSize(x) ==
  /\ x # NoIndex
  /\ x.interval = CheckpointInterval /\ x.records # 0
  /\ x.count = (x.records - 1) \div x.interval + 1 /\ Len(x.checkpoints) = x.count

(* The validation in loadIndex(). *)
Usable(x) ==
  /\ x # NoIndex
  /\ x.interval = CheckpointInterval /\ x.records # 0 /\ x.size = sourceFileSize
  /\ x.count = (x.records - 1) \div x.interval + 1 /\ Len(x.checkpoints) = x.count
  /\ \A n \in DOMAIN x.checkpoints :
       /\ x.checkpoints[n].sequence = 1 + (n - 1) * x.interval
       /\ x.checkpoints[n].sequence <= x.records
       /\ n = 1 => x.checkpoints[n].fileOffset = 0
       /\ n > 1 => x.checkpoints[n].fileOffset > x.checkpoints[n - 1].fileOffset

LoadIndex ==
  /\ Usable(index)
  /\ checkpoints' = index.checkpoints /\ indexedRecords' = index.records
  /\ UNCHANGED <<fileSize, index, sourceFileSize, indexReady, present, trouble>>

(* What if: a checkpoint held the position behind its record. *)
CheckpointAfter(n) ==
  [sequence |-> 1 + (n - 1) * CheckpointInterval,
   fileOffset |-> Offset(2 + (n - 1) * CheckpointInterval)]

CheckpointAt(n) ==
  [sequence |-> 1 + (n - 1) * CheckpointInterval,
   fileOffset |-> Offset(1 + (n - 1) * CheckpointInterval)]

(* buildIndex(): the scan goes to the end of the whole records, the ones   *)
(* added since the size was taken included.                                *)
BuildIndex ==
  /\ ~Usable(index) /\ fileSize >= RecordSize
  /\ indexedRecords' = Records(fileSize)
  /\ checkpoints' = [n \in 1 .. (Records(fileSize) - 1) \div CheckpointInterval + 1
                       |-> CheckpointAt(n)]
  /\ UNCHANGED <<fileSize, index, sourceFileSize, indexReady, present, trouble>>

NothingToIndex ==
  /\ ~Usable(index) /\ fileSize < RecordSize
  /\ UNCHANGED sourceVars

SaveIndex ==
  /\ sourceFileSize # 0
  /\ index' = [interval |-> CheckpointInterval, records |-> indexedRecords,
               count |-> Len(checkpoints), size |-> sourceFileSize,
               checkpoints |-> checkpoints]
  /\ UNCHANGED <<fileSize, source, present, trouble>>

(* A file that was empty when its size was taken is not saved. *)
NothingToSave == sourceFileSize = 0 /\ UNCHANGED sourceVars

OpenRecoveryFile ==
  /\ indexReady' = TRUE
  /\ UNCHANGED <<fileSize, index, sourceFileSize, checkpoints, indexedRecords,
                 present, trouble>>

(* Some call of the file system fails; the source stays not ready, and the *)
(* old index may be gone if it was the one that renames the new one.       *)
InitializeFails ==
  /\ trouble' = TRUE
  /\ UNCHANGED <<fileSize, index, source, present>>

SaveFails ==
  /\ trouble' = TRUE /\ index' \in {index, NoIndex}
  /\ UNCHANGED <<fileSize, source, present>>
-----------------------------------------------------------------------------
(* recover(): the packets of [from, to).                                   *)

(* Of these findCheckpoint() takes the last. *)
CheckpointsUpTo(sequence) ==
  {n \in DOMAIN checkpoints : checkpoints[n].sequence <= sequence}

FindCheckpoint(sequence) ==
  checkpoints[CHOOSE n \in CheckpointsUpTo(sequence) :
                \A m \in CheckpointsUpTo(sequence) : m <= n]

Refused(from, to) ==
  \/ from >= to \/ from = 0 \/ ~indexReady
  \/ to - 1 > indexedRecords
  \/ CheckpointsUpTo(from) = {}

(* The record that reading finds after skipping from the checkpoint.       *)
RecordRead(from, n) ==
  FindCheckpoint(from).fileOffset \div RecordSize + n - FindCheckpoint(from).sequence + 1

Readable(from, to) ==
  \A n \in from .. to - 1 :
    RecordRead(from, n) <= Records(fileSize) /\ Recording[RecordRead(from, n)] \notin TooLarge

Recovers(from, to) == ~Refused(from, to) /\ Readable(from, to)

Recovered(from, to) ==
  [n \in 1 .. to - from |-> [seq |-> from + n - 1,
                             body |-> Recording[RecordRead(from, from + n - 1)]]]

(* The recorder writes on. *)
Record ==
  /\ fileSize' \in {size \in FileSizes : size > fileSize}
  /\ UNCHANGED <<index, source, present, trouble>>

(* A packet of the gap was recorded in time, and nothing is in its way.    *)
Covered(from, to) ==
  /\ 0 < from /\ from < to /\ to - 1 <= present
  /\ \A n \in from .. to - 1 : Recording[n] \notin TooLarge

RecoveryCheckpoint == [sequence: Nat \ {0}, fileOffset: Nat]

(* Every checkpoint in memory names a record and the place where it begins.*)
CheckpointsAreTrue ==
  /\ checkpoints \in Seq(RecoveryCheckpoint)
  /\ \A n \in DOMAIN checkpoints : checkpoints[n].fileOffset = Offset(checkpoints[n].sequence)

(* Memory holds an index of at least the records that were present.        *)
IndexIsComplete ==
  /\ present <= indexedRecords
  /\ checkpoints # <<>> /\ checkpoints[1].sequence = 1

SourceTypeOK ==
  /\ fileSize \in 0 .. RecordSize * Len(Recording)
  /\ sourceFileSize \in 0 .. fileSize /\ indexedRecords \in 0 .. Records(fileSize)
  /\ Len(checkpoints) <= indexedRecords
  /\ indexReady \in BOOLEAN /\ trouble \in BOOLEAN /\ present = Records(sourceFileSize)
=============================================================================
