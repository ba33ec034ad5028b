--------------------- MODULE FileMoldItchRecoverySource ---------------------
(***************************************************************************)
(* common/market_data/moldudp64/FileMoldItchRecoverySource.cpp: recovery   *)
(* of lost messages from the file of all messages, with a sparse index of  *)
(* it that is kept on disk between runs.  The process may crash at any     *)
(* step, a power failure may cut off what was written last, any call of    *)
(* the file system may fail, and the file may grow or be replaced.         *)
(*                                                                         *)
(* A file is the messages of its whole records, up to the first record     *)
(* that is empty or incomplete, each with its byte offset, and its size.   *)
(***************************************************************************)
EXTENDS Integers, Sequences

CONSTANTS Body,         \* what messages hold
          TooLarge,     \* bodies that do not fit a SequencedItchMessage
          Files,        \* the files that may be at filePath_
          Garbage,      \* what may be read from the middle of a record
          Intervals,    \* arguments of the constructor
          Requests,     \* <<fromSequence, toSequence>> of recover()
          NoFile,       \* no file on disk
          NoHeader      \* an index file that ends within its header

Message == [at : Nat, body : Body]
File == [messages : Seq(Message), size : Nat]
Checkpoint == [sequence : Nat, fileOffset : Nat]

(* What follows the magic and version in an index file.  `of' is history:  *)
(* the file that it was built from.                                        *)
IndexFile == [interval : Nat, messages : Nat, count : Nat, size : Nat,
              checkpoints : Seq(Checkpoint), of : Files]
OnDisk == IndexFile \cup {NoFile, NoHeader}

ASSUME FilesAssumption ==
  /\ Files \subseteq File
  /\ \A f \in Files :
       /\ f.messages # <<>> => f.size > 0
       /\ \A m, n \in DOMAIN f.messages :
            f.messages[m].at = f.messages[n].at => m = n
ASSUME GarbageAssumption == Garbage \subseteq Seq(Body)
ASSUME IntervalsAssumption == Intervals \subseteq Nat
ASSUME ConstantsAssumption ==
  /\ NoFile \notin IndexFile /\ NoHeader \notin IndexFile /\ NoFile # NoHeader
  /\ Requests \subseteq Nat \X Nat

VARIABLES
  file,                         \* at filePath_
  index, temporary,             \* at indexPath_ and at indexPath_ + ".tmp"
  pc,                           \* where the constructor is, "idle" or "off"
  checkpointInterval, sourceFileSize, checkpoints, indexedMessages, indexReady,
  answer,       \* the last call of recover() and what it returned
  present,      \* history: messages in the file when the constructor began
  trouble,      \* history: a call of the file system failed since then
  misled        \* history: the index loaded is of another file of that size

disk == <<file, index, temporary>>
memory == <<checkpointInterval, sourceFileSize, checkpoints, indexedMessages,
            indexReady>>
history == <<present, trouble, misled>>
sourceVars == <<disk, pc, memory, answer, history>>

NoAnswer == [from |-> 0, to |-> 0, result |-> "none", messages |-> <<>>]

SourceInit ==
  /\ file \in Files /\ index = NoFile /\ temporary = NoFile
  /\ pc = "off"
  /\ checkpointInterval = 0 /\ sourceFileSize = 0
  /\ checkpoints = <<>> /\ indexedMessages = 0 /\ indexReady = FALSE
  /\ answer = NoAnswer /\ present = 0 /\ trouble = FALSE /\ misled = FALSE
-----------------------------------------------------------------------------
(* The constructor and initialize() *)

(* The size of the file is taken first. *)
Construct(i) ==
  /\ pc = "off"
  /\ checkpointInterval' = i
  /\ \/ i = 0 /\ pc' = "idle" /\ UNCHANGED <<sourceFileSize, present, trouble>>
     \/ /\ i # 0
        /\ \/ /\ pc' = "load"
              /\ sourceFileSize' = file.size /\ present' = Len(file.messages)
              /\ UNCHANGED trouble
           \/ /\ pc' = "idle" /\ trouble' = TRUE
              /\ UNCHANGED <<sourceFileSize, present>>
  /\ UNCHANGED <<disk, checkpoints, indexedMessages, indexReady, answer, misled>>

(* What if: an index were taken whatever file it was built from. *)
UsableWhateverSize(x) ==
  /\ x \notin {NoFile, NoHeader}
  /\ x.interval = checkpointInterval
  /\ x.messages # 0
  /\ x.count = (x.messages - 1) \div x.interval + 1
  /\ Len(x.checkpoints) = x.count

(* The validation in loadIndex(). *)
Usable(x) ==
  /\ x \notin {NoFile, NoHeader}
  /\ x.interval = checkpointInterval /\ x.interval # 0
  /\ x.messages # 0 /\ x.count # 0
  /\ x.size = sourceFileSize
  /\ x.count = (x.messages - 1) \div x.interval + 1
  /\ Len(x.checkpoints) = x.count
  /\ \A n \in DOMAIN x.checkpoints :
       /\ x.checkpoints[n].sequence = 1 + (n - 1) * x.interval
       /\ x.checkpoints[n].sequence <= x.messages
       /\ n = 1 => x.checkpoints[n].fileOffset = 0
       /\ n > 1 => x.checkpoints[n].fileOffset > x.checkpoints[n - 1].fileOffset

Extends(g, f) ==
  /\ Len(f.messages) <= Len(g.messages)
  /\ \A n \in DOMAIN f.messages : g.messages[n] = f.messages[n]

(* The file is only written at its end: while it is of one size it holds   *)
(* the same records.                                                       *)
ASSUME GrowthAssumption ==
  \A f, g \in Files : Extends(g, f) /\ f.size = g.size => Len(f.messages) = Len(g.messages)

(* loadIndex().  An index that cannot be read is built anew. *)
LoadIndex ==
  /\ pc = "load"
  /\ \/ /\ Usable(index)
        /\ checkpoints' = index.checkpoints /\ indexedMessages' = index.messages
        /\ misled' = (index.size = sourceFileSize /\ ~Extends(file, index.of))
        /\ pc' = "open"
     \/ pc' = "build" /\ UNCHANGED <<checkpoints, indexedMessages, misled>>
  /\ UNCHANGED <<disk, checkpointInterval, sourceFileSize, indexReady, answer,
                 present, trouble>>

(* What if: a checkpoint held the position behind its record. *)
ScanThenTell ==
  /\ pc = "build" /\ indexedMessages < Len(file.messages)
  /\ checkpoints' =
       IF indexedMessages % checkpointInterval = 0
         THEN Append(checkpoints,
                [sequence |-> indexedMessages + 1,
                 fileOffset |-> IF indexedMessages + 1 = Len(file.messages) THEN file.size
                                ELSE file.messages[indexedMessages + 2].at])
         ELSE checkpoints
  /\ indexedMessages' = indexedMessages + 1
  /\ UNCHANGED <<disk, pc, checkpointInterval, sourceFileSize, indexReady, answer, history>>

(* buildIndex(): one record of the scan. *)
ScanRecord ==
  /\ pc = "build" /\ indexedMessages < Len(file.messages)
  /\ checkpoints' =
       IF indexedMessages % checkpointInterval = 0
         THEN Append(checkpoints,
                     [sequence |-> indexedMessages + 1,
                      fileOffset |-> file.messages[indexedMessages + 1].at])
         ELSE checkpoints
  /\ indexedMessages' = indexedMessages + 1
  /\ UNCHANGED <<disk, pc, checkpointInterval, sourceFileSize, indexReady, answer,
                 history>>

(* The scan ends at the end of the whole records; nothing is saved if none *)
(* was found, or if the file was empty when its size was taken.            *)
ScanEnds ==
  /\ pc = "build" /\ indexedMessages = Len(file.messages)
  /\ pc' = IF checkpoints = <<>> \/ sourceFileSize = 0 THEN "idle" ELSE "create"
  /\ UNCHANGED <<disk, memory, answer, history>>

ScanFails ==
  /\ pc = "build"
  /\ checkpoints' = <<>> /\ indexedMessages' = 0
  /\ trouble' = TRUE /\ pc' = "idle"
  /\ UNCHANGED <<disk, checkpointInterval, sourceFileSize, indexReady, answer,
                 present, misled>>
-----------------------------------------------------------------------------
(* saveIndex() *)

(* What if: a temporary file left by a crash were not written over. *)
CreateExclusively ==
  /\ pc = "create"
  /\ \/ /\ temporary = NoFile
        /\ temporary' = NoHeader /\ pc' = "write"
     \/ temporary # NoFile /\ pc' = "idle" /\ UNCHANGED temporary
  /\ UNCHANGED <<file, index, memory, answer, history>>

CreateTemporary ==
  /\ pc = "create"
  /\ temporary' = NoHeader
  /\ pc' = "write"
  /\ UNCHANGED <<file, index, memory, answer, history>>

(* The header and the first n checkpoints. *)
Contents(n) ==
  [interval |-> checkpointInterval, messages |-> indexedMessages,
   count |-> Len(checkpoints), size |-> sourceFileSize,
   checkpoints |-> SubSeq(checkpoints, 1, n), of |-> file]

WriteHeader ==
  /\ pc = "write" /\ temporary = NoHeader
  /\ temporary' = Contents(0)
  /\ UNCHANGED <<file, index, pc, memory, answer, history>>

WriteCheckpoint ==
  /\ pc = "write" /\ temporary # NoHeader
  /\ LET n == Len(temporary.checkpoints)
     IN  /\ n < Len(checkpoints)
         /\ temporary' = Contents(n + 1)
  /\ UNCHANGED <<file, index, pc, memory, answer, history>>

Flush ==
  /\ pc = "write" /\ temporary # NoHeader
  /\ Len(temporary.checkpoints) = Len(checkpoints)
  /\ pc' = "remove"
  /\ UNCHANGED <<disk, memory, answer, history>>

(* The old index goes before the new one comes; that it stays is no error. *)
RemoveIndex ==
  /\ pc = "remove"
  /\ index' \in {NoFile, index}
  /\ pc' = "rename"
  /\ UNCHANGED <<file, temporary, memory, answer, history>>

Rename ==
  /\ pc = "rename"
  /\ index' = temporary /\ temporary' = NoFile
  /\ pc' = "open"
  /\ UNCHANGED <<file, memory, answer, history>>

(* The temporary file cannot be opened, written, flushed or renamed. *)
SaveFails ==
  /\ pc \in {"create", "write", "rename"}
  /\ temporary' \in (IF pc = "create" THEN {temporary} ELSE {NoFile, temporary})
  /\ trouble' = TRUE /\ pc' = "idle"
  /\ UNCHANGED <<file, index, memory, answer, present, misled>>

OpenRecoveryFile ==
  /\ pc = "open"
  /\ \/ indexReady' = TRUE /\ UNCHANGED trouble
     \/ trouble' = TRUE /\ UNCHANGED indexReady
  /\ pc' = "idle"
  /\ UNCHANGED <<disk, checkpointInterval, sourceFileSize, checkpoints,
                 indexedMessages, answer, present, misled>>
-----------------------------------------------------------------------------
(* recover(): the messages of [from, to).  The statistics are left out. *)

(* What if: the checkpoint before one that matches were taken. *)
CheckpointsBefore(sequence) ==
  {n \in DOMAIN checkpoints : checkpoints[n].sequence < sequence}

(* Of these findCheckpoint() takes the last. *)
CheckpointsUpTo(sequence) ==
  {n \in DOMAIN checkpoints : checkpoints[n].sequence <= sequence}

FindCheckpoint(sequence) ==
  checkpoints[CHOOSE n \in CheckpointsUpTo(sequence) :
                \A m \in CheckpointsUpTo(sequence) : m <= n]

Refused(from, to) ==
  \/ from >= to \/ from = 0 \/ ~indexReady
  \/ to - 1 > indexedMessages
  \/ CheckpointsUpTo(from) = {}

(* The bodies that reading on from an offset gives, up to the end. *)
ReadFrom(offset) ==
  {[n \in 1 .. Len(file.messages) - m + 1 |-> file.messages[m + n - 1].body] :
     m \in {k \in DOMAIN file.messages : file.messages[k].at = offset}}

ReadsAs(offset) == IF ReadFrom(offset) # {} THEN ReadFrom(offset) ELSE Garbage

(* Reading from a checkpoint, the first `skipped' records are passed over. *)
Delivers(read, skipped, from, to) ==
  /\ skipped + (to - from) <= Len(read)
  /\ \A n \in 1 .. to - from : read[skipped + n] \notin TooLarge

Answer(from, to, result, messages) ==
  answer' = [from |-> from, to |-> to, result |-> result, messages |-> messages]

Scan(from, to, read) ==
  LET skipped == from - FindCheckpoint(from).sequence
  IN  \/ /\ Delivers(read, skipped, from, to)
         /\ Answer(from, to, "found",
                   [n \in 1 .. to - from |-> [sequence |-> from + n - 1,
                                              body |-> read[skipped + n]]])
      \/ /\ ~Delivers(read, skipped, from, to)
         /\ Answer(from, to, "refused", <<>>)

Recover(from, to) ==
  /\ pc = "idle"
  /\ \/ Refused(from, to) /\ Answer(from, to, "refused", <<>>)
     \/ /\ ~Refused(from, to)
        /\ \/ \E read \in ReadsAs(FindCheckpoint(from).fileOffset) : Scan(from, to, read)
           \/ Answer(from, to, "failed", <<>>)       \* seekg() or read() failed
  /\ UNCHANGED <<disk, pc, memory, history>>
-----------------------------------------------------------------------------
(* The end of the process, in order or not. *)
Forget ==
  /\ pc # "off" /\ pc' = "off"
  /\ checkpointInterval' = 0 /\ sourceFileSize' = 0
  /\ checkpoints' = <<>> /\ indexedMessages' = 0 /\ indexReady' = FALSE
  /\ answer' = NoAnswer /\ present' = 0 /\ trouble' = FALSE /\ misled' = FALSE

Crash == Forget /\ UNCHANGED disk

CutOff(x) == {NoHeader} \cup {[x EXCEPT !.checkpoints = SubSeq(@, 1, n)] :
                                n \in 0 .. Len(x.checkpoints)}

(* Nothing is synced to the disk: the end of the index may get lost. *)
PowerFailure ==
  /\ Forget
  /\ index \notin {NoFile, NoHeader}
  /\ index' \in CutOff(index)
  /\ UNCHANGED <<file, temporary>>

(* Whoever writes the file adds to it at any time, and puts another one in *)
(* its place while no process reads it.                                    *)
Grow(f) == /\ Extends(f, file) /\ f.size >= file.size
           /\ file' = f
           /\ UNCHANGED <<index, temporary, pc, memory, answer, history>>

Replace(f) == /\ pc = "off"
              /\ file' = f
              /\ UNCHANGED <<index, temporary, pc, memory, answer, history>>

Initialize ==
  \/ LoadIndex \/ ScanRecord \/ ScanEnds \/ ScanFails
  \/ CreateTemporary \/ WriteHeader \/ WriteCheckpoint \/ Flush
  \/ RemoveIndex \/ Rename \/ SaveFails \/ OpenRecoveryFile

SourceNext ==
  \/ \E i \in Intervals : Construct(i)
  \/ Initialize
  \/ \E r \in Requests : Recover(r[1], r[2])
  \/ Crash \/ PowerFailure
  \/ \E f \in Files : Grow(f) \/ Replace(f)

SourceSpec == SourceInit /\ [][SourceNext]_sourceVars
-----------------------------------------------------------------------------
TypeOK ==
  /\ file \in Files /\ index \in OnDisk /\ temporary \in OnDisk
  /\ pc \in {"off", "load", "build", "create", "write", "remove", "rename", "open",
             "idle"}
  /\ checkpointInterval \in Nat /\ sourceFileSize \in Nat /\ present \in Nat
  /\ checkpoints \in Seq(Checkpoint) /\ indexedMessages \in Nat
  /\ indexReady \in BOOLEAN /\ trouble \in BOOLEAN /\ misled \in BOOLEAN

(* What recover() returns is what the file holds at these positions, with  *)
(* the right numbers, after any crash and whatever was on the disk.  (The  *)
(* index knows its file by the size only: with another one of that very    *)
(* size it is `misled'.)                                                   *)
AnswerIsTheFile ==
  (answer.result = "found" /\ ~misled) =>
    /\ Len(answer.messages) = answer.to - answer.from
    /\ \A n \in DOMAIN answer.messages :
         LET sequence == answer.from + n - 1
         IN  /\ sequence \in DOMAIN file.messages
             /\ answer.messages[n] = [sequence |-> sequence,
                                      body |-> file.messages[sequence].body]

(* A start that meets no trouble ends ready when there is anything to      *)
(* recover from: nothing that an earlier run left behind can prevent it.   *)
StartIsReady ==
  (pc = "idle" /\ ~trouble /\ present > 0) => indexReady

(* No request within the messages that were present is refused, unless one *)
(* of them does not fit ("Recover exactly: [fromSequence, toSequence)").   *)
RangeIsAnswered ==
  (/\ answer.result = "refused" /\ ~misled /\ indexReady
   /\ 0 < answer.from /\ answer.from < answer.to /\ answer.to - 1 <= present)
  => \E n \in answer.from .. answer.to - 1 : file.messages[n].body \in TooLarge
-----------------------------------------------------------------------------
(* The inductive invariant behind the first two. *)

(* Checkpoints and count describe a file, or what it was before it grew.   *)
Describes(points, messages, f) ==
  /\ messages <= Len(f.messages)
  /\ \A n \in DOMAIN points :
       /\ points[n].sequence \in 1 .. messages
       /\ points[n].fileOffset = f.messages[points[n].sequence].at

(* An index file says the truth about the file that it was built from.     *)
IndexFilesAreTrue ==
  \A x \in {index, temporary} \ {NoFile, NoHeader} :
    Describes(x.checkpoints, x.messages, x.of)

MemoryIsTrue == ~misled => Describes(checkpoints, indexedMessages, file)

(* Building and saving never meet an index that is wrong. *)
BuildIsTrue ==
  /\ pc # "idle" => answer.result # "found"
  /\ pc \notin {"open", "idle"} => ~misled
  /\ pc \in {"load", "off"} => checkpoints = <<>> /\ indexedMessages = 0
  /\ pc \in {"remove", "rename"} => temporary \notin {NoFile, NoHeader}
  /\ pc = "write" => temporary # NoFile

ReadyToBe ==
  /\ pc = "off" => ~trouble /\ present = 0
  /\ pc \notin {"off", "idle"} =>
       /\ ~trouble /\ checkpointInterval # 0
       /\ present > 0 => sourceFileSize > 0
  /\ pc \in {"load", "build"} =>
       /\ present <= Len(file.messages)
       /\ indexedMessages > 0 => checkpoints # <<>>

IInv == /\ TypeOK /\ IndexFilesAreTrue /\ MemoryIsTrue /\ BuildIsTrue
        /\ ReadyToBe /\ AnswerIsTheFile /\ StartIsReady
-----------------------------------------------------------------------------
(* The inductive invariant behind RangeIsAnswered, next to IInv. *)

(* An index file has all the records that a file of its size can hold.     *)
HasAll(x) == \E f \in Files : /\ f.size = x.size /\ Extends(x.of, f)
                              /\ Len(f.messages) <= x.messages

IndexFilesHaveAll == \A x \in {index, temporary} \ {NoFile, NoHeader} : HasAll(x)

SizeIsOfPresent ==
  pc \notin {"off", "idle"} \/ indexReady =>
    \E p \in Files : /\ p.size = sourceFileSize /\ Len(p.messages) = present
                     /\ Extends(file, p)

MemoryHasAll ==
  /\ pc \in {"create", "write", "remove", "rename", "open"} \/ indexReady =>
       (~misled => present <= indexedMessages /\ checkpoints # <<>>)
  /\ ~misled /\ checkpoints # <<>> => checkpoints[1].sequence = 1

OnlyIdleAnswers ==
  /\ pc # "idle" => ~indexReady /\ answer.result = "none"
  /\ answer.from \in Nat /\ answer.to \in Nat

RangeInv == /\ IndexFilesHaveAll /\ SizeIsOfPresent /\ MemoryHasAll /\ OnlyIdleAnswers
            /\ RangeIsAnswered
=============================================================================
