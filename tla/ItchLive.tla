------------------------------ MODULE ItchLive ------------------------------
(***************************************************************************)
(* app/itch_live.cpp: the live application of the plain UDP feed.  main()  *)
(* constructs the recovery source and starts two threads: one receives and *)
(* processes (ItchFeedHandler::run()) and fills gaps from the recovery     *)
(* file, one consumes the market events.  Unlike itch_mold_live the        *)
(* consumer watches the application's own flag, and the feed is stopped by *)
(* feedHandler.stop().                                                     *)
(***************************************************************************)
EXTENDS ItchFeedHandler

CONSTANTS EventLimit,       \* events the market event queue holds
          Recording, TooLarge, RecordSize, CheckpointInterval, FileSizes,
          OldIndexes, NoIndex         \* see FileItchRecoverySource

(* The sender numbers the records of the file that is recorded, from 1.    *)
ASSUME StreamAssumption ==
  /\ Recording \in Seq(Body)
  /\ \A p \in Packets : p.seq \in DOMAIN Recording /\ p.body = Recording[p.seq]
ASSUME EventAssumption == EventLimit \in Nat \ {0}
ASSUME RecordingAssumption ==
  /\ RecordSize \in Nat \ {0} /\ CheckpointInterval \in Nat \ {0}
  /\ FileSizes \subseteq 0 .. RecordSize * Len(Recording)

(* An index that was left behind was built from the same recording when it *)
(* was shorter: it may be old or cut off, but its offsets are right.  (One *)
(* built while the file grew has more records than the size it notes; as   *)
(* no later file is of that size, it is never taken, and is left out.)     *)
ASSUME IndexAssumption ==
  \A x \in OldIndexes \ {NoIndex} :
    /\ x.interval \in Nat /\ x.records \in Nat /\ x.count \in Nat /\ x.size \in Nat
    /\ x.records = x.size \div RecordSize
    /\ x.checkpoints \in Seq([sequence: Nat \ {0}, fileOffset: Nat])
    /\ \A n \in DOMAIN x.checkpoints :
         x.checkpoints[n].fileOffset = RecordSize * (x.checkpoints[n].sequence - 1)

VARIABLES
  fileSize, index, sourceFileSize, checkpoints, indexedRecords, indexReady,
  present, trouble,                  \* see FileItchRecoverySource
  events,           \* marketEventQueue, by the message that caused the event
  publishAttempts, droppedEvents,    \* publishers' counters
  owed,             \* events the last message applied still has to cause
  consumer,         \* where the consumer thread is
  consumedEvents,
  feedThread,       \* "none", "created", "running", "returned" or "exited"
  appRunning,       \* `running' of the application
  main,             \* where main() is
  appliedBodies     \* history: the payloads of `applied'

Source == INSTANCE FileItchRecoverySource

recovering == <<fileSize, index, sourceFileSize, checkpoints, indexedRecords, indexReady,
                present, trouble>>
publishing == <<events, publishAttempts, droppedEvents, owed>>
consuming == <<consumer, consumedEvents>>
liveVars == <<handlerVars, recovering, publishing, consuming, feedThread, appRunning, main,
              appliedBodies>>

LiveInit ==
  /\ HandlerInit /\ Source!SourceInit /\ appliedBodies = <<>>
  /\ events = <<>> /\ publishAttempts = 0 /\ droppedEvents = 0 /\ owed = 0
  /\ consumer = "none" /\ consumedEvents = 0
  /\ feedThread = "none" /\ appRunning = TRUE /\ main = "takeSize"
-----------------------------------------------------------------------------
(* The feed thread.  What happens to be between its creation and the first *)
(* line of run() is up to the scheduler.                                   *)

EnterRun == /\ feedThread = "created" /\ Run
            /\ feedThread' = "running" /\ appliedBodies' = <<>>
            /\ UNCHANGED <<recovering, publishing, consuming, appRunning, main>>

(* A message may cause a trade, a quote, or a trade and then a quote. *)
OnMessage == owed' \in 0 .. 2 /\ UNCHANGED <<events, publishAttempts, droppedEvents>>

(* The publishers push one at a time, and the consumer may pop in between. *)
Publish == /\ owed > 0 /\ owed' = owed - 1 /\ publishAttempts' = publishAttempts + 1
           /\ UNCHANGED <<handlerVars, recovering, consuming, feedThread, appRunning, main,
                          appliedBodies>>

PushEvent == /\ Publish /\ Len(events) < EventLimit
             /\ events' = Append(events, applied[Len(applied)])
             /\ UNCHANGED droppedEvents

(* What if: publishers did not count what a full queue dropped. *)
DropUncounted == Publish /\ Len(events) >= EventLimit /\ UNCHANGED <<events, droppedEvents>>

(* The queue is full, or the quote, which comes last, cannot be told. *)
DropEvent == /\ Publish /\ (Len(events) >= EventLimit \/ owed = 1)
             /\ droppedEvents' = droppedEvents + 1 /\ UNCHANGED events

(* ItchSequenceRecovery asks the recovery source for the packets missing.  *)
RecoverGap ==
  \/ /\ Source!Recovers(expectedSequence, packet.seq)
     /\ GapRecovered(Source!Recovered(expectedSequence, packet.seq))
     /\ UNCHANGED recovering
  \/ /\ ~Source!Recovers(expectedSequence, packet.seq)
     /\ GapNotRecovered
     /\ UNCHANGED recovering
  \/ /\ GapNotRecovered /\ trouble' = TRUE        \* seekg() or read() fails
     /\ UNCHANGED <<fileSize, index, sourceFileSize, checkpoints, indexedRecords,
                    indexReady, present>>

FeedStep == \/ LoopCondition \/ ReceiveNothing \/ ProcessInSequence
            \/ \E p \in Packets : ReceivePacket(p)

RunStep ==
  /\ owed = 0
  /\ \/ RecoverGap
     \/ FeedStep /\ UNCHANGED recovering
  /\ \/ /\ applied' # applied
        /\ appliedBodies' = Append(appliedBodies, IF pc = "recovered" THEN Head(toApply).body
                                                                     ELSE packet.body)
        /\ OnMessage
     \/ applied' = applied /\ UNCHANGED <<publishing, appliedBodies>>
  /\ UNCHANGED <<consuming, feedThread, appRunning, main>>

LeaveRun == /\ owed = 0 /\ FinishLifecycle
            /\ feedThread' = "returned"
            /\ UNCHANGED <<recovering, appliedBodies, publishing, consuming, appRunning, main>>

(* What if: the feed thread ended without a word. *)
FeedThreadEndsSilently ==
  /\ feedThread = "returned" /\ feedThread' = "exited"
  /\ UNCHANGED <<handlerVars, recovering, appliedBodies, publishing, consuming, appRunning,
                 main>>

(* "If sequencing/recovery fails, terminate the entire live application." *)
FeedThreadEnds ==
  /\ feedThread = "returned"
  /\ feedThread' = "exited"
  /\ appRunning' = (appRunning /\ state # "Failed")
  /\ UNCHANGED <<handlerVars, recovering, appliedBodies, publishing, consuming, main>>

FeedThread == EnterRun \/ RunStep \/ PushEvent \/ DropEvent \/ LeaveRun \/ FeedThreadEnds
-----------------------------------------------------------------------------
(* The consumer thread: until the application stops, then until the queue  *)
(* is found empty.                                                         *)

ConsumeEvent ==
  /\ consumer \in {"loop", "drain"} /\ events # <<>>
  /\ consumer = "loop" => appRunning
  /\ events' = Tail(events)
  /\ consumedEvents' = consumedEvents + 1
  /\ UNCHANGED <<handlerVars, recovering, appliedBodies, publishAttempts, droppedEvents,
                 owed, consumer, feedThread, appRunning, main>>

ConsumerStops ==
  /\ \/ consumer = "loop" /\ ~appRunning /\ consumer' = "drain"
     \/ consumer = "drain" /\ events = <<>> /\ consumer' = "exited"
  /\ UNCHANGED <<handlerVars, recovering, appliedBodies, publishing, consumedEvents,
                 feedThread, appRunning, main>>

ConsumerThread == ConsumeEvent \/ ConsumerStops

(* main() *)

MainStep(from, to) == main = from /\ main' = to
                      /\ UNCHANGED <<appliedBodies, publishing, appRunning>>

Construct(from, to) == /\ MainStep(from, to)
                       /\ UNCHANGED <<handlerVars, consuming, feedThread>>

(* The constructor of the recovery source; main goes on whether or not it  *)
(* got ready.                                                              *)
ConstructSource ==
  \/ Construct("takeSize", "index") /\ Source!TakeFileSize
  \/ Construct("index", "open") /\ Source!LoadIndex
  \/ Construct("index", "save") /\ Source!BuildIndex
  \/ Construct("index", "start") /\ Source!NothingToIndex
  \/ Construct("save", "open") /\ Source!SaveIndex
  \/ Construct("save", "start") /\ Source!NothingToSave
  \/ Construct("open", "start") /\ Source!OpenRecoveryFile
  \/ Construct("save", "start") /\ Source!SaveFails
  \/ \E at \in {"takeSize", "index", "open"} :
       Construct(at, "start") /\ Source!InitializeFails

StartThreads == /\ MainStep("start", "monitor")
                /\ consumer' = "loop" /\ feedThread' = "created"
                /\ UNCHANGED <<handlerVars, recovering, consumedEvents>>

StopFeed == /\ MainStep("monitor", "joinFeed") /\ ~appRunning /\ Stop
            /\ UNCHANGED <<recovering, consuming, feedThread>>
JoinFeed == /\ MainStep("joinFeed", "joinConsumer") /\ feedThread = "exited"
            /\ UNCHANGED <<handlerVars, recovering, consuming, feedThread>>
JoinConsumer == /\ MainStep("joinConsumer", "done") /\ consumer = "exited"
                /\ UNCHANGED <<handlerVars, recovering, consuming, feedThread>>

Main == ConstructSource \/ StartThreads \/ StopFeed \/ JoinFeed \/ JoinConsumer

(* Ctrl+C *)
Signal == /\ appRunning /\ appRunning' = FALSE
          /\ UNCHANGED <<handlerVars, recovering, appliedBodies, publishing, consuming,
                         feedThread, main>>

(* Whoever records the stream adds to the file. *)
Recorder == /\ Source!Record
            /\ UNCHANGED <<handlerVars, appliedBodies, publishing, consuming, feedThread,
                           appRunning, main>>

Finished == main = "done" /\ UNCHANGED liveVars

LiveNext == FeedThread \/ ConsumerThread \/ Main \/ Signal \/ Recorder \/ Finished

LiveSpec == LiveInit /\ [][LiveNext]_liveVars

(* Every thread is scheduled for ever; nobody has to press Ctrl+C. *)
LiveFairSpec == LiveSpec /\ WF_liveVars(FeedThread) /\ WF_liveVars(ConsumerThread)
                         /\ WF_liveVars(Main)
-----------------------------------------------------------------------------
(* main, the feed thread and the consumer are where itch_live.cpp can be.  *)
LiveTypeOK ==
  /\ publishAttempts \in Nat /\ droppedEvents \in Nat /\ consumedEvents \in Nat
  /\ owed \in 0 .. 2 /\ (owed > 0 => applied # <<>>)
  /\ appliedBodies \in Seq(Body)
  /\ events \in Seq(Sequence) /\ Len(events) <= EventLimit
  /\ consumer \in {"none", "loop", "drain", "exited"} /\ appRunning \in BOOLEAN
  /\ feedThread \in {"none", "created", "running", "returned", "exited"}
  /\ main \in {"takeSize", "index", "save", "open", "start", "monitor",
               "joinFeed", "joinConsumer", "done"}

(* The final report accounts for every event whatever the order in which   *)
(* the threads stopped: attempted = dropped + consumed + "Events remaining *)
(* in SPSC".                                                               *)
EventsReconcile == publishAttempts = droppedEvents + consumedEvents + Len(events)

(* What is about to be applied is what was published under its number.     *)
PendingIsTheFeed ==
  /\ pc \in {"packet", "recovered", "live"} =>
       packet.seq \in DOMAIN Recording /\ packet.body = Recording[packet.seq]
  /\ pc = "recovered" =>
       \A i \in DOMAIN toApply : toApply[i].body = Recording[toApply[i].seq]

(* What the constructor has established by the time main is where it is.   *)
(* A source that did not get ready had nothing to index or met trouble.    *)
Constructing == main \in {"takeSize", "index", "save", "open"}

ConstructionIsSound ==
  /\ Source!CheckpointsAreTrue
  /\ main \in {"takeSize", "index"} => index \in OldIndexes
  /\ Constructing => ~indexReady
  /\ main \in {"save", "open"} \/ indexReady => Source!IndexIsComplete
  /\ ~Constructing /\ ~trouble /\ present > 0 => indexReady

(* The feed thread runs when the source is constructed, and once.          *)
ThreadsFollow ==
  /\ Constructing \/ main = "start" => feedThread = "none"
  /\ feedThread \in {"none", "created"} => pc = "off" /\ owed = 0

(* At every step each thread is where its code can be, the report that     *)
(* could be printed then balances, and the handler, the packets it has in  *)
(* hand and the source it asks agree with the recording.  (With            *)
(* AppliedIsTheFeed the invariant is inductive.)                           *)
LiveInv == /\ HandlerInv /\ Source!SourceTypeOK /\ LiveTypeOK /\ EventsReconcile
           /\ PendingIsTheFeed /\ ConstructionIsSound /\ ThreadsFollow

(* Whatever was lost, late, repeated or recovered, and whatever index was  *)
(* found on the disk: the market state gets under each sequence number the *)
(* message that was published under it.                                    *)
AppliedIsTheFeed ==
  /\ Len(appliedBodies) = Len(applied)
  /\ \A i \in DOMAIN applied : appliedBodies[i] = Recording[applied[i]]

(* A gap fails the feed only if a packet of it was not yet recorded when   *)
(* the application started, cannot be sent, or the file cannot be read.    *)
CoveredGapIsFilled ==
  [][pc = "packet" /\ state' = "Failed" =>
       trouble' \/ ~Source!Covered(expectedSequence, packet.seq)]_liveVars

(* A failed feed takes the application down (lines 398-410), and a stop()  *)
(* that reaches a run that has begun ends it.                              *)
ShutdownCompletes ==
  (\/ state = "Failed"
   \/ main = "joinFeed" /\ feedThread # "created" /\ ~running) ~> (main = "done")

(* "The consumer observes the application-level running flag, exits, and   *)
(* drains any events remaining in the SPSC before terminating" (450-453).  *)
EventsAreDrained == main = "done" => events = <<>>

(* "run() periodically regains control and can observe the stop request"   *)
(* (387-390, 440-443): after stop() the feed thread comes to its end.      *)
StopIsObserved == (main = "joinFeed") ~> (feedThread = "exited")
=============================================================================
