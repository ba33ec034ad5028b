---------------------------- MODULE ItchMoldLive ----------------------------
(***************************************************************************)
(* app/itch_mold_live.cpp: receiver thread, feed thread, consumer thread   *)
(* and the main thread that starts and stops them, with the datagram queue *)
(* between the first two and the market event queue between the feed and   *)
(* the consumer.  The feed thread runs MoldItchFeedHandler::runQueued();   *)
(* what it does with a datagram is MoldItchFeedHandler's ProcessDatagram.  *)
(***************************************************************************)
EXTENDS MoldItchFeedHandler

CONSTANTS QueueLimit, MaxReceived,   \* see MoldUdpReceiver
          EventLimit                 \* events the market event queue holds

ASSUME LiveAssumption == QueueLimit \in Nat /\ MaxReceived \in Nat /\ EventLimit \in Nat

VARIABLES
  queue, receiverRunning, worker, held, received, queued, drops,   \* receiver
  events,           \* MarketEventQueue, by the message that caused the event
  publishAttempts, droppedEvents,    \* publishers' counters
  owed,             \* events the last message applied still has to cause
  consumer,         \* where the consumer thread is
  consumedEvents,
  consumerRunning,
  feedThread,       \* "none", "running", "returned" or "exited"
  appRunning,       \* `running' of the application
  main,             \* where main() is
  stopRequested,    \* history: feedHandler.stop() was called
  pushedBeforeStop  \* history: Pushed when the receiver was told to stop

Receiver == INSTANCE MoldUdpReceiver WITH running <- receiverRunning

receiving == <<receiverRunning, worker, held, received, queued, drops>>
publishing == <<events, publishAttempts, droppedEvents, owed>>
consuming == <<consumer, consumedEvents>>
shutdown == <<consumerRunning, feedThread, appRunning, main, stopRequested, pushedBeforeStop>>
liveVars == <<handlerVars, queue, receiving, publishing, consuming, shutdown>>

LiveInit ==
  /\ HandlerInit /\ Receiver!InitReceiver
  /\ events = <<>> /\ publishAttempts = 0 /\ droppedEvents = 0 /\ owed = 0
  /\ consumer = "loop" /\ consumedEvents = 0 /\ consumerRunning = TRUE
  /\ feedThread = "none" /\ appRunning = TRUE /\ main = "startReceiver"
  /\ stopRequested = FALSE /\ pushedBeforeStop = 0
-----------------------------------------------------------------------------
(* The feed thread *)

(* ItchMarketState::onMessage with the publishers behind it: a message may *)
(* cause a trade, a quote, or a trade and then a quote.                    *)
OnMessage == owed' \in 0 .. 2 /\ UNCHANGED <<events, publishAttempts, droppedEvents>>

(* They are pushed one at a time, and the consumer may pop in between. *)
Publish == /\ owed > 0 /\ owed' = owed - 1 /\ publishAttempts' = publishAttempts + 1
           /\ UNCHANGED <<handlerVars, queue, receiving, consuming, shutdown>>

PushEvent == /\ Publish /\ Len(events) < EventLimit
             /\ events' = Append(events, applied[Len(applied)])
             /\ UNCHANGED droppedEvents

(* The queue is full, or the quote, which comes last, cannot be told. *)
DropEvent == /\ Publish /\ (Len(events) >= EventLimit \/ owed = 1)
             /\ droppedEvents' = droppedEvents + 1 /\ UNCHANGED events

FeedProcess ==
  /\ owed = 0 /\ ProcessDatagram
  /\ IF applied' # applied THEN OnMessage ELSE UNCHANGED publishing
  /\ UNCHANGED <<queue, receiving, consuming, shutdown>>

PopDatagram ==
  /\ pc = "loop" /\ queue # <<>>
  /\ BeginDatagram(Head(queue))
  /\ queue' = Tail(queue)
  /\ UNCHANGED <<receiving, publishing, consuming, shutdown>>

FeedStep(from, to) ==
  /\ pc = from /\ pc' = to
  /\ UNCHANGED <<stats, state, running, quota, acceptedMessages, progress, input>>
  /\ UNCHANGED <<queue, receiving, publishing, consuming, shutdown>>

PopNothing == queue = <<>> /\ FeedStep("loop", "empty")

(* What if: the queue were not looked at again after the receiver's flag.  *)
LeaveAtOnce == ~receiverRunning /\ FeedStep("empty", "finish")

(* The receiver has stopped: leave if the queue is still empty. *)
SeeReceiverStopped == ~receiverRunning /\ FeedStep("empty", "recheck")
RecheckEmpty == queue = <<>> /\ FeedStep("recheck", "finish")
RecheckNotEmpty == queue # <<>> /\ FeedStep("recheck", "loop")

(* It has not: leave on stop(), else yield and try again. *)
SeeReceiverRunning == receiverRunning /\ FeedStep("empty", "stopRequest")
SeeStopRequest == ~running /\ FeedStep("stopRequest", "finish")
Yield == running /\ FeedStep("stopRequest", "loop")

EnterRunQueued ==
  /\ feedThread = "running"
  /\ StartLifecycle(Unlimited)
  /\ UNCHANGED <<queue, receiving, publishing, consuming, shutdown>>

LeaveRunQueued ==
  /\ FinishLifecycle
  /\ feedThread' = "returned"
  /\ UNCHANGED <<queue, receiving, publishing, consuming, consumerRunning,
                 appRunning, main, stopRequested, pushedBeforeStop>>

(* What if: the feed thread ended without a word. *)
FeedThreadEndsSilently ==
  /\ feedThread = "returned" /\ feedThread' = "exited"
  /\ UNCHANGED <<handlerVars, queue, receiving, publishing, consuming,
                 consumerRunning, appRunning, main, stopRequested, pushedBeforeStop>>

(* Fail-stop: a failed feed takes the application down. *)
FeedThreadEnds ==
  /\ feedThread = "returned"
  /\ feedThread' = "exited"
  /\ appRunning' = (appRunning /\ state # "Failed")
  /\ UNCHANGED <<handlerVars, queue, receiving, publishing, consuming,
                 consumerRunning, main, stopRequested, pushedBeforeStop>>

RunQueued ==
  \/ PopDatagram \/ FeedProcess \/ PushEvent \/ DropEvent \/ PopNothing
  \/ SeeReceiverStopped \/ RecheckEmpty \/ RecheckNotEmpty
  \/ SeeReceiverRunning \/ SeeStopRequest \/ Yield

FeedThread == EnterRunQueued \/ RunQueued \/ LeaveRunQueued \/ FeedThreadEnds
-----------------------------------------------------------------------------
(* The other threads *)

(* The datagrams put in the queue so far; the last may not be counted yet. *)
Pushed == queued + (IF worker = "count" THEN 1 ELSE 0)

ReceiverThread ==
  /\ Receiver!ReceiveLoop
  /\ UNCHANGED <<handlerVars, publishing, consuming, shutdown>>

ConsumeEvent ==
  /\ consumer \in {"loop", "drain"} /\ events # <<>>
  /\ consumer = "loop" => consumerRunning
  /\ events' = Tail(events)
  /\ consumedEvents' = consumedEvents + 1
  /\ UNCHANGED <<handlerVars, queue, receiving, publishAttempts, droppedEvents, owed,
                 consumer, shutdown>>

ConsumerStops ==
  /\ \/ consumer = "loop" /\ ~consumerRunning /\ consumer' = "drain"
     \/ consumer = "drain" /\ events = <<>> /\ consumer' = "exited"
  /\ UNCHANGED <<handlerVars, queue, receiving, publishing, consumedEvents, shutdown>>

ConsumerThread == ConsumeEvent \/ ConsumerStops

MainStep(from, to) ==
  /\ main = from /\ main' = to
  /\ UNCHANGED <<handlerVars, publishing, consuming, stopRequested>>

(* Nothing in main() catches what a failing start() throws: the process is *)
(* terminated, and with it the consumer, the only other thread so far.     *)
StartReceiver == /\ Receiver!Start
                 /\ \/ receiverRunning' /\ MainStep("startReceiver", "startFeed")
                    \/ ~receiverRunning' /\ MainStep("startReceiver", "terminated")
                 /\ UNCHANGED <<consumerRunning, feedThread, appRunning, pushedBeforeStop>>

StartFeed == /\ MainStep("startFeed", "monitor")
             /\ feedThread' = "running"
             /\ UNCHANGED <<queue, receiving, consumerRunning, appRunning, pushedBeforeStop>>

SeeShutdown == /\ ~appRunning
               /\ MainStep("monitor", "stopReceiver")
               /\ UNCHANGED <<queue, receiving, consumerRunning, feedThread, appRunning,
                              pushedBeforeStop>>

StopReceiver == /\ Receiver!Stop
                /\ MainStep("stopReceiver", "joinReceiver")
                /\ pushedBeforeStop' = Pushed
                /\ UNCHANGED <<consumerRunning, feedThread, appRunning>>

JoinReceiver == /\ Receiver!Join
                /\ MainStep("joinReceiver", "joinFeed")
                /\ UNCHANGED <<consumerRunning, feedThread, appRunning, pushedBeforeStop>>

(* What if: main did not wait for the feed thread. *)
PassFeed == /\ MainStep("joinFeed", "stopConsumer")
            /\ UNCHANGED <<queue, receiving, consumerRunning, feedThread, appRunning,
                           pushedBeforeStop>>

JoinFeed == /\ feedThread = "exited"
            /\ MainStep("joinFeed", "stopConsumer")
            /\ UNCHANGED <<queue, receiving, consumerRunning, feedThread, appRunning,
                           pushedBeforeStop>>

StopConsumer == /\ MainStep("stopConsumer", "joinConsumer")
                /\ consumerRunning' = FALSE
                /\ UNCHANGED <<queue, receiving, feedThread, appRunning, pushedBeforeStop>>

JoinConsumer == /\ consumer = "exited"
                /\ MainStep("joinConsumer", "done")
                /\ UNCHANGED <<queue, receiving, consumerRunning, feedThread, appRunning,
                               pushedBeforeStop>>

Main == \/ StartReceiver \/ StartFeed \/ SeeShutdown \/ StopReceiver
        \/ JoinReceiver \/ JoinFeed \/ StopConsumer \/ JoinConsumer

(* Ctrl+C *)
Signal == /\ appRunning /\ main # "terminated"
          /\ appRunning' = FALSE
          /\ UNCHANGED <<handlerVars, queue, receiving, publishing, consuming,
                         consumerRunning, feedThread, main, stopRequested,
                         pushedBeforeStop>>

(* "An external stop request may terminate processing before the producer  *)
(* has stopped."                                                           *)
StopRequest == /\ running /\ Stop
               /\ stopRequested' = TRUE
               /\ UNCHANGED <<queue, receiving, publishing, consuming,
                              consumerRunning, feedThread, appRunning, main,
                              pushedBeforeStop>>

Finished == main \in {"done", "terminated"} /\ UNCHANGED liveVars

LiveNext == \/ FeedThread \/ ReceiverThread \/ ConsumerThread \/ Main
            \/ Signal \/ StopRequest \/ Finished

LiveSpec == LiveInit /\ [][LiveNext]_liveVars

(* Every thread is scheduled for ever; nobody has to press Ctrl+C. *)
LiveFairSpec == LiveSpec /\ WF_liveVars(FeedThread) /\ WF_liveVars(ReceiverThread)
                         /\ WF_liveVars(ConsumerThread) /\ WF_liveVars(Main)
-----------------------------------------------------------------------------

(* Where the code of itch_mold_live.cpp can be, and what its counters and  *)
(* the handler's fields can hold.                                          *)
LiveTypeOK ==
  /\ Receiver!ReceiverTypeOK
  /\ consumerRunning \in BOOLEAN /\ appRunning \in BOOLEAN
  /\ running \in BOOLEAN /\ stopRequested \in BOOLEAN
  /\ events \in Seq(Sequence) /\ Len(events) <= EventLimit
  /\ publishAttempts \in Nat /\ droppedEvents \in Nat /\ consumedEvents \in Nat
  /\ owed \in 0 .. 2 /\ (owed > 0 => pc \in {"message", "recovered"} /\ applied # <<>>)
  /\ pushedBeforeStop \in Nat
  /\ consumer \in {"loop", "drain", "exited"}
  /\ feedThread \in {"none", "running", "returned", "exited"}
  /\ main \in {"startReceiver", "startFeed", "monitor", "stopReceiver", "joinReceiver",
               "joinFeed", "stopConsumer", "joinConsumer", "done", "terminated"}
  /\ pc \in {"off", "loop", "empty", "recheck", "stopRequest", "framing", "message",
             "recovered", "live", "finish"}
  /\ state \in {"Stopped", "Running", "Failed"}
  /\ stats \in [Counters -> Nat]
  /\ datagram \in Datagram /\ sequence \in Sequence
  /\ toApply \in Seq(Recovered) /\ applied \in Seq(Sequence)

InDatagram == pc \in {"framing", "message", "recovered", "live"}

(* Received = queued + dropped, and every queued datagram is in the queue, *)
(* being processed, accepted or the one that failed the feed: the          *)
(* diagnostics printed at lines 856-865 and 887-909 reconcile.             *)
DatagramsReconcile ==
  /\ Receiver!ReceiverBooks
  /\ Pushed = stats["datagrams"] + stats["malformed"] + Len(queue)
              + (IF InDatagram THEN 1 ELSE 0)

(* What was published was consumed, dropped and counted, or is queued. *)
EventsReconcile == publishAttempts = droppedEvents + consumedEvents + Len(events)

(* Where a thread is tells how far the others are: main stops the consumer *)
(* only when the feed has exited, and the consumer leaves an empty queue.  *)
ThreadsFollow ==
  /\ main = "startReceiver" =>
       worker = "none" /\ ~receiverRunning /\ received = 0 /\ queued = 0 /\ drops = 0
  /\ main \in {"startReceiver", "startFeed", "terminated"} => feedThread = "none"
  /\ main \in {"stopConsumer", "joinConsumer", "done"} => feedThread = "exited"
  /\ main \notin {"joinConsumer", "done"} => consumerRunning
  /\ main = "done" => consumer = "exited"
  /\ consumer # "loop" => ~consumerRunning
  /\ consumer = "exited" => events = <<>>
  /\ feedThread # "running" => pc = "off"
  /\ feedThread = "none" \/ (feedThread = "running" /\ pc = "off") =>
       \A c \in Counters : stats[c] = 0

(* The feed leaves of its own accord only when the receiver was told to    *)
(* stop and the queue was then empty; after that the receiver can push     *)
(* only the datagram it is about.                                          *)
FeedLeftLast ==
  /\ pc # "off" /\ ~running => stopRequested
  /\ pc = "recheck" => ~receiverRunning
  /\ (pc = "finish" \/ feedThread \in {"returned", "exited"})
       /\ state # "Failed" /\ ~stopRequested
     => /\ ~receiverRunning
        /\ Len(queue) + (IF worker \in {"receive", "push"} THEN 1 ELSE 0) <= 1

(* What was in the queue when main stopped the receiver, the feed has      *)
(* processed when it leaves: the queue it found empty had been stopped.    *)
StopComesFirst ==
  /\ main \in {"startFeed", "monitor", "stopReceiver"} => receiverRunning
  /\ pushedBeforeStop <= Pushed
  /\ (pc = "finish" \/ feedThread \in {"returned", "exited"})
       /\ state # "Failed" /\ ~stopRequested
     => pushedBeforeStop <= stats["datagrams"] + stats["malformed"]

(* At every step each thread is where its code can be, and the diagnostics *)
(* that could be printed then balance.  (It is inductive, and with it      *)
(* StopComesFirst.)                                                        *)
LiveInv == /\ LiveTypeOK /\ DatagramsReconcile /\ EventsReconcile
           /\ ThreadsFollow /\ FeedLeftLast

(* Shutdown loses no event: what was published was consumed, or dropped    *)
(* and counted when it was published ("The feed processor can no longer    *)
(* publish events. Now stop and drain the downstream consumer.").          *)
EventsAreDrained ==
  main = "done" => events = <<>>
                   /\ consumedEvents = publishAttempts - droppedEvents

(* "runQueued() exits once the producer has stopped and all queued         *)
(* datagrams have been consumed" (lines 816-817; likewise the handler's    *)
(* lines 494-495 and its header's line 57).                                *)
DatagramsAreDrained ==
  (main = "done" /\ state = "Stopped" /\ ~stopRequested) => queue = <<>>

(* What of that holds: every datagram that was in the queue when the       *)
(* receiver was told to stop has been processed when main returns, and the *)
(* only one that may not be was in the receiver's hands.                   *)
EarlierDatagramsAreProcessed ==
  (main = "done" /\ state = "Stopped" /\ ~stopRequested) =>
    /\ pushedBeforeStop <= stats["datagrams"] + stats["malformed"]
    /\ Len(queue) <= 1

(* Ctrl+C or a failed feed always brings the application down: no join     *)
(* waits for a thread that waits for ever, and nobody has to press Ctrl+C  *)
(* for a feed thread that failed.                                          *)
ShutdownCompletes ==
  /\ ~appRunning ~> (main \in {"done", "terminated"})
  /\ (state = "Failed") ~> (main = "done")
=============================================================================
