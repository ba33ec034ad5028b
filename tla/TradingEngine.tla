---------------------------- MODULE TradingEngine ----------------------------
(***************************************************************************)
(* app/archive/main.cpp: the trading engine.  The feed thread publishes    *)
(* market events, the strategy thread turns them into order intents, and   *)
(* main prints the intents until Ctrl+C or a failed feed; then it stops    *)
(* the feed, joins it, stops the strategy, joins it, and prints what is    *)
(* left.  Both queues block their producer.                                *)
(***************************************************************************)
EXTENDS FeedHandler, FiniteSets

CONSTANTS IntentLimit, WidestSpread    \* see StrategyEngine

ASSUME StrategyAssumption == IntentLimit \in Nat \ {0} /\ WidestSpread \in Nat

VARIABLES
  intents, strategyState, strategyRunning, strategyPc, intent,
  main,               \* where main() is
  shutdownRequested,  \* set by the signal handler
  fatalFailure,
  printed             \* order intents main has printed

Strategy == INSTANCE StrategyEngine

strategyLocals == <<strategyState, strategyRunning, strategyPc, intent>>
mainVars == <<main, shutdownRequested, fatalFailure, printed>>
engineVars == <<feedVars, intents, strategyLocals, mainVars>>

EngineInit ==
  /\ FeedInit /\ Strategy!StrategyInit
  /\ main = "check" /\ shutdownRequested = FALSE /\ fatalFailure = FALSE
  /\ printed = <<>>

FeedThread == FeedStep /\ UNCHANGED <<intents, strategyLocals, mainVars>>

StrategyThread ==
  /\ Strategy!StrategyStep
  /\ UNCHANGED <<sequencing, feedState, feedRunning, feedPc, feedLocals, toPublish,
                 published, mainVars>>
-----------------------------------------------------------------------------
(* main() *)

MainStep(from, to) == main = from /\ main' = to

LeaveLoop(failed) ==
  /\ MainStep("check", "stopFeed") /\ fatalFailure' = failed
  /\ UNCHANGED <<feedVars, intents, strategyLocals, shutdownRequested, printed>>

SeeShutdown == shutdownRequested /\ LeaveLoop(FALSE)

SeeFailure == /\ ~shutdownRequested
              /\ feedState = "Failed" \/ strategyState = "Failed"
              /\ LeaveLoop(TRUE)

KeepSupervising ==
  /\ ~shutdownRequested /\ feedState # "Failed" /\ strategyState # "Failed"
  /\ MainStep("check", "pop")
  /\ UNCHANGED <<feedVars, intents, strategyLocals, shutdownRequested,
                 fatalFailure, printed>>

PrintIntent ==
  /\ intents # <<>>
  /\ printed' = Append(printed, Head(intents)) /\ intents' = Tail(intents)
  /\ UNCHANGED <<feedVars, strategyLocals, shutdownRequested, fatalFailure>>

PrintNext == MainStep("pop", "check") /\ PrintIntent

PrintNothing ==
  /\ MainStep("pop", "check") /\ intents = <<>>
  /\ UNCHANGED <<feedVars, intents, strategyLocals, shutdownRequested,
                 fatalFailure, printed>>

StopTheFeed ==
  /\ MainStep("stopFeed", "joinFeed") /\ StopFeed
  /\ UNCHANGED <<intents, strategyLocals, shutdownRequested, fatalFailure, printed>>

JoinFeed ==
  /\ MainStep("joinFeed", "stopStrategy") /\ feedPc = "exited"
  /\ UNCHANGED <<feedVars, intents, strategyLocals, shutdownRequested,
                 fatalFailure, printed>>

StopTheStrategy ==
  /\ MainStep("stopStrategy", "joinStrategy") /\ Strategy!StopStrategy
  /\ UNCHANGED <<feedVars, shutdownRequested, fatalFailure, printed>>

JoinStrategy ==
  /\ MainStep("joinStrategy", "drain") /\ strategyPc = "exited"
  /\ UNCHANGED <<feedVars, intents, strategyLocals, shutdownRequested,
                 fatalFailure, printed>>

PrintRest == MainStep("drain", "drain") /\ PrintIntent

Exit == /\ MainStep("drain", "done") /\ intents = <<>>
        /\ UNCHANGED <<feedVars, intents, strategyLocals, shutdownRequested,
                       fatalFailure, printed>>

Main == \/ SeeShutdown \/ SeeFailure \/ KeepSupervising \/ PrintNext \/ PrintNothing
        \/ StopTheFeed \/ JoinFeed \/ StopTheStrategy \/ JoinStrategy \/ PrintRest \/ Exit

(* SIGINT or SIGTERM *)
Signal == /\ ~shutdownRequested /\ shutdownRequested' = TRUE
          /\ UNCHANGED <<feedVars, intents, strategyLocals, main, fatalFailure, printed>>

Finished == main = "done" /\ UNCHANGED engineVars

EngineNext == FeedThread \/ StrategyThread \/ Main \/ Signal \/ Finished

EngineSpec == EngineInit /\ [][EngineNext]_engineVars

(* Every thread is scheduled for ever.  Nobody has to press Ctrl+C, and    *)
(* the network need not deliver: the feed thread may find nothing for ever.*)
EngineFairSpec == EngineSpec /\ WF_engineVars(FeedThread) /\ WF_engineVars(StrategyThread)
                             /\ WF_engineVars(Main)
-----------------------------------------------------------------------------
(* The orders a strategy can give. *)
Orders == {Strategy!Buy(m) : m \in Messages}

EngineTypeOK ==
  /\ FeedTypeOK /\ Strategy!StrategyTypeOK
  /\ intents \in Seq(Orders) /\ printed \in Seq(Orders)
  /\ main \in {"check", "pop", "stopFeed", "joinFeed", "stopStrategy", "joinStrategy",
               "drain", "done"}
  /\ shutdownRequested \in BOOLEAN /\ fatalFailure \in BOOLEAN

(* The events the strategy has taken so far, and which of them it wants.   *)
Taken == SubSeq(published, 1, Len(published) - Len(events))
Wanted(evs) == {i \in 1 .. Len(evs) : Strategy!WantsToBuy(evs[i])}

(* One order for each of the events that are wanted, in their order: the   *)
(* order for event i has the place that i has among them.                  *)
Fulfil(orders, evs) ==
  /\ Len(orders) = Cardinality(Wanted(evs))
  /\ \A i \in Wanted(evs) :
       orders[Cardinality(Wanted(evs) \cap 1 .. i)] = Strategy!Buy(evs[i])

(* The order that the last event taken calls for. *)
LastOrder == Strategy!Buy(Taken[Len(Taken)])

(* From the wire to the printed line nothing is made up, doubled or put    *)
(* out of order: the events in the queue are the last ones published, and  *)
(* the intents printed and queued are those the events taken call for.     *)
(* The only one that may be missing is that of the last event: it is in    *)
(* the strategy's hands, or was lost there when the queue was full.        *)
IntentsFollowEvents ==
  /\ events = SubSeq(published, Len(Taken) + 1, Len(published))
  /\ LET out == printed \o intents
     IN \/ strategyPc \notin {"publish", "full"} /\ Fulfil(out, Taken)
        \/ /\ strategyPc \in {"publish", "full"} /\ Fulfil(Append(out, intent), Taken)
           /\ Taken # <<>> /\ intent = LastOrder
        \/ /\ strategyPc \in {"finish", "exited"} /\ Fulfil(Append(out, LastOrder), Taken)
           /\ Taken # <<>> /\ Len(out) >= IntentLimit

(* Threads are where their code can be, events and intents are accounted   *)
(* for, and a feed that is not being stopped has published all it accepted.*)
EngineInv == EngineTypeOK /\ IntentsFollowEvents /\ NothingIsSkipped

(* "Drain any OrderIntents that were already produced before shutdown":    *)
(* when main returns the queue is empty, and an intent was lost only if    *)
(* the strategy was stopped after it had found the queue full - all of     *)
(* which was printed.                                                      *)
IntentsAreDrained ==
  main = "done" => /\ intents = <<>>
                   /\ \/ Fulfil(printed, Taken)
                      \/ /\ Len(printed) >= IntentLimit /\ Taken # <<>>
                         /\ Fulfil(Append(printed, LastOrder), Taken)

(* The feed's promise in the whole engine: with queues that block, a stop  *)
(* in the middle of a recovery and a failure, what is published is still   *)
(* consecutive, and nothing is published after a failure.                  *)
ImplementsFeed == Feed!FeedSpec

(* Why: before the feed receives, what it expects follows what it has      *)
(* published; while it publishes, what is left continues that.             *)
Continues ==
  /\ feedPc = "created" =>
       feedState = "Stopped" /\ published = <<>> /\ ~hasSequence
  /\ feedPc \in {"loop", "receive", "publish", "full"} => feedState = "Running"
  /\ feedPc = "finish" => feedState # "Stopped"
  /\ feedPc = "exited" => feedState # "Running"
  /\ feedPc = "receive" \/ (feedPc = "loop" /\ feedRunning) =>
       /\ hasSequence <=> published # <<>>
       /\ hasSequence => expectedSequence = Succ(published[Len(published)].seq)
  /\ feedPc \in {"publish", "full"} =>
       /\ hasSequence
       /\ \A i \in DOMAIN toPublish : toPublish[i].seq = toPublish[1].seq + i - 1
       /\ published # <<>> => toPublish[1].seq = Succ(published[Len(published)].seq)
       /\ Len(toPublish) = 1 => expectedSequence = Succ(toPublish[1].seq)
       /\ Len(toPublish) > 1 => published # <<>>

FeedInv == FeedTypeOK /\ Continues

(* Why no more than IntentLimit orders can be missing in the end: whoever  *)
(* finds the queue full knows that many, in it or printed.                 *)
FullQueueWasSeen == strategyPc = "full" => Len(printed \o intents) >= IntentLimit

(* Why intents are drained: main prints the rest of a queue that nobody    *)
(* fills any more.                                                         *)
StrategyIsJoined ==
  /\ main \in {"drain", "done"} => strategyPc = "exited"
  /\ main = "done" => intents = <<>>

IntentsInv ==
  FeedInv /\ EngineTypeOK /\ IntentsFollowEvents /\ FullQueueWasSeen /\ StrategyIsJoined

(* Once both threads have begun, Ctrl+C or a failed feed brings main to    *)
(* its end although both queues may be full and nobody empties them.  (A   *)
(* stop() that comes before run() is lost: run() raises running_ again.)   *)
ShutdownCompletes ==
  (/\ main \in {"check", "pop"} /\ feedPc # "created" /\ strategyPc # "created"
   /\ shutdownRequested \/ feedState = "Failed") ~> (main = "done")
=============================================================================
