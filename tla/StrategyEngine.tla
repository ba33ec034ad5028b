---------------------------- MODULE StrategyEngine ----------------------------
(***************************************************************************)
(* common/strategy/StrategyEngine.cpp with SimpleStrategy.cpp: the thread  *)
(* between the market event queue and the order intent queue.  It waits    *)
(* when the order intent queue is full.                                    *)
(***************************************************************************)
EXTENDS Integers, Sequences

CONSTANTS IntentLimit,    \* order intents the order intent queue holds
          WidestSpread    \* 10 in SimpleStrategy

VARIABLES
  events,           \* the market event queue
  intents,          \* the order intent queue
  strategyState,    \* StrategyEngineState
  strategyRunning,  \* running_, also written by stop() from main
  strategyPc,       \* where the strategy thread is
  intent            \* the intent being published, None if there is none

strategyVars == <<strategyState, strategyRunning, strategyPc, intent>>
None == <<>>

StrategyInit ==
  /\ intents = <<>> /\ intent = None
  /\ strategyState = "Stopped" /\ strategyRunning = FALSE /\ strategyPc = "created"
-----------------------------------------------------------------------------
(* SimpleStrategy::onMarketEvent *)

(* A quote that is not crossed and not wide is bought; a trade never is.   *)
WantsToBuy(event) ==
  /\ event.type = "quote"
  /\ event.ask > event.bid /\ event.ask - event.bid <= WidestSpread

Buy(quote) == [cause |-> quote.seq, price |-> quote.ask]
-----------------------------------------------------------------------------
BeginStrategy ==
  /\ strategyPc = "created" /\ strategyPc' = "loop"
  /\ strategyState' = "Running" /\ strategyRunning' = TRUE
  /\ UNCHANGED <<events, intents, intent>>

StrategyLoop ==
  /\ strategyPc = "loop"
  /\ strategyPc' = IF strategyRunning THEN "pop" ELSE "finish"
  /\ UNCHANGED <<events, intents, strategyState, strategyRunning, intent>>

PopNoEvent ==
  /\ strategyPc = "pop" /\ events = <<>> /\ strategyPc' = "loop"
  /\ UNCHANGED <<events, intents, strategyState, strategyRunning, intent>>

PopEvent ==
  /\ strategyPc = "pop" /\ events # <<>>
  /\ events' = Tail(events)
  /\ \/ WantsToBuy(Head(events)) /\ intent' = Buy(Head(events)) /\ strategyPc' = "publish"
     \/ ~WantsToBuy(Head(events)) /\ strategyPc' = "loop" /\ UNCHANGED intent
  /\ UNCHANGED <<intents, strategyState, strategyRunning>>

PushIntent ==
  /\ strategyPc = "publish" /\ Len(intents) < IntentLimit
  /\ intents' = Append(intents, intent) /\ intent' = None
  /\ strategyPc' = "loop"
  /\ UNCHANGED <<events, strategyState, strategyRunning>>

(* The queue is full.  The thread looks at running_ next, and until it     *)
(* does main may take an intent and stop() may come.                       *)
FindIntentQueueFull ==
  /\ strategyPc = "publish" /\ Len(intents) >= IntentLimit
  /\ strategyPc' = "full"
  /\ UNCHANGED <<events, intents, strategyState, strategyRunning, intent>>

(* Not stopped: yield and try again. *)
RetryIntent ==
  /\ strategyPc = "full" /\ strategyRunning
  /\ strategyPc' = "publish"
  /\ UNCHANGED <<events, intents, strategyState, strategyRunning, intent>>

(* What if: the running flag were looked at before the queue. *)
GiveUpWithoutTrying ==
  /\ strategyPc = "publish" /\ ~strategyRunning
  /\ intent' = None /\ strategyPc' = "finish"
  /\ UNCHANGED <<events, intents, strategyState, strategyRunning>>

(* stop() seen after a full queue: the intent is lost, be there room again *)
(* or not.                                                                 *)
GiveUpIntent ==
  /\ strategyPc = "full" /\ ~strategyRunning
  /\ intent' = None /\ strategyPc' = "finish"
  /\ UNCHANGED <<events, intents, strategyState, strategyRunning>>

FinishStrategy ==
  /\ strategyPc = "finish" /\ strategyPc' = "exited"
  /\ strategyRunning' = FALSE /\ strategyState' = "Stopped"   \* nothing sets Failed
  /\ UNCHANGED <<events, intents, intent>>

StopStrategy == /\ strategyRunning' = FALSE
                /\ UNCHANGED <<events, intents, strategyState, strategyPc, intent>>

StrategyStep == \/ BeginStrategy \/ StrategyLoop \/ PopNoEvent \/ PopEvent
                \/ PushIntent \/ FindIntentQueueFull \/ RetryIntent \/ GiveUpIntent \/ FinishStrategy

StrategyTypeOK ==
  /\ strategyState \in {"Stopped", "Running", "Failed"} /\ strategyRunning \in BOOLEAN
  /\ strategyPc \in {"created", "loop", "pop", "publish", "full", "finish", "exited"}
  /\ (intent # None) <=> strategyPc \in {"publish", "full"}
  /\ Len(intents) <= IntentLimit
=============================================================================
