----------------------------- MODULE FeedHandler -----------------------------
(***************************************************************************)
(* feed_handler/FeedHandler.cpp with common/market_data/SequenceRecovery.- *)
(* cpp: the handler of the quote and trade feed.  One datagram is one      *)
(* message, a message becomes one market event, and - unlike the ITCH      *)
(* handlers - a full event queue is waited for, not dropped at.            *)
(***************************************************************************)
EXTENDS Integers, Sequences

CONSTANTS MaxSequence,    \* the largest sequence number, 2^64 - 1 in the code
          Messages,       \* what the network may deliver
          Answers,        \* what the recovery source may fill in
          Quotas,         \* eventCount arguments of start()
          Unlimited,      \* the quota of run()
          EventLimit,     \* events the market event queue holds
          MaxReceived     \* bound: messages received

Sequence == 0 .. MaxSequence

ASSUME FeedAssumption ==
  /\ MaxSequence \in Nat /\ EventLimit \in Nat \ {0} /\ MaxReceived \in Nat
  /\ \A m \in Messages : m.seq \in Sequence
  /\ Answers \subseteq Seq(Messages)
  /\ Quotas \subseteq Nat /\ Unlimited \notin Nat

VARIABLES
  expectedSequence, hasSequence,
  feedState,    \* FeedHandlerState
  feedRunning,  \* running_, also written by stop() from other threads
  feedPc,       \* where the feed thread is
  quota,        \* the argument of start()
  receivedEvents, \* live messages published, which start() counts
  received,     \* messages received, bounded by MaxReceived
  toPublish,    \* recovered messages and the live one, not yet in the queue
  events,       \* the market event queue
  published     \* history: every message that went into it

feedLocals == <<quota, receivedEvents, received>>
sequencing == <<expectedSequence, hasSequence>>
publishedSoFar == <<events, published>>
feedVars == <<sequencing, feedState, feedRunning, feedPc, feedLocals, toPublish,
              publishedSoFar>>

Succ(s) == IF s = MaxSequence THEN 0 ELSE s + 1     \* uint64 addition

FeedInit ==
  /\ expectedSequence = 0 /\ hasSequence = FALSE
  /\ feedState = "Stopped" /\ feedRunning = FALSE /\ feedPc = "created"
  /\ quota = Unlimited /\ receivedEvents = 0 /\ received = 0
  /\ toPublish = <<>> /\ events = <<>> /\ published = <<>>

(* start(q), and run(), which is start() without a quota.                  *)
Begin(q) ==
  /\ feedPc = "created"
  /\ feedState' = "Running" /\ feedRunning' = TRUE
  /\ feedPc' = "loop" /\ quota' = q
  /\ UNCHANGED <<sequencing, receivedEvents, received, toPublish, publishedSoFar>>

(* What if: the loop did not look at running_. *)
LoopForever ==
  /\ feedPc = "loop"
  /\ feedPc' = IF quota = Unlimited \/ receivedEvents < quota THEN "receive" ELSE "finish"
  /\ UNCHANGED <<sequencing, feedState, feedRunning, feedLocals, toPublish, publishedSoFar>>

LoopCondition ==
  /\ feedPc = "loop"
  /\ feedPc' = IF feedRunning /\ (quota = Unlimited \/ receivedEvents < quota)
                 THEN "receive" ELSE "finish"
  /\ UNCHANGED <<sequencing, feedState, feedRunning, feedLocals, toPublish, publishedSoFar>>

(* Timeout, socket error, wrong size or undecodable: the source says no.   *)
ReceiveNothing ==
  /\ feedPc = "receive" /\ feedPc' = "loop"
  /\ UNCHANGED <<sequencing, feedState, feedRunning, feedLocals, toPublish, publishedSoFar>>
-----------------------------------------------------------------------------
(* receive() brought message m: checkSequence(), up to the publication.    *)

Receive == /\ feedPc = "receive" /\ received < MaxReceived
           /\ received' = received + 1
           /\ UNCHANGED <<feedRunning, quota, receivedEvents, publishedSoFar>>

InSequence(m) ==
  /\ ~hasSequence \/ m.seq = expectedSequence
  /\ expectedSequence' = Succ(m.seq) /\ hasSequence' = TRUE
  /\ toPublish' = <<m>> /\ feedPc' = "publish"
  /\ UNCHANGED feedState

OldMessage(m) ==
  /\ hasSequence /\ m.seq < expectedSequence
  /\ feedPc' = "loop"
  /\ UNCHANGED <<sequencing, toPublish, feedState>>

(* What if: only the number of recovered messages were checked. *)
RecoveryIsComplete(expected, got, found) == Len(found) = got - expected

(* SequenceRecovery::recover(): all of [expected, got), in order.          *)
RecoveryIsExact(expected, got, found) ==
  /\ Len(found) = got - expected
  /\ \A i \in 1 .. Len(found) : found[i].seq = expected + i - 1

Gap(m) == hasSequence /\ m.seq > expectedSequence

GapRecovered(m) == \E found \in Answers :
  /\ Gap(m) /\ RecoveryIsExact(expectedSequence, m.seq, found)
  /\ toPublish' = Append(found, m) /\ feedPc' = "publish"
  /\ UNCHANGED <<sequencing, feedState>>

(* The source found nothing - the only answer of NoopMarketDataRecovery-   *)
(* Source - or not what was asked for: Stop.                               *)
GapNotRecovered(m) ==
  /\ Gap(m)
  /\ feedState' = "Failed" /\ feedPc' = "finish"
  /\ UNCHANGED <<sequencing, toPublish>>

ReceiveMessage == \E m \in Messages :
  Receive /\ (InSequence(m) \/ OldMessage(m) \/ GapRecovered(m) \/ GapNotRecovered(m))
-----------------------------------------------------------------------------
(* processMessage() on the first of toPublish.  The live message is the    *)
(* last of them; checkSequence() moves on to what follows it when the      *)
(* recovered ones before it are in the queue.                              *)

(* What if: a gap were closed without moving the expected sequence on. *)
PushEventInPlace ==
  /\ feedPc = "publish" /\ Len(events) < EventLimit
  /\ events' = Append(events, Head(toPublish))
  /\ published' = Append(published, Head(toPublish))
  /\ toPublish' = Tail(toPublish)
  /\ feedPc' = IF Len(toPublish) = 1 THEN "loop" ELSE "publish"
  /\ receivedEvents' = IF Len(toPublish) = 1 THEN receivedEvents + 1 ELSE receivedEvents
  /\ UNCHANGED <<sequencing, feedState, feedRunning, quota, received>>

PushEvent ==
  /\ feedPc = "publish" /\ Len(events) < EventLimit
  /\ events' = Append(events, Head(toPublish))
  /\ published' = Append(published, Head(toPublish))
  /\ toPublish' = Tail(toPublish)
  /\ expectedSequence' = IF Len(toPublish) = 2 THEN Succ(toPublish[2].seq) ELSE expectedSequence
  /\ feedPc' = IF Len(toPublish) = 1 THEN "loop" ELSE "publish"
  /\ receivedEvents' = IF Len(toPublish) = 1 THEN receivedEvents + 1 ELSE receivedEvents
  /\ UNCHANGED <<hasSequence, feedState, feedRunning, quota, received>>

(* The queue is full.  The thread looks at running_ next, and until it     *)
(* does the strategy may take an event and stop() may come.                *)
FindQueueFull ==
  /\ feedPc = "publish" /\ Len(events) >= EventLimit
  /\ feedPc' = "full"
  /\ UNCHANGED <<sequencing, feedState, feedRunning, feedLocals, toPublish, publishedSoFar>>

(* Not stopped: yield and try again. *)
RetryPublishing ==
  /\ feedPc = "full" /\ feedRunning
  /\ feedPc' = "publish"
  /\ UNCHANGED <<sequencing, feedState, feedRunning, feedLocals, toPublish, publishedSoFar>>

(* "Never allow a full SPSC queue to prevent the FeedHandler from shutting *)
(* down": stop() seen after a full queue ends the publication, be there    *)
(* room again or not.  A live message breaks the loop, a recovered one is  *)
(* ignored with the rest; that stop() came is certain, so checkSequence()  *)
(* never returns Stop for it.                                              *)
GiveUpPublishing ==
  /\ feedPc = "full" /\ ~feedRunning
  /\ toPublish' = <<>>
  /\ feedPc' = IF Len(toPublish) > 1 THEN "loop" ELSE "finish"
  /\ UNCHANGED <<sequencing, feedState, feedRunning, feedLocals, publishedSoFar>>

FinishFeed ==
  /\ feedPc = "finish" /\ feedPc' = "exited"
  /\ feedRunning' = FALSE
  /\ feedState' = IF feedState # "Failed" THEN "Stopped" ELSE feedState
  /\ UNCHANGED <<sequencing, feedLocals, toPublish, publishedSoFar>>

StopFeed == /\ feedRunning' = FALSE
            /\ UNCHANGED <<sequencing, feedState, feedPc, feedLocals, toPublish, publishedSoFar>>

FeedStep == \/ Begin(Unlimited) \/ \E q \in Quotas : Begin(q)
            \/ LoopCondition \/ ReceiveNothing \/ ReceiveMessage
            \/ PushEvent \/ FindQueueFull \/ RetryPublishing \/ GiveUpPublishing \/ FinishFeed
-----------------------------------------------------------------------------
(* The fields of the handler and its thread keep to their ranges. *)
FeedTypeOK ==
  /\ expectedSequence \in Sequence /\ hasSequence \in BOOLEAN
  /\ feedState \in {"Stopped", "Running", "Failed"} /\ feedRunning \in BOOLEAN
  /\ feedPc \in {"created", "loop", "receive", "publish", "full", "finish", "exited"}
  /\ quota \in Quotas \cup {Unlimited}
  /\ receivedEvents \in Nat /\ received \in 0 .. MaxReceived
  /\ toPublish \in Seq(Messages) /\ (feedPc \in {"publish", "full"} <=> toPublish # <<>>)
  /\ published \in Seq(Messages)
  /\ events \in Seq(Messages) /\ Len(events) <= EventLimit

(* A handler that is not being stopped expects what follows the last event *)
(* it published; no message it let pass checkSequence() is missing.        *)
NothingIsSkipped ==
  feedPc \in {"loop", "receive"} /\ feedRunning =>
    /\ hasSequence <=> published # <<>>
    /\ hasSequence => expectedSequence = Succ(published[Len(published)].seq)

(* The promise of SequencedFeed, kept by the blocking handler too: what is *)
(* published is consecutive, and nothing follows a failure.                *)
PublishedNumbers == [i \in DOMAIN published |-> published[i].seq]
Feed == INSTANCE SequencedFeed WITH state <- feedState, applied <- PublishedNumbers
=============================================================================
