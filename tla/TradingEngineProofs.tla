------------------------- MODULE TradingEngineProofs -------------------------
(* The trading engine, for every network, recovery source, queue size and  *)
(* order of the threads' steps: with queues that block and a stop at any   *)
(* moment the feed keeps the promise of SequencedFeed, and what is printed *)
(* is what the events published call for.                                  *)
EXTENDS TradingEngine, FiniteSetTheorems, SequenceTheorems, TLAPS

USE FeedAssumption

LEMMA SuccType == ASSUME NEW s \in Sequence PROVE Succ(s) \in Sequence
BY DEF Succ, Sequence

LEMMA MessageType ==
  ASSUME NEW q \in Seq(Messages), NEW i \in DOMAIN q
  PROVE  q[i] \in Messages /\ q[i].seq \in Sequence
<1>1. q[i] \in Messages
  OBVIOUS
<1>2. QED
  BY <1>1

LEMMA AppendedLast ==
  ASSUME NEW q \in Seq(Messages), NEW m \in Messages
  PROVE  /\ Append(q, m) \in Seq(Messages) /\ Append(q, m) # <<>>
         /\ Len(Append(q, m)) = Len(q) + 1
         /\ Append(q, m)[Len(q) + 1] = m
         /\ \A i \in 1 .. Len(q) : Append(q, m)[i] = q[i]
OBVIOUS

LEMMA TailOf ==
  ASSUME NEW q \in Seq(Messages), q # <<>>
  PROVE  /\ Tail(q) \in Seq(Messages) /\ Len(Tail(q)) = Len(q) - 1
         /\ Len(q) \in Nat \ {0} /\ 1 \in DOMAIN q /\ Head(q) = q[1]
         /\ \A i \in 1 .. Len(q) - 1 : Tail(q)[i] = q[i + 1]
OBVIOUS
-----------------------------------------------------------------------------
(* A message that closes a gap continues what was recovered for it.        *)
LEMMA RecoveredContinues ==
  ASSUME NEW m \in Messages, FeedInv, feedPc = "receive", GapRecovered(m)
  PROVE  /\ toPublish' \in Seq(Messages) /\ Len(toPublish') > 1
         /\ \A i \in DOMAIN toPublish' : toPublish'[i].seq = toPublish'[1].seq + i - 1
         /\ toPublish'[1].seq = expectedSequence
<1>1. PICK found \in Answers :
        /\ Gap(m) /\ RecoveryIsExact(expectedSequence, m.seq, found)
        /\ toPublish' = Append(found, m)
  BY DEF GapRecovered
<1>2. /\ found \in Seq(Messages) /\ Len(found) \in Nat
      /\ Len(found) = m.seq - expectedSequence
      /\ \A i \in 1 .. Len(found) : found[i].seq = expectedSequence + i - 1
      /\ m.seq > expectedSequence /\ m.seq \in Nat /\ expectedSequence \in Nat
  BY <1>1 DEF RecoveryIsExact, Gap, Sequence, FeedInv, FeedTypeOK
<1>3. /\ toPublish' \in Seq(Messages) /\ Len(toPublish') = Len(found) + 1
      /\ DOMAIN toPublish' = 1 .. Len(found) + 1
      /\ toPublish'[Len(found) + 1] = m
      /\ \A i \in 1 .. Len(found) : toPublish'[i] = found[i]
  BY <1>1, <1>2, AppendedLast
<1>4. ASSUME NEW i \in DOMAIN toPublish'
      PROVE  toPublish'[i].seq = expectedSequence + i - 1
  <2>1. CASE i = Len(found) + 1
    BY <1>2, <1>3, <2>1
  <2>2. CASE i \in 1 .. Len(found)
    BY <1>2, <1>3, <2>2
  <2>3. QED
    BY <1>2, <1>3, <2>1, <2>2
<1>5. 1 \in DOMAIN toPublish' /\ Len(toPublish') > 1
  BY <1>2, <1>3
<1>6. toPublish'[1].seq = expectedSequence
  BY <1>2, <1>4, <1>5
<1>7. QED
  BY <1>3, <1>4, <1>5, <1>6

(* Whatever message is received, what the feed is about to publish         *)
(* continues what it has published.                                        *)
LEMMA ReceptionContinues ==
  ASSUME FeedInv, ReceiveMessage
  PROVE  FeedInv'
<1>1. PICK m \in Messages :
        Receive /\ (InSequence(m) \/ OldMessage(m) \/ GapRecovered(m) \/ GapNotRecovered(m))
  BY DEF ReceiveMessage
<1>t. /\ m.seq \in Sequence /\ m.seq \in Nat /\ expectedSequence \in Sequence
      /\ toPublish = <<>> /\ feedState = "Running" /\ feedPc = "receive"
      /\ hasSequence <=> published # <<>>
      /\ hasSequence => expectedSequence = Succ(published[Len(published)].seq)
  BY <1>1 DEF Receive, FeedInv, FeedTypeOK, Continues, Sequence
<1>2. /\ received' \in 0 .. MaxReceived /\ received < MaxReceived /\ received' = received + 1
      /\ UNCHANGED <<feedRunning, quota, receivedEvents, events, published>>
  BY <1>1 DEF Receive, publishedSoFar, FeedInv, FeedTypeOK
<1>3. CASE InSequence(m)
  <2>1. /\ expectedSequence' = Succ(m.seq) /\ hasSequence' = TRUE /\ feedPc' = "publish"
        /\ toPublish' = <<m>> /\ feedState' = feedState
        /\ published # <<>> => m.seq = Succ(published[Len(published)].seq)
    BY <1>t, <1>3 DEF InSequence
  <2>2. /\ toPublish' \in Seq(Messages) /\ toPublish' # <<>> /\ Len(toPublish') = 1
        /\ toPublish'[1] = m /\ DOMAIN toPublish' = {1}
    BY <2>1
  <2>3. FeedTypeOK'
    BY <1>t, <1>2, <2>1, <2>2, SuccType DEF FeedInv, FeedTypeOK
  <2>4. QED
    BY <1>t, <1>2, <2>1, <2>2, <2>3 DEF FeedInv, Continues
<1>4. CASE OldMessage(m)
  BY <1>t, <1>2, <1>4 DEF OldMessage, sequencing, FeedInv, FeedTypeOK, Continues
<1>5. CASE GapRecovered(m)
  <2>1. /\ toPublish' \in Seq(Messages) /\ Len(toPublish') > 1
        /\ \A i \in DOMAIN toPublish' : toPublish'[i].seq = toPublish'[1].seq + i - 1
        /\ toPublish'[1].seq = expectedSequence
    BY <1>t, <1>5, RecoveredContinues
  <2>2. toPublish' # <<>>
    BY <2>1
  <2>3. /\ UNCHANGED <<expectedSequence, hasSequence, feedState>>
        /\ feedPc' = "publish" /\ hasSequence
    BY <1>5 DEF GapRecovered, Gap, sequencing
  <2>4. FeedTypeOK'
    BY <1>t, <1>2, <2>1, <2>2, <2>3 DEF FeedInv, FeedTypeOK
  <2>5. QED
    BY <1>t, <1>2, <2>1, <2>3, <2>4 DEF FeedInv, Continues
<1>6. CASE GapNotRecovered(m)
  BY <1>t, <1>2, <1>6 DEF GapNotRecovered, sequencing, FeedInv, FeedTypeOK, Continues
<1>7. QED
  BY <1>1, <1>3, <1>4, <1>5, <1>6

(* One event more is published, and what is left continues it.             *)
LEMMA PushContinues ==
  ASSUME FeedInv, PushEvent
  PROVE  /\ FeedInv' /\ feedState' = feedState
         /\ published' = Append(published, toPublish[1])
<1>t. /\ feedPc = "publish" /\ toPublish # <<>> /\ toPublish \in Seq(Messages)
      /\ published \in Seq(Messages) /\ events \in Seq(Messages)
      /\ Len(published) \in Nat /\ Len(events) \in Nat
      /\ feedState = "Running" /\ hasSequence /\ expectedSequence \in Sequence
      /\ \A i \in DOMAIN toPublish : toPublish[i].seq = toPublish[1].seq + i - 1
      /\ Len(toPublish) = 1 => expectedSequence = Succ(toPublish[1].seq)
      /\ DOMAIN toPublish = 1 .. Len(toPublish) /\ Len(toPublish) \in Nat \ {0}
  BY DEF PushEvent, FeedInv, FeedTypeOK, Continues
<1>1. /\ toPublish[1] \in Messages /\ toPublish[1].seq \in Sequence
      /\ Head(toPublish) = toPublish[1]
  BY <1>t, MessageType, TailOf
<1>2. /\ Len(events) < EventLimit /\ events' = Append(events, toPublish[1])
      /\ published' = Append(published, toPublish[1]) /\ toPublish' = Tail(toPublish)
      /\ expectedSequence' = (IF Len(toPublish) = 2 THEN Succ(toPublish[2].seq)
                                                    ELSE expectedSequence)
      /\ feedPc' = (IF Len(toPublish) = 1 THEN "loop" ELSE "publish")
      /\ receivedEvents' \in {receivedEvents, receivedEvents + 1}
      /\ UNCHANGED <<hasSequence, feedState, feedRunning, quota, received>>
  BY <1>1 DEF PushEvent
<1>3. /\ published' \in Seq(Messages) /\ published' # <<>>
      /\ published'[Len(published')] = toPublish[1]
      /\ events' \in Seq(Messages) /\ Len(events') <= EventLimit
  <2>1. /\ published' \in Seq(Messages) /\ published' # <<>>
        /\ Len(published') = Len(published) + 1
        /\ published'[Len(published) + 1] = toPublish[1]
    BY <1>t, <1>1, <1>2, AppendedLast
  <2>2. events' \in Seq(Messages) /\ Len(events') = Len(events) + 1
    BY <1>t, <1>1, <1>2, AppendedLast
  <2>3. Len(events') <= EventLimit
    BY <1>t, <1>2, <2>2
  <2>4. QED
    BY <2>1, <2>2, <2>3
<1>4. /\ toPublish' \in Seq(Messages) /\ Len(toPublish') = Len(toPublish) - 1
      /\ DOMAIN toPublish' = 1 .. Len(toPublish) - 1
      /\ \A i \in 1 .. Len(toPublish) - 1 : toPublish'[i] = toPublish[i + 1]
  BY <1>t, <1>2, TailOf
<1>r. /\ receivedEvents' \in Nat
      /\ UNCHANGED <<hasSequence, feedState, feedRunning, quota, received>>
  BY <1>2 DEF FeedInv, FeedTypeOK
<1>5. expectedSequence' \in Sequence
  <2>1. CASE Len(toPublish) = 2
    <3>1. toPublish[2].seq \in Sequence
      BY <1>t, <2>1, MessageType
    <3>2. QED
      BY <1>2, <2>1, <3>1, SuccType
  <2>2. QED
    BY <1>t, <1>2, <2>1
<1>6. CASE Len(toPublish) = 1
  <2>1. toPublish' = <<>> /\ feedPc' = "loop" /\ expectedSequence' = Succ(toPublish[1].seq)
    BY <1>t, <1>2, <1>4, <1>6
  <2>2. FeedTypeOK'
    BY <1>r, <1>3, <1>4, <1>5, <2>1 DEF FeedInv, FeedTypeOK
  <2>3. QED
    BY <1>t, <1>r, <1>2, <1>3, <2>1, <2>2 DEF FeedInv, Continues
<1>7. CASE Len(toPublish) > 1
  <2>1. toPublish' # <<>> /\ feedPc' = "publish"
    <3>1. Len(toPublish) \in Nat /\ Len(toPublish) # 1
      BY <1>t, <1>7
    <3>2. feedPc' = "publish"
      BY ONLY <1>2, <3>1
    <3>3. Len(toPublish') # 0
      BY <1>4, <1>7, <3>1
    <3>4. QED
      BY <1>4, <3>2, <3>3
  <2>2. toPublish'[1] = toPublish[2] /\ toPublish[2].seq = toPublish[1].seq + 1
    <3>1. 2 \in DOMAIN toPublish /\ 1 \in 1 .. Len(toPublish) - 1
      BY <1>t, <1>7
    <3>2. toPublish[1].seq \in Nat
      BY <1>1 DEF Sequence
    <3>3. toPublish'[1] = toPublish[1 + 1]
      BY <1>4, <3>1
    <3>4. toPublish[2].seq = toPublish[1].seq + 2 - 1
      BY <1>t, <3>1
    <3>5. QED
      BY <3>2, <3>3, <3>4
  <2>3. toPublish'[1].seq = Succ(toPublish[1].seq)
    <3>1. toPublish[2].seq \in Sequence
      BY <1>t, <1>7, MessageType
    <3>2. QED
      BY <1>1, <2>2, <3>1 DEF Succ, Sequence
  <2>4. ASSUME NEW i \in DOMAIN toPublish'
        PROVE  toPublish'[i].seq = toPublish'[1].seq + i - 1
    <3>1. i \in 1 .. Len(toPublish) - 1 /\ i + 1 \in DOMAIN toPublish
      BY <1>t, <1>4
    <3>2. toPublish[i + 1].seq = toPublish[1].seq + (i + 1) - 1
      BY <1>t, <3>1
    <3>3. toPublish[1].seq \in Nat
      BY <1>1 DEF Sequence
    <3>4. toPublish'[i].seq = toPublish[i + 1].seq
      BY <1>4, <3>1
    <3>5. toPublish'[1].seq = toPublish[1].seq + 1
      BY <2>2
    <3>6. i \in Int
      BY <3>1
    <3>7. QED
      BY <3>2, <3>3, <3>4, <3>5, <3>6
  <2>5. Len(toPublish') = 1 => expectedSequence' = Succ(toPublish'[1].seq)
    <3>1. CASE Len(toPublish) = 2
      BY <1>2, <2>2, <3>1
    <3>2. CASE Len(toPublish) # 2
      <4>1. Len(toPublish') # 1
        BY <1>t, <1>4, <1>7, <3>2
      <4>2. QED
        BY <4>1
    <3>3. QED
      BY <3>1, <3>2
  <2>6. FeedTypeOK'
    BY <1>r, <1>3, <1>4, <1>5, <2>1 DEF FeedInv, FeedTypeOK
  <2>7. Continues'
    BY <1>t, <1>r, <1>3, <2>1, <2>3, <2>4, <2>5 DEF Continues
  <2>8. QED
    BY <1>2, <2>6, <2>7 DEF FeedInv
<1>8. QED
  BY <1>t, <1>6, <1>7

(* What the other threads do to the feed: take events and stop it. *)
LEMMA OthersLeaveTheFeed ==
  ASSUME FeedInv, [EngineNext]_engineVars, ~FeedThread
  PROVE  FeedInv' /\ UNCHANGED <<feedState, published>>
<1> USE DEF feedVars, sequencing, feedLocals, publishedSoFar
<1>1. /\ UNCHANGED <<expectedSequence, hasSequence, feedState, feedPc, quota, receivedEvents,
                     received, toPublish, published>>
      /\ feedRunning' \in {FALSE, feedRunning}
      /\ events' = events \/ (events # <<>> /\ events' = Tail(events))
  <2>1. CASE StrategyThread
    BY <2>1 DEF StrategyThread, Strategy!StrategyStep, Strategy!BeginStrategy,
       Strategy!StrategyLoop, Strategy!PopNoEvent, Strategy!PopEvent, Strategy!PushIntent,
       Strategy!FindIntentQueueFull, Strategy!RetryIntent, Strategy!GiveUpIntent,
       Strategy!FinishStrategy
  <2>2. CASE StopTheFeed \/ StopTheStrategy
    BY <2>2 DEF StopTheFeed, StopFeed, StopTheStrategy, Strategy!StopStrategy
  <2>3. CASE Main /\ ~StopTheFeed /\ ~StopTheStrategy
    BY <2>3 DEF Main, SeeShutdown, SeeFailure, LeaveLoop, KeepSupervising, PrintNext,
       PrintNothing, PrintIntent, JoinFeed, JoinStrategy, PrintRest, Exit
  <2>4. CASE Signal \/ Finished \/ UNCHANGED engineVars
    BY <2>4 DEF Signal, Finished, engineVars
  <2>5. QED
    BY <2>1, <2>2, <2>3, <2>4 DEF EngineNext
<1>2. events' \in Seq(Messages) /\ Len(events') <= EventLimit
  <2>1. events \in Seq(Messages) /\ Len(events) \in Nat /\ Len(events) <= EventLimit
    BY DEF FeedInv, FeedTypeOK
  <2>2. QED
    BY <1>1, <2>1, TailOf, SMTT(30)
<1>3. FeedTypeOK'
  BY <1>1, <1>2 DEF FeedInv, FeedTypeOK
<1>4. CASE feedRunning' = feedRunning
  BY <1>1, <1>3, <1>4 DEF FeedInv, Continues
<1>5. CASE feedRunning' = FALSE
  BY <1>1, <1>3, <1>5 DEF FeedInv, Continues
<1>6. QED
  BY <1>1, <1>4, <1>5

(* The steps of the feed thread that neither receive nor publish.          *)
LEMMA ControlSteps ==
  ASSUME FeedInv, FeedStep, ~ReceiveMessage, ~PushEvent
  PROVE  FeedInv' /\ UNCHANGED published
<1> USE DEF feedVars, sequencing, feedLocals, publishedSoFar
<1>1. ASSUME NEW q \in Quotas \cup {Unlimited}, Begin(q)
      PROVE  FeedInv' /\ UNCHANGED published
  BY <1>1 DEF Begin, FeedInv, FeedTypeOK, Continues
<1>2. CASE LoopCondition \/ ReceiveNothing \/ FindQueueFull \/ RetryPublishing
  <2>1. CASE LoopCondition
    BY <2>1 DEF LoopCondition, FeedInv, FeedTypeOK, Continues
  <2>2. CASE ReceiveNothing
    BY <2>2 DEF ReceiveNothing, FeedInv, FeedTypeOK, Continues
  <2>3. CASE RetryPublishing
    BY <2>3 DEF RetryPublishing, FeedInv, FeedTypeOK, Continues
  <2>4. CASE FindQueueFull
    BY <2>4 DEF FindQueueFull, FeedInv, FeedTypeOK, Continues
  <2>5. QED
    BY <1>2, <2>1, <2>2, <2>3, <2>4
<1>3. CASE GiveUpPublishing
  <2>1. <<>> \in Seq(Messages)
    OBVIOUS
  <2>2. /\ feedPc = "full" /\ ~feedRunning /\ toPublish' = <<>>
        /\ feedPc' \in {"loop", "finish"}
        /\ UNCHANGED <<expectedSequence, hasSequence, feedState, feedRunning, quota,
                       receivedEvents, received, events, published>>
    BY <1>3 DEF GiveUpPublishing
  <2>3. QED
    BY <2>1, <2>2 DEF FeedInv, FeedTypeOK, Continues
<1>4. CASE FinishFeed
  BY <1>4 DEF FinishFeed, FeedInv, FeedTypeOK, Continues
<1>5. QED
  BY <1>1, <1>2, <1>3, <1>4 DEF FeedStep
-----------------------------------------------------------------------------
LEMMA InitiallySound == EngineInit => FeedInv
<1>1. <<>> \in Seq(Messages) /\ Len(<<>>) = 0 /\ 0 \in Sequence
  BY DEF Sequence
<1>2. EngineInit => FeedTypeOK
  <2>1. SUFFICES ASSUME EngineInit PROVE FeedTypeOK
    OBVIOUS
  <2>2. /\ expectedSequence = 0 /\ hasSequence = FALSE
        /\ feedState = "Stopped" /\ feedRunning = FALSE /\ feedPc = "created"
        /\ quota = Unlimited /\ receivedEvents = 0 /\ received = 0
        /\ toPublish = <<>> /\ events = <<>> /\ published = <<>>
    BY <2>1 DEF EngineInit, FeedInit
  <2>3. received \in 0 .. MaxReceived /\ Len(events) <= EventLimit
    BY <1>1, <2>2
  <2>4. QED
    BY <1>1, <2>2, <2>3 DEF FeedTypeOK
<1>3. QED
  BY <1>2 DEF EngineInit, FeedInit, FeedInv, Continues

(* The feed expects what follows the events it has published, and what it  *)
(* is about to publish continues them.  (The invariant is inductive.)      *)
THEOREM FeedIsSound == EngineSpec => []FeedInv
<1>1. EngineInit => FeedInv
  BY InitiallySound
<1>2. ASSUME FeedInv, [EngineNext]_engineVars PROVE FeedInv'
  <2>1. CASE FeedThread
    BY <1>2, <2>1, ReceptionContinues, PushContinues, ControlSteps DEF FeedThread
  <2>2. QED
    BY <1>2, <2>1, OthersLeaveTheFeed
<1>3. QED
  BY <1>1, <1>2, PTL DEF EngineSpec

(* A message handed out by checkSequence() is published before the next is *)
(* looked at, unless the feed is being stopped (NothingIsSkipped).         *)
THEOREM NoEventIsSkipped == EngineSpec => []NothingIsSkipped
<1>1. FeedInv => NothingIsSkipped
  BY DEF FeedInv, Continues, NothingIsSkipped
<1>2. QED
  BY <1>1, FeedIsSound, PTL
-----------------------------------------------------------------------------
(* Every step of the engine is one of the promised feed or none.           *)
LEMMA StepsAreTheFeeds ==
  ASSUME FeedInv, [EngineNext]_engineVars
  PROVE  [Feed!FeedNext]_<<feedState, PublishedNumbers>>
<1> USE DEF feedVars, sequencing, feedLocals, publishedSoFar
<1>1. CASE FeedThread /\ PushEvent
  <2>1. /\ feedState = "Running" /\ toPublish # <<>> /\ toPublish \in Seq(Messages)
        /\ published \in Seq(Messages) /\ Len(published) \in Nat
        /\ published # <<>> => toPublish[1].seq = Succ(published[Len(published)].seq)
    BY <1>1 DEF PushEvent, FeedInv, FeedTypeOK, Continues
  <2>2. published' = Append(published, toPublish[1]) /\ feedState' = feedState
    BY <1>1, PushContinues
  <2>3. toPublish[1] \in Messages /\ toPublish[1].seq \in Sequence
    BY <2>1, MessageType, TailOf
  <2>4. PublishedNumbers' = Append(PublishedNumbers, toPublish[1].seq)
    BY <2>1, <2>2, <2>3 DEF PublishedNumbers
  <2>5. PublishedNumbers # <<>> =>
          toPublish[1].seq = Feed!Successor(PublishedNumbers[Len(PublishedNumbers)])
    <3>1. /\ Len(PublishedNumbers) = Len(published)
          /\ DOMAIN PublishedNumbers = DOMAIN published
      BY <2>1 DEF PublishedNumbers
    <3>2. SUFFICES ASSUME PublishedNumbers # <<>>
                   PROVE  toPublish[1].seq
                            = Feed!Successor(PublishedNumbers[Len(PublishedNumbers)])
      OBVIOUS
    <3>3. published # <<>> /\ Len(published) \in DOMAIN published
      BY <2>1, <3>2 DEF PublishedNumbers
    <3>4. QED
      BY <2>1, <3>1, <3>3 DEF Feed!Successor, Succ, PublishedNumbers
  <2>6. toPublish[1].seq \in 0 .. MaxSequence
    BY <2>3 DEF Sequence
  <2>7. Feed!Apply(toPublish[1].seq)
    BY <2>1, <2>2, <2>4, <2>5 DEF Feed!Apply
  <2>8. QED
    BY <2>6, <2>7 DEF Feed!FeedNext
<1>2. CASE FeedThread /\ ReceiveMessage
  <2>1. /\ feedState = "Running" /\ UNCHANGED published
        /\ feedState' \in {feedState, "Failed"}
    BY <1>2 DEF ReceiveMessage, Receive, InSequence, OldMessage, GapRecovered,
       GapNotRecovered, FeedInv, Continues
  <2>2. PublishedNumbers' = PublishedNumbers
    BY <2>1 DEF PublishedNumbers
  <2>3. QED
    BY <2>1, <2>2 DEF Feed!FeedNext, Feed!Break, PublishedNumbers
<1>3. CASE FeedThread /\ ~ReceiveMessage /\ ~PushEvent
  <2>1. UNCHANGED published /\ PublishedNumbers' = PublishedNumbers
    BY <1>3, ControlSteps DEF FeedThread, PublishedNumbers
  <2>2. CASE \E q \in Quotas \cup {Unlimited} : Begin(q)
    <3>1. feedState = "Stopped" /\ feedState' = "Running" /\ published = <<>>
      BY <2>2 DEF Begin, FeedInv, Continues
    <3>2. PublishedNumbers = <<>>
      BY <3>1 DEF PublishedNumbers
    <3>3. QED
      BY <2>1, <3>1, <3>2 DEF Feed!FeedNext, Feed!Open, PublishedNumbers
  <2>3. CASE FinishFeed
    <3>1. feedState \in {"Running", "Failed"}
      BY <2>3 DEF FinishFeed, FeedInv, FeedTypeOK, Continues
    <3>2. CASE feedState = "Running"
      BY <2>1, <2>3, <3>2 DEF FinishFeed, Feed!FeedNext, Feed!Close, PublishedNumbers
    <3>3. CASE feedState = "Failed"
      BY <2>1, <2>3, <3>3 DEF FinishFeed
    <3>4. QED
      BY <3>1, <3>2, <3>3
  <2>4. CASE \/ LoopCondition \/ ReceiveNothing \/ FindQueueFull \/ RetryPublishing
             \/ GiveUpPublishing
    BY <2>1, <2>4 DEF LoopCondition, ReceiveNothing, FindQueueFull, RetryPublishing,
       GiveUpPublishing
  <2>5. QED
    BY <1>3, <2>2, <2>3, <2>4 DEF FeedThread, FeedStep
<1>4. CASE ~FeedThread
  BY <1>4, OthersLeaveTheFeed DEF PublishedNumbers
<1>5. QED
  BY <1>1, <1>2, <1>3, <1>4 DEF FeedThread

(* With queues that block, a stop in the middle of a recovery and a        *)
(* failure: what is published is consecutive, and nothing follows a        *)
(* failure.                                                                *)
THEOREM RefinesFeed == EngineSpec => ImplementsFeed
<1>1. EngineInit => Feed!FeedInit
  <2>1. published = <<>> => PublishedNumbers = <<>>
    BY DEF PublishedNumbers
  <2>2. QED
    BY <2>1 DEF EngineInit, FeedInit, Feed!FeedInit
<1>2. FeedInv /\ [EngineNext]_engineVars => [Feed!FeedNext]_<<feedState, PublishedNumbers>>
  BY StepsAreTheFeeds
<1>3. QED
  BY <1>1, <1>2, FeedIsSound, PTL DEF EngineSpec, ImplementsFeed, Feed!FeedSpec
-----------------------------------------------------------------------------
(* What the strategy wants of one event more than it has taken. *)

LEMMA WantedIsFinite ==
  ASSUME NEW evs \in Seq(Messages), NEW i \in Int
  PROVE  /\ Wanted(evs) \subseteq 1 .. Len(evs)
         /\ IsFiniteSet(Wanted(evs)) /\ Cardinality(Wanted(evs)) \in Nat
         /\ IsFiniteSet(Wanted(evs) \cap 1 .. i)
         /\ Cardinality(Wanted(evs) \cap 1 .. i) \in Nat
         /\ Cardinality(Wanted(evs) \cap 1 .. i) <= Cardinality(Wanted(evs))
<1>1. Wanted(evs) \in SUBSET (1 .. Len(evs)) /\ Len(evs) \in Int
  BY DEF Wanted
<1>2. IsFiniteSet(1 .. Len(evs))
  BY <1>1, FS_Interval
<1>3. IsFiniteSet(Wanted(evs)) /\ Wanted(evs) \cap 1 .. i \in SUBSET Wanted(evs)
  BY <1>1, <1>2, FS_Subset
<1>4. QED
  BY <1>1, <1>3, FS_Subset, FS_CardinalityType

(* The places of the events before the new one among those wanted.         *)
LEMMA EarlierPlaces ==
  ASSUME NEW evs \in Seq(Messages), NEW e \in Messages, NEW i \in 1 .. Len(evs)
  PROVE  /\ Append(evs, e)[i] = evs[i]
         /\ i \in Wanted(Append(evs, e)) <=> i \in Wanted(evs)
         /\ Wanted(Append(evs, e)) \cap 1 .. i = Wanted(evs) \cap 1 .. i
<1>1. /\ Len(Append(evs, e)) = Len(evs) + 1
      /\ \A k \in 1 .. Len(evs) : Append(evs, e)[k] = evs[k]
  BY AppendedLast
<1>2. /\ Len(evs) \in Nat /\ 1 .. i \subseteq 1 .. Len(evs)
      /\ 1 .. Len(evs) \subseteq 1 .. Len(evs) + 1
  OBVIOUS
<1>3. \A k \in 1 .. Len(evs) : k \in Wanted(Append(evs, e)) <=> k \in Wanted(evs)
  BY <1>1, <1>2 DEF Wanted
<1>4. QED
  BY <1>1, <1>2, <1>3

LEMMA WantedOfUnwanted ==
  ASSUME NEW evs \in Seq(Messages), NEW e \in Messages, ~Strategy!WantsToBuy(e)
  PROVE  Wanted(Append(evs, e)) = Wanted(evs)
<1>1. /\ Len(Append(evs, e)) = Len(evs) + 1 /\ Append(evs, e)[Len(evs) + 1] = e
      /\ \A k \in 1 .. Len(evs) : Append(evs, e)[k] = evs[k]
  BY AppendedLast
<1>2. Len(evs) \in Nat /\ 1 .. Len(evs) + 1 = (1 .. Len(evs)) \cup {Len(evs) + 1}
  OBVIOUS
<1>3. QED
  BY <1>1, <1>2 DEF Wanted

LEMMA WantedOfWanted ==
  ASSUME NEW evs \in Seq(Messages), NEW e \in Messages, Strategy!WantsToBuy(e)
  PROVE  /\ Wanted(Append(evs, e)) = Wanted(evs) \cup {Len(evs) + 1}
         /\ Cardinality(Wanted(Append(evs, e))) = Cardinality(Wanted(evs)) + 1
<1>1. /\ Len(Append(evs, e)) = Len(evs) + 1 /\ Append(evs, e)[Len(evs) + 1] = e
      /\ \A k \in 1 .. Len(evs) : Append(evs, e)[k] = evs[k]
  BY AppendedLast
<1>2. Len(evs) \in Nat /\ 1 .. Len(evs) + 1 = (1 .. Len(evs)) \cup {Len(evs) + 1}
  OBVIOUS
<1>3. Wanted(Append(evs, e)) = Wanted(evs) \cup {Len(evs) + 1}
  BY <1>1, <1>2 DEF Wanted
<1>4. Len(evs) + 1 \notin Wanted(evs)
  BY <1>2 DEF Wanted
<1>5. IsFiniteSet(Wanted(evs))
  <2>1. 0 \in Int
    OBVIOUS
  <2>2. QED
    BY <2>1, WantedIsFinite
<1>6. QED
  BY <1>3, <1>4, <1>5, FS_AddElement

(* Nothing is ordered for an event that is not wanted. *)
LEMMA UnwantedIsFulfilled ==
  ASSUME NEW evs \in Seq(Messages), NEW e \in Messages, NEW orders,
         ~Strategy!WantsToBuy(e), Fulfil(orders, evs)
  PROVE  Fulfil(orders, Append(evs, e))
<1>1. Wanted(Append(evs, e)) = Wanted(evs) /\ Wanted(evs) \subseteq 1 .. Len(evs)
  BY WantedOfUnwanted DEF Wanted
<1>2. \A i \in Wanted(evs) : Append(evs, e)[i] = evs[i]
  BY <1>1, EarlierPlaces
<1>3. QED
  BY <1>1, <1>2 DEF Fulfil

(* An order more for an event more that is wanted. *)
LEMMA WantedIsFulfilled ==
  ASSUME NEW evs \in Seq(Messages), NEW e \in Messages, NEW orders \in Seq(Orders),
         Strategy!WantsToBuy(e), Fulfil(orders, evs)
  PROVE  Fulfil(Append(orders, Strategy!Buy(e)), Append(evs, e))
<1> DEFINE more == Append(evs, e)  ordered == Append(orders, Strategy!Buy(e))
<1>1. /\ Wanted(more) = Wanted(evs) \cup {Len(evs) + 1}
      /\ Cardinality(Wanted(more)) = Cardinality(Wanted(evs)) + 1
      /\ Wanted(evs) \subseteq 1 .. Len(evs) /\ Len(evs) \in Nat
  BY WantedOfWanted DEF Wanted
<1>2. /\ Len(ordered) = Len(orders) + 1 /\ ordered[Len(orders) + 1] = Strategy!Buy(e)
      /\ \A k \in 1 .. Len(orders) : ordered[k] = orders[k]
  <2>1. Strategy!Buy(e) \in Orders
    BY DEF Orders
  <2>2. QED
    BY <2>1, AppendProperties
<1>3. Len(orders) = Cardinality(Wanted(evs)) /\ Len(orders) \in Nat
  BY DEF Fulfil
<1>4. ASSUME NEW i \in Wanted(evs)
      PROVE  ordered[Cardinality(Wanted(more) \cap 1 .. i)] = Strategy!Buy(more[i])
  <2>1. /\ i \in 1 .. Len(evs) /\ more[i] = evs[i]
        /\ Wanted(more) \cap 1 .. i = Wanted(evs) \cap 1 .. i
    BY <1>1, EarlierPlaces
  <2>2. orders[Cardinality(Wanted(evs) \cap 1 .. i)] = Strategy!Buy(evs[i])
    BY DEF Fulfil
  <2>3. Cardinality(Wanted(evs) \cap 1 .. i) \in 1 .. Len(orders)
    <3>1. /\ Cardinality(Wanted(evs) \cap 1 .. i) \in Nat
          /\ Cardinality(Wanted(evs) \cap 1 .. i) <= Len(orders)
          /\ IsFiniteSet(Wanted(evs) \cap 1 .. i)
      <4>1. i \in Int
        BY <2>1
      <4>2. QED
        BY <1>3, <4>1, WantedIsFinite
    <3>2. i \in Wanted(evs) \cap 1 .. i
      BY <2>1
    <3>3. Cardinality(Wanted(evs) \cap 1 .. i) # 0
      BY <3>1, <3>2, FS_EmptySet
    <3>4. QED
      BY <1>3, <3>1, <3>3
  <2>4. QED
    BY <1>2, <2>1, <2>2, <2>3
<1>5. ordered[Cardinality(Wanted(more) \cap 1 .. Len(evs) + 1)] = Strategy!Buy(more[Len(evs) + 1])
  <2>1. Wanted(more) \cap 1 .. Len(evs) + 1 = Wanted(more)
    BY <1>1
  <2>2. more[Len(evs) + 1] = e
    BY AppendedLast
  <2>3. QED
    BY <1>1, <1>2, <1>3, <2>1, <2>2
<1>6. QED
  BY <1>1, <1>2, <1>3, <1>4, <1>5 DEF Fulfil
-----------------------------------------------------------------------------
(* What was published is what was taken followed by what is queued. *)

Splits(all, before, after) ==
  /\ Len(all) = Len(before) + Len(after)
  /\ \A i \in 1 .. Len(before) : before[i] = all[i]
  /\ \A i \in 1 .. Len(after) : after[i] = all[Len(before) + i]

LEMMA SplitsOfSubSeqs ==
  ASSUME NEW all \in Seq(Messages), NEW before \in Seq(Messages), NEW after \in Seq(Messages),
         Splits(all, before, after)
  PROVE  /\ before = SubSeq(all, 1, Len(all) - Len(after))
         /\ after = SubSeq(all, Len(before) + 1, Len(all))
<1>1. /\ Len(all) \in Nat /\ Len(before) \in Nat /\ Len(after) \in Nat
      /\ Len(all) = Len(before) + Len(after)
      /\ \A i \in 1 .. Len(before) : before[i] = all[i]
      /\ \A i \in 1 .. Len(after) : after[i] = all[Len(before) + i]
  BY DEF Splits
<1>2. \A i \in 1 .. Len(all) : all[i] \in Messages
  OBVIOUS
<1>3. before = SubSeq(all, 1, Len(before))
  <2>1. \A i \in 1 .. Len(before) : all[i] \in Messages
    BY <1>1, <1>2
  <2>2. /\ SubSeq(all, 1, Len(before)) \in Seq(Messages)
        /\ Len(SubSeq(all, 1, Len(before))) = Len(before)
        /\ \A i \in 1 .. Len(before) : SubSeq(all, 1, Len(before))[i] = all[i]
    <3>1. /\ SubSeq(all, 1, Len(before)) \in Seq(Messages)
          /\ Len(SubSeq(all, 1, Len(before)))
               = (IF 1 <= Len(before) THEN Len(before) - 1 + 1 ELSE 0)
          /\ \A i \in 1 .. Len(before) - 1 + 1 :
               SubSeq(all, 1, Len(before))[i] = all[1 + i - 1]
      BY <1>1, <2>1, SubSeqProperties
    <3>2. QED
      BY <1>1, <3>1
  <2>3. QED
    BY <1>1, <2>2, SeqEqual
<1>4. after = SubSeq(all, Len(before) + 1, Len(all))
  <2>1. \A i \in Len(before) + 1 .. Len(all) : all[i] \in Messages
    BY <1>1, <1>2
  <2>2. Len(before) + 1 \in Int /\ Len(all) \in Int
    BY <1>1
  <2>3. /\ SubSeq(all, Len(before) + 1, Len(all)) \in Seq(Messages)
        /\ Len(SubSeq(all, Len(before) + 1, Len(all)))
             = (IF Len(before) + 1 <= Len(all) THEN Len(all) - (Len(before) + 1) + 1 ELSE 0)
        /\ \A i \in 1 .. Len(all) - (Len(before) + 1) + 1 :
             SubSeq(all, Len(before) + 1, Len(all))[i] = all[Len(before) + 1 + i - 1]
    BY <2>1, <2>2, SubSeqProperties
  <2>4. /\ Len(SubSeq(all, Len(before) + 1, Len(all))) = Len(after)
        /\ \A i \in 1 .. Len(after) :
             SubSeq(all, Len(before) + 1, Len(all))[i] = all[Len(before) + i]
    BY <1>1, <2>3
  <2>5. QED
    BY <1>1, <2>3, <2>4, SeqEqual
<1>5. QED
  BY <1>1, <1>3, <1>4

LEMMA SubSeqsSplit ==
  ASSUME NEW all \in Seq(Messages), NEW before, NEW after \in Seq(Messages),
         before = SubSeq(all, 1, Len(all) - Len(after)),
         after = SubSeq(all, Len(before) + 1, Len(all))
  PROVE  before \in Seq(Messages) /\ Splits(all, before, after)
<1>1. Len(all) \in Nat /\ Len(after) \in Nat /\ \A i \in 1 .. Len(all) : all[i] \in Messages
  OBVIOUS
<1>2. /\ Len(all) - Len(after) \in Int
      /\ \A i \in 1 .. Len(all) - Len(after) : all[i] \in Messages
  BY <1>1
<1>3. /\ before \in Seq(Messages)
      /\ Len(before) = (IF 1 <= Len(all) - Len(after) THEN Len(all) - Len(after) - 1 + 1 ELSE 0)
      /\ \A i \in 1 .. Len(all) - Len(after) - 1 + 1 : before[i] = all[1 + i - 1]
  BY <1>2, SubSeqProperties
<1>4. /\ Len(before) \in Nat /\ Len(before) + 1 \in Int /\ Len(all) \in Int
      /\ \A i \in Len(before) + 1 .. Len(all) : all[i] \in Messages
  BY <1>1, <1>3
<1>5. /\ Len(SubSeq(all, Len(before) + 1, Len(all)))
           = (IF Len(before) + 1 <= Len(all) THEN Len(all) - (Len(before) + 1) + 1 ELSE 0)
      /\ \A i \in 1 .. Len(all) - (Len(before) + 1) + 1 :
           SubSeq(all, Len(before) + 1, Len(all))[i] = all[Len(before) + 1 + i - 1]
  BY ONLY <1>4, SubSeqProperties
<1>a. /\ Len(after)
           = (IF Len(before) + 1 <= Len(all) THEN Len(all) - (Len(before) + 1) + 1 ELSE 0)
      /\ \A i \in 1 .. Len(all) - (Len(before) + 1) + 1 : after[i] = all[Len(before) + 1 + i - 1]
  BY ONLY <1>5, after = SubSeq(all, Len(before) + 1, Len(all))
<1>6. PICK a \in Nat, b \in Nat, c \in Nat : a = Len(all) /\ b = Len(before) /\ c = Len(after)
  BY <1>1, <1>4
<1>7. /\ a = b + c
      /\ \A i \in 1 .. b : before[i] = all[1 + i - 1]
      /\ \A i \in 1 .. c : after[i] = all[b + 1 + i - 1]
  <2>1. b = (IF 1 <= a - c THEN a - c - 1 + 1 ELSE 0) /\ c = (IF b + 1 <= a THEN a - (b + 1) + 1 ELSE 0)
    BY ONLY <1>3, <1>6, <1>a
  <2>t. a \in Nat /\ b \in Nat /\ c \in Nat
    OBVIOUS
  <2>2. a = b + c
    BY ONLY <2>t, <2>1
  <2>b. a - c - 1 + 1 = b /\ a - (b + 1) + 1 = c
    BY ONLY <2>t, <2>2
  <2>3. 1 .. b = 1 .. Len(all) - Len(after) - 1 + 1 /\ 1 .. c = 1 .. Len(all) - (Len(before) + 1) + 1
    BY ONLY <1>6, <2>b
  <2>4. QED
    BY <1>3, <1>6, <1>a, <2>2, <2>3
<1>8. /\ \A i \in 1 .. b : 1 + i - 1 = i
      /\ \A i \in 1 .. c : b + 1 + i - 1 = b + i
  BY <1>6
<1>9. /\ \A i \in 1 .. b : before[i] = all[i]
      /\ \A i \in 1 .. c : after[i] = all[b + i]
  BY ONLY <1>7, <1>8
<1>10. Splits(all, before, after)
  BY ONLY <1>6, <1>7, <1>9 DEF Splits
<1>11. QED
  BY <1>3, <1>10

LEMMA SplitsOnPublish ==
  ASSUME NEW all \in Seq(Messages), NEW before \in Seq(Messages), NEW after \in Seq(Messages),
         NEW m \in Messages, Splits(all, before, after)
  PROVE  Splits(Append(all, m), before, Append(after, m))
<1>1. /\ Len(all) \in Nat /\ Len(before) \in Nat /\ Len(after) \in Nat
      /\ Len(all) = Len(before) + Len(after)
      /\ \A i \in 1 .. Len(before) : before[i] = all[i]
      /\ \A i \in 1 .. Len(after) : after[i] = all[Len(before) + i]
  BY DEF Splits
<1>x. PICK x : x = Append(all, m)
  OBVIOUS
<1>y. PICK y : y = Append(after, m)
  OBVIOUS
<1>2. /\ Len(x) = Len(all) + 1 /\ x[Len(all) + 1] = m
      /\ \A i \in 1 .. Len(all) : x[i] = all[i]
  BY <1>x, AppendedLast
<1>3. /\ Len(y) = Len(after) + 1 /\ y[Len(after) + 1] = m
      /\ \A i \in 1 .. Len(after) : y[i] = after[i]
  BY <1>y, AppendedLast
<1>4. \A i \in 1 .. Len(before) : before[i] = x[i]
  BY <1>1, <1>2
<1>5. ASSUME NEW i \in 1 .. Len(after) + 1
      PROVE  y[i] = x[Len(before) + i]
  <2>1. CASE i = Len(after) + 1
    <3>1. Len(before) + i = Len(all) + 1
      BY ONLY <1>1, <2>1
    <3>2. QED
      BY ONLY <1>2, <1>3, <2>1, <3>1
  <2>2. CASE i \in 1 .. Len(after)
    <3>1. Len(before) + i \in 1 .. Len(all)
      BY ONLY <1>1, <2>2
    <3>2. QED
      BY ONLY <1>1, <1>2, <1>3, <2>2, <3>1
  <2>3. i = Len(after) + 1 \/ i \in 1 .. Len(after)
    BY ONLY <1>1, i \in 1 .. Len(after) + 1
  <2>4. QED
    BY <2>1, <2>2, <2>3
<1>6. Len(x) = Len(before) + Len(y)
  BY ONLY <1>1, <1>2, <1>3
<1>7. Splits(x, before, y)
  BY ONLY <1>3, <1>4, <1>5, <1>6 DEF Splits
<1>8. QED
  BY ONLY <1>x, <1>y, <1>7

LEMMA SplitsOnTake ==
  ASSUME NEW all \in Seq(Messages), NEW before \in Seq(Messages), NEW after \in Seq(Messages),
         after # <<>>, Splits(all, before, after)
  PROVE  /\ Head(after) \in Messages /\ Tail(after) \in Seq(Messages)
         /\ Splits(all, Append(before, Head(after)), Tail(after))
<1>1. /\ Head(after) = after[1] /\ 1 \in DOMAIN after /\ after[1] \in Messages
      /\ Tail(after) \in Seq(Messages) /\ Len(Tail(after)) = Len(after) - 1
      /\ \A i \in 1 .. Len(after) - 1 : Tail(after)[i] = after[i + 1]
      /\ Len(after) \in Nat \ {0} /\ Len(before) \in Nat
  BY TailOf, MessageType
<1>2. /\ Len(Append(before, after[1])) = Len(before) + 1
      /\ Append(before, after[1])[Len(before) + 1] = after[1]
      /\ \A i \in 1 .. Len(before) : Append(before, after[1])[i] = before[i]
  BY <1>1, AppendedLast
<1>3. \A i \in 1 .. Len(after) : after[i] = all[Len(before) + i]
  BY DEF Splits
<1>4. Len(all) = Len(before) + 1 + (Len(after) - 1)
  BY <1>1 DEF Splits
<1>5. \A i \in 1 .. Len(before) + 1 : Append(before, after[1])[i] = all[i]
  BY <1>1, <1>2, <1>3 DEF Splits
<1>6. \A i \in 1 .. Len(after) - 1 : Tail(after)[i] = all[Len(before) + 1 + i]
  <2>1. TAKE i \in 1 .. Len(after) - 1
  <2>2. i + 1 \in 1 .. Len(after) /\ Tail(after)[i] = after[i + 1]
    BY <1>1
  <2>3. after[i + 1] = all[Len(before) + (i + 1)] /\ Len(before) + (i + 1) = Len(before) + 1 + i
    BY <1>1, <1>3, <2>2
  <2>4. QED
    BY <2>2, <2>3
<1>7. QED
  BY <1>1, <1>2, <1>4, <1>5, <1>6 DEF Splits
-----------------------------------------------------------------------------
LEMMA QueueFacts ==
  ASSUME IntentsInv
  PROVE  /\ published \in Seq(Messages) /\ events \in Seq(Messages) /\ Taken \in Seq(Messages)
         /\ Splits(published, Taken, events)
         /\ intents \in Seq(Orders) /\ printed \in Seq(Orders)
         /\ printed \o intents \in Seq(Orders)
         /\ Len(printed \o intents) = Len(printed) + Len(intents)
<1>1. /\ published \in Seq(Messages) /\ events \in Seq(Messages)
      /\ intents \in Seq(Orders) /\ printed \in Seq(Orders)
      /\ events = SubSeq(published, Len(Taken) + 1, Len(published))
  BY DEF IntentsInv, FeedInv, FeedTypeOK, EngineTypeOK, IntentsFollowEvents
<1>2. Taken = SubSeq(published, 1, Len(published) - Len(events))
  BY DEF Taken
<1>3. Taken \in Seq(Messages) /\ Splits(published, Taken, events)
  BY ONLY <1>1, <1>2, SubSeqsSplit
<1>4. printed \o intents \in Seq(Orders) /\ Len(printed \o intents) = Len(printed) + Len(intents)
  BY ONLY <1>1, ConcatProperties
<1>5. QED
  BY <1>1, <1>3, <1>4

LEMMA QueueAfter ==
  ASSUME NEW t \in Seq(Messages), published' \in Seq(Messages), events' \in Seq(Messages),
         Splits(published', t, events')
  PROVE  Taken' = t /\ events' = SubSeq(published', Len(Taken') + 1, Len(published'))
<1>1. Taken' = SubSeq(published', 1, Len(published') - Len(events'))
  BY DEF Taken
<1>2. /\ t = SubSeq(published', 1, Len(published') - Len(events'))
      /\ events' = SubSeq(published', Len(t) + 1, Len(published'))
  BY SplitsOfSubSeqs
<1>3. QED
  BY ONLY <1>1, <1>2

LEMMA LastOrderIsOne ==
  ASSUME IntentsInv, Taken # <<>>
  PROVE  LastOrder \in Orders
<1>1. Taken \in Seq(Messages)
  BY QueueFacts
<1>2. Taken[Len(Taken)] \in Messages
  <2>1. Len(Taken) \in DOMAIN Taken
    BY <1>1
  <2>2. QED
    BY <1>1, <2>1, MessageType
<1>3. QED
  BY <1>2 DEF LastOrder, Orders

(* The strategy takes an event. *)
LEMMA TakingFollows ==
  ASSUME IntentsInv, Strategy!PopEvent, UNCHANGED <<published, printed>>
  PROVE  IntentsFollowEvents'
<1> DEFINE out == printed \o intents
<1>1. /\ events # <<>> /\ events' = Tail(events) /\ strategyPc = "pop"
      /\ UNCHANGED <<published, printed, intents>> /\ out' = out
  BY DEF Strategy!PopEvent
<1>2. PICK e \in Messages : e = Head(events)
  BY <1>1, QueueFacts, SplitsOnTake
<1>3. PICK t \in Seq(Messages) : t = Append(Taken, e)
  BY QueueFacts, AppendedLast
<1>4. Splits(published', t, events') /\ published' \in Seq(Messages) /\ events' \in Seq(Messages)
  BY <1>1, <1>2, <1>3, QueueFacts, SplitsOnTake
<1>5. Taken' = t /\ events' = SubSeq(published', Len(Taken') + 1, Len(published'))
  BY ONLY <1>4, t \in Seq(Messages), QueueAfter
<1>6. Fulfil(out, Taken) /\ out \in Seq(Orders) /\ Taken \in Seq(Messages)
  BY <1>1, QueueFacts DEF IntentsInv, IntentsFollowEvents
<1>7. t # <<>> /\ t[Len(t)] = e
  BY ONLY <1>3, <1>6, e \in Messages, AppendedLast
<1>8. CASE Strategy!WantsToBuy(e)
  <2>1. Fulfil(Append(out, Strategy!Buy(e)), t)
    BY ONLY <1>3, <1>6, <1>8, e \in Messages, WantedIsFulfilled
  <2>2. intent' = Strategy!Buy(e) /\ strategyPc' = "publish"
    BY <1>2, <1>8 DEF Strategy!PopEvent
  <2>3. LastOrder' = Strategy!Buy(e)
    BY ONLY <1>5, <1>7 DEF LastOrder
  <2>4. QED
    BY ONLY <1>1, <1>5, <1>7, <2>1, <2>2, <2>3 DEF IntentsFollowEvents
<1>9. CASE ~Strategy!WantsToBuy(e)
  <2>1. Fulfil(out, t)
    BY ONLY <1>3, <1>6, <1>9, e \in Messages, UnwantedIsFulfilled
  <2>2. strategyPc' = "loop"
    BY <1>2, <1>9 DEF Strategy!PopEvent
  <2>3. QED
    BY ONLY <1>1, <1>5, <2>1, <2>2 DEF IntentsFollowEvents
<1>10. QED
  BY <1>8, <1>9

(* The intent in its hands goes into the queue. *)
LEMMA PushingFollows ==
  ASSUME IntentsInv, Strategy!PushIntent, UNCHANGED <<published, printed>>
  PROVE  IntentsFollowEvents' /\ intents' \in Seq(Orders)
<1> DEFINE out == printed \o intents
<1>1. /\ strategyPc = "publish" /\ intents' = Append(intents, intent) /\ strategyPc' = "loop"
      /\ UNCHANGED <<published, printed, events>>
  BY DEF Strategy!PushIntent
<1>2. /\ Fulfil(Append(out, intent), Taken) /\ intent \in Orders
      /\ events = SubSeq(published, Len(Taken) + 1, Len(published))
  BY <1>1, LastOrderIsOne DEF IntentsInv, IntentsFollowEvents
<1>3. printed' \o intents' = Append(out, intent) /\ intents' \in Seq(Orders)
  <2>1. intents \in Seq(Orders) /\ printed \in Seq(Orders) /\ out \in Seq(Orders)
    BY QueueFacts
  <2>2. Append(intents, intent) = intents \o <<intent>> /\ Append(out, intent) = out \o <<intent>>
    BY <1>2, <2>1, AppendIsConcat
  <2>3. <<intent>> \in Seq(Orders) /\ Append(intents, intent) \in Seq(Orders)
    BY <1>2, <2>1
  <2>4. (printed \o intents) \o <<intent>> = printed \o (intents \o <<intent>>)
    BY ONLY <2>1, <2>3, ConcatAssociative
  <2>5. QED
    BY ONLY <1>1, <2>2, <2>3, <2>4
<1>4. Taken' = Taken
  BY <1>1 DEF Taken
<1>5. QED
  BY ONLY <1>1, <1>2, <1>3, <1>4 DEF IntentsFollowEvents

(* An intent is lost only by one who has found the queue full, and it is   *)
(* that of the last event taken.                                           *)
LEMMA LosingFollows ==
  ASSUME IntentsInv, Strategy!GiveUpIntent, UNCHANGED <<published, printed>>
  PROVE  IntentsFollowEvents'
<1> DEFINE out == printed \o intents
<1>1. /\ strategyPc = "full" /\ strategyPc' = "finish"
      /\ UNCHANGED <<published, printed, events, intents>>
  BY DEF Strategy!GiveUpIntent
<1>2. /\ Fulfil(Append(out, LastOrder), Taken) /\ Taken # <<>>
      /\ events = SubSeq(published, Len(Taken) + 1, Len(published))
  BY <1>1 DEF IntentsInv, IntentsFollowEvents
<1>3. Len(out) >= IntentLimit
  BY <1>1 DEF IntentsInv, FullQueueWasSeen
<1>4. Taken' = Taken /\ LastOrder' = LastOrder /\ out' = out
  BY <1>1 DEF Taken, LastOrder
<1>5. QED
  BY ONLY <1>1, <1>2, <1>3, <1>4 DEF IntentsFollowEvents

(* main takes an intent from the queue and prints it. *)
LEMMA PrintingFollows ==
  ASSUME IntentsInv, PrintIntent
  PROVE  /\ IntentsFollowEvents' /\ FullQueueWasSeen'
         /\ intents' \in Seq(Orders) /\ printed' \in Seq(Orders)
<1> DEFINE out == printed \o intents
<1>1. /\ intents # <<>> /\ printed' = Append(printed, Head(intents)) /\ intents' = Tail(intents)
      /\ UNCHANGED <<published, events, strategyPc, intent>>
  BY DEF PrintIntent, feedVars, publishedSoFar, strategyLocals
<1>2. intents \in Seq(Orders) /\ printed \in Seq(Orders) /\ out \in Seq(Orders)
  BY QueueFacts
<1>3. /\ Head(intents) \in Orders /\ Tail(intents) \in Seq(Orders)
      /\ <<Head(intents)>> \in Seq(Orders)
      /\ <<Head(intents)>> \o Tail(intents) = intents
  BY <1>1, <1>2
<1>4. Append(printed, Head(intents)) = printed \o <<Head(intents)>>
  BY <1>2, <1>3, AppendIsConcat
<1>5. (printed \o <<Head(intents)>>) \o Tail(intents)
        = printed \o (<<Head(intents)>> \o Tail(intents))
  BY ONLY <1>2, <1>3, ConcatAssociative
<1>6. printed' \o intents' = out
  BY ONLY <1>1, <1>3, <1>4, <1>5
<1>7. Taken' = Taken /\ LastOrder' = LastOrder
  BY <1>1 DEF Taken, LastOrder
<1>8. printed' \in Seq(Orders) /\ intents' \in Seq(Orders)
  BY <1>1, <1>2, <1>3
<1>9. IntentsFollowEvents
  BY DEF IntentsInv
<1>10. IntentsFollowEvents'
  BY ONLY <1>1, <1>6, <1>7, <1>9 DEF IntentsFollowEvents
<1>11. FullQueueWasSeen'
  BY <1>1, <1>6 DEF IntentsInv, FullQueueWasSeen
<1>12. QED
  BY <1>8, <1>10, <1>11

(* An event more is published: nothing more is taken. *)
LEMMA PublishingFollows ==
  ASSUME IntentsInv, PushEvent, UNCHANGED <<intents, printed, strategyPc, intent>>
  PROVE  IntentsFollowEvents'
<1> DEFINE out == printed \o intents
<1>1. PICK m \in Messages : published' = Append(published, m) /\ events' = Append(events, m)
  <2>1. toPublish \in Seq(Messages) /\ toPublish # <<>>
    BY DEF PushEvent, IntentsInv, FeedInv, FeedTypeOK
  <2>2. Head(toPublish) \in Messages
    BY <2>1, TailOf, MessageType
  <2>3. QED
    BY <2>2 DEF PushEvent
<1>2. /\ Splits(published', Taken, events') /\ Taken \in Seq(Messages)
      /\ published' \in Seq(Messages) /\ events' \in Seq(Messages)
  <2>1. Splits(Append(published, m), Taken, Append(events, m))
    BY ONLY m \in Messages, IntentsInv, QueueFacts, SplitsOnPublish
  <2>2. Append(published, m) \in Seq(Messages) /\ Append(events, m) \in Seq(Messages)
    BY QueueFacts, AppendedLast
  <2>3. QED
    BY <1>1, <2>1, <2>2, QueueFacts
<1>3. Taken' = Taken /\ events' = SubSeq(published', Len(Taken') + 1, Len(published'))
  BY ONLY <1>2, QueueAfter
<1>4. LastOrder' = LastOrder
  BY <1>3 DEF LastOrder
<1>5. IntentsFollowEvents
  BY DEF IntentsInv
<1>6. QED
  BY ONLY <1>3, <1>4, <1>5, UNCHANGED <<intents, printed, strategyPc, intent>>
     DEF IntentsFollowEvents
-----------------------------------------------------------------------------
(* A step that touches neither queue leaves what follows from what alone.  *)
LEMMA QueuesUntouched ==
  ASSUME IntentsInv, UNCHANGED <<published, events, intents, printed, intent>>,
         \/ strategyPc' = strategyPc
         \/ {strategyPc, strategyPc'} \subseteq {"publish", "full"}
         \/ /\ strategyPc \notin {"publish", "full", "finish", "exited"}
            /\ strategyPc' \notin {"publish", "full"}
         \/ strategyPc = "finish" /\ strategyPc' = "exited"
  PROVE  IntentsFollowEvents'
<1>1. Taken' = Taken /\ LastOrder' = LastOrder
  BY DEF Taken, LastOrder
<1>2. QED
  BY <1>1 DEF IntentsInv, IntentsFollowEvents

(* Whoever found the queue full still knows that many intents. *)
LEMMA FullStaysSeen ==
  ASSUME IntentsInv, UNCHANGED <<intents, printed>>,
         strategyPc' = strategyPc \/ strategyPc' # "full"
  PROVE  FullQueueWasSeen'
BY DEF IntentsInv, FullQueueWasSeen

LEMMA FeedStepsFollow ==
  ASSUME IntentsInv, FeedThread
  PROVE  IntentsInv'
<1>1. UNCHANGED <<intents, strategyState, strategyRunning, strategyPc, intent,
                  main, shutdownRequested, fatalFailure, printed>>
  BY DEF FeedThread, strategyLocals, mainVars
<1>2. FeedInv'
  BY ReceptionContinues, PushContinues, ControlSteps DEF FeedThread, IntentsInv
<1>3. EngineTypeOK' /\ StrategyIsJoined' /\ FullQueueWasSeen'
  <2>1. EngineTypeOK' /\ StrategyIsJoined'
    BY <1>1, <1>2 DEF IntentsInv, EngineTypeOK, FeedInv, Strategy!StrategyTypeOK, Strategy!None,
       StrategyIsJoined
  <2>2. QED
    BY <1>1, <2>1, FullStaysSeen
<1>4. CASE PushEvent
  BY <1>1, <1>2, <1>3, <1>4, PublishingFollows DEF IntentsInv
<1>5. CASE ~PushEvent
  <2>1. UNCHANGED <<published, events>>
    BY <1>5 DEF FeedThread, FeedStep, Begin, LoopCondition, ReceiveNothing, ReceiveMessage,
       Receive, FindQueueFull, RetryPublishing, GiveUpPublishing, FinishFeed, publishedSoFar, feedVars
  <2>2. QED
    BY <1>1, <1>2, <1>3, <2>1, QueuesUntouched DEF IntentsInv
<1>6. QED
  BY <1>4, <1>5

LEMMA OrdersAreSomething ==
  ASSUME NEW m PROVE Strategy!Buy(m) # Strategy!None
<1>1. DOMAIN Strategy!Buy(m) = {"cause", "price"} /\ DOMAIN <<>> = {}
  BY DEF Strategy!Buy
<1>2. QED
  BY <1>1 DEF Strategy!None

LEMMA StrategyStepsFollow ==
  ASSUME IntentsInv, FeedInv', StrategyThread
  PROVE  IntentsInv'
<1>1. /\ Strategy!StrategyStep
      /\ UNCHANGED <<published, main, shutdownRequested, fatalFailure, printed>>
  BY DEF StrategyThread, mainVars
<1>2. StrategyIsJoined'
  BY <1>1 DEF IntentsInv, StrategyIsJoined, Strategy!StrategyStep, Strategy!BeginStrategy,
     Strategy!StrategyLoop, Strategy!PopNoEvent, Strategy!PopEvent, Strategy!PushIntent,
     Strategy!FindIntentQueueFull, Strategy!RetryIntent, Strategy!GiveUpIntent,
     Strategy!FinishStrategy
<1>t. /\ Strategy!StrategyTypeOK /\ intents \in Seq(Orders) /\ printed \in Seq(Orders)
      /\ main \in {"check", "pop", "stopFeed", "joinFeed", "stopStrategy", "joinStrategy",
                   "drain", "done"}
      /\ shutdownRequested \in BOOLEAN /\ fatalFailure \in BOOLEAN
  BY DEF IntentsInv, EngineTypeOK
<1>3. ASSUME Strategy!StrategyTypeOK', intents' \in Seq(Orders), IntentsFollowEvents',
             FullQueueWasSeen'
      PROVE  IntentsInv'
  BY <1>1, <1>2, <1>t, <1>3 DEF IntentsInv, EngineTypeOK, FeedInv
<1>4. CASE \/ Strategy!BeginStrategy \/ Strategy!StrategyLoop \/ Strategy!PopNoEvent
           \/ Strategy!RetryIntent \/ Strategy!FinishStrategy
  <2>1. /\ UNCHANGED <<published, events, intents, printed, intent>>
        /\ strategyPc' # "full"
        /\ \/ {strategyPc, strategyPc'} \subseteq {"publish", "full"}
           \/ /\ strategyPc \notin {"publish", "full", "finish", "exited"}
              /\ strategyPc' \notin {"publish", "full"}
           \/ strategyPc = "finish" /\ strategyPc' = "exited"
    BY <1>1, <1>4 DEF Strategy!BeginStrategy, Strategy!StrategyLoop, Strategy!PopNoEvent,
       Strategy!RetryIntent, Strategy!FinishStrategy
  <2>2. Strategy!StrategyTypeOK'
    BY <1>t, <1>4 DEF Strategy!StrategyTypeOK, Strategy!BeginStrategy, Strategy!StrategyLoop,
       Strategy!PopNoEvent, Strategy!RetryIntent, Strategy!FinishStrategy, Strategy!None
  <2>3. QED
    BY <1>t, <1>3, <2>1, <2>2, QueuesUntouched, FullStaysSeen
<1>5. CASE Strategy!PopEvent
  <2>1. Strategy!StrategyTypeOK' /\ intents' \in Seq(Orders)
    BY <1>t, <1>5, OrdersAreSomething DEF Strategy!StrategyTypeOK, Strategy!PopEvent
  <2>2. QED
    <3>1. UNCHANGED <<intents, printed>> /\ strategyPc' # "full"
      BY <1>1, <1>5 DEF Strategy!PopEvent
    <3>2. QED
      BY <1>1, <1>3, <1>5, <2>1, <3>1, TakingFollows, FullStaysSeen
<1>6. CASE Strategy!PushIntent
  <2>1. intents' \in Seq(Orders) /\ IntentsFollowEvents'
    BY <1>1, <1>6, PushingFollows
  <2>2. Strategy!StrategyTypeOK'
    <3>1. intents \in Seq(Orders) /\ intents' = Append(intents, intent) /\ Len(intents) < IntentLimit
      BY <1>t, <1>6 DEF Strategy!PushIntent
    <3>2. Len(intents') = Len(intents) + 1 /\ Len(intents) \in Nat /\ IntentLimit \in Nat
      BY <3>1, StrategyAssumption
    <3>3. Len(intents') <= IntentLimit
      BY ONLY <3>1, <3>2
    <3>4. QED
      BY <1>t, <1>6, <3>3 DEF Strategy!StrategyTypeOK, Strategy!PushIntent, Strategy!None
  <2>3. FullQueueWasSeen'
    BY <1>6 DEF Strategy!PushIntent, FullQueueWasSeen
  <2>4. QED
    BY <1>3, <2>1, <2>2, <2>3
<1>7. CASE Strategy!GiveUpIntent
  <2>1. Strategy!StrategyTypeOK' /\ intents' \in Seq(Orders)
    BY <1>t, <1>7 DEF Strategy!StrategyTypeOK, Strategy!GiveUpIntent, Strategy!None
  <2>2. QED
    <3>1. UNCHANGED <<intents, printed>> /\ strategyPc' # "full"
      BY <1>1, <1>7 DEF Strategy!GiveUpIntent
    <3>2. QED
      BY <1>1, <1>3, <1>7, <2>1, <3>1, LosingFollows, FullStaysSeen
<1>8. CASE Strategy!FindIntentQueueFull
  <2>1. /\ UNCHANGED <<published, events, intents, printed, intent>>
        /\ strategyPc = "publish" /\ strategyPc' = "full" /\ Len(intents) >= IntentLimit
    BY <1>1, <1>8 DEF Strategy!FindIntentQueueFull
  <2>2. Strategy!StrategyTypeOK'
    BY <1>t, <1>8 DEF Strategy!StrategyTypeOK, Strategy!FindIntentQueueFull, Strategy!None
  <2>3. Len(printed \o intents) >= IntentLimit
    <3>1. /\ Len(printed \o intents) = Len(printed) + Len(intents)
          /\ Len(printed) \in Nat /\ Len(intents) \in Nat /\ IntentLimit \in Nat
      BY <1>t, StrategyAssumption
    <3>2. QED
      BY ONLY <2>1, <3>1
  <2>4. FullQueueWasSeen'
    BY <2>1, <2>3 DEF FullQueueWasSeen
  <2>5. IntentsFollowEvents'
    BY <2>1, QueuesUntouched
  <2>6. QED
    BY <1>t, <1>3, <2>1, <2>2, <2>4, <2>5
<1>9. QED
  BY <1>1, <1>4, <1>5, <1>6, <1>7, <1>8 DEF Strategy!StrategyStep

LEMMA MainStepsFollow ==
  ASSUME IntentsInv, FeedInv', Main
  PROVE  IntentsInv'
<1>t. /\ Strategy!StrategyTypeOK /\ intents \in Seq(Orders) /\ printed \in Seq(Orders)
      /\ shutdownRequested \in BOOLEAN /\ fatalFailure \in BOOLEAN
      /\ main \in {"check", "pop", "stopFeed", "joinFeed", "stopStrategy", "joinStrategy",
                   "drain", "done"}
  BY DEF IntentsInv, EngineTypeOK
<1> DEFINE moves == /\ main' \in {"check", "pop", "stopFeed", "joinFeed", "stopStrategy",
                                 "joinStrategy", "drain", "done"}
                    /\ shutdownRequested' \in BOOLEAN /\ fatalFailure' \in BOOLEAN
                    /\ UNCHANGED <<published, events, strategyPc, intent, strategyState>>
                    /\ strategyRunning' \in {FALSE, strategyRunning}
<1>1. CASE PrintNext \/ PrintRest
  <2>1. PrintIntent /\ moves /\ main' = (IF main = "pop" THEN "check" ELSE "drain")
        /\ main \in {"pop", "drain"}
    BY <1>t, <1>1 DEF PrintNext, PrintRest, MainStep, PrintIntent, feedVars, publishedSoFar,
       strategyLocals
  <2>2. /\ IntentsFollowEvents' /\ FullQueueWasSeen'
        /\ intents' \in Seq(Orders) /\ printed' \in Seq(Orders)
    BY <2>1, PrintingFollows
  <2>3. Len(intents') <= IntentLimit
    <3>1. intents # <<>> /\ intents' = Tail(intents) /\ Len(intents) <= IntentLimit
      BY <1>t, <2>1 DEF PrintIntent, Strategy!StrategyTypeOK
    <3>2. Len(intents') = Len(intents) - 1 /\ Len(intents) \in Nat /\ IntentLimit \in Nat
      BY <1>t, <3>1, StrategyAssumption
    <3>3. QED
      BY ONLY <3>1, <3>2
  <2>4. Strategy!StrategyTypeOK'
    BY <1>t, <2>1, <2>3 DEF Strategy!StrategyTypeOK, Strategy!None
  <2>5. StrategyIsJoined'
    BY <2>1 DEF IntentsInv, StrategyIsJoined
  <2>6. QED
    BY <2>1, <2>2, <2>4, <2>5 DEF IntentsInv, EngineTypeOK, FeedInv
<1>2. CASE Main /\ ~PrintNext /\ ~PrintRest
  <2>1. moves /\ UNCHANGED <<intents, printed>>
    BY <1>t, <1>2 DEF Main, SeeShutdown, SeeFailure, LeaveLoop, KeepSupervising, PrintNothing,
       StopTheFeed, StopFeed, JoinFeed, StopTheStrategy, Strategy!StopStrategy, JoinStrategy,
       Exit, MainStep, feedVars, publishedSoFar, strategyLocals
  <2>2. StrategyIsJoined'
    BY <1>2 DEF IntentsInv, StrategyIsJoined, Main, SeeShutdown, SeeFailure, LeaveLoop,
       KeepSupervising, PrintNothing, StopTheFeed, JoinFeed, StopTheStrategy, JoinStrategy,
       Exit, MainStep, strategyLocals
  <2>3. Strategy!StrategyTypeOK'
    BY <1>t, <2>1 DEF Strategy!StrategyTypeOK, Strategy!None
  <2>4. IntentsFollowEvents' /\ FullQueueWasSeen'
    BY <2>1, QueuesUntouched, FullStaysSeen
  <2>5. QED
    BY <1>t, <2>1, <2>2, <2>3, <2>4 DEF IntentsInv, EngineTypeOK, FeedInv
<1>3. QED
  BY <1>1, <1>2

(* From what is published to what is printed nothing is made up, doubled   *)
(* or put out of order, whatever the steps of the three threads: the       *)
(* inductive invariant of the whole engine.                                *)
THEOREM IntentsAreSound == EngineSpec => []IntentsInv
<1>1. EngineInit => IntentsInv
  <2>1. SUFFICES ASSUME EngineInit, FeedInv PROVE IntentsInv
    BY InitiallySound
  <2>2. /\ published = <<>> /\ events = <<>> /\ intents = <<>> /\ printed = <<>>
        /\ strategyState = "Stopped" /\ strategyRunning = FALSE /\ strategyPc = "created"
        /\ intent = <<>> /\ main = "check" /\ shutdownRequested = FALSE /\ fatalFailure = FALSE
    BY <2>1 DEF EngineInit, FeedInit, Strategy!StrategyInit, Strategy!None
  <2>3. EngineTypeOK
    <3>1. <<>> \in Seq(Orders) /\ Len(<<>>) = 0 /\ 0 <= IntentLimit
      BY StrategyAssumption
    <3>2. QED
      BY <2>1, <2>2, <3>1 DEF EngineTypeOK, FeedInv, Strategy!StrategyTypeOK, Strategy!None
  <2>4. Taken = <<>> /\ events = SubSeq(published, Len(Taken) + 1, Len(published))
    <3>1. <<>> \in Seq(Messages) /\ Splits(<<>>, <<>>, <<>>)
      BY DEF Splits
    <3>2. QED
      BY <2>2, <3>1, SplitsOfSubSeqs DEF Taken
  <2>5. Fulfil(<<>>, <<>>)
    <3>1. Wanted(<<>>) = {}
      BY DEF Wanted
    <3>2. QED
      BY <3>1, FS_EmptySet DEF Fulfil
  <2>6. printed \o intents = <<>>
    BY <2>2
  <2>7. IntentsFollowEvents
    BY <2>2, <2>4, <2>5, <2>6 DEF IntentsFollowEvents
  <2>8. QED
    BY <2>1, <2>2, <2>3, <2>7 DEF IntentsInv, FullQueueWasSeen, StrategyIsJoined
<1>2. ASSUME IntentsInv, [EngineNext]_engineVars PROVE IntentsInv'
  <2>1. CASE FeedThread
    BY <1>2, <2>1, FeedStepsFollow
  <2>2. CASE ~FeedThread
    <3>1. FeedInv'
      BY <1>2, <2>2, OthersLeaveTheFeed DEF IntentsInv
    <3>2. CASE Signal \/ Finished \/ UNCHANGED engineVars
      <4>1. /\ UNCHANGED <<published, events, intents, printed, intent, strategyPc,
                           strategyState, strategyRunning, main, fatalFailure>>
            /\ shutdownRequested' \in {TRUE, shutdownRequested}
        BY <3>2 DEF Signal, Finished, engineVars, feedVars, publishedSoFar, strategyLocals,
           mainVars
      <4>2. IntentsFollowEvents' /\ FullQueueWasSeen'
        BY <1>2, <4>1, QueuesUntouched, FullStaysSeen
      <4>3. StrategyIsJoined' /\ Strategy!StrategyTypeOK'
        BY <1>2, <4>1 DEF IntentsInv, StrategyIsJoined, EngineTypeOK, Strategy!StrategyTypeOK,
           Strategy!None
      <4>4. QED
        BY <1>2, <3>1, <4>1, <4>2, <4>3 DEF IntentsInv, EngineTypeOK, FeedInv
    <3>3. QED
      BY <1>2, <2>2, <3>1, <3>2, StrategyStepsFollow, MainStepsFollow DEF EngineNext
  <2>3. QED
    BY <2>1, <2>2
<1>3. QED
  BY <1>1, <1>2, PTL DEF EngineSpec

(* Threads are where their code can be, events and intents are accounted   *)
(* for, and a feed that is not being stopped has published all it accepted.*)
THEOREM EngineIsSound == EngineSpec => []EngineInv
<1>1. IntentsInv => EngineTypeOK /\ IntentsFollowEvents
  BY DEF IntentsInv
<1>2. QED
  BY <1>1, IntentsAreSound, NoEventIsSkipped, PTL DEF EngineInv

(* When main returns the queue is empty, and an intent was lost only if    *)
(* the strategy was stopped after it had found the queue full - all of     *)
(* which was printed.                                                      *)
THEOREM TheQueueIsDrained == EngineSpec => []IntentsAreDrained
<1>1. ASSUME IntentsInv, main = "done" PROVE IntentsAreDrained
  <2>1. intents = <<>> /\ strategyPc = "exited"
    BY <1>1 DEF IntentsInv, StrategyIsJoined
  <2>2. printed \o intents = printed
    <3>1. printed \in Seq(Orders)
      BY <1>1, QueueFacts
    <3>2. QED
      BY <2>1, <3>1, ConcatEmptySeq
  <2>3. QED
    BY <1>1, <2>1, <2>2 DEF IntentsInv, IntentsFollowEvents, IntentsAreDrained
<1>2. IntentsInv => IntentsAreDrained
  BY <1>1 DEF IntentsAreDrained
<1>3. QED
  BY <1>2, IntentsAreSound, PTL
=============================================================================
