------------------------- MODULE ItchMoldLiveProofs -------------------------
(* First the feed handler by itself, for every sequence width, every set   *)
(* of datagrams and every answer of the recovery source: the market state  *)
(* is fed a gap-free run, and the handler's books balance.                 *)
(*                                                                         *)
(* Then the live application around it, for every queue size and every     *)
(* order of its four threads: its diagnostics balance at every step, and   *)
(* an orderly shutdown leaves no event and at most one datagram behind.    *)
EXTENDS ItchMoldLive, SequenceTheorems, TLAPS

USE MaxSequenceAssumption, InputAssumption, QuotaAssumption

LEMMA SuccType == ASSUME NEW s \in Sequence PROVE Succ(s) \in Sequence
BY DEF Sequence, Succ

(* Appending the successor of the last message keeps the run gap-free. *)
LEMMA AppendGapFree ==
  ASSUME TypeOK, AppliedIsGapFree, NEW s \in Sequence,
         applied # <<>> => s = Succ(Last),
         applied' = Append(applied, s)
  PROVE  /\ AppliedIsGapFree'
         /\ applied' \in Seq(Sequence) /\ applied' # <<>>
         /\ Len(applied') = Len(applied) + 1
         /\ applied'[Len(applied')] = s
<1>1. /\ applied \in Seq(Sequence) /\ applied' \in Seq(Sequence)
      /\ Len(applied') = Len(applied) + 1 /\ Len(applied) \in Nat
      /\ \A k \in 1 .. Len(applied) : applied'[k] = applied[k]
      /\ applied'[Len(applied) + 1] = s
      /\ applied' # <<>>
  BY SMT DEF TypeOK
<1>2. ASSUME NEW k \in 1 .. Len(applied') - 1
      PROVE  applied'[k + 1] = Succ(applied'[k])
  <2>1. CASE k = Len(applied)
    <3>1. applied # <<>>
      BY <1>1, <2>1, SMT
    <3>2. QED
      BY <1>1, <2>1, <3>1, SMT DEF Last
  <2>2. CASE k < Len(applied)
    <3>1. k \in 1 .. Len(applied) - 1 /\ k + 1 \in 1 .. Len(applied)
      BY <1>1, <2>2, SMT
    <3>2. applied[k + 1] = Succ(applied[k])
      BY <3>1 DEF AppliedIsGapFree
    <3>3. QED
      BY <1>1, <3>1, <3>2, <2>2, SMT
  <2>3. QED
    BY <1>1, <2>1, <2>2, SMT
<1>3. QED
  BY <1>1, <1>2 DEF AppliedIsGapFree

(* One more of one counter, and no other counter changes. *)
LEMMA Bumped ==
  ASSUME stats \in [Counters -> Nat], NEW c \in Counters, Bump(c)
  PROVE  /\ stats' \in [Counters -> Nat]
         /\ stats'[c] = stats[c] + 1
         /\ \A d \in Counters : d # c => stats'[d] = stats[d]
<1>1. \A d \in Counters : stats[d] \in Nat
  OBVIOUS
<1>2. stats' = [stats EXCEPT ![c] = stats[c] + 1]
  BY DEF Bump
<1>3. stats[c] + 1 \in Nat
  BY <1>1, SMT
<1>4. QED
  BY <1>2, <1>3

(* The inductive invariant: types, books, and where the handler is between *)
(* the last message applied and the live message that showed a gap.        *)
THEOREM TypeAndFrontier == Spec => []IInv
<1>1. HandlerInit => IInv
  <2> SUFFICES ASSUME HandlerInit PROVE IInv
    OBVIOUS
  <2>1. TypeOK
    <3>1. datagram \in Datagram
      BY DEF HandlerInit, NoDatagram, Datagram, Sequence
    <3>2. stats \in [Counters -> Nat]
      BY DEF HandlerInit
    <3>3. expectedSequence \in Sequence /\ sequence \in Sequence
      BY DEF HandlerInit, Sequence
    <3>4. <<>> \in Seq(Recovered) /\ <<>> \in Seq(Sequence)
      BY EmptySeq
    <3>5. QED
      BY <3>1, <3>2, <3>3, <3>4 DEF HandlerInit, TypeOK
  <2>2. QED
    BY <2>1, SMT DEF HandlerInit, IInv, AppliedIsGapFree, ExpectedFollowsApplied,
       CountersReconcile, AcceptedAreAccounted, Frontier, Bookkeeping, Counters
<1>2. IInv /\ [Next]_handlerVars => IInv'
  <2> SUFFICES ASSUME IInv, [Next]_handlerVars PROVE IInv'
    OBVIOUS
  <2> USE DEF IInv, progress, input
  <2>t. /\ datagram.first \in 0 .. MaxSequence /\ datagram.count \in Nat
        /\ sequence \in 0 .. MaxSequence /\ expectedSequence \in 0 .. MaxSequence
        /\ index \in Nat /\ acceptedMessages \in Nat
        /\ applied \in Seq(Sequence) /\ Len(applied) \in Nat
        /\ toApply \in Seq(Recovered) /\ Len(toApply) \in Nat
        /\ stats \in [Counters -> Nat]
    BY DEF TypeOK, Datagram, Sequence
  <2>n. /\ datagram.first \in Int /\ datagram.count \in Int /\ sequence \in Int
        /\ expectedSequence \in Int /\ index \in Int /\ acceptedMessages \in Int
        /\ datagram.first \in Nat
    BY <2>t
  <2>k. /\ "datagrams" \in Counters /\ "messages" \in Counters
        /\ "recovered" \in Counters /\ "ignored" \in Counters
        /\ "gaps" \in Counters /\ "malformed" \in Counters
    BY DEF Counters
  <2>c. /\ stats["messages"] \in Nat /\ stats["recovered"] \in Nat
        /\ stats["ignored"] \in Nat
    BY <2>t, <2>k
  <2>b. /\ CountersReconcile
        /\ stats["messages"] + stats["recovered"] = Len(applied)
    BY DEF CountersReconcile
  <2>m. ASSUME Bump("malformed")
        PROVE  /\ stats' \in [Counters -> Nat]
               /\ stats'["messages"] = stats["messages"]
               /\ stats'["recovered"] = stats["recovered"]
               /\ stats'["ignored"] = stats["ignored"]
    BY <2>m, <2>t, <2>k, Bumped
  <2>1. ASSUME NEW q \in Quotas \cup {Unlimited}, StartLifecycle(q)
        PROVE  IInv'
    <3>1. TypeOK'
      <4>1. stats' \in [Counters -> Nat]
        BY <2>1 DEF StartLifecycle
      <4>2. expectedSequence' \in Sequence
        BY <2>1 DEF StartLifecycle, Sequence
      <4>3. applied' \in Seq(Sequence)
        BY <2>1, EmptySeq DEF StartLifecycle
      <4>4. QED
        BY <2>1, <4>1, <4>2, <4>3 DEF StartLifecycle, TypeOK
    <3>2. AppliedIsGapFree'
      BY <2>1 DEF StartLifecycle, AppliedIsGapFree
    <3>3. ExpectedFollowsApplied'
      BY <2>1 DEF StartLifecycle, ExpectedFollowsApplied
    <3>4. CountersReconcile'
      BY <2>1 DEF StartLifecycle, CountersReconcile, TypeOK, Counters
    <3>5. AcceptedAreAccounted'
      BY <2>1 DEF StartLifecycle, AcceptedAreAccounted, Bookkeeping, TypeOK, Counters
    <3>6. Frontier'
      BY <2>1 DEF StartLifecycle, Frontier, Last
    <3>7. Bookkeeping'
      BY <2>1 DEF StartLifecycle, Bookkeeping
    <3>8. QED
      BY <3>1, <3>2, <3>3, <3>4, <3>5, <3>6, <3>7
  <2>2. CASE FinishLifecycle
    <3>1. TypeOK'
      BY <2>2 DEF FinishLifecycle, TypeOK
    <3>2. AppliedIsGapFree'
      BY <2>2 DEF FinishLifecycle, AppliedIsGapFree
    <3>3. ExpectedFollowsApplied'
      BY <2>2 DEF FinishLifecycle, ExpectedFollowsApplied
    <3>4. CountersReconcile'
      BY <2>2 DEF FinishLifecycle, CountersReconcile, TypeOK
    <3>5. AcceptedAreAccounted'
      BY <2>2 DEF FinishLifecycle, AcceptedAreAccounted, Bookkeeping, TypeOK
    <3>6. Frontier'
      BY <2>2 DEF FinishLifecycle, Frontier, Last
    <3>7. Bookkeeping'
      BY <2>2 DEF FinishLifecycle, Bookkeeping
    <3>8. QED
      BY <3>1, <3>2, <3>3, <3>4, <3>5, <3>6, <3>7
  <2>3. CASE Stop
    <3>1. TypeOK'
      BY <2>3 DEF Stop, TypeOK
    <3>2. AppliedIsGapFree'
      BY <2>3 DEF Stop, AppliedIsGapFree
    <3>3. ExpectedFollowsApplied'
      BY <2>3 DEF Stop, ExpectedFollowsApplied
    <3>4. CountersReconcile'
      BY <2>3 DEF Stop, CountersReconcile, TypeOK
    <3>5. AcceptedAreAccounted'
      BY <2>3 DEF Stop, AcceptedAreAccounted, Bookkeeping, TypeOK
    <3>6. Frontier'
      BY <2>3 DEF Stop, Frontier, Last
    <3>7. Bookkeeping'
      BY <2>3 DEF Stop, Bookkeeping
    <3>8. QED
      BY <3>1, <3>2, <3>3, <3>4, <3>5, <3>6, <3>7
  <2>4. CASE LoopCondition \/ ReceiveNothing
    <3>1. TypeOK'
      BY <2>4 DEF LoopCondition, ReceiveNothing, TypeOK
    <3>2. AppliedIsGapFree'
      BY <2>4 DEF LoopCondition, ReceiveNothing, AppliedIsGapFree
    <3>3. ExpectedFollowsApplied'
      BY <2>4 DEF LoopCondition, ReceiveNothing, ExpectedFollowsApplied
    <3>4. CountersReconcile'
      BY <2>4 DEF LoopCondition, ReceiveNothing, CountersReconcile, TypeOK
    <3>5. AcceptedAreAccounted'
      BY <2>4 DEF LoopCondition, ReceiveNothing, AcceptedAreAccounted, Bookkeeping, TypeOK
    <3>6. Frontier'
      BY <2>4 DEF LoopCondition, ReceiveNothing, Frontier, Last
    <3>7. Bookkeeping'
      BY <2>4 DEF LoopCondition, ReceiveNothing, Bookkeeping
    <3>8. QED
      BY <3>1, <3>2, <3>3, <3>4, <3>5, <3>6, <3>7
  <2>5. ASSUME NEW d \in Datagrams, ReceiveDatagram(d)
        PROVE  IInv'
    <3>0. d \in Datagram /\ d.first \in Sequence
      BY DEF Datagram
    <3>1. TypeOK'
      BY <2>5, <3>0 DEF ReceiveDatagram, BeginDatagram, TypeOK
    <3>2. AppliedIsGapFree'
      BY <2>5 DEF ReceiveDatagram, BeginDatagram, AppliedIsGapFree
    <3>3. ExpectedFollowsApplied'
      BY <2>5 DEF ReceiveDatagram, BeginDatagram, ExpectedFollowsApplied
    <3>4. CountersReconcile'
      BY <2>5 DEF ReceiveDatagram, BeginDatagram, CountersReconcile, TypeOK
    <3>5. AcceptedAreAccounted'
      BY <2>5 DEF ReceiveDatagram, BeginDatagram, AcceptedAreAccounted, Bookkeeping, TypeOK
    <3>6. Frontier'
      BY <2>5 DEF ReceiveDatagram, BeginDatagram, Frontier, Last
    <3>7. Bookkeeping'
      BY <2>5, <3>0 DEF ReceiveDatagram, BeginDatagram, Bookkeeping
    <3>8. QED
      BY <3>1, <3>2, <3>3, <3>4, <3>5, <3>6, <3>7
  <2>6. CASE CheckFraming
    <3>0. /\ stats' \in [Counters -> Nat]
          /\ stats'["messages"] = stats["messages"]
          /\ stats'["recovered"] = stats["recovered"]
          /\ stats'["ignored"] = stats["ignored"]
      <4>1. stats' = stats \/ Bump("malformed")
        BY <2>6 DEF CheckFraming, Fail
      <4>2. QED
        BY <4>1, <2>t, <2>m
    <3>1. TypeOK'
      BY <2>6, <3>0 DEF CheckFraming, Fail, TypeOK
    <3>2. AppliedIsGapFree'
      BY <2>6 DEF CheckFraming, Fail, Bump, AppliedIsGapFree
    <3>3. ExpectedFollowsApplied'
      BY <2>6 DEF CheckFraming, Fail, Bump, ExpectedFollowsApplied
    <3>4. CountersReconcile'
      BY <2>6, <2>b, <3>0 DEF CheckFraming, CountersReconcile
    <3>5. AcceptedAreAccounted'
      BY <2>6 DEF CheckFraming, Fail, AcceptedAreAccounted
    <3>6. Frontier'
      BY <2>6 DEF CheckFraming, Fail, Bump, Frontier, Last
    <3>7. Bookkeeping'
      <4>1. CASE WellFramed(datagram)
        <5>1. /\ pc = "framing" /\ pc' = "message" /\ stats' = stats
              /\ UNCHANGED <<state, acceptedMessages, datagram, index, sequence>>
          BY <2>6, <4>1 DEF CheckFraming
        <5>2. /\ index = 0 /\ sequence = datagram.first /\ state = "Running"
          BY <5>1 DEF Bookkeeping
        <5>3. stats["messages"] + stats["ignored"] = acceptedMessages + index
          BY <5>1, <5>2, <2>n DEF AcceptedAreAccounted
        <5>4. QED
          BY <5>1, <5>2, <5>3, <2>t, <2>n, <4>1 DEF Bookkeeping
      <4>2. CASE ~WellFramed(datagram)
        BY <2>6, <4>2 DEF CheckFraming, Fail, Bookkeeping
      <4>3. QED
        BY <4>1, <4>2
    <3>8. QED
      BY <3>1, <3>2, <3>3, <3>4, <3>5, <3>6, <3>7
  <2>7. CASE InSequence
    <3>1. TypeOK'
      BY <2>7, SuccType DEF InSequence, TypeOK
    <3>2. AppliedIsGapFree'
      BY <2>7 DEF InSequence, AppliedIsGapFree
    <3>3. ExpectedFollowsApplied'
      BY <2>7 DEF InSequence, ExpectedFollowsApplied
    <3>4. CountersReconcile'
      BY <2>7 DEF InSequence, CountersReconcile, TypeOK
    <3>5. AcceptedAreAccounted'
      BY <2>7 DEF InSequence, AcceptedAreAccounted, Bookkeeping, TypeOK
    <3>6. Frontier'
      BY <2>7, <2>t DEF InSequence, Frontier, Last, ExpectedFollowsApplied
    <3>7. Bookkeeping'
      BY <2>7, <2>t DEF InSequence, Bookkeeping
    <3>8. QED
      BY <3>1, <3>2, <3>3, <3>4, <3>5, <3>6, <3>7
  <2>8. CASE OldMessage
    <3>0. /\ stats' \in [Counters -> Nat]
          /\ stats'["messages"] = stats["messages"]
          /\ stats'["recovered"] = stats["recovered"]
          /\ stats'["ignored"] = stats["ignored"] + 1
      <4>1. Bump("ignored")
        BY <2>8 DEF OldMessage
      <4>2. QED
        BY <4>1, <2>t, <2>k, Bumped
    <3>1. TypeOK'
      <4>1. index' \in Nat /\ sequence' \in Sequence
        BY <2>8, <2>t, SuccType DEF OldMessage, NextFrame, TypeOK
      <4>2. QED
        BY <2>8, <3>0, <4>1 DEF OldMessage, TypeOK
    <3>2. AppliedIsGapFree'
      BY <2>8 DEF OldMessage, NextFrame, Bump, AppliedIsGapFree
    <3>3. ExpectedFollowsApplied'
      BY <2>8 DEF OldMessage, NextFrame, Bump, ExpectedFollowsApplied
    <3>4. CountersReconcile'
      BY <2>8, <2>b, <3>0 DEF OldMessage, CountersReconcile
    <3>5. AcceptedAreAccounted'
      BY <2>8 DEF OldMessage, AcceptedAreAccounted
    <3>6. Frontier'
      BY <2>8 DEF OldMessage, NextFrame, Bump, Frontier, Last
    <3>7. Bookkeeping'
      <4>1. /\ WellFramed(datagram) /\ index < datagram.count
            /\ stats["messages"] + stats["ignored"] = acceptedMessages + index
            /\ datagram.first + index <= MaxSequence
                 => sequence = datagram.first + index
            /\ index' = index + 1 /\ sequence' = Succ(sequence)
            /\ sequence < expectedSequence
            /\ UNCHANGED <<datagram, expectedSequence, acceptedMessages, pc, state>>
            /\ pc = "message"
        BY <2>8 DEF OldMessage, NextFrame, Bookkeeping
      <4>2. stats'["messages"] + stats'["ignored"] = acceptedMessages + index'
        <5>1. /\ stats'["messages"] = stats["messages"]
              /\ stats'["ignored"] = stats["ignored"] + 1
              /\ stats["messages"] \in Nat /\ stats["ignored"] \in Nat
          BY <2>c, <3>0
        <5>2. /\ stats["messages"] + stats["ignored"] = acceptedMessages + index
              /\ index' = index + 1
          BY <4>1
        <5>3. QED
          BY <2>n, <5>1, <5>2, SMT
      <4>a. /\ index + 1 <= datagram.count
            /\ datagram.first + (index + 1) <= MaxSequence
                 => Succ(sequence) = datagram.first + (index + 1)
            /\ Succ(sequence) <= expectedSequence
        <5>1. sequence < MaxSequence
          BY <2>t, <4>1
        <5>2. Succ(sequence) = sequence + 1
          BY <2>t, <5>1 DEF Succ
        <5>3. /\ index < datagram.count /\ sequence < expectedSequence
              /\ datagram.first + index <= MaxSequence
                   => sequence = datagram.first + index
          BY <4>1
        <5>4. QED
          BY <2>n, <5>2, <5>3, SMT
      <4>3. /\ index' <= datagram.count
            /\ datagram.first + index' <= MaxSequence
                 => sequence' = datagram.first + index'
            /\ sequence' <= expectedSequence
        BY <4>1, <4>a
      <4>4. QED
        BY <4>1, <4>2, <4>3 DEF Bookkeeping
    <3>8. QED
      BY <3>1, <3>2, <3>3, <3>4, <3>5, <3>6, <3>7
  <2>9. ASSUME NEW found \in Answers, GapRecovered(found)
        PROVE  IInv'
    <3>0. found \in Seq(Recovered) /\ Len(found) \in Nat
      OBVIOUS
    <3>s. /\ stats' \in [Counters -> Nat]
          /\ stats'["messages"] = stats["messages"]
          /\ stats'["recovered"] = stats["recovered"]
          /\ stats'["ignored"] = stats["ignored"]
      <4>1. Bump("gaps")
        BY <2>9 DEF GapRecovered
      <4>2. QED
        BY <4>1, <2>t, <2>k, Bumped
    <3>1. TypeOK'
      BY <2>9, <3>0, <3>s DEF GapRecovered, TypeOK
    <3>2. AppliedIsGapFree'
      BY <2>9 DEF GapRecovered, Gap, Bump, AppliedIsGapFree
    <3>3. ExpectedFollowsApplied'
      BY <2>9 DEF GapRecovered, Gap, Bump, ExpectedFollowsApplied
    <3>4. CountersReconcile'
      BY <2>9, <2>b, <3>s DEF GapRecovered, CountersReconcile
    <3>5. AcceptedAreAccounted'
      BY <2>9 DEF GapRecovered, AcceptedAreAccounted
    <3>6. Frontier'
      <4>1. /\ hasSequence /\ applied # <<>> /\ expectedSequence = Succ(Last)
            /\ expectedSequence < sequence
            /\ toApply' = found /\ pc' = "recovered"
            /\ UNCHANGED <<sequence, applied, hasSequence>>
        BY <2>9 DEF GapRecovered, Gap, ExpectedFollowsApplied, Last
      <4>2. /\ Len(found) = sequence - expectedSequence
            /\ \A i \in 1 .. Len(found) : found[i].seq = expectedSequence + i - 1
        BY <2>9 DEF GapRecovered, RecoveryIsExact
      <4>3. sequence - Len(found) = expectedSequence
        BY <2>t, <4>2, SMT
      <4>4. QED
        BY <4>1, <4>2, <4>3 DEF Frontier, Last
    <3>7. Bookkeeping'
      BY <2>9, <3>s DEF GapRecovered, Gap, Bookkeeping
    <3>8. QED
      BY <3>1, <3>2, <3>3, <3>4, <3>5, <3>6, <3>7
  <2>10. CASE GapNotRecovered
    <3>0. /\ stats' \in [Counters -> Nat]
          /\ stats'["messages"] = stats["messages"]
          /\ stats'["recovered"] = stats["recovered"]
      <4>1. stats' = [stats EXCEPT !["gaps"] = @ + 1, !["malformed"] = @ + 1]
        BY <2>10 DEF GapNotRecovered
      <4>2. stats["gaps"] + 1 \in Nat /\ stats["malformed"] + 1 \in Nat
        BY <2>t, <2>k
      <4>3. QED
        BY <4>1, <4>2, <2>t, <2>k
    <3>1. TypeOK'
      BY <2>10, <3>0 DEF GapNotRecovered, TypeOK
    <3>2. AppliedIsGapFree'
      BY <2>10 DEF GapNotRecovered, Gap, AppliedIsGapFree
    <3>3. ExpectedFollowsApplied'
      BY <2>10 DEF GapNotRecovered, Gap, ExpectedFollowsApplied
    <3>4. CountersReconcile'
      BY <2>10, <2>b, <3>0 DEF GapNotRecovered, CountersReconcile
    <3>5. AcceptedAreAccounted'
      BY <2>10 DEF GapNotRecovered, AcceptedAreAccounted
    <3>6. Frontier'
      BY <2>10 DEF GapNotRecovered, Gap, Frontier, Last
    <3>7. Bookkeeping'
      BY <2>10 DEF GapNotRecovered, Gap, Bookkeeping
    <3>8. QED
      BY <3>1, <3>2, <3>3, <3>4, <3>5, <3>6, <3>7
  <2>11. CASE ProcessRecoveredMessage
    <3>0. /\ pc = "recovered" /\ Len(toApply) > 0 /\ Head(toApply) = toApply[1]
          /\ toApply[1] \in Recovered /\ toApply[1].seq \in Sequence
          /\ Tail(toApply) \in Seq(Recovered)
          /\ Len(Tail(toApply)) = Len(toApply) - 1
          /\ \A i \in 1 .. Len(toApply) - 1 : Tail(toApply)[i] = toApply[i + 1]
      <4>1. toApply \in Seq(Recovered) /\ toApply # <<>>
        BY <2>11, <2>t DEF ProcessRecoveredMessage
      <4>2. toApply[1] \in Recovered /\ Len(toApply) > 0 /\ Head(toApply) = toApply[1]
        BY <4>1, SMT
      <4>3. QED
        BY <2>11, <4>1, <4>2, HeadTailProperties DEF ProcessRecoveredMessage, Recovered
    <3>1. CASE Head(toApply).body = "good"
      <4>0. /\ applied' = Append(applied, toApply[1].seq) /\ toApply' = Tail(toApply)
            /\ Bump("recovered")
            /\ UNCHANGED <<expectedSequence, hasSequence, state, running, pc, quota,
                           datagram, index, sequence, acceptedMessages>>
        BY <2>11, <3>0, <3>1 DEF ProcessRecoveredMessage
      <4>s. /\ stats' \in [Counters -> Nat]
            /\ stats'["messages"] = stats["messages"]
            /\ stats'["recovered"] = stats["recovered"] + 1
            /\ stats'["ignored"] = stats["ignored"]
        BY <4>0, <2>t, <2>k, Bumped
      <4>a. toApply[1].seq = sequence - Len(toApply) /\ Succ(Last) = toApply[1].seq
        BY <2>t, <3>0, SMT DEF Frontier
      <4>b. /\ AppliedIsGapFree'
            /\ applied' \in Seq(Sequence) /\ applied' # <<>>
            /\ Len(applied') = Len(applied) + 1
            /\ applied'[Len(applied')] = toApply[1].seq
        BY <3>0, <4>0, <4>a, AppendGapFree
      <4>1. TypeOK'
        BY <3>0, <4>0, <4>b, <4>s DEF TypeOK
      <4>3. ExpectedFollowsApplied'
        BY <3>0, <4>0 DEF ExpectedFollowsApplied
      <4>4. CountersReconcile'
        BY <2>t, <2>c, <2>b, <4>b, <4>s, SMT DEF CountersReconcile
      <4>5. AcceptedAreAccounted'
        BY <3>0, <4>0 DEF AcceptedAreAccounted
      <4>6. Frontier'
        <5>1. Succ(toApply[1].seq) = sequence - Len(toApply')
          BY <2>t, <3>0, <4>0, <4>a, SMT DEF Succ
        <5>2. ASSUME NEW i \in 1 .. Len(toApply')
              PROVE  toApply'[i].seq = sequence - Len(toApply') + i - 1
          <6>1. /\ i \in 1 .. Len(toApply) - 1 /\ i + 1 \in 1 .. Len(toApply)
                /\ Len(toApply') = Len(toApply) - 1
            BY <2>t, <3>0, <4>0, SMT
          <6>2. toApply'[i] = toApply[i + 1]
            BY <3>0, <4>0, <6>1
          <6>3. toApply[i + 1].seq = sequence - Len(toApply) + (i + 1) - 1
            BY <3>0, <6>1 DEF Frontier
          <6>4. QED
            BY <2>t, <6>1, <6>2, <6>3, SMT
        <5>3. hasSequence
          BY <3>0 DEF Frontier
        <5>4. QED
          BY <3>0, <4>0, <4>b, <5>1, <5>2, <5>3 DEF Frontier, Last
      <4>7. Bookkeeping'
        BY <3>0, <4>0, <4>s DEF Bookkeeping
      <4>8. QED
        BY <4>b, <4>1, <4>3, <4>4, <4>5, <4>6, <4>7
    <3>2. CASE Head(toApply).body # "good"
      <4>0. /\ Bump("malformed")
            /\ state' = "Failed" /\ pc' = "finish"
            /\ UNCHANGED <<expectedSequence, hasSequence, running, quota, datagram, index,
                           sequence, toApply, applied, acceptedMessages>>
        BY <2>11, <3>2 DEF ProcessRecoveredMessage, Fail
      <4>1. TypeOK'
        BY <4>0, <2>m DEF TypeOK
      <4>4. CountersReconcile'
        BY <4>0, <2>b, <2>m DEF CountersReconcile
      <4>5. QED
        BY <4>0, <4>1, <4>4 DEF ExpectedFollowsApplied, AcceptedAreAccounted,
           Frontier, Bookkeeping, AppliedIsGapFree
    <3>3. QED
      BY <3>1, <3>2
  <2>12. CASE GapClosed
    <3>0. /\ pc = "recovered" /\ Len(toApply) = 0 /\ pc' = "live"
          /\ expectedSequence' = Succ(sequence) /\ Succ(sequence) \in Sequence
      BY <2>12, SuccType DEF GapClosed, TypeOK
    <3>1. TypeOK'
      BY <2>12, <3>0 DEF GapClosed, TypeOK
    <3>2. Frontier'
      BY <2>12, <2>t, <3>0, SMT DEF GapClosed, Frontier, Last
    <3>3. Bookkeeping'
      BY <2>12, <2>t, <3>0 DEF GapClosed, Bookkeeping
    <3>4. QED
      BY <2>12, <3>0, <3>1, <3>2, <3>3 DEF GapClosed, ExpectedFollowsApplied,
         AcceptedAreAccounted, AppliedIsGapFree, CountersReconcile
  <2>13. CASE ProcessMessage
    <3>1. CASE datagram.frames[index + 1] = "good"
      <4>0. /\ pc = "live" /\ pc' = "message"
            /\ applied' = Append(applied, sequence)
            /\ Bump("messages")
            /\ index' = index + 1 /\ sequence' = Succ(sequence)
            /\ UNCHANGED <<expectedSequence, hasSequence, state, running, quota,
                           datagram, toApply, acceptedMessages>>
        BY <2>13, <3>1 DEF ProcessMessage, NextFrame
      <4>s. /\ stats' \in [Counters -> Nat]
            /\ stats'["messages"] = stats["messages"] + 1
            /\ stats'["recovered"] = stats["recovered"]
            /\ stats'["ignored"] = stats["ignored"]
        BY <4>0, <2>t, <2>k, Bumped
      <4>a. /\ sequence \in Sequence /\ Succ(sequence) \in Sequence
            /\ hasSequence /\ expectedSequence = Succ(sequence)
            /\ applied # <<>> => sequence = Succ(Last)
        BY <4>0, SuccType DEF Frontier, TypeOK
      <4>b. /\ AppliedIsGapFree'
            /\ applied' \in Seq(Sequence) /\ applied' # <<>>
            /\ Len(applied') = Len(applied) + 1
            /\ applied'[Len(applied')] = sequence
        BY <4>0, <4>a, AppendGapFree
      <4>1. TypeOK'
        <5>1. index' \in Nat
          BY <2>t, <4>0, SMT
        <5>2. QED
          BY <4>0, <4>a, <4>b, <4>s, <5>1 DEF TypeOK
      <4>3. ExpectedFollowsApplied'
        BY <4>0, <4>a, <4>b DEF ExpectedFollowsApplied
      <4>4. CountersReconcile'
        BY <2>t, <2>c, <2>b, <4>b, <4>s, SMT DEF CountersReconcile
      <4>5. AcceptedAreAccounted' /\ Frontier'
        BY <4>0 DEF AcceptedAreAccounted, Frontier
      <4>6. Bookkeeping'
        <5>1. WellFramed(datagram) /\ index < datagram.count
              /\ stats["messages"] + stats["ignored"] = acceptedMessages + index
              /\ (datagram.first + index <= MaxSequence
                    => sequence = datagram.first + index)
          BY <4>0 DEF Bookkeeping
        <5>2. stats'["messages"] + stats'["ignored"] = acceptedMessages + index'
          <6>1. index' = index + 1
            BY <4>0
          <6>2. QED
            BY <2>c, <2>n, <4>s, <5>1, <6>1, SMTT(30)
        <5>3. datagram.first + index' <= MaxSequence
                => sequence' = datagram.first + index'
          <6>1. /\ sequence < MaxSequence => Succ(sequence) = sequence + 1
                /\ index' = index + 1 /\ sequence' = Succ(sequence)
            BY <2>t, <4>0 DEF Succ
          <6>2. QED
            BY <2>n, <5>1, <6>1, SMT
        <5>4. index' <= datagram.count
          BY <2>t, <4>0, <5>1, SMT
        <5>5. sequence' <= expectedSequence
          BY <4>0, <4>a, SMT DEF Sequence
        <5>6. QED
          BY <4>0, <5>1, <5>2, <5>3, <5>4, <5>5 DEF Bookkeeping
      <4>7. QED
        BY <4>b, <4>1, <4>3, <4>4, <4>5, <4>6
    <3>2. CASE datagram.frames[index + 1] # "good"
      <4>0. /\ Bump("malformed")
            /\ state' = "Failed" /\ pc' = "finish"
            /\ UNCHANGED <<expectedSequence, hasSequence, running, quota, datagram, index,
                           sequence, toApply, applied, acceptedMessages>>
        BY <2>13, <3>2 DEF ProcessMessage, Fail
      <4>1. TypeOK'
        BY <4>0, <2>m DEF TypeOK
      <4>4. CountersReconcile'
        BY <4>0, <2>b, <2>m DEF CountersReconcile
      <4>5. QED
        BY <4>0, <4>1, <4>4 DEF ExpectedFollowsApplied, AcceptedAreAccounted,
           Frontier, Bookkeeping, AppliedIsGapFree
    <3>3. QED
      BY <3>1, <3>2
  <2>14. CASE DatagramAccepted
    <3>0. /\ pc = "message" /\ pc' = "loop" /\ index = datagram.count
          /\ Bump("datagrams")
          /\ acceptedMessages' = acceptedMessages + datagram.count
          /\ UNCHANGED <<expectedSequence, hasSequence, state, running, quota, applied,
                         datagram, index, sequence, toApply>>
      BY <2>14 DEF DatagramAccepted
    <3>s. /\ stats' \in [Counters -> Nat]
          /\ stats'["messages"] = stats["messages"]
          /\ stats'["recovered"] = stats["recovered"]
          /\ stats'["ignored"] = stats["ignored"]
      BY <3>0, <2>t, <2>k, Bumped
    <3>1. TypeOK'
      <4>1. acceptedMessages' \in Nat
        BY <2>t, <3>0
      <4>2. QED
        BY <3>0, <3>s, <4>1 DEF TypeOK
    <3>2. ExpectedFollowsApplied' /\ AppliedIsGapFree' /\ Frontier' /\ Bookkeeping'
      BY <3>0 DEF ExpectedFollowsApplied, AppliedIsGapFree, Frontier, Bookkeeping
    <3>3. CountersReconcile'
      BY <3>0, <2>b, <3>s DEF CountersReconcile
    <3>4. AcceptedAreAccounted'
      <4>1. stats["messages"] + stats["ignored"] = acceptedMessages + index
        BY <3>0 DEF Bookkeeping
      <4>2. QED
        BY <3>0, <3>s, <4>1 DEF AcceptedAreAccounted
    <3>5. QED
      BY <3>1, <3>2, <3>3, <3>4
  <2>15. CASE UNCHANGED handlerVars
    BY <2>15 DEF handlerVars, TypeOK, AppliedIsGapFree, ExpectedFollowsApplied,
       CountersReconcile, AcceptedAreAccounted, Frontier, Bookkeeping, Last
  <2>16. QED
    BY <2>1, <2>2, <2>3, <2>4, <2>5, <2>6, <2>7, <2>8, <2>9, <2>10, <2>11, <2>12,
       <2>13, <2>14, <2>15
    DEF Next, Handler, ProcessDatagram, Start, Run
<1>3. QED
  BY <1>1, <1>2, PTL DEF Spec
-----------------------------------------------------------------------------
(* The market state sees consecutive messages, whatever the network does. *)
THEOREM GapFree == Spec => []AppliedIsGapFree
<1>1. IInv => AppliedIsGapFree
  BY DEF IInv
<1>2. QED
  BY <1>1, TypeAndFrontier, PTL

(* The handler knows at all times where it is. *)
THEOREM ExpectedIsRight == Spec => []ExpectedFollowsApplied
<1>1. IInv => ExpectedFollowsApplied
  BY DEF IInv
<1>2. QED
  BY <1>1, TypeAndFrontier, PTL

(* What was accepted is never expected, hence never recovered, again. *)
THEOREM AcceptedStaysCovered == Spec => AcceptedIsCovered
<1>1. ASSUME IInv, [Next]_handlerVars, stats'["datagrams"] > stats["datagrams"],
             datagram.first + datagram.count <= MaxSequence
      PROVE  datagram.first + datagram.count <= expectedSequence
  <2>1. stats["datagrams"] \in Nat
    BY <1>1 DEF IInv, TypeOK, Counters
  <2>2. DatagramAccepted
    <3>1. ASSUME stats' = [stats EXCEPT !["malformed"] = @ + 1] \/ stats' = stats
                 \/ stats' = [stats EXCEPT !["gaps"] = @ + 1]
                 \/ stats' = [stats EXCEPT !["ignored"] = @ + 1]
                 \/ stats' = [stats EXCEPT !["recovered"] = @ + 1]
                 \/ stats' = [stats EXCEPT !["messages"] = @ + 1]
                 \/ stats' = [stats EXCEPT !["gaps"] = @ + 1, !["malformed"] = @ + 1]
                 \/ stats' = [c \in Counters |-> 0]
          PROVE  FALSE
      BY <1>1, <2>1, <3>1 DEF IInv, TypeOK, Counters
    <3>2. QED
      BY <1>1, <3>1 DEF Next, Start, Run, StartLifecycle, Stop, Handler, LoopCondition,
         ReceiveNothing, ReceiveDatagram, BeginDatagram, FinishLifecycle,
         ProcessDatagram, CheckFraming, InSequence, OldMessage, GapNotRecovered,
         GapRecovered, ProcessRecoveredMessage, GapClosed, ProcessMessage, Fail, Bump,
         handlerVars
  <2>3. /\ pc = "message" /\ index = datagram.count /\ WellFramed(datagram)
        /\ index = 0 \/ datagram.first + index > MaxSequence
           \/ sequence <= expectedSequence
        /\ datagram.first + index <= MaxSequence => sequence = datagram.first + index
    BY <1>1, <2>2 DEF DatagramAccepted, IInv, Bookkeeping
  <2>4. /\ index # 0 /\ sequence = datagram.first + datagram.count
        /\ ~(datagram.first + index > MaxSequence)
    <3>1. datagram.first \in Nat /\ datagram.count \in Nat
      BY <1>1 DEF IInv, TypeOK, Datagram, Sequence
    <3>2. QED
      BY <1>1, <2>3, <3>1 DEF WellFramed
  <2>5. QED
    BY <2>3, <2>4
<1>2. QED
  BY <1>1, TypeAndFrontier, PTL DEF Spec, AcceptedIsCovered

(* A datagram with broken framing leaves the market state as it was. *)
THEOREM FramingFirst == Spec => BrokenFramingChangesNothing
<1>1. ASSUME IInv, [Next]_handlerVars, applied' # applied, applied' # <<>>
      PROVE  WellFramed(datagram)
  <2>1. ProcessRecoveredMessage \/ ProcessMessage
    BY <1>1 DEF Next, Start, Run, StartLifecycle, Stop, Handler, LoopCondition,
       ReceiveNothing, ReceiveDatagram, BeginDatagram, FinishLifecycle,
       ProcessDatagram, CheckFraming, InSequence, OldMessage, GapNotRecovered,
       GapRecovered, GapClosed, DatagramAccepted, progress, handlerVars
  <2>2. QED
    BY <1>1, <2>1 DEF ProcessRecoveredMessage, ProcessMessage, IInv, Bookkeeping
<1>2. QED
  BY <1>1, TypeAndFrontier, PTL DEF Spec, BrokenFramingChangesNothing

(* The handler keeps the promise of SequencedFeed: every step of it is one  *)
(* of the feed's, or none.                                                 *)
THEOREM RefinesFeed == Spec => ImplementsFeed
<1>1. HandlerInit => Feed!FeedInit
  BY DEF HandlerInit, Feed!FeedInit
<1>2. ASSUME IInv, [Next]_handlerVars
      PROVE  [Feed!FeedNext]_<<state, applied>>
  <2>1. ASSUME NEW q \in Quotas \cup {Unlimited}, StartLifecycle(q)
        PROVE  Feed!Open
    BY <1>2, <2>1 DEF StartLifecycle, Feed!Open, IInv, Bookkeeping
  <2>2. CASE FinishLifecycle
    BY <1>2, <2>2 DEF FinishLifecycle, Feed!FeedNext, Feed!Close, IInv, TypeOK,
       Bookkeeping, progress
  <2>3. CASE CheckFraming \/ GapNotRecovered
    BY <1>2, <2>3 DEF CheckFraming, GapNotRecovered, Gap, Fail, Feed!FeedNext,
       Feed!Break, IInv, Bookkeeping, progress
  <2>4. CASE ProcessRecoveredMessage
    <3>1. CASE Head(toApply).body = "good"
      <4>1. /\ Len(toApply) > 0 /\ Head(toApply) = toApply[1]
            /\ toApply[1] \in Recovered
        BY <1>2, <2>4, SMT DEF ProcessRecoveredMessage, IInv, TypeOK
      <4>2. toApply[1].seq \in 0 .. MaxSequence
        BY <4>1 DEF Recovered, Sequence
      <4>3. /\ state = "Running" /\ state' = state
            /\ applied' = Append(applied, toApply[1].seq)
        BY <1>2, <2>4, <3>1, <4>1 DEF ProcessRecoveredMessage, IInv, Bookkeeping
      <4>4. toApply[1].seq = Feed!Successor(applied[Len(applied)])
        <5>1. /\ Succ(Last) = sequence - Len(toApply)
              /\ toApply[1].seq = sequence - Len(toApply) + 1 - 1
          BY <1>2, <2>4, <4>1, SMT DEF ProcessRecoveredMessage, IInv, TypeOK, Frontier
        <5>2. sequence \in Int /\ Len(toApply) \in Int
          BY <1>2, <4>1 DEF IInv, TypeOK, Sequence
        <5>3. QED
          BY <5>1, <5>2 DEF Succ, Feed!Successor, Last
      <4>5. Feed!Apply(toApply[1].seq)
        BY <4>3, <4>4 DEF Feed!Apply
      <4>6. QED
        BY <4>2, <4>5 DEF Feed!FeedNext
    <3>2. CASE Head(toApply).body # "good"
      BY <1>2, <2>4, <3>2 DEF ProcessRecoveredMessage, Fail, Feed!FeedNext, Feed!Break,
         IInv, Bookkeeping
    <3>3. QED
      BY <3>1, <3>2
  <2>5. CASE ProcessMessage
    <3>1. CASE datagram.frames[index + 1] = "good"
      <4>1. /\ state = "Running" /\ state' = state
            /\ applied' = Append(applied, sequence) /\ sequence \in 0 .. MaxSequence
            /\ applied # <<>> => sequence = Succ(Last)
        BY <1>2, <2>5, <3>1 DEF ProcessMessage, IInv, Bookkeeping, Frontier, TypeOK,
           Sequence
      <4>2. Feed!Apply(sequence)
        BY <4>1 DEF Feed!Apply, Feed!Successor, Succ, Last
      <4>3. QED
        BY <4>1, <4>2 DEF Feed!FeedNext
    <3>2. CASE datagram.frames[index + 1] # "good"
      BY <1>2, <2>5, <3>2 DEF ProcessMessage, Fail, Feed!FeedNext, Feed!Break,
         IInv, Bookkeeping
    <3>3. QED
      BY <3>1, <3>2
  <2>6. CASE \/ Stop \/ LoopCondition \/ ReceiveNothing \/ InSequence \/ OldMessage
             \/ GapClosed \/ DatagramAccepted \/ UNCHANGED handlerVars
             \/ \E d \in Datagrams : ReceiveDatagram(d)
             \/ \E found \in Answers : GapRecovered(found)
    BY <2>6 DEF Stop, LoopCondition, ReceiveNothing, InSequence, OldMessage, GapClosed,
       DatagramAccepted, ReceiveDatagram, BeginDatagram, GapRecovered, handlerVars,
       progress
  <2>7. QED
    BY <1>2, <2>1, <2>2, <2>3, <2>4, <2>5, <2>6
    DEF Next, Start, Run, Handler, ProcessDatagram, Feed!FeedNext
<1>3. QED
  BY <1>1, <1>2, TypeAndFrontier, PTL DEF Spec, ImplementsFeed, Feed!FeedSpec

(* A failed lifecycle applies nothing more, and says so until a new one.   *)
THEOREM FailStop == Spec => FailureIsSticky
<1>1. ASSUME IInv, [Next]_handlerVars, state = "Failed"
      PROVE  \/ state' = "Failed" /\ UNCHANGED <<applied, stats>>
             \/ state' = "Running" /\ applied' = <<>>
  <2>1. pc \in {"finish", "off"}
    BY <1>1 DEF IInv, Bookkeeping
  <2>2. Start \/ Run \/ FinishLifecycle \/ Stop \/ UNCHANGED handlerVars
    BY <1>1, <2>1 DEF Next, Handler, LoopCondition, ReceiveNothing, ReceiveDatagram,
       ProcessDatagram, CheckFraming, InSequence, OldMessage, GapNotRecovered,
       GapRecovered, Gap, ProcessRecoveredMessage, GapClosed, ProcessMessage,
       DatagramAccepted
  <2>3. QED
    BY <1>1, <2>2 DEF Start, Run, StartLifecycle, FinishLifecycle, Stop, progress,
       handlerVars
<1>2. QED
  BY <1>1, TypeAndFrontier, PTL DEF Spec, FailureIsSticky
-----------------------------------------------------------------------------
(* The live application. *)

HIDE QuotaAssumption
USE LiveAssumption

(* Datagrams the handler is done with, and one each for the datagram that  *)
(* is queued but not counted yet and for that the handler is working on.   *)
Settled == stats["datagrams"] + stats["malformed"]
Uncounted(w) == IF w = "count" THEN 1 ELSE 0
InHand == IF InDatagram THEN 1 ELSE 0

(* Datagrams that left the queue. *)
Taken == stats["datagrams"] + stats["malformed"] + (IF InDatagram THEN 1 ELSE 0)

(* What of the application depends on the handler's fields. *)
HandlerTypeOK ==
  /\ state \in {"Stopped", "Running", "Failed"} /\ running \in BOOLEAN
  /\ stats \in [Counters -> Nat]
  /\ datagram \in Datagram /\ sequence \in Sequence
  /\ toApply \in Seq(Recovered) /\ applied \in Seq(Sequence)

LEMMA FailTakes ==
  ASSUME stats \in [Counters -> Nat], InDatagram, Fail
  PROVE  /\ stats' \in [Counters -> Nat] /\ Taken' = Taken
         /\ pc' = "finish" /\ state' = "Failed" /\ running' = running
<1>1. /\ stats' \in [Counters -> Nat] /\ stats'["malformed"] = stats["malformed"] + 1
      /\ stats'["datagrams"] = stats["datagrams"]
  BY Bumped DEF Fail, Counters
<1>2. stats["malformed"] \in Nat /\ stats["datagrams"] \in Nat
  BY DEF Counters
<1>3. pc' = "finish" /\ state' = "Failed" /\ running' = running
  BY DEF Fail
<1>4. QED
  BY <1>1, <1>2, <1>3 DEF Taken, InDatagram

LEMMA MovesOn ==
  ASSUME stats \in [Counters -> Nat], InDatagram, stats' \in [Counters -> Nat],
         stats'["malformed"] = stats["malformed"],
         stats'["datagrams"] = stats["datagrams"],
         pc' \in {"framing", "message", "recovered", "live"}
  PROVE  Taken' = Taken
BY DEF Taken, InDatagram
-----------------------------------------------------------------------------
(* A step within a datagram takes nothing from the queue, and ends the     *)
(* lifecycle only by failing.                                              *)
LEMMA ProcessSteps ==
  ASSUME HandlerTypeOK, ProcessDatagram
  PROVE  /\ InDatagram /\ HandlerTypeOK' /\ Taken' = Taken /\ running' = running
         /\ pc' \in {"loop", "framing", "message", "recovered", "live", "finish"}
         /\ pc' = "finish" => state' = "Failed"
         /\ applied' # applied => applied' # <<>> /\ pc' \in {"message", "recovered"}
<1>t. /\ stats \in [Counters -> Nat] /\ applied \in Seq(Sequence)
      /\ toApply \in Seq(Recovered) /\ sequence \in Sequence /\ datagram \in Datagram
      /\ stats["datagrams"] \in Nat /\ stats["malformed"] \in Nat
  BY DEF HandlerTypeOK, Counters
<1>1. CASE CheckFraming
  <2>1. InDatagram /\ UNCHANGED <<applied, datagram, sequence, toApply>>
    BY <1>1 DEF CheckFraming, InDatagram, progress, input
  <2>2. CASE Fail
    BY <1>t, <2>1, <2>2, FailTakes DEF HandlerTypeOK
  <2>3. CASE pc' = "message" /\ UNCHANGED <<stats, state, running>>
    BY <1>t, <2>1, <2>3, MovesOn DEF HandlerTypeOK
  <2>4. QED
    BY <1>1, <2>2, <2>3 DEF CheckFraming
<1>2. CASE InSequence \/ GapClosed
  <2>1. /\ InDatagram /\ pc' = "live"
        /\ UNCHANGED <<stats, state, running, applied, datagram, sequence, toApply>>
    BY <1>2 DEF InSequence, GapClosed, InDatagram, input
  <2>2. QED
    BY <1>t, <2>1, MovesOn DEF HandlerTypeOK
<1>3. CASE OldMessage
  <2>1. /\ InDatagram /\ pc' = pc /\ pc = "message" /\ Bump("ignored") /\ sequence' = Succ(sequence)
        /\ UNCHANGED <<state, running, applied, datagram, toApply>>
    BY <1>3 DEF OldMessage, InDatagram, progress, NextFrame
  <2>2. /\ stats' \in [Counters -> Nat] /\ stats'["malformed"] = stats["malformed"]
        /\ stats'["datagrams"] = stats["datagrams"]
    BY <1>t, <2>1, Bumped DEF Counters
  <2>3. QED
    BY <1>t, <2>1, <2>2, SuccType, MovesOn DEF HandlerTypeOK
<1>4. CASE GapNotRecovered
  <2>1. /\ InDatagram /\ pc' = "finish" /\ state' = "Failed"
        /\ stats' = [stats EXCEPT !["gaps"] = @ + 1, !["malformed"] = @ + 1]
        /\ UNCHANGED <<running, applied, datagram, sequence, toApply>>
    BY <1>4 DEF GapNotRecovered, Gap, InDatagram, progress, input
  <2>2. /\ stats' \in [Counters -> Nat] /\ stats'["malformed"] = stats["malformed"] + 1
        /\ stats'["datagrams"] = stats["datagrams"]
    <3>1. stats["gaps"] + 1 \in Nat /\ stats["malformed"] + 1 \in Nat
      BY <1>t DEF Counters
    <3>2. QED
      BY <1>t, <2>1, <3>1 DEF Counters
  <2>3. Taken' = Taken
    BY <1>t, <2>1, <2>2 DEF Taken, InDatagram
  <2>4. QED
    BY <1>t, <2>1, <2>2, <2>3 DEF HandlerTypeOK
<1>5. ASSUME NEW found \in Answers, GapRecovered(found)
      PROVE  /\ InDatagram /\ HandlerTypeOK' /\ Taken' = Taken /\ running' = running
             /\ pc' = "recovered" /\ applied' = applied
  <2>1. /\ InDatagram /\ pc' = "recovered" /\ Bump("gaps") /\ toApply' = found
        /\ UNCHANGED <<state, running, applied, datagram, sequence>>
    BY <1>5 DEF GapRecovered, Gap, InDatagram, progress
  <2>2. /\ stats' \in [Counters -> Nat] /\ stats'["malformed"] = stats["malformed"]
        /\ stats'["datagrams"] = stats["datagrams"]
    BY <1>t, <2>1, Bumped DEF Counters
  <2>3. QED
    BY <1>t, <2>1, <2>2, MovesOn DEF HandlerTypeOK
<1>6. CASE ProcessRecoveredMessage
  <2>1. InDatagram /\ toApply # <<>> /\ UNCHANGED <<datagram, sequence>>
    BY <1>6 DEF ProcessRecoveredMessage, InDatagram
  <2>2. CASE Fail /\ UNCHANGED <<applied, toApply>>
    BY <1>t, <2>1, <2>2, FailTakes DEF HandlerTypeOK
  <2>3. CASE /\ applied' = Append(applied, Head(toApply).seq) /\ Bump("recovered")
             /\ toApply' = Tail(toApply) /\ UNCHANGED <<state, running, pc>>
    <3>1. Head(toApply) \in Recovered /\ toApply' \in Seq(Recovered)
      BY <1>t, <2>1, <2>3, SMT
    <3>2. Head(toApply).seq \in Sequence
      BY <3>1 DEF Recovered
    <3>3. applied' \in Seq(Sequence) /\ applied' # <<>>
      BY <1>t, <2>3, <3>2, SMT
    <3>4. /\ stats' \in [Counters -> Nat] /\ stats'["malformed"] = stats["malformed"]
          /\ stats'["datagrams"] = stats["datagrams"]
      BY <1>t, <2>3, Bumped DEF Counters
    <3>5. pc' = "recovered"
      BY <1>6, <2>3 DEF ProcessRecoveredMessage
    <3>6. QED
      BY <1>t, <2>1, <2>3, <3>1, <3>3, <3>4, <3>5, MovesOn DEF HandlerTypeOK
  <2>4. QED
    BY <1>6, <2>2, <2>3 DEF ProcessRecoveredMessage
<1>7. CASE ProcessMessage
  <2>1. InDatagram /\ UNCHANGED <<datagram, toApply>>
    BY <1>7 DEF ProcessMessage, InDatagram
  <2>2. CASE Fail /\ UNCHANGED <<applied, sequence>>
    BY <1>t, <2>1, <2>2, FailTakes DEF HandlerTypeOK
  <2>3. CASE /\ applied' = Append(applied, sequence) /\ Bump("messages")
             /\ sequence' = Succ(sequence) /\ pc' = "message" /\ UNCHANGED <<state, running>>
    <3>1. applied' \in Seq(Sequence) /\ applied' # <<>>
      BY <1>t, <2>3, SMT
    <3>2. /\ stats' \in [Counters -> Nat] /\ stats'["malformed"] = stats["malformed"]
          /\ stats'["datagrams"] = stats["datagrams"]
      BY <1>t, <2>3, Bumped DEF Counters
    <3>3. QED
      BY <1>t, <2>1, <2>3, <3>1, <3>2, SuccType, MovesOn DEF HandlerTypeOK
  <2>4. QED
    BY <1>7, <2>2, <2>3 DEF ProcessMessage, NextFrame
<1>8. CASE DatagramAccepted
  <2>1. /\ InDatagram /\ pc' = "loop" /\ Bump("datagrams")
        /\ UNCHANGED <<state, running, applied, datagram, sequence, toApply>>
    BY <1>8 DEF DatagramAccepted, InDatagram, progress, input
  <2>2. /\ stats' \in [Counters -> Nat] /\ stats'["malformed"] = stats["malformed"]
        /\ stats'["datagrams"] = stats["datagrams"] + 1
    BY <1>t, <2>1, Bumped DEF Counters
  <2>3. Taken' = Taken
    <3>1. Taken' = stats'["datagrams"] + stats'["malformed"] + 0
      BY <2>1 DEF Taken, InDatagram
    <3>2. Taken = stats["datagrams"] + stats["malformed"] + 1
      BY <2>1 DEF Taken
    <3>3. QED
      BY ONLY <1>t, <2>2, <3>1, <3>2
  <2>4. QED
    BY <1>t, <2>1, <2>2, <2>3 DEF HandlerTypeOK
<1>9. QED
  BY <1>1, <1>2, <1>3, <1>4, <1>5, <1>6, <1>7, <1>8 DEF ProcessDatagram
-----------------------------------------------------------------------------
(* An event attempted is queued or counted as dropped. *)
LEMMA EventsAdd ==
  ASSUME LiveTypeOK, EventsReconcile, PushEvent \/ DropEvent
  PROVE  /\ publishAttempts' = droppedEvents' + consumedEvents + Len(events')
         /\ publishAttempts' \in Nat /\ droppedEvents' \in Nat /\ owed' \in 0 .. 2
         /\ events' \in Seq(Sequence) /\ Len(events') <= EventLimit
<1>t. /\ publishAttempts \in Nat /\ droppedEvents \in Nat /\ consumedEvents \in Nat
      /\ events \in Seq(Sequence) /\ Len(events) \in Nat /\ Len(events) <= EventLimit
      /\ publishAttempts = droppedEvents + consumedEvents + Len(events)
      /\ owed \in 0 .. 2 /\ (owed > 0 => applied # <<>>) /\ applied \in Seq(Sequence)
  BY DEF LiveTypeOK, EventsReconcile
<1>1. /\ owed > 0 /\ owed' = owed - 1 /\ publishAttempts' = publishAttempts + 1
      /\ \/ /\ events' = Append(events, applied[Len(applied)]) /\ Len(events) < EventLimit
            /\ droppedEvents' = droppedEvents
         \/ events' = events /\ droppedEvents' = droppedEvents + 1
  BY DEF PushEvent, DropEvent, Publish
<1>2. applied[Len(applied)] \in Sequence
  <2>1. applied # <<>>
    BY <1>t, <1>1
  <2>2. QED
    BY <1>t, <2>1
<1>3. CASE /\ events' = Append(events, applied[Len(applied)]) /\ Len(events) < EventLimit
           /\ droppedEvents' = droppedEvents
  <2>1. events' \in Seq(Sequence) /\ Len(events') = Len(events) + 1
    BY <1>2, <1>3, <1>t
  <2>2. QED
    BY <1>1, <1>3, <1>t, <2>1
<1>4. CASE events' = events /\ droppedEvents' = droppedEvents + 1
  BY <1>1, <1>4, <1>t
<1>5. QED
  BY <1>1, <1>3, <1>4

(* While the feed thread is in runQueued() the consumer is not stopped. *)
LEMMA FeedBeforeConsumer ==
  ASSUME LiveInv, pc # "off"
  PROVE  /\ feedThread = "running" /\ consumerRunning /\ consumer = "loop"
         /\ main \in {"monitor", "stopReceiver", "joinReceiver", "joinFeed"}
BY DEF LiveInv, LiveTypeOK, ThreadsFollow

LEMMA FeedProcessSteps == ASSUME LiveInv, FeedProcess PROVE LiveInv'
<1>t. /\ LiveTypeOK /\ EventsReconcile /\ ThreadsFollow /\ FeedLeftLast /\ DatagramsReconcile
      /\ HandlerTypeOK /\ ProcessDatagram
      /\ UNCHANGED <<queue, receiving, consuming, shutdown>>
  BY DEF LiveInv, LiveTypeOK, HandlerTypeOK, FeedProcess
<1>1. /\ InDatagram /\ HandlerTypeOK' /\ Taken' = Taken /\ running' = running
      /\ pc' \in {"loop", "framing", "message", "recovered", "live", "finish"}
      /\ pc' = "finish" => state' = "Failed"
      /\ applied' # applied => applied' # <<>> /\ pc' \in {"message", "recovered"}
  BY <1>t, ProcessSteps
<1>2. /\ feedThread = "running" /\ consumerRunning /\ consumer = "loop" /\ pc # "off"
      /\ main \in {"monitor", "stopReceiver", "joinReceiver", "joinFeed"}
  BY <1>1, FeedBeforeConsumer DEF InDatagram
<1>3. /\ UNCHANGED <<queue, receiverRunning, worker, held, received, queued, drops>>
      /\ UNCHANGED <<consumer, consumedEvents>>
      /\ UNCHANGED <<consumerRunning, feedThread, appRunning, main, stopRequested,
                     pushedBeforeStop>>
  BY <1>t DEF receiving, consuming, shutdown
<1>4. /\ UNCHANGED <<events, publishAttempts, droppedEvents>>
      /\ owed' \in 0 .. 2 /\ (owed' > 0 => applied' # <<>> /\ pc' \in {"message", "recovered"})
  <2>1. CASE applied' = applied
    <3>1. UNCHANGED <<events, publishAttempts, droppedEvents, owed>> /\ owed = 0
      BY <2>1 DEF FeedProcess, publishing
    <3>2. QED
      BY <3>1
  <2>2. CASE applied' # applied
    BY <1>1, <2>2 DEF FeedProcess, OnMessage
  <2>3. QED
    BY <2>1, <2>2
<1>5. Receiver!ReceiverTypeOK' /\ Receiver!ReceiverBooks'
  BY <1>t, <1>3 DEF LiveTypeOK, DatagramsReconcile, Pushed, Receiver!ReceiverTypeOK, Receiver!ReceiverBooks
<1>6. LiveTypeOK'
  BY <1>t, <1>1, <1>3, <1>4, <1>5 DEF LiveTypeOK, HandlerTypeOK
<1>7. DatagramsReconcile'
  <2>1. queued + Uncounted(worker) = Settled + Len(queue) + InHand
    BY <1>t DEF DatagramsReconcile, Pushed, Uncounted, Settled, InHand
  <2>2. Settled' + InHand' = Settled + InHand
    BY <1>1 DEF Taken, Settled, InHand
  <2>3. Settled \in Nat /\ InHand \in Nat /\ Len(queue) \in Nat
    BY <1>t DEF Settled, InHand, LiveTypeOK, Receiver!ReceiverTypeOK, HandlerTypeOK, Counters
  <2>4. Settled + Len(queue) + InHand = Settled' + Len(queue) + InHand'
    <3>1. stats'["datagrams"] \in Nat /\ stats'["malformed"] \in Nat
      BY <1>1 DEF HandlerTypeOK, Counters
    <3>2. PICK s \in Nat, h \in Nat : s = Settled' /\ h = InHand'
      BY <3>1 DEF Settled, InHand
    <3>3. s + h = Settled + InHand
      BY ONLY <2>2, <3>2
    <3>4. Settled + Len(queue) + InHand = s + Len(queue) + h
      BY ONLY <2>3, <3>3, s \in Nat, h \in Nat
    <3>5. QED
      BY ONLY <3>2, <3>4
  <2>5. queued' + Uncounted(worker)' = Settled' + Len(queue') + InHand'
    BY <1>3, <2>1, <2>4 DEF Uncounted
  <2>6. QED
    BY <1>5, <2>5 DEF DatagramsReconcile, Pushed, Uncounted, Settled, InHand
<1>8. EventsReconcile' /\ ThreadsFollow' /\ FeedLeftLast'
  BY <1>t, <1>1, <1>2, <1>3, <1>4 DEF EventsReconcile, ThreadsFollow, FeedLeftLast
<1>9. QED
  BY <1>6, <1>7, <1>8 DEF LiveInv

(* What of LiveInv depends on datagrams only. *)
LEMMA DatagramsStay ==
  ASSUME LiveTypeOK, DatagramsReconcile, stats' = stats, pc' = pc,
         UNCHANGED <<queue, receiverRunning, held, received, queued, drops>>,
         worker' = worker \/ (worker = "exited" /\ worker' = "none" /\ ~receiverRunning)
  PROVE  Receiver!ReceiverTypeOK' /\ DatagramsReconcile'
BY DEF LiveTypeOK, DatagramsReconcile, Pushed, InDatagram, Receiver!ReceiverTypeOK,
   Receiver!ReceiverBooks

(* The publishers push an event or drop it. *)
LEMMA PublishSteps == ASSUME LiveInv, PushEvent \/ DropEvent PROVE LiveInv'
<1>t. LiveTypeOK /\ EventsReconcile /\ ThreadsFollow /\ FeedLeftLast /\ DatagramsReconcile
  BY DEF LiveInv
<1>1. /\ UNCHANGED <<stats, state, running, pc, datagram, sequence, toApply, applied>>
      /\ UNCHANGED <<queue, receiverRunning, worker, held, received, queued, drops>>
      /\ UNCHANGED <<consumer, consumedEvents>>
      /\ UNCHANGED <<consumerRunning, feedThread, appRunning, main, stopRequested,
                     pushedBeforeStop>>
      /\ owed > 0 /\ owed' = owed - 1
  BY DEF PushEvent, DropEvent, Publish, handlerVars, progress, input, receiving, consuming,
     shutdown
<1>2. Receiver!ReceiverTypeOK' /\ DatagramsReconcile'
  BY <1>t, <1>1, DatagramsStay
<1>3. /\ publishAttempts' = droppedEvents' + consumedEvents + Len(events')
      /\ publishAttempts' \in Nat /\ droppedEvents' \in Nat /\ owed' \in 0 .. 2
      /\ events' \in Seq(Sequence) /\ Len(events') <= EventLimit
  BY <1>t, EventsAdd
<1>4. pc \in {"message", "recovered"} /\ applied # <<>>
  BY <1>t, <1>1 DEF LiveTypeOK
<1>5. LiveTypeOK' /\ EventsReconcile'
  BY <1>t, <1>1, <1>2, <1>3, <1>4 DEF LiveTypeOK, EventsReconcile
<1>6. consumer = "loop"
  BY <1>4, FeedBeforeConsumer
<1>7. ThreadsFollow' /\ FeedLeftLast'
  BY <1>t, <1>1, <1>4, <1>6 DEF ThreadsFollow, FeedLeftLast
<1>8. QED
  BY <1>2, <1>5, <1>7 DEF LiveInv

(* The loop of runQueued(): looking at the queue and at the two flags. *)
LoopControl ==
  \/ PopNothing \/ SeeReceiverStopped \/ RecheckEmpty \/ RecheckNotEmpty
  \/ SeeReceiverRunning \/ SeeStopRequest \/ Yield

LEMMA LoopControlSteps == ASSUME LiveInv, LoopControl PROVE LiveInv'
<1>t. LiveTypeOK /\ EventsReconcile /\ ThreadsFollow /\ FeedLeftLast /\ DatagramsReconcile
  BY DEF LiveInv
<1>1. /\ pc \in {"loop", "empty", "recheck", "stopRequest"}
      /\ pc' \in {"loop", "empty", "recheck", "stopRequest", "finish"}
      /\ UNCHANGED <<stats, state, running, progress, input>>
      /\ UNCHANGED <<queue, receiving, publishing, consuming, shutdown>>
  BY DEF LoopControl, PopNothing, SeeReceiverStopped, RecheckEmpty, RecheckNotEmpty,
     SeeReceiverRunning, SeeStopRequest, Yield, FeedStep
<1>2. /\ pc' = "recheck" => ~receiverRunning
      /\ pc' = "finish" => ~running \/ (pc = "recheck" /\ queue = <<>>)
  BY DEF LoopControl, PopNothing, SeeReceiverStopped, RecheckEmpty, RecheckNotEmpty,
     SeeReceiverRunning, SeeStopRequest, Yield, FeedStep
<1>3. /\ feedThread = "running" /\ consumerRunning /\ consumer = "loop" /\ pc # "off"
      /\ main \in {"monitor", "stopReceiver", "joinReceiver", "joinFeed"}
  BY <1>1, FeedBeforeConsumer
<1>4. /\ UNCHANGED <<stats, state, running, datagram, sequence, toApply, applied, queue>>
      /\ UNCHANGED <<receiverRunning, worker, held, received, queued, drops>>
      /\ UNCHANGED <<events, publishAttempts, droppedEvents, owed, consumer, consumedEvents>>
      /\ UNCHANGED <<consumerRunning, feedThread, appRunning, main, stopRequested,
                     pushedBeforeStop>>
  BY <1>1 DEF progress, input, receiving, publishing, consuming, shutdown
<1>5. Receiver!ReceiverTypeOK' /\ Receiver!ReceiverBooks'
  BY <1>t, <1>4 DEF LiveTypeOK, DatagramsReconcile, Pushed, Receiver!ReceiverTypeOK, Receiver!ReceiverBooks
<1>6. LiveTypeOK' /\ EventsReconcile'
  BY <1>t, <1>1, <1>4, <1>5 DEF LiveTypeOK, EventsReconcile
<1>7. DatagramsReconcile'
  BY <1>t, <1>1, <1>4, <1>5 DEF DatagramsReconcile, Pushed, InDatagram
<1>8. ThreadsFollow'
  BY <1>t, <1>1, <1>3, <1>4 DEF ThreadsFollow
<1>9. FeedLeftLast'
  <2>1. pc' = "finish" /\ state' # "Failed" /\ ~stopRequested =>
          /\ ~receiverRunning
          /\ Len(queue) + (IF worker \in {"receive", "push"} THEN 1 ELSE 0) <= 1
    <3>1. CASE ~running
      BY <1>t, <1>3, <3>1 DEF FeedLeftLast
    <3>2. CASE pc = "recheck" /\ queue = <<>>
      <4>1. ~receiverRunning /\ Len(queue) = 0
        BY <1>t, <3>2 DEF FeedLeftLast
      <4>2. QED
        BY <4>1
    <3>3. QED
      BY <1>2, <3>1, <3>2
  <2>2. QED
    BY <1>t, <1>1, <1>2, <1>3, <1>4, <2>1 DEF FeedLeftLast
<1>10. QED
  BY <1>6, <1>7, <1>8, <1>9 DEF LiveInv

LEMMA PopSteps == ASSUME LiveInv, PopDatagram PROVE LiveInv'
<1>t. LiveTypeOK /\ EventsReconcile /\ ThreadsFollow /\ FeedLeftLast /\ DatagramsReconcile
  BY DEF LiveInv
<1>1. /\ pc = "loop" /\ pc' = "framing" /\ queue # <<>> /\ queue' = Tail(queue)
      /\ datagram' = Head(queue) /\ sequence' = Head(queue).first /\ toApply' = <<>>
      /\ UNCHANGED <<stats, state, running, applied>>
      /\ UNCHANGED <<receiverRunning, worker, held, received, queued, drops>>
      /\ UNCHANGED <<events, publishAttempts, droppedEvents, owed, consumer, consumedEvents>>
      /\ UNCHANGED <<consumerRunning, feedThread, appRunning, main, stopRequested,
                     pushedBeforeStop>>
  BY DEF PopDatagram, BeginDatagram, progress, receiving, publishing, consuming, shutdown
<1>2. /\ feedThread = "running" /\ consumerRunning /\ consumer = "loop" /\ pc # "off"
      /\ main \in {"monitor", "stopReceiver", "joinReceiver", "joinFeed"}
  BY <1>1, FeedBeforeConsumer
<1>3. /\ queue \in Seq(Datagrams) /\ Len(queue) <= QueueLimit
      /\ Len(queue) \in Nat /\ Head(queue) \in Datagrams
      /\ queue' \in Seq(Datagrams) /\ Len(queue') = Len(queue) - 1
  <2>1. queue \in Seq(Datagrams) /\ Len(queue) <= QueueLimit
    BY <1>t DEF LiveTypeOK, Receiver!ReceiverTypeOK
  <2>2. QED
    BY <1>1, <2>1, SMT
<1>4. datagram' \in Datagram /\ sequence' \in Sequence /\ toApply' \in Seq(Recovered)
  <2>1. datagram' \in Datagram
    BY <1>1, <1>3
  <2>2. sequence' \in Sequence
    BY <1>1, <2>1 DEF Datagram
  <2>3. QED
    BY <1>1, <2>1, <2>2
<1>5. Receiver!ReceiverTypeOK' /\ Receiver!ReceiverBooks'
  <2>1. Len(queue') <= QueueLimit
    BY <1>3
  <2>2. QED
    BY <1>t, <1>1, <1>3, <2>1
    DEF LiveTypeOK, DatagramsReconcile, Pushed, Receiver!ReceiverTypeOK, Receiver!ReceiverBooks
<1>6. LiveTypeOK' /\ EventsReconcile'
  BY <1>t, <1>1, <1>4, <1>5 DEF LiveTypeOK, EventsReconcile
<1>7. DatagramsReconcile'
  <2>1. ~InDatagram /\ InDatagram' /\ stats["datagrams"] \in Nat /\ stats["malformed"] \in Nat
    BY <1>t, <1>1 DEF InDatagram, LiveTypeOK, Counters
  <2>2. queued + (IF worker = "count" THEN 1 ELSE 0)
          = stats["datagrams"] + stats["malformed"] + Len(queue) + 0
    BY <1>t, <2>1 DEF DatagramsReconcile, Pushed
  <2>3. queued' + (IF worker' = "count" THEN 1 ELSE 0)
          = stats'["datagrams"] + stats'["malformed"] + Len(queue') + 1
    BY <1>1, <1>3, <2>1, <2>2
  <2>4. QED
    BY <1>5, <2>1, <2>3 DEF DatagramsReconcile, Pushed
<1>8. ThreadsFollow' /\ FeedLeftLast'
  BY <1>t, <1>1, <1>2 DEF ThreadsFollow, FeedLeftLast
<1>9. QED
  BY <1>6, <1>7, <1>8 DEF LiveInv

(* Entering and leaving runQueued(), and the end of the feed thread. *)
LEMMA LifecycleSteps ==
  ASSUME LiveInv, EnterRunQueued \/ LeaveRunQueued \/ FeedThreadEnds PROVE LiveInv'
<1>t. LiveTypeOK /\ EventsReconcile /\ ThreadsFollow /\ FeedLeftLast /\ DatagramsReconcile
  BY DEF LiveInv
<1>1. /\ UNCHANGED <<queue, receiverRunning, worker, held, received, queued, drops>>
      /\ UNCHANGED <<events, publishAttempts, droppedEvents, owed, consumer, consumedEvents>>
      /\ UNCHANGED <<consumerRunning, main, stopRequested, pushedBeforeStop>>
      /\ UNCHANGED <<datagram, sequence, toApply>>
  BY DEF EnterRunQueued, LeaveRunQueued, FeedThreadEnds, StartLifecycle, FinishLifecycle,
     handlerVars, progress, input, receiving, publishing, consuming, shutdown
<1>2. Receiver!ReceiverTypeOK' /\ Receiver!ReceiverBooks'
  BY <1>t, <1>1 DEF LiveTypeOK, DatagramsReconcile, Pushed, Receiver!ReceiverTypeOK, Receiver!ReceiverBooks
<1>3. EventsReconcile'
  BY <1>t, <1>1 DEF EventsReconcile
<1>4. CASE EnterRunQueued
  <2>1. /\ pc = "off" /\ feedThread = "running" /\ pc' = "loop" /\ running' = TRUE
        /\ state' = "Running" /\ applied' = <<>> /\ stats' = [c \in Counters |-> 0]
        /\ UNCHANGED <<feedThread, appRunning>>
    BY <1>4 DEF EnterRunQueued, StartLifecycle, shutdown
  <2>2. stats' \in [Counters -> Nat] /\ \A c \in Counters : stats[c] = 0 /\ stats'[c] = 0
    BY <1>t, <2>1 DEF ThreadsFollow
  <2>3. LiveTypeOK'
    BY <1>t, <1>1, <1>2, <2>1, <2>2 DEF LiveTypeOK
  <2>4. DatagramsReconcile'
    <3>1. /\ stats'["datagrams"] = stats["datagrams"] /\ stats'["malformed"] = stats["malformed"]
          /\ ~InDatagram /\ ~InDatagram'
      BY <2>1, <2>2 DEF InDatagram, Counters
    <3>2. QED
      BY <1>t, <1>1, <1>2, <3>1 DEF DatagramsReconcile, Pushed
  <2>5. ThreadsFollow' /\ FeedLeftLast'
    BY <1>t, <1>1, <2>1 DEF ThreadsFollow, FeedLeftLast
  <2>6. QED
    BY <1>3, <2>3, <2>4, <2>5 DEF LiveInv
<1>5. CASE LeaveRunQueued
  <2>1. /\ pc = "finish" /\ pc' = "off" /\ running' = FALSE /\ feedThread' = "returned"
        /\ state' = (IF state # "Failed" THEN "Stopped" ELSE state)
        /\ UNCHANGED <<stats, applied, appRunning>>
    BY <1>5 DEF LeaveRunQueued, FinishLifecycle, progress
  <2>2. feedThread = "running" /\ main \in {"monitor", "stopReceiver", "joinReceiver", "joinFeed"}
    BY <2>1, FeedBeforeConsumer
  <2>3. LiveTypeOK'
    BY <1>t, <1>1, <1>2, <2>1 DEF LiveTypeOK
  <2>4. DatagramsReconcile'
    BY <1>t, <1>1, <1>2, <2>1 DEF DatagramsReconcile, Pushed, InDatagram
  <2>5. ThreadsFollow' /\ FeedLeftLast'
    BY <1>t, <1>1, <2>1, <2>2 DEF ThreadsFollow, FeedLeftLast
  <2>6. QED
    BY <1>3, <2>3, <2>4, <2>5 DEF LiveInv
<1>6. CASE FeedThreadEnds
  <2>1. /\ feedThread = "returned" /\ feedThread' = "exited"
        /\ appRunning' \in BOOLEAN /\ UNCHANGED <<pc, running, state, stats, applied>>
    BY <1>6, <1>t DEF FeedThreadEnds, handlerVars, LiveTypeOK
  <2>2. LiveTypeOK'
    BY <1>t, <1>1, <1>2, <2>1 DEF LiveTypeOK
  <2>3. DatagramsReconcile'
    BY <1>t, <1>1, <1>2, <2>1 DEF DatagramsReconcile, Pushed, InDatagram
  <2>4. ThreadsFollow' /\ FeedLeftLast'
    BY <1>t, <1>1, <2>1 DEF ThreadsFollow, FeedLeftLast
  <2>5. QED
    BY <1>3, <2>2, <2>3, <2>4 DEF LiveInv
<1>7. QED
  BY <1>4, <1>5, <1>6
-----------------------------------------------------------------------------
(* What of LiveInv the receiver's fields do not enter. *)
LEMMA HandlerStays ==
  ASSUME LiveTypeOK,
         UNCHANGED <<handlerVars, publishing, consuming, shutdown>>,
         Receiver!ReceiverTypeOK'
  PROVE  LiveTypeOK'
BY DEF LiveTypeOK, handlerVars, publishing, consuming, shutdown

(* The receiver counts what it moves, and after a stop request it pushes   *)
(* no more than what it has in hand.                                       *)
LEMMA ReceiverSteps == ASSUME LiveInv, ReceiverThread PROVE LiveInv'
<1>t. LiveTypeOK /\ EventsReconcile /\ ThreadsFollow /\ FeedLeftLast /\ DatagramsReconcile
  BY DEF LiveInv
<1>1. /\ UNCHANGED <<handlerVars, publishing, consuming, shutdown>>
      /\ UNCHANGED <<stats, state, running, pc, datagram, sequence, toApply, applied>>
      /\ UNCHANGED <<events, publishAttempts, droppedEvents, owed, consumer, consumedEvents>>
      /\ UNCHANGED <<consumerRunning, feedThread, appRunning, main, stopRequested,
                     pushedBeforeStop>>
  BY DEF ReceiverThread, handlerVars, publishing, consuming, shutdown
<1>2. /\ queue \in Seq(Datagrams) /\ Len(queue) <= QueueLimit /\ Len(queue) \in Nat
      /\ receiverRunning \in BOOLEAN
      /\ worker \in {"none", "loop", "receive", "push", "count", "exited"}
      /\ IF worker = "push" THEN held \in Datagrams ELSE held = Receiver!None
      /\ received \in 0..MaxReceived /\ queued \in Nat /\ drops \in Nat
      /\ receiverRunning => worker \notin {"none", "exited"}
      /\ received = queued + drops + (IF worker \in {"push", "count"} THEN 1 ELSE 0)
      /\ queued + (IF worker = "count" THEN 1 ELSE 0)
           = stats["datagrams"] + stats["malformed"] + Len(queue)
             + (IF InDatagram THEN 1 ELSE 0)
  BY <1>t DEF LiveTypeOK, DatagramsReconcile, Pushed, Receiver!ReceiverTypeOK, Receiver!ReceiverBooks
<1>3. /\ stats["datagrams"] \in Nat /\ stats["malformed"] \in Nat
      /\ (IF InDatagram THEN 1 ELSE 0) \in Nat
      /\ InDatagram' = InDatagram
  BY <1>t, <1>1 DEF LiveTypeOK, Counters, InDatagram
<1>4. worker \in {"loop", "receive", "push", "count"}
  BY DEF ReceiverThread, Receiver!ReceiveLoop, Receiver!LoopCondition, Receiver!ReceiveNothing,
     Receiver!Push, Receiver!CountQueued, Receiver!Receive
<1>5. EventsReconcile' /\ ThreadsFollow'
  BY <1>t, <1>1, <1>4 DEF EventsReconcile, ThreadsFollow
<1> DEFINE Moving(w) == IF w \in {"receive", "push"} THEN 1 ELSE 0
<1>6. SUFFICES /\ Receiver!ReceiverTypeOK' /\ Receiver!ReceiverBooks'
               /\ \/ /\ queued' + Uncounted(worker') = queued + Uncounted(worker)
                     /\ Len(queue') = Len(queue)
                  \/ /\ queued' + Uncounted(worker') = queued + Uncounted(worker) + 1
                     /\ Len(queue') = Len(queue) + 1
               /\ Len(queue') \in Nat /\ queued' \in Nat
               /\ receiverRunning' = receiverRunning
               /\ ~receiverRunning => Len(queue') + Moving(worker') <= Len(queue) + Moving(worker)
  <2>1. LiveTypeOK'
    BY <1>t, <1>1, <1>6, HandlerStays
  <2>2. queued' + Uncounted(worker)' = Settled + Len(queue') + InHand
    <3>1. \/ /\ queued' + Uncounted(worker)' = queued + Uncounted(worker)
             /\ Len(queue') = Len(queue)
          \/ /\ queued' + Uncounted(worker)' = queued + Uncounted(worker) + 1
             /\ Len(queue') = Len(queue) + 1
      BY <1>6
    <3>2. queued + Uncounted(worker) = Settled + Len(queue) + InHand
      BY <1>2 DEF Uncounted, InHand, Settled
    <3>3. /\ Uncounted(worker) \in Nat /\ Uncounted(worker)' \in Nat /\ InHand \in Nat
          /\ Settled \in Nat /\ Len(queue) \in Nat /\ queued \in Nat
      BY <1>2, <1>3 DEF Uncounted, InHand, Settled
    <3>4. QED
      BY ONLY <3>1, <3>2, <3>3
  <2>3. DatagramsReconcile'
    BY <1>1, <1>3, <1>6, <2>2 DEF DatagramsReconcile, Pushed, Uncounted, InHand, Settled
  <2>4. FeedLeftLast'
    <3>1. /\ pc # "off" /\ ~running => stopRequested
          /\ pc = "recheck" => ~receiverRunning
      BY <1>t DEF FeedLeftLast
    <3>2. ASSUME (pc = "finish" \/ feedThread \in {"returned", "exited"}),
                 state # "Failed", ~stopRequested
          PROVE  ~receiverRunning' /\ Len(queue') + Moving(worker') <= 1
      <4>1. ~receiverRunning /\ Len(queue) + Moving(worker) <= 1
        BY <1>t, <3>2 DEF FeedLeftLast
      <4>2. Moving(worker') \in Nat /\ Moving(worker) \in Nat
        OBVIOUS
      <4>3. QED
        BY <1>2, <1>6, <4>1, <4>2
    <3>3. QED
      BY <1>1, <1>6, <3>1, <3>2 DEF FeedLeftLast
  <2>5. QED
    BY <1>5, <2>1, <2>3, <2>4 DEF LiveInv
<1>7. CASE Receiver!LoopCondition \/ Receiver!ReceiveNothing
  <2>1. /\ worker \in {"loop", "receive"} /\ UNCHANGED <<queue, held, received, queued, drops>>
        /\ worker' \in {"loop", "receive", "exited"} /\ receiverRunning' = receiverRunning
        /\ receiverRunning => worker' # "exited"
        /\ worker' = "receive" => receiverRunning
    BY <1>7, <1>2 DEF Receiver!LoopCondition, Receiver!ReceiveNothing, Receiver!books
  <2>2. QED
    BY <1>2, <2>1 DEF Receiver!ReceiverTypeOK, Receiver!ReceiverBooks, Uncounted
<1>8. ASSUME NEW d \in Datagrams, Receiver!Receive(d)
      PROVE  /\ Receiver!ReceiverTypeOK' /\ Receiver!ReceiverBooks'
             /\ worker = "receive" /\ worker' = "push"
             /\ UNCHANGED <<queue, queued, receiverRunning>>
  <2>1. /\ worker = "receive" /\ worker' = "push" /\ received < MaxReceived
        /\ received' = received + 1 /\ held' = d
        /\ UNCHANGED <<queue, queued, drops, receiverRunning>>
    BY <1>8 DEF Receiver!Receive
  <2>2. received' \in 0 .. MaxReceived
    BY <1>2, <2>1
  <2>3. QED
    BY <1>2, <1>8, <2>1, <2>2 DEF Receiver!ReceiverTypeOK, Receiver!ReceiverBooks
<1>9. CASE Receiver!Push
  <2>1. /\ worker = "push" /\ held \in Datagrams /\ held' = Receiver!None
        /\ UNCHANGED <<receiverRunning, received, queued>>
    BY <1>9, <1>2 DEF Receiver!Push
  <2>2. CASE Len(queue) < QueueLimit /\ queue' = Append(queue, held)
             /\ worker' = "count" /\ drops' = drops
    <3>1. /\ queue' \in Seq(Datagrams) /\ Len(queue') = Len(queue) + 1
          /\ Len(queue') <= QueueLimit
      BY <1>2, <2>1, <2>2
    <3>2. QED
      BY <1>2, <2>1, <2>2, <3>1 DEF Receiver!ReceiverTypeOK, Receiver!ReceiverBooks, Uncounted
  <2>3. CASE drops' = drops + 1 /\ worker' = "loop" /\ queue' = queue
    BY <1>2, <2>1, <2>3 DEF Receiver!ReceiverTypeOK, Receiver!ReceiverBooks, Uncounted
  <2>4. QED
    BY <1>9, <2>2, <2>3 DEF Receiver!Push
<1>10. CASE Receiver!CountQueued
  <2>1. /\ worker = "count" /\ worker' = "loop" /\ queued' = queued + 1
        /\ UNCHANGED <<queue, receiverRunning, held, received, drops>>
    BY <1>10 DEF Receiver!CountQueued
  <2>2. QED
    BY <1>2, <2>1 DEF Receiver!ReceiverTypeOK, Receiver!ReceiverBooks, Uncounted
<1>11. CASE \E d \in Datagrams : Receiver!Receive(d)
  BY <1>2, <1>8, <1>11 DEF Uncounted
<1>12. QED
  BY <1>7, <1>9, <1>10, <1>11 DEF ReceiverThread, Receiver!ReceiveLoop
-----------------------------------------------------------------------------
(* The consumer takes events, and leaves the empty queue. *)
LEMMA ConsumerSteps == ASSUME LiveInv, ConsumerThread PROVE LiveInv'
<1>t. LiveTypeOK /\ EventsReconcile /\ ThreadsFollow /\ FeedLeftLast /\ DatagramsReconcile
  BY DEF LiveInv
<1>1. /\ UNCHANGED <<stats, state, running, pc, datagram, sequence, toApply, applied>>
      /\ UNCHANGED <<queue, receiverRunning, worker, held, received, queued, drops>>
      /\ UNCHANGED <<consumerRunning, feedThread, appRunning, main, stopRequested,
                     pushedBeforeStop>>
      /\ UNCHANGED <<publishAttempts, droppedEvents, owed>>
  BY DEF ConsumerThread, ConsumeEvent, ConsumerStops, handlerVars, receiving, publishing, shutdown
<1>2. Receiver!ReceiverTypeOK' /\ DatagramsReconcile'
  BY <1>t, <1>1, DatagramsStay
<1>3. FeedLeftLast'
  BY <1>t, <1>1 DEF FeedLeftLast
<1>4. CASE ConsumeEvent
  <2>1. /\ consumer \in {"loop", "drain"} /\ consumer' = consumer
        /\ events # <<>> /\ events' = Tail(events) /\ consumedEvents' = consumedEvents + 1
    BY <1>4 DEF ConsumeEvent
  <2>2. /\ events \in Seq(Sequence) /\ Len(events) <= EventLimit /\ Len(events) \in Nat
        /\ publishAttempts \in Nat /\ droppedEvents \in Nat /\ consumedEvents \in Nat
        /\ publishAttempts = droppedEvents + consumedEvents + Len(events)
    BY <1>t DEF LiveTypeOK, EventsReconcile
  <2>3. events' \in Seq(Sequence) /\ Len(events') = Len(events) - 1
    BY <2>1, <2>2, SMT
  <2>4. Len(events') <= EventLimit /\ consumedEvents' \in Nat
    BY <2>1, <2>2, <2>3
  <2>5. EventsReconcile'
    BY <1>1, <2>1, <2>2, <2>3 DEF EventsReconcile
  <2>6. LiveTypeOK'
    BY <1>t, <1>1, <1>2, <2>1, <2>3, <2>4 DEF LiveTypeOK
  <2>7. ThreadsFollow'
    BY <1>t, <1>1, <2>1 DEF ThreadsFollow
  <2>8. QED
    BY <1>2, <1>3, <2>5, <2>6, <2>7 DEF LiveInv
<1>5. CASE ConsumerStops
  <2>1. /\ UNCHANGED <<events, consumedEvents>>
        /\ \/ consumer = "loop" /\ ~consumerRunning /\ consumer' = "drain"
           \/ consumer = "drain" /\ events = <<>> /\ consumer' = "exited"
    BY <1>5 DEF ConsumerStops, publishing
  <2>2. LiveTypeOK' /\ EventsReconcile'
    BY <1>t, <1>1, <1>2, <2>1 DEF LiveTypeOK, EventsReconcile
  <2>3. ThreadsFollow'
    BY <1>t, <1>1, <2>1 DEF ThreadsFollow
  <2>4. QED
    BY <1>2, <1>3, <2>2, <2>3 DEF LiveInv
<1>6. QED
  BY <1>4, <1>5 DEF ConsumerThread

LEMMA MainSteps == ASSUME LiveInv, Main PROVE LiveInv'
<1> USE DEF MainStep
<1>t. LiveTypeOK /\ EventsReconcile /\ ThreadsFollow /\ FeedLeftLast /\ DatagramsReconcile
  BY DEF LiveInv
<1>1. /\ UNCHANGED <<stats, state, running, pc, datagram, sequence, toApply, applied>>
      /\ UNCHANGED <<events, publishAttempts, droppedEvents, owed, consumer, consumedEvents>>
      /\ UNCHANGED <<queue, held, appRunning, stopRequested>>
      /\ pushedBeforeStop' \in {pushedBeforeStop, Pushed}
  BY DEF Main, StartReceiver, StartFeed, SeeShutdown, StopReceiver, JoinReceiver, JoinFeed,
     StopConsumer, JoinConsumer, handlerVars, receiving, publishing, consuming,
     Receiver!Start, Receiver!Stop, Receiver!Join
<1>2. EventsReconcile'
  BY <1>t, <1>1 DEF EventsReconcile
<1>p. pushedBeforeStop' \in Nat
  BY <1>t, <1>1 DEF LiveTypeOK, Pushed, Receiver!ReceiverTypeOK
<1>3. CASE StartReceiver
  <2>1. /\ main = "startReceiver" /\ worker = "none" /\ ~receiverRunning
        /\ received' = 0 /\ queued' = 0 /\ drops' = 0
        /\ \/ receiverRunning' = TRUE /\ worker' = "loop" /\ main' = "startFeed"
           \/ receiverRunning' = receiverRunning /\ worker' = worker /\ main' = "terminated"
        /\ UNCHANGED <<consumerRunning, feedThread>>
    BY <1>3 DEF StartReceiver, Receiver!Start, Receiver!control
  <2>2. feedThread = "none" /\ pc = "off" /\ received = 0 /\ queued = 0 /\ drops = 0
    BY <1>t, <2>1 DEF ThreadsFollow
  <2>3. Receiver!ReceiverTypeOK' /\ Receiver!ReceiverBooks'
    <3>1. /\ queue \in Seq(Datagrams) /\ Len(queue) <= QueueLimit /\ held = Receiver!None
      BY <1>t, <2>1 DEF LiveTypeOK, Receiver!ReceiverTypeOK
    <3>2. 0 \in 0 .. MaxReceived
      OBVIOUS
    <3>3. /\ worker' \in {"none", "loop"} /\ receiverRunning' \in BOOLEAN
          /\ receiverRunning' => worker' # "none"
      <4>1. worker' \in {"none", "loop"}
        BY ONLY <2>1
      <4>2. receiverRunning' = TRUE \/ receiverRunning' = receiverRunning
        BY ONLY <2>1, Zenon
      <4>3. receiverRunning' \in BOOLEAN
        BY <1>t, <4>2, Zenon DEF LiveTypeOK, Receiver!ReceiverTypeOK
      <4>4. receiverRunning' => worker' # "none"
        BY ONLY <2>1
      <4>5. QED
        BY <4>1, <4>3, <4>4
    <3>4. Receiver!ReceiverTypeOK'
      BY <1>1, <2>1, <3>1, <3>2, <3>3 DEF Receiver!ReceiverTypeOK
    <3>5. QED
      BY <2>1, <3>3, <3>4 DEF Receiver!ReceiverBooks
  <2>4. LiveTypeOK'
    BY <1>t, <1>1, <1>p, <2>1, <2>3 DEF LiveTypeOK
  <2>5. DatagramsReconcile'
    BY <1>t, <1>1, <2>1, <2>2, <2>3 DEF DatagramsReconcile, Pushed, InDatagram
  <2>6. ThreadsFollow' /\ FeedLeftLast'
    BY <1>t, <1>1, <2>1, <2>2 DEF ThreadsFollow, FeedLeftLast
  <2>7. QED
    BY <1>2, <2>4, <2>5, <2>6 DEF LiveInv
<1>4. CASE StartFeed
  <2>1. /\ main = "startFeed" /\ main' = "monitor" /\ feedThread' = "running"
        /\ UNCHANGED <<receiverRunning, worker, received, queued, drops, consumerRunning>>
    BY <1>4 DEF StartFeed, receiving
  <2>2. feedThread = "none" /\ pc = "off"
    BY <1>t, <2>1 DEF ThreadsFollow
  <2>3. Receiver!ReceiverTypeOK' /\ DatagramsReconcile'
    BY <1>t, <1>1, <2>1, DatagramsStay
  <2>4. LiveTypeOK' /\ ThreadsFollow' /\ FeedLeftLast'
    BY <1>t, <1>1, <1>p, <2>1, <2>2, <2>3 DEF LiveTypeOK, ThreadsFollow, FeedLeftLast
  <2>5. QED
    BY <1>2, <2>3, <2>4 DEF LiveInv
<1>5. CASE StopReceiver
  <2>1. /\ main = "stopReceiver" /\ main' = "joinReceiver" /\ receiverRunning' = FALSE
        /\ UNCHANGED <<worker, received, queued, drops, consumerRunning, feedThread>>
    BY <1>5 DEF StopReceiver, Receiver!Stop, Receiver!books
  <2>2. Receiver!ReceiverTypeOK' /\ DatagramsReconcile'
    BY <1>t, <1>1, <2>1
    DEF LiveTypeOK, DatagramsReconcile, Pushed, InDatagram, Receiver!ReceiverTypeOK, Receiver!ReceiverBooks
  <2>3. LiveTypeOK' /\ ThreadsFollow' /\ FeedLeftLast'
    BY <1>t, <1>1, <1>p, <2>1, <2>2 DEF LiveTypeOK, ThreadsFollow, FeedLeftLast
  <2>4. QED
    BY <1>2, <2>2, <2>3 DEF LiveInv
<1>6. CASE JoinReceiver
  <2>1. /\ main = "joinReceiver" /\ main' = "joinFeed" /\ worker = "exited" /\ worker' = "none"
        /\ UNCHANGED <<receiverRunning, received, queued, drops, consumerRunning, feedThread>>
    BY <1>6 DEF JoinReceiver, Receiver!Join, Receiver!books
  <2>2. ~receiverRunning
    BY <1>t, <2>1 DEF LiveTypeOK, Receiver!ReceiverTypeOK
  <2>3. Receiver!ReceiverTypeOK' /\ DatagramsReconcile'
    BY <1>t, <1>1, <2>1, <2>2, DatagramsStay
  <2>4. LiveTypeOK' /\ ThreadsFollow' /\ FeedLeftLast'
    BY <1>t, <1>1, <1>p, <2>1, <2>3 DEF LiveTypeOK, ThreadsFollow, FeedLeftLast
  <2>5. QED
    BY <1>2, <2>3, <2>4 DEF LiveInv
<1>7. CASE SeeShutdown \/ JoinFeed \/ StopConsumer \/ JoinConsumer
  <2>1. /\ UNCHANGED <<receiverRunning, worker, received, queued, drops, feedThread>>
        /\ \/ main = "monitor" /\ main' = "stopReceiver" /\ consumerRunning' = consumerRunning
           \/ /\ main = "joinFeed" /\ main' = "stopConsumer" /\ feedThread = "exited"
              /\ consumerRunning' = consumerRunning
           \/ main = "stopConsumer" /\ main' = "joinConsumer" /\ consumerRunning' = FALSE
           \/ /\ main = "joinConsumer" /\ main' = "done" /\ consumer = "exited"
              /\ consumerRunning' = consumerRunning
    BY <1>7 DEF SeeShutdown, JoinFeed, StopConsumer, JoinConsumer, receiving
  <2>2. Receiver!ReceiverTypeOK' /\ DatagramsReconcile'
    BY <1>t, <1>1, <2>1, DatagramsStay
  <2>3. LiveTypeOK' /\ FeedLeftLast'
    <3>1. consumerRunning' \in BOOLEAN /\ main' \in {"stopReceiver", "stopConsumer", "joinConsumer", "done"}
      BY <1>t, <2>1 DEF LiveTypeOK
    <3>2. QED
      BY <1>t, <1>1, <1>p, <2>1, <2>2, <3>1 DEF LiveTypeOK, FeedLeftLast
  <2>4. ThreadsFollow'
    BY <1>t, <1>1, <2>1 DEF ThreadsFollow
  <2>5. QED
    BY <1>2, <2>2, <2>3, <2>4 DEF LiveInv
<1>8. QED
  BY <1>3, <1>4, <1>5, <1>6, <1>7 DEF Main

(* Ctrl+C, stop() from outside, and stuttering. *)
LEMMA RequestSteps ==
  ASSUME LiveInv, Signal \/ StopRequest \/ Finished \/ UNCHANGED liveVars
  PROVE  LiveInv'
<1>t. LiveTypeOK /\ EventsReconcile /\ ThreadsFollow /\ FeedLeftLast /\ DatagramsReconcile
  BY DEF LiveInv
<1>1. /\ UNCHANGED <<stats, state, pc, datagram, sequence, toApply, applied>>
      /\ UNCHANGED <<events, publishAttempts, droppedEvents, owed, consumer, consumedEvents>>
      /\ UNCHANGED <<queue, receiverRunning, worker, held, received, queued, drops>>
      /\ UNCHANGED <<consumerRunning, feedThread, main, pushedBeforeStop>>
  BY DEF Signal, StopRequest, Stop, Finished, liveVars, handlerVars, progress, input,
     receiving, publishing, consuming, shutdown
<1>2. /\ appRunning' \in BOOLEAN
      /\ \/ running' = running /\ stopRequested' = stopRequested
         \/ running' = FALSE /\ stopRequested' = TRUE
  BY <1>t DEF Signal, StopRequest, Stop, Finished, liveVars, handlerVars, shutdown, LiveTypeOK
<1>3. Receiver!ReceiverTypeOK' /\ DatagramsReconcile'
  BY <1>t, <1>1, DatagramsStay
<1>4. LiveTypeOK' /\ EventsReconcile'
  <2>1. running' \in BOOLEAN /\ stopRequested' \in BOOLEAN
    BY <1>t, <1>2 DEF LiveTypeOK
  <2>2. LiveTypeOK'
    BY <1>t, <1>1, <1>2, <1>3, <2>1 DEF LiveTypeOK
  <2>3. QED
    BY <1>t, <1>1, <2>2 DEF EventsReconcile
<1>5. ThreadsFollow' /\ FeedLeftLast'
  BY <1>t, <1>1, <1>2 DEF ThreadsFollow, FeedLeftLast
<1>6. QED
  BY <1>3, <1>4, <1>5 DEF LiveInv
-----------------------------------------------------------------------------
LEMMA LiveBegins == LiveInit => LiveInv
<1> SUFFICES ASSUME LiveInit PROVE LiveInv
  OBVIOUS
<1> USE DEF LiveInit, HandlerInit, Receiver!InitReceiver
<1>1. /\ <<>> \in Seq(Sequence) /\ <<>> \in Seq(Recovered) /\ <<>> \in Seq(Datagrams)
      /\ <<>> \in Seq(Body) /\ Len(<<>>) = 0
  OBVIOUS
<1>2. NoDatagram \in Datagram /\ 0 \in Sequence
  BY <1>1 DEF NoDatagram, Datagram, Sequence
<1>3. stats \in [Counters -> Nat] /\ \A c \in Counters : stats[c] = 0
  OBVIOUS
<1>4. Receiver!ReceiverTypeOK /\ Receiver!ReceiverBooks
  <2>1. 0 \in 0 .. MaxReceived /\ 0 <= QueueLimit
    OBVIOUS
  <2>2. queue \in Seq(Datagrams) /\ Len(queue) <= QueueLimit
    BY <1>1, <2>1
  <2>3. /\ receiverRunning \in BOOLEAN /\ ~receiverRunning /\ worker = "none"
        /\ held = Receiver!None /\ received = 0 /\ queued = 0 /\ drops = 0
    BY Zenon
  <2>4. QED
    BY ONLY <2>1, <2>2, <2>3 DEF Receiver!ReceiverTypeOK, Receiver!ReceiverBooks
<1>5. LiveTypeOK
  <2>1. 0 <= EventLimit
    OBVIOUS
  <2>2. events \in Seq(Sequence) /\ Len(events) <= EventLimit
    BY <1>1, <2>1
  <2>3. /\ publishAttempts \in Nat /\ droppedEvents \in Nat /\ consumedEvents \in Nat
        /\ pushedBeforeStop \in Nat
    OBVIOUS
  <2>4. owed \in 0 .. 2 /\ ~(owed > 0)
    OBVIOUS
  <2>5. toApply \in Seq(Recovered) /\ applied \in Seq(Sequence)
    BY <1>1
  <2>6. datagram \in Datagram /\ sequence \in Sequence
    BY <1>2
  <2>7. /\ consumerRunning \in BOOLEAN /\ appRunning \in BOOLEAN
        /\ running \in BOOLEAN /\ stopRequested \in BOOLEAN
    OBVIOUS
  <2>8. QED
    BY <1>3, <1>4, <2>2, <2>3, <2>4, <2>5, <2>6, <2>7 DEF LiveTypeOK
<1>6. DatagramsReconcile
  BY <1>1, <1>3, <1>4 DEF DatagramsReconcile, Pushed, InDatagram, Counters
<1>7. EventsReconcile /\ ThreadsFollow /\ FeedLeftLast
  BY <1>1, <1>3 DEF EventsReconcile, ThreadsFollow, FeedLeftLast
<1>8. QED
  BY <1>5, <1>6, <1>7 DEF LiveInv

(* At every step of any thread the diagnostics balance: every datagram     *)
(* received and every event published is in one place or in one counter.   *)
THEOREM DiagnosticsBalance == LiveSpec => []LiveInv
<1>1. ASSUME LiveInv, [LiveNext]_liveVars PROVE LiveInv'
  <2>1. CASE FeedThread
    BY <1>1, <2>1, FeedProcessSteps, PublishSteps, LoopControlSteps, PopSteps, LifecycleSteps
    DEF FeedThread, RunQueued, LoopControl
  <2>2. QED
    BY <1>1, <2>1, ReceiverSteps, ConsumerSteps, MainSteps, RequestSteps DEF LiveNext
<1>2. QED
  BY LiveBegins, <1>1, PTL DEF LiveSpec

(* When main() returns no event is left in the queue, and every event that *)
(* was published is in the consumer's report or counted as dropped.        *)
THEOREM ShutdownLosesNoEvent == LiveSpec => []EventsAreDrained
<1>1. ASSUME LiveInv PROVE EventsAreDrained
  <2>1. ASSUME main = "done"
        PROVE  events = <<>> /\ consumedEvents = publishAttempts - droppedEvents
    <3>1. events = <<>>
      BY <1>1, <2>1 DEF LiveInv, ThreadsFollow
    <3>2. /\ publishAttempts = droppedEvents + consumedEvents + Len(events)
          /\ publishAttempts \in Nat /\ droppedEvents \in Nat /\ consumedEvents \in Nat
          /\ Len(events) = 0
      BY <1>1, <3>1 DEF LiveInv, EventsReconcile, LiveTypeOK
    <3>3. QED
      BY <3>1, <3>2
  <2>2. QED
    BY <2>1 DEF EventsAreDrained
<1>2. QED
  BY <1>1, DiagnosticsBalance, PTL

(* No step lets the feed leave before what was queued when the receiver    *)
(* was told to stop is processed.                                          *)
LEMMA StopStaysFirst ==
  ASSUME LiveInv, StopComesFirst, [LiveNext]_liveVars
  PROVE  StopComesFirst'
<1>t. /\ LiveTypeOK /\ ThreadsFollow /\ FeedLeftLast /\ DatagramsReconcile
      /\ queued \in Nat /\ pushedBeforeStop \in Nat /\ Pushed \in Nat
      /\ stats["datagrams"] \in Nat /\ stats["malformed"] \in Nat
  BY DEF LiveInv, LiveTypeOK, Receiver!ReceiverTypeOK, Counters, Pushed
<1> DEFINE left == /\ pc = "finish" \/ feedThread \in {"returned", "exited"}
                   /\ state # "Failed" /\ ~stopRequested
<1>1. CASE FeedThread
  <2>1. UNCHANGED <<main, receiverRunning, worker, queued, pushedBeforeStop, stopRequested>>
    BY <1>1 DEF FeedThread, EnterRunQueued, RunQueued, PopDatagram, FeedProcess, PushEvent,
       DropEvent, Publish, PopNothing, SeeReceiverStopped, RecheckEmpty, RecheckNotEmpty,
       SeeReceiverRunning, SeeStopRequest, Yield, FeedStep, LeaveRunQueued, FeedThreadEnds,
       receiving, shutdown
  <2>2. Pushed' = Pushed
    BY <2>1 DEF Pushed
  <2>3. ASSUME left' PROVE pushedBeforeStop <= stats'["datagrams"] + stats'["malformed"]
    <3>1. CASE EnterRunQueued
      BY <2>3, <3>1 DEF EnterRunQueued, StartLifecycle, shutdown
    <3>2. CASE FeedProcess
      <4>1. /\ HandlerTypeOK /\ ProcessDatagram /\ UNCHANGED <<feedThread>>
        BY <1>t, <3>2 DEF LiveTypeOK, HandlerTypeOK, FeedProcess, shutdown
      <4>2. pc # "off" /\ (pc' = "finish" => state' = "Failed")
        BY <4>1, ProcessSteps DEF InDatagram
      <4>3. feedThread = "running"
        BY <4>2, FeedBeforeConsumer
      <4>4. QED
        BY <2>3, <4>1, <4>2, <4>3
    <3>3. CASE PopDatagram \/ PushEvent \/ DropEvent
      <4>1. /\ UNCHANGED <<feedThread, stopRequested>>
            /\ \/ pc = "loop" /\ pc' = "framing"
               \/ UNCHANGED <<pc, stats, state>>
        BY <3>3 DEF PopDatagram, BeginDatagram, PushEvent, DropEvent, Publish, handlerVars,
           progress, shutdown
      <4>2. CASE pc = "loop" /\ pc' = "framing"
        BY <2>3, <4>1, <4>2, FeedBeforeConsumer
      <4>3. CASE UNCHANGED <<pc, stats, state>>
        BY <2>3, <4>1, <4>3 DEF StopComesFirst
      <4>4. QED
        BY <4>1, <4>2, <4>3
    <3>4. CASE LoopControl
      <4>1. /\ UNCHANGED <<feedThread, stopRequested, stats, state>>
            /\ pc \in {"loop", "empty", "recheck", "stopRequest"}
            /\ pc' = "finish" => ~running \/ (pc = "recheck" /\ queue = <<>>)
        BY <3>4 DEF LoopControl, PopNothing, SeeReceiverStopped, RecheckEmpty, RecheckNotEmpty,
           SeeReceiverRunning, SeeStopRequest, Yield, FeedStep, shutdown
      <4>2. feedThread = "running" /\ ~InDatagram
        BY <4>1, FeedBeforeConsumer DEF InDatagram
      <4>3. running
        BY <2>1, <2>3, <4>1, <1>t DEF FeedLeftLast
      <4>4. queue = <<>>
        BY <2>3, <4>1, <4>2, <4>3
      <4>5. Pushed = stats["datagrams"] + stats["malformed"]
        <5>1. Len(queue) = 0
          BY <4>4
        <5>2. QED
          BY <1>t, <4>2, <5>1 DEF DatagramsReconcile
      <4>6. QED
        BY <4>1, <4>5 DEF StopComesFirst
    <3>5. CASE LeaveRunQueued
      <4>1. pc = "finish" /\ stats' = stats /\ state # "Failed" /\ ~stopRequested
        BY <2>1, <2>3, <3>5 DEF LeaveRunQueued, FinishLifecycle, progress
      <4>2. QED
        BY <4>1 DEF StopComesFirst
    <3>6. CASE FeedThreadEnds
      <4>1. feedThread = "returned" /\ UNCHANGED <<stats, state, stopRequested>>
        BY <3>6 DEF FeedThreadEnds, handlerVars
      <4>2. QED
        BY <2>3, <4>1 DEF StopComesFirst
    <3>7. QED
      BY <1>1, <3>1, <3>2, <3>3, <3>4, <3>5, <3>6 DEF FeedThread, RunQueued, LoopControl
  <2>4. QED
    BY <2>1, <2>2, <2>3 DEF StopComesFirst
<1>2. CASE ReceiverThread
  <2>1. UNCHANGED <<main, pc, feedThread, state, stopRequested, stats, pushedBeforeStop>>
    BY <1>2 DEF ReceiverThread, handlerVars, shutdown
  <2>2. receiverRunning' = receiverRunning /\ Pushed' \in {Pushed, Pushed + 1}
    <3>1. CASE Receiver!Push \/ Receiver!CountQueued
      BY <1>t, <3>1 DEF Receiver!Push, Receiver!CountQueued, Pushed
    <3>2. CASE /\ ~Receiver!Push /\ ~Receiver!CountQueued
      <4>1. /\ receiverRunning' = receiverRunning /\ queued' = queued
            /\ worker # "count" /\ worker' # "count"
        <5>1. receiverRunning \in BOOLEAN
          BY <1>t DEF LiveTypeOK, Receiver!ReceiverTypeOK
        <5>2. QED
          BY <1>2, <3>2, <5>1 DEF ReceiverThread, Receiver!ReceiveLoop, Receiver!LoopCondition,
             Receiver!ReceiveNothing, Receiver!Receive, Receiver!books
      <4>2. QED
        BY <4>1 DEF Pushed
    <3>3. QED
      BY <3>1, <3>2
  <2>3. pushedBeforeStop <= Pushed'
    BY <1>t, <2>2 DEF StopComesFirst
  <2>4. QED
    BY <2>1, <2>2, <2>3 DEF StopComesFirst
<1>3. CASE StartReceiver
  <2>1. /\ main = "startReceiver" /\ worker = "none" /\ queued = 0 /\ feedThread = "none"
    BY <1>t, <1>3 DEF StartReceiver, MainStep, ThreadsFollow
  <2>2. /\ queued' = 0 /\ worker' # "count" /\ pushedBeforeStop' = pushedBeforeStop
        /\ main' = "startFeed" => receiverRunning'
        /\ main' \in {"startFeed", "terminated"}
        /\ UNCHANGED <<feedThread, pc>>
    BY <1>3, <2>1 DEF StartReceiver, MainStep, Receiver!Start, Receiver!control, handlerVars
  <2>3. pushedBeforeStop <= Pushed' /\ pc # "finish"
    BY <1>t, <2>1, <2>2 DEF StopComesFirst, Pushed, ThreadsFollow
  <2>4. QED
    BY <2>1, <2>2, <2>3 DEF StopComesFirst
<1>4. CASE StopReceiver
  <2>1. /\ main = "stopReceiver" /\ main' = "joinReceiver" /\ pushedBeforeStop' = Pushed
        /\ UNCHANGED <<pc, feedThread, state, stopRequested, stats, worker, queued>>
    BY <1>4 DEF StopReceiver, MainStep, Receiver!Stop, Receiver!books, handlerVars
  <2>2. Pushed' = Pushed /\ receiverRunning
    BY <2>1 DEF Pushed, StopComesFirst
  <2>3. ~left
    BY <1>t, <2>2 DEF FeedLeftLast
  <2>4. QED
    BY <1>t, <2>1, <2>2, <2>3 DEF StopComesFirst
<1>5. CASE Main /\ ~StartReceiver /\ ~StopReceiver
  <2>1. /\ UNCHANGED <<pc, state, stopRequested, stats, queued, pushedBeforeStop, receiverRunning>>
        /\ feedThread' = feedThread \/ (feedThread' = "running" /\ main = "startFeed")
        /\ worker' = worker \/ (worker = "exited" /\ worker' = "none")
        /\ main' \in {"startFeed", "monitor", "stopReceiver"}
             => main \in {"startFeed", "monitor", "stopReceiver"}
    BY <1>5 DEF Main, StartFeed, SeeShutdown, JoinReceiver, JoinFeed, StopConsumer, JoinConsumer,
       MainStep, Receiver!Join, Receiver!books, handlerVars, receiving
  <2>2. Pushed' = Pushed
    BY <2>1 DEF Pushed
  <2>3. left' => left
    BY <2>1
  <2>4. QED
    BY <2>1, <2>2, <2>3 DEF StopComesFirst
<1>6. CASE ConsumerThread \/ Signal \/ StopRequest \/ Finished \/ UNCHANGED liveVars
  <2>1. /\ UNCHANGED <<main, pc, feedThread, state, stats, queued, worker, pushedBeforeStop,
                        receiverRunning>>
        /\ ~stopRequested' => ~stopRequested
    BY <1>6 DEF ConsumerThread, ConsumeEvent, ConsumerStops, Signal, StopRequest, Stop, Finished,
       liveVars, handlerVars, progress, receiving, shutdown
  <2>2. QED
    BY <2>1 DEF StopComesFirst, Pushed
<1>7. QED
  BY <1>1, <1>2, <1>3, <1>4, <1>5, <1>6 DEF LiveNext

(* A shutdown nobody cut short with stop() leaves at most one datagram,    *)
(* and none that was in the queue when the receiver was told to stop.      *)
THEOREM EarlierOnesAreProcessed == LiveSpec => []EarlierDatagramsAreProcessed
<1>1. LiveInit => StopComesFirst
  BY DEF LiveInit, HandlerInit, Receiver!InitReceiver, StopComesFirst, Pushed
<1>2. ASSUME LiveInv, StopComesFirst PROVE EarlierDatagramsAreProcessed
  <2>1. ASSUME main = "done", state = "Stopped", ~stopRequested
        PROVE  /\ pushedBeforeStop <= stats["datagrams"] + stats["malformed"]
               /\ Len(queue) <= 1
    <3>1. feedThread = "exited" /\ Len(queue) \in Nat
      BY <1>2, <2>1 DEF LiveInv, ThreadsFollow, LiveTypeOK, Receiver!ReceiverTypeOK
    <3>2. Len(queue) + (IF worker \in {"receive", "push"} THEN 1 ELSE 0) <= 1
      BY <1>2, <2>1, <3>1 DEF LiveInv, FeedLeftLast
    <3>3. Len(queue) <= 1
      BY <3>1, <3>2
    <3>4. QED
      BY <1>2, <2>1, <3>1, <3>3 DEF StopComesFirst
  <2>2. QED
    BY <2>1 DEF EarlierDatagramsAreProcessed
<1>3. QED
  BY <1>1, <1>2, StopStaysFirst, DiagnosticsBalance, PTL DEF LiveSpec
=============================================================================
