---------------------------- MODULE ItchLiveProofs ----------------------------
(* The live application of the plain UDP feed as a whole, for every        *)
(* recording, record size, checkpoint interval and index left behind, and  *)
(* for every order in which its threads, Ctrl+C, the network and the       *)
(* recorder take their steps.  The first part is about the packet handler  *)
(* alone: for every sequence width, every set of packets and every answer  *)
(* of the recovery source, the market state is fed a gap-free run, the     *)
(* counters balance, and start(n) accepts n packets.                       *)
EXTENDS ItchLive, SequenceTheorems, NaturalsInduction, WellFoundedInduction, TLAPS

USE MaxSequenceAssumption, InputAssumption, QuotaAssumption

(* Every step of the handler, with whatever answer of a recovery source.   *)
HandlerStep ==
  \/ \E q \in Quotas \cup {Unlimited} : StartLifecycle(q)
  \/ FinishLifecycle \/ Stop \/ LoopCondition \/ ReceiveNothing
  \/ \E p \in Packet : ReceivePacket(p)
  \/ InSequence \/ OldPacket \/ GapNotRecovered
  \/ \E found \in Seq(Packet) : GapRecovered(found)
  \/ ProcessRecoveredPacket \/ GapClosed \/ ProcessLivePacket
  \/ UNCHANGED handlerVars

LEMMA NextIsHandlerStep == ASSUME [Next]_handlerVars PROVE HandlerStep
<1>1. /\ \A p \in Packets : p \in Packet
      /\ \A found \in Answers : found \in Seq(Packet)
  OBVIOUS
<1>2. QED
  BY <1>1 DEF Next, Start, Run, Handler, ProcessPacket, ProcessInSequence, HandlerStep

LEMMA SuccType == ASSUME NEW s \in Sequence PROVE Succ(s) \in Sequence
BY DEF Sequence, Succ

(* One more of one counter, and no other counter changes. *)
LEMMA Bumped ==
  ASSUME stats \in [Counters -> Nat], NEW c \in Counters, Bump(c)
  PROVE  /\ stats' \in [Counters -> Nat]
         /\ stats'[c] = stats[c] + 1
         /\ \A d \in Counters : d # c => stats'[d] = stats[d]
<1>1. stats[c] \in Nat /\ stats[c] + 1 \in Nat
  OBVIOUS
<1>2. QED
  BY <1>1 DEF Bump

(* One more message applied. *)
LEMMA Appended ==
  ASSUME applied \in Seq(Sequence), NEW s \in Sequence, applied' = Append(applied, s)
  PROVE  /\ applied' \in Seq(Sequence) /\ applied' # <<>>
         /\ Len(applied') = Len(applied) + 1
         /\ LastApplied' = s
BY SMT DEF LastApplied

(* The handler's part of a step that leaves what it has to sequence alone. *)
LEMMA InvariantSteps == ASSUME HandlerInv, HandlerStep PROVE HandlerInv'
<1> USE DEF HandlerInv, progress, control
<1>t. /\ stats \in [Counters -> Nat] /\ applied \in Seq(Sequence)
      /\ packet \in Packet /\ packet.seq \in Sequence /\ packet.seq \in 0 .. MaxSequence
      /\ expectedSequence \in Sequence /\ expectedSequence \in 0 .. MaxSequence
      /\ toApply \in Seq(Packet) /\ Len(toApply) \in Nat /\ Len(applied) \in Nat
      /\ stats["processed"] + stats["recovered"] = Len(applied)
  <2>1. /\ stats \in [Counters -> Nat] /\ applied \in Seq(Sequence) /\ packet \in Packet
        /\ expectedSequence \in Sequence /\ toApply \in Seq(Packet)
    BY DEF TypeOK
  <2>2. packet.seq \in Sequence
    BY <2>1 DEF Packet
  <2>3. Len(toApply) \in Nat /\ Len(applied) \in Nat
    BY <2>1
  <2>4. QED
    BY <2>1, <2>2, <2>3 DEF Sequence, CountersReconcile
<1>k. /\ "processed" \in Counters /\ "recovered" \in Counters
      /\ "ignored" \in Counters /\ "gaps" \in Counters
  BY DEF Counters
<1>c. stats["processed"] \in Nat /\ stats["recovered"] \in Nat
  BY <1>t, <1>k
<1>u. ASSUME Bump("ignored") \/ Bump("gaps")
      PROVE  /\ stats' \in [Counters -> Nat]
             /\ stats'["processed"] = stats["processed"]
             /\ stats'["recovered"] = stats["recovered"]
  BY <1>u, <1>t, <1>k, Bumped
<1>1. ASSUME NEW q \in Quotas \cup {Unlimited}, StartLifecycle(q) PROVE HandlerInv'
  <2>1. TypeOK'
    <3>1. stats' \in [Counters -> Nat] /\ expectedSequence' \in Sequence
      BY <1>1 DEF StartLifecycle, Sequence
    <3>2. applied' \in Seq(Sequence)
      BY <1>1, EmptySeq DEF StartLifecycle
    <3>3. QED
      BY <1>1, <3>1, <3>2 DEF StartLifecycle, TypeOK
  <2>2. CountersReconcile'
    BY <1>1, <1>k DEF StartLifecycle, CountersReconcile
  <2>3. QED
    BY <1>1, <2>1, <2>2 DEF StartLifecycle, ExpectedFollowsApplied, Frontier, Lifecycle
<1>2. CASE FinishLifecycle \/ Stop \/ ReceiveNothing \/ LoopCondition \/ UNCHANGED handlerVars
  <2>1. /\ TypeOK' /\ CountersReconcile'
        /\ UNCHANGED <<stats, applied, expectedSequence, hasSequence, quota, packet, toApply>>
    BY <1>2 DEF FinishLifecycle, Stop, ReceiveNothing, LoopCondition, handlerVars, TypeOK,
       CountersReconcile
  <2>2. ExpectedFollowsApplied' /\ Frontier'
    BY <1>2, <2>1 DEF FinishLifecycle, Stop, ReceiveNothing, LoopCondition, handlerVars,
       ExpectedFollowsApplied, Frontier, LastApplied
  <2>3. Lifecycle'
    <3>1. CASE FinishLifecycle \/ Stop \/ ReceiveNothing \/ UNCHANGED handlerVars
      BY <3>1, <2>1 DEF FinishLifecycle, Stop, ReceiveNothing, handlerVars, Lifecycle
    <3>2. CASE LoopCondition
      <4>1. quota # Unlimited => quota \in Nat
        BY DEF TypeOK
      <4>2. QED
        BY <3>2, <2>1, <4>1, <1>c DEF LoopCondition, Lifecycle, QuotaReached
    <3>3. QED
      BY <1>2, <3>1, <3>2
  <2>4. QED
    BY <2>1, <2>2, <2>3
<1>3. ASSUME NEW p \in Packet, ReceivePacket(p) PROVE HandlerInv'
  <2>1. TypeOK'
    BY <1>3, EmptySeq DEF ReceivePacket, TypeOK
  <2>2. QED
    BY <1>3, <2>1 DEF ReceivePacket, ExpectedFollowsApplied, CountersReconcile, Frontier,
       Lifecycle, LastApplied
<1>4. CASE InSequence
  <2>1. expectedSequence' \in Sequence
    BY <1>4, <1>t, SuccType DEF InSequence
  <2>2. TypeOK'
    BY <1>4, <2>1 DEF InSequence, TypeOK
  <2>3. Frontier'
    BY <1>4 DEF InSequence, Frontier, ExpectedFollowsApplied, LastApplied, Succ
  <2>4. QED
    BY <1>4, <2>2, <2>3 DEF InSequence, ExpectedFollowsApplied, CountersReconcile, Lifecycle
<1>5. CASE OldPacket
  <2>1. TypeOK'
    BY <1>5, <1>u DEF OldPacket, TypeOK
  <2>2. QED
    BY <1>5, <1>u, <2>1 DEF OldPacket, ExpectedFollowsApplied, CountersReconcile, Frontier,
       Lifecycle, LastApplied
<1>6. CASE GapNotRecovered
  <2>1. TypeOK'
    BY <1>6, <1>u DEF GapNotRecovered, Gap, Fail, TypeOK
  <2>2. QED
    BY <1>6, <1>u, <2>1 DEF GapNotRecovered, Gap, Fail, ExpectedFollowsApplied,
       CountersReconcile, Frontier, Lifecycle, LastApplied
<1>7. ASSUME NEW found \in Seq(Packet), GapRecovered(found) PROVE HandlerInv'
  <2>1. TypeOK'
    BY <1>7, <1>u DEF GapRecovered, Gap, TypeOK
  <2>2. /\ pc = "packet" /\ pc' = "recovered" /\ hasSequence
        /\ Len(found) = packet.seq - expectedSequence
        /\ \A i \in 1 .. Len(found) : found[i].seq = expectedSequence + i - 1
        /\ UNCHANGED <<state, running, quota, expectedSequence, hasSequence, applied, packet>>
        /\ toApply' = found
    BY <1>7 DEF GapRecovered, Gap, RecoveryIsExact
  <2>3. Frontier'
    <3>1. applied # <<>> /\ expectedSequence = Succ(LastApplied)
      BY <2>2 DEF ExpectedFollowsApplied
    <3>2. Succ(LastApplied) = packet.seq - Len(found)
      BY <1>t, <2>2, <3>1
    <3>3. ASSUME NEW i \in 1 .. Len(found)
          PROVE  found[i].seq = packet.seq - Len(found) + i - 1
      <4>1. /\ found[i].seq = expectedSequence + i - 1
            /\ Len(found) = packet.seq - expectedSequence
        BY <2>2
      <4>2. packet.seq \in Int /\ expectedSequence \in Int /\ i \in Int
        BY <1>t
      <4>3. packet.seq - Len(found) = expectedSequence
        BY <4>1, <4>2
      <4>4. QED
        BY <4>1, <4>3
    <3>4. DOMAIN found = 1 .. Len(found)
      OBVIOUS
    <3>5. QED
      BY <2>2, <3>1, <3>2, <3>3, <3>4 DEF Frontier, LastApplied, Succ
  <2>4. QED
    BY <1>7, <1>u, <2>1, <2>2, <2>3 DEF ExpectedFollowsApplied, CountersReconcile, Lifecycle, GapRecovered, Gap
<1>8. CASE ProcessRecoveredPacket
  <2>1. CASE Head(toApply).body \notin Decodable
    <3>1. /\ UNCHANGED <<stats, running, quota, packet, toApply, expectedSequence, hasSequence, applied>>
          /\ state' = "Failed" /\ pc' = "finish"
      BY <1>8, <2>1 DEF ProcessRecoveredPacket, Fail
    <3>2. TypeOK'
      BY <3>1 DEF TypeOK
    <3>3. QED
      BY <3>1, <3>2 DEF ExpectedFollowsApplied, CountersReconcile, Frontier, Lifecycle,
         LastApplied
  <2>2. CASE Head(toApply).body \in Decodable
    <3>1. /\ pc = "recovered" /\ pc' = "recovered" /\ toApply # <<>>
          /\ applied' = Append(applied, Head(toApply).seq) /\ Bump("recovered")
          /\ toApply' = Tail(toApply)
          /\ UNCHANGED <<expectedSequence, hasSequence, packet, state, running, quota>>
      BY <1>8, <2>2 DEF ProcessRecoveredPacket
    <3>2. /\ Head(toApply) = toApply[1] /\ toApply[1] \in Packet
          /\ toApply' \in Seq(Packet) /\ Len(toApply') = Len(toApply) - 1 /\ Len(toApply) > 0
          /\ DOMAIN toApply' = 1 .. Len(toApply')
          /\ \A i \in 1 .. Len(toApply') : toApply'[i] = toApply[i + 1] /\ i + 1 \in DOMAIN toApply
          /\ 1 \in DOMAIN toApply
      BY <1>t, <3>1, SMT
    <3>3. toApply[1].seq \in Sequence
      BY <3>2 DEF Packet
    <3>4. /\ applied' \in Seq(Sequence) /\ applied' # <<>>
          /\ Len(applied') = Len(applied) + 1 /\ LastApplied' = toApply[1].seq
      BY <1>t, <3>1, <3>2, <3>3, Appended
    <3>5. /\ stats' \in [Counters -> Nat] /\ stats'["recovered"] = stats["recovered"] + 1
          /\ stats'["processed"] = stats["processed"]
      BY <1>t, <1>k, <3>1, Bumped
    <3>6. TypeOK'
      BY <3>1, <3>2, <3>4, <3>5 DEF TypeOK
    <3>7. /\ toApply[1].seq = packet.seq - Len(toApply)
          /\ \A i \in 1 .. Len(toApply') : toApply'[i].seq = packet.seq - Len(toApply) + i
      <4>1. packet.seq \in Int /\ Len(toApply) \in Int /\ Len(toApply') \in Int
        BY <1>t, <3>2
      <4>2. \A i \in DOMAIN toApply : toApply[i].seq = packet.seq - Len(toApply) + i - 1
        BY <3>1 DEF Frontier
      <4>3. toApply[1].seq = packet.seq - Len(toApply)
        BY <3>2, <4>1, <4>2
      <4>4. ASSUME NEW i \in 1 .. Len(toApply')
            PROVE  toApply'[i].seq = packet.seq - Len(toApply) + i
        <5>1. toApply[i + 1].seq = packet.seq - Len(toApply) + (i + 1) - 1
          BY <3>2, <4>2
        <5>2. packet.seq - Len(toApply) + (i + 1) - 1 = packet.seq - Len(toApply) + i
          BY <4>1
        <5>3. QED
          BY <3>2, <5>1, <5>2
      <4>5. QED
        BY <4>3, <4>4
    <3>8. Succ(toApply[1].seq) = packet.seq - Len(toApply')
      BY <1>t, <3>2, <3>7 DEF Succ
    <3>9. Frontier'
      <4>1. Succ(LastApplied)' = packet'.seq - Len(toApply')
        BY <3>1, <3>4, <3>8 DEF Succ
      <4>2. \A i \in 1 .. Len(toApply') : toApply'[i].seq = packet'.seq - Len(toApply') + i - 1
        <5>1. ASSUME NEW i \in 1 .. Len(toApply')
              PROVE  toApply'[i].seq = packet'.seq - Len(toApply') + i - 1
          <6>1. packet.seq \in Int /\ Len(toApply) \in Int /\ i \in Int
            BY <1>t
          <6>2. packet.seq - Len(toApply) + i = packet.seq - (Len(toApply) - 1) + i - 1
            BY <6>1
          <6>3. QED
            BY <3>1, <3>2, <3>7, <6>2
        <5>2. QED
          BY <5>1
      <4>3. QED
        BY <3>1, <3>2, <3>4, <4>1, <4>2 DEF Frontier
    <3>10. CountersReconcile'
      BY <1>t, <1>c, <3>4, <3>5 DEF CountersReconcile
    <3>11. QED
      BY <3>1, <3>5, <3>6, <3>9, <3>10 DEF ExpectedFollowsApplied, Lifecycle
  <2>3. QED
    BY <2>1, <2>2
<1>9. CASE GapClosed
  <2>1. /\ pc = "recovered" /\ pc' = "live" /\ toApply = <<>>
        /\ expectedSequence' = Succ(packet.seq)
        /\ UNCHANGED <<hasSequence, stats, packet, toApply, applied, state, running, quota>>
    BY <1>9 DEF GapClosed
  <2>2. expectedSequence' \in Sequence
    BY <1>t, <2>1, SuccType
  <2>3. TypeOK'
    BY <2>1, <2>2 DEF TypeOK
  <2>4. packet.seq = Succ(LastApplied)
    BY <1>t, <2>1 DEF Frontier
  <2>5. Frontier'
    BY <2>1, <2>4 DEF Frontier, LastApplied, Succ
  <2>6. QED
    BY <2>1, <2>3, <2>5 DEF ExpectedFollowsApplied, CountersReconcile, Lifecycle
<1>10. CASE ProcessLivePacket
  <2>1. CASE packet.body \notin Decodable
    <3>1. /\ UNCHANGED <<stats, running, quota, packet, toApply, expectedSequence, hasSequence, applied>>
          /\ state' = "Failed" /\ pc' = "finish"
      BY <1>10, <2>1 DEF ProcessLivePacket, Fail
    <3>2. TypeOK'
      BY <3>1 DEF TypeOK
    <3>3. QED
      BY <3>1, <3>2 DEF ExpectedFollowsApplied, CountersReconcile, Frontier, Lifecycle,
         LastApplied
  <2>2. CASE packet.body \in Decodable
    <3>1. /\ pc = "live" /\ pc' = "loop"
          /\ applied' = Append(applied, packet.seq) /\ Bump("processed")
          /\ UNCHANGED <<expectedSequence, hasSequence, packet, toApply, state, running, quota>>
      BY <1>10, <2>2 DEF ProcessLivePacket
    <3>2. /\ applied' \in Seq(Sequence) /\ applied' # <<>>
          /\ Len(applied') = Len(applied) + 1 /\ LastApplied' = packet.seq
      BY <1>t, <3>1, Appended
    <3>3. /\ stats' \in [Counters -> Nat] /\ stats'["processed"] = stats["processed"] + 1
          /\ stats'["recovered"] = stats["recovered"]
      BY <1>t, <1>k, <3>1, Bumped
    <3>4. TypeOK'
      BY <3>1, <3>2, <3>3 DEF TypeOK
    <3>5. CountersReconcile'
      BY <1>t, <1>c, <3>2, <3>3 DEF CountersReconcile
    <3>6. ExpectedFollowsApplied'
      BY <3>1, <3>2 DEF ExpectedFollowsApplied, Frontier, Succ
    <3>7. QED
      BY <3>1, <3>4, <3>5, <3>6 DEF Frontier, Lifecycle
  <2>3. QED
    BY <2>1, <2>2
<1>11. QED
  BY <1>1, <1>2, <1>3, <1>4, <1>5, <1>6, <1>7, <1>8, <1>9, <1>10 DEF HandlerStep

LEMMA InvariantBegins == HandlerInit => HandlerInv
<1> SUFFICES ASSUME HandlerInit PROVE HandlerInv
  OBVIOUS
<1>1. packet \in Packet
  BY DEF HandlerInit, Packet, Sequence
<1>2. TypeOK
  <2>1. <<>> \in Seq(Packet) /\ <<>> \in Seq(Sequence)
    BY EmptySeq
  <2>2. stats \in [Counters -> Nat] /\ expectedSequence \in Sequence
    BY DEF HandlerInit, Sequence
  <2>3. QED
    BY <1>1, <2>1, <2>2 DEF HandlerInit, TypeOK
<1>3. QED
  BY <1>2 DEF HandlerInit, HandlerInv, ExpectedFollowsApplied, CountersReconcile, Frontier,
     Lifecycle, Counters

(* The inductive invariant: types, counters, and where the handler is      *)
(* between the last message applied and the packet that showed a gap.      *)
THEOREM HandlerIsSound == Spec => []HandlerInv
<1>1. HandlerInv /\ [Next]_handlerVars => HandlerInv'
  BY NextIsHandlerStep, InvariantSteps
<1>2. QED
  BY InvariantBegins, <1>1, PTL DEF Spec

(* start(n) accepts n packets, no more, and fewer only after a failure or  *)
(* a stop().                                                               *)
THEOREM QuotaMet == Spec => []QuotaIsMet
<1>1. ASSUME HandlerInv, QuotaIsMet, HandlerStep PROVE QuotaIsMet'
  <2>t. /\ stats \in [Counters -> Nat]
        /\ quota # Unlimited => quota \in Nat
        /\ "processed" \in Counters /\ "recovered" \in Counters
        /\ "ignored" \in Counters /\ "gaps" \in Counters
    BY <1>1 DEF HandlerInv, TypeOK, Counters
  <2>u. /\ stats["processed"] \in Nat
        /\ Bump("ignored") \/ Bump("gaps") \/ Bump("recovered")
             => stats'["processed"] = stats["processed"]
        /\ Bump("processed") => stats'["processed"] = stats["processed"] + 1
    <3>1. stats["processed"] \in Nat
      BY <2>t
    <3>2. ASSUME NEW c \in Counters, c # "processed", Bump(c)
          PROVE  stats'["processed"] = stats["processed"]
      BY <2>t, <3>2, Bumped
    <3>3. ASSUME Bump("processed") PROVE stats'["processed"] = stats["processed"] + 1
      BY <2>t, <3>3, Bumped
    <3>4. QED
      BY <2>t, <3>1, <3>2, <3>3
  <2>1. ASSUME NEW q \in Quotas \cup {Unlimited}, StartLifecycle(q) PROVE QuotaIsMet'
    <3>1. q # Unlimited => q \in Nat
      OBVIOUS
    <3>2. QED
      BY <2>1, <2>t, <3>1 DEF StartLifecycle, QuotaIsMet
  <2>2. CASE FinishLifecycle \/ Stop \/ ReceiveNothing \/ UNCHANGED handlerVars
    BY <1>1, <2>2 DEF FinishLifecycle, Stop, ReceiveNothing, handlerVars, control, QuotaIsMet
  <2>3. CASE LoopCondition
    BY <1>1, <2>3, <2>t, <2>u DEF LoopCondition, control, QuotaIsMet, QuotaReached
  <2>4. ASSUME NEW p \in Packet, ReceivePacket(p) PROVE QuotaIsMet'
    BY <1>1, <2>4 DEF ReceivePacket, control, QuotaIsMet
  <2>5. CASE InSequence \/ OldPacket \/ GapClosed
    BY <1>1, <2>5, <2>u DEF InSequence, OldPacket, GapClosed, control, QuotaIsMet
  <2>6. CASE GapNotRecovered
    BY <1>1, <2>6, <2>u DEF GapNotRecovered, Gap, Fail, QuotaIsMet
  <2>7. ASSUME NEW found \in Seq(Packet), GapRecovered(found) PROVE QuotaIsMet'
    BY <1>1, <2>7, <2>u DEF GapRecovered, Gap, control, QuotaIsMet
  <2>8. CASE ProcessRecoveredPacket
    BY <1>1, <2>8, <2>u DEF ProcessRecoveredPacket, Fail, control, QuotaIsMet
  <2>9. CASE ProcessLivePacket
    <3>1. quota # Unlimited => stats["processed"] < quota
      BY <1>1, <2>9 DEF ProcessLivePacket, HandlerInv, Lifecycle
    <3>2. QED
      BY <1>1, <2>9, <2>t, <2>u, <3>1 DEF ProcessLivePacket, Fail, control, QuotaIsMet
  <2>10. QED
    BY <1>1, <2>1, <2>2, <2>3, <2>4, <2>5, <2>6, <2>7, <2>8, <2>9 DEF HandlerStep
<1>2. HandlerInit => QuotaIsMet
  BY DEF HandlerInit, QuotaIsMet
<1>3. QED
  BY <1>1, <1>2, NextIsHandlerStep, HandlerIsSound, PTL DEF Spec

(* Every step of the handler is one of SequencedFeed's, or none. *)
LEMMA StepsAreTheFeeds == ASSUME HandlerInv, HandlerStep
                          PROVE  [Feed!FeedNext]_<<state, applied>>
<1> USE DEF HandlerInv, progress, control
<1>1. ASSUME NEW q \in Quotas \cup {Unlimited}, StartLifecycle(q) PROVE Feed!Open
  BY <1>1 DEF StartLifecycle, Feed!Open, Lifecycle
<1>2. CASE FinishLifecycle
  BY <1>2 DEF FinishLifecycle, Feed!FeedNext, Feed!Close, TypeOK
<1>3. CASE GapNotRecovered
  BY <1>3 DEF GapNotRecovered, Gap, Fail, Feed!FeedNext, Feed!Break, Lifecycle
<1>4. CASE ProcessRecoveredPacket
  <2>1. CASE Head(toApply).body \in Decodable
    <3>1. /\ Len(toApply) > 0 /\ Head(toApply) = toApply[1] /\ toApply[1] \in Packet
          /\ 1 \in DOMAIN toApply
      BY <1>4, SMT DEF ProcessRecoveredPacket, TypeOK
    <3>2. toApply[1].seq \in 0 .. MaxSequence /\ packet.seq \in Int /\ Len(toApply) \in Int
      BY <3>1 DEF Packet, Sequence, TypeOK
    <3>3. /\ state = "Running" /\ state' = state
          /\ applied' = Append(applied, toApply[1].seq)
      BY <1>4, <2>1, <3>1 DEF ProcessRecoveredPacket, Lifecycle
    <3>4. /\ Succ(LastApplied) = packet.seq - Len(toApply)
          /\ toApply[1].seq = packet.seq - Len(toApply) + 1 - 1
      BY <1>4, <3>1 DEF ProcessRecoveredPacket, Frontier
    <3>5. toApply[1].seq = Feed!Successor(applied[Len(applied)])
      BY <3>2, <3>4 DEF Succ, LastApplied, Feed!Successor
    <3>6. QED
      BY <3>2, <3>3, <3>5 DEF Feed!Apply, Feed!FeedNext
  <2>2. CASE Head(toApply).body \notin Decodable
    BY <1>4, <2>2 DEF ProcessRecoveredPacket, Fail, Feed!FeedNext, Feed!Break, Lifecycle
  <2>3. QED
    BY <2>1, <2>2
<1>5. CASE ProcessLivePacket
  <2>1. CASE packet.body \in Decodable
    <3>1. /\ state = "Running" /\ state' = state
          /\ applied' = Append(applied, packet.seq)
          /\ applied # <<>> => packet.seq = Succ(LastApplied)
      BY <1>5, <2>1 DEF ProcessLivePacket, Frontier, Lifecycle
    <3>2. packet.seq \in 0 .. MaxSequence
      BY DEF TypeOK, Packet, Sequence
    <3>3. QED
      BY <3>1, <3>2 DEF Feed!Apply, Feed!FeedNext, Feed!Successor, Succ, LastApplied
  <2>2. CASE packet.body \notin Decodable
    BY <1>5, <2>2 DEF ProcessLivePacket, Fail, Feed!FeedNext, Feed!Break, Lifecycle
  <2>3. QED
    BY <2>1, <2>2
<1>6. CASE \/ Stop \/ LoopCondition \/ ReceiveNothing \/ InSequence \/ OldPacket
           \/ GapClosed \/ UNCHANGED handlerVars
           \/ \E p \in Packet : ReceivePacket(p)
           \/ \E found \in Seq(Packet) : GapRecovered(found)
  BY <1>6 DEF Stop, LoopCondition, ReceiveNothing, InSequence, OldPacket, GapClosed,
     ReceivePacket, GapRecovered, handlerVars
<1>7. QED
  BY <1>1, <1>2, <1>3, <1>4, <1>5, <1>6 DEF HandlerStep, Feed!FeedNext

(* The packet handler keeps the promise of SequencedFeed. *)
THEOREM RefinesFeed == Spec => ImplementsFeed
<1>1. HandlerInit => Feed!FeedInit
  BY DEF HandlerInit, Feed!FeedInit
<1>2. HandlerInv /\ [Next]_handlerVars => [Feed!FeedNext]_<<state, applied>>
  BY NextIsHandlerStep, StepsAreTheFeeds
<1>3. QED
  BY <1>1, <1>2, HandlerIsSound, PTL DEF Spec, ImplementsFeed, Feed!FeedSpec
-----------------------------------------------------------------------------
(* The application *)

(* Positions in sequences, and in files of records of one size *)

(* A set of positions in a sequence has a last one. *)
LEMMA LastExists ==
  ASSUME NEW n \in Nat, NEW T \in SUBSET (1 .. n), T # {}
  PROVE  \E x \in T : \A y \in T : y <= x
<1> DEFINE Less == {p \in Nat \X Nat : p[1] < p[2]}
           U == {n - m : m \in T}
<1>1. IsWellFoundedOn(Less, Nat)
  BY NatLessThanWellFounded DEF OpToRel
<1>2. U \subseteq Nat /\ U # {}
  <2>1. ASSUME NEW m \in T PROVE n - m \in Nat
    <3>1. m \in 1 .. n
      OBVIOUS
    <3>2. QED
      BY <3>1, SMT
  <2>2. QED
    BY <2>1
<1>3. \E u \in U : \A v \in U : ~(<<v, u>> \in Less)
  <2> HIDE DEF Less, U
  <2>1. QED
    BY <1>1, <1>2, WFMin
<1>4. PICK u \in U : \A v \in U : ~(v < u)
  <2>1. PICK u \in U : \A v \in U : ~(<<v, u>> \in Less)
    BY <1>3
  <2>2. \A v \in U : <<v, u>> \in Nat \X Nat
    BY <1>2
  <2>3. QED
    BY <2>1, <2>2
<1>5. PICK x \in T : u = n - x
  OBVIOUS
<1>6. ASSUME NEW y \in T PROVE y <= x
  <2>1. ~(n - y < n - x)
    BY <1>4, <1>5
  <2>2. x \in Int /\ y \in Int
    OBVIOUS
  <2>3. QED
    BY <2>1, <2>2, SMT
<1>7. QED
  BY <1>6

(* Record k + 1 begins at byte r * k. *)
LEMMA DivOfProduct == ASSUME NEW r \in Nat \ {0}, NEW k \in Nat PROVE (r * k) \div r = k
BY SMT

(* A longer file has no fewer whole records. *)
LEMMA DivMonotonic ==
  ASSUME NEW r \in Nat \ {0}, NEW a \in Nat, NEW b \in Nat, a <= b
  PROVE  a \div r <= b \div r
BY SMT

LEMMA DivBounded == ASSUME NEW r \in Nat \ {0}, NEW a \in Nat PROVE a \div r \in 0 .. a
BY SMT

(* A file that is not as long as a record has none, any other has one. *)
LEMMA DivOfLess ==
  ASSUME NEW r \in Nat \ {0}, NEW a \in Nat
  PROVE  (a < r => a \div r = 0) /\ (a >= r => a \div r >= 1)
BY SMT
-----------------------------------------------------------------------------
USE RecordingAssumption

IInv == LiveInv /\ AppliedIsTheFeed

LEMMA RecordsType == ASSUME NEW size \in Nat PROVE Source!Records(size) \in Nat
BY DivBounded DEF Source!Records
-----------------------------------------------------------------------------
(* The recovery source *)

(* Seeking to a checkpoint and passing over records leads to the record    *)
(* the sequence number names.                                              *)
LEMMA ReadsTheRecord ==
  ASSUME Source!CheckpointsAreTrue, NEW from \in Nat, NEW n \in Nat,
         Source!CheckpointsUpTo(from) # {}
  PROVE  Source!RecordRead(from, n) = n
<1>1. /\ checkpoints \in Seq(Source!RecoveryCheckpoint)
      /\ Len(checkpoints) \in Nat /\ DOMAIN checkpoints = 1 .. Len(checkpoints)
      /\ \A k \in DOMAIN checkpoints :
           /\ checkpoints[k].sequence \in Nat \ {0}
           /\ checkpoints[k].fileOffset = RecordSize * (checkpoints[k].sequence - 1)
  <2>1. checkpoints \in Seq(Source!RecoveryCheckpoint)
    BY DEF Source!CheckpointsAreTrue
  <2>2. ASSUME NEW k \in DOMAIN checkpoints
        PROVE  /\ checkpoints[k].sequence \in Nat \ {0}
               /\ checkpoints[k].fileOffset = RecordSize * (checkpoints[k].sequence - 1)
    <3>1. checkpoints[k] \in Source!RecoveryCheckpoint
      BY <2>1, ElementOfSeq
    <3>2. QED
      BY <3>1 DEF Source!RecoveryCheckpoint, Source!CheckpointsAreTrue, Source!Offset
  <2>3. QED
    BY <2>1, <2>2
<1>2. Source!CheckpointsUpTo(from) \in SUBSET (1 .. Len(checkpoints))
  BY <1>1 DEF Source!CheckpointsUpTo
<1>3. \E k \in Source!CheckpointsUpTo(from) :
        \A m \in Source!CheckpointsUpTo(from) : m <= k
  BY <1>1, <1>2, LastExists
<1>4. PICK k \in DOMAIN checkpoints : Source!FindCheckpoint(from) = checkpoints[k]
  BY <1>1, <1>2, <1>3 DEF Source!FindCheckpoint
<1>5. checkpoints[k].fileOffset \div RecordSize = checkpoints[k].sequence - 1
  <2>1. checkpoints[k].sequence - 1 \in Nat
    BY <1>1
  <2>2. QED
    BY <1>1, <2>1, DivOfProduct
<1>6. checkpoints[k].sequence \in Int
  BY <1>1
<1>7. QED
  BY <1>4, <1>5, <1>6 DEF Source!RecordRead

(* What the source answers is the recording between the two packets.       *)
LEMMA RecoveredIsRecorded ==
  ASSUME Source!CheckpointsAreTrue, NEW from \in Nat, NEW to \in Sequence,
         to \in DOMAIN Recording, Source!Recovers(from, to)
  PROVE  /\ Source!Recovered(from, to) \in Seq(Packet)
         /\ \A i \in DOMAIN Source!Recovered(from, to) :
              Source!Recovered(from, to)[i].body
                = Recording[Source!Recovered(from, to)[i].seq]
<1>1. /\ from # 0 /\ from < to /\ Source!CheckpointsUpTo(from) # {}
      /\ to \in 0 .. MaxSequence /\ to \in Nat /\ to - from \in Nat
      /\ Recording \in Seq(Body) /\ DOMAIN Recording = 1 .. Len(Recording) /\ Len(Recording) \in Nat
  <2>1. Recording \in Seq(Body)
    BY StreamAssumption
  <2>2. DOMAIN Recording = 1 .. Len(Recording) /\ Len(Recording) \in Nat
    BY <2>1
  <2>3. to \in 0 .. MaxSequence /\ to \in Nat
    BY DEF Sequence
  <2>4. from # 0 /\ from < to /\ Source!CheckpointsUpTo(from) # {}
    BY <2>3 DEF Source!Recovers, Source!Refused
  <2>5. to - from \in Nat
    BY <2>3, <2>4
  <2>6. QED
    BY <2>1, <2>2, <2>3, <2>4, <2>5
<1>2. ASSUME NEW i \in 1 .. to - from
      PROVE  /\ from + i - 1 \in Sequence /\ from + i - 1 \in Nat /\ from + i - 1 \in DOMAIN Recording
             /\ Recording[from + i - 1] \in Body
             /\ Source!RecordRead(from, from + i - 1) = from + i - 1
  <2>1. /\ from + i - 1 \in Sequence /\ from + i - 1 \in Nat
        /\ from + i - 1 \in DOMAIN Recording
    <3>1. from + i - 1 >= 1 /\ from + i - 1 <= to /\ from + i - 1 \in Nat
      BY <1>1
    <3>2. to <= MaxSequence /\ to <= Len(Recording)
      BY <1>1
    <3>3. from + i - 1 \in 0 .. MaxSequence /\ from + i - 1 \in 1 .. Len(Recording)
      BY <1>1, <3>1, <3>2, MaxSequenceAssumption
    <3>4. QED
      BY <1>1, <3>1, <3>3 DEF Sequence
  <2>2. Recording[from + i - 1] \in Body
    BY <1>1, <2>1
  <2>3. QED
    BY <1>1, <2>1, <2>2, ReadsTheRecord
<1>3. Source!Recovered(from, to) =
        [i \in 1 .. to - from |-> [seq |-> from + i - 1, body |-> Recording[from + i - 1]]]
  BY <1>2 DEF Source!Recovered
<1>4. ASSUME NEW i \in 1 .. to - from
      PROVE  [seq |-> from + i - 1, body |-> Recording[from + i - 1]] \in Packet
  BY <1>2 DEF Packet
<1>5. Source!Recovered(from, to) \in [1 .. to - from -> Packet]
  BY <1>3, <1>4
<1>6. Source!Recovered(from, to) \in Seq(Packet)
  BY <1>1, <1>5
<1>7. QED
  BY <1>3, <1>6

(* An index that loadIndex() takes is one of all the file.                 *)
LEMMA UsableIsComplete ==
  ASSUME NEW x \in OldIndexes, Source!Usable(x), sourceFileSize \in Nat
  PROVE  /\ x.checkpoints \in Seq(Source!RecoveryCheckpoint)
         /\ \A n \in DOMAIN x.checkpoints :
              x.checkpoints[n].fileOffset = RecordSize * (x.checkpoints[n].sequence - 1)
         /\ x.records = Source!Records(sourceFileSize) /\ x.records \in Nat
         /\ x.checkpoints # <<>> /\ x.checkpoints[1].sequence = 1
         /\ Len(x.checkpoints) <= x.records
<1>1. /\ x # NoIndex /\ x.interval = CheckpointInterval /\ x.records # 0
      /\ x.size = sourceFileSize /\ x.count = (x.records - 1) \div x.interval + 1
      /\ Len(x.checkpoints) = x.count
      /\ \A n \in DOMAIN x.checkpoints : x.checkpoints[n].sequence = 1 + (n - 1) * x.interval
  BY DEF Source!Usable
<1>2. /\ x.checkpoints \in Seq(Source!RecoveryCheckpoint)
      /\ \A n \in DOMAIN x.checkpoints :
           x.checkpoints[n].fileOffset = RecordSize * (x.checkpoints[n].sequence - 1)
      /\ x.records = x.size \div RecordSize /\ x.records \in Nat
  BY <1>1, IndexAssumption DEF Source!RecoveryCheckpoint
<1>3. x.records - 1 \in Nat /\ CheckpointInterval \in Nat \ {0}
  BY <1>1, <1>2
<1>4. (x.records - 1) \div CheckpointInterval \in 0 .. x.records - 1
  BY <1>3, DivBounded
<1>5. Len(x.checkpoints) >= 1 /\ Len(x.checkpoints) <= x.records
  BY <1>1, <1>2, <1>4
<1>6. x.checkpoints # <<>> /\ 1 \in DOMAIN x.checkpoints
  BY <1>2, <1>5
<1>7. x.checkpoints[1].sequence = 1
  <2>1. x.checkpoints[1].sequence = 1 + (1 - 1) * CheckpointInterval
    BY <1>1, <1>6
  <2>2. QED
    BY <1>3, <2>1
<1>8. QED
  BY <1>1, <1>2, <1>5, <1>6, <1>7 DEF Source!Records

(* buildIndex() finds the whole records and points to every interval-th.   *)
LEMMA BuiltIsComplete ==
  ASSUME fileSize \in Nat, Source!BuildIndex
  PROVE  /\ Source!CheckpointsAreTrue'
         /\ indexedRecords' = Source!Records(fileSize) /\ Source!Records(fileSize) \in Nat
         /\ checkpoints' # <<>> /\ checkpoints'[1].sequence = 1
         /\ Len(checkpoints') \in 0 .. Source!Records(fileSize)
<1> DEFINE last == (Source!Records(fileSize) - 1) \div CheckpointInterval + 1
<1>1. /\ fileSize >= RecordSize /\ indexedRecords' = Source!Records(fileSize)
      /\ checkpoints' = [n \in 1 .. last |-> Source!CheckpointAt(n)]
  BY DEF Source!BuildIndex
<1>2. Source!Records(fileSize) \in Nat /\ Source!Records(fileSize) >= 1
  BY <1>1, RecordsType, DivOfLess DEF Source!Records
<1>3. last \in Nat /\ last >= 1 /\ last <= Source!Records(fileSize)
  <2>1. Source!Records(fileSize) - 1 \in Nat /\ CheckpointInterval \in Nat \ {0}
    BY <1>2
  <2>2. (Source!Records(fileSize) - 1) \div CheckpointInterval \in 0 .. Source!Records(fileSize) - 1
    BY <2>1, DivBounded
  <2>3. QED
    BY <1>2, <2>2
<1> HIDE DEF last
<1>4. ASSUME NEW n \in 1 .. last
      PROVE  /\ Source!CheckpointAt(n) \in Source!RecoveryCheckpoint
             /\ Source!CheckpointAt(n).fileOffset
                  = RecordSize * (Source!CheckpointAt(n).sequence - 1)
  <2>1. (n - 1) * CheckpointInterval \in Nat
    BY <1>3, SMT
  <2>2. RecordSize * ((n - 1) * CheckpointInterval) \in Nat
    BY <2>1, SMT
  <2>3. 1 + (n - 1) * CheckpointInterval - 1 = (n - 1) * CheckpointInterval
    BY <2>1
  <2>4. Source!CheckpointAt(n) =
          [sequence |-> 1 + (n - 1) * CheckpointInterval,
           fileOffset |-> RecordSize * ((n - 1) * CheckpointInterval)]
    BY <2>3 DEF Source!CheckpointAt, Source!Offset
  <2>5. 1 + (n - 1) * CheckpointInterval \in Nat \ {0}
    BY <2>1
  <2>6. QED
    BY <2>2, <2>3, <2>4, <2>5 DEF Source!RecoveryCheckpoint
<1>5. checkpoints' \in [1 .. last -> Source!RecoveryCheckpoint]
  BY <1>1, <1>4
<1>6. checkpoints' \in Seq(Source!RecoveryCheckpoint)
  BY <1>3, <1>5, SeqDef
<1>7. /\ Len(checkpoints') = last /\ DOMAIN checkpoints' = 1 .. last
      /\ \A n \in 1 .. last : checkpoints'[n] = Source!CheckpointAt(n)
  BY <1>1, <1>3
<1>8. Source!CheckpointsAreTrue'
  BY <1>4, <1>6, <1>7 DEF Source!CheckpointsAreTrue, Source!Offset
<1>9. checkpoints' # <<>> /\ checkpoints'[1].sequence = 1
  <2>1. 1 \in 1 .. last /\ checkpoints' # <<>>
    BY <1>3, <1>7
  <2>2. checkpoints'[1].sequence = 1 + (1 - 1) * CheckpointInterval
    BY <1>7, <2>1 DEF Source!CheckpointAt
  <2>3. QED
    BY <2>1, <2>2
<1>10. QED
  BY <1>1, <1>2, <1>3, <1>7, <1>8, <1>9
(* However far the constructor got, what it left in memory is an index of  *)
(* the recording, and it got ready unless there was nothing or trouble.    *)
LEMMA SourceSteps ==
  ASSUME Source!SourceTypeOK, ConstructionIsSound, [LiveNext]_liveVars
  PROVE  Source!SourceTypeOK' /\ ConstructionIsSound'
<1>t. /\ fileSize \in Nat /\ sourceFileSize \in Nat /\ sourceFileSize <= fileSize
      /\ indexedRecords \in Nat /\ present = Source!Records(sourceFileSize)
      /\ fileSize \in 0 .. RecordSize * Len(Recording)
      /\ Source!Records(sourceFileSize) \in Nat /\ Source!Records(fileSize) \in Nat
      /\ Source!Records(sourceFileSize) <= Source!Records(fileSize)
      /\ indexedRecords <= Source!Records(fileSize)
      /\ Len(checkpoints) <= indexedRecords /\ Len(checkpoints) \in Nat
  <2>1. /\ fileSize \in 0 .. RecordSize * Len(Recording) /\ sourceFileSize \in 0 .. fileSize
        /\ indexedRecords \in 0 .. Source!Records(fileSize)
        /\ present = Source!Records(sourceFileSize) /\ Len(checkpoints) <= indexedRecords
        /\ checkpoints \in Seq(Source!RecoveryCheckpoint)
    BY DEF Source!SourceTypeOK, ConstructionIsSound, Source!CheckpointsAreTrue
  <2>2. /\ fileSize \in Nat /\ sourceFileSize \in Nat /\ sourceFileSize <= fileSize
    BY <2>1
  <2>3. /\ Source!Records(sourceFileSize) \in Nat /\ Source!Records(fileSize) \in Nat
        /\ Source!Records(sourceFileSize) <= Source!Records(fileSize)
    BY <2>2, RecordsType, DivMonotonic DEF Source!Records
  <2>4. QED
    BY <2>1, <2>2, <2>3
<1>1. CASE Construct("takeSize", "index") /\ Source!TakeFileSize
  <2>1. /\ main = "takeSize" /\ main' = "index" /\ sourceFileSize' = fileSize
        /\ present' = Source!Records(fileSize)
        /\ UNCHANGED <<fileSize, index, checkpoints, indexedRecords, indexReady, trouble>>
    BY <1>1 DEF Construct, MainStep, Source!TakeFileSize
  <2>2. Source!SourceTypeOK'
    BY <2>1, <1>t DEF Source!SourceTypeOK, Source!Records
  <2>3. ~indexReady
    BY <2>1 DEF ConstructionIsSound, Constructing
  <2>4. QED
    BY <2>1, <2>2, <2>3 DEF ConstructionIsSound, Constructing, Source!CheckpointsAreTrue,
       Source!Offset
<1>2. CASE Construct("index", "open") /\ Source!LoadIndex
  <2>1. /\ main = "index" /\ main' = "open" /\ Source!Usable(index)
        /\ checkpoints' = index.checkpoints /\ indexedRecords' = index.records
        /\ UNCHANGED <<fileSize, index, sourceFileSize, indexReady, present, trouble>>
    BY <1>2 DEF Construct, MainStep, Source!LoadIndex
  <2>2. index \in OldIndexes
    BY <2>1 DEF ConstructionIsSound
  <2>3. /\ Source!CheckpointsAreTrue' /\ Source!IndexIsComplete'
        /\ indexedRecords' = Source!Records(sourceFileSize)
        /\ Len(checkpoints') <= indexedRecords'
    BY <2>1, <2>2, <1>t, UsableIsComplete
    DEF Source!CheckpointsAreTrue, Source!IndexIsComplete, Source!Offset
  <2>4. Source!SourceTypeOK'
    BY <2>1, <2>3, <1>t DEF Source!SourceTypeOK, Source!Records
  <2>5. QED
    BY <2>1, <2>3, <2>4 DEF ConstructionIsSound, Constructing
<1>3. CASE Construct("index", "save") /\ Source!BuildIndex
  <2>1. /\ main = "index" /\ main' = "save" /\ Source!BuildIndex
        /\ UNCHANGED <<fileSize, index, sourceFileSize, indexReady, present, trouble>>
    BY <1>3 DEF Construct, MainStep, Source!BuildIndex
  <2>2. /\ Source!CheckpointsAreTrue' /\ indexedRecords' = Source!Records(fileSize)
        /\ checkpoints' # <<>> /\ checkpoints'[1].sequence = 1
        /\ Len(checkpoints') \in 0 .. Source!Records(fileSize)
    BY <2>1, <1>t, BuiltIsComplete
  <2>3. Source!IndexIsComplete'
    BY <2>1, <2>2, <1>t DEF Source!IndexIsComplete
  <2>4. Source!SourceTypeOK'
    BY <2>1, <2>2, <1>t DEF Source!SourceTypeOK, Source!Records
  <2>5. QED
    BY <2>1, <2>2, <2>3, <2>4 DEF ConstructionIsSound, Constructing
<1>4. CASE Construct("index", "start") /\ Source!NothingToIndex
  <2>1. /\ main = "index" /\ main' = "start" /\ fileSize < RecordSize
        /\ UNCHANGED recovering
    BY <1>4 DEF Construct, MainStep, Source!NothingToIndex, Source!sourceVars,
       Source!source, recovering
  <2>2. present = 0
    <3>1. sourceFileSize < RecordSize
      BY <2>1, <1>t
    <3>2. sourceFileSize \div RecordSize = 0
      BY <3>1, <1>t, DivOfLess
    <3>3. QED
      BY <1>t, <3>2 DEF Source!Records
  <2>3. QED
    BY <2>1, <2>2 DEF ConstructionIsSound, Constructing, Source!SourceTypeOK, Source!Records,
       Source!CheckpointsAreTrue, Source!Offset, Source!IndexIsComplete, recovering
<1>5. CASE Construct("save", "open") /\ Source!SaveIndex
  <2>1. /\ main = "save" /\ main' = "open"
        /\ UNCHANGED <<fileSize, sourceFileSize, checkpoints, indexedRecords, indexReady,
                       present, trouble>>
    BY <1>5 DEF Construct, MainStep, Source!SaveIndex, Source!source
  <2>2. QED
    BY <2>1 DEF ConstructionIsSound, Constructing, Source!SourceTypeOK, Source!Records,
       Source!CheckpointsAreTrue, Source!Offset, Source!IndexIsComplete
<1>6. CASE Construct("save", "start") /\ Source!NothingToSave
  <2>1. /\ main = "save" /\ main' = "start" /\ sourceFileSize = 0 /\ UNCHANGED recovering
    BY <1>6 DEF Construct, MainStep, Source!NothingToSave, Source!sourceVars,
       Source!source, recovering
  <2>2. present = 0
    <3>1. 0 < RecordSize
      OBVIOUS
    <3>2. 0 \div RecordSize = 0
      BY <3>1, DivOfLess
    <3>3. QED
      BY <2>1, <1>t, <3>2 DEF Source!Records
  <2>3. QED
    BY <2>1, <2>2 DEF ConstructionIsSound, Constructing, Source!SourceTypeOK, Source!Records,
       Source!CheckpointsAreTrue, Source!Offset, Source!IndexIsComplete, recovering
<1>7. CASE Construct("open", "start") /\ Source!OpenRecoveryFile
  <2>1. /\ main = "open" /\ main' = "start" /\ indexReady' = TRUE
        /\ UNCHANGED <<fileSize, index, sourceFileSize, checkpoints, indexedRecords,
                       present, trouble>>
    BY <1>7 DEF Construct, MainStep, Source!OpenRecoveryFile
  <2>2. QED
    BY <2>1 DEF ConstructionIsSound, Constructing, Source!SourceTypeOK, Source!Records,
       Source!CheckpointsAreTrue, Source!Offset, Source!IndexIsComplete
<1>8. CASE \/ Construct("save", "start") /\ Source!SaveFails
           \/ \E at \in {"takeSize", "index", "open"} :
                Construct(at, "start") /\ Source!InitializeFails
  <2>1. /\ main' = "start" /\ trouble' = TRUE
        /\ UNCHANGED <<fileSize, sourceFileSize, checkpoints, indexedRecords, indexReady,
                       present>>
    BY <1>8 DEF Construct, MainStep, Source!SaveFails, Source!InitializeFails, Source!source
  <2>2. QED
    BY <2>1 DEF ConstructionIsSound, Constructing, Source!SourceTypeOK, Source!Records,
       Source!CheckpointsAreTrue, Source!Offset, Source!IndexIsComplete
<1>9. CASE Recorder
  <2>1. /\ fileSize' \in FileSizes /\ fileSize' > fileSize
        /\ UNCHANGED <<index, sourceFileSize, checkpoints, indexedRecords, indexReady,
                       present, trouble, main>>
    BY <1>9 DEF Recorder, Source!Record, Source!source
  <2>2. fileSize' \in 0 .. RecordSize * Len(Recording) /\ fileSize' \in Nat
    BY <2>1
  <2>3. Source!Records(fileSize) <= Source!Records(fileSize') /\ Source!Records(fileSize') \in Nat
    <3>1. fileSize \in Nat /\ fileSize <= fileSize'
      BY <2>1, <2>2, <1>t
    <3>2. fileSize \div RecordSize <= fileSize' \div RecordSize
      BY ONLY <2>2, <3>1, RecordingAssumption, DivMonotonic
    <3>3. Source!Records(fileSize') \in Nat
      BY <2>2, RecordsType
    <3>4. QED
      BY <3>2, <3>3 DEF Source!Records
  <2>4. Source!SourceTypeOK'
    <3>1. indexedRecords <= Source!Records(fileSize') /\ sourceFileSize <= fileSize'
      BY <2>1, <2>2, <2>3, <1>t
    <3>2. /\ sourceFileSize' \in 0 .. fileSize'
          /\ indexedRecords' \in 0 .. Source!Records(fileSize')
      BY <2>1, <2>2, <2>3, <1>t, <3>1
    <3>3. QED
      BY <2>1, <2>2, <3>2 DEF Source!SourceTypeOK, Source!Records
  <2>5. QED
    BY <2>1, <2>4 DEF ConstructionIsSound, Constructing, Source!CheckpointsAreTrue,
       Source!Offset, Source!IndexIsComplete
<1>10. ASSUME UNCHANGED <<fileSize, index, sourceFileSize, checkpoints, indexedRecords,
                         indexReady, present>>,
              trouble' = trouble \/ trouble' = TRUE,
              \/ main' = main
              \/ ~Constructing /\ main' \notin {"takeSize", "index", "save", "open"}
       PROVE  Source!SourceTypeOK' /\ ConstructionIsSound'
  <2>1. Source!SourceTypeOK'
    BY <1>10 DEF Source!SourceTypeOK, Source!Records
  <2>2. Source!CheckpointsAreTrue' /\ (Source!IndexIsComplete => Source!IndexIsComplete')
    BY <1>10 DEF ConstructionIsSound, Source!CheckpointsAreTrue, Source!Offset,
       Source!IndexIsComplete
  <2>3. QED
    BY <1>10, <2>1, <2>2 DEF ConstructionIsSound, Constructing
<1>11. CASE FeedThread \/ ConsumerThread \/ Signal \/ Finished \/ UNCHANGED liveVars
  <2>1. /\ UNCHANGED <<fileSize, index, sourceFileSize, checkpoints, indexedRecords,
                        indexReady, present>>
        /\ main' = main
        /\ trouble' = trouble \/ trouble' = TRUE
    <3>1. CASE RunStep
      BY <3>1 DEF RunStep, RecoverGap, recovering
    <3>2. CASE EnterRun \/ PushEvent \/ DropEvent \/ LeaveRun \/ FeedThreadEnds
      BY <3>2 DEF EnterRun, PushEvent, DropEvent, Publish, LeaveRun, FeedThreadEnds, recovering
    <3>3. CASE ConsumerThread \/ Signal \/ Finished \/ UNCHANGED liveVars
      BY <3>3 DEF ConsumerThread, ConsumeEvent, ConsumerStops, Signal, Finished, liveVars,
         recovering
    <3>4. QED
      BY <1>11, <3>1, <3>2, <3>3 DEF FeedThread
  <2>2. QED
    BY <1>10, <2>1
<1>13. CASE StartThreads \/ StopFeed \/ JoinFeed \/ JoinConsumer
  BY <1>10, <1>13 DEF StartThreads, StopFeed, JoinFeed, JoinConsumer, recovering, MainStep,
     Constructing
<1>14. QED
  BY <1>1, <1>2, <1>3, <1>4, <1>5, <1>6, <1>7, <1>8, <1>9, <1>11, <1>13
  DEF LiveNext, Main, ConstructSource
-----------------------------------------------------------------------------
(* The feed *)

(* A step of run() applies the next recovered packet, the live one or none.*)
LEMMA RunApplies ==
  ASSUME RunStep
  PROVE  \/ applied' = applied
         \/ /\ pc = "recovered" /\ toApply # <<>>
            /\ applied' = Append(applied, Head(toApply).seq)
         \/ pc = "live" /\ applied' = Append(applied, packet.seq)
<1> USE DEF progress
<1>1. CASE RecoverGap
  BY <1>1 DEF RecoverGap, GapRecovered, GapNotRecovered, Fail
<1>2. CASE LoopCondition \/ ReceiveNothing \/ \E p \in Packets : ReceivePacket(p)
  BY <1>2 DEF LoopCondition, ReceiveNothing, ReceivePacket
<1>3. CASE InSequence \/ OldPacket \/ GapClosed
  BY <1>3 DEF InSequence, OldPacket, GapClosed
<1>4. CASE ProcessRecoveredPacket
  BY <1>4 DEF ProcessRecoveredPacket, Fail
<1>5. CASE ProcessLivePacket
  BY <1>5 DEF ProcessLivePacket, Fail
<1>6. QED
  BY <1>1, <1>2, <1>3, <1>4, <1>5 DEF RunStep, FeedStep, ProcessInSequence

LEMMA AppendedIsTheFeed ==
  ASSUME applied \in Seq(Sequence), appliedBodies \in Seq(Body), AppliedIsTheFeed,
         NEW s \in Sequence, NEW b \in Body, b = Recording[s],
         applied' = Append(applied, s), appliedBodies' = Append(appliedBodies, b)
  PROVE  AppliedIsTheFeed' /\ appliedBodies' \in Seq(Body)
<1>1. /\ Len(applied') = Len(applied) + 1 /\ Len(appliedBodies') = Len(appliedBodies) + 1
      /\ Len(applied) = Len(appliedBodies) /\ Len(applied) \in Nat
      /\ appliedBodies' \in Seq(Body)
      /\ DOMAIN applied' = 1 .. Len(applied) + 1 /\ DOMAIN applied = 1 .. Len(applied)
      /\ applied'[Len(applied) + 1] = s /\ appliedBodies'[Len(applied) + 1] = b
      /\ \A i \in 1 .. Len(applied) :
           applied'[i] = applied[i] /\ appliedBodies'[i] = appliedBodies[i]
  BY DEF AppliedIsTheFeed
<1>2. ASSUME NEW i \in 1 .. Len(applied) + 1 PROVE appliedBodies'[i] = Recording[applied'[i]]
  <2>1. CASE i = Len(applied) + 1
    BY <1>1, <2>1
  <2>2. CASE i # Len(applied) + 1
    <3>1. i \in 1 .. Len(applied)
      BY <1>1, <2>2
    <3>2. QED
      BY <1>1, <3>1 DEF AppliedIsTheFeed
  <2>3. QED
    BY <2>1, <2>2
<1>3. QED
  BY <1>1, <1>2 DEF AppliedIsTheFeed

(* Every step of the application is one of the handler's, and keeps what   *)
(* is pending and what was applied on the recording.                       *)
LEMMA FeedSteps ==
  ASSUME IInv, [LiveNext]_liveVars
  PROVE  /\ HandlerStep /\ PendingIsTheFeed' /\ AppliedIsTheFeed'
         /\ appliedBodies' \in Seq(Body)
<1>t. /\ packet \in Packet /\ packet.seq \in Sequence /\ packet.body \in Body
      /\ expectedSequence \in Nat /\ toApply \in Seq(Packet)
      /\ applied \in Seq(Sequence) /\ appliedBodies \in Seq(Body)
      /\ PendingIsTheFeed /\ AppliedIsTheFeed /\ Source!CheckpointsAreTrue
  <2>1. /\ packet \in Packet /\ expectedSequence \in Sequence /\ toApply \in Seq(Packet)
        /\ applied \in Seq(Sequence) /\ appliedBodies \in Seq(Body)
        /\ PendingIsTheFeed /\ AppliedIsTheFeed /\ Source!CheckpointsAreTrue
    BY DEF IInv, LiveInv, HandlerInv, TypeOK, LiveTypeOK, ConstructionIsSound
  <2>2. packet.seq \in Sequence /\ packet.body \in Body /\ expectedSequence \in Nat
    BY <2>1 DEF Packet, Sequence
  <2>3. QED
    BY <2>1, <2>2
<1>1. CASE EnterRun
  <2>1. /\ Run /\ applied' = <<>> /\ appliedBodies' = <<>> /\ pc' = "loop"
    BY <1>1 DEF EnterRun, Run, StartLifecycle
  <2>2. HandlerStep
    BY <2>1 DEF Run, HandlerStep
  <2>3. appliedBodies' \in Seq(Body) /\ AppliedIsTheFeed'
    BY <2>1, EmptySeq DEF AppliedIsTheFeed
  <2>4. QED
    BY <2>1, <2>2, <2>3 DEF PendingIsTheFeed
<1>2. CASE RunStep
  <2>1. HandlerStep /\ PendingIsTheFeed'
    <3>1. CASE GapNotRecovered
      BY <3>1 DEF HandlerStep, GapNotRecovered, Fail, PendingIsTheFeed
    <3>2. CASE /\ Source!Recovers(expectedSequence, packet.seq)
               /\ GapRecovered(Source!Recovered(expectedSequence, packet.seq))
      <4> DEFINE found == Source!Recovered(expectedSequence, packet.seq)
      <4>1. /\ pc = "packet" /\ pc' = "recovered" /\ toApply' = found /\ packet' = packet
        BY <3>2 DEF GapRecovered, Gap
      <4>2. packet.seq \in DOMAIN Recording /\ packet.body = Recording[packet.seq]
        BY <1>t, <4>1 DEF PendingIsTheFeed
      <4>3. /\ found \in Seq(Packet)
            /\ \A i \in DOMAIN found : found[i].body = Recording[found[i].seq]
        BY <1>t, <3>2, <4>2, RecoveredIsRecorded
      <4> HIDE DEF found
      <4>4. HandlerStep
        BY <3>2, <4>3 DEF HandlerStep, found
      <4>5. QED
        BY <4>1, <4>2, <4>3, <4>4 DEF PendingIsTheFeed
    <3>3. ASSUME NEW p \in Packets, ReceivePacket(p)
          PROVE  HandlerStep /\ PendingIsTheFeed'
      <4>1. p \in Packet /\ p.seq \in DOMAIN Recording /\ p.body = Recording[p.seq]
        BY StreamAssumption, InputAssumption
      <4>2. pc' = "packet" /\ packet' = p
        BY <3>3 DEF ReceivePacket
      <4>3. QED
        BY <3>3, <4>1, <4>2 DEF HandlerStep, PendingIsTheFeed
    <3>4. CASE LoopCondition \/ ReceiveNothing \/ OldPacket
      BY <3>4 DEF LoopCondition, ReceiveNothing, OldPacket, HandlerStep, PendingIsTheFeed
    <3>5. CASE InSequence \/ GapClosed
      BY <1>t, <3>5 DEF InSequence, GapClosed, HandlerStep, PendingIsTheFeed
    <3>6. CASE ProcessLivePacket
      BY <3>6 DEF ProcessLivePacket, Fail, HandlerStep, PendingIsTheFeed
    <3>7. CASE ProcessRecoveredPacket
      <4>1. CASE pc' = "finish"
        BY <3>7, <4>1 DEF HandlerStep, PendingIsTheFeed
      <4>2. CASE pc' # "finish"
        <5>1. /\ pc = "recovered" /\ pc' = "recovered" /\ toApply # <<>>
              /\ toApply' = Tail(toApply) /\ packet' = packet
          BY <3>7, <4>2 DEF ProcessRecoveredPacket, Fail
        <5>2. \A i \in DOMAIN toApply' : i + 1 \in DOMAIN toApply /\ toApply'[i] = toApply[i + 1]
          BY <1>t, <5>1, SMT
        <5>3. QED
          BY <1>t, <3>7, <5>1, <5>2 DEF HandlerStep, PendingIsTheFeed
      <4>3. QED
        BY <4>1, <4>2
    <3>8. QED
      BY <1>2, <3>1, <3>2, <3>3, <3>4, <3>5, <3>6, <3>7
      DEF RunStep, RecoverGap, FeedStep, ProcessInSequence
  <2>2. AppliedIsTheFeed' /\ appliedBodies' \in Seq(Body)
    <3>1. CASE applied' = applied
      <4>1. appliedBodies' = appliedBodies
        BY <1>2, <3>1 DEF RunStep
      <4>2. QED
        BY <1>t, <3>1, <4>1 DEF AppliedIsTheFeed
    <3>2. CASE /\ pc = "recovered" /\ toApply # <<>> /\ applied' # applied
               /\ applied' = Append(applied, Head(toApply).seq)
      <4>1. appliedBodies' = Append(appliedBodies, Head(toApply).body)
        BY <1>2, <3>2 DEF RunStep
      <4>2. Head(toApply) = toApply[1] /\ toApply[1] \in Packet /\ 1 \in DOMAIN toApply
        BY <1>t, <3>2, SMT
      <4>3. /\ toApply[1].seq \in Sequence /\ toApply[1].body \in Body
            /\ toApply[1].body = Recording[toApply[1].seq]
        BY <1>t, <3>2, <4>2 DEF Packet, PendingIsTheFeed
      <4>4. QED
        BY <1>t, <3>2, <4>1, <4>2, <4>3, AppendedIsTheFeed
    <3>3. CASE pc = "live" /\ applied' # applied /\ applied' = Append(applied, packet.seq)
      <4>1. appliedBodies' = Append(appliedBodies, packet.body)
        BY <1>2, <3>3 DEF RunStep
      <4>2. packet.body = Recording[packet.seq]
        BY <1>t, <3>3 DEF PendingIsTheFeed
      <4>3. QED
        BY <1>t, <3>3, <4>1, <4>2, AppendedIsTheFeed
    <3>4. QED
      BY <1>2, <3>1, <3>2, <3>3, RunApplies
  <2>3. QED
    BY <2>1, <2>2
<1>3. CASE LeaveRun
  BY <1>t, <1>3 DEF LeaveRun, FinishLifecycle, progress, HandlerStep, PendingIsTheFeed,
     AppliedIsTheFeed
<1>4. CASE StopFeed
  BY <1>t, <1>4 DEF StopFeed, MainStep, Stop, progress, HandlerStep, PendingIsTheFeed,
     AppliedIsTheFeed
<1>5. CASE UNCHANGED <<handlerVars, appliedBodies>>
  BY <1>t, <1>5 DEF HandlerStep, handlerVars, PendingIsTheFeed, AppliedIsTheFeed
<1>6. CASE Main /\ ~StopFeed
  BY <1>5, <1>6 DEF Main, ConstructSource, Construct, MainStep, StartThreads, JoinFeed,
     JoinConsumer
<1>7. CASE \/ PushEvent \/ DropEvent \/ FeedThreadEnds \/ ConsumerThread
           \/ Signal \/ Recorder \/ Finished \/ UNCHANGED liveVars
  BY <1>5, <1>7 DEF PushEvent, DropEvent, Publish, FeedThreadEnds, ConsumerThread, ConsumeEvent,
     ConsumerStops, Signal, Recorder, Finished, liveVars
<1>8. QED
  BY <1>1, <1>2, <1>3, <1>4, <1>6, <1>7 DEF LiveNext, FeedThread
-----------------------------------------------------------------------------
(* The events and the threads *)

(* An event attempted is queued or dropped. *)
LEMMA EventsAdd ==
  ASSUME LiveTypeOK, applied \in Seq(Sequence), PushEvent \/ DropEvent,
         publishAttempts = droppedEvents + consumedEvents + Len(events)
  PROVE  /\ publishAttempts' = droppedEvents' + consumedEvents + Len(events')
         /\ publishAttempts' \in Nat /\ droppedEvents' \in Nat /\ owed' \in 0 .. 2
         /\ events' \in Seq(Sequence) /\ Len(events') <= EventLimit
<1> USE EventAssumption
<1>t. /\ publishAttempts \in Nat /\ droppedEvents \in Nat /\ consumedEvents \in Nat
      /\ events \in Seq(Sequence) /\ Len(events) \in Nat /\ Len(events) <= EventLimit
      /\ owed \in 0 .. 2 /\ (owed > 0 => applied # <<>>)
  BY DEF LiveTypeOK
<1>1. /\ owed > 0 /\ owed' = owed - 1 /\ publishAttempts' = publishAttempts + 1
      /\ \/ /\ events' = Append(events, applied[Len(applied)]) /\ Len(events) < EventLimit
            /\ droppedEvents' = droppedEvents
         \/ events' = events /\ droppedEvents' = droppedEvents + 1
  BY DEF PushEvent, DropEvent, Publish
<1>2. applied[Len(applied)] \in Sequence
  <2>1. applied # <<>>
    BY <1>t, <1>1
  <2>2. Len(applied) \in DOMAIN applied
    BY <2>1
  <2>3. QED
    BY <2>2
<1>3. CASE /\ events' = Append(events, applied[Len(applied)]) /\ Len(events) < EventLimit
           /\ droppedEvents' = droppedEvents
  <2>1. events' \in Seq(Sequence) /\ Len(events') = Len(events) + 1
    BY <1>2, <1>3, <1>t
  <2>2. QED
    BY <1>1, <1>3, <1>t, <2>1
<1>4. CASE events' = events /\ droppedEvents' = droppedEvents + 1
  BY <1>1, <1>4, <1>t
<1>5. QED
  BY <1>1, <1>3, <1>4

(* The report balances, and the threads begin and end in their order. *)
LEMMA EventSteps ==
  ASSUME IInv, [LiveNext]_liveVars, appliedBodies' \in Seq(Body)
  PROVE  LiveTypeOK' /\ EventsReconcile' /\ ThreadsFollow'
<1> USE DEF MainStep
<1>t. /\ LiveTypeOK /\ EventsReconcile /\ ThreadsFollow
      /\ publishAttempts \in Nat /\ droppedEvents \in Nat /\ consumedEvents \in Nat
      /\ events \in Seq(Sequence) /\ Len(events) \in Nat /\ Len(events) <= EventLimit
      /\ publishAttempts = droppedEvents + consumedEvents + Len(events)
      /\ owed \in 0 .. 2 /\ (owed > 0 => applied # <<>>)
      /\ applied \in Seq(Sequence) /\ Len(applied) \in Nat
      /\ toApply \in Seq(Packet) /\ packet.seq \in Sequence
  <2>1. LiveTypeOK /\ EventsReconcile /\ ThreadsFollow /\ TypeOK
    BY DEF IInv, LiveInv, HandlerInv
  <2>2. /\ publishAttempts \in Nat /\ droppedEvents \in Nat /\ consumedEvents \in Nat
        /\ events \in Seq(Sequence) /\ Len(events) \in Nat /\ Len(events) <= EventLimit
        /\ owed \in 0 .. 2 /\ (owed > 0 => applied # <<>>)
    BY <2>1 DEF LiveTypeOK
  <2>3. publishAttempts = droppedEvents + consumedEvents + Len(events)
    BY <2>1 DEF EventsReconcile
  <2>4. /\ applied \in Seq(Sequence) /\ Len(applied) \in Nat
        /\ toApply \in Seq(Packet) /\ packet \in Packet
    BY <2>1 DEF TypeOK
  <2>5. packet.seq \in Sequence
    BY <2>4 DEF Packet
  <2>6. QED
    BY <2>1, <2>2, <2>3, <2>4, <2>5
<1>1. CASE EnterRun
  <2>1. /\ feedThread = "created" /\ feedThread' = "running" /\ applied' = <<>>
        /\ UNCHANGED <<events, publishAttempts, droppedEvents, owed, consumer, consumedEvents,
                       appRunning, main>>
    BY <1>1 DEF EnterRun, Run, StartLifecycle, publishing, consuming
  <2>2. owed = 0 /\ ~(Constructing \/ main = "start")
    BY <1>t, <2>1 DEF ThreadsFollow
  <2>3. LiveTypeOK' /\ ThreadsFollow'
    BY <1>t, <2>1, <2>2 DEF LiveTypeOK, ThreadsFollow, Constructing
  <2>4. EventsReconcile'
    BY <1>t, <2>1 DEF EventsReconcile
  <2>5. QED
    BY <2>3, <2>4
<1>2. CASE RunStep
  <2>1. /\ pc # "off" /\ owed = 0
        /\ UNCHANGED <<consumer, consumedEvents, feedThread, appRunning, main>>
    BY <1>2 DEF RunStep, RecoverGap, GapRecovered, GapNotRecovered, Gap, FeedStep, LoopCondition,
       ReceiveNothing, ProcessInSequence, InSequence, OldPacket, ProcessRecoveredPacket,
       GapClosed, ProcessLivePacket, ReceivePacket, consuming
  <2>2. ThreadsFollow'
    BY <1>t, <2>1 DEF ThreadsFollow, Constructing
  <2>3. CASE applied' = applied
    <3>1. UNCHANGED <<events, publishAttempts, droppedEvents, owed>>
      BY <1>2, <2>3 DEF RunStep, publishing
    <3>2. QED
      BY <1>t, <2>1, <2>2, <2>3, <3>1 DEF LiveTypeOK, EventsReconcile
  <2>4. CASE applied' # applied
    <3>1. PICK s \in Sequence : applied' = Append(applied, s)
      <4>1. toApply # <<>> => Head(toApply).seq \in Sequence
        <5>1. toApply # <<>> => Head(toApply) \in Packet
          BY <1>t, SMT
        <5>2. QED
          BY <5>1 DEF Packet
      <4>2. QED
        BY <1>2, <1>t, <2>4, <4>1, RunApplies
    <3>2. applied' # <<>>
      BY <1>t, <3>1
    <3>3. owed' \in 0 .. 2 /\ UNCHANGED <<events, publishAttempts, droppedEvents>>
      BY <1>2, <2>4 DEF RunStep, OnMessage
    <3>4. QED
      BY <1>t, <2>1, <2>2, <3>2, <3>3 DEF LiveTypeOK, EventsReconcile
  <2>5. QED
    BY <2>3, <2>4
<1>3. CASE LeaveRun \/ FeedThreadEnds
  <2>1. /\ UNCHANGED <<applied, events, publishAttempts, droppedEvents, owed, consumer,
                       consumedEvents, main>>
        /\ feedThread' \in {"returned", "exited"} /\ feedThread' \notin {"none", "created"}
        /\ pc # "off" \/ feedThread = "returned"
    BY <1>3 DEF LeaveRun, FinishLifecycle, FeedThreadEnds, handlerVars, progress, publishing,
       consuming
  <2>2. appRunning' \in BOOLEAN
    BY <1>3, <1>t DEF LeaveRun, FeedThreadEnds, LiveTypeOK
  <2>3. ThreadsFollow'
    BY <1>t, <2>1 DEF ThreadsFollow, Constructing
  <2>4. QED
    BY <1>t, <2>1, <2>2, <2>3 DEF LiveTypeOK, EventsReconcile
<1>4. CASE ConsumeEvent
  <2>1. /\ events # <<>> /\ events' = Tail(events) /\ consumedEvents' = consumedEvents + 1
        /\ UNCHANGED <<applied, pc, publishAttempts, droppedEvents, owed, consumer, feedThread,
                       appRunning, main>>
    BY <1>4 DEF ConsumeEvent, handlerVars
  <2>2. events' \in Seq(Sequence) /\ Len(events') = Len(events) - 1
    BY <1>t, <2>1, SMT
  <2>3. Len(events') <= EventLimit /\ consumedEvents' \in Nat
    BY <1>t, <2>1, <2>2, EventAssumption
  <2>4. LiveTypeOK'
    BY <1>t, <2>1, <2>2, <2>3 DEF LiveTypeOK
  <2>5. EventsReconcile'
    BY <1>t, <2>1, <2>2 DEF EventsReconcile
  <2>6. QED
    BY <1>t, <2>1, <2>4, <2>5 DEF ThreadsFollow, Constructing
<1>5. CASE ConsumerStops \/ Signal \/ Recorder \/ Finished \/ UNCHANGED liveVars
  <2>1. /\ UNCHANGED <<applied, pc, publishAttempts, droppedEvents, owed, consumedEvents, events,
                       feedThread, main>>
        /\ appRunning' = appRunning \/ appRunning' = FALSE
        /\ consumer' = consumer \/ consumer' \in {"drain", "exited"}
    BY <1>5 DEF ConsumerStops, Signal, Recorder, Finished, liveVars, handlerVars, publishing,
       consuming
  <2>2. LiveTypeOK'
    BY <1>t, <2>1 DEF LiveTypeOK
  <2>3. EventsReconcile'
    BY <1>t, <2>1 DEF EventsReconcile
  <2>4. ThreadsFollow'
    BY <1>t, <2>1 DEF ThreadsFollow, Constructing
  <2>5. QED
    BY <2>2, <2>3, <2>4
<1>6. CASE ConstructSource
  <2>1. /\ UNCHANGED <<applied, pc, publishAttempts, droppedEvents, owed, consumedEvents, events,
                       feedThread, appRunning, consumer>>
        /\ Constructing /\ main' \in {"index", "save", "open", "start"}
    BY <1>6 DEF ConstructSource, Construct, handlerVars, publishing, consuming, Constructing
  <2>2. QED
    BY <1>t, <2>1 DEF LiveTypeOK, EventsReconcile, ThreadsFollow, Constructing
<1>7. CASE StartThreads
  <2>1. /\ UNCHANGED <<applied, pc, publishAttempts, droppedEvents, owed, consumedEvents, events,
                       appRunning>>
        /\ main = "start" /\ main' = "monitor" /\ consumer' = "loop" /\ feedThread' = "created"
    BY <1>7 DEF StartThreads, handlerVars, publishing
  <2>2. QED
    BY <1>t, <2>1 DEF LiveTypeOK, EventsReconcile, ThreadsFollow, Constructing
<1>8. CASE StopFeed \/ JoinFeed \/ JoinConsumer
  <2>1. /\ UNCHANGED <<applied, pc, publishAttempts, droppedEvents, owed, consumedEvents, events,
                       appRunning, consumer, feedThread>>
        /\ main' \in {"joinFeed", "joinConsumer", "done"}
        /\ main \in {"monitor", "joinFeed", "joinConsumer"}
    BY <1>8 DEF StopFeed, JoinFeed, JoinConsumer, Stop, handlerVars, progress, publishing,
       consuming
  <2>2. QED
    BY <1>t, <2>1 DEF LiveTypeOK, EventsReconcile, ThreadsFollow, Constructing
<1>9. CASE PushEvent \/ DropEvent
  <2>1. /\ owed > 0 /\ owed' = owed - 1
        /\ UNCHANGED <<applied, pc, consumer, consumedEvents, feedThread, appRunning, main>>
    BY <1>9 DEF PushEvent, DropEvent, Publish, handlerVars, consuming
  <2>2. /\ publishAttempts' = droppedEvents' + consumedEvents + Len(events')
        /\ publishAttempts' \in Nat /\ droppedEvents' \in Nat /\ owed' \in 0 .. 2
        /\ events' \in Seq(Sequence) /\ Len(events') <= EventLimit
    BY <1>t, <1>9, EventsAdd
  <2>3. LiveTypeOK' /\ EventsReconcile'
    BY <1>t, <2>1, <2>2 DEF LiveTypeOK, EventsReconcile
  <2>4. feedThread \notin {"none", "created"}
    BY <1>t, <2>1 DEF ThreadsFollow
  <2>5. QED
    BY <1>t, <2>1, <2>3, <2>4 DEF ThreadsFollow, Constructing
<1>10. QED
  BY <1>1, <1>2, <1>3, <1>4, <1>5, <1>6, <1>7, <1>8, <1>9
  DEF LiveNext, FeedThread, ConsumerThread, Main
-----------------------------------------------------------------------------
LEMMA LiveBegins == LiveInit => IInv
<1> SUFFICES ASSUME LiveInit PROVE IInv
  OBVIOUS
<1> USE DEF LiveInit, Source!SourceInit
<1>1. HandlerInv
  BY InvariantBegins
<1>2. Source!SourceTypeOK
  <2>1. /\ fileSize \in 0 .. RecordSize * Len(Recording) /\ fileSize \in Nat
        /\ Len(checkpoints) = 0
    BY EmptySeq
  <2>2. 0 \div RecordSize = 0
    BY DivOfLess
  <2>3. 0 \in 0 .. Source!Records(fileSize)
    BY <2>1, RecordsType
  <2>4. sourceFileSize \in 0 .. fileSize
    BY <2>1
  <2>5. present = Source!Records(sourceFileSize)
    BY <2>2 DEF Source!Records
  <2>6. Len(checkpoints) <= indexedRecords
    BY <2>1
  <2>7. indexedRecords \in 0 .. Source!Records(fileSize)
    BY <2>3
  <2>8. indexReady \in BOOLEAN /\ trouble \in BOOLEAN
    OBVIOUS
  <2>9. QED
    BY <2>1, <2>4, <2>5, <2>6, <2>7, <2>8 DEF Source!SourceTypeOK
<1>3. LiveTypeOK /\ EventsReconcile /\ appliedBodies \in Seq(Body)
  <2>1. /\ <<>> \in Seq(Sequence) /\ <<>> \in Seq(Body) /\ Len(<<>>) = 0
    BY EmptySeq
  <2>2. QED
    BY <2>1, EventAssumption DEF LiveTypeOK, EventsReconcile, HandlerInit
<1>4. ConstructionIsSound
  BY EmptySeq DEF ConstructionIsSound, Constructing, Source!CheckpointsAreTrue
<1>5. PendingIsTheFeed /\ ThreadsFollow /\ AppliedIsTheFeed
  BY DEF PendingIsTheFeed, ThreadsFollow, AppliedIsTheFeed, HandlerInit, Constructing
<1>6. QED
  BY <1>1, <1>2, <1>3, <1>4, <1>5 DEF IInv, LiveInv

(* Handler, source, threads and counters agree at every step; with         *)
(* AppliedIsTheFeed that is inductive.                                     *)
THEOREM LiveIsSound == LiveSpec => []IInv
<1>1. ASSUME IInv, [LiveNext]_liveVars PROVE IInv'
  <2>1. HandlerInv /\ Source!SourceTypeOK /\ ConstructionIsSound
    BY <1>1 DEF IInv, LiveInv
  <2>2. /\ HandlerStep /\ PendingIsTheFeed' /\ AppliedIsTheFeed'
        /\ appliedBodies' \in Seq(Body)
    BY <1>1, FeedSteps
  <2>3. HandlerInv'
    BY <2>1, <2>2, InvariantSteps
  <2>4. Source!SourceTypeOK' /\ ConstructionIsSound'
    BY <1>1, <2>1, SourceSteps
  <2>5. LiveTypeOK' /\ EventsReconcile' /\ ThreadsFollow'
    BY <1>1, <2>2, EventSteps
  <2>6. QED
    BY <2>2, <2>3, <2>4, <2>5 DEF IInv, LiveInv
<1>2. QED
  BY LiveBegins, <1>1, PTL DEF LiveSpec

THEOREM ReportBalances == LiveSpec => []LiveInv
<1>1. IInv => LiveInv
  BY DEF IInv
<1>2. QED
  BY <1>1, LiveIsSound, PTL

(* Whatever was lost, late, repeated or recovered, and whatever index was  *)
(* left behind: under each sequence number the market state is given what  *)
(* was recorded under it.                                                  *)
THEOREM FeedIsTheRecording == LiveSpec => []AppliedIsTheFeed
<1>1. IInv => AppliedIsTheFeed
  BY DEF IInv
<1>2. QED
  BY <1>1, LiveIsSound, PTL
-----------------------------------------------------------------------------
(* The only step at which a packet just received fails the feed is the one *)
(* that asks for a gap: the source refused it or met trouble.              *)
LEMMA GapFails ==
  ASSUME IInv, [LiveNext]_liveVars, pc = "packet", state' = "Failed"
  PROVE  trouble' \/ (~Source!Recovers(expectedSequence, packet.seq) /\ UNCHANGED trouble)
<1>1. state # "Failed"
  BY DEF IInv, LiveInv, HandlerInv, Lifecycle
<1>2. CASE RunStep
  <2>1. CASE RecoverGap
    BY <1>1, <2>1 DEF RecoverGap, GapRecovered, control, recovering
  <2>2. CASE LoopCondition \/ ReceiveNothing \/ \E p \in Packets : ReceivePacket(p)
    BY <1>1, <2>2 DEF LoopCondition, ReceiveNothing, ReceivePacket, control
  <2>3. CASE ProcessInSequence
    BY <1>1, <2>3 DEF ProcessInSequence, InSequence, OldPacket, ProcessRecoveredPacket,
       GapClosed, ProcessLivePacket, control
  <2>4. QED
    BY <1>2, <2>1, <2>2, <2>3 DEF RunStep, FeedStep
<1>3. CASE EnterRun \/ LeaveRun
  BY <1>3 DEF EnterRun, LeaveRun, Run, StartLifecycle, FinishLifecycle
<1>4. CASE StopFeed
  BY <1>1, <1>4 DEF StopFeed, Stop
<1>5. CASE UNCHANGED handlerVars
  BY <1>1, <1>5 DEF handlerVars
<1>6. CASE Main /\ ~StopFeed
  BY <1>5, <1>6 DEF Main, ConstructSource, Construct, StartThreads, JoinFeed, JoinConsumer
<1>7. CASE \/ PushEvent \/ DropEvent \/ FeedThreadEnds \/ ConsumerThread
           \/ Signal \/ Recorder \/ Finished \/ UNCHANGED liveVars
  BY <1>5, <1>7 DEF PushEvent, DropEvent, Publish, FeedThreadEnds, ConsumerThread, ConsumeEvent,
     ConsumerStops, Signal, Recorder, Finished, liveVars
<1>8. QED
  BY <1>2, <1>3, <1>4, <1>6, <1>7 DEF LiveNext, FeedThread

(* Once the feed runs, a gap recorded in time is one the source can fill,  *)
(* unless it met trouble.                                                  *)
LEMMA CoveredIsRecoverable ==
  ASSUME IInv, pc = "packet", ~trouble, Source!Covered(expectedSequence, packet.seq)
  PROVE  Source!Recovers(expectedSequence, packet.seq)
<1> DEFINE from == expectedSequence
           to == packet.seq
<1>1. /\ from \in Nat /\ to \in Nat /\ 0 < from /\ from < to /\ to - 1 <= present
      /\ \A n \in from .. to - 1 : Recording[n] \notin TooLarge
  BY DEF IInv, LiveInv, HandlerInv, TypeOK, Packet, Sequence, Source!Covered
<1>2. /\ present \in Nat /\ indexedRecords \in Nat /\ indexedRecords <= Source!Records(fileSize)
      /\ Source!Records(fileSize) \in Nat
  <2>1. /\ fileSize \in Nat /\ sourceFileSize \in Nat
        /\ indexedRecords \in 0 .. Source!Records(fileSize)
        /\ present = Source!Records(sourceFileSize)
    BY DEF IInv, LiveInv, Source!SourceTypeOK
  <2>2. Source!Records(fileSize) \in Nat /\ Source!Records(sourceFileSize) \in Nat
    BY <2>1, RecordsType
  <2>3. QED
    BY <2>1, <2>2
<1>3. ~Constructing
  BY DEF IInv, LiveInv, ThreadsFollow, LiveTypeOK
<1>4. indexReady /\ Source!IndexIsComplete /\ Source!CheckpointsAreTrue
  <2>1. present > 0
    BY <1>1, <1>2
  <2>2. QED
    BY <1>3, <2>1 DEF IInv, LiveInv, ConstructionIsSound
<1>5. Source!CheckpointsUpTo(from) # {}
  <2>1. checkpoints \in Seq(Source!RecoveryCheckpoint) /\ checkpoints # <<>>
    BY <1>4 DEF Source!CheckpointsAreTrue, Source!IndexIsComplete
  <2>2. 1 \in DOMAIN checkpoints
    BY <2>1
  <2>3. checkpoints[1].sequence = 1
    BY <1>4 DEF Source!IndexIsComplete
  <2>4. 1 \in Source!CheckpointsUpTo(from)
    BY <1>1, <2>2, <2>3 DEF Source!CheckpointsUpTo
  <2>5. QED
    BY <2>4
<1>6. ~Source!Refused(from, to)
  <2>1. to - 1 <= indexedRecords
    BY <1>1, <1>2, <1>4 DEF Source!IndexIsComplete
  <2>2. QED
    BY <1>1, <1>2, <1>4, <1>5, <2>1 DEF Source!Refused
<1>7. ASSUME NEW n \in from .. to - 1
      PROVE  /\ Source!RecordRead(from, n) <= Source!Records(fileSize)
             /\ Recording[Source!RecordRead(from, n)] \notin TooLarge
  <2>1. n \in Nat
    BY <1>1
  <2>2. Source!RecordRead(from, n) = n
    BY <1>1, <1>4, <1>5, <2>1, ReadsTheRecord
  <2>3. n <= Source!Records(fileSize)
    BY <1>1, <1>2, <1>4 DEF Source!IndexIsComplete
  <2>4. QED
    BY <1>1, <2>2, <2>3
<1>8. QED
  BY <1>6, <1>7 DEF Source!Recovers, Source!Readable

(* A gap fails the feed only if a packet of it was not yet recorded when   *)
(* the application started, cannot be sent, or the file cannot be read.    *)
THEOREM CoveredGapsAreFilled == LiveSpec => CoveredGapIsFilled
<1>1. ASSUME IInv, [LiveNext]_liveVars
      PROVE  [pc = "packet" /\ state' = "Failed" =>
                trouble' \/ ~Source!Covered(expectedSequence, packet.seq)]_liveVars
  BY <1>1, GapFails, CoveredIsRecoverable
<1>2. QED
  BY <1>1, LiveIsSound, PTL DEF LiveSpec, CoveredGapIsFilled
=============================================================================
