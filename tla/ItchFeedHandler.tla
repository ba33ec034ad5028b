--------------------------- MODULE ItchFeedHandler ---------------------------
(***************************************************************************)
(* feed_handler/ItchFeedHandler.cpp with common/market_data/itch/          *)
(* ItchSequenceRecovery.cpp: the handler of the plain UDP feed, where a    *)
(* packet is one message with its own sequence number.                     *)
(*                                                                         *)
(* A packet is its sequence number and its payload, which the dispatcher   *)
(* may or may not be able to decode.  `applied' is the history of the      *)
(* sequence numbers handed to ItchMarketState::onMessage in the present    *)
(* lifecycle.                                                              *)
(***************************************************************************)
EXTENDS Integers, Sequences

CONSTANTS MaxSequence,    \* the largest sequence number, 2^64 - 1 in the code
          Body,           \* payloads
          Decodable,      \* those ItchDispatcher::dispatch() accepts
          Packets,        \* what the network may deliver
          Answers,        \* what the recovery source may fill in
          Quotas,         \* packetCount arguments of start()
          Unlimited,      \* the quota of run()
          MaxPackets      \* bound: live packets received in one lifecycle

Sequence == 0 .. MaxSequence
Packet == [seq: Sequence, body: Body]

ASSUME MaxSequenceAssumption == MaxSequence \in Nat
ASSUME InputAssumption == /\ Packets \subseteq Packet /\ Answers \subseteq Seq(Packet)
                          /\ Decodable \subseteq Body /\ Body # {}
ASSUME QuotaAssumption == /\ Quotas \subseteq Nat /\ Unlimited \notin Nat
                          /\ MaxPackets \in Nat

VARIABLES
  expectedSequence, hasSequence,
  stats,        \* the four counters of the handler
  state,        \* FeedHandlerState
  running,      \* running_, also written by stop() from other threads
  pc, quota,    \* where the handler's thread is, and its argument
  packet,       \* the packet being processed
  toApply,      \* recovered packets not yet applied
  applied       \* history

control == <<state, running, quota>>
progress == <<expectedSequence, hasSequence, applied>>
handlerVars == <<expectedSequence, hasSequence, stats, state, running, pc, quota,
                 packet, toApply, applied>>

Succ(s) == IF s = MaxSequence THEN 0 ELSE s + 1     \* uint64 addition
Bump(counter) == stats' = [stats EXCEPT ![counter] = @ + 1]
Counters == {"processed", "recovered", "ignored", "gaps"}

HandlerInit ==
  /\ expectedSequence = 0 /\ hasSequence = FALSE
  /\ stats = [c \in Counters |-> 0]
  /\ state = "Stopped" /\ running = FALSE
  /\ pc = "off" /\ quota = Unlimited
  /\ packet = [seq |-> 0, body |-> CHOOSE b \in Body : TRUE] /\ toApply = <<>> /\ applied = <<>>

StartLifecycle(q) ==
  /\ pc = "off"
  /\ expectedSequence' = 0 /\ hasSequence' = FALSE
  /\ stats' = [c \in Counters |-> 0]
  /\ state' = "Running" /\ running' = TRUE
  /\ pc' = "loop" /\ quota' = q
  /\ applied' = <<>>
  /\ UNCHANGED <<packet, toApply>>

FinishLifecycle ==
  /\ pc = "finish"
  /\ running' = FALSE
  /\ state' = IF state # "Failed" THEN "Stopped" ELSE state
  /\ pc' = "off"
  /\ UNCHANGED <<stats, quota, packet, toApply>> /\ UNCHANGED progress

Stop == /\ running' = FALSE
        /\ UNCHANGED <<stats, state, pc, quota, packet, toApply>>
        /\ UNCHANGED progress

Fail == /\ state' = "Failed" /\ pc' = "finish"
        /\ UNCHANGED <<running, quota, packet, toApply>> /\ UNCHANGED progress
-----------------------------------------------------------------------------
(* checkSequence() *)

InSequence ==
  /\ pc = "packet"
  /\ ~hasSequence \/ packet.seq = expectedSequence
  /\ expectedSequence' = Succ(packet.seq) /\ hasSequence' = TRUE
  /\ pc' = "live"
  /\ UNCHANGED <<stats, packet, toApply, applied>> /\ UNCHANGED control

OldPacket ==
  /\ pc = "packet" /\ hasSequence /\ packet.seq < expectedSequence
  /\ Bump("ignored")
  /\ pc' = "loop"
  /\ UNCHANGED <<packet, toApply>> /\ UNCHANGED control /\ UNCHANGED progress

(* What if: only the number of recovered packets were checked. *)
RecoveryIsComplete(expected, received, found) == Len(found) = received - expected

(* ItchSequenceRecovery::recover(): all of [expected, received), in order. *)
RecoveryIsExact(expected, received, found) ==
  /\ Len(found) = received - expected
  /\ \A i \in 1 .. Len(found) : found[i].seq = expected + i - 1

Gap == /\ pc = "packet" /\ hasSequence /\ packet.seq > expectedSequence
       /\ Bump("gaps")

GapRecovered(found) ==
  /\ Gap
  /\ RecoveryIsExact(expectedSequence, packet.seq, found)
  /\ toApply' = found
  /\ pc' = "recovered"
  /\ UNCHANGED packet /\ UNCHANGED control /\ UNCHANGED progress

GapNotRecovered == Gap /\ Fail

ProcessRecoveredPacket ==
  /\ pc = "recovered" /\ toApply # <<>>
  /\ \/ /\ Head(toApply).body \in Decodable
        /\ applied' = Append(applied, Head(toApply).seq)
        /\ Bump("recovered")
        /\ toApply' = Tail(toApply)
        /\ UNCHANGED <<expectedSequence, hasSequence, packet, pc>>
        /\ UNCHANGED control
     \/ /\ Head(toApply).body \notin Decodable
        /\ Fail /\ UNCHANGED stats

(* What if: closing a gap did not move the expected sequence on. *)
GapClosedInPlace ==
  /\ pc = "recovered" /\ toApply = <<>> /\ pc' = "live"
  /\ UNCHANGED <<stats, packet, toApply>> /\ UNCHANGED control /\ UNCHANGED progress

GapClosed ==
  /\ pc = "recovered" /\ toApply = <<>>
  /\ expectedSequence' = Succ(packet.seq)
  /\ pc' = "live"
  /\ UNCHANGED <<hasSequence, stats, packet, toApply, applied>>
  /\ UNCHANGED control

ProcessLivePacket ==
  /\ pc = "live"
  /\ \/ /\ packet.body \in Decodable
        /\ applied' = Append(applied, packet.seq)
        /\ Bump("processed")
        /\ pc' = "loop"
        /\ UNCHANGED <<expectedSequence, hasSequence, packet, toApply>>
        /\ UNCHANGED control
     \/ /\ packet.body \notin Decodable
        /\ Fail /\ UNCHANGED stats
-----------------------------------------------------------------------------
(* start(packetCount) and run() *)

Start == \E q \in Quotas : StartLifecycle(q)
Run == StartLifecycle(Unlimited)

(* What if: the quota were compared after one packet too many. *)
QuotaExceeded == quota # Unlimited /\ stats["processed"] > quota

(* acceptedLivePackets counts what processedPackets_ counts. *)
QuotaReached == quota # Unlimited /\ stats["processed"] >= quota

LoopCondition ==
  /\ pc = "loop"
  /\ pc' = IF running /\ ~QuotaReached THEN "receive" ELSE "finish"
  /\ UNCHANGED <<stats, packet, toApply>> /\ UNCHANGED control /\ UNCHANGED progress

ReceivePacket(p) ==
  /\ pc = "receive" /\ stats["processed"] + stats["ignored"] < MaxPackets
  /\ packet' = p
  /\ toApply' = <<>>
  /\ pc' = "packet"
  /\ UNCHANGED stats /\ UNCHANGED control /\ UNCHANGED progress

ReceiveNothing ==
  /\ pc = "receive"
  /\ pc' = "loop"
  /\ UNCHANGED <<stats, packet, toApply>> /\ UNCHANGED control /\ UNCHANGED progress

ProcessInSequence == \/ InSequence \/ OldPacket
                     \/ ProcessRecoveredPacket \/ GapClosed \/ ProcessLivePacket

ProcessPacket == \/ ProcessInSequence \/ GapNotRecovered
                 \/ \E found \in Answers : GapRecovered(found)

Handler == \/ LoopCondition \/ ReceiveNothing \/ ProcessPacket
           \/ \E p \in Packets : ReceivePacket(p)
           \/ FinishLifecycle

Next == Start \/ Run \/ Handler \/ Stop

Spec == HandlerInit /\ [][Next]_handlerVars
-----------------------------------------------------------------------------
TypeOK ==
  /\ expectedSequence \in Sequence /\ hasSequence \in BOOLEAN
  /\ stats \in [Counters -> Nat]
  /\ state \in {"Stopped", "Running", "Failed"} /\ running \in BOOLEAN
  /\ pc \in {"off", "loop", "receive", "packet", "recovered", "live", "finish"}
  /\ quota \in Quotas \cup {Unlimited}
  /\ packet \in Packet /\ toApply \in Seq(Packet) /\ applied \in Seq(Sequence)

LastApplied == applied[Len(applied)]

ExpectedFollowsApplied ==
  pc \in {"loop", "receive", "packet"} =>
    /\ hasSequence <=> applied # <<>>
    /\ hasSequence => expectedSequence = Succ(LastApplied)

CountersReconcile == stats["processed"] + stats["recovered"] = Len(applied)

(* Between two packets nothing is pending; what is left of a recovery      *)
(* continues what was applied and ends right before the packet that showed *)
(* the gap.                                                                *)
Frontier ==
  /\ pc = "recovered" =>
       /\ hasSequence /\ applied # <<>>
       /\ Succ(LastApplied) = packet.seq - Len(toApply)
       /\ \A i \in DOMAIN toApply : toApply[i].seq = packet.seq - Len(toApply) + i - 1
  /\ pc = "live" =>
       /\ hasSequence /\ expectedSequence = Succ(packet.seq)
       /\ applied # <<>> => packet.seq = Succ(LastApplied)

(* The state is Running exactly while packets are looked at, and a packet  *)
(* is only looked at while the quota has room for it.                      *)
Lifecycle ==
  /\ pc = "off" => state # "Running"
  /\ pc \notin {"off", "finish"} => state = "Running"
  /\ pc \notin {"off", "loop", "finish"} /\ quota # Unlimited => stats["processed"] < quota

(* checkSequence() moves expectedSequence_ before the packet is processed, *)
(* and before nothing else: whenever the next packet is looked at, what is *)
(* expected is what follows the last packet applied, and in between what   *)
(* is pending closes the hole exactly.  "Processed live packets" and       *)
(* "Recovered packets" of the final report add up to what the market state *)
(* was given, a failed recovery included.  (The invariant is inductive.)   *)
HandlerInv == TypeOK /\ ExpectedFollowsApplied /\ CountersReconcile /\ Frontier /\ Lifecycle

(* start(n) accepts n packets, no more, and returns with fewer only when   *)
(* the feed failed or somebody stopped it.                                 *)
QuotaIsMet ==
  quota # Unlimited =>
    /\ stats["processed"] <= quota
    /\ pc = "finish" /\ running /\ state # "Failed" => stats["processed"] = quota

(* The promise of SequencedFeed, kept by this handler as well. *)
Feed == INSTANCE SequencedFeed
ImplementsFeed == Feed!FeedSpec
=============================================================================
