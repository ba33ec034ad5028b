------------------------ MODULE MoldItchFeedHandler ------------------------
(***************************************************************************)
(* feed_handler/MoldItchFeedHandler.cpp with the gap recovery of           *)
(* common/market_data/moldudp64/MoldItchSequenceRecovery.cpp: the handler  *)
(* that turns MoldUDP64 datagrams, which the network loses, repeats and    *)
(* reorders at will, into one gap-free run of ITCH messages for the        *)
(* market state.                                                           *)
(*                                                                         *)
(* A message is its sequence number and whether the ITCH dispatcher        *)
(* decodes it.  A datagram is what its header claims (first, count) and    *)
(* the whole frames its payload holds; `whole' is FALSE when the header is *)
(* cut short or bytes are left over behind the last frame.  `applied' is   *)
(* the history of the sequence numbers handed to ItchMarketState::onMessage*)
(* in the present lifecycle.                                               *)
(***************************************************************************)
EXTENDS Integers, Sequences

CONSTANTS MaxSequence,    \* the largest sequence number, 2^64 - 1 in the code
          Datagrams,      \* what the network may deliver
          Answers,        \* what the recovery source may fill in
          Quotas,         \* datagramCount arguments of start()
          Unlimited,      \* the quota of run()
          MaxAccepted     \* bound: datagrams accepted in one lifecycle

Sequence == 0 .. MaxSequence
Body == {"good", "bad"}
Datagram == [first: Sequence, count: Nat, frames: Seq(Body), whole: BOOLEAN]
Recovered == [seq: Sequence, body: Body]

ASSUME MaxSequenceAssumption == MaxSequence \in Nat
ASSUME InputAssumption == /\ Datagrams \subseteq Datagram
                          /\ Answers \subseteq Seq(Recovered)
ASSUME QuotaAssumption == /\ Quotas \subseteq Nat /\ Unlimited \notin Nat
                          /\ MaxAccepted \in Nat

VARIABLES
  expectedSequence, hasSequence,
  stats,        \* the six counters of the handler
  state,        \* FeedHandlerState
  running,      \* running_, also written by stop() from other threads
  pc, quota,    \* where the handler's thread is, and its argument
  datagram,     \* the datagram being processed
  index,        \* frames of it already dealt with
  sequence,     \* sequence number of the next one
  toApply,      \* recovered messages not yet applied
  applied, acceptedMessages   \* history

progress == <<expectedSequence, hasSequence, applied>>
input == <<datagram, index, sequence, toApply>>
handlerVars == <<expectedSequence, hasSequence, stats, state, running, pc, quota,
                 datagram, index, sequence, toApply, applied, acceptedMessages>>

Succ(s) == IF s = MaxSequence THEN 0 ELSE s + 1     \* uint64 addition
Bump(counter) == stats' = [stats EXCEPT ![counter] = @ + 1]
Counters == {"datagrams", "messages", "recovered", "ignored", "gaps", "malformed"}
NoDatagram == [first |-> 0, count |-> 0, frames |-> <<>>, whole |-> FALSE]

HandlerInit ==
  /\ expectedSequence = 0 /\ hasSequence = FALSE
  /\ stats = [c \in Counters |-> 0]
  /\ state = "Stopped" /\ running = FALSE
  /\ pc = "off" /\ quota = Unlimited
  /\ datagram = NoDatagram /\ index = 0 /\ sequence = 0 /\ toApply = <<>>
  /\ applied = <<>> /\ acceptedMessages = 0

(* startLifecycle(): everything but the market state starts afresh. *)
StartLifecycle(q) ==
  /\ pc = "off"
  /\ expectedSequence' = 0 /\ hasSequence' = FALSE
  /\ stats' = [c \in Counters |-> 0]
  /\ state' = "Running" /\ running' = TRUE
  /\ pc' = "loop" /\ quota' = q
  /\ applied' = <<>> /\ acceptedMessages' = 0
  /\ UNCHANGED input

(* finishLifecycle(): a failure is not papered over. *)
FinishLifecycle ==
  /\ pc = "finish"
  /\ running' = FALSE
  /\ state' = IF state # "Failed" THEN "Stopped" ELSE state
  /\ pc' = "off"
  /\ UNCHANGED <<stats, quota, acceptedMessages>> /\ UNCHANGED progress
  /\ UNCHANGED input

Stop ==
  /\ running' = FALSE
  /\ UNCHANGED <<stats, state, pc, quota, acceptedMessages>>
  /\ UNCHANGED progress /\ UNCHANGED input

(* processDatagram() returned false: the datagram counts as malformed and  *)
(* the lifecycle ends.  Frames already applied stay applied.               *)
Fail ==
  /\ Bump("malformed")
  /\ state' = "Failed"
  /\ pc' = "finish"
  /\ UNCHANGED <<running, quota, acceptedMessages>>
-----------------------------------------------------------------------------
(* processDatagram() *)

(* Pass 1: the header is there, it announces messages, and they are        *)
(* exactly what the payload holds.                                         *)
WellFramed(d) == d.whole /\ d.count # 0 /\ d.count = Len(d.frames)

BeginDatagram(d) ==
  /\ datagram' = d /\ index' = 0 /\ sequence' = d.first /\ toApply' = <<>>
  /\ pc' = "framing"
  /\ UNCHANGED <<stats, state, running, quota, acceptedMessages>>
  /\ UNCHANGED progress

(* What if: bytes behind the last frame were not noticed. *)
CheckFramingOnlyCount ==
  /\ pc = "framing"
  /\ IF datagram.count # 0 /\ datagram.count = Len(datagram.frames)
       THEN /\ pc' = "message"
            /\ UNCHANGED <<stats, state, running, quota, acceptedMessages>>
       ELSE Fail
  /\ UNCHANGED progress /\ UNCHANGED input

CheckFraming ==
  /\ pc = "framing"
  /\ \/ /\ WellFramed(datagram)
        /\ pc' = "message"
        /\ UNCHANGED <<stats, state, running, quota, acceptedMessages>>
     \/ /\ ~WellFramed(datagram)
        /\ Fail
  /\ UNCHANGED progress /\ UNCHANGED input

NextFrame == index' = index + 1 /\ sequence' = Succ(sequence)

(* Pass 2, checkSequence(): the first message of a lifecycle, or the one   *)
(* that was expected.                                                      *)
InSequence ==
  /\ pc = "message" /\ index < datagram.count
  /\ ~hasSequence \/ sequence = expectedSequence
  /\ expectedSequence' = Succ(sequence) /\ hasSequence' = TRUE
  /\ pc' = "live"
  /\ UNCHANGED <<stats, state, running, quota, applied, acceptedMessages>>
  /\ UNCHANGED input

(* What if: an old message made the handler skip its whole datagram. *)
OldMessageSkipsDatagram ==
  /\ pc = "message" /\ index < datagram.count
  /\ hasSequence /\ sequence < expectedSequence
  /\ Bump("ignored")
  /\ index' = datagram.count
  /\ UNCHANGED <<state, running, pc, quota, datagram, sequence, toApply,
                 acceptedMessages>> /\ UNCHANGED progress

OldMessage ==
  /\ pc = "message" /\ index < datagram.count
  /\ hasSequence /\ sequence < expectedSequence
  /\ Bump("ignored")
  /\ NextFrame
  /\ UNCHANGED <<state, running, pc, quota, datagram, toApply, acceptedMessages>>
  /\ UNCHANGED progress

(* MoldItchSequenceRecovery::recover(): what the source found is used only *)
(* if it is the whole of [expected, received), in order.                   *)
RecoveryIsExact(expected, received, found) ==
  /\ Len(found) = received - expected
  /\ \A i \in 1 .. Len(found) : found[i].seq = expected + i - 1

Gap ==
  /\ pc = "message" /\ index < datagram.count
  /\ hasSequence /\ sequence > expectedSequence

GapRecovered(found) ==
  /\ Gap
  /\ RecoveryIsExact(expectedSequence, sequence, found)
  /\ Bump("gaps")
  /\ toApply' = found
  /\ pc' = "recovered"
  /\ UNCHANGED <<state, running, quota, datagram, index, sequence, acceptedMessages>>
  /\ UNCHANGED progress

(* What if: the handler went on without what it could not recover. *)
GapSkipped ==
  /\ Gap
  /\ Bump("gaps")
  /\ expectedSequence' = Succ(sequence)
  /\ pc' = "live"
  /\ UNCHANGED <<hasSequence, state, running, quota, applied, acceptedMessages>>
  /\ UNCHANGED input

(* The source failed, or what it found is not exact. *)
GapNotRecovered ==
  /\ Gap
  /\ stats' = [stats EXCEPT !["gaps"] = @ + 1, !["malformed"] = @ + 1]
  /\ state' = "Failed" /\ pc' = "finish"
  /\ UNCHANGED <<running, quota, acceptedMessages>>
  /\ UNCHANGED progress /\ UNCHANGED input

ProcessRecoveredMessage ==
  /\ pc = "recovered" /\ toApply # <<>>
  /\ \/ /\ Head(toApply).body = "good"
        /\ applied' = Append(applied, Head(toApply).seq)
        /\ Bump("recovered")
        /\ toApply' = Tail(toApply)
        /\ UNCHANGED <<state, running, pc, quota, acceptedMessages>>
     \/ /\ Head(toApply).body # "good"
        /\ Fail
        /\ UNCHANGED <<applied, toApply>>
  /\ UNCHANGED <<expectedSequence, hasSequence, datagram, index, sequence>>

(* What if: closing a gap did not move the expected sequence on. *)
GapClosedInPlace ==
  /\ pc = "recovered" /\ toApply = <<>>
  /\ pc' = "live"
  /\ UNCHANGED <<stats, state, running, quota, acceptedMessages>>
  /\ UNCHANGED progress /\ UNCHANGED input

GapClosed ==
  /\ pc = "recovered" /\ toApply = <<>>
  /\ expectedSequence' = Succ(sequence)
  /\ pc' = "live"
  /\ UNCHANGED <<hasSequence, stats, state, running, quota, applied,
                 acceptedMessages>>
  /\ UNCHANGED input

ProcessMessage ==
  /\ pc = "live"
  /\ \/ /\ datagram.frames[index + 1] = "good"
        /\ applied' = Append(applied, sequence)
        /\ Bump("messages")
        /\ NextFrame
        /\ pc' = "message"
        /\ UNCHANGED <<state, running, quota, acceptedMessages>>
     \/ /\ datagram.frames[index + 1] # "good"
        /\ Fail
        /\ UNCHANGED <<applied, index, sequence>>
  /\ UNCHANGED <<expectedSequence, hasSequence, datagram, toApply>>

DatagramAccepted ==
  /\ pc = "message" /\ index = datagram.count
  /\ Bump("datagrams")
  /\ acceptedMessages' = acceptedMessages + datagram.count
  /\ pc' = "loop"
  /\ UNCHANGED <<state, running, quota>>
  /\ UNCHANGED progress /\ UNCHANGED input

ProcessDatagram ==
  \/ CheckFraming \/ InSequence \/ OldMessage \/ GapNotRecovered
  \/ \E found \in Answers : GapRecovered(found)
  \/ ProcessRecoveredMessage \/ GapClosed \/ ProcessMessage \/ DatagramAccepted
-----------------------------------------------------------------------------
(* start(datagramCount) and run(): one thread receives and processes. *)

Start == \E q \in Quotas : StartLifecycle(q)
Run == StartLifecycle(Unlimited)

QuotaReached == quota # Unlimited /\ stats["datagrams"] >= quota

(* What if: the loop did not look at running_. *)
LoopForever ==
  /\ pc = "loop"
  /\ pc' = IF ~QuotaReached THEN "receive" ELSE "finish"
  /\ UNCHANGED <<stats, state, running, quota, acceptedMessages>>
  /\ UNCHANGED progress /\ UNCHANGED input

(* The loop condition; a stop() that comes later waits for one receive().  *)
LoopCondition ==
  /\ pc = "loop"
  /\ pc' = IF running /\ ~QuotaReached THEN "receive" ELSE "finish"
  /\ UNCHANGED <<stats, state, running, quota, acceptedMessages>>
  /\ UNCHANGED progress /\ UNCHANGED input

ReceiveDatagram(d) ==
  /\ pc = "receive"
  /\ stats["datagrams"] < MaxAccepted
  /\ BeginDatagram(d)

(* source_.receive() timed out or failed. *)
ReceiveNothing ==
  /\ pc = "receive"
  /\ pc' = "loop"
  /\ UNCHANGED <<stats, state, running, quota, acceptedMessages>>
  /\ UNCHANGED progress /\ UNCHANGED input

Handler == \/ LoopCondition \/ ReceiveNothing \/ ProcessDatagram
           \/ \E d \in Datagrams : ReceiveDatagram(d)
           \/ FinishLifecycle

Next == Start \/ Run \/ Handler \/ Stop

Spec == HandlerInit /\ [][Next]_handlerVars

(* The thread that called run() is scheduled; whether it is called again,  *)
(* stopped, or given datagrams is up to others.                            *)
FairSpec == Spec /\ WF_handlerVars(Handler)
-----------------------------------------------------------------------------
TypeOK ==
  /\ expectedSequence \in Sequence /\ hasSequence \in BOOLEAN
  /\ stats \in [Counters -> Nat]
  /\ state \in {"Stopped", "Running", "Failed"} /\ running \in BOOLEAN
  /\ pc \in {"off", "loop", "receive", "framing", "message", "recovered", "live",
             "finish"}
  /\ quota \in Quotas \cup {Unlimited}
  /\ datagram \in Datagram
  /\ index \in Nat /\ sequence \in Sequence
  /\ toApply \in Seq(Recovered)
  /\ applied \in Seq(Sequence) /\ acceptedMessages \in Nat

(* Whatever the network did, the market state sees consecutive messages:   *)
(* none is lost, repeated or out of order within a lifecycle, and what was *)
(* recovered comes before the live message that showed the gap.            *)
AppliedIsGapFree ==
  \A k \in 1 .. Len(applied) - 1 : applied[k + 1] = Succ(applied[k])

(* Between datagrams the expected sequence is the one right behind the     *)
(* last message applied, also after recoveries and ignored duplicates.     *)
ExpectedFollowsApplied ==
  pc \in {"loop", "receive", "framing", "message"} =>
    /\ hasSequence <=> applied # <<>>
    /\ hasSequence => expectedSequence = Succ(applied[Len(applied)])

(* The counters reconcile (readme.md, "live + recovered"): every message   *)
(* applied is counted once, as processed or as recovered.                  *)
CountersReconcile ==
  stats["messages"] + stats["recovered"] = Len(applied)

(* Every message of every accepted datagram was processed or ignored.      *)
AcceptedAreAccounted ==
  pc \in {"loop", "receive", "framing"} =>
    stats["messages"] + stats["ignored"] = acceptedMessages

(* An accepted datagram is covered to its last message: the handler never  *)
(* goes on to expect a message it was given (no duplicates of it can be    *)
(* applied later, and it never asks recovery for it).                      *)
AcceptedIsCovered ==
  [][(stats'["datagrams"] > stats["datagrams"]
        /\ datagram.first + datagram.count <= MaxSequence)
       => datagram.first + datagram.count <= expectedSequence]_handlerVars

(* "Do this BEFORE mutating ItchMarketState": a datagram whose framing is  *)
(* broken anywhere changes nothing (lines 268-317).                        *)
BrokenFramingChangesNothing ==
  [][applied' # applied /\ applied' # <<>> => WellFramed(datagram)]_handlerVars

(* A failure stays visible, and stops the feed, until a new lifecycle.     *)
FailureIsSticky ==
  [][state = "Failed" =>
       \/ state' = "Failed" /\ UNCHANGED <<applied, stats>>
       \/ state' = "Running" /\ applied' = <<>>]_handlerVars

(* Of all this the market state relies on the promise of SequencedFeed:    *)
(* messages come consecutively, and only from a handler that is Running.   *)
Feed == INSTANCE SequencedFeed
ImplementsFeed == Feed!FeedSpec

(* Once stop() was called on a running handler its run ends. *)
StopEndsRun == (pc # "off" /\ ~running) ~> (pc = "off")
-----------------------------------------------------------------------------
(* The inductive invariant behind these properties. *)

Last == applied[Len(applied)]

(* In the middle of a datagram: what is left of a recovery ends right      *)
(* before the live message, and begins right after the last one applied.   *)
Frontier ==
  /\ pc = "recovered" =>
       /\ hasSequence /\ applied # <<>>
       /\ Succ(Last) = sequence - Len(toApply)
       /\ \A i \in 1 .. Len(toApply) :
            toApply[i].seq = sequence - Len(toApply) + i - 1
  /\ pc = "live" =>
       /\ hasSequence /\ expectedSequence = Succ(sequence)
       /\ applied # <<>> => sequence = Succ(Last)

(* Where the second pass is in the datagram. *)
Bookkeeping ==
  /\ pc \notin {"off", "finish"} => state = "Running"
  /\ pc = "finish" => state # "Stopped"
  /\ pc = "off" => state # "Running"
  /\ pc = "framing" => index = 0 /\ sequence = datagram.first
  /\ pc \in {"message", "recovered", "live"} =>
       /\ WellFramed(datagram)
       /\ index <= datagram.count
       /\ stats["messages"] + stats["ignored"] = acceptedMessages + index
       /\ datagram.first + index <= MaxSequence => sequence = datagram.first + index
  /\ pc \in {"recovered", "live"} => index < datagram.count
  /\ pc = "message" =>
       \/ index = 0
       \/ datagram.first + index > MaxSequence
       \/ sequence <= expectedSequence

IInv == /\ TypeOK /\ AppliedIsGapFree /\ ExpectedFollowsApplied
        /\ CountersReconcile /\ AcceptedAreAccounted /\ Frontier /\ Bookkeeping
=============================================================================
