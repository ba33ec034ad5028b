------------------------------ MODULE ItchReplay ------------------------------
(***************************************************************************)
(* app/itch_replay.cpp: the main thread replays a recorded session into    *)
(* the market state (ItchReplay::run()), whose quote publisher fills the   *)
(* market event queue; a second thread (MarketEventConsumer::run())        *)
(* consumes the events until the first has said that there will be no      *)
(* more.                                                                   *)
(***************************************************************************)
EXTENDS ItchStreamReader, ItchDecoder

CONSTANT EventLimit     \* events the market event queue holds

ASSUME EventLimitAssumption == EventLimit \in Nat

VARIABLES
  replay,               \* where main() is
  replayAt,             \* bytes of the file read
  replayStatus,         \* ItchReplayStatus
  replayStats,          \* ItchReplayStats
  decodedByType, unsupportedByType,
  delivered,            \* history: messages given to ItchMarketState::onMessage
  producerDone,
  events, publishAttempts, droppedEvents,
  consumer, consumedEvents

replayVars == <<replay, replayAt, replayStatus, replayStats, decodedByType,
                unsupportedByType, delivered>>
publishing == <<events, publishAttempts, droppedEvents>>
consuming == <<consumer, consumedEvents>>
replayAppVars == <<replayVars, producerDone, publishing, consuming>>

Types == {layout.type : layout \in Layouts}

ReplayInit ==
  /\ replay = "run" /\ replayAt = 0 /\ replayStatus = "StreamError"
  /\ replayStats = [c \in {"recordsRead", "decoded", "unsupported", "malformed"} |-> 0]
  /\ decodedByType = [t \in Types |-> 0] /\ unsupportedByType = [t \in {} |-> 0]
  /\ delivered = <<>> /\ producerDone = FALSE
  /\ events = <<>> /\ publishAttempts = 0 /\ droppedEvents = 0
  /\ consumer = "checkDone" /\ consumedEvents = 0
-----------------------------------------------------------------------------
(* ItchReplay::run() *)

Count(kind) == replayStats' = [replayStats EXCEPT !["recordsRead"] = @ + 1, ![kind] = @ + 1]

Unsupported(data) ==
  /\ ~Supported(data[1])
  /\ Count("unsupported")
  /\ unsupportedByType' =
       [t \in DOMAIN unsupportedByType \cup {data[1]} |->
          (IF t \in DOMAIN unsupportedByType THEN unsupportedByType[t] ELSE 0)
          + (IF t = data[1] THEN 1 ELSE 0)]
  /\ UNCHANGED <<decodedByType, delivered, publishing>>

Malformed(data) ==
  /\ Supported(data[1]) /\ ~Dispatches(data)
  /\ Count("malformed")
  /\ UNCHANGED <<decodedByType, unsupportedByType, delivered, publishing>>

(* A message may change the best bid and offer, and a quote of it is       *)
(* published, or dropped at a full queue.                                  *)
OnMessage(n) ==
  \/ UNCHANGED publishing
  \/ /\ publishAttempts' = publishAttempts + 1
     /\ \/ /\ Len(events) < EventLimit
           /\ events' = Append(events, n) /\ UNCHANGED droppedEvents
        \/ /\ Len(events) = EventLimit
           /\ droppedEvents' = droppedEvents + 1 /\ UNCHANGED events

Decoded(data) ==
  /\ Supported(data[1]) /\ Dispatches(data)
  /\ Count("decoded")
  /\ decodedByType' = [decodedByType EXCEPT ![data[1]] = @ + 1]
  /\ delivered' = Append(delivered, Dispatch(data))
  /\ OnMessage(Len(delivered'))
  /\ UNCHANGED unsupportedByType

ReplayRecord ==
  /\ replay = "run" /\ ReadNext(replayAt).status = "Message"
  /\ LET record == ReadNext(replayAt)
     IN  /\ replayAt' = Behind(replayAt, record)
         /\ Unsupported(record.data) \/ Malformed(record.data) \/ Decoded(record.data)
  /\ UNCHANGED <<replay, replayStatus, producerDone, consuming>>

ReplayStatus(status) ==
  CASE status = "EndOfSession" -> "Complete"
    [] status = "Incomplete" -> "IncompleteStream"
    [] status = "Error" -> "StreamError"

ReplayReturns ==
  /\ replay = "run" /\ ReadNext(replayAt).status # "Message"
  /\ replayStatus' = ReplayStatus(ReadNext(replayAt).status)
  /\ replay' = "returned"
  /\ UNCHANGED <<replayAt, replayStats, decodedByType, unsupportedByType, delivered,
                 producerDone, publishing, consuming>>

(* main() behind it *)

TellConsumer ==
  /\ replay = "returned"
  /\ producerDone' = TRUE /\ replay' = "join"
  /\ UNCHANGED <<replayAt, replayStatus, replayStats, decodedByType, unsupportedByType,
                 delivered, publishing, consuming>>

JoinConsumer ==
  /\ replay = "join" /\ consumer = "exited"
  /\ replay' = "done"
  /\ UNCHANGED <<replayAt, replayStatus, replayStats, decodedByType, unsupportedByType,
                 delivered, producerDone, publishing, consuming>>

ReplayMain == ReplayRecord \/ ReplayReturns \/ TellConsumer \/ JoinConsumer
-----------------------------------------------------------------------------
(* MarketEventConsumer::run(): `!producerDone || !queue.empty()', one read *)
(* at a time.                                                              *)

ConsumerAt(from, to) == /\ consumer = from /\ consumer' = to
                        /\ UNCHANGED <<replayVars, producerDone, publishAttempts, droppedEvents>>

(* What if: the consumer stopped without another look at the queue. *)
LeaveWhenDone ==
  \/ ~producerDone /\ ConsumerAt("checkDone", "pop") /\ UNCHANGED <<events, consumedEvents>>
  \/ producerDone /\ ConsumerAt("checkDone", "exited") /\ UNCHANGED <<events, consumedEvents>>

CheckDone ==
  \/ ~producerDone /\ ConsumerAt("checkDone", "pop") /\ UNCHANGED <<events, consumedEvents>>
  \/ producerDone /\ ConsumerAt("checkDone", "checkEmpty")
     /\ UNCHANGED <<events, consumedEvents>>

CheckEmpty ==
  \/ events # <<>> /\ ConsumerAt("checkEmpty", "pop") /\ UNCHANGED <<events, consumedEvents>>
  \/ events = <<>> /\ ConsumerAt("checkEmpty", "exited") /\ UNCHANGED <<events, consumedEvents>>

Pop ==
  /\ ConsumerAt("pop", "checkDone")
  /\ \/ events = <<>> /\ UNCHANGED <<events, consumedEvents>>
     \/ /\ events # <<>>
        /\ events' = Tail(events) /\ consumedEvents' = consumedEvents + 1

ReplayConsumer == CheckDone \/ CheckEmpty \/ Pop
-----------------------------------------------------------------------------
ReplayTypeOK ==
  /\ replay \in {"run", "returned", "join", "done"} /\ replayAt \in 0 .. Len(file.bytes)
  /\ replayStatus \in {"Complete", "IncompleteStream", "StreamError"}
  /\ producerDone \in BOOLEAN
  /\ consumer \in {"checkDone", "checkEmpty", "pop", "exited"} /\ Len(events) <= EventLimit

(* The records read so far are those recorded, and all of them at the end. *)
ReplayReadsAll ==
  /\ replayStats["recordsRead"] <= Len(file.payloads)
  /\ replay # "run" => replayStats["recordsRead"] = Len(file.payloads)

(* The market state is given every message that decodes, each field with   *)
(* the bytes the exchange gave it: written one behind the other they are   *)
(* the payload again.                                                      *)
ThatDecode(payloads) ==
  FlattenSeq([n \in DOMAIN payloads |->
                IF Dispatches(payloads[n]) THEN <<payloads[n]>> ELSE <<>>])

DeliveredIsTheFile ==
  [i \in DOMAIN delivered |-> Payload(delivered[i])] =
    ThatDecode(SubSeq(file.payloads, 1, replayStats["recordsRead"]))

(* The counters printed add up, and each is what the file holds: the       *)
(* totals, the kinds of message and the unsupported types.                 *)
Unknown == {n \in DOMAIN file.payloads : ~Supported(file.payloads[n][1])}
OfType(t) == {n \in DOMAIN file.payloads : file.payloads[n][1] = t}

StatsReconcile ==
  /\ replayStats["recordsRead"] =
       replayStats["decoded"] + replayStats["unsupported"] + replayStats["malformed"]
  /\ replayStats["decoded"] = Len(delivered)
  /\ \A t \in Types : decodedByType[t] = Cardinality({i \in DOMAIN delivered : delivered[i].type = t})
  /\ LET read == 1 .. replayStats["recordsRead"]
     IN  /\ replayStats["unsupported"] = Cardinality(read \cap Unknown)
         /\ DOMAIN unsupportedByType = {file.payloads[n][1] : n \in read \cap Unknown}
         /\ \A t \in DOMAIN unsupportedByType :
              unsupportedByType[t] = Cardinality(read \cap OfType(t))
  /\ publishAttempts = droppedEvents + consumedEvents + Len(events)
=============================================================================
