--------------------------- MODULE ItchUdpReplayGap ---------------------------
(***************************************************************************)
(* app/itch_udp_replay_gap.cpp and the feed it tests: the program sends    *)
(* the first records of a recorded session one by one and leaves out the   *)
(* ranges it was told to drop; itch_live's feed handler                    *)
(* (ItchFeedHandler) receives them through a socket and fills the gaps     *)
(* from the same file.                                                     *)
(***************************************************************************)
EXTENDS ItchStreamReader, ItchUdpCodec, ItchFeedHandler

CONSTANTS Scripts,      \* command lines: [records, ranges]
          SocketLimit   \* datagrams the receiving socket holds

VARIABLES
  sender,               \* "replay", "complete" or "failed"
  sendAt,               \* bytes of the file read
  script, recordsRead, packetsSent, packetsDropped,
  socket,               \* datagrams the receiver has not yet taken
  overrun               \* history: the socket had no room for one

senderVars == <<sender, sendAt, script, recordsRead, packetsSent, packetsDropped>>
gapVars == <<senderVars, socket, overrun, handlerVars>>

(* What main() accepts: ranges of record numbers, which it sorts, and      *)
(* which must not overlap.                                                 *)
Accepted(s) ==
  /\ s.records # 0
  /\ \A i \in DOMAIN s.ranges : /\ 1 <= s.ranges[i][1] /\ s.ranges[i][1] <= s.ranges[i][2]
                                /\ s.ranges[i][2] <= s.records
  /\ \A i \in 2 .. Len(s.ranges) : s.ranges[i - 1][2] < s.ranges[i][1]

(* Its numbers are of 64 bits, as are those in the datagrams and those the *)
(* handler counts with.                                                    *)
ASSUME ScriptAssumption ==
  \A s \in Scripts : /\ Accepted(s) /\ s.ranges \in Seq(Nat \X Nat)
                     /\ s.records \in 0 .. MaxSequence /\ FitsIn(8, s.records)

(* "Expected gaps" and "Expected dropped" of its report.                   *)
ExpectedGaps(s) == Len(s.ranges)
ExpectedDropped(s) ==
  LET total[n \in 0 .. Len(s.ranges)] ==
        IF n = 0 THEN 0 ELSE total[n - 1] + (s.ranges[n][2] - s.ranges[n][1] + 1)
  IN  total[Len(s.ranges)]

ShouldDrop(sequence) ==
  \E i \in DOMAIN script.ranges :
    script.ranges[i][1] <= sequence /\ sequence <= script.ranges[i][2]

GapInit ==
  /\ HandlerInit
  /\ sender = "replay" /\ sendAt = 0 /\ script \in Scripts
  /\ recordsRead = 0 /\ packetsSent = 0 /\ packetsDropped = 0
  /\ socket = <<>> /\ overrun = FALSE
-----------------------------------------------------------------------------
(* The sender.  nextSequence is always recordsRead + 1 when a record is    *)
(* looked at.                                                              *)

Drop == /\ ShouldDrop(recordsRead + 1)
        /\ packetsDropped' = packetsDropped + 1
        /\ UNCHANGED <<sender, packetsSent, socket, overrun>>

(* What if: a dropped record did not take a number. *)
SendRenumbered(data) ==
  /\ ~ShouldDrop(recordsRead + 1)
  /\ \/ sender' = "failed" /\ UNCHANGED <<packetsSent, socket, overrun>>
     \/ /\ packetsSent' = packetsSent + 1
        /\ \/ /\ Len(socket) < SocketLimit
              /\ socket' = Append(socket, Encode([seq |-> packetsSent + 1, body |-> data]))
              /\ UNCHANGED overrun
           \/ /\ Len(socket) = SocketLimit
              /\ overrun' = TRUE /\ UNCHANGED socket
        /\ UNCHANGED sender
  /\ UNCHANGED packetsDropped

SendPacket(data) ==
  /\ ~ShouldDrop(recordsRead + 1)
  /\ \/ sender' = "failed" /\ UNCHANGED <<packetsSent, socket, overrun>>     \* sendto() fails
     \/ /\ packetsSent' = packetsSent + 1
        /\ \/ /\ Len(socket) < SocketLimit
              /\ socket' = Append(socket, Encode([seq |-> recordsRead + 1, body |-> data]))
              /\ UNCHANGED overrun
           \/ /\ Len(socket) = SocketLimit
              /\ overrun' = TRUE /\ UNCHANGED socket
        /\ UNCHANGED sender
  /\ UNCHANGED packetsDropped

SendRecord ==
  /\ sender = "replay" /\ recordsRead < script.records
  /\ ReadNext(sendAt).status = "Message"
  /\ LET record == ReadNext(sendAt)
     IN  /\ sendAt' = Behind(sendAt, record)
         /\ recordsRead' = recordsRead + 1
         /\ \/ /\ ~Encodes([body |-> record.data])
               /\ sender' = "failed" /\ UNCHANGED <<packetsSent, packetsDropped, socket, overrun>>
            \/ /\ Encodes([body |-> record.data])
               /\ Drop \/ SendPacket(record.data)
  /\ UNCHANGED <<script, handlerVars>>

ReplayComplete ==
  /\ sender = "replay"
  /\ \/ /\ \/ recordsRead = script.records
           \/ ReadNext(sendAt).status \in {"EndOfSession", "Incomplete"}
        /\ sender' = "complete"
     \/ /\ recordsRead < script.records /\ ReadNext(sendAt).status = "Error"
        /\ sender' = "failed"
  /\ UNCHANGED <<sendAt, script, recordsRead, packetsSent, packetsDropped, socket, overrun,
                 handlerVars>>

Sender == SendRecord \/ ReplayComplete
-----------------------------------------------------------------------------
(* The receiver: UdpItchMarketDataSource::receive() and ItchFeedHandler.   *)

ReceiveDatagram ==
  /\ socket # <<>> /\ socket' = Tail(socket)
  /\ IF DecodesPacket(Head(socket)) THEN ReceivePacket(DecodePacket(Head(socket)))
                                    ELSE ReceiveNothing

(* FileItchRecoverySource has the same file, and an index of the whole     *)
(* records in it.  Any that is too large would have ended the sender.      *)
RecoverMissing ==
  /\ pc = "packet" /\ hasSequence /\ packet.seq > expectedSequence
  /\ GapRecovered([n \in 1 .. packet.seq - expectedSequence |->
                     [seq |-> expectedSequence + n - 1,
                      body |-> file.payloads[expectedSequence + n - 1]]])

Receiver ==
  /\ \/ ReceiveDatagram
     \/ /\ \/ state = "Stopped" /\ Run              \* itch_live runs the feed once
           \/ LoopCondition \/ ProcessInSequence \/ RecoverMissing \/ FinishLifecycle
           \/ ReceiveNothing /\ socket = <<>>
        /\ UNCHANGED socket
  /\ UNCHANGED <<senderVars, overrun>>
-----------------------------------------------------------------------------
(* The numbers of the records sent, and of those between them.             *)
SentSequences == {n \in 1 .. recordsRead : ~ShouldDrop(n)}
Between == {n \in 1 .. recordsRead : \E i, j \in SentSequences : i <= n /\ n <= j}
GapStarts == {n \in Between \ SentSequences : n - 1 \in SentSequences}

(* Every range lies between two records that were sent, and no two ranges  *)
(* touch.                                                                  *)
RangesApart ==
  /\ \A i \in DOMAIN script.ranges : script.ranges[i][1] - 1 \in SentSequences
  /\ \A i \in DOMAIN script.ranges : script.ranges[i][2] + 1 \in SentSequences

Arrived == /\ sender = "complete" /\ socket = <<>> /\ ~overrun
           /\ state = "Running" /\ pc \in {"loop", "receive"}

(* When a replay has arrived the market state was given every record from  *)
(* the first to the last that was sent, those dropped between them         *)
(* included, in order; the handler counted a gap for every stretch left    *)
(* out and a recovered packet for every record in one.  These are the      *)
(* "Expected gaps" and "Expected recovery" the program announces if the    *)
(* ranges are apart.                                                       *)
InjectedGapsAreFilled ==
  Arrived =>
    /\ ToSet(applied) = Between
    /\ \A i \in 2 .. Len(applied) : applied[i] = applied[i - 1] + 1
    /\ stats["gaps"] = Cardinality(GapStarts)
    /\ stats["recovered"] = Cardinality(Between \ SentSequences)
    /\ packetsSent = Cardinality(SentSequences) /\ stats["ignored"] = 0
    /\ RangesApart => /\ stats["gaps"] = ExpectedGaps(script)
                      /\ stats["recovered"] = ExpectedDropped(script)
                      /\ packetsDropped = ExpectedDropped(script)
=============================================================================
