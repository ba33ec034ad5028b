---------------------------- MODULE MoldUdp64Codec ----------------------------
(***************************************************************************)
(* common/market_data/moldudp64/MoldUdp64Codec.cpp: a datagram is a header *)
(* (session, sequence number of the first message, number of messages) and *)
(* messages, each behind its length.  Only the encoded bytes of the        *)
(* fixed buffer are kept.                                                  *)
(***************************************************************************)
EXTENDS Bytes

CONSTANT MaxDatagramSize        \* bytes, 1400 in the code

ASSUME DatagramSizeAssumption == MaxDatagramSize \in Nat

HeaderSize == 20
SequenceOffset == 10
MessageCountOffset == 18

BeginPacket(session, firstSequenceNumber) ==
  session \o WriteU64(firstSequenceNumber) \o WriteU16(0)

(* appendMessage(), and when it does not refuse. *)
Fits(datagram, messageCount, message) ==
  /\ message # <<>> /\ Len(message) <= MaxU16 /\ messageCount # MaxU16
  /\ Len(datagram) + 2 + Len(message) <= MaxDatagramSize

AppendMessage(datagram, message) == datagram \o WriteU16(Len(message)) \o message

FinalizePacket(datagram, messageCount) ==
  [i \in DOMAIN datagram |->
     IF i \in MessageCountOffset + 1 .. MessageCountOffset + 2
       THEN WriteU16(messageCount)[i - MessageCountOffset] ELSE datagram[i]]

SequenceNumber(datagram) == ReadU64(datagram, SequenceOffset)
MessageCount(datagram) == ReadU16(datagram, MessageCountOffset)

(* nextMessage() from one offset: the next offset, or a size no datagram   *)
(* has if the message is not all there.                                    *)
Broken == MaxDatagramSize + 1
NextOffset(datagram, offset) ==
  IF offset + 2 > Len(datagram) THEN Broken
  ELSE IF ReadU16(datagram, offset) > Len(datagram) - offset - 2 THEN Broken
  ELSE offset + 2 + ReadU16(datagram, offset)

(* The offsets behind the header and behind each message.                  *)
Offsets(datagram) ==
  LET offset[i \in 0 .. MessageCount(datagram)] ==
        IF i = 0 THEN HeaderSize ELSE NextOffset(datagram, offset[i - 1])
  IN  offset

(* The first pass of MoldItchFeedHandler::processDatagram().               *)
WellFramed(datagram) ==
  /\ Len(datagram) >= HeaderSize /\ MessageCount(datagram) # 0
  /\ Offsets(datagram)[MessageCount(datagram)] = Len(datagram)

(* What its second pass goes through. *)
MessagesOf(datagram) ==
  [i \in 1 .. MessageCount(datagram) |->
     [sequence |-> SequenceNumber(datagram) + i - 1,
      data |-> SubSeq(datagram, Offsets(datagram)[i - 1] + 3, Offsets(datagram)[i])]]
=============================================================================
