-------------------------- MODULE ItchMoldUdpLoadGen --------------------------
(***************************************************************************)
(* app/itch_mold_udp_load_gen.cpp: packs the first messages of a recorded  *)
(* session into MoldUDP64 datagrams, and when all are packed sends them.   *)
(***************************************************************************)
EXTENDS ItchStreamReader, MoldUdp64Codec

CONSTANTS Session,              \* ten bytes
          RequestedMessages     \* message counts the program is started with

ASSUME LoadGenAssumption ==
  /\ Session \in Seq(Nat) /\ Len(Session) = SequenceOffset
  /\ RequestedMessages \subseteq Nat \ {0}
  /\ \A n \in RequestedMessages : FitsIn(8, n)

VARIABLES
  generator,            \* "pack", "send", "sent" or "failed"
  packAt,               \* bytes of the file read
  requestedMessages, messagesRead, nextSequence,
  packetOpen, current,  \* the datagram being packed: [bytes, messageCount]
  datagrams,            \* finished, not yet sent
  sent,                 \* history: datagrams handed to the network, in order
  sendErrors

packing == <<packAt, requestedMessages, messagesRead, nextSequence, packetOpen, current>>
generatorVars == <<generator, packing, datagrams, sent, sendErrors>>

NoPacket == [bytes |-> <<>>, messageCount |-> 0]
Opened(firstSequence) == [bytes |-> BeginPacket(Session, firstSequence), messageCount |-> 0]

GeneratorInit ==
  /\ generator = "pack" /\ packAt = 0
  /\ requestedMessages \in RequestedMessages /\ messagesRead = 0 /\ nextSequence = 1
  /\ packetOpen = FALSE /\ current = NoPacket
  /\ datagrams = <<>> /\ sent = <<>> /\ sendErrors = 0
-----------------------------------------------------------------------------
Finalized(packet) == FinalizePacket(packet.bytes, packet.messageCount)

Appended(packet, data) == [bytes |-> AppendMessage(packet.bytes, data),
                           messageCount |-> packet.messageCount + 1]

TooLargeForDatagram(data) == HeaderSize + 2 + Len(data) > MaxDatagramSize

(* What if: the message that closes a datagram were numbered before the    *)
(* next is opened.                                                         *)
PackNumberingFirst(data) ==
  LET open == IF packetOpen THEN current ELSE Opened(nextSequence)
  IN  /\ packetOpen' = TRUE
      /\ \/ /\ Fits(open.bytes, open.messageCount, data)
            /\ current' = Appended(open, data)
            /\ UNCHANGED datagrams
         \/ /\ ~Fits(open.bytes, open.messageCount, data)
            /\ datagrams' = Append(datagrams, Finalized(open))
            /\ current' = Appended(Opened(nextSequence + 1), data)

(* The first message of a datagram opens it; one that the open datagram    *)
(* has no room for closes it and opens the next, with the same number.     *)
Pack(data) ==
  LET open == IF packetOpen THEN current ELSE Opened(nextSequence)
  IN  /\ packetOpen' = TRUE
      /\ \/ /\ Fits(open.bytes, open.messageCount, data)
            /\ current' = Appended(open, data)
            /\ UNCHANGED datagrams
         \/ /\ ~Fits(open.bytes, open.messageCount, data)
            /\ datagrams' = Append(datagrams, Finalized(open))
            /\ current' = Appended(Opened(nextSequence), data)

PackRecord ==
  /\ generator = "pack" /\ messagesRead < requestedMessages
  /\ ReadNext(packAt).status = "Message"
  /\ LET record == ReadNext(packAt)
     IN  /\ packAt' = Behind(packAt, record)
         /\ \/ /\ TooLargeForDatagram(record.data)
               /\ generator' = "failed"
               /\ UNCHANGED <<messagesRead, nextSequence, packetOpen, current, datagrams>>
            \/ /\ ~TooLargeForDatagram(record.data)
               /\ Pack(record.data)
               /\ messagesRead' = messagesRead + 1 /\ nextSequence' = nextSequence + 1
               /\ UNCHANGED generator
  /\ UNCHANGED <<requestedMessages, sent, sendErrors>>

(* The end of the file or of the messages asked for: the last datagram is  *)
(* closed.  A failing device, or nothing to send, ends the program.        *)
PackingEnds ==
  /\ generator = "pack"
  /\ messagesRead = requestedMessages \/ ReadNext(packAt).status # "Message"
  /\ \/ /\ messagesRead < requestedMessages /\ ReadNext(packAt).status = "Error"
        /\ generator' = "failed" /\ UNCHANGED <<packetOpen, current, datagrams>>
     \/ /\ messagesRead = requestedMessages \/ ReadNext(packAt).status # "Error"
        /\ datagrams' = IF packetOpen THEN Append(datagrams, Finalized(current)) ELSE datagrams
        /\ packetOpen' = FALSE /\ current' = NoPacket
        /\ generator' = IF datagrams' = <<>> THEN "failed" ELSE "send"
  /\ UNCHANGED <<packAt, requestedMessages, messagesRead, nextSequence, sent, sendErrors>>

(* The timed loop.  What send() refuses is counted and not tried again.    *)
Send ==
  /\ generator = "send" /\ datagrams # <<>>
  /\ datagrams' = Tail(datagrams)
  /\ \/ sent' = Append(sent, Head(datagrams)) /\ UNCHANGED sendErrors
     \/ sendErrors' = sendErrors + 1 /\ UNCHANGED sent
  /\ UNCHANGED <<generator, packing>>

SendingEnds ==
  /\ generator = "send" /\ datagrams = <<>>
  /\ generator' = IF sendErrors = 0 THEN "sent" ELSE "failed"
  /\ UNCHANGED <<packing, datagrams, sent, sendErrors>>

Generator == PackRecord \/ PackingEnds \/ Send \/ SendingEnds
-----------------------------------------------------------------------------
(* All that has been packed: sent, waiting and open.                       *)
Packed == sent \o datagrams \o (IF packetOpen THEN <<Finalized(current)>> ELSE <<>>)

NumberedFrom(first, payloads) ==
  [n \in 1 .. Len(payloads) |-> [sequence |-> first + n - 1, data |-> payloads[n]]]

(* Every datagram is one the feed handler accepts, and what it finds in    *)
(* them is the recorded session from its beginning, message by message,    *)
(* under consecutive numbers from 1; what send() refuses is missing as     *)
(* whole datagrams, and never silently.                                    *)
DatagramsCarryTheFile ==
  /\ \A i \in DOMAIN Packed : Len(Packed[i]) <= MaxDatagramSize /\ WellFramed(Packed[i])
  /\ messagesRead <= requestedMessages
  /\ LET carried == FlattenSeq([i \in DOMAIN Packed |-> MessagesOf(Packed[i])])
         recorded == NumberedFrom(1, SubSeq(file.payloads, 1, messagesRead))
     IN  IF sendErrors = 0 THEN carried = recorded
         ELSE /\ ToSet(carried) \subseteq ToSet(recorded) /\ Len(carried) < messagesRead
              /\ \A i \in 2 .. Len(carried) : carried[i - 1].sequence < carried[i].sequence
  /\ generator = "sent" => sendErrors = 0 /\
       messagesRead = IF requestedMessages < Len(file.payloads) THEN requestedMessages
                      ELSE Len(file.payloads)
=============================================================================
