----------------------------- MODULE ItchUdpCodec -----------------------------
(***************************************************************************)
(* common/market_data/itch/ItchUdpCodec.cpp: one ITCH payload in one       *)
(* datagram, behind its sequence number and its length.                    *)
(***************************************************************************)
EXTENDS Bytes

CONSTANT MaxPayloadSize         \* 2048 in the code

UdpHeaderSize == 10

Encodes(p) == Len(p.body) <= MaxPayloadSize
Encode(p) == WriteU64(p.seq) \o WriteU16(Len(p.body)) \o p.body

(* "Require exact framing." *)
DecodesPacket(datagram) ==
  /\ Len(datagram) >= UdpHeaderSize /\ ReadU16(datagram, 8) <= MaxPayloadSize
  /\ Len(datagram) = UdpHeaderSize + ReadU16(datagram, 8)

DecodePacket(datagram) ==
  [seq |-> ReadU64(datagram, 0),
   body |-> SubSeq(datagram, UdpHeaderSize + 1, Len(datagram))]
=============================================================================
