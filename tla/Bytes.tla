-------------------------------- MODULE Bytes --------------------------------
(***************************************************************************)
(* Numbers as bytes, the most significant first: readU16, writeU16,        *)
(* readU64 and writeU64 of ItchStreamReader, MoldUdp64Codec and            *)
(* ItchUdpCodec.  What a byte counts up to is a parameter, so that small   *)
(* numbers take several bytes.                                             *)
(***************************************************************************)
EXTENDS Integers, Sequences, SequencesExt

CONSTANT ByteBase       \* 256 in the code

ASSUME ByteBaseAssumption == ByteBase \in Nat \ {0, 1}

(* n >> 8, 16, ... : without its last bytes. *)
Shifted(width, n) ==
  LET left[i \in 0 .. width] == IF i = 0 THEN n ELSE left[i - 1] \div ByteBase IN left

(* A number that so many bytes can hold, and its bytes.                    *)
FitsIn(width, n) == Shifted(width, n)[width] = 0
Write(width, n) ==
  LET left == Shifted(width, n) IN [i \in 1 .. width |-> left[width - i] % ByteBase]
Read(bytes, first, last) ==
  LET value[i \in first - 1 .. last] ==
        IF i = first - 1 THEN 0 ELSE value[i - 1] * ByteBase + bytes[i]
  IN  value[last]

WriteU16(n) == Write(2, n)
WriteU64(n) == Write(8, n)
ReadU16(bytes, offset) == Read(bytes, offset + 1, offset + 2)
ReadU64(bytes, offset) == Read(bytes, offset + 1, offset + 8)

MaxU16 == ByteBase * ByteBase - 1
=============================================================================
