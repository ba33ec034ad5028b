--------------------------- MODULE ItchStreamReader ---------------------------
(***************************************************************************)
(* common/market_data/itch/ItchStreamReader.cpp: readNext() on a recorded  *)
(* session, a file of ITCH payloads of which each follows its length in    *)
(* two bytes.                                                              *)
(***************************************************************************)
EXTENDS Bytes

VARIABLE file           \* [bytes, fails: does the device fail, rather than the
                        \* file end, behind the last of them; payloads: history,
                        \* what was recorded whole]

(* Payloads as they are recorded, and what is found behind the last one.   *)
Framed(payloads) ==
  FlattenSeq([n \in DOMAIN payloads |-> WriteU16(Len(payloads[n])) \o payloads[n]])

RecordedFile(payloads, ending, fails) ==
  [bytes |-> Framed(payloads) \o ending, fails |-> fails, payloads |-> payloads]

(* The device is only asked whether it failed if nothing was read of the   *)
(* length, or not all of the payload.                                      *)
NothingMore == [status |-> IF file.fails THEN "Error" ELSE "Incomplete"]

(* readNext() behind so many bytes of the file.                            *)
ReadNext(position) ==
  LET left == Len(file.bytes) - position
      length == ReadU16(file.bytes, position)
  IN  IF left = 0 THEN NothingMore
      ELSE IF left = 1 THEN [status |-> "Incomplete"]
      ELSE IF length = 0 THEN [status |-> "EndOfSession"]
      ELSE IF left - 2 < length THEN NothingMore
      ELSE [status |-> "Message",
            data |-> SubSeq(file.bytes, position + 3, position + 2 + length)]

(* Where readNext() has got to behind a message. *)
Behind(position, record) == position + 2 + Len(record.data)

(* A file that may have been recorded: payloads that can be framed, and    *)
(* not one more whole record behind them.                                  *)
HoldsRecord(bytes) ==
  Len(bytes) >= 2 /\ ReadU16(bytes, 0) \in 1 .. Len(bytes) - 2

IsRecording(f) ==
  LET ending == SubSeq(f.bytes, Len(Framed(f.payloads)) + 1, Len(f.bytes))
  IN  /\ f = RecordedFile(f.payloads, ending, f.fails)
      /\ f.payloads \in Seq(Seq(Nat)) /\ f.fails \in BOOLEAN
      /\ \A n \in DOMAIN f.payloads : Len(f.payloads[n]) \in 1 .. MaxU16
      /\ ending \in Seq(Nat) /\ ~HoldsRecord(ending)
=============================================================================
