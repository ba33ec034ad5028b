---------------------------- MODULE MCItchLive ----------------------------
(* Five records, of which one cannot be sent and one cannot be decoded;    *)
(* the wire brings the first, the third and the last.                      *)
(* The file holds none, two and a half or four and a half of them when    *)
(* the application starts, and an earlier run has left no index, one of    *)
(* two records, one that a power failure cut off, or one of its own kind.  *)
EXTENDS ItchLive

MCRecording == <<"a", "huge", "b", "c", "bad">>
MCPackets == {[seq |-> n, body |-> MCRecording[n]] : n \in {1, 3, 5}}

Point(s, o) == [sequence |-> s, fileOffset |-> o]
Index(i, r, c, z, p) == [interval |-> i, records |-> r, count |-> c, size |-> z, checkpoints |-> p]
MCOldIndexes ==
  {NoIndex, Index(2, 2, 1, 5, <<Point(1, 0)>>), Index(2, 4, 2, 9, <<Point(1, 0)>>),
   Index(1, 2, 2, 5, <<Point(1, 0), Point(2, 2)>>)}
=============================================================================
