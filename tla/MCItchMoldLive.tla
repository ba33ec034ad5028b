-------------------------- MODULE MCItchMoldLive --------------------------
(* The live application with a handful of datagrams: one, one behind a gap *)
(* that can be filled, and one that does not decode.                       *)
EXTENDS ItchMoldLive

One(s, b) == [first |-> s, count |-> 1, frames |-> <<b>>, whole |-> TRUE]

MCDatagrams == {One(1, "good"), One(3, "good"), One(2, "bad")}
MCAnswers == {<<[seq |-> 2, body |-> "good"]>>}
=============================================================================
