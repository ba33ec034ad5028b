----------------------- MODULE MCMoldItchFeedHandler -----------------------
(* The feed handler with sequence numbers 0..5, so that the 64-bit wrap is *)
(* three messages away, and datagrams of one or two frames.                *)
EXTENDS MoldItchFeedHandler

CONSTANTS MaxFrames

SeqUpTo(S, n) == UNION {[1 .. m -> S] : m \in 0 .. n}

MCDatagrams ==
  LET frames == SeqUpTo(Body, MaxFrames) \ {<<>>}
  IN  {[first |-> s, count |-> Len(f), frames |-> f, whole |-> TRUE] :
         s \in Sequence, f \in frames}
      \cup {[first |-> s, count |-> 2, frames |-> <<"good">>, whole |-> TRUE] :
              s \in {1, 2}}
      \cup {[first |-> 1, count |-> 1, frames |-> <<"good">>, whole |-> FALSE],
            [first |-> 1, count |-> 1, frames |-> <<"good", "good">>, whole |-> TRUE],
            [first |-> 1, count |-> 0, frames |-> <<>>, whole |-> TRUE]}

(* Exact answers, incomplete ones, and ones with a hole or a repetition. *)
MCAnswers ==
  {[i \in 1 .. n |-> [seq |-> s + i - 1, body |-> IF i = b THEN "bad" ELSE "good"]] :
      n \in 0 .. 3, s \in 0 .. 2, b \in 0 .. 2}
  \cup {<<[seq |-> s, body |-> "good"], [seq |-> t, body |-> "good"]>> :
          s \in 1 .. 3, t \in 1 .. 3}
=============================================================================
