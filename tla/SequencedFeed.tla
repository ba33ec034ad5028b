---------------------------- MODULE SequencedFeed ----------------------------
(***************************************************************************)
(* What a feed handler promises its market state: in one lifecycle it      *)
(* applies consecutive messages only, it applies them while it is Running, *)
(* and a lifecycle that Failed applies nothing more.                       *)
(***************************************************************************)
EXTENDS Integers, Sequences

CONSTANT MaxSequence

VARIABLES state,      \* FeedHandlerState
          applied     \* sequence numbers handed to the market state

Successor(s) == IF s = MaxSequence THEN 0 ELSE s + 1

FeedInit == state = "Stopped" /\ applied = <<>>

Open == state # "Running" /\ state' = "Running" /\ applied' = <<>>

Apply(s) == /\ state = "Running"
            /\ applied # <<>> => s = Successor(applied[Len(applied)])
            /\ applied' = Append(applied, s)
            /\ UNCHANGED state

Close == state = "Running" /\ state' = "Stopped" /\ UNCHANGED applied
Break == state = "Running" /\ state' = "Failed" /\ UNCHANGED applied

FeedNext == \/ Open \/ Close \/ Break
            \/ \E s \in 0 .. MaxSequence : Apply(s)

FeedSpec == FeedInit /\ [][FeedNext]_<<state, applied>>
=============================================================================
