----------------------------- MODULE BoundedFifo -----------------------------
(***************************************************************************)
(* What the single-producer single-consumer queues of this system promise: *)
(* a first-in first-out queue that never holds more than Limit values.     *)
(* Every value put is taken at most once, in the order of the puts, and    *)
(* `out' is what the consumer was handed by its last successful pop.       *)
(***************************************************************************)
EXTENDS Naturals, Sequences

CONSTANTS Value,    \* what may be queued
          Limit,    \* the most values the queue holds
          Nothing   \* `out' before the first take

VARIABLES q, out

fifoVars == <<q, out>>

FifoInit == q = <<>> /\ out = Nothing

Put(v) == /\ Len(q) < Limit
          /\ q' = Append(q, v)
          /\ out' = out

Take == /\ q # <<>>
        /\ out' = Head(q)
        /\ q' = Tail(q)

FifoNext == Take \/ \E v \in Value : Put(v)

FifoSpec == FifoInit /\ [][FifoNext]_fifoVars
=============================================================================
