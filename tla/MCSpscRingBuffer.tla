-------------------------- MODULE MCSpscRingBuffer --------------------------
(* The ring buffer with few slots and two objects to tell apart.           *)
EXTENDS SpscRingBuffer
=============================================================================
