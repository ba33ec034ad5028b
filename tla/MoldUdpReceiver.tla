--------------------------- MODULE MoldUdpReceiver ---------------------------
(***************************************************************************)
(* common/market_data/moldudp64/MoldUdpReceiver.cpp: the thread that does  *)
(* nothing but move datagrams from the socket to the datagram queue, so    *)
(* that a slow feed handler does not overflow the kernel's buffer.         *)
(*                                                                         *)
(* The queue is the bounded FIFO that SpscRingBuffer implements.  Timing   *)
(* statistics and the maximum occupancy are left out.                      *)
(***************************************************************************)
EXTENDS Naturals, Sequences

CONSTANTS Datagrams,     \* what the socket may deliver
          QueueLimit,    \* objects the datagram queue holds
          MaxReceived    \* bound: datagrams received in one run

VARIABLES queue,         \* MoldDatagramQueue
          running,       \* running_
          worker,        \* worker_: "none", or where receiveLoop() is
          held,          \* the datagram just received, or None
          received, queued, drops

None == [first |-> 0]
control == <<running, worker>>
books == <<received, queued, drops>>

InitReceiver ==
  /\ queue = <<>> /\ running = FALSE /\ worker = "none" /\ held = None
  /\ received = 0 /\ queued = 0 /\ drops = 0

(* start() throws, and changes nothing, while a thread is unjoined or the  *)
(* flag is up; it takes the flag down again if no thread can be created.   *)
Start ==
  /\ worker = "none" /\ ~running
  /\ received' = 0 /\ queued' = 0 /\ drops' = 0
  /\ \/ running' = TRUE /\ worker' = "loop"
     \/ UNCHANGED control
  /\ UNCHANGED <<queue, held>>

Stop == running' = FALSE /\ UNCHANGED <<queue, worker, held>> /\ UNCHANGED books

Join == /\ worker = "exited"
        /\ worker' = "none"
        /\ UNCHANGED <<queue, running, held>> /\ UNCHANGED books

(* receiveLoop() *)
LoopCondition ==
  /\ worker = "loop"
  /\ \/ running /\ worker' = "receive" /\ UNCHANGED running
     \/ ~running /\ worker' = "exited" /\ running' = FALSE
  /\ UNCHANGED <<queue, held>> /\ UNCHANGED books

ReceiveNothing ==
  /\ worker = "receive"
  /\ worker' = "loop"
  /\ UNCHANGED <<queue, running, held>> /\ UNCHANGED books

Receive(d) ==
  /\ worker = "receive" /\ received < MaxReceived
  /\ held' = d
  /\ received' = received + 1
  /\ worker' = "push"
  /\ UNCHANGED <<queue, running, queued, drops>>

(* What if: datagrams dropped at the full queue were not counted. *)
PushOrForget ==
  /\ worker = "push"
  /\ IF Len(queue) < QueueLimit
       THEN queue' = Append(queue, held) /\ worker' = "count"
       ELSE worker' = "loop" /\ UNCHANGED queue
  /\ held' = None
  /\ UNCHANGED <<running, received, queued, drops>>

Push ==
  /\ worker = "push"
  /\ \/ /\ Len(queue) < QueueLimit
        /\ queue' = Append(queue, held)
        /\ worker' = "count"
        /\ UNCHANGED drops
     \/ /\ Len(queue) >= QueueLimit
        /\ drops' = drops + 1
        /\ worker' = "loop"
        /\ UNCHANGED queue
  /\ held' = None
  /\ UNCHANGED <<running, received, queued>>

CountQueued ==
  /\ worker = "count"
  /\ queued' = queued + 1
  /\ worker' = "loop"
  /\ UNCHANGED <<queue, running, held, received, drops>>

ReceiveLoop == \/ LoopCondition \/ ReceiveNothing \/ Push \/ CountQueued
               \/ \E d \in Datagrams : Receive(d)

-----------------------------------------------------------------------------
(* The fields keep to their ranges, and a datagram is held exactly between *)
(* receive() and push(); part of ItchMoldLive's type invariant.            *)
ReceiverTypeOK ==
  /\ queue \in Seq(Datagrams) /\ Len(queue) <= QueueLimit
  /\ running \in BOOLEAN
  /\ worker \in {"none", "loop", "receive", "push", "count", "exited"}
  /\ IF worker = "push" THEN held \in Datagrams ELSE held = None
  /\ received \in 0..MaxReceived /\ queued \in Nat /\ drops \in Nat
  /\ running => worker \notin {"none", "exited"}

(* What receiveLoop() received it queued or dropped, and counted as such,  *)
(* but for the one datagram it is working on.                              *)
ReceiverBooks ==
  received = queued + drops + (IF worker \in {"push", "count"} THEN 1 ELSE 0)
=============================================================================
