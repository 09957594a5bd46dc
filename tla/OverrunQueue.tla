---------------------------- MODULE OverrunQueue ----------------------------
(***************************************************************************)
(* What rx_queue is to its two users: a FIFO queue whose producer never    *)
(* looks for room.  The push that would fill the last slot makes the queue *)
(* look empty: every message in it, the new one too, is lost.              *)
(***************************************************************************)
EXTENDS Naturals, Sequences

CONSTANTS Message,    \* what the interrupt handler queues
          NoMessage,  \* the reader's buffer before its first message
          Size        \* slots of the ring behind the queue

VARIABLES queue,      \* the messages not read yet, oldest first
          taken       \* the message the worker took last

Init == queue = << >> /\ taken = NoMessage

Put(m) == /\ queue' = IF Len(queue) = Size - 1 THEN << >> ELSE Append(queue, m)
          /\ UNCHANGED taken

Get == /\ queue # << >>
       /\ taken' = Head(queue)
       /\ queue' = Tail(queue)

Next == Get \/ \E m \in Message : Put(m)

Spec == Init /\ [][Next]_<<queue, taken>>
=============================================================================
