-------------------------- MODULE DropOldestQueue --------------------------
(***************************************************************************)
(* What the event FIFO of /dev/onu0 promises its readers: a FIFO queue of  *)
(* bounded capacity in which a producer never blocks and never fails.      *)
(* When the queue is full the OLDEST event makes room ("FIFO full, drop    *)
(* oldest", falcon_onu_dev.c), so that the newest events always survive,   *)
(* in the order in which they were pushed, each read at most once.         *)
(***************************************************************************)
EXTENDS Naturals, Sequences

CONSTANTS Event,      \* what a producer pushes
          Readers,    \* processes that read the device
          Capacity    \* number of events the queue can hold

VARIABLES queue,      \* the events not read yet, oldest first
          taken       \* taken[r]: the event reader r took last

NoEvent == [id |-> 0, data |-> "none"]

Init == /\ queue = << >>
        /\ taken = [r \in Readers |-> NoEvent]

Push(e) == /\ queue' = IF Len(queue) < Capacity
                          THEN Append(queue, e)
                          ELSE Append(Tail(queue), e)
           /\ UNCHANGED taken

Pop(r) == /\ queue # << >>
          /\ taken' = [taken EXCEPT ![r] = Head(queue)]
          /\ queue' = Tail(queue)

Next == \/ \E e \in Event : Push(e)
        \/ \E r \in Readers : Pop(r)

Spec == Init /\ [][Next]_<<queue, taken>>
=============================================================================
