----------------------------- MODULE RingBuffer -----------------------------
(***************************************************************************)
(* The ring arithmetic that the driver's two queues share: an array of N   *)
(* slots, a head index (next slot to write) and a tail index (next slot to *)
(* read), both kept modulo N, with head = tail meaning "empty".            *)
(* rx_queue (falcon_ploam.c) masks with 0x3F, g_onu_ring (falcon_onu_dev.c)*)
(* takes % ONU_FIFO_DEPTH; with 64 slots the two are the same.             *)
(***************************************************************************)
EXTENDS Integers, Sequences

Slots(N) == 0 .. (N - 1)

\* The slot after slot i.
NextSlot(i, N) == (i + 1) % N

\* Number of unread slots.
Fill(head, tail, N) == IF head >= tail THEN head - tail ELSE head + N - tail

\* The unread entries of buffer b, oldest first.
Contents(b, head, tail, N) ==
  [i \in 1 .. Fill(head, tail, N) |-> b[(tail + (i - 1)) % N]]
=============================================================================
