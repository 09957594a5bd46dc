------------------------------- MODULE RxRing -------------------------------
(***************************************************************************)
(* rx_queue of struct falcon_ploam_ctx with its two indices: the interrupt *)
(* handler writes at rx_head, the worker reads at rx_tail, each under      *)
(* ctx->lock.  Module Ploam uses the queue that this ring is shown to be.  *)
(***************************************************************************)
EXTENDS RingBuffer

CONSTANTS Message,      \* downstream messages
          NoMessage,    \* an entry that was never written
          RxQueueSize   \* slots of rx_queue (64)

ASSUME RingAssumption == RxQueueSize \in Nat /\ RxQueueSize >= 2

VARIABLES rx_queue, rx_head, rx_tail,
          msg           \* the worker's copy of the message it reads

rx_vars == <<rx_queue, rx_head, rx_tail, msg>>

\* falcon_ploam_init clears the whole context.
RxInit == /\ rx_queue = [i \in Slots(RxQueueSize) |-> NoMessage]
          /\ rx_head = 0
          /\ rx_tail = 0
          /\ msg = NoMessage

\* rx_head is advanced before the message is written.
RxPutAdvanceFirst(m) ==
  /\ rx_head' = NextSlot(rx_head, RxQueueSize)
  /\ rx_queue' = [rx_queue EXCEPT ![NextSlot(rx_head, RxQueueSize)] = m]
  /\ UNCHANGED <<rx_tail, msg>>

\* falcon_ploam_rx_irq_handler, one locked section.
RxPut(m) ==
  /\ rx_queue' = [rx_queue EXCEPT ![rx_head] = m]
  /\ rx_head' = NextSlot(rx_head, RxQueueSize)
  /\ UNCHANGED <<rx_tail, msg>>

\* falcon_ploam_fsm_worker, the locked section at the top of its loop.
RxGet ==
  /\ rx_head # rx_tail
  /\ msg' = rx_queue[rx_tail]
  /\ rx_tail' = NextSlot(rx_tail, RxQueueSize)
  /\ UNCHANGED <<rx_queue, rx_head>>

RxNext == RxGet \/ \E m \in Message : RxPut(m)

RxSpec == RxInit /\ [][RxNext]_rx_vars
-----------------------------------------------------------------------------
(* Properties.                                                             *)

\* The variables keep their types: both indices stay inside the ring.
RxTypeOK == /\ rx_queue \in [Slots(RxQueueSize) -> Message \cup {NoMessage}]
            /\ rx_head \in Slots(RxQueueSize)
            /\ rx_tail \in Slots(RxQueueSize)
            /\ msg \in Message \cup {NoMessage}

\* The unread messages, oldest first.
Pending == Contents(rx_queue, rx_head, rx_tail, RxQueueSize)

Overrun == INSTANCE OverrunQueue
           WITH queue <- Pending, taken <- msg, Size <- RxQueueSize

\* The ring that falcon_ploam_rx_irq_handler fills without looking at rx_tail
\* is a FIFO up to 63 messages, and the 64th unread one empties it.
RefinesOverrunQueue == Overrun!Spec
=============================================================================
