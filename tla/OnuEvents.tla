----------------------------- MODULE OnuEvents -----------------------------
(***************************************************************************)
(* The event FIFO behind /dev/onu0 (falcon_onu_dev.c) and the thread of    *)
(* omcid that reads it (omci_api_event.c, dev_ctl of omci_api.c).          *)
(*                                                                         *)
(* Producers are the contexts that call falcon_onu_push_event: the PLOAM   *)
(* worker and the GTC interrupt handler.  A push is atomic (it runs under  *)
(* g_onu_ring.lock with interrupts off), the wake-up that follows is not   *)
(* part of it.  A reader waits in select() and then reads one event with   *)
(* the ioctl FIO_ONU_EVENT_FIFO.                                           *)
(***************************************************************************)
EXTENDS RingBuffer, FiniteSets

CONSTANTS Event,           \* events pushed: records [id, data], id # 0
          Producers,       \* contexts that push events
          Readers,         \* threads that select() and read the device
          ONU_FIFO_DEPTH   \* slots of the ring (64 in the driver)

NoEvent == [id |-> 0, data |-> "none"]

ASSUME DepthAssumption == ONU_FIFO_DEPTH \in Nat /\ ONU_FIFO_DEPTH >= 2
ASSUME ReadersAssumption == IsFiniteSet(Readers)
ASSUME EventAssumption == \A e \in Event : e.id \in Nat \ {0}

VARIABLES
  events, head, tail,      \* g_onu_ring
  waking,                  \* producers between unlock and wake_up_interruptible
  pc,                      \* pc[r]: where reader r is
  triggered,               \* triggered[r]: r was woken since it joined the wait queue
  ev,                      \* ev[r]: the ioctl's local copy of the event
  exchange,                \* exchange[r]: the error word of dev_ctl's fio_exchange
  data,                    \* data[r]: the caller's buffer, behind exchange.p_data
  dispatched               \* dispatched[r]: the event id omci_api_onu_handle switched on

ring == <<events, head, tail>>
vars == <<events, head, tail, waking, pc, triggered, ev, exchange, data, dispatched>>

Pcs == {"run", "polling", "asleep", "readable", "copying", "returned"}

Init == /\ events = [i \in Slots(ONU_FIFO_DEPTH) |-> NoEvent]
        /\ head = 0
        /\ tail = 0
        /\ waking = {}
        /\ pc = [r \in Readers |-> "run"]
        /\ triggered = [r \in Readers |-> FALSE]
        /\ ev = [r \in Readers |-> NoEvent]
        /\ exchange = [r \in Readers |-> 0]
        /\ data = [r \in Readers |-> NoEvent]
        /\ dispatched = [r \in Readers |-> 0]

-----------------------------------------------------------------------------
(* Producers.                                                              *)

\* falcon_onu_push_event without a step to make room: the write would land on
\* an unread slot and the ring would look empty.
PushOverwriting(p, e) ==
  /\ p \notin waking
  /\ events' = [events EXCEPT ![head] = e]
  /\ head' = NextSlot(head, ONU_FIFO_DEPTH)
  /\ waking' = waking \cup {p}
  /\ UNCHANGED <<tail, pc, triggered, ev, exchange, data, dispatched>>

\* falcon_onu_push_event up to the unlock.
Push(p, e) ==
  /\ p \notin waking
  /\ tail' = IF NextSlot(head, ONU_FIFO_DEPTH) = tail
               THEN NextSlot(tail, ONU_FIFO_DEPTH) ELSE tail
  /\ events' = [events EXCEPT ![head] = e]
  /\ head' = NextSlot(head, ONU_FIFO_DEPTH)
  /\ waking' = waking \cup {p}
  /\ UNCHANGED <<pc, triggered, ev, exchange, data, dispatched>>

\* A push that forgets to wake the readers.
WakeNobody(p) ==
  /\ p \in waking
  /\ waking' = waking \ {p}
  /\ UNCHANGED <<ring, pc, triggered, ev, exchange, data, dispatched>>

\* wake_up_interruptible(&g_onu_ring.wq): every reader that joined the wait
\* queue is marked, and runs again if it was already asleep.
Wake(p) ==
  /\ p \in waking
  /\ waking' = waking \ {p}
  /\ triggered' = [r \in Readers |-> triggered[r] \/ pc[r] \in {"polling", "asleep"}]
  /\ pc' = [r \in Readers |-> IF pc[r] = "asleep" THEN "polling" ELSE pc[r]]
  /\ UNCHANGED <<ring, ev, exchange, data, dispatched>>

-----------------------------------------------------------------------------
(* Readers: select(), then one FIO_ONU_EVENT_FIFO.                         *)

\* select() calls falcon_onu_poll, whose poll_wait joins the wait queue.
PollWait(r) ==
  /\ pc[r] = "run"
  /\ pc' = [pc EXCEPT ![r] = "polling"]
  /\ triggered' = [triggered EXCEPT ![r] = FALSE]
  /\ UNCHANGED <<ring, waking, ev, exchange, data, dispatched>>

\* The rest of falcon_onu_poll.  An empty ring puts the caller to sleep,
\* unless it was woken after it joined the wait queue: then select() asks again.
PollCheck(r) ==
  /\ pc[r] = "polling"
  /\ pc' = [pc EXCEPT ![r] = IF head # tail THEN "readable"
                             ELSE IF triggered[r] THEN "polling" ELSE "asleep"]
  /\ triggered' = [triggered EXCEPT ![r] = FALSE]
  /\ UNCHANGED <<ring, waking, ev, exchange, data, dispatched>>

\* The 5 s of event_wait are over.
SelectTimeout(r) ==
  /\ pc[r] = "asleep"
  /\ pc' = [pc EXCEPT ![r] = "run"]
  /\ UNCHANGED <<ring, waking, triggered, ev, exchange, data, dispatched>>

\* dev_ctl clears the caller's buffer and its fio_exchange, whose address it
\* passes to the ioctl.
DevCtl(r) == /\ data' = [data EXCEPT ![r] = NoEvent]
             /\ exchange' = [exchange EXCEPT ![r] = 0]

\* The ioctl takes the oldest event under the lock; -EAGAIN when there is none.
IoctlDequeue(r) ==
  /\ pc[r] = "readable"
  /\ DevCtl(r)
  /\ IF head = tail
       THEN /\ pc' = [pc EXCEPT ![r] = "run"]
            /\ UNCHANGED <<tail, ev>>
       ELSE /\ ev' = [ev EXCEPT ![r] = events[tail]]
            /\ tail' = NextSlot(tail, ONU_FIFO_DEPTH)
            /\ pc' = [pc EXCEPT ![r] = "copying"]
  /\ UNCHANGED <<events, head, waking, triggered, dispatched>>

\* copy_to_user(argp, &ev, copy_len): argp is what dev_ctl passed, the address
\* of its fio_exchange, and the size encoded in FIO_ONU_EVENT_FIFO is that of
\* the header, so the two words written are exchange.error and .length.
CopyToUser(r) ==
  /\ pc[r] = "copying"
  /\ exchange' = [exchange EXCEPT ![r] = ev[r].id]
  /\ pc' = [pc EXCEPT ![r] = "returned"]
  /\ UNCHANGED <<ring, waking, triggered, ev, data, dispatched>>

\* copy_to_user fails: the ioctl returns -EFAULT and the event is gone.
CopyFault(r) ==
  /\ pc[r] = "copying"
  /\ pc' = [pc EXCEPT ![r] = "run"]
  /\ UNCHANGED <<ring, waking, triggered, ev, exchange, data, dispatched>>

\* omci_api_onu_handle, after dev_ctl returned the smaller of 0 and
\* exchange.error, i.e. success: it switches on the id in the caller's buffer.
OnuHandle(r) ==
  /\ pc[r] = "returned"
  /\ dispatched' = [dispatched EXCEPT ![r] = data[r].id]
  /\ pc' = [pc EXCEPT ![r] = "run"]
  /\ UNCHANGED <<ring, waking, triggered, ev, exchange, data>>

Reader(r) == \/ PollWait(r)
             \/ PollCheck(r)
             \/ IoctlDequeue(r)
             \/ CopyToUser(r)
             \/ CopyFault(r)
             \/ OnuHandle(r)

Next == \/ \E p \in Producers, e \in Event : Push(p, e)
        \/ \E p \in Producers : Wake(p)
        \/ \E r \in Readers : Reader(r) \/ SelectTimeout(r)

\* A reader that can run runs, and a producer that pushed goes on to the
\* wake-up: nothing between the two can block.  The 5 s timeout is not relied on.
Fairness == /\ \A r \in Readers : WF_vars(Reader(r))
            /\ \A p \in Producers : WF_vars(Wake(p))

Spec == Init /\ [][Next]_vars
FairSpec == Spec /\ Fairness
-----------------------------------------------------------------------------
(* Properties.                                                             *)

\* The variables keep their types: indices stay inside the ring.
TypeOK == /\ events \in [Slots(ONU_FIFO_DEPTH) -> Event \cup {NoEvent}]
          /\ head \in Slots(ONU_FIFO_DEPTH)
          /\ tail \in Slots(ONU_FIFO_DEPTH)
          /\ waking \subseteq Producers
          /\ pc \in [Readers -> Pcs]
          /\ triggered \in [Readers -> BOOLEAN]
          /\ ev \in [Readers -> Event \cup {NoEvent}]
          /\ exchange \in [Readers -> Nat]
          /\ data \in [Readers -> Event \cup {NoEvent}]
          /\ dispatched \in [Readers -> Nat]

\* The unread events, oldest first: what the two indices of g_onu_ring stand for.
Unread == Contents(events, head, tail, ONU_FIFO_DEPTH)

Queue == INSTANCE DropOldestQueue
           WITH queue <- Unread, taken <- ev, Capacity <- ONU_FIFO_DEPTH - 1

\* The ring with its two indices, written by falcon_onu_push_event and read by
\* falcon_onu_ioctl in any interleaving, is a FIFO that drops its oldest event
\* when full: no push is lost otherwise, none is read twice or out of order.
RefinesQueue == Queue!Spec

\* No wake-up is lost between falcon_onu_poll finding the ring empty and its
\* caller going to sleep: whoever sleeps beside an unread event is about to be
\* woken by the producer that pushed it.
NoLostWakeup == \A r \in Readers :
                  pc[r] = "asleep" /\ head # tail => waking # {}

\* A reader that is the only one finds an event when select() said EPOLLIN: a
\* producer that overflows the ring meanwhile drops the oldest event, never all.
ReadableIsKept == Cardinality(Readers) = 1 =>
                    \A r \in Readers : pc[r] = "readable" => head # tail

\* Unread events are eventually read, whatever the producers do, without
\* relying on the 5 s timeout of select().
UnreadIsRead == head # tail ~> \E r \in Readers : pc[r] = "copying"
=============================================================================
