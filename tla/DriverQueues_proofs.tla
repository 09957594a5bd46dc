------------------------ MODULE DriverQueues_proofs ------------------------
(***************************************************************************)
(* The two queues of the driver, each an array with two indices: for every *)
(* array size, the event FIFO of /dev/onu0 (module OnuEvents) keeps its    *)
(* types, loses no wake-up, keeps what it announced and implements the     *)
(* drop-oldest queue, for any number of producers and readers; and         *)
(* rx_queue (module RxRing) implements the queue of module Ploam.          *)
(***************************************************************************)
EXTENDS OnuEvents, RxRing, SequenceTheorems, FiniteSetTheorems, TLAPS

-----------------------------------------------------------------------------
(* What writing and reading a slot of a ring does to the sequence of its   *)
(* unread entries, for every ring size and every content.                  *)

\* The index arithmetic without its modulus.
LEMMA SlotArithmetic ==
  ASSUME NEW N \in Nat, N >= 2, NEW i \in Slots(N)
  PROVE  /\ NextSlot(i, N) \in Slots(N)
         /\ NextSlot(i, N) = IF i + 1 = N THEN 0 ELSE i + 1
         /\ \A k \in Slots(N) : (i + k) % N = IF i + k >= N THEN i + k - N ELSE i + k
  BY DEF Slots, NextSlot

\* The number of unread entries is at most N - 1, and 0 exactly when the
\* indices are equal.
LEMMA FillBounds ==
  ASSUME NEW N \in Nat, N >= 2, NEW h \in Slots(N), NEW t \in Slots(N)
  PROVE  /\ Fill(h, t, N) \in Slots(N)
         /\ Fill(h, t, N) = 0 <=> h = t
         /\ Fill(h, t, N) = N - 1 <=> NextSlot(h, N) = t
  BY SlotArithmetic DEF Slots, Fill

\* The unread entries form a sequence of the ring's values, as long as Fill says.
LEMMA ContentsIsSeq ==
  ASSUME NEW S, NEW N \in Nat, N >= 2, NEW h \in Slots(N), NEW t \in Slots(N),
         NEW b \in [Slots(N) -> S]
  PROVE  /\ Contents(b, h, t, N) \in Seq(S)
         /\ Len(Contents(b, h, t, N)) = Fill(h, t, N)
<1>1. Fill(h, t, N) \in Nat /\ Fill(h, t, N) < N
  BY FillBounds DEF Slots
<1>2. \A i \in 1 .. Fill(h, t, N) : (t + (i - 1)) % N \in Slots(N)
  <2> SUFFICES ASSUME NEW i \in 1 .. Fill(h, t, N)
               PROVE  (t + (i - 1)) % N \in Slots(N)
    OBVIOUS
  <2>1. i - 1 \in Slots(N)
    BY <1>1 DEF Slots
  <2> QED BY <2>1, SlotArithmetic DEF Slots
<1>3. \A i \in 1 .. Fill(h, t, N) : b[(t + (i - 1)) % N] \in S
  BY <1>2
<1> QED BY <1>1, <1>3 DEF Contents

\* Reading: advancing the tail of a non-empty ring removes the first entry.
LEMMA ReadSlot ==
  ASSUME NEW S, NEW N \in Nat, N >= 2, NEW h \in Slots(N), NEW t \in Slots(N),
         NEW b \in [Slots(N) -> S], h # t
  PROVE  /\ Contents(b, h, t, N) # << >>
         /\ Head(Contents(b, h, t, N)) = b[t]
         /\ Contents(b, h, NextSlot(t, N), N) = Tail(Contents(b, h, t, N))
<1> DEFINE s == Contents(b, h, t, N)
           u == NextSlot(t, N)
           r == Contents(b, h, u, N)
<1>0. /\ N \in Nat /\ N >= 2 /\ h \in Slots(N) /\ t \in Slots(N)
      /\ b \in [Slots(N) -> S]
  OBVIOUS
<1>1. u \in Slots(N) /\ u = IF t + 1 = N THEN 0 ELSE t + 1
  BY SlotArithmetic
<1> HIDE DEF u
<1>2. /\ s \in Seq(S) /\ Len(s) = Fill(h, t, N)
      /\ \A i \in 1 .. Fill(h, t, N) : s[i] = b[(t + (i - 1)) % N]
  <2>1. s \in Seq(S) /\ Len(s) = Fill(h, t, N)
    BY ContentsIsSeq
  <2> QED BY <2>1 DEF Contents
<1>3. /\ r \in Seq(S) /\ Len(r) = Fill(h, u, N)
      /\ \A i \in 1 .. Fill(h, u, N) : r[i] = b[(u + (i - 1)) % N]
  <2>1. u \in Slots(N)
    BY <1>1
  <2>2. r \in Seq(S) /\ Len(r) = Fill(h, u, N)
    BY ONLY <2>1, <1>0, ContentsIsSeq
  <2> QED BY <2>2 DEF Contents
<1>4. /\ Fill(h, t, N) \in Slots(N)
      /\ Fill(h, u, N) = Fill(h, t, N) - 1
      /\ Fill(h, t, N) # 0
  BY <1>1 DEF Slots, Fill
<1> HIDE DEF s, r
<1>5. s # << >>
  BY <1>2, <1>4
<1>6. /\ Tail(s) \in Seq(S) /\ Len(Tail(s)) = Len(s) - 1
      /\ \A i \in 1 .. Len(Tail(s)) : Tail(s)[i] = s[i + 1]
  BY <1>2, <1>5, HeadTailProperties
<1>7. \A i \in 1 .. Fill(h, u, N) : (u + (i - 1)) % N = (t + ((i + 1) - 1)) % N
  <2> SUFFICES ASSUME NEW i \in 1 .. Fill(h, u, N)
               PROVE  (u + (i - 1)) % N = (t + ((i + 1) - 1)) % N
    OBVIOUS
  <2>1. i \in Slots(N) /\ i - 1 \in Slots(N)
    BY <1>4 DEF Slots
  <2>2. (u + (i - 1)) % N = IF u + (i - 1) >= N THEN u + (i - 1) - N ELSE u + (i - 1)
    BY <1>1, <2>1, SlotArithmetic
  <2>3. (t + i) % N = IF t + i >= N THEN t + i - N ELSE t + i
    BY <2>1, SlotArithmetic
  <2>4. (i + 1) - 1 = i
    BY <2>1 DEF Slots
  <2> QED BY <1>1, <2>1, <2>2, <2>3, <2>4 DEF Slots
<1>8. \A i \in 1 .. Len(r) : r[i] = Tail(s)[i]
  <2> SUFFICES ASSUME NEW i \in 1 .. Len(r)
               PROVE  r[i] = Tail(s)[i]
    OBVIOUS
  <2>1. i \in 1 .. Fill(h, u, N) /\ i + 1 \in 1 .. Fill(h, t, N)
    BY <1>3, <1>4 DEF Slots
  <2>2. r[i] = b[(u + (i - 1)) % N] /\ s[i + 1] = b[(t + ((i + 1) - 1)) % N]
    BY <2>1, <1>2, <1>3
  <2> QED BY <2>1, <2>2, <1>7, <1>6, <1>2, <1>4
<1>9. r = Tail(s)
  BY <1>2, <1>3, <1>4, <1>6, <1>8, SeqEqual
<1>10. Head(s) = b[t]
  <2>1. Head(s) = s[1]
    BY <1>2, <1>5
  <2>2. 1 \in 1 .. Fill(h, t, N)
    BY <1>4 DEF Slots
  <2>3. s[1] = b[(t + (1 - 1)) % N]
    BY <2>2, <1>2
  <2>4. 1 - 1 = 0 /\ t + 0 = t /\ t % N = t
    BY DEF Slots
  <2> QED BY <2>1, <2>3, <2>4
<1> QED BY <1>5, <1>9, <1>10 DEF s, r, u

\* The arrays of N slots with values in S.
RingOf(N, S) == [Slots(N) -> S]

\* Array c is array b with a new value in slot h.
WrittenAt(b, c, h) == c = [b EXCEPT ![h] = c[h]]

\* Writing with room: the new entry becomes the last one.
LEMMA WriteSlot ==
  ASSUME NEW S, NEW N \in Nat, N >= 2, NEW h \in Slots(N), NEW t \in Slots(N),
         NEW b \in RingOf(N, S), NEW c \in RingOf(N, S),
         WrittenAt(b, c, h), NextSlot(h, N) # t
  PROVE  Contents(c, NextSlot(h, N), t, N) = Append(Contents(b, h, t, N), c[h])
<1> DEFINE s == Contents(b, h, t, N)
           e == c[h]
           g == NextSlot(h, N)
           r == Contents(c, g, t, N)
           n == Fill(h, t, N)
<1>0. /\ N \in Nat /\ N >= 2 /\ h \in Slots(N) /\ t \in Slots(N)
      /\ b \in [Slots(N) -> S] /\ e \in S
  BY DEF RingOf
<1>1. /\ g \in Slots(N) /\ g = (IF h + 1 = N THEN 0 ELSE h + 1) /\ g # t
      /\ c \in [Slots(N) -> S] /\ c[h] = e
      /\ \A k \in Slots(N) \ {h} : c[k] = b[k]
  BY SlotArithmetic DEF WrittenAt, RingOf
<1> HIDE DEF e, g
<1>2. s \in Seq(S) /\ Len(s) = n /\ \A i \in 1 .. n : s[i] = b[(t + (i - 1)) % N]
  <2>1. s \in Seq(S) /\ Len(s) = n
    BY ONLY <1>0, ContentsIsSeq
  <2> QED BY <2>1 DEF Contents
<1>3. n \in Slots(N) /\ Fill(g, t, N) = n + 1 /\ n + 1 < N
  BY <1>1 DEF Slots, Fill
<1>4. /\ r \in Seq(S) /\ Len(r) = n + 1
      /\ \A i \in 1 .. n + 1 : r[i] = c[(t + (i - 1)) % N]
  <2>0. g \in Slots(N) /\ c \in [Slots(N) -> S]
    BY <1>1
  <2>1. r \in Seq(S) /\ Len(r) = Fill(g, t, N)
    BY ONLY <1>0, <2>0, ContentsIsSeq
  <2>2. \A i \in 1 .. Fill(g, t, N) : r[i] = c[(t + (i - 1)) % N]
    BY DEF Contents
  <2> QED BY <2>1, <2>2, <1>3
<1>5. /\ Append(s, e) \in Seq(S) /\ Len(Append(s, e)) = n + 1
      /\ \A i \in 1 .. n : Append(s, e)[i] = s[i]
      /\ Append(s, e)[n + 1] = e
  BY ONLY <1>0, <1>2, AppendProperties
<1> HIDE DEF s, r
<1>6. \A i \in 1 .. n : (t + (i - 1)) % N \in Slots(N) \ {h}
  <2> SUFFICES ASSUME NEW i \in 1 .. n
               PROVE  (t + (i - 1)) % N \in Slots(N) \ {h}
    OBVIOUS
  <2>1. i - 1 \in Slots(N) /\ i - 1 < n
    BY <1>3 DEF Slots
  <2>2. (t + (i - 1)) % N = IF t + (i - 1) >= N THEN t + (i - 1) - N ELSE t + (i - 1)
    BY <2>1, SlotArithmetic
  <2> QED BY <2>1, <2>2 DEF Slots, Fill
<1>7. (t + ((n + 1) - 1)) % N = h
  <2>1. (n + 1) - 1 = n
    BY <1>3 DEF Slots
  <2>2. (t + n) % N = IF t + n >= N THEN t + n - N ELSE t + n
    BY ONLY <1>0, <1>3, SlotArithmetic
  <2> QED BY <2>1, <2>2 DEF Slots, Fill
<1>8. \A i \in 1 .. n + 1 : r[i] = Append(s, e)[i]
  <2> SUFFICES ASSUME NEW i \in 1 .. n + 1
               PROVE  r[i] = Append(s, e)[i]
    OBVIOUS
  <2>1. CASE i \in 1 .. n
    <3>1. c[(t + (i - 1)) % N] = b[(t + (i - 1)) % N]
      BY <2>1, <1>6, <1>1
    <3> QED BY <2>1, <3>1, <1>2, <1>4, <1>5
  <2>2. CASE i = n + 1
    <3>1. r[i] = c[h]
      BY <2>2, <1>4, <1>7
    <3> QED BY <2>2, <3>1, <1>1, <1>5
  <2>3. i \in 1 .. n \/ i = n + 1
    <3> HIDE DEF n
    <3> QED BY <1>3 DEF Slots
  <2> QED BY <2>1, <2>2, <2>3
<1>9. r = Append(s, e)
  <2> HIDE DEF n
  <2> QED BY <1>4, <1>5, <1>8, SeqEqual
<1> QED BY <1>9 DEF s, r, e, g

\* Writing into a full ring after dropping its oldest entry.
LEMMA WriteSlotDroppingOldest ==
  ASSUME NEW S, NEW N \in Nat, N >= 2, NEW h \in Slots(N), NEW t \in Slots(N),
         NEW b \in RingOf(N, S), NEW c \in RingOf(N, S),
         WrittenAt(b, c, h), NextSlot(h, N) = t
  PROVE  Contents(c, NextSlot(h, N), NextSlot(t, N), N)
           = Append(Tail(Contents(b, h, t, N)), c[h])
<1> DEFINE u == NextSlot(t, N)
<1>0. /\ N \in Nat /\ N >= 2 /\ h \in Slots(N) /\ t \in Slots(N)
      /\ b \in RingOf(N, S) /\ c \in RingOf(N, S)
  OBVIOUS
<1>1. /\ t = IF h + 1 = N THEN 0 ELSE h + 1
      /\ u = IF t + 1 = N THEN 0 ELSE t + 1
  BY SlotArithmetic
<1> HIDE DEF u
<1>2. h # t /\ t # u /\ u \in Slots(N)
  BY <1>1 DEF Slots
<1>3. Contents(b, h, u, N) = Tail(Contents(b, h, t, N))
  <2>1. h # t /\ u = NextSlot(t, N)
    BY <1>2 DEF u
  <2>2. Contents(b, h, NextSlot(t, N), N) = Tail(Contents(b, h, t, N))
    BY ONLY <1>0, <2>1, ReadSlot DEF RingOf
  <2> QED BY ONLY <2>1, <2>2
<1>4. Contents(c, NextSlot(h, N), u, N) = Append(Contents(b, h, u, N), c[h])
  <2>1. NextSlot(h, N) # u /\ u \in Slots(N) /\ WrittenAt(b, c, h)
    BY <1>2
  <2> QED BY ONLY <1>0, <2>1, WriteSlot
<1> QED BY <1>3, <1>4 DEF u

\* A ring whose head has caught up with its tail has no unread entry: this is
\* what writing into a full ring without making room comes to.
LEMMA WriteSlotOverrun ==
  ASSUME NEW S, NEW N \in Nat, N >= 2, NEW t \in Slots(N), NEW c \in [Slots(N) -> S]
  PROVE  Contents(c, t, t, N) = << >>
<1>1. Fill(t, t, N) = 0
  BY DEF Fill, Slots
<1>2. Contents(c, t, t, N) \in Seq(S) /\ Len(Contents(c, t, t, N)) = 0
  BY <1>1, ContentsIsSeq
<1> QED BY <1>2, EmptySeq

-----------------------------------------------------------------------------
(* The event FIFO of /dev/onu0.                                            *)

\* Advancing an index by one keeps it inside the ring.
LEMMA NextSlotType ==
  ASSUME NEW i \in Slots(ONU_FIFO_DEPTH)
  PROVE  NextSlot(i, ONU_FIFO_DEPTH) \in Slots(ONU_FIFO_DEPTH)
  BY SlotArithmetic, DepthAssumption

LEMMA TypeInit == Init => TypeOK
<1>1. 0 \in Slots(ONU_FIFO_DEPTH)
  BY DepthAssumption DEF Slots
<1> QED BY <1>1 DEF Init, TypeOK, Pcs

LEMMA TypeStep == TypeOK /\ [Next]_vars => TypeOK'
<1> SUFFICES ASSUME TypeOK, [Next]_vars PROVE TypeOK'
  OBVIOUS
<1> USE DEF TypeOK, Pcs
<1>1. ASSUME NEW p \in Producers, NEW e \in Event, Push(p, e) PROVE TypeOK'
  <2>1. head' \in Slots(ONU_FIFO_DEPTH) /\ tail' \in Slots(ONU_FIFO_DEPTH)
    BY <1>1, NextSlotType DEF Push
  <2> QED BY <1>1, <2>1 DEF Push
<1>2. ASSUME NEW p \in Producers, Wake(p) PROVE TypeOK'
  BY <1>2 DEF Wake, ring
<1>3. ASSUME NEW r \in Readers, PollWait(r) PROVE TypeOK'
  BY <1>3 DEF PollWait, ring
<1>4. ASSUME NEW r \in Readers, PollCheck(r) PROVE TypeOK'
  BY <1>4 DEF PollCheck, ring
<1>5. ASSUME NEW r \in Readers, IoctlDequeue(r) PROVE TypeOK'
  <2>1. tail' \in Slots(ONU_FIFO_DEPTH)
    BY <1>5, NextSlotType DEF IoctlDequeue
  <2>2. ev' \in [Readers -> Event \cup {NoEvent}]
    BY <1>5 DEF IoctlDequeue, DevCtl
  <2> QED BY <1>5, <2>1, <2>2 DEF IoctlDequeue, DevCtl
<1>6. ASSUME NEW r \in Readers, CopyToUser(r) PROVE TypeOK'
  <2>1. ev[r].id \in Nat
    BY EventAssumption DEF NoEvent
  <2> QED BY <1>6, <2>1 DEF CopyToUser, ring
<1>7. ASSUME NEW r \in Readers, CopyFault(r) PROVE TypeOK'
  BY <1>7 DEF CopyFault, ring
<1>8. ASSUME NEW r \in Readers, OnuHandle(r) PROVE TypeOK'
  <2>1. data[r].id \in Nat
    BY EventAssumption DEF NoEvent
  <2> QED BY <1>8, <2>1 DEF OnuHandle, ring
<1>9. ASSUME NEW r \in Readers, SelectTimeout(r) PROVE TypeOK'
  BY <1>9 DEF SelectTimeout, ring
<1>10. CASE UNCHANGED vars
  BY <1>10 DEF vars
<1> QED BY <1>1, <1>2, <1>3, <1>4, <1>5, <1>6, <1>7, <1>8, <1>9, <1>10 DEF Next, Reader

\* The ring's indices and the readers' and producers' control state keep their
\* types under every interleaving of falcon_onu_push_event with the readers.
THEOREM TypeCorrect == Spec => []TypeOK
<1> QED BY TypeInit, TypeStep, PTL DEF Spec

\* A reader never sleeps beside an unread event, unless the producer that
\* pushed it is still on its way to wake_up_interruptible.
THEOREM NoWakeupIsLost == Spec => []NoLostWakeup
<1>1. Init => NoLostWakeup
  BY DEF Init, NoLostWakeup
<1>2. TypeOK /\ NoLostWakeup /\ [Next]_vars => NoLostWakeup'
  <2> SUFFICES ASSUME TypeOK, NoLostWakeup, [Next]_vars,
                      NEW r \in Readers, pc'[r] = "asleep", head' # tail'
               PROVE  waking' # {}
    BY DEF NoLostWakeup
  <2>1. CASE \E p \in Producers, e \in Event : Push(p, e)
    BY <2>1 DEF Push
  <2>2. CASE \E p \in Producers : Wake(p)
    BY <2>2 DEF Wake
  <2>3. ASSUME NEW q \in Readers, PollCheck(q) PROVE waking' # {}
    BY <2>3 DEF PollCheck, TypeOK, NoLostWakeup, ring
  <2>4. ASSUME NEW q \in Readers, IoctlDequeue(q) PROVE waking' # {}
    BY <2>4 DEF IoctlDequeue, TypeOK, NoLostWakeup
  <2>5. ASSUME NEW q \in Readers, PollWait(q) PROVE waking' # {}
    BY <2>5 DEF PollWait, TypeOK, NoLostWakeup, ring
  <2>6. ASSUME NEW q \in Readers, CopyToUser(q) \/ CopyFault(q) \/ OnuHandle(q)
        PROVE  waking' # {}
    BY <2>6 DEF CopyToUser, CopyFault, OnuHandle, TypeOK, NoLostWakeup, ring
  <2>7. ASSUME NEW q \in Readers, SelectTimeout(q) PROVE waking' # {}
    BY <2>7 DEF SelectTimeout, TypeOK, NoLostWakeup, ring
  <2>8. CASE UNCHANGED vars
    BY <2>8 DEF vars, NoLostWakeup
  <2> QED BY <2>1, <2>2, <2>3, <2>4, <2>5, <2>6, <2>7, <2>8 DEF Next, Reader
<1> QED BY <1>1, <1>2, TypeCorrect, PTL DEF Spec

\* A push leaves an unread event, also where it drops one: the index it moves away from
\* head is never moved onto it.
LEMMA PushLeavesOne ==
  ASSUME TypeOK, NEW p \in Producers, NEW e \in Event, Push(p, e)
  PROVE  head' # tail'
<1>1. head \in Slots(ONU_FIFO_DEPTH) /\ tail \in Slots(ONU_FIFO_DEPTH)
  BY DEF TypeOK
<1>2. ONU_FIFO_DEPTH \in Nat /\ ONU_FIFO_DEPTH >= 2
  BY DepthAssumption
<1>3. NextSlot(tail, ONU_FIFO_DEPTH) = IF tail + 1 = ONU_FIFO_DEPTH THEN 0 ELSE tail + 1
  BY <1>1, <1>2, SlotArithmetic
<1>4. NextSlot(tail, ONU_FIFO_DEPTH) # tail
  BY <1>1, <1>2, <1>3 DEF Slots
<1> QED BY <1>4 DEF Push

\* A reader that is the only one finds an event when select() said EPOLLIN: between
\* falcon_onu_poll and the ioctl a producer may drop the oldest event, never all.
THEOREM ReadableKept == Spec => []ReadableIsKept
<1>1. Init => ReadableIsKept
  BY DEF Init, ReadableIsKept
<1>2. TypeOK /\ ReadableIsKept /\ [Next]_vars => ReadableIsKept'
  <2> SUFFICES ASSUME TypeOK, ReadableIsKept, [Next]_vars, Cardinality(Readers) = 1,
                      NEW r \in Readers, pc'[r] = "readable"
               PROVE  head' # tail'
    BY DEF ReadableIsKept
  <2>1. \A q \in Readers : q = r
    BY ReadersAssumption, FS_Singleton
  <2>2. pc \in [Readers -> Pcs]
    BY DEF TypeOK
  <2>3. pc[r] = "readable" => head # tail
    BY DEF ReadableIsKept
  <2>4. CASE \E p \in Producers, e \in Event : Push(p, e)
    BY <2>4, PushLeavesOne
  <2>5. CASE \E p \in Producers : Wake(p)
    BY <2>2, <2>3, <2>5 DEF Wake, ring
  <2>6. CASE PollCheck(r)
    BY <2>2, <2>6 DEF PollCheck, ring
  <2>7. CASE PollWait(r) \/ IoctlDequeue(r) \/ CopyToUser(r) \/ CopyFault(r) \/ OnuHandle(r)
             \/ SelectTimeout(r)
    BY <2>2, <2>7 DEF PollWait, IoctlDequeue, CopyToUser, CopyFault, OnuHandle, SelectTimeout
  <2>8. CASE UNCHANGED vars
    BY <2>3, <2>8 DEF vars
  <2> QED BY <2>1, <2>4, <2>5, <2>6, <2>7, <2>8 DEF Next, Reader
<1> QED BY <1>1, <1>2, TypeCorrect, PTL DEF Spec
-----------------------------------------------------------------------------
(* The refinement.                                                         *)

\* falcon_onu_push_event maps to one Push of the abstract queue.
LEMMA PushRefines ==
  ASSUME TypeOK, NEW p \in Producers, NEW e \in Event, Push(p, e)
  PROVE  Queue!Push(e)
<1> DEFINE N == ONU_FIFO_DEPTH
           S == Event \cup {NoEvent}
<1>0. /\ N \in Nat /\ N >= 2 /\ head \in Slots(N) /\ tail \in Slots(N)
      /\ events \in RingOf(N, S) /\ events' \in RingOf(N, S)
  BY DepthAssumption DEF TypeOK, Push, RingOf
<1>1. WrittenAt(events, events', head) /\ events'[head] = e
  BY DEF TypeOK, Push, WrittenAt
<1>2. head' = NextSlot(head, N) /\ ev' = ev
  BY DEF Push
<1>3. Len(Unread) = Fill(head, tail, N)
  BY ONLY <1>0, ContentsIsSeq DEF RingOf, Unread
<1>4. CASE NextSlot(head, N) # tail
  <2>1. tail' = tail
    BY <1>4 DEF Push
  <2>2. Unread' = Append(Unread, e)
    <3>1. Contents(events', NextSlot(head, N), tail, N)
            = Append(Contents(events, head, tail, N), events'[head])
      BY ONLY <1>0, <1>1, <1>4, WriteSlot
    <3> QED BY ONLY <3>1, <1>1, <1>2, <2>1 DEF Unread
  <2>3. Len(Unread) < N - 1
    <3>1. Fill(head, tail, N) \in Slots(N) /\ Fill(head, tail, N) # N - 1
      BY ONLY <1>0, <1>4, FillBounds
    <3> QED BY ONLY <1>0, <1>3, <3>1 DEF Slots
  <2> QED BY <2>2, <2>3, <1>2 DEF Queue!Push
<1>5. CASE NextSlot(head, N) = tail
  <2>1. tail' = NextSlot(tail, N)
    BY <1>5 DEF Push
  <2>2. Unread' = Append(Tail(Unread), e)
    <3>1. Contents(events', NextSlot(head, N), NextSlot(tail, N), N)
            = Append(Tail(Contents(events, head, tail, N)), events'[head])
      BY ONLY <1>0, <1>1, <1>5, WriteSlotDroppingOldest
    <3> QED BY ONLY <3>1, <1>1, <1>2, <2>1 DEF Unread
  <2>3. ~ (Len(Unread) < N - 1)
    <3>1. Fill(head, tail, N) = N - 1
      BY ONLY <1>0, <1>5, FillBounds
    <3> QED BY ONLY <1>0, <1>3, <3>1
  <2> QED BY <2>2, <2>3, <1>2 DEF Queue!Push
<1> QED BY <1>4, <1>5

\* The dequeue of falcon_onu_ioctl maps to one Pop, -EAGAIN to a stutter.
LEMMA DequeueRefines ==
  ASSUME TypeOK, NEW r \in Readers, IoctlDequeue(r)
  PROVE  Queue!Pop(r) \/ UNCHANGED <<Unread, ev>>
<1> DEFINE N == ONU_FIFO_DEPTH
           S == Event \cup {NoEvent}
<1>0. /\ N \in Nat /\ N >= 2 /\ head \in Slots(N) /\ tail \in Slots(N)
      /\ events \in [Slots(N) -> S]
  BY DepthAssumption DEF TypeOK
<1>1. events' = events /\ head' = head
  BY DEF IoctlDequeue
<1>2. CASE head = tail
  BY <1>1, <1>2 DEF IoctlDequeue, Unread
<1>3. CASE head # tail
  <2>1. ev' = [ev EXCEPT ![r] = events[tail]] /\ tail' = NextSlot(tail, N)
    BY <1>3 DEF IoctlDequeue
  <2>2. /\ Contents(events, head, tail, N) # << >>
        /\ Head(Contents(events, head, tail, N)) = events[tail]
        /\ Contents(events, head, NextSlot(tail, N), N)
             = Tail(Contents(events, head, tail, N))
    BY ONLY <1>0, <1>3, ReadSlot
  <2> QED BY <2>1, <2>2, <1>1 DEF Queue!Pop, Unread
<1> QED BY <1>2, <1>3

\* Every step of the driver and its readers is a step of the abstract queue or
\* leaves it alone: the ring IS the drop-oldest queue omcid relies on.
THEOREM RingImplementsQueue == Spec => RefinesQueue
<1>1. Init => Queue!Init
  <2> SUFFICES ASSUME Init PROVE Unread = << >> /\ ev = [r \in Readers |-> NoEvent]
    BY DEF Queue!Init, Queue!NoEvent, NoEvent
  <2>1. /\ 0 \in Slots(ONU_FIFO_DEPTH) /\ head = 0 /\ tail = 0
        /\ events \in [Slots(ONU_FIFO_DEPTH) -> {NoEvent}]
    BY DepthAssumption DEF Init, Slots
  <2>2. Unread = << >>
    BY <2>1, DepthAssumption, WriteSlotOverrun DEF Unread
  <2> QED BY <2>2 DEF Init
<1>2. TypeOK /\ [Next]_vars => [Queue!Next]_<<Unread, ev>>
  <2> SUFFICES ASSUME TypeOK, [Next]_vars
               PROVE  Queue!Next \/ UNCHANGED <<Unread, ev>>
    OBVIOUS
  <2>1. ASSUME NEW p \in Producers, NEW e \in Event, Push(p, e) PROVE Queue!Next
    BY <2>1, PushRefines DEF Queue!Next
  <2>2. ASSUME NEW r \in Readers, IoctlDequeue(r)
        PROVE  Queue!Next \/ UNCHANGED <<Unread, ev>>
    BY <2>2, DequeueRefines DEF Queue!Next
  <2>3. CASE \E p \in Producers : Wake(p)
    BY <2>3 DEF Wake, ring, Unread
  <2>4. ASSUME NEW r \in Readers,
               PollWait(r) \/ PollCheck(r) \/ CopyToUser(r) \/ CopyFault(r)
                 \/ OnuHandle(r) \/ SelectTimeout(r)
        PROVE  UNCHANGED <<Unread, ev>>
    BY <2>4 DEF PollWait, PollCheck, CopyToUser, CopyFault, OnuHandle, SelectTimeout,
                ring, Unread
  <2>5. CASE UNCHANGED vars
    BY <2>5 DEF vars, Unread
  <2> QED BY <2>1, <2>2, <2>3, <2>4, <2>5 DEF Next, Reader
<1> QED BY <1>1, <1>2, TypeCorrect, PTL DEF Spec, RefinesQueue, Queue!Spec

-----------------------------------------------------------------------------
(* rx_queue of the PLOAM engine.                                           *)

\* Both indices of rx_queue stay inside the ring and every slot holds a message.
THEOREM RxTypeCorrect == RxSpec => []RxTypeOK
<1>1. RxInit => RxTypeOK
  BY RingAssumption DEF RxInit, RxTypeOK, Slots
<1>2. RxTypeOK /\ [RxNext]_rx_vars => RxTypeOK'
  <2> SUFFICES ASSUME RxTypeOK, [RxNext]_rx_vars PROVE RxTypeOK'
    OBVIOUS
  <2>1. /\ NextSlot(rx_head, RxQueueSize) \in Slots(RxQueueSize)
        /\ NextSlot(rx_tail, RxQueueSize) \in Slots(RxQueueSize)
    BY RingAssumption, SlotArithmetic DEF RxTypeOK
  <2>2. ASSUME NEW m \in Message, RxPut(m) PROVE RxTypeOK'
    BY <2>1, <2>2 DEF RxPut, RxTypeOK
  <2>3. CASE RxGet
    BY <2>1, <2>3 DEF RxGet, RxTypeOK
  <2>4. CASE UNCHANGED rx_vars
    BY <2>4 DEF rx_vars, RxTypeOK
  <2> QED BY <2>2, <2>3, <2>4 DEF RxNext
<1> QED BY <1>1, <1>2, PTL DEF RxSpec

\* A write by the interrupt handler is one Put of the abstract queue.
LEMMA RxPutRefines ==
  ASSUME RxTypeOK, NEW m \in Message, RxPut(m)
  PROVE  Overrun!Put(m)
<1> DEFINE N == RxQueueSize
           S == Message \cup {NoMessage}
           old == Contents(rx_queue, rx_head, rx_tail, N)
<1>0. /\ N \in Nat /\ N >= 2 /\ rx_head \in Slots(N) /\ rx_tail \in Slots(N)
      /\ rx_queue \in RingOf(N, S) /\ rx_queue' \in RingOf(N, S)
  BY RingAssumption DEF RxTypeOK, RxPut, RingOf
<1>1. WrittenAt(rx_queue, rx_queue', rx_head) /\ rx_queue'[rx_head] = m
  BY DEF RxTypeOK, RxPut, WrittenAt
<1>2. rx_head' = NextSlot(rx_head, N) /\ rx_tail' = rx_tail /\ msg' = msg
  BY DEF RxPut
<1>3. Pending = old /\ Len(old) = Fill(rx_head, rx_tail, N)
  BY <1>0, ContentsIsSeq DEF RingOf, Pending
<1>4. Pending' = Contents(rx_queue', rx_head', rx_tail', N)
  BY DEF Pending
<1>5. CASE NextSlot(rx_head, N) # rx_tail
  <2>1. Contents(rx_queue', NextSlot(rx_head, N), rx_tail, N) = Append(old, rx_queue'[rx_head])
    BY ONLY <1>0, <1>1, <1>5, WriteSlot
  <2>2. Pending' = Append(Pending, m)
    BY ONLY <2>1, <1>1, <1>2, <1>3, <1>4
  <2>3. Fill(rx_head, rx_tail, N) # N - 1
    BY ONLY <1>0, <1>5, FillBounds
  <2> QED BY <1>2, <1>3, <2>2, <2>3 DEF Overrun!Put
<1>6. CASE NextSlot(rx_head, N) = rx_tail
  <2>1. Contents(rx_queue', rx_tail, rx_tail, N) = << >>
    BY ONLY <1>0, WriteSlotOverrun DEF RingOf
  <2>2. Pending' = << >>
    BY ONLY <2>1, <1>2, <1>4, <1>6
  <2>3. Fill(rx_head, rx_tail, N) = N - 1
    BY ONLY <1>0, <1>6, FillBounds
  <2> QED BY <1>2, <1>3, <2>2, <2>3 DEF Overrun!Put
<1> QED BY <1>5, <1>6

\* A read by the worker is one Get of the abstract queue.
LEMMA RxGetRefines ==
  ASSUME RxTypeOK, RxGet
  PROVE  Overrun!Get
<1> DEFINE N == RxQueueSize
           S == Message \cup {NoMessage}
<1>0. /\ N \in Nat /\ N >= 2 /\ rx_head \in Slots(N) /\ rx_tail \in Slots(N)
      /\ rx_queue \in [Slots(N) -> S] /\ rx_head # rx_tail
  BY RingAssumption DEF RxTypeOK, RxGet
<1>1. /\ Contents(rx_queue, rx_head, rx_tail, N) # << >>
      /\ Head(Contents(rx_queue, rx_head, rx_tail, N)) = rx_queue[rx_tail]
      /\ Contents(rx_queue, rx_head, NextSlot(rx_tail, N), N)
           = Tail(Contents(rx_queue, rx_head, rx_tail, N))
  BY ONLY <1>0, ReadSlot
<1>2. Pending' = Contents(rx_queue', rx_head', rx_tail', N)
  BY DEF Pending
<1> QED BY <1>1, <1>2 DEF Pending, Overrun!Get, RxGet

\* The array with its two masked indices is the queue that module Ploam puts
\* between the interrupt handler and the worker, overrun included.
THEOREM RxRingImplementsQueue == RxSpec => RefinesOverrunQueue
<1>1. RxInit => Overrun!Init
  <2> SUFFICES ASSUME RxInit PROVE Pending = << >> /\ msg = NoMessage
    BY DEF Overrun!Init
  <2>1. /\ 0 \in Slots(RxQueueSize) /\ rx_head = 0 /\ rx_tail = 0
        /\ rx_queue \in [Slots(RxQueueSize) -> {NoMessage}]
    BY RingAssumption DEF RxInit, Slots
  <2>2. Pending = << >>
    BY <2>1, RingAssumption, WriteSlotOverrun DEF Pending
  <2> QED BY <2>2 DEF RxInit
<1>2. RxTypeOK /\ [RxNext]_rx_vars => [Overrun!Next]_<<Pending, msg>>
  <2> SUFFICES ASSUME RxTypeOK, [RxNext]_rx_vars
               PROVE  Overrun!Next \/ UNCHANGED <<Pending, msg>>
    OBVIOUS
  <2>1. ASSUME NEW m \in Message, RxPut(m) PROVE Overrun!Next
    BY <2>1, RxPutRefines DEF Overrun!Next
  <2>2. CASE RxGet
    BY <2>2, RxGetRefines DEF Overrun!Next
  <2>3. CASE UNCHANGED rx_vars
    BY <2>3 DEF rx_vars, Pending
  <2> QED BY <2>1, <2>2, <2>3 DEF RxNext
<1> QED BY <1>1, <1>2, RxTypeCorrect, PTL DEF RxSpec, RefinesOverrunQueue, Overrun!Spec
=============================================================================
