--------------------------- MODULE SwImage_proofs ---------------------------
(***************************************************************************)
(* Theorems about SwImage, for images of any size, windows of any length,  *)
(* any number of timeouts, resets and reboots, with the guard or without.  *)
(***************************************************************************)
EXTENDS SwImage, TLAPS

\* What a window rests on.  The OLT is inside its window; its base is where the handler
\* puts section 0 of the window, and nothing below the place the handler waits for is
\* missing, unless it knows that it has missed a section.
Awaited(d) == d.total + (IF d.missed THEN 0 ELSE d.curr)

WindowInv ==
  /\ Sending => olt.next < WindowSize
  /\ olt.on /\ dl[olt.image].data =>
       /\ dl[olt.image].total = olt.base
       /\ 0 .. Awaited(dl[olt.image]) - 1 \subseteq dl[olt.image].good

\* Threads that have counted cant_reboot up and will count it down.
Working == (IF storing # {} THEN 1 ELSE 0) + (IF committing # <<>> THEN 1 ELSE 0)

BusyInv == cant_reboot >= Working

\* The part of the invariant that TypeOK needs.
SafeInv == TypeOK /\ WindowInv /\ BusyInv

-----------------------------------------------------------------------------
(* Records.                                                                *)

Entities == [valid : BOOLEAN, committed : BOOLEAN, active : BOOLEAN]

Statuses == {"none", "downloading", "writing", "complete"}

\* internal_data with other fields.
LEMMA DownloadStatus ==
  ASSUME NEW d \in Download, NEW s \in Statuses, NEW r, r = [d EXCEPT !.status = s]
  PROVE  /\ r \in Download /\ (r.data <=> d.data) /\ r.status = s
         /\ r.total = d.total /\ r.curr = d.curr /\ (r.missed <=> d.missed) /\ r.good = d.good
  BY DEF Download, Statuses

\* memset of internal_data.
LEMMA IdleType ==
  /\ Idle \in Download /\ ~Idle.data /\ Idle.status = "none"
  /\ Idle.total = 0 /\ Idle.curr = 0
<1>1. MaxIds \in Nat /\ Sections \in Nat /\ Window \in Nat
  BY SwImageAssumption, MaxIdsAssumption
<1> QED BY <1>1 DEF Idle, Download

\* The memory of a download is freed.
LEMMA FreedType ==
  ASSUME NEW d \in Download, NEW s \in Statuses
  PROVE  /\ Freed(d) \in Download /\ ~Freed(d).data /\ Freed(d).status = d.status
         /\ [Freed(d) EXCEPT !.status = s] \in Download
         /\ ~[Freed(d) EXCEPT !.status = s].data
         /\ [Freed(d) EXCEPT !.status = s].status = s
<1>1. d.status \in Statuses /\ d.timeout_id \in 0 .. MaxIds
  BY DEF Download, Statuses
<1>2. Freed(d) = [Idle EXCEPT !.status = d.status, !.timeout_id = d.timeout_id]
  BY DEF Freed
<1>3. Freed(d) \in Download /\ ~Freed(d).data /\ Freed(d).status = d.status
  BY <1>1, <1>2, IdleType DEF Download, Statuses
<1>4. PICK r : r = [Freed(d) EXCEPT !.status = s]
  OBVIOUS
<1>5. r \in Download /\ ~r.data /\ r.status = s
  BY <1>3, <1>4, DownloadStatus
<1> QED BY <1>3, <1>4, <1>5

\* me_init.
LEMMA EntityType ==
  ASSUME TypeOK, NEW i \in Images, NEW r \in Images, NEW sh \in SUBSET Images
  PROVE  /\ Entity(i, r, sh) \in Entities
         /\ Entity(i, r, sh).valid <=> env.valid[i]
         /\ Entity(i, r, sh).committed <=> IF guard /\ sh # {} THEN i \in sh ELSE i = env.committed
<1> DEFINE v == env.valid[i]
           a == i = r
           c == IF guard /\ sh # {} THEN i \in sh ELSE i = env.committed
<1>1. v \in BOOLEAN /\ a \in BOOLEAN /\ c \in BOOLEAN
  <2>1. env.valid \in [Images -> BOOLEAN]
    BY DEF TypeOK
  <2>2. v \in BOOLEAN
    BY <2>1
  <2>3. a \in BOOLEAN
    OBVIOUS
  <2>4. c \in BOOLEAN
    <3>1. CASE guard /\ sh # {}
      BY <3>1
    <3>2. CASE ~(guard /\ sh # {})
      BY <3>2
    <3> QED BY <3>1, <3>2
  <2> QED BY <2>2, <2>3, <2>4
<1>2. Entity(i, r, sh) = [valid |-> v, active |-> a, committed |-> c]
  BY DEF Entity
<1> HIDE DEF v, a, c
<1>3. [valid |-> v, active |-> a, committed |-> c] \in Entities
  BY <1>1 DEF Entities
<1> QED BY <1>1, <1>2, <1>3 DEF v, c

\* What Received does to the fields.
Fits(d, n) == n = d.curr \/ n = d.curr + 1
Missed(d, n) == (n # 0 /\ d.missed) \/ n = d.curr + 1

LEMMA ReceivedNothing ==
  ASSUME NEW d \in Download, NEW n \in Nat, NEW ask \in BOOLEAN, NEW from \in Nat, ~Fits(d, n),
         NEW r, r = Received(d, n, ask, from)
  PROVE  /\ r \in Download /\ (r.data <=> d.data)
         /\ r.total = d.total /\ r.curr = 0 /\ r.good = d.good
<1>1. d.missed \in BOOLEAN /\ Window \in Nat
  BY SwImageAssumption DEF Download
<1> DEFINE m == n # 0 /\ d.missed
<1>2. r = [d EXCEPT !.missed = m, !.curr = 0]
  BY DEF Received, Fits
<1>3. m \in BOOLEAN
  OBVIOUS
<1> HIDE DEF m
<1>4. 0 \in 0 .. Window
  BY <1>1
<1>5. r \in Download
  BY <1>2, <1>3, <1>4 DEF Download
<1>6. (r.data <=> d.data) /\ r.total = d.total /\ r.curr = 0 /\ r.good = d.good
  BY <1>2, <1>3, <1>4 DEF Download
<1> QED BY <1>5, <1>6

\* Sections of a window, and the last of them.
LEMMA WindowFacts ==
  ASSUME TypeOK, Sending
  PROVE  /\ olt.base \in Nat /\ olt.next \in Nat /\ olt.base < Sections
         /\ WindowSize \in 1 .. Window /\ olt.base + WindowSize <= Sections
         /\ Asks \in BOOLEAN /\ olt.on /\ olt.image \in Images
<1>1. Sections \in Nat /\ Window \in Nat \ {0}
  BY SwImageAssumption
<1>2. olt.base \in 0 .. Sections /\ olt.next \in 0 .. Window /\ olt.image \in Images
  BY DEF TypeOK
<1>3. olt.on /\ olt.base < Sections
  BY DEF Sending
<1> QED BY <1>1, <1>2, <1>3 DEF WindowSize, Asks

\* A section that the handler takes: every place below the awaited one stays filled, and
\* its count goes on exactly when the OLT's base does.
LEMMA ReceivedInPlace ==
  ASSUME NEW d \in Download, NEW n \in Nat, NEW w \in 1 .. Window, NEW ask \in BOOLEAN,
         n < w, ask <=> n + 1 = w, d.total + w <= Sections,
         0 .. Awaited(d) - 1 \subseteq d.good
  PROVE  LET r == Received(d, n, ask, d.total + n)
         IN  /\ r \in Download /\ (r.data <=> d.data)
             /\ r.total = (IF ask /\ Accepted(d, n) THEN d.total + w ELSE d.total)
             /\ 0 .. Awaited(r) - 1 \subseteq r.good
<1> DEFINE r == Received(d, n, ask, d.total + n)
<1>1. Sections \in Nat /\ Window \in Nat /\ w \in Nat
  BY SwImageAssumption
<1>2. /\ d.data \in BOOLEAN /\ d.total \in 0 .. Sections
      /\ d.curr \in 0 .. Window /\ d.missed \in BOOLEAN
      /\ d.good \in SUBSET (0 .. Sections - 1)
  BY DEF Download
<1>3. d.total + n \in Nat
  BY <1>1, <1>2
<1>4. Accepted(d, n) <=> Fits(d, n) /\ ~Missed(d, n)
  <2>1. SUFFICES ASSUME Fits(d, n)
                 PROVE  Received(d, n, TRUE, 0).missed <=> Missed(d, n)
    BY DEF Accepted, Fits
  <2>2. PICK q : q = Received(d, n, TRUE, 0)
    OBVIOUS
  <2>3. q.missed <=> Missed(d, n)
    <3> DEFINE m == Missed(d, n)
               g == IF d.total + n = 0 THEN d.good \cup {d.total + n} ELSE d.good \ {d.total + n}
               t == IF ~Missed(d, n) THEN d.total + n + 1 ELSE d.total
    <3>1. q = [d EXCEPT !.missed = m, !.good = g, !.curr = 0, !.total = t] /\ m \in BOOLEAN
      BY <2>1, <2>2 DEF Received, Fits, Missed
    <3> HIDE DEF m, g, t
    <3>2. q.missed <=> m
      BY <3>1 DEF Download
    <3> QED BY <3>2 DEF m
  <2> QED BY <2>2, <2>3
<1> HIDE DEF r
<1>5. r = Received(d, n, ask, d.total + n)
  BY DEF r
<1>6. CASE ~Fits(d, n)
  <2>1. /\ r \in Download /\ (r.data <=> d.data)
        /\ r.total = d.total /\ r.curr = 0 /\ r.good = d.good
    BY <1>3, <1>5, <1>6, ReceivedNothing
  <2>2. Awaited(r) = d.total /\ Awaited(d) \in Nat /\ Awaited(d) >= d.total
    BY <2>1, <1>1, <1>2 DEF Awaited
  <2>3. 0 .. Awaited(r) - 1 \subseteq r.good
    BY <2>1, <2>2, <1>1, <1>2
  <2> QED BY <2>1, <2>3, <1>4, <1>6 DEF r
<1>7. CASE Fits(d, n)
  <2> DEFINE c == IF ask THEN 0 ELSE n + 1
             t == IF ask /\ ~Missed(d, n) THEN d.total + n + 1 ELSE d.total
             g == d.good \cup {d.total + n}
             m == Missed(d, n)
  <2>1. /\ r.missed <=> Missed(d, n)
        /\ (r.data <=> d.data) /\ r.total = t /\ r.curr = c /\ r.good = g
        /\ (t \in 0 .. Sections /\ c \in 0 .. Window /\ g \in SUBSET (0 .. Sections - 1))
             => r \in Download
    <3>1. r = [d EXCEPT !.missed = m, !.good = g, !.curr = c, !.total = t] /\ m \in BOOLEAN
      BY <1>5, <1>7 DEF Received, Fits, Missed
    <3> HIDE DEF m, g, t, c
    <3>2. /\ (r.data <=> d.data) /\ (r.missed <=> m) /\ r.good = g /\ r.curr = c /\ r.total = t
          /\ (t \in 0 .. Sections /\ c \in 0 .. Window /\ g \in SUBSET (0 .. Sections - 1))
               => r \in Download
      BY <3>1 DEF Download
    <3> QED BY <3>2 DEF m
  <2>2. t \in 0 .. Sections /\ c \in 0 .. Window /\ g \in SUBSET (0 .. Sections - 1)
    BY <1>1, <1>2, <1>7 DEF Fits
  <2>3. r.total = (IF ask /\ Accepted(d, n) THEN d.total + w ELSE d.total)
    BY <2>1, <1>1, <1>2, <1>4, <1>7
  <2>4. 0 .. Awaited(r) - 1 \subseteq r.good
    <3>1. CASE Missed(d, n)
      <4>1. Awaited(r) = d.total /\ d.good \subseteq r.good
        BY <2>1, <3>1, <1>2 DEF Awaited
      <4>2. Awaited(d) \in Nat /\ Awaited(d) >= d.total
        BY <1>1, <1>2 DEF Awaited
      <4> QED BY <4>1, <4>2, <1>1, <1>2
    <3>2. CASE ~Missed(d, n)
      <4>1. Awaited(r) = d.total + n + 1
        BY <1>1, <1>2, <2>1, <3>2 DEF Awaited
      <4>2. Awaited(d) = d.total + n
        BY <1>1, <1>2, <1>7, <3>2 DEF Awaited, Fits, Missed
      <4> QED BY <4>1, <4>2, <2>1, <1>1, <1>2
    <3> QED BY <3>1, <3>2
  <2> QED BY <2>1, <2>2, <2>3, <2>4 DEF r
<1> QED BY <1>6, <1>7

-----------------------------------------------------------------------------
(* Types, the window and the counter.                                      *)

\* The events of the downloads keep their types.
LEMMA TimerStep ==
  ASSUME TypeOK
  PROVE  /\ \A id, i : i \in Images /\ Renew(id, <<i, gen>>, 0) =>
                         TimerTypeOK' /\ NewId \in 0 .. MaxIds
         /\ \A id : Cancel(id) => TimerTypeOK'
         /\ Pick \/ RemovePicked => TimerTypeOK'
         /\ \A o : HandlerRan(o) => TimerTypeOK'
<1>1. MaxIds \in Nat /\ Owners = Images \X (0 .. MaxGen)
  BY MaxIdsAssumption, SwImageAssumption
<1>2. TimerTypeOK /\ gen \in 0 .. MaxGen
  BY DEF TypeOK
<1>3. ASSUME NEW id, NEW i, i \in Images, Renew(id, <<i, gen>>, 0)
      PROVE  TimerTypeOK' /\ NewId \in 0 .. MaxIds
  <2>1. NewId \in 1 .. MaxIds
    BY <1>1, <1>2, <1>3 DEF TimerTypeOK, Renew, CanAdd, NewId
  <2>2. <<i, gen>> \in Owners
    BY <1>1, <1>2, <1>3
  <2>3. [id |-> NewId, left |-> 0, owner |-> <<i, gen>>] \in Event
    BY <2>1, <2>2 DEF Event
  <2>4. timeout_list' \subseteq Event
    BY <2>3, <1>2, <1>3 DEF TimerTypeOK, Renew, Without
  <2> QED BY <1>1, <1>2, <1>3, <2>1, <2>4 DEF TimerTypeOK, Renew
<1>4. ASSUME NEW id, Cancel(id) PROVE TimerTypeOK'
  BY <1>2, <1>4 DEF TimerTypeOK, Cancel, Without
<1>5. ASSUME Pick \/ RemovePicked PROVE TimerTypeOK'
  BY <1>2, <1>5 DEF TimerTypeOK, Pick, RemovePicked
<1>6. ASSUME NEW o, HandlerRan(o) PROVE TimerTypeOK'
  BY <1>2, <1>6 DEF TimerTypeOK, HandlerRan
<1> QED BY <1>3, <1>4, <1>5, <1>6

\* U-Boot and omcid start.
LEMMA StartsSafe ==
  ASSUME TypeOK, NEW r \in Images, Starts(r), act' \subseteq Images
  PROVE  SafeInv'
<1>1. MaxIds \in Nat /\ Sections \in Nat /\ Window \in Nat /\ MaxGen \in Nat /\ MaxBusy \in Nat
  BY SwImageAssumption, MaxIdsAssumption
<1>2. TimerTypeOK'
  BY <1>1 DEF Starts, TimerTypeOK
<1>3. me' \in [Images -> Entities]
  BY EntityType DEF Starts
<1>4. dl' \in [Images -> Download]
  <2>1. Idle \in Download
    BY <1>1 DEF Idle, Download
  <2> QED BY <2>1 DEF Starts
<1>5. olt' = NoDownload
      /\ NoDownload \in [on : BOOLEAN, image : Images, base : 0 .. Sections, next : 0 .. Window]
  BY <1>1 DEF Starts, NoDownload, Images
<1>6. committing' = <<>> /\ storing' = {} /\ cant_reboot' = 0
  BY DEF Starts
<1>7. TypeOK'
  <2>1. gen' \in 0 .. MaxGen /\ cant_reboot' \in 0 .. MaxBusy
    BY <1>1 DEF Starts
  <2>4. rebooting' \in BOOLEAN
    BY DEF Starts
  <2>2. invalidating' \subseteq Images /\ storing' \subseteq Images /\ committing' \in Seq(Images)
    BY DEF Starts
  <2>3. /\ env' \in [valid : [Images -> BOOLEAN], committed : Images]
        /\ flash' \in [Images -> BOOLEAN] /\ running' \in Images
        /\ guard' \in BOOLEAN /\ shadow' \subseteq Images
        /\ amiss' \in BOOLEAN /\ unsure' \subseteq Images
    BY DEF TypeOK, Starts
  <2> QED BY <1>2, <1>3, <1>4, <1>5, <2>1, <2>2, <2>3, <2>4 DEF TypeOK, Entities
<1>8. WindowInv'
  BY <1>5 DEF WindowInv, NoDownload, Sending
<1>9. BusyInv'
  BY <1>6 DEF BusyInv, Working
<1> QED BY <1>7, <1>8, <1>9 DEF SafeInv

LEMMA SafeInit == Init => SafeInv
<1> SUFFICES ASSUME Init PROVE SafeInv
  OBVIOUS
<1>1. MaxIds \in Nat /\ Sections \in Nat /\ Window \in Nat /\ MaxGen \in Nat /\ MaxBusy \in Nat
      /\ Guards \subseteq BOOLEAN
  BY SwImageAssumption, MaxIdsAssumption
<1>2. TimerTypeOK
  BY <1>1 DEF Init, TimerInit, TimerTypeOK
<1>3. /\ env \in [valid : [Images -> BOOLEAN], committed : Images]
      /\ flash \in [Images -> BOOLEAN] /\ running \in Images /\ guard \in BOOLEAN
      /\ shadow = {} /\ act = {}
  BY <1>1 DEF Init, Images
<1>4. me \in [Images -> Entities]
  BY <1>3 DEF Init, Entity, Entities
<1>5. Idle \in Download
  BY <1>1 DEF Idle, Download
<1>6. NoDownload \in [on : BOOLEAN, image : Images, base : 0 .. Sections, next : 0 .. Window]
  BY <1>1 DEF NoDownload, Images
<1>7. TypeOK
  BY <1>1, <1>2, <1>3, <1>4, <1>5, <1>6 DEF Init, TypeOK, Entities
<1>8. WindowInv /\ BusyInv
  BY DEF Init, WindowInv, NoDownload, Sending, BusyInv, Working
<1> QED BY <1>7, <1>8 DEF SafeInv

\* A download that is over, for the OLT.
LEMMA OverKeepsWindow ==
  ASSUME olt' = NoDownload
  PROVE  WindowInv'
  BY DEF WindowInv, NoDownload, Sending

\* Steps that leave the OLT alone and free memory at most.
LEMMA ElsewhereKeepsWindow ==
  ASSUME TypeOK, WindowInv, UNCHANGED olt,
         \A i \in Images : \/ ~dl'[i].data
                           \/ /\ (dl'[i].data <=> dl[i].data) /\ dl'[i].total = dl[i].total
                              /\ dl'[i].curr = dl[i].curr /\ (dl'[i].missed <=> dl[i].missed)
                              /\ dl'[i].good = dl[i].good
  PROVE  WindowInv'
<1>1. olt.image \in Images
  BY DEF TypeOK
<1> QED BY <1>1 DEF WindowInv, Sending, WindowSize, Awaited

\* A section: the types, and the window.
LEMMA SectionSafe ==
  ASSUME SafeInv, Section
  PROVE  SafeInv'
<1>1. TypeOK /\ WindowInv /\ BusyInv /\ Sending
  BY DEF SafeInv, Section
<1>2. Sections \in Nat \ {0} /\ Window \in Nat \ {0}
  BY SwImageAssumption
<1> DEFINE i == olt.image
           d == dl[i]
           open == ~Protected(i) /\ d.data
           r == Received(d, olt.next, Asks, olt.base + olt.next)
           ok == open /\ Accepted(d, olt.next)
<1>3. /\ olt.base \in Nat /\ olt.next \in Nat /\ olt.base < Sections
      /\ WindowSize \in 1 .. Window /\ olt.base + WindowSize <= Sections
      /\ Asks \in BOOLEAN /\ olt.on /\ i \in Images /\ olt.next < WindowSize
  BY <1>1, WindowFacts DEF WindowInv
<1>4. d \in Download
  BY <1>1, <1>3 DEF TypeOK
<1>5. BusyInv'
  BY <1>1 DEF BusyInv, Working, Section, threads, busyV
<1>6. ASSUME dl' \in [Images -> Download],
             olt' \in [on : BOOLEAN, image : Images, base : 0 .. Sections, next : 0 .. Window]
      PROVE  TypeOK'
  BY <1>1, <1>6 DEF TypeOK, TimerTypeOK, Section, timerV, threads, device, guardV, busyV, historyV
<1>7. CASE ~open
  <2>1. dl' = dl /\ olt' = NoDownload
    BY <1>7 DEF Section
  <2>2. TypeOK'
    BY <2>1, <1>1, <1>2, <1>6 DEF TypeOK, NoDownload, Images, historyV
  <2> QED BY <2>1, <2>2, <1>5, OverKeepsWindow DEF SafeInv
<1>8. CASE open
  <2>1. /\ dl' = [dl EXCEPT ![i] = r]
        /\ olt' = IF ~Asks THEN [olt EXCEPT !.next = @ + 1]
                  ELSE [olt EXCEPT !.next = 0, !.base = IF ok THEN @ + WindowSize ELSE @]
    BY <1>8 DEF Section
  <2>2. d.total = olt.base /\ 0 .. Awaited(d) - 1 \subseteq d.good
    BY <1>1, <1>3, <1>8 DEF WindowInv
  <2>3. Asks <=> olt.next + 1 = WindowSize
    BY DEF Asks
  <2>4. /\ r \in Download /\ (r.data <=> d.data)
        /\ r.total = (IF Asks /\ Accepted(d, olt.next) THEN olt.base + WindowSize ELSE olt.base)
        /\ 0 .. Awaited(r) - 1 \subseteq r.good
    BY <1>3, <1>4, <2>2, <2>3, ReceivedInPlace
  <2> HIDE DEF r
  <2>5. /\ olt'.on = olt.on /\ olt'.image = i /\ olt'.next \in Nat /\ olt'.next <= Window
        /\ olt'.base = r.total /\ olt'.base \in 0 .. Sections
        /\ olt' = [on |-> olt'.on, image |-> olt'.image, base |-> olt'.base, next |-> olt'.next]
        /\ (olt'.base = olt.base /\ olt'.next < WindowSize) \/ olt'.next = 0
    <3>1. olt = [on |-> olt.on, image |-> olt.image, base |-> olt.base, next |-> olt.next]
      BY <1>1 DEF TypeOK
    <3>2. CASE ~Asks
      <4>1. olt' = [on |-> olt.on, image |-> olt.image, base |-> olt.base, next |-> olt.next + 1]
        BY <3>1, <3>2, <2>1
      <4> QED BY <4>1, <3>2, <2>3, <2>4, <1>2, <1>3
    <3>3. CASE Asks
      <4>1. olt' = [on |-> olt.on, image |-> olt.image,
                    base |-> IF ok THEN olt.base + WindowSize ELSE olt.base, next |-> 0]
        BY <3>1, <3>3, <2>1
      <4>2. (IF ok THEN olt.base + WindowSize ELSE olt.base) = r.total
        BY <3>3, <2>4, <1>8
      <4> QED BY <4>1, <4>2, <3>3, <2>4, <1>2, <1>3
    <3> QED BY <3>2, <3>3, <1>3
  <2>6. dl' \in [Images -> Download] /\ dl'[i] = r
    BY <2>1, <2>4, <1>1, <1>3 DEF TypeOK
  <2>7. TypeOK'
    <3>1. olt'.on \in BOOLEAN /\ olt'.image \in Images /\ olt'.next \in 0 .. Window
      BY <2>5, <1>1, <1>2, <1>3 DEF TypeOK
    <3>2. olt' \in [on : BOOLEAN, image : Images, base : 0 .. Sections, next : 0 .. Window]
      BY <2>5, <3>1
    <3> QED BY <3>2, <2>6, <1>6
  <2>8. Sending' => olt'.next < WindowSize'
    BY <2>5, <1>2, <1>3 DEF Sending, WindowSize
  <2>9. WindowInv'
    BY <2>4, <2>5, <2>6, <2>8 DEF WindowInv
  <2> QED BY <2>7, <2>9, <1>5 DEF SafeInv
<1> QED BY <1>7, <1>8

\* The steps of a download, and of its timeout.
LEMMA DownloadSafe ==
  ASSUME SafeInv, NEW i \in Images,
         StartDl(i) \/ StartDlFails(i) \/ EndDl(i) \/ EndDlFails(i) \/ EndDlComplete(i)
  PROVE  SafeInv'
<1>1. TypeOK /\ WindowInv /\ BusyInv
  BY DEF SafeInv
<1>2. Sections \in Nat \ {0} /\ Window \in Nat \ {0} /\ MaxBusy \in Nat /\ MaxIds \in Nat
  BY SwImageAssumption, MaxIdsAssumption
<1>3. dl \in [Images -> Download] /\ dl[i] \in Download /\ cant_reboot \in 0 .. MaxBusy
  BY <1>1 DEF TypeOK
<1>4. NoDownload \in [on : BOOLEAN, image : Images, base : 0 .. Sections, next : 0 .. Window]
  BY <1>2 DEF NoDownload, Images
<1>5. CASE StartDl(i)
  <2>1. TimerTypeOK' /\ NewId \in 0 .. MaxIds
    BY <1>1, <1>5, TimerStep DEF StartDl
  <2>2. PICK r : r = [Idle EXCEPT !.data = TRUE, !.status = "downloading", !.timeout_id = NewId]
    OBVIOUS
  <2>3. r \in Download /\ r.total = 0 /\ r.curr = 0 /\ r.data
    BY <2>1, <2>2, IdleType DEF Download
  <2>4. dl' = [dl EXCEPT ![i] = r]
    BY <2>2, <1>5 DEF StartDl
  <2>5. dl' \in [Images -> Download] /\ dl'[i] = r
    BY <2>3, <2>4, <1>3
  <2>6. me' \in [Images -> Entities]
    BY <1>1, <1>5 DEF StartDl, TypeOK, Entities
  <2>7. olt' = [on |-> TRUE, image |-> i, base |-> 0, next |-> 0]
    BY <1>5 DEF StartDl
  <2>8. olt' \in [on : BOOLEAN, image : Images, base : 0 .. Sections, next : 0 .. Window]
    BY <2>7, <1>2
  <2>9. TypeOK'
    BY <2>1, <2>5, <2>6, <2>8, <1>1, <1>5
       DEF TypeOK, Entities, StartDl, device, guardV, busyV, historyV
  <2>10. WindowInv'
    <3>1. Sending' => olt'.next < WindowSize'
      BY <2>7, <1>2 DEF Sending, WindowSize
    <3>2. Awaited(dl'[i]) = 0
      BY <2>3, <2>5 DEF Awaited
    <3>3. 0 .. Awaited(dl'[i]) - 1 = {}
      BY <3>2
    <3> QED BY <3>1, <3>3, <2>3, <2>5, <2>7 DEF WindowInv
  <2>11. BusyInv'
    BY <1>1, <1>5 DEF BusyInv, Working, StartDl, busyV
  <2> QED BY <2>9, <2>10, <2>11 DEF SafeInv
<1>6. CASE StartDlFails(i)
  <2>1. TimerTypeOK'
    BY <1>1, <1>6, TimerStep DEF StartDlFails
  <2>2. dl' \in [Images -> Download]
    BY <1>3, <1>6, FreedType DEF StartDlFails, Statuses
  <2>3. TypeOK'
    BY <2>1, <2>2, <1>1, <1>4, <1>6
       DEF TypeOK, StartDlFails, threads, device, guardV, busyV, historyV
  <2>4. WindowInv'
    BY <1>6, OverKeepsWindow DEF StartDlFails
  <2>5. BusyInv'
    BY <1>1, <1>6 DEF BusyInv, Working, StartDlFails, busyV, threads
  <2> QED BY <2>3, <2>4, <2>5 DEF SafeInv
<1>7. CASE EndDl(i)
  <2>1. TimerTypeOK'
    BY <1>1, <1>7, TimerStep DEF EndDl
  <2>2. dl' \in [Images -> Download]
    BY <1>3, <1>7, FreedType DEF EndDl, Statuses
  <2>3. cant_reboot' = cant_reboot + 1 /\ cant_reboot' \in 0 .. MaxBusy
    BY <1>2, <1>3, <1>7 DEF EndDl
  <2>4. TypeOK'
    BY <2>1, <2>2, <2>3, <1>1, <1>4, <1>7 DEF TypeOK, EndDl, Overwrites, device, guardV
  <2>5. WindowInv'
    BY <1>7, OverKeepsWindow DEF EndDl
  <2>6. BusyInv'
    BY <2>3, <1>1, <1>3, <1>7 DEF BusyInv, Working, EndDl
  <2> QED BY <2>4, <2>5, <2>6 DEF SafeInv
<1>8. CASE EndDlFails(i)
  <2>1. TimerTypeOK'
    BY <1>1, <1>8, TimerStep DEF EndDlFails
  <2>2. dl' \in [Images -> Download]
    BY <1>3, <1>8, FreedType DEF EndDlFails, Statuses
  <2>3. TypeOK'
    BY <2>1, <2>2, <1>1, <1>4, <1>8 DEF TypeOK, EndDlFails, threads, device, guardV, busyV, historyV
  <2>4. WindowInv'
    BY <1>8, OverKeepsWindow DEF EndDlFails
  <2>5. BusyInv'
    BY <1>1, <1>8 DEF BusyInv, Working, EndDlFails, busyV, threads
  <2> QED BY <2>3, <2>4, <2>5 DEF SafeInv
<1>9. CASE EndDlComplete(i)
  <2>1. dl' \in [Images -> Download]
    BY <1>3, <1>9, DownloadStatus DEF EndDlComplete, Statuses
  <2>2. TypeOK'
    BY <2>1, <1>1, <1>4, <1>9
       DEF TypeOK, TimerTypeOK, EndDlComplete, timerV, threads, device, guardV, busyV, historyV
  <2>3. WindowInv'
    BY <1>9, OverKeepsWindow DEF EndDlComplete
  <2>4. BusyInv'
    BY <1>1, <1>9 DEF BusyInv, Working, EndDlComplete, busyV, threads
  <2> QED BY <2>2, <2>3, <2>4 DEF SafeInv
<1> QED BY <1>5, <1>6, <1>7, <1>8, <1>9

\* The first of the COMMITs leaves.
LEMMA QueueFacts ==
  ASSUME NEW q \in Seq(Images), q # <<>>
  PROVE  /\ Tail(q) \in Seq(Images) /\ Head(q) \in Images /\ Head(q) = q[1]
         /\ Len(q) \in Nat \ {0} /\ Len(Tail(q)) = Len(q) - 1
         /\ \A k \in 1 .. Len(Tail(q)) : Tail(q)[k] = q[k + 1]
         /\ Len(q) = 1 <=> Tail(q) = <<>>
<1>1. Len(q) \in Nat /\ Len(q) # 0
  OBVIOUS
<1>2. Tail(q) \in Seq(Images) /\ Len(Tail(q)) = Len(q) - 1
  BY <1>1
<1>3. Head(q) \in Images /\ Head(q) = q[1]
  BY <1>1
<1>4. \A k \in 1 .. Len(Tail(q)) : Tail(q)[k] = q[k + 1]
  BY <1>1, <1>2
<1>5. Len(Tail(q)) = 0 <=> Tail(q) = <<>>
  <2>1. ASSUME NEW t \in Seq(Images) PROVE Len(t) = 0 <=> t = <<>>
    OBVIOUS
  <2> QED BY <1>2, <2>1
<1> QED BY <1>1, <1>2, <1>3, <1>4, <1>5

\* The steps of the threads.
LEMMA ThreadsSafe ==
  ASSUME SafeInv,
         \/ \E i \in Images : \/ Invalidated(i) \/ StoreBegins(i) \/ Stored(i) \/ StoreFails(i)
                              \/ Activate(i) \/ Commit(i)
         \/ Committed
  PROVE  SafeInv'
<1>1. TypeOK /\ WindowInv /\ BusyInv
  BY DEF SafeInv
<1>2. MaxBusy \in Nat
  BY SwImageAssumption
<1>3. /\ dl \in [Images -> Download] /\ me \in [Images -> Entities] /\ flash \in [Images -> BOOLEAN]
      /\ env \in [valid : [Images -> BOOLEAN], committed : Images]
      /\ cant_reboot \in 0 .. MaxBusy /\ committing \in Seq(Images)
  BY <1>1 DEF TypeOK, Entities, historyV
<1>4. ASSUME NEW i \in Images, Invalidated(i)
      PROVE  SafeInv'
  <2>1. env' \in [valid : [Images -> BOOLEAN], committed : Images]
    <3>1. [env EXCEPT !.valid[i] = FALSE] \in [valid : [Images -> BOOLEAN], committed : Images]
      BY <1>3
    <3> QED BY <3>1, <1>3, <1>4 DEF Invalidated
  <2>2. TypeOK'
    BY <2>1, <1>1, <1>4 DEF TypeOK, TimerTypeOK, Invalidated, timerV, mibV, guardV, busyV, historyV
  <2>3. WindowInv'
    BY <1>1, <1>4, ElsewhereKeepsWindow DEF Invalidated, mibV
  <2>4. BusyInv'
    BY <1>1, <1>4 DEF BusyInv, Working, Invalidated, busyV
  <2> QED BY <2>2, <2>3, <2>4 DEF SafeInv
<1>5. ASSUME NEW i \in Images, StoreBegins(i)
      PROVE  SafeInv'
  <2>1. TypeOK'
    BY <1>1, <1>3, <1>5
       DEF TypeOK, TimerTypeOK, StoreBegins, timerV, mibV, threads, guardV, busyV, historyV
  <2>2. WindowInv'
    BY <1>1, <1>5, ElsewhereKeepsWindow DEF StoreBegins, mibV
  <2>3. BusyInv'
    BY <1>1, <1>5 DEF BusyInv, Working, StoreBegins, busyV, threads
  <2> QED BY <2>1, <2>2, <2>3 DEF SafeInv
<1>6. ASSUME NEW i \in Images, Stored(i)
      PROVE  SafeInv'
  <2>1. storing # {} /\ storing' = {} /\ committing' = committing
        /\ cant_reboot' = cant_reboot - 1 /\ cant_reboot >= 1
    BY <1>1, <1>3, <1>6 DEF Stored, BusyInv, Working
  <2>2. cant_reboot' \in 0 .. MaxBusy
    BY <2>1, <1>2, <1>3
  <2>3. env' \in [valid : [Images -> BOOLEAN], committed : Images] /\ flash' \in [Images -> BOOLEAN]
    <3>1. [env EXCEPT !.valid[i] = TRUE] \in [valid : [Images -> BOOLEAN], committed : Images]
      BY <1>3
    <3> QED BY <3>1, <1>3, <1>6 DEF Stored
  <2>4. me' \in [Images -> Entities]
    BY <1>3, <1>6 DEF Stored, Entities
  <2>5. dl' \in [Images -> Download]
    BY <1>3, <1>6, DownloadStatus DEF Stored, Statuses
  <2>6. TypeOK'
    BY <2>1, <2>2, <2>3, <2>4, <2>5, <1>1, <1>6
       DEF TypeOK, TimerTypeOK, Entities, Stored, timerV, guardV, historyV
  <2>7. WindowInv'
    <3>1. \A j \in Images : /\ (dl'[j].data <=> dl[j].data) /\ dl'[j].total = dl[j].total
                            /\ dl'[j].curr = dl[j].curr /\ (dl'[j].missed <=> dl[j].missed)
                            /\ dl'[j].good = dl[j].good
      <4>1. \A j \in Images : dl'[j] = IF j = i THEN [dl[i] EXCEPT !.status = "complete"] ELSE dl[j]
        BY <1>3, <1>6 DEF Stored
      <4>2. PICK r : r = [dl[i] EXCEPT !.status = "complete"]
        OBVIOUS
      <4>3. /\ (r.data <=> dl[i].data) /\ r.total = dl[i].total /\ r.curr = dl[i].curr
            /\ (r.missed <=> dl[i].missed) /\ r.good = dl[i].good
        BY <4>2, <1>3 DEF Download
      <4>4. \A j \in Images : dl'[j] = IF j = i THEN r ELSE dl[j]
        BY <4>1, <4>2
      <4> QED BY <4>3, <4>4
    <3> QED BY <3>1, <1>1, <1>6, ElsewhereKeepsWindow DEF Stored
  <2>8. BusyInv'
    BY <2>1, <1>1, <1>3 DEF BusyInv, Working
  <2> QED BY <2>6, <2>7, <2>8 DEF SafeInv
<1>7. ASSUME NEW i \in Images, StoreFails(i)
      PROVE  SafeInv'
  <2>1. storing # {} /\ storing' = {} /\ committing' = committing
        /\ cant_reboot' = cant_reboot - 1 /\ cant_reboot >= 1
    BY <1>1, <1>3, <1>7 DEF StoreFails, BusyInv, Working
  <2>2. cant_reboot' \in 0 .. MaxBusy
    BY <2>1, <1>2, <1>3
  <2>3. me' \in [Images -> Entities] /\ flash' \in [Images -> BOOLEAN]
    BY <1>3, <1>7 DEF StoreFails, Entities
  <2>4. TypeOK'
    BY <2>1, <2>2, <2>3, <1>1, <1>7
       DEF TypeOK, TimerTypeOK, Entities, StoreFails, timerV, device, guardV, historyV
  <2>5. WindowInv'
    BY <1>1, <1>7, ElsewhereKeepsWindow DEF StoreFails
  <2>6. BusyInv'
    BY <2>1, <1>1, <1>3 DEF BusyInv, Working
  <2> QED BY <2>4, <2>5, <2>6 DEF SafeInv
<1>8. ASSUME NEW i \in Images, Activate(i)
      PROVE  SafeInv'
  <2>1. cant_reboot' = cant_reboot + 1 /\ cant_reboot' \in 0 .. MaxBusy
    BY <1>2, <1>3, <1>8 DEF Activate
  <2>2. me' \in [Images -> Entities]
    BY <1>3, <1>8 DEF Activate, Entities
  <2>3. act' \subseteq Images
    BY <1>1, <1>8 DEF Activate, TypeOK
  <2>4. TypeOK'
    BY <2>1, <2>2, <2>3, <1>1, <1>8
       DEF TypeOK, TimerTypeOK, Entities, Activate, timerV, threads, guardV, historyV
  <2>5. WindowInv'
    BY <1>1, <1>8, ElsewhereKeepsWindow DEF Activate
  <2>6. BusyInv'
    BY <2>1, <1>1, <1>3, <1>8 DEF BusyInv, Working, Activate, threads
  <2> QED BY <2>4, <2>5, <2>6 DEF SafeInv
<1>9. ASSUME NEW i \in Images, Commit(i)
      PROVE  SafeInv'
  <2>1. cant_reboot' = cant_reboot + 1 /\ cant_reboot' \in 0 .. MaxBusy
    BY <1>2, <1>3, <1>9 DEF Commit
  <2>2. me' \in [Images -> Entities]
    BY <1>3, <1>9 DEF Commit, Entities
  <2>3. committing' \in Seq(Images)
    <3>1. Append(committing, i) \in Seq(Images) /\ <<i>> \in Seq(Images)
      BY <1>3
    <3> QED BY <3>1, <1>9 DEF Commit
  <2>4. TypeOK'
    BY <2>1, <2>2, <2>3, <1>1, <1>9
       DEF TypeOK, TimerTypeOK, Entities, Commit, timerV, device, guardV, historyV
  <2>5. WindowInv'
    BY <1>1, <1>9, ElsewhereKeepsWindow DEF Commit
  <2>6. BusyInv'
    BY <2>1, <1>1, <1>3, <1>9 DEF BusyInv, Working, Commit
  <2> QED BY <2>4, <2>5, <2>6 DEF SafeInv
<1>10. ASSUME Committed
       PROVE  SafeInv'
  <2>1. /\ committing # <<>> /\ committing' = Tail(committing) /\ committing' \in Seq(Images)
        /\ Head(committing) \in Images /\ (Len(committing) = 1 <=> committing' = <<>>)
    BY <1>3, <1>10, QueueFacts DEF Committed
  <2>2. cant_reboot' = (IF Len(committing) = 1 THEN cant_reboot - 1 ELSE cant_reboot)
        /\ storing' = storing
    BY <1>10 DEF Committed
  <2>3. cant_reboot' \in 0 .. MaxBusy /\ BusyInv'
    BY <2>1, <2>2, <1>1, <1>2, <1>3 DEF BusyInv, Working
  <2>4. env' \in [valid : [Images -> BOOLEAN], committed : Images] /\ shadow' \subseteq Images
    BY <2>1, <1>1, <1>3, <1>10 DEF Committed, TypeOK
  <2>5. TypeOK'
    BY <2>1, <2>3, <2>4, <1>1, <1>10
       DEF TypeOK, TimerTypeOK, Committed, timerV, mibV, historyV
  <2>6. WindowInv'
    BY <1>1, <1>10, ElsewhereKeepsWindow DEF Committed, mibV
  <2> QED BY <2>3, <2>5, <2>6 DEF SafeInv
<1> QED BY <1>4, <1>5, <1>6, <1>7, <1>8, <1>9, <1>10

\* Every step of the specification.
LEMMA SafeStep == SafeInv /\ [Next]_vars => SafeInv'
<1> SUFFICES ASSUME SafeInv, [Next]_vars PROVE SafeInv'
  OBVIOUS
<1>1. TypeOK /\ WindowInv /\ BusyInv
  BY DEF SafeInv
<1>2. MaxGen \in Nat /\ MaxBusy \in Nat
  BY SwImageAssumption
<1>3. dl \in [Images -> Download] /\ gen \in 0 .. MaxGen /\ running \in Images /\ shadow \subseteq Images
      /\ env.committed \in Images /\ act \subseteq Images
  BY <1>1 DEF TypeOK
<1>4. ASSUME NEW i \in Images,
             \/ StartDl(i) \/ StartDlFails(i) \/ EndDl(i) \/ EndDlFails(i) \/ EndDlComplete(i)
      PROVE  SafeInv'
  BY <1>4, DownloadSafe
<1>5. ASSUME \/ \E i \in Images : \/ Invalidated(i) \/ StoreBegins(i) \/ Stored(i) \/ StoreFails(i)
                                  \/ Activate(i) \/ Commit(i)
             \/ Committed
      PROVE  SafeInv'
  BY <1>5, ThreadsSafe
<1>6. ASSUME NEW i \in Images, EndDlCrash(i)
      PROVE  SafeInv'
  BY <1>1, <1>3, <1>6, StartsSafe DEF EndDlCrash
<1>7. CASE Section
  BY <1>7, SectionSafe
<1>8. CASE SectionLost
  <2>1. TypeOK /\ Sending /\ olt.next < WindowSize
    BY <1>1, <1>8 DEF SectionLost, WindowInv
  <2>2. /\ olt.base \in Nat /\ olt.next \in Nat /\ olt.base < Sections
        /\ WindowSize \in 1 .. Window /\ Asks \in BOOLEAN
    BY <2>1, WindowFacts
  <2>3. PICK n \in {IF Asks THEN olt.next ELSE olt.next + 1, IF Asks THEN 0 ELSE olt.next + 1} :
          olt' = [olt EXCEPT !.next = n]
    BY <1>8 DEF SectionLost
  <2>4. n \in 0 .. Window /\ n < WindowSize
    BY <2>1, <2>2, <2>3, SwImageAssumption DEF Asks
  <2>5. /\ olt' \in [on : BOOLEAN, image : Images, base : 0 .. Sections, next : 0 .. Window]
        /\ olt'.base = olt.base /\ olt'.image = olt.image /\ (olt'.on <=> olt.on) /\ olt'.next = n
    BY <2>3, <2>4, <1>1 DEF TypeOK
  <2>6. TypeOK'
    BY <2>5, <1>1, <1>8
       DEF TypeOK, TimerTypeOK, SectionLost, timerV, mibV, threads, device, guardV, busyV, historyV
  <2>7. WindowInv'
    BY <2>4, <2>5, <1>1, <1>8 DEF WindowInv, Sending, WindowSize, SectionLost, mibV
  <2>8. BusyInv'
    BY <1>1, <1>8 DEF BusyInv, Working, SectionLost, threads, busyV
  <2> QED BY <2>6, <2>7, <2>8 DEF SafeInv
<1>9. CASE TimeoutThread
  <2>1. TimerTypeOK'
    BY <1>1, <1>9, TimerStep DEF TimeoutThread, DataClean
  <2>2. UNCHANGED <<me, gen, threads, device, guardV, busyV, olt, historyV>>
    BY <1>9 DEF TimeoutThread, DataClean, mibV
  <2>3. dl' = dl \/ \E i \in Images : dl' = [dl EXCEPT ![i] = Idle]
    BY <1>9 DEF TimeoutThread, DataClean, mibV
  <2>4. dl' \in [Images -> Download]
    BY <2>3, <1>3, IdleType
  <2>5. TypeOK'
    BY <2>1, <2>2, <2>4, <1>1 DEF TypeOK, threads, device, guardV, busyV, historyV
  <2>6. WindowInv'
    <3>1. \A i \in Images : dl'[i] = Idle \/ dl'[i] = dl[i]
      BY <2>3, <1>3
    <3> QED BY <3>1, <2>2, <1>1, IdleType, ElsewhereKeepsWindow
  <2>7. BusyInv'
    BY <2>2, <1>1 DEF BusyInv, Working, threads, busyV
  <2> QED BY <2>5, <2>6, <2>7 DEF SafeInv
<1>10. CASE MibReset
  <2>1. gen' \in 0 .. MaxGen
    BY <1>2, <1>3, <1>10 DEF MibReset
  <2>2. me' \in [Images -> Entities]
    BY <1>1, <1>3, <1>10, EntityType DEF MibReset
  <2>3. dl' \in [Images -> Download]
    BY <1>10, IdleType DEF MibReset
  <2>4. TypeOK'
    BY <2>1, <2>2, <2>3, <1>1, <1>10
       DEF TypeOK, TimerTypeOK, Entities, MibReset, timerV, threads, device, guardV, busyV, historyV
  <2>5. WindowInv'
    <3>1. \A i \in Images : dl'[i] = Idle
      BY <1>10 DEF MibReset
    <3> QED BY <3>1, <1>1, <1>10, IdleType, ElsewhereKeepsWindow DEF MibReset
  <2>6. BusyInv'
    BY <1>1, <1>10 DEF BusyInv, Working, MibReset, threads, busyV
  <2> QED BY <2>4, <2>5, <2>6 DEF SafeInv
<1>11. CASE Reboot
  <2>1. cant_reboot' = 1 /\ cant_reboot' \in 0 .. MaxBusy /\ storing' = {} /\ committing' = <<>>
    BY <1>1, <1>2, <1>11 DEF Reboot, BusyInv, Working, threads
  <2>2. TypeOK'
    BY <2>1, <1>1, <1>11
       DEF TypeOK, TimerTypeOK, Reboot, timerV, mibV, threads, device, guardV, historyV
  <2>3. WindowInv'
    BY <1>1, <1>11, ElsewhereKeepsWindow DEF Reboot, mibV
  <2>4. BusyInv'
    BY <2>1 DEF BusyInv, Working
  <2> QED BY <2>2, <2>3, <2>4 DEF SafeInv
<1>12. CASE PowerCycle
  BY <1>1, <1>3, <1>12, StartsSafe DEF PowerCycle
<1>13. CASE WarmBoot
  <2>1. \A i \in act : i \in Images
    BY <1>3
  <2>2. PICK r : r = IF \E i \in act : flash[i] THEN CHOOSE i \in act : flash[i] ELSE env.committed
    OBVIOUS
  <2>3. r \in Images
    BY <2>1, <2>2, <1>3
  <2> QED BY <2>2, <2>3, <1>1, <1>13, StartsSafe DEF WarmBoot
<1>14. CASE UNCHANGED vars
  <2>1. TypeOK'
    BY <1>1, <1>14
       DEF TypeOK, TimerTypeOK, vars, timerV, mibV, threads, device, guardV, busyV, historyV
  <2>2. WindowInv'
    BY <1>1, <1>14, ElsewhereKeepsWindow DEF vars, mibV
  <2>3. BusyInv'
    BY <1>1, <1>14 DEF BusyInv, Working, vars, threads, busyV
  <2> QED BY <2>1, <2>2, <2>3 DEF SafeInv
<1> QED BY <1>4, <1>5, <1>6, <1>7, <1>8, <1>9, <1>10, <1>11, <1>12, <1>13, <1>14 DEF Next

\* The variables keep their types: cant_reboot never falls below zero and never passes
\* its bound, a download never holds more than the image, and a section never leaves
\* its window, however sections are lost and repeated.
THEOREM TypeCorrect == Spec => []TypeOK
<1>1. SafeInv => TypeOK
  BY DEF SafeInv
<1> QED BY SafeInit, SafeStep, <1>1, PTL DEF Spec

\* A window the OLT was told is complete is in memory, every section in its place
\* (dl_section_action_handle and the counts it keeps), for images and windows of any
\* size and any losses.
THEOREM AckedWritten == Spec => []AckedIsWritten
<1>1. SafeInv => AckedIsWritten
  <2> SUFFICES ASSUME SafeInv, olt.on, dl[olt.image].data
               PROVE  0 .. olt.base - 1 \subseteq dl[olt.image].good
    BY DEF AckedIsWritten
  <2> DEFINE d == dl[olt.image]
  <2>1. d.total = olt.base /\ 0 .. Awaited(d) - 1 \subseteq d.good
    BY DEF SafeInv, WindowInv
  <2>2. d.total \in Nat /\ d.curr \in Nat
    BY DEF SafeInv, TypeOK, Download
  <2>3. Awaited(d) \in Nat /\ Awaited(d) >= olt.base /\ olt.base \in Nat
    BY <2>1, <2>2 DEF Awaited
  <2> QED BY <2>1, <2>3
<1> QED BY SafeInit, SafeStep, <1>1, PTL DEF Spec

\* The OLT's reboot is refused while an image is stored or committed: the threads that
\* will count cant_reboot down are all counted in it.
THEOREM RebootIsHeld == Spec => []RebootWaits
<1>1. SafeInv => RebootWaits
  BY DEF SafeInv, TypeOK, BusyInv, Working, RebootWaits
<1> QED BY SafeInit, SafeStep, <1>1, PTL DEF Spec

-----------------------------------------------------------------------------
(* The guard, the commits and the banks.                                   *)

\* The bank that starts: the one for the next reboot when it holds a whole image.
LEMMA BootFrom ==
  ASSUME WarmBoot
  PROVE  \E r : Starts(r) /\ (act = {} => r = env.committed) /\ r \in act \cup {env.committed}
<1>1. PICK r : r = IF \E i \in act : flash[i] THEN CHOOSE i \in act : flash[i] ELSE env.committed
  OBVIOUS
<1>2. act = {} => r = env.committed
  BY <1>1
<1>3. r \in act \cup {env.committed}
  BY <1>1
<1> QED BY <1>1, <1>2, <1>3 DEF WarmBoot

\* With the guard the ONU starts from the bank that runs, whatever was activated and
\* committed.
THEOREM GuardKeeps == Spec => []GuardKeepsBank
<1>1. Init => GuardKeepsBank
  BY DEF Init, GuardKeepsBank
<1>2. SafeInv /\ GuardKeepsBank /\ [Next]_vars => GuardKeepsBank'
  <2> SUFFICES ASSUME TypeOK, GuardKeepsBank, [Next]_vars PROVE GuardKeepsBank'
    BY DEF SafeInv
  <2>1. env \in [valid : [Images -> BOOLEAN], committed : Images]
    BY DEF TypeOK
  <2>2. ASSUME UNCHANGED <<act, running, guard>>, env'.committed = env.committed
        PROVE  GuardKeepsBank'
    BY <2>2 DEF GuardKeepsBank
  <2>3. ASSUME NEW i \in Images, Invalidated(i) \/ Stored(i)
        PROVE  GuardKeepsBank'
    <3>1. env'.committed = env.committed
      BY <2>1, <2>3 DEF Invalidated, Stored
    <3> QED BY <3>1, <2>2, <2>3 DEF Invalidated, Stored, guardV
  <2>4. ASSUME NEW i \in Images, Activate(i)
        PROVE  GuardKeepsBank'
    BY <2>4 DEF GuardKeepsBank, Activate, guardV
  <2>5. CASE Committed
    BY <2>5 DEF GuardKeepsBank, Committed
  <2>6. ASSUME NEW i \in Images, EndDlCrash(i)
        PROVE  GuardKeepsBank'
    BY <2>6 DEF GuardKeepsBank, EndDlCrash, Starts
  <2>7. CASE PowerCycle
    BY <2>7 DEF GuardKeepsBank, PowerCycle, Starts
  <2>8. CASE WarmBoot
    BY <2>8, BootFrom DEF GuardKeepsBank, Starts, WarmBoot
  <2>9. ASSUME UNCHANGED <<device, guard>>
        PROVE  GuardKeepsBank'
    BY <2>9, <2>2 DEF device
  <2>10. ASSUME NEW i \in Images,
                \/ StartDl(i) \/ StartDlFails(i) \/ EndDl(i) \/ EndDlFails(i) \/ EndDlComplete(i)
                \/ Commit(i) \/ StoreBegins(i) \/ StoreFails(i)
         PROVE  GuardKeepsBank'
    BY <2>10, <2>2 DEF StartDl, StartDlFails, EndDl, EndDlFails, EndDlComplete, Commit,
                       StoreBegins, StoreFails, device, guardV
  <2>11. CASE Section \/ SectionLost \/ TimeoutThread \/ MibReset \/ Reboot \/ UNCHANGED vars
    BY <2>11, <2>9 DEF Section, SectionLost, TimeoutThread, DataClean, MibReset, Reboot,
                       vars, guardV
  <2> QED BY <2>3, <2>4, <2>5, <2>6, <2>7, <2>8, <2>10, <2>11 DEF Next
<1> QED BY SafeInit, SafeStep, <1>1, <1>2, PTL DEF Spec

\* What the commit that ends last leaves behind, or the ones that have ended.
Reported == IF committing # <<>> THEN {committing[Len(committing)]}
            ELSE IF shadow # {} THEN shadow ELSE {env.committed}

\* The entities show the last COMMIT unless something was amiss, and only the guard has a
\* shadow.
ReportInv ==
  /\ ~guard => shadow = {}
  /\ ~amiss => \A i \in Images : me[i].committed <=> i \in Reported

\* Steps that change no commit.
LEMMA ReportKept ==
  ASSUME ReportInv, UNCHANGED <<committing, shadow, guard, amiss>>, env'.committed = env.committed,
         \A i \in Images : me'[i].committed <=> me[i].committed
  PROVE  ReportInv'
  BY DEF ReportInv, Reported

\* An entity with another valid attribute.
LEMMA ValidSet ==
  ASSUME TypeOK, NEW i \in Images, NEW b \in BOOLEAN, me' = [me EXCEPT ![i].valid = b]
  PROVE  \A j \in Images : /\ me'[j].committed <=> me[j].committed
                           /\ me'[j].valid <=> IF j = i THEN b ELSE me[j].valid
<1>1. me \in [Images -> [valid : BOOLEAN, committed : BOOLEAN, active : BOOLEAN]]
  BY DEF TypeOK
<1>2. \A j \in Images : me'[j] = IF j = i THEN [me[i] EXCEPT !.valid = b] ELSE me[j]
  BY <1>1
<1>3. PICK e : e = [me[i] EXCEPT !.valid = b]
  OBVIOUS
<1>4. (e.committed <=> me[i].committed) /\ (e.valid <=> b)
  BY <1>1, <1>3
<1>5. \A j \in Images : me'[j] = IF j = i THEN e ELSE me[j]
  BY <1>2, <1>3
<1> QED BY <1>4, <1>5

\* An environment with another valid flag, or another committed image.
LEMMA EnvSet ==
  ASSUME TypeOK, NEW i \in Images, NEW b \in BOOLEAN
  PROVE  /\ env' = [env EXCEPT !.valid[i] = b] =>
              /\ env'.committed = env.committed
              /\ \A j \in Images : env'.valid[j] <=> IF j = i THEN b ELSE env.valid[j]
         /\ env' = [env EXCEPT !.committed = i] =>
              env'.committed = i /\ env'.valid = env.valid
<1>1. env \in [valid : [Images -> BOOLEAN], committed : Images]
  BY DEF TypeOK
<1>2. ASSUME env' = [env EXCEPT !.valid[i] = b]
      PROVE  /\ env'.committed = env.committed
             /\ \A j \in Images : env'.valid[j] <=> IF j = i THEN b ELSE env.valid[j]
  <2>1. env'.committed = env.committed
    BY <1>1, <1>2
  <2>2. env'.valid = [env.valid EXCEPT ![i] = b] /\ env.valid \in [Images -> BOOLEAN]
    BY <1>1, <1>2
  <2>3. \A j \in Images : env'.valid[j] <=> IF j = i THEN b ELSE env.valid[j]
    BY <2>2
  <2> QED BY <2>1, <2>3
<1>3. ASSUME env' = [env EXCEPT !.committed = i]
      PROVE  env'.committed = i /\ env'.valid = env.valid
  BY <1>1, <1>3
<1> QED BY <1>2, <1>3

\* Both entities with other attributes, by ACTIVATE and COMMIT.
LEMMA ActiveSet ==
  ASSUME TypeOK, NEW i \in Images,
         me' = [j \in Images |-> [me[j] EXCEPT !.active = j = i]]
  PROVE  \A j \in Images : (me'[j].committed <=> me[j].committed) /\ (me'[j].valid <=> me[j].valid)
<1> SUFFICES ASSUME NEW j \in Images
             PROVE  (me'[j].committed <=> me[j].committed) /\ (me'[j].valid <=> me[j].valid)
  OBVIOUS
<1>1. me[j] \in [valid : BOOLEAN, committed : BOOLEAN, active : BOOLEAN]
  BY DEF TypeOK
<1>2. me'[j] = [me[j] EXCEPT !.active = j = i]
  OBVIOUS
<1> QED BY <1>1, <1>2

LEMMA CommittedSet ==
  ASSUME TypeOK, NEW i \in Images,
         me' = [j \in Images |-> [me[j] EXCEPT !.committed = j = i]]
  PROVE  \A j \in Images : (me'[j].committed <=> j = i) /\ (me'[j].valid <=> me[j].valid)
<1> SUFFICES ASSUME NEW j \in Images
             PROVE  (me'[j].committed <=> j = i) /\ (me'[j].valid <=> me[j].valid)
  OBVIOUS
<1>1. me[j] \in [valid : BOOLEAN, committed : BOOLEAN, active : BOOLEAN]
  BY DEF TypeOK
<1>2. PICK b \in BOOLEAN : b = (j = i)
  OBVIOUS
<1>3. me'[j] = [me[j] EXCEPT !.committed = b]
  BY <1>2
<1>4. (me'[j].committed <=> b) /\ (me'[j].valid <=> me[j].valid)
  BY <1>1, <1>3
<1> QED BY <1>2, <1>4

\* omcid starts with nothing to commit.
LEMMA StartsReported ==
  ASSUME TypeOK, NEW r \in Images, Starts(r)
  PROVE  ReportInv'
<1>1. \A i \in Images : Entity(i, r, {}).committed <=> i = env.committed
  BY EntityType
<1>2. /\ committing' = <<>> /\ shadow' = {} /\ env' = env
      /\ me' = [i \in Images |-> Entity(i, r, {})]
  BY DEF Starts
<1> QED BY <1>1, <1>2 DEF ReportInv, Reported

LEMMA ReportStep == TypeOK /\ ReportInv /\ [Next]_vars => ReportInv'
<1> SUFFICES ASSUME TypeOK, ReportInv, [Next]_vars PROVE ReportInv'
  OBVIOUS
<1>1. /\ committing \in Seq(Images) /\ running \in Images /\ env.committed \in Images
      /\ shadow \subseteq Images /\ act \subseteq Images
  BY DEF TypeOK
<1>2. ASSUME NEW i \in Images, StartDl(i) \/ StoreFails(i) \/ Stored(i)
      PROVE  ReportInv'
  <2>1. \E b \in BOOLEAN : me' = [me EXCEPT ![i].valid = b]
    BY <1>2 DEF StartDl, StoreFails, Stored
  <2>2. \A j \in Images : me'[j].committed <=> me[j].committed
    BY <2>1, ValidSet
  <2>3. env'.committed = env.committed
    BY <1>2, EnvSet DEF StartDl, StoreFails, Stored, device
  <2> QED BY <1>2, <2>2, <2>3, ReportKept DEF StartDl, StoreFails, Stored, guardV, historyV
<1>3. ASSUME NEW i \in Images, Activate(i)
      PROVE  ReportInv'
  <2>1. \A j \in Images : me'[j].committed <=> me[j].committed
    BY <1>3, ActiveSet DEF Activate
  <2> QED BY <1>3, <2>1, ReportKept DEF Activate, threads, guardV, historyV
<1>4. ASSUME NEW i \in Images, Commit(i)
      PROVE  ReportInv'
  <2>1. \A j \in Images : me'[j].committed <=> j = i
    BY <1>4, CommittedSet DEF Commit
  <2>2. committing' # <<>> /\ committing'[Len(committing')] = i
    <3>1. Append(committing, i)[Len(Append(committing, i))] = i /\ Append(committing, i) # <<>>
      BY <1>1
    <3>2. <<i>>[Len(<<i>>)] = i /\ <<i>> # <<>>
      OBVIOUS
    <3> QED BY <3>1, <3>2, <1>4 DEF Commit
  <2>3. Reported' = {i}
    BY <2>2 DEF Reported
  <2> QED BY <2>1, <2>3, <1>4 DEF ReportInv, Commit, guardV
<1>5. CASE Committed
  <2>1. /\ committing # <<>> /\ committing' = Tail(committing) /\ UNCHANGED <<me, guard>>
        /\ Head(committing) \in Images
    BY <1>1, <1>5, QueueFacts DEF Committed, mibV
  <2>2. Reported = {committing[Len(committing)]}
    BY <2>1 DEF Reported
  <2>3. ~guard => shadow' = {}
    BY <1>5 DEF Committed, ReportInv
  <2>4. CASE Len(committing) = 1
    <3>1. committing' = <<>> /\ committing[Len(committing)] = Head(committing)
      BY <1>1, <2>1, <2>4, QueueFacts
    <3>2. ~amiss' => ~amiss /\ Reported' = {Head(committing)}
      <4>1. CASE guard
        BY <4>1, <3>1, <1>5 DEF Committed, Reported
      <4>2. CASE ~guard
        <5>1. ~amiss' => ~amiss /\ env' = [env EXCEPT !.committed = Head(committing)]
          BY <4>2, <2>4, <1>5 DEF Committed
        <5>2. ~amiss' => env'.committed = Head(committing)
          BY <5>1, <2>1, EnvSet
        <5> QED BY <5>1, <5>2, <4>2, <3>1, <2>3 DEF Reported
      <4> QED BY <4>1, <4>2
    <3> QED BY <3>1, <3>2, <2>1, <2>2, <2>3 DEF ReportInv
  <2>5. CASE Len(committing) # 1
    <3>1. committing' # <<>> /\ Len(committing') \in 1 .. Len(committing')
          /\ committing'[Len(committing')] = committing[Len(committing)]
      <4>1. /\ Len(committing) \in Nat \ {0} /\ Len(Tail(committing)) = Len(committing) - 1
            /\ \A k \in 1 .. Len(Tail(committing)) : Tail(committing)[k] = committing[k + 1]
            /\ Tail(committing) # <<>>
        BY <1>1, <2>1, <2>5, QueueFacts
      <4>2. Len(Tail(committing)) \in 1 .. Len(Tail(committing))
        BY <4>1, <2>5
      <4> QED BY <4>1, <4>2, <2>1
    <3>2. Reported' = Reported
      BY <3>1, <2>2 DEF Reported
    <3>3. ~amiss' => ~amiss
      BY <1>5 DEF Committed
    <3> QED BY <3>2, <3>3, <2>1, <2>3 DEF ReportInv
  <2> QED BY <2>4, <2>5
<1>6. CASE MibReset
  <2>1. amiss' = (committing # <<>>) /\ UNCHANGED <<committing, shadow, guard, env>>
        /\ me' = [i \in Images |-> Entity(i, running, shadow)]
    BY <1>6 DEF MibReset, threads, device, guardV
  <2>2. ~amiss' => \A i \in Images : Entity(i, running, shadow).committed <=> i \in Reported
    BY <2>1, <1>1, EntityType DEF Reported, ReportInv
  <2> QED BY <2>1, <2>2 DEF ReportInv, Reported
<1>7. ASSUME NEW i \in Images, EndDlCrash(i)
      PROVE  ReportInv'
  BY <1>1, <1>7, StartsReported DEF EndDlCrash
<1>8. CASE PowerCycle
  BY <1>1, <1>8, StartsReported DEF PowerCycle
<1>9. CASE WarmBoot
  <2>1. PICK r \in Images : Starts(r)
    BY <1>1, <1>9, BootFrom
  <2> QED BY <2>1, StartsReported
<1>10. ASSUME NEW i \in Images, Invalidated(i)
       PROVE  ReportInv'
  <2>1. env'.committed = env.committed
    BY <1>10, EnvSet DEF Invalidated
  <2> QED BY <1>10, <2>1, ReportKept DEF Invalidated, mibV, guardV, historyV
<1>11. ASSUME NEW i \in Images,
              \/ StartDlFails(i) \/ EndDl(i) \/ EndDlFails(i) \/ EndDlComplete(i) \/ StoreBegins(i)
       PROVE  ReportInv'
  BY <1>11, ReportKept DEF StartDlFails, EndDl, EndDlFails, EndDlComplete, StoreBegins,
                           Overwrites, mibV, threads, device, guardV, historyV
<1>12. CASE Section \/ SectionLost \/ TimeoutThread \/ Reboot \/ UNCHANGED vars
  BY <1>12, ReportKept DEF Section, SectionLost, TimeoutThread, DataClean, Reboot,
                           vars, mibV, threads, device, guardV, historyV
<1> QED BY <1>2, <1>3, <1>4, <1>5, <1>6, <1>7, <1>8, <1>9, <1>10, <1>11, <1>12 DEF Next

\* But for the banks in doubt: the COMMITs that wait are for whole images; a download has
\* taken the valid flag away or a thread is about to; and the bank that is being written is
\* none that U-Boot, an entity or a COMMIT knows as whole.
BankInv ==
  /\ env.committed \notin unsure => flash[env.committed]
  /\ ~guard =>
       /\ \A i \in Images \ unsure : me[i].valid \/ env.valid[i] => flash[i]
       /\ \A k \in 1 .. Len(committing) : committing[k] \notin unsure => flash[committing[k]]
       /\ \A i \in Images \ unsure : dl[i].status = "downloading" =>
                              ~me[i].valid /\ (env.valid[i] => i \in invalidating)
       /\ \A i \in storing \ unsure : /\ ~me[i].valid /\ ~env.valid[i] /\ i # env.committed
                             /\ \A k \in 1 .. Len(committing) : committing[k] # i

\* Steps that write neither the flash nor the environment, set no valid attribute and
\* start no download.
LEMMA BankKept ==
  ASSUME TypeOK, BankInv, UNCHANGED <<flash, env, guard, committing, storing, unsure>>,
         invalidating \subseteq invalidating',
         \A i \in Images : /\ me'[i].valid => me[i].valid
                           /\ dl'[i].status = "downloading" => dl[i].status = "downloading"
  PROVE  BankInv'
<1>1. storing \subseteq Images
  BY DEF TypeOK
<1> QED BY <1>1 DEF BankInv

\* A section leaves the status alone.
LEMMA SectionStatus ==
  ASSUME TypeOK, Section
  PROVE  \A j \in Images : dl'[j].status = dl[j].status
<1>1. olt.image \in Images /\ dl \in [Images -> Download] /\ dl[olt.image] \in Download
  BY DEF TypeOK
<1> DEFINE d == dl[olt.image]
           n == olt.next
           r == Received(d, n, Asks, olt.base + n)
<1>2. r.status = d.status
  <2> DEFINE fits == n = d.curr \/ n = d.curr + 1
  <2>1. CASE ~fits
    <3> DEFINE m == n # 0 /\ d.missed
    <3>1. r = [d EXCEPT !.missed = m, !.curr = 0]
      BY <2>1 DEF Received
    <3> HIDE DEF m, r, d
    <3> QED BY <3>1, <1>1 DEF Download, d
  <2>2. CASE fits
    <3>1. \E m, g, c, t : r = [d EXCEPT !.missed = m, !.good = g, !.curr = c, !.total = t]
      BY <2>2 DEF Received
    <3> HIDE DEF r, d
    <3> QED BY <3>1, <1>1 DEF Download, d
  <2> QED BY <2>1, <2>2
<1> HIDE DEF r
<1>3. dl' = dl \/ dl' = [dl EXCEPT ![olt.image] = r]
  BY DEF Section, r
<1> QED BY <1>1, <1>2, <1>3

\* omcid starts: what the entities know is what U-Boot knows.
LEMMA StartsBank ==
  ASSUME TypeOK, BankInv, NEW r \in Images, Starts(r)
  PROVE  BankInv'
<1>1. \A i \in Images : Entity(i, r, {}).valid <=> env.valid[i]
  BY EntityType
<1>2. /\ committing' = <<>> /\ storing' = {} /\ UNCHANGED <<env, flash, guard, unsure>>
      /\ me' = [i \in Images |-> Entity(i, r, {})] /\ dl' = [i \in Images |-> Idle]
  BY DEF Starts
<1>3. \A i \in Images : (me'[i].valid <=> env.valid[i]) /\ dl'[i].status = "none"
  BY <1>1, <1>2, IdleType
<1>4. \A k \in 1 .. Len(committing') : FALSE
  BY <1>2
<1> QED BY <1>2, <1>3, <1>4 DEF BankInv

LEMMA BankStep ==
  TypeOK /\ ReportInv /\ BankInv /\ [Next]_vars => BankInv'
<1> SUFFICES ASSUME TypeOK, ReportInv, BankInv, [Next]_vars PROVE BankInv'
  OBVIOUS
<1>1. /\ committing \in Seq(Images) /\ running \in Images /\ env.committed \in Images
      /\ act \subseteq Images /\ storing \subseteq Images /\ shadow \subseteq Images
      /\ dl \in [Images -> Download] /\ flash \in [Images -> BOOLEAN]
  BY DEF TypeOK
<1>2. ASSUME NEW i \in Images, StartDl(i)
      PROVE  BankInv'
  <2>1. \A j \in Images : me'[j].valid <=> IF j = i THEN FALSE ELSE me[j].valid
    BY <1>2, ValidSet DEF StartDl
  <2>2. /\ UNCHANGED <<flash, env, guard, committing, storing, unsure>>
        /\ invalidating' = invalidating \cup {i}
        /\ \A j \in Images : j # i => dl'[j] = dl[j]
    BY <1>1, <1>2 DEF StartDl, device, guardV, historyV
  <2> QED BY <2>1, <2>2, <1>1 DEF BankInv
<1>3. ASSUME NEW i \in Images, EndDl(i)
      PROVE  BankInv'
  <2>1. /\ UNCHANGED <<flash, env, guard, committing, me, invalidating>> /\ storing' = {i}
        /\ ~me[i].committed /\ dl[i].status = "downloading"
        /\ unsure \subseteq unsure' /\ (guard => unsure' = unsure)
        /\ ~guard /\ i \notin unsure' => ~amiss /\ committing = <<>> /\ invalidating = {}
    BY <1>3 DEF EndDl, device, guardV, Overwrites, Quiet, Protected
  <2>2. \A j \in Images : dl'[j].status = "downloading" => dl[j].status = "downloading"
    BY <2>1, <1>1, <1>3 DEF EndDl
  <2>3. ~guard /\ i \notin unsure' => i # env.committed
    BY <2>1 DEF ReportInv, Reported
  <2>4. ~guard /\ i \notin unsure' => ~me[i].valid /\ ~env.valid[i]
    BY <2>1 DEF BankInv
  <2>5. ~guard /\ i \notin unsure' => \A k \in 1 .. Len(committing) : FALSE
    BY <2>1
  <2> QED BY <2>1, <2>2, <2>3, <2>4, <2>5 DEF BankInv
<1>4. ASSUME NEW i \in Images, Invalidated(i)
      PROVE  BankInv'
  <2>1. env'.committed = env.committed
        /\ \A j \in Images : (env'.valid[j] => env.valid[j])
                             /\ (j = i /\ j \notin unsure' /\ ~guard => ~env'.valid[j])
    <3>1. CASE env' = [env EXCEPT !.valid[i] = FALSE]
      BY <3>1, EnvSet
    <3>2. CASE env' = env /\ (~guard => i \in unsure')
      BY <3>2
    <3> QED BY <3>1, <3>2, <1>4 DEF Invalidated
  <2>2. UNCHANGED <<flash, guard, committing, storing, me, dl>>
        /\ invalidating' = invalidating \ {i}
        /\ unsure \subseteq unsure' /\ (guard => unsure' = unsure)
    BY <1>4 DEF Invalidated, mibV, guardV
  <2> QED BY <2>1, <2>2, <1>1 DEF BankInv
<1>5. ASSUME NEW i \in Images, StoreBegins(i)
      PROVE  BankInv'
  <2>1. /\ i \in storing /\ ~guard /\ UNCHANGED <<env, guard, committing, storing, me, dl, invalidating, unsure>>
        /\ \A j \in Images : flash'[j] <=> IF j = i THEN FALSE ELSE flash[j]
    BY <1>1, <1>5 DEF StoreBegins, mibV, threads, guardV, historyV
  <2>2. \A k \in 1 .. Len(committing) :
          committing[k] \in Images /\ (i \notin unsure => committing[k] # i)
    BY <2>1, <1>1 DEF BankInv
  <2> QED BY <2>1, <2>2, <1>1 DEF BankInv
<1>6. ASSUME NEW i \in Images, Stored(i)
      PROVE  BankInv'
  <2>1. \A j \in Images : me'[j].valid <=> IF j = i THEN TRUE ELSE me[j].valid
    BY <1>6, ValidSet DEF Stored
  <2>2. env'.committed = env.committed
        /\ \A j \in Images : j # i => (env'.valid[j] <=> env.valid[j])
    <3>1. CASE env' = [env EXCEPT !.valid[i] = TRUE]
      BY <3>1, EnvSet
    <3>2. CASE env' = env
      BY <3>2
    <3> QED BY <3>1, <3>2, <1>6 DEF Stored
  <2>3. /\ UNCHANGED <<guard, committing, invalidating>> /\ storing' = {}
        /\ \A j \in Images : j # i => (flash'[j] <=> flash[j]) /\ (j \in unsure' <=> j \in unsure)
        /\ ~guard /\ i \notin unsure' => flash'[i]
        /\ guard => flash' = flash /\ unsure' = unsure
    BY <1>1, <1>6 DEF Stored, guardV
  <2>4. \A j \in Images : dl'[j].status = "downloading" => j # i /\ dl[j].status = "downloading"
    <3>1. dl' = [dl EXCEPT ![i].status = "complete"] /\ dl[i] \in Download
      BY <1>1, <1>6 DEF Stored
    <3>2. PICK r : r = [dl[i] EXCEPT !.status = "complete"]
      OBVIOUS
    <3>3. r.status = "complete"
      BY <3>1, <3>2, DownloadStatus DEF Statuses
    <3>4. \A j \in Images : dl'[j] = IF j = i THEN r ELSE dl[j]
      BY <3>1, <3>2, <1>1
    <3> QED BY <3>3, <3>4
  <2>5. \A k \in 1 .. Len(committing) : committing[k] \in Images
    BY <1>1
  <2> QED BY <2>1, <2>2, <2>3, <2>4, <2>5, <1>1 DEF BankInv
<1>7. ASSUME NEW i \in Images, StoreFails(i)
      PROVE  BankInv'
  <2>1. \A j \in Images : me'[j].valid <=> IF j = i THEN FALSE ELSE me[j].valid
    BY <1>7, ValidSet DEF StoreFails
  <2>2. UNCHANGED <<env, guard, committing, dl, invalidating, unsure>> /\ storing' = {}
    BY <1>7 DEF StoreFails, guardV, historyV
  <2>3. \A j \in Images : flash[j] => flash'[j]
    BY <1>1, <1>7 DEF StoreFails
  <2>4. \A k \in 1 .. Len(committing) : committing[k] \in Images
    BY <1>1
  <2> QED BY <2>1, <2>2, <2>3, <2>4, <1>1 DEF BankInv
<1>8. ASSUME NEW i \in Images, Activate(i)
      PROVE  BankInv'
  <2>1. \A j \in Images : me'[j].valid <=> me[j].valid
    BY <1>8, ActiveSet DEF Activate
  <2> QED BY <2>1, <1>8, BankKept DEF Activate, threads, guardV, historyV
<1>9. ASSUME NEW i \in Images, Commit(i)
      PROVE  BankInv'
  <2>1. \A j \in Images : me'[j].valid <=> me[j].valid
    BY <1>9, CommittedSet DEF Commit
  <2>2. UNCHANGED <<flash, env, guard, dl, invalidating, storing, unsure>> /\ me[i].valid
    BY <1>9 DEF Commit, device, guardV, Choosable
  <2>3. \A k \in 1 .. Len(committing') :
          committing'[k] = i \/ (k \in 1 .. Len(committing) /\ committing'[k] = committing[k])
    <3>1. \A k \in 1 .. Len(Append(committing, i)) :
            \/ Append(committing, i)[k] = i
            \/ k \in 1 .. Len(committing) /\ Append(committing, i)[k] = committing[k]
      BY <1>1
    <3>2. \A k \in 1 .. Len(<<i>>) : <<i>>[k] = i
      OBVIOUS
    <3> QED BY <3>1, <3>2, <1>9 DEF Commit
  <2>4. ~guard /\ i \notin unsure => flash[i] /\ i \notin storing
    BY <2>2 DEF BankInv
  <2> QED BY <2>1, <2>2, <2>3, <2>4, <1>1 DEF BankInv
<1>10. CASE Committed
  <2>1. /\ committing # <<>> /\ committing' = Tail(committing) /\ Head(committing) = committing[1]
        /\ Head(committing) \in Images /\ 1 \in 1 .. Len(committing)
        /\ UNCHANGED <<me, dl, guard, flash, storing, invalidating, unsure>>
    BY <1>1, <1>10, QueueFacts DEF Committed, mibV
  <2>2. \A k \in 1 .. Len(committing') : k + 1 \in 1 .. Len(committing)
                                         /\ committing'[k] = committing[k + 1]
    BY <2>1, <1>1, QueueFacts
  <2>3. guard => env' = env
    BY <1>10 DEF Committed
  <2>4. ~guard => env'.committed \in {env.committed, Head(committing)} /\ env'.valid = env.valid
    <3>1. CASE env' = [env EXCEPT !.committed = Head(committing)]
      BY <3>1, <2>1, EnvSet
    <3>2. CASE env' = env
      BY <3>2
    <3> QED BY <3>1, <3>2, <1>10 DEF Committed
  <2>5. CASE guard
    BY <2>1, <2>3, <2>5 DEF BankInv
  <2>6. CASE ~guard
    BY <2>1, <2>2, <2>4, <2>6 DEF BankInv
  <2> QED BY <2>5, <2>6
<1>11. CASE MibReset
  <2>1. \A i \in Images : Entity(i, running, shadow).valid <=> env.valid[i]
    BY <1>1, EntityType
  <2>2. /\ UNCHANGED <<flash, env, guard, committing, storing, invalidating, unsure>>
        /\ me' = [i \in Images |-> Entity(i, running, shadow)] /\ dl' = [i \in Images |-> Idle]
    BY <1>11 DEF MibReset, threads, device, guardV
  <2>3. \A i \in Images : (me'[i].valid <=> env.valid[i]) /\ dl'[i].status = "none"
    BY <2>1, <2>2, IdleType
  <2> QED BY <2>2, <2>3, <1>1 DEF BankInv
<1>12. ASSUME NEW i \in Images, EndDlCrash(i)
       PROVE  BankInv'
  BY <1>1, <1>12, StartsBank DEF EndDlCrash
<1>13. CASE PowerCycle
  BY <1>1, <1>13, StartsBank DEF PowerCycle
<1>14. CASE WarmBoot
  <2>1. PICK r \in Images : Starts(r)
    BY <1>1, <1>14, BootFrom
  <2> QED BY <2>1, StartsBank
<1>15. ASSUME NEW i \in Images, StartDlFails(i) \/ EndDlFails(i) \/ EndDlComplete(i)
       PROVE  BankInv'
  <2>1. \A j \in Images : dl'[j].status = "downloading" => dl[j].status = "downloading"
    <3>1. dl[i] \in Download
      BY <1>1
    <3>2. ASSUME NEW d, dl' = [dl EXCEPT ![i] = d], d.status \in {dl[i].status, "none"}
          PROVE  \A j \in Images : dl'[j].status = "downloading" => dl[j].status = "downloading"
      BY <3>2, <1>1
    <3>3. CASE StartDlFails(i)
      <4>1. dl' = [dl EXCEPT ![i] = Freed(dl[i])] /\ Freed(dl[i]).status = dl[i].status
        BY <3>1, <3>3, FreedType DEF StartDlFails, Statuses
      <4> QED BY <4>1, <3>2
    <3>4. CASE EndDlFails(i)
      <4>1. PICK d : d = [Freed(dl[i]) EXCEPT !.status = "none"]
        OBVIOUS
      <4>2. d.status = "none"
        BY <4>1, <3>1, FreedType DEF Statuses
      <4>3. dl' = dl \/ dl' = [dl EXCEPT ![i] = d]
        BY <4>1, <3>4 DEF EndDlFails
      <4> QED BY <4>2, <4>3, <3>2
    <3>5. CASE EndDlComplete(i)
      <4>1. PICK d : d = [dl[i] EXCEPT !.status = "none"]
        OBVIOUS
      <4>2. d.status = "none"
        BY <4>1, <3>1, DownloadStatus DEF Statuses
      <4>3. dl' = [dl EXCEPT ![i] = d]
        BY <4>1, <3>5 DEF EndDlComplete
      <4> QED BY <4>2, <4>3, <3>2
    <3> QED BY <1>15, <3>3, <3>4, <3>5
  <2>2. UNCHANGED <<flash, env, guard, committing, storing, invalidating, me, unsure>>
    BY <1>15 DEF StartDlFails, EndDlFails, EndDlComplete, threads, device, guardV, historyV
  <2> QED BY <2>1, <2>2, BankKept
<1>16. CASE TimeoutThread \/ Section
  <2>1. UNCHANGED <<flash, env, guard, committing, storing, invalidating, me, unsure>>
    BY <1>16 DEF TimeoutThread, DataClean, Section, mibV, threads, device, guardV, historyV
  <2>2. \A j \in Images : dl'[j].status = "downloading" => dl[j].status = "downloading"
    <3>1. CASE TimeoutThread
      <4>1. dl' = dl \/ \E i \in Images : dl' = [dl EXCEPT ![i] = Idle]
        BY <3>1 DEF TimeoutThread, DataClean, mibV
      <4> QED BY <4>1, <1>1, IdleType
    <3>2. CASE Section
      <4> QED BY <3>2, <1>1, SectionStatus
    <3> QED BY <1>16, <3>1, <3>2
  <2> QED BY <2>1, <2>2, BankKept
<1>17. CASE SectionLost \/ Reboot \/ UNCHANGED vars
  BY <1>17, BankKept DEF SectionLost, Reboot, vars, mibV, threads, device, guardV, historyV
<1> QED BY <1>2, <1>3, <1>4, <1>5, <1>6, <1>7, <1>8, <1>9, <1>10, <1>11, <1>12, <1>13, <1>14,
           <1>15, <1>16, <1>17 DEF Next

\* What the run's invariants of the banks rest on.
LEMMA BankInit == Init => ReportInv /\ BankInv
<1> SUFFICES ASSUME Init PROVE ReportInv /\ BankInv
  OBVIOUS
<1>1. TypeOK
  BY SafeInit DEF SafeInv
<1>2. /\ committing = <<>> /\ storing = {} /\ shadow = {} /\ running = 0
      /\ me = [i \in Images |-> Entity(i, running, shadow)] /\ dl = [i \in Images |-> Idle]
  BY DEF Init
<1>3. \A i \in Images : (me[i].valid <=> env.valid[i]) /\ (me[i].committed <=> i = env.committed)
  BY <1>1, <1>2, EntityType DEF Images
<1>4. env.committed = 0 /\ \A i \in Images : env.valid[i] <=> flash[i]
  BY DEF Init
<1>5. flash[0]
  BY DEF Init, Images
<1>6. \A i \in Images : dl[i].status = "none"
  BY <1>2, IdleType
<1>7. ReportInv
  BY <1>2, <1>3 DEF ReportInv, Reported
<1>8. \A k \in 1 .. Len(committing) : FALSE
  BY <1>2
<1>9. BankInv
  BY <1>2, <1>3, <1>4, <1>5, <1>6, <1>8 DEF BankInv
<1> QED BY <1>7, <1>9

\* Once the COMMITs have ended the OLT is told of the committed image that U-Boot will
\* start, or with the guard of the one that stands for it, unless a reset of the MIB
\* overtook the last COMMIT or its fw_setenv failed unseen (amiss).
THEOREM CommittedReported == Spec => []CommittedIsReported
<1>1. Init => ReportInv
  BY BankInit
<1>2. ReportInv => CommittedIsReported
  BY DEF ReportInv, Reported, CommittedIsReported
<1> QED BY TypeCorrect, ReportStep, <1>1, <1>2, PTL DEF Spec

\* The bank U-Boot starts is whole after any download, store, commit, reset and loss of
\* power, and so is every bank that is called valid, unless it is in doubt since a failure
\* of mtd or fw_setenv that the code does not look at, or since it was written over while
\* the entities were amiss or another thread was at work (unsure).
THEOREM ImagesIntact == Spec => []ImagesAreIntact
<1>1. Init => ReportInv /\ BankInv
  BY BankInit
<1>2. BankInv => ImagesAreIntact
  BY DEF BankInv, ImagesAreIntact
<1> QED BY TypeCorrect, ReportStep, BankStep, <1>1, <1>2, PTL DEF Spec
=============================================================================
