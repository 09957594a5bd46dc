-------------------------- MODULE PmInterval_proofs --------------------------
(***************************************************************************)
(* Theorems about PmInterval, for a counter of any width, any thresholds   *)
(* and any number of events.                                               *)
(***************************************************************************)
EXTENDS PmInterval, TLAPS

\* A number and its remainder.
LEMMA Remainder ==
  ASSUME NEW n \in Nat
  PROVE  n % Mod \in 0 .. Mod - 1 /\ \E q \in Int : n = Mod * q + (n % Mod)
<1>1. Mod \in Nat /\ Mod > 1
  BY PmAssumption
<1>2. n % Mod \in 0 .. Mod - 1
  BY <1>1
<1>3. n \div Mod \in Int /\ n = Mod * (n \div Mod) + (n % Mod)
  BY <1>1
<1> QED BY <1>2, <1>3

\* attr_sub of two readings is the number of events between them, although the counter
\* has gone round.
LEMMA SubIsDistance ==
  ASSUME NEW n \in Nat, NEW m \in Nat, m <= n, n - m < Mod
  PROVE  AttrSub(n % Mod, m % Mod) = n - m
<1>1. Mod \in Nat /\ Mod > 1
  BY PmAssumption
<1>2. PICK p \in Int : n = Mod * p + (n % Mod)
  BY Remainder
<1>3. PICK q \in Int : m = Mod * q + (m % Mod)
  BY Remainder
<1>4. n % Mod \in 0 .. Mod - 1 /\ m % Mod \in 0 .. Mod - 1
  BY Remainder
<1> DEFINE a == n % Mod
           b == m % Mod
           k == p - q
<1>5. a \in 0 .. Mod - 1 /\ b \in 0 .. Mod - 1 /\ k \in Int
  BY <1>4
<1>6. n - m = Mod * k + a - b
  <2> HIDE DEF a, b
  <2>1. n = Mod * p + a /\ m = Mod * q + b
    BY <1>2, <1>3 DEF a, b
  <2>2. Mod * (p - q) = Mod * p - Mod * q
    BY <1>1
  <2> QED BY <2>1, <2>2, <1>1, <1>5
<1> HIDE DEF a, b, k
<1>7. k = 0 \/ k = 1
  <2>1. ASSUME k >= 2 PROVE FALSE
    <3>1. Mod * k >= Mod * 2
      BY <2>1, <1>1, <1>5
    <3> QED BY <3>1, <1>1, <1>5, <1>6
  <2>2. ASSUME k <= -1 PROVE FALSE
    <3>1. Mod * k <= Mod * (-1)
      BY <2>2, <1>1, <1>5
    <3> QED BY <3>1, <1>1, <1>5, <1>6
  <2> QED BY <2>1, <2>2, <1>5
<1>8. n - m = a - b \/ n - m = Mod + a - b
  BY <1>1, <1>5, <1>6, <1>7
<1>9. AttrSub(a, b) = n - m
  BY <1>1, <1>5, <1>8 DEF AttrSub
<1> QED BY <1>9 DEF a, b

\* The first reading of an entity, whose abs is 0.
LEMMA SubOfZero ==
  ASSUME NEW n \in Nat
  PROVE  AttrSub(n % Mod, 0) = n % Mod
  BY Remainder, PmAssumption DEF AttrSub

\* attr_add adds and holds at the largest value.
LEMMA AddHolds ==
  ASSUME NEW e \in Nat, NEW r \in 0 .. Mod - 1
  PROVE  AttrAdd(AtMost(e), r) = AtMost(e + r)
<1>1. Mod \in Nat /\ Mod > 1
  BY PmAssumption
<1> DEFINE l == AtMost(e)
<1>2. l \in 0 .. Mod - 1 /\ l = IF e < Mod THEN e ELSE Mod - 1
  BY <1>1 DEF AtMost
<1> HIDE DEF l
<1>3. (l + r) % Mod = IF l + r < Mod THEN l + r ELSE l + r - Mod
  BY <1>1, <1>2
<1>4. AttrAdd(l, r) = IF l + r < Mod THEN l + r ELSE Mod - 1
  BY <1>1, <1>2, <1>3 DEF AttrAdd
<1> QED BY <1>1, <1>2, <1>4 DEF AtMost, l

\* attr_add never leaves the width of the counter.
LEMMA AddInRange ==
  ASSUME NEW l \in 0 .. Mod - 1, NEW r \in 0 .. Mod - 1
  PROVE  AttrAdd(l, r) \in 0 .. Mod - 1
<1>1. Mod \in Nat /\ Mod > 1
  BY PmAssumption
<1>3. (l + r) % Mod = IF l + r < Mod THEN l + r ELSE l + r - Mod
  BY <1>1
<1> QED BY <1>1, <1>3 DEF AttrAdd

-----------------------------------------------------------------------------
\* What the reads rest on: abs is the reading of last, and the counter has not gone
\* round since.
ReadInv ==
  /\ last <= hw
  /\ ~alive => fresh
  /\ fresh => abs = 0
  /\ ~fresh => abs = last % Mod /\ hw - last < Mod

\* What the alerts rest on: since a clean start the bit is set where an alert was sent,
\* and the buffer has not been overwritten.
AlertInv == steady => curr \notin mixed /\ (tca <=> alert)

PmInv == TypeOK /\ ReadInv /\ CountIsExact /\ HistoryIsExact /\ AlertInv /\ AlertIsExact

\* Every read adds the events since the one before, to an exact count as to any other.
LEMMA ReadIsExact ==
  ASSUME TypeOK, ReadInv
  PROVE  /\ HwRead \in 0 .. Mod - 1 /\ Since \in 0 .. Mod - 1
         /\ Updated \in 0 .. Mod - 1
         /\ curr \notin mixed /\ CountIsExact => Updated = AtMost(exact + Since)
<1>1. hw \in Nat /\ last \in Nat /\ abs \in 0 .. Mod - 1 /\ fresh \in BOOLEAN
      /\ exact \in Nat /\ cnt[curr] \in 0 .. Mod - 1
  BY DEF TypeOK
<1>2. HwRead \in 0 .. Mod - 1
  BY <1>1, Remainder DEF HwRead
<1>3. Since \in 0 .. Mod - 1 /\ AttrSub(HwRead, abs) = Since
  <2>1. CASE fresh
    BY <2>1, <1>1, Remainder, SubOfZero DEF ReadInv, Since, HwRead
  <2>2. CASE ~fresh
    <3>1. last <= hw /\ hw - last < Mod /\ abs = last % Mod
      BY <2>2 DEF ReadInv
    <3>2. AttrSub(hw % Mod, last % Mod) = hw - last
      BY <3>1, <1>1, SubIsDistance
    <3> QED BY <3>1, <3>2, <2>2, <1>1, PmAssumption DEF Since, HwRead
  <2> QED BY <2>1, <2>2, <1>1
<1>4. Updated \in 0 .. Mod - 1
  BY <1>1, <1>3, AddInRange DEF Updated
<1>5. curr \notin mixed /\ CountIsExact => Updated = AtMost(exact + Since)
  BY <1>1, <1>3, AddHolds DEF Updated, CountIsExact
<1> QED BY <1>2, <1>3, <1>4, <1>5

\* The held count only grows with the events.
LEMMA AtMostGrows ==
  ASSUME NEW e \in Nat, NEW r \in Nat
  PROVE  AtMost(e) \in 0 .. Mod - 1 /\ AtMost(e + r) \in 0 .. Mod - 1 /\ AtMost(e) <= AtMost(e + r)
  BY PmAssumption DEF AtMost

\* An interval starts at zero.
LEMMA AtMostZero == AtMost(0) = 0
  BY PmAssumption DEF AtMost

\* An entity that does not exist yet satisfies the invariant.
LEMMA InitPmInv == Init => PmInv
<1> SUFFICES ASSUME Init PROVE PmInv
  OBVIOUS
<1>1. TypeOK
  <2>1. 0 \in 0 .. Mod - 1
    BY PmAssumption
  <2>2. /\ alive \in BOOLEAN /\ fresh \in BOOLEAN /\ tca \in BOOLEAN
        /\ steady \in BOOLEAN /\ alert \in BOOLEAN
    BY DEF Init
  <2>3. cnt \in [Buffers -> 0 .. Mod - 1] /\ thr_id \in [Buffers -> Thresholds \cup {0}]
    BY <2>1 DEF Init
  <2>4. /\ hw \in Nat /\ abs \in 0 .. Mod - 1 /\ last \in Nat
        /\ curr \in Buffers /\ data \in Buffers /\ thr \in Thresholds \cup {0}
        /\ exact \in Nat /\ hist_exact \in Nat /\ mixed \subseteq Buffers
    BY <2>1 DEF Init, Buffers
  <2> QED BY <2>2, <2>3, <2>4 DEF TypeOK
<1>2. ReadInv
  BY DEF Init, ReadInv
<1>3. CountIsExact /\ HistoryIsExact /\ AlertInv /\ AlertIsExact
  BY AtMostZero DEF Init, CountIsExact, HistoryIsExact, AlertInv, AlertIsExact, Buffers, Other
<1> QED BY <1>1, <1>2, <1>3 DEF PmInv

\* Events only move hw.
LEMMA HwCountsPmInv == PmInv /\ HwCounts => PmInv'
<1> SUFFICES ASSUME PmInv, HwCounts PROVE PmInv'
  OBVIOUS
<1>1. TypeOK'
  BY DEF PmInv, TypeOK, HwCounts, ghosts
<1>2. ReadInv'
  BY DEF PmInv, TypeOK, ReadInv, HwCounts, ghosts
<1>3. CountIsExact' /\ HistoryIsExact' /\ AlertInv' /\ AlertIsExact'
  BY DEF PmInv, CountIsExact, HistoryIsExact, AlertInv, AlertIsExact, HwCounts, ghosts, AtMost, Other
<1> QED BY <1>1, <1>2, <1>3 DEF PmInv

\* A read, by the PM thread or for the OLT.
LEMMA CountersGetPmInv ==
  ASSUME PmInv, NEW shown \in Buffers, CountersGet(shown)
  PROVE  PmInv'
<1> USE DEF PmInv
<1>0. /\ HwRead \in 0 .. Mod - 1 /\ Since \in 0 .. Mod - 1 /\ Updated \in 0 .. Mod - 1
      /\ curr \notin mixed => Updated = AtMost(exact + Since)
  BY ReadIsExact
<1>1. TypeOK'
  <2>1. /\ (alive \in BOOLEAN)' /\ (fresh \in BOOLEAN)' /\ (tca \in BOOLEAN)'
        /\ (steady \in BOOLEAN)' /\ (alert \in BOOLEAN)'
    BY DEF TypeOK, CountersGet, ThrCheck
  <2>2. cnt' \in [Buffers -> 0 .. Mod - 1] /\ abs' \in 0 .. Mod - 1
    BY <1>0 DEF TypeOK, CountersGet
  <2>3. exact' \in Nat /\ last' \in Nat
    BY <1>0 DEF TypeOK, CountersGet
  <2> QED BY <2>1, <2>2, <2>3 DEF TypeOK, CountersGet
<1>2. ReadInv'
  BY PmAssumption DEF TypeOK, ReadInv, CountersGet, HwRead
<1>3. CountIsExact'
  BY <1>0 DEF TypeOK, CountIsExact, CountersGet, AtMost
<1>4. HistoryIsExact'
  BY DEF TypeOK, HistoryIsExact, CountersGet, AtMost, Buffers, Other
<1>5. AlertInv' /\ AlertIsExact'
  <2>1. exact \in Nat /\ thr \in Nat /\ exact' = exact + Since /\ thr' = thr
    BY PmAssumption DEF TypeOK, CountersGet
  <2>2. AtMost(exact) \in Nat /\ AtMost(exact + Since) \in Nat /\ AtMost(exact) <= AtMost(exact + Since)
    BY <2>1, <1>0, AtMostGrows
  <2>3. steady' = steady /\ mixed' = mixed /\ curr' = curr
    BY DEF CountersGet
  <2>4. tca' = (tca \/ Over(Updated)) /\ alert' = (alert \/ (Over(Updated) /\ ~tca))
    BY DEF CountersGet, ThrCheck
  <2>5. steady => (Over(Updated) <=> thr # 0 /\ AtMost(exact + Since) > thr)
    BY <1>0 DEF Over, AlertInv
  <2>6. AlertInv'
    BY <2>3, <2>4 DEF AlertInv, TypeOK
  <2>7. AtMost(exact)' = AtMost(exact + Since)
    BY <2>1 DEF AtMost
  <2>8. ASSUME steady PROVE alert' <=> (thr # 0 /\ AtMost(exact + Since) > thr)
    <3>1. (alert <=> thr # 0 /\ AtMost(exact) > thr) /\ (tca <=> alert)
      BY <2>8 DEF AlertIsExact, AlertInv
    <3>2. thr # 0 /\ AtMost(exact) > thr => thr # 0 /\ AtMost(exact + Since) > thr
      BY <2>1, <2>2
    <3>3. alert' <=> (alert \/ (Over(Updated) /\ ~tca))
      BY <2>4
    <3> QED BY <3>1, <3>2, <3>3, <2>5, <2>8
  <2> QED BY <2>1, <2>3, <2>6, <2>7, <2>8 DEF AlertIsExact
<1> QED BY <1>1, <1>2, <1>3, <1>4, <1>5

\* A read that fails checks the threshold again.
LEMMA CountersGetFailsPmInv ==
  ASSUME PmInv, NEW shown \in Buffers, CountersGetFails(shown)
  PROVE  PmInv'
<1> USE DEF PmInv
<1>1. TypeOK'
  <2>1. /\ (alive \in BOOLEAN)' /\ (fresh \in BOOLEAN)' /\ (tca \in BOOLEAN)'
        /\ (steady \in BOOLEAN)' /\ (alert \in BOOLEAN)'
    BY DEF TypeOK, CountersGetFails, ThrCheck
  <2> QED BY <2>1 DEF TypeOK, CountersGetFails
<1>2. ReadInv'
  BY DEF ReadInv, CountersGetFails
<1>3. CountIsExact' /\ HistoryIsExact'
  BY DEF CountIsExact, HistoryIsExact, CountersGetFails, AtMost, Other
<1>4. AlertInv' /\ AlertIsExact'
  <2>1. /\ steady' = steady /\ mixed' = mixed /\ curr' = curr /\ thr' = thr
        /\ AtMost(exact)' = AtMost(exact)
    BY DEF CountersGetFails, AtMost
  <2>2. /\ tca' <=> (tca \/ Over(cnt[curr]))
        /\ alert' <=> (alert \/ (Over(cnt[curr]) /\ ~tca))
    BY DEF CountersGetFails, ThrCheck
  <2>3. steady => (Over(cnt[curr]) <=> thr # 0 /\ AtMost(exact) > thr)
    BY DEF Over, AlertInv, CountIsExact
  <2>4. AlertInv'
    BY <2>1, <2>2 DEF AlertInv
  <2> QED BY <2>1, <2>2, <2>3, <2>4 DEF AlertIsExact, AlertInv
<1> QED BY <1>1, <1>2, <1>3, <1>4

\* What both ends of an interval do to the alerts: the new interval begins clean.
LEMMA IntervalStarts ==
  ASSUME TypeOK, alert' = FALSE, tca' = FALSE, exact' = 0, thr' = thr,
         curr' \notin mixed'
  PROVE  AlertInv' /\ AlertIsExact'
<1>1. AtMost(exact)' = 0
  BY PmAssumption DEF AtMost
<1>2. thr \in Nat
  BY PmAssumption DEF TypeOK
<1> QED BY <1>1, <1>2 DEF AlertInv, AlertIsExact

\* The interval ends with a read.
LEMMA IntervalEndPmInv ==
  ASSUME PmInv, IntervalEnd
  PROVE  PmInv'
<1> USE DEF PmInv
<1>0. /\ HwRead \in 0 .. Mod - 1 /\ Since \in 0 .. Mod - 1 /\ Updated \in 0 .. Mod - 1
      /\ curr \notin mixed => Updated = AtMost(exact + Since)
  BY ReadIsExact
<1>b. /\ curr \in Buffers /\ Other(curr) \in Buffers /\ Other(curr) # curr
      /\ curr' = Other(curr) /\ Other(curr)' = curr
  BY DEF TypeOK, Buffers, Other, IntervalEnd
<1>1. TypeOK'
  <2>1. /\ (alive \in BOOLEAN)' /\ (fresh \in BOOLEAN)' /\ (tca \in BOOLEAN)'
        /\ (steady \in BOOLEAN)' /\ (alert \in BOOLEAN)'
    BY DEF TypeOK, IntervalEnd
  <2>0. 0 \in 0 .. Mod - 1
    BY PmAssumption
  <2>2. cnt' \in [Buffers -> 0 .. Mod - 1] /\ abs' \in 0 .. Mod - 1
    BY <1>0, <2>0 DEF TypeOK, IntervalEnd
  <2>3. exact' \in Nat /\ hist_exact' \in Nat /\ last' \in Nat
    BY <1>0 DEF TypeOK, IntervalEnd
  <2>4. thr_id' \in [Buffers -> Thresholds \cup {0}]
    BY DEF TypeOK, IntervalEnd
  <2> QED BY <2>1, <2>2, <2>3, <2>4, <1>b DEF TypeOK, IntervalEnd
<1>2. ReadInv'
  BY PmAssumption DEF TypeOK, ReadInv, IntervalEnd, HwRead
<1>3. CountIsExact'
  BY <1>b, PmAssumption DEF TypeOK, CountIsExact, IntervalEnd, AtMost
<1>4. HistoryIsExact'
  <2>1. cnt'[curr] = Updated /\ hist_exact' = exact + Since /\ mixed' = mixed \ {Other(curr)}
    BY <1>b DEF IntervalEnd
  <2>2. curr \in mixed' <=> curr \in mixed
    BY <1>b, <2>1
  <2> QED BY <1>0, <1>b, <2>1, <2>2 DEF HistoryIsExact, AtMost
<1>5. AlertInv' /\ AlertIsExact'
  BY <1>b, IntervalStarts DEF IntervalEnd
<1> QED BY <1>1, <1>2, <1>3, <1>4, <1>5

\* The interval ends without a read.
LEMMA IntervalEndFailsPmInv ==
  ASSUME PmInv, IntervalEndFails
  PROVE  PmInv'
<1> USE DEF PmInv
<1>b. /\ curr \in Buffers /\ Other(curr) \in Buffers /\ Other(curr) # curr
      /\ curr' = Other(curr) /\ Other(curr)' = curr
  BY DEF TypeOK, Buffers, Other, IntervalEndFails
<1>1. TypeOK'
  <2>1. /\ (alive \in BOOLEAN)' /\ (fresh \in BOOLEAN)' /\ (tca \in BOOLEAN)'
        /\ (steady \in BOOLEAN)' /\ (alert \in BOOLEAN)'
    BY DEF TypeOK, IntervalEndFails
  <2>2. 0 \in 0 .. Mod - 1
    BY PmAssumption
  <2>3. cnt' \in [Buffers -> 0 .. Mod - 1] /\ thr_id' \in [Buffers -> Thresholds \cup {0}]
    BY <2>2 DEF TypeOK, IntervalEndFails
  <2> QED BY <2>1, <2>3, <1>b DEF TypeOK, IntervalEndFails
<1>2. ReadInv'
  BY DEF ReadInv, IntervalEndFails
<1>3. CountIsExact'
  BY <1>b, PmAssumption DEF TypeOK, CountIsExact, IntervalEndFails, AtMost
<1>4. HistoryIsExact'
  <2>1. cnt'[curr] = cnt[curr] /\ hist_exact' = exact /\ mixed' = mixed \ {Other(curr)}
    BY <1>b DEF TypeOK, IntervalEndFails
  <2>2. curr \in mixed' <=> curr \in mixed
    BY <1>b, <2>1
  <2> QED BY <1>b, <2>1, <2>2 DEF HistoryIsExact, CountIsExact, AtMost
<1>5. AlertInv' /\ AlertIsExact'
  BY <1>b, IntervalStarts DEF IntervalEndFails
<1> QED BY <1>1, <1>2, <1>3, <1>4, <1>5

\* A SET keeps the count unless it writes another buffer over it, which mixed says.
LEMMA ThrSetPmInv ==
  ASSUME PmInv, NEW t \in Thresholds \cup {0}, ThrSet(t)
  PROVE  PmInv'
<1> USE DEF PmInv
<1>1. TypeOK'
  <2>1. /\ (alive \in BOOLEAN)' /\ (fresh \in BOOLEAN)' /\ (tca \in BOOLEAN)' /\ (alert \in BOOLEAN)'
    BY DEF TypeOK, ThrSet
  <2>2. steady' \in BOOLEAN
    BY DEF ThrSet
  <2>3. cnt' \in [Buffers -> 0 .. Mod - 1] /\ thr_id' \in [Buffers -> Thresholds \cup {0}]
        /\ thr' \in Thresholds \cup {0}
    BY DEF TypeOK, ThrSet
  <2>4. mixed' \subseteq Buffers
    BY DEF TypeOK, ThrSet
  <2> QED BY <2>1, <2>2, <2>3, <2>4 DEF TypeOK, ThrSet
<1>2. ReadInv'
  BY DEF ReadInv, ThrSet
<1>3. CASE data = curr
  <2>1. cnt' = cnt /\ mixed' = mixed
    BY <1>3 DEF TypeOK, ThrSet
  <2>2. CountIsExact' /\ HistoryIsExact'
    BY <2>1 DEF CountIsExact, HistoryIsExact, ThrSet, AtMost, Other
  <2>3. steady' => steady /\ thr' = thr
    BY DEF ThrSet
  <2>4. tca' = tca /\ alert' = alert /\ curr' = curr /\ AtMost(exact)' = AtMost(exact)
    BY DEF ThrSet, AtMost
  <2>5. AlertInv' /\ AlertIsExact'
    BY <2>1, <2>3, <2>4 DEF AlertInv, AlertIsExact
  <2> QED BY <1>1, <1>2, <2>2, <2>5
<1>4. CASE data # curr
  <2>1. curr' \in mixed' /\ ~steady' /\ curr' = curr
    BY <1>4 DEF ThrSet
  <2>2. Other(curr) # curr /\ curr \in Buffers
    BY DEF TypeOK, Buffers, Other
  <2>3. cnt'[Other(curr)] = cnt[Other(curr)] /\ (Other(curr) \in mixed' <=> Other(curr) \in mixed)
    BY <2>2, <1>4 DEF TypeOK, ThrSet, Buffers, Other
  <2>4. HistoryIsExact'
    BY <2>1, <2>3 DEF HistoryIsExact, ThrSet, AtMost, Other
  <2> QED BY <1>1, <1>2, <2>1, <2>4 DEF CountIsExact, AlertInv, AlertIsExact
<1> QED BY <1>3, <1>4

\* A new entity, and none at all.
LEMMA FreshPmInv ==
  ASSUME PmInv, NEW t \in Thresholds \cup {0}, Fresh(t), alive' \in BOOLEAN, hw' = hw
  PROVE  PmInv'
<1> USE DEF PmInv
<1>1. TypeOK'
  <2>1. /\ (fresh \in BOOLEAN)' /\ (tca \in BOOLEAN)' /\ (steady \in BOOLEAN)' /\ (alert \in BOOLEAN)'
    BY DEF Fresh
  <2>2. 0 \in 0 .. Mod - 1
    BY PmAssumption
  <2>3. cnt' \in [Buffers -> 0 .. Mod - 1] /\ thr_id' \in [Buffers -> Thresholds \cup {0}]
    BY <2>2 DEF Fresh
  <2>4. /\ hw' \in Nat /\ abs' \in 0 .. Mod - 1 /\ last' \in Nat
        /\ curr' \in Buffers /\ data' \in Buffers /\ thr' \in Thresholds \cup {0}
        /\ exact' \in Nat /\ hist_exact' \in Nat /\ mixed' \subseteq Buffers
    BY <2>2 DEF Fresh, TypeOK, Buffers
  <2> QED BY <2>1, <2>3, <2>4 DEF TypeOK
<1>2. ReadInv'
  BY DEF Fresh, ReadInv, TypeOK
<1>3. CountIsExact' /\ HistoryIsExact'
  <2>1. cnt'[1] = 0 /\ cnt'[2] = 0 /\ curr' = 1 /\ exact' = 0 /\ hist_exact' = 0
    BY DEF Fresh, Buffers
  <2>2. AtMost(exact)' = 0 /\ AtMost(hist_exact)' = 0
    BY <2>1, PmAssumption DEF AtMost
  <2> QED BY <2>1, <2>2 DEF CountIsExact, HistoryIsExact, Other
<1>4. ~steady'
  BY DEF Fresh
<1> QED BY <1>1, <1>2, <1>3, <1>4 DEF AlertInv, AlertIsExact

\* The inductive step, one case per action.
LEMMA StepPmInv == PmInv /\ [Next]_vars => PmInv'
<1> SUFFICES ASSUME PmInv, [Next]_vars PROVE PmInv'
  OBVIOUS
<1>1. CASE HwCounts
  BY <1>1, HwCountsPmInv
<1>2. CASE PmThread
  <2>1. curr \in Buffers
    BY DEF PmInv, TypeOK
  <2> QED BY <1>2, <2>1, CountersGetPmInv, CountersGetFailsPmInv DEF PmThread
<1>3. CASE GetData
  BY <1>3, CountersGetPmInv, CountersGetFailsPmInv DEF GetData
<1>4. CASE IntervalEnd
  BY <1>4, IntervalEndPmInv
<1>5. CASE IntervalEndFails
  BY <1>5, IntervalEndFailsPmInv
<1>6. CASE Delete
  <2>1. 0 \in Thresholds \cup {0} /\ Fresh(0) /\ alive' \in BOOLEAN /\ hw' = hw
    BY <1>6 DEF Delete
  <2> QED BY <2>1, FreshPmInv
<1>7. ASSUME NEW t \in Thresholds \cup {0}, Create(t) PROVE PmInv'
  <2>1. Fresh(t) /\ alive' \in BOOLEAN /\ hw' = hw
    BY <1>7 DEF Create
  <2> QED BY <2>1, FreshPmInv
<1>8. ASSUME NEW t \in Thresholds \cup {0}, ThrSet(t) PROVE PmInv'
  BY <1>8, ThrSetPmInv
<1>9. CASE UNCHANGED vars
  BY <1>9 DEF PmInv, vars, ghosts, TypeOK, ReadInv, CountIsExact, HistoryIsExact, AlertInv,
              AlertIsExact, AtMost, Other
<1> QED BY <1>1, <1>2, <1>3, <1>4, <1>5, <1>6, <1>7, <1>8, <1>9 DEF Next

\* The invariant of every behaviour, from which the theorems follow.
LEMMA AlwaysPmInv == Spec => []PmInv
<1>1. Init => PmInv
  BY InitPmInv
<1>2. PmInv /\ [Next]_vars => PmInv'
  BY StepPmInv
<1> QED BY <1>1, <1>2, PTL DEF Spec

\* Counters, buffers and thresholds keep their types, for counters of any width.
THEOREM TypeCorrect == Spec => []TypeOK
<1>1. PmInv => TypeOK
  BY DEF PmInv
<1> QED BY <1>1, AlwaysPmInv, PTL

\* The current interval shows the events read in it, or the largest value: omci_pm.c
\* counts every event once although what it reads goes round.
THEOREM CountExact == Spec => []CountIsExact
<1>1. PmInv => CountIsExact
  BY DEF PmInv
<1> QED BY <1>1, AlwaysPmInv, PTL

\* The history shows all events of the interval before: pm_interval_end reads the
\* counters before the buffers change places.
THEOREM HistoryExact == Spec => []HistoryIsExact
<1>1. PmInv => HistoryIsExact
  BY DEF PmInv
<1> QED BY <1>1, AlwaysPmInv, PTL

\* A threshold alert is sent in an interval when and only when the threshold was
\* crossed in it, once tca_bitmap was cleared by an interval's end.
THEOREM AlertExact == Spec => []AlertIsExact
<1>1. PmInv => AlertIsExact
  BY DEF PmInv
<1> QED BY <1>1, AlwaysPmInv, PTL
=============================================================================
