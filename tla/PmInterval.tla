------------------------------ MODULE PmInterval ------------------------------
(***************************************************************************)
(* A performance monitoring entity whose counters omcid keeps itself:      *)
(* omci_pm.c, for a class with OMCI_ME_PROP_PM_INTERNAL, here              *)
(* me/omci_ip_host_monitoring_data.c and one of its counters.              *)
(*                                                                         *)
(* What is counted is counted for ever, in a number that goes round.  The  *)
(* PM thread (every 60 s), GET and GET CURRENT DATA (action thread) and    *)
(* the end of a 15-minute interval (event thread) each read it and add the *)
(* difference to the current interval, which holds at its largest value.   *)
(* They run under the lock of the MIB or of the entity, each as one step.  *)
(*                                                                         *)
(* Two buffers change places as current interval and history; me->data     *)
(* points to the one looked at last.  last, exact, hist_exact, mixed,      *)
(* steady and alert are not in the code: they say what really happened.    *)
(***************************************************************************)
EXTENDS Integers

CONSTANTS
  Mod,            \* 2^8, 2^16 or 2^32: values of a counter
  Thresholds,     \* Threshold Data entities, each by its threshold; 0 for none
  MaxHw           \* bound: events counted

ASSUME PmAssumption ==
  /\ Mod \in Nat \ {0, 1} /\ MaxHw \in Nat
  /\ Thresholds \subseteq Nat

Buffers == {1, 2}
Other(b) == 3 - b

VARIABLES
  hw,                      \* events so far
  alive, fresh,            \* the entity exists; it was not updated yet
  abs, last,               \* value read last, and the events at that time
  cnt, thr_id,             \* buffer -> counter, Threshold Data pointer
  curr, data,              \* interval[CURR], and the buffer me->data points to
  thr, tca,                \* pm->thr, pm->tca_bitmap
  exact, hist_exact,       \* events read in this interval and in the one before
  mixed,                   \* buffers a SET has written the other one's counter to
  steady, alert            \* tca is this interval's, thr unchanged in it; alert sent

ghosts == <<last, exact, hist_exact, mixed, steady, alert>>
vars == <<hw, alive, fresh, abs, cnt, thr_id, curr, data, thr, tca, ghosts>>

\* pm_me_context_alloc, and what the entity's first SET of t makes of it.  The bits of
\* tca_bitmap are what malloc left there.  Which buffer is the first is not said.
Fresh(t) ==
  /\ fresh' = TRUE /\ abs' = 0 /\ last' = 0
  /\ cnt' = [b \in Buffers |-> 0]
  /\ curr' = 1 /\ data' = 1
  /\ thr_id' = [b \in Buffers |-> IF b = 1 THEN t ELSE 0]
  /\ thr' = t /\ tca' \in BOOLEAN
  /\ exact' = 0 /\ hist_exact' = 0 /\ mixed' = {} /\ steady' = FALSE /\ alert' = FALSE

Init ==
  /\ hw = 0 /\ alive = FALSE /\ fresh = TRUE /\ abs = 0 /\ last = 0
  /\ cnt = [b \in Buffers |-> 0] /\ thr_id = [b \in Buffers |-> 0]
  /\ curr = 1 /\ data = 1 /\ thr = 0 /\ tca = FALSE
  /\ exact = 0 /\ hist_exact = 0 /\ mixed = {} /\ steady = FALSE /\ alert = FALSE

\* The counter does not go round twice between two reads.
HwCounts ==
  /\ hw < MaxHw
  /\ alive /\ ~fresh => hw + 1 - last < Mod
  /\ hw' = hw + 1
  /\ UNCHANGED <<alive, fresh, abs, cnt, thr_id, curr, data, thr, tca, ghosts>>

-----------------------------------------------------------------------------
\* me_counters_get, ip_host_counters_get: the low bits of the count.
HwRead == hw % Mod

\* attr_sub.
AttrSub(lhs, rhs) == IF lhs < rhs THEN (Mod - 1) - rhs + lhs + 1 ELSE lhs - rhs

\* A sum that goes round.
AttrAddWraps(lhs, rhs) == (lhs + rhs) % Mod

\* attr_add.
AttrAdd(lhs, rhs) == IF (lhs + rhs) % Mod < lhs THEN Mod - 1 ELSE lhs + rhs

\* counters_update: the current interval after a read.
Updated == AttrAdd(cnt[curr], AttrSub(HwRead, abs))

\* Events since the last read.  The first read of an entity starts with abs = 0.
Since == IF fresh THEN hw % Mod ELSE hw - last

\* me_thr_fill: zero is no threshold.
Over(n) == thr # 0 /\ n > thr

\* me_thr_check: a threshold crossed for the first time is remembered and reported.
ThrCheck(n) == tca' = (tca \/ Over(n)) /\ alert' = (alert \/ (Over(n) /\ ~tca))

\* pm_me_counters_get, which leaves me->data at the buffer shown.
CountersGet(shown) ==
  /\ alive
  /\ abs' = HwRead /\ cnt' = [cnt EXCEPT ![curr] = Updated]
  /\ ThrCheck(Updated)
  /\ data' = shown
  /\ exact' = exact + Since /\ last' = hw /\ fresh' = FALSE
  /\ UNCHANGED <<hw, alive, thr_id, curr, thr, hist_exact, mixed, steady>>

\* The same when there are no counters to get: the difference is 0.
CountersGetFails(shown) ==
  /\ alive
  /\ ThrCheck(cnt[curr])
  /\ data' = shown
  /\ UNCHANGED <<hw, alive, fresh, abs, cnt, thr_id, curr, thr, last, exact, hist_exact,
                 mixed, steady>>

\* pm_thread_main, every 60 s: for ABS, after which CURR is shown.
PmThread == CountersGet(curr) \/ CountersGetFails(curr)

\* get_action_handle: GET CURRENT DATA shows CURR, GET the history.
GetData == \E shown \in Buffers : CountersGet(shown) \/ CountersGetFails(shown)

\* An end of interval that does not read the counters first.
IntervalEndUnread ==
  /\ alive
  /\ cnt' = [cnt EXCEPT ![Other(curr)] = 0]
  /\ thr_id' = [b \in Buffers |-> thr_id[curr]]
  /\ curr' = Other(curr) /\ data' = curr
  /\ tca' = FALSE /\ alert' = FALSE /\ steady' = TRUE
  /\ hist_exact' = exact + Since /\ exact' = 0 /\ last' = hw
  /\ abs' = HwRead /\ fresh' = FALSE /\ mixed' = mixed \ {Other(curr)}
  /\ UNCHANGED <<hw, alive, thr>>

\* An end of interval that keeps the bits of tca_bitmap.
IntervalEndKeepsTca ==
  /\ alive
  /\ abs' = HwRead
  /\ cnt' = [b \in Buffers |-> IF b = curr THEN Updated ELSE 0]
  /\ thr_id' = [b \in Buffers |-> thr_id[curr]]
  /\ curr' = Other(curr) /\ data' = curr
  /\ tca' = (tca \/ Over(Updated)) /\ alert' = FALSE /\ steady' = TRUE
  /\ hist_exact' = exact + Since /\ exact' = 0 /\ last' = hw /\ fresh' = FALSE
  /\ mixed' = mixed \ {Other(curr)}
  /\ UNCHANGED <<hw, alive, thr>>

\* interval_end_walker under pm_interval_end: the counters are read and checked, the
\* buffers change places, and the new current one is cleared.  me->data stays behind.
IntervalEnd ==
  /\ alive
  /\ abs' = HwRead
  /\ cnt' = [b \in Buffers |-> IF b = curr THEN Updated ELSE 0]
  /\ thr_id' = [b \in Buffers |-> thr_id[curr]]
  /\ curr' = Other(curr) /\ data' = curr
  /\ tca' = FALSE /\ alert' = FALSE /\ steady' = TRUE
  /\ hist_exact' = exact + Since /\ exact' = 0 /\ last' = hw /\ fresh' = FALSE
  /\ mixed' = mixed \ {Other(curr)}
  /\ UNCHANGED <<hw, alive, thr>>

\* The same when there are no counters to get: the interval ends with what was read.
IntervalEndFails ==
  /\ alive
  /\ cnt' = [cnt EXCEPT ![Other(curr)] = 0]
  /\ thr_id' = [b \in Buffers |-> thr_id[curr]]
  /\ curr' = Other(curr) /\ data' = curr
  /\ tca' = FALSE /\ alert' = FALSE /\ steady' = TRUE
  /\ hist_exact' = exact /\ exact' = 0
  /\ mixed' = mixed \ {Other(curr)}
  /\ UNCHANGED <<hw, alive, fresh, abs, thr, last>>

\* set_action_handle with the Threshold Data pointer t: the new attributes are those
\* of me->data with t; default_me_update puts t's threshold in force, pm_me_thr_set,
\* which reads the current interval and leaves me->data there, that of the old pointer
\* again; then the new attributes are written to me->data.
ThrSet(t) ==
  /\ alive
  /\ thr_id[data] # t
  /\ thr' = thr_id[curr]
  /\ data' = curr
  /\ cnt' = [cnt EXCEPT ![curr] = cnt[data]]
  /\ thr_id' = [thr_id EXCEPT ![curr] = t]
  /\ mixed' = IF data = curr THEN mixed ELSE mixed \cup {curr}
  /\ steady' = (steady /\ data = curr /\ thr' = thr)
  /\ UNCHANGED <<hw, alive, fresh, abs, curr, tca, last, exact, hist_exact, alert>>

\* create_action_handle: mib_me_create with pm_me_add and default_me_init.
Create(t) == ~alive /\ alive' = TRUE /\ Fresh(t) /\ UNCHANGED hw

\* mib_me_delete, pm_me_remove, pm_me_context_free: the history and me->data are freed.
\* When both are one buffer omcid is ended by its allocator: the entity is gone too.
Delete == alive /\ alive' = FALSE /\ Fresh(0) /\ UNCHANGED hw

Next ==
  \/ HwCounts \/ PmThread \/ GetData \/ IntervalEnd \/ IntervalEndFails \/ Delete
  \/ \E t \in Thresholds \cup {0} : Create(t) \/ ThrSet(t)

Spec == Init /\ [][Next]_vars

-----------------------------------------------------------------------------
(* Properties.                                                             *)

\* The variables keep their types.
TypeOK ==
  /\ hw \in Nat /\ alive \in BOOLEAN /\ fresh \in BOOLEAN
  /\ abs \in 0 .. Mod - 1 /\ last \in Nat
  /\ cnt \in [Buffers -> 0 .. Mod - 1] /\ thr_id \in [Buffers -> Thresholds \cup {0}]
  /\ curr \in Buffers /\ data \in Buffers
  /\ thr \in Thresholds \cup {0} /\ tca \in BOOLEAN
  /\ exact \in Nat /\ hist_exact \in Nat
  /\ mixed \subseteq Buffers /\ steady \in BOOLEAN /\ alert \in BOOLEAN

AtMost(n) == IF n < Mod THEN n ELSE Mod - 1

\* The current interval shows the events that were read in it, or the largest value
\* where there were more, however the reads fall and the counter goes round, unless
\* a SET came while me->data pointed to the history.
CountIsExact == curr \notin mixed => cnt[curr] = AtMost(exact)

\* The history shows all events of the interval before, to its very end.
HistoryIsExact == Other(curr) \notin mixed => cnt[Other(curr)] = AtMost(hist_exact)

\* In an interval that began with a cleared tca_bitmap, and in which the threshold did
\* not change, the alert has been sent when and only when more events were read than
\* the threshold allows.
AlertIsExact == steady => (alert <=> thr # 0 /\ AtMost(exact) > thr)
=============================================================================
