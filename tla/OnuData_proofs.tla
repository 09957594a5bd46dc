--------------------------- MODULE OnuData_proofs ---------------------------
(***************************************************************************)
(* Theorems about the copies of the MIB, of the alarms and of tables, for  *)
(* any number of tables, slots, revisions and timeout events.              *)
(***************************************************************************)
EXTENDS OnuData, TLAPS

-----------------------------------------------------------------------------
(* The list of timeout events.                                             *)

\* No event has an identifier that is still to be given out.
ListIdsUsed == \A e \in timeout_list : e.id <= last_timeout_id

\* A renewal replaces the old event by one with a fresh identifier.
LEMMA RenewFacts ==
  ASSUME TimerTypeOK, ListIdsUsed,
         NEW old, NEW owner \in Owners, NEW time \in Nat, Renew(old, owner, time)
  PROVE  /\ TimerTypeOK' /\ ListIdsUsed'
         /\ NewId \in 1 .. MaxIds /\ NewId = last_timeout_id + 1 /\ last_timeout_id' = NewId
         /\ thr' = thr /\ picked' = picked
         /\ \A e \in timeout_list' : \/ e \in timeout_list /\ e.id # old
                                     \/ e.id = NewId /\ e.owner = owner
         /\ NewId \in Ids' /\ \A id \in Ids : id # old => id \in Ids'
<1> DEFINE new == [id |-> NewId, left |-> time, owner |-> owner]
<1>1. /\ last_timeout_id \in Nat /\ MaxIds \in Nat
      /\ NewId \in 1 .. MaxIds /\ NewId = last_timeout_id + 1
  BY MaxIdsAssumption DEF Renew, CanAdd, NewId, TimerTypeOK
<1>2. new \in Event /\ new.id = NewId /\ new.owner = owner
  BY <1>1 DEF Event
<1>3. timeout_list' = {e \in timeout_list : e.id # old} \cup {new}
  BY DEF Renew, Without
<1> HIDE DEF new
<1>4. timeout_list \subseteq Event /\ timeout_list' \subseteq Event
  BY <1>2, <1>3 DEF TimerTypeOK
<1>5. last_timeout_id' = NewId /\ thr' = thr /\ picked' = picked
  BY DEF Renew
<1>6. TimerTypeOK'
  BY <1>1, <1>4, <1>5 DEF TimerTypeOK, Event
<1>7. \A e \in timeout_list : e.id \in Nat
  BY <1>4, MaxIdsAssumption DEF Event
<1>8. ListIdsUsed'
  BY <1>1, <1>2, <1>3, <1>5, <1>7 DEF ListIdsUsed
<1>9. NewId \in Ids' /\ \A id \in Ids : id # old => id \in Ids'
  <2>1. new \in timeout_list' /\ NewId = new.id
    BY <1>2, <1>3
  <2>2. Ids' = {e.id : e \in timeout_list'} /\ Ids = {e.id : e \in timeout_list}
    BY DEF Ids
  <2> QED BY <2>1, <2>2, <1>3
<1>10. \A e \in timeout_list' : \/ e \in timeout_list /\ e.id # old
                                \/ e.id = NewId /\ e.owner = owner
  BY <1>2, <1>3
<1> QED BY <1>1, <1>5, <1>6, <1>8, <1>9, <1>10

\* Removing one event leaves the others.
LEMMA CancelFacts ==
  ASSUME TimerTypeOK, ListIdsUsed, NEW old, Cancel(old)
  PROVE  /\ TimerTypeOK' /\ ListIdsUsed'
         /\ last_timeout_id' = last_timeout_id /\ thr' = thr /\ picked' = picked
         /\ \A e \in timeout_list' : e \in timeout_list /\ e.id # old
         /\ \A id \in Ids : id # old => id \in Ids'
<1>1. /\ timeout_list' = {e \in timeout_list : e.id # old}
      /\ last_timeout_id' = last_timeout_id /\ thr' = thr /\ picked' = picked
  BY DEF Cancel, Without
<1> QED BY <1>1 DEF TimerTypeOK, ListIdsUsed, Ids, Event

\* Time changes neither the identifiers nor the owners.
LEMMA TickFacts ==
  ASSUME TimerTypeOK, ListIdsUsed, TimePasses
  PROVE  /\ TimerTypeOK' /\ ListIdsUsed'
         /\ last_timeout_id' = last_timeout_id /\ thr' = thr /\ picked' = picked
         /\ \A e \in timeout_list' : \E f \in timeout_list : e.id = f.id /\ e.owner = f.owner
         /\ Ids \subseteq Ids'
<1> DEFINE Later(e) == [e EXCEPT !.left = IF @ > 0 THEN @ - 1 ELSE 0]
<1>1. \A e \in Event : Later(e) \in Event /\ Later(e).id = e.id /\ Later(e).owner = e.owner
  BY DEF Event
<1>2. /\ timeout_list' = {Later(e) : e \in timeout_list}
      /\ last_timeout_id' = last_timeout_id /\ thr' = thr /\ picked' = picked
  BY DEF TimePasses
<1> HIDE DEF Later
<1>3. timeout_list \subseteq Event
  BY DEF TimerTypeOK
<1>4. \A e \in timeout_list' : \E f \in timeout_list : e.id = f.id /\ e.owner = f.owner
  BY <1>1, <1>2, <1>3
<1>5. timeout_list' \subseteq Event
  BY <1>1, <1>2, <1>3
<1>6. Ids \subseteq Ids'
  <2> SUFFICES ASSUME NEW e \in timeout_list PROVE e.id \in Ids'
    BY DEF Ids
  <2>1. Later(e) \in timeout_list' /\ Later(e).id = e.id
    BY <1>1, <1>2, <1>3
  <2> QED BY <2>1 DEF Ids
<1>7. TimerTypeOK'
  BY <1>2, <1>5 DEF TimerTypeOK, Event
<1> QED BY <1>2, <1>4, <1>6, <1>7 DEF ListIdsUsed

-----------------------------------------------------------------------------
(* The upload.                                                             *)

\* While mib_data_sync is 0 and no reset is half done, the copy left by the last reset
\* is still the MIB: that is why an upload may announce it without copying again.
ResetInv ==
  /\ resetter = "none" <=> phase = "out"
  /\ phase # "out" => session = {}
  /\ phase = "reload" => rev < MaxRev
  /\ phase # "copy" /\ mib_data_sync = 0 /\ mib_copy.full => mib_copy.rev = rev
  /\ UploadIsAnnounced

LEMMA ResetInit == Init => ResetInv
BY DEF Init, ResetInv, UploadIsAnnounced

LEMMA ResetStep == TypeOK /\ ResetInv /\ [Next]_vars => ResetInv'
<1> SUFFICES ASSUME TypeOK, ResetInv, [Next]_vars PROVE ResetInv'
  OBVIOUS
<1> USE DEF ResetInv, UploadIsAnnounced
<1>1. /\ rev \in Nat /\ MaxRev \in Nat /\ mib_data_sync \in 0 .. SyncMax /\ SyncMax \in Nat
      /\ mib_copy \in [rev : Nat, full : BOOLEAN, timeout_id : 0 .. MaxIds]
      /\ phase \in {"out", "reload", "copy"} /\ resetter \in {"none", "event", "action"}
  BY OnuDataAssumption DEF TypeOK
<1>2. ASSUME UNCHANGED <<resetter, phase, rev, mib_data_sync, session>>,
             \/ ~mib_copy'.full
             \/ (mib_copy'.full <=> mib_copy.full) /\ mib_copy'.rev = mib_copy.rev
      PROVE  ResetInv'
  BY <1>2
<1>3. CASE Change
  <2>1. /\ phase # "reload" /\ rev' = rev + 1 /\ UNCHANGED <<resetter, phase, mib_copy, session>>
        /\ mib_data_sync' = SeqNumInc(mib_data_sync)
    BY <1>3 DEF Change, Serving, copies
  <2>2. mib_data_sync' # 0
    BY <2>1, <1>1 DEF SeqNumInc
  <2> QED BY <2>1, <2>2
<1>4. CASE MibUpload
  <2> DEFINE copy == IF mib_data_sync # 0 THEN MibCopy ELSE mib_copy
  <2>1. /\ phase # "reload" /\ copy.full /\ mib_copy' = [copy EXCEPT !.timeout_id = NewId]
        /\ session' = (IF resetter = "none" THEN {rev} ELSE {})
        /\ UNCHANGED <<resetter, phase, rev, mib_data_sync>>
    BY <1>4 DEF MibUpload, Serving
  <2>2. mib_copy'.rev = copy.rev
    BY <2>1, <1>1 DEF MibCopy
  <2>3. mib_data_sync # 0 => copy.rev = rev
    BY DEF MibCopy
  <2>4. mib_data_sync = 0 /\ phase # "copy" => copy.rev = rev
    BY <2>1
  <2> QED BY <2>1, <2>2, <2>3, <2>4, <1>1
<1>5. CASE MibUploadFails \/ ResetSkipped
  BY <1>5 DEF MibUploadFails, ResetSkipped, Serving, copies
<1>6. CASE MibUploadNext
  <2>1. /\ mib_copy' = [mib_copy EXCEPT !.timeout_id = NewId]
        /\ UNCHANGED <<resetter, phase, rev, mib_data_sync, session>>
    BY <1>6 DEF MibUploadNext, Serving
  <2> QED BY <2>1, <1>1, <1>2
<1>7. CASE \E n \in 0 .. MaxAlarms : GetAllAlarms(n)
  BY <1>2, <1>7 DEF GetAllAlarms, Serving
<1>8. CASE GetAllAlarmsNext
  BY <1>2, <1>8 DEF GetAllAlarmsNext, Serving
<1>9. CASE \E k \in Tables : GetTable(k) \/ GetTableFails(k) \/ GetNext(k)
  BY <1>2, <1>9 DEF GetTable, GetTableFails, GetNext, Serving
<1>10. ASSUME NEW t \in {"event", "action"}, ResetStart(t)
       PROVE  ResetInv'
  <2>1. /\ session' = {} /\ UNCHANGED <<rev, mib_data_sync, mib_copy>> /\ resetter = "none"
        /\ rev < MaxRev
        /\ (resetter' = t /\ phase' = "reload") \/ UNCHANGED <<resetter, phase>>
    BY <1>10 DEF ResetStart, copies
  <2> QED BY <2>1
<1>11. CASE Reset
  <2>1. CASE ResetReload
    BY <2>1, <1>1 DEF ResetReload, copies
  <2>2. CASE ResetCopy
    BY <2>2, <1>1 DEF ResetCopy, MibCopy
  <2> QED BY <2>1, <2>2, <1>11 DEF Reset
<1>12. CASE TimeoutThread
  <2>1. UNCHANGED <<resetter, phase, rev, mib_data_sync, session>>
    BY <1>12 DEF TimeoutThread, MibCopyClean, AlarmCopyClean, TblCopyClean, resetV
  <2>2. CASE MibCopyClean
    <3>1. ~mib_copy'.full
      BY <2>2 DEF MibCopyClean
    <3> QED BY <2>1, <3>1, <1>2
  <2>3. CASE ~MibCopyClean
    <3>1. mib_copy' = mib_copy
      BY <1>12, <2>3 DEF TimeoutThread, AlarmCopyClean, TblCopyClean, copies
    <3> QED BY <2>1, <3>1, <1>2
  <2> QED BY <2>2, <2>3
<1>13. CASE Tick
  BY <1>2, <1>13 DEF Tick, copies, resetV
<1>14. CASE UNCHANGED vars
  BY <1>2, <1>14 DEF vars, copies, resetV
<1> QED BY <1>3, <1>4, <1>5, <1>6, <1>7, <1>8, <1>9, <1>10, <1>11, <1>12, <1>13, <1>14 DEF Next

-----------------------------------------------------------------------------
(* The copies and their events.                                            *)

\* A slot's key stays when its copy is dropped, and no two slots have the same one; a
\* slot without a copy remembers no event.
SlotInv ==
  /\ \A i, j \in Slots :
       tbl_copy[i].key \in Tables /\ tbl_copy[i].key = tbl_copy[j].key => i = j
  /\ \A i \in Slots : IF tbl_copy[i].valid THEN tbl_copy[i].key \in Tables
                      ELSE ~tbl_copy[i].full /\ tbl_copy[i].timeout_id = 0

\* The identifiers that copies remember and that the timeout thread holds were given out.
IdInv ==
  /\ ListIdsUsed
  /\ \A p \in picked : p.id <= last_timeout_id
  /\ mib_copy.timeout_id <= last_timeout_id /\ alarm_copy.timeout_id <= last_timeout_id
  /\ \A i \in Slots : tbl_copy[i].timeout_id <= last_timeout_id

\* A copy with contents has an event ...
KeptInv ==
  /\ alarm_copy.num > 0 => alarm_copy.timeout_id \in Ids
  /\ \A i \in Slots : tbl_copy[i].full => tbl_copy[i].timeout_id \in Ids

\* ... and when the timeout thread is about to remove that event, its handler, which
\* drops the copy, has not run yet.
PickedInv ==
  /\ \A p, q \in picked : p = q
  /\ \A p \in picked :
       /\ p.id = alarm_copy.timeout_id => thr = "run" /\ p.owner = "alarm"
       /\ \A i \in Slots : tbl_copy[i].full /\ p.id = tbl_copy[i].timeout_id =>
                             thr = "run" /\ p.owner = tbl_copy[i].key

CopyInv == SlotInv /\ IdInv /\ KeptInv /\ PickedInv /\ EventsAreOwn

\* As keys are unique, GET NEXT finds a copy exactly if it is valid.
LEMMA FindFacts ==
  ASSUME SlotInv, NEW k \in Tables, NEW i \in Slots
  PROVE  Find(k, i) <=> tbl_copy[i].key = k /\ tbl_copy[i].valid
<1>1. Slots \subseteq Nat
  BY OnuDataAssumption DEF Slots
<1> QED BY <1>1 DEF Find, SlotInv

\* The types in a form that the steps below use.
LEMMA CopyTypes ==
  ASSUME TypeOK
  PROVE  /\ TimerTypeOK /\ last_timeout_id \in Nat /\ MaxIds \in Nat
         /\ \A e \in timeout_list \cup picked : e.id \in 1 .. MaxIds /\ e.owner \in Owners
         /\ \A id \in Ids : id \in 1 .. MaxIds
         /\ mib_copy.timeout_id \in Nat /\ alarm_copy.timeout_id \in Nat /\ alarm_copy.num \in Nat
         /\ \A i \in Slots : tbl_copy[i].timeout_id \in Nat
<1>1. /\ TimerTypeOK /\ last_timeout_id \in Nat /\ MaxIds \in Nat
      /\ timeout_list \subseteq Event /\ picked \subseteq Event
  BY MaxIdsAssumption DEF TypeOK, TimerTypeOK
<1>2. \A e \in Event : e.id \in 1 .. MaxIds /\ e.owner \in Owners
  BY DEF Event
<1>3. \A id \in Ids : id \in 1 .. MaxIds
  BY <1>1, <1>2 DEF Ids
<1>4. mib_copy.timeout_id \in Nat /\ alarm_copy.timeout_id \in Nat /\ alarm_copy.num \in Nat
  BY <1>1, OnuDataAssumption DEF TypeOK
<1>5. \A i \in Slots : tbl_copy[i].timeout_id \in Nat
  BY <1>1 DEF TypeOK
<1> QED BY <1>1, <1>2, <1>3, <1>4, <1>5

LEMMA CopyInit == Init => CopyInv
<1> SUFFICES ASSUME Init PROVE CopyInv
  OBVIOUS
<1>1. /\ timeout_list = {} /\ picked = {} /\ last_timeout_id = 0
      /\ mib_copy.timeout_id = 0 /\ alarm_copy = [num |-> 0, timeout_id |-> 0]
  BY DEF Init, TimerInit
<1>2. \A i \in Slots : /\ tbl_copy[i].key = NoTable /\ ~tbl_copy[i].valid /\ ~tbl_copy[i].full
                       /\ tbl_copy[i].timeout_id = 0
  BY DEF Init
<1>3. SlotInv
  BY <1>2, OnuDataAssumption DEF SlotInv
<1> QED BY <1>1, <1>2, <1>3 DEF CopyInv, IdInv, ListIdsUsed, KeptInv, PickedInv, EventsAreOwn

\* Events of different copies differ: an identifier that two of them remember names no event.
LEMMA EventsDiffer ==
  ASSUME TypeOK, CopyInv
  PROVE  /\ alarm_copy.timeout_id \in Ids => alarm_copy.timeout_id # mib_copy.timeout_id
         /\ \A i \in Slots : tbl_copy[i].full =>
              /\ tbl_copy[i].timeout_id # mib_copy.timeout_id
              /\ tbl_copy[i].timeout_id # alarm_copy.timeout_id
              /\ \A j \in Slots : tbl_copy[i].timeout_id = tbl_copy[j].timeout_id => i = j
<1>1. alarm_copy.timeout_id \in Ids => alarm_copy.timeout_id # mib_copy.timeout_id
  BY DEF CopyInv, EventsAreOwn, Ids
<1>2. ASSUME NEW i \in Slots, tbl_copy[i].full
      PROVE  /\ tbl_copy[i].timeout_id # mib_copy.timeout_id
             /\ tbl_copy[i].timeout_id # alarm_copy.timeout_id
             /\ \A j \in Slots : tbl_copy[i].timeout_id = tbl_copy[j].timeout_id => i = j
  <2>1. tbl_copy[i].key \in Tables
    BY <1>2 DEF CopyInv, SlotInv
  <2>2. PICK e \in timeout_list : e.id = tbl_copy[i].timeout_id
    BY <1>2 DEF CopyInv, KeptInv, Ids
  <2>3. e.owner = tbl_copy[i].key
    BY <2>2 DEF CopyInv, EventsAreOwn
  <2>4. e.owner # "mib" /\ e.owner # "alarm"
    BY <2>1, <2>3, OnuDataAssumption
  <2>5. e.id # mib_copy.timeout_id /\ e.id # alarm_copy.timeout_id
    BY <2>4 DEF CopyInv, EventsAreOwn
  <2>6. ASSUME NEW j \in Slots, tbl_copy[i].timeout_id = tbl_copy[j].timeout_id
        PROVE  i = j
    <3>1. tbl_copy[j].key = tbl_copy[i].key
      BY <2>2, <2>3, <2>6 DEF CopyInv, EventsAreOwn
    <3> QED BY <2>1, <3>1 DEF CopyInv, SlotInv
  <2> QED BY <2>2, <2>5, <2>6
<1> QED BY <1>1, <1>2

\* The copy of the MIB gets a new event.
LEMMA MibRenewed ==
  ASSUME TypeOK, CopyInv, Renew(mib_copy.timeout_id, "mib", CopyTime),
         mib_copy'.timeout_id = NewId, UNCHANGED <<alarm_copy, tbl_copy>>
  PROVE  TimerTypeOK' /\ CopyInv'
<1> DEFINE old == mib_copy.timeout_id
<1>1. /\ TimerTypeOK' /\ ListIdsUsed'
      /\ NewId = last_timeout_id + 1 /\ last_timeout_id' = NewId
      /\ thr' = thr /\ picked' = picked
      /\ \A e \in timeout_list' : \/ e \in timeout_list /\ e.id # old
                                  \/ e.id = NewId /\ e.owner = "mib"
      /\ \A id \in Ids : id # old => id \in Ids'
  <2>1. TimerTypeOK /\ ListIdsUsed /\ "mib" \in Owners /\ CopyTime \in Nat
    BY CopyTypes, OnuDataAssumption DEF CopyInv, IdInv
  <2> QED BY <2>1, RenewFacts
<1>2. last_timeout_id \in Nat
  BY CopyTypes
<1>3. SlotInv'
  BY DEF CopyInv, SlotInv
<1>4. IdInv'
  BY <1>1, <1>2, CopyTypes DEF CopyInv, IdInv
<1>5. KeptInv'
  BY <1>1, EventsDiffer DEF CopyInv, KeptInv
<1>6. PickedInv'
  BY <1>1 DEF CopyInv, PickedInv
<1>7. EventsAreOwn'
  <2> SUFFICES ASSUME NEW e \in timeout_list'
               PROVE  /\ e.id = mib_copy'.timeout_id => e.owner = "mib"
                      /\ e.id = alarm_copy.timeout_id => e.owner = "alarm"
                      /\ \A i \in Slots : e.id = tbl_copy[i].timeout_id =>
                                            e.owner = tbl_copy[i].key
    BY DEF EventsAreOwn
  <2>1. CASE e \in timeout_list
    <3>1. e.id # NewId
      BY <2>1, <1>1, <1>2, CopyTypes DEF CopyInv, IdInv, ListIdsUsed
    <3> QED BY <2>1, <3>1 DEF CopyInv, EventsAreOwn
  <2>2. CASE e.id = NewId /\ e.owner = "mib"
    <3>1. alarm_copy.timeout_id # NewId /\ \A i \in Slots : tbl_copy[i].timeout_id # NewId
      BY <1>1, <1>2, CopyTypes DEF CopyInv, IdInv
    <3> QED BY <2>2, <3>1
  <2> QED BY <2>1, <2>2, <1>1
<1> QED BY <1>1, <1>3, <1>4, <1>5, <1>6, <1>7 DEF CopyInv

\* The copy of the alarms gets a new event.
LEMMA AlarmRenewed ==
  ASSUME TypeOK, CopyInv, Renew(alarm_copy.timeout_id, "alarm", CopyTime),
         alarm_copy'.timeout_id = NewId, UNCHANGED <<mib_copy, tbl_copy>>
  PROVE  TimerTypeOK' /\ CopyInv'
<1> DEFINE old == alarm_copy.timeout_id
<1>1. /\ TimerTypeOK' /\ ListIdsUsed'
      /\ NewId = last_timeout_id + 1 /\ last_timeout_id' = NewId
      /\ thr' = thr /\ picked' = picked
      /\ \A e \in timeout_list' : \/ e \in timeout_list /\ e.id # old
                                  \/ e.id = NewId /\ e.owner = "alarm"
      /\ NewId \in Ids' /\ \A id \in Ids : id # old => id \in Ids'
  <2>1. TimerTypeOK /\ ListIdsUsed /\ "alarm" \in Owners /\ CopyTime \in Nat
    BY CopyTypes, OnuDataAssumption DEF CopyInv, IdInv
  <2> QED BY <2>1, RenewFacts
<1>2. last_timeout_id \in Nat
  BY CopyTypes
<1>3. SlotInv'
  BY DEF CopyInv, SlotInv
<1>4. IdInv'
  BY <1>1, <1>2, CopyTypes DEF CopyInv, IdInv
<1>5. KeptInv'
  BY <1>1, EventsDiffer DEF CopyInv, KeptInv
<1>6. PickedInv'
  <2>1. \A p \in picked : p.id # NewId
    BY <1>1, <1>2, CopyTypes DEF CopyInv, IdInv
  <2> QED BY <1>1, <2>1 DEF CopyInv, PickedInv
<1>7. EventsAreOwn'
  <2> SUFFICES ASSUME NEW e \in timeout_list'
               PROVE  /\ e.id = mib_copy.timeout_id => e.owner = "mib"
                      /\ e.id = alarm_copy'.timeout_id => e.owner = "alarm"
                      /\ \A i \in Slots : e.id = tbl_copy[i].timeout_id =>
                                            e.owner = tbl_copy[i].key
    BY DEF EventsAreOwn
  <2>1. CASE e \in timeout_list
    <3>1. e.id # NewId
      BY <2>1, <1>1, <1>2, CopyTypes DEF CopyInv, IdInv, ListIdsUsed
    <3> QED BY <2>1, <3>1 DEF CopyInv, EventsAreOwn
  <2>2. CASE e.id = NewId /\ e.owner = "alarm"
    <3>1. mib_copy.timeout_id # NewId /\ \A i \in Slots : tbl_copy[i].timeout_id # NewId
      BY <1>1, <1>2, CopyTypes DEF CopyInv, IdInv
    <3> QED BY <2>2, <3>1
  <2> QED BY <2>1, <2>2, <1>1
<1> QED BY <1>1, <1>3, <1>4, <1>5, <1>6, <1>7 DEF CopyInv

\* Slot i gets a copy of table k, with a new event: its key was k already, or no slot had it.
LEMMA SlotRenewed ==
  ASSUME TypeOK, CopyInv, NEW k \in Tables, NEW i \in Slots,
         Renew(tbl_copy[i].timeout_id, k, CopyTime), UNCHANGED <<mib_copy, alarm_copy>>,
         tbl_copy[i].key = k \/ \A j \in Slots : tbl_copy[j].key # k,
         tbl_copy'[i].key = k, tbl_copy'[i].valid, tbl_copy'[i].timeout_id = NewId,
         \A j \in Slots : j # i => tbl_copy'[j] = tbl_copy[j]
  PROVE  TimerTypeOK' /\ CopyInv'
<1> DEFINE old == tbl_copy[i].timeout_id
<1>1. /\ TimerTypeOK' /\ ListIdsUsed'
      /\ NewId = last_timeout_id + 1 /\ last_timeout_id' = NewId
      /\ thr' = thr /\ picked' = picked
      /\ \A e \in timeout_list' : \/ e \in timeout_list /\ e.id # old
                                  \/ e.id = NewId /\ e.owner = k
      /\ NewId \in Ids' /\ \A id \in Ids : id # old => id \in Ids'
  <2>1. TimerTypeOK /\ ListIdsUsed /\ k \in Owners /\ CopyTime \in Nat
    BY CopyTypes, OnuDataAssumption DEF CopyInv, IdInv
  <2> QED BY <2>1, RenewFacts
<1>2. last_timeout_id \in Nat
  BY CopyTypes
<1>3. SlotInv'
  BY DEF CopyInv, SlotInv
<1>4. IdInv'
  BY <1>1, <1>2, CopyTypes DEF CopyInv, IdInv
<1>5. KeptInv'
  <2>1. alarm_copy.num > 0 => alarm_copy.timeout_id \in Ids'
    <3> SUFFICES ASSUME alarm_copy.num > 0 PROVE alarm_copy.timeout_id \in Ids'
      OBVIOUS
    <3>1. PICK e \in timeout_list : e.id = alarm_copy.timeout_id
      BY DEF CopyInv, KeptInv, Ids
    <3>2. e.owner = "alarm" /\ e.id \in Ids /\ e.id # 0
      BY <3>1, CopyTypes DEF CopyInv, EventsAreOwn, Ids
    <3>3. e.id # old
      <4> SUFFICES ASSUME e.id = old PROVE FALSE
        OBVIOUS
      <4>1. tbl_copy[i].key \in Tables
        BY <3>2 DEF CopyInv, SlotInv
      <4> QED BY <3>2, <4>1, OnuDataAssumption DEF CopyInv, EventsAreOwn
    <3> QED BY <3>1, <3>2, <3>3, <1>1
  <2>2. ASSUME NEW j \in Slots, tbl_copy'[j].full
        PROVE  tbl_copy'[j].timeout_id \in Ids'
    <3>1. CASE j = i
      BY <3>1, <1>1
    <3>2. CASE j # i
      BY <3>2, <2>2, <1>1, EventsDiffer DEF CopyInv, KeptInv
    <3> QED BY <3>1, <3>2
  <2> QED BY <2>1, <2>2 DEF KeptInv
<1>6. PickedInv'
  <2>1. \A p \in picked : p.id # NewId
    BY <1>1, <1>2, CopyTypes DEF CopyInv, IdInv
  <2> QED BY <1>1, <2>1 DEF CopyInv, PickedInv
<1>7. EventsAreOwn'
  <2> SUFFICES ASSUME NEW e \in timeout_list'
               PROVE  /\ e.id = mib_copy.timeout_id => e.owner = "mib"
                      /\ e.id = alarm_copy.timeout_id => e.owner = "alarm"
                      /\ \A j \in Slots : e.id = tbl_copy'[j].timeout_id =>
                                            e.owner = tbl_copy'[j].key
    BY DEF EventsAreOwn
  <2>1. CASE e \in timeout_list
    <3>1. e.id # NewId
      BY <2>1, <1>1, <1>2, CopyTypes DEF CopyInv, IdInv, ListIdsUsed
    <3> QED BY <2>1, <3>1 DEF CopyInv, EventsAreOwn
  <2>2. CASE e.id = NewId /\ e.owner = k
    <3>1. /\ mib_copy.timeout_id # NewId /\ alarm_copy.timeout_id # NewId
          /\ \A j \in Slots : tbl_copy[j].timeout_id # NewId
      BY <1>1, <1>2, CopyTypes DEF CopyInv, IdInv
    <3> QED BY <2>2, <3>1
  <2> QED BY <2>1, <2>2, <1>1
<1> QED BY <1>1, <1>3, <1>4, <1>5, <1>6, <1>7 DEF CopyInv

\* me_tbl_copy_empty_get gives a key no second slot.
LEMMA EmptyGetFacts ==
  ASSUME NEW k \in Tables, NEW i \in Slots, EmptyGet(k, i)
  PROVE  tbl_copy[i].key = k \/ \A j \in Slots : tbl_copy[j].key # k
BY DEF EmptyGet, IsLeast

\* A table whose copying fails keeps its slot, without contents.
LEMMA SlotFails ==
  ASSUME TypeOK, CopyInv, NEW k \in Tables, GetTableFails(k)
  PROVE  TypeOK' /\ CopyInv'
<1>1. /\ UNCHANGED <<rev, mib_data_sync, mib_copy, alarm_copy, session, resetter, phase>>
      /\ late' = FALSE
  BY DEF GetTableFails, Serving
<1>2. PICK i \in Slots :
        /\ EmptyGet(k, i)
        /\ IF tbl_copy[i].valid /\ tbl_copy[i].key # k
             THEN Cancel(tbl_copy[i].timeout_id) ELSE UNCHANGED timerV
        /\ tbl_copy' = [tbl_copy EXCEPT ![i].key = k, ![i].valid = TRUE, ![i].full = FALSE]
  BY DEF GetTableFails
<1> DEFINE old == tbl_copy[i].timeout_id
           Slot == [key : Tables \cup {NoTable}, valid : BOOLEAN, full : BOOLEAN,
                    timeout_id : 0 .. MaxIds]
<1>3. tbl_copy \in [Slots -> Slot]
  BY DEF TypeOK
<1>4. /\ tbl_copy'[i].key = k /\ tbl_copy'[i].valid /\ ~tbl_copy'[i].full
      /\ tbl_copy'[i].timeout_id = old
      /\ \A j \in Slots : j # i => tbl_copy'[j] = tbl_copy[j]
      /\ tbl_copy' \in [Slots -> Slot]
  <2>1. PICK s \in Slot : s = tbl_copy[i]
    BY <1>3
  <2>2. PICK r : r = [s EXCEPT !.key = k, !.valid = TRUE, !.full = FALSE]
    OBVIOUS
  <2>3. r \in Slot /\ r.key = k /\ r.valid /\ ~r.full /\ r.timeout_id = s.timeout_id
    BY <2>2
  <2>4. tbl_copy' = [tbl_copy EXCEPT ![i] = r]
    BY <1>2, <1>3, <2>1, <2>2
  <2> HIDE DEF Slot
  <2> QED BY <1>3, <2>1, <2>3, <2>4
<1>5. tbl_copy[i].key = k \/ \A j \in Slots : tbl_copy[j].key # k
  BY <1>2, EmptyGetFacts
<1>6. /\ TimerTypeOK' /\ ListIdsUsed'
      /\ last_timeout_id' = last_timeout_id /\ thr' = thr /\ picked' = picked
      /\ \A e \in timeout_list' : e \in timeout_list
      /\ tbl_copy[i].valid /\ tbl_copy[i].key # k => \A e \in timeout_list' : e.id # old
      /\ \A id \in Ids : id # old \/ tbl_copy[i].key = k => id \in Ids'
  <2>1. TimerTypeOK /\ ListIdsUsed
    BY CopyTypes DEF CopyInv, IdInv
  <2>2. CASE tbl_copy[i].valid /\ tbl_copy[i].key # k
    <3>1. Cancel(old)
      BY <1>2, <2>2
    <3> QED BY <2>1, <2>2, <3>1, CancelFacts
  <2>3. CASE ~(tbl_copy[i].valid /\ tbl_copy[i].key # k)
    <3>1. UNCHANGED <<timeout_list, last_timeout_id, thr, picked>>
      BY <1>2, <2>3 DEF timerV
    <3> QED BY <2>1, <2>3, <3>1 DEF TimerTypeOK, Event, ListIdsUsed, Ids
  <2> QED BY <2>2, <2>3
<1>7. TypeOK'
  BY <1>1, <1>4, <1>6 DEF TypeOK
<1>8. SlotInv'
  BY <1>4, <1>5 DEF CopyInv, SlotInv
<1>9. IdInv'
  BY <1>1, <1>4, <1>6 DEF CopyInv, IdInv
<1>10. KeptInv'
  <2>1. alarm_copy.num > 0 => alarm_copy.timeout_id \in Ids'
    <3> SUFFICES ASSUME alarm_copy.num > 0 PROVE alarm_copy.timeout_id \in Ids'
      OBVIOUS
    <3>1. PICK e \in timeout_list : e.id = alarm_copy.timeout_id
      BY DEF CopyInv, KeptInv, Ids
    <3>2. e.owner = "alarm" /\ e.id \in Ids /\ e.id # 0
      BY <3>1, CopyTypes DEF CopyInv, EventsAreOwn, Ids
    <3>3. e.id # old
      <4> SUFFICES ASSUME e.id = old PROVE FALSE
        OBVIOUS
      <4>1. tbl_copy[i].key \in Tables
        BY <3>2 DEF CopyInv, SlotInv
      <4> QED BY <3>2, <4>1, OnuDataAssumption DEF CopyInv, EventsAreOwn
    <3> QED BY <3>1, <3>2, <3>3, <1>6
  <2>2. ASSUME NEW j \in Slots, tbl_copy'[j].full
        PROVE  tbl_copy'[j].timeout_id \in Ids'
    <3>1. j # i /\ tbl_copy'[j] = tbl_copy[j]
      BY <2>2, <1>4
    <3>2. tbl_copy[j].timeout_id \in Ids /\ tbl_copy[j].timeout_id # old
      BY <3>1, <2>2, EventsDiffer DEF CopyInv, KeptInv
    <3> QED BY <3>1, <3>2, <1>6
  <2> QED BY <2>1, <2>2, <1>1 DEF KeptInv
<1>11. PickedInv'
  BY <1>1, <1>4, <1>6 DEF CopyInv, PickedInv
<1>12. EventsAreOwn'
  <2> SUFFICES ASSUME NEW e \in timeout_list', NEW j \in Slots, e.id = tbl_copy'[j].timeout_id
               PROVE  e.owner = tbl_copy'[j].key
    BY <1>1, <1>6 DEF CopyInv, EventsAreOwn
  <2>1. CASE j # i
    BY <2>1, <1>4, <1>6 DEF CopyInv, EventsAreOwn
  <2>2. CASE j = i
    <3>1. e \in timeout_list /\ e.id = old /\ e.id # 0
      BY <2>2, <1>4, <1>6, CopyTypes
    <3>2. tbl_copy[i].key = k
      BY <3>1, <1>6 DEF CopyInv, SlotInv
    <3> QED BY <2>2, <3>1, <3>2, <1>4 DEF CopyInv, EventsAreOwn
  <2> QED BY <2>1, <2>2
<1> QED BY <1>7, <1>8, <1>9, <1>10, <1>11, <1>12 DEF CopyInv

\* GET and GET NEXT of a table.
LEMMA TableStep ==
  ASSUME TypeOK, CopyInv, NEW k \in Tables, GetTable(k) \/ GetTableFails(k) \/ GetNext(k)
  PROVE  TypeOK' /\ CopyInv'
<1> DEFINE Slot == [key : Tables \cup {NoTable}, valid : BOOLEAN, full : BOOLEAN,
                    timeout_id : 0 .. MaxIds]
<1>1. tbl_copy \in [Slots -> Slot]
  BY DEF TypeOK
<1>2. CASE GetTable(k)
  <2>1. /\ UNCHANGED <<rev, mib_data_sync, mib_copy, alarm_copy, session, resetter, phase>>
        /\ late' = FALSE
    BY <1>2 DEF GetTable, Serving
  <2>2. PICK i \in Slots :
          /\ EmptyGet(k, i)
          /\ Renew(tbl_copy[i].timeout_id, k, CopyTime)
          /\ tbl_copy' = [tbl_copy EXCEPT ![i] = [key |-> k, valid |-> TRUE, full |-> TRUE,
                                                  timeout_id |-> NewId]]
    BY <1>2 DEF GetTable
  <2>3. tbl_copy[i].key = k \/ \A j \in Slots : tbl_copy[j].key # k
    BY <2>2, EmptyGetFacts
  <2>4. NewId \in 0 .. MaxIds
    BY <2>2, CopyTypes DEF Renew, CanAdd, NewId
  <2>5. /\ tbl_copy'[i].key = k /\ tbl_copy'[i].valid /\ tbl_copy'[i].timeout_id = NewId
        /\ \A j \in Slots : j # i => tbl_copy'[j] = tbl_copy[j]
        /\ tbl_copy' \in [Slots -> Slot]
    BY <2>2, <2>4, <1>1
  <2>6. TimerTypeOK' /\ CopyInv'
    BY <2>1, <2>2, <2>3, <2>5, SlotRenewed
  <2> QED BY <2>1, <2>5, <2>6 DEF TypeOK
<1>3. CASE GetNext(k)
  <2>1. /\ UNCHANGED <<rev, mib_data_sync, mib_copy, alarm_copy, session, resetter, phase>>
        /\ late' = FALSE
    BY <1>3 DEF GetNext, Serving
  <2>2. PICK i \in Slots :
          /\ Find(k, i) /\ tbl_copy[i].full
          /\ Renew(tbl_copy[i].timeout_id, k, CopyTime)
          /\ tbl_copy' = [tbl_copy EXCEPT ![i].timeout_id = NewId]
    BY <1>3 DEF GetNext
  <2>3. tbl_copy[i].key = k /\ tbl_copy[i].valid
    BY <2>2 DEF Find
  <2>4. NewId \in 0 .. MaxIds
    BY <2>2, CopyTypes DEF Renew, CanAdd, NewId
  <2>5. /\ tbl_copy'[i].key = k /\ tbl_copy'[i].valid /\ tbl_copy'[i].timeout_id = NewId
        /\ \A j \in Slots : j # i => tbl_copy'[j] = tbl_copy[j]
        /\ tbl_copy' \in [Slots -> Slot]
    BY <2>2, <2>3, <2>4, <1>1
  <2>6. TimerTypeOK' /\ CopyInv'
    BY <2>1, <2>2, <2>3, <2>5, SlotRenewed
  <2> QED BY <2>1, <2>5, <2>6 DEF TypeOK
<1> QED BY <1>2, <1>3, SlotFails

\* The steps of the timeout thread, and time.
LEMMA TimeoutStep ==
  ASSUME TypeOK, CopyInv, TimeoutThread \/ Tick
  PROVE  TypeOK' /\ CopyInv'
<1> DEFINE Slot == [key : Tables \cup {NoTable}, valid : BOOLEAN, full : BOOLEAN,
                    timeout_id : 0 .. MaxIds]
<1>0. /\ TimerTypeOK /\ ListIdsUsed /\ tbl_copy \in [Slots -> Slot]
      /\ timeout_list \subseteq Event /\ picked \subseteq Event
  BY DEF TypeOK, TimerTypeOK, CopyInv, IdInv
<1>1. CASE Tick
  <2>1. TimePasses /\ UNCHANGED <<rev, mib_data_sync, mib_copy, alarm_copy, tbl_copy,
                                  resetter, phase, late, session>>
    BY <1>1 DEF Tick, copies, resetV
  <2>2. /\ TimerTypeOK' /\ ListIdsUsed'
        /\ last_timeout_id' = last_timeout_id /\ thr' = thr /\ picked' = picked
        /\ \A e \in timeout_list' : \E f \in timeout_list : e.id = f.id /\ e.owner = f.owner
        /\ Ids \subseteq Ids'
    BY <1>0, <2>1, TickFacts
  <2>3. TypeOK'
    BY <2>1, <2>2 DEF TypeOK
  <2>4. EventsAreOwn'
    <3> SUFFICES ASSUME NEW e \in timeout_list'
                 PROVE  /\ e.id = mib_copy.timeout_id => e.owner = "mib"
                        /\ e.id = alarm_copy.timeout_id => e.owner = "alarm"
                        /\ \A i \in Slots : e.id = tbl_copy[i].timeout_id =>
                                              e.owner = tbl_copy[i].key
      BY <2>1 DEF EventsAreOwn
    <3>1. PICK f \in timeout_list : e.id = f.id /\ e.owner = f.owner
      BY <2>2
    <3> QED BY <3>1 DEF CopyInv, EventsAreOwn
  <2>5. SlotInv' /\ IdInv' /\ KeptInv' /\ PickedInv'
    BY <2>1, <2>2 DEF CopyInv, SlotInv, IdInv, KeptInv, PickedInv
  <2> QED BY <2>3, <2>4, <2>5 DEF CopyInv
<1>2. CASE Pick /\ UNCHANGED <<rev, mib_data_sync, copies, resetV, session>>
  <2>1. UNCHANGED <<rev, mib_data_sync, mib_copy, alarm_copy, tbl_copy, resetter, phase, late,
                    session, timeout_list, last_timeout_id>>
    BY <1>2 DEF Pick, copies, resetV
  <2>2. PICK e \in timeout_list : picked' = {e} /\ thr' = "run"
    BY <1>2 DEF Pick
  <2>3. TypeOK'
    BY <1>0, <2>1, <2>2 DEF TypeOK, TimerTypeOK, Event
  <2>4. PickedInv'
    <3> SUFFICES ASSUME TRUE
                 PROVE  /\ e.id = alarm_copy.timeout_id => e.owner = "alarm"
                        /\ \A i \in Slots : e.id = tbl_copy[i].timeout_id =>
                                              e.owner = tbl_copy[i].key
      BY <2>1, <2>2 DEF PickedInv
    <3> QED BY DEF CopyInv, EventsAreOwn
  <2>5. IdInv'
    BY <2>1, <2>2 DEF CopyInv, IdInv, ListIdsUsed
  <2>6. SlotInv' /\ KeptInv' /\ EventsAreOwn'
    BY <2>1 DEF CopyInv, SlotInv, KeptInv, EventsAreOwn, Ids
  <2> QED BY <2>3, <2>4, <2>5, <2>6 DEF CopyInv
<1>3. ASSUME NEW o, HandlerRan(o)
      PROVE  /\ UNCHANGED <<timeout_list, last_timeout_id, picked>>
             /\ thr = "run" /\ thr' = "remove" /\ \E e \in picked : e.owner = o
             /\ TimerTypeOK'
  BY <1>0, <1>3 DEF HandlerRan, TimerTypeOK, Event
<1>4. \A p, q \in picked : p = q
  BY DEF CopyInv, PickedInv
<1>5. \A p \in picked : p.id # 0
  BY CopyTypes
<1>6. CASE MibCopyClean
  <2>1. /\ UNCHANGED <<rev, mib_data_sync, alarm_copy, tbl_copy, resetter, phase, late, session>>
        /\ HandlerRan("mib")
    BY <1>6 DEF MibCopyClean, resetV
  <2>2. /\ mib_copy' \in [rev : Nat, full : BOOLEAN, timeout_id : 0 .. MaxIds]
        /\ mib_copy'.timeout_id = 0
    BY <1>6, MaxIdsAssumption DEF MibCopyClean
  <2>3. /\ UNCHANGED <<timeout_list, last_timeout_id, picked>> /\ TimerTypeOK'
        /\ \A p \in picked : p.owner = "mib"
    BY <1>3, <1>4, <2>1
  <2>4. TypeOK'
    BY <2>1, <2>2, <2>3 DEF TypeOK
  <2>5. PickedInv'
    <3> SUFFICES ASSUME NEW p \in picked
                 PROVE  /\ p.id # alarm_copy.timeout_id
                        /\ \A i \in Slots : tbl_copy[i].full => p.id # tbl_copy[i].timeout_id
      BY <1>4, <2>1, <2>3 DEF PickedInv
    <3>1. p.owner = "mib"
      BY <2>3
    <3>2. \A i \in Slots : tbl_copy[i].full => tbl_copy[i].key # "mib"
      BY OnuDataAssumption DEF CopyInv, SlotInv
    <3> QED BY <3>1, <3>2 DEF CopyInv, PickedInv
  <2>6. IdInv' /\ EventsAreOwn'
    BY <2>1, <2>2, <2>3, CopyTypes DEF CopyInv, IdInv, ListIdsUsed, EventsAreOwn
  <2>7. SlotInv' /\ KeptInv'
    BY <2>1, <2>3 DEF CopyInv, SlotInv, KeptInv, Ids
  <2> QED BY <2>4, <2>5, <2>6, <2>7 DEF CopyInv
<1>7. CASE AlarmCopyClean
  <2>1. /\ UNCHANGED <<rev, mib_data_sync, mib_copy, tbl_copy, resetter, phase, late, session>>
        /\ HandlerRan("alarm")
    BY <1>7 DEF AlarmCopyClean, resetV
  <2>2. /\ alarm_copy' \in [num : 0 .. MaxAlarms, timeout_id : 0 .. MaxIds]
        /\ alarm_copy'.timeout_id = 0 /\ alarm_copy'.num = 0
    BY <1>7, MaxIdsAssumption, OnuDataAssumption DEF AlarmCopyClean
  <2>3. /\ UNCHANGED <<timeout_list, last_timeout_id, picked>> /\ TimerTypeOK'
        /\ \A p \in picked : p.owner = "alarm"
    BY <1>3, <1>4, <2>1
  <2>4. TypeOK'
    BY <2>1, <2>2, <2>3 DEF TypeOK
  <2>5. PickedInv'
    <3> SUFFICES ASSUME NEW p \in picked
                 PROVE  \A i \in Slots : tbl_copy[i].full => p.id # tbl_copy[i].timeout_id
      BY <1>4, <1>5, <2>1, <2>2, <2>3 DEF PickedInv
    <3>1. p.owner = "alarm"
      BY <2>3
    <3>2. \A i \in Slots : tbl_copy[i].full => tbl_copy[i].key # "alarm"
      BY OnuDataAssumption DEF CopyInv, SlotInv
    <3> QED BY <3>1, <3>2 DEF CopyInv, PickedInv
  <2>6. IdInv' /\ EventsAreOwn'
    BY <2>1, <2>2, <2>3, CopyTypes DEF CopyInv, IdInv, ListIdsUsed, EventsAreOwn
  <2>7. SlotInv' /\ KeptInv'
    BY <2>1, <2>2, <2>3 DEF CopyInv, SlotInv, KeptInv, Ids
  <2> QED BY <2>4, <2>5, <2>6, <2>7 DEF CopyInv
<1>8. ASSUME NEW k \in Tables, TblCopyClean(k)
      PROVE  TypeOK' /\ CopyInv'
  <2>1. /\ UNCHANGED <<rev, mib_data_sync, mib_copy, alarm_copy, resetter, phase, late, session>>
        /\ HandlerRan(k)
    BY <1>8 DEF TblCopyClean, resetV
  <2>2. /\ UNCHANGED <<timeout_list, last_timeout_id, picked>> /\ TimerTypeOK'
        /\ \A p \in picked : p.owner = k
    BY <1>3, <1>4, <2>1
  <2>3. /\ tbl_copy' \in [Slots -> Slot]
        /\ \A i \in Slots : /\ tbl_copy'[i].key = tbl_copy[i].key
                            /\ \/ tbl_copy'[i] = tbl_copy[i] /\ ~Find(k, i)
                               \/ /\ ~tbl_copy'[i].valid /\ ~tbl_copy'[i].full
                                  /\ tbl_copy'[i].timeout_id = 0
    <3> DEFINE Clean(s) == [s EXCEPT !.valid = FALSE, !.full = FALSE, !.timeout_id = 0]
    <3>1. \A s \in Slot : /\ Clean(s) \in Slot /\ Clean(s).key = s.key
                          /\ ~Clean(s).valid /\ ~Clean(s).full /\ Clean(s).timeout_id = 0
      <4> SUFFICES ASSUME NEW s \in Slot
                   PROVE  /\ Clean(s) \in Slot /\ Clean(s).key = s.key
                          /\ ~Clean(s).valid /\ ~Clean(s).full /\ Clean(s).timeout_id = 0
        OBVIOUS
      <4>1. PICK r : r = [s EXCEPT !.valid = FALSE, !.full = FALSE, !.timeout_id = 0]
        OBVIOUS
      <4>2. r.key = s.key /\ ~r.valid /\ ~r.full /\ r.timeout_id = 0
        BY <4>1
      <4>3. 0 \in 0 .. MaxIds
        BY MaxIdsAssumption
      <4>4. PICK u : u = [s EXCEPT !.valid = FALSE, !.full = FALSE]
        OBVIOUS
      <4>5. u \in Slot
        BY <4>4
      <4>6. r = [u EXCEPT !.timeout_id = 0]
        BY <4>1, <4>4
      <4>7. r \in Slot
        BY <4>3, <4>5, <4>6
      <4> QED BY <4>1, <4>2, <4>7
    <3>2. tbl_copy' = [i \in Slots |-> IF Find(k, i) THEN Clean(tbl_copy[i]) ELSE tbl_copy[i]]
      BY <1>8 DEF TblCopyClean
    <3> HIDE DEF Clean, Slot
    <3> QED BY <1>0, <3>1, <3>2
  <2>4. TypeOK'
    BY <2>1, <2>2, <2>3 DEF TypeOK
  <2>5. SlotInv'
    BY <2>3 DEF CopyInv, SlotInv
  <2>6. IdInv'
    BY <2>1, <2>2, <2>3, CopyTypes DEF CopyInv, IdInv, ListIdsUsed
  <2>7. KeptInv'
    BY <2>1, <2>2, <2>3 DEF CopyInv, KeptInv, Ids
  <2>8. PickedInv'
    <3> SUFFICES ASSUME NEW p \in picked
                 PROVE  /\ p.id # alarm_copy.timeout_id
                        /\ \A i \in Slots : tbl_copy'[i].full => p.id # tbl_copy'[i].timeout_id
      BY <1>4, <2>1, <2>2 DEF PickedInv
    <3>1. p.id # alarm_copy.timeout_id
      BY <2>2, OnuDataAssumption DEF CopyInv, PickedInv
    <3>2. ASSUME NEW i \in Slots, tbl_copy'[i].full, p.id = tbl_copy'[i].timeout_id
          PROVE  FALSE
      <4>1. tbl_copy'[i] = tbl_copy[i] /\ ~Find(k, i)
        BY <3>2, <2>3
      <4>2. tbl_copy[i].key = k /\ tbl_copy[i].valid
        BY <3>2, <4>1, <2>2 DEF CopyInv, PickedInv, SlotInv
      <4> QED BY <4>1, <4>2, FindFacts DEF CopyInv
    <3> QED BY <3>1, <3>2
  <2>9. EventsAreOwn'
    <3> SUFFICES ASSUME NEW e \in timeout_list, NEW i \in Slots, e.id = tbl_copy'[i].timeout_id
                 PROVE  e.owner = tbl_copy'[i].key
      BY <2>1, <2>2 DEF CopyInv, EventsAreOwn
    <3>1. tbl_copy'[i] = tbl_copy[i]
      BY <2>3, CopyTypes
    <3> QED BY <3>1 DEF CopyInv, EventsAreOwn
  <2> QED BY <2>4, <2>5, <2>6, <2>7, <2>8, <2>9 DEF CopyInv
<1>9. CASE RemovePicked /\ UNCHANGED <<rev, mib_data_sync, copies, resetV, session>>
  <2>1. /\ UNCHANGED <<rev, mib_data_sync, mib_copy, alarm_copy, tbl_copy, resetter, phase, late,
                       session, last_timeout_id>>
        /\ timeout_list' = {e \in timeout_list : \A p \in picked : e.id # p.id}
        /\ thr = "remove" /\ thr' = "poll" /\ picked' = {}
    BY <1>9 DEF RemovePicked, copies, resetV
  <2>2. TypeOK'
    BY <1>0, <2>1 DEF TypeOK, TimerTypeOK, Event
  <2>3. KeptInv'
    <3>1. \A id \in Ids : (\A p \in picked : id # p.id) => id \in Ids'
      BY <2>1 DEF Ids
    <3>2. alarm_copy.num > 0 => alarm_copy.timeout_id \in Ids'
      BY <2>1, <3>1 DEF CopyInv, KeptInv, PickedInv
    <3>3. \A i \in Slots : tbl_copy[i].full => tbl_copy[i].timeout_id \in Ids'
      BY <2>1, <3>1 DEF CopyInv, KeptInv, PickedInv
    <3> QED BY <2>1, <3>2, <3>3 DEF KeptInv
  <2>4. PickedInv'
    BY <2>1 DEF PickedInv
  <2>5. IdInv' /\ EventsAreOwn' /\ SlotInv'
    BY <2>1 DEF CopyInv, IdInv, ListIdsUsed, EventsAreOwn, SlotInv
  <2> QED BY <2>2, <2>3, <2>4, <2>5 DEF CopyInv
<1> QED BY <1>1, <1>2, <1>6, <1>7, <1>8, <1>9 DEF TimeoutThread

LEMMA TypeInit == Init => TypeOK
<1> SUFFICES ASSUME Init PROVE TypeOK
  OBVIOUS
<1>1. 0 \in 0 .. MaxIds /\ 0 \in 0 .. MaxRev /\ 0 \in 0 .. SyncMax /\ 0 \in 0 .. MaxAlarms
  BY MaxIdsAssumption, OnuDataAssumption
<1>2. mib_copy \in [rev : Nat, full : BOOLEAN, timeout_id : 0 .. MaxIds]
  BY <1>1 DEF Init
<1>3. alarm_copy \in [num : 0 .. MaxAlarms, timeout_id : 0 .. MaxIds]
  BY <1>1 DEF Init
<1>4. tbl_copy \in [Slots -> [key : Tables \cup {NoTable}, valid : BOOLEAN, full : BOOLEAN,
                              timeout_id : 0 .. MaxIds]]
  BY <1>1 DEF Init
<1>5. TimerTypeOK
  BY <1>1 DEF Init, TimerInit, TimerTypeOK
<1> QED BY <1>1, <1>2, <1>3, <1>4, <1>5 DEF Init, TypeOK

\* Every step keeps the types, and every copy with its event.
LEMMA CopyStep ==
  TypeOK /\ ResetInv /\ CopyInv /\ [Next]_vars => TypeOK' /\ CopyInv'
<1> SUFFICES ASSUME TypeOK, ResetInv, CopyInv, [Next]_vars PROVE TypeOK' /\ CopyInv'
  OBVIOUS
<1>0. /\ rev \in 0 .. MaxRev /\ mib_data_sync \in 0 .. SyncMax
      /\ MaxRev \in Nat /\ SyncMax \in Nat \ {0} /\ MaxAlarms \in Nat
      /\ mib_copy \in [rev : Nat, full : BOOLEAN, timeout_id : 0 .. MaxIds]
      /\ alarm_copy \in [num : 0 .. MaxAlarms, timeout_id : 0 .. MaxIds]
      /\ CanAdd => NewId \in 0 .. MaxIds
  BY OnuDataAssumption, CopyTypes DEF TypeOK, CanAdd, NewId
<1>1. ASSUME UNCHANGED <<timerV, copies>>
      PROVE  TimerTypeOK' /\ CopyInv'
  <2>1. UNCHANGED <<timeout_list, last_timeout_id, thr, picked, mib_copy, alarm_copy, tbl_copy>>
    BY <1>1 DEF timerV, copies
  <2>2. TimerTypeOK'
    BY <2>1 DEF TypeOK, TimerTypeOK, Event
  <2>3. SlotInv' /\ IdInv' /\ KeptInv' /\ PickedInv' /\ EventsAreOwn'
    BY <2>1 DEF CopyInv, SlotInv, IdInv, ListIdsUsed, KeptInv, PickedInv, EventsAreOwn, Ids
  <2> QED BY <2>2, <2>3 DEF CopyInv
<1>2. CASE Change
  <2>1. /\ UNCHANGED <<timerV, copies, session, resetter, phase>> /\ late' = FALSE
        /\ rev < MaxRev /\ rev' = rev + 1 /\ mib_data_sync' = SeqNumInc(mib_data_sync)
    BY <1>2 DEF Change, Serving
  <2>2. rev' \in 0 .. MaxRev /\ mib_data_sync' \in 0 .. SyncMax
    BY <1>0, <2>1 DEF SeqNumInc
  <2> QED BY <1>1, <2>1, <2>2 DEF TypeOK, copies
<1>3. CASE MibUpload
  <2> DEFINE copy == IF mib_data_sync # 0 THEN MibCopy ELSE mib_copy
  <2>1. /\ UNCHANGED <<rev, mib_data_sync, alarm_copy, tbl_copy, resetter, phase>> /\ late' = FALSE
        /\ Renew(mib_copy.timeout_id, "mib", CopyTime)
        /\ mib_copy' = [copy EXCEPT !.timeout_id = NewId]
        /\ session' \subseteq {rev}
    BY <1>3 DEF MibUpload, Serving
  <2>2. copy \in [rev : Nat, full : BOOLEAN, timeout_id : 0 .. MaxIds]
    <3>1. MibCopy \in [rev : Nat, full : BOOLEAN, timeout_id : 0 .. MaxIds]
      BY <1>0, MaxIdsAssumption DEF MibCopy
    <3> QED BY <1>0, <3>1
  <2>3. CanAdd
    BY <2>1 DEF Renew
  <2>4. /\ mib_copy' \in [rev : Nat, full : BOOLEAN, timeout_id : 0 .. MaxIds]
        /\ mib_copy'.timeout_id = NewId
    <3> HIDE DEF copy
    <3> QED BY <2>1, <2>2, <2>3, <1>0
  <2>5. TimerTypeOK' /\ CopyInv'
    BY <2>1, <2>4, MibRenewed
  <2>6. session' \subseteq Nat
    BY <2>1, <1>0
  <2> QED BY <2>1, <2>4, <2>5, <2>6 DEF TypeOK
<1>4. CASE MibUploadFails \/ ResetSkipped
  BY <1>1, <1>4 DEF MibUploadFails, ResetSkipped, Serving, TypeOK, copies
<1>5. CASE MibUploadNext
  <2>1. /\ UNCHANGED <<rev, mib_data_sync, alarm_copy, tbl_copy, resetter, phase, session>>
        /\ late' = FALSE
        /\ Renew(mib_copy.timeout_id, "mib", CopyTime)
        /\ mib_copy' = [mib_copy EXCEPT !.timeout_id = NewId]
    BY <1>5 DEF MibUploadNext, Serving
  <2>2. /\ mib_copy' \in [rev : Nat, full : BOOLEAN, timeout_id : 0 .. MaxIds]
        /\ mib_copy'.timeout_id = NewId
    BY <2>1, <1>0 DEF Renew
  <2>3. TimerTypeOK' /\ CopyInv'
    BY <2>1, <2>2, MibRenewed
  <2> QED BY <2>1, <2>2, <2>3 DEF TypeOK
<1>6. ASSUME NEW n \in 0 .. MaxAlarms, GetAllAlarms(n)
      PROVE  TypeOK' /\ CopyInv'
  <2>1. /\ UNCHANGED <<rev, mib_data_sync, mib_copy, tbl_copy, resetter, phase, session>>
        /\ late' = FALSE
        /\ Renew(alarm_copy.timeout_id, "alarm", CopyTime)
    BY <1>6 DEF GetAllAlarms, Serving
  <2>2. alarm_copy.timeout_id = 0 => alarm_copy.num = 0
    BY <1>0, CopyTypes DEF CopyInv, KeptInv
  <2>3. n + (IF alarm_copy.timeout_id # 0 THEN 0 ELSE alarm_copy.num) = n
    BY <2>2
  <2>4. alarm_copy' = [num |-> n, timeout_id |-> NewId]
    BY <1>6, <2>3 DEF GetAllAlarms
  <2>5. /\ alarm_copy' \in [num : 0 .. MaxAlarms, timeout_id : 0 .. MaxIds]
        /\ alarm_copy'.timeout_id = NewId
    BY <2>1, <2>4, <1>0 DEF Renew
  <2>6. TimerTypeOK' /\ CopyInv'
    BY <2>1, <2>5, AlarmRenewed
  <2> QED BY <2>1, <2>5, <2>6 DEF TypeOK
<1>7. CASE GetAllAlarmsNext
  <2>1. /\ UNCHANGED <<rev, mib_data_sync, mib_copy, tbl_copy, resetter, phase, session>>
        /\ late' = FALSE
        /\ Renew(alarm_copy.timeout_id, "alarm", CopyTime)
        /\ alarm_copy' = [alarm_copy EXCEPT !.timeout_id = NewId]
    BY <1>7 DEF GetAllAlarmsNext, Serving
  <2>2. /\ alarm_copy' \in [num : 0 .. MaxAlarms, timeout_id : 0 .. MaxIds]
        /\ alarm_copy'.timeout_id = NewId
    BY <2>1, <1>0 DEF Renew
  <2>3. TimerTypeOK' /\ CopyInv'
    BY <2>1, <2>2, AlarmRenewed
  <2> QED BY <2>1, <2>2, <2>3 DEF TypeOK
<1>8. CASE \E k \in Tables : GetTable(k) \/ GetTableFails(k) \/ GetNext(k)
  BY <1>8, TableStep
<1>9. ASSUME NEW t \in {"event", "action"}, ResetStart(t)
      PROVE  TypeOK' /\ CopyInv'
  <2>1. /\ UNCHANGED <<timerV, rev, mib_data_sync, copies>> /\ session' = {} /\ late' \in BOOLEAN
        /\ (resetter' = t /\ phase' = "reload") \/ UNCHANGED <<resetter, phase>>
    BY <1>9 DEF ResetStart
  <2> QED BY <1>1, <2>1 DEF TypeOK, copies
<1>10. CASE Reset
  <2>1. CASE ResetReload
    <3>1. /\ UNCHANGED <<timerV, copies, resetter, late, session>>
          /\ phase = "reload" /\ phase' = "copy" /\ rev' = rev + 1 /\ mib_data_sync' = 0
      BY <2>1 DEF ResetReload
    <3>2. rev' \in 0 .. MaxRev /\ mib_data_sync' \in 0 .. SyncMax
      BY <3>1, <1>0 DEF ResetInv
    <3> QED BY <1>1, <3>1, <3>2 DEF TypeOK, copies
  <2>2. CASE ResetCopy
    <3>1. /\ UNCHANGED <<rev, mib_data_sync, alarm_copy, tbl_copy, session>>
          /\ Cancel(mib_copy.timeout_id) /\ mib_copy' = MibCopy
          /\ resetter' = "none" /\ phase' = "out" /\ late' = FALSE
      BY <2>2 DEF ResetCopy
    <3>2. /\ mib_copy' \in [rev : Nat, full : BOOLEAN, timeout_id : 0 .. MaxIds]
          /\ mib_copy'.timeout_id = 0
      BY <3>1, <1>0, MaxIdsAssumption DEF MibCopy
    <3>3. /\ TimerTypeOK' /\ ListIdsUsed'
          /\ last_timeout_id' = last_timeout_id /\ thr' = thr /\ picked' = picked
          /\ \A e \in timeout_list' : e \in timeout_list
          /\ \A id \in Ids : id # mib_copy.timeout_id => id \in Ids'
      <4>1. TimerTypeOK /\ ListIdsUsed
        BY DEF TypeOK, CopyInv, IdInv
      <4> QED BY <3>1, <4>1, CancelFacts
    <3>4. TypeOK'
      BY <3>1, <3>2, <3>3 DEF TypeOK
    <3>5. KeptInv'
      BY <3>1, <3>3, EventsDiffer DEF CopyInv, KeptInv
    <3>6. EventsAreOwn' /\ IdInv'
      BY <3>1, <3>2, <3>3, CopyTypes DEF CopyInv, EventsAreOwn, IdInv
    <3>7. SlotInv' /\ PickedInv'
      BY <3>1, <3>3 DEF CopyInv, SlotInv, PickedInv
    <3> QED BY <3>4, <3>5, <3>6, <3>7 DEF CopyInv
  <2> QED BY <2>1, <2>2, <1>10 DEF Reset
<1>11. CASE TimeoutThread \/ Tick
  BY <1>11, TimeoutStep
<1>12. CASE UNCHANGED vars
  BY <1>1, <1>12 DEF vars, TypeOK, copies, resetV
<1> QED BY <1>2, <1>3, <1>4, <1>5, <1>6, <1>7, <1>8, <1>9, <1>10, <1>11, <1>12 DEF Next

LEMMA Invariant == Spec => [](TypeOK /\ ResetInv /\ CopyInv)
<1>1. Init => TypeOK /\ ResetInv /\ CopyInv
  BY TypeInit, ResetInit, CopyInit
<1>2. TypeOK /\ ResetInv /\ CopyInv /\ [Next]_vars => (TypeOK /\ ResetInv /\ CopyInv)'
  BY ResetStep, CopyStep
<1> QED BY <1>1, <1>2, PTL DEF Spec

-----------------------------------------------------------------------------
(* Theorems.                                                               *)

\* The variables keep their types: no alarm is counted twice in the alarm copy, and a
\* reset never meets the bound of revisions half way.
THEOREM TypeCorrect == Spec => []TypeOK
BY Invariant, PTL

\* What MIB UPLOAD NEXT reads is the MIB that MIB UPLOAD announced, although an upload
\* that finds mib_data_sync at 0 announces a copy it has not made itself.
THEOREM UploadConsistent == Spec => []UploadIsAnnounced
<1>1. ResetInv => UploadIsAnnounced
  BY DEF ResetInv
<1> QED BY <1>1, Invariant, PTL

\* No copy outlives its expiry event, and GET NEXT finds every valid table copy, whatever
\* the order of requests, evictions and late timeout handlers.
THEOREM CopiesExpire == Spec => []CopyLifetime
<1>1. TypeOK /\ CopyInv => CopyLifetime
  <2> SUFFICES ASSUME TypeOK, CopyInv PROVE CopyLifetime
    OBVIOUS
  <2>1. \A i \in Slots : tbl_copy[i].valid => Find(tbl_copy[i].key, i)
    BY FindFacts DEF CopyInv, SlotInv
  <2> QED BY <2>1 DEF CopyInv, KeptInv, CopyLifetime
<1> QED BY <1>1, Invariant, PTL

\* An identifier that a copy remembers never names the event of another copy.
THEOREM EventsOwned == Spec => []EventsAreOwn
<1>1. CopyInv => EventsAreOwn
  BY DEF CopyInv
<1> QED BY <1>1, Invariant, PTL
=============================================================================
