------------------------------- MODULE OnuData -------------------------------
(***************************************************************************)
(* The copies omcid makes for the OLT: of the MIB for an upload            *)
(* (me/omci_onu_data.c, mib_copy of omci_mib.c), of the alarms for GET ALL *)
(* ALARMS, and of a table attribute for GET NEXT (omci_me_handlers.c,      *)
(* me_tbl_copy_* of omci_core.c).  Each is dropped by a timeout event 60 s *)
(* after it was read last.                                                 *)
(*                                                                         *)
(* Three threads.  The action thread serves the OLT, the timeout thread    *)
(* drops copies, the event thread resets the MIB when PLOAM reaches O2.    *)
(* A handler holds the lock of its copy from its first line to its last    *)
(* and is one step; mib_reset gives its locks back between its parts.      *)
(*                                                                         *)
(* The MIB is known by its revision, a copy by the revision it shows.  A   *)
(* revision is what the requests of the OLT made of the MIB: only these    *)
(* are counted in mib_data_sync.                                           *)
(***************************************************************************)
EXTENDS TimerSet

CONSTANTS
  Tables,         \* table attributes: class, instance and attribute
  TableCopies,    \* OMCI_TABLE_COPY_NUM
  CopyTime,       \* 60 s
  SyncMax,        \* 255, where mib_data_sync starts again with 1
  MaxRev,         \* bound: revisions of the MIB
  MaxAlarms,      \* bound: entities with an alarm
  NoTable         \* key of a slot never used

ASSUME OnuDataAssumption ==
  /\ TableCopies \in Nat \ {0} /\ CopyTime \in Nat \ {0} /\ SyncMax \in Nat \ {0}
  /\ MaxRev \in Nat /\ MaxAlarms \in Nat
  /\ NoTable \notin Tables
  /\ Tables \cap {"mib", "alarm"} = {}
  /\ Owners = Tables \cup {"mib", "alarm"}

Slots == 1 .. TableCopies

VARIABLES
  rev, mib_data_sync,      \* the MIB, and the counter in its ONU data entity
  mib_copy,                \* [rev, full, timeout_id]
  alarm_copy,              \* [num, timeout_id]
  tbl_copy,                \* slot -> [key, valid, full, timeout_id]
  resetter, phase,         \* the thread inside mib_reset, and what it does next
  late,                    \* a request dispatched before the event thread's reset
  session                  \* the OLT's upload: the revision announced, or {}

copies == <<mib_copy, alarm_copy, tbl_copy>>
resetV == <<resetter, phase, late>>
vars   == <<timerV, rev, mib_data_sync, copies, resetV, session>>

\* mib_init: the MIB is loaded and copied once.
Init ==
  /\ TimerInit
  /\ rev = 0 /\ mib_data_sync = 0
  /\ mib_copy = [rev |-> 0, full |-> TRUE, timeout_id |-> 0]
  /\ alarm_copy = [num |-> 0, timeout_id |-> 0]
  /\ tbl_copy = [i \in Slots |-> [key |-> NoTable, valid |-> FALSE, full |-> FALSE,
                                  timeout_id |-> 0]]
  /\ resetter = "none" /\ phase = "out" /\ late = FALSE
  /\ session = {}

-----------------------------------------------------------------------------
(* Requests of the OLT, in the action thread.                              *)

\* The action thread is free, and while the event thread resets the MIB there is
\* a request already dispatched.  With the MIB destroyed no entity is found.
Serving ==
  /\ resetter # "action" /\ (resetter = "event" => late)
  /\ phase # "reload"
  /\ late' = FALSE
  /\ UNCHANGED <<resetter, phase>>

\* A counter without end.
SeqNumIncOnly(n) == n + 1

\* A counter that starts again with 0.
SeqNumIncToZero(n) == (n + 1) % (SyncMax + 1)

\* mib_seq_num_inc: 0 is left to the MIB as it is after a reset.
SeqNumInc(n) == IF n = SyncMax THEN 1 ELSE n + 1

\* A CREATE, DELETE or SET that succeeds; in failsafe mode one that fails is counted too.
Change ==
  /\ Serving
  /\ rev < MaxRev /\ rev' = rev + 1
  /\ mib_data_sync' = SeqNumInc(mib_data_sync)
  /\ UNCHANGED <<timerV, copies, session>>

\* mib_copy; the new copy has no timeout event.
MibCopy == [rev |-> rev, full |-> TRUE, timeout_id |-> 0]

\* mib_upload_action_handle: a MIB that changed since its reset is copied anew.
\* An answer sent before PLOAM left operation does not reach the OLT.
MibUpload ==
  /\ Serving
  /\ LET copy == IF mib_data_sync # 0 THEN MibCopy ELSE mib_copy
     IN  /\ copy.full
         /\ Renew(mib_copy.timeout_id, "mib", CopyTime)
         /\ mib_copy' = [copy EXCEPT !.timeout_id = NewId]
  /\ session' = IF resetter = "none" THEN {rev} ELSE {}
  /\ UNCHANGED <<rev, mib_data_sync, alarm_copy, tbl_copy>>

\* The same without a copy to announce: OMCI_ERROR_ACTION.
MibUploadFails ==
  /\ Serving
  /\ mib_data_sync = 0 /\ ~mib_copy.full
  /\ session' = {}
  /\ UNCHANGED <<timerV, rev, mib_data_sync, copies>>

\* mib_upload_next_action_handle for an entry that is there.
MibUploadNext ==
  /\ Serving
  /\ mib_copy.full
  /\ Renew(mib_copy.timeout_id, "mib", CopyTime)
  /\ mib_copy' = [mib_copy EXCEPT !.timeout_id = NewId]
  /\ UNCHANGED <<rev, mib_data_sync, alarm_copy, tbl_copy, session>>

\* get_all_alarms_action_handle: the list is emptied where an event belongs to it,
\* and one entry is added for each entity with an alarm.
GetAllAlarms(n) ==
  /\ Serving
  /\ Renew(alarm_copy.timeout_id, "alarm", CopyTime)
  /\ alarm_copy' = [num |-> n + (IF alarm_copy.timeout_id # 0 THEN 0 ELSE alarm_copy.num),
                    timeout_id |-> NewId]
  /\ UNCHANGED <<rev, mib_data_sync, mib_copy, tbl_copy, session>>

\* get_all_alarms_next_action_handle for an entry that is there.
GetAllAlarmsNext ==
  /\ Serving
  /\ alarm_copy.num > 0
  /\ Renew(alarm_copy.timeout_id, "alarm", CopyTime)
  /\ alarm_copy' = [alarm_copy EXCEPT !.timeout_id = NewId]
  /\ UNCHANGED <<rev, mib_data_sync, mib_copy, tbl_copy, session>>

-----------------------------------------------------------------------------
(* Copies of table attributes.                                             *)

IsLeast(i, S) == i \in S /\ \A j \in S : i <= j

\* A search that takes the first free slot even if another one has the key.
EmptyGetAnyFree(k, i) ==
  LET free == {j \in Slots : ~tbl_copy[j].valid}
  IN  IF free # {} THEN IsLeast(i, free) ELSE i = 1

\* me_tbl_copy_empty_get: slot i is the one for k.  The slot with that key, valid
\* or not; else the first that is not valid; else the first of all.
EmptyGet(k, i) ==
  LET same == {j \in Slots : tbl_copy[j].key = k}
      free == {j \in Slots : ~tbl_copy[j].valid}
  IN  IF same # {} THEN IsLeast(i, same)
      ELSE IF free # {} THEN IsLeast(i, free) ELSE i = 1

\* me_tbl_copy_find: slot i is the one with the copy of k.  An invalid slot with
\* that key ends the search.
Find(k, i) ==
  /\ tbl_copy[i].key = k /\ tbl_copy[i].valid
  /\ \A j \in Slots : tbl_copy[j].key = k => tbl_copy[j].valid /\ j <= i

\* get_action_handle for a table attribute.  The event of the slot's previous key
\* is removed by the eviction in me_tbl_copy_empty_get, or here.
GetTable(k) ==
  /\ Serving
  /\ \E i \in Slots :
       /\ EmptyGet(k, i)
       /\ Renew(tbl_copy[i].timeout_id, k, CopyTime)
       /\ tbl_copy' = [tbl_copy EXCEPT ![i] = [key |-> k, valid |-> TRUE, full |-> TRUE,
                                               timeout_id |-> NewId]]
  /\ UNCHANGED <<rev, mib_data_sync, mib_copy, alarm_copy, session>>

\* A failing GET that leaves the event of the attribute it takes the slot from.
GetTableFailsKeepsEvent(k) ==
  /\ Serving
  /\ \E i \in Slots :
       /\ EmptyGet(k, i)
       /\ tbl_copy' = [tbl_copy EXCEPT ![i].key = k, ![i].valid = TRUE, ![i].full = FALSE]
  /\ UNCHANGED <<timerV, rev, mib_data_sync, mib_copy, alarm_copy, session>>

\* The same when class->tbl_copy fails, after the slot was taken.  Only a slot taken
\* from another attribute has had its event removed.
GetTableFails(k) ==
  /\ Serving
  /\ \E i \in Slots :
       /\ EmptyGet(k, i)
       /\ IF tbl_copy[i].valid /\ tbl_copy[i].key # k
            THEN Cancel(tbl_copy[i].timeout_id) ELSE UNCHANGED timerV
       /\ tbl_copy' = [tbl_copy EXCEPT ![i].key = k, ![i].valid = TRUE, ![i].full = FALSE]
  /\ UNCHANGED <<rev, mib_data_sync, mib_copy, alarm_copy, session>>

\* A GET NEXT that takes the event away and does not set a new one.
GetNextNoRenew(k) ==
  /\ Serving
  /\ \E i \in Slots : Find(k, i) /\ tbl_copy[i].full /\ Cancel(tbl_copy[i].timeout_id)
  /\ UNCHANGED <<rev, mib_data_sync, copies, session>>

\* get_next_action_handle for a part that is there.
GetNext(k) ==
  /\ Serving
  /\ \E i \in Slots :
       /\ Find(k, i) /\ tbl_copy[i].full
       /\ Renew(tbl_copy[i].timeout_id, k, CopyTime)
       /\ tbl_copy' = [tbl_copy EXCEPT ![i].timeout_id = NewId]
  /\ UNCHANGED <<rev, mib_data_sync, mib_copy, alarm_copy, session>>

-----------------------------------------------------------------------------
(* The handlers of the timeout thread.                                     *)

\* mib_copy_clean_timeout_handle.
MibCopyClean ==
  /\ HandlerRan("mib")
  /\ mib_copy' = [rev |-> 0, full |-> FALSE, timeout_id |-> 0]
  /\ UNCHANGED <<rev, mib_data_sync, alarm_copy, tbl_copy, resetV, session>>

\* alarm_copy_clean_timeout_handle.
AlarmCopyClean ==
  /\ HandlerRan("alarm")
  /\ alarm_copy' = [num |-> 0, timeout_id |-> 0]
  /\ UNCHANGED <<rev, mib_data_sync, mib_copy, tbl_copy, resetV, session>>

\* get_next_tbl_copy_clean_timeout_handler.
TblCopyClean(k) ==
  /\ HandlerRan(k)
  /\ tbl_copy' = [i \in Slots |->
       IF Find(k, i) THEN [tbl_copy[i] EXCEPT !.valid = FALSE, !.full = FALSE, !.timeout_id = 0]
                     ELSE tbl_copy[i]]
  /\ UNCHANGED <<rev, mib_data_sync, mib_copy, alarm_copy, resetV, session>>

TimeoutThread ==
  \/ Pick /\ UNCHANGED <<rev, mib_data_sync, copies, resetV, session>>
  \/ MibCopyClean \/ AlarmCopyClean \/ \E k \in Tables : TblCopyClean(k)
  \/ RemovePicked /\ UNCHANGED <<rev, mib_data_sync, copies, resetV, session>>

Tick == TimePasses /\ UNCHANGED <<rev, mib_data_sync, copies, resetV, session>>

-----------------------------------------------------------------------------
(* mib_reset, by the OLT's request or by ploam_state_change_cb.  The test  *)
(* and set of mib_reset_in_progress is one step here; module OmciCore has  *)
(* the window between them.                                                *)

\* The MIB is destroyed unless it is as the last reset left it and its copy exists.
ResetStart(t) ==
  /\ resetter = "none"
  /\ rev < MaxRev
  /\ IF mib_data_sync # 0 \/ ~mib_copy.full
       THEN resetter' = t /\ phase' = "reload"
       ELSE UNCHANGED <<resetter, phase>>
  /\ late' \in IF t = "event" /\ phase' = "reload" THEN BOOLEAN ELSE {FALSE}
  /\ session' = {}
  /\ UNCHANGED <<timerV, rev, mib_data_sync, copies>>

\* A second mib_reset returns at once.  So does a request dispatched before the event
\* thread's reset that finds no entity.
ResetSkipped ==
  /\ resetter = "action" \/ late
  /\ late' = FALSE /\ session' = {}
  /\ UNCHANGED <<timerV, rev, mib_data_sync, copies, resetter, phase>>

\* mib_on_reset and mib_lct_create: the default MIB, with a new ONU data entity.
ResetReload ==
  /\ phase = "reload"
  /\ rev' = rev + 1 /\ mib_data_sync' = 0
  /\ phase' = "copy"
  /\ UNCHANGED <<timerV, copies, resetter, late, session>>

\* mib_copy at the end of mib_reset.
ResetCopy ==
  /\ phase = "copy"
  /\ Cancel(mib_copy.timeout_id)
  /\ mib_copy' = MibCopy
  /\ resetter' = "none" /\ phase' = "out" /\ late' = FALSE
  /\ UNCHANGED <<rev, mib_data_sync, alarm_copy, tbl_copy, session>>

Reset == ResetReload \/ ResetCopy

Next ==
  \/ Change \/ MibUpload \/ MibUploadFails \/ MibUploadNext
  \/ \E n \in 0 .. MaxAlarms : GetAllAlarms(n)
  \/ GetAllAlarmsNext
  \/ \E k \in Tables : GetTable(k) \/ GetTableFails(k) \/ GetNext(k)
  \/ \E t \in {"event", "action"} : ResetStart(t)
  \/ ResetSkipped \/ Reset \/ TimeoutThread \/ Tick

Spec == Init /\ [][Next]_vars

-----------------------------------------------------------------------------
(* Properties.                                                             *)

\* The variables keep their types.
TypeOK ==
  /\ TimerTypeOK
  /\ rev \in 0 .. MaxRev /\ mib_data_sync \in 0 .. SyncMax
  /\ mib_copy \in [rev : Nat, full : BOOLEAN, timeout_id : 0 .. MaxIds]
  /\ alarm_copy \in [num : 0 .. MaxAlarms, timeout_id : 0 .. MaxIds]
  /\ tbl_copy \in [Slots -> [key : Tables \cup {NoTable}, valid : BOOLEAN, full : BOOLEAN,
                             timeout_id : 0 .. MaxIds]]
  /\ resetter \in {"none", "event", "action"} /\ phase \in {"out", "reload", "copy"}
  /\ late \in BOOLEAN
  /\ session \subseteq Nat

\* What the OLT reads with MIB UPLOAD NEXT is the MIB as it was when the upload was
\* announced, whether that copy was made then or left by an earlier reset, and
\* whatever changed since.
UploadIsAnnounced == \A r \in session : mib_copy.full => mib_copy.rev = r

\* A copy is never kept without the event that drops it: that of the alarms, and
\* that of each table, however requests, evictions and late handlers interleave; and
\* as long as a table's copy is valid GET NEXT finds it, although an invalid slot with
\* the same key would end the search.
CopyLifetime ==
  /\ alarm_copy.num > 0 => alarm_copy.timeout_id \in Ids
  /\ \A i \in Slots : tbl_copy[i].valid =>
       /\ tbl_copy[i].full => tbl_copy[i].timeout_id \in Ids
       /\ Find(tbl_copy[i].key, i)

\* An identifier a copy remembers, also an old one, never names an event of another
\* copy: renewing one copy does not take away the expiry of another.
EventsAreOwn ==
  \A e \in timeout_list :
    /\ e.id = mib_copy.timeout_id => e.owner = "mib"
    /\ e.id = alarm_copy.timeout_id => e.owner = "alarm"
    /\ \A i \in Slots : e.id = tbl_copy[i].timeout_id => e.owner = tbl_copy[i].key
=============================================================================
