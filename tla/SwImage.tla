------------------------------- MODULE SwImage -------------------------------
(***************************************************************************)
(* The two software images of the ONU: me/omci_sw_image.c of omcid, with   *)
(* the threads of me/omci_api_sw_image.c and the flash and U-Boot          *)
(* environment behind me/omci_api_sw_image_falcon.c.                       *)
(*                                                                         *)
(* An image is downloaded in windows of sections into memory, checked and  *)
(* written to its bank by a thread of its own; ACTIVATE names the bank for *)
(* the next reboot, COMMIT the bank for every later one.  The ONU may lose *)
(* its power between any two steps, the MIB may be reset, and a download   *)
(* may be dropped by its timeout event.                                    *)
(*                                                                         *)
(* An image is known by whether its bank holds all of it.  The code does   *)
(* not look at the exit status of mtd and fw_setenv: either may end        *)
(* without having done its work and is taken for a success, and only one   *)
(* that a signal ended is an error.  Nor does a reset of the MIB wait for  *)
(* a COMMIT that is under way.  Two history variables keep where that      *)
(* leaves the ONU mistaken, and no step reads them.                        *)
(***************************************************************************)
EXTENDS TimerSet, Sequences

CONSTANTS
  Sections,       \* sections of an image
  Window,         \* sections the OLT sends before it asks for an answer
  Guards,         \* values of fw_guard_enabled
  MaxGen,         \* bound: resets of the MIB
  MaxBusy         \* bound: cant_reboot

Images == {0, 1}

ASSUME SwImageAssumption ==
  /\ Sections \in Nat \ {0} /\ Window \in Nat \ {0}
  /\ Guards \subseteq BOOLEAN
  /\ MaxGen \in Nat /\ MaxBusy \in Nat
  /\ Owners = Images \X (0 .. MaxGen)

VARIABLES
  me,                      \* image -> the attributes of its entity
  dl,                      \* image -> its internal_data
  gen,                     \* how often the MIB was made anew
  cant_reboot, rebooting,  \* the counter, and a reboot that was accepted
  invalidating, storing,   \* images their threads are at work for
  committing,              \* COMMITs in their order; the last has the thread
  env,                     \* U-Boot: image<n>_is_valid, committed_image
  flash,                   \* image -> whether its bank holds all of it
  act, running,            \* bank for the next reboot, or {}; bank running now
  guard, shadow,           \* fw_guard_enabled, shadow_committed or {}
  olt,                     \* the OLT's download
  amiss,                   \* history: a reset overtook the last COMMIT, or it failed unseen
  unsure                   \* history: banks in doubt since a failure nobody saw

mibV   == <<me, dl, gen>>
threads == <<invalidating, storing, committing>>
device == <<env, flash, act, running>>
guardV == <<guard, shadow>>
busyV  == <<cant_reboot, rebooting>>
historyV == <<amiss, unsure>>
vars   == <<timerV, mibV, threads, device, guardV, busyV, olt, historyV>>

\* An entity that does not know of the guard's commits.
EntityNoShadow(i, r, sh) ==
  [valid |-> env.valid[i], active |-> i = r, committed |-> i = env.committed]

\* me_init, from the U-Boot environment and the partitions.
Entity(i, r, sh) ==
  [valid |-> env.valid[i], active |-> i = r,
   committed |-> IF guard /\ sh # {} THEN i \in sh ELSE i = env.committed]

\* memset of internal_data.
Idle == [data |-> FALSE, status |-> "none", total |-> 0, curr |-> 0, missed |-> FALSE,
         good |-> {}, timeout_id |-> 0]

\* The memory is freed.  START clears the counts before they are read again.
Freed(d) == [Idle EXCEPT !.status = d.status, !.timeout_id = d.timeout_id]

NoDownload == [on |-> FALSE, image |-> 0, base |-> 0, next |-> 0]

\* The first start: bank 0 runs, bank 1 may hold an image or not.
Init ==
  /\ TimerInit
  /\ running = 0 /\ act = {} /\ guard \in Guards /\ shadow = {}
  /\ \E v \in BOOLEAN :
       /\ flash = [i \in Images |-> i = 0 \/ v]
       /\ env = [valid |-> [i \in Images |-> i = 0 \/ v], committed |-> 0]
  /\ me = [i \in Images |-> Entity(i, running, shadow)]
  /\ dl = [i \in Images |-> Idle] /\ gen = 0
  /\ cant_reboot = 0 /\ rebooting = FALSE
  /\ invalidating = {} /\ storing = {} /\ committing = <<>>
  /\ olt = NoDownload
  /\ amiss = FALSE /\ unsure = {}

-----------------------------------------------------------------------------
(* Download.                                                               *)

\* A test that leaves out the committed image.
ProtectedActive(i) == me[i].active

\* The test of all three handlers of a download.
Protected(i) == me[i].committed \/ me[i].active

\* start_dl_action_handle.  A thread that is replaced leaves its fw_setenv running.
\* The event may come at any moment of the 15 minutes a download takes.
StartDl(i) ==
  /\ ~Protected(i)
  /\ Renew(dl[i].timeout_id, <<i, gen>>, 0)
  /\ me' = [me EXCEPT ![i].valid = FALSE]
  /\ dl' = [dl EXCEPT ![i] = [Idle EXCEPT !.data = TRUE, !.status = "downloading",
                                          !.timeout_id = NewId]]
  /\ invalidating' = invalidating \cup {i}
  /\ olt' = [on |-> TRUE, image |-> i, base |-> 0, next |-> 0]
  /\ UNCHANGED <<gen, storing, committing, device, guardV, busyV, historyV>>

\* The same for an active or committed image, or without memory: the status stays.
StartDlFails(i) ==
  /\ Cancel(dl[i].timeout_id)
  /\ dl' = [dl EXCEPT ![i] = Freed(@)]
  /\ olt' = NoDownload
  /\ UNCHANGED <<me, gen, threads, device, guardV, busyV, historyV>>

\* A handler that takes a section after a gap of one for the one it waits for.
ReceivedUncounted(d, n, ask, from) ==
  LET fits   == n = d.curr \/ n = d.curr + 1
      missed == n # 0 /\ d.missed
      pos    == d.total + n
  IN  IF ~fits THEN [d EXCEPT !.missed = missed, !.curr = 0]
      ELSE [d EXCEPT !.missed = missed,
                     !.good = IF pos = from THEN @ \cup {pos} ELSE @ \ {pos},
                     !.curr = IF ask THEN 0 ELSE n + 1,
                     !.total = IF ask /\ ~missed THEN @ + n + 1 ELSE @]

\* dl_section_action_handle: section n of the window, which holds what belongs to
\* place from of the image, and asks for an answer or not.  A gap of one is counted;
\* after a larger one the handler waits for section 0.
Received(d, n, ask, from) ==
  LET fits   == n = d.curr \/ n = d.curr + 1
      missed == (n # 0 /\ d.missed) \/ n = d.curr + 1
      pos    == d.total + n
  IN  IF ~fits THEN [d EXCEPT !.missed = n # 0 /\ d.missed, !.curr = 0]
      ELSE [d EXCEPT !.missed = missed,
                     !.good = IF pos = from THEN @ \cup {pos} ELSE @ \ {pos},
                     !.curr = IF ask THEN 0 ELSE n + 1,
                     !.total = IF ask /\ ~missed THEN @ + n + 1 ELSE @]

\* The result of the answer.
Accepted(d, n) == (n = d.curr \/ n = d.curr + 1) /\ ~Received(d, n, TRUE, 0).missed

\* Sections of the OLT's window: external.
WindowSize == IF olt.base + Window <= Sections THEN Window ELSE Sections - olt.base
Asks == olt.next + 1 = WindowSize
Sending == olt.on /\ olt.base < Sections

\* A section arrives.  The OLT goes on after success, repeats the window after an
\* error, and gives up a download that the ONU has dropped.  Answers are not lost: a
\* repeated request gets the kept one (module OmciCore).
Section ==
  /\ Sending
  /\ LET i == olt.image
         open == ~Protected(i) /\ dl[i].data
         ok == open /\ Accepted(dl[i], olt.next)
     IN  /\ dl' = IF open THEN [dl EXCEPT ![i] = Received(@, olt.next, Asks, olt.base + olt.next)]
                          ELSE dl
         /\ olt' = IF ~open THEN NoDownload
                   ELSE IF ~Asks THEN [olt EXCEPT !.next = @ + 1]
                   ELSE [olt EXCEPT !.next = 0, !.base = IF ok THEN @ + WindowSize ELSE @]
  /\ UNCHANGED <<timerV, me, gen, threads, device, guardV, busyV, historyV>>

\* A section is lost.  Without an answer the OLT repeats the section or the window.
SectionLost ==
  /\ Sending
  /\ \E n \in {IF Asks THEN olt.next ELSE olt.next + 1, IF Asks THEN 0 ELSE olt.next + 1} :
       olt' = [olt EXCEPT !.next = n]
  /\ UNCHANGED <<timerV, mibV, threads, device, guardV, busyV, historyV>>

\* No thread is at work.
Quiet == storing = {} /\ invalidating = {} /\ committing = <<>>

\* The history of an END: the bank may be the one U-Boot starts, or may still be called
\* valid in the environment.
Overwrites(i) ==
  /\ unsure' = IF ~guard /\ (amiss \/ ~Quiet) THEN unsure \cup {i} ELSE unsure
  /\ UNCHANGED amiss

\* An END whose store does not hold a reboot back.
EndDlUncounted(i) ==
  /\ dl[i].status = "downloading" /\ ~Protected(i)
  /\ dl[i].data /\ dl[i].good = 0 .. Sections - 1
  /\ storing = {}
  /\ Cancel(dl[i].timeout_id)
  /\ dl' = [dl EXCEPT ![i] = [Freed(@) EXCEPT !.status = "writing"]]
  /\ storing' = {i} /\ Overwrites(i)
  /\ olt' = NoDownload
  /\ UNCHANGED <<me, gen, invalidating, committing, device, guardV, busyV>>

\* end_dl_action_handle for a complete image: the CRC agrees.  A download takes minutes,
\* so that the store before it has ended.
EndDl(i) ==
  /\ dl[i].status = "downloading" /\ ~Protected(i)
  /\ dl[i].data /\ dl[i].good = 0 .. Sections - 1
  /\ storing = {}
  /\ cant_reboot < MaxBusy
  /\ Cancel(dl[i].timeout_id)
  /\ dl' = [dl EXCEPT ![i] = [Freed(@) EXCEPT !.status = "writing"]]
  /\ cant_reboot' = cant_reboot + 1
  /\ storing' = {i} /\ Overwrites(i)
  /\ olt' = NoDownload
  /\ UNCHANGED <<me, gen, invalidating, committing, device, guardV, rebooting>>

\* An error path that counts down although nothing was counted.
EndDlFailsCounts(i) ==
  /\ dl[i].status = "downloading" /\ (dl[i].data \/ Protected(i))
  /\ Cancel(dl[i].timeout_id)
  /\ dl' = IF Protected(i) THEN dl
           ELSE [dl EXCEPT ![i] = [Freed(@) EXCEPT !.status = "none"]]
  /\ cant_reboot' = cant_reboot - 1
  /\ olt' = NoDownload
  /\ UNCHANGED <<me, gen, threads, device, guardV, rebooting, historyV>>

\* The same with another CRC, without room for the file, or for a protected image.
EndDlFails(i) ==
  /\ dl[i].status = "downloading" /\ (dl[i].data \/ Protected(i))
  /\ Cancel(dl[i].timeout_id)
  /\ dl' = IF Protected(i) THEN dl
           ELSE [dl EXCEPT ![i] = [Freed(@) EXCEPT !.status = "none"]]
  /\ olt' = NoDownload
  /\ UNCHANGED <<me, gen, threads, device, guardV, busyV, historyV>>

\* The same once the image is stored.  In the other states END changes nothing.
EndDlComplete(i) ==
  /\ dl[i].status = "complete"
  /\ dl' = [dl EXCEPT ![i].status = "none"]
  /\ olt' = NoDownload
  /\ UNCHANGED <<timerV, me, gen, threads, device, guardV, busyV, historyV>>

\* data_clean_timeout_handle.  After a reset of the MIB its pointer is to an entity
\* that was freed: it finds nothing, or the new entity at the same place.
DataClean(i, g) ==
  /\ HandlerRan(<<i, g>>)
  /\ \/ dl' = [dl EXCEPT ![i] = Idle]
     \/ g # gen /\ UNCHANGED dl
  /\ UNCHANGED <<me, gen, threads, device, guardV, busyV, olt, historyV>>

TimeoutThread ==
  \/ Pick /\ UNCHANGED <<mibV, threads, device, guardV, busyV, olt, historyV>>
  \/ \E i \in Images, g \in 0 .. MaxGen : DataClean(i, g)
  \/ RemovePicked /\ UNCHANGED <<mibV, threads, device, guardV, busyV, olt, historyV>>

-----------------------------------------------------------------------------
(* Threads.                                                                *)

\* omci_api_sw_image_image_invalidate_thread, which looks at no result.
Invalidated(i) ==
  /\ i \in invalidating
  /\ invalidating' = invalidating \ {i}
  /\ \E done \in BOOLEAN :
       /\ env' = IF done THEN [env EXCEPT !.valid[i] = FALSE] ELSE env
       /\ unsure' = IF done \/ guard THEN unsure ELSE unsure \cup {i}
  /\ UNCHANGED <<timerV, mibV, storing, committing, flash, act, running, guardV, busyV, olt, amiss>>

\* mtd has begun to write.  The bank that runs is not among the partitions.
StoreBegins(i) ==
  /\ i \in storing /\ ~guard /\ i # running
  /\ flash' = [flash EXCEPT ![i] = FALSE]
  /\ UNCHANGED <<timerV, mibV, threads, env, act, running, guardV, busyV, olt, historyV>>

\* omci_api_sw_image_image_store_thread with what it takes for success, and end_dl_cb:
\* mtd has written the bank or not, fw_setenv has set the flag or not.
Stored(i) ==
  /\ i \in storing /\ (guard \/ i # running)
  /\ storing' = {}
  /\ \/ guard /\ UNCHANGED <<flash, unsure>>
     \/ ~guard /\ flash' = [flash EXCEPT ![i] = TRUE] /\ unsure' = unsure \ {i}
     \/ ~guard /\ UNCHANGED flash /\ unsure' = unsure \cup {i}
  /\ \E done \in BOOLEAN : env' = IF done THEN [env EXCEPT !.valid[i] = TRUE] ELSE env
  /\ me' = [me EXCEPT ![i].valid = TRUE]
  /\ dl' = [dl EXCEPT ![i].status = "complete"]
  /\ cant_reboot' = cant_reboot - 1
  /\ UNCHANGED <<timerV, gen, invalidating, committing, act, running, guardV, rebooting, olt, amiss>>

\* The same without: a bad header, no partition, or mtd or fw_setenv was stopped, the
\* second once the bank was written.
StoreFails(i) ==
  /\ i \in storing
  /\ storing' = {}
  /\ \/ UNCHANGED flash
     \/ ~guard /\ i # running /\ flash' = [flash EXCEPT ![i] = TRUE]
  /\ me' = [me EXCEPT ![i].valid = FALSE]
  /\ cant_reboot' = cant_reboot - 1
  /\ UNCHANGED <<timerV, dl, gen, invalidating, committing, env, act, running, guardV, rebooting,
                 olt, historyV>>

Choosable(i) == dl[i].status \in {"none", "complete"} /\ me[i].valid

\* activate_image_action_handle.
Activate(i) ==
  /\ Choosable(i)
  /\ cant_reboot < MaxBusy /\ cant_reboot' = cant_reboot + 1
  /\ act' = IF guard THEN act ELSE {i}
  /\ me' = [j \in Images |-> [me[j] EXCEPT !.active = j = i]]
  /\ UNCHANGED <<timerV, dl, gen, threads, env, flash, running, guardV, rebooting, olt, historyV>>

\* commit_image_action_handle: a commit thread still at work is cancelled, before or
\* after it has started fw_setenv.
Commit(i) ==
  /\ Choosable(i)
  /\ cant_reboot < MaxBusy /\ cant_reboot' = cant_reboot + 1
  /\ committing' \in {Append(committing, i), <<i>>}
  /\ me' = [j \in Images |-> [me[j] EXCEPT !.committed = j = i]]
  /\ amiss' = FALSE
  /\ UNCHANGED <<timerV, dl, gen, invalidating, storing, device, guardV, rebooting, olt, unsure>>

\* A commit thread that does not know of the guard.
CommittedReally ==
  /\ committing # <<>>
  /\ committing' = Tail(committing)
  /\ env' = [env EXCEPT !.committed = Head(committing)]
  /\ cant_reboot' = IF Len(committing) = 1 THEN cant_reboot - 1 ELSE cant_reboot
  /\ UNCHANGED <<timerV, mibV, invalidating, storing, flash, act, running, guardV, rebooting, olt, historyV>>

\* omci_api_sw_image_image_commit_thread, and commit_cb of a thread not cancelled, which
\* looks at no result.
Committed ==
  /\ committing # <<>>
  /\ committing' = Tail(committing)
  /\ \/ /\ guard /\ shadow' = {Head(committing)} /\ UNCHANGED <<env, amiss>>
     \/ /\ ~guard /\ env' = [env EXCEPT !.committed = Head(committing)] /\ UNCHANGED <<shadow, amiss>>
     \/ /\ ~guard /\ UNCHANGED <<env, shadow>>
        /\ amiss' = (amiss \/ Len(committing) = 1)
  /\ cant_reboot' = IF Len(committing) = 1 THEN cant_reboot - 1 ELSE cant_reboot
  /\ UNCHANGED <<timerV, mibV, invalidating, storing, flash, act, running, guard, rebooting, olt,
                 unsure>>

-----------------------------------------------------------------------------
(* Resets.                                                                 *)

\* mib_reset: me_shutdown and me_init of both entities.  Their events stay, and their
\* threads go on.
MibReset ==
  /\ gen < MaxGen /\ gen' = gen + 1
  /\ amiss' = (committing # <<>>)
  /\ me' = [i \in Images |-> Entity(i, running, shadow)]
  /\ dl' = [i \in Images |-> Idle]
  /\ UNCHANGED <<timerV, threads, device, guardV, busyV, olt, unsure>>

\* reboot_acion_handle: a reboot in 10 s.
Reboot ==
  /\ cant_reboot = 0 /\ cant_reboot < MaxBusy
  /\ cant_reboot' = 1 /\ rebooting' = TRUE
  /\ UNCHANGED <<timerV, mibV, threads, device, guardV, olt, historyV>>

\* omcid starts, with bank r running.
Starts(r) ==
  /\ running' = r /\ shadow' = {}
  /\ timeout_list' = {} /\ last_timeout_id' = 0 /\ thr' = "poll" /\ picked' = {}
  /\ me' = [i \in Images |-> Entity(i, r, {})]
  /\ dl' = [i \in Images |-> Idle] /\ gen' = 0
  /\ cant_reboot' = 0 /\ rebooting' = FALSE
  /\ invalidating' = {} /\ storing' = {} /\ committing' = <<>>
  /\ olt' = NoDownload /\ amiss' = FALSE
  /\ UNCHANGED <<env, flash, guard, unsure>>

\* END for a download without memory: omcid ends, and is started again.  What the mtd and
\* fw_setenv of a thread would still do after omcid's end is not modelled.
EndDlCrash(i) ==
  /\ dl[i].status = "downloading" /\ ~Protected(i) /\ ~dl[i].data
  /\ Quiet
  /\ Starts(running) /\ UNCHANGED act

\* U-Boot after a loss of power.
PowerCycle == Starts(env.committed) /\ act' = {}

\* U-Boot after a reboot, by the OLT or by the user.  A bank that does not start is
\* left with a power cycle.
WarmBoot ==
  /\ Starts(IF \E i \in act : flash[i] THEN CHOOSE i \in act : flash[i] ELSE env.committed)
  /\ act' = {}

Next ==
  \/ \E i \in Images :
       \/ StartDl(i) \/ StartDlFails(i) \/ EndDl(i) \/ EndDlFails(i) \/ EndDlComplete(i)
       \/ EndDlCrash(i) \/ Activate(i) \/ Commit(i)
       \/ Invalidated(i) \/ StoreBegins(i) \/ Stored(i) \/ StoreFails(i)
  \/ Section \/ SectionLost \/ Committed \/ TimeoutThread
  \/ MibReset \/ Reboot \/ PowerCycle \/ WarmBoot

Spec == Init /\ [][Next]_vars

-----------------------------------------------------------------------------
(* Properties.                                                             *)

Download == [data : BOOLEAN, status : {"none", "downloading", "writing", "complete"},
             total : 0 .. Sections, curr : 0 .. Window, missed : BOOLEAN,
             good : SUBSET (0 .. Sections - 1), timeout_id : 0 .. MaxIds]

\* The variables keep their types.
TypeOK ==
  /\ TimerTypeOK
  /\ me \in [Images -> [valid : BOOLEAN, committed : BOOLEAN, active : BOOLEAN]]
  /\ dl \in [Images -> Download] /\ gen \in 0 .. MaxGen
  /\ cant_reboot \in 0 .. MaxBusy /\ rebooting \in BOOLEAN
  /\ invalidating \subseteq Images /\ storing \subseteq Images
  /\ committing \in Seq(Images)
  /\ env \in [valid : [Images -> BOOLEAN], committed : Images]
  /\ flash \in [Images -> BOOLEAN] /\ act \subseteq Images /\ running \in Images
  /\ guard \in BOOLEAN /\ shadow \subseteq Images
  /\ olt \in [on : BOOLEAN, image : Images, base : 0 .. Sections, next : 0 .. Window]
  /\ amiss \in BOOLEAN /\ unsure \subseteq Images

\* A window the OLT was told is complete is in memory, every section in its place,
\* whatever was lost and repeated before.
AckedIsWritten ==
  olt.on /\ dl[olt.image].data => 0 .. olt.base - 1 \subseteq dl[olt.image].good

\* A download, a store, a commit, a reset of the MIB and a loss of power in any order leave
\* the bank U-Boot starts whole, and no entity and no flag calls a bank valid that is not:
\* except a bank in doubt, since an mtd or the fw_setenv of a START ended with an error that
\* was not looked at, or since END found the entities amiss or other threads at work.
\* A later store that writes the bank whole ends the doubt.  The guard calls an image valid
\* that it did not write.
ImagesAreIntact ==
  /\ env.committed \notin unsure => flash[env.committed]
  /\ ~guard => \A i \in Images \ unsure : me[i].valid \/ env.valid[i] => flash[i]

\* Once the COMMITs have ended, in whatever order they replaced each other and whatever
\* was reset or restarted, the OLT is told of the committed image that U-Boot will start,
\* or with the guard of the one that stands for it.  What is left out is amiss: a reset
\* read the entities back while a COMMIT was under way, or the fw_setenv of the last COMMIT
\* ended with an error; the next COMMIT or reset puts that right.
CommittedIsReported ==
  committing = <<>> /\ ~amiss =>
    \A i \in Images : me[i].committed <=> IF shadow # {} THEN i \in shadow ELSE i = env.committed

\* The OLT's reboot is refused while an image is stored or committed.
RebootWaits == storing # {} \/ committing # <<>> => cant_reboot > 0

\* With the guard the ONU starts from the bank that runs, whatever the OLT asked for
\* (omci_api_sw_image_falcon.c, "firmware update guard").
GuardKeepsBank == guard => act = {} /\ env.committed = running
=============================================================================
