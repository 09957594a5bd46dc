# Verification of openwrt-falcon-gpon

TLA+ models of the code that brings a Lantiq Falcon SFP ONT into operation on a GPON and lets the
OLT manage it: the kernel driver `package/kernel/gpon-falcon` and the daemon `omcid`
(`package/network/services/omcid`) that it works with. TLC checks the models on small instances,
TLAPS proves the main invariants for every value of the constants.

Paths below are relative to the repository; `K` stands for `package/kernel/gpon-falcon/src`, `O` for
`package/network/services/omcid/src/gpon_omci_onu-4.5.0/src` and `A` for
`package/network/services/omcid/src/gpon_omci_api-4.5.0/src`.

## 1. Inventory

| Component | State | Operations | What makes it correct |
|---|---|---|---|
| PLOAM engine, `K/falcon_ploam.c` | `state`, ONU-ID, `rx_queue`, `fsm_work`, TO1, TO2 | read and filter messages (interrupt), handle them (worker), timeouts, loss of signal and of frame | states, ONU-ID, timers, laser and carrier agree, whatever interrupts what; no message is forgotten |
| GTC interrupt, `K/falcon_gpon_core.c` | interrupt status and receiver status registers | `falcon_gtc_isr` | every message and every loss of signal is acted upon |
| Event FIFO of `/dev/onu0`, `K/falcon_onu_dev.c` | `g_onu_ring`, wait queue | push, poll, ioctl read | a FIFO that drops its oldest event; no wake-up is lost; omcid receives what was pushed |
| Probe, remove, `K/falcon_gpon_core.c` | device, interrupt, netdev | probe, remove, error paths | nothing is used before it is initialised or after it is freed |
| Network interface, `K/falcon_gpon_core.c` (`K/falcon_netdev.c` is not compiled) | `gpe_ready`, NAPI | open, stop, xmit, poll | frames are sent or counted as dropped |
| GPE firmware and DMA, `K/falcon_dma.c` | FSQM segments, link FIFO | load firmware, allocate, free, write a PDU | segments are not leaked and not overwritten |
| BOSA, `K/falcon_bosa.c` | laser and APD registers | enable, APC loop, bias, init, shutdown | register writes only |
| omcid event thread, `A/omci_api_event.c`, `A/omci_api.c` | file descriptors | select, ioctl, callbacks | every driver event reaches the core |
| omcid core and action threads, `O/omci_core.c`, `O/omci_interface.c` | `msg_fifo`, `action`, three events, retransmission memory | receive, dispatch, execute, answer, repeat | each request is executed at most once and gets its own answer; no thread hangs |
| omcid MIB, `O/omci_mib.c`, `O/me/` | managed entities, `mib_data_sync` | create, set, delete, reset | one reset at a time; the sync counter is 0 only for the MIB a reset left |
| omcid copies, `O/me/omci_onu_data.c`, `O/omci_me_handlers.c` | copies of the MIB, of the alarms, of table attributes | upload, get all alarms, get and get next of a table | the OLT reads what was announced; a copy lives until its timeout, no longer and no shorter |
| omcid timeouts, `O/omci_timeout.c` | `timeout_list`, `last_timeout_id` | add, remove, run the first that is due | a removed event does no harm when its handler was already chosen |
| omcid software images, `O/me/omci_sw_image.c`, `A/me/omci_api_sw_image*.c` | two image entities, download buffers, `cant_reboot`, U-Boot environment, flash, firmware guard | start, section, end, activate, commit, reboot; threads that invalidate, store and commit | the ONU always has a whole image to start; what was acknowledged was received; valid means whole |
| omcid performance monitoring, `O/omci_pm.c` | per entity current, history and absolute counters, threshold, alert bits | poll, get, end of interval, set, create, delete | no event is lost or counted twice; alerts are sent when and only when a threshold is crossed |
| omcid multicast control, `O/mcc/`, `O/me/omci_multicast_operations_profile.c` | access control list, groups and clients of each port with their filters, timeout events, forwarding entry, a lock per port | IGMP and MLD reports and queries, aging, activity, Lost Group List | clients get what they want and may have, within the limits; entry, groups and events agree; no thread waits for ever |
| omcid alarms and ARC, command line | `alarm_seq_num`, ARC timers | | not modelled |
| `lib_ifxos` | events, FIFO, threads | | third party, modelled by what its users see |
| `luci-app-gpon` | none | status page, UCI form | not modelled |

How they interact: the GTC interrupt handler calls into the PLOAM engine and schedules its worker.
The engine calls three callbacks (laser, carrier, state change); the last one is
`falcon_onu_notify_ploam_state`, which pushes an event. omcid's event thread selects on
`/dev/onu0`, reads one event per ioctl and calls `event_cb`, which queues an OMCI request for the
core thread or reports a PLOAM state. The core thread hands requests to the action thread, which
changes the MIB under its lock. Handlers leave copies and downloads behind that omcid's timeout thread
drops; END and COMMIT of a software image start threads that run `mtd` and `fw_setenv`; the PM thread
polls counters, and the event thread ends their intervals and resets the MIB. The packet thread of multicast
control turns reports into groups and forwarding entries, the timeout thread ages them, and the action thread
reads them and changes the list of what is allowed.

What is hard: `ploam_state_transition` runs unlocked in two contexts; timeouts race messages;
`schedule_work` on a running work; wake-up against sleep; a ring without a check for full; an action
that ends just after its requester gave up; requests that are repeated; two threads that reset the
MIB; a timeout handler chosen before its event was removed; lost sections of a download; a loss of power
while flash or environment are written; counters that go round; locks that are taken in two orders; a group that is aged while it is reported;
the order of initialisation and teardown. `PROJECT.json` lists each hazard at its line with the
properties that cover it.

## 2. Modules

| Module | Models | Remarks |
|---|---|---|
| `RingBuffer` | index arithmetic of both rings | helpers; `Contents` is the refinement mapping of both |
| `DropOldestQueue` | what `/dev/onu0` promises | abstract specification |
| `OnuEvents` | `falcon_onu_push_event`, `falcon_onu_poll`, event ioctl, and omcid's reader with `dev_ctl` | refines `DropOldestQueue` |
| `OverrunQueue` | what `rx_queue` is to its users | abstract specification |
| `RxRing` | `rx_queue` with `rx_head` and `rx_tail` | refines `OverrunQueue` |
| `Ploam` | `falcon_ploam.c` and `falcon_gtc_isr` | uses `rx_queue` as the sequence that `RxRing` shows it to be |
| `OmciCore` | `omci_core.c` with its callbacks and the control of `mib_reset` | three threads |
| `TimerSet` | `omci_timeout.c` | extended by the three modules whose handlers it runs |
| `OnuData` | copies of MIB, alarms and tables, `mib_data_sync`, the parts of `mib_reset` | action, timeout and event thread |
| `SwImage` | `omci_sw_image.c` down to flash and U-Boot environment | action and timeout thread, three helper threads, loss of power |
| `PmInterval` | `omci_pm.c` for one counter of an entity | a counter of any width |
| `MccGroup` | reports, access control list, limit of streams, clients and groups of one port | filters are sets of sources |
| `MccThreads` | packet, timeout and action thread of multicast control, locks, aging, forwarding entry | one group address, several ports |
| `MCOnuEvents`, `MCPloam`, `MCOmciCore`, `MCOnuData`, `MCSwImage`, `MCMccGroup`, `MCMccThreads` | | instances for TLC (`RxRing` and `PmInterval` need none) |
| `DriverQueues_proofs` (both rings and `OnuEvents`), `Ploam_proofs`, `OmciCore_proofs`, `OnuData_proofs`, `SwImage_proofs`, `PmInterval_proofs`, `MccGroup_proofs`, `MccThreads_proofs` | | theorems |

Operators whose name says what is wrong with them (`WakeNobody`, `To1AfterUnarmed`,
`CoreRetransmitNever`, ...) stand before the definition they deviate from and are used by no
specification: substituted for it, they show that the property named in `PROJECT.json` notices that mistake.

### OnuEvents

`events`, `head`, `tail` are `g_onu_ring`. A push is one step, since it runs under the spinlock with
interrupts off; the wake-up after the unlock is another. `select()` is two steps (join the wait
queue; look at the ring and sleep unless woken in between), the ioctl is two (take the event under
the lock; copy it), and `CopyFault` is its -EFAULT path. `exchange` and `data` are the two things
that omcid could take the ioctl's argument for.

### RxRing and Ploam

Two contexts: the interrupt handler (`isr`, `bits`) and the worker (`job`, `pc`, `msg`, `target`).
The Falcon has one CPU and none of the three work functions sleeps, so the worker's steps are taken
only while `isr = "idle"` and the works run one after another. Hardware (`dsFifo`, `intStatus`, `signal`) moves at
any time. The handler's steps: read the status, one step per message drained, the end of the loop
with `schedule_work`, loss of signal (a whole transition, which nothing interrupts), the write that
clears the bits read at entry. A transition of the worker is split where an interrupt changes its
outcome: comparison, assignment, `state_change_cb`, entry actions. The entry actions are one step: a loss of signal
between two of them ends like one before or after all of them, or leaves the laser armed in O1 with
TO1 running, which the model also reaches. A message is a record of its kind, its ONU-ID, whether
its serial number is ours, and the ONU-ID it assigns. A delayed work is idle, armed or queued;
`schedule_delayed_work` does nothing to a pending one, as in the kernel, and `cancel_delayed_work`
takes back one that is queued. The external parts are the FIFO and status bits of the GTC (bits that
stay set until written, modelled from how the handler reads and clears them) and the passing of time.

`Callbacks` is FALSE for the driver as it is: `falcon_gpon_probe` stores the callbacks and then calls
`falcon_ploam_init`, which clears the whole context. TRUE is the engine as its header describes it;
the properties about the laser are checked there. `LofEvents` is empty for the driver, in which nothing calls
`falcon_ploam_event_lof`, and {TRUE, FALSE} in the run that covers it.

### OmciCore

The event thread writes `msgFifo` (`MsgRecv`) and then posts (`MsgWakeUp`), and reports PLOAM states. The core thread's
`core` goes from `idle` through `wait`, `read`, `dispatch`, `retransmit`, `start` and `waiting` to `handled`; the action thread's `act`
through `lock`, `start`, `handle`, (`reset`), `publish`, `signal` and `unlock`. Each locked section of the code is
one step; accesses without a lock are steps of their own where the other thread can get between
them. IFXOS events are POSIX semaphores in this build, so `msgEvent`, `actionEvent` and `handledEvent`
count. `mib_reset` is called by two threads and split at its guard, its flag, the flush of the
retransmission memory, its two parts under the MIB lock, and the copy at its end. The contents of the MIB are abstracted: whether
`mib_data_sync` is 0 is a free choice in `ResetDestroy`, and the lock is a flag, since every other
holder that matters is a writer. A request has a transaction id, a kind, whether it wants an answer (AR) and whether
`msg_handle` accepts it; its handler has some result. The OLT (external) is stop-and-wait and
repeats a request at will. `Slow` says whether an action may outlast `action_timeout`.

### TimerSet and OnuData

`timeout_list` is a set of events with the time they have left; the thread's local copy of the event
it is about to run is `picked`. Between `Pick`, the handler and `RemovePicked` the list is unlocked and
every other thread may add and remove events: that is where a handler meets a copy that was renewed or
a slot that changed hands. An event names the copy its handler clears (`owner`).

`OnuData` knows the MIB by its revision and a copy by the revision it shows, so that "what the OLT reads is
what was announced" can be stated. Handlers of the action thread and of the timeout thread hold the lock of
the copy they use for their whole length and are one step. `mib_reset` is three (guard and destroy, reload, copy), because
it gives up its locks between them; the window inside its guard is `OmciCore`'s. `late` is a request that was
dispatched before the event thread's reset began: OMCI processing is switched off then, but the action
thread is still at work. Table slots are searched as the code does, by first match, with its eviction
of slot 0; `GetTableFails` is `class->tbl_copy` failing after the slot was taken. Out of memory in `mib_copy` is left out.

### SwImage

`me` holds the attributes of both image entities, `dl` their `internal_data`. An image's data is abstracted to
the set `good` of sections that lie where they belong; a bank of the flash to whether it holds all of
an image. The handler of a section (`Received`) is translated exactly, with its counters and its tolerance
of a gap of one; the OLT (external) sends windows of sections, which may be lost, and repeats the section or the
window. Threads are sets or sequences of the images they are at work for; each effect on the environment or
the flash is a step, and a loss of power (`PowerCycle`), a reboot (`WarmBoot`) or a reset of the MIB may come between any
two. The environment, the flash and the bank that runs survive; `shadow_committed`, the entities, the timers and the
activation register (`act`, kept over a reboot only) do not. The code looks only at whether `mtd` and `fw_setenv` exited, not with which status,
so every store, invalidation and commit may also report success without having written. Two history variables keep what
this and overlapping work can touch: `unsure`, the banks in doubt since such a failure or since an END that found other threads at work or the
entities amiss, and `amiss`, that a reset of the MIB read the entities back while a COMMIT was under way or that the last COMMIT failed unseen.
`EndDlCrash` is END with a null image pointer, after which procd starts omcid again. It is
taken only while no helper thread is at work, whose `mtd` or `fw_setenv` would outlive omcid.

### PmInterval

One counter of a class that omcid counts itself, `ip_host_monitoring_data`. `hw` is the number of events there
have been; what the code reads is `hw % Mod`. `cnt[curr]` and `cnt[Other(curr)]` are the two interval buffers, `data` is
where `me->data` points, which the SET handler relies on. Ghost variables keep the true count of each
interval, whether a SET has mixed the two buffers, whether the threshold was steady since the interval
began, and whether an alert was sent. `Mod`, the thresholds and `MaxHw` are parameters; `HwCounts` assumes that the counter
does not go round twice between two reads, which 60 s polls guarantee for 32 bits.

### MccGroup and MccThreads

Multicast control is compiled (`INCLUDE_MCC`) and entered from outside by its start, by the readers of its
lists and by its own packet thread. That thread needs a network device for exceptions, which the driver of this repository
does not offer; it is modelled for a driver that does. Nothing sets the VLAN mode, which stays unaware, so a port has one flow.

`MccGroup` is the data: the loop of `mcc_rep_process` takes one record per step, asks the access control
list (`WList`), cuts the record down to what is allowed (`Allowed`), compares the limit (`OverLimit`), and makes it the
filter of a client (`ClientAfter`) and of its group (`Fmode`, `Links`, `Refreshed`). Clients are in the order of the code's list, since
the mode of a group is that of its last client. `setup` says what kind of port it is; `hosts` is not in the code and keeps what
the hosts themselves want. There is no limit of bandwidth.

`MccThreads` is the control, with one record per report: who holds which lock, which group an event names, the two halves of
`mcc_fwd_refresh`, and the end of `mcc_rep_process`, which adds the port of the report to the entry of the report's destination after all locks are released
(`DestUpdate`; the destination of an IGMPv2 or MLDv1 report is the group itself). A rate limiter is kept only for a port with a subscriber entity (`RlGet`), so
every report of a port without one takes `mcc_omci_lock` under the port's lock. A group is known by the number of its allocation, so that a handler given a freed
one can be told (`ub`); `stray` holds the groups that lost sight of one of their events. Membership intervals (`AgeTimes`) may be shorter or longer than the
activity timeout, and of two events that are due any is taken. The driver is only given the port map; activity is always reported; the interoperability option is off.
`mcc_omci_lock` reads the MIB, which keeps no other reader out, and takes the mutexes of the multicast entities, which do exclude (`meLock`).

## 3. Runs

| Run | Instance | Shows |
|---|---|---|
| `onu_ring` | 2 producers, 1 reader, 3 slots, 3 events | FIFO refinement, no lost wake-up, a readable ring stays readable, unread events are read |
| `rx_ring` | 5 slots, 3 messages | `rx_queue` is the overrun queue |
| `ploam_driver` | 6 messages, 2 slots, no callbacks, LOF | `OperationUndisturbed`, `StandbyForgetsId`, `NoMessageStranded` |
| `ploam_live` | 2 messages, 3 slots, callbacks, fairness | `LaserGuarded`, `LaserGoesOff`, `QueuedIsHandled` |
| `ploam_callbacks` | 2 messages, no callbacks | **violation** of `DiscoveryIsLit` |
| `omci_prompt` | 4 requests, 2 repeats, actions in time, PLOAM O1 and O2, fairness | `ServedIsAnswered`, `RequestsAreTaken` |
| `omci_slow` | 3 requests, 2 repeats, late actions, PLOAM O2, failsafe | `OneAction`, `AtMostOnce`, `LockReleased`, `BusyNamesRunning`, `RequestIsStable` |
| `onu_data` | 3 tables, 2 slots, 3 timeout events, 3 revisions, `SyncMax` 2 | `UploadIsAnnounced`, `CopyLifetime`, `EventsAreOwn` |
| `sw_image` | 3 sections, windows of 2, guard on and off, 1 MIB reset, 1 timeout event | `AckedIsWritten`, `ImagesAreIntact`, `CommittedIsReported`, `RebootWaits`, `GuardKeepsBank` |
| `pm_interval` | a counter of two bits, thresholds 0 to 2, 9 events | `CountIsExact`, `HistoryIsExact`, `AlertIsExact` |
| `mcc_group` | 2 groups, 2 clients, 2 sources, 3 kinds of port: a limit of 2 streams, a list that changes, neither | `CapacityKept`, `ClientsAreHosts`, `NothingUnauthorised` |
| `mcc_threads` | 2 ports, without entities or with a subscriber on one of them, 1 client, 4 timeout events, 2 allocations, activity timeout 2, intervals 1 and 2, fairness | `OneCircularWait`, `GroupsAreForwarded`, `EventsNameGroups`, `PacketsEnd`, `QueriedAges` |

The runs of `OnuData`, `SwImage` and `MccGroup` also check `TypeOK`; that of every module is a theorem.

Bounds. The rings have 2, 3 or 5 slots instead of 64: a ring of 2 overruns with the second message, one of
3 holds two messages in order, and the proofs cover every size. `FifoDepth` = 1
bounds the GTC FIFO (its order is kept by the sequence whatever the depth); messages still arrive without end, so every sequence of
messages of the set occurs. ONU-IDs 1 and 2 are ours and another's. In `OmciCore` the number of
requests and `MaxRepeats` bound all counters; a FIFO of two overflows. In `OnuData` two slots
for three tables make evictions happen, a counter that wraps at 2 goes round within three changes, and `MaxIds` = 3 events are
enough for one to be picked, renewed and taken from its slot. In `SwImage` an image of three sections in windows of two has a full
and a short window; a loss of power or a restart of omcid clears the timers and all
other counters, so behaviours do not end. In `PmInterval` nine events take a
counter of two bits round twice. In `MccGroup` two clients with two sources can agree, overlap and differ, a limit of two is met
by one of them or by both, and behaviours have no end. In `MccThreads` four events and two allocations are enough for a
group to be made, asked for, overtaken, freed and made again on either port; an interval of 1 lets it age before its activity event, one of 2 with it or after it.

Fairness. `OnuEvents`: a reader that can run runs, a producer goes on from unlock to wake-up; the 5 s
timeout of `select` is not relied on. `Ploam`: interrupts are served and timers expire (weak); the
worker's steps are strongly fair because interrupts disable them again and again but each handler
ends; the liveness properties assume in addition that interrupts do not take the CPU for ever
(`[]<>(isr = "idle")`, `[]<>(job = "none" /\ isr = "idle")`), which no scheduler guarantees. `OmciCore`:
the three threads run (weak); handlers end. `MccThreads`: time passes (weak) and the threads run (strong, since a
lock that is free again and again is got in the end); nobody has to send reports or queries. No fairness is assumed of the hardware, of the OLT or of
the action timeout. Deadlock is checked in every run but `mcc_threads`, where behaviours end with the identifiers of the
bound, or in the circular wait; `OneCircularWait`, `PacketsEnd` and `QueriedAges` say that nobody is left waiting otherwise.

### Findings

`ploam_callbacks`: the callbacks are cleared by the initialisation that follows them, so in this driver the laser is never armed and no state change is reported.

Observations. The models also reach the following, which the properties leave room for:

- The guard against concurrent MIB resets is not atomic, so both threads can pass it (`O/omci_mib.c:1068`, against "Prevent concurrent
  mib_reset from event thread", line 1065).
- ACTIVATE counts `cant_reboot` up for good, so the OLT's reboot is refused from then on (`O/me/omci_sw_image.c:834`, against "The OLT can
  still reboot via the OMCI Reboot action if needed", `A/me/omci_api_sw_image.c:181`).
- A report of a port without a rate limiter takes `mcc_omci_lock` under the port's lock, the reader of the Lost
  Group List and the activity handler take them the other way round: the threads can wait for ever (`O/mcc/omci_mcc_core.c:1984`).
  A port with a subscriber entity has its limiter after the first report, one without never gets one. `OneCircularWait` says that this is the only circle.
- A report removes the events of its group, but the timeout thread may already hold a copy of one and wait for the port's lock: the group that was
  just reported is deleted (`O/mcc/omci_mcc_core.c:829`, "Remove aging timeout if pending"), or the handler is given a group that the report has freed (`ub`).
- The aging handler leaves the activity event of its group. With a membership interval below the 10 s of that event (the intervals begin at 1.1 s) its handler is given
  the freed group (`O/mcc/omci_mcc_core.c:801`).
- The ports of a forwarding entry are collected with the lock of one port, so a group that is aged on another one at that moment stays in
  the entry (`O/mcc/omci_mcc_core.c:1196`).
- An IGMPv2 or MLDv1 report adds its port to the group's entry after all locks are released, also when it was refused and is only passed on, or
  when the group has been aged in between: the port stays in the entry without a group (`O/mcc/omci_mcc_core.c:2191`, `:1327`).
- The mode of a group is that of its last client, so one that includes hides one that excludes (`O/mcc/omci_mcc_core.c:740`, against "EXCLUDE overrides any INCLUDE").
- A source mode, once set, stays: after an ALLOW or BLOCK a record that replaces the filter adds to it or takes from it. A host that
  has left can keep its group, and a list of excluded sources can become one of included ones that the access control list does not allow
  (`O/mcc/omci_mcc_core.c:399`). `ClientsAreHosts` ends there, and it is the one exception of `NothingUnauthorised` (`TurnsAround`).
- `mcc_src_find` is given the group's links, which are linked through another field than it expects; at the limit of streams a client's repeated report is
  counted as new and discarded (`O/mcc/omci_mcc_core.c:1630`).
- A record for a group that the address table does not carry ends the report with an error instead of being skipped
  (`O/mcc/omci_mcc_core.c:1780`, "Match not found — skip"); the records before it stay applied, although the report is not sent on.
- A record without sources counts as one stream where the list names none, an exclusion without a common source as none, so that
  `CapacityKept` is stated for lists that name sources (`O/mcc/omci_mcc_core.c:1626`).
- A report with one unauthorized and one discarded record is sent on, although neither was accepted (`O/mcc/omci_mcc_core.c:2170`).
- END after a START that failed for want of memory computes a CRC over a null pointer, and procd starts omcid again (`O/me/omci_sw_image.c:660`).
- ASSIGN_ONU_ID has no state guard, so O5 can be reached from O1 with the laser off (`K/falcon_ploam.c:258`).
- O7 is left by loss of signal, a timeout, DEACTIVATE and ASSIGN_ONU_ID (`K/falcon_ploam.c:347`).
- Another ONU's ranging message, queued before our id was assigned, is applied afterwards, because the
  filter runs when a message is queued (`K/falcon_ploam.c:115`).
- The drain of the hardware FIFO stops at a message for another ONU and leaves what is behind it
  unread until the next interrupt (`K/falcon_ploam.c:334`).
- A loss of signal between comparison and assignment of the state is overwritten for good (`K/falcon_ploam.c:133`).
- A request whose action takes too long is answered with result 0, success, since the lines that would
  say busy are commented out (`O/omci_core.c:547`, against `O/omci_core.h:231`).
- The ioctl writes an event over omcid's exchange header instead of its data buffer; omcid sees id 0 and ignores
  every event (`K/falcon_onu_dev.c:164`, `A/omci_api.c:1004`).
- The event of an action that ended too late is never taken and makes the core thread take a later action for
  completed: that request is answered as if it had timed out, and leaves a token again (`O/omci_core.c:637`).
- A timeout handler that was chosen before its event was removed clears the fresh copy and forgets the new
  event (`O/me/omci_onu_data.c:57`): an upload can be cut off right after it was announced.
- When the copy of an unchanged MIB has timed out, MIB UPLOAD fails until the MIB changes or is reset (`O/me/omci_onu_data.c:303`).
- A table slot whose `tbl_copy` failed is valid, empty, and has no timeout (`O/omci_me_handlers.c:457`).
- Changes the ONU makes to its MIB by itself are not counted in `mib_data_sync`; in failsafe mode failing requests are (`O/omci_core.c:808`).
- A failed store leaves the image's status at WRITING, so that END is answered busy for ever (`O/me/omci_sw_image.c:547`); the exit
  status of `mtd` and `fw_setenv` is not looked at (`A/me/omci_api_sw_image_falcon.c:239`, `:367`), so a bank that was not written can be called valid.
- A reset of the MIB while a COMMIT's `fw_setenv` runs reads the old environment back: the entities then name the wrong bank as committed until the next COMMIT
  or reset, and the bank that U-Boot will start is open to the next download (`A/me/omci_api_sw_image_falcon.c:669`).
- The timeout event of a download outlives a reset of the MIB with a pointer to the freed entity (`O/me/omci_sw_image.c:219`).
- A commit thread that is replaced never counts `cant_reboot` down (`A/me/omci_api_sw_image.c:242`).
- A store or commit may begin in the 10 s between an accepted reboot and the reboot (`O/omci_me_handlers.c:114`).
- SET of the Threshold Data pointer of a PM entity, after a GET has left `me->data` at the history, writes the history's
  counters over the current ones (`O/omci_me_handlers.c:324`); in every case the threshold in force afterwards is the one of the old pointer,
  since `pm_me_thr_set` runs before the new attributes are stored (`O/omci_me_handlers.c:311`).
- `tca_bitmap` is not initialised when a PM entity is created, so the first interval may report no alert (`O/omci_pm.c:607`); that interval
  also counts everything since the ONU started.
- DELETE of a PM entity whose `me->data` is the history frees that buffer twice (`O/omci_pm.c:661`, `O/omci_mib.c:751`).

## 4. Proofs

All theorems hold for every value of the constants that satisfies the named assumptions of the modules
(ring sizes of at least two; messages, requests and reports of the right shape; finitely many readers, groups and sources). What a
theorem needs beyond that is a hypothesis in its statement, and explained below. Every invariant that a run checks is stated
by a theorem, and so is every action property and both refinements.

- `DriverQueues_proofs`: lemmas on how `Contents` changes when an index advances (empty, append, overwrite, drop), which serve both rings.
  For `OnuEvents`: `TypeCorrect`; `NoWakeupIsLost` (with the types the property is inductive:
  whoever falls asleep saw an empty ring, and who fills it is in `waking` until it has woken everybody); `ReadableKept` (a push never empties the ring, and a
  reader that is the only one is the only one that could); `RingImplementsQueue`, step by step: a push is `Push`, a dequeue is `Pop`, the rest stutters.
  For `RxRing`: `RxTypeCorrect` and `RxRingImplementsQueue` in the same way.
- `Ploam_proofs`: `TypeCorrect`; `NothingStranded`, which is inductive as it stands (a worker that has
  found the queue empty and not yet returned does not count as somebody who will look); `NoTimeoutInOperation` through `TimerInv`, which
  says what holds at each point of a half-done transition, when the state is written and the timers
  are not yet cancelled; `IdForgotten` through `IdInv`, which follows the ONU-ID through the three
  steps of ASSIGN_ONU_ID; `LaserAlwaysGuarded` through `LaserInv`, for an engine without LOF events. With
  them the property is false: an LOF indication that clears takes O1 to O2 with the laser still armed.
- `OmciCore_proofs`: `TypeCorrect`; `ActionInv` adds to `OneAction` that the core thread is between
  dispatch and hand-over only while `run` is clear, that the request is its own while it waits, and
  that it leaves that request's busy answer behind when it gives up. `ActionsAreSerial`,
  `RequestNotOverwritten` (an action property) and `BusyAnswerIsRight` follow. `MibLockIsReleased` rests on
  `LockInv`: the lock is held only where the thread's own `mt` says that it will be released.
  `ExecutedOnce` is about transaction ids, so it supposes that the OLT gives every request its own (`FreshTids`). `OrderInv` says that requests
  keep their order from the OLT through `msg_fifo` to the action thread, and `DoneInv` that one which was executed lies behind the one at hand, or is that one
  and will be found in the retransmission memory. `AnsweredRightly` holds while no action outlasts `action_timeout` (`~Slow`; otherwise the token of a late
  action answers the next request, an observation above) and outside failsafe mode, where errors get an empty answer. `PromptInv` says that the threads then take turns
  and no token is left over, `AnswerInv` which request each response on its way belongs to.
- `OnuData_proofs`, for any number of tables, slots and events: `TypeCorrect`; `UploadConsistent` through `ResetInv` (while `mib_data_sync` is 0 and no reset is
  half done, the copy of the last reset still is the MIB); `CopiesExpire` and `EventsOwned` through `CopyInv`: keys of slots are unique (`SlotInv`), every identifier
  that is remembered or held was given out and is never given out again (`IdInv`), and when the timeout thread is about to remove the event of a copy its
  handler has not run yet (`PickedInv`), so that none of the interleavings of a renewal with a handler leaves a copy without an event.
- `SwImage_proofs`, for any number of sections, any window and any loss: `TypeCorrect`; `AckedWritten` through `WindowInv` (all sections before the one the
  handler waits for are in place, unless it knows that it has missed one); `RebootIsHeld` through `BusyInv` (`cant_reboot` is at least the number of threads that
  will count it down); `GuardKeeps`; `CommittedReported` and `ImagesIntact` for resets, restarts and unseen failures at any time. `ReportInv` says which bank the entities show while commits wait
  and the entities are not amiss, `BankInv` that a bank being written which is not in doubt is none that U-Boot, an entity or a waiting COMMIT takes for whole.
- `PmInterval_proofs`: `TypeCorrect`, and for a counter of any width `CountExact` and `HistoryExact` through `ReadInv` (the absolute counter is the
  reading at `last`, and the hardware has not gone round since, so that by `SubIsDistance` the difference of two readings is
  the number of events between them) and `AlertExact` through `AlertInv` (since the interval had a clean start the alert bit is set exactly when an alert was sent).
- `MccThreads_proofs`, for any number of ports and clients and any timeouts: `TypeCorrect` with `ControlInv` (a lock's holder stands at a place
  where it has it; the bounds are reserved when a report is received). `LockOrder` through `LockInv` (the reader of the Lost Group List has the ports below the one it waits for,
  and the packet thread has `mcc_omci_lock` only between taking it and its release): the reader waits only for the packet thread, which does not wait while it has a port, except where it
  asks for a limiter; and it does not wait for a timeout thread that waits for it. `GroupsForwarded` through `FwdInv`, which says what the packet thread carries
  between the two halves of `mcc_fwd_refresh`; it needs no word about freed groups. `EventsNameLiveGroups` through `NumberInv` (identifiers are
  never given out twice) and `EventInv` (every event that is not only waiting to be removed is known to its group, and what the timeout thread holds is still in the list, for all groups but the stray ones).
- `MccGroup_proofs`, for any groups, clients, sources, lists and reports. `OneClientChanges` is the central lemma: since an including client
  always includes something (`Including`, part of `GroupsInv`), `mcc_grp_refresh` never deletes a group that has clients, and a record changes its own client and no other.
  `TypeCorrect` rests on `PktOK` (a record is still to come, counted as refused, or applied). `LimitIsKept` needs `IncludeInv` (where the list names sources and stays, nobody excludes, so that the links of a group are what its clients include) and
  counts: a record adds at most the streams that `mcc_rec_restrict` has compared with the limit. `OnlyAuthorised` is an action property of all ports whose list
  is that of a subscriber entity: a client that joins or replaces a filter gets what `Allowed` leaves of the record, one that changes its filter adds only that to it, and what a record does to an excluding filter that was changed
  before is the stated exception. `ClientsFollowHosts` supposes that the GEM port carries every group (`AllCarried`; the host of a report that fails there has not been heard) and goes
  through `HostsInv`, which adds to the property that a host which has not changed its filter has a client without a source mode.

Only model-checked: the liveness properties `UnreadIsRead`, `LaserGoesOff`, `QueuedIsHandled`, `RequestsAreTaken`, `PacketsEnd` and `QueriedAges`
(fairness and ENABLED are out of the prover's reach), and the violation of `DiscoveryIsLit`.

## 5. Not modelled

In the driver: `falcon_ploam_destroy`, probe and remove (their hazards are visible in the order of their
lines), the network interface, DMA and firmware (never reached, since `gpe_ready` is never set), BOSA
registers, the ioctls that answer with constants, `/dev/optic0`. In omcid: thread start and shutdown, the
alarm thread and ARC, PM of counters that the hardware keeps, static flows, the active group list, monitoring counters and bandwidth of multicast
control, its older layer `A/mcc/omci_api_mcc.c` (its `mcc_init` and `mcc_start` are skipped, so its threads never run), the attributes of the managed entities; serial number, password and payload formats;
`lib_ifxos` beyond what its users see; LuCI, build scripts, device trees. `mib_destroy` failing is left out: it
fails only for a class that is missing from the static class table. So is memory that runs out, except where it changes the control
that is modelled (START, END, table copies).

The models stand for the repository's control logic, a small part of its lines. Most of the rest are
register and table layouts of the packet engine (`omcid/src/include`), one API function per
managed entity that copies attributes into those tables, a generated command line, message dumps and the vendored
`lib_ifxos`: data without decisions that a model checker could explore, or code this firmware does not build.

## 6. Plan

1. An abstract specification of the retransmission memory that `OmciCore` implements: each request is executed once and its answer repeated.
2. Alarms and ARC on `TimerSet`: `alarm_seq_num` is read, increased and sent in three critical sections of two threads.
3. Probe, remove and `falcon_ploam_destroy` against interrupts and works; the omcid event thread as the composition of `OnuEvents` and `OmciCore`.
