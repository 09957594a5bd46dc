------------------------------ MODULE OmciCore ------------------------------
(***************************************************************************)
(* How omcid serves the OMCI requests of the OLT: omci_core.c, with the    *)
(* callbacks of omci_interface.c that feed it and mib_reset of omci_mib.c. *)
(*                                                                         *)
(* Three threads.  The event thread puts received requests into msg_fifo   *)
(* and reports PLOAM states.  The core thread takes one request at a time  *)
(* and hands it to the action thread, for which it waits at most           *)
(* action_timeout.  The action thread executes it.  They meet in           *)
(* context->action, in three IFXOS events (POSIX semaphores: they count)   *)
(* and in the retransmission memory, one response per priority.            *)
(*                                                                         *)
(* The OLT is stop-and-wait: it repeats a request until it has an answer.  *)
(***************************************************************************)
EXTENDS Naturals, Sequences

CONSTANTS
  Requests,     \* what the OLT asks, in order: records [tid, kind, ar, ok]
  HighPrio,     \* transaction ids (tci) with bit 0x8000
  FifoSize,     \* messages msg_fifo holds (1024)
  Slow,         \* can an action take longer than action_timeout?
  Failsafe,     \* context->failsafe
  PloamStates,  \* PLOAM states reported to ploam_state_change_cb
  MaxRepeats    \* bound: how often the OLT repeats a request, in all

Kinds == {"GET", "CHANGE", "MIB_RESET"}

ASSUME RequestAssumption ==
  Requests \in Seq([tid : Nat, kind : Kinds, ar : BOOLEAN, ok : BOOLEAN])
ASSUME BoundAssumption ==
  FifoSize \in Nat \ {0} /\ MaxRepeats \in Nat /\ Slow \in BOOLEAN /\ Failsafe \in BOOLEAN

Tids == {Requests[i].tid : i \in DOMAIN Requests}
Message == {Requests[i] : i \in DOMAIN Requests}
Results == {"success", "error"}

\* omci_msg_type_ak tells whether a response is to be sent.
Response == [tid : Nat, ak : BOOLEAN, result : Results]
NoRsp == [tid |-> 0, ak |-> FALSE, result |-> "success"]
NoMsg == [tid |-> 0, kind |-> "GET", ar |-> FALSE, ok |-> FALSE]

Threads == {"event", "action"}   \* those that call mib_reset

VARIABLES
  sent, repeats, answered,   \* the OLT: requests sent, repeats, has it the answer?
  msgFifo, msgEvent,         \* msg_fifo; count of msg_event
  posting,                   \* event thread: between writing msg_fifo and EventWakeUp
  omci_enabled,
  core, msg,                 \* core thread: where it is, its msg
  tx,                        \* the response it sent last
  busyRsp,                   \* the static rsp of service_busy_device
  run, ready, actionMsg, actionRsp,   \* context->action
  actionEvent, handledEvent, \* counts of action_event and action_handled_event
  act, mt, rsp,              \* action thread: where it is, its locals
  mibHeld,                   \* does the action thread hold the MIB lock?
  retransmit,                \* retransmit[p]: the response remembered, or NoRsp
  reset, mib_reset_in_progress,   \* reset[t]: where thread t is in mib_reset
  done                       \* history: how often a request was executed since the
                             \* last flush of retransmit, last result

olt    == <<sent, repeats, answered>>
fifo   == <<msgFifo, msgEvent, posting, omci_enabled>>
coreV  == <<core, msg, tx, busyRsp>>
action == <<run, ready, actionMsg, actionRsp>>
events == <<actionEvent, handledEvent>>
actV   == <<act, mt, rsp, mibHeld, done>>
mib    == <<reset, mib_reset_in_progress>>
vars   == <<sent, repeats, answered, msgFifo, msgEvent, posting, omci_enabled,
            core, msg, tx, busyRsp, run, ready, actionMsg, actionRsp,
            actionEvent, handledEvent, act, mt, rsp, mibHeld, done,
            retransmit, reset, mib_reset_in_progress>>

\* omci_init has run: the MIB is there and processing is enabled.
Init ==
  /\ sent = 0 /\ repeats = 0 /\ answered = TRUE
  /\ msgFifo = << >> /\ msgEvent = 0 /\ posting = FALSE /\ omci_enabled = TRUE
  /\ core = "idle" /\ msg = NoMsg /\ tx = NoRsp /\ busyRsp = NoRsp
  /\ run = FALSE /\ ready = FALSE /\ actionMsg = NoMsg /\ actionRsp = NoRsp
  /\ actionEvent = 0 /\ handledEvent = 0
  /\ act = "idle" /\ mt = "GET" /\ rsp = NoRsp /\ mibHeld = FALSE
  /\ done = [t \in Tids |-> [n |-> 0, result |-> "success"]]
  /\ retransmit = [p \in {0, 1} |-> NoRsp]
  /\ reset = [t \in Threads |-> "out"] /\ mib_reset_in_progress = FALSE

-----------------------------------------------------------------------------
(* The event thread.                                                       *)

EventIdle == ~posting /\ reset["event"] = "out"

\* omci_msg_recv up to the unlock.  A full FIFO drops the message.
MsgRecv(m) ==
  /\ EventIdle
  /\ IF Len(msgFifo) < FifoSize
       THEN msgFifo' = Append(msgFifo, m) /\ posting' = TRUE
       ELSE UNCHANGED <<msgFifo, posting>>
  /\ UNCHANGED <<msgEvent, omci_enabled, coreV, action, events, actV, retransmit, mib>>

\* The OLT sends its next request once it has the answer to the last one.
OltSend ==
  /\ answered /\ sent < Len(Requests)
  /\ MsgRecv(Requests[sent + 1])
  /\ sent' = sent + 1
  /\ answered' = (~Requests[sent + 1].ar \/ ~Requests[sent + 1].ok)
  /\ UNCHANGED repeats

\* It repeats the request: no answer came in time, or the answer was lost.
OltRepeat ==
  /\ sent > 0 /\ repeats < MaxRepeats /\ Requests[sent].ar
  /\ MsgRecv(Requests[sent])
  /\ repeats' = repeats + 1
  /\ UNCHANGED <<sent, answered>>

\* IFXOS_EventWakeUp(&context->msg_event).
MsgWakeUp ==
  /\ posting
  /\ msgEvent' = msgEvent + 1
  /\ posting' = FALSE
  /\ UNCHANGED <<olt, msgFifo, omci_enabled, coreV, action, events, actV, retransmit, mib>>

\* ploam_state_change_cb for the states in which the ONU is not operating.
PloamStateChange(s) ==
  /\ EventIdle
  /\ msgFifo' = << >>
  /\ reset' = IF s = 2 THEN [reset EXCEPT !["event"] = "check"] ELSE reset
  /\ UNCHANGED <<olt, msgEvent, posting, omci_enabled, coreV, action, events, actV,
                 retransmit, mib_reset_in_progress>>

\* omci_processing_enable, from the command line.
ProcessingEnable ==
  /\ omci_enabled' = ~omci_enabled
  /\ UNCHANGED <<olt, msgFifo, msgEvent, posting, coreV, action, events, actV,
                 retransmit, mib>>

-----------------------------------------------------------------------------
(* The core thread.                                                        *)

\* rsp_create: an empty response.  Its result field is 0, OMCI_MR_CMD_PROCESSED.
RspCreate(m) == [tid |-> m.tid, ak |-> m.ar, result |-> "success"]

Prio(tid) == IF tid \in HighPrio THEN 1 ELSE 0

\* omci_msg_send; the OLT has its answer when the transaction id is the last one's.
Send(r) == /\ tx' = r
           /\ answered' = (answered \/ r.tid = Requests[sent].tid)
           /\ UNCHANGED <<sent, repeats>>

\* The top of the loop: sleep while disabled, and look at the FIFO.
CoreLoop ==
  /\ core = "idle" /\ omci_enabled
  /\ core' = IF msgFifo = << >> THEN "wait" ELSE "read"
  /\ UNCHANGED <<olt, fifo, msg, tx, busyRsp, action, events, actV, retransmit, mib>>

\* IFXOS_EventWait(&context->msg_event): a token, or the timeout.
CoreWait ==
  /\ core = "wait"
  /\ IF msgEvent > 0 THEN core' = "read" /\ msgEvent' = msgEvent - 1
                     ELSE core' = "idle" /\ UNCHANGED msgEvent
  /\ UNCHANGED <<olt, msgFifo, posting, omci_enabled, msg, tx, busyRsp, action, events,
                 actV, retransmit, mib>>

\* IFX_Var_Fifo_readElement and the copy, under the lock.
CoreRead ==
  /\ core = "read"
  /\ IF msgFifo = << >>
       THEN core' = "idle" /\ UNCHANGED <<msgFifo, msg>>
       ELSE core' = "dispatch" /\ msg' = Head(msgFifo) /\ msgFifo' = Tail(msgFifo)
  /\ UNCHANGED <<olt, msgEvent, posting, omci_enabled, tx, busyRsp, action, events,
                 actV, retransmit, mib>>

\* The dispatch of a core thread that does not look at action.run.
CoreDispatchAlways ==
  /\ core = "dispatch"
  /\ IF ready /\ actionRsp.ak
       THEN core' = "idle" /\ ready' = FALSE /\ Send(actionRsp)
       ELSE core' = "retransmit" /\ ready' = FALSE /\ UNCHANGED <<olt, tx>>
  /\ UNCHANGED <<fifo, msg, busyRsp, run, actionMsg, actionRsp, events, actV,
                 retransmit, mib>>

\* action.run: service_busy_device(context, NULL) sends the last busy response
\* again.  Otherwise service_delayed_action.
CoreDispatch ==
  /\ core = "dispatch"
  /\ \/ /\ run
        /\ core' = "idle" /\ Send(busyRsp)
        /\ UNCHANGED ready
     \/ /\ ~run /\ ready /\ actionRsp.ak
        /\ core' = "idle" /\ Send(actionRsp)
        /\ ready' = FALSE
     \/ /\ ~run /\ ~(ready /\ actionRsp.ak)
        /\ core' = "retransmit"
        /\ ready' = FALSE
        /\ UNCHANGED <<olt, tx>>
  /\ UNCHANGED <<fifo, msg, busyRsp, run, actionMsg, actionRsp, events, actV,
                 retransmit, mib>>

\* A memory that is never consulted.
CoreRetransmitNever ==
  /\ core = "retransmit"
  /\ core' = "start"
  /\ UNCHANGED <<olt, tx, fifo, msg, busyRsp, action, events, actV, retransmit, mib>>

\* A memory that is consulted without looking at the transaction id.
CoreRetransmitAny ==
  /\ core = "retransmit"
  /\ LET r == retransmit[Prio(msg.tid)] IN
       IF r.ak THEN core' = "idle" /\ Send(r) ELSE core' = "start" /\ UNCHANGED <<olt, tx>>
  /\ UNCHANGED <<fifo, msg, busyRsp, action, events, actV, retransmit, mib>>

\* service_retransmission.
CoreRetransmit ==
  /\ core = "retransmit"
  /\ LET r == retransmit[Prio(msg.tid)] IN
       IF r.ak /\ r.tid = msg.tid
         THEN core' = "idle" /\ Send(r)
         ELSE core' = "start" /\ UNCHANGED <<olt, tx>>
  /\ UNCHANGED <<fifo, msg, busyRsp, action, events, actV, retransmit, mib>>

\* service_action up to the wait.
CoreStart ==
  /\ core = "start"
  /\ actionRsp' = RspCreate(msg) /\ actionMsg' = msg
  /\ run' = TRUE
  /\ actionEvent' = actionEvent + 1
  /\ core' = "waiting"
  /\ UNCHANGED <<olt, fifo, msg, tx, busyRsp, ready, handledEvent, actV, retransmit, mib>>

\* A busy answer that is built only once.
ServiceBusyStale ==
  /\ busyRsp' = IF busyRsp = NoRsp THEN RspCreate(msg) ELSE busyRsp
  /\ Send(busyRsp')
  /\ core' = "idle"

\* service_busy_device(context, msg).
ServiceBusy ==
  /\ busyRsp' = RspCreate(msg)
  /\ Send(RspCreate(msg))
  /\ core' = "idle"

\* IFXOS_EventWait(&context->action_handled_event) takes a token, ...
CoreHandled ==
  /\ core = "waiting" /\ handledEvent > 0
  /\ handledEvent' = handledEvent - 1
  /\ core' = "handled"
  /\ UNCHANGED <<olt, fifo, msg, tx, busyRsp, action, actionEvent, actV, retransmit, mib>>

\* ... or times out.
CoreTimeout ==
  /\ core = "waiting" /\ handledEvent = 0 /\ Slow
  /\ ServiceBusy
  /\ UNCHANGED <<fifo, msg, action, events, actV, retransmit, mib>>

\* The rest of service_action.
CoreAnswer ==
  /\ core = "handled"
  /\ \/ /\ run
        /\ ServiceBusy
        /\ UNCHANGED ready
     \/ /\ ~run
        /\ ready' = FALSE
        /\ core' = "idle"
        /\ IF actionRsp.ak THEN Send(actionRsp) ELSE UNCHANGED <<olt, tx>>
        /\ UNCHANGED busyRsp
  /\ UNCHANGED <<fifo, msg, run, actionMsg, actionRsp, events, actV, retransmit, mib>>

Core == \/ CoreLoop \/ CoreWait \/ CoreRead \/ CoreDispatch \/ CoreRetransmit
        \/ CoreStart \/ CoreHandled \/ CoreTimeout \/ CoreAnswer

-----------------------------------------------------------------------------
(* mib_reset(context, false), called by thread t.                          *)

ResetGoes(t, to) == reset' = [reset EXCEPT ![t] = to]

\* The guard, without a lock ...
ResetCheck(t) ==
  /\ reset[t] = "check"
  /\ ResetGoes(t, IF mib_reset_in_progress THEN "out" ELSE "set")
  /\ UNCHANGED <<olt, fifo, coreV, action, events, actV, retransmit, mib_reset_in_progress>>

\* ... and the flag.
ResetSet(t) ==
  /\ reset[t] = "set"
  /\ mib_reset_in_progress' = TRUE
  /\ ResetGoes(t, "flush")
  /\ UNCHANGED <<olt, fifo, coreV, action, events, actV, retransmit>>

\* The action thread has a request and has not published its response.
Handling == act \in {"lock", "start", "handle", "reset", "publish"}

\* retransmit_flush.  The response to a request being handled is remembered later.
ResetFlush(t) ==
  /\ reset[t] = "flush"
  /\ retransmit' = [p \in {0, 1} |-> NoRsp]
  /\ done' = [i \in Tids |-> [n |-> IF Handling /\ i = actionMsg.tid THEN done[i].n ELSE 0,
                              result |-> done[i].result]]
  /\ ResetGoes(t, "destroy")
  /\ UNCHANGED <<olt, fifo, coreV, action, events, act, mt, rsp, mibHeld,
                 mib_reset_in_progress>>

\* The first section under the MIB lock.  A MIB whose mib_data_sync is 0 is kept.
ResetDestroy(t) ==
  /\ reset[t] = "destroy" /\ ~mibHeld
  /\ \E kept \in BOOLEAN : ResetGoes(t, IF kept THEN "clear" ELSE "rebuild")
  /\ UNCHANGED <<olt, fifo, coreV, action, events, actV, retransmit, mib_reset_in_progress>>

\* mib_on_reset and mib_lct_create, under the MIB lock again.
ResetRebuild(t) ==
  /\ reset[t] = "rebuild" /\ ~mibHeld
  /\ ResetGoes(t, "copy")
  /\ UNCHANGED <<olt, fifo, coreV, action, events, actV, retransmit, mib_reset_in_progress>>

\* mib_copy, under the lock of the copy only.
ResetCopy(t) ==
  /\ reset[t] = "copy"
  /\ ResetGoes(t, "clear")
  /\ UNCHANGED <<olt, fifo, coreV, action, events, actV, retransmit, mib_reset_in_progress>>

ResetClear(t) ==
  /\ reset[t] = "clear"
  /\ mib_reset_in_progress' = FALSE
  /\ ResetGoes(t, "out")
  /\ UNCHANGED <<olt, fifo, coreV, action, events, actV, retransmit>>

MibReset(t) == \/ ResetCheck(t) \/ ResetSet(t) \/ ResetFlush(t)
               \/ ResetDestroy(t) \/ ResetRebuild(t) \/ ResetCopy(t) \/ ResetClear(t)

-----------------------------------------------------------------------------
(* The action thread.                                                      *)

\* IFXOS_EventWait(&context->action_event); mt is read from action.msg.
ActTake ==
  /\ act = "idle" /\ actionEvent > 0
  /\ actionEvent' = actionEvent - 1
  /\ mt' = actionMsg.kind
  /\ act' = "lock"
  /\ UNCHANGED <<olt, fifo, coreV, action, handledEvent, rsp, mibHeld, done, retransmit, mib>>

\* The MIB lock, for writing or for reading, but not for a MIB reset.
ActLock ==
  /\ act = "lock"
  /\ mt # "MIB_RESET" => ~mibHeld
  /\ mibHeld' = (mibHeld \/ mt # "MIB_RESET")
  /\ act' = "start"
  /\ UNCHANGED <<olt, fifo, coreV, action, events, mt, rsp, done, retransmit, mib>>

\* The locked section before msg_handle.
ActStart ==
  /\ act = "start"
  /\ ready' = FALSE
  /\ rsp' = actionRsp
  /\ act' = "handle"
  /\ UNCHANGED <<olt, fifo, coreV, run, actionMsg, actionRsp, events, mt, mibHeld, done,
                 retransmit, mib>>

\* msg_handle's response: none to a message that is itself a response or is
\* malformed.  In failsafe mode every error becomes an empty response.
HandleRsp(m, result) ==
  IF Failsafe /\ (~m.ok \/ result = "error")
    THEN RspCreate(m)
    ELSE [tid |-> m.tid, ak |-> m.ar /\ m.ok, result |-> result]

\* The entity's action handler is run, with some result; the one of a MIB reset
\* calls mib_reset when the entity is found.
ActHandle ==
  /\ act = "handle"
  /\ actionMsg.ok
  /\ \E result \in Results :
       /\ rsp' = HandleRsp(actionMsg, result)
       /\ done' = [done EXCEPT ![actionMsg.tid] = [n |-> @.n + 1, result |-> result]]
       /\ IF mt = "MIB_RESET" /\ result = "success"
            THEN act' = "reset" /\ ResetGoes("action", "check")
            ELSE act' = "publish" /\ UNCHANGED reset
  /\ UNCHANGED <<olt, fifo, coreV, action, events, mt, mibHeld, retransmit,
                 mib_reset_in_progress>>

\* msg_handle refuses the message.
ActRefuse ==
  /\ act = "handle"
  /\ ~actionMsg.ok
  /\ rsp' = HandleRsp(actionMsg, "success")
  /\ act' = "publish"
  /\ UNCHANGED <<olt, fifo, coreV, action, events, mt, mibHeld, done, retransmit, mib>>

\* mib_reset_action_handle is back from mib_reset.
ActReset ==
  /\ act = "reset" /\ reset["action"] = "out"
  /\ act' = "publish"
  /\ UNCHANGED <<olt, fifo, coreV, action, events, mt, rsp, mibHeld, done, retransmit, mib>>

\* The locked section after msg_handle: rsp_remember, run, ready.
ActPublish ==
  /\ act = "publish"
  /\ actionRsp' = rsp
  /\ retransmit' = IF rsp.ak THEN [retransmit EXCEPT ![Prio(actionMsg.tid)] = rsp]
                             ELSE retransmit
  /\ run' = FALSE /\ ready' = TRUE
  /\ act' = "signal"
  /\ UNCHANGED <<olt, fifo, coreV, actionMsg, events, mt, rsp, mibHeld, done, mib>>

\* IFXOS_EventWakeUp(&context->action_handled_event).
ActSignal ==
  /\ act = "signal"
  /\ handledEvent' = handledEvent + 1
  /\ act' = "unlock"
  /\ UNCHANGED <<olt, fifo, coreV, action, actionEvent, mt, rsp, mibHeld, done,
                 retransmit, mib>>

\* An unlock that looks at the shared message again instead of at mt.
ActUnlockReread ==
  /\ act = "unlock"
  /\ mibHeld' = (mibHeld /\ actionMsg.kind = "MIB_RESET")
  /\ act' = "idle"
  /\ UNCHANGED <<olt, fifo, coreV, action, events, mt, rsp, done, retransmit, mib>>

\* mib_unlock, unless mt was a MIB reset.
ActUnlock ==
  /\ act = "unlock"
  /\ mibHeld' = (mibHeld /\ mt = "MIB_RESET")
  /\ act' = "idle"
  /\ UNCHANGED <<olt, fifo, coreV, action, events, mt, rsp, done, retransmit, mib>>

Action == \/ ActTake \/ ActLock \/ ActStart \/ ActHandle \/ ActRefuse \/ ActReset
          \/ ActPublish \/ ActSignal \/ ActUnlock

Next == \/ OltSend \/ OltRepeat \/ MsgWakeUp
        \/ \E s \in PloamStates : PloamStateChange(s)
        \/ ProcessingEnable
        \/ \E t \in Threads : MibReset(t)
        \/ Core \/ Action

\* The three threads run, and every handler comes to an end.
Fairness == /\ WF_vars(MsgWakeUp)
            /\ \A t \in Threads : WF_vars(MibReset(t))
            /\ WF_vars(Core) /\ WF_vars(Action)

Spec == Init /\ [][Next]_vars
FairSpec == Spec /\ Fairness

-----------------------------------------------------------------------------
(* Properties.                                                             *)

CorePcs == {"idle", "wait", "read", "dispatch", "retransmit", "start", "waiting", "handled"}
ActPcs == {"idle", "lock", "start", "handle", "reset", "publish", "signal", "unlock"}
ResetPcs == {"out", "check", "set", "flush", "destroy", "rebuild", "copy", "clear"}

\* The variables keep their types.
TypeOK ==
  /\ sent \in 0 .. Len(Requests) /\ repeats \in 0 .. MaxRepeats /\ answered \in BOOLEAN
  /\ msgFifo \in Seq(Message) /\ Len(msgFifo) <= FifoSize
  /\ msgEvent \in Nat /\ posting \in BOOLEAN /\ omci_enabled \in BOOLEAN
  /\ core \in CorePcs /\ msg \in Message \cup {NoMsg}
  /\ tx \in Response /\ busyRsp \in Response
  /\ run \in BOOLEAN /\ ready \in BOOLEAN
  /\ actionMsg \in Message \cup {NoMsg} /\ actionRsp \in Response
  /\ actionEvent \in Nat /\ handledEvent \in Nat
  /\ act \in ActPcs /\ mt \in Kinds /\ rsp \in Response /\ mibHeld \in BOOLEAN
  /\ done \in [Tids -> [n : Nat, result : Results]]
  /\ retransmit \in [{0, 1} -> Response]
  /\ reset \in [Threads -> ResetPcs] /\ mib_reset_in_progress \in BOOLEAN

\* action.run, which only the core thread sets and only the action thread clears,
\* without a lock, is exact: it is set while there is one request to execute,
\* waiting in action_event or being handled, and there are never two.
OneAction ==
  actionEvent + (IF Handling THEN 1 ELSE 0) = (IF run THEN 1 ELSE 0)

\* The action thread works on context->action.msg itself, which the core thread
\* overwrites when it hands over a request: never while one is handled.
RequestIsStable == [][Handling => actionMsg' = actionMsg]_vars

\* A request that the OLT repeats, because an answer was late or lost, is
\* executed once: repeats are answered from the retransmission memory, by the
\* delayed answer or by a busy answer, whenever they come and however late the
\* action thread is.  Only a MIB reset, which forgets the responses, begins anew.
AtMostOnce == \A t \in Tids : done[t].n <= 1

\* The action thread gives the MIB lock back although the next request may
\* already stand in context->action.msg when it does.
LockReleased == act = "idle" => ~mibHeld

\* The busy answer is a static buffer that a later request is answered with
\* again: whenever that happens it was filled in, for the request that is being
\* executed.
BusyNamesRunning == run /\ core = "dispatch" => busyRsp.tid = actionMsg.tid

\* The core thread is done with a request.
Served == core \in {"dispatch", "retransmit", "waiting", "handled"} /\ core' = "idle"

\* As long as every action ends within action_timeout, a request that asks for
\* an answer gets its own, with the result of its own execution, first time
\* round and when it is repeated.
ServedIsAnswered ==
  [][Served /\ msg.ar /\ msg.ok =>
       tx' = [tid |-> msg.tid, ak |-> TRUE, result |-> done[msg.tid].result]]_vars

\* A request in the FIFO is taken out of it (or is dropped when the ONU leaves
\* operation) while processing is enabled: the core thread, which waits for the
\* action thread, which waits for the MIB lock, never hangs.
RequestsAreTaken ==
  <>[]omci_enabled => (msgFifo # << >> ~> core = "dispatch" \/ msgFifo = << >>)
=============================================================================
