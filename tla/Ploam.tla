------------------------------- MODULE Ploam -------------------------------
(***************************************************************************)
(* The PLOAM engine of the driver: the activation state machine O1..O7 of  *)
(* falcon_ploam.c, together with the interrupt handler of                  *)
(* falcon_gpon_core.c that feeds it.                                       *)
(*                                                                         *)
(* Two contexts touch the engine.  The GTC interrupt handler drains the    *)
(* hardware FIFO into rx_queue and reports loss of signal by running a     *)
(* whole state transition by itself.  One kernel worker runs fsm_work and  *)
(* the two timeout functions, one at a time (none of them sleeps).  The    *)
(* Falcon has one CPU: the handler interrupts the worker between any two   *)
(* of its steps and the worker never runs inside the handler.  Only        *)
(* rx_queue is locked.  The hardware goes on while the handler runs.       *)
(*                                                                         *)
(* rxq is the ring rx_queue seen as the sequence of its unread entries;    *)
(* RxRing shows that the indices of the code implement that view.          *)
(***************************************************************************)
EXTENDS Naturals, Sequences

CONSTANTS
  Message,      \* downstream messages: records [kind, to, own, id]
  Bcast,        \* ONU-ID 0xFF
  RxQueueSize,  \* slots of rx_queue (64)
  FifoDepth,    \* bound: messages the GTC downstream FIFO holds
  Callbacks,    \* are laser_set_enable, carrier_set, state_change_cb set?  FALSE in the
                \* driver: falcon_gpon_probe sets them, then falcon_ploam_init clears ctx
  LofEvents     \* values falcon_ploam_event_lof is called with ({}: no caller)

States == {"O1", "O2", "O3", "O4", "O5", "O6", "O7"}
Kinds == {"OVERHEAD", "ASSIGN", "RANGING", "PASSWORD", "DEACTIVATE", "DISABLE", "OTHER"}

ASSUME SizeAssumption == RxQueueSize \in Nat /\ RxQueueSize >= 2 /\ FifoDepth \in Nat
ASSUME BcastAssumption == Bcast \in Nat \ {0}
ASSUME MessageAssumption ==
  Message \subseteq [kind : Kinds, to : Nat, own : BOOLEAN, id : Nat]
ASSUME FlagAssumption == Callbacks \in BOOLEAN /\ LofEvents \subseteq BOOLEAN

VARIABLES
  dsFifo, intStatus, signal,         \* GTC: downstream FIFO, register 0x070, rx_status
  isr, bits,                         \* falcon_gtc_isr: where it is, int_status
  rxq, fsmPending,                   \* rx_queue; is fsm_work queued?
  to1, to2,                          \* delayed works: "idle", "armed", "queued"
  job, pc, msg, target,              \* the worker: what it runs, where, its locals
  state, assigned_onu_id,            \* struct falcon_ploam_ctx
  onuIdReg, eqdFor,                  \* GTC_ONU_ID_REG; whose delay is in GTC_RANGED_DELAY
  laser, carrier, notified,          \* effects of the callbacks
  usMsg                              \* last message sent to the GTC upstream FIFO

hw     == <<dsFifo, intStatus, signal>>
irq    == <<isr, bits>>
rx     == <<rxq, fsmPending>>
timers == <<to1, to2>>
worker == <<job, pc, msg, target>>
optics == <<laser, carrier, notified>>
regs   == <<onuIdReg, eqdFor, usMsg>>
ctx    == <<state, assigned_onu_id>>
vars   == <<dsFifo, intStatus, signal, isr, bits, rxq, fsmPending, to1, to2,
            job, pc, msg, target, state, assigned_onu_id, onuIdReg, eqdFor,
            laser, carrier, notified, usMsg>>

NoMsg == [kind |-> "OTHER", to |-> 0, own |-> FALSE, id |-> 0]
NoUs  == [kind |-> "NONE", id |-> 0]

\* falcon_ploam_init and a GTC block that has just been enabled.
Init == /\ dsFifo = << >> /\ intStatus = {} /\ signal \in BOOLEAN
        /\ isr = "idle" /\ bits = {}
        /\ rxq = << >> /\ fsmPending = FALSE
        /\ to1 = "idle" /\ to2 = "idle"
        /\ job = "none" /\ pc = "dequeue" /\ msg = NoMsg /\ target = "O1"
        /\ state = "O1" /\ assigned_onu_id = 0
        /\ onuIdReg = 0 /\ eqdFor = 0
        /\ laser = FALSE /\ carrier = FALSE /\ notified = "O1"
        /\ usMsg = NoUs

-----------------------------------------------------------------------------
(* The GTC hardware.                                                       *)

\* A downstream message is received: it enters the FIFO and sets bit 0.
MessageArrives(m) ==
  /\ signal
  /\ Len(dsFifo) < FifoDepth
  /\ dsFifo' = Append(dsFifo, m)
  /\ intStatus' = intStatus \cup {"ploam"}
  /\ UNCHANGED <<signal, irq, rx, timers, worker, optics, regs, ctx>>

\* The optical signal goes or comes back: bit 1.
SignalChanges ==
  /\ signal' = ~signal
  /\ intStatus' = intStatus \cup {"los"}
  /\ UNCHANGED <<dsFifo, irq, rx, timers, worker, optics, regs, ctx>>

-----------------------------------------------------------------------------
(* ploam_state_transition, the part after the state was written.           *)

\* What the switch does to each piece of state.  schedule_delayed_work does
\* nothing to a work that is pending; cancel_delayed_work also takes back a
\* work that has expired and waits for the worker.
LaserAfter(new) ==
  IF Callbacks THEN (laser \/ new = "O3") /\ new \notin {"O1", "O2", "O6", "O7"}
               ELSE laser

CarrierAfter(new) ==
  IF Callbacks THEN (carrier \/ new = "O5") /\ new \notin {"O1", "O2", "O7"}
               ELSE carrier

IdAfterKept(new, id) == id
IdAfter(new, id) == IF new \in {"O1", "O2"} THEN 0 ELSE id

To1AfterUncancelled(new) == IF new = "O3" /\ to1 = "idle" THEN "armed" ELSE to1
To1AfterUnarmed(new) == IF new \in {"O4", "O5"} THEN "idle" ELSE to1
To1After(new) == IF new \in {"O4", "O5"} THEN "idle"
                 ELSE IF new = "O3" /\ to1 = "idle" THEN "armed" ELSE to1

To2After(new) == IF new = "O5" THEN "idle"
                 ELSE IF new = "O6" /\ to2 = "idle" THEN "armed" ELSE to2

EntryActions(new) ==
  /\ laser' = LaserAfter(new)
  /\ carrier' = CarrierAfter(new)
  /\ assigned_onu_id' = IdAfter(new, assigned_onu_id)
  /\ onuIdReg' = IdAfter(new, onuIdReg)
  /\ to1' = To1After(new)
  /\ to2' = To2After(new)

\* ploam_state_transition called by an interrupt handler: nothing interleaves.
TransitionInIrq(new) ==
  IF state = new
    THEN UNCHANGED <<state, notified, laser, carrier, assigned_onu_id, onuIdReg, timers>>
    ELSE /\ state' = new
         /\ notified' = IF Callbacks THEN new ELSE notified
         /\ EntryActions(new)

-----------------------------------------------------------------------------
(* falcon_gtc_isr.                                                         *)

\* int_status is read; the handler is entered only for a pending bit.
IsrEnter ==
  /\ isr = "idle"
  /\ intStatus # {}
  /\ bits' = intStatus
  /\ isr' = IF "ploam" \in intStatus THEN "drain" ELSE "los"
  /\ UNCHANGED <<hw, rx, timers, worker, optics, regs, ctx>>

\* gtc_ploam_rd's filter.
Accepts(m) == m.to = Bcast \/ m.to = assigned_onu_id \/ assigned_onu_id = 0

\* A push that would wrap around makes the ring look empty: rx_queue has no
\* check for a full ring.
Enqueue(q, m) == IF Len(q) = RxQueueSize - 1 THEN << >> ELSE Append(q, m)

\* One turn of falcon_ploam_rx_irq_handler's loop: an accepted message is queued.
IsrQueue ==
  /\ isr = "drain"
  /\ dsFifo # << >> /\ Accepts(Head(dsFifo))
  /\ dsFifo' = Tail(dsFifo)
  /\ rxq' = Enqueue(rxq, Head(dsFifo))
  /\ UNCHANGED <<intStatus, signal, irq, fsmPending, timers, worker, optics, regs, ctx>>

\* The end of the loop, with the work queued only when the worker is idle.
IsrStopIfIdle ==
  /\ isr = "drain"
  /\ dsFifo # << >> => ~Accepts(Head(dsFifo))
  /\ dsFifo' = IF dsFifo = << >> THEN dsFifo ELSE Tail(dsFifo)
  /\ fsmPending' = (fsmPending \/ job # "fsm")
  /\ isr' = "los"
  /\ UNCHANGED <<intStatus, signal, bits, rxq, timers, worker, optics, regs, ctx>>

\* The loop ends when gtc_ploam_rd returns false: on an empty FIFO, and on a
\* message for another ONU, which it has read.  Then schedule_work.
IsrStop ==
  /\ isr = "drain"
  /\ dsFifo # << >> => ~Accepts(Head(dsFifo))
  /\ dsFifo' = IF dsFifo = << >> THEN dsFifo ELSE Tail(dsFifo)
  /\ fsmPending' = TRUE
  /\ isr' = "los"
  /\ UNCHANGED <<intStatus, signal, bits, rxq, timers, worker, optics, regs, ctx>>

\* Bit 1: rx_status is sampled and falcon_ploam_event_los(ctx, los) called.
IsrLos ==
  /\ isr = "los"
  /\ IF "los" \in bits /\ ~signal
       THEN TransitionInIrq("O1")
       ELSE UNCHANGED <<state, notified, laser, carrier, assigned_onu_id, onuIdReg, timers>>
  /\ isr' = "ack"
  /\ UNCHANGED <<hw, bits, rx, worker, eqdFor, usMsg>>

\* The bits read on entry are written back to clear them.
IsrAck ==
  /\ isr = "ack"
  /\ intStatus' = intStatus \ bits
  /\ isr' = "idle" /\ bits' = {}
  /\ UNCHANGED <<dsFifo, signal, rx, timers, worker, optics, regs, ctx>>

Isr == IsrEnter \/ IsrQueue \/ IsrStop \/ IsrLos \/ IsrAck

\* falcon_ploam_event_lof, from an interrupt handler like its sibling.
LofEvent(lof) ==
  /\ isr = "idle"
  /\ \/ /\ lof
        /\ TransitionInIrq(IF state = "O5" THEN "O6" ELSE "O1")
     \/ /\ ~lof /\ state = "O1"
        /\ TransitionInIrq("O2")
  /\ UNCHANGED <<hw, irq, rx, worker, eqdFor, usMsg>>

-----------------------------------------------------------------------------
(* The worker.  Nothing of it runs while an interrupt is being handled.    *)

\* A timeout expires: its work is queued.
To1Expires == /\ to1 = "armed" /\ to1' = "queued"
              /\ UNCHANGED <<hw, irq, rx, to2, worker, optics, regs, ctx>>

To2Expires == /\ to2 = "armed" /\ to2' = "queued"
              /\ UNCHANGED <<hw, irq, rx, to1, worker, optics, regs, ctx>>

\* The worker picks fsm_work, to1_timer_fn or to2_timer_fn.
StartFsm ==
  /\ isr = "idle" /\ job = "none" /\ fsmPending
  /\ fsmPending' = FALSE
  /\ job' = "fsm" /\ pc' = "dequeue"
  /\ UNCHANGED <<hw, irq, rxq, timers, msg, target, optics, regs, ctx>>

StartTo1 ==
  /\ isr = "idle" /\ job = "none" /\ to1 = "queued"
  /\ to1' = "idle"
  /\ job' = "to1" /\ pc' = "check" /\ target' = "O2"
  /\ UNCHANGED <<hw, irq, rx, to2, msg, optics, regs, ctx>>

StartTo2 ==
  /\ isr = "idle" /\ job = "none" /\ to2 = "queued"
  /\ to2' = "idle"
  /\ job' = "to2" /\ pc' = "check" /\ target' = "O1"
  /\ UNCHANGED <<hw, irq, rx, to1, msg, optics, regs, ctx>>

\* falcon_ploam_fsm_worker, top of the loop, under the lock.
Dequeue ==
  /\ isr = "idle" /\ job = "fsm" /\ pc = "dequeue"
  /\ IF rxq = << >>
       THEN /\ pc' = "end"
            /\ UNCHANGED <<rxq, msg>>
       ELSE /\ msg' = Head(rxq)
            /\ rxq' = Tail(rxq)
            /\ pc' = "decode"
  /\ UNCHANGED <<hw, irq, fsmPending, timers, job, target, optics, regs, ctx>>

\* It found rx_queue empty, unlocked and returns: a message queued in between is
\* left to the work that the handler schedules.
EndFsm ==
  /\ isr = "idle" /\ job = "fsm" /\ pc = "end"
  /\ job' = "none" /\ pc' = "dequeue"
  /\ UNCHANGED <<hw, irq, rx, timers, msg, target, optics, regs, ctx>>

\* send_ack, send_serial_number_onu, send_password: what gtc_ploam_send writes.
AckMsg == [kind |-> "ACK", id |-> assigned_onu_id]
SerialMsg == [kind |-> "SERIAL", id |-> Bcast]
PasswordMsg == [kind |-> "PASSWORD", id |-> assigned_onu_id]

\* The message needs nothing (more).
Skip(m) == \/ m.kind = "OTHER"
           \/ m.kind = "OVERHEAD" /\ state \notin {"O1", "O2"}
           \/ m.kind = "ASSIGN" /\ ~m.own
           \/ m.kind = "RANGING" /\ state \notin {"O4", "O5"}

\* The worker is done with a message: its locals hold nothing that matters.
NextMessage == pc' = "dequeue" /\ msg' = NoMsg /\ target' = "O1"

\* switch (msg.msg_id): the guards, and the cases that change no state.
Decode ==
  /\ isr = "idle" /\ job = "fsm" /\ pc = "decode"
  /\ \/ /\ Skip(msg)
        /\ NextMessage
        /\ UNCHANGED <<assigned_onu_id, usMsg>>
     \/ /\ msg.kind = "PASSWORD"
        /\ usMsg' = PasswordMsg
        /\ NextMessage
        /\ UNCHANGED assigned_onu_id
     \/ /\ msg.kind = "OVERHEAD" /\ ~Skip(msg)
        /\ pc' = "check" /\ target' = "O3"
        /\ UNCHANGED <<msg, assigned_onu_id, usMsg>>
     \/ /\ msg.kind = "ASSIGN" /\ ~Skip(msg)
        /\ assigned_onu_id' = msg.id
        /\ pc' = "assign"
        /\ UNCHANGED <<msg, target, usMsg>>
     \/ /\ msg.kind = "RANGING" /\ ~Skip(msg)
        /\ pc' = "ranging"
        /\ UNCHANGED <<msg, target, assigned_onu_id, usMsg>>
     \/ /\ msg.kind \in {"DEACTIVATE", "DISABLE"}
        /\ pc' = "check"
        /\ target' = IF msg.kind = "DISABLE" THEN "O7" ELSE "O2"
        /\ UNCHANGED <<msg, assigned_onu_id, usMsg>>
  /\ UNCHANGED <<hw, irq, rx, timers, job, optics, onuIdReg, eqdFor, state>>

\* ASSIGN_ONU_ID after the assignment.  The compiler may write the id it has
\* at hand to the register or load ctx->assigned_onu_id again.
Assign ==
  /\ isr = "idle" /\ job = "fsm" /\ pc = "assign"
  /\ onuIdReg' \in {msg.id, assigned_onu_id}
  /\ usMsg' = AckMsg
  /\ pc' = "check" /\ target' = "O4"
  /\ UNCHANGED <<hw, irq, rx, timers, job, msg, optics, eqdFor, ctx>>

\* RANGING_TIME after its guard.
Ranging ==
  /\ isr = "idle" /\ job = "fsm" /\ pc = "ranging"
  /\ eqdFor' = msg.to
  /\ usMsg' = AckMsg
  /\ pc' = "check" /\ target' = "O5"
  /\ UNCHANGED <<hw, irq, rx, timers, job, msg, optics, onuIdReg, ctx>>

\* What follows ploam_state_transition in the function that called it.
Return ==
  /\ NextMessage
  /\ job' = IF job = "fsm" THEN "fsm" ELSE "none"
  /\ usMsg' = IF job = "fsm" /\ msg.kind = "OVERHEAD" THEN SerialMsg ELSE usMsg

\* ploam_state_transition called by the worker, in the steps between which an
\* interrupt can change what it has read or written: the comparison, ...
TransitionCheck ==
  /\ isr = "idle" /\ job # "none" /\ pc = "check"
  /\ IF state = target
       THEN Return
       ELSE /\ pc' = "commit"
            /\ UNCHANGED <<job, usMsg, msg, target>>
  /\ UNCHANGED <<hw, irq, rx, timers, optics, onuIdReg, eqdFor, ctx>>

\* ... the assignment to ctx->state, ...
TransitionCommit ==
  /\ isr = "idle" /\ job # "none" /\ pc = "commit"
  /\ state' = target
  /\ pc' = "notify"
  /\ UNCHANGED <<hw, irq, rx, timers, job, msg, target, optics, regs, assigned_onu_id>>

\* ... state_change_cb, ...
TransitionNotify ==
  /\ isr = "idle" /\ job # "none" /\ pc = "notify"
  /\ notified' = IF Callbacks THEN target ELSE notified
  /\ pc' = "entry"
  /\ UNCHANGED <<hw, irq, rx, timers, job, msg, target, laser, carrier, regs, ctx>>

\* ... and the entry actions.
TransitionEntry ==
  /\ isr = "idle" /\ job # "none" /\ pc = "entry"
  /\ EntryActions(target)
  /\ Return
  /\ UNCHANGED <<hw, irq, rx, notified, eqdFor, state>>

Transition == TransitionCheck \/ TransitionCommit \/ TransitionNotify \/ TransitionEntry

Worker == Dequeue \/ EndFsm \/ Decode \/ Assign \/ Ranging \/ Transition

Next == \/ \E m \in Message : MessageArrives(m)
        \/ SignalChanges
        \/ Isr
        \/ \E lof \in LofEvents : LofEvent(lof)
        \/ To1Expires \/ To2Expires
        \/ StartFsm \/ StartTo1 \/ StartTo2
        \/ Worker

\* Interrupts are served; a timer that runs expires; the CPU returns to the
\* worker between interrupts, and the worker takes every work that is queued.
Fairness ==
  /\ WF_vars(Isr)
  /\ WF_vars(To1Expires) /\ WF_vars(To2Expires)
  /\ SF_vars(StartFsm) /\ SF_vars(StartTo1) /\ SF_vars(StartTo2)
  /\ SF_vars(Worker)

Spec == Init /\ [][Next]_vars
FairSpec == Spec /\ Fairness

-----------------------------------------------------------------------------
(* Properties.                                                             *)

Dark == {"O1", "O2", "O6", "O7"}   \* states in which the ONU must not transmit
Pcs == {"dequeue", "end", "decode", "assign", "ranging", "check", "commit", "notify", "entry"}

\* The variables keep their types.
TypeOK ==
  /\ dsFifo \in Seq(Message) /\ Len(dsFifo) <= FifoDepth
  /\ intStatus \subseteq {"ploam", "los"} /\ signal \in BOOLEAN
  /\ isr \in {"idle", "drain", "los", "ack"} /\ bits \subseteq {"ploam", "los"}
  /\ rxq \in Seq(Message) /\ Len(rxq) < RxQueueSize /\ fsmPending \in BOOLEAN
  /\ to1 \in {"idle", "armed", "queued"} /\ to2 \in {"idle", "armed", "queued"}
  /\ job \in {"none", "fsm", "to1", "to2"} /\ pc \in Pcs
  /\ msg \in Message \cup {NoMsg} /\ target \in States
  /\ state \in States /\ assigned_onu_id \in Nat
  /\ onuIdReg \in Nat /\ eqdFor \in Nat
  /\ laser \in BOOLEAN /\ carrier \in BOOLEAN /\ notified \in States
  /\ usMsg \in [kind : {"NONE", "ACK", "SERIAL", "PASSWORD"}, id : Nat]

\* The worker has written the state and not yet run the entry actions.
Entering(S) == job # "none" /\ pc \in {"notify", "entry"} /\ target \in S

\* No message is being handled.
Settled == job = "none" \/ (job = "fsm" /\ pc \in {"dequeue", "end", "decode"})

\* A laser that is armed in a state that must be dark is about to be switched
\* off.  A loss of signal that interrupts the entry into O3 does leave the laser
\* armed in O1 (the handler turned it off, then the worker turned it on); TO1,
\* which that entry started, is then what switches it off.
LaserGuarded ==
  laser /\ state \in Dark =>
    \/ Entering(Dark)
    \/ state = "O1" /\ (to1 # "idle" \/ job = "to1")

\* No timeout is left running that would throw an ONU out of ranging or
\* operation: whatever interleaving of timeouts, loss of signal and messages
\* led to O4 or O5, TO1 is off, and in O5 TO2 too.
OperationUndisturbed ==
  Settled => /\ state \in {"O4", "O5"} => to1 = "idle"
             /\ state = "O5" => to2 = "idle"

\* An ONU that is back in O1 or O2 has forgotten its ONU-ID, in the context and
\* in the GTC register, even when the loss of signal interrupts ASSIGN_ONU_ID.
StandbyForgetsId ==
  Settled /\ state \in {"O1", "O2"} => assigned_onu_id = 0 /\ onuIdReg = 0

\* No queued message is forgotten: as long as rx_queue holds one, the worker is
\* going to look at it again, or is queued, or the handler is about to queue it.
NoMessageStranded ==
  rxq # << >> => fsmPending \/ (job = "fsm" /\ pc # "end") \/ isr = "drain"

\* A laser armed in a dark state goes off or the ONU gets to a state that may
\* transmit, provided that messages do not keep the CPU busy for ever.
LaserGoesOff ==
  []<>(job = "none" /\ isr = "idle") =>
    (laser /\ state \in Dark ~> ~laser \/ state \notin Dark)

\* A queue that is not empty is eventually worked on (or lost to an overrun),
\* provided that the CPU leaves the interrupt handler now and then.
QueuedIsHandled ==
  []<>(isr = "idle") => (rxq # << >> ~> pc = "decode" \/ rxq = << >>)

-----------------------------------------------------------------------------
(* What comments and messages of the driver say and the code does not do.  *)

\* "Laser burst mode armed, but transmission only on grant" (falcon_ploam.c:151):
\* an ONU that answers serial number requests can be heard.
DiscoveryIsLit == Settled /\ state = "O3" => laser
=============================================================================
