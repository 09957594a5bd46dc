---------------------------- MODULE Ploam_proofs ----------------------------
(***************************************************************************)
(* For every set of messages, queue and FIFO size: the PLOAM engine keeps  *)
(* its types, strands no queued message, lets no timeout disturb ranging   *)
(* or operation, and never leaves the laser armed in a dark state without  *)
(* something on its way to switch it off.                                  *)
(***************************************************************************)
EXTENDS Ploam, SequenceTheorems, TLAPS

LEMMA NoMsgType == NoMsg \in [kind : Kinds, to : Nat, own : BOOLEAN, id : Nat]
  BY DEF NoMsg, Kinds

\* Every message the worker holds has the fields of a downstream message.
LEMMA MsgFields ==
  ASSUME NEW m \in Message \cup {NoMsg}
  PROVE  m.kind \in Kinds /\ m.to \in Nat /\ m.own \in BOOLEAN /\ m.id \in Nat
  BY NoMsgType, MessageAssumption

LEMMA TypeInit == Init => TypeOK
<1> SUFFICES ASSUME Init PROVE TypeOK
  OBVIOUS
<1>1. << >> \in Seq(Message) /\ Len(<< >>) = 0
  BY EmptySeq
<1>2. /\ dsFifo \in Seq(Message) /\ Len(dsFifo) <= FifoDepth
      /\ rxq \in Seq(Message) /\ Len(rxq) < RxQueueSize
  BY <1>1, SizeAssumption DEF Init
<1>3. usMsg \in [kind : {"NONE", "ACK", "SERIAL", "PASSWORD"}, id : Nat]
  BY DEF Init, NoUs
<1> QED BY <1>2, <1>3 DEF Init, TypeOK, States, Pcs

\* Appending and removing keep a sequence of messages.
LEMMA QueueTypes ==
  ASSUME NEW q \in Seq(Message)
  PROVE  /\ \A m \in Message : Append(q, m) \in Seq(Message) /\ Len(Append(q, m)) = Len(q) + 1
         /\ q # << >> => /\ Head(q) \in Message
                         /\ Tail(q) \in Seq(Message)
                         /\ Len(Tail(q)) = Len(q) - 1
         /\ Len(q) \in Nat
<1>1. \A m \in Message : Append(q, m) \in Seq(Message) /\ Len(Append(q, m)) = Len(q) + 1
  BY AppendProperties
<1>2. q # << >> => Head(q) \in Message /\ Tail(q) \in Seq(Message) /\ Len(Tail(q)) = Len(q) - 1
  BY HeadTailProperties
<1> QED BY <1>1, <1>2, LenProperties

\* An enqueued message keeps the queue shorter than the ring.
LEMMA EnqueueType ==
  ASSUME NEW q \in Seq(Message), Len(q) < RxQueueSize, NEW m \in Message
  PROVE  Enqueue(q, m) \in Seq(Message) /\ Len(Enqueue(q, m)) < RxQueueSize
  BY QueueTypes, EmptySeq, SizeAssumption DEF Enqueue

\* The entry actions keep the types.
LEMMA EntryTypes ==
  ASSUME TypeOK, NEW new \in States, EntryActions(new)
  PROVE  /\ laser' \in BOOLEAN /\ carrier' \in BOOLEAN
         /\ assigned_onu_id' \in Nat /\ onuIdReg' \in Nat
         /\ to1' \in {"idle", "armed", "queued"} /\ to2' \in {"idle", "armed", "queued"}
  BY DEF EntryActions, TypeOK, LaserAfter, CarrierAfter, IdAfter, To1After, To2After

LEMMA TransitionInIrqTypes ==
  ASSUME TypeOK, NEW new \in States, TransitionInIrq(new)
  PROVE  /\ state' \in States /\ notified' \in States
         /\ laser' \in BOOLEAN /\ carrier' \in BOOLEAN
         /\ assigned_onu_id' \in Nat /\ onuIdReg' \in Nat
         /\ to1' \in {"idle", "armed", "queued"} /\ to2' \in {"idle", "armed", "queued"}
<1>1. CASE state = new
  BY <1>1 DEF TransitionInIrq, TypeOK, timers
<1>2. CASE state # new
  BY <1>2, EntryTypes DEF TransitionInIrq, TypeOK
<1> QED BY <1>1, <1>2

LEMMA TypeStep == TypeOK /\ [Next]_vars => TypeOK'
<1> SUFFICES ASSUME TypeOK, [Next]_vars PROVE TypeOK'
  OBVIOUS
<1>1. ASSUME NEW m \in Message, MessageArrives(m) PROVE TypeOK'
  <2>1. dsFifo' \in Seq(Message) /\ Len(dsFifo') <= FifoDepth
    BY <1>1, QueueTypes, SizeAssumption DEF MessageArrives, TypeOK
  <2> QED BY <1>1, <2>1 DEF MessageArrives, TypeOK, irq, rx, timers, worker, optics, regs, ctx
<1>2. ASSUME SignalChanges PROVE TypeOK'
  BY <1>2 DEF SignalChanges, TypeOK, irq, rx, timers, worker, optics, regs, ctx
<1>3. ASSUME IsrEnter PROVE TypeOK'
  BY <1>3 DEF IsrEnter, TypeOK, hw, rx, timers, worker, optics, regs, ctx
<1>4. ASSUME IsrQueue PROVE TypeOK'
  <2>1. Head(dsFifo) \in Message /\ dsFifo' \in Seq(Message) /\ Len(dsFifo') <= FifoDepth
    BY <1>4, QueueTypes, SizeAssumption DEF IsrQueue, TypeOK
  <2>2. rxq' \in Seq(Message) /\ Len(rxq') < RxQueueSize
    BY <1>4, <2>1, EnqueueType DEF IsrQueue, TypeOK
  <2> QED BY <1>4, <2>1, <2>2 DEF IsrQueue, TypeOK, irq, timers, worker, optics, regs, ctx
<1>5. ASSUME IsrStop PROVE TypeOK'
  <2>1. dsFifo' \in Seq(Message) /\ Len(dsFifo') <= FifoDepth
    BY <1>5, QueueTypes, SizeAssumption DEF IsrStop, TypeOK
  <2> QED BY <1>5, <2>1 DEF IsrStop, TypeOK, timers, worker, optics, regs, ctx
<1>6. ASSUME IsrLos PROVE TypeOK'
  <2>1. /\ state' \in States /\ notified' \in States
        /\ laser' \in BOOLEAN /\ carrier' \in BOOLEAN
        /\ assigned_onu_id' \in Nat /\ onuIdReg' \in Nat
        /\ to1' \in {"idle", "armed", "queued"} /\ to2' \in {"idle", "armed", "queued"}
    <3>1. CASE "los" \in bits /\ ~signal
      BY <1>6, <3>1, TransitionInIrqTypes DEF IsrLos, States
    <3>2. CASE ~("los" \in bits /\ ~signal)
      BY <1>6, <3>2 DEF IsrLos, TypeOK, timers
    <3> QED BY <3>1, <3>2
  <2> QED BY <1>6, <2>1 DEF IsrLos, TypeOK, hw, rx, worker
<1>7. ASSUME IsrAck PROVE TypeOK'
  BY <1>7 DEF IsrAck, TypeOK, rx, timers, worker, optics, regs, ctx
<1>8. ASSUME NEW lof \in LofEvents, LofEvent(lof) PROVE TypeOK'
  <2>1. /\ state' \in States /\ notified' \in States
        /\ laser' \in BOOLEAN /\ carrier' \in BOOLEAN
        /\ assigned_onu_id' \in Nat /\ onuIdReg' \in Nat
        /\ to1' \in {"idle", "armed", "queued"} /\ to2' \in {"idle", "armed", "queued"}
    BY <1>8, TransitionInIrqTypes DEF LofEvent, States
  <2> QED BY <1>8, <2>1 DEF LofEvent, TypeOK, hw, irq, rx, worker
<1>9. ASSUME To1Expires \/ To2Expires PROVE TypeOK'
  <2>1. CASE To1Expires
    BY <2>1 DEF To1Expires, TypeOK, hw, irq, rx, worker, optics, regs, ctx
  <2>2. CASE To2Expires
    BY <2>2 DEF To2Expires, TypeOK, hw, irq, rx, worker, optics, regs, ctx
  <2> QED BY <1>9, <2>1, <2>2
<1>10. ASSUME StartFsm \/ StartTo1 \/ StartTo2 PROVE TypeOK'
  <2>1. CASE StartFsm
    BY <2>1 DEF StartFsm, TypeOK, Pcs, hw, irq, timers, optics, regs, ctx
  <2>2. CASE StartTo1
    BY <2>2 DEF StartTo1, TypeOK, Pcs, States, hw, irq, rx, optics, regs, ctx
  <2>3. CASE StartTo2
    BY <2>3 DEF StartTo2, TypeOK, Pcs, States, hw, irq, rx, optics, regs, ctx
  <2> QED BY <1>10, <2>1, <2>2, <2>3
<1>11. ASSUME Dequeue PROVE TypeOK'
  <2>1. rxq' \in Seq(Message) /\ Len(rxq') < RxQueueSize /\ msg' \in Message \cup {NoMsg}
    <3>1. CASE rxq = << >>
      BY <1>11, <3>1 DEF Dequeue, TypeOK
    <3>2. CASE rxq # << >>
      <4>1. msg' = Head(rxq) /\ rxq' = Tail(rxq)
        BY <1>11, <3>2 DEF Dequeue
      <4>2. Head(rxq) \in Message /\ Tail(rxq) \in Seq(Message) /\ Len(Tail(rxq)) = Len(rxq) - 1
        BY <3>2, QueueTypes DEF TypeOK
      <4>3. Len(rxq) \in Nat /\ Len(rxq) < RxQueueSize
        BY QueueTypes DEF TypeOK
      <4> QED BY <4>1, <4>2, <4>3, SizeAssumption
    <3> QED BY <3>1, <3>2
  <2> QED BY <1>11, <2>1 DEF Dequeue, TypeOK, Pcs, hw, irq, timers, optics, regs, ctx
<1>12. ASSUME Decode PROVE TypeOK'
  <2>1. msg.id \in Nat
    BY MsgFields DEF TypeOK
  <2> QED BY <1>12, <2>1 DEF Decode, PasswordMsg, NextMessage, TypeOK, Pcs, States,
                             hw, irq, rx, timers, optics
<1>13. ASSUME Assign \/ Ranging PROVE TypeOK'
  <2>1. msg.id \in Nat /\ msg.to \in Nat
    BY MsgFields DEF TypeOK
  <2>2. CASE Assign
    BY <2>1, <2>2 DEF Assign, AckMsg, TypeOK, Pcs, States, hw, irq, rx, timers, optics,
                          ctx
  <2>3. CASE Ranging
    BY <2>1, <2>3 DEF Ranging, AckMsg, TypeOK, Pcs, States, hw, irq, rx, timers, optics,
                          ctx
  <2> QED BY <1>13, <2>2, <2>3
<1>14. ASSUME TransitionCheck PROVE TypeOK'
  <2>1. CASE state = target
    BY <1>14, <2>1, BcastAssumption DEF TransitionCheck, Return, SerialMsg, NextMessage,
               TypeOK, Pcs, States, hw, irq, rx, timers, optics, ctx
  <2>2. CASE state # target
    BY <1>14, <2>2 DEF TransitionCheck, TypeOK, Pcs, hw, irq, rx, timers, optics, ctx
  <2> QED BY <2>1, <2>2
<1>15. ASSUME TransitionCommit \/ TransitionNotify PROVE TypeOK'
  <2>1. CASE TransitionCommit
    BY <2>1 DEF TransitionCommit, TypeOK, Pcs, hw, irq, rx, timers, optics, regs
  <2>2. CASE TransitionNotify
    BY <2>2 DEF TransitionNotify, TypeOK, Pcs, hw, irq, rx, timers, regs, ctx
  <2> QED BY <1>15, <2>1, <2>2
<1>16. ASSUME TransitionEntry PROVE TypeOK'
  <2>1. /\ laser' \in BOOLEAN /\ carrier' \in BOOLEAN
        /\ assigned_onu_id' \in Nat /\ onuIdReg' \in Nat
        /\ to1' \in {"idle", "armed", "queued"} /\ to2' \in {"idle", "armed", "queued"}
    BY <1>16, EntryTypes DEF TransitionEntry, TypeOK
  <2> QED BY <1>16, <2>1, BcastAssumption DEF TransitionEntry, Return, SerialMsg, NextMessage,
               TypeOK, Pcs, States, hw, irq, rx
<1>17. CASE UNCHANGED vars
  BY <1>17 DEF vars, TypeOK
<1>18. ASSUME EndFsm PROVE TypeOK'
  BY <1>18 DEF EndFsm, TypeOK, Pcs, hw, irq, rx, timers, optics, regs, ctx
<1> QED BY <1>1, <1>2, <1>3, <1>4, <1>5, <1>6, <1>7, <1>8, <1>9, <1>10, <1>11, <1>12,
           <1>13, <1>14, <1>15, <1>16, <1>17, <1>18 DEF Next, Isr, Worker, Transition

\* Queue, registers, timers and the locals of both contexts keep their types.
THEOREM TypeCorrect == Spec => []TypeOK
<1> QED BY TypeInit, TypeStep, PTL DEF Spec

-----------------------------------------------------------------------------
(* Queued messages.                                                        *)

LEMMA StrandedStep == TypeOK /\ NoMessageStranded /\ [Next]_vars => NoMessageStranded'
<1> SUFFICES ASSUME TypeOK, NoMessageStranded, [Next]_vars PROVE NoMessageStranded'
  OBVIOUS
<1> USE DEF NoMessageStranded
<1>1. ASSUME UNCHANGED <<rxq, fsmPending, job, pc, isr>> PROVE NoMessageStranded'
  BY <1>1
<1>2. ASSUME NEW m \in Message, MessageArrives(m) PROVE NoMessageStranded'
  BY <1>1, <1>2 DEF MessageArrives, irq, rx, worker
<1>3. CASE SignalChanges
  BY <1>1, <1>3 DEF SignalChanges, irq, rx, worker
<1>4. CASE IsrEnter
  BY <1>4 DEF IsrEnter, rx, worker
<1>5. CASE IsrQueue
  BY <1>5 DEF IsrQueue, irq
<1>6. CASE IsrStop
  BY <1>6 DEF IsrStop
<1>7. CASE IsrLos \/ IsrAck
  BY <1>7 DEF IsrLos, IsrAck, rx, worker
<1>8. ASSUME NEW lof \in LofEvents, LofEvent(lof) PROVE NoMessageStranded'
  BY <1>1, <1>8 DEF LofEvent, irq, rx, worker
<1>9. CASE To1Expires \/ To2Expires
  BY <1>1, <1>9 DEF To1Expires, To2Expires, irq, rx, worker
<1>10. CASE StartFsm
  BY <1>10 DEF StartFsm
<1>11. CASE StartTo1 \/ StartTo2
  BY <1>11 DEF StartTo1, StartTo2, rx, irq
<1>12. CASE Dequeue \/ EndFsm
  BY <1>12 DEF Dequeue, EndFsm, irq, rx
<1>13. CASE Decode \/ Assign \/ Ranging
  BY <1>13 DEF Decode, NextMessage, Assign, Ranging, irq, rx
<1>14. CASE Transition
  BY <1>14 DEF Transition, TransitionCheck, TransitionCommit, TransitionNotify,
               TransitionEntry, Return, NextMessage, irq, rx
<1>15. CASE UNCHANGED vars
  BY <1>1, <1>15 DEF vars
<1> QED BY <1>2, <1>3, <1>4, <1>5, <1>6, <1>7, <1>8, <1>9, <1>10, <1>11, <1>12, <1>13,
           <1>14, <1>15 DEF Next, Isr, Worker

\* falcon_ploam_rx_irq_handler and falcon_ploam_fsm_worker between them never
\* leave a message in rx_queue with nobody scheduled to read it.
THEOREM NothingStranded == Spec => []NoMessageStranded
<1>1. Init => NoMessageStranded
  BY DEF Init, NoMessageStranded
<1> QED BY <1>1, StrandedStep, TypeCorrect, PTL DEF Spec

-----------------------------------------------------------------------------
(* Timeouts.                                                               *)

\* OperationUndisturbed made inductive: a timeout that runs in O4 or O5 is about
\* to be cancelled by the entry actions, and an entry into O3, which starts TO1,
\* can only be interrupted by transitions to O1 and O2.
TimerInv ==
  /\ target # "O6"
  /\ Entering({"O3"}) => state \in {"O1", "O2", "O3"}
  /\ state \in {"O4", "O5"} => to1 = "idle" \/ Entering({"O4", "O5"})
  /\ state = "O5" => to2 = "idle" \/ Entering({"O5"})

LEMMA TimerStep == TypeOK /\ TimerInv /\ [Next]_vars => TimerInv'
<1> SUFFICES ASSUME TypeOK, TimerInv, [Next]_vars PROVE TimerInv'
  OBVIOUS
<1> USE DEF TimerInv, Entering
<1>1. ASSUME UNCHANGED <<state, timers, job, pc, target>> PROVE TimerInv'
  BY <1>1 DEF timers
<1>2. ASSUME NEW new \in {"O1", "O2", "O6"}, TransitionInIrq(new), UNCHANGED worker,
             new = "O6" => state = "O5"
      PROVE  TimerInv'
  BY <1>1, <1>2 DEF TransitionInIrq, EntryActions, To1After, To2After, worker
<1>3. ASSUME NEW m \in Message, MessageArrives(m) PROVE TimerInv'
  BY <1>1, <1>3 DEF MessageArrives, timers, worker, ctx
<1>4. CASE SignalChanges \/ IsrEnter \/ IsrQueue \/ IsrStop \/ IsrAck
  BY <1>1, <1>4 DEF SignalChanges, IsrEnter, IsrQueue, IsrStop, IsrAck, timers, worker, ctx
<1>5. CASE IsrLos
  BY <1>1, <1>2, <1>5 DEF IsrLos, worker
<1>6. ASSUME NEW lof \in LofEvents, LofEvent(lof) PROVE TimerInv'
  BY <1>2, <1>6 DEF LofEvent
<1>7. CASE To1Expires \/ To2Expires
  BY <1>7 DEF To1Expires, To2Expires, worker, ctx
<1>8. CASE StartFsm \/ StartTo1 \/ StartTo2
  BY <1>8 DEF StartFsm, StartTo1, StartTo2, timers, ctx
<1>9. CASE Dequeue \/ EndFsm
  BY <1>9 DEF Dequeue, EndFsm, timers, ctx
<1>10. CASE Decode
  BY <1>10 DEF Decode, NextMessage, timers
<1>11. CASE Assign \/ Ranging
  BY <1>11 DEF Assign, Ranging, timers, ctx
<1>12. CASE TransitionCheck
  BY <1>12 DEF TransitionCheck, Return, NextMessage, timers, ctx
<1>13. CASE TransitionCommit \/ TransitionNotify
  BY <1>13 DEF TransitionCommit, TransitionNotify, timers, ctx
<1>14. CASE TransitionEntry
  BY <1>14 DEF TransitionEntry, EntryActions, To1After, To2After, Return, NextMessage
<1>15. CASE UNCHANGED vars
  BY <1>1, <1>15 DEF vars, timers
<1> QED BY <1>3, <1>4, <1>5, <1>6, <1>7, <1>8, <1>9, <1>10, <1>11, <1>12, <1>13, <1>14,
           <1>15 DEF Next, Isr, Worker, Transition

\* However timeouts, loss of signal or frame and messages interleave, an ONU
\* that is in O4 or O5 has no timeout running that would throw it out.
THEOREM NoTimeoutInOperation == Spec => []OperationUndisturbed
<1>1. Init => TimerInv
  BY DEF Init, TimerInv, Entering
<1>2. TimerInv => OperationUndisturbed
  BY DEF TimerInv, OperationUndisturbed, Settled, Entering
<1> QED BY <1>1, <1>2, TimerStep, TypeCorrect, PTL DEF Spec

-----------------------------------------------------------------------------
(* The ONU-ID.                                                             *)

\* ASSIGN_ONU_ID has stored the id and has yet to leave the state it is in.
Assigning == job = "fsm" /\ (pc = "assign" \/ (pc \in {"check", "commit"} /\ target = "O4"))

\* StandbyForgetsId made inductive: an id that is there in O1 or O2 is about to
\* be cleared by the entry actions, or the ONU is about to move on to O4.
IdInv ==
  state \in {"O1", "O2"} =>
    \/ assigned_onu_id = 0 /\ onuIdReg = 0
    \/ Entering({"O1", "O2"})
    \/ Assigning

LEMMA IdStep == TypeOK /\ IdInv /\ [Next]_vars => IdInv'
<1> SUFFICES ASSUME TypeOK, IdInv, [Next]_vars PROVE IdInv'
  OBVIOUS
<1> USE DEF IdInv, Entering, Assigning
<1>1. ASSUME UNCHANGED <<state, assigned_onu_id, onuIdReg, job, pc, target>> PROVE IdInv'
  BY <1>1
<1>2. ASSUME NEW new \in States, TransitionInIrq(new), UNCHANGED worker PROVE IdInv'
  BY <1>1, <1>2 DEF TransitionInIrq, EntryActions, IdAfter, worker
<1>3. ASSUME NEW m \in Message, MessageArrives(m) PROVE IdInv'
  BY <1>1, <1>3 DEF MessageArrives, regs, worker, ctx
<1>4. CASE SignalChanges \/ IsrEnter \/ IsrQueue \/ IsrStop \/ IsrAck
  BY <1>1, <1>4 DEF SignalChanges, IsrEnter, IsrQueue, IsrStop, IsrAck, regs, worker, ctx
<1>5. CASE IsrLos
  BY <1>1, <1>2, <1>5 DEF IsrLos, worker, States
<1>6. ASSUME NEW lof \in LofEvents, LofEvent(lof) PROVE IdInv'
  BY <1>2, <1>6 DEF LofEvent, States
<1>7. CASE To1Expires \/ To2Expires
  BY <1>1, <1>7 DEF To1Expires, To2Expires, regs, worker, ctx
<1>8. CASE StartFsm \/ StartTo1 \/ StartTo2
  BY <1>8 DEF StartFsm, StartTo1, StartTo2, regs, ctx
<1>9. CASE Dequeue \/ EndFsm
  BY <1>9 DEF Dequeue, EndFsm, regs, ctx
<1>10. CASE Decode
  BY <1>10 DEF Decode, NextMessage
<1>11. CASE Assign \/ Ranging
  BY <1>11 DEF Assign, Ranging, ctx
<1>12. CASE TransitionCheck
  BY <1>12 DEF TransitionCheck, Return, NextMessage, ctx
<1>13. CASE TransitionCommit \/ TransitionNotify
  BY <1>13 DEF TransitionCommit, TransitionNotify, regs, ctx
<1>14. CASE TransitionEntry
  BY <1>14 DEF TransitionEntry, EntryActions, IdAfter, Return, NextMessage
<1>15. CASE UNCHANGED vars
  BY <1>1, <1>15 DEF vars
<1> QED BY <1>3, <1>4, <1>5, <1>6, <1>7, <1>8, <1>9, <1>10, <1>11, <1>12, <1>13, <1>14,
           <1>15 DEF Next, Isr, Worker, Transition

\* An ONU that is back in O1 or O2 holds no ONU-ID, in memory or in the GTC,
\* whatever the loss of signal interrupted.
THEOREM IdForgotten == Spec => []StandbyForgetsId
<1>1. Init => IdInv
  BY DEF Init, IdInv
<1>2. IdInv => StandbyForgetsId
  BY DEF IdInv, StandbyForgetsId, Settled, Entering, Assigning
<1> QED BY <1>1, <1>2, IdStep, TypeCorrect, PTL DEF Spec

-----------------------------------------------------------------------------
(* The laser.                                                              *)

\* LaserGuarded made inductive.  to1_timer_fn goes for O2 and nothing else; a
\* transition to O3, O4 or O5 that is interrupted has had the laser turned off
\* under it; and the interrupted entry into O3 finds itself in O1.
LaserInv ==
  /\ LaserGuarded
  /\ ~Callbacks => ~laser
  /\ job = "to1" => target = "O2" /\ pc \in {"check", "commit", "notify", "entry"}
  /\ Entering({"O3", "O4", "O5"}) /\ state # target => ~laser
  /\ Entering({"O3"}) => state \in {"O1", "O3"}

LEMMA LaserStep ==
  ASSUME FALSE \notin LofEvents
  PROVE  TypeOK /\ LaserInv /\ [Next]_vars => LaserInv'
<1> SUFFICES ASSUME TypeOK, LaserInv, [Next]_vars PROVE LaserInv'
  OBVIOUS
<1> USE DEF LaserInv, LaserGuarded, Entering, Dark
<1>1. ASSUME UNCHANGED <<state, laser, to1, job, pc, target>> PROVE LaserInv'
  BY <1>1
<1>2. ASSUME NEW new \in {"O1", "O6"}, TransitionInIrq(new), UNCHANGED worker,
             new = "O6" => state = "O5"
      PROVE  LaserInv'
  <2>1. CASE state = new
    BY <1>1, <1>2, <2>1 DEF TransitionInIrq, timers, worker
  <2>2. CASE state # new
    <3>1. state' = new /\ ~laser'
      BY <1>2, <2>2, FlagAssumption DEF TransitionInIrq, EntryActions, LaserAfter, TypeOK
    <3>2. UNCHANGED <<job, pc, target>>
      BY <1>2 DEF worker
    <3> QED BY <1>2, <3>1, <3>2
  <2> QED BY <2>1, <2>2
<1>3. ASSUME NEW m \in Message, MessageArrives(m) PROVE LaserInv'
  BY <1>1, <1>3 DEF MessageArrives, timers, worker, optics, ctx
<1>4. CASE SignalChanges \/ IsrEnter \/ IsrQueue \/ IsrStop \/ IsrAck
  BY <1>1, <1>4 DEF SignalChanges, IsrEnter, IsrQueue, IsrStop, IsrAck, timers, worker,
                    optics, ctx
<1>5. CASE IsrLos
  BY <1>1, <1>2, <1>5 DEF IsrLos, worker, timers
<1>6. ASSUME NEW lof \in LofEvents, LofEvent(lof) PROVE LaserInv'
  <2>1. lof
    BY <1>6, FlagAssumption
  <2> QED BY <1>2, <1>6, <2>1 DEF LofEvent
<1>7. CASE To1Expires \/ To2Expires
  BY <1>7 DEF To1Expires, To2Expires, worker, optics, ctx
<1>8. CASE StartFsm \/ StartTo1 \/ StartTo2
  BY <1>8 DEF StartFsm, StartTo1, StartTo2, timers, optics, ctx
<1>9. CASE Dequeue \/ EndFsm
  BY <1>9 DEF Dequeue, EndFsm, timers, optics, ctx
<1>10. CASE Decode
  BY <1>10 DEF Decode, NextMessage, timers, optics
<1>11. CASE Assign \/ Ranging
  BY <1>11 DEF Assign, Ranging, timers, optics, ctx
<1>12. CASE TransitionCheck
  BY <1>12 DEF TransitionCheck, Return, NextMessage, timers, optics, ctx
<1>13. CASE TransitionCommit \/ TransitionNotify
  BY <1>13 DEF TransitionCommit, TransitionNotify, timers, optics, ctx
<1>14. CASE TransitionEntry
  <2> USE <1>14 DEF TransitionEntry, EntryActions, Return, NextMessage
  <2>1. pc' = "dequeue" /\ state' = state /\ job' # "to1"
    BY DEF TypeOK
  <2>2. ~Callbacks => ~laser'
    BY DEF LaserAfter
  <2>3. CASE target \in Dark
    <3>1. ~laser'
      BY <2>2, <2>3, FlagAssumption DEF LaserAfter
    <3> QED BY <2>1, <3>1
  <2>4. CASE target = "O3"
    BY <2>1, <2>2, <2>4 DEF To1After
  <2>5. CASE target \in {"O4", "O5"}
    <3>1. laser' => state = target
      BY <2>5 DEF LaserAfter
    <3> QED BY <2>1, <2>2, <2>5, <3>1
  <2> QED BY <2>3, <2>4, <2>5 DEF TypeOK, States
<1>15. CASE UNCHANGED vars
  BY <1>1, <1>15 DEF vars
<1> QED BY <1>3, <1>4, <1>5, <1>6, <1>7, <1>8, <1>9, <1>10, <1>11, <1>12, <1>13, <1>14,
           <1>15 DEF Next, Isr, Worker, Transition

\* As long as frame lock is not reported regained (the driver has no caller that
\* does), a laser armed in O1, O2, O6 or O7 is about to be switched off: by the
\* entry actions, or in O1 by TO1.
THEOREM LaserAlwaysGuarded ==
  ASSUME FALSE \notin LofEvents
  PROVE  Spec => []LaserGuarded
<1>1. Init => LaserInv
  BY DEF Init, LaserInv, LaserGuarded, Entering
<1>2. LaserInv => LaserGuarded
  BY DEF LaserInv
<1>3. TypeOK /\ LaserInv /\ [Next]_vars => LaserInv'
  BY LaserStep
<1> QED BY <1>1, <1>2, <1>3, TypeCorrect, PTL DEF Spec
=============================================================================
