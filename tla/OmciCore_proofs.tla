-------------------------- MODULE OmciCore_proofs --------------------------
(***************************************************************************)
(* Theorems about the core and the action thread of omcid, for every       *)
(* sequence of requests, every number of repeats and every FIFO size.      *)
(***************************************************************************)
EXTENDS OmciCore, SequenceTheorems, TLAPS

Request == [tid : Nat, kind : Kinds, ar : BOOLEAN, ok : BOOLEAN]

\* What the threads handle are requests; NoMsg has the shape of one.
LEMMA MessageType ==
  /\ Message \cup {NoMsg} \subseteq Request
  /\ NoRsp \in Response
  /\ \A i \in 1 .. Len(Requests) : Requests[i] \in Message
  /\ \A m \in Message : m.tid \in Tids
<1>1. \A i \in 1 .. Len(Requests) : Requests[i] \in Message
  BY RequestAssumption DEF Message
<1>2. Message \subseteq Request
  <2>1. \A i \in 1 .. Len(Requests) : Requests[i] \in Request
    BY RequestAssumption, ElementOfSeq DEF Request
  <2>2. DOMAIN Requests = 1 .. Len(Requests)
    BY RequestAssumption
  <2> QED BY <2>1, <2>2 DEF Message
<1>3. NoMsg \in Request /\ NoRsp \in Response
  BY DEF NoMsg, NoRsp, Request, Response, Kinds, Results
<1>4. \A m \in Message : m.tid \in Tids
  BY DEF Message, Tids
<1> QED BY <1>1, <1>2, <1>3, <1>4

\* rsp_create and msg_handle make responses.
LEMMA RspType ==
  ASSUME NEW m \in Request, NEW r \in Results
  PROVE  RspCreate(m) \in Response /\ HandleRsp(m, r) \in Response
BY DEF RspCreate, HandleRsp, Request, Response, Results

LEMMA TypeInit == Init => TypeOK
<1> SUFFICES ASSUME Init PROVE TypeOK
  OBVIOUS
<1>1. NoRsp \in Response /\ Len(Requests) \in Nat
  BY MessageType, RequestAssumption
<1>2. << >> \in Seq(Message) /\ Len(<< >>) = 0
  BY EmptySeq
<1>3. msgFifo \in Seq(Message) /\ Len(msgFifo) <= FifoSize
  BY <1>2, BoundAssumption DEF Init
<1>4. /\ done \in [Tids -> [n : Nat, result : Results]]
      /\ retransmit \in [{0, 1} -> Response]
      /\ reset \in [Threads -> ResetPcs]
  BY <1>1 DEF Init, Results, ResetPcs
<1>5. sent \in 0 .. Len(Requests) /\ repeats \in 0 .. MaxRepeats
  BY <1>1, BoundAssumption DEF Init
<1>6. core \in CorePcs /\ act \in ActPcs /\ mt \in Kinds
  BY DEF Init, CorePcs, ActPcs, Kinds
<1>7. /\ tx \in Response /\ busyRsp \in Response /\ actionRsp \in Response
      /\ rsp \in Response /\ msg = NoMsg /\ actionMsg = NoMsg
  BY <1>1 DEF Init
<1> QED BY <1>3, <1>4, <1>5, <1>6, <1>7 DEF Init, TypeOK

\* Every step of every thread keeps the types.
LEMMA TypeStep == TypeOK /\ [Next]_vars => TypeOK'
<1> SUFFICES ASSUME TypeOK, [Next]_vars PROVE TypeOK'
  OBVIOUS
<1> USE MessageType, BoundAssumption
<1>0. Len(Requests) \in Nat
  BY RequestAssumption
<1>1. ASSUME NEW m \in Message, MsgRecv(m)
      PROVE  msgFifo' \in Seq(Message) /\ Len(msgFifo') <= FifoSize /\ posting' \in BOOLEAN
  <2>1. CASE Len(msgFifo) < FifoSize
    <3>1. msgFifo' = Append(msgFifo, m) /\ posting' = TRUE
      BY <1>1, <2>1 DEF MsgRecv
    <3> QED BY <3>1, <2>1, AppendProperties DEF TypeOK
  <2>2. CASE ~(Len(msgFifo) < FifoSize)
    BY <1>1, <2>2 DEF MsgRecv, TypeOK
  <2> QED BY <2>1, <2>2
<1>2. CASE OltSend
  <2>1. Requests[sent + 1] \in Message /\ MsgRecv(Requests[sent + 1])
    BY <1>2, <1>0 DEF OltSend, TypeOK
  <2>2. sent' \in 0 .. Len(Requests) /\ answered' \in BOOLEAN
    BY <1>2, <1>0 DEF OltSend, TypeOK
  <2> QED BY <1>1, <1>2, <2>1, <2>2
        DEF OltSend, MsgRecv, TypeOK, coreV, action, events, actV, mib
<1>3. CASE OltRepeat
  <2>1. Requests[sent] \in Message /\ MsgRecv(Requests[sent])
    BY <1>3, <1>0 DEF OltRepeat, TypeOK
  <2>2. repeats' \in 0 .. MaxRepeats
    BY <1>3, <1>0 DEF OltRepeat, TypeOK
  <2> QED BY <1>1, <1>3, <2>1, <2>2
        DEF OltRepeat, MsgRecv, TypeOK, coreV, action, events, actV, mib
<1>4. CASE MsgWakeUp
  <2>1. msgEvent' \in Nat
    BY <1>4 DEF MsgWakeUp, TypeOK
  <2> QED BY <1>4, <2>1 DEF MsgWakeUp, TypeOK, olt, coreV, action, events, actV, mib
<1>5. ASSUME NEW s \in PloamStates, PloamStateChange(s)
      PROVE  TypeOK'
  <2>1. msgFifo' \in Seq(Message) /\ Len(msgFifo') <= FifoSize
    BY <1>5, EmptySeq DEF PloamStateChange
  <2>2. reset' \in [Threads -> ResetPcs]
    BY <1>5 DEF PloamStateChange, TypeOK, Threads, ResetPcs
  <2> QED BY <1>5, <2>1, <2>2
        DEF PloamStateChange, TypeOK, olt, coreV, action, events, actV
<1>6. CASE ProcessingEnable
  BY <1>6 DEF ProcessingEnable, TypeOK, olt, coreV, action, events, actV, mib
<1>7. ASSUME NEW t \in Threads, MibReset(t)
      PROVE  TypeOK'
  <2>1. /\ reset' \in [Threads -> ResetPcs] /\ mib_reset_in_progress' \in BOOLEAN
    BY <1>7 DEF MibReset, ResetCheck, ResetSet, ResetFlush, ResetDestroy, ResetRebuild, ResetCopy,
                ResetClear, ResetGoes, TypeOK, ResetPcs
  <2>2. retransmit' \in [{0, 1} -> Response]
    BY <1>7 DEF MibReset, ResetCheck, ResetSet, ResetFlush, ResetDestroy, ResetRebuild, ResetCopy,
                ResetClear, TypeOK
  <2>3. UNCHANGED <<olt, fifo, coreV, action, events, act, mt, rsp, mibHeld>>
    BY <1>7 DEF MibReset, ResetCheck, ResetSet, ResetFlush, ResetDestroy, ResetRebuild, ResetCopy,
                ResetClear, actV
  <2>4. done' \in [Tids -> [n : Nat, result : Results]]
    <3>1. CASE ResetFlush(t)
      BY <3>1 DEF ResetFlush, TypeOK
    <3>2. CASE ~ResetFlush(t)
      BY <1>7, <3>2 DEF MibReset, ResetCheck, ResetSet, ResetDestroy, ResetRebuild, ResetCopy,
                        ResetClear, TypeOK, actV
    <3> QED BY <3>1, <3>2
  <2> QED BY <2>1, <2>2, <2>3, <2>4 DEF TypeOK, olt, fifo, coreV, action, events
<1>8. CASE Core
  <2>0. msg \in Request /\ RspCreate(msg) \in Response
    BY RspType DEF TypeOK, Results
  <2>1. CASE CoreLoop
    BY <2>1 DEF CoreLoop, TypeOK, CorePcs, olt, fifo, action, events, actV, mib
  <2>2. CASE CoreWait
    BY <2>2 DEF CoreWait, TypeOK, CorePcs, olt, action, events, actV, mib
  <2>3. CASE CoreRead
    <3>1. msgFifo' \in Seq(Message) /\ Len(msgFifo') <= FifoSize /\ msg' \in Message \cup {NoMsg}
      <4>1. CASE msgFifo = << >>
        BY <2>3, <4>1 DEF CoreRead, TypeOK
      <4>2. CASE msgFifo # << >>
        <5>1. msgFifo \in Seq(Message) /\ Len(msgFifo) \in Nat /\ Len(msgFifo) <= FifoSize
          BY LenProperties DEF TypeOK
        <5>2. /\ Head(msgFifo) \in Message /\ Tail(msgFifo) \in Seq(Message)
              /\ Len(Tail(msgFifo)) = Len(msgFifo) - 1
          BY <4>2, <5>1, HeadTailProperties
        <5> QED BY <2>3, <4>2, <5>1, <5>2 DEF CoreRead
      <4> QED BY <4>1, <4>2
    <3>2. core' \in CorePcs
      BY <2>3 DEF CoreRead, CorePcs
    <3> QED BY <2>3, <3>1, <3>2 DEF CoreRead, TypeOK, olt, action, events, actV, mib
  <2>4. CASE CoreDispatch
    BY <2>4 DEF CoreDispatch, Send, TypeOK, CorePcs, olt, fifo, events, actV, mib
  <2>5. CASE CoreRetransmit
    <3>1. tx' \in Response /\ core' \in CorePcs
      BY <2>5 DEF CoreRetransmit, Send, TypeOK, CorePcs, Prio
    <3> QED BY <2>5, <3>1 DEF CoreRetransmit, Send, TypeOK, olt, fifo, action, events, actV, mib
  <2>6. CASE CoreStart
    BY <2>6, <2>0 DEF CoreStart, TypeOK, CorePcs, olt, fifo, actV, mib
  <2>7. CASE CoreHandled
    BY <2>7 DEF CoreHandled, TypeOK, CorePcs, olt, fifo, action, actV, mib
  <2>8. CASE CoreTimeout
    BY <2>8, <2>0 DEF CoreTimeout, ServiceBusy, Send, TypeOK, CorePcs, fifo, action, events, actV, mib
  <2>9. CASE CoreAnswer
    BY <2>9, <2>0 DEF CoreAnswer, ServiceBusy, Send, TypeOK, CorePcs, olt, fifo, events, actV, mib
  <2> QED BY <1>8, <2>1, <2>2, <2>3, <2>4, <2>5, <2>6, <2>7, <2>8, <2>9 DEF Core
<1>9. CASE Action
  <2>0. actionMsg \in Request /\ \A r \in Results : HandleRsp(actionMsg, r) \in Response
    BY RspType DEF TypeOK
  <2>1. CASE ActTake
    BY <2>1, <2>0 DEF ActTake, TypeOK, ActPcs, Request, olt, fifo, coreV, action, mib
  <2>2. CASE ActLock
    BY <2>2 DEF ActLock, TypeOK, ActPcs, olt, fifo, coreV, action, events, mib
  <2>3. CASE ActStart
    BY <2>3 DEF ActStart, TypeOK, ActPcs, olt, fifo, coreV, events, mib
  <2>4. CASE ActHandle
    <3>1. PICK result \in Results :
            /\ rsp' = HandleRsp(actionMsg, result)
            /\ done' = [done EXCEPT ![actionMsg.tid] = [n |-> @.n + 1, result |-> result]]
      BY <2>4 DEF ActHandle
    <3>2. done' \in [Tids -> [n : Nat, result : Results]]
      <4>1. CASE actionMsg.tid \in Tids
        <5>1. [n |-> done[actionMsg.tid].n + 1, result |-> result] \in [n : Nat, result : Results]
          BY <4>1 DEF TypeOK
        <5> QED BY <3>1, <4>1, <5>1 DEF TypeOK
      <4>2. CASE actionMsg.tid \notin Tids
        BY <3>1, <4>2 DEF TypeOK
      <4> QED BY <4>1, <4>2
    <3>3. act' \in ActPcs /\ reset' \in [Threads -> ResetPcs]
      BY <2>4 DEF ActHandle, ActPcs, ResetGoes, ResetPcs, Threads, TypeOK
    <3> QED BY <2>4, <2>0, <3>1, <3>2, <3>3
          DEF ActHandle, TypeOK, olt, fifo, coreV, action, events
  <2>5. CASE ActRefuse
    BY <2>5, <2>0 DEF ActRefuse, TypeOK, ActPcs, Results, olt, fifo, coreV, action, events, mib
  <2>6. CASE ActReset
    BY <2>6 DEF ActReset, TypeOK, ActPcs, olt, fifo, coreV, action, events, mib
  <2>7. CASE ActPublish
    <3>1. retransmit' \in [{0, 1} -> Response]
      BY <2>7 DEF ActPublish, TypeOK, Prio
    <3> QED BY <2>7, <3>1 DEF ActPublish, TypeOK, ActPcs, olt, fifo, coreV, events, mib
  <2>8. CASE ActSignal
    BY <2>8 DEF ActSignal, TypeOK, ActPcs, olt, fifo, coreV, action, mib
  <2>9. CASE ActUnlock
    BY <2>9 DEF ActUnlock, TypeOK, ActPcs, olt, fifo, coreV, action, events, mib
  <2> QED BY <1>9, <2>1, <2>2, <2>3, <2>4, <2>5, <2>6, <2>7, <2>8, <2>9 DEF Action
<1>10. CASE UNCHANGED vars
  BY <1>10 DEF vars, TypeOK
<1> QED BY <1>2, <1>3, <1>4, <1>5, <1>6, <1>7, <1>8, <1>9, <1>10 DEF Next

\* Type correctness: whatever the OLT asks and however the threads interleave,
\* every variable keeps its type and msg_fifo its bound.
THEOREM TypeCorrect == Spec => []TypeOK
BY TypeInit, TypeStep, PTL DEF Spec

-----------------------------------------------------------------------------
(* One action at a time.                                                   *)

\* The core thread hands over a request only after it saw action.run cleared,
\* and nobody but itself sets it again; while it waits, the request in
\* context->action is its own, and when it gives up with the action still
\* running it leaves that request's busy answer behind.
ActionInv ==
  /\ OneAction
  /\ core \in {"retransmit", "start"} => ~run
  /\ core \in {"waiting", "handled"} => actionMsg = msg
  /\ run /\ core \notin {"waiting", "handled"} => busyRsp.tid = actionMsg.tid

LEMMA ActionInit == Init => ActionInv
BY DEF Init, ActionInv, OneAction, Handling

\* One step per thread that touches context->action.
LEMMA ActionStep == TypeOK /\ ActionInv /\ [Next]_vars => ActionInv'
<1> SUFFICES ASSUME TypeOK, ActionInv, [Next]_vars PROVE ActionInv'
  OBVIOUS
<1> USE DEF ActionInv, OneAction, Handling
<1>0. actionEvent \in Nat /\ run \in BOOLEAN
  BY DEF TypeOK
<1>1. ASSUME UNCHANGED <<coreV, action, events, act>>
      PROVE  ActionInv'
  BY <1>1 DEF coreV, action, events
<1>2. CASE OltSend \/ OltRepeat \/ MsgWakeUp \/ ProcessingEnable
  BY <1>1, <1>2 DEF OltSend, OltRepeat, MsgRecv, MsgWakeUp, ProcessingEnable, actV
<1>3. ASSUME NEW s \in PloamStates, PloamStateChange(s)
      PROVE  ActionInv'
  BY <1>1, <1>3 DEF PloamStateChange, actV
<1>4. ASSUME NEW t \in Threads, MibReset(t)
      PROVE  ActionInv'
  BY <1>1, <1>4 DEF MibReset, ResetCheck, ResetSet, ResetFlush, ResetDestroy, ResetRebuild, ResetCopy,
                    ResetClear, actV
<1>5. CASE Core
  <2>1. CASE CoreLoop \/ CoreWait \/ CoreRead
    BY <2>1 DEF CoreLoop, CoreWait, CoreRead, action, events, actV
  <2>2. CASE CoreDispatch
    BY <2>2 DEF CoreDispatch, events, actV
  <2>3. CASE CoreRetransmit
    BY <2>3 DEF CoreRetransmit, action, events, actV
  <2>4. CASE CoreStart
    BY <1>0, <2>4 DEF CoreStart, actV
  <2>5. CASE CoreHandled
    BY <2>5 DEF CoreHandled, action, actV
  <2>6. CASE CoreTimeout
    BY <2>6 DEF CoreTimeout, ServiceBusy, RspCreate, action, events, actV
  <2>7. CASE CoreAnswer
    BY <2>7 DEF CoreAnswer, ServiceBusy, RspCreate, events, actV
  <2> QED BY <1>5, <2>1, <2>2, <2>3, <2>4, <2>5, <2>6, <2>7 DEF Core
<1>6. CASE Action
  <2>1. CASE ActTake
    BY <1>0, <2>1 DEF ActTake, coreV, action
  <2>2. CASE ActLock \/ ActStart \/ ActRefuse \/ ActReset
    BY <2>2 DEF ActLock, ActStart, ActRefuse, ActReset, coreV, action, events
  <2>3. CASE ActHandle
    BY <2>3 DEF ActHandle, coreV, action, events
  <2>4. CASE ActPublish
    BY <1>0, <2>4 DEF ActPublish, coreV, events
  <2>5. CASE ActSignal \/ ActUnlock
    BY <2>5 DEF ActSignal, ActUnlock, coreV, action, events
  <2> QED BY <1>6, <2>1, <2>2, <2>3, <2>4, <2>5 DEF Action
<1>7. CASE UNCHANGED vars
  BY <1>1, <1>7 DEF vars, coreV, action, events
<1> QED BY <1>2, <1>3, <1>4, <1>5, <1>6, <1>7 DEF Next

LEMMA ActionInvariant == Spec => [](TypeOK /\ ActionInv)
<1>1. Init => TypeOK /\ ActionInv
  BY TypeInit, ActionInit
<1>2. TypeOK /\ ActionInv /\ [Next]_vars => (TypeOK /\ ActionInv)'
  BY TypeStep, ActionStep
<1> QED BY <1>1, <1>2, PTL DEF Spec

\* There is one action at a time: action.run, written by two threads without a
\* lock, is set exactly while a request waits for the action thread or is handled.
THEOREM ActionsAreSerial == Spec => []OneAction
<1>1. ActionInv => OneAction
  BY DEF ActionInv
<1> QED BY <1>1, ActionInvariant, PTL

\* The core thread never overwrites the request that the action thread handles.
THEOREM RequestNotOverwritten == Spec => RequestIsStable
<1>1. TypeOK /\ ActionInv /\ [Next]_vars => [Handling => actionMsg' = actionMsg]_vars
  <2> SUFFICES ASSUME TypeOK, ActionInv, Next, Handling PROVE actionMsg' = actionMsg
    OBVIOUS
  <2>1. CASE Core
    <3>1. run
      BY DEF ActionInv, OneAction, TypeOK
    <3>2. ~CoreStart
      BY <3>1 DEF ActionInv, CoreStart
    <3> QED BY <2>1, <3>2
          DEF Core, CoreLoop, CoreWait, CoreRead, CoreDispatch, CoreRetransmit, CoreHandled,
              CoreTimeout, CoreAnswer, action
  <2>2. CASE Action
    BY <2>2 DEF Action, ActTake, ActLock, ActStart, ActHandle, ActRefuse, ActReset,
                ActPublish, ActSignal, ActUnlock, action
  <2>3. CASE \E t \in Threads : MibReset(t)
    BY <2>3 DEF MibReset, ResetCheck, ResetSet, ResetFlush, ResetDestroy, ResetRebuild, ResetCopy,
                ResetClear, action
  <2>4. CASE OltSend \/ OltRepeat \/ MsgWakeUp \/ ProcessingEnable
    BY <2>4 DEF OltSend, OltRepeat, MsgRecv, MsgWakeUp, ProcessingEnable, action
  <2>5. CASE \E s \in PloamStates : PloamStateChange(s)
    BY <2>5 DEF PloamStateChange, action
  <2> QED BY <2>1, <2>2, <2>3, <2>4, <2>5 DEF Next
<1> QED BY <1>1, ActionInvariant, PTL DEF Spec, RequestIsStable

\* The busy answer that later requests are answered with names the request that
\* is being executed; the static buffer behind it is never sent before it is filled.
THEOREM BusyAnswerIsRight == Spec => []BusyNamesRunning
<1>1. ActionInv => BusyNamesRunning
  BY DEF ActionInv, BusyNamesRunning
<1> QED BY <1>1, ActionInvariant, PTL

-----------------------------------------------------------------------------
(* The MIB lock.                                                           *)

\* The lock is held only between ActLock and ActUnlock, and only for requests
\* that the action thread's own mt says it must be released for.
LockInv ==
  mibHeld => /\ act \in {"start", "handle", "reset", "publish", "signal", "unlock"}
             /\ mt # "MIB_RESET"

\* The action thread never goes back to waiting with the MIB lock in its hands,
\* although another request may stand in context->action.msg when it unlocks.
THEOREM MibLockIsReleased == Spec => []LockReleased
<1>1. Init => LockInv
  BY DEF Init, LockInv
<1>2. LockInv /\ [Next]_vars => LockInv'
  <2> SUFFICES ASSUME LockInv, [Next]_vars PROVE LockInv'
    OBVIOUS
  <2>1. CASE UNCHANGED <<act, mt, mibHeld>>
    BY <2>1 DEF LockInv
  <2>2. CASE Action
    BY <2>2 DEF LockInv, Action, ActTake, ActLock, ActStart, ActHandle, ActRefuse, ActReset,
                ActPublish, ActSignal, ActUnlock
  <2>3. CASE Core
    BY <2>1, <2>3 DEF Core, CoreLoop, CoreWait, CoreRead, CoreDispatch, CoreRetransmit,
                      CoreStart, CoreHandled, CoreTimeout, CoreAnswer, actV
  <2>4. CASE \E t \in Threads : MibReset(t)
    BY <2>1, <2>4 DEF MibReset, ResetCheck, ResetSet, ResetFlush, ResetDestroy,
                      ResetRebuild, ResetCopy, ResetClear, actV
  <2>5. CASE OltSend \/ OltRepeat \/ MsgWakeUp \/ ProcessingEnable
    BY <2>1, <2>5 DEF OltSend, OltRepeat, MsgRecv, MsgWakeUp, ProcessingEnable, actV
  <2>6. CASE \E s \in PloamStates : PloamStateChange(s)
    BY <2>1, <2>6 DEF PloamStateChange, actV
  <2>7. CASE UNCHANGED vars
    BY <2>1, <2>7 DEF vars
  <2> QED BY <2>2, <2>3, <2>4, <2>5, <2>6, <2>7 DEF Next
<1>3. LockInv => LockReleased
  BY DEF LockInv, LockReleased
<1> QED BY <1>1, <1>2, <1>3, PTL DEF Spec

-----------------------------------------------------------------------------
(* Executed once.                                                          *)

\* The OLT gives every request a transaction id of its own.
FreshTids ==
  /\ \A i, j \in DOMAIN Requests : Requests[i].tid = Requests[j].tid => i = j
  /\ NoMsg \notin Message

\* The place of a request in what the OLT asks; 0 for none.
Pos(m) == IF m = NoMsg THEN 0 ELSE CHOOSE i \in DOMAIN Requests : Requests[i] = m

\* Request b may follow request a: a later one, or a again when it asks for an answer.
Before(a, b) == Pos(a) <= Pos(b) /\ (Pos(a) = Pos(b) => a.ar)

\* Requests stay in their order from the OLT through msg_fifo to the action thread.
OrderInv ==
  /\ \A i \in 1 .. Len(msgFifo) : Pos(msgFifo[i]) <= sent /\ Before(msg, msgFifo[i])
  /\ \A i, j \in 1 .. Len(msgFifo) : i < j => Before(msgFifo[i], msgFifo[j])
  /\ Pos(msg) <= sent /\ Pos(actionMsg) <= Pos(msg)
  /\ core \in {"dispatch", "retransmit", "start"} => msg \in Message /\ Before(actionMsg, msg)

Remembered(t) == retransmit[Prio(t)].ak /\ retransmit[Prio(t)].tid = t

\* A request that was executed lies behind the one in context->action, or is that one
\* and will not get past the retransmission memory again; one that is about to be
\* executed was not executed yet.
DoneInv ==
  /\ \A m \in Message : done[m.tid].n > 0 =>
       /\ m.ok /\ Pos(m) <= Pos(actionMsg)
       /\ m = actionMsg => ~m.ar \/ act \in {"reset", "publish"} \/ Remembered(m.tid)
  /\ core = "start" => done[msg.tid].n = 0
  /\ actionEvent > 0 \/ act \in {"lock", "start", "handle"} =>
       actionMsg \in Message /\ done[actionMsg.tid].n = 0
  /\ act \in {"reset", "publish"} =>
       rsp.tid = actionMsg.tid /\ (actionMsg.ok => (rsp.ak <=> actionMsg.ar))
  /\ AtMostOnce

\* A request has one place, and a place one request.
LEMMA PosFacts ==
  ASSUME FreshTids
  PROVE  /\ Pos(NoMsg) = 0
         /\ \A i \in 1 .. Len(Requests) : Pos(Requests[i]) = i
         /\ \A m \in Message : Pos(m) \in 1 .. Len(Requests) /\ Requests[Pos(m)] = m
         /\ \A m, n \in Message \cup {NoMsg} : Pos(m) = Pos(n) => m = n
         /\ \A m, n \in Message : m.tid = n.tid => m = n
<1>1. DOMAIN Requests = 1 .. Len(Requests) /\ Len(Requests) \in Nat
  BY RequestAssumption
<1>2. Pos(NoMsg) = 0
  BY DEF Pos
<1>3. \A m \in Message : Pos(m) \in 1 .. Len(Requests) /\ Requests[Pos(m)] = m
  <2> SUFFICES ASSUME NEW m \in Message
               PROVE  Pos(m) \in 1 .. Len(Requests) /\ Requests[Pos(m)] = m
    OBVIOUS
  <2>1. \E i \in DOMAIN Requests : Requests[i] = m
    BY DEF Message
  <2>2. Pos(m) = CHOOSE i \in DOMAIN Requests : Requests[i] = m
    BY DEF Pos, FreshTids
  <2> QED BY <2>1, <2>2, <1>1
<1>4. \A i \in 1 .. Len(Requests) : Pos(Requests[i]) = i
  BY <1>1, <1>3, MessageType DEF FreshTids
<1>5. \A m, n \in Message \cup {NoMsg} : Pos(m) = Pos(n) => m = n
  BY <1>1, <1>2, <1>3
<1>6. \A m, n \in Message : m.tid = n.tid => m = n
  BY <1>1 DEF FreshTids, Message
<1> QED BY <1>2, <1>3, <1>4, <1>5, <1>6

\* A message joins the FIFO behind all that were sent before it.
LEMMA RecvOrder ==
  ASSUME FreshTids, TypeOK, OrderInv, NEW m \in Message, MsgRecv(m),
         sent' \in {sent, sent + 1}, Pos(m) = sent', sent' = sent => m.ar
  PROVE  OrderInv'
<1>1. /\ sent \in Nat /\ msgFifo \in Seq(Message)
      /\ msg \in Message \cup {NoMsg} /\ actionMsg \in Message \cup {NoMsg}
  BY RequestAssumption DEF TypeOK
<1>2. \A n \in Message \cup {NoMsg} : Pos(n) \in Nat
  BY PosFacts, RequestAssumption
<1>3. UNCHANGED <<msg, actionMsg, core>>
  BY DEF MsgRecv, coreV, action
<1>4. \A n \in Message \cup {NoMsg} : Pos(n) <= sent => Before(n, m) /\ Pos(n) <= sent'
  BY <1>1, <1>2, PosFacts DEF Before
<1>5. CASE Len(msgFifo) < FifoSize
  <2>1. msgFifo' = Append(msgFifo, m)
    BY <1>5 DEF MsgRecv
  <2>2. /\ Len(msgFifo) \in Nat /\ Len(msgFifo') = Len(msgFifo) + 1
        /\ msgFifo'[Len(msgFifo) + 1] = m
        /\ \A i \in 1 .. Len(msgFifo) : msgFifo'[i] = msgFifo[i] /\ msgFifo[i] \in Message
    BY <1>1, <2>1, AppendProperties, ElementOfSeq
  <2>3. \A i \in 1 .. Len(msgFifo') : i \in 1 .. Len(msgFifo) \/ i = Len(msgFifo) + 1
    BY <2>2
  <2>4. \A i \in 1 .. Len(msgFifo') : Pos(msgFifo'[i]) <= sent' /\ Before(msg, msgFifo'[i])
    BY <1>1, <1>2, <1>4, <2>2, <2>3 DEF OrderInv
  <2>5. \A i, j \in 1 .. Len(msgFifo') : i < j => Before(msgFifo'[i], msgFifo'[j])
    <3> SUFFICES ASSUME NEW i \in 1 .. Len(msgFifo'), NEW j \in 1 .. Len(msgFifo'), i < j
                 PROVE  Before(msgFifo'[i], msgFifo'[j])
      OBVIOUS
    <3>1. i \in 1 .. Len(msgFifo)
      BY <2>2, <2>3
    <3>2. CASE j \in 1 .. Len(msgFifo)
      BY <3>1, <3>2, <2>2 DEF OrderInv
    <3>3. CASE j = Len(msgFifo) + 1
      BY <3>1, <3>3, <2>2, <1>4 DEF OrderInv
    <3> QED BY <3>2, <3>3, <2>3
  <2> QED BY <1>3, <1>4, <1>1, <2>4, <2>5 DEF OrderInv
<1>6. CASE ~(Len(msgFifo) < FifoSize)
  <2>1. msgFifo' = msgFifo
    BY <1>6 DEF MsgRecv
  <2>2. \A i \in 1 .. Len(msgFifo) : msgFifo[i] \in Message
    BY <1>1, ElementOfSeq
  <2> QED BY <2>1, <2>2, <1>1, <1>3, <1>4 DEF OrderInv
<1> QED BY <1>5, <1>6

LEMMA OrderInit == FreshTids /\ Init => OrderInv
<1> SUFFICES ASSUME FreshTids, Init PROVE OrderInv
  OBVIOUS
<1>1. \A i \in 1 .. Len(msgFifo) : FALSE
  BY DEF Init
<1> QED BY <1>1, PosFacts DEF Init, OrderInv

\* The order is kept: only the OLT adds to the FIFO, and only at its end.
LEMMA OrderStep ==
  ASSUME FreshTids
  PROVE  TypeOK /\ OrderInv /\ [Next]_vars => OrderInv'
<1> SUFFICES ASSUME TypeOK, OrderInv, [Next]_vars PROVE OrderInv'
  OBVIOUS
<1>1. /\ sent \in 0 .. Len(Requests) /\ Len(Requests) \in Nat /\ msgFifo \in Seq(Message)
      /\ msg \in Message \cup {NoMsg} /\ actionMsg \in Message \cup {NoMsg}
  BY RequestAssumption DEF TypeOK
<1>2. \A n \in Message \cup {NoMsg} : Pos(n) \in Nat
  BY PosFacts, RequestAssumption
<1>3. ASSUME UNCHANGED <<sent, msgFifo, msg, actionMsg>>,
             core' \in {"dispatch", "retransmit", "start"} =>
               core \in {"dispatch", "retransmit", "start"}
      PROVE  OrderInv'
  BY <1>3 DEF OrderInv
<1>4. CASE OltSend
  <2>1. sent + 1 \in 1 .. Len(Requests) /\ sent' = sent + 1 /\ MsgRecv(Requests[sent + 1])
    BY <1>1, <1>4 DEF OltSend
  <2>2. Requests[sent + 1] \in Message /\ Pos(Requests[sent + 1]) = sent'
    BY <2>1, PosFacts, MessageType
  <2> QED BY <1>1, <2>1, <2>2, RecvOrder
<1>5. CASE OltRepeat
  <2>1. sent \in 1 .. Len(Requests) /\ sent' = sent /\ MsgRecv(Requests[sent]) /\ Requests[sent].ar
    BY <1>1, <1>5 DEF OltRepeat
  <2>2. Requests[sent] \in Message /\ Pos(Requests[sent]) = sent'
    BY <2>1, PosFacts, MessageType
  <2> QED BY <1>1, <2>1, <2>2, RecvOrder
<1>6. CASE MsgWakeUp \/ ProcessingEnable
  BY <1>3, <1>6 DEF MsgWakeUp, ProcessingEnable, olt, coreV, action
<1>7. ASSUME NEW s \in PloamStates, PloamStateChange(s)
      PROVE  OrderInv'
  <2>1. \A i \in 1 .. Len(msgFifo') : FALSE
    BY <1>7 DEF PloamStateChange
  <2> QED BY <2>1, <1>7 DEF PloamStateChange, OrderInv, olt, coreV, action
<1>8. ASSUME NEW t \in Threads, MibReset(t)
      PROVE  OrderInv'
  BY <1>3, <1>8 DEF MibReset, ResetCheck, ResetSet, ResetFlush, ResetDestroy, ResetRebuild, ResetCopy,
                    ResetClear, olt, fifo, coreV, action
<1>9. CASE Core
  <2>1. CASE CoreLoop \/ CoreWait
    BY <2>1, <1>3 DEF CoreLoop, CoreWait, olt, fifo, action
  <2>2. CASE CoreRead
    <3>1. CASE msgFifo = << >>
      BY <3>1, <2>2, <1>3 DEF CoreRead, olt, action
    <3>2. CASE msgFifo # << >>
      <4>1. /\ msg' = Head(msgFifo) /\ msgFifo' = Tail(msgFifo) /\ UNCHANGED <<sent, actionMsg>>
        BY <3>2, <2>2 DEF CoreRead, olt, action
      <4>2. /\ Len(msgFifo) \in Nat /\ 1 \in 1 .. Len(msgFifo) /\ msg' = msgFifo[1]
            /\ msg' \in Message /\ Len(msgFifo') = Len(msgFifo) - 1
            /\ \A i \in 1 .. Len(msgFifo') : msgFifo'[i] = msgFifo[i + 1]
        BY <3>2, <4>1, <1>1, HeadTailProperties
      <4>3. \A i \in 1 .. Len(msgFifo') : i + 1 \in 1 .. Len(msgFifo) /\ 1 < i + 1
        BY <4>2
      <4>4. \A i \in 1 .. Len(msgFifo') : Pos(msgFifo'[i]) <= sent' /\ Before(msg', msgFifo'[i])
        BY <4>1, <4>2, <4>3 DEF OrderInv
      <4>5. \A i, j \in 1 .. Len(msgFifo') : i < j => Before(msgFifo'[i], msgFifo'[j])
        <5> SUFFICES ASSUME NEW i \in 1 .. Len(msgFifo'), NEW j \in 1 .. Len(msgFifo'), i < j
                     PROVE  Before(msgFifo'[i], msgFifo'[j])
          OBVIOUS
        <5>1. i + 1 < j + 1
          OBVIOUS
        <5>2. Before(msgFifo[i + 1], msgFifo[j + 1])
          BY <5>1, <4>3 DEF OrderInv
        <5> QED BY <5>2, <4>2
      <4>6. Before(msg, msg') /\ Pos(msg') <= sent' /\ Pos(actionMsg) <= Pos(msg)
        BY <4>1, <4>2 DEF OrderInv
      <4>7. Pos(actionMsg') <= Pos(msg') /\ Before(actionMsg', msg')
        BY <4>1, <4>2, <4>6, <1>1, <1>2, PosFacts DEF Before
      <4> QED BY <4>2, <4>4, <4>5, <4>6, <4>7 DEF OrderInv
    <3> QED BY <3>1, <3>2
  <2>3. CASE CoreDispatch \/ CoreRetransmit
    BY <2>3, <1>3 DEF CoreDispatch, CoreRetransmit, Send, olt, fifo, action
  <2>4. CASE CoreStart
    BY <2>4, <1>1, <1>2 DEF CoreStart, OrderInv, olt, fifo
  <2>5. CASE CoreHandled \/ CoreTimeout \/ CoreAnswer
    BY <2>5, <1>3 DEF CoreHandled, CoreTimeout, CoreAnswer, ServiceBusy, Send, olt, fifo, action
  <2> QED BY <1>9, <2>1, <2>2, <2>3, <2>4, <2>5 DEF Core
<1>10. CASE Action
  BY <1>3, <1>10 DEF Action, ActTake, ActLock, ActStart, ActHandle, ActRefuse, ActReset,
                     ActPublish, ActSignal, ActUnlock, olt, fifo, coreV, action
<1>11. CASE UNCHANGED vars
  BY <1>3, <1>11 DEF vars
<1> QED BY <1>4, <1>5, <1>6, <1>7, <1>8, <1>9, <1>10, <1>11 DEF Next

LEMMA DoneInit == Init => DoneInv
<1> SUFFICES ASSUME Init PROVE DoneInv
  OBVIOUS
<1>1. \A t \in Tids : done[t].n = 0
  BY DEF Init
<1>2. \A m \in Message : done[m.tid].n = 0
  BY <1>1, MessageType
<1> QED BY <1>1, <1>2 DEF Init, DoneInv, AtMostOnce

\* A repeat that passes the retransmission memory was not executed since the last
\* flush, and a request is executed only once it has passed it.
LEMMA DoneStep ==
  ASSUME FreshTids
  PROVE  TypeOK /\ ActionInv /\ OrderInv /\ DoneInv /\ [Next]_vars => DoneInv'
<1> SUFFICES ASSUME TypeOK, ActionInv, OrderInv, DoneInv, [Next]_vars PROVE DoneInv'
  OBVIOUS
<1>1. /\ msg \in Message \cup {NoMsg} /\ actionMsg \in Message \cup {NoMsg}
      /\ done \in [Tids -> [n : Nat, result : Results]]
      /\ actionEvent \in Nat /\ retransmit \in [{0, 1} -> Response]
      /\ rsp \in Response
  BY DEF TypeOK
<1>2. \A m \in Message : m.tid \in Tids /\ done[m.tid].n \in Nat
  BY <1>1, MessageType
<1>3. \A n \in Message \cup {NoMsg} : Pos(n) \in Nat
  BY PosFacts, RequestAssumption
<1>4. Handling => run /\ actionEvent = 0 /\ core # "start" /\ core # "retransmit"
  BY <1>1 DEF ActionInv, OneAction, TypeOK
<1>5. ASSUME UNCHANGED <<done, retransmit, actionMsg, actionEvent, act, rsp>>,
             core' = "start" => core = "start" /\ msg' = msg
      PROVE  DoneInv'
  BY <1>5 DEF DoneInv, Remembered, AtMostOnce
<1>6. CASE OltSend \/ OltRepeat \/ MsgWakeUp \/ ProcessingEnable
  BY <1>5, <1>6 DEF OltSend, OltRepeat, MsgRecv, MsgWakeUp, ProcessingEnable, coreV, action,
                    events, actV
<1>7. ASSUME NEW s \in PloamStates, PloamStateChange(s)
      PROVE  DoneInv'
  BY <1>5, <1>7 DEF PloamStateChange, coreV, action, events, actV
<1>8. ASSUME NEW t \in Threads, MibReset(t)
      PROVE  DoneInv'
  <2>1. CASE ResetFlush(t)
    <3>1. UNCHANGED <<actionMsg, actionEvent, act, rsp, core, msg>>
      BY <2>1 DEF ResetFlush, coreV, action, events
    <3>2. \A i \in Tids : /\ done'[i].n = 0 \/ done'[i].n = done[i].n
                          /\ ~(Handling /\ i = actionMsg.tid) => done'[i].n = 0
      BY <2>1 DEF ResetFlush
    <3>3. AtMostOnce'
      BY <3>2 DEF DoneInv, AtMostOnce
    <3>4. ASSUME NEW m \in Message, done'[m.tid].n > 0
          PROVE  /\ m.ok /\ Pos(m) <= Pos(actionMsg)
                 /\ m = actionMsg => act \in {"reset", "publish"}
      <4>1. done[m.tid].n > 0 /\ Handling
        BY <3>4, <3>2, <1>2
      <4>2. m = actionMsg => act \notin {"lock", "start", "handle"}
        BY <4>1, <1>2 DEF DoneInv
      <4> QED BY <4>1, <4>2 DEF DoneInv, Handling
    <3>5. \A m \in Message : done[m.tid].n = 0 => done'[m.tid].n = 0
      BY <3>2, <1>2
    <3>6. core = "start" => done'[msg.tid].n = 0
      BY <3>5 DEF DoneInv, OrderInv
    <3>7. actionEvent > 0 \/ act \in {"lock", "start", "handle"} =>
            actionMsg \in Message /\ done'[actionMsg.tid].n = 0
      BY <3>5 DEF DoneInv
    <3>8. act \in {"reset", "publish"} =>
            rsp.tid = actionMsg.tid /\ (actionMsg.ok => (rsp.ak <=> actionMsg.ar))
      BY DEF DoneInv
    <3> QED BY <3>1, <3>3, <3>4, <3>6, <3>7, <3>8 DEF DoneInv
  <2>2. CASE ~ResetFlush(t)
    BY <1>5, <1>8, <2>2 DEF MibReset, ResetCheck, ResetSet, ResetDestroy, ResetRebuild, ResetCopy,
                      ResetClear, coreV, action, events, actV
  <2> QED BY <2>1, <2>2
<1>9. CASE Core
  <2>1. CASE CoreLoop \/ CoreWait \/ CoreRead \/ CoreDispatch
    BY <2>1, <1>5 DEF CoreLoop, CoreWait, CoreRead, CoreDispatch, action, events, actV
  <2>2. CASE CoreRetransmit
    <3>1. UNCHANGED <<done, retransmit, actionMsg, actionEvent, act, rsp, msg>>
      BY <2>2 DEF CoreRetransmit, action, events, actV
    <3>2. core = "retransmit" /\ (Remembered(msg.tid) => core' = "idle")
      BY <2>2 DEF CoreRetransmit, Remembered
    <3>3. act \notin {"reset", "publish"}
      BY <3>2, <1>4 DEF Handling
    <3>4. msg \in Message /\ Before(actionMsg, msg)
      BY <3>2 DEF OrderInv
    <3>5. core' = "start" => done[msg.tid].n = 0
      <4> SUFFICES ASSUME done[msg.tid].n > 0 PROVE Remembered(msg.tid)
        BY <3>2, <3>4, <1>2
      <4>1. Pos(msg) <= Pos(actionMsg)
        BY <3>4 DEF DoneInv
      <4>2. msg = actionMsg /\ actionMsg.ar
        BY <4>1, <3>4, <1>1, <1>3, PosFacts DEF Before
      <4> QED BY <4>2, <3>3, <3>4 DEF DoneInv
    <3> QED BY <3>1, <3>2, <3>5 DEF DoneInv, Remembered, AtMostOnce
  <2>3. CASE CoreStart
    <3>1. /\ UNCHANGED <<done, retransmit, act, rsp, msg>> /\ actionMsg' = msg
          /\ core = "start" /\ core' = "waiting"
      BY <2>3 DEF CoreStart, actV
    <3>2. msg \in Message /\ Pos(actionMsg) <= Pos(msg) /\ done[msg.tid].n = 0
      BY <3>1 DEF OrderInv, DoneInv
    <3>3. act \notin {"lock", "start", "handle", "reset", "publish"}
      BY <3>1, <1>4 DEF Handling
    <3>4. \A m \in Message : done[m.tid].n > 0 => m.ok /\ Pos(m) <= Pos(msg) /\ m # msg
      <4>1. ASSUME NEW m \in Message, done[m.tid].n > 0
            PROVE  m.ok /\ Pos(m) <= Pos(actionMsg)
        BY <4>1 DEF DoneInv
      <4> QED BY <4>1, <3>2, <1>1, <1>3
    <3> QED BY <3>1, <3>2, <3>3, <3>4 DEF DoneInv, AtMostOnce
  <2>4. CASE CoreHandled \/ CoreTimeout \/ CoreAnswer
    BY <2>4, <1>5 DEF CoreHandled, CoreTimeout, CoreAnswer, ServiceBusy, action, events, actV
  <2> QED BY <1>9, <2>1, <2>2, <2>3, <2>4 DEF Core
<1>10. CASE Action
  <2>1. CASE ActTake
    BY <2>1, <1>1 DEF ActTake, DoneInv, Remembered, AtMostOnce, coreV, action
  <2>2. CASE ActLock
    BY <2>2, <1>1 DEF ActLock, DoneInv, Remembered, AtMostOnce, coreV, action, events
  <2>3. CASE ActStart
    BY <2>3, <1>1 DEF ActStart, DoneInv, Remembered, AtMostOnce, coreV, events
  <2>4. CASE ActHandle
    <3>1. Handling /\ act = "handle" /\ actionMsg.ok /\ act' \in {"reset", "publish"}
      BY <2>4 DEF ActHandle, Handling
    <3>2. UNCHANGED <<retransmit, actionMsg, actionEvent, core, msg>>
      BY <2>4 DEF ActHandle, coreV, action, events
    <3>3. actionMsg \in Message /\ done[actionMsg.tid].n = 0
      BY <3>1 DEF DoneInv
    <3>4. PICK res \in Results :
            /\ rsp' = HandleRsp(actionMsg, res)
            /\ done' = [done EXCEPT ![actionMsg.tid] = [n |-> @.n + 1, result |-> res]]
      BY <2>4 DEF ActHandle
    <3>5. actionMsg \in Request
      BY <3>3, MessageType
    <3>6. rsp'.tid = actionMsg.tid /\ (rsp'.ak <=> actionMsg.ar)
      BY <3>4, <3>1, <3>5 DEF HandleRsp, RspCreate, Request
    <3>7. /\ done'[actionMsg.tid].n = 1
          /\ \A i \in Tids : i # actionMsg.tid => done'[i] = done[i]
      BY <3>4, <3>3, <1>1, <1>2
    <3>8. AtMostOnce'
      BY <3>7, <3>3, <1>2 DEF DoneInv, AtMostOnce
    <3>9. ASSUME NEW m \in Message, done'[m.tid].n > 0
          PROVE  /\ m.ok /\ Pos(m) <= Pos(actionMsg)
                 /\ m = actionMsg => act' \in {"reset", "publish"}
      <4>1. CASE m.tid = actionMsg.tid
        <5>1. m = actionMsg
          BY <4>1, <3>3, PosFacts
        <5> QED BY <5>1, <3>1, <1>1, <1>3
      <4>2. CASE m.tid # actionMsg.tid
        BY <4>2, <3>7, <3>9, <1>2, <3>1 DEF DoneInv
      <4> QED BY <4>1, <4>2
    <3>10. actionEvent = 0 /\ core # "start"
      BY <3>1, <1>4
    <3> QED BY <3>1, <3>2, <3>6, <3>8, <3>9, <3>10 DEF DoneInv
  <2>5. CASE ActRefuse
    <3>1. Handling /\ act = "handle" /\ ~actionMsg.ok /\ act' = "publish"
      BY <2>5 DEF ActRefuse, Handling
    <3>2. UNCHANGED <<done, retransmit, actionMsg, actionEvent, core, msg>>
      BY <2>5 DEF ActRefuse, coreV, action, events
    <3>3. rsp' = HandleRsp(actionMsg, "success")
      BY <2>5 DEF ActRefuse
    <3>4. rsp'.tid = actionMsg.tid
      BY <3>3 DEF HandleRsp, RspCreate
    <3>5. actionEvent = 0 /\ core # "start"
      BY <3>1, <1>4
    <3> QED BY <3>1, <3>2, <3>4, <3>5 DEF DoneInv, Remembered, AtMostOnce
  <2>6. CASE ActReset
    BY <2>6 DEF ActReset, DoneInv, Remembered, AtMostOnce, coreV, action, events
  <2>7. CASE ActPublish
    <3>1. Handling /\ act = "publish" /\ act' = "signal"
      BY <2>7 DEF ActPublish, Handling
    <3>2. UNCHANGED <<done, actionMsg, actionEvent, core, msg, rsp>>
      BY <2>7 DEF ActPublish, coreV, events
    <3>3. rsp.tid = actionMsg.tid /\ (actionMsg.ok => (rsp.ak <=> actionMsg.ar))
      BY <3>1 DEF DoneInv
    <3>4. rsp.ak => retransmit'[Prio(actionMsg.tid)] = rsp
      BY <2>7, <1>1 DEF ActPublish, Prio
    <3>5. ASSUME actionMsg.ok, actionMsg.ar
          PROVE  Remembered(actionMsg.tid)'
      <4>1. rsp.ak
        BY <3>3, <3>5
      <4> QED BY <4>1, <3>2, <3>3, <3>4 DEF Remembered
    <3>6. actionEvent = 0 /\ core # "start"
      BY <3>1, <1>4
    <3>7. ASSUME NEW m \in Message, done[m.tid].n > 0
          PROVE  /\ m.ok /\ Pos(m) <= Pos(actionMsg)
                 /\ m = actionMsg => ~m.ar \/ Remembered(m.tid)'
      <4>1. m.ok /\ Pos(m) <= Pos(actionMsg)
        BY <3>7 DEF DoneInv
      <4>2. CASE m = actionMsg /\ m.ar
        <5>1. Remembered(actionMsg.tid)'
          BY <4>1, <4>2, <3>5
        <5> QED BY <4>1, <4>2, <5>1, <3>2 DEF Remembered
      <4> QED BY <4>1, <4>2
    <3> QED BY <3>1, <3>2, <3>6, <3>7 DEF DoneInv, AtMostOnce
  <2>8. CASE ActSignal \/ ActUnlock
    BY <2>8 DEF ActSignal, ActUnlock, DoneInv, Remembered, AtMostOnce, coreV, action, events
  <2> QED BY <1>10, <2>1, <2>2, <2>3, <2>4, <2>5, <2>6, <2>7, <2>8 DEF Action
<1>11. CASE UNCHANGED vars
  BY <1>5, <1>11 DEF vars
<1> QED BY <1>6, <1>7, <1>8, <1>9, <1>10, <1>11 DEF Next

\* However late the action thread is and however often the OLT repeats itself, no
\* request is executed twice between two MIB resets, given that the OLT does not use
\* a transaction id again.
THEOREM ExecutedOnce == ASSUME FreshTids PROVE Spec => []AtMostOnce
<1>1. Init => OrderInv /\ DoneInv
  BY OrderInit, DoneInit
<1>2. TypeOK /\ ActionInv /\ OrderInv /\ DoneInv /\ [Next]_vars => (OrderInv /\ DoneInv)'
  BY OrderStep, DoneStep
<1>3. DoneInv => AtMostOnce
  BY DEF DoneInv
<1> QED BY <1>1, <1>2, <1>3, ActionInvariant, PTL DEF Spec

-----------------------------------------------------------------------------
(* Answered rightly.                                                       *)

\* While no action outlasts action_timeout, the two threads take turns: the core
\* thread waits as long as action.run is set, there is at most one token in
\* action_handled_event and it is for this wait, and action.ready is never left
\* over from an earlier request.
PromptInv ==
  /\ run => core = "waiting"
  /\ handledEvent > 0 \/ act = "signal" => ~run /\ core = "waiting"
  /\ handledEvent <= 1 /\ ~(handledEvent = 1 /\ act = "signal")
  /\ ready => core \in {"waiting", "handled"}

\* Response r answers request m with the result of m's last execution.
Answers(r, m) == r.tid = m.tid /\ (r.ak <=> m.ar) /\ r.result = done[m.tid].result

\* The answer on its way from msg_handle to the core thread is the one to the request
\* at hand; a remembered one is to the request whose id it bears, and is out of date
\* at most while that request is being executed again.
AnswerInv ==
  /\ act \in {"reset", "publish"} =>
       IF actionMsg.ok THEN Answers(rsp, actionMsg) ELSE ~rsp.ak
  /\ (core = "handled" \/ act = "signal" \/ handledEvent > 0) /\ msg.ok => Answers(actionRsp, msg)
  /\ \A p \in {0, 1} : retransmit[p].ak =>
       \E m \in Message :
         /\ m.ar /\ m.ok /\ Prio(m.tid) = p
         /\ retransmit[p].tid = m.tid
         /\ (Handling /\ m = actionMsg) \/ Answers(retransmit[p], m)

LEMMA PromptInit == Init => PromptInv
BY DEF Init, PromptInv

LEMMA PromptStep ==
  ASSUME ~Slow
  PROVE  TypeOK /\ ActionInv /\ PromptInv /\ [Next]_vars => PromptInv'
<1> SUFFICES ASSUME TypeOK, ActionInv, PromptInv, [Next]_vars PROVE PromptInv'
  OBVIOUS
<1> USE DEF PromptInv
<1>1. actionEvent \in Nat /\ handledEvent \in Nat /\ run \in BOOLEAN /\ ready \in BOOLEAN
  BY DEF TypeOK
<1>2. Handling => run
  BY <1>1 DEF ActionInv, OneAction
<1>3. ASSUME UNCHANGED <<core, action, events, act>>
      PROVE  PromptInv'
  BY <1>3 DEF action, events
<1>4. CASE OltSend \/ OltRepeat \/ MsgWakeUp \/ ProcessingEnable
  BY <1>3, <1>4 DEF OltSend, OltRepeat, MsgRecv, MsgWakeUp, ProcessingEnable, coreV, actV
<1>5. ASSUME NEW s \in PloamStates, PloamStateChange(s)
      PROVE  PromptInv'
  BY <1>3, <1>5 DEF PloamStateChange, coreV, actV
<1>6. ASSUME NEW t \in Threads, MibReset(t)
      PROVE  PromptInv'
  BY <1>3, <1>6 DEF MibReset, ResetCheck, ResetSet, ResetFlush, ResetDestroy, ResetRebuild, ResetCopy,
                    ResetClear, coreV, actV
<1>7. CASE Core
  <2>1. CASE CoreLoop \/ CoreWait \/ CoreRead \/ CoreRetransmit
    BY <2>1 DEF CoreLoop, CoreWait, CoreRead, CoreRetransmit, action, events, actV
  <2>2. CASE CoreDispatch
    BY <2>2 DEF CoreDispatch, events, actV
  <2>3. CASE CoreStart
    BY <2>3 DEF CoreStart, actV
  <2>4. CASE CoreHandled
    BY <1>1, <2>4 DEF CoreHandled, action, actV
  <2>5. CASE CoreTimeout
    BY <2>5 DEF CoreTimeout
  <2>6. CASE CoreAnswer
    BY <2>6 DEF CoreAnswer, events, actV
  <2> QED BY <1>7, <2>1, <2>2, <2>3, <2>4, <2>5, <2>6 DEF Core
<1>8. CASE Action
  <2>1. CASE ActTake
    BY <2>1 DEF ActTake, coreV, action
  <2>2. CASE ActLock \/ ActStart \/ ActRefuse \/ ActReset
    BY <2>2, <1>1 DEF ActLock, ActStart, ActRefuse, ActReset, coreV, action, events
  <2>3. CASE ActHandle
    BY <2>3 DEF ActHandle, coreV, action, events
  <2>4. CASE ActPublish
    BY <2>4, <1>1, <1>2 DEF ActPublish, Handling, coreV, events
  <2>5. CASE ActSignal
    BY <2>5, <1>1 DEF ActSignal, coreV, action
  <2>6. CASE ActUnlock
    BY <2>6 DEF ActUnlock, coreV, action, events
  <2> QED BY <1>8, <2>1, <2>2, <2>3, <2>4, <2>5, <2>6 DEF Action
<1>9. CASE UNCHANGED vars
  BY <1>3, <1>9 DEF vars, action, events
<1> QED BY <1>4, <1>5, <1>6, <1>7, <1>8, <1>9 DEF Next

LEMMA AnswerInit == Init => AnswerInv
BY DEF Init, AnswerInv, NoRsp, NoMsg

\* The answer's way from msg_handle through rsp, action.rsp and the memory.
LEMMA AnswerStep ==
  ASSUME FreshTids, ~Failsafe
  PROVE  TypeOK /\ ActionInv /\ PromptInv /\ DoneInv /\ AnswerInv /\ [Next]_vars => AnswerInv'
<1> SUFFICES ASSUME TypeOK, ActionInv, PromptInv, DoneInv, AnswerInv, [Next]_vars
             PROVE  AnswerInv'
  OBVIOUS
<1>1. /\ msg \in Message \cup {NoMsg} /\ actionMsg \in Message \cup {NoMsg}
      /\ done \in [Tids -> [n : Nat, result : Results]]
      /\ actionEvent \in Nat /\ handledEvent \in Nat /\ run \in BOOLEAN
      /\ retransmit \in [{0, 1} -> Response] /\ rsp \in Response
  BY DEF TypeOK
<1>2. \A m \in Message \cup {NoMsg} : m.ok => m \in Message /\ m.tid \in Tids
  BY MessageType DEF NoMsg
<1>3. Handling => /\ run /\ actionEvent = 0 /\ core = "waiting" /\ msg = actionMsg
                  /\ handledEvent = 0
  BY <1>1 DEF ActionInv, OneAction, PromptInv
<1>4. handledEvent > 0 \/ act = "signal" => core = "waiting" /\ ~Handling
  BY <1>1, <1>3 DEF PromptInv
<1>5. ASSUME UNCHANGED <<done, retransmit, actionMsg, act, rsp, actionRsp, handledEvent>>,
             UNCHANGED msg \/ core = "read",
             core' = "handled" => core \in {"waiting", "handled"},
             core' = "handled" /\ core = "waiting" => handledEvent > 0
      PROVE  AnswerInv'
  <2>1. act' \in {"reset", "publish"} =>
          (IF actionMsg.ok THEN Answers(rsp, actionMsg) ELSE ~rsp.ak)'
    BY <1>5 DEF AnswerInv, Answers
  <2>2. \A p \in {0, 1} : retransmit'[p].ak =>
          \E m \in Message :
            /\ m.ar /\ m.ok /\ Prio(m.tid) = p
            /\ retransmit'[p].tid = m.tid
            /\ (Handling' /\ m = actionMsg') \/ Answers(retransmit[p], m)'
    BY <1>5 DEF AnswerInv, Answers, Handling
  <2>3. (core' = "handled" \/ act' = "signal" \/ handledEvent' > 0) /\ msg'.ok =>
          Answers(actionRsp, msg)'
    <3> SUFFICES ASSUME core' = "handled" \/ act' = "signal" \/ handledEvent' > 0, msg'.ok
                 PROVE  Answers(actionRsp, msg)'
      OBVIOUS
    <3>1. core = "handled" \/ act = "signal" \/ handledEvent > 0
      BY <1>5
    <3>2. msg' = msg
      BY <3>1, <1>4, <1>5
    <3> QED BY <3>1, <3>2, <1>5 DEF AnswerInv, Answers
  <2> QED BY <2>1, <2>2, <2>3 DEF AnswerInv
<1>6. CASE OltSend \/ OltRepeat \/ MsgWakeUp \/ ProcessingEnable
  BY <1>5, <1>6, <1>1 DEF OltSend, OltRepeat, MsgRecv, MsgWakeUp, ProcessingEnable, coreV, action,
                    events, actV
<1>7. ASSUME NEW s \in PloamStates, PloamStateChange(s)
      PROVE  AnswerInv'
  BY <1>5, <1>7 DEF PloamStateChange, coreV, action, events, actV
<1>8. ASSUME NEW t \in Threads, MibReset(t)
      PROVE  AnswerInv'
  <2>1. CASE ResetFlush(t)
    <3>1. /\ UNCHANGED <<actionMsg, act, rsp, core, msg, actionRsp, handledEvent>>
          /\ \A p \in {0, 1} : ~retransmit'[p].ak
      BY <2>1 DEF ResetFlush, coreV, action, events, NoRsp
    <3>2. \A i \in Tids : done'[i].result = done[i].result
      BY <2>1 DEF ResetFlush
    <3>3. \A m \in Message \cup {NoMsg} : m.ok => done'[m.tid].result = done[m.tid].result
      BY <3>2, <1>2
    <3> QED BY <3>1, <3>3, <1>1 DEF AnswerInv, Answers
  <2>2. CASE ~ResetFlush(t)
    BY <1>5, <1>8, <2>2 DEF MibReset, ResetCheck, ResetSet, ResetDestroy, ResetRebuild, ResetCopy,
                      ResetClear, coreV, action, events, actV
  <2> QED BY <2>1, <2>2
<1>9. CASE Core
  <2>1. CASE CoreLoop \/ CoreWait \/ CoreRead \/ CoreDispatch \/ CoreRetransmit
    BY <2>1, <1>5 DEF CoreLoop, CoreWait, CoreRead, CoreDispatch, CoreRetransmit, action, events, actV
  <2>2. CASE CoreStart
    <3>1. /\ UNCHANGED <<done, retransmit, act, rsp, msg, handledEvent>>
          /\ core = "start" /\ core' = "waiting"
      BY <2>2 DEF CoreStart, actV
    <3>2. ~Handling /\ ~(handledEvent > 0 \/ act = "signal")
      BY <3>1, <1>3, <1>4
    <3>3. \A p \in {0, 1} : retransmit'[p].ak =>
            \E m \in Message :
              /\ m.ar /\ m.ok /\ Prio(m.tid) = p
              /\ retransmit'[p].tid = m.tid
              /\ Answers(retransmit[p], m)'
      BY <3>1, <3>2 DEF AnswerInv, Answers
    <3> QED BY <3>1, <3>2, <3>3 DEF AnswerInv, Handling
  <2>3. CASE CoreHandled
    <3>1. /\ UNCHANGED <<done, retransmit, actionMsg, act, rsp, msg, actionRsp>>
          /\ core = "waiting" /\ handledEvent > 0
      BY <2>3 DEF CoreHandled, action, actV
    <3> QED BY <3>1 DEF AnswerInv, Answers, Handling
  <2>4. CASE CoreTimeout
    BY <2>4, <1>5 DEF CoreTimeout, ServiceBusy, action, events, actV
  <2>5. CASE CoreAnswer
    BY <2>5, <1>5 DEF CoreAnswer, ServiceBusy, events, actV
  <2> QED BY <1>9, <2>1, <2>2, <2>3, <2>4, <2>5 DEF Core
<1>10. CASE Action
  <2>1. CASE ActTake \/ ActLock \/ ActStart
    <3>1. /\ UNCHANGED <<done, retransmit, actionMsg, msg, actionRsp, handledEvent, core>>
          /\ act' \in {"lock", "start", "handle"}
      BY <2>1 DEF ActTake, ActLock, ActStart, coreV, action, events
    <3> QED BY <3>1 DEF AnswerInv, Answers, Handling
  <2>2. CASE ActHandle
    <3>1. /\ Handling /\ act = "handle" /\ actionMsg.ok /\ act' \in {"reset", "publish"}
          /\ UNCHANGED <<retransmit, actionMsg, handledEvent, core, msg>>
      BY <2>2 DEF ActHandle, Handling, coreV, action, events
    <3>2. PICK res \in Results :
            /\ rsp' = HandleRsp(actionMsg, res)
            /\ done' = [done EXCEPT ![actionMsg.tid] = [n |-> @.n + 1, result |-> res]]
      BY <2>2 DEF ActHandle
    <3>3. actionMsg \in Message /\ actionMsg.tid \in Tids /\ actionMsg \in Request
      BY <3>1, <1>1, <1>2, MessageType
    <3>4. /\ done'[actionMsg.tid].result = res
          /\ \A i \in Tids : i # actionMsg.tid => done'[i] = done[i]
      BY <3>2, <3>3, <1>1
    <3>5. Answers(rsp, actionMsg)'
      BY <3>1, <3>2, <3>3, <3>4 DEF HandleRsp, Answers, Request
    <3>6. ~(core' = "handled" \/ act' = "signal" \/ handledEvent' > 0)
      BY <3>1, <1>3
    <3>7. ASSUME NEW p \in {0, 1}, retransmit'[p].ak
          PROVE  \E m \in Message :
                   /\ m.ar /\ m.ok /\ Prio(m.tid) = p
                   /\ retransmit'[p].tid = m.tid
                   /\ (Handling' /\ m = actionMsg') \/ Answers(retransmit[p], m)'
      <4>1. PICK m \in Message :
              /\ m.ar /\ m.ok /\ Prio(m.tid) = p
              /\ retransmit[p].tid = m.tid
              /\ (Handling /\ m = actionMsg) \/ Answers(retransmit[p], m)
        BY <3>1, <3>7 DEF AnswerInv
      <4>2. CASE m = actionMsg
        BY <4>1, <4>2, <3>1 DEF Handling
      <4>3. CASE m # actionMsg
        <5>1. m.tid # actionMsg.tid /\ m.tid \in Tids
          BY <4>3, <3>3, PosFacts, MessageType
        <5>2. done'[m.tid] = done[m.tid]
          BY <5>1, <3>4
        <5> QED BY <4>1, <4>3, <5>2, <3>1 DEF Answers
      <4> QED BY <4>2, <4>3
    <3> QED BY <3>1, <3>5, <3>6, <3>7 DEF AnswerInv
  <2>3. CASE ActRefuse
    <3>1. /\ Handling /\ ~actionMsg.ok /\ act' = "publish" /\ rsp' = HandleRsp(actionMsg, "success")
          /\ UNCHANGED <<done, retransmit, actionMsg, msg, actionRsp, handledEvent, core>>
      BY <2>3 DEF ActRefuse, Handling, coreV, action, events
    <3>2. ~rsp'.ak
      BY <3>1 DEF HandleRsp
    <3> QED BY <3>1, <3>2 DEF AnswerInv, Answers, Handling
  <2>4. CASE ActReset
    BY <2>4 DEF ActReset, AnswerInv, Answers, Handling, coreV, action, events
  <2>5. CASE ActPublish
    <3>1. /\ Handling /\ act = "publish" /\ act' = "signal" /\ actionRsp' = rsp
          /\ UNCHANGED <<done, actionMsg, msg, rsp, handledEvent, core>>
      BY <2>5 DEF ActPublish, Handling, coreV, events
    <3>2. msg = actionMsg
      BY <3>1, <1>3
    <3>3. IF actionMsg.ok THEN Answers(rsp, actionMsg) ELSE ~rsp.ak
      BY <3>1 DEF AnswerInv
    <3>4. msg'.ok => Answers(actionRsp, msg)'
      BY <3>1, <3>2, <3>3 DEF Answers
    <3>5. ASSUME NEW p \in {0, 1}, retransmit'[p].ak
          PROVE  \E m \in Message :
                   /\ m.ar /\ m.ok /\ Prio(m.tid) = p
                   /\ retransmit'[p].tid = m.tid
                   /\ Answers(retransmit[p], m)'
      <4>1. CASE rsp.ak /\ p = Prio(actionMsg.tid)
        <5>1. retransmit'[p] = rsp
          BY <4>1, <2>5, <1>1 DEF ActPublish
        <5>2. actionMsg.ok /\ Answers(rsp, actionMsg) /\ actionMsg \in Message
          BY <4>1, <3>3, <1>1, <1>2
        <5> QED BY <5>1, <5>2, <4>1, <3>1 DEF Answers
      <4>2. CASE ~(rsp.ak /\ p = Prio(actionMsg.tid))
        <5>1. retransmit'[p] = retransmit[p]
          BY <4>2, <2>5, <1>1 DEF ActPublish
        <5>2. PICK m \in Message :
                /\ m.ar /\ m.ok /\ Prio(m.tid) = p
                /\ retransmit[p].tid = m.tid
                /\ (Handling /\ m = actionMsg) \/ Answers(retransmit[p], m)
          BY <5>1, <3>5 DEF AnswerInv
        <5>3. m # actionMsg
          BY <4>2, <5>2, <3>3 DEF Answers
        <5> QED BY <5>1, <5>2, <5>3, <3>1 DEF Answers
      <4> QED BY <4>1, <4>2
    <3> QED BY <3>1, <3>4, <3>5 DEF AnswerInv
  <2>6. CASE ActSignal
    <3>1. /\ act = "signal" /\ act' = "unlock"
          /\ UNCHANGED <<done, retransmit, actionMsg, msg, rsp, actionRsp, core>>
      BY <2>6 DEF ActSignal, coreV, action
    <3> QED BY <3>1 DEF AnswerInv, Answers, Handling
  <2>7. CASE ActUnlock
    <3>1. /\ act = "unlock" /\ act' = "idle"
          /\ UNCHANGED <<done, retransmit, actionMsg, msg, rsp, actionRsp, core, handledEvent>>
      BY <2>7 DEF ActUnlock, coreV, action, events
    <3> QED BY <3>1 DEF AnswerInv, Answers, Handling
  <2> QED BY <1>10, <2>1, <2>2, <2>3, <2>4, <2>5, <2>6, <2>7 DEF Action
<1>11. CASE UNCHANGED vars
  BY <1>5, <1>11 DEF vars
<1> QED BY <1>6, <1>7, <1>8, <1>9, <1>10, <1>11 DEF Next

\* As long as every action ends within action_timeout, and outside failsafe mode, where
\* errors are answered with an empty response, every request that asks for an answer is
\* answered with the result of its own execution, repeats included.
THEOREM AnsweredRightly ==
  ASSUME FreshTids, ~Slow, ~Failsafe
  PROVE  Spec => ServedIsAnswered
<1> DEFINE Right == Served /\ msg.ar /\ msg.ok =>
                      tx' = [tid |-> msg.tid, ak |-> TRUE, result |-> done[msg.tid].result]
<1>1. Init => OrderInv /\ DoneInv /\ PromptInv /\ AnswerInv
  BY OrderInit, DoneInit, PromptInit, AnswerInit
<1>2. TypeOK /\ ActionInv /\ OrderInv /\ DoneInv /\ PromptInv /\ AnswerInv /\ [Next]_vars =>
        (OrderInv /\ DoneInv /\ PromptInv /\ AnswerInv)'
  BY OrderStep, DoneStep, PromptStep, AnswerStep
<1>3. TypeOK /\ ActionInv /\ PromptInv /\ AnswerInv /\ [Next]_vars => [Right]_vars
  <2> SUFFICES ASSUME TypeOK, ActionInv, PromptInv, AnswerInv, Next, Served, msg.ar, msg.ok
               PROVE  tx' = [tid |-> msg.tid, ak |-> TRUE, result |-> done[msg.tid].result]
    OBVIOUS
  <2>1. \A r \in Response : Answers(r, msg) =>
          r = [tid |-> msg.tid, ak |-> TRUE, result |-> done[msg.tid].result]
    BY DEF Answers, Response
  <2>2. core' # core
    BY DEF Served
  <2>3. msg \in Message
    BY MessageType DEF TypeOK, NoMsg
  <2>4. CASE CoreRetransmit
    <3> DEFINE p == Prio(msg.tid)
    <3>1. core = "retransmit" /\ retransmit[p].ak /\ retransmit[p].tid = msg.tid /\ tx' = retransmit[p]
      BY <2>4 DEF CoreRetransmit, Served, Send
    <3>2. ~run /\ ~Handling
      BY <3>1 DEF PromptInv, ActionInv, OneAction, TypeOK
    <3>3. p \in {0, 1} /\ retransmit[p] \in Response
      BY DEF Prio, TypeOK
    <3>4. Answers(retransmit[p], msg)
      BY <3>1, <3>2, <3>3, <2>3, PosFacts DEF AnswerInv
    <3> QED BY <3>1, <3>3, <3>4, <2>1
  <2>5. CASE CoreAnswer
    <3>1. core = "handled" /\ ~run
      BY <2>5 DEF CoreAnswer, PromptInv
    <3>2. Answers(actionRsp, msg) /\ actionRsp \in Response
      BY <3>1 DEF AnswerInv, TypeOK
    <3>3. tx' = actionRsp
      BY <2>5, <3>1, <3>2 DEF CoreAnswer, Send, Answers
    <3> QED BY <3>2, <3>3, <2>1
  <2>6. CASE CoreDispatch
    BY <2>6 DEF CoreDispatch, Served, PromptInv
  <2>7. ~CoreTimeout
    BY DEF CoreTimeout
  <2>8. ~(CoreLoop \/ CoreWait \/ CoreRead \/ CoreStart \/ CoreHandled)
    BY DEF CoreLoop, CoreWait, CoreRead, CoreStart, CoreHandled, Served
  <2>9. ~Action
    BY <2>2 DEF Action, ActTake, ActLock, ActStart, ActHandle, ActRefuse, ActReset, ActPublish,
                ActSignal, ActUnlock, coreV
  <2>10. ~(\E t \in Threads : MibReset(t))
    BY <2>2 DEF MibReset, ResetCheck, ResetSet, ResetFlush, ResetDestroy, ResetRebuild, ResetCopy,
                ResetClear, coreV
  <2>11. ~(OltSend \/ OltRepeat \/ MsgWakeUp \/ ProcessingEnable)
    BY <2>2 DEF OltSend, OltRepeat, MsgRecv, MsgWakeUp, ProcessingEnable, coreV
  <2>12. ~(\E s \in PloamStates : PloamStateChange(s))
    BY <2>2 DEF PloamStateChange, coreV
  <2> QED BY <2>4, <2>5, <2>6, <2>7, <2>8, <2>9, <2>10, <2>11, <2>12 DEF Next, Core
<1> QED BY <1>1, <1>2, <1>3, ActionInvariant, PTL DEF Spec, ServedIsAnswered
=============================================================================
