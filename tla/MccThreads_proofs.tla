-------------------------- MODULE MccThreads_proofs --------------------------
(***************************************************************************)
(* What is proved of MccThreads, for any number of ports and clients.      *)
(*                                                                         *)
(* TypeOK is not inductive as it stands: an event that a report adds has   *)
(* an identifier and a group number within the bounds because they were    *)
(* there when the report was received, and only the packet thread uses     *)
(* them up.  OneCircularWait needs to know where a thread is while it has  *)
(* mcc_omci_lock; GroupsAreForwarded, what the packet thread carries       *)
(* between the two halves of mcc_fwd_refresh; EventsNameGroups, that       *)
(* identifiers are not used twice and how a group knows its events.        *)
(***************************************************************************)
EXTENDS MccThreads, TLAPS

Reporting == {"limit", "limitMe", "limited", "recMe", "recPort", "process"}
Places == Reporting \cup {"idle", "forward", "dest", "qryMe", "qryPort"}
PktType == [pc : Places, port : Ports, clt : SUBSET Clients, join : BOOLEAN, map : SUBSET Ports]

OneInHand == \A e, f \in picked : e = f

ControlInv ==
  /\ gens \in 0 .. MaxGen /\ policy \in BOOLEAN /\ subs \subseteq Ports /\ lgl \in 0 .. N + 1
  /\ pkt \in PktType
  /\ pkt.pc \in Reporting => last_timeout_id < MaxIds /\ gens < MaxGen
  /\ OneInHand

Inv == TypeOK /\ ControlInv

-----------------------------------------------------------------------------
(* What the actions of the timers leave in order.                          *)

\* timeout_event_add puts an event of its own type into the list.
LEMMA RenewType ==
  ASSUME TimerTypeOK, NEW old, NEW o \in Owners, NEW t \in Nat, Renew(old, o, t)
  PROVE  TimerTypeOK' /\ NewId \in 1 .. MaxIds /\ last_timeout_id' = NewId /\ picked' = picked
  BY MaxIdsAssumption DEF TimerTypeOK, Renew, CanAdd, NewId, Without, Event

\* The steps of the timeout thread and of time keep the list and add no identifier.
LEMMA TimerType ==
  ASSUME TimerTypeOK, OneInHand,
         Pick \/ RemovePicked \/ TimePasses \/ \E o : HandlerRan(o)
  PROVE  TimerTypeOK' /\ OneInHand' /\ last_timeout_id' = last_timeout_id
  <1>. USE DEF OneInHand
  <1>1. CASE Pick
    BY <1>1 DEF TimerTypeOK, Pick
  <1>2. CASE RemovePicked
    BY <1>2 DEF TimerTypeOK, RemovePicked
  <1>3. CASE TimePasses
    <2>1. ASSUME NEW e \in timeout_list
          PROVE  [e EXCEPT !.left = IF @ > 0 THEN @ - 1 ELSE 0] \in Event
      BY DEF TimerTypeOK, Event
    <2>. QED
      BY <1>3, <2>1 DEF TimerTypeOK, TimePasses
  <1>4. CASE \E o : HandlerRan(o)
    BY <1>4 DEF TimerTypeOK, HandlerRan
  <1>. QED
    BY <1>1, <1>2, <1>3, <1>4

-----------------------------------------------------------------------------
(* Types.                                                                  *)

\* A packet thread without a packet.
LEMMA IdleType == Idle \in PktType /\ Idle.pc = "idle" /\ 1 \in Ports
  BY MccThreadsAssumption DEF Idle, PktType, Places, Ports

\* The start.
LEMMA InitInv == Init => Inv
  BY IdleType, MccThreadsAssumption, MaxIdsAssumption
  DEF Init, Inv, TypeOK, ControlInv, TimerInit, TimerTypeOK, Reporting, OneInHand

\* The steps of the packet thread that change its place and locks alone.
LEMMA PktInv ==
  ASSUME Inv,
         \/ LimitLock \/ LimitMe \/ LimitEnd \/ RecLockMe \/ RecLock \/ RecRefuse
         \/ Forward \/ DestUpdate \/ QryLockMe \/ QryReceive
         \/ \E p \in Ports, c \in Clients, join \in BOOLEAN : RepReceive(p, c, join)
  PROVE  Inv'
  <1>. USE DEF Inv, TypeOK, ControlInv, TimerTypeOK, timerV, groupV, startV, Reporting, OneInHand
  <1>1. CASE LimitLock
    BY <1>1 DEF LimitLock, Lock, Goto, PktType, Places
  <1>2. CASE LimitMe
    <2>1. rl' \subseteq Ports
      BY <1>2 DEF LimitMe, RlGet
    <2>2. CASE lock' = lock /\ Goto("limited")
      BY <1>2, <2>1, <2>2 DEF LimitMe, Goto, PktType, Places
    <2>3. CASE Unlock(pkt.port) /\ pkt' = Idle
      BY <1>2, <2>1, <2>3, IdleType DEF LimitMe, Unlock
    <2>. QED
      BY <1>2, <2>2, <2>3 DEF LimitMe
  <1>3. CASE LimitEnd
    <2>1. \/ pkt' = [pkt EXCEPT !.pc = "recMe"]
          \/ pkt' = Idle
      BY <1>3 DEF LimitEnd, Goto
    <2>2. pkt' \in PktType /\ ((pkt'.pc = "recMe" /\ pkt.pc \in Reporting) \/ pkt'.pc = "idle")
      BY <1>3, <2>1, IdleType DEF LimitEnd, PktType, Places
    <2>. QED
      BY <1>3, <2>2 DEF LimitEnd, Unlock
  <1>4. CASE RecLockMe
    BY <1>4 DEF RecLockMe, LockMe, CanLockMe, Goto, PktType, Places
  <1>5. CASE RecLock
    BY <1>5 DEF RecLock, Lock, Goto, PktType, Places
  <1>6. CASE Forward
    <2>1. pkt.map \subseteq Ports /\ hw' \subseteq Ports
      BY <1>6 DEF Forward, PortRemove, PktType
    <2>2. pkt' \in PktType /\ pkt'.pc = "dest"
      BY <1>6 DEF Forward, Goto, PktType, Places
    <2>. QED
      BY <1>6, <2>1, <2>2 DEF Forward, Unlock, UnlockMe
  <1>7. CASE QryLockMe
    BY <1>7 DEF QryLockMe, LockMe, CanLockMe, Goto, PktType, Places
  <1>8. CASE QryReceive
    <2>1. pkt' \in PktType /\ pkt'.pc = "qryMe" /\ pkt.pc = "idle"
      BY <1>8, IdleType DEF QryReceive, PktType, Places
    <2>. QED
      BY <1>8, <2>1 DEF QryReceive
  <1>9. CASE \E p \in Ports, c \in Clients, join \in BOOLEAN : RepReceive(p, c, join)
    <2>1. PICK p \in Ports, c \in Clients, join \in BOOLEAN : RepReceive(p, c, join)
      BY <1>9
    <2>2. pkt' \in PktType /\ pkt'.pc = "limit" /\ pkt.pc = "idle"
      <3>1. pkt' = [pc |-> "limit", port |-> p, clt |-> {c}, join |-> join, map |-> {}]
        BY <2>1 DEF RepReceive, Idle
      <3>2. {c} \in SUBSET Clients /\ {} \in SUBSET Ports /\ "limit" \in Places
        BY DEF Places
      <3>3. pkt' \in PktType
        BY <3>1, <3>2 DEF PktType
      <3>. QED
        BY <2>1, <3>1, <3>3 DEF RepReceive
    <2>. QED
      BY <2>1, <2>2 DEF RepReceive, CanAdd
  <1>10. CASE RecRefuse
    <2>1. pkt' = Idle \/ pkt' = [pkt EXCEPT !.pc = "dest"]
      BY <1>10 DEF RecRefuse, Goto
    <2>2. pkt' \in PktType /\ pkt'.pc \in {"idle", "dest"}
      BY <2>1, IdleType DEF PktType, Places
    <2>. QED
      BY <1>10, <2>2 DEF RecRefuse, Unlock, UnlockMe
  <1>11. CASE DestUpdate
    <2>1. pkt.port \in Ports /\ hw' \subseteq Ports
      BY <1>11 DEF DestUpdate, PktType
    <2>. QED
      BY <1>11, <2>1, IdleType DEF DestUpdate
  <1>. QED
    BY <1>1, <1>2, <1>3, <1>4, <1>5, <1>6, <1>7, <1>8, <1>9, <1>10, <1>11

\* A record is processed within the bounds it was received with.
LEMMA ProcessInv == ASSUME Inv, RecProcess PROVE Inv'
  <1>. DEFINE p == pkt.port
              n == IF gen[p] # 0 THEN gen[p] ELSE gens + 1
              m == IF pkt.join THEN members[p] \cup pkt.clt ELSE members[p] \ pkt.clt
              new == [id |-> NewId, left |-> ActTime, owner |-> [kind |-> "act", port |-> p, gen |-> n]]
  <1>1. /\ p \in Ports /\ m \in SUBSET Clients
        /\ last_timeout_id \in 0 .. MaxIds /\ last_timeout_id < MaxIds
        /\ gens \in 0 .. MaxGen /\ gens < MaxGen /\ gen[p] \in 0 .. MaxGen
    BY DEF Inv, TypeOK, ControlInv, TimerTypeOK, RecProcess, Reporting, PktType
  <1>2. n \in 1 .. MaxGen /\ NewId \in 1 .. MaxIds
    BY <1>1, MccThreadsAssumption, MaxIdsAssumption DEF NewId
  <1>3. new \in Event
    BY <1>1, <1>2, MccThreadsAssumption DEF Event
  <1>4. timeout_list' \subseteq timeout_list \cup {new} /\ last_timeout_id' \in {last_timeout_id, NewId}
    <2>. HIDE DEF new
    <2>1. CASE m = {}
      BY <2>1 DEF RecProcess
    <2>2. CASE m # {}
      BY <2>2 DEF RecProcess, new
    <2>. QED BY <2>1, <2>2
  <1>. HIDE DEF new
  <1>5. TimerTypeOK'
    BY <1>2, <1>3, <1>4 DEF Inv, TypeOK, TimerTypeOK, RecProcess
  <1>6. /\ members' \in [Ports -> SUBSET Clients] /\ gen' \in [Ports -> 0 .. MaxGen]
        /\ act_id' \in [Ports -> 0 .. MaxIds] /\ age_id' \in [Ports -> 0 .. MaxIds]
        /\ gens' \in 0 .. MaxGen
    BY <1>1, <1>2, MccThreadsAssumption, MaxIdsAssumption DEF Inv, TypeOK, RecProcess
  <1>7. PortMap(gen') \in SUBSET Ports
    BY DEF PortMap
  <1>8. pkt' \in PktType
    BY <1>7 DEF Inv, ControlInv, RecProcess, PktType, Places
  <1>9. pkt'.pc = "forward" /\ pkt'.port = pkt.port /\ pkt.pc = "process"
    BY DEF Inv, ControlInv, RecProcess, PktType
  <1>. QED
    BY <1>5, <1>6, <1>8, <1>9 DEF Inv, TypeOK, ControlInv, RecProcess, Reporting, OneInHand, startV

\* A query adds events within the bounds.
LEMMA QueryInv == ASSUME Inv, QryPort PROVE Inv'
  <1>. DEFINE p == pkt.port
              o == [kind |-> "age", port |-> p, gen |-> gen[p]]
  <1>1. p \in Ports /\ gen[p] \in 0 .. MaxGen
    BY DEF Inv, TypeOK, ControlInv, PktType
  <1>2. TimerTypeOK' /\ picked' = picked /\ age_id' \in [Ports -> 0 .. MaxIds]
    <2>1. ASSUME NEW t \in AgeTimes, gen[p] # 0, Renew(0, o, t), age_id' = [age_id EXCEPT ![p] = NewId]
          PROVE  TimerTypeOK' /\ picked' = picked /\ age_id' \in [Ports -> 0 .. MaxIds]
      <3>1. o \in Owners /\ t \in Nat
        BY <1>1, <2>1, MccThreadsAssumption
      <3>2. TimerTypeOK' /\ NewId \in 1 .. MaxIds /\ picked' = picked
        BY <2>1, <3>1, RenewType DEF Inv, TypeOK
      <3>. QED
        BY <1>1, <2>1, <3>2, MaxIdsAssumption DEF Inv, TypeOK
    <2>2. CASE UNCHANGED <<timerV, age_id>>
      BY <2>2 DEF Inv, TypeOK, TimerTypeOK, timerV
    <2>. QED
      BY <2>1, <2>2 DEF QryPort
  <1>3. pkt' = Idle \/ (p < N /\ pkt' = [pkt EXCEPT !.pc = "qryMe", !.port = p + 1])
    BY DEF QryPort
  <1>4. pkt' \in PktType /\ pkt'.pc \in {"qryMe", "idle"}
    <2>1. CASE p < N /\ pkt' = [pkt EXCEPT !.pc = "qryMe", !.port = p + 1]
      <3>1. p + 1 \in Ports
        BY <1>1, <2>1, MccThreadsAssumption DEF Ports
      <3>. QED
        BY <2>1, <3>1 DEF Inv, ControlInv, PktType, Places
    <2>. QED
      BY <1>3, <2>1, IdleType
  <1>5. \A q \in Ports : lock[q] # "pkt"
    BY DEF Inv, TypeOK, QryPort
  <1>. QED
    BY <1>2, <1>4, <1>5 DEF Inv, TypeOK, ControlInv, QryPort, UnlockMe, Reporting, OneInHand, startV

\* The timeout thread and time.
LEMMA TimeoutInv == ASSUME Inv, TmoStep \/ Time PROVE Inv'
  <1>. USE DEF Inv, TypeOK, ControlInv, groupV, startV
  <1>1. CASE TmoPick
    BY <1>1, TimerType DEF TmoPick
  <1>2. CASE ActLockMe
    BY <1>2 DEF ActLockMe, LockMe, CanLockMe, timerV, TimerTypeOK, OneInHand
  <1>3. CASE TmoRemove
    BY <1>3, TimerType DEF TmoRemove
  <1>4. CASE Time
    BY <1>4, TimerType DEF Time
  <1>5. ASSUME NEW p \in Ports, ActRun(p) PROVE Inv'
    <2>1. TimerTypeOK' /\ OneInHand' /\ last_timeout_id' = last_timeout_id
      BY <1>5, TimerType DEF ActRun
    <2>2. act_id' \in [Ports -> 0 .. MaxIds]
      BY <1>5, MaxIdsAssumption DEF ActRun
    <2>. QED
      BY <1>5, <2>1, <2>2 DEF ActRun, UnlockMe
  <1>6. ASSUME NEW p \in Ports, AgeRun(p) PROVE Inv'
    <2>1. TimerTypeOK' /\ OneInHand' /\ last_timeout_id' = last_timeout_id
      BY <1>6, TimerType DEF AgeRun
    <2>2. /\ act_id' \in [Ports -> 0 .. MaxIds] /\ age_id' \in [Ports -> 0 .. MaxIds]
          /\ gen' \in [Ports -> 0 .. MaxGen] /\ members' \in [Ports -> SUBSET Clients]
          /\ hw' \subseteq Ports
      BY <1>6, MaxIdsAssumption, MccThreadsAssumption DEF AgeRun, PortRemove
    <2>. QED
      BY <1>6, <2>1, <2>2 DEF AgeRun
  <1>. QED
    BY <1>1, <1>2, <1>3, <1>4, <1>5, <1>6 DEF TmoStep

\* The action thread.
LEMMA LglInv == ASSUME Inv, LglStart \/ LglStep PROVE Inv'
  <1>. USE MccThreadsAssumption
       DEF Inv, TypeOK, ControlInv, timerV, TimerTypeOK, OneInHand, groupV, startV
  <1>1. CASE LglStart
    BY <1>1 DEF LglStart, LockMe, CanLockMe
  <1>2. CASE LglLock
    <2>1. lgl' \in 0 .. N + 1
      BY <1>2 DEF LglLock, Ports
    <2>. QED
      BY <1>2, <2>1 DEF LglLock, Lock
  <1>3. CASE LglEnd
    BY <1>3 DEF LglEnd, UnlockMe
  <1>. QED
    BY <1>1, <1>2, <1>3 DEF LglStep

\* Every step.
LEMMA NextInv == Inv /\ [Next]_vars => Inv'
  <1>. SUFFICES ASSUME Inv, [Next]_vars PROVE Inv'
    OBVIOUS
  <1>1. CASE UNCHANGED vars
    BY <1>1 DEF vars, timerV, groupV, startV, Inv, TypeOK, ControlInv, TimerTypeOK, OneInHand
  <1>2. CASE Next
    BY <1>2, PktInv, ProcessInv, QueryInv, TimeoutInv, LglInv DEF Next, PktStep
  <1>. QED
    BY <1>1, <1>2

\* Type correctness, with the two kinds of locks: mcc_omci_lock has one holder where
\* there are entities to lock, and the packet thread holds no port but its own.
THEOREM TypeCorrect == Spec => []TypeOK
  <1>1. Inv => TypeOK
    BY DEF Inv
  <1>. QED
    BY <1>1, InitInv, NextInv, PTL DEF Spec


-----------------------------------------------------------------------------
(* The order of locks.                                                     *)

LockInv ==
  /\ \A p \in Ports : lock[p] = "act" => p < lgl
  /\ "pkt" \in meLock => pkt.pc \in {"recPort", "process", "forward", "qryPort"}
  /\ pkt.pc = "limitMe" => pkt.port \notin rl

\* The packet thread is where its locks say, and the reader of the Lost Group List has the
\* ports below the next one.
LEMMA LockStep ==
  ASSUME Inv, LockInv, [Next]_vars PROVE LockInv'
  <1>. USE DEF LockInv
  <1>1. pkt \in PktType /\ lock \in [Ports -> {"free", "pkt", "act"}] /\ pkt.port \in Ports
    BY DEF Inv, TypeOK, ControlInv, PktType
  <1>2. CASE LimitLock
    BY <1>1, <1>2 DEF LimitLock, Lock, Goto, PktType
  <1>3. CASE LimitMe
    <2>1. lock' = lock \/ Unlock(pkt.port)
      BY <1>3 DEF LimitMe
    <2>2. pkt'.pc \in {"limited", "idle"}
      BY <1>1, <1>3, IdleType DEF LimitMe, Goto, PktType
    <2>. QED
      BY <1>1, <1>3, <2>1, <2>2 DEF LimitMe, Unlock
  <1>4. CASE LimitEnd
    <2>1. pkt'.pc \in {"recMe", "idle"}
      BY <1>1, <1>4, IdleType DEF LimitEnd, Goto, PktType
    <2>. QED
      BY <1>1, <1>4, <2>1 DEF LimitEnd, Unlock
  <1>5. CASE RecLockMe
    BY <1>1, <1>5 DEF RecLockMe, LockMe, Goto, PktType
  <1>6. CASE RecLock
    BY <1>1, <1>6 DEF RecLock, Lock, Goto, PktType
  <1>7. CASE RecProcess
    <2>1. pkt'.pc = "forward"
      BY <1>1, <1>7 DEF RecProcess, PktType
    <2>. QED
      BY <1>7, <2>1 DEF RecProcess
  <1>8. CASE RecRefuse
    <2>1. pkt'.pc \in {"dest", "idle"}
      BY <1>1, <1>8, IdleType DEF RecRefuse, Goto, PktType
    <2>. QED
      BY <1>1, <1>8, <2>1 DEF RecRefuse, Unlock, UnlockMe
  <1>9. CASE Forward
    <2>1. pkt'.pc = "dest"
      BY <1>1, <1>9 DEF Forward, Goto, PktType
    <2>. QED
      BY <1>1, <1>9, <2>1 DEF Forward, Unlock, UnlockMe
  <1>10. CASE DestUpdate
    BY <1>10, IdleType DEF DestUpdate
  <1>11. CASE QryLockMe
    BY <1>1, <1>11 DEF QryLockMe, LockMe, Goto, PktType
  <1>12. CASE QryPort
    <2>1. pkt' = Idle \/ pkt' = [pkt EXCEPT !.pc = "qryMe", !.port = pkt.port + 1]
      BY <1>12 DEF QryPort
    <2>2. pkt'.pc \in {"qryMe", "idle"}
      BY <1>1, <2>1, IdleType DEF PktType
    <2>. QED
      BY <1>12, <2>2 DEF QryPort, UnlockMe
  <1>13. CASE \/ QryReceive
              \/ \E p \in Ports, c \in Clients, join \in BOOLEAN : RepReceive(p, c, join)
    <2>1. pkt.pc = "idle" /\ pkt'.pc \in {"limit", "qryMe"} /\ UNCHANGED <<lock, meLock, lgl>>
      BY <1>13 DEF QryReceive, RepReceive, Idle
    <2>. QED
      BY <2>1
  <1>14. CASE TmoStep \/ Time
    <2>1. /\ UNCHANGED <<lock, pkt, rl, lgl>>
          /\ "pkt" \in meLock' => "pkt" \in meLock
      BY <1>14 DEF TmoStep, Time, TmoPick, ActLockMe, TmoRemove, ActRun, AgeRun, LockMe, UnlockMe
    <2>. QED
      BY <2>1
  <1>15. CASE LglStart
    <2>1. \A p \in Ports : p > 0
      BY DEF Ports
    <2>. QED
      BY <1>15, <2>1 DEF LglStart, LockMe, Ports
  <1>16. CASE LglLock
    BY <1>1, <1>16 DEF LglLock, Lock, Ports
  <1>17. CASE LglEnd
    BY <1>17 DEF LglEnd, UnlockMe
  <1>18. CASE UNCHANGED vars
    BY <1>18 DEF vars, startV
  <1>. QED
    BY <1>2, <1>3, <1>4, <1>5, <1>6, <1>7, <1>8, <1>9, <1>10, <1>11, <1>12, <1>13, <1>14, <1>15,
       <1>16, <1>17, <1>18
    DEF Next, PktStep, LglStep

\* Who waits for whom, away from mcc_pkt_rate_limit.
LEMMA NoCircle ==
  ASSUME Inv, LockInv, pkt.pc # "limitMe" PROVE ~CircularWait
  <1>. DEFINE PktWaits == pkt.pc \in {"recMe", "qryMe", "limit", "recPort", "qryPort"}
  <1>1. /\ \A p \in Ports : lock[p] \in {"free", "pkt", "act"}
        /\ \A p \in Ports : lock[p] = "pkt" => pkt.pc \in {"limited", "process", "forward"}
        /\ \A e \in picked : e.owner.port \in Ports
        /\ pkt.port \in Ports
    <2>1. \A e \in picked : e.owner \in Owners
      BY DEF Inv, TypeOK, TimerTypeOK, Event
    <2>2. \A o \in Owners : o.port \in Ports
      BY MccThreadsAssumption
    <2>. QED
      BY <2>1, <2>2 DEF Inv, TypeOK, ControlInv, PktType
  <1>2. ASSUME NEW u \in Threads, Waits("act", u) PROVE u = "pkt" /\ ~PktWaits
    <2>1. lgl \in Ports /\ u = lock[lgl]
      BY <1>2 DEF Waits
    <2>2. lock[lgl] # "act"
      BY <2>1 DEF LockInv, Ports
    <2>. QED
      BY <1>1, <2>1, <2>2 DEF Threads
  <1>3. ASSUME NEW u \in Threads, Waits("pkt", u) PROVE u # "pkt" /\ PktWaits
    BY <1>1, <1>3 DEF Waits, LockInv, Threads
  <1>4. ASSUME Waits("tmo", "tmo") PROVE FALSE
    BY <1>1, <1>4 DEF Waits
  <1>5. ASSUME Waits("pkt", "tmo"), Waits("tmo", "pkt") PROVE FALSE
    <2>1. "tmo" \in meLock /\ PktWaits
      BY <1>1, <1>3, <1>5 DEF Waits, Threads
    <2>2. PICK e \in picked : lock[e.owner.port] = "pkt"
      BY <1>5, <2>1 DEF Waits
    <2>. QED
      BY <1>1, <2>1, <2>2
  <1>. HIDE DEF PktWaits
  <1>. QED
    BY <1>2, <1>3, <1>4, <1>5 DEF CircularWait, Threads

\* Whatever the ports, packets, queries, handlers and GETs: the threads wait for each other
\* in a circle only where mcc_pkt_rate_limit takes mcc_omci_lock under the lock of a port
\* that has no limiter.
THEOREM LockOrder == Spec => []OneCircularWait
  <1>1. Init => LockInv
    BY IdleType DEF Init, LockInv
  <1>2. Inv /\ LockInv /\ [Next]_vars => LockInv'
    BY LockStep
  <1>3. Inv /\ LockInv => OneCircularWait
    BY NoCircle DEF LockInv, OneCircularWait
  <1>. QED
    BY <1>1, <1>2, <1>3, InitInv, NextInv, PTL DEF Spec

-----------------------------------------------------------------------------
(* The forwarding entry.                                                   *)

FwdInv ==
  /\ \A p \in Ports : gen[p] # 0 => p \in hw \/ (pkt.pc = "forward" /\ pkt.port = p)
  /\ pkt.pc = "forward" => PortMap(gen) \subseteq pkt.map

\* A port is in the entry, or in the map that the packet thread is about to write.
LEMMA FwdStep ==
  ASSUME Inv, FwdInv, Next PROVE FwdInv'
  <1>1. pkt \in PktType /\ pkt.port \in Ports /\ gen \in [Ports -> 0 .. MaxGen]
    BY DEF Inv, TypeOK, ControlInv, PktType
  <1>2. CASE RecProcess
    <2>1. /\ pkt'.pc = "forward" /\ pkt'.map = PortMap(gen') /\ pkt'.port = pkt.port
          /\ pkt.pc = "process" /\ hw' = hw
      BY <1>1, <1>2 DEF RecProcess, PktType
    <2>2. \A q \in Ports \ {pkt.port} : gen'[q] = gen[q]
      BY <1>1, <1>2 DEF RecProcess
    <2>. QED
      BY <2>1, <2>2 DEF FwdInv
  <1>3. CASE Forward
    <2>1. pkt.pc = "forward" /\ pkt'.pc = "dest" /\ gen' = gen
      BY <1>1, <1>3 DEF Forward, Goto, groupV, PktType
    <2>2. PortMap(gen) \subseteq hw'
      BY <1>3, <2>1 DEF Forward, FwdInv, PortMap
    <2>. QED
      BY <2>1, <2>2 DEF FwdInv, PortMap
  <1>4. CASE DestUpdate
    <2>1. pkt.pc = "dest" /\ pkt'.pc = "idle" /\ gen' = gen /\ hw \subseteq hw'
      BY <1>4, IdleType DEF DestUpdate, groupV
    <2>. QED
      BY <2>1 DEF FwdInv
  <1>5. ASSUME NEW p \in Ports, AgeRun(p) PROVE FwdInv'
    <2>1. pkt' = pkt
      BY <1>5 DEF AgeRun
    <2>2. (gen' = gen /\ hw' = hw) \/ (gen' = [gen EXCEPT ![p] = 0] /\ hw' = hw \ {p})
      BY <1>5 DEF AgeRun, PortRemove
    <2>3. CASE gen' = gen /\ hw' = hw
      BY <2>1, <2>3 DEF FwdInv
    <2>4. CASE gen' = [gen EXCEPT ![p] = 0] /\ hw' = hw \ {p}
      <3>1. \A q \in Ports : gen'[q] # 0 => gen[q] # 0 /\ q # p
        BY <1>1, <2>4
      <3>. QED
        BY <2>1, <2>4, <3>1 DEF FwdInv, PortMap
    <2>. QED
      BY <2>2, <2>3, <2>4
  <1>6. ASSUME gen' = gen, hw' = hw, (pkt.pc # "forward" /\ pkt'.pc # "forward") \/ pkt' = pkt
        PROVE  FwdInv'
    BY <1>6 DEF FwdInv
  <1>7. CASE LimitLock \/ LimitMe \/ LimitEnd \/ RecLockMe \/ RecLock \/ RecRefuse \/ QryLockMe
    BY <1>1, <1>6, <1>7, IdleType
    DEF LimitLock, LimitMe, LimitEnd, RecLockMe, RecLock, RecRefuse, QryLockMe, Goto, groupV, PktType
  <1>8. CASE QryPort
    <2>1. pkt' = Idle \/ pkt' = [pkt EXCEPT !.pc = "qryMe", !.port = pkt.port + 1]
      BY <1>8 DEF QryPort
    <2>2. pkt.pc # "forward" /\ pkt'.pc # "forward"
      BY <1>1, <1>8, <2>1, IdleType DEF QryPort, PktType
    <2>. QED
      BY <1>6, <1>8, <2>2 DEF QryPort
  <1>9. CASE \/ QryReceive
             \/ \E p \in Ports, c \in Clients, join \in BOOLEAN : RepReceive(p, c, join)
    BY <1>6, <1>9 DEF QryReceive, RepReceive, Idle, groupV
  <1>10. CASE TmoPick \/ ActLockMe \/ TmoRemove \/ Time \/ LglStart \/ LglStep
    BY <1>6, <1>10 DEF TmoPick, ActLockMe, TmoRemove, Time, LglStart, LglStep, LglLock, LglEnd, groupV
  <1>11. ASSUME NEW p \in Ports, ActRun(p) PROVE FwdInv'
    BY <1>6, <1>11 DEF ActRun
  <1>. QED
    BY <1>2, <1>3, <1>4, <1>5, <1>7, <1>8, <1>9, <1>10, <1>11 DEF Next, PktStep, TmoStep

\* No order of reports, refused reports, queries, handlers and late additions at the end of
\* mcc_rep_process leaves a port that has the group out of the forwarding entry for longer
\* than its own report takes.
THEOREM GroupsForwarded == Spec => []GroupsAreForwarded
  <1>1. Init => FwdInv
    BY IdleType DEF Init, FwdInv
  <1>2. Inv /\ FwdInv /\ [Next]_vars => FwdInv'
    <2>. SUFFICES ASSUME Inv, FwdInv, [Next]_vars PROVE FwdInv'
      OBVIOUS
    <2>1. CASE UNCHANGED vars
      BY <2>1 DEF vars, groupV, FwdInv, PortMap
    <2>. QED
      BY <2>1, FwdStep
  <1>3. FwdInv => GroupsAreForwarded
    BY DEF FwdInv, GroupsAreForwarded
  <1>. QED
    BY <1>1, <1>2, <1>3, InitInv, NextInv, PTL DEF Spec

-----------------------------------------------------------------------------
(* Events and groups.  Identifiers are never used twice, so that removing  *)
(* an event by its identifier removes no other one.                        *)

UniqueInv ==
  /\ \A e, f \in timeout_list \cup picked : e.id = f.id => e = f
  /\ \A e \in timeout_list \cup picked : e.id <= last_timeout_id
  /\ \A e \in picked : e.left = 0

IdsInv ==
  /\ \A p \in Ports : act_id[p] <= last_timeout_id /\ age_id[p] <= last_timeout_id
  /\ \A p, q \in Ports : act_id[p] # 0 => act_id[p] # age_id[q]
  /\ \A p, q \in Ports : p # q /\ act_id[p] # 0 => act_id[p] # act_id[q]
  /\ \A p, q \in Ports : p # q /\ age_id[p] # 0 => age_id[p] # age_id[q]

NumberInv == UniqueInv /\ IdsInv

\* An event that is not only waiting to be removed after its handler has run.
Pending(e) == thr = "remove" => \A x \in picked : x.id # e.id

IdOf(o) == IF o.kind = "act" THEN act_id[o.port] ELSE age_id[o.port]

KnownInv ==
  \A e \in timeout_list : Pending(e) =>
    e.owner.gen \in stray \/ (Live(e) /\ e.id = IdOf(e.owner))

InHandInv ==
  thr = "run" => \A x \in picked : x \in timeout_list \/ x.owner.gen \in stray

EventInv == (ub => stray # {}) /\ KnownInv /\ InHandInv

\* What an event is made of.
LEMMA EventType ==
  ASSUME Inv
  PROVE  /\ \A e \in timeout_list \cup picked :
              /\ e.id \in Nat \ {0} /\ e.left \in Nat
              /\ e.owner.kind \in {"act", "age"} /\ e.owner.port \in Ports
              /\ e.owner.gen \in Nat \ {0}
         /\ last_timeout_id \in Nat /\ NewId \in Nat /\ NewId > last_timeout_id
         /\ act_id \in [Ports -> Nat] /\ age_id \in [Ports -> Nat] /\ gen \in [Ports -> Nat]
  <1>1. ASSUME NEW e \in timeout_list \cup picked
        PROVE  e \in [id : 1 .. MaxIds, left : Nat, owner : Owners]
    BY DEF Inv, TypeOK, TimerTypeOK, Event
  <1>2. \A e \in timeout_list \cup picked :
              e.id \in Nat \ {0} /\ e.left \in Nat /\ e.owner \in Owners
    BY <1>1, MaxIdsAssumption
  <1>3. \A o \in Owners : o.kind \in {"act", "age"} /\ o.port \in Ports /\ o.gen \in Nat \ {0}
    BY MccThreadsAssumption
  <1>4. last_timeout_id \in Nat /\ NewId \in Nat /\ NewId > last_timeout_id
    BY MaxIdsAssumption DEF Inv, TypeOK, TimerTypeOK, NewId
  <1>5. act_id \in [Ports -> Nat] /\ age_id \in [Ports -> Nat] /\ gen \in [Ports -> Nat]
    BY MaxIdsAssumption, MccThreadsAssumption DEF Inv, TypeOK
  <1>. QED
    BY <1>2, <1>3, <1>4, <1>5

\* Identifiers in use are smaller than the next one.
LEMMA OldIds ==
  ASSUME Inv, UniqueInv
  PROVE  \A e \in timeout_list \cup picked : e.id \in Nat /\ e.id <= last_timeout_id /\ e.id < NewId
  <1>. SUFFICES ASSUME NEW e \in timeout_list \cup picked
                PROVE  e.id \in Nat /\ e.id <= last_timeout_id /\ e.id < NewId
    OBVIOUS
  <1>1. e.id \in Nat /\ last_timeout_id \in Nat /\ NewId \in Nat /\ NewId > last_timeout_id
    BY EventType
  <1>2. e.id <= last_timeout_id
    BY DEF UniqueInv
  <1>. QED
    BY <1>1, <1>2

\* mcc_rec_process renews the events of its group.
LEMMA ProcessEvents ==
  ASSUME Inv, NumberInv, EventInv, RecProcess
  PROVE  NumberInv' /\ EventInv'
  <1>. DEFINE p == pkt.port
              n == IF gen[p] # 0 THEN gen[p] ELSE gens + 1
              m == IF pkt.join THEN members[p] \cup pkt.clt ELSE members[p] \ pkt.clt
              new == [id |-> NewId, left |-> ActTime, owner |-> [kind |-> "act", port |-> p, gen |-> n]]
              old == {e \in timeout_list : e.id # act_id[p] /\ e.id # age_id[p]}
  <1>1. /\ p \in Ports /\ thr' = thr /\ picked' = picked /\ ub' = ub
        /\ act_id' = [act_id EXCEPT ![p] = IF m = {} THEN 0 ELSE NewId]
        /\ age_id' = [age_id EXCEPT ![p] = 0]
        /\ gen' = [gen EXCEPT ![p] = IF m = {} THEN 0 ELSE n]
        /\ stray' = IF Overtakes(p) THEN stray \cup {gen[p]} ELSE stray
    BY DEF RecProcess, Inv, ControlInv, PktType
  <1>2. \/ m = {} /\ timeout_list' = old /\ last_timeout_id' = last_timeout_id
        \/ m # {} /\ timeout_list' = old \cup {new} /\ last_timeout_id' = NewId
    <2>1. old = {e \in timeout_list : e.id \notin RefreshedEvents(p)}
      BY DEF RefreshedEvents
    <2>. HIDE DEF old, m
    <2>. QED
      BY <2>1 DEF RecProcess, m
  <1>4. /\ new.id = NewId /\ new.left = ActTime /\ new.owner.kind = "act"
        /\ new.owner.port = p /\ new.owner.gen = n
    OBVIOUS
  <1>. HIDE DEF new, m, n
  <1>5. NumberInv'
    <2>1. UniqueInv'
      <3>1. CASE timeout_list' = old /\ last_timeout_id' = last_timeout_id
        BY <1>1, <3>1 DEF NumberInv, UniqueInv
      <3>2. CASE timeout_list' = old \cup {new} /\ last_timeout_id' = NewId
        <4>1. /\ timeout_list' \cup picked' \subseteq (timeout_list \cup picked) \cup {new}
              /\ timeout_list' \subseteq timeout_list \cup {new}
          BY <1>1, <3>2
        <4>2. \A e \in timeout_list \cup picked : e.id \in Nat /\ e.id <= last_timeout_id /\ e.id < NewId
          BY OldIds DEF NumberInv
        <4>3. \A e, f \in (timeout_list \cup picked) \cup {new} : e.id = f.id => e = f
          BY <1>4, <4>2, EventType DEF NumberInv, UniqueInv
        <4>4. \A e \in (timeout_list \cup picked) \cup {new} : e.id <= NewId
          BY <1>4, <4>2, EventType
        <4>. QED
          BY <1>1, <3>2, <4>1, <4>3, <4>4 DEF NumberInv, UniqueInv
      <3>. QED
        BY <1>2, <3>1, <3>2
    <2>2. act_id'[p] \in {0, last_timeout_id'} /\ age_id'[p] = 0
      BY <1>1, <1>2, EventType
    <2>3. act_id'[p] = 0 \/ act_id'[p] > last_timeout_id
      BY <1>1, EventType
    <2>4. \A q \in Ports \ {p} : act_id'[q] = act_id[q] /\ age_id'[q] = age_id[q]
      BY <1>1, EventType
    <2>5. last_timeout_id' \in Nat /\ last_timeout_id <= last_timeout_id'
      BY <1>2, EventType
    <2>6. \A q \in Ports : act_id[q] \in Nat /\ age_id[q] \in Nat
      BY EventType
    <2>7. IdsInv'
      BY <1>1, <2>2, <2>3, <2>4, <2>5, <2>6, EventType DEF NumberInv, IdsInv
    <2>. QED
      BY <2>1, <2>7 DEF NumberInv
  <1>6. ub' => stray' # {}
    BY <1>1 DEF EventInv
  <1>7. KnownInv'
    <2>. SUFFICES ASSUME NEW e \in timeout_list', Pending(e), e.owner.gen \notin stray'
                  PROVE  Live(e)' /\ e.id = IdOf(e.owner)'
      BY <1>1 DEF KnownInv, Pending
    <2>1. CASE e \in old
      <3>1. Live(e) /\ e.id = IdOf(e.owner) /\ e.owner.port \in Ports
        BY <1>1, <2>1, EventType DEF EventInv, KnownInv
      <3>2. e.owner.port # p
        BY <2>1, <3>1 DEF IdOf
      <3>. QED
        BY <1>1, <3>1, <3>2, EventType DEF Live, IdOf
    <2>2. CASE e \notin old
      BY <1>1, <1>2, <1>4, <2>2, EventType DEF Live, IdOf
    <2>. QED BY <2>1, <2>2
  <1>8. InHandInv'
    <2>. SUFFICES ASSUME thr = "run", NEW x \in picked, x.owner.gen \notin stray'
                  PROVE  x \in timeout_list'
      BY <1>1 DEF InHandInv
    <2>1. x \in timeout_list /\ Live(x) /\ x.id = IdOf(x.owner)
      BY <1>1 DEF EventInv, InHandInv, KnownInv, Pending
    <2>2. x.owner.port # p
      BY <1>1, <2>1 DEF Live, Overtakes
    <2>3. x.id # 0 /\ x.owner.port \in Ports /\ x.owner.kind \in {"act", "age"}
      BY <2>1, EventType
    <2>4. x.id # act_id[p] /\ x.id # age_id[p]
      BY <1>1, <2>1, <2>2, <2>3 DEF NumberInv, IdsInv, IdOf
    <2>. QED
      BY <1>2, <2>1, <2>4
  <1>. QED
    BY <1>5, <1>6, <1>7, <1>8 DEF EventInv

\* mcc_qry_process adds an aging event to a group that has none.
LEMMA QueryEvents ==
  ASSUME Inv, NumberInv, EventInv, QryPort
  PROVE  NumberInv' /\ EventInv'
  <1>. DEFINE p == pkt.port
  <1>1. /\ p \in Ports /\ thr' = thr /\ picked' = picked /\ ub' = ub /\ stray' = stray
        /\ gen' = gen /\ act_id' = act_id
    BY DEF QryPort, Inv, ControlInv, PktType, Renew, timerV
  <1>3. CASE UNCHANGED <<timerV, age_id>>
    <2>1. timeout_list' = timeout_list /\ last_timeout_id' = last_timeout_id /\ age_id' = age_id
      BY <1>3 DEF timerV
    <2>. QED
      BY <1>1, <2>1 DEF NumberInv, UniqueInv, IdsInv, EventInv, KnownInv, InHandInv,
                        Pending, Live, IdOf
  <1>4. ASSUME NEW t \in AgeTimes, gen[p] # 0, age_id[p] = 0, age_id' = [age_id EXCEPT ![p] = NewId],
               Renew(0, [kind |-> "age", port |-> p, gen |-> gen[p]], t)
        PROVE  NumberInv' /\ EventInv'
    <2>. DEFINE new == [id |-> NewId, left |-> t,
                        owner |-> [kind |-> "age", port |-> p, gen |-> gen[p]]]
    <2>0. /\ new.id = NewId /\ new.owner.kind = "age"
          /\ new.owner.port = p /\ new.owner.gen = gen[p]
      OBVIOUS
    <2>1. /\ timeout_list' = timeout_list \cup {new} /\ last_timeout_id' = NewId
          /\ age_id' = [age_id EXCEPT ![p] = NewId]
      <3>1. Without(timeout_list, 0) = timeout_list
        BY EventType DEF Without
      <3>. QED
        BY <1>4, <3>1 DEF Renew
    <2>. HIDE DEF new
    <2>2. \A e \in timeout_list \cup picked : e.id \in Nat /\ e.id <= last_timeout_id /\ e.id < NewId
      BY OldIds DEF NumberInv
    <2>3. UniqueInv'
      <3>1. \A e, f \in (timeout_list \cup picked) \cup {new} : e.id = f.id => e = f
        BY <2>0, <2>2, EventType DEF NumberInv, UniqueInv
      <3>2. \A e \in (timeout_list \cup picked) \cup {new} : e.id <= NewId
        BY <2>0, <2>2, EventType
      <3>3. timeout_list' \cup picked' = (timeout_list \cup picked) \cup {new}
        BY <1>1, <2>1
      <3>. QED
        BY <1>1, <2>0, <2>1, <3>1, <3>2, <3>3 DEF NumberInv, UniqueInv
    <2>4. IdsInv'
      <3>1. \A q \in Ports : act_id[q] \in Nat /\ age_id[q] \in Nat
        BY EventType
      <3>2. \A q \in Ports \ {p} : age_id'[q] = age_id[q]
        BY <2>1, EventType
      <3>3. age_id'[p] = NewId
        BY <1>1, <2>1, EventType
      <3>. QED
        BY <1>1, <2>1, <3>1, <3>2, <3>3, EventType DEF NumberInv, IdsInv
    <2>5. KnownInv'
      <3>. SUFFICES ASSUME NEW e \in timeout_list', Pending(e), e.owner.gen \notin stray
                    PROVE  Live(e)' /\ e.id = IdOf(e.owner)'
        BY <1>1 DEF KnownInv, Pending
      <3>1. CASE e = new
        BY <1>1, <2>0, <2>1, <3>1, EventType DEF Live, IdOf
      <3>2. CASE e \in timeout_list
        <4>1. Live(e) /\ e.id = IdOf(e.owner) /\ (e.owner.kind = "act" \/ e.owner.port # p)
          BY <1>4, <3>2, EventType DEF EventInv, KnownInv, IdOf
        <4>. QED
          BY <1>1, <2>1, <3>2, <4>1, EventType DEF Live, IdOf
      <3>. QED BY <2>1, <3>1, <3>2
    <2>6. InHandInv'
      BY <1>1, <2>1 DEF EventInv, InHandInv
    <2>. QED
      BY <1>1, <2>3, <2>4, <2>5, <2>6 DEF NumberInv, EventInv
  <1>. QED
    BY <1>3, <1>4 DEF QryPort

\* The timeout thread takes an event that is due.
LEMMA PickEvents ==
  ASSUME Inv, NumberInv, EventInv, TmoPick
  PROVE  NumberInv' /\ EventInv'
  <1>1. PICK e \in timeout_list : e.left = 0 /\ picked' = {e}
    BY DEF TmoPick, Pick
  <1>2. /\ thr = "poll" /\ thr' = "run" /\ timeout_list' = timeout_list
        /\ last_timeout_id' = last_timeout_id /\ ub' = ub /\ stray' = stray
        /\ gen' = gen /\ act_id' = act_id /\ age_id' = age_id
    BY DEF TmoPick, Pick, groupV
  <1>3. NumberInv'
    BY <1>1, <1>2 DEF NumberInv, UniqueInv, IdsInv
  <1>4. \A f : Pending(f)
    BY <1>2 DEF Pending
  <1>5. KnownInv' /\ InHandInv'
    BY <1>1, <1>2, <1>4 DEF EventInv, KnownInv, InHandInv, Live, IdOf
  <1>. QED
    BY <1>2, <1>3, <1>5 DEF EventInv

\* A handler has run for the event in hand: what remains of the events of its group.
LEMMA RunEvents ==
  ASSUME Inv, NumberInv, EventInv, NEW p \in Ports, ActRun(p) \/ AgeRun(p)
  PROVE  NumberInv' /\ EventInv'
  <1>1. PICK x \in picked :
          /\ x.owner.port = p
          /\ \/ /\ x.owner.kind = "act" /\ gen' = gen /\ age_id' = age_id
                /\ act_id' = IF Live(x) THEN [act_id EXCEPT ![p] = 0] ELSE act_id
             \/ /\ x.owner.kind = "age"
                /\ gen' = IF Live(x) THEN [gen EXCEPT ![p] = 0] ELSE gen
                /\ act_id' = IF Live(x) THEN [act_id EXCEPT ![p] = 0] ELSE act_id
                /\ age_id' = IF Live(x) THEN [age_id EXCEPT ![p] = 0] ELSE age_id
                /\ Live(x) /\ act_id[p] # 0 => gen[p] \in stray'
          /\ ub' = (ub \/ ~Live(x))
    <2>1. CASE ActRun(p)
      BY <2>1 DEF ActRun, Runs, Inv, ControlInv, OneInHand
    <2>2. CASE AgeRun(p)
      BY <2>2 DEF AgeRun, Runs, Inv, ControlInv, OneInHand
    <2>. QED BY <2>1, <2>2
  <1>2. /\ thr = "run" /\ thr' = "remove" /\ picked' = picked /\ timeout_list' = timeout_list
        /\ last_timeout_id' = last_timeout_id /\ stray \subseteq stray'
    BY DEF ActRun, AgeRun, HandlerRan
  <1>3. /\ \A q \in Ports : act_id'[q] \in {0, act_id[q]} /\ age_id'[q] \in {0, age_id[q]}
        /\ \A q \in Ports \ {p} : act_id'[q] = act_id[q] /\ age_id'[q] = age_id[q] /\ gen'[q] = gen[q]
    BY <1>1, EventType
  <1>4. NumberInv'
    <2>1. UniqueInv'
      BY <1>2 DEF NumberInv, UniqueInv
    <2>2. IdsInv'
      BY <1>2, <1>3, EventType DEF NumberInv, IdsInv
    <2>. QED BY <2>1, <2>2 DEF NumberInv
  <1>5. \A e : Pending(e)
    BY <1>2 DEF Pending
  <1>6. x.owner.gen \notin stray => x \in timeout_list /\ Live(x) /\ x.id = IdOf(x.owner)
    BY <1>2, <1>5 DEF EventInv, InHandInv, KnownInv
  <1>7. ub' => stray' # {}
    BY <1>1, <1>2, <1>6 DEF EventInv
  <1>8. KnownInv'
    <2>. SUFFICES ASSUME NEW e \in timeout_list, Pending(e)', e.owner.gen \notin stray'
                  PROVE  Live(e)' /\ e.id = IdOf(e.owner)'
      BY <1>2 DEF KnownInv
    <2>1. /\ Live(e) /\ e.id = IdOf(e.owner) /\ e.owner.gen \notin stray /\ e.id # x.id
          /\ e.id # 0 /\ e.owner.port \in Ports /\ e.owner.kind \in {"act", "age"}
      BY <1>2, <1>5, EventType DEF EventInv, KnownInv, Pending
    <2>2. CASE e.owner.port # p \/ ~Live(x)
      BY <1>1, <1>3, <2>1, <2>2 DEF Live, IdOf
    <2>3. CASE e.owner.port = p /\ Live(x)
      <3>1. x.owner.gen = e.owner.gen
        BY <1>1, <2>1, <2>3 DEF Live
      <3>2. x.id = IdOf(x.owner)
        BY <1>6, <2>1, <3>1
      <3>3. e.owner.kind # x.owner.kind
        BY <1>1, <2>1, <2>3, <3>2 DEF IdOf
      <3>4. x.owner.kind # "age"
        <4>. SUFFICES ASSUME x.owner.kind = "age" PROVE FALSE
          OBVIOUS
        <4>1. gen[p] \notin stray'
          BY <2>1, <2>3 DEF Live
        <4>2. act_id[p] = 0
          BY <1>1, <2>3, <4>1
        <4>. QED
          BY <2>1, <2>3, <3>3, <4>2 DEF IdOf
      <3>. QED
        BY <1>1, <2>1, <2>3, <3>3, <3>4 DEF Live, IdOf
    <2>. QED BY <2>2, <2>3
  <1>. QED
    BY <1>2, <1>4, <1>7, <1>8 DEF EventInv, InHandInv

\* The event whose handler has run is removed.
LEMMA RemoveEvents ==
  ASSUME Inv, NumberInv, EventInv, TmoRemove
  PROVE  NumberInv' /\ EventInv'
  <1>1. /\ thr = "remove" /\ thr' = "poll" /\ picked' = {} /\ stray' = stray /\ ub' = ub
        /\ timeout_list' = {e \in timeout_list : \A x \in picked : e.id # x.id}
        /\ last_timeout_id' = last_timeout_id
        /\ gen' = gen /\ act_id' = act_id /\ age_id' = age_id
    BY DEF TmoRemove, RemovePicked, groupV
  <1>2. NumberInv'
    BY <1>1 DEF NumberInv, UniqueInv, IdsInv
  <1>3. \A e \in timeout_list' : e \in timeout_list /\ Pending(e)
    BY <1>1 DEF Pending
  <1>4. KnownInv' /\ InHandInv'
    BY <1>1, <1>3 DEF EventInv, KnownInv, InHandInv, Live, IdOf
  <1>. QED
    BY <1>1, <1>2, <1>4 DEF EventInv

\* Time passes: an event that is due, and so the one in hand, stays as it is.
LEMMA TimeEvents ==
  ASSUME Inv, NumberInv, EventInv, Time
  PROVE  NumberInv' /\ EventInv'
  <1>. DEFINE Older(e) == [e EXCEPT !.left = IF @ > 0 THEN @ - 1 ELSE 0]
  <1>1. /\ thr' = thr /\ picked' = picked /\ stray' = stray /\ ub' = ub
        /\ timeout_list' = {Older(e) : e \in timeout_list}
        /\ last_timeout_id' = last_timeout_id
        /\ gen' = gen /\ act_id' = act_id /\ age_id' = age_id
    BY DEF Time, TimePasses, groupV
  <1>2. \A e \in timeout_list :
          /\ Older(e).id = e.id /\ Older(e).owner = e.owner
          /\ Older(e).left = IF e.left > 0 THEN e.left - 1 ELSE 0
          /\ e.left = 0 => Older(e) = e
    BY DEF Inv, TypeOK, TimerTypeOK, Event
  <1>. HIDE DEF Older
  <1>3. ASSUME NEW e \in timeout_list'
        PROVE  \E d \in timeout_list :
                 /\ e = Older(d) /\ e.id = d.id /\ e.owner = d.owner
                 /\ e.left = IF d.left > 0 THEN d.left - 1 ELSE 0
                 /\ d.left = 0 => e = d
    BY <1>1, <1>2
  <1>4. UniqueInv'
    <2>1. \A e, f \in timeout_list' : e.id = f.id => e = f
      BY <1>3 DEF NumberInv, UniqueInv
    <2>2. \A e \in timeout_list', x \in picked : e.id = x.id => e = x
      <3>. SUFFICES ASSUME NEW e \in timeout_list', NEW x \in picked, e.id = x.id PROVE e = x
        OBVIOUS
      <3>1. PICK d \in timeout_list : e.id = d.id /\ (d.left = 0 => e = d)
        BY <1>3
      <3>2. d = x /\ x.left = 0
        BY <3>1 DEF NumberInv, UniqueInv
      <3>. QED BY <3>1, <3>2
    <2>3. \A e \in timeout_list' : e.id <= last_timeout_id
      BY <1>3 DEF NumberInv, UniqueInv
    <2>. QED
      BY <1>1, <2>1, <2>2, <2>3 DEF NumberInv, UniqueInv
  <1>5. NumberInv'
    BY <1>1, <1>4 DEF NumberInv, IdsInv
  <1>6. \A e, d : e.id = d.id => (Pending(e)' <=> Pending(d))
    BY <1>1 DEF Pending
  <1>7. KnownInv'
    BY <1>1, <1>3, <1>6 DEF EventInv, KnownInv, Live, IdOf
  <1>8. InHandInv'
    <2>. SUFFICES ASSUME thr = "run", NEW x \in picked, x.owner.gen \notin stray
                  PROVE  x \in timeout_list'
      BY <1>1 DEF InHandInv
    <2>1. x \in timeout_list /\ x.left = 0
      BY DEF EventInv, InHandInv, NumberInv, UniqueInv
    <2>. QED
      BY <1>1, <1>2, <2>1
  <1>. QED
    BY <1>1, <1>5, <1>7, <1>8 DEF EventInv

\* Every step keeps events and groups together.
LEMMA EventStep ==
  ASSUME Inv, NumberInv, EventInv, [Next]_vars
  PROVE  NumberInv' /\ EventInv'
  <1>1. ASSUME UNCHANGED <<timeout_list, last_timeout_id, thr, picked, gen, act_id, age_id, stray, ub>>
        PROVE  NumberInv' /\ EventInv'
    BY <1>1 DEF NumberInv, UniqueInv, IdsInv, EventInv, KnownInv, InHandInv, Pending, Live, IdOf
  <1>2. CASE LimitLock \/ LimitMe \/ LimitEnd \/ RecLockMe \/ RecLock \/ RecRefuse \/ Forward
             \/ DestUpdate \/ QryLockMe \/ QryReceive
    BY <1>1, <1>2 DEF LimitLock, LimitMe, LimitEnd, RecLockMe, RecLock, RecRefuse, Forward, DestUpdate,
                      QryLockMe, QryReceive, timerV, groupV
  <1>3. CASE ActLockMe \/ LglStart \/ LglStep \/ UNCHANGED vars
    BY <1>1, <1>3 DEF ActLockMe, LglStart, LglStep, LglLock, LglEnd, vars, timerV, groupV
  <1>4. CASE \E p \in Ports, c \in Clients, join \in BOOLEAN : RepReceive(p, c, join)
    BY <1>1, <1>4 DEF RepReceive, timerV, groupV
  <1>. QED
    BY <1>2, <1>3, <1>4, ProcessEvents, QueryEvents, PickEvents, RunEvents, RemoveEvents, TimeEvents
    DEF Next, PktStep, TmoStep

\* For any timeouts, a membership interval below the activity timeout too: only a group
\* that was reported on while a handler of it was on its way, or that aged out before its
\* activity event, has events that it does not know; mcc_grp_activity_timeout_handler and
\* mcc_grp_aging_timeout_handler are given a freed group only after one of the two.
THEOREM EventsNameLiveGroups == Spec => []EventsNameGroups
  <1>1. Init => NumberInv /\ EventInv
    BY DEF Init, TimerInit, NumberInv, UniqueInv, IdsInv, EventInv, KnownInv, InHandInv
  <1>2. Inv /\ NumberInv /\ EventInv /\ [Next]_vars => NumberInv' /\ EventInv'
    BY EventStep
  <1>3. EventInv => EventsNameGroups
    BY DEF EventsNameGroups, EventInv, KnownInv, IdOf, Pending
  <1>. QED
    BY <1>1, <1>2, <1>3, InitInv, NextInv, PTL DEF Spec
=============================================================================
