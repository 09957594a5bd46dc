----------------------------- MODULE MccThreads -----------------------------
(***************************************************************************)
(* The threads of multicast control and their locks, for one group address *)
(* (mcc/omci_mcc_core.c, mcc/omci_mcc.c): the packet thread handles the    *)
(* reports and queries of all ports, the timeout thread watches and ages   *)
(* groups, the action thread reads the Lost Group List for a GET.  A       *)
(* report has one record; module MccGroup says which ones are refused.     *)
(*                                                                         *)
(* Each port has a lock.  mcc_omci_lock takes the entities of multicast    *)
(* control; without any there is nothing in it that excludes.  A group is  *)
(* known by the number of its allocation, so that a handler that is given  *)
(* one that has been freed can be told: ub is then TRUE, and no property   *)
(* says more.  stray is not in the code; it holds the groups that lost     *)
(* sight of one of their events.  The ioctls of the driver succeed.        *)
(***************************************************************************)
EXTENDS TimerSet

CONSTANTS
  N,              \* LAN ports
  Clients,
  ActTime,        \* MCC_GROUP_ACTIVITY_DETECTION_TIMEOUT_MS
  AgeTimes,       \* group membership intervals, of the profile or of a query
  MaxGen,         \* bound: groups allocated
  Starts          \* [policy, subs]: multicast entities exist; ports with a subscriber one

Ports == 1 .. N

ASSUME MccThreadsAssumption ==
  /\ N \in Nat \ {0} /\ MaxGen \in Nat /\ ActTime \in Nat /\ AgeTimes \subseteq Nat
  /\ Owners = [kind : {"act", "age"}, port : Ports, gen : 1 .. MaxGen]
  /\ Starts \subseteq [policy : BOOLEAN, subs : SUBSET Ports]

VARIABLES
  members, gen, gens,       \* port -> clients of the group, its number, 0 for none
  act_id, age_id,           \* act_timeout_id, age_timeout_id of the group
  hw,                       \* ports in the forwarding entry
  lock, meLock,             \* port -> holder; holders of mcc_omci_lock
  policy, subs,             \* as in Starts; they stay
  rl,                       \* ports with a rate limiter
  pkt,                      \* the packet thread
  lgl,                      \* the action thread: next port to lock, 0 for none
  stray, ub

groupV == <<members, gen, gens, act_id, age_id>>
startV == <<policy, subs>>
vars == <<timerV, groupV, hw, lock, meLock, startV, rl, pkt, lgl, stray, ub>>

Idle == [pc |-> "idle", port |-> 1, clt |-> {}, join |-> FALSE, map |-> {}]

Init ==
  /\ TimerInit
  /\ members = [p \in Ports |-> {}] /\ gen = [p \in Ports |-> 0] /\ gens = 0
  /\ act_id = [p \in Ports |-> 0] /\ age_id = [p \in Ports |-> 0]
  /\ hw = {}
  /\ lock = [p \in Ports |-> "free"] /\ meLock = {}
  /\ \E s \in Starts : policy = s.policy /\ subs = s.subs
  /\ rl = {} /\ pkt = Idle /\ lgl = 0
  /\ stray = {} /\ ub = FALSE

-----------------------------------------------------------------------------
(* Locks.                                                                  *)

\* mcc_omci_lock, or the lock of one entity for the action thread.
CanLockMe == policy => meLock = {}

\* Thread t takes it.
LockMe(t) == CanLockMe /\ meLock' = meLock \cup {t}

\* The lock is kept.
UnlockMeNever(t) == meLock' = meLock

\* mcc_omci_unlock.
UnlockMe(t) == meLock' = meLock \ {t}

Lock(p, t) == lock[p] = "free" /\ lock' = [lock EXCEPT ![p] = t]
Unlock(p) == lock' = [lock EXCEPT ![p] = "free"]

-----------------------------------------------------------------------------
(* The packet thread.                                                      *)

Goto(pc) == pkt' = [pkt EXCEPT !.pc = pc]

\* mcc_pkt_thread: a report of client c, to join or to leave, or a query.
RepReceive(p, c, join) ==
  /\ pkt.pc = "idle" /\ CanAdd /\ gens < MaxGen
  /\ pkt' = [Idle EXCEPT !.pc = "limit", !.port = p, !.clt = {c}, !.join = join]
  /\ UNCHANGED <<timerV, groupV, hw, lock, meLock, startV, rl, lgl, stray, ub>>

QryReceive ==
  /\ pkt.pc = "idle" /\ last_timeout_id + N <= MaxIds
  /\ pkt' = [Idle EXCEPT !.pc = "qryMe"]
  /\ UNCHANGED <<timerV, groupV, hw, lock, meLock, startV, rl, lgl, stray, ub>>

\* mcc_rep_process, mcc_pkt_rate_limit: a limiter of this port is looked up.
LimitLock ==
  /\ pkt.pc = "limit"
  /\ Lock(pkt.port, "pkt")
  /\ Goto(IF pkt.port \in rl THEN "limited" ELSE "limitMe")
  /\ UNCHANGED <<timerV, groupV, hw, meLock, startV, rl, lgl, stray, ub>>

\* mcc_omci_rl_get: the ports that it has an answer to keep for, which a port without a
\* subscriber entity is not.
RlGet(p) == {p} \cap subs

\* Without a limiter the entities are asked under the lock of the port; the answer is an
\* error if the profile that the subscriber entity names is not there.
LimitMe ==
  /\ pkt.pc = "limitMe"
  /\ CanLockMe
  /\ \/ rl' = rl \cup RlGet(pkt.port) /\ Goto("limited") /\ lock' = lock
     \/ pkt.port \in subs /\ rl' = rl /\ Unlock(pkt.port) /\ pkt' = Idle
  /\ UNCHANGED <<timerV, groupV, hw, meLock, startV, lgl, stray, ub>>

\* The lock of the port is kept while the record is taken.
LimitEndLocked ==
  /\ pkt.pc = "limited"
  /\ Goto("recMe")
  /\ UNCHANGED <<timerV, groupV, hw, lock, meLock, startV, rl, lgl, stray, ub>>

\* The packet is over its limit, or goes on.
LimitEnd ==
  /\ pkt.pc = "limited"
  /\ Unlock(pkt.port)
  /\ Goto("recMe") \/ (pkt.port \in rl /\ pkt' = Idle)
  /\ UNCHANGED <<timerV, groupV, hw, meLock, startV, rl, lgl, stray, ub>>

RecLockMe ==
  /\ pkt.pc = "recMe"
  /\ LockMe("pkt") /\ Goto("recPort")
  /\ UNCHANGED <<timerV, groupV, hw, lock, startV, rl, lgl, stray, ub>>

RecLock ==
  /\ pkt.pc = "recPort"
  /\ Lock(pkt.port, "pkt") /\ Goto("process")
  /\ UNCHANGED <<timerV, groupV, hw, meLock, startV, rl, lgl, stray, ub>>

\* A handler of this group is about to run.
Overtakes(p) == thr = "run" /\ \E e \in picked : e.owner.port = p /\ e.owner.gen = gen[p]

\* Only the port of the report is looked at.
PortMapOwn(g) == {p \in Ports : p = pkt.port /\ g[p] # 0}

\* mcc_fwd_refresh, the ports with the group, whose locks it does not take.
PortMap(g) == {p \in Ports : g[p] # 0}

\* The activity event alone.
RefreshedEventsAct(p) == {act_id[p]}

\* mcc_grp_refresh: the events it removes.
RefreshedEvents(p) == {act_id[p], age_id[p]}

\* mcc_rec_process: the group is found or made, its client added or removed, its events
\* renewed, and it is deleted with the last client; then mcc_fwd_refresh looks for ports.
RecProcess ==
  LET p == pkt.port
      m == IF pkt.join THEN members[p] \cup pkt.clt ELSE members[p] \ pkt.clt
      n == IF gen[p] # 0 THEN gen[p] ELSE gens + 1
      old == {e \in timeout_list : e.id \notin RefreshedEvents(p)}
  IN /\ pkt.pc = "process"
     /\ members' = [members EXCEPT ![p] = m]
     /\ gens' = IF gen[p] # 0 THEN gens ELSE gens + 1
     /\ gen' = [gen EXCEPT ![p] = IF m = {} THEN 0 ELSE n]
     /\ age_id' = [age_id EXCEPT ![p] = 0]
     /\ act_id' = [act_id EXCEPT ![p] = IF m = {} THEN 0 ELSE NewId]
     /\ IF m = {}
        THEN timeout_list' = old /\ last_timeout_id' = last_timeout_id
        ELSE /\ timeout_list' = old \cup {[id |-> NewId, left |-> ActTime,
                                           owner |-> [kind |-> "act", port |-> p, gen |-> n]]}
             /\ last_timeout_id' = NewId
     /\ stray' = IF Overtakes(p) THEN stray \cup {gen[p]} ELSE stray
     /\ pkt' = [pkt EXCEPT !.pc = "forward", !.map = PortMap(gen')]
     /\ UNCHANGED <<thr, picked, hw, lock, meLock, startV, rl, lgl, ub>>

\* A record that mcc_rec_process refuses, or that the address table does not carry.  The
\* report ends there, or it is passed on all the same.
RecRefuse ==
  /\ pkt.pc = "process"
  /\ Unlock(pkt.port) /\ UnlockMe("pkt")
  /\ pkt' = Idle \/ Goto("dest")
  /\ UNCHANGED <<timerV, groupV, hw, startV, rl, lgl, stray, ub>>

\* mcc_dev_port_remove, for the ioctl that takes one port out of the entry.
PortRemove(p) == hw \ {p}

\* The end of mcc_fwd_refresh: mcc_dev_fwd_update, or mcc_dev_port_remove without ports.
Forward ==
  /\ pkt.pc = "forward"
  /\ hw' = IF pkt.map = {} THEN PortRemove(pkt.port) ELSE pkt.map
  /\ Unlock(pkt.port) /\ UnlockMe("pkt")
  /\ Goto("dest")
  /\ UNCHANGED <<timerV, groupV, startV, rl, lgl, stray, ub>>

\* The end of mcc_rep_process, without a lock: mcc_fwd_dest_update adds the port to the
\* entry of the report's destination, which is the group itself for a join of IGMPv2 and
\* MLDv1, and another address for every other report.
DestUpdate ==
  /\ pkt.pc = "dest"
  /\ hw' = hw \/ (pkt.join /\ hw' = hw \cup {pkt.port})
  /\ pkt' = Idle
  /\ UNCHANGED <<timerV, groupV, lock, meLock, startV, rl, lgl, stray, ub>>

\* mcc_qry_process: an aging event for the group of every port, unless one is running; an
\* interval that cannot be read or is 0 ends it.
QryLockMe ==
  /\ pkt.pc = "qryMe"
  /\ LockMe("pkt") /\ Goto("qryPort")
  /\ UNCHANGED <<timerV, groupV, hw, lock, startV, rl, lgl, stray, ub>>

QryPort ==
  LET p == pkt.port
      next == IF p < N THEN [pkt EXCEPT !.pc = "qryMe", !.port = p + 1] ELSE Idle
      ages == gen[p] # 0 /\ age_id[p] = 0
  IN /\ pkt.pc = "qryPort"
     /\ lock[p] = "free"
     /\ \/ /\ ages /\ pkt' = next
           /\ \E t \in AgeTimes : Renew(0, [kind |-> "age", port |-> p, gen |-> gen[p]], t)
           /\ age_id' = [age_id EXCEPT ![p] = NewId]
        \/ ~ages /\ pkt' = next /\ UNCHANGED <<timerV, age_id>>
        \/ gen[p] # 0 /\ pkt' = Idle /\ UNCHANGED <<timerV, age_id>>
     /\ UnlockMe("pkt")
     /\ UNCHANGED <<members, gen, gens, act_id, hw, lock, startV, rl, lgl, stray, ub>>

-----------------------------------------------------------------------------
(* The timeout thread.                                                     *)

TmoPick ==
  /\ Pick
  /\ UNCHANGED <<groupV, hw, lock, meLock, startV, rl, pkt, lgl, stray, ub>>

Runs(kind, p) == thr = "run" /\ \E e \in picked : e.owner.kind = kind /\ e.owner.port = p

\* mcc_grp_activity_timeout_handler: mcc_omci_lock, then the lock of the port.
ActLockMe ==
  /\ \E p \in Ports : Runs("act", p)
  /\ "tmo" \notin meLock
  /\ LockMe("tmo")
  /\ UNCHANGED <<timerV, groupV, hw, lock, startV, rl, pkt, lgl, stray, ub>>

\* The group that an event is about, if it has not been freed.
Live(e) == gen[e.owner.port] = e.owner.gen

ActRun(p) ==
  /\ Runs("act", p) /\ "tmo" \in meLock /\ lock[p] = "free"
  /\ \E e \in picked :
       /\ HandlerRan(e.owner)
       /\ act_id' = IF Live(e) THEN [act_id EXCEPT ![p] = 0] ELSE act_id
       /\ ub' = (ub \/ ~Live(e))
  /\ UnlockMe("tmo")
  /\ UNCHANGED <<members, gen, gens, age_id, hw, lock, startV, rl, pkt, lgl, stray>>

\* An aging handler that gives up.
AgeRunGivesUp(p) ==
  /\ Runs("age", p) /\ lock[p] = "free"
  /\ \E e \in picked : HandlerRan(e.owner)
  /\ UNCHANGED <<groupV, hw, lock, meLock, startV, rl, pkt, lgl, stray, ub>>

\* mcc_grp_aging_timeout_handler, with mcc_grp_delete, which leaves an activity event that
\* is not due yet.
AgeRun(p) ==
  /\ Runs("age", p) /\ lock[p] = "free"
  /\ \E e \in picked :
       /\ HandlerRan(e.owner)
       /\ ub' = (ub \/ ~Live(e))
       /\ IF Live(e)
          THEN /\ gen' = [gen EXCEPT ![p] = 0] /\ members' = [members EXCEPT ![p] = {}]
               /\ age_id' = [age_id EXCEPT ![p] = 0] /\ act_id' = [act_id EXCEPT ![p] = 0]
               /\ hw' = PortRemove(p)
               /\ stray' = IF act_id[p] # 0 THEN stray \cup {gen[p]} ELSE stray
          ELSE UNCHANGED <<gen, members, age_id, act_id, hw, stray>>
  /\ UNCHANGED <<gens, lock, meLock, startV, rl, pkt, lgl>>

TmoRemove ==
  /\ RemovePicked
  /\ UNCHANGED <<groupV, hw, lock, meLock, startV, rl, pkt, lgl, stray, ub>>

Time ==
  /\ TimePasses
  /\ UNCHANGED <<groupV, hw, lock, meLock, startV, rl, pkt, lgl, stray, ub>>

-----------------------------------------------------------------------------
(* The action thread: mcc_policy_lgl_get under the lock of the profile.    *)

LglStart ==
  /\ policy /\ lgl = 0
  /\ LockMe("act") /\ lgl' = 1
  /\ UNCHANGED <<timerV, groupV, hw, lock, startV, rl, pkt, stray, ub>>

LglLock ==
  /\ lgl \in Ports
  /\ Lock(lgl, "act") /\ lgl' = lgl + 1
  /\ UNCHANGED <<timerV, groupV, hw, meLock, startV, rl, pkt, stray, ub>>

LglEnd ==
  /\ lgl = N + 1
  /\ lock' = [p \in Ports |-> "free"] /\ UnlockMe("act") /\ lgl' = 0
  /\ UNCHANGED <<timerV, groupV, hw, startV, rl, pkt, stray, ub>>

-----------------------------------------------------------------------------
PktStep ==
  \/ LimitLock \/ LimitMe \/ LimitEnd \/ RecLockMe \/ RecLock \/ RecProcess \/ RecRefuse
  \/ Forward \/ DestUpdate \/ QryLockMe \/ QryPort
TmoStep == TmoPick \/ ActLockMe \/ TmoRemove \/ \E p \in Ports : ActRun(p) \/ AgeRun(p)
LglStep == LglLock \/ LglEnd

Next ==
  \/ PktStep \/ TmoStep \/ LglStart \/ LglStep \/ Time \/ QryReceive
  \/ \E p \in Ports, c \in Clients, join \in BOOLEAN : RepReceive(p, c, join)

\* The threads run, time passes, and a lock that is free again and again is got.
Fairness ==
  /\ SF_vars(PktStep) /\ SF_vars(TmoStep) /\ SF_vars(LglStep)
  /\ WF_vars(Time)

Spec == Init /\ [][Next]_vars /\ Fairness

-----------------------------------------------------------------------------
(* Properties.                                                             *)

\* The variables keep their types; a lock has the holder that is at the place for it.
TypeOK ==
  /\ TimerTypeOK
  /\ members \in [Ports -> SUBSET Clients] /\ gen \in [Ports -> 0 .. MaxGen]
  /\ act_id \in [Ports -> 0 .. MaxIds] /\ age_id \in [Ports -> 0 .. MaxIds]
  /\ hw \subseteq Ports /\ rl \subseteq Ports
  /\ lock \in [Ports -> {"free", "pkt", "act"}] /\ meLock \subseteq {"pkt", "tmo", "act"}
  /\ policy => \A t, u \in meLock : t = u
  /\ \A p \in Ports : lock[p] = "pkt" =>
       p = pkt.port /\ pkt.pc \in {"limitMe", "limited", "process", "forward"}

\* Thread t waits for a lock that thread u has.
Waits(t, u) ==
  \/ t = "pkt" /\ pkt.pc \in {"limitMe", "recMe", "qryMe"} /\ policy /\ u \in meLock
  \/ t = "pkt" /\ pkt.pc \in {"limit", "recPort", "qryPort"} /\ u = lock[pkt.port]
  \/ /\ t = "tmo" /\ thr = "run"
     /\ \E e \in picked : IF e.owner.kind = "act" /\ "tmo" \notin meLock
                         THEN policy /\ u \in meLock ELSE u = lock[e.owner.port]
  \/ t = "act" /\ lgl \in Ports /\ u = lock[lgl]

Threads == {"pkt", "tmo", "act"}

CircularWait ==
  \E t, u, v \in Threads : Waits(t, u) /\ (Waits(u, t) \/ (Waits(u, v) /\ Waits(v, t)))

\* Threads wait for each other in a circle at one place only: the packet thread has the
\* lock of a port without a rate limiter and asks the entities for one, in the other order
\* of locks (omci_mcc_core.c:1984).  There they do, as the code is: with the reader of the
\* Lost Group List, and with the activity handler of a group of that port.  Reports of
\* ports with a limiter, queries, and both handlers among themselves are safe from it.
OneCircularWait == CircularWait => pkt.pc = "limitMe" /\ pkt.port \notin rl

\* A port with the group is in the forwarding entry, or will be when its report is done
\* with, whatever handlers and reports of other ports do between the two halves of
\* mcc_fwd_refresh and before the end of mcc_rep_process: a subscriber is not cut off.
\* The entry may name ports that have no group any more, or never had it: mcc_fwd_refresh
\* may write a port that has aged out since, and mcc_fwd_rep_update adds the port of a
\* report that was refused.  Nothing is said once a handler was given a freed group.
GroupsAreForwarded ==
  ~ub => \A p \in Ports : gen[p] # 0 => p \in hw \/ (pkt.pc = "forward" /\ pkt.port = p)

\* An event of the list names a group that exists and knows it by its identifier, and so
\* does the event whose handler is on its way; handlers are given no group that was freed.
\* A group loses sight of its events in two cases only, both possible in the code: a report
\* is processed while a handler of the group is on its way, which forgets the event that
\* the report added, or deletes the group in spite of it (omci_mcc_core.c:769, :801); and the
\* group ages out before its activity event, where the membership interval is shorter than
\* the 10 s of that event.  Then, and for these groups alone, an event may name a freed one.
EventsNameGroups ==
  /\ ub => stray # {}
  /\ \A e \in timeout_list : thr # "remove" \/ (\A x \in picked : x.id # e.id) =>
       \/ e.owner.gen \in stray
       \/ Live(e) /\ e.id = (IF e.owner.kind = "act" THEN act_id ELSE age_id)[e.owner.port]

\* A packet is done with in the end, unless the threads wait in the circle of
\* OneCircularWait, or a handler was given a freed group: no thread waits for a lock for
\* ever otherwise, with and without entities, subscribers and limiters.
PacketsEnd == pkt.pc # "idle" ~> pkt.pc = "idle" \/ CircularWait \/ ub

\* A group that a query has asked for is answered for or goes, under the same conditions:
\* in the circle the handler may wait for the lock of its port for ever.
QueriedAges == \A p \in Ports : age_id[p] # 0 ~> age_id[p] = 0 \/ CircularWait \/ ub
=============================================================================
