------------------------------ MODULE TimerSet ------------------------------
(***************************************************************************)
(* The timeout events of omcid: omci_timeout.c.                            *)
(*                                                                         *)
(* timeout_list holds events in the order of their deadlines.  The timeout *)
(* thread copies the first one when its time has come, releases the list,  *)
(* runs the handler, and only then removes the event by its identifier.    *)
(* Every other thread adds and removes events under the list's lock, so    *)
(* also while a handler is about to run.                                   *)
(*                                                                         *)
(* An event is kept with the time it has left.  Of several that are due,   *)
(* any may be the first one.                                               *)
(***************************************************************************)
EXTENDS Naturals

CONSTANTS Owners,    \* what a handler and its arguments stand for
          MaxIds     \* bound: events added in all

ASSUME MaxIdsAssumption == MaxIds \in Nat

VARIABLES
  timeout_list,      \* set of events [id, left, owner]
  last_timeout_id,
  thr, picked        \* the timeout thread: where it is, its copy of an event

timerV == <<timeout_list, last_timeout_id, thr, picked>>

Event == [id : 1 .. MaxIds, left : Nat, owner : Owners]
Ids == {e.id : e \in timeout_list}

\* timeout_init; picked holds no event before the first one.
TimerInit ==
  /\ timeout_list = {} /\ last_timeout_id = 0
  /\ thr = "poll" /\ picked = {}

\* lockless_event_remove: an identifier that is not there is no error.
Without(list, id) == {e \in list : e.id # id}

\* Identifiers are never used twice: unsigned long, 0 means none.
CanAdd == last_timeout_id < MaxIds
NewId == last_timeout_id + 1

\* timeout_event_remove(old), then timeout_event_add: what both do to the list.
Renew(old, owner, time) ==
  /\ CanAdd
  /\ last_timeout_id' = NewId
  /\ timeout_list' = Without(timeout_list, old)
                       \cup {[id |-> NewId, left |-> time, owner |-> owner]}
  /\ UNCHANGED <<thr, picked>>

\* timeout_event_remove alone.
Cancel(old) ==
  /\ timeout_list' = Without(timeout_list, old)
  /\ UNCHANGED <<last_timeout_id, thr, picked>>

\* Time passes for every event.
TimePasses ==
  /\ \E e \in timeout_list : e.left > 0
  /\ timeout_list' = {[e EXCEPT !.left = IF @ > 0 THEN @ - 1 ELSE 0] : e \in timeout_list}
  /\ UNCHANGED <<last_timeout_id, thr, picked>>

\* next_active_event_get, under the lock of the list.
Pick ==
  /\ thr = "poll"
  /\ \E e \in timeout_list : e.left = 0 /\ picked' = {e}
  /\ thr' = "run"
  /\ UNCHANGED <<timeout_list, last_timeout_id>>

\* The handler of the event in hand has run.
HandlerRan(owner) ==
  /\ thr = "run"
  /\ \E e \in picked : e.owner = owner
  /\ thr' = "remove"
  /\ UNCHANGED <<timeout_list, last_timeout_id, picked>>

\* lockless_event_remove after the handler.
RemovePicked ==
  /\ thr = "remove"
  /\ timeout_list' = {e \in timeout_list : \A p \in picked : e.id # p.id}
  /\ thr' = "poll" /\ picked' = {}
  /\ UNCHANGED last_timeout_id

TimerTypeOK ==
  /\ timeout_list \subseteq Event /\ last_timeout_id \in 0 .. MaxIds
  /\ thr \in {"poll", "run", "remove"} /\ picked \subseteq Event
=============================================================================
