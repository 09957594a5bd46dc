------------------------------ MODULE MccGroup ------------------------------
(***************************************************************************)
(* Multicast groups of one LAN port: what omcid makes of the IGMP and MLD  *)
(* reports of its clients (mcc/omci_mcc_core.c, with the access control    *)
(* list and the limits that mcc/omci_mcc_omci.c reads from the MIB).       *)
(*                                                                         *)
(* A report is a list of records.  Each is checked against the access      *)
(* control list of the port and its limit of streams, and then becomes     *)
(* the filter of a client of a group; the group's filter is derived from   *)
(* those of its clients.  The lists of sources are sets here, the lists of *)
(* groups and clients are in the order of the code.  The port has a bridge *)
(* and no limit of bandwidth.  hosts is not in the code: it is what the    *)
(* clients themselves last said they want (RFC 3376).                      *)
(***************************************************************************)
EXTENDS Naturals, SequencesExt

CONSTANTS
  Groups, Clients, Sources,
  AnySource,      \* the source address 0.0.0.0
  Versions,       \* protocol versions that the operations profile supports
  Setups          \* kinds of port, by name:
                  \*   subscribed: it has a Multicast Subscriber Config Info entity
                  \*   acl: its access control list at first, entries [ga, sa]
                  \*   entries: what the OLT adds to it and takes from it later
                  \*   max: Max simultaneous groups, 0 for no limit
                  \*   unauth: the profile's Unauthorized join request behaviour
                  \*   carried: groups in the address table of the multicast GEM port
                  \*   reports: what its clients send, [ver, recs]

Modes == {"IN", "EX"}
Entries == [ga : Groups, sa : Sources \cup {AnySource}]
Records == [ga : Groups, type : Modes \cup {"ALLOW", "BLOCK"}, srcs : SUBSET Sources]

ASSUME MccAssumption ==
  /\ AnySource \notin Sources /\ IsFiniteSet(Groups) /\ IsFiniteSet(Sources)
  /\ \A n \in DOMAIN Setups :
       /\ {Setups[n].subscribed, Setups[n].unauth} \subseteq BOOLEAN
       /\ Setups[n].acl \cup Setups[n].entries \subseteq Entries
       /\ ~Setups[n].subscribed => Setups[n].acl = {} /\ Setups[n].entries = {}
       /\ Setups[n].max \in Nat /\ Setups[n].carried \subseteq Groups
       /\ \A p \in Setups[n].reports : p.recs \in Seq(Records)

VARIABLES
  setup,          \* the name of the port's setup; it stays
  acl,            \* dynamic_list_head
  clt_list,       \* group -> its clients; a group without clients does not exist
  pkt,            \* the report in hand
  verdict,        \* what became of the last report
  hosts

vars == <<setup, acl, clt_list, pkt, verdict, hosts>>

My == Setups[setup]

\* A filter that lets nothing through.
Nothing == [fmode |-> "IN", srcs |-> {}]

\* What a host wants; whether it has sent a record that changes its filter; whether one
\* that replaces it came after that, and what it wants is no longer looked at.
NewHost == [want |-> Nothing, changed |-> FALSE, mixed |-> FALSE]

NoPkt == [ca |-> {}, ver |-> 0, recs |-> << >>, num |-> 0,
          unauth |-> 0, discard |-> 0, pass |-> FALSE]

Init ==
  /\ setup \in DOMAIN Setups /\ acl = My.acl
  /\ clt_list = [g \in Groups |-> << >>]
  /\ pkt = NoPkt /\ verdict = "none"
  /\ hosts = [g \in Groups |-> [c \in Clients |-> NewHost]]

-----------------------------------------------------------------------------
(* Filters.                                                                *)

\* mcc_src_list_action_get: whether sources join the filter or leave it.
Adds(fmode, smode) == smode = "NA" \/ (smode = "ALLOW" <=> fmode = "IN")

\* mcc_grp_state_update: every client overwrites the mode of the one before.
Fmode(clts) == IF clts = << >> THEN "IN" ELSE Last(clts).fmode

\* mcc_grp_slist_intersect: an empty list gives way to the other one.
Intersect(l1, l2) ==
  IF l2 = {} THEN l1
  ELSE IF l1 = {} THEN l2
  ELSE IF l1 \cap l2 = {} /\ l2 = {AnySource} THEN {AnySource}
  ELSE l1 \cap l2

Of(clts, mode) == SelectSeq(clts, LAMBDA c : c.fmode = mode)
AllSources(clts) == UNION {clts[i].srcs : i \in DOMAIN clts}

\* mcc_grp_slist_get: src_link_list of a group with these clients.
Links(clts) ==
  IF Fmode(clts) = "IN"
  THEN AllSources(clts)
  ELSE FoldLeft(LAMBDA l, c : Intersect(l, c.srcs), {}, Of(clts, "EX"))
         \ AllSources(Of(clts, "IN"))

\* mcc_grp_refresh: a group that includes nothing is deleted with its clients.
Refreshed(clts) == IF Fmode(clts) = "IN" /\ Links(clts) = {} THEN << >> ELSE clts

\* mcc_clt_create.
NewClient(c) == [ca |-> c, fmode |-> "IN", smode |-> "NA", srcs |-> {}]

\* mcc_clt_fmode_set, mcc_clt_smode_set: what a record does not say stays.
Kept(new, old) == IF new = "NA" THEN old ELSE new

\* A refresh that never forgets sources.
ClientAfterUncleared(clt, rec) ==
  LET fmode == Kept(rec.fmode, clt.fmode)
      smode == Kept(rec.smode, clt.smode)
      srcs == IF Adds(fmode, smode) THEN clt.srcs \cup rec.srcs ELSE clt.srcs \ rec.srcs
  IN [clt EXCEPT !.fmode = fmode, !.smode = smode,
                 !.srcs = IF fmode = "IN" THEN srcs \ {AnySource} ELSE srcs]

\* The modes, and mcc_clt_refresh: without a source mode the filter starts anew, and
\* one that includes does not keep 0.0.0.0.
ClientAfter(clt, rec) ==
  LET fmode == Kept(rec.fmode, clt.fmode)
      smode == Kept(rec.smode, clt.smode)
      old == IF smode = "NA" THEN {} ELSE clt.srcs
      srcs == IF Adds(fmode, smode) THEN old \cup rec.srcs ELSE old \ rec.srcs
  IN [clt EXCEPT !.fmode = fmode, !.smode = smode,
                 !.srcs = IF fmode = "IN" THEN srcs \ {AnySource} ELSE srcs]

\* The end of mcc_clt_refresh: clients that are deleted.
Leaves(clt, rec) ==
  \/ clt.srcs = {} /\ (clt.fmode = "IN" \/ clt.smode = "BLOCK")
  \/ rec.srcs = {} /\ clt.fmode = "IN"

\* mcc_clt_find is not asked.
ClientsAfterUnsought(clts, c, rec) ==
  Refreshed(IF Leaves(ClientAfter(NewClient(c), rec), rec) THEN clts
            ELSE Append(clts, ClientAfter(NewClient(c), rec)))

\* The clients of a group after the record of client c: mcc_clt_find or mcc_clt_create,
\* mcc_clt_refresh, mcc_grp_refresh.
ClientsAfter(clts, c, rec) ==
  LET at == {i \in DOMAIN clts : clts[i].ca = c}
      all == IF at = {} THEN Append(clts, NewClient(c)) ELSE clts
      i == CHOOSE j \in DOMAIN all : all[j].ca = c
      new == ClientAfter(all[i], rec)
  IN Refreshed(IF Leaves(new, rec) THEN RemoveAt(all, i) ELSE [all EXCEPT ![i] = new])

-----------------------------------------------------------------------------
(* Checks.                                                                 *)

\* mcc_rec_get: what a record says, or that it says nothing.
Malformed(r) == r.type \in {"ALLOW", "BLOCK"} /\ r.srcs = {}
RecOf(r) ==
  [fmode |-> IF r.type \in Modes THEN r.type ELSE "NA",
   smode |-> IF r.type \in Modes THEN "NA" ELSE r.type,
   srcs |-> IF r.type = "EX" /\ r.srcs = {} THEN {AnySource} ELSE r.srcs]

\* dacl_ipv4_match, mcc_omci_policy_wlist_get, mcc_omci_flw_wlist_get: an empty list
\* and an entry for any source both allow all of them.
WList(g) ==
  LET match == {e.sa : e \in {x \in acl : x.ga = g}}
  IN IF acl = {} \/ AnySource \in match THEN {AnySource} ELSE match

\* A white list that is looked at but not applied.
AllowedUnfiltered(w, rec) == rec

\* mcc_rec_wlist_apply.
Allowed(w, rec) ==
  IF AnySource \in w THEN rec
  ELSE IF rec.fmode = "EX" THEN [rec EXCEPT !.fmode = "IN", !.srcs = w \ rec.srcs]
  ELSE [rec EXCEPT !.srcs = @ \cap w]

\* mcc_port_total_capacity_get: the links of all groups.
Streams ==
  Cardinality({gs \in Groups \X (Sources \cup {AnySource}) : gs[2] \in Links(clt_list[gs[1]])})

\* mcc_rec_restrict, the streams a record may add.  mcc_src_find takes the group's links
\* for those of a client, so that no source is found to be there already.
Increment(g, w, rec) ==
  IF AnySource \in w
  THEN IF clt_list[g] = << >> THEN 1 ELSE 0
  ELSE Cardinality(rec.srcs)

\* A limit that is met one stream too late.
OverLimitOffByOne(n) == My.max # 0 /\ n > 0 /\ Streams + n > My.max + 1

\* mcc_rec_restrict, the limit of mcc_omci_port_total_capacity_get; there is none for
\* a service.
OverLimit(n) == My.max # 0 /\ n > 0 /\ Streams + n > My.max

\* mcc_rec_restrict for a record that is not a leave: what becomes of it.
RecRestrict(g, rec) ==
  LET w == WList(g)
      a == Allowed(w, rec)
  IN IF w = {} \/ a.srcs = {} THEN "unauth"
     ELSE IF /\ Adds(Fmode(clt_list[g]), rec.smode)
             /\ OverLimit(Increment(g, w, a))
     THEN "discard" ELSE "apply"

\* mcc_rec_process up to the address table.
Verdict(g, rec) ==
  IF ~My.subscribed THEN "apply"
  ELSE IF pkt.ver \notin Versions THEN "discard"
  ELSE IF rec.fmode = "IN" /\ rec.srcs = {} THEN "apply"
  ELSE RecRestrict(g, rec)

Granted(g, rec) ==
  IF My.subscribed /\ ~(rec.fmode = "IN" /\ rec.srcs = {}) THEN Allowed(WList(g), rec) ELSE rec

-----------------------------------------------------------------------------
(* Actions of the packet thread, of the timeout thread and of the OLT.     *)

\* Hosts are observed where nothing is refused.
Observed == ~My.subscribed

\* What a host wants after it has sent the record r (RFC 3376).
WantAfter(f, r) ==
  IF r.type \in Modes THEN [fmode |-> r.type, srcs |-> r.srcs]
  ELSE [f EXCEPT !.srcs = IF Adds(f.fmode, r.type) THEN @ \cup r.srcs ELSE @ \ r.srcs]

\* A host that has left is a new one.
HostAfter(h, r) ==
  LET want == WantAfter(h.want, r)
  IN IF want = Nothing /\ (r.type = "IN" \/ ~h.mixed) THEN NewHost
     ELSE IF h.mixed \/ (h.changed /\ r.type \in Modes) THEN [NewHost EXCEPT !.mixed = TRUE]
     ELSE [NewHost EXCEPT !.want = want, !.changed = h.changed \/ r.type \notin Modes]

\* mcc_rep_process, the start: a report that the limit of its rate lets through.
Receive(c, p) ==
  /\ pkt = NoPkt
  /\ pkt' = [NoPkt EXCEPT !.ca = {c}, !.ver = p.ver, !.recs = p.recs, !.num = Len(p.recs)]
  /\ verdict' = "none"
  /\ UNCHANGED <<setup, acl, clt_list, hosts>>

\* mcc_rec_process from the flow on.
Apply(g, c, rec) ==
  /\ clt_list' = [clt_list EXCEPT ![g] = ClientsAfter(@, c, rec)]
  /\ pkt' = [pkt EXCEPT !.recs = Tail(@), !.pass = My.subscribed /\ My.unauth]
  /\ UNCHANGED <<setup, acl, verdict>>

\* A record that is refused counts, and the next one is taken.
Refuse(why) ==
  /\ pkt' = [pkt EXCEPT !.recs = Tail(@), ![why] = @ + 1, !.pass = My.unauth]
  /\ UNCHANGED <<setup, acl, clt_list, verdict>>

\* mcc_rep_process after an error: the rest of the report is left, the packet is not sent.
Fail ==
  /\ pkt' = NoPkt /\ verdict' = "failed"
  /\ UNCHANGED <<setup, acl, clt_list>>

\* One turn of the loop of mcc_rep_process: mcc_rec_get and mcc_rec_process.
\* mcc_omci_mc_addr_table_match answers OMCI_ERROR for a group it does not carry.
Record ==
  /\ pkt.recs # << >>
  /\ LET r == Head(pkt.recs)
         v == Verdict(r.ga, RecOf(r))
     IN IF Malformed(r) \/ (v = "apply" /\ r.ga \notin My.carried) THEN Fail
        ELSE IF v # "apply" THEN Refuse(v)
        ELSE \E c \in pkt.ca : Apply(r.ga, c, Granted(r.ga, RecOf(r)))
  /\ hosts' = [g \in Groups |-> [c \in Clients |->
                 IF Observed /\ Head(pkt.recs).ga = g /\ c \in pkt.ca
                 THEN HostAfter(hosts[g][c], Head(pkt.recs)) ELSE hosts[g][c]]]

\* mcc_rep_process after the loop: a report without an accepted record.
Blocked == (pkt.unauth = pkt.num /\ ~pkt.pass) \/ pkt.discard = pkt.num

\* Its end: the packet is sent on or dropped.
PacketEnd ==
  /\ pkt # NoPkt /\ pkt.recs = << >>
  /\ verdict' = IF Blocked THEN "dropped" ELSE "sent"
  /\ pkt' = NoPkt
  /\ UNCHANGED <<setup, acl, clt_list, hosts>>

\* mcc_grp_aging_timeout_handler: nobody answered for this group.
Age(g) ==
  /\ clt_list[g] # << >>
  /\ clt_list' = [clt_list EXCEPT ![g] = << >>]
  /\ hosts' = [hosts EXCEPT ![g] = [c \in Clients |-> NewHost]]
  /\ UNCHANGED <<setup, acl, pkt, verdict>>

\* dynamic_acl_table_entry_set: an entry is added, deleted, or the table cleared.  The
\* groups that exist stay.
AclSet ==
  /\ \E e \in My.entries : acl' \in {{}, acl \cup {e}, acl \ {e}}
  /\ acl' # acl
  /\ UNCHANGED <<setup, clt_list, pkt, verdict, hosts>>

Next ==
  \/ Record \/ PacketEnd \/ AclSet
  \/ \E g \in Groups : Age(g)
  \/ \E c \in Clients, p \in My.reports : Receive(c, p)

Spec == Init /\ [][Next]_vars

-----------------------------------------------------------------------------
(* Properties.                                                             *)

\* The variables keep their types; no client is twice in a group.
TypeOK ==
  /\ acl \subseteq Entries
  /\ \A g \in Groups : \A i \in DOMAIN clt_list[g] :
       /\ clt_list[g][i] \in [ca : Clients, fmode : Modes, smode : {"NA", "ALLOW", "BLOCK"},
                              srcs : SUBSET (Sources \cup {AnySource})]
       /\ \A j \in DOMAIN clt_list[g] : clt_list[g][i].ca = clt_list[g][j].ca => i = j
  /\ pkt.ca \subseteq Clients /\ pkt.unauth + pkt.discard + Len(pkt.recs) <= pkt.num
  /\ verdict \in {"none", "sent", "dropped", "failed"}

\* The access control list names sources, and goes on to.
NamesSources == My.entries = {} /\ acl # {} /\ \A e \in acl : e.sa # AnySource

\* However clients come, change their minds and go, the streams of the port stay within
\* its limit where the access control list names sources.
CapacityKept == My.subscribed /\ NamesSources /\ My.max # 0 => Streams <= My.max

\* A client's filter, and none if it is not in the group.
FilterOf(g, c) ==
  LET at == {i \in DOMAIN clt_list[g] : clt_list[g][i].ca = c}
  IN IF at = {} THEN Nothing
     ELSE LET e == clt_list[g][CHOOSE i \in at : TRUE] IN [fmode |-> e.fmode, srcs |-> e.srcs]

Admitted(f) == IF f.fmode = "IN" THEN f.srcs ELSE Sources \ f.srcs

\* The record in hand replaces an excluding filter that client c has changed before:
\* mcc_clt_smode_set keeps the source mode of the change, and mcc_clt_refresh the sources.
TurnsAround(g, c) ==
  /\ pkt.recs # << >> /\ Head(pkt.recs).ga = g /\ Head(pkt.recs).type \in Modes
  /\ c \in pkt.ca
  /\ \E i \in DOMAIN clt_list[g] :
       clt_list[g][i].ca = c /\ clt_list[g][i].fmode = "EX" /\ clt_list[g][i].smode # "NA"

\* A step gives a client no source that the access control list does not allow it at that
\* time, whatever the list was when it joined and however it has changed its filter since,
\* with one exception: a client that excludes, and has changed what it excludes, keeps
\* those sources when its next record replaces the filter, and where that includes, it is
\* given what it used to exclude (EX{s1,s2}, ALLOW{s2}, the list becomes {s2}, IN{s2}
\* gives s1, omci_mcc_core.c:399-414).
NothingUnauthorised ==
  [][\A g \in Groups, c \in Clients :
       \/ TurnsAround(g, c)
       \/ Admitted(FilterOf(g, c)') \ Admitted(FilterOf(g, c))
            \subseteq IF AnySource \in WList(g) THEN Sources ELSE WList(g)]_vars

\* Between two reports the filter of a client is the one its host wants, however hosts
\* come, change their filters and go beside each other, until a host replaces a filter
\* that it has changed before: mcc_clt_smode_set has kept the mode of the change then.
ClientsAreHosts ==
  Observed /\ pkt = NoPkt =>
    \A g \in Groups, c \in Clients :
      LET f == FilterOf(g, c)
      IN hosts[g][c].mixed \/ [f EXCEPT !.srcs = @ \ {AnySource}] = hosts[g][c].want
=============================================================================
