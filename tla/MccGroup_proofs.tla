-------------------------- MODULE MccGroup_proofs --------------------------
(***************************************************************************)
(* Theorems about the multicast groups of a port, for any number of        *)
(* groups, clients and sources, any reports and any access control list.   *)
(***************************************************************************)
EXTENDS MccGroup, FiniteSetTheorems, SequenceTheorems, TLAPS

SMode == {"NA", "ALLOW", "BLOCK"}
Srcs == SUBSET (Sources \cup {AnySource})
Client == [ca : Clients, fmode : Modes, smode : SMode, srcs : Srcs]

\* A record as the checks and the clients see it: it replaces a filter or changes it.
Rec == {r \in [fmode : Modes \cup {"NA"}, smode : SMode, srcs : Srcs] :
          r.fmode = "NA" <=> r.smode # "NA"}

-----------------------------------------------------------------------------
(* Clients of a group.                                                     *)

Members(clts) == {clts[i] : i \in DOMAIN clts}

\* No client is twice in the list.
OneEach(clts) == \A i, j \in DOMAIN clts : clts[i].ca = clts[j].ca => i = j

\* Taking out one element moves those behind it.
LEMMA RemoveAtFacts ==
  ASSUME NEW S, NEW s \in Seq(S), NEW i \in 1 .. Len(s)
  PROVE  /\ RemoveAt(s, i) \in Seq(S) /\ Len(RemoveAt(s, i)) = Len(s) - 1
         /\ \A j \in 1 .. Len(s) - 1 : RemoveAt(s, i)[j] = s[IF j < i THEN j ELSE j + 1]
<1> DEFINE a == SubSeq(s, 1, i - 1)
           b == SubSeq(s, i + 1, Len(s))
<1>1. Len(s) \in Nat /\ \A j \in 1 .. Len(s) : s[j] \in S
  BY ElementOfSeq
<1>2. /\ a \in Seq(S) /\ Len(a) = i - 1
      /\ \A j \in 1 .. i - 1 : a[j] = s[j]
  <2>1. \A j \in 1 .. i - 1 : s[j] \in S
    BY <1>1
  <2>2. /\ a \in Seq(S) /\ Len(a) = (IF 1 <= i - 1 THEN (i - 1) - 1 + 1 ELSE 0)
        /\ \A j \in 1 .. (i - 1) - 1 + 1 : a[j] = s[1 + j - 1]
    BY <2>1, <1>1, SubSeqProperties
  <2> HIDE DEF a
  <2> QED BY <2>2, <1>1
<1>3. /\ b \in Seq(S) /\ Len(b) = Len(s) - i
      /\ \A j \in 1 .. Len(s) - i : b[j] = s[i + j]
  <2>1. \A j \in i + 1 .. Len(s) : s[j] \in S
    BY <1>1
  <2>2. /\ b \in Seq(S) /\ Len(b) = (IF i + 1 <= Len(s) THEN Len(s) - (i + 1) + 1 ELSE 0)
        /\ \A j \in 1 .. Len(s) - (i + 1) + 1 : b[j] = s[(i + 1) + j - 1]
    BY <2>1, <1>1, SubSeqProperties
  <2> HIDE DEF b
  <2>3. Len(b) = Len(s) - i /\ Len(s) - (i + 1) + 1 = Len(s) - i
    BY <2>2, <1>1
  <2>4. \A j \in 1 .. Len(s) - i : (i + 1) + j - 1 = i + j
    BY <1>1
  <2> QED BY <2>2, <2>3, <2>4
<1>4. RemoveAt(s, i) = a \o b
  BY DEF RemoveAt
<1> HIDE DEF a, b
<1>5. /\ a \o b \in Seq(S) /\ Len(a \o b) = Len(a) + Len(b)
      /\ \A j \in 1 .. Len(a) + Len(b) : (a \o b)[j] = IF j <= Len(a) THEN a[j] ELSE b[j - Len(a)]
  BY <1>2, <1>3, ConcatProperties
<1>6. ASSUME NEW j \in 1 .. Len(s) - 1
      PROVE  (a \o b)[j] = s[IF j < i THEN j ELSE j + 1]
  <2>1. (a \o b)[j] = IF j <= i - 1 THEN a[j] ELSE b[j - (i - 1)]
    BY <1>1, <1>2, <1>3, <1>5
  <2>2. CASE j < i
    <3>1. j \in 1 .. i - 1
      BY <2>2, <1>1
    <3> QED BY <2>1, <2>2, <3>1, <1>2
  <2>3. CASE ~(j < i)
    <3>1. j - (i - 1) \in 1 .. Len(s) - i /\ i + (j - (i - 1)) = j + 1
      BY <2>3, <1>1
    <3> QED BY <2>1, <2>3, <3>1, <1>3
  <2> QED BY <2>2, <2>3
<1> QED BY <1>1, <1>2, <1>3, <1>4, <1>5, <1>6

\* Without its element i, the list has the members other than that one.
LEMMA RemoveMember ==
  ASSUME NEW s \in Seq(Client), OneEach(s), NEW i \in DOMAIN s
  PROVE  /\ RemoveAt(s, i) \in Seq(Client) /\ OneEach(RemoveAt(s, i))
         /\ Members(RemoveAt(s, i)) = {e \in Members(s) : e.ca # s[i].ca}
<1> DEFINE r == RemoveAt(s, i)
           At(j) == IF j < i THEN j ELSE j + 1
<1>1. DOMAIN s = 1 .. Len(s) /\ Len(s) \in Nat /\ i \in 1 .. Len(s)
  OBVIOUS
<1>2. r \in Seq(Client) /\ DOMAIN r = 1 .. Len(s) - 1 /\ \A j \in 1 .. Len(s) - 1 : r[j] = s[At(j)]
  <2>1. /\ r \in Seq(Client) /\ Len(r) = Len(s) - 1
        /\ \A j \in 1 .. Len(s) - 1 : r[j] = s[IF j < i THEN j ELSE j + 1]
    BY <1>1, RemoveAtFacts
  <2>2. DOMAIN r = 1 .. Len(r)
    BY <2>1
  <2> QED BY <2>1, <2>2
<1> HIDE DEF r
<1>3. \A j \in 1 .. Len(s) - 1 : At(j) \in DOMAIN s /\ At(j) # i
  BY <1>1
<1>4. \A j, k \in 1 .. Len(s) - 1 : At(j) = At(k) => j = k
  BY <1>1
<1>5. \A k \in DOMAIN s : k # i => \E j \in 1 .. Len(s) - 1 : At(j) = k
  <2> SUFFICES ASSUME NEW k \in DOMAIN s, k # i
               PROVE  \E j \in 1 .. Len(s) - 1 : At(j) = k
    OBVIOUS
  <2>1. CASE k < i
    BY <2>1, <1>1
  <2>2. CASE ~(k < i)
    <3>1. k - 1 \in 1 .. Len(s) - 1 /\ At(k - 1) = k
      BY <2>2, <1>1
    <3> QED BY <3>1
  <2> QED BY <2>1, <2>2
<1> HIDE DEF At
<1>6. OneEach(r)
  BY <1>2, <1>3, <1>4 DEF OneEach
<1>7. Members(r) = {e \in Members(s) : e.ca # s[i].ca}
  <2>1. ASSUME NEW e \in Members(r)
        PROVE  e \in Members(s) /\ e.ca # s[i].ca
    <3>1. PICK j \in 1 .. Len(s) - 1 : e = s[At(j)]
      BY <1>2 DEF Members
    <3> QED BY <3>1, <1>3 DEF Members, OneEach
  <2>2. ASSUME NEW e \in Members(s), e.ca # s[i].ca
        PROVE  e \in Members(r)
    <3>1. PICK k \in DOMAIN s : e = s[k] /\ k # i
      BY <2>2 DEF Members
    <3>2. PICK j \in 1 .. Len(s) - 1 : At(j) = k
      BY <3>1, <1>5
    <3> QED BY <3>1, <3>2, <1>2 DEF Members
  <2> QED BY <2>1, <2>2
<1> QED BY <1>2, <1>6, <1>7 DEF r

LEMMA NewClientFacts ==
  ASSUME NEW c \in Clients
  PROVE  /\ NewClient(c) \in Client /\ NewClient(c).ca = c
         /\ NewClient(c).fmode = "IN" /\ NewClient(c).smode = "NA" /\ NewClient(c).srcs = {}
BY DEF NewClient, Client, Modes, SMode, Srcs

\* The sources of a client after a record, before 0.0.0.0 is taken out.
RawSrcs(clt, rec) ==
  LET old == IF Kept(rec.smode, clt.smode) = "NA" THEN {} ELSE clt.srcs
  IN IF Adds(Kept(rec.fmode, clt.fmode), Kept(rec.smode, clt.smode))
     THEN old \cup rec.srcs ELSE old \ rec.srcs

LEMMA ClientAfterFacts ==
  ASSUME NEW clt \in Client, NEW rec \in Rec
  PROVE  LET new == ClientAfter(clt, rec)
         IN /\ new \in Client /\ new.ca = clt.ca
            /\ new.fmode = Kept(rec.fmode, clt.fmode)
            /\ new.smode = Kept(rec.smode, clt.smode)
            /\ new.srcs = IF new.fmode = "IN" THEN RawSrcs(clt, rec) \ {AnySource}
                          ELSE RawSrcs(clt, rec)
<1> DEFINE f == Kept(rec.fmode, clt.fmode)
           m == Kept(rec.smode, clt.smode)
           s == IF f = "IN" THEN RawSrcs(clt, rec) \ {AnySource} ELSE RawSrcs(clt, rec)
<1>1. f \in Modes /\ m \in SMode
  BY DEF Client, Rec, Kept
<1>2. clt.srcs \in Srcs /\ rec.srcs \in Srcs
  BY DEF Client, Rec
<1>3. RawSrcs(clt, rec) \in Srcs
  BY <1>2 DEF RawSrcs, Srcs
<1>4. s \in Srcs
  BY <1>3 DEF Srcs
<1>5. ClientAfter(clt, rec) = [clt EXCEPT !.fmode = f, !.smode = m, !.srcs = s]
  BY DEF ClientAfter, RawSrcs
<1> HIDE DEF f, m, s
<1>6. PICK new : new = [clt EXCEPT !.fmode = f, !.smode = m, !.srcs = s]
  OBVIOUS
<1>7. new \in Client /\ new.ca = clt.ca /\ new.fmode = f /\ new.smode = m /\ new.srcs = s
  BY <1>1, <1>4, <1>6 DEF Client
<1> QED BY <1>5, <1>6, <1>7 DEF f, m, s

\* A new client joins the list at its end.
LEMMA AppendMember ==
  ASSUME NEW s \in Seq(Client), OneEach(s), NEW e \in Client, \A x \in Members(s) : x.ca # e.ca
  PROVE  /\ Append(s, e) \in Seq(Client) /\ OneEach(Append(s, e))
         /\ Members(Append(s, e)) = Members(s) \cup {e}
<1> DEFINE r == Append(s, e)
           n == Len(s)
<1>1. n \in Nat /\ DOMAIN s = 1 .. n
  OBVIOUS
<1>2. /\ r \in Seq(Client) /\ Len(r) = n + 1 /\ r[n + 1] = e
      /\ \A i \in 1 .. n : r[i] = s[i]
  BY AppendProperties
<1>3. DOMAIN r = 1 .. n + 1
  BY <1>2
<1> HIDE DEF r, n
<1>4. \A i \in 1 .. n + 1 : i \in 1 .. n \/ i = n + 1
  BY <1>1
<1>5. \A i \in 1 .. n : i \in 1 .. n + 1 /\ i # n + 1 /\ s[i] \in Members(s)
  BY <1>1 DEF Members
<1>6. n + 1 \in 1 .. n + 1
  BY <1>1
<1>7. OneEach(r)
  BY <1>1, <1>2, <1>3, <1>4, <1>5 DEF OneEach
<1>8. Members(r) = Members(s) \cup {e}
  <2>1. ASSUME NEW x \in Members(r) PROVE x \in Members(s) \cup {e}
    BY <1>2, <1>3, <1>4, <1>5 DEF Members
  <2>2. ASSUME NEW x \in Members(s) PROVE x \in Members(r)
    BY <1>1, <1>2, <1>3, <1>5 DEF Members
  <2>3. e \in Members(r)
    BY <1>2, <1>3, <1>6 DEF Members
  <2> QED BY <2>1, <2>2, <2>3
<1> QED BY <1>2, <1>7, <1>8 DEF r

\* One client is replaced by itself with another filter.
LEMMA ReplaceMember ==
  ASSUME NEW s \in Seq(Client), OneEach(s), NEW i \in DOMAIN s, NEW e \in Client, e.ca = s[i].ca
  PROVE  /\ [s EXCEPT ![i] = e] \in Seq(Client) /\ OneEach([s EXCEPT ![i] = e])
         /\ Members([s EXCEPT ![i] = e]) = {x \in Members(s) : x.ca # e.ca} \cup {e}
<1> DEFINE r == [s EXCEPT ![i] = e]
<1>1. r \in Seq(Client) /\ DOMAIN r = DOMAIN s
  OBVIOUS
<1>2. r[i] = e /\ \A j \in DOMAIN s : j # i => r[j] = s[j]
  OBVIOUS
<1> HIDE DEF r
<1>3. OneEach(r)
  BY <1>1, <1>2 DEF OneEach
<1>4. Members(r) = {x \in Members(s) : x.ca # e.ca} \cup {e}
  <2>1. ASSUME NEW x \in Members(r), x # e PROVE x \in Members(s) /\ x.ca # e.ca
    BY <2>1, <1>1, <1>2 DEF Members, OneEach
  <2>2. ASSUME NEW x \in Members(s), x.ca # e.ca PROVE x \in Members(r)
    BY <2>2, <1>1, <1>2 DEF Members
  <2>3. e \in Members(r)
    BY <1>1, <1>2 DEF Members
  <2> QED BY <2>1, <2>2, <2>3
<1> QED BY <1>1, <1>3, <1>4 DEF r

\* A record changes one client: it stays with its new filter or it leaves; what is left
\* of the group is then refreshed.
LEMMA ClientsAfterFacts ==
  ASSUME NEW clts \in Seq(Client), OneEach(clts), NEW c \in Clients, NEW rec \in Rec
  PROVE  \E old \in Client, upd \in Seq(Client) :
           /\ old.ca = c
           /\ \/ old \in Members(clts)
              \/ old = NewClient(c) /\ \A e \in Members(clts) : e.ca # c
           /\ OneEach(upd)
           /\ Members(upd) = {e \in Members(clts) : e.ca # c} \cup
                (IF Leaves(ClientAfter(old, rec), rec) THEN {} ELSE {ClientAfter(old, rec)})
           /\ ClientsAfter(clts, c, rec) = Refreshed(upd)
<1> DEFINE at == {i \in DOMAIN clts : clts[i].ca = c}
           all == IF at = {} THEN Append(clts, NewClient(c)) ELSE clts
<1>1. /\ all \in Seq(Client) /\ OneEach(all)
      /\ {e \in Members(all) : e.ca # c} = {e \in Members(clts) : e.ca # c}
      /\ \E e \in Members(all) : e.ca = c
      /\ \A e \in Members(all) : e.ca = c =>
           \/ e \in Members(clts)
           \/ e = NewClient(c) /\ \A x \in Members(clts) : x.ca # c
  <2>1. CASE at = {}
    <3>1. \A x \in Members(clts) : x.ca # c
      BY <2>1 DEF Members
    <3>2. all = Append(clts, NewClient(c))
      BY <2>1
    <3>3. /\ all \in Seq(Client) /\ OneEach(all) /\ Members(all) = Members(clts) \cup {NewClient(c)}
      BY <3>1, <3>2, NewClientFacts, AppendMember
    <3> HIDE DEF all
    <3> QED BY <3>1, <3>3, NewClientFacts
  <2>2. CASE at # {}
    <3>1. all = clts
      BY <2>2
    <3>2. \E e \in Members(clts) : e.ca = c
      BY <2>2 DEF Members
    <3> HIDE DEF all
    <3> QED BY <3>1, <3>2
  <2> QED BY <2>1, <2>2
<1> DEFINE k == CHOOSE j \in DOMAIN all : all[j].ca = c
           new == ClientAfter(all[k], rec)
           upd == IF Leaves(new, rec) THEN RemoveAt(all, k) ELSE [all EXCEPT ![k] = new]
<1>2. ClientsAfter(clts, c, rec) = Refreshed(upd)
  BY DEF ClientsAfter
<1> HIDE DEF at, all
<1>3. k \in DOMAIN all /\ all[k].ca = c
  BY <1>1 DEF Members
<1> HIDE DEF k
<1>4. all[k] \in Client /\ all[k] \in Members(all)
  BY <1>1, <1>3 DEF Members
<1>5. new \in Client /\ new.ca = c
  BY <1>3, <1>4, ClientAfterFacts
<1> HIDE DEF new
<1>6. /\ upd \in Seq(Client) /\ OneEach(upd)
      /\ Members(upd) = {e \in Members(all) : e.ca # c} \cup (IF Leaves(new, rec) THEN {} ELSE {new})
  <2>1. CASE Leaves(new, rec)
    <3>1. upd = RemoveAt(all, k)
      BY <2>1
    <3> HIDE DEF upd
    <3> QED BY <2>1, <3>1, <1>1, <1>3, RemoveMember
  <2>2. CASE ~Leaves(new, rec)
    <3>1. upd = [all EXCEPT ![k] = new]
      BY <2>2
    <3>2. new.ca = all[k].ca
      BY <1>3, <1>5
    <3>3. /\ [all EXCEPT ![k] = new] \in Seq(Client) /\ OneEach([all EXCEPT ![k] = new])
          /\ Members([all EXCEPT ![k] = new]) = {x \in Members(all) : x.ca # new.ca} \cup {new}
      BY <1>1, <1>3, <1>5, <3>2, ReplaceMember
    <3> HIDE DEF upd
    <3> QED BY <2>2, <3>1, <3>3, <1>5
  <2> QED BY <2>1, <2>2
<1> HIDE DEF upd
<1>7. /\ all[k].ca = c
      /\ \/ all[k] \in Members(clts)
         \/ all[k] = NewClient(c) /\ \A e \in Members(clts) : e.ca # c
  BY <1>1, <1>3, <1>4
<1>8. /\ OneEach(upd) /\ upd \in Seq(Client)
      /\ Members(upd) = {e \in Members(clts) : e.ca # c} \cup
           (IF Leaves(ClientAfter(all[k], rec), rec) THEN {} ELSE {ClientAfter(all[k], rec)})
  BY <1>1, <1>6 DEF new
<1> QED BY <1>2, <1>4, <1>7, <1>8

\* A refresh keeps a group or deletes it, and it keeps one whose including clients all
\* include something.
LEMMA RefreshedFacts ==
  ASSUME NEW clts \in Seq(Client)
  PROVE  /\ Refreshed(clts) \in {clts, << >>}
         /\ (\A e \in Members(clts) : e.fmode = "IN" => e.srcs # {}) => Refreshed(clts) = clts
<1>1. Refreshed(clts) \in {clts, << >>}
  BY DEF Refreshed
<1>2. ASSUME \A e \in Members(clts) : e.fmode = "IN" => e.srcs # {}, clts # << >>,
             Fmode(clts) = "IN"
      PROVE  Links(clts) # {}
  <2>1. Len(clts) \in DOMAIN clts
    BY <1>2
  <2> DEFINE e == clts[Len(clts)]
  <2>2. e \in Members(clts) /\ e.fmode = "IN"
    BY <1>2, <2>1 DEF Members, Fmode, Last
  <2>3. e.srcs \subseteq AllSources(clts)
    BY <2>1 DEF AllSources
  <2> QED BY <1>2, <2>2, <2>3 DEF Links
<1> QED BY <1>1, <1>2 DEF Refreshed

\* An including client includes something, and not 0.0.0.0.
Including(clts) == \A e \in Members(clts) : e.fmode = "IN" => e.srcs # {} /\ AnySource \notin e.srcs

\* Then a refresh deletes no group that still has a client: a record changes its own
\* client and no other.
LEMMA OneClientChanges ==
  ASSUME NEW clts \in Seq(Client), OneEach(clts), Including(clts), NEW c \in Clients, NEW rec \in Rec
  PROVE  LET r == ClientsAfter(clts, c, rec)
         IN /\ r \in Seq(Client) /\ OneEach(r) /\ Including(r)
            /\ \E old \in Client :
                 /\ old.ca = c
                 /\ \/ old \in Members(clts)
                    \/ old = NewClient(c) /\ \A e \in Members(clts) : e.ca # c
                 /\ Members(r) = {e \in Members(clts) : e.ca # c} \cup
                      (IF Leaves(ClientAfter(old, rec), rec) THEN {} ELSE {ClientAfter(old, rec)})
<1>1. PICK old \in Client, upd \in Seq(Client) :
           /\ old.ca = c
           /\ \/ old \in Members(clts)
              \/ old = NewClient(c) /\ \A e \in Members(clts) : e.ca # c
           /\ OneEach(upd)
           /\ Members(upd) = {e \in Members(clts) : e.ca # c} \cup
                (IF Leaves(ClientAfter(old, rec), rec) THEN {} ELSE {ClientAfter(old, rec)})
           /\ ClientsAfter(clts, c, rec) = Refreshed(upd)
  BY ClientsAfterFacts
<1> DEFINE new == ClientAfter(old, rec)
<1>2. ~Leaves(new, rec) /\ new.fmode = "IN" => new.srcs # {}
  BY DEF Leaves
<1>3. new.fmode = "IN" => AnySource \notin new.srcs
  BY ClientAfterFacts
<1> HIDE DEF new
<1>4. \A e \in Members(upd) : e \in Members(clts) \/ (e = new /\ ~Leaves(new, rec))
  BY <1>1 DEF new
<1>5. Including(upd)
  BY <1>2, <1>3, <1>4 DEF Including
<1>6. Refreshed(upd) = upd
  BY <1>5, RefreshedFacts DEF Including
<1> QED BY <1>1, <1>5, <1>6

-----------------------------------------------------------------------------
(* The state.                                                              *)

LEMMA RecOfFacts ==
  ASSUME NEW r \in Records
  PROVE  RecOf(r) \in Rec /\ r.srcs \subseteq Sources /\ r.ga \in Groups
<1> DEFINE f == IF r.type \in Modes THEN r.type ELSE "NA"
           m == IF r.type \in Modes THEN "NA" ELSE r.type
           s == IF r.type = "EX" /\ r.srcs = {} THEN {AnySource} ELSE r.srcs
<1>1. r.srcs \subseteq Sources /\ r.ga \in Groups /\ r.type \in Modes \cup {"ALLOW", "BLOCK"}
  BY DEF Records
<1>2. f \in Modes \cup {"NA"} /\ m \in SMode /\ (f = "NA" <=> m # "NA")
  BY <1>1 DEF Modes, SMode
<1>3. s \in Srcs
  BY <1>1 DEF Srcs
<1>4. RecOf(r) = [fmode |-> f, smode |-> m, srcs |-> s]
  BY DEF RecOf
<1> HIDE DEF f, m, s
<1> QED BY <1>1, <1>2, <1>3, <1>4 DEF Rec


\* What is granted of a record is a record; a list that names sources grants no others,
\* and then it never excludes.
LEMMA GrantedFacts ==
  ASSUME acl \subseteq Entries, NEW g \in Groups, NEW rec \in Rec
  PROVE  LET a == Granted(g, rec)
         IN /\ a \in Rec /\ a.smode = rec.smode /\ a.fmode \in {rec.fmode, "IN"}
            /\ ~My.subscribed => a = rec
            /\ My.subscribed /\ AnySource \notin WList(g) =>
                 a.fmode # "EX" /\ a.srcs \subseteq WList(g)
<1> DEFINE w == WList(g)
           x == [rec EXCEPT !.fmode = "IN", !.srcs = w \ rec.srcs]
           y == [rec EXCEPT !.srcs = rec.srcs \cap w]
<1>1. w \in Srcs
  BY DEF WList, Srcs, Entries
<1> HIDE DEF w
<1>2. /\ rec \in [fmode : Modes \cup {"NA"}, smode : SMode, srcs : Srcs]
      /\ rec.fmode = "NA" <=> rec.smode # "NA"
  BY DEF Rec
<1>3. w \ rec.srcs \in Srcs /\ rec.srcs \cap w \in Srcs
  BY <1>1, <1>2 DEF Srcs
<1>4. rec.fmode = "EX" => x \in Rec /\ x.fmode = "IN" /\ x.smode = rec.smode /\ x.srcs = w \ rec.srcs
  <2> SUFFICES ASSUME rec.fmode = "EX"
               PROVE  x \in Rec /\ x.fmode = "IN" /\ x.smode = rec.smode /\ x.srcs = w \ rec.srcs
    OBVIOUS
  <2>1. PICK z : z = x
    OBVIOUS
  <2>2. z \in [fmode : Modes \cup {"NA"}, smode : SMode, srcs : Srcs]
    BY <2>1, <1>2, <1>3 DEF Modes
  <2>3. z.fmode = "IN" /\ z.smode = rec.smode /\ z.srcs = w \ rec.srcs
    BY <2>1, <1>2
  <2> QED BY <2>1, <2>2, <2>3, <1>2 DEF Rec
<1>5. y \in Rec /\ y.fmode = rec.fmode /\ y.smode = rec.smode /\ y.srcs = rec.srcs \cap w
  <2>1. PICK z : z = y
    OBVIOUS
  <2>2. z \in [fmode : Modes \cup {"NA"}, smode : SMode, srcs : Srcs]
    BY <2>1, <1>2, <1>3
  <2>3. z.fmode = rec.fmode /\ z.smode = rec.smode /\ z.srcs = rec.srcs \cap w
    BY <2>1, <1>2
  <2> QED BY <2>1, <2>2, <2>3, <1>2 DEF Rec
<1>6. Allowed(w, rec) = IF AnySource \in w THEN rec ELSE IF rec.fmode = "EX" THEN x ELSE y
  BY DEF Allowed
<1>7. Granted(g, rec) = IF My.subscribed /\ ~(rec.fmode = "IN" /\ rec.srcs = {})
                        THEN Allowed(w, rec) ELSE rec
  BY DEF Granted, w
<1> HIDE DEF x, y
<1>8. PICK a : a = Granted(g, rec)
  OBVIOUS
<1>9. a \in Rec /\ a.smode = rec.smode /\ a.fmode \in {rec.fmode, "IN"}
  BY <1>4, <1>5, <1>6, <1>7, <1>8
<1>10. My.subscribed /\ AnySource \notin w => a.fmode # "EX" /\ a.srcs \subseteq w
  BY <1>4, <1>5, <1>6, <1>7, <1>8
<1>11. ~My.subscribed => a = rec
  BY <1>7, <1>8
<1> QED BY <1>8, <1>9, <1>10, <1>11 DEF w

\* The clients of every group.
GroupsInv ==
  /\ clt_list \in [Groups -> Seq(Client)]
  /\ \A g \in Groups : OneEach(clt_list[g]) /\ Including(clt_list[g])

\* The report in hand: every record of it is still to come, counted as refused, or applied.
PktOK(p) ==
  /\ p \in [ca : SUBSET Clients, ver : {p.ver}, recs : Seq(Records), num : Nat,
            unauth : Nat, discard : Nat, pass : BOOLEAN]
  /\ \A c, d \in p.ca : c = d
  /\ p.unauth + p.discard + Len(p.recs) <= p.num

\* A verdict is of a report that is done with.
VerdictInv ==
  /\ verdict \in {"none", "sent", "dropped", "failed"}
  /\ verdict # "none" => pkt = NoPkt

\* The access control list changes only where the OLT changes it.
AclInv ==
  /\ setup \in DOMAIN Setups /\ acl \subseteq Entries
  /\ My.entries = {} => acl = My.acl

StateInv == GroupsInv /\ PktOK(pkt) /\ VerdictInv /\ AclInv

LEMMA NoPktOK == PktOK(NoPkt)
<1>1. PICK p : p = NoPkt
  OBVIOUS
<1>2. /\ p.ca = {} /\ p.recs = << >> /\ p.num = 0 /\ p.unauth = 0 /\ p.discard = 0
      /\ Len(p.recs) = 0
  BY <1>1 DEF NoPkt
<1>3. p \in [ca : SUBSET Clients, ver : {p.ver}, recs : Seq(Records), num : Nat,
              unauth : Nat, discard : Nat, pass : BOOLEAN]
  BY <1>1 DEF NoPkt
<1>4. PktOK(p)
  BY <1>2, <1>3 DEF PktOK
<1> QED BY <1>1, <1>4

LEMMA ReceiveOK ==
  ASSUME NEW c \in Clients, NEW v, NEW recs \in Seq(Records)
  PROVE  PktOK([NoPkt EXCEPT !.ca = {c}, !.ver = v, !.recs = recs, !.num = Len(recs)])
<1>1. PICK p : p = [NoPkt EXCEPT !.ca = {c}, !.ver = v, !.recs = recs, !.num = Len(recs)]
  OBVIOUS
<1>2. /\ p.ca = {c} /\ p.recs = recs /\ p.num = Len(recs) /\ p.unauth = 0 /\ p.discard = 0
      /\ Len(p.recs) \in Nat
  BY <1>1 DEF NoPkt
<1>3. p \in [ca : SUBSET Clients, ver : {p.ver}, recs : Seq(Records), num : Nat,
              unauth : Nat, discard : Nat, pass : BOOLEAN]
  <2>1. PICK n : n = NoPkt
    OBVIOUS
  <2>2. n \in [ca : SUBSET Clients, ver : {n.ver}, recs : Seq(Records), num : Nat,
               unauth : Nat, discard : Nat, pass : BOOLEAN]
    BY <2>1, NoPktOK DEF PktOK
  <2>3. p = [n EXCEPT !.ca = {c}, !.ver = v, !.recs = recs, !.num = Len(recs)]
    BY <1>1, <2>1
  <2>4. PICK m : m = [n EXCEPT !.ca = {c}, !.ver = v]
    OBVIOUS
  <2>5. m \in [ca : SUBSET Clients, ver : {m.ver}, recs : Seq(Records), num : Nat,
               unauth : Nat, discard : Nat, pass : BOOLEAN]
    BY <2>2, <2>4
  <2>6. p = [m EXCEPT !.recs = recs, !.num = Len(recs)]
    BY <2>2, <2>3, <2>4
  <2>7. Len(recs) \in Nat
    OBVIOUS
  <2> QED BY <2>5, <2>6, <2>7
<1>4. PktOK(p)
  BY <1>2, <1>3 DEF PktOK
<1> QED BY <1>1, <1>4

\* The report once its first record is dealt with.
LEMMA TailOK ==
  ASSUME NEW p, PktOK(p), p.recs # << >>, NEW b \in BOOLEAN, NEW why \in {"unauth", "discard"}
  PROVE  /\ PktOK([p EXCEPT !.recs = Tail(@), !.pass = b])
         /\ PktOK([p EXCEPT !.recs = Tail(@), ![why] = @ + 1, !.pass = b])
<1> DEFINE n == p.unauth + p.discard
<1>1. /\ p \in [ca : SUBSET Clients, ver : {p.ver}, recs : Seq(Records), num : Nat,
                unauth : Nat, discard : Nat, pass : BOOLEAN]
      /\ \A c, d \in p.ca : c = d
      /\ p.unauth + p.discard + Len(p.recs) <= p.num
  BY DEF PktOK
<1>2. /\ Tail(p.recs) \in Seq(Records) /\ Len(Tail(p.recs)) + 1 = Len(p.recs)
      /\ Len(Tail(p.recs)) \in Nat
  BY <1>1
<1>3. PktOK([p EXCEPT !.recs = Tail(@), !.pass = b])
  <2>1. PICK q : q = [p EXCEPT !.recs = Tail(@), !.pass = b]
    OBVIOUS
  <2>2. q \in [ca : SUBSET Clients, ver : {q.ver}, recs : Seq(Records), num : Nat,
                unauth : Nat, discard : Nat, pass : BOOLEAN]
    BY <2>1, <1>1, <1>2
  <2>3. /\ q.recs = Tail(p.recs) /\ q.ca = p.ca /\ q.num = p.num /\ q.unauth = p.unauth
        /\ q.discard = p.discard
    BY <2>1, <1>1
  <2>4. q.unauth + q.discard + Len(q.recs) <= q.num
    BY <2>3, <1>1, <1>2
  <2> QED BY <2>1, <2>2, <2>3, <2>4, <1>1 DEF PktOK
<1>4. PktOK([p EXCEPT !.recs = Tail(@), ![why] = @ + 1, !.pass = b])
  <2>1. PICK q : q = [p EXCEPT !.recs = Tail(@), ![why] = @ + 1, !.pass = b]
    OBVIOUS
  <2>2. /\ q \in [ca : SUBSET Clients, ver : {q.ver}, recs : Seq(Records), num : Nat,
                  unauth : Nat, discard : Nat, pass : BOOLEAN]
        /\ q.unauth + q.discard = p.unauth + p.discard + 1
    <3>1. CASE why = "unauth"
      <4> DEFINE k == p.unauth + 1
                 t == Tail(p.recs)
      <4>k. k \in Nat /\ t \in Seq(Records)
        BY <1>1, <1>2
      <4>1. q = [p EXCEPT !.recs = t, !.unauth = k, !.pass = b]
        BY <2>1, <3>1
      <4> HIDE DEF k, t
      <4>2. q \in [ca : SUBSET Clients, ver : {q.ver}, recs : Seq(Records), num : Nat,
                  unauth : Nat, discard : Nat, pass : BOOLEAN]
        BY <4>1, <4>k, <1>1
      <4>3. q.unauth = k /\ q.discard = p.discard
        BY <4>1, <1>1
      <4> QED BY <4>2, <4>3, <1>1 DEF k
    <3>2. CASE why = "discard"
      <4> DEFINE k == p.discard + 1
                 t == Tail(p.recs)
      <4>k. k \in Nat /\ t \in Seq(Records)
        BY <1>1, <1>2
      <4>1. q = [p EXCEPT !.recs = t, !.discard = k, !.pass = b]
        BY <2>1, <3>2
      <4> HIDE DEF k, t
      <4>2. q \in [ca : SUBSET Clients, ver : {q.ver}, recs : Seq(Records), num : Nat,
                  unauth : Nat, discard : Nat, pass : BOOLEAN]
        BY <4>1, <4>k, <1>1
      <4>3. q.discard = k /\ q.unauth = p.unauth
        BY <4>1, <1>1
      <4> QED BY <4>2, <4>3, <1>1 DEF k
    <3> QED BY <3>1, <3>2
  <2>3. /\ q.recs = Tail(p.recs) /\ q.ca = p.ca /\ q.num = p.num
    BY <2>1, <1>1
  <2>4. q.unauth + q.discard + Len(q.recs) = p.unauth + p.discard + Len(p.recs)
    BY <2>2, <2>3, <1>1, <1>2
  <2> QED BY <2>1, <2>2, <2>3, <2>4, <1>1 DEF PktOK
<1> QED BY <1>3, <1>4

\* The three outcomes of one turn of the loop.
LEMMA RecordCases ==
  ASSUME StateInv, Record
  PROVE  LET r == Head(pkt.recs)
         IN /\ r \in Records /\ pkt.recs # << >> /\ verdict = "none"
            /\ \/ Fail /\ (Malformed(r) \/ r.ga \notin My.carried)
               \/ My.subscribed /\ \E why \in {"unauth", "discard"} : Refuse(why)
               \/ ~Malformed(r) /\ \E c \in pkt.ca : Apply(r.ga, c, Granted(r.ga, RecOf(r)))
<1> DEFINE r == Head(pkt.recs)
           v == Verdict(r.ga, RecOf(r))
<1>1. pkt.recs # << >> /\ pkt.recs \in Seq(Records)
  BY DEF Record, StateInv, PktOK
<1>2. r \in Records
  BY <1>1
<1>3. NoPkt.recs = << >>
  BY DEF NoPkt
<1>4. verdict = "none"
  BY <1>1, <1>3 DEF StateInv, VerdictInv
<1>5. v \in {"apply", "unauth", "discard"} /\ (v # "apply" => My.subscribed)
  BY DEF Verdict, RecRestrict
<1>6. IF Malformed(r) \/ (v = "apply" /\ r.ga \notin My.carried) THEN Fail
      ELSE IF v # "apply" THEN Refuse(v)
      ELSE \E c \in pkt.ca : Apply(r.ga, c, Granted(r.ga, RecOf(r)))
  BY DEF Record
<1> HIDE DEF r, v
<1>7. v # "apply" => v \in {"unauth", "discard"}
  BY <1>5
<1>8. \/ Fail /\ (Malformed(r) \/ r.ga \notin My.carried)
      \/ My.subscribed /\ \E why \in {"unauth", "discard"} : Refuse(why)
      \/ ~Malformed(r) /\ \E c \in pkt.ca : Apply(r.ga, c, Granted(r.ga, RecOf(r)))
  BY <1>5, <1>6, <1>7
<1> QED BY <1>1, <1>2, <1>4, <1>8 DEF r

\* What a record that is applied does to the clients of its group.
LEMMA ApplyFacts ==
  ASSUME StateInv, NEW g \in Groups, NEW c \in Clients, NEW rec \in Rec, Apply(g, c, rec)
  PROVE  /\ GroupsInv'
         /\ \A h \in Groups : h # g => clt_list'[h] = clt_list[h]
         /\ \E old \in Client :
              /\ old.ca = c
              /\ \/ old \in Members(clt_list[g])
                 \/ old = NewClient(c) /\ \A e \in Members(clt_list[g]) : e.ca # c
              /\ Members(clt_list'[g]) = {e \in Members(clt_list[g]) : e.ca # c} \cup
                   (IF Leaves(ClientAfter(old, rec), rec) THEN {} ELSE {ClientAfter(old, rec)})
<1> DEFINE l == ClientsAfter(clt_list[g], c, rec)
<1>1. /\ clt_list \in [Groups -> Seq(Client)]
      /\ \A h \in Groups : OneEach(clt_list[h]) /\ Including(clt_list[h])
  BY DEF StateInv, GroupsInv
<1>2. clt_list' = [clt_list EXCEPT ![g] = l]
  BY DEF Apply
<1>3. /\ l \in Seq(Client) /\ OneEach(l) /\ Including(l)
      /\ \E old \in Client :
           /\ old.ca = c
           /\ \/ old \in Members(clt_list[g])
              \/ old = NewClient(c) /\ \A e \in Members(clt_list[g]) : e.ca # c
           /\ Members(l) = {e \in Members(clt_list[g]) : e.ca # c} \cup
                (IF Leaves(ClientAfter(old, rec), rec) THEN {} ELSE {ClientAfter(old, rec)})
  <2>1. clt_list[g] \in Seq(Client) /\ OneEach(clt_list[g]) /\ Including(clt_list[g])
    BY <1>1
  <2> HIDE DEF l
  <2> QED BY <2>1, OneClientChanges DEF l
<1> HIDE DEF l
<1>4. clt_list'[g] = l /\ \A h \in Groups : h # g => clt_list'[h] = clt_list[h]
  BY <1>1, <1>2
<1>5. clt_list' \in [Groups -> Seq(Client)]
  BY <1>1, <1>2, <1>3
<1>6. \A h \in Groups : OneEach(clt_list'[h]) /\ Including(clt_list'[h])
  BY <1>1, <1>3, <1>4
<1>7. GroupsInv'
  BY <1>5, <1>6 DEF GroupsInv
<1> QED BY <1>3, <1>4, <1>7

LEMMA EmptyGroup == << >> \in Seq(Client) /\ OneEach(<< >>) /\ Including(<< >>) /\ Members(<< >>) = {}
<1>1. << >> \in Seq(Client) /\ DOMAIN << >> = {}
  OBVIOUS
<1> QED BY <1>1 DEF OneEach, Including, Members

LEMMA StateInit == Init => StateInv
<1> SUFFICES ASSUME Init PROVE StateInv
  OBVIOUS
<1>1. GroupsInv
  BY EmptyGroup DEF Init, GroupsInv
<1>2. PktOK(pkt)
  BY NoPktOK DEF Init
<1>3. VerdictInv
  BY DEF Init, VerdictInv
<1>4. AclInv
  BY MccAssumption DEF Init, AclInv, My
<1> QED BY <1>1, <1>2, <1>3, <1>4 DEF StateInv

LEMMA StateNext == StateInv /\ [Next]_vars => StateInv'
<1> SUFFICES ASSUME StateInv, [Next]_vars PROVE StateInv'
  OBVIOUS
<1> USE DEF StateInv
<1>1. CASE Record
  <2> DEFINE r == Head(pkt.recs)
  <2>1. /\ r \in Records /\ pkt.recs # << >> /\ verdict = "none"
        /\ \/ Fail /\ (Malformed(r) \/ r.ga \notin My.carried)
           \/ My.subscribed /\ \E why \in {"unauth", "discard"} : Refuse(why)
           \/ ~Malformed(r) /\ \E c \in pkt.ca : Apply(r.ga, c, Granted(r.ga, RecOf(r)))
    BY <1>1, RecordCases
  <2> HIDE DEF r
  <2>2. r.ga \in Groups /\ RecOf(r) \in Rec
    BY <2>1, RecOfFacts
  <2>3. Granted(r.ga, RecOf(r)) \in Rec
    BY <2>2, GrantedFacts DEF AclInv
  <2>4. {My.subscribed, My.unauth} \subseteq BOOLEAN
    BY MccAssumption DEF AclInv, My
  <2>5. CASE Fail
    BY <2>5, NoPktOK DEF Fail, GroupsInv, VerdictInv, AclInv, My
  <2>6. ASSUME NEW why \in {"unauth", "discard"}, Refuse(why) PROVE StateInv'
    <3>1. PktOK(pkt')
      BY <2>1, <2>4, <2>6, TailOK DEF Refuse
    <3> QED BY <2>1, <2>6, <3>1 DEF Refuse, GroupsInv, VerdictInv, AclInv, My
  <2>7. ASSUME NEW c \in pkt.ca, Apply(r.ga, c, Granted(r.ga, RecOf(r))) PROVE StateInv'
    <3>1. c \in Clients
      BY DEF PktOK
    <3>2. GroupsInv'
      BY <2>2, <2>3, <2>7, <3>1, ApplyFacts
    <3>3. (My.subscribed /\ My.unauth) \in BOOLEAN
      BY <2>4
    <3>4. PktOK(pkt')
      BY <2>1, <2>7, <3>3, TailOK DEF Apply
    <3> QED BY <2>1, <2>7, <3>2, <3>4 DEF Apply, VerdictInv, AclInv, My
  <2> QED BY <2>1, <2>5, <2>6, <2>7
<1>2. CASE PacketEnd
  BY <1>2, NoPktOK DEF PacketEnd, GroupsInv, VerdictInv, AclInv, My
<1>3. CASE AclSet
  <2>1. My.entries \subseteq Entries
    BY MccAssumption DEF AclInv, My
  <2>2. acl' \subseteq Entries /\ My.entries # {}
    BY <1>3, <2>1 DEF AclSet, AclInv
  <2> QED BY <1>3, <2>2 DEF AclSet, GroupsInv, VerdictInv, AclInv, My
<1>4. ASSUME NEW g \in Groups, Age(g) PROVE StateInv'
  <2>1. clt_list' = [clt_list EXCEPT ![g] = << >>]
    BY <1>4 DEF Age
  <2>2. GroupsInv'
    BY <2>1, EmptyGroup DEF GroupsInv
  <2> QED BY <1>4, <2>2 DEF Age, VerdictInv, AclInv, My
<1>5. ASSUME NEW c \in Clients, NEW p \in My.reports, Receive(c, p) PROVE StateInv'
  <2>1. p.recs \in Seq(Records)
    BY MccAssumption DEF AclInv, My
  <2>2. PktOK(pkt')
    BY <1>5, <2>1, ReceiveOK DEF Receive
  <2> QED BY <1>5, <2>2 DEF Receive, GroupsInv, VerdictInv, AclInv, My
<1>6. CASE UNCHANGED vars
  BY <1>6 DEF vars, GroupsInv, VerdictInv, AclInv, My
<1> QED BY <1>1, <1>2, <1>3, <1>4, <1>5, <1>6 DEF Next

LEMMA StateAlways == Spec => []StateInv
BY StateInit, StateNext, PTL DEF Spec

LEMMA StateType == StateInv => TypeOK
<1> SUFFICES ASSUME StateInv PROVE TypeOK
  OBVIOUS
<1>1. ASSUME NEW g \in Groups, NEW i \in DOMAIN clt_list[g]
      PROVE  /\ clt_list[g][i] \in [ca : Clients, fmode : Modes, smode : {"NA", "ALLOW", "BLOCK"},
                                    srcs : SUBSET (Sources \cup {AnySource})]
             /\ \A j \in DOMAIN clt_list[g] : clt_list[g][i].ca = clt_list[g][j].ca => i = j
  <2>1. clt_list[g] \in Seq(Client) /\ OneEach(clt_list[g])
    BY DEF StateInv, GroupsInv
  <2>2. clt_list[g][i] \in Client
    BY <2>1
  <2> QED BY <2>1, <2>2 DEF OneEach, Client, SMode, Srcs
<1>2. pkt.ca \subseteq Clients /\ pkt.unauth + pkt.discard + Len(pkt.recs) <= pkt.num
  BY DEF StateInv, PktOK
<1> QED BY <1>1, <1>2 DEF TypeOK, StateInv, VerdictInv, AclInv

\* The lists of clients, the report in hand and the verdict are well formed: whatever
\* mcc_clt_find, mcc_clt_create and mcc_clt_refresh do, no client is twice in a group, and
\* mcc_rep_process counts no record of a report twice.
THEOREM TypeCorrect == Spec => []TypeOK
BY StateAlways, StateType, PTL

-----------------------------------------------------------------------------
(* Authorisation.                                                          *)

\* FilterOf of a list of clients.
FilterIn(clts, c) ==
  LET at == {i \in DOMAIN clts : clts[i].ca = c}
  IN IF at = {} THEN Nothing
     ELSE LET e == clts[CHOOSE i \in at : TRUE] IN [fmode |-> e.fmode, srcs |-> e.srcs]

LEMMA FilterOfIn ==
  ASSUME NEW g \in Groups, NEW c \in Clients
  PROVE  FilterOf(g, c) = FilterIn(clt_list[g], c) /\ FilterOf(g, c)' = FilterIn(clt_list'[g], c)
BY DEF FilterOf, FilterIn

\* A filter is the one of the member, if there is one.
LEMMA FilterMember ==
  ASSUME NEW clts \in Seq(Client), OneEach(clts), NEW c
  PROVE  /\ \A e \in Members(clts) : e.ca = c => FilterIn(clts, c) = [fmode |-> e.fmode, srcs |-> e.srcs]
         /\ (\A e \in Members(clts) : e.ca # c) => FilterIn(clts, c) = Nothing
<1> DEFINE at == {i \in DOMAIN clts : clts[i].ca = c}
           k == CHOOSE i \in at : TRUE
<1>1. ASSUME NEW e \in Members(clts), e.ca = c
      PROVE  FilterIn(clts, c) = [fmode |-> e.fmode, srcs |-> e.srcs]
  <2>1. PICK i \in DOMAIN clts : e = clts[i]
    BY DEF Members
  <2>2. i \in at
    BY <1>1, <2>1
  <2>3. k \in at
    BY <2>2
  <2>4. k = i
    BY <2>2, <2>3 DEF OneEach
  <2>5. FilterIn(clts, c) = [fmode |-> clts[k].fmode, srcs |-> clts[k].srcs]
    BY <2>2 DEF FilterIn
  <2> QED BY <2>1, <2>4, <2>5
<1>2. ASSUME \A e \in Members(clts) : e.ca # c
      PROVE  FilterIn(clts, c) = Nothing
  <2>1. at = {}
    BY <1>2 DEF Members
  <2> QED BY <2>1 DEF FilterIn
<1> QED BY <1>1, <1>2

\* Whatever the filter, it admits sources and not 0.0.0.0.
LEMMA AdmitsSources ==
  ASSUME NEW clts \in Seq(Client), OneEach(clts), Including(clts), NEW c
  PROVE  Admitted(FilterIn(clts, c)) \subseteq Sources
<1>1. CASE \E e \in Members(clts) : e.ca = c
  <2>1. PICK e \in Members(clts) : e.ca = c
    BY <1>1
  <2>2. e \in Client /\ (e.fmode = "IN" => AnySource \notin e.srcs)
    BY DEF Members, Including
  <2>3. FilterIn(clts, c) = [fmode |-> e.fmode, srcs |-> e.srcs]
    BY <2>1, FilterMember
  <2>4. FilterIn(clts, c).fmode = e.fmode /\ FilterIn(clts, c).srcs = e.srcs
    BY <2>3
  <2> QED BY <2>2, <2>4 DEF Admitted, Client, Srcs
<1>2. CASE \A e \in Members(clts) : e.ca # c
  <2>1. FilterIn(clts, c) = Nothing
    BY <1>2, FilterMember
  <2> QED BY <2>1 DEF Nothing, Admitted
<1> QED BY <1>1, <1>2

\* The clients of two lists other than c.
OthersSame(old, new, c) == \A e : e.ca # c => (e \in Members(new) <=> e \in Members(old))

\* A record leaves the filters of the other clients of the group alone.
LEMMA OthersKeep ==
  ASSUME NEW old \in Seq(Client), OneEach(old), NEW new \in Seq(Client), OneEach(new), NEW c, NEW d,
         OthersSame(old, new, c), d # c
  PROVE  FilterIn(new, d) = FilterIn(old, d)
<1>1. CASE \E e \in Members(old) : e.ca = d
  <2>1. PICK e \in Members(old) : e.ca = d
    BY <1>1
  <2>2. e \in Members(new)
    BY <2>1 DEF OthersSame
  <2> QED BY <2>1, <2>2, FilterMember
<1>2. CASE \A e \in Members(old) : e.ca # d
  <2>1. \A e \in Members(new) : e.ca # d
    BY <1>2 DEF OthersSame
  <2> QED BY <1>2, <2>1, FilterMember
<1> QED BY <1>1, <1>2

\* Nobody excludes where the list names sources and stays.
IncludeInv ==
  My.subscribed /\ My.entries = {} =>
    \A g \in Groups :
      AnySource \notin WList(g) => \A e \in Members(clt_list[g]) : e.fmode = "IN"

LEMMA TypeFacts ==
  ASSUME NEW r \in Records
  PROVE  /\ RecOf(r).fmode = (IF r.type \in Modes THEN r.type ELSE "NA")
         /\ RecOf(r).smode = (IF r.type \in Modes THEN "NA" ELSE r.type)
         /\ RecOf(r).srcs = (IF r.type = "EX" /\ r.srcs = {} THEN {AnySource} ELSE r.srcs)
BY DEF RecOf

LEMMA ModesInit == Init => IncludeInv
BY EmptyGroup DEF Init, IncludeInv

LEMMA ModesNext == StateInv /\ IncludeInv /\ [Next]_vars => IncludeInv'
<1> SUFFICES ASSUME StateInv, IncludeInv, [Next]_vars PROVE IncludeInv'
  OBVIOUS
<1>1. CASE Record
  <2> DEFINE r == Head(pkt.recs)
             rec == Granted(r.ga, RecOf(r))
  <2>1. /\ r \in Records
        /\ \/ Fail \/ \E why \in {"unauth", "discard"} : Refuse(why)
           \/ \E c \in pkt.ca : Apply(r.ga, c, rec)
    BY <1>1, RecordCases
  <2> HIDE DEF r
  <2>2. r.ga \in Groups /\ RecOf(r) \in Rec
    BY <2>1, RecOfFacts
  <2>3. /\ rec \in Rec
        /\ My.subscribed /\ AnySource \notin WList(r.ga) => rec.fmode # "EX"
    BY <2>2, GrantedFacts DEF StateInv, AclInv
  <2> HIDE DEF rec
  <2>4. CASE Fail
    BY <2>4 DEF Fail, IncludeInv, My, WList
  <2>5. ASSUME NEW why \in {"unauth", "discard"}, Refuse(why) PROVE IncludeInv'
    BY <2>5 DEF Refuse, IncludeInv, My, WList
  <2>6. ASSUME NEW c \in pkt.ca, Apply(r.ga, c, rec) PROVE IncludeInv'
    <3>1. UNCHANGED <<setup, acl>>
      BY <2>6 DEF Apply
    <3>2. c \in Clients
      BY DEF StateInv, PktOK
    <3>3. /\ \A h \in Groups : h # r.ga => clt_list'[h] = clt_list[h]
          /\ \E old \in Client :
              /\ old.ca = c
              /\ \/ old \in Members(clt_list[r.ga])
                 \/ old = NewClient(c) /\ \A e \in Members(clt_list[r.ga]) : e.ca # c
              /\ Members(clt_list'[r.ga]) = {e \in Members(clt_list[r.ga]) : e.ca # c} \cup
                   (IF Leaves(ClientAfter(old, rec), rec) THEN {} ELSE {ClientAfter(old, rec)})
      BY <2>2, <2>3, <2>6, <3>2, ApplyFacts
    <3>4. PICK old \in Client :
              /\ old \in Members(clt_list[r.ga]) \/ old = NewClient(c)
              /\ \A e \in Members(clt_list'[r.ga]) :
                   e \in Members(clt_list[r.ga]) \/ e = ClientAfter(old, rec)
      BY <3>3
    <3> DEFINE new == ClientAfter(old, rec)
    <3>5. new.fmode = Kept(rec.fmode, old.fmode)
      BY <2>3, ClientAfterFacts
    <3>6. NewClient(c).fmode = "IN"
      BY <3>2, NewClientFacts
    <3> HIDE DEF new
    <3>7. \A g \in Groups : WList(g)' = WList(g)
      BY <3>1 DEF WList
    <3> SUFFICES ASSUME My.subscribed, My.entries = {}, NEW g \in Groups, AnySource \notin WList(g),
                        NEW e \in Members(clt_list'[g])
                 PROVE  e.fmode = "IN"
      BY <3>1, <3>7 DEF IncludeInv, My
    <3>8. CASE g # r.ga
      BY <3>3, <3>8 DEF IncludeInv
    <3>9. CASE g = r.ga
      <4>1. old.fmode = "IN"
        BY <3>4, <3>6, <3>9 DEF IncludeInv
      <4>2. rec.fmode \in {"IN", "NA"}
        BY <2>3, <3>9 DEF Rec, Modes
      <4>3. new.fmode = "IN"
        BY <3>5, <4>1, <4>2 DEF Kept
      <4> QED BY <3>4, <3>9, <4>3 DEF IncludeInv, new
    <3> QED BY <3>8, <3>9
  <2> QED BY <2>1, <2>4, <2>5, <2>6
<1>2. CASE PacketEnd
  BY <1>2 DEF PacketEnd, IncludeInv, My, WList
<1>3. CASE AclSet
  <2>1. My.entries # {}
    BY <1>3 DEF AclSet
  <2> QED BY <1>3, <2>1 DEF AclSet, IncludeInv, My
<1>4. ASSUME NEW g \in Groups, Age(g) PROVE IncludeInv'
  <2>1. /\ clt_list'[g] = << >> /\ \A h \in Groups : h # g => clt_list'[h] = clt_list[h]
        /\ UNCHANGED <<setup, acl>>
    BY <1>4 DEF Age, StateInv, GroupsInv
  <2>2. \A h \in Groups : \A e \in Members(clt_list'[h]) : e \in Members(clt_list[h])
    BY <2>1, EmptyGroup
  <2> QED BY <2>1, <2>2 DEF IncludeInv, My, WList
<1>5. ASSUME NEW c \in Clients, NEW p \in My.reports, Receive(c, p) PROVE IncludeInv'
  BY <1>5 DEF Receive, IncludeInv, My, WList
<1>6. CASE UNCHANGED vars
  BY <1>6 DEF vars, IncludeInv, My, WList
<1> QED BY <1>1, <1>2, <1>3, <1>4, <1>5, <1>6 DEF Next

\* What a record may add to the filter of a client: the sources it names, if it does not
\* exclude and if it does not turn an excluding filter with a source mode around.
LEMMA AddedByRecord ==
  ASSUME NEW old \in Client, NEW rec \in Rec, NEW w, rec.fmode # "EX", rec.srcs \subseteq w,
         rec.smode = "NA" => old.smode = "NA" \/ old.fmode = "IN",
         NEW x \in Sources
  PROVE  LET new == ClientAfter(old, rec)
         IN  \/ new.fmode = "IN" /\ x \notin new.srcs
             \/ new.fmode = "EX" /\ x \in new.srcs
             \/ x \in w
             \/ old.fmode = "IN" /\ x \in old.srcs
             \/ old.fmode = "EX" /\ x \notin old.srcs
<1> DEFINE new == ClientAfter(old, rec)
<1>1. /\ new.fmode = Kept(rec.fmode, old.fmode)
      /\ new.srcs = IF new.fmode = "IN" THEN RawSrcs(old, rec) \ {AnySource} ELSE RawSrcs(old, rec)
  BY ClientAfterFacts
<1> HIDE DEF new
<1>2. /\ old.fmode \in {"IN", "EX"} /\ old.smode \in SMode
      /\ \/ rec.fmode = "IN" /\ rec.smode = "NA"
         \/ rec.fmode = "NA" /\ rec.smode \in {"ALLOW", "BLOCK"}
  BY DEF Client, Rec, Modes, SMode
<1>3. x # AnySource
  BY MccAssumption
<1>4. CASE rec.fmode = "IN" /\ rec.smode = "NA"
  <2>1. new.fmode = "IN"
    BY <1>1, <1>4 DEF Kept
  <2>2. x \in new.srcs => x \in rec.srcs \/ (old.fmode = "IN" /\ x \in old.srcs)
    <3>0. old.smode = "NA" \/ old.fmode = "IN"
      BY <1>4
    <3>1. CASE old.smode = "NA"
      <4>1. RawSrcs(old, rec) = rec.srcs
        BY <1>4, <3>1 DEF RawSrcs, Kept, Adds
      <4> QED BY <1>1, <4>1
    <3>2. CASE old.fmode = "IN"
      <4>1. RawSrcs(old, rec) \subseteq old.srcs \cup rec.srcs
        BY DEF RawSrcs
      <4> QED BY <1>1, <3>2, <4>1
    <3> QED BY <3>0, <3>1, <3>2
  <2> QED BY <2>1, <2>2 DEF new
<1>5. CASE rec.fmode = "NA" /\ rec.smode \in {"ALLOW", "BLOCK"}
  <2>1. new.fmode = old.fmode /\ Kept(rec.fmode, old.fmode) = old.fmode
    BY <1>1, <1>5 DEF Kept
  <2>2. Kept(rec.smode, old.smode) = rec.smode /\ rec.smode # "NA"
    BY <1>5 DEF Kept
  <2>3. RawSrcs(old, rec) = IF Adds(old.fmode, rec.smode) THEN old.srcs \cup rec.srcs
                            ELSE old.srcs \ rec.srcs
    BY <2>1, <2>2 DEF RawSrcs
  <2>4. CASE old.fmode = "IN"
    <3>1. x \in new.srcs => x \in old.srcs \cup rec.srcs
      BY <1>1, <2>1, <2>3, <2>4
    <3> QED BY <2>1, <2>4, <3>1 DEF new
  <2>5. CASE old.fmode = "EX"
    <3>1. new.srcs = RawSrcs(old, rec)
      BY <1>1, <2>1, <2>5
    <3>2. x \notin new.srcs => x \notin old.srcs \/ x \in rec.srcs
      BY <2>3, <3>1
    <3> QED BY <2>1, <2>5, <3>2 DEF new
  <2> QED BY <1>2, <2>4, <2>5
<1> QED BY <1>2, <1>4, <1>5

LEMMA AdmittedOf ==
  ASSUME NEW f \in Modes, NEW s, NEW x
  PROVE  x \in Admitted([fmode |-> f, srcs |-> s]) <=>
           \/ f = "IN" /\ x \in s
           \/ f = "EX" /\ x \in Sources /\ x \notin s
BY DEF Admitted, Modes

LEMMA AuthorisedStep ==
  ASSUME StateInv, StateInv', [Next]_vars
  PROVE  [\A g \in Groups, c \in Clients :
            \/ TurnsAround(g, c)
            \/ Admitted(FilterOf(g, c)') \ Admitted(FilterOf(g, c))
                 \subseteq IF AnySource \in WList(g) THEN Sources ELSE WList(g)]_vars
<1> SUFFICES ASSUME Next, NEW g \in Groups, NEW c \in Clients, ~TurnsAround(g, c),
                    NEW x \in Admitted(FilterIn(clt_list'[g], c)), x \notin Admitted(FilterIn(clt_list[g], c))
             PROVE  x \in IF AnySource \in WList(g) THEN Sources ELSE WList(g)
  BY FilterOfIn
<1>1. /\ clt_list[g] \in Seq(Client) /\ OneEach(clt_list[g]) /\ Including(clt_list[g])
      /\ clt_list'[g] \in Seq(Client) /\ OneEach(clt_list'[g]) /\ Including(clt_list'[g])
  BY DEF StateInv, GroupsInv
<1>2. x \in Sources
  BY <1>1, AdmitsSources
<1> SUFFICES ASSUME AnySource \notin WList(g) PROVE x \in WList(g)
  BY <1>2
<1>3. clt_list'[g] # clt_list[g]
  OBVIOUS
<1>4. clt_list'[g] # << >>
  <2> SUFFICES ASSUME clt_list'[g] = << >> PROVE FALSE
    OBVIOUS
  <2>1. FilterIn(clt_list'[g], c) = Nothing
    BY <1>1, EmptyGroup, FilterMember
  <2> QED BY <2>1 DEF Nothing, Admitted
<1> DEFINE r == Head(pkt.recs)
           rec == Granted(r.ga, RecOf(r))
<1>5. Record /\ r \in Records /\ pkt.recs # << >> /\ \E d \in pkt.ca : Apply(r.ga, d, rec)
  <2>1. CASE Record
    BY <1>3, <2>1, RecordCases DEF Fail, Refuse
  <2>2. ASSUME NEW h \in Groups, Age(h) PROVE FALSE
    <3>1. clt_list'[h] = << >> /\ \A k \in Groups : k # h => clt_list'[k] = clt_list[k]
      BY <2>2 DEF Age, StateInv, GroupsInv
    <3> QED BY <1>3, <1>4, <3>1
  <2> QED BY <1>3, <2>1, <2>2 DEF Next, PacketEnd, AclSet, Receive
<1> HIDE DEF r
<1>6. r.ga \in Groups /\ RecOf(r) \in Rec
  BY <1>5, RecOfFacts
<1>7. setup \in DOMAIN Setups /\ acl \subseteq Entries /\ (My.entries = {} => acl = My.acl)
  BY DEF StateInv, AclInv
<1>8. My.subscribed
  <2>1. acl # {}
    BY DEF WList
  <2> QED BY <1>7, <2>1, MccAssumption DEF My
<1>9. /\ rec \in Rec /\ rec.smode = RecOf(r).smode
      /\ r.ga = g => rec.fmode # "EX" /\ rec.srcs \subseteq WList(g)
  BY <1>6, <1>7, <1>8, GrantedFacts
<1> HIDE DEF rec
<1>10. PICK d \in pkt.ca : Apply(r.ga, d, rec)
  BY <1>5
<1>11. d \in Clients
  BY DEF StateInv, PktOK
<1>12. /\ \A h \in Groups : h # r.ga => clt_list'[h] = clt_list[h]
       /\ \E old \in Client :
           /\ old.ca = d
           /\ \/ old \in Members(clt_list[r.ga])
              \/ old = NewClient(d) /\ \A e \in Members(clt_list[r.ga]) : e.ca # d
           /\ Members(clt_list'[r.ga]) = {e \in Members(clt_list[r.ga]) : e.ca # d} \cup
                (IF Leaves(ClientAfter(old, rec), rec) THEN {} ELSE {ClientAfter(old, rec)})
  BY <1>6, <1>9, <1>10, <1>11, ApplyFacts
<1>13. g = r.ga
  BY <1>3, <1>12
<1>14. PICK old \in Client :
           /\ old.ca = d
           /\ \/ old \in Members(clt_list[g])
              \/ old = NewClient(d) /\ \A e \in Members(clt_list[g]) : e.ca # d
           /\ Members(clt_list'[g]) = {e \in Members(clt_list[g]) : e.ca # d} \cup
                (IF Leaves(ClientAfter(old, rec), rec) THEN {} ELSE {ClientAfter(old, rec)})
  BY <1>12, <1>13
<1> DEFINE new == ClientAfter(old, rec)
<1>15. new \in Client /\ new.ca = d
  BY <1>9, <1>14, ClientAfterFacts
<1>16. c = d
  <2> SUFFICES ASSUME c # d PROVE FALSE
    OBVIOUS
  <2> HIDE DEF new
  <2>2. OthersSame(clt_list[g], clt_list'[g], d)
    BY <1>14, <1>15 DEF new, OthersSame
  <2>3. FilterIn(clt_list'[g], c) = FilterIn(clt_list[g], c)
    BY <1>1, <2>2, OthersKeep
  <2> QED BY <2>3
<1>17. new \in Members(clt_list'[g])
  <2> SUFFICES ASSUME new \notin Members(clt_list'[g]) PROVE FALSE
    OBVIOUS
  <2>1. \A e \in Members(clt_list'[g]) : e.ca # c
    BY <1>14, <1>16
  <2>2. FilterIn(clt_list'[g], c) = Nothing
    BY <1>1, <2>1, FilterMember
  <2> QED BY <2>2 DEF Nothing, Admitted
<1>18. FilterIn(clt_list'[g], c) = [fmode |-> new.fmode, srcs |-> new.srcs]
  <2> HIDE DEF new
  <2> QED BY <1>1, <1>15, <1>16, <1>17, FilterMember
<1>19. FilterIn(clt_list[g], c) = [fmode |-> old.fmode, srcs |-> old.srcs]
  <2>1. CASE old \in Members(clt_list[g])
    BY <1>1, <1>14, <1>16, <2>1, FilterMember
  <2>2. CASE old = NewClient(d) /\ \A e \in Members(clt_list[g]) : e.ca # d
    <3>1. FilterIn(clt_list[g], c) = Nothing
      BY <1>1, <1>16, <2>2, FilterMember
    <3> QED BY <1>11, <2>2, <3>1, NewClientFacts DEF Nothing
  <2> QED BY <1>14, <2>1, <2>2
<1>20. rec.smode = "NA" => old.smode = "NA" \/ old.fmode = "IN"
  <2>1. NewClient(d).fmode = "IN"
    BY <1>11, NewClientFacts
  <2>2. rec.smode = "NA" => r.type \in Modes
    BY <1>5, <1>9, TypeFacts DEF Records
  <2>3. old \in Members(clt_list[g]) => \E i \in DOMAIN clt_list[g] : clt_list[g][i] = old
    BY DEF Members
  <2>4. old.fmode \in {"IN", "EX"}
    BY DEF Client, Modes
  <2> QED BY <1>5, <1>13, <1>14, <1>16, <2>1, <2>2, <2>3, <2>4 DEF TurnsAround, r
<1>21. old.fmode \in Modes /\ new.fmode \in Modes
  <2> HIDE DEF new
  <2> QED BY <1>15 DEF Client
<1>22. \/ new.fmode = "IN" /\ x \notin new.srcs
       \/ new.fmode = "EX" /\ x \in new.srcs
       \/ x \in WList(g)
       \/ old.fmode = "IN" /\ x \in old.srcs
       \/ old.fmode = "EX" /\ x \notin old.srcs
  BY <1>2, <1>9, <1>13, <1>20, AddedByRecord
<1> HIDE DEF new
<1>23. \/ new.fmode = "IN" /\ x \in new.srcs
       \/ new.fmode = "EX" /\ x \notin new.srcs
  BY <1>18, <1>21, AdmittedOf
<1>24. ~(\/ old.fmode = "IN" /\ x \in old.srcs
         \/ old.fmode = "EX" /\ x \notin old.srcs)
  BY <1>2, <1>19, <1>21, AdmittedOf
<1> QED BY <1>22, <1>23, <1>24

\* Whatever the list was when a client joined and however it has changed its filter since,
\* mcc_rec_wlist_apply lets no record give it a source that the list does not allow now,
\* unless the record replaces an excluding filter that the client has changed: the filter
\* is turned around with the sources that it kept, and only then.
THEOREM OnlyAuthorised == Spec => NothingUnauthorised
<1>1. StateInv /\ StateInv' /\ [Next]_vars =>
        [\A g \in Groups, c \in Clients :
            \/ TurnsAround(g, c)
            \/ Admitted(FilterOf(g, c)') \ Admitted(FilterOf(g, c))
                 \subseteq IF AnySource \in WList(g) THEN Sources ELSE WList(g)]_vars
  BY AuthorisedStep
<1> QED BY <1>1, StateAlways, PTL DEF Spec, NothingUnauthorised

-----------------------------------------------------------------------------
(* The limit of streams.                                                   *)

StreamSet(l) == {gs \in Groups \X (Sources \cup {AnySource}) : gs[2] \in Links(l[gs[1]])}

\* Where nobody excludes, the links of a group are what its clients include.
LEMMA IncludedLinks ==
  ASSUME NEW clts \in Seq(Client), \A e \in Members(clts) : e.fmode = "IN"
  PROVE  \A x : x \in Links(clts) <=> \E e \in Members(clts) : x \in e.srcs
<1>1. Fmode(clts) = "IN"
  <2>1. CASE clts = << >>
    BY <2>1 DEF Fmode
  <2>2. CASE clts # << >>
    <3>1. Len(clts) \in DOMAIN clts
      BY <2>2
    <3>2. clts[Len(clts)] \in Members(clts)
      BY <3>1 DEF Members
    <3> QED BY <2>2, <3>2 DEF Fmode, Last
  <2> QED BY <2>1, <2>2
<1>2. Links(clts) = AllSources(clts)
  BY <1>1 DEF Links
<1> QED BY <1>2 DEF AllSources, Members

LEMMA StreamsFinite ==
  ASSUME NEW l
  PROVE  IsFiniteSet(StreamSet(l)) /\ Cardinality(StreamSet(l)) \in Nat
<1>1. IsFiniteSet(Groups) /\ IsFiniteSet(Sources \cup {AnySource})
  BY MccAssumption, FS_AddElement
<1>2. IsFiniteSet(Groups \X (Sources \cup {AnySource}))
  BY <1>1, FS_Product
<1>3. StreamSet(l) \in SUBSET (Groups \X (Sources \cup {AnySource}))
  BY DEF StreamSet
<1>4. IsFiniteSet(StreamSet(l))
  BY <1>2, <1>3, FS_Subset
<1> QED BY <1>4, FS_CardinalityType

\* n more sources of one group are at most n more streams.
LEMMA StreamsAdded ==
  ASSUME NEW l, NEW m, NEW g, NEW S \in Srcs, StreamSet(m) \subseteq StreamSet(l) \cup ({g} \X S)
  PROVE  /\ IsFiniteSet(S) /\ Cardinality(S) \in Nat
         /\ Cardinality(StreamSet(m)) <= Cardinality(StreamSet(l)) + Cardinality(S)
<1>1. IsFiniteSet(Sources \cup {AnySource})
  BY MccAssumption, FS_AddElement
<1>2. IsFiniteSet(S) /\ Cardinality(S) \in Nat
  BY <1>1, FS_Subset, FS_CardinalityType DEF Srcs
<1> DEFINE P == {g} \X S
           A == StreamSet(l)
           B == StreamSet(m)
<1>3. IsFiniteSet({g}) /\ Cardinality({g}) = 1
  BY FS_Singleton
<1>4. IsFiniteSet(P) /\ Cardinality(P) = Cardinality({g}) * Cardinality(S)
  BY <1>2, <1>3, FS_Product
<1>5. Cardinality(P) = Cardinality(S)
  BY <1>2, <1>3, <1>4
<1>6. IsFiniteSet(A) /\ Cardinality(A) \in Nat /\ Cardinality(B) \in Nat
  BY StreamsFinite
<1> HIDE DEF P, A, B
<1>7. /\ IsFiniteSet(A \cup P)
      /\ Cardinality(A \cup P) = Cardinality(A) + Cardinality(P) - Cardinality(A \cap P)
  BY <1>4, <1>6, FS_Union
<1>8. Cardinality(A \cap P) \in Nat /\ Cardinality(A \cup P) \in Nat
  <2>1. IsFiniteSet(A \cap P)
    BY <1>6, FS_Intersection
  <2> QED BY <2>1, <1>7, FS_CardinalityType
<1>9. B \in SUBSET (A \cup P)
  BY DEF A, B, P
<1>10. Cardinality(B) <= Cardinality(A \cup P)
  BY <1>7, <1>9, FS_Subset
<1>11. Cardinality(B) <= Cardinality(A) + Cardinality(S)
  BY <1>2, <1>5, <1>6, <1>7, <1>8, <1>10
<1> QED BY <1>2, <1>11 DEF A, B

\* Clients change only when the checks let a record pass.
LEMMA OnlyApplied ==
  ASSUME StateInv, Record, clt_list' # clt_list
  PROVE  LET r == Head(pkt.recs)
         IN /\ r \in Records /\ Verdict(r.ga, RecOf(r)) = "apply"
            /\ \E c \in pkt.ca : Apply(r.ga, c, Granted(r.ga, RecOf(r)))
<1> DEFINE r == Head(pkt.recs)
           v == Verdict(r.ga, RecOf(r))
<1>1. r \in Records
  BY RecordCases
<1>2. IF Malformed(r) \/ (v = "apply" /\ r.ga \notin My.carried) THEN Fail
      ELSE IF v # "apply" THEN Refuse(v)
      ELSE \E c \in pkt.ca : Apply(r.ga, c, Granted(r.ga, RecOf(r)))
  BY DEF Record
<1>3. ~Fail /\ ~Refuse(v)
  BY DEF Fail, Refuse
<1> HIDE DEF r, v
<1>4. v = "apply" /\ \E c \in pkt.ca : Apply(r.ga, c, Granted(r.ga, RecOf(r)))
  BY <1>2, <1>3
<1> QED BY <1>1, <1>4 DEF r, v

\* A record that is applied adds streams only for the sources it was counted with.
LEMMA CapacityApply ==
  ASSUME StateInv, StateInv', IncludeInv, IncludeInv', CapacityKept,
         My.subscribed, NamesSources, My.max # 0, NEW r \in Records, NEW c \in pkt.ca,
         Verdict(r.ga, RecOf(r)) = "apply", Apply(r.ga, c, Granted(r.ga, RecOf(r)))
  PROVE  Cardinality(StreamSet(clt_list')) <= My.max
<1> DEFINE g == r.ga
           rec == RecOf(r)
           w == WList(g)
           a == Granted(g, rec)
<1>1. g \in Groups /\ rec \in Rec /\ c \in Clients
  BY RecOfFacts DEF StateInv, PktOK
<1>2. UNCHANGED <<setup, acl>> /\ Apply(g, c, a)
  BY DEF Apply
<1>3. \A h \in Groups : AnySource \notin WList(h) /\ AnySource \notin WList(h)'
  BY <1>2 DEF NamesSources, WList
<1>4. /\ \A h \in Groups : \A e \in Members(clt_list[h]) : e.fmode = "IN"
      /\ \A h \in Groups : \A e \in Members(clt_list'[h]) : e.fmode = "IN"
  BY <1>2, <1>3 DEF IncludeInv, NamesSources, My
<1>5. \A h \in Groups : clt_list[h] \in Seq(Client) /\ clt_list'[h] \in Seq(Client)
  BY DEF StateInv, GroupsInv
<1>6. /\ \A h \in Groups : \A x : x \in Links(clt_list[h]) <=> \E e \in Members(clt_list[h]) : x \in e.srcs
      /\ \A h \in Groups : \A x : x \in Links(clt_list'[h]) <=> \E e \in Members(clt_list'[h]) : x \in e.srcs
  BY <1>4, <1>5, IncludedLinks
<1>7. a \in Rec /\ a.smode = rec.smode /\ a.srcs \in Srcs /\ a.fmode \in {rec.fmode, "IN"}
  <2>1. a \in Rec /\ a.smode = rec.smode /\ a.fmode \in {rec.fmode, "IN"}
    BY <1>1, GrantedFacts DEF StateInv, AclInv
  <2> QED BY <2>1 DEF Rec
<1> HIDE DEF rec, g, a
<1>8. /\ \A h \in Groups : h # g => clt_list'[h] = clt_list[h]
      /\ \E old \in Client :
           /\ old \in Members(clt_list[g]) \/ old = NewClient(c)
           /\ \A e \in Members(clt_list'[g]) :
                e \in Members(clt_list[g]) \/ e = ClientAfter(old, a)
  BY <1>1, <1>2, <1>7, ApplyFacts
<1>9. PICK old \in Client :
           /\ old \in Members(clt_list[g]) \/ old = NewClient(c)
           /\ \A e \in Members(clt_list'[g]) :
                e \in Members(clt_list[g]) \/ e = ClientAfter(old, a)
  BY <1>8
<1> DEFINE new == ClientAfter(old, a)
<1>10. old.fmode = "IN" /\ \A x \in old.srcs : \E e \in Members(clt_list[g]) : x \in e.srcs
  BY <1>1, <1>4, <1>9, NewClientFacts
<1>11. new.srcs \subseteq RawSrcs(old, a)
  BY <1>7, ClientAfterFacts
<1> HIDE DEF new
<1>12. RawSrcs(old, a) \subseteq old.srcs \cup a.srcs
  BY DEF RawSrcs
<1>13. rec.smode = "BLOCK" => RawSrcs(old, a) \subseteq old.srcs
  <2> SUFFICES ASSUME rec.smode = "BLOCK" PROVE RawSrcs(old, a) \subseteq old.srcs
    OBVIOUS
  <2>1. a.smode = "BLOCK" /\ a.fmode = "NA"
    BY <1>7 DEF Rec
  <2> QED BY <1>10, <2>1 DEF RawSrcs, Kept, Adds
<1>14. ASSUME NEW S, new.srcs \subseteq old.srcs \cup S
       PROVE  StreamSet(clt_list') \subseteq StreamSet(clt_list) \cup ({g} \X S)
  <2> SUFFICES ASSUME NEW h \in Groups, NEW x \in Sources \cup {AnySource}, x \in Links(clt_list'[h]),
                      ~(h = g /\ x \in S)
               PROVE  x \in Links(clt_list[h])
    BY DEF StreamSet
  <2>1. CASE h # g
    BY <1>8, <2>1
  <2>2. CASE h = g
    <3>1. PICK e \in Members(clt_list'[g]) : x \in e.srcs
      BY <1>1, <1>6, <2>2
    <3>2. \E d \in Members(clt_list[g]) : x \in d.srcs
      BY <1>9, <1>10, <1>14, <2>2, <3>1 DEF new
    <3> QED BY <1>1, <1>6, <2>2, <3>2
  <2> QED BY <2>1, <2>2
<1>15. Streams = Cardinality(StreamSet(clt_list)) /\ Streams <= My.max
  BY DEF Streams, StreamSet, CapacityKept
<1>16. Streams \in Nat /\ Cardinality(StreamSet(clt_list')) \in Nat /\ My.max \in Nat
  BY <1>15, StreamsFinite, MccAssumption DEF StateInv, AclInv, My
<1>17. CASE new.srcs \subseteq old.srcs
  <2>1. StreamSet(clt_list') \subseteq StreamSet(clt_list) \cup ({g} \X {})
    BY <1>14, <1>17
  <2>2. {} \in Srcs
    BY DEF Srcs
  <2>3. Cardinality(StreamSet(clt_list')) <= Cardinality(StreamSet(clt_list)) + Cardinality({})
    BY <2>1, <2>2, StreamsAdded
  <2> QED BY <1>15, <1>16, <2>3, FS_EmptySet
<1>18. CASE ~(new.srcs \subseteq old.srcs)
  <2>1. rec.smode # "BLOCK" /\ a.srcs # {}
    BY <1>11, <1>12, <1>13, <1>18
  <2>2. ~(rec.fmode = "IN" /\ rec.srcs = {})
    <3> SUFFICES ASSUME rec.fmode = "IN", rec.srcs = {} PROVE FALSE
      OBVIOUS
    <3>1. a = rec
      BY DEF a, Granted
    <3> QED BY <2>1, <3>1
  <2>3. RecRestrict(g, rec) = "apply" /\ a = Allowed(w, rec)
    BY <2>2 DEF Verdict, Granted, g, rec, a
  <2>4. Fmode(clt_list[g]) = "IN"
    <3>1. CASE clt_list[g] = << >>
      BY <3>1 DEF Fmode
    <3>2. CASE clt_list[g] # << >>
      <4>1. Len(clt_list[g]) \in DOMAIN clt_list[g]
        BY <1>1, <1>5, <3>2
      <4>2. clt_list[g][Len(clt_list[g])] \in Members(clt_list[g])
        BY <4>1 DEF Members
      <4> QED BY <1>1, <1>4, <3>2, <4>2 DEF Fmode, Last
    <3> QED BY <3>1, <3>2
  <2>5. rec.smode \in {"NA", "ALLOW"}
    BY <1>1, <2>1 DEF Rec, SMode
  <2>6. ~OverLimit(Increment(g, w, a))
    BY <2>3, <2>4, <2>5 DEF RecRestrict, Adds
  <2>7. Increment(g, w, a) = Cardinality(a.srcs)
    BY <1>1, <1>3 DEF Increment
  <2>8. StreamSet(clt_list') \subseteq StreamSet(clt_list) \cup ({g} \X a.srcs)
    BY <1>11, <1>12, <1>14
  <2>9. /\ IsFiniteSet(a.srcs) /\ Cardinality(a.srcs) \in Nat
        /\ Cardinality(StreamSet(clt_list')) <= Cardinality(StreamSet(clt_list)) + Cardinality(a.srcs)
    BY <1>7, <2>8, StreamsAdded
  <2>10. Cardinality(a.srcs) > 0
    BY <2>1, <2>9, FS_EmptySet
  <2>11. Streams + Cardinality(a.srcs) <= My.max
    BY <1>16, <2>6, <2>7, <2>9, <2>10 DEF OverLimit
  <2> QED BY <1>15, <1>16, <2>9, <2>11
<1> QED BY <1>17, <1>18

LEMMA CapacityStep ==
  ASSUME StateInv, StateInv', IncludeInv, IncludeInv', CapacityKept, [Next]_vars
  PROVE  CapacityKept'
<1>1. setup' = setup /\ (acl' = acl \/ My.entries # {})
  <2>1. CASE Record
    BY <2>1, RecordCases DEF Fail, Refuse, Apply
  <2> QED BY <2>1 DEF Next, PacketEnd, AclSet, Age, Receive, vars
<1> SUFFICES ASSUME My.subscribed, NamesSources, My.max # 0, acl' = acl
             PROVE  Cardinality(StreamSet(clt_list')) <= My.max
  <2>1. Streams' = Cardinality(StreamSet(clt_list'))
    BY DEF Streams, StreamSet
  <2> QED BY <1>1, <2>1 DEF CapacityKept, NamesSources, My
<1>2. Streams = Cardinality(StreamSet(clt_list)) /\ Streams <= My.max
  BY DEF Streams, StreamSet, CapacityKept
<1>3. CASE clt_list' = clt_list
  BY <1>2, <1>3
<1>4. CASE Record /\ clt_list' # clt_list
  BY <1>4, OnlyApplied, CapacityApply
<1>5. ASSUME NEW g \in Groups, Age(g) PROVE Cardinality(StreamSet(clt_list')) <= My.max
  <2>1. clt_list'[g] = << >> /\ \A h \in Groups : h # g => clt_list'[h] = clt_list[h]
    BY <1>5 DEF Age, StateInv, GroupsInv
  <2>2. Links(<< >>) = {}
    BY DEF Links, Fmode, AllSources
  <2>3. StreamSet(clt_list') \in SUBSET StreamSet(clt_list)
    BY <2>1, <2>2 DEF StreamSet
  <2>4. Cardinality(StreamSet(clt_list')) <= Cardinality(StreamSet(clt_list))
    BY <2>3, StreamsFinite, FS_Subset
  <2>5. Cardinality(StreamSet(clt_list')) \in Nat /\ Cardinality(StreamSet(clt_list)) \in Nat /\ My.max \in Nat
    BY StreamsFinite, MccAssumption DEF StateInv, AclInv, My
  <2> QED BY <1>2, <2>4, <2>5
<1> QED BY <1>3, <1>4, <1>5 DEF Next, PacketEnd, AclSet, Receive, vars

\* However clients come, change their minds and go, mcc_rec_restrict keeps the streams of
\* the port within Max simultaneous groups where the access control list names sources,
\* although it compares the limit before the client is changed and takes a source that is
\* already there for a new one.
THEOREM LimitIsKept == Spec => []CapacityKept
<1>1. Init => CapacityKept
  <2> SUFFICES ASSUME Init, My.max # 0 PROVE Streams <= My.max
    BY DEF CapacityKept
  <2>1. \A g \in Groups : clt_list[g] = << >>
    BY DEF Init
  <2>2. Links(<< >>) = {}
    BY DEF Links, Fmode, AllSources
  <2>3. StreamSet(clt_list) = {}
    BY <2>1, <2>2 DEF StreamSet
  <2>4. Streams = 0
    BY <2>3, FS_EmptySet DEF Streams, StreamSet
  <2> QED BY <2>4, MccAssumption DEF Init, My
<1>2. StateInv /\ StateInv' /\ IncludeInv /\ IncludeInv' /\ CapacityKept /\ [Next]_vars => CapacityKept'
  BY CapacityStep
<1> QED BY <1>1, <1>2, StateAlways, ModesInit, ModesNext, PTL DEF Spec

-----------------------------------------------------------------------------
(* Clients and hosts.                                                      *)

Filter == [fmode : Modes, srcs : SUBSET Sources]
Host == [want : Filter, changed : BOOLEAN, mixed : BOOLEAN]

\* A client has the filter its host wants, and no source mode before the host changes it.
HostOK(clts, c, h) ==
  ~h.mixed =>
    /\ FilterIn(clts, c).fmode = h.want.fmode
    /\ FilterIn(clts, c).srcs \ {AnySource} = h.want.srcs
    /\ ~h.changed => \A e \in Members(clts) : e.ca = c => e.smode = "NA"

HostsInv ==
  /\ hosts \in [Groups -> [Clients -> Host]]
  /\ ~My.subscribed => \A g \in Groups, c \in Clients : HostOK(clt_list[g], c, hosts[g][c])

LEMMA NewHostFacts ==
  /\ NewHost \in Host /\ NewHost.want = Nothing /\ ~NewHost.changed /\ ~NewHost.mixed
  /\ Nothing \in Filter /\ Nothing.fmode = "IN" /\ Nothing.srcs = {}
BY DEF NewHost, Host, Nothing, Filter, Modes

LEMMA WantFacts ==
  ASSUME NEW f \in Filter, NEW r \in Records
  PROVE  LET w == WantAfter(f, r)
         IN /\ w \in Filter
            /\ r.type \in Modes => w.fmode = r.type /\ w.srcs = r.srcs
            /\ r.type \notin Modes =>
                 /\ w.fmode = f.fmode
                 /\ w.srcs = IF Adds(f.fmode, r.type) THEN f.srcs \cup r.srcs ELSE f.srcs \ r.srcs
<1>1. f.fmode \in Modes /\ f.srcs \subseteq Sources /\ r.srcs \subseteq Sources
  BY DEF Filter, Records
<1>2. CASE r.type \in Modes
  BY <1>1, <1>2 DEF WantAfter, Filter
<1>3. CASE r.type \notin Modes
  <2> DEFINE s == IF Adds(f.fmode, r.type) THEN f.srcs \cup r.srcs ELSE f.srcs \ r.srcs
  <2>1. s \in SUBSET Sources
    BY <1>1
  <2>2. WantAfter(f, r) = [f EXCEPT !.srcs = s]
    BY <1>3 DEF WantAfter
  <2> HIDE DEF s
  <2>3. PICK w : w = [f EXCEPT !.srcs = s]
    OBVIOUS
  <2>4. w \in Filter /\ w.fmode = f.fmode /\ w.srcs = s
    BY <2>1, <2>3 DEF Filter
  <2> QED BY <1>3, <2>2, <2>3, <2>4 DEF s
<1> QED BY <1>2, <1>3

\* A host after a record: it is new, it is no longer looked at, or it wants the next filter.
LEMMA HostAfterFacts ==
  ASSUME NEW h \in Host, NEW r \in Records
  PROVE  LET n == HostAfter(h, r)
             w == WantAfter(h.want, r)
         IN /\ n \in Host
            /\ \/ w = Nothing /\ (r.type = "IN" \/ ~h.mixed) /\ n = NewHost
               \/ n.mixed
               \/ /\ w # Nothing /\ ~h.mixed /\ ~(h.changed /\ r.type \in Modes)
                  /\ n.want = w /\ (n.changed <=> h.changed \/ r.type \notin Modes)
<1> DEFINE w == WantAfter(h.want, r)
           b == h.changed \/ r.type \notin Modes
<1>1. w \in Filter /\ b \in BOOLEAN /\ h.want \in Filter
  <2>1. h.want \in Filter /\ h.changed \in BOOLEAN
    BY DEF Host
  <2> QED BY <2>1, WantFacts
<1>2. HostAfter(h, r) = IF w = Nothing /\ (r.type = "IN" \/ ~h.mixed) THEN NewHost
     ELSE IF h.mixed \/ (h.changed /\ r.type \in Modes) THEN [NewHost EXCEPT !.mixed = TRUE]
     ELSE [NewHost EXCEPT !.want = w, !.changed = b]
  BY DEF HostAfter
<1> HIDE DEF w
<1>3. PICK m : m = [NewHost EXCEPT !.mixed = TRUE]
  OBVIOUS
<1>4. m \in Host /\ m.mixed
  BY <1>3, NewHostFacts DEF Host
<1>5. PICK k : k = [NewHost EXCEPT !.want = w, !.changed = b]
  OBVIOUS
<1>6. k \in Host /\ k.want = w /\ (k.changed <=> b)
  <2> HIDE DEF b
  <2> QED BY <1>1, <1>5, NewHostFacts DEF Host
<1>7. CASE w = Nothing /\ (r.type = "IN" \/ ~h.mixed)
  BY <1>2, <1>7, NewHostFacts DEF w
<1>8. CASE /\ ~(w = Nothing /\ (r.type = "IN" \/ ~h.mixed))
           /\ h.mixed \/ (h.changed /\ r.type \in Modes)
  BY <1>2, <1>3, <1>4, <1>8
<1>9. CASE /\ ~(w = Nothing /\ (r.type = "IN" \/ ~h.mixed))
           /\ ~(h.mixed \/ (h.changed /\ r.type \in Modes))
  <2>1. HostAfter(h, r) = k
    BY <1>2, <1>5, <1>9
  <2>2. w # Nothing /\ ~h.mixed /\ ~(h.changed /\ r.type \in Modes)
    BY <1>9
  <2> QED BY <1>6, <2>1, <2>2 DEF w
<1> QED BY <1>7, <1>8, <1>9

\* A client that is looked at and not in the group is one whose host wants nothing.
LEMMA WantsNothing ==
  ASSUME NEW clts \in Seq(Client), OneEach(clts), Including(clts), NEW c, NEW h \in Host,
         HostOK(clts, c, h), ~h.mixed
  PROVE  h.want = Nothing => \A e \in Members(clts) : e.ca # c
<1> SUFFICES ASSUME h.want = Nothing, NEW e \in Members(clts), e.ca = c PROVE FALSE
  OBVIOUS
<1>1. FilterIn(clts, c) = [fmode |-> e.fmode, srcs |-> e.srcs]
  BY FilterMember
<1>2. FilterIn(clts, c).fmode = e.fmode /\ FilterIn(clts, c).srcs = e.srcs
  BY <1>1
<1>3. e.fmode = "IN" /\ e.srcs \ {AnySource} = {}
  BY <1>2, NewHostFacts DEF HostOK
<1> QED BY <1>3 DEF Including

LEMMA GoneIsNew ==
  ASSUME NEW clts \in Seq(Client), OneEach(clts), NEW c, \A e \in Members(clts) : e.ca # c
  PROVE  HostOK(clts, c, NewHost)
<1>1. FilterIn(clts, c) = Nothing
  BY FilterMember
<1> QED BY <1>1, NewHostFacts DEF HostOK

\* A record that says nothing changes nothing.
LEMMA MalformedKeeps ==
  ASSUME NEW clts \in Seq(Client), OneEach(clts), Including(clts), NEW c, NEW h \in Host,
         HostOK(clts, c, h), NEW r \in Records, Malformed(r)
  PROVE  HostOK(clts, c, HostAfter(h, r))
<1> DEFINE n == HostAfter(h, r)
           w == WantAfter(h.want, r)
<1>1. h.want \in Filter
  BY DEF Host
<1>2. /\ \/ w = Nothing /\ (r.type = "IN" \/ ~h.mixed) /\ n = NewHost
         \/ n.mixed
         \/ /\ w # Nothing /\ ~h.mixed /\ ~(h.changed /\ r.type \in Modes)
            /\ n.want = w /\ (n.changed <=> h.changed \/ r.type \notin Modes)
  BY HostAfterFacts
<1>3. r.type \notin Modes /\ r.type # "IN" /\ r.srcs = {}
  BY DEF Malformed, Modes
<1>4. w.fmode = h.want.fmode /\ w.srcs = h.want.srcs
  <2>1. /\ w.fmode = h.want.fmode
        /\ w.srcs = IF Adds(h.want.fmode, r.type) THEN h.want.srcs \cup r.srcs ELSE h.want.srcs \ r.srcs
    BY <1>1, <1>3, WantFacts
  <2> HIDE DEF w
  <2> QED BY <1>3, <2>1
<1>5. w \in Filter
  BY <1>1, WantFacts
<1> HIDE DEF n, w
<1>6. w = h.want
  BY <1>1, <1>4, <1>5 DEF Filter
<1>7. CASE w = Nothing /\ ~h.mixed /\ n = NewHost
  <2>1. \A e \in Members(clts) : e.ca # c
    BY <1>6, <1>7, WantsNothing
  <2>2. HostOK(clts, c, NewHost)
    BY <2>1, GoneIsNew
  <2> QED BY <1>7, <2>2 DEF n
<1>8. CASE n.mixed
  BY <1>8 DEF HostOK, n
<1>9. CASE ~h.mixed /\ n.want = w /\ n.changed
  BY <1>6, <1>9 DEF HostOK, n
<1> QED BY <1>2, <1>3, <1>7, <1>8, <1>9

\* The lists of clients before and after a record of client c is applied.
Moved(clts, upd, c, rec) ==
  \E old \in Client :
    /\ old.ca = c
    /\ \/ old \in Members(clts)
       \/ old = NewClient(c) /\ \A e \in Members(clts) : e.ca # c
    /\ Members(upd) = {e \in Members(clts) : e.ca # c} \cup
         (IF Leaves(ClientAfter(old, rec), rec) THEN {} ELSE {ClientAfter(old, rec)})

\* The client of a host that sends a record gets the filter that the host wants then.
LEMMA HostFollows ==
  ASSUME NEW clts \in Seq(Client), OneEach(clts), NEW upd \in Seq(Client), OneEach(upd),
         NEW c \in Clients, NEW h \in Host, HostOK(clts, c, h),
         NEW r \in Records, ~Malformed(r), Moved(clts, upd, c, RecOf(r))
  PROVE  HostOK(upd, c, HostAfter(h, r))
<1> DEFINE n == HostAfter(h, r)
           w == WantAfter(h.want, r)
           rec == RecOf(r)
<1>1. /\ h.want \in Filter /\ w \in Filter
      /\ \/ w = Nothing /\ (r.type = "IN" \/ ~h.mixed) /\ n = NewHost
         \/ n.mixed
         \/ /\ w # Nothing /\ ~h.mixed /\ ~(h.changed /\ r.type \in Modes)
            /\ n.want = w /\ (n.changed <=> h.changed \/ r.type \notin Modes)
  <2>1. h.want \in Filter
    BY DEF Host
  <2> QED BY <2>1, HostAfterFacts, WantFacts
<1>2. /\ r.type \in Modes => w.fmode = r.type /\ w.srcs = r.srcs
      /\ r.type \notin Modes =>
           /\ w.fmode = h.want.fmode
           /\ w.srcs = IF Adds(h.want.fmode, r.type) THEN h.want.srcs \cup r.srcs
                       ELSE h.want.srcs \ r.srcs
  BY <1>1, WantFacts
<1>3. /\ rec \in Rec /\ r.srcs \subseteq Sources /\ AnySource \notin r.srcs
      /\ rec.fmode = (IF r.type \in Modes THEN r.type ELSE "NA")
      /\ rec.smode = (IF r.type \in Modes THEN "NA" ELSE r.type)
      /\ rec.srcs = (IF r.type = "EX" /\ r.srcs = {} THEN {AnySource} ELSE r.srcs)
      /\ r.type \in Modes \cup {"ALLOW", "BLOCK"}
  BY RecOfFacts, TypeFacts, MccAssumption DEF Records
<1> HIDE DEF n, w, rec
<1>4. PICK old \in Client :
        /\ old.ca = c
        /\ \/ old \in Members(clts)
           \/ old = NewClient(c) /\ \A e \in Members(clts) : e.ca # c
        /\ Members(upd) = {e \in Members(clts) : e.ca # c} \cup
             (IF Leaves(ClientAfter(old, rec), rec) THEN {} ELSE {ClientAfter(old, rec)})
  BY DEF Moved, rec
<1> DEFINE new == ClientAfter(old, rec)
           gone == Leaves(new, rec)
<1>5. /\ new.ca = c /\ new.fmode = Kept(rec.fmode, old.fmode) /\ new.smode = Kept(rec.smode, old.smode)
      /\ new.srcs = IF new.fmode = "IN" THEN RawSrcs(old, rec) \ {AnySource} ELSE RawSrcs(old, rec)
      /\ new \in Client
  BY <1>3, <1>4, ClientAfterFacts
<1>6. gone <=> \/ new.srcs = {} /\ (new.fmode = "IN" \/ new.smode = "BLOCK")
               \/ rec.srcs = {} /\ new.fmode = "IN"
  BY DEF Leaves
<1> HIDE DEF new, gone
<1>7. /\ gone => \A e \in Members(upd) : e.ca # c
      /\ ~gone => new \in Members(upd)
      /\ \A e \in Members(upd) : e.ca = c => e = new
  BY <1>4, <1>5 DEF new, gone
<1>8. ~gone => FilterIn(upd, c).fmode = new.fmode /\ FilterIn(upd, c).srcs = new.srcs
  <2> SUFFICES ASSUME ~gone PROVE FilterIn(upd, c).fmode = new.fmode /\ FilterIn(upd, c).srcs = new.srcs
    OBVIOUS
  <2>1. FilterIn(upd, c) = [fmode |-> new.fmode, srcs |-> new.srcs]
    BY <1>5, <1>7, FilterMember
  <2> QED BY <2>1
<1>9. FilterIn(clts, c).fmode = old.fmode /\ FilterIn(clts, c).srcs = old.srcs
  <2>1. CASE old \in Members(clts)
    <3>1. FilterIn(clts, c) = [fmode |-> old.fmode, srcs |-> old.srcs]
      BY <1>4, <2>1, FilterMember
    <3> QED BY <3>1
  <2>2. CASE old = NewClient(c) /\ \A e \in Members(clts) : e.ca # c
    <3>1. FilterIn(clts, c) = Nothing
      BY <2>2, FilterMember
    <3> QED BY <2>2, <3>1, NewClientFacts, NewHostFacts
  <2> QED BY <1>4, <2>1, <2>2
<1>10. ~h.mixed /\ ~h.changed => old.smode = "NA"
  BY <1>4, NewClientFacts DEF HostOK
<1>11. ~h.mixed => old.fmode = h.want.fmode /\ old.srcs \ {AnySource} = h.want.srcs
  BY <1>9 DEF HostOK
<1>12. w = Nothing <=> w.fmode = "IN" /\ w.srcs = {}
  <2>1. w = [fmode |-> w.fmode, srcs |-> w.srcs]
    BY <1>1 DEF Filter
  <2> QED BY <2>1, NewHostFacts DEF Nothing
<1>13. CASE n.mixed
  BY <1>13 DEF HostOK, n
<1>14. CASE ~n.mixed /\ r.type \in Modes
  <2>1. new.fmode = r.type /\ w.fmode = r.type /\ w.srcs = r.srcs
    BY <1>2, <1>3, <1>5, <1>14 DEF Kept, Modes
  <2>2. CASE w = Nothing
    <3>1. gone
      BY <1>3, <1>6, <1>12, <2>1, <2>2
    <3>2. HostOK(upd, c, NewHost)
      BY <1>7, <3>1, GoneIsNew
    <3> QED BY <1>1, <1>14, <2>2, <3>2 DEF n
  <2>3. CASE w # Nothing
    <3>1. ~h.mixed /\ ~h.changed /\ n.want = w
      BY <1>1, <1>14, <2>3
    <3>2. old.smode = "NA" /\ rec.smode = "NA" /\ new.smode = "NA"
      BY <1>3, <1>5, <1>10, <1>14, <3>1 DEF Kept
    <3>3. RawSrcs(old, rec) = rec.srcs
      BY <3>2 DEF RawSrcs, Kept, Adds
    <3>4. new.srcs \ {AnySource} = r.srcs /\ (new.srcs = {} => r.type = "IN" /\ r.srcs = {})
      <4>1. CASE r.type = "IN"
        BY <1>3, <1>5, <2>1, <3>3, <4>1
      <4>2. CASE r.type = "EX"
        BY <1>3, <1>5, <2>1, <3>3, <4>2
      <4> QED BY <1>14, <4>1, <4>2 DEF Modes
    <3>5. ~gone
      BY <1>3, <1>6, <1>12, <2>1, <2>3, <3>2, <3>4
    <3> QED BY <1>7, <1>8, <2>1, <3>1, <3>2, <3>4, <3>5 DEF HostOK, n
  <2> QED BY <2>2, <2>3
<1>15. CASE ~n.mixed /\ r.type \notin Modes
  <2>1. ~h.mixed /\ r.type \in {"ALLOW", "BLOCK"} /\ r.srcs # {}
    BY <1>1, <1>3, <1>15 DEF Malformed, Modes
  <2>2. /\ rec.fmode = "NA" /\ rec.smode = r.type /\ rec.srcs = r.srcs
        /\ new.fmode = old.fmode /\ new.smode = r.type
    BY <1>3, <1>5, <1>15, <2>1 DEF Kept
  <2>3. RawSrcs(old, rec) = IF Adds(old.fmode, r.type) THEN old.srcs \cup r.srcs
                            ELSE old.srcs \ r.srcs
    BY <2>1, <2>2 DEF RawSrcs, Kept
  <2>4. new.fmode = w.fmode /\ new.srcs \ {AnySource} = w.srcs
    BY <1>2, <1>3, <1>5, <1>11, <1>15, <2>1, <2>2, <2>3
  <2>5. old.fmode \in {"IN", "EX"}
    BY DEF Client, Modes
  <2>6. gone <=> w = Nothing
    <3>1. CASE new.fmode = "IN"
      <4>1. new.srcs = w.srcs
        BY <1>5, <2>4, <3>1
      <4> QED BY <1>6, <1>12, <2>1, <2>2, <2>4, <3>1, <4>1
    <3>2. CASE new.fmode = "EX"
      <4>1. r.type = "BLOCK" => new.srcs # {}
        BY <1>5, <2>1, <2>2, <2>3, <3>2 DEF Adds
      <4> QED BY <1>6, <1>12, <2>1, <2>2, <2>4, <3>2, <4>1
    <3> QED BY <2>2, <2>5, <3>1, <3>2
  <2>7. CASE w = Nothing
    <3>1. HostOK(upd, c, NewHost)
      BY <1>7, <2>6, <2>7, GoneIsNew
    <3> QED BY <1>1, <1>15, <2>7, <3>1 DEF n
  <2>8. CASE w # Nothing
    <3>1. n.want = w /\ n.changed
      BY <1>1, <1>15, <2>8
    <3> QED BY <1>8, <2>4, <2>6, <2>8, <3>1 DEF HostOK, n
  <2> QED BY <2>7, <2>8
<1> QED BY <1>13, <1>14, <1>15

\* Another client's host has sent nothing.
LEMMA OtherHosts ==
  ASSUME NEW clts \in Seq(Client), OneEach(clts), NEW upd \in Seq(Client), OneEach(upd),
         NEW c, NEW d, d # c, NEW rec \in Rec, Moved(clts, upd, c, rec), NEW h, HostOK(clts, d, h)
  PROVE  HostOK(upd, d, h)
<1>1. PICK old \in Client :
        /\ old.ca = c
        /\ Members(upd) = {e \in Members(clts) : e.ca # c} \cup
             (IF Leaves(ClientAfter(old, rec), rec) THEN {} ELSE {ClientAfter(old, rec)})
  BY DEF Moved
<1>2. ClientAfter(old, rec).ca = c
  BY <1>1, ClientAfterFacts
<1>3. OthersSame(clts, upd, c)
  BY <1>1, <1>2 DEF OthersSame
<1>4. FilterIn(upd, d) = FilterIn(clts, d)
  BY <1>3, OthersKeep
<1>5. \A e \in Members(upd) : e.ca = d => e \in Members(clts)
  BY <1>3 DEF OthersSame
<1> QED BY <1>4, <1>5 DEF HostOK

\* The multicast GEM port of a port where nothing is refused carries every group.
AllCarried == \A n \in DOMAIN Setups : ~Setups[n].subscribed => Setups[n].carried = Groups

LEMMA HostsInit == Init => HostsInv
<1> SUFFICES ASSUME Init PROVE HostsInv
  OBVIOUS
<1>1. hosts = [g \in Groups |-> [c \in Clients |-> NewHost]] /\ \A g \in Groups : clt_list[g] = << >>
  BY DEF Init
<1>2. \A c : HostOK(<< >>, c, NewHost)
  BY EmptyGroup, GoneIsNew
<1> QED BY <1>1, <1>2, NewHostFacts DEF HostsInv

LEMMA HostsNext == AllCarried /\ StateInv /\ StateInv' /\ HostsInv /\ [Next]_vars => HostsInv'
<1> SUFFICES ASSUME AllCarried, StateInv, StateInv', HostsInv, [Next]_vars PROVE HostsInv'
  OBVIOUS
<1>0. /\ hosts \in [Groups -> [Clients -> Host]]
      /\ ~My.subscribed => \A g \in Groups, c \in Clients : HostOK(clt_list[g], c, hosts[g][c])
      /\ \A g \in Groups :
           /\ clt_list[g] \in Seq(Client) /\ OneEach(clt_list[g]) /\ Including(clt_list[g])
           /\ clt_list'[g] \in Seq(Client) /\ OneEach(clt_list'[g]) /\ Including(clt_list'[g])
  BY DEF HostsInv, StateInv, GroupsInv
<1>1. CASE Record
  <2> DEFINE r == Head(pkt.recs)
  <2>1. /\ r \in Records
        /\ \/ Fail /\ (Malformed(r) \/ r.ga \notin My.carried)
           \/ My.subscribed /\ \E why \in {"unauth", "discard"} : Refuse(why)
           \/ ~Malformed(r) /\ \E c \in pkt.ca : Apply(r.ga, c, Granted(r.ga, RecOf(r)))
    BY <1>1, RecordCases
  <2>2. \A g \in Groups, c \in Clients :
          hosts'[g][c] = IF Observed /\ r.ga = g /\ c \in pkt.ca
                         THEN HostAfter(hosts[g][c], r) ELSE hosts[g][c]
    BY <1>1 DEF Record
  <2>3. \E f : hosts' = [g \in Groups |-> [c \in Clients |-> f[g][c]]]
    <3> DEFINE f == [g \in Groups |-> [c \in Clients |->
                       IF Observed /\ Head(pkt.recs).ga = g /\ c \in pkt.ca
                       THEN HostAfter(hosts[g][c], Head(pkt.recs)) ELSE hosts[g][c]]]
    <3>1. hosts' = f
      BY <1>1 DEF Record
    <3>2. f = [g \in Groups |-> [c \in Clients |-> f[g][c]]]
      OBVIOUS
    <3> QED BY <3>1, <3>2
  <2> HIDE DEF r
  <2>4. \A g \in Groups, c \in Clients : hosts[g][c] \in Host
    BY <1>0
  <2>5. \A g \in Groups, c \in Clients : HostAfter(hosts[g][c], r) \in Host
    BY <2>1, <2>4, HostAfterFacts
  <2>6. hosts' \in [Groups -> [Clients -> Host]]
    BY <2>2, <2>3, <2>4, <2>5
  <2>7. setup' = setup
    BY <2>1 DEF Fail, Refuse, Apply
  <2>8. ASSUME ~My.subscribed, NEW g \in Groups, NEW c \in Clients
        PROVE  HostOK(clt_list'[g], c, hosts'[g][c])
    <3>1. r.ga \in Groups /\ RecOf(r) \in Rec
      BY <2>1, RecOfFacts
    <3>2. r.ga \in My.carried
      BY <2>8, <3>1 DEF AllCarried, My, StateInv, AclInv
    <3>3. HostOK(clt_list[g], c, hosts[g][c])
      BY <1>0, <2>8
    <3>4. CASE Fail /\ Malformed(r)
      <4>1. clt_list' = clt_list
        BY <3>4 DEF Fail
      <4>2. HostOK(clt_list[g], c, HostAfter(hosts[g][c], r))
        BY <1>0, <2>1, <2>4, <3>3, <3>4, MalformedKeeps
      <4> QED BY <2>2, <3>3, <4>1, <4>2
    <3>5. ASSUME ~Malformed(r), NEW d \in pkt.ca, Apply(r.ga, d, Granted(r.ga, RecOf(r)))
          PROVE  HostOK(clt_list'[g], c, hosts'[g][c])
      <4>1. Granted(r.ga, RecOf(r)) = RecOf(r)
        BY <2>8, <3>1, GrantedFacts DEF StateInv, AclInv
      <4>2. d \in Clients /\ \A a \in pkt.ca : a = d
        BY DEF StateInv, PktOK
      <4>3. Apply(r.ga, d, RecOf(r))
        BY <3>5, <4>1
      <4>4. /\ \A k \in Groups : k # r.ga => clt_list'[k] = clt_list[k]
            /\ Moved(clt_list[r.ga], clt_list'[r.ga], d, RecOf(r))
        BY <3>1, <4>2, <4>3, ApplyFacts DEF Moved
      <4>5. CASE g # r.ga
        BY <2>2, <3>3, <4>4, <4>5
      <4>6. CASE g = r.ga /\ c # d
        <5>1. HostOK(clt_list'[g], c, hosts[g][c])
          BY <1>0, <3>1, <3>3, <4>4, <4>6, OtherHosts
        <5> QED BY <2>2, <4>2, <4>6, <5>1
      <4>7. CASE g = r.ga /\ c = d
        <5>1. HostOK(clt_list'[g], c, HostAfter(hosts[g][c], r))
          BY <1>0, <2>1, <2>4, <3>3, <3>5, <4>4, <4>7, HostFollows
        <5> QED BY <2>2, <2>8, <4>7, <5>1 DEF Observed
      <4> QED BY <4>5, <4>6, <4>7
    <3> QED BY <2>1, <2>8, <3>2, <3>4, <3>5
  <2> QED BY <2>6, <2>7, <2>8 DEF HostsInv, My
<1>2. CASE PacketEnd
  BY <1>2 DEF PacketEnd, HostsInv, My
<1>3. CASE AclSet
  BY <1>3 DEF AclSet, HostsInv, My
<1>4. ASSUME NEW g \in Groups, Age(g) PROVE HostsInv'
  <2>1. /\ clt_list'[g] = << >> /\ \A k \in Groups : k # g => clt_list'[k] = clt_list[k]
        /\ setup' = setup
    BY <1>4 DEF Age, StateInv, GroupsInv
  <2>2. hosts' = [hosts EXCEPT ![g] = [c \in Clients |-> NewHost]]
    BY <1>4 DEF Age
  <2>3. hosts' \in [Groups -> [Clients -> Host]]
    BY <1>0, <2>2, NewHostFacts
  <2>4. \A c : HostOK(<< >>, c, NewHost)
    BY EmptyGroup, GoneIsNew
  <2>5. \A k \in Groups, c \in Clients : hosts'[k][c] = IF k = g THEN NewHost ELSE hosts[k][c]
    BY <1>0, <2>2
  <2>6. ASSUME ~My.subscribed, NEW k \in Groups, NEW c \in Clients
        PROVE  HostOK(clt_list'[k], c, hosts'[k][c])
    BY <1>0, <2>1, <2>4, <2>5, <2>6
  <2> QED BY <2>1, <2>3, <2>6 DEF HostsInv, My
<1>5. ASSUME NEW c \in Clients, NEW p \in My.reports, Receive(c, p) PROVE HostsInv'
  BY <1>5 DEF Receive, HostsInv, My
<1>6. CASE UNCHANGED vars
  BY <1>6 DEF vars, HostsInv, My
<1> QED BY <1>1, <1>2, <1>3, <1>4, <1>5, <1>6 DEF Next

LEMMA HostsFilters ==
  ASSUME StateInv, HostsInv
  PROVE  ClientsAreHosts
<1> SUFFICES ASSUME Observed, NEW g \in Groups, NEW c \in Clients, ~hosts[g][c].mixed
             PROVE  [FilterOf(g, c) EXCEPT !.srcs = @ \ {AnySource}] = hosts[g][c].want
  BY DEF ClientsAreHosts
<1> DEFINE f == FilterIn(clt_list[g], c)
           w == hosts[g][c].want
<1>1. clt_list[g] \in Seq(Client) /\ OneEach(clt_list[g])
  BY DEF StateInv, GroupsInv
<1>2. f.fmode = w.fmode /\ f.srcs \ {AnySource} = w.srcs /\ hosts[g][c] \in Host
  BY DEF HostsInv, HostOK, Observed
<1>3. w \in Filter
  BY <1>2 DEF Host
<1>4. \E m, s : f = [fmode |-> m, srcs |-> s]
  <2>1. CASE \E e \in Members(clt_list[g]) : e.ca = c
    <3>1. PICK e \in Members(clt_list[g]) : e.ca = c
      BY <2>1
    <3>2. f = [fmode |-> e.fmode, srcs |-> e.srcs]
      BY <1>1, <3>1, FilterMember
    <3> HIDE DEF f
    <3> QED BY <3>2
  <2>2. CASE \A e \in Members(clt_list[g]) : e.ca # c
    BY <1>1, <2>2, FilterMember DEF Nothing
  <2> QED BY <2>1, <2>2
<1>5. FilterOf(g, c) = f
  BY DEF FilterOf, FilterIn
<1> HIDE DEF f, w
<1>6. PICK m, s : f = [fmode |-> m, srcs |-> s]
  BY <1>4
<1>7. [f EXCEPT !.srcs = @ \ {AnySource}] = [fmode |-> m, srcs |-> s \ {AnySource}]
  BY <1>6
<1>8. w = [fmode |-> w.fmode, srcs |-> w.srcs]
  BY <1>3 DEF Filter
<1>9. w.fmode = m /\ w.srcs = s \ {AnySource}
  BY <1>2, <1>6
<1>10. [f EXCEPT !.srcs = @ \ {AnySource}] = w
  BY <1>7, <1>8, <1>9
<1> QED BY <1>5, <1>10 DEF w

\* On a port where nothing is refused, the clients of a group are what their hosts want:
\* mcc_clt_refresh follows a host that joins, changes its filter, leaves and comes back,
\* beside other hosts and whatever mcc_grp_refresh deletes, as long as the host does not
\* replace a filter that it has changed.
THEOREM ClientsFollowHosts ==
  ASSUME AllCarried
  PROVE  Spec => []ClientsAreHosts
<1>1. StateInv /\ StateInv' /\ HostsInv /\ [Next]_vars => HostsInv'
  BY HostsNext
<1>2. StateInv /\ HostsInv => ClientsAreHosts
  BY HostsFilters
<1> QED BY <1>1, <1>2, StateAlways, HostsInit, PTL DEF Spec
=============================================================================
