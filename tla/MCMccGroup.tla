----------------------------- MODULE MCMccGroup -----------------------------
(* Small instances of MccGroup.                                            *)
EXTENDS MccGroup

CONSTANTS g1, g2, s1, s2

R(g, t, s) == [ga |-> g, type |-> t, srcs |-> s]
Report(v, rs) == [ver |-> v, recs |-> rs]
One(rs) == {Report(3, <<r>>) : r \in rs}

\* The filter of one group, replaced.
Replacing(g) == {R(g, t, s) : t \in Modes, s \in SUBSET Sources}

\* The filter of one group, changed.
Changing(g) == {R(g, t, s) : t \in {"ALLOW", "BLOCK"}, s \in (SUBSET Sources) \ {{}}}

E(g, s) == [ga |-> g, sa |-> s]

\* A limit and a list that names sources: all records, a version that may not be
\* supported, a record that says nothing, and two records of which one may be refused.
Limited ==
  [subscribed |-> TRUE, acl |-> {E(g1, s1), E(g1, s2), E(g2, s1)}, entries |-> {},
   max |-> 2, unauth |-> FALSE, carried |-> Groups,
   reports |-> One(UNION {Replacing(g) \cup Changing(g) : g \in Groups})
     \cup {Report(2, <<R(g1, "EX", {})>>), Report(3, <<R(g1, "ALLOW", {})>>),
           Report(3, <<R(g2, "IN", {s2}), R(g1, "EX", {})>>),
           Report(3, <<R(g1, "IN", {s2}), R(g2, "IN", {s1})>>)}]

\* A list that changes, and a group that the GEM port does not carry.
Authorised ==
  [subscribed |-> TRUE, acl |-> {}, entries |-> {e \in Entries : e.ga = g1},
   max |-> 2, unauth |-> TRUE, carried |-> {g1},
   reports |-> One(Replacing(g1) \cup Changing(g1))
     \cup {Report(3, <<R(g1, "IN", {s1}), R(g2, "IN", {s1}), R(g1, "EX", {})>>)}]

\* No limit and no list.
Unrestricted ==
  [subscribed |-> FALSE, acl |-> {}, entries |-> {},
   max |-> 0, unauth |-> FALSE, carried |-> Groups,
   reports |-> One(Replacing(g1) \cup Changing(g1))
     \cup {Report(2, <<R(g1, "EX", {})>>), Report(3, <<R(g1, "IN", {s1}), R(g1, "BLOCK", {s1})>>)}]

Kinds == [limited |-> Limited, authorised |-> Authorised, unrestricted |-> Unrestricted]
=============================================================================
