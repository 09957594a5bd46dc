---------------------------- MODULE MCMccThreads ----------------------------
(* Small instances of MccThreads.                                          *)
EXTENDS MccThreads

MCOwners == [kind : {"act", "age"}, port : Ports, gen : 1 .. MaxGen]

\* No multicast entities; a subscriber on one port, and none on the other.
Entities == {[policy |-> FALSE, subs |-> {}], [policy |-> TRUE, subs |-> {1}]}
=============================================================================
