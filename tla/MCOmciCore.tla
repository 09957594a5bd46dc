----------------------------- MODULE MCOmciCore -----------------------------
(* Small instances of OmciCore.                                            *)
EXTENDS OmciCore

Req(t, k, a, o) == [tid |-> t, kind |-> k, ar |-> a, ok |-> o]

\* Two changes and a MIB reset between them.
Provisioning == << Req(1, "CHANGE", TRUE, TRUE), Req(2, "MIB_RESET", TRUE, TRUE),
                   Req(3, "CHANGE", TRUE, TRUE) >>

\* A message that msg_handle refuses, and a request that wants no answer.
Refused == << Req(1, "GET", TRUE, FALSE), Req(2, "CHANGE", TRUE, TRUE),
              Req(3, "MIB_RESET", TRUE, TRUE), Req(4, "GET", FALSE, TRUE) >>
=============================================================================
