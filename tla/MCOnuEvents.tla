---------------------------- MODULE MCOnuEvents ----------------------------
(* Small instances of OnuEvents: the ids are those of falcon_onu_dev.h,    *)
(* ONU_EVENT_STATE_CHANGE = 3 and ONU_EVENT_OMCI_RECEIVE = 4.              *)
EXTENDS OnuEvents

MCEvent == {[id |-> 3, data |-> "O3"], [id |-> 3, data |-> "O5"],
            [id |-> 4, data |-> "frame"]}
=============================================================================
