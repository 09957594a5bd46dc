------------------------------ MODULE MCPloam ------------------------------
(* Small instances of Ploam: ONU-IDs 1 (ours) and 2, broadcast 255.        *)
EXTENDS Ploam

Msg(k, t, o, i) == [kind |-> k, to |-> t, own |-> o, id |-> i]

Overhead  == Msg("OVERHEAD", 255, FALSE, 0)
AssignUs  == Msg("ASSIGN", 255, TRUE, 1)
RangeUs   == Msg("RANGING", 1, FALSE, 0)
Deact     == Msg("DEACTIVATE", 1, FALSE, 0)
DeactThem == Msg("DEACTIVATE", 2, FALSE, 0) \* filtered once we have our id
Disable   == Msg("DISABLE", 255, FALSE, 0)

Mixed      == {Overhead, AssignUs, RangeUs, Deact, DeactThem, Disable}
Discovery  == {Overhead, Disable}
NoLof      == {}
=============================================================================
