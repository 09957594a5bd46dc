------------------------------ MODULE MCOnuData ------------------------------
(* Small instances of OnuData.                                             *)
EXTENDS OnuData, TLC

CONSTANTS a, b, c

ThreeTables == {a, b, c}
ThreeOwners == ThreeTables \cup {"mib", "alarm"}
TableSymmetry == Permutations(ThreeTables)
=============================================================================
