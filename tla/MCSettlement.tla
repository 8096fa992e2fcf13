---------------------------- MODULE MCSettlement ----------------------------
(* Two periods that overlap.  Plan a1 lies a second inside the first and begins half a   *)
(* second before the other, which the texts do not see; a2 lies in the first alone.     *)
EXTENDS Settlement, MCStoredTime, TLC

CONSTANTS a1, a2, p1, p2

MCPeriods == (p1 :> [start |-> 0, end |-> 8]) @@ (p2 :> [start |-> 3, end |-> 9])
MCDeltas == {-1, 1}
MCPlans == (a1 :> [start |-> 2, end |-> 6]) @@ (a2 :> [start |-> 0, end |-> 4])

Symmetric == Permutations(Users) \cup Permutations(Requests)
=============================================================================
