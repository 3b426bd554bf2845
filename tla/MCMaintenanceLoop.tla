------------------------- MODULE MCMaintenanceLoop -------------------------
(* Two issues of one family with one contract, two pieces of work of which *)
(* the first is critical; or the issue of the touch contract.              *)
EXTENDS MaintenanceLoop, TLC
CONSTANTS p1, p2
PriorityValue == [w \in {1, 2} |-> IF w = 1 THEN 1 ELSE 3]
IssuesOfValue == [w \in {1, 2} |-> IF w = 1 THEN {102} ELSE {104}]
TouchIssues == [w \in {1} |-> {119}]
TouchPriority == [w \in {1} |-> 1]
Symmetry == Permutations({p1, p2})
=============================================================================
