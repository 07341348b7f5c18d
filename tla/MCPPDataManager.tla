--------------------------- MODULE MCPPDataManager ---------------------------
(* A small instance of PPDataManager: two sites and one card at most.      *)
EXTENDS PPDataManager, TLC

MCLimit == [t \in Tables |-> IF t = "website" THEN 2 ELSE 1]

Symmetry == Permutations(Values)
=============================================================================
