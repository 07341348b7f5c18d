---------------------------- MODULE MCCloudBackup ----------------------------
(* Small instances of CloudBackup: one site of two values, no card.        *)
EXTENDS CloudBackup, TLC

MCLimit == [t \in Tables |-> IF t = "website" THEN 1 ELSE 0]

\* Another device holds the first id, with either value.
MCOtherImages ==
    { [made |-> Tables,
       seq  |-> [t \in Tables |-> IF t = "website" THEN 1 ELSE 0],
       rows |-> [t \in Tables |-> [i \in Ids |-> IF t = "website" THEN v ELSE NoRow]]]
      : v \in Values }

Symmetry == Permutations(Values) \cup Permutations(Uploads) \cup Permutations(Downloads)
=============================================================================
