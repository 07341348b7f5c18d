---------------------------- MODULE MCSiteScreens ----------------------------
(* A small instance of SiteScreens: two sites, and backups of this or      *)
(* another device which have both sites, one of them or none, so that the  *)
(* id a form holds may vanish or change hands.                             *)
EXTENDS SiteScreens, TLC

MCLimit == [t \in Tables |-> IF t = Site THEN MaxId ELSE 0]

MCOtherImages ==
    { [made |-> Tables,
       seq  |-> MCLimit,
       rows |-> [t \in Tables |-> IF t = Site THEN r ELSE [i \in Ids |-> NoRow]]]
      : r \in [Ids -> Values \cup {NoRow}] }

Symmetry == Permutations(Values)
=============================================================================
