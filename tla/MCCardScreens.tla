---------------------------- MODULE MCCardScreens ----------------------------
(* A small instance of CardScreens: one card; a restore brings another card *)
(* under its id, or no card.                                                *)
EXTENDS CardScreens, TLC

CONSTANTS n1, n2, e1

\* The service knows the type of one number.
MCCardType == [n \in Numbers |-> IF n = n1 THEN "credit" ELSE Nothing]

MCLimit == [t \in Tables |-> IF t = BankCard THEN 1 ELSE 0]

MCBackups ==
    { [made |-> Tables,
       seq  |-> MCLimit,
       rows |-> [t \in Tables |-> [i \in Ids |-> IF t = BankCard THEN c ELSE NoRow]]]
      : c \in {NoRow, [number |-> n2, expire |-> e1, type |-> "deposit", logo |-> n2]} }
=============================================================================
