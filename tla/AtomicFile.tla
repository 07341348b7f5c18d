------------------------------ MODULE AtomicFile ------------------------------
(***************************************************************************)
(* What the pager of SQLite promises of a database file: the abstract      *)
(* specification Pager implements.                                         *)
(*                                                                         *)
(* The file changes by whole transactions.  The end of the process changes *)
(* nothing.  A loss of power may take back the transaction committed last, *)
(* whole, since the deletion of its journal is not synced; it never leaves *)
(* a part of a transaction, and never takes back one before the last.      *)
(* Only a file in which nothing has been committed yet is not protected: a *)
(* loss of power while its first transaction is rolled back may leave      *)
(* anything.                                                               *)
(*                                                                         *)
(* The content of a page is what matters of it: all unused pages are one.  *)
(***************************************************************************)
CONSTANTS Page, Data, Torn, None

VARIABLES saved,     \* the pages of the file, as the next reader finds them
          previous   \* what a loss of power may bring back

atomicVars == <<saved, previous>>

Image == [Page -> Data \cup {Torn, None}]
Empty == [p \in Page |-> None]

Init == saved = Empty /\ previous = Empty

\* A transaction commits.
Commit ==
    /\ saved' \in Image
    /\ previous' = saved

\* The power fails.
LosePower ==
    /\ \/ saved' \in {saved, previous}
       \/ saved = Empty /\ saved' \in Image
    /\ previous' = saved'

Next == Commit \/ LosePower

Spec == Init /\ [][Next]_atomicVars
=============================================================================
