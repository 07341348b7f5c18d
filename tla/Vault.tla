-------------------------------- MODULE Vault --------------------------------
(***************************************************************************)
(* What the record store promises to the rest of the program: the abstract *)
(* specification PPDataManager implements.                                 *)
(*                                                                         *)
(* The vault is what has been saved.  As long as it is safe, it changes    *)
(* only by one record at a time, when a save or a deletion is              *)
(* acknowledged: the end of the process at any moment, a restart, a failed *)
(* statement and a failed opening change nothing.  The vault stops being   *)
(* safe only when a restore starts to replace it; until the replacement is *)
(* complete, or the process has been restarted, its content may go and     *)
(* nothing is saved.                                                       *)
(***************************************************************************)
CONSTANTS Tables, Ids, Values, NoRow

VARIABLES saved, safe

vaultVars == <<saved, safe>>

Content == [Tables -> [Ids -> Values \cup {NoRow}]]
Empty   == [t \in Tables |-> [i \in Ids |-> NoRow]]

Init == saved = Empty /\ safe = TRUE

\* One record is saved, changed or deleted.
Commit ==
    /\ safe
    /\ \E t \in Tables, i \in Ids, v \in Values \cup {NoRow} :
          saved' = [saved EXCEPT ![t][i] = v]
    /\ UNCHANGED safe

\* A restore begins: the old content is still readable, or already gone.
BeginReplace ==
    /\ safe
    /\ safe' = FALSE
    /\ saved' \in {saved, Empty}

\* A restore proceeds, completes, or is cut short.
Replace ==
    /\ ~safe
    /\ safe' \in BOOLEAN
    /\ saved' \in Content

Next == Commit \/ BeginReplace \/ Replace

Spec == Init /\ [][Next]_vaultVars
=============================================================================
