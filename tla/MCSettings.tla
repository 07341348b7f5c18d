----------------------------- MODULE MCSettings -----------------------------
(* Small instances of Settings: two options for every setting.             *)
EXTENDS Settings, TLC

CONSTANTS o1, o2

MCOptions == {o1, o2}
MCDefault == [f \in Pickers |-> o1]
=============================================================================
