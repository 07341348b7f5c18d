-------------------------- MODULE MCCreatePassword --------------------------
(* CreatePassword with the lengths of the code and two characters of a kind. *)
EXTENDS CreatePassword, TLC

MCNumberArray    == <<"0", "9">>
MCLowLetterArray == <<"a", "z">>
MCUpLetterArray  == <<"A", "Z">>
MCOtherCharacter == <<"!", "~">>
=============================================================================
