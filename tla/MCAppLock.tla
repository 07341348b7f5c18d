----------------------------- MODULE MCAppLock ------------------------------
(* Small instances of AppLock: two or three buttons, so that there are     *)
(* several patterns of two points or more, and strokes too short for one.  *)
EXTENDS AppLock, TLC

Symmetry == Permutations(Buttons)
=============================================================================
