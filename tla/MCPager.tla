------------------------------- MODULE MCPager -------------------------------
(* A small instance of Pager: two pages, so that a transaction can add one, *)
(* change one and leave one alone; two values, so that two transactions can *)
(* be told apart.  The second page is a leaf of the free list when the      *)
(* first holds Freed.                                                       *)
EXTENDS Pager, TLC

CONSTANT Freed
ASSUME Freed \in Data

MCLeaves == [img \in Image |->
                {p \in 2 .. MaxPage : img[1] = Freed /\ img[p] # None}]
=============================================================================
