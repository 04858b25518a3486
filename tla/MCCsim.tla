------------------------------- MODULE MCCsim -------------------------------
EXTENDS Csim

(* With two bytes in a block and two sets: four blocks of set 0, one of    *)
(* them at two addresses, and one of set 1.                                *)
SomeAddresses == {0, 1, 2, 4, 8, 12}
=============================================================================
