----------------------------- MODULE MCRuntrace -----------------------------
(* Two drivers in one directory; the shell of one starts jobs, which fork. *)
EXTENDS Runtrace

CONSTANTS d1, d2, j1, j2

TwoDrivers == {d1, d2}
JobsOfOne == [d \in Drivers |-> IF d = d1 THEN {j1, j2} ELSE {}]
=============================================================================
