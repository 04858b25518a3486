------------------------------- MODULE MCTsh -------------------------------
(* Instances of Tsh for TLC: process IDs are model values, and             *)
(* interchangeable as long as no liveness property is checked.             *)
EXTENDS TshClaims, TLC

CONSTANTS p1, p2, p3

TwoPids == {p1, p2}
ThreePids == {p1, p2, p3}
PidSymmetry == Permutations(Pids)
=============================================================================
