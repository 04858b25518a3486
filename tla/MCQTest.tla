------------------------------ MODULE MCQTest ------------------------------
EXTENDS QTest, TLC

(* Addresses are compared for equality only. *)
Addresses == Permutations(Elements) \cup Permutations(Queues)
=============================================================================
