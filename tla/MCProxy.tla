------------------------------ MODULE MCProxy ------------------------------
EXTENDS ProxyClaims, TLC

CONSTANTS t1, t2, t3, b1, b2, b3, b4, small, short, medium, middling, large

OneThread == {t1}
TwoThreads == {t1, t2}
ThreeThreads == {t1, t2, t3}

TwoBlocks == {b1, b2}
ThreeBlocks == {b1, b2, b3}
FourBlocks == {b1, b2, b3, b4}

TwoUrls == {small, medium}
ThreeUrls == TwoUrls \cup {large}
FiveUrls == ThreeUrls \cup {short, middling}

(* large is not cached: MAX_OBJECT_SIZE is its size.                       *)
Size == [u \in Urls |-> IF u \in {small, short} THEN 1
                        ELSE IF u = large THEN 3 ELSE 2]

Symmetric == Permutations(Threads) \cup Permutations(Blocks)
BlockSymmetry == Permutations(Blocks)
=============================================================================
