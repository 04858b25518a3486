------------------------------ MODULE LruCache ------------------------------
(***************************************************************************)
(* A cache of bounded size that gives up what was used longest ago: the    *)
(* operations on the order of last use, the most recent first.             *)
(***************************************************************************)
EXTENDS Integers, Sequences, SequencesExt

CONSTANTS SizeOf, MAX_CACHE_SIZE

VARIABLE order

Total(urls) == FoldLeft(LAMBDA sum, u : sum + SizeOf[u], 0, urls)

Fits(u) == Total(order) + SizeOf[u] < MAX_CACHE_SIZE

(* What is used moves to the front, and what is new goes there.            *)
Use(i) == order' = <<order[i]>> \o RemoveAt(order, i)

Store(u) ==
    /\ Fits(u)
    /\ order' = <<u>> \o order

(* What comes after place kept is the shortest end of the list that is as  *)
(* large as u, for which there is no room.                                 *)
After(kept) == Total(order) - Total(SubSeq(order, 1, kept))

MakesRoom(u, kept) ==
    /\ ~Fits(u)
    /\ After(kept) >= SizeOf[u]
    /\ kept < Len(order) => After(kept + 1) < SizeOf[u]

Replace(u, kept) ==
    /\ MakesRoom(u, kept)
    /\ order' = <<u>> \o SubSeq(order, 1, kept)
=============================================================================
