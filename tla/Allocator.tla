----------------------------- MODULE Allocator -----------------------------
(***************************************************************************)
(* What an allocator promises: the payloads that clients hold never        *)
(* overlap, and none moves, shrinks or goes without its client's asking.   *)
(***************************************************************************)
EXTENDS Integers

CONSTANTS Words, Requests

VARIABLE live   \* the size of each payload, by its address

Extent(bp, size) == bp .. bp + size - 1

FreeWords(held) == Words \ UNION {Extent(bp, held[bp]) : bp \in DOMAIN held}

Init == live = <<>>

Apart(bp, size) == /\ bp \in Words \ DOMAIN live
                   /\ Extent(bp, size) \subseteq FreeWords(live)

Malloc(bp, size) ==
    /\ live' = [p \in DOMAIN live \cup {bp} |-> IF p = bp THEN size ELSE live[p]]
    /\ Apart(bp, size)

Free(bp) == live' = [p \in DOMAIN live \ {bp} |-> live[p]]

(* The new payload is apart from the old one too, from which it is copied. *)
Realloc(old, bp, size) ==
    /\ live' = [p \in (DOMAIN live \ {old}) \cup {bp} |->
                    IF p = bp THEN size ELSE live[p]]
    /\ Apart(bp, size)

Next == \/ \E bp \in Words, size \in Requests : Malloc(bp, size)
        \/ \E bp \in DOMAIN live : Free(bp)
        \/ \E old \in DOMAIN live, bp \in Words, size \in Requests : Realloc(old, bp, size)

Spec == Init /\ [][Next]_live
=============================================================================
