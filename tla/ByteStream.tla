----------------------------- MODULE ByteStream -----------------------------
(***************************************************************************)
(* What the buffered reader promises its caller: the bytes 1 .. Length of  *)
(* a stream, each once and in order, in pieces that end where the caller   *)
(* asked, at the end of a line, or at the end of the stream, never where a *)
(* packet happened to end.  A call that fails loses at most what it was to *)
(* return.                                                                 *)
(***************************************************************************)
EXTENDS Integers, Sequences

CONSTANTS Length, Counts, Failed

VARIABLES newlines, position, reply

vars == <<newlines, position, reply>>

Init ==
    /\ newlines \in SUBSET (1 .. Length)
    /\ position = 0
    /\ reply = <<>>

Piece(k) == [j \in 1 .. k |-> position + j]

Give(k) ==
    /\ position + k <= Length
    /\ reply' = Piece(k)
    /\ position' = position + k
    /\ UNCHANGED newlines

ReadN(n) ==
    \E k \in 0 .. n :
        /\ k = n \/ position + k = Length
        /\ Give(k)

ReadLine(maxlen) ==
    \E k \in 0 .. maxlen - 1 :
        /\ \A j \in 1 .. k - 1 : position + j \notin newlines
        /\ \/ k = maxlen - 1
           \/ position + k = Length
           \/ k > 0 /\ position + k \in newlines
        /\ Give(k)

Fail(n) ==
    /\ \E k \in 0 .. n : position' = position + k /\ position' <= Length
    /\ reply' = Failed
    /\ UNCHANGED newlines

Next == \E n \in Counts : ReadN(n) \/ ReadLine(n) \/ Fail(n)

Spec == Init /\ [][Next]_vars
=============================================================================
