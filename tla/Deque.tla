------------------------------- MODULE Deque -------------------------------
(***************************************************************************)
(* What queue.c promises its caller: a sequence of strings with insertion  *)
(* at both ends, removal from the head, and reversal.  A call does all of  *)
(* its work or, when memory runs out, none of it.  A command that is cut   *)
(* off may leave anything (Broken) until the next new queue.               *)
(***************************************************************************)
EXTENDS Sequences, SequencesExt

CONSTANTS Strings, NoQueue, Broken

VARIABLES contents

InsertString ==
    \E s \in Strings : contents' \in {<<s>> \o contents, Append(contents, s)}

RemoveHead == contents # <<>> /\ contents' = Tail(contents)

ReverseAll == contents' = Reverse(contents)

Whole == contents \notin {NoQueue, Broken}

Next ==
    \/ Whole /\ (InsertString \/ RemoveHead \/ ReverseAll)
    \/ Whole /\ contents' = NoQueue
    \/ contents = NoQueue /\ contents' = <<>>
    \/ contents' = Broken
    \/ contents = Broken /\ contents' = NoQueue

Spec == contents = NoQueue /\ [][Next]_contents
=============================================================================
