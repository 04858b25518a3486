------------------------------- MODULE MCRio -------------------------------
EXTENDS Rio

CONSTANTS error

(* Nothing, one byte, less and more than the buffer, more than the stream. *)
SomeCounts == {0, 1, 2, 4, 7}
=============================================================================
