----------------------------- MODULE TshClaims -----------------------------
(***************************************************************************)
(* Sentences of tshlab's own comments about the shell, as properties of    *)
(* Tsh.  The code does not keep them; the runs that check them produce the *)
(* interleavings in which it does not.                                     *)
(***************************************************************************)
EXTENDS Tsh

(* tsh.c:178-179 of eval: it "blocks and unblocks signal properly to       *)
(* eliminates race conditions".  A key pressed, or an fg given, before the *)
(* child has called setpgid must then not end the shell.                   *)
SignalRacesHarmless == pc # "kill_failed"

(* tsh_helper.h:172: add_job "may fail to add a job if there are no more   *)
(* job IDs available"; tsh_helper.h:30: MAXJOBS is the number of jobs "at  *)
(* any point in time".                                                     *)
RefusedOnlyWhenFull == pc = "refused" => Jobs = Jids
=============================================================================
