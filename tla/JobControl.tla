----------------------------- MODULE JobControl -----------------------------
(***************************************************************************)
(* What the shell promises about its jobs, with neither a job table, nor   *)
(* signals, nor job IDs: at most one job is in the foreground, and while   *)
(* one is, no command is read; a job is followed from its launch until its *)
(* process has ended, and only then forgotten.                             *)
(***************************************************************************)
CONSTANT Pids

VARIABLES view,  \* what the shell takes each process to be
          mode   \* "reading" a command, "working" on one, "leaving", "gone"

jcVars == <<view, mode>>

Foreground == {p \in Pids : view[p] = "FG"}

Init == /\ view = [p \in Pids |-> "none"]
        /\ mode = "reading"

Read == /\ mode = "reading" /\ Foreground = {}
        /\ mode' = "working"
        /\ UNCHANGED view

(* A command starts a job, or moves one to the foreground or background. *)
Launch(p, s) == /\ mode = "working" /\ view[p] = "none" /\ Foreground = {}
                /\ view' = [view EXCEPT ![p] = s]
                /\ UNCHANGED mode

Resume(p, s) == /\ mode = "working" /\ view[p] # "none" /\ Foreground = {}
                /\ view' = [view EXCEPT ![p] = s]
                /\ UNCHANGED mode

(* A report of a stop or of an end is taken at any time. *)
Stop(p) == /\ mode # "gone" /\ view[p] # "none"
           /\ view' = [view EXCEPT ![p] = "ST"]
           /\ UNCHANGED mode

End(p) == /\ mode # "gone" /\ view[p] # "none"
          /\ view' = [view EXCEPT ![p] = "none"]
          /\ UNCHANGED mode

Done == /\ mode = "working" /\ Foreground = {}
        /\ mode' = "reading"
        /\ UNCHANGED view

Leave == /\ mode \in {"reading", "working"} /\ Foreground = {}
         /\ mode' = "leaving"
         /\ UNCHANGED view

(* The orderly end, which forgets the jobs, and the sudden one. *)
Exit == /\ mode = "leaving"
        /\ mode' = "gone"
        /\ view' = [p \in Pids |-> "none"]

Fail == /\ mode # "gone"
        /\ mode' = "gone"
        /\ UNCHANGED view

Next == \/ Read \/ Done \/ Leave \/ Exit \/ Fail
        \/ \E p \in Pids : \/ Stop(p) \/ End(p)
                           \/ \E s \in {"FG", "BG"} : Launch(p, s) \/ Resume(p, s)

Spec == Init /\ [][Next]_jcVars
=============================================================================
