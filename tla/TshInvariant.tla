---------------------------- MODULE TshInvariant ----------------------------
(***************************************************************************)
(* The inductive invariant of Tsh: the facts about its control that the    *)
(* safety properties rest on.                                              *)
(***************************************************************************)
EXTENDS Tsh

(* Handlers run, and the job table is exposed to them, only where main has *)
(* signals unblocked.                                                      *)
MaskInv == /\ pc \in Busy \cup {"wait", "refused"} => masked
           /\ pc \in {"prompt", "suspend", "quit"} => ~masked
           /\ handler # "none" => ~masked

(* The child just forked is new to the table; the job fg or bg has chosen  *)
(* is still there when its state is set.                                   *)
CommandInv ==
    /\ pc = "fork" => cur.pid = 0
    /\ pc = "add" /\ cur.pid # 0 =>
          proc[cur.pid] # "none" /\ \A j \in Jobs : job_list[j].pid # cur.pid
    /\ pc = "setstate" => cur.jid \in Jobs

(* Only the child being added may be missing from the table. *)
ChildInv ==
    Alive => \A p \in Pids : proc[p] # "none" =>
        \/ \E j \in Jobs : job_list[j].pid = p
        \/ pc \in {"add", "refused"} /\ p = cur.pid

(* A stop that waitpid has reported is in the table, and stays there until *)
(* the child has been continued.                                           *)
StopInv ==
    /\ \A p \in unreported : proc[p] = "stopped"
    /\ Alive => \A p \in Pids : proc[p] = "stopped" /\ p \notin unreported =>
          \E j \in Jobs : /\ job_list[j] = [pid |-> p, state |-> "ST"]
                          /\ ~(pc = "setstate" /\ cur.jid = j)

ForegroundInv ==
    /\ \A j, k \in Jobs :
          job_list[j].state = "FG" /\ job_list[k].state = "FG" => j = k
    /\ Alive /\ pc \notin Waiting => \A j \in Jobs : job_list[j].state # "FG"

IInv == /\ TypeOK
        /\ MaskInv
        /\ CommandInv
        /\ JobsAreChildren
        /\ ChildInv
        /\ StopInv
        /\ ForegroundInv
        /\ NextIsPastAll
        /\ NoReportLost
        /\ NeverItsOwnFault
=============================================================================
