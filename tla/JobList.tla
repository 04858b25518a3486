------------------------------ MODULE JobList ------------------------------
(***************************************************************************)
(* The job table of the shell (tshlab/tsh_helper.c): MAXJOBS slots, the    *)
(* slot with index j - 1 holding the job with job ID j, and the counter    *)
(* nextjid that names the slot add_job will use.                           *)
(*                                                                         *)
(* Every function of the table runs with all signals blocked (that is what *)
(* check_blocked warns about), so each is one indivisible operator here;   *)
(* module Tsh interleaves them with signal delivery and with the children. *)
(* The command line a slot carries is only printed, and is left out.       *)
(***************************************************************************)
EXTENDS Integers, FiniteSetsExt

CONSTANTS MAXJOBS,  \* slots of the table
          Pids      \* process IDs the kernel hands out

ASSUME JobListAssumption == MAXJOBS \in Nat \ {0} /\ 0 \notin Pids

VARIABLES job_list, nextjid

jobVars == <<job_list, nextjid>>

Jids == 1 .. MAXJOBS
JobStates == {"FG", "BG", "ST"}

(* What clearjob leaves in a slot. *)
clearjob == [pid |-> 0, state |-> "UNDEF"]

Job == [pid : Pids \cup {0}, state : JobStates \cup {"UNDEF"}]

init_job_list == /\ job_list = [j \in Jids |-> clearjob]
                 /\ nextjid = 1

destroy_job_list == /\ job_list' = [j \in Jids |-> clearjob]
                    /\ nextjid' = 1

-----------------------------------------------------------------------------
(* Lookups.  The table is scanned upwards (fg_job, job_from_pid) or        *)
(* downwards (maxjid); 0 says that no slot qualified.                      *)

Lowest(S) == IF S = {} THEN 0 ELSE Min(S)

Allocated(list) == {j \in Jids : list[j].state # "UNDEF"}

job_exists(jid) == jid \in Allocated(job_list)

maxjid(list) == IF Allocated(list) = {} THEN 0 ELSE Max(Allocated(list))

fg_job == Lowest({j \in Jids : job_list[j].state = "FG"})

job_from_pid(pid) ==
    Lowest({j \in Allocated(job_list) : job_list[j].pid = pid})

job_get_pid(jid) == job_list[jid].pid

-----------------------------------------------------------------------------
(* Updates.                                                                *)

(* add_job's refusal, reported to the caller as job ID 0. *)
NoRoom == nextjid > MAXJOBS

(* What add_job answers with _exit or with a failing sio_assert. *)
AddIsFatal(state) == \/ state = "FG" /\ fg_job # 0
                     \/ ~NoRoom /\ job_list[nextjid].state # "UNDEF"

add_job(pid, state) ==
    /\ job_list' = [job_list EXCEPT ![nextjid] = [pid |-> pid, state |-> state]]
    /\ nextjid' = nextjid + 1

(* Mutants of delete_job: the slot is not cleared; the counter goes back   *)
(* to the slot freed; the counter is not moved past the largest.           *)
delete_job_NotCleared(jid) ==
    /\ UNCHANGED job_list
    /\ nextjid' = maxjid(job_list) + 1

delete_job_NextIsFreed(jid) ==
    IF job_exists(jid)
    THEN /\ job_list' = [job_list EXCEPT ![jid] = clearjob]
         /\ nextjid' = jid
    ELSE UNCHANGED jobVars

delete_job_NotPast(jid) ==
    IF job_exists(jid)
    THEN /\ job_list' = [job_list EXCEPT ![jid] = clearjob]
         /\ nextjid' = maxjid(job_list')
    ELSE UNCHANGED jobVars

(* delete_job: the next job ID becomes one more than the largest in use. *)
delete_job(jid) ==
    IF job_exists(jid)
    THEN /\ job_list' = [job_list EXCEPT ![jid] = clearjob]
         /\ nextjid' = maxjid(job_list') + 1
    ELSE UNCHANGED jobVars

(* job_set_state aborts the shell on a free slot and on a second FG job. *)
SetIsFatal(jid, state) == \/ ~job_exists(jid)
                          \/ state = "FG" /\ fg_job # 0

job_set_state(jid, state) ==
    /\ job_list' = [job_list EXCEPT ![jid].state = state]
    /\ UNCHANGED nextjid
=============================================================================
