----------------------------- MODULE TshProofs -----------------------------
(***************************************************************************)
(* Proofs about Tsh, for any number of slots and any set of process IDs.   *)
(***************************************************************************)
EXTENDS TshInvariant, Induction, TLAPS

-----------------------------------------------------------------------------
(* Lookups in the table.                                                   *)

(* A nonempty set of numbers has a least element, which Min finds. *)
LEMMA LeastElement ==
    ASSUME NEW S \in SUBSET Nat, S # {}
    PROVE  Min(S) \in S /\ \A x \in S : Min(S) <= x
BY Least DEF Min

(* A nonempty set of slots has a greatest element, which Max finds: it is  *)
(* the least bound of the set.                                             *)
LEMMA GreatestElement ==
    ASSUME NEW n \in Nat, NEW S \in SUBSET (1 .. n), S # {}
    PROVE  Max(S) \in S /\ \A x \in S : x <= Max(S)
<1> DEFINE Bounds == {b \in Nat : \A x \in S : x <= b}
<1> DEFINE m == Min(Bounds)
<1>1. n \in Bounds
  OBVIOUS
<1>2. m \in Bounds /\ \A b \in Bounds : m <= b
  BY <1>1, LeastElement
<1>3. m \in S
  <2>1. SUFFICES ASSUME m \notin S PROVE FALSE
    OBVIOUS
  <2>2. PICK x \in S : TRUE
    OBVIOUS
  <2>3. m \in Nat /\ x \in Nat /\ 1 <= x /\ x <= m
    BY <1>2, <2>2
  <2>4. \A y \in S : y <= m - 1
    BY <1>2, <2>1, <2>3
  <2>5. m - 1 \in Bounds
    BY <2>3, <2>4
  <2> QED
    BY <1>2, <2>3, <2>5
<1>4. \A x \in S : x <= m
  BY <1>2
<1> HIDE DEF m
<1> QED
  BY <1>3, <1>4 DEF Max

(* fg_job, job_from_pid and maxjid find a slot that qualifies when there   *)
(* is one, and answer 0 otherwise.                                         *)
LEMMA FgJobFinds ==
    \/ fg_job = 0 /\ \A j \in Jids : job_list[j].state # "FG"
    \/ fg_job \in Jids /\ job_list[fg_job].state = "FG"
<1> DEFINE S == {j \in Jids : job_list[j].state = "FG"}
<1>1. S \in SUBSET Nat /\ S \in SUBSET Jids
  BY JobListAssumption DEF Jids
<1>2. CASE S = {}
  BY <1>2 DEF fg_job, Lowest
<1>3. CASE S # {}
  <2>1. Min(S) \in S
    BY <1>1, <1>3, LeastElement
  <2> QED
    BY <2>1, <1>3 DEF fg_job, Lowest
<1> QED
  BY <1>2, <1>3

LEMMA JobFromPidFinds ==
    ASSUME NEW p
    PROVE  \/ job_from_pid(p) = 0 /\ \A j \in Jobs : job_list[j].pid # p
           \/ /\ job_from_pid(p) \in Jobs
              /\ job_list[job_from_pid(p)].pid = p
              /\ job_from_pid(p) # 0
<1> DEFINE S == {j \in Jobs : job_list[j].pid = p}
<1>1. S \in SUBSET Nat /\ 0 \notin S
  BY JobListAssumption DEF Jobs, Allocated, Jids
<1>2. CASE S = {}
  BY <1>2 DEF job_from_pid, Lowest, Jobs
<1>3. CASE S # {}
  <2>1. Min(S) \in S
    BY <1>1, <1>3, LeastElement
  <2>2. job_from_pid(p) = Min(S)
    BY <1>3 DEF job_from_pid, Lowest, Jobs
  <2> QED
    BY <1>1, <2>1, <2>2
<1> QED
  BY <1>2, <1>3

LEMMA MaxjidFinds ==
    ASSUME NEW list
    PROVE  \/ maxjid(list) = 0 /\ Allocated(list) = {}
           \/ /\ maxjid(list) \in Allocated(list)
              /\ \A j \in Allocated(list) : j <= maxjid(list)
<1>1. Allocated(list) \in SUBSET (1 .. MAXJOBS) /\ MAXJOBS \in Nat
  BY JobListAssumption DEF Jobs, Allocated, Jids
<1> QED
  BY <1>1, GreatestElement DEF maxjid

-----------------------------------------------------------------------------
(* The invariant holds initially, and no step breaks it.                   *)

USE DEF Alive, Dead, Crashed, Exiting, Waiting, Busy, Places

LEMMA InitIInv == Init => IInv
<1> SUFFICES ASSUME Init PROVE IInv
  OBVIOUS
<1> USE DEF Init, init_job_list
<1>1. Allocated(job_list) = {}
  BY DEF Jobs, Allocated, clearjob
<1>2. job_list \in [Jids -> Job]
  BY DEF Job, clearjob
<1>3. nextjid \in 1 .. MAXJOBS + 1 /\ cur \in Command
  BY JobListAssumption DEF Command, NoCommand
<1>4. TypeOK
  BY <1>2, <1>3 DEF TypeOK, Lives, Signals
<1>5. maxjid(job_list) = 0
  BY <1>1, MaxjidFinds
<1>6. NextIsPastAll
  BY <1>5 DEF NextIsPastAll
<1> QED
  BY <1>1, <1>4, <1>6 DEF IInv, MaskInv, CommandInv, JobsAreChildren, ChildInv,
     StopInv, ForegroundInv, NoReportLost, NeverItsOwnFault, Waitable, Jobs

-----------------------------------------------------------------------------
(* Types.                                                                  *)

LEMMA MainTypes == TypeOK /\ Main => TypeOK'
<1> SUFFICES ASSUME TypeOK, Main PROVE TypeOK'
  OBVIOUS
<1> USE DEF TypeOK, jobVars, childVars
<1>0. NoCommand \in Command
  BY JobListAssumption DEF Command, NoCommand
<1>1. ASSUME NEW state \in {"FG", "BG"}, EvalLaunch(state) PROVE TypeOK'
  BY <1>0, <1>1 DEF EvalLaunch, Command
<1>2. ASSUME NEW state \in {"FG", "BG"}, NEW p \in Pids, EvalFgBg(state, p, 0)
      PROVE  TypeOK'
  BY <1>2, JobListAssumption DEF EvalFgBg, Command
<1>3. ASSUME NEW state \in {"FG", "BG"}, NEW jid \in 0 .. MAXJOBS,
             EvalFgBg(state, 0, jid)
      PROVE  TypeOK'
  BY <1>3 DEF EvalFgBg, Command
<1>4. ASSUME Fork PROVE TypeOK'
  BY <1>4 DEF Fork, Command, Lives
<1>5. ASSUME AddJob PROVE TypeOK'
  <2>1. pc' \in Places /\ UNCHANGED <<masked, handler, handlers, pending, cur,
                                      proc, pgrp, unreported, intPending>>
    BY <1>5 DEF AddJob
  <2>2. CASE UNCHANGED jobVars
    BY <2>1, <2>2
  <2>3. CASE add_job(cur.pid, cur.state) /\ ~NoRoom
    <3>1. nextjid \in Jids /\ nextjid' \in 1 .. MAXJOBS + 1
      BY <2>3, JobListAssumption DEF add_job, NoRoom, Jids
    <3>2. [pid |-> cur.pid, state |-> cur.state] \in Job
      BY DEF Command, Job, JobStates
    <3> QED
      BY <2>1, <2>3, <3>1, <3>2 DEF add_job
  <2> QED
    BY <1>5, <2>2, <2>3 DEF AddJob
<1>6. ASSUME WaitLoop \/ EvalJobs \/ EvalQuit PROVE TypeOK'
  BY <1>6 DEF WaitLoop, EvalJobs, EvalQuit
<1>7. ASSUME Unblock PROVE TypeOK'
  BY <1>0, <1>7 DEF Unblock
<1>8. ASSUME FgBgContinue PROVE TypeOK'
  BY <1>8, JobListAssumption DEF FgBgContinue, Command, ReceiveCont, Die, Lives,
     RaiseChldIfChanged, Signals, job_exists, Jobs, Allocated, Jids
<1>9. ASSUME FgBgSetState PROVE TypeOK'
  BY <1>9 DEF FgBgSetState, job_set_state, SetIsFatal, job_exists, Jobs, Allocated,
     Job, JobStates, Command
<1>10. ASSUME NEW s \in {"INT", "TSTP", "CHLD"}, CleanupSignal(s) PROVE TypeOK'
  BY <1>10 DEF CleanupSignal
<1>11. ASSUME CleanupJobs PROVE TypeOK'
  BY <1>11, JobListAssumption DEF CleanupJobs, destroy_job_list, clearjob, Job
<1> QED
  BY <1>1, <1>2, <1>3, <1>4, <1>5, <1>6, <1>7, <1>8, <1>9, <1>10, <1>11 DEF Main

LEMMA HandlerTypes == TypeOK /\ Handler => TypeOK'
<1> SUFFICES ASSUME TypeOK, Handler PROVE TypeOK'
  OBVIOUS
<1> USE DEF TypeOK, jobVars, childVars
<1>1. ASSUME NEW p \in Pids, ReapEnded(p) PROVE TypeOK'
  <2>1. pc' \in Places /\ proc' \in [Pids -> Lives] /\ pgrp' \in SUBSET Pids
    BY <1>1 DEF ReapEnded, Lives
  <2>2. job_list' \in [Jids -> Job] /\ nextjid' \in 1 .. MAXJOBS + 1
    <3>1. CASE UNCHANGED jobVars
      BY <3>1
    <3>2. ASSUME NEW j, delete_job(j), ~UNCHANGED jobVars
          PROVE  job_list' \in [Jids -> Job] /\ nextjid' \in 1 .. MAXJOBS + 1
      <4>1. job_list' \in [Jids -> Job] /\ nextjid' = maxjid(job_list') + 1
        BY <3>2 DEF delete_job, clearjob, Job
      <4>2. maxjid(job_list') \in 0 .. MAXJOBS
        BY MaxjidFinds, JobListAssumption DEF Jobs, Allocated, Jids
      <4> QED
        BY <4>1, <4>2, JobListAssumption
    <3> QED
      BY <1>1, <3>1, <3>2 DEF ReapEnded
  <2> QED
    BY <1>1, <2>1, <2>2 DEF ReapEnded
<1>2. ASSUME NEW p \in Pids, ReapStopped(p) PROVE TypeOK'
  BY <1>2 DEF ReapStopped, job_set_state, SetIsFatal, job_exists, Jobs, Allocated,
     Job, JobStates
<1>3. ASSUME ChldReturns PROVE TypeOK'
  BY <1>3 DEF ChldReturns, HandlerReturns
<1>4. ASSUME NEW s \in {"INT", "TSTP"}, Forward(s) PROVE TypeOK'
  <2>1. fg_job # 0 => job_get_pid(fg_job) \in Pids \cup {0}
    BY FgJobFinds DEF job_get_pid, Job
  <2> QED
    BY <1>4, <2>1 DEF Forward, HandlerReturns, ReceiveInt, ReceiveTstp, Die,
       RaiseChldIfChanged, Lives, Signals
<1> QED
  BY <1>1, <1>2, <1>3, <1>4 DEF Handler

LEMMA EnvironmentTypes == TypeOK /\ Environment => TypeOK'
<1> SUFFICES ASSUME TypeOK, Environment PROVE TypeOK'
  OBVIOUS
<1> USE DEF TypeOK, jobVars, childVars
<1>1. ASSUME NEW s \in {"INT", "TSTP", "QUIT"}, Key(s) PROVE TypeOK'
  BY <1>1 DEF Key, Lives, Signals
<1>2. ASSUME NEW p \in Pids, ChildSetpgid(p) \/ ChildExecve(p) PROVE TypeOK'
  BY <1>2 DEF ChildSetpgid, ChildExecve, Lives
<1>3. ASSUME NEW p \in Pids, ChildEnds(p) PROVE TypeOK'
  BY <1>3 DEF ChildEnds, Die, RaiseChldIfChanged, Lives, Signals
<1>4. ASSUME NEW p \in Pids, ChildStops(p) PROVE TypeOK'
  BY <1>4 DEF ChildStops, ReceiveTstp, RaiseChldIfChanged, Lives, Signals
<1>5. ASSUME NEW p \in Pids, ChildContinues(p) PROVE TypeOK'
  BY <1>5 DEF ChildContinues, ReceiveCont, Die, RaiseChldIfChanged, Lives, Signals
<1> QED
  BY <1>1, <1>2, <1>3, <1>4, <1>5 DEF Environment

LEMMA TypesKept == TypeOK /\ [Next]_vars => TypeOK'
<1>1. ASSUME TypeOK, NEW s \in Signals, Deliver(s) PROVE TypeOK'
  BY <1>1 DEF Deliver, TypeOK, jobVars, childVars, Signals
<1>2. TypeOK /\ UNCHANGED vars => TypeOK'
  BY DEF TypeOK, vars
<1> QED
  BY <1>1, <1>2, MainTypes, HandlerTypes, EnvironmentTypes DEF Next, Terminated

(* Every variable keeps its type: in particular the counter of job IDs     *)
(* never passes the slot after the last, and the table only ever holds     *)
(* process IDs of children.                                                *)
THEOREM Typing == Spec => []TypeOK
<1>1. Init => TypeOK
  BY InitIInv DEF IInv
<1> QED
  BY <1>1, TypesKept, PTL DEF Spec

-----------------------------------------------------------------------------
(* Frames: which actions touch what.                                       *)

(* The job table is written by five actions.                               *)
LEMMA TableFrame ==
    Next => \/ UNCHANGED jobVars
            \/ AddJob \/ FgBgSetState \/ CleanupJobs
            \/ \E p \in Pids : ReapEnded(p) \/ ReapStopped(p)
<1>1. Main => UNCHANGED jobVars \/ AddJob \/ FgBgSetState \/ CleanupJobs
  BY DEF Main, jobVars, EvalLaunch, EvalFgBg, Fork, WaitLoop, Unblock,
     FgBgContinue, EvalJobs, EvalQuit, CleanupSignal
<1>2. Handler => \/ UNCHANGED jobVars
                 \/ \E p \in Pids : ReapEnded(p) \/ ReapStopped(p)
  BY DEF Handler, jobVars, ChldReturns, Forward
<1>3. Environment => UNCHANGED jobVars
  BY DEF Environment, jobVars, Key, ChildSetpgid, ChildExecve, ChildEnds,
     ChildStops, ChildContinues
<1> QED
  BY <1>1, <1>2, <1>3 DEF Next, Deliver, Terminated, vars, jobVars

(* A process ID comes into use in Fork only, and is free again only when   *)
(* the child has been reaped.                                              *)
LEMMA LifeFrame ==
    TypeOK /\ Next =>
        /\ Fork \/ \A p \in Pids : proc[p] = "none" => proc'[p] = "none"
        /\ \/ \E p \in Pids : ReapEnded(p)
           \/ \A p \in Pids : proc'[p] = "none" => proc[p] = "none"
<1> SUFFICES ASSUME TypeOK, Next
             PROVE  /\ Fork \/ \A p \in Pids : proc[p] = "none" => proc'[p] = "none"
                    /\ \/ \E p \in Pids : ReapEnded(p)
                       \/ \A p \in Pids : proc'[p] = "none" => proc[p] = "none"
  OBVIOUS
<1> USE DEF TypeOK, childVars
<1>1. CASE Main
  <2>1. CASE Fork
    BY <2>1 DEF Fork
  <2>2. CASE FgBgContinue
    BY <2>2 DEF FgBgContinue, ReceiveCont, Die
  <2> QED
    BY <1>1, <2>1, <2>2 DEF Main, EvalLaunch, EvalFgBg, AddJob, WaitLoop, Unblock,
       FgBgSetState, EvalJobs, EvalQuit, CleanupSignal, CleanupJobs
<1>2. CASE Handler
  <2>1. ASSUME NEW s \in {"INT", "TSTP"}, Forward(s)
        PROVE  \A p \in Pids : proc'[p] = "none" <=> proc[p] = "none"
    BY <2>1 DEF Forward, ReceiveInt, ReceiveTstp, Die
  <2> QED
    BY <1>2, <2>1 DEF Handler, ReapEnded, ReapStopped, ChldReturns
<1>3. CASE Environment
  BY <1>3 DEF Environment, Key, ChildSetpgid, ChildExecve, ChildEnds, ChildStops,
     ChildContinues, ReceiveCont, ReceiveTstp, Die
<1> QED
  BY <1>1, <1>2, <1>3 DEF Next, Deliver, Terminated, vars

-----------------------------------------------------------------------------
(* The parts of the invariant, one by one.                                 *)

LEMMA MaskKept == TypeOK /\ MaskInv /\ Next => MaskInv'
<1> SUFFICES ASSUME TypeOK, MaskInv, Next PROVE MaskInv'
  OBVIOUS
<1> USE DEF TypeOK, MaskInv
<1>1. CASE Main
  <2>1. CASE WaitLoop
    <3>1. CASE fg_job = 0
      BY <2>1, <3>1 DEF WaitLoop, MainRuns
    <3>2. CASE fg_job # 0
      BY <2>1, <3>2 DEF WaitLoop, MainRuns
    <3> QED
      BY <3>1, <3>2
  <2>2. CASE AddJob
    BY <2>2 DEF AddJob, MainRuns
  <2>3. CASE FgBgContinue \/ FgBgSetState
    BY <2>3 DEF FgBgContinue, FgBgSetState, MainRuns
  <2>4. CASE Fork \/ Unblock \/ EvalJobs \/ EvalQuit \/ CleanupJobs
    BY <2>4 DEF Fork, Unblock, EvalJobs, EvalQuit, CleanupJobs, MainRuns
  <2> QED
    BY <1>1, <2>1, <2>2, <2>3, <2>4
       DEF Main, EvalLaunch, EvalFgBg, CleanupSignal, MainRuns
<1>2. CASE Handler
  <2>1. ASSUME HandlerReturns, handler # "none" PROVE MaskInv'
    <3>1. CASE pc = "suspend"
      BY <2>1, <3>1 DEF HandlerReturns
    <3>2. CASE pc # "suspend"
      BY <2>1, <3>2 DEF HandlerReturns
    <3> QED
      BY <3>1, <3>2
  <2> QED
    BY <1>2, <2>1 DEF Handler, ReapEnded, ReapStopped, ChldReturns, Forward
<1>3. CASE Environment
  BY <1>3 DEF Environment, Key, ChildSetpgid, ChildExecve, ChildEnds,
     ChildStops, ChildContinues
<1> QED
  BY <1>1, <1>2, <1>3 DEF Next, Deliver, MainRuns, Terminated, vars

-----------------------------------------------------------------------------
(* What the updates of the table do to the jobs in it.                     *)

LEMMA AddJobEffect ==
    ASSUME TypeOK, nextjid \in Jids, NEW p, NEW s \in JobStates, add_job(p, s)
    PROVE  /\ Jobs' = Jobs \cup {nextjid}
           /\ job_list'[nextjid] = [pid |-> p, state |-> s]
           /\ \A j \in Jids \ {nextjid} : job_list'[j] = job_list[j]
BY DEF TypeOK, add_job, Jobs, Allocated, JobStates

LEMMA SetStateEffect ==
    ASSUME TypeOK, NEW jid \in Jobs, NEW s \in JobStates, job_set_state(jid, s)
    PROVE  /\ Jobs' = Jobs
           /\ job_list'[jid] = [pid |-> job_list[jid].pid, state |-> s]
           /\ \A j \in Jids \ {jid} : job_list'[j] = job_list[j]
           /\ nextjid' = nextjid
BY DEF TypeOK, job_set_state, Jobs, Allocated, Job, JobStates

LEMMA DeleteEffect ==
    ASSUME TypeOK, NEW jid \in Jobs, delete_job(jid)
    PROVE  /\ Jobs' = Jobs \ {jid}
           /\ \A j \in Jids \ {jid} : job_list'[j] = job_list[j]
           /\ nextjid' = maxjid(job_list') + 1
<1>1. job_exists(jid)
  BY DEF job_exists, Jobs
<1> QED
  BY <1>1 DEF TypeOK, delete_job, clearjob, Jobs, Allocated

(* With a child to report, and the table exposed, the child's job is found. *)
LEMMA LookupSucceeds ==
    ASSUME IInv, Alive, ~masked, NEW p \in Pids, proc[p] # "none"
    PROVE  /\ job_from_pid(p) \in Jobs
           /\ job_list[job_from_pid(p)].pid = p
           /\ job_from_pid(p) # 0
<1>1. \E j \in Jobs : job_list[j].pid = p
  BY DEF IInv, MaskInv, ChildInv
<1> QED
  BY <1>1, JobFromPidFinds

(* The slot add_job is about to use is free. *)
LEMMA NextSlotFree ==
    ASSUME IInv, ~NoRoom
    PROVE  nextjid \in Jids \ Jobs
<1>1. nextjid \in Jids
  BY JobListAssumption DEF IInv, TypeOK, NoRoom, Jids
<1>2. \A j \in Jobs : j < nextjid
  <2>1. \A j \in Jobs : j \in Nat
    BY JobListAssumption DEF Jobs, Allocated, Jids
  <2>2. CASE Jobs = {}
    BY <2>2
  <2>3. CASE maxjid(job_list) \in Jobs /\ \A j \in Jobs : j <= maxjid(job_list)
    BY <2>1, <2>3 DEF IInv, NextIsPastAll
  <2> QED
    BY <2>2, <2>3, MaxjidFinds DEF Jobs
<1> QED
  BY <1>1, <1>2, JobListAssumption DEF Jids

(* The ways a step can leave or change the table, none of them fatal. *)
TableChange ==
    \/ UNCHANGED jobVars /\ ~\E p \in Pids : ReapEnded(p)
    \/ /\ AddJob /\ nextjid \in Jids \ Jobs /\ cur.pid # 0
       /\ add_job(cur.pid, cur.state)
       /\ pc' = IF cur.state = "FG" THEN "wait" ELSE "unblock"
    \/ /\ FgBgSetState /\ cur.jid \in Jobs
       /\ job_set_state(cur.jid, cur.state)
       /\ pc' = IF cur.state = "FG" THEN "wait" ELSE "unblock"
    \/ CleanupJobs
    \/ \E p \in Pids : /\ ReapEnded(p)
                       /\ job_from_pid(p) \in Jobs
                       /\ job_list[job_from_pid(p)].pid = p
                       /\ delete_job(job_from_pid(p))
    \/ \E p \in Pids : /\ ReapStopped(p)
                       /\ job_from_pid(p) \in Jobs
                       /\ job_list[job_from_pid(p)].pid = p
                       /\ job_set_state(job_from_pid(p), "ST")

LEMMA TableStep ==
    ASSUME IInv, Next
    PROVE  TableChange /\ NeverItsOwnFault'
<1> USE DEF NeverItsOwnFault
<1>0. handler = "none" => ~\E p \in Pids : ReapEnded(p)
  BY DEF ReapEnded
<1>1. Alive /\ pc \notin Waiting => fg_job = 0
  BY FgJobFinds DEF IInv, ForegroundInv, Jobs, Allocated
<1>2. CASE AddJob
  <2>1. ~AddIsFatal(cur.state)
    <3>1. ~NoRoom => job_list[nextjid].state = "UNDEF"
      BY NextSlotFree DEF Jobs, Allocated
    <3> QED
      BY <1>1, <1>2, <3>1 DEF AddJob, AddIsFatal
  <2> QED
    BY <1>0, <1>2, <2>1, NextSlotFree DEF AddJob, MainRuns, TableChange
<1>3. CASE FgBgSetState
  <2>1. cur.jid \in Jobs /\ ~SetIsFatal(cur.jid, cur.state)
    BY <1>1, <1>3 DEF FgBgSetState, SetIsFatal, job_exists, Jobs, IInv,
       CommandInv
  <2> QED
    BY <1>3, <2>1 DEF FgBgSetState, TableChange
<1>4. CASE CleanupJobs
  BY <1>4 DEF CleanupJobs, TableChange
<1>5. ASSUME NEW p \in Pids, ReapEnded(p) \/ ReapStopped(p)
      PROVE  TableChange /\ NeverItsOwnFault'
  <2>1. Alive /\ ~masked /\ proc[p] # "none"
    BY <1>5 DEF ReapEnded, ReapStopped, IInv, MaskInv, StopInv
  <2>2. /\ job_from_pid(p) \in Jobs
        /\ job_list[job_from_pid(p)].pid = p
        /\ job_from_pid(p) # 0
    BY <2>1, LookupSucceeds
  <2>3. ~SetIsFatal(job_from_pid(p), "ST")
    BY <2>2 DEF SetIsFatal, job_exists, Jobs
  <2>4. CASE ReapEnded(p)
    BY <2>1, <2>2, <2>4 DEF ReapEnded, TableChange
  <2>5. CASE ReapStopped(p)
    BY <2>1, <2>2, <2>3, <2>5 DEF ReapStopped, TableChange
  <2> QED
    BY <1>5, <2>4, <2>5
<1>6. CASE UNCHANGED jobVars /\ ~AddJob /\ ~FgBgSetState
           /\ ~\E p \in Pids : ReapEnded(p) \/ ReapStopped(p)
  <2>1. pc' \notin Crashed
    <3>1. CASE Main
      BY <1>6, <3>1 DEF Main, EvalLaunch, EvalFgBg, Fork, WaitLoop, Unblock,
         FgBgContinue, EvalJobs, EvalQuit, CleanupSignal, CleanupJobs, MainRuns
    <3>2. CASE Handler
      BY <1>6, <3>2 DEF Handler, ChldReturns, Forward, HandlerReturns
    <3>3. CASE Environment
      BY <3>3 DEF Environment, Key, ChildSetpgid, ChildExecve, ChildEnds,
         ChildStops, ChildContinues
    <3> QED
      BY <3>1, <3>2, <3>3 DEF Next, Deliver, MainRuns, Terminated, vars, IInv
  <2>2. ~\E p \in Pids : ReapEnded(p)
    BY <1>6
  <2> QED
    BY <1>6, <2>1, <2>2 DEF TableChange
<1> QED
  BY <1>2, <1>3, <1>4, <1>5, <1>6, TableFrame

-----------------------------------------------------------------------------
LEMMA DestroyEffect == destroy_job_list => Jobs' = {} /\ nextjid' = 1
BY DEF destroy_job_list, clearjob, Jobs, Allocated

LEMMA JobsKept == ASSUME IInv, Next PROVE JobsAreChildren'
<1> USE DEF JobsAreChildren
<1>1. TypeOK /\ JobsAreChildren /\ TableChange
  BY TableStep DEF IInv
<1>2. CASE UNCHANGED jobVars /\ ~\E p \in Pids : ReapEnded(p)
  <2>1. \A p \in Pids : proc[p] # "none" => proc'[p] # "none"
    BY <1>1, <1>2, LifeFrame
  <2>2. \A j \in Jobs : job_list[j].pid \in Pids
    BY <1>1 DEF TypeOK, Job, Jobs, Allocated
  <2>3. Jobs' = Jobs /\ job_list' = job_list
    BY <1>2 DEF jobVars, Jobs, Allocated
  <2> QED
    BY <1>1, <2>1, <2>2, <2>3
<1>3. CASE AddJob /\ nextjid \in Jids \ Jobs /\ cur.pid # 0
           /\ add_job(cur.pid, cur.state)
  <2>1. proc' = proc /\ pc = "add"
    BY <1>3 DEF AddJob, childVars
  <2>2. cur.state \in JobStates
    BY <1>1 DEF TypeOK, Command, JobStates
  <2>3. /\ Jobs' = Jobs \cup {nextjid}
        /\ job_list'[nextjid] = [pid |-> cur.pid, state |-> cur.state]
        /\ \A j \in Jids \ {nextjid} : job_list'[j] = job_list[j]
    BY <1>1, <1>3, <2>2, AddJobEffect
  <2>4. proc[cur.pid] # "none" /\ \A j \in Jobs : job_list[j].pid # cur.pid
    BY <1>3, <2>1 DEF IInv, CommandInv
  <2>5. \A j \in Jobs : j \in Jids \ {nextjid}
    BY <1>3 DEF Jobs, Allocated
  <2> QED
    BY <1>1, <1>3, <2>1, <2>3, <2>4, <2>5
<1>4. ASSUME NEW jid \in Jobs, NEW s \in JobStates, job_set_state(jid, s),
             proc' = proc
      PROVE  JobsAreChildren'
  <2>1. /\ Jobs' = Jobs
        /\ job_list'[jid] = [pid |-> job_list[jid].pid, state |-> s]
        /\ \A j \in Jids \ {jid} : job_list'[j] = job_list[j]
    BY <1>1, <1>4, SetStateEffect
  <2>2. \A j \in Jobs : j \in Jids /\ job_list'[j].pid = job_list[j].pid
    BY <2>1 DEF Jobs, Allocated
  <2> QED
    BY <1>1, <1>4, <2>1, <2>2
<1>5. CASE CleanupJobs
  BY <1>5, DestroyEffect DEF CleanupJobs
<1>6. ASSUME NEW p \in Pids, ReapEnded(p),
             job_from_pid(p) \in Jobs, job_list[job_from_pid(p)].pid = p,
             delete_job(job_from_pid(p))
      PROVE  JobsAreChildren'
  <2>1. /\ Jobs' = Jobs \ {job_from_pid(p)}
        /\ \A j \in Jobs' : job_list'[j] = job_list[j]
    BY <1>1, <1>6, DeleteEffect DEF Jobs, Allocated
  <2>2. \A j \in Jobs' : job_list[j].pid # p
    BY <1>1, <1>6, <2>1
  <2>3. \A q \in Pids : q # p => proc'[q] = proc[q]
    BY <1>1, <1>6 DEF ReapEnded, TypeOK
  <2>4. \A j \in Jobs : job_list[j].pid \in Pids
    BY <1>1 DEF TypeOK, Job, Jobs, Allocated
  <2> QED
    BY <1>1, <2>1, <2>2, <2>3, <2>4
<1>7. CASE FgBgSetState /\ cur.jid \in Jobs /\ job_set_state(cur.jid, cur.state)
  <2>1. proc' = proc /\ cur.state \in JobStates
    BY <1>1, <1>7 DEF FgBgSetState, childVars, TypeOK, Command, JobStates
  <2> QED
    BY <1>4, <1>7, <2>1
<1>8. ASSUME NEW p \in Pids, ReapStopped(p), job_from_pid(p) \in Jobs,
             job_set_state(job_from_pid(p), "ST")
      PROVE  JobsAreChildren'
  <2>1. proc' = proc /\ "ST" \in JobStates
    BY <1>8 DEF ReapStopped, JobStates
  <2> QED
    BY <1>4, <1>8, <2>1
<1> QED
  BY <1>1, <1>2, <1>3, <1>5, <1>6, <1>7, <1>8 DEF TableChange

(* While a child waits to be added, only AddJob moves main on. *)
LEMMA AddFrame ==
    Next /\ pc \in {"add", "refused"} =>
        \/ AddJob
        \/ pc' = pc /\ cur' = cur
        \/ pc' \in Dead
<1> SUFFICES ASSUME Next, pc \in {"add", "refused"}
             PROVE  AddJob \/ (pc' = pc /\ cur' = cur) \/ pc' \in Dead
  OBVIOUS
<1>1. CASE Main
  BY <1>1 DEF Main, EvalLaunch, EvalFgBg, Fork, WaitLoop, Unblock, FgBgContinue,
     FgBgSetState, EvalJobs, EvalQuit, CleanupSignal, CleanupJobs
<1>2. CASE Handler
  BY <1>2 DEF Handler, HandlerReturns, ReapEnded, ReapStopped, ChldReturns, Forward
<1>3. CASE Environment
  BY <1>3 DEF Environment, Key, ChildSetpgid, ChildExecve, ChildEnds, ChildStops,
     ChildContinues
<1> QED
  BY <1>1, <1>2, <1>3 DEF Next, Deliver, Terminated, vars

(* A shell that has ended does nothing any more. *)
LEMMA DeadFrame == Next /\ ~Alive => UNCHANGED vars
<1>1. ~Alive => ~Main /\ ~Handler /\ ~Environment /\ ~\E s \in Signals : Deliver(s)
  BY DEF Main, MainRuns, EvalLaunch, EvalFgBg, Fork, AddJob, WaitLoop, Unblock,
     FgBgContinue, FgBgSetState, EvalJobs, EvalQuit, CleanupSignal, CleanupJobs,
     Handler, ReapEnded, ReapStopped, ChldReturns, Forward,
     Environment, Key, ChildSetpgid, ChildExecve, ChildEnds, ChildStops,
     ChildContinues, Deliver
<1> QED
  BY <1>1 DEF Next, Terminated

LEMMA ChildKept == ASSUME IInv, Next PROVE ChildInv'
<1> DEFINE Listed(p) == \E j \in Jobs : job_list[j].pid = p
<1>1. TypeOK /\ ChildInv /\ TableChange
  BY TableStep DEF IInv
<1> SUFFICES ASSUME Alive', NEW p \in Pids, proc'[p] # "none"
             PROVE  Listed(p)' \/ (pc' \in {"add", "refused"} /\ p = cur'.pid)
  BY DEF ChildInv
<1>2. CASE UNCHANGED jobVars /\ ~\E q \in Pids : ReapEnded(q)
  <2>1. Listed(p)' <=> Listed(p)
    BY <1>2 DEF jobVars, Jobs, Allocated
  <2>2. CASE Fork
    <3>1. CASE proc[p] = "none"
      BY <1>1, <2>2, <3>1 DEF Fork, TypeOK, Command
    <3>2. CASE proc[p] # "none"
      BY <1>1, <2>1, <2>2, <3>2 DEF Fork, ChildInv, MainRuns
    <3> QED
      BY <3>1, <3>2
  <2>3. CASE ~Fork
    <3>1. proc[p] # "none" /\ Alive
      BY <1>1, <2>3, LifeFrame, DeadFrame DEF vars
    <3>2. CASE Listed(p)
      BY <2>1, <3>2
    <3>3. CASE pc \in {"add", "refused"} /\ p = cur.pid
      <4>1. CASE AddJob
        BY <1>2, <3>3, <4>1, JobListAssumption, <1>1
           DEF AddJob, add_job, jobVars, TypeOK
      <4> QED
        BY <3>3, <4>1, AddFrame
    <3> QED
      BY <1>1, <3>1, <3>2, <3>3 DEF ChildInv
  <2> QED
    BY <2>2, <2>3
<1>3. CASE AddJob /\ nextjid \in Jids \ Jobs /\ add_job(cur.pid, cur.state)
  <2>1. proc' = proc /\ pc = "add" /\ Alive
    BY <1>3 DEF AddJob, MainRuns, childVars
  <2>2. cur.state \in JobStates
    BY <1>1 DEF TypeOK, Command, JobStates
  <2>3. /\ Jobs' = Jobs \cup {nextjid}
        /\ job_list'[nextjid] = [pid |-> cur.pid, state |-> cur.state]
        /\ \A j \in Jids \ {nextjid} : job_list'[j] = job_list[j]
    BY <1>1, <1>3, <2>2, AddJobEffect
  <2>4. \A j \in Jobs : j \in Jids \ {nextjid}
    BY <1>3 DEF Jobs, Allocated
  <2>5. Listed(p) \/ p = cur.pid
    BY <1>1, <2>1 DEF ChildInv
  <2> QED
    BY <2>3, <2>4, <2>5
<1>4. ASSUME NEW jid \in Jobs, NEW s \in JobStates, job_set_state(jid, s),
             pc \notin {"add", "refused"}, proc' = proc, Alive
      PROVE  Listed(p)'
  <2>1. /\ Jobs' = Jobs
        /\ job_list'[jid] = [pid |-> job_list[jid].pid, state |-> s]
        /\ \A j \in Jids \ {jid} : job_list'[j] = job_list[j]
    BY <1>1, <1>4, SetStateEffect
  <2>2. \A j \in Jobs : j \in Jids /\ job_list'[j].pid = job_list[j].pid
    BY <2>1 DEF Jobs, Allocated
  <2> QED
    BY <1>1, <1>4, <2>1, <2>2 DEF ChildInv
<1>5. CASE FgBgSetState /\ cur.jid \in Jobs /\ job_set_state(cur.jid, cur.state)
  <2>1. /\ proc' = proc /\ cur.state \in JobStates /\ Alive
        /\ pc \notin {"add", "refused"}
    BY <1>1, <1>5 DEF FgBgSetState, MainRuns, childVars, TypeOK, Command, JobStates
  <2> QED
    BY <1>4, <1>5, <2>1
<1>6. CASE CleanupJobs
  BY <1>6 DEF CleanupJobs
<1>7. ASSUME NEW q \in Pids, ReapStopped(q), job_from_pid(q) \in Jobs,
             job_set_state(job_from_pid(q), "ST")
      PROVE  Listed(p)'
  <2>1. proc' = proc /\ "ST" \in JobStates /\ Alive
    BY <1>7 DEF ReapStopped, JobStates
  <2>2. pc \notin {"add", "refused"}
    BY <1>7 DEF ReapStopped, IInv, MaskInv
  <2> QED
    BY <1>4, <1>7, <2>1, <2>2
<1>8. ASSUME NEW q \in Pids, ReapEnded(q),
             job_from_pid(q) \in Jobs, job_list[job_from_pid(q)].pid = q,
             delete_job(job_from_pid(q))
      PROVE  Listed(p)'
  <2>1. /\ Jobs' = Jobs \ {job_from_pid(q)}
        /\ \A j \in Jids \ {job_from_pid(q)} : job_list'[j] = job_list[j]
    BY <1>1, <1>8, DeleteEffect
  <2>2. p # q /\ proc[p] # "none" /\ Alive
    BY <1>1, <1>8 DEF ReapEnded, TypeOK
  <2>3. pc \notin {"add", "refused"}
    BY <1>8 DEF ReapEnded, IInv, MaskInv
  <2>4. PICK j \in Jobs : job_list[j].pid = p
    BY <1>1, <2>2, <2>3 DEF ChildInv
  <2>5. j \in Jids \ {job_from_pid(q)}
    BY <1>8, <2>2, <2>4 DEF Jobs, Allocated
  <2> QED
    BY <2>1, <2>4, <2>5
<1> QED
  BY <1>1, <1>2, <1>3, <1>5, <1>6, <1>7, <1>8 DEF TableChange

LEMMA NextKept == ASSUME IInv, Next PROVE NextIsPastAll'
<1> USE DEF NextIsPastAll
<1>1. TypeOK /\ NextIsPastAll /\ TableChange
  BY TableStep DEF IInv
<1>2. CASE UNCHANGED jobVars
  BY <1>1, <1>2 DEF jobVars, maxjid, Allocated
<1>3. CASE nextjid \in Jids \ Jobs /\ add_job(cur.pid, cur.state)
  <2>1. cur.state \in JobStates
    BY <1>1 DEF TypeOK, Command, JobStates
  <2>2. Jobs' = Jobs \cup {nextjid}
    BY <1>1, <1>3, <2>1, AddJobEffect
  <2>3. nextjid \in Nat /\ \A j \in Jobs' : j \in Nat
    BY <1>3, JobListAssumption DEF Jobs, Allocated, Jids
  <2>4. \A j \in Jobs : j < nextjid
    <3>1. CASE Jobs = {}
      BY <3>1
    <3>2. CASE maxjid(job_list) \in Jobs /\ \A j \in Jobs : j <= maxjid(job_list)
      BY <1>1, <2>2, <2>3, <3>2
    <3> QED
      BY <3>1, <3>2, MaxjidFinds DEF Jobs
  <2>5. maxjid(job_list') \in Jobs' /\ \A j \in Jobs' : j <= maxjid(job_list')
    BY <2>2, MaxjidFinds DEF Jobs, Allocated
  <2>6. maxjid(job_list') = nextjid
    BY <2>2, <2>3, <2>4, <2>5
  <2> QED
    BY <1>3, <2>6 DEF add_job
<1>4. ASSUME NEW jid \in Jobs, NEW s \in JobStates, job_set_state(jid, s)
      PROVE  NextIsPastAll'
  <2>1. Jobs' = Jobs /\ nextjid' = nextjid
    BY <1>1, <1>4, SetStateEffect
  <2> QED
    BY <1>1, <2>1 DEF maxjid, Jobs
<1>5. CASE CleanupJobs
  <2>1. Jobs' = {} /\ nextjid' = 1
    BY <1>5, DestroyEffect DEF CleanupJobs
  <2> QED
    BY <2>1 DEF maxjid, Jobs
<1>6. ASSUME NEW jid \in Jobs, delete_job(jid) PROVE NextIsPastAll'
  BY <1>1, <1>6, DeleteEffect
<1>7. cur.state \in JobStates /\ "ST" \in JobStates
  BY <1>1 DEF TypeOK, Command, JobStates
<1> QED
  BY <1>1, <1>2, <1>3, <1>4, <1>5, <1>6, <1>7 DEF TableChange

LEMMA CommandKept == ASSUME IInv, Next PROVE CommandInv'
<1>1. TypeOK /\ MaskInv /\ CommandInv /\ JobsAreChildren /\ TableChange
  BY TableStep DEF IInv
<1>2. CASE Fork
  <2>1. Jobs' = Jobs /\ job_list' = job_list /\ pc' = "add" /\ pc = "fork"
    BY <1>2 DEF Fork, jobVars, Jobs, Allocated
  <2>2. ASSUME cur'.pid # 0
        PROVE  proc'[cur'.pid] # "none" /\ proc[cur'.pid] = "none"
    BY <1>1, <1>2, <2>1, <2>2 DEF Fork, TypeOK, Command, CommandInv
  <2> QED
    BY <1>1, <2>1, <2>2 DEF CommandInv, JobsAreChildren
<1>3. CASE FgBgContinue
  <2>1. pc' = "setstate" => cur'.jid \in Jobs
    BY <1>1, <1>3 DEF FgBgContinue, job_exists, Jobs, Allocated, TypeOK, Command
  <2>2. Jobs' = Jobs /\ pc' \notin {"fork", "add"}
    BY <1>3 DEF FgBgContinue, jobVars, Jobs, Allocated
  <2> QED
    BY <2>1, <2>2 DEF CommandInv
<1>4. CASE pc' \notin {"fork", "add", "setstate"}
  BY <1>4 DEF CommandInv
<1>5. ASSUME NEW state \in {"FG", "BG"}, EvalLaunch(state) PROVE CommandInv'
  BY <1>5 DEF EvalLaunch, NoCommand, CommandInv
<1>6. CASE pc' = pc /\ cur' = cur /\ masked /\ Next /\ ~Fork
  <2>1. Jobs' = Jobs /\ job_list' = job_list
    <3>1. UNCHANGED jobVars
      BY <1>1, <1>6, TableFrame DEF AddJob, FgBgSetState, CleanupJobs, ReapEnded,
         ReapStopped, MaskInv, MainRuns
    <3> QED
      BY <3>1 DEF jobVars, Jobs, Allocated
  <2>2. \A p \in Pids : proc[p] # "none" => proc'[p] # "none"
    BY <1>1, <1>6, LifeFrame DEF ReapEnded, MaskInv
  <2> QED
    BY <1>1, <1>6, <2>1, <2>2 DEF CommandInv, TypeOK, Command
<1> QED
  <2>1. ASSUME pc' \in {"fork", "add", "setstate"}
        PROVE  \/ Fork \/ FgBgContinue
               \/ \E state \in {"FG", "BG"} : EvalLaunch(state)
               \/ pc' = pc /\ cur' = cur /\ masked
    <3>1. CASE Main
      BY <1>1, <2>1, <3>1 DEF Main, EvalFgBg, AddJob, WaitLoop, Unblock,
         FgBgSetState, EvalJobs, EvalQuit, CleanupSignal, CleanupJobs, MainRuns
    <3>2. CASE Handler
      BY <1>1, <2>1, <3>2 DEF Handler, HandlerReturns, ReapEnded, ReapStopped,
         ChldReturns, Forward, MaskInv
    <3>3. CASE Environment
      BY <1>1, <2>1, <3>3 DEF Environment, Key, ChildSetpgid, ChildExecve,
         ChildEnds, ChildStops, ChildContinues, MaskInv
    <3> QED
      BY <1>1, <2>1, <3>1, <3>2, <3>3 DEF Next, Deliver, MaskInv, Terminated, vars
  <2> QED
    BY <1>2, <1>3, <1>4, <1>5, <1>6, <2>1

LEMMA ForegroundKept == ASSUME IInv, Next PROVE ForegroundInv'
<1>1. TypeOK /\ ForegroundInv /\ TableChange
  BY TableStep DEF IInv
<1>2. CASE UNCHANGED jobVars
  <2>1. Jobs' = Jobs /\ job_list' = job_list
    BY <1>2 DEF jobVars, Jobs, Allocated
  <2>2. CASE WaitLoop
    <3>1. CASE fg_job = 0
      <4>1. \A j \in Jobs : job_list[j].state # "FG"
        BY <3>1, FgJobFinds, JobListAssumption DEF Jobs, Allocated, Jids
      <4> QED
        BY <1>1, <2>1, <4>1 DEF ForegroundInv
    <3>2. CASE fg_job # 0
      BY <1>1, <2>1, <2>2, <3>2 DEF WaitLoop, ForegroundInv
    <3> QED
      BY <3>1, <3>2
  <2>3. CASE pc \in Waiting /\ ~WaitLoop
    <3>1. pc' \in Waiting \/ pc' \in Dead
      BY <2>3 DEF Next, Main, Handler, Environment, Deliver, Terminated, vars,
         EvalLaunch, EvalFgBg, Fork, AddJob, Unblock, FgBgContinue, FgBgSetState,
         EvalJobs, EvalQuit, CleanupSignal, CleanupJobs, HandlerReturns,
         ReapEnded, ReapStopped, ChldReturns, Forward, Key, ChildSetpgid,
         ChildExecve, ChildEnds, ChildStops, ChildContinues
    <3> QED
      BY <1>1, <2>1, <3>1 DEF ForegroundInv
  <2>4. CASE pc \notin Waiting
    BY <1>1, <2>1, <2>4, DeadFrame DEF ForegroundInv, vars
  <2> QED
    BY <2>2, <2>3, <2>4
<1>3. ASSUME NEW jid \in Jids, NEW s \in JobStates,
             \A j \in Jobs' \ {jid} : j \in Jobs /\ job_list'[j] = job_list[j],
             job_list'[jid].state = s,
             s = "FG" => pc' = "wait" /\ Alive /\ pc \notin Waiting,
             Alive' => Alive,
             s # "FG" => pc' = pc \/ (Alive /\ pc \notin Waiting)
      PROVE  ForegroundInv'
  BY <1>1, <1>3 DEF ForegroundInv
<1>4. CASE AddJob /\ nextjid \in Jids \ Jobs /\ add_job(cur.pid, cur.state)
           /\ pc' = IF cur.state = "FG" THEN "wait" ELSE "unblock"
  <2>1. cur.state \in JobStates /\ Alive /\ pc \notin Waiting
    BY <1>1, <1>4 DEF AddJob, MainRuns, TypeOK, Command, JobStates
  <2>2. /\ Jobs' = Jobs \cup {nextjid}
        /\ job_list'[nextjid] = [pid |-> cur.pid, state |-> cur.state]
        /\ \A j \in Jids \ {nextjid} : job_list'[j] = job_list[j]
    BY <1>1, <1>4, <2>1, AddJobEffect
  <2>3. \A j \in Jobs : j \in Jids
    BY DEF Jobs, Allocated
  <2> QED
    BY <1>3, <1>4, <2>1, <2>2, <2>3
<1>5. CASE FgBgSetState /\ cur.jid \in Jobs /\ job_set_state(cur.jid, cur.state)
           /\ pc' = IF cur.state = "FG" THEN "wait" ELSE "unblock"
  <2>1. cur.state \in JobStates /\ Alive /\ pc \notin Waiting
    BY <1>1, <1>5 DEF FgBgSetState, MainRuns, TypeOK, Command, JobStates
  <2>2. /\ Jobs' = Jobs
        /\ job_list'[cur.jid] = [pid |-> job_list[cur.jid].pid, state |-> cur.state]
        /\ \A j \in Jids \ {cur.jid} : job_list'[j] = job_list[j]
    BY <1>1, <1>5, <2>1, SetStateEffect
  <2>3. \A j \in Jobs : j \in Jids
    BY DEF Jobs, Allocated
  <2> QED
    BY <1>3, <1>5, <2>1, <2>2, <2>3
<1>6. CASE CleanupJobs
  BY <1>6, DestroyEffect DEF CleanupJobs, ForegroundInv
<1>7. ASSUME NEW p \in Pids, ReapEnded(p), job_from_pid(p) \in Jobs,
             delete_job(job_from_pid(p))
      PROVE  ForegroundInv'
  <2>1. /\ Jobs' = Jobs \ {job_from_pid(p)}
        /\ \A j \in Jids \ {job_from_pid(p)} : job_list'[j] = job_list[j]
    BY <1>1, <1>7, DeleteEffect
  <2>2. \A j \in Jobs' : j \in Jobs /\ job_list'[j] = job_list[j]
    BY <2>1 DEF Jobs, Allocated
  <2>3. Alive /\ (pc' = pc \/ pc' \in Dead)
    BY <1>7 DEF ReapEnded
  <2> QED
    BY <1>1, <2>2, <2>3 DEF ForegroundInv
<1>8. ASSUME NEW p \in Pids, ReapStopped(p), job_from_pid(p) \in Jobs,
             job_set_state(job_from_pid(p), "ST")
      PROVE  ForegroundInv'
  <2>1. /\ Jobs' = Jobs
        /\ job_list'[job_from_pid(p)] =
              [pid |-> job_list[job_from_pid(p)].pid, state |-> "ST"]
        /\ \A j \in Jids \ {job_from_pid(p)} : job_list'[j] = job_list[j]
    BY <1>1, <1>8, SetStateEffect DEF JobStates
  <2>2. \A j \in Jobs : j \in Jids
    BY DEF Jobs, Allocated
  <2>3. Alive /\ (pc' = pc \/ pc' \in Dead)
    BY <1>8 DEF ReapStopped
  <2> QED
    BY <1>1, <1>8, <2>1, <2>2, <2>3 DEF ForegroundInv
<1> QED
  BY <1>1, <1>2, <1>4, <1>5, <1>6, <1>7, <1>8 DEF TableChange

(* What a step may do to the stops of children: a stop is new, or was      *)
(* there before; only ReapStopped takes a report away and leaves the child *)
(* stopped.                                                                *)
LEMMA StopFrame ==
    ASSUME TypeOK, StopInv, Next
    PROVE  /\ \A p \in unreported' : proc'[p] = "stopped"
           /\ \A p \in Pids : proc'[p] = "stopped" /\ p \notin unreported' =>
                 proc[p] = "stopped" /\ (p \in unreported => ReapStopped(p))
<1> USE DEF TypeOK
<1>1. \A p \in unreported : proc[p] = "stopped"
  BY DEF StopInv
<1>2. CASE Main
  <2>1. CASE FgBgContinue
    BY <1>1, <2>1 DEF FgBgContinue, ReceiveCont, Die
  <2>2. CASE Fork
    BY <1>1, <2>2 DEF Fork
  <2> QED
    BY <1>1, <1>2, <2>1, <2>2 DEF Main, EvalLaunch, EvalFgBg, AddJob, WaitLoop,
       Unblock, FgBgSetState, EvalJobs, EvalQuit, CleanupSignal, CleanupJobs,
       childVars
<1>3. CASE Handler
  <2>1. ASSUME NEW s \in {"INT", "TSTP"}, Forward(s)
        PROVE  /\ \A p \in unreported' : proc'[p] = "stopped"
               /\ \A p \in Pids : proc'[p] = "stopped" /\ p \notin unreported' =>
                     proc[p] = "stopped" /\ p \notin unreported
    BY <1>1, <2>1 DEF Forward, ReceiveInt, ReceiveTstp, Die
  <2>2. ASSUME NEW q \in Pids, ReapEnded(q)
        PROVE  /\ \A p \in unreported' : proc'[p] = "stopped"
               /\ \A p \in Pids : proc'[p] = "stopped" /\ p \notin unreported' =>
                     proc[p] = "stopped" /\ p \notin unreported
    BY <1>1, <2>2 DEF ReapEnded
  <2>3. ASSUME NEW q \in Pids, ReapStopped(q)
        PROVE  /\ \A p \in unreported' : proc'[p] = "stopped"
               /\ \A p \in Pids : proc'[p] = "stopped" /\ p \notin unreported' =>
                     proc[p] = "stopped" /\ (p \in unreported => p = q)
    BY <1>1, <2>3 DEF ReapStopped
  <2> QED
    BY <1>1, <1>3, <2>1, <2>2, <2>3 DEF Handler, ChldReturns, childVars
<1>4. CASE Environment
  BY <1>1, <1>4 DEF Environment, Key, ChildSetpgid, ChildExecve, ChildEnds,
     ChildStops, ChildContinues, ReceiveCont, ReceiveTstp, Die
<1> QED
  BY <1>1, <1>2, <1>3, <1>4 DEF Next, Deliver, Terminated, vars, childVars

LEMMA StopKept == ASSUME IInv, Next PROVE StopInv'
<1>1. TypeOK /\ MaskInv /\ StopInv /\ JobsAreChildren /\ TableChange
  BY TableStep DEF IInv
<1>2. \A j \in Jobs : j \in Jids
  BY DEF Jobs, Allocated
<1> SUFFICES ASSUME Alive', NEW p \in Pids, proc'[p] = "stopped", p \notin unreported'
             PROVE  \E j \in Jobs' : /\ job_list'[j] = [pid |-> p, state |-> "ST"]
                                     /\ ~(pc' = "setstate" /\ cur'.jid = j)
  BY <1>1, StopFrame DEF StopInv
<1>3. Alive
  BY DeadFrame DEF vars
<1>4. CASE p \in unreported
  <2>1. ReapStopped(p) /\ proc[p] = "stopped"
    BY <1>1, <1>4, StopFrame
  <2>2. ~masked
    BY <1>1, <2>1 DEF ReapStopped, MaskInv
  <2>3. job_from_pid(p) \in Jobs /\ job_list[job_from_pid(p)].pid = p
    BY <1>3, <2>1, <2>2, LookupSucceeds
  <2>4. job_set_state(job_from_pid(p), "ST") /\ pc' = pc
    BY <2>1, <2>3 DEF ReapStopped, SetIsFatal, job_exists, Jobs
  <2>5. Jobs' = Jobs /\ job_list'[job_from_pid(p)] = [pid |-> p, state |-> "ST"]
    BY <1>1, <2>3, <2>4, SetStateEffect DEF JobStates
  <2> QED
    BY <1>1, <2>2, <2>3, <2>4, <2>5 DEF MaskInv
<1>5. CASE p \notin unreported
  <2>1. PICK j \in Jobs : /\ job_list[j] = [pid |-> p, state |-> "ST"]
                          /\ ~(pc = "setstate" /\ cur.jid = j)
    BY <1>1, <1>3, <1>5, StopFrame DEF StopInv
  <2>2. ~(pc' = "setstate" /\ cur'.jid = j)
    <3>1. CASE FgBgContinue
      BY <1>1, <2>1, <3>1 DEF FgBgContinue, ReceiveCont, Die, job_get_pid, TypeOK,
         Command
    <3>2. CASE Main /\ ~FgBgContinue
      BY <2>1, <3>2 DEF Main, EvalLaunch, EvalFgBg, Fork, AddJob, WaitLoop,
         Unblock, FgBgSetState, EvalJobs, EvalQuit, CleanupSignal, CleanupJobs,
         MainRuns
    <3>3. CASE Handler
      BY <2>1, <3>3 DEF Handler, HandlerReturns, ReapEnded, ReapStopped,
         ChldReturns, Forward
    <3>4. CASE Environment
      BY <2>1, <3>4 DEF Environment, Key, ChildSetpgid, ChildExecve, ChildEnds,
         ChildStops, ChildContinues
    <3> QED
      BY <2>1, <3>1, <3>2, <3>3, <3>4 DEF Next, Deliver, Terminated, vars
  <2>3. j \in Jobs' /\ job_list'[j] = job_list[j]
    <3>1. CASE UNCHANGED jobVars
      BY <3>1 DEF jobVars, Jobs, Allocated
    <3>2. CASE nextjid \in Jids \ Jobs /\ add_job(cur.pid, cur.state)
      BY <1>1, <1>2, <3>2, AddJobEffect DEF TypeOK, Command, JobStates
    <3>3. CASE FgBgSetState /\ cur.jid \in Jobs /\ job_set_state(cur.jid, cur.state)
      <4>1. cur.jid # j /\ cur.state \in JobStates
        BY <1>1, <2>1, <3>3 DEF FgBgSetState, TypeOK, Command, JobStates
      <4> QED
        BY <1>1, <1>2, <3>3, <4>1, SetStateEffect
    <3>4. CASE CleanupJobs
      BY <3>4 DEF CleanupJobs
    <3>5. ASSUME NEW q \in Pids, ReapEnded(q), job_from_pid(q) \in Jobs,
                 job_list[job_from_pid(q)].pid = q, delete_job(job_from_pid(q))
          PROVE  j \in Jobs' /\ job_list'[j] = job_list[j]
      <4>1. j # job_from_pid(q)
        BY <1>1, <2>1, <3>5 DEF ReapEnded, TypeOK
      <4> QED
        BY <1>1, <1>2, <3>5, <4>1, DeleteEffect
    <3>6. ASSUME NEW q \in Pids, ReapStopped(q), job_from_pid(q) \in Jobs,
                 job_set_state(job_from_pid(q), "ST")
          PROVE  j \in Jobs' /\ job_list'[j] = job_list[j]
      <4>1. /\ Jobs' = Jobs
            /\ job_list'[job_from_pid(q)] =
                  [pid |-> job_list[job_from_pid(q)].pid, state |-> "ST"]
            /\ \A k \in Jids \ {job_from_pid(q)} : job_list'[k] = job_list[k]
        BY <1>1, <3>6, SetStateEffect DEF JobStates
      <4> QED
        BY <1>2, <2>1, <4>1
    <3> QED
      BY <1>1, <3>1, <3>2, <3>3, <3>4, <3>5, <3>6 DEF TableChange
  <2> QED
    BY <2>1, <2>2, <2>3
<1> QED
  BY <1>4, <1>5

(* Whatever makes a child waitable raises SIGCHLD. *)
LEMMA ReportKept == ASSUME IInv, Next PROVE NoReportLost'
<1>1. TypeOK /\ NoReportLost
  BY DEF IInv
<1> SUFFICES ASSUME Alive', "CHLD" \in handlers', Waitable' # {}, handler' # "CHLD"
             PROVE  "CHLD" \in pending'
  BY DEF NoReportLost
<1> USE DEF TypeOK, NoReportLost, childVars
<1>2. Alive
  BY DeadFrame DEF vars
<1>3. CASE Main
  <2>1. CASE FgBgContinue
    BY <1>1, <1>2, <2>1 DEF FgBgContinue, MainRuns, ReceiveCont, Die,
       RaiseChldIfChanged, Waitable
  <2>2. CASE Fork
    BY <1>1, <1>2, <2>2 DEF Fork, MainRuns, Waitable
  <2> QED
    BY <1>1, <1>2, <1>3, <2>1, <2>2 DEF Main, MainRuns, EvalLaunch, EvalFgBg,
       AddJob, WaitLoop, Unblock, FgBgSetState, EvalJobs, EvalQuit,
       CleanupSignal, CleanupJobs, Waitable
<1>4. CASE Handler
  <2>1. ASSUME NEW s \in {"INT", "TSTP"}, Forward(s) PROVE "CHLD" \in pending'
    BY <1>1, <1>2, <2>1 DEF Forward, ReceiveInt, ReceiveTstp, Die,
       RaiseChldIfChanged, Waitable
  <2> QED
    BY <1>1, <1>2, <1>4, <2>1 DEF Handler, ReapEnded, ReapStopped, ChldReturns,
       HandlerReturns, Waitable
<1>5. CASE Environment
  <2>1. ASSUME NEW s \in {"INT", "TSTP", "QUIT"}, Key(s) PROVE "CHLD" \in pending'
    BY <1>1, <1>2, <2>1 DEF Key, Waitable
  <2>2. ASSUME NEW p \in Pids, ChildEnds(p) \/ ChildStops(p) \/ ChildContinues(p)
        PROVE  "CHLD" \in pending'
    BY <1>1, <1>2, <2>2 DEF ChildEnds, ChildStops, ChildContinues, ReceiveCont,
       ReceiveTstp, Die, RaiseChldIfChanged, Waitable
  <2> QED
    BY <1>1, <1>2, <1>5, <2>1, <2>2
       DEF Environment, ChildSetpgid, ChildExecve, Waitable
<1>6. ASSUME NEW s \in Signals, Deliver(s) PROVE "CHLD" \in pending'
  BY <1>1, <1>2, <1>6 DEF Deliver, MainRuns, Waitable
<1> QED
  BY <1>1, <1>2, <1>3, <1>4, <1>5, <1>6 DEF Next, Terminated

-----------------------------------------------------------------------------
(* IInv is an invariant: the conjunction of the facts about masking, the   *)
(* command in hand, the table and the children that support one another.   *)
THEOREM Invariance == Spec => []IInv
<1>1. IInv /\ [Next]_vars => IInv'
  <2>1. ASSUME IInv, Next PROVE IInv'
    <3>1. TypeOK' /\ MaskInv'
      BY <2>1, TypesKept, MaskKept DEF IInv
    <3>2. NeverItsOwnFault'
      BY <2>1, TableStep
    <3>3. CommandInv' /\ JobsAreChildren' /\ ChildInv'
      BY <2>1, CommandKept, JobsKept, ChildKept
    <3>4. StopInv' /\ ForegroundInv' /\ NextIsPastAll' /\ NoReportLost'
      BY <2>1, StopKept, ForegroundKept, NextKept, ReportKept
    <3> QED
      BY <3>1, <3>2, <3>3, <3>4 DEF IInv
  <2>2. ASSUME IInv, UNCHANGED vars PROVE IInv'
    <3>1. Jobs' = Jobs /\ Waitable' = Waitable
      BY <2>2 DEF vars, Jobs, Allocated, Waitable
    <3>2. maxjid(job_list)' = maxjid(job_list)
      BY <2>2 DEF vars
    <3> QED
      BY <2>2, <3>1, <3>2 DEF vars, IInv, TypeOK, MaskInv, CommandInv,
         JobsAreChildren, ChildInv, StopInv, ForegroundInv, NextIsPastAll,
         NoReportLost, NeverItsOwnFault
  <2> QED
    BY <2>1, <2>2
<1> QED
  BY <1>1, InitIInv, PTL DEF Spec

(* No order of keys, commands, signals and child events makes the shell    *)
(* end itself on a corrupt job table (the _exit of Delete_job, the aborts  *)
(* of job_set_state and add_job).                                          *)
THEOREM NoOwnFault == Spec => []NeverItsOwnFault
<1>1. IInv => NeverItsOwnFault
  BY DEF IInv
<1> QED
  BY <1>1, Invariance, PTL

(* Every child that waitpid could report to a handler has its job.         *)
THEOREM ChildrenListed == Spec => []ChildrenHaveJobs
<1>1. IInv => ChildrenHaveJobs
  <2> SUFFICES ASSUME IInv, TableExposed, NEW p \in Pids, proc[p] # "none"
               PROVE  job_from_pid(p) # 0
    BY DEF ChildrenHaveJobs
  <2>1. Alive /\ ~masked
    BY DEF TableExposed, IInv, MaskInv
  <2> QED
    BY <2>1, LookupSucceeds
<1> QED
  BY <1>1, Invariance, PTL

(* Every job is one child that has not been waited for, so no signal is    *)
(* sent to a process that has reused the ID of a reaped one.               *)
THEOREM JobsAreLive == Spec => []JobsAreChildren
<1>1. IInv => JobsAreChildren
  BY DEF IInv
<1> QED
  BY <1>1, Invariance, PTL

(* There is at most one foreground job, and none while the shell reads or  *)
(* carries out commands, or leaves.                                        *)
THEOREM PromptIsFree == Spec => []NoForegroundAtPrompt
<1>1. IInv => NoForegroundAtPrompt
  BY FgJobFinds DEF IInv, ForegroundInv, NoForegroundAtPrompt, Jobs, Allocated
<1> QED
  BY <1>1, Invariance, PTL

(* The job ID counter is one past the largest ID in use.                   *)
THEOREM CounterIsPastAll == Spec => []NextIsPastAll
<1>1. IInv => NextIsPastAll
  BY DEF IInv
<1> QED
  BY <1>1, Invariance, PTL

(* A report left over after the handler's loop has a SIGCHLD to come.      *)
THEOREM ReportsArrive == Spec => []NoReportLost
<1>1. IInv => NoReportLost
  BY DEF IInv
<1> QED
  BY <1>1, Invariance, PTL

(* A stopped child is marked ST, or waitpid has yet to report it.          *)
THEOREM StopsAreKnown == Spec => []StoppedJobsAreKnown
<1>1. IInv => StoppedJobsAreKnown
  <2> SUFFICES ASSUME IInv, Alive, NEW j \in Jobs, job_list[j].state # "ST",
                      proc[job_list[j].pid] = "stopped"
               PROVE  job_list[j].pid \in unreported
    BY DEF StoppedJobsAreKnown
  <2>1. job_list[j].pid \in Pids
    BY DEF IInv, TypeOK, JobsAreChildren, Job, Jobs, Allocated
  <2>2. PICK k \in Jobs : job_list[j].pid \in unreported
                           \/ job_list[k] = [pid |-> job_list[j].pid, state |-> "ST"]
    BY <2>1 DEF IInv, StopInv
  <2>3. job_list[k].pid = job_list[j].pid => k = j
    BY DEF IInv, JobsAreChildren
  <2> QED
    BY <2>2, <2>3
<1> QED
  BY <1>1, Invariance, PTL

-----------------------------------------------------------------------------
(* Refinement.  Every state of the table gives each process one view.      *)

Viewed == \A p \in Pids :
    \/ View[p] = "none" /\ \A j \in Jobs : job_list[j].pid # p
    \/ \E j \in Jobs : job_list[j].pid = p /\ View[p] = job_list[j].state

LEMMA ViewedAlways == Viewed
<1> SUFFICES ASSUME NEW p \in Pids
             PROVE  \/ View[p] = "none" /\ \A j \in Jobs : job_list[j].pid # p
                    \/ \E j \in Jobs : job_list[j].pid = p /\ View[p] = job_list[j].state
  BY DEF Viewed
<1>1. 0 \notin Jobs
  BY JobListAssumption DEF Jobs, Allocated, Jids
<1> QED
  BY <1>1, JobFromPidFinds DEF View

LEMMA ViewedNext == Viewed'
BY ViewedAlways, PTL

(* View is a function on process IDs, and shows each job's state. *)
JobsViewed ==
    /\ View = [p \in Pids |-> View[p]]
    /\ \A j \in Jobs : /\ job_list[j].pid \in Pids
                       /\ View[job_list[j].pid] = job_list[j].state
                       /\ job_list[j].state \in JobStates

LEMMA ViewOfJobs == TypeOK /\ JobsAreChildren => JobsViewed
<1> SUFFICES ASSUME TypeOK, JobsAreChildren PROVE JobsViewed
  OBVIOUS
<1>1. View = [p \in Pids |-> View[p]]
  BY DEF View
<1>2. ASSUME NEW j \in Jobs
      PROVE  /\ job_list[j].pid \in Pids
             /\ View[job_list[j].pid] = job_list[j].state
             /\ job_list[j].state \in JobStates
  <2>1. job_list[j] \in Job /\ job_list[j].state # "UNDEF" /\ job_list[j].pid # 0
    BY <1>2 DEF TypeOK, JobsAreChildren, Jobs, Allocated
  <2>2. job_list[j].pid \in Pids /\ job_list[j].state \in JobStates
    BY <2>1 DEF Job
  <2>3. PICK k \in Jobs : /\ job_list[k].pid = job_list[j].pid
                          /\ View[job_list[j].pid] = job_list[k].state
    BY <1>2, <2>2, ViewedAlways DEF Viewed
  <2>4. k = j
    BY <1>2, <2>3 DEF JobsAreChildren
  <2> QED
    BY <2>2, <2>3, <2>4
<1> QED
  BY <1>1, <1>2 DEF JobsViewed

LEMMA ViewOfJobsNext == TypeOK' /\ JobsAreChildren' => JobsViewed'
BY ViewOfJobs, PTL

(* When one job is added, deleted or given another state, and the others   *)
(* stay as they are, the view of its process alone changes.                *)
LEMMA ViewChange ==
    ASSUME IInv, IInv', NEW p \in Pids, NEW s,
           \A j \in Jobs' : job_list'[j].pid = p => job_list'[j].state = s,
           s = "none" <=> \A j \in Jobs' : job_list'[j].pid # p,
           \A j \in Jobs' : job_list'[j].pid # p =>
               j \in Jobs /\ job_list[j] = job_list'[j],
           \A j \in Jobs : job_list[j].pid # p =>
               j \in Jobs' /\ job_list[j] = job_list'[j]
    PROVE  View' = [View EXCEPT ![p] = s]
<1>1. /\ View = [q \in Pids |-> View[q]] /\ View' = [q \in Pids |-> View'[q]]
      /\ \A j \in Jobs : View[job_list[j].pid] = job_list[j].state
      /\ \A j \in Jobs' : View'[job_list'[j].pid] = job_list'[j].state
  BY ViewOfJobs, ViewOfJobsNext DEF IInv, JobsViewed
<1>2. View'[p] = s
  <2>1. CASE s = "none"
    BY <2>1, ViewedNext DEF Viewed
  <2>2. CASE s # "none"
    BY <1>1, <2>2
  <2> QED
    BY <2>1, <2>2
<1>3. ASSUME NEW q \in Pids, q # p PROVE View'[q] = View[q]
  <2>1. CASE \E j \in Jobs : job_list[j].pid = q
    BY <1>1, <1>3, <2>1
  <2>2. CASE \A j \in Jobs : job_list[j].pid # q
    <3>1. \A j \in Jobs' : job_list'[j].pid # q
      BY <1>3, <2>2
    <3>2. View[q] = "none" /\ View'[q] = "none"
      BY <2>2, <3>1, ViewedAlways, ViewedNext DEF Viewed
    <3> QED
      BY <3>2
  <2> QED
    BY <2>1, <2>2
<1> QED
  BY <1>1, <1>2, <1>3

(* Outside the wait for a foreground job the view has no FG process. *)
LEMMA NoForegroundViewed ==
    ASSUME IInv, Alive, pc \notin Waiting
    PROVE  JC!Foreground = {}
<1>1. \A j \in Jobs : job_list[j].state # "FG"
  BY DEF IInv, ForegroundInv
<1>2. \A p \in Pids : View[p] # "FG"
  BY <1>1, ViewedAlways DEF Viewed
<1> QED
  BY <1>2 DEF JC!Foreground

(* A step that leaves the table alone moves between the modes. *)
LEMMA RefineControl ==
    ASSUME IInv, Next, UNCHANGED jobVars
    PROVE  JC!Next \/ UNCHANGED <<View, Mode>>
<1>1. View' = View
  BY DEF jobVars, View, job_from_pid, Allocated
<1>2. pc \in Places /\ pc' \in Places
  BY TypesKept DEF IInv, TypeOK
<1>3. CASE ~Alive
  BY <1>1, <1>3, DeadFrame DEF vars, Mode
<1>4. CASE Alive /\ pc' \in Dead
  <2>1. Mode # "gone" /\ Mode' = "gone"
    BY <1>2, <1>4 DEF Mode
  <2> QED
    BY <1>1, <2>1 DEF JC!Next, JC!Fail
<1>5. CASE Alive /\ pc \notin Waiting /\ Mode' # Mode /\ pc' \notin Dead
  <2>1. JC!Foreground = {}
    BY <1>5, NoForegroundViewed
  <2>2. CASE pc = "prompt"
    <3>1. Mode = "reading" /\ Mode' \in {"working", "leaving"}
      BY <1>2, <1>5, <2>2 DEF Mode
    <3> QED
      BY <1>1, <2>1, <3>1 DEF JC!Next, JC!Read, JC!Leave
  <2>3. CASE pc \in Busy
    <3>1. Mode = "working" /\ Mode' \in {"reading", "leaving"}
      BY <1>2, <1>5, <2>3 DEF Mode
    <3> QED
      BY <1>1, <2>1, <3>1 DEF JC!Next, JC!Done, JC!Leave
  <2>4. CASE pc \in Exiting
    <3>1. pc' \in Exiting
      BY <1>5, <2>4 DEF Next, Main, Handler, Environment, Deliver, Terminated, vars,
         EvalLaunch, EvalFgBg, Fork, AddJob, WaitLoop, Unblock, FgBgContinue,
         FgBgSetState, EvalJobs, EvalQuit, CleanupSignal, CleanupJobs,
         HandlerReturns, ReapEnded, ReapStopped, ChldReturns, Forward, Key,
         ChildSetpgid, ChildExecve, ChildEnds, ChildStops, ChildContinues
    <3> QED
      BY <1>5, <2>4, <3>1 DEF Mode
  <2> QED
    BY <1>2, <1>5, <2>2, <2>3, <2>4
<1>6. CASE pc \in Waiting /\ pc' \notin Dead
  <2>1. pc' \in Waiting \/ pc' = "unblock"
    BY <1>6 DEF Next, Main, Handler, Environment, Deliver, Terminated, vars,
       EvalLaunch, EvalFgBg, Fork, AddJob, WaitLoop, Unblock, FgBgContinue,
       FgBgSetState, EvalJobs, EvalQuit, CleanupSignal, CleanupJobs,
       HandlerReturns, ReapEnded, ReapStopped, ChldReturns, Forward, Key,
       ChildSetpgid, ChildExecve, ChildEnds, ChildStops, ChildContinues
  <2>2. Mode = "working" /\ Mode' = "working"
    BY <1>6, <2>1 DEF Mode
  <2> QED
    BY <1>1, <2>2
<1> QED
  BY <1>1, <1>3, <1>4, <1>5, <1>6

LEMMA RefineTable ==
    ASSUME IInv, IInv', Next, ~UNCHANGED jobVars
    PROVE  JC!Next
<1>1. TypeOK /\ JobsAreChildren /\ MaskInv /\ TableChange /\ JobsViewed
  BY TableStep, ViewOfJobs DEF IInv
<1>2. \A j \in Jobs : j \in Jids
  BY DEF Jobs, Allocated
<1>3. CASE /\ AddJob /\ nextjid \in Jids \ Jobs /\ cur.pid # 0
           /\ add_job(cur.pid, cur.state)
           /\ pc' = IF cur.state = "FG" THEN "wait" ELSE "unblock"
  <2>1. cur.state \in {"FG", "BG"} /\ cur.pid \in Pids /\ cur.state \in JobStates
    BY <1>1, <1>3 DEF TypeOK, Command, JobStates
  <2>2. pc = "add" /\ \A j \in Jobs : job_list[j].pid # cur.pid
    BY <1>3 DEF AddJob, IInv, CommandInv
  <2>3. /\ Jobs' = Jobs \cup {nextjid}
        /\ job_list'[nextjid] = [pid |-> cur.pid, state |-> cur.state]
        /\ \A j \in Jids \ {nextjid} : job_list'[j] = job_list[j]
    BY <1>1, <1>3, <2>1, AddJobEffect
  <2>4. View' = [View EXCEPT ![cur.pid] = cur.state]
    BY <1>2, <1>3, <2>1, <2>2, <2>3, ViewChange
  <2>5. View[cur.pid] = "none"
    BY <2>1, <2>2, ViewedAlways DEF Viewed
  <2>6. JC!Foreground = {} /\ Mode = "working" /\ Mode' = "working"
    BY <1>3, <2>2, NoForegroundViewed DEF Mode
  <2> QED
    BY <2>1, <2>4, <2>5, <2>6 DEF JC!Next, JC!Launch
<1>4. ASSUME NEW jid \in Jobs, NEW s \in JobStates, job_set_state(jid, s)
      PROVE  /\ View' = [View EXCEPT ![job_list[jid].pid] = s]
             /\ job_list[jid].pid \in Pids /\ View[job_list[jid].pid] # "none"
  <2>1. /\ Jobs' = Jobs
        /\ job_list'[jid] = [pid |-> job_list[jid].pid, state |-> s]
        /\ \A j \in Jids \ {jid} : job_list'[j] = job_list[j]
    BY <1>1, <1>4, SetStateEffect
  <2>2. job_list[jid].pid \in Pids /\ View[job_list[jid].pid] # "none" /\ s # "none"
    BY <1>1, <1>4 DEF JobsViewed, JobStates
  <2>3. \A j \in Jobs : j # jid => job_list[j].pid # job_list[jid].pid
    BY <1>1, <1>4 DEF JobsAreChildren
  <2> QED
    BY <1>2, <1>4, <2>1, <2>2, <2>3, ViewChange
<1>5. CASE /\ FgBgSetState /\ cur.jid \in Jobs
           /\ job_set_state(cur.jid, cur.state)
           /\ pc' = IF cur.state = "FG" THEN "wait" ELSE "unblock"
  <2>1. cur.state \in {"FG", "BG"} /\ cur.state \in JobStates /\ pc = "setstate"
    BY <1>1, <1>5 DEF TypeOK, Command, JobStates, FgBgSetState
  <2>2. JC!Foreground = {} /\ Mode = "working" /\ Mode' = "working"
    BY <1>5, <2>1, NoForegroundViewed DEF Mode
  <2>3. JC!Resume(job_list[cur.jid].pid, cur.state)
    BY <1>4, <1>5, <2>1, <2>2 DEF JC!Resume
  <2> QED
    BY <1>4, <1>5, <2>1, <2>3 DEF JC!Next
<1>6. CASE CleanupJobs
  <2>1. Jobs' = {}
    BY <1>6, DestroyEffect DEF CleanupJobs
  <2>2. View' = [p \in Pids |-> "none"]
    BY <2>1, ViewOfJobsNext, ViewedNext DEF Viewed, JobsViewed, IInv
  <2>3. Mode = "leaving" /\ Mode' = "gone"
    BY <1>6 DEF CleanupJobs, Mode
  <2> QED
    BY <2>2, <2>3 DEF JC!Next, JC!Exit
<1>7. ASSUME NEW p \in Pids, ReapEnded(p), job_from_pid(p) \in Jobs,
             job_list[job_from_pid(p)].pid = p, delete_job(job_from_pid(p))
      PROVE  JC!Next
  <2>1. /\ Jobs' = Jobs \ {job_from_pid(p)}
        /\ \A j \in Jids \ {job_from_pid(p)} : job_list'[j] = job_list[j]
    BY <1>1, <1>7, DeleteEffect
  <2>2. \A j \in Jobs : job_list[j].pid = p <=> j = job_from_pid(p)
    BY <1>1, <1>7 DEF JobsAreChildren
  <2>3. View' = [View EXCEPT ![p] = "none"]
    BY <1>2, <2>1, <2>2, ViewChange
  <2>4. View[p] # "none"
    BY <1>1, <1>7 DEF JobsViewed, JobStates
  <2>5. Mode # "gone" /\ Mode' = Mode
    <3>1. pc \in Places \ Dead /\ pc' = pc
      BY <1>1, <1>7 DEF ReapEnded, TypeOK, IInv, JobsAreChildren, MaskInv,
         NeverItsOwnFault
    <3> QED
      BY <3>1 DEF Mode
  <2> QED
    BY <2>3, <2>4, <2>5 DEF JC!Next, JC!End
<1>8. ASSUME NEW p \in Pids, ReapStopped(p), job_from_pid(p) \in Jobs,
             job_list[job_from_pid(p)].pid = p,
             job_set_state(job_from_pid(p), "ST")
      PROVE  JC!Next
  <2>1. View' = [View EXCEPT ![p] = "ST"] /\ View[p] # "none"
    BY <1>4, <1>8 DEF JobStates
  <2>2. Mode # "gone" /\ Mode' = Mode
    <3>1. pc \in Places \ Dead /\ pc' = pc
      BY <1>1, <1>8 DEF ReapStopped, TypeOK, IInv, NeverItsOwnFault
    <3> QED
      BY <3>1 DEF Mode
  <2> QED
    BY <2>1, <2>2 DEF JC!Next, JC!Stop
<1> QED
  BY <1>1, <1>3, <1>5, <1>6, <1>7, <1>8 DEF TableChange

(* The shell, with its table, masks, handlers and races, does what         *)
(* JobControl promises: whatever it takes a process to be changes only by  *)
(* a command, a stop or an end, and no command is read while one is FG.    *)
THEOREM Refinement == Spec => ImplementsJobControl
<1>1. Init => JC!Init
  <2> SUFFICES ASSUME Init PROVE JC!Init
    OBVIOUS
  <2>1. Jobs = {}
    BY DEF Init, init_job_list, clearjob, Jobs, Allocated
  <2>2. View = [p \in Pids |-> "none"]
    BY <2>1, InitIInv, ViewOfJobs, ViewedAlways DEF Viewed, JobsViewed, IInv
  <2>3. Mode = "reading"
    BY DEF Init, Mode
  <2> QED
    BY <2>2, <2>3 DEF JC!Init
<1>2. IInv /\ IInv' /\ [Next]_vars => [JC!Next]_(JC!jcVars)
  <2>1. IInv /\ IInv' /\ Next => JC!Next \/ UNCHANGED <<View, Mode>>
    BY RefineControl, RefineTable
  <2>2. UNCHANGED vars => UNCHANGED <<View, Mode>>
    BY DEF vars, View, Mode, job_from_pid, Allocated
  <2> QED
    BY <2>1, <2>2 DEF JC!jcVars
<1> QED
  BY <1>1, <1>2, Invariance, PTL DEF Spec, ImplementsJobControl, JC!Spec
=============================================================================
