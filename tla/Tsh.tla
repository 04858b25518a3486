-------------------------------- MODULE Tsh --------------------------------
(***************************************************************************)
(* The shell of tshlab/tsh.c: its read/eval loop, the three signal         *)
(* handlers that interrupt it, the children it forks, and the kernel's     *)
(* signal and wait machinery as tsh.c relies on it.                        *)
(*                                                                         *)
(* pc is the place of the main thread.  A handler that has been entered    *)
(* has blocked every signal before it looks at the job table, so handlers  *)
(* do not nest where it matters: handler names the one running, and the    *)
(* main thread stands still meanwhile.                                     *)
(***************************************************************************)
EXTENDS JobList

VARIABLES
    pc,          \* where the main thread is
    masked,      \* all signals are blocked in the main thread
    handler,     \* the signal handler that is running, or "none"
    handlers,    \* signals whose handler is installed
    pending,     \* signals raised and not yet delivered (one of each kind)
    cur,         \* the command being evaluated
    proc,        \* life of each process the shell forked
    pgrp,        \* children that have made their own process group
    unreported,  \* stopped children whose stop waitpid has not returned yet
    intPending   \* stopped children that hold a SIGINT back until continued

childVars == <<proc, pgrp, unreported, intPending>>
vars == <<job_list, nextjid, pc, masked, handler, handlers, pending, cur,
          proc, pgrp, unreported, intPending>>

Signals == {"INT", "TSTP", "CHLD", "QUIT"}
Crashed == {"bad_jid", "abort"}
Dead == Crashed \cup {"exit", "killed", "sigquit", "kill_failed", "fork_failed"}
Exiting == {"quit", "refused"}
Waiting == {"wait", "suspend"}
Busy == {"fork", "add", "fgbg", "setstate", "unblock"}
Places == {"prompt"} \cup Busy \cup Waiting \cup Exiting \cup Dead

(* none: free process ID; child: forked, still running the shell's image;  *)
(* zombie: ended, not waited for.                                          *)
Lives == {"none", "child", "running", "stopped", "zombie"}

(* state is the job state the command asks for; pid and jid are the fg/bg  *)
(* argument (0 when absent), or the child just forked (0: fork failed).    *)
Command == [state : {"FG", "BG"}, pid : Pids \cup {0}, jid : 0 .. MAXJOBS]
NoCommand == [state |-> "BG", pid |-> 0, jid |-> 0]

TypeOK ==
    /\ job_list \in [Jids -> Job]
    /\ nextjid \in 1 .. MAXJOBS + 1
    /\ pc \in Places
    /\ masked \in BOOLEAN
    /\ handler \in {"none", "CHLD", "INT", "TSTP"}
    /\ handlers \in SUBSET {"CHLD", "INT", "TSTP"}
    /\ pending \in SUBSET Signals
    /\ cur \in Command
    /\ proc \in [Pids -> Lives]
    /\ pgrp \in SUBSET Pids
    /\ unreported \in SUBSET Pids
    /\ intPending \in SUBSET Pids

(* main, up to the first prompt. *)
Init ==
    /\ init_job_list
    /\ pc = "prompt"
    /\ masked = FALSE
    /\ handler = "none"
    /\ handlers = {"INT", "TSTP", "CHLD"}
    /\ pending = {}
    /\ cur = NoCommand
    /\ proc = [p \in Pids |-> "none"]
    /\ pgrp = {}
    /\ unreported = {}
    /\ intPending = {}

Alive == pc \notin Dead
MainRuns == Alive /\ handler = "none"

-----------------------------------------------------------------------------
(* What the kernel does to a child.  Each leaves the child's process group *)
(* alone and, when the child changes state, raises SIGCHLD in the shell.   *)

Die(p) == /\ proc' = [proc EXCEPT ![p] = "zombie"]
          /\ unreported' = unreported \ {p}
          /\ intPending' = intPending \ {p}

(* Delivery of a signal the shell sends to the process group of p.  A      *)
(* child before its execve still has the shell's handlers, and those find  *)
(* no foreground job in the child's copy of the table: nothing happens.    *)
ReceiveInt(p) ==
    CASE proc[p] = "running" -> Die(p)
      [] proc[p] = "stopped" -> /\ intPending' = intPending \cup {p}
                                /\ UNCHANGED <<proc, unreported>>
      [] OTHER -> UNCHANGED <<proc, unreported, intPending>>

ReceiveTstp(p) ==
    IF proc[p] = "running"
    THEN /\ proc' = [proc EXCEPT ![p] = "stopped"]
         /\ unreported' = unreported \cup {p}
         /\ UNCHANGED intPending
    ELSE UNCHANGED <<proc, unreported, intPending>>

(* SIGCONT also cancels a stop nobody has waited for, and lets a SIGINT    *)
(* that was held back through.                                             *)
ReceiveCont(p) ==
    IF proc[p] = "stopped"
    THEN IF p \in intPending
         THEN Die(p)
         ELSE /\ proc' = [proc EXCEPT ![p] = "running"]
              /\ unreported' = unreported \ {p}
              /\ UNCHANGED intPending
    ELSE UNCHANGED <<proc, unreported, intPending>>

RaiseChldIfChanged ==
    pending' = IF proc' # proc THEN pending \cup {"CHLD"} ELSE pending

Waitable == {p \in Pids : proc[p] = "zombie"} \cup unreported

-----------------------------------------------------------------------------
(* The read/eval loop.                                                     *)

(* Mutant of EvalLaunch: signals stay unblocked around fork and add_job.   *)
EvalLaunch_Unblocked(state) ==
    /\ MainRuns /\ pc = "prompt"
    /\ pc' = "fork"
    /\ cur' = [NoCommand EXCEPT !.state = state]
    /\ UNCHANGED <<jobVars, masked, handler, handlers, pending, childVars>>

(* eval of a command that is not built in: all signals are blocked first.  *)
EvalLaunch(state) ==
    /\ MainRuns /\ pc = "prompt"
    /\ pc' = "fork"
    /\ masked' = TRUE
    /\ cur' = [NoCommand EXCEPT !.state = state]
    /\ UNCHANGED <<jobVars, handler, handlers, pending, childVars>>

(* fork succeeds with a process ID not in use, or fails. *)
Fork ==
    /\ MainRuns /\ pc = "fork"
    /\ pc' = "add"
    /\ \/ \E p \in Pids : /\ proc[p] = "none"
                          /\ proc' = [proc EXCEPT ![p] = "child"]
                          /\ cur' = [cur EXCEPT !.pid = p]
       \/ UNCHANGED <<proc, cur>>
    /\ UNCHANGED <<jobVars, masked, handler, handlers, pending, pgrp,
                   unreported, intPending>>

(* Add_job: a failed fork ends the shell with _exit(1), a full table with  *)
(* exit(0) and signals still blocked.                                      *)
AddJob ==
    /\ MainRuns /\ pc = "add"
    /\ LET failed == cur.pid = 0
           fatal  == AddIsFatal(cur.state)
           added  == ~failed /\ ~fatal /\ ~NoRoom
       IN /\ pc' = CASE failed -> "fork_failed"
                     [] ~failed /\ fatal -> "abort"
                     [] ~failed /\ ~fatal /\ NoRoom -> "refused"
                     [] added -> IF cur.state = "FG" THEN "wait" ELSE "unblock"
          /\ IF added THEN add_job(cur.pid, cur.state) ELSE UNCHANGED jobVars
    /\ UNCHANGED <<masked, handler, handlers, pending, cur, childVars>>

(* while (fg_job()) sigsuspend(&prev_mask); sigsuspend unblocks the        *)
(* signals and waits in one indivisible step.                              *)
WaitLoop ==
    /\ MainRuns /\ pc = "wait"
    /\ pc' = IF fg_job # 0 THEN "suspend" ELSE "unblock"
    /\ masked' = (fg_job = 0)
    /\ UNCHANGED <<jobVars, handler, handlers, pending, cur, childVars>>

Unblock ==
    /\ MainRuns /\ pc = "unblock"
    /\ pc' = "prompt"
    /\ masked' = FALSE
    /\ cur' = NoCommand
    /\ UNCHANGED <<jobVars, handler, handlers, pending, childVars>>

(* The fg and bg commands with a process ID or a job ID; jid 0 stands for  *)
(* every argument that is missing or names no slot.                        *)
EvalFgBg(state, pid, jid) ==
    /\ MainRuns /\ pc = "prompt"
    /\ pc' = "fgbg"
    /\ masked' = TRUE
    /\ cur' = [state |-> state, pid |-> pid, jid |-> jid]
    /\ UNCHANGED <<jobVars, handler, handlers, pending, childVars>>

(* do_fg_bg_job up to Kill(-pid, SIGCONT), which fails, and ends the       *)
(* shell, while the child has no process group of its own.                 *)
FgBgContinue ==
    /\ MainRuns /\ pc = "fgbg"
    /\ LET jid == IF cur.pid # 0 THEN job_from_pid(cur.pid) ELSE cur.jid
           p   == job_get_pid(jid)
       IN \/ /\ ~job_exists(jid)
             /\ pc' = "unblock"
             /\ UNCHANGED <<pending, cur, proc, unreported, intPending>>
          \/ /\ job_exists(jid) /\ p \notin pgrp
             /\ pc' = "kill_failed"
             /\ UNCHANGED <<pending, cur, proc, unreported, intPending>>
          \/ /\ job_exists(jid) /\ p \in pgrp
             /\ pc' = "setstate"
             /\ cur' = [cur EXCEPT !.jid = jid]
             /\ ReceiveCont(p)
             /\ RaiseChldIfChanged
    /\ UNCHANGED <<jobVars, masked, handler, handlers, pgrp>>

FgBgSetState ==
    /\ MainRuns /\ pc = "setstate"
    /\ IF SetIsFatal(cur.jid, cur.state)
       THEN pc' = "abort" /\ UNCHANGED jobVars
       ELSE /\ job_set_state(cur.jid, cur.state)
            /\ pc' = IF cur.state = "FG" THEN "wait" ELSE "unblock"
    /\ UNCHANGED <<masked, handler, handlers, pending, cur, childVars>>

(* The jobs command only reads the table, with signals blocked.  When the  *)
(* line of a job cannot be written, list_jobs fails, and the shell unblocks*)
(* the signals and leaves with exit(1).                                    *)
EvalJobs ==
    /\ MainRuns /\ pc = "prompt"
    /\ \/ pc' = "unblock" /\ masked' = TRUE
       \/ Allocated(job_list) # {} /\ pc' = "quit" /\ UNCHANGED masked
    /\ UNCHANGED <<jobVars, handler, handlers, pending, cur, childVars>>

(* quit, the end of the input or a failure to read it: exit with signals   *)
(* unblocked.                                                              *)
EvalQuit ==
    /\ MainRuns /\ pc = "prompt"
    /\ pc' = "quit"
    /\ UNCHANGED <<jobVars, masked, handler, handlers, pending, cur, childVars>>

(* cleanup, called by exit: the handlers are removed one by one ...        *)
CleanupSignal(s) ==
    /\ MainRuns /\ pc \in Exiting /\ s \in handlers
    /\ s = "TSTP" => "INT" \notin handlers
    /\ s = "CHLD" => handlers = {"CHLD"}
    /\ handlers' = handlers \ {s}
    /\ UNCHANGED <<jobVars, pc, masked, handler, pending, cur, childVars>>

(* ... and then the table is destroyed. *)
CleanupJobs ==
    /\ MainRuns /\ pc \in Exiting /\ handlers = {}
    /\ destroy_job_list
    /\ pc' = "exit"
    /\ UNCHANGED <<masked, handler, handlers, pending, cur, childVars>>

-----------------------------------------------------------------------------
(* Signal delivery and the handlers.                                       *)

(* A signal without a handler takes its default action: SIGINT ends the    *)
(* shell, SIGCHLD is ignored, SIGTSTP only suspends the shell for a while. *)
Deliver(s) ==
    /\ MainRuns /\ ~masked /\ s \in pending
    /\ pending' = pending \ {s}
    /\ handler' = IF s \in handlers THEN s ELSE "none"
    /\ pc' = CASE s = "QUIT" -> "sigquit"
               [] s = "INT" /\ s \notin handlers -> "killed"
               [] OTHER -> pc
    /\ UNCHANGED <<jobVars, masked, handlers, cur, childVars>>

(* Mutants of HandlerReturns: any signal ends the wait, as with an "if" in *)
(* place of the loop; sigsuspend is entered again without the test.        *)
HandlerReturns_EndsWait ==
    /\ handler' = "none"
    /\ pc' = IF pc = "suspend" THEN "unblock" ELSE pc
    /\ masked' = (masked \/ pc = "suspend")

HandlerReturns_NoTest ==
    /\ handler' = "none"
    /\ UNCHANGED <<pc, masked>>

(* A handler that interrupted sigsuspend returns to the wait loop with the *)
(* signals blocked again; another signal pending then is met at the next   *)
(* sigsuspend, or when the loop ends and the signals are unblocked.        *)
HandlerReturns ==
    /\ handler' = "none"
    /\ pc' = IF pc = "suspend" THEN "wait" ELSE pc
    /\ masked' = (masked \/ pc = "suspend")

(* One round of sigchld_handler's waitpid loop, for a child that ended ... *)
ReapEnded(p) ==
    /\ Alive /\ handler = "CHLD" /\ proc[p] = "zombie"
    /\ proc' = [proc EXCEPT ![p] = "none"]
    /\ pgrp' = pgrp \ {p}
    /\ IF job_from_pid(p) = 0
       THEN pc' = "bad_jid" /\ UNCHANGED jobVars
       ELSE delete_job(job_from_pid(p)) /\ UNCHANGED pc
    /\ UNCHANGED <<masked, handler, handlers, pending, cur, unreported,
                   intPending>>

(* Mutant of ReapStopped: the stop is taken from waitpid and dropped.      *)
ReapStopped_Dropped(p) ==
    /\ Alive /\ handler = "CHLD" /\ p \in unreported
    /\ unreported' = unreported \ {p}
    /\ UNCHANGED <<jobVars, pc, masked, handler, handlers, pending, cur, proc,
                   pgrp, intPending>>

(* ... for one that stopped ... *)
ReapStopped(p) ==
    /\ Alive /\ handler = "CHLD" /\ p \in unreported
    /\ unreported' = unreported \ {p}
    /\ IF SetIsFatal(job_from_pid(p), "ST")
       THEN pc' = "abort" /\ UNCHANGED jobVars
       ELSE job_set_state(job_from_pid(p), "ST") /\ UNCHANGED pc
    /\ UNCHANGED <<masked, handler, handlers, pending, cur, proc, pgrp,
                   intPending>>

(* Mutant of ChldReturns: the handler waits for some children, not for all *)
(* that one SIGCHLD may stand for.                                         *)
ChldReturns_Early ==
    /\ Alive /\ handler = "CHLD"
    /\ HandlerReturns
    /\ UNCHANGED <<jobVars, handlers, pending, cur, childVars>>

(* ... and its end, when waitpid has nothing to report. *)
ChldReturns ==
    /\ Alive /\ handler = "CHLD" /\ Waitable = {}
    /\ HandlerReturns
    /\ UNCHANGED <<jobVars, handlers, pending, cur, childVars>>

(* sigstp_sigint_handler: pass the signal on to the foreground job's       *)
(* process group; a failing kill ends the shell.                           *)
Forward(s) ==
    /\ Alive /\ handler = s
    /\ LET p == job_get_pid(fg_job)
       IN \/ /\ fg_job = 0
             /\ HandlerReturns
             /\ UNCHANGED <<pending, proc, unreported, intPending>>
          \/ /\ fg_job # 0 /\ p \notin pgrp
             /\ pc' = "kill_failed"
             /\ UNCHANGED <<handler, masked, pending, proc, unreported,
                            intPending>>
          \/ /\ fg_job # 0 /\ p \in pgrp
             /\ HandlerReturns
             /\ IF s = "INT" THEN ReceiveInt(p) ELSE ReceiveTstp(p)
             /\ RaiseChldIfChanged
    /\ UNCHANGED <<jobVars, handlers, cur, pgrp>>

-----------------------------------------------------------------------------
(* The terminal, the children and other processes.                         *)

(* A key signals the terminal's foreground group: the shell, and children  *)
(* that have not left its group.  SIGINT and SIGTSTP do nothing to those   *)
(* (see ReceiveInt); SIGQUIT runs sigquit_handler in them.                 *)
Key(s) ==
    /\ Alive
    /\ LET young == {p \in Pids : proc[p] = "child" /\ p \notin pgrp}
           hit   == IF s = "QUIT" THEN young ELSE {}
       IN /\ proc' = [p \in Pids |-> IF p \in hit THEN "zombie" ELSE proc[p]]
          /\ pending' = pending \cup {s}
                                \cup (IF hit = {} THEN {} ELSE {"CHLD"})
    /\ UNCHANGED <<jobVars, pc, masked, handler, handlers, cur, pgrp,
                   unreported, intPending>>

ChildSetpgid(p) ==
    /\ Alive /\ proc[p] = "child" /\ p \notin pgrp
    /\ pgrp' = pgrp \cup {p}
    /\ UNCHANGED <<jobVars, pc, masked, handler, handlers, pending, cur, proc,
                   unreported, intPending>>

ChildExecve(p) ==
    /\ Alive /\ proc[p] = "child" /\ p \in pgrp
    /\ proc' = [proc EXCEPT ![p] = "running"]
    /\ UNCHANGED <<jobVars, pc, masked, handler, handlers, pending, cur, pgrp,
                   unreported, intPending>>

(* Exit, a failed setpgid or execve, or a fatal signal from elsewhere. *)
ChildEnds(p) ==
    /\ Alive /\ proc[p] \in {"child", "running", "stopped"}
    /\ Die(p)
    /\ RaiseChldIfChanged
    /\ UNCHANGED <<jobVars, pc, masked, handler, handlers, cur, pgrp>>

(* A stop or a continue signal from another process. *)
ChildStops(p) ==
    /\ Alive /\ proc[p] = "running"
    /\ ReceiveTstp(p)
    /\ RaiseChldIfChanged
    /\ UNCHANGED <<jobVars, pc, masked, handler, handlers, cur, pgrp>>

ChildContinues(p) ==
    /\ Alive /\ proc[p] = "stopped"
    /\ ReceiveCont(p)
    /\ RaiseChldIfChanged
    /\ UNCHANGED <<jobVars, pc, masked, handler, handlers, cur, pgrp>>

-----------------------------------------------------------------------------
Main ==
    \/ \E state \in {"FG", "BG"} :
         \/ EvalLaunch(state)
         \/ \E p \in Pids : EvalFgBg(state, p, 0)
         \/ \E jid \in 0 .. MAXJOBS : EvalFgBg(state, 0, jid)
    \/ Fork \/ AddJob \/ WaitLoop \/ Unblock
    \/ FgBgContinue \/ FgBgSetState
    \/ EvalJobs \/ EvalQuit
    \/ \E s \in {"INT", "TSTP", "CHLD"} : CleanupSignal(s)
    \/ CleanupJobs

Handler ==
    \/ \E p \in Pids : ReapEnded(p) \/ ReapStopped(p)
    \/ ChldReturns
    \/ \E s \in {"INT", "TSTP"} : Forward(s)

Environment ==
    \/ \E s \in {"INT", "TSTP", "QUIT"} : Key(s)
    \/ \E p \in Pids : \/ ChildSetpgid(p) \/ ChildExecve(p) \/ ChildEnds(p)
                       \/ ChildStops(p) \/ ChildContinues(p)

Terminated == pc \in Dead /\ UNCHANGED vars

Next == Main \/ Handler \/ Environment \/ Terminated
        \/ \E s \in Signals : Deliver(s)

Spec == Init /\ [][Next]_vars

(* The scheduler runs the shell when it can run: its own steps once a      *)
(* command has been read, and its handlers.  A SIGCHLD that can be         *)
(* delivered again and again is delivered in the end: sigsuspend takes     *)
(* every pending signal, whatever keys are pressed.  Nothing is assumed of *)
(* the children and the person at the terminal; other processes stop the   *)
(* children only finitely often (waitpid could otherwise report the stops  *)
(* of one child for ever and never come to another).                       *)
Evaluating == \/ Fork \/ AddJob \/ WaitLoop \/ Unblock
              \/ FgBgContinue \/ FgBgSetState \/ CleanupJobs
              \/ \E s \in {"INT", "TSTP", "CHLD"} : CleanupSignal(s)

Fairness == /\ WF_vars(Evaluating)
            /\ WF_vars(Handler)
            /\ SF_vars(Deliver("CHLD"))
            /\ <>[][\A p \in Pids : ~ChildStops(p)]_vars

FairSpec == Spec /\ Fairness

-----------------------------------------------------------------------------
(***************************************************************************)
(* Properties.                                                             *)
(***************************************************************************)

Jobs == Allocated(job_list)

(* A handler could look at the table now. *)
TableExposed == Alive /\ (~masked \/ handler # "none")

(* Whenever a handler may run, every child waitpid could report has a job: *)
(* eval forks and adds with signals blocked, so that a child that ends at  *)
(* once is not deleted before it is added.                                 *)
ChildrenHaveJobs ==
    TableExposed => \A p \in Pids : proc[p] # "none" => job_from_pid(p) # 0

(* Conversely a job is one child that has not been waited for, so that     *)
(* Kill(-pid) never signals a process that has reused the ID.              *)
JobsAreChildren ==
    /\ \A j \in Jobs : job_list[j].pid # 0 /\ proc[job_list[j].pid] # "none"
    /\ \A j, k \in Jobs : job_list[j].pid = job_list[k].pid => j = k

(* The checks that end the shell on a bug of its own never do: Delete_job  *)
(* gets a job ID, job_set_state a job and at most one foreground job,      *)
(* add_job a free slot.                                                    *)
NeverItsOwnFault == pc \notin Crashed

(* tsh_helper.h: at most one job is in the FG state; and the shell does    *)
(* not read or carry out commands, or leave, while there is one.           *)
NoForegroundAtPrompt ==
    /\ \A j, k \in Jobs :
          job_list[j].state = "FG" /\ job_list[k].state = "FG" => j = k
    /\ Alive /\ pc \notin Waiting => fg_job = 0

(* The counter names the slot after the last one in use, after any order   *)
(* of additions and deletions; add_job relies on that slot being free.     *)
NextIsPastAll == nextjid = maxjid(job_list) + 1

(* Signals of one kind do not queue: a report left over after sigchld's    *)
(* loop always has a SIGCHLD of its own still to come.                     *)
NoReportLost ==
    Alive /\ "CHLD" \in handlers /\ Waitable # {} /\ handler # "CHLD"
        => "CHLD" \in pending

(* A stopped child whose job is not marked ST has a report on its way, so  *)
(* the shell cannot wait in the foreground for a job that is stopped.      *)
StoppedJobsAreKnown ==
    Alive => \A j \in Jobs :
        job_list[j].state # "ST" /\ proc[job_list[j].pid] = "stopped"
            => job_list[j].pid \in unreported

-----------------------------------------------------------------------------
(* Refinement: what the table says of each process, whatever its job ID.   *)
View == [p \in Pids |-> LET j == job_from_pid(p)
                        IN IF j = 0 THEN "none" ELSE job_list[j].state]
Mode == CASE pc = "prompt" -> "reading"
          [] pc \in Busy \cup Waiting -> "working"
          [] pc \in Exiting -> "leaving"
          [] pc \in Dead -> "gone"

JC == INSTANCE JobControl WITH view <- View, mode <- Mode

ImplementsJobControl == JC!Spec

-----------------------------------------------------------------------------
(* Liveness.                                                               *)

(* When the foreground job's process has ended, the shell gets out of its  *)
(* wait: no wakeup is lost between the test of fg_job and sigsuspend.      *)
ForegroundEnded ==
    pc \in Waiting /\ fg_job # 0 /\ proc[job_get_pid(fg_job)] = "zombie"
ForegroundReturns == ForegroundEnded ~> (pc \notin Waiting)

(* No zombie stays while the shell lives, though one SIGCHLD may stand for *)
(* several children.                                                       *)
ZombiesReaped == \A p \in Pids :
    proc[p] = "zombie" ~> (proc[p] = "none" \/ pc \in Dead)
=============================================================================
