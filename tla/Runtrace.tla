------------------------------ MODULE Runtrace ------------------------------
(***************************************************************************)
(* The driver that runs a shell on a trace file (tshlab/runtrace.c), as    *)
(* far as it starts and stops: several drivers in one directory, each with *)
(* its shell in a session of its own, the temporary directory they want,   *)
(* the alarm, signals from outside, and /bin/sh -c cleanup_args, which     *)
(* kills the session and removes the directory.                            *)
(*                                                                         *)
(* The lines of the trace, finitely many, are left out but for how one may *)
(* go wrong: it times out, or a call fails.  Running out of memory or of   *)
(* processes is left out.                                                  *)
(***************************************************************************)
CONSTANTS
    Drivers,
    Jobs,       \* the processes that each driver's session may hold besides its shell
    Nobody,     \* owner of a directory that is not there
    Theirs      \* owner of one that no driver made

AllJobs == UNION {Jobs[d] : d \in Drivers}

ASSUME RuntraceAssumption ==
    /\ Nobody \notin Drivers /\ Theirs \notin Drivers /\ Nobody # Theirs
    /\ "shell" \notin AllJobs

VARIABLES
    pc, cleanup_needed,         \* of each driver
    shell, jobs,                \* its session
    cleaner, listed,            \* its cleanups, and the processes ps told them
    directory,                  \* who made runtrace.tmp
    again,                      \* drivers signalled within atexit_clean
    struck,                     \* drivers with a cleanup that a key ended
    missed,                     \* drivers with a job that forked after ps
    robbed                      \* drivers that removed another's directory

driver == <<pc, cleanup_needed>>
session == <<shell, jobs>>
cleaning == <<cleaner, listed, directory, robbed>>
history == <<again, struck, missed>>
vars == <<pc, cleanup_needed, shell, jobs, cleaner, listed, directory, robbed,
          again, struck, missed>>

(* main and atexit_clean run one cleanup at a time, a handler another.     *)
Cleaners == {"main", "handler"}
Stages == {"none", "list", "kill", "remove", "done"}

Init ==
    /\ pc = [d \in Drivers |-> "start"]
    /\ cleanup_needed = [d \in Drivers |-> FALSE]
    /\ shell = [d \in Drivers |-> "none"]
    /\ jobs = [d \in Drivers |-> {}]
    /\ cleaner = [d \in Drivers |-> [c \in Cleaners |-> "none"]]
    /\ listed = [d \in Drivers |-> [c \in Cleaners |-> {}]]
    /\ directory \in {Nobody, Theirs}
    /\ again = {} /\ struck = {} /\ missed = {} /\ robbed = {}

Goto(d, from, to) == pc[d] = from /\ pc' = [pc EXCEPT ![d] = to]

StartCleaner(d, c) ==
    /\ cleaner' = [cleaner EXCEPT ![d][c] = "list"]
    /\ UNCHANGED <<listed, directory, robbed>>

-----------------------------------------------------------------------------
(* Signals are blocked from here until Ready.                              *)
Block(d) ==
    /\ Goto(d, "start", "mkdir")
    /\ UNCHANGED <<cleanup_needed, session, cleaning, history>>

Mkdir(d) ==
    /\ Goto(d, "mkdir", "fork")
    /\ directory = Nobody
    /\ directory' = d
    /\ UNCHANGED <<cleanup_needed, session, cleaner, listed, robbed, history>>

Refuse(d) ==
    /\ Goto(d, "mkdir", "gone")
    /\ directory # Nobody
    /\ UNCHANGED <<cleanup_needed, session, cleaning, history>>

Fork(d) ==
    /\ Goto(d, "fork", "setup")
    /\ shell' = [shell EXCEPT ![d] = "forked"]
    /\ UNCHANGED <<cleanup_needed, jobs, cleaning, history>>

Ready(d) ==
    /\ Goto(d, "setup", "prompt")
    /\ cleanup_needed' = [cleanup_needed EXCEPT ![d] = TRUE]
    /\ UNCHANGED <<session, cleaning, history>>

Prompt(d) ==
    /\ Goto(d, "prompt", "line")
    /\ shell[d] # "forked"
    /\ UNCHANGED <<cleanup_needed, session, cleaning, history>>

(* readable or next_prompt gives up; main cleans up with signals blocked.  *)
TimeOut(d) ==
    /\ Goto(d, "prompt", "clean") \/ Goto(d, "line", "clean")
    /\ StartCleaner(d, "main")
    /\ UNCHANGED <<cleanup_needed, session, history>>

(* exit(1) where a call fails, be it the select that waits for the first   *)
(* prompt: atexit_clean runs with signals unblocked.                       *)
Fail(d) ==
    /\ \E place \in {"prompt", "line", "flush"} : Goto(d, place, "atexit")
    /\ StartCleaner(d, "main")
    /\ UNCHANGED <<cleanup_needed, session, history>>

EndOfTrace(d) ==
    /\ Goto(d, "line", "waitpid")
    /\ UNCHANGED <<cleanup_needed, session, cleaning, history>>

ShellWaitedFor(d) ==
    /\ Goto(d, "waitpid", "flush")
    /\ shell[d] = "ended"
    /\ UNCHANGED <<cleanup_needed, session, cleaning, history>>

Flushed(d) ==
    /\ Goto(d, "flush", "last clean")
    /\ StartCleaner(d, "main")
    /\ UNCHANGED <<cleanup_needed, session, history>>

(* The end of clean, wherever it was called.                               *)
Waited(d) ==
    \/ /\ cleaner[d]["main"] = "done"
       /\ Goto(d, "clean", "gone") \/ Goto(d, "atexit", "gone") \/ Goto(d, "last clean", "exit")
    \/ /\ cleaner[d]["handler"] = "done"
       /\ Goto(d, "handler", "gone")

(* Mutant of Cleaned: cleanup_needed stays set.                            *)
Cleaned_StillNeeded(d) ==
    /\ Waited(d)
    /\ UNCHANGED <<cleanup_needed, session, cleaning, history>>

Cleaned(d) ==
    /\ Waited(d)
    /\ cleanup_needed' = [cleanup_needed EXCEPT ![d] = FALSE]
    /\ UNCHANGED <<session, cleaning, history>>

Exit(d) ==
    /\ Goto(d, "exit", "gone")
    /\ UNCHANGED <<cleanup_needed, session, cleaning, history>>

-----------------------------------------------------------------------------
Unblocked == {"start", "prompt", "line", "waitpid", "flush", "atexit", "exit"}

(* The handlers: both end the driver, after a cleanup if one is needed.    *)
Handle(d) ==
    /\ pc[d] \in Unblocked
    /\ \/ /\ cleanup_needed[d]
          /\ pc' = [pc EXCEPT ![d] = "handler"]
          /\ StartCleaner(d, "handler")
       \/ /\ ~cleanup_needed[d]
          /\ pc' = [pc EXCEPT ![d] = "gone"]
          /\ UNCHANGED <<cleaner, listed, directory, robbed>>
    /\ again' = IF pc[d] = "atexit" THEN again \cup {d} ELSE again
    /\ UNCHANGED <<cleanup_needed, session, struck, missed>>

Signal(d) == Handle(d)

(* Mutant of Alarm: none is set before the shell is waited for.            *)
Alarm_NotSet(d) == pc[d] \in {"flush", "exit"} /\ Handle(d)

(* The alarm is set before waitpid and never cancelled.                    *)
Alarm(d) == pc[d] \in {"waitpid", "flush", "exit"} /\ Handle(d)

(* A key reaches the cleanups too: /bin/sh has the default handlers.       *)
Strike(d, c) ==
    /\ cleaner[d][c] \notin {"none", "done"}
    /\ cleaner' = [cleaner EXCEPT ![d][c] = "done"]
    /\ struck' = struck \cup {d}
    /\ UNCHANGED <<driver, session, listed, directory, robbed, again, missed>>

-----------------------------------------------------------------------------
(* cleanup_args: /bin/kill -9 $(/bin/ps -s %d -o pid=); rm -Rf             *)
(* Mutant of InSession: the shell's process is named, not its session.     *)
InSession_ShellOnly(d) == IF shell[d] = "running" THEN {"shell"} ELSE {}

InSession(d) ==
    (IF shell[d] = "running" THEN {"shell"} ELSE {}) \cup jobs[d]

List(d, c) ==
    /\ cleaner[d][c] = "list"
    /\ cleaner' = [cleaner EXCEPT ![d][c] = "kill"]
    /\ listed' = [listed EXCEPT ![d][c] = InSession(d)]
    /\ UNCHANGED <<driver, session, directory, robbed, history>>

Kill(d, c) ==
    /\ cleaner[d][c] = "kill"
    /\ cleaner' = [cleaner EXCEPT ![d][c] = "remove"]
    /\ shell' = IF "shell" \in listed[d][c] THEN [shell EXCEPT ![d] = "ended"] ELSE shell
    /\ jobs' = [jobs EXCEPT ![d] = @ \ listed[d][c]]
    /\ listed' = [listed EXCEPT ![d][c] = {}]
    /\ UNCHANGED <<driver, directory, robbed, history>>

Remove(d, c) ==
    /\ cleaner[d][c] = "remove"
    /\ cleaner' = [cleaner EXCEPT ![d][c] = "done"]
    /\ directory' = Nobody
    /\ robbed' = IF directory \in {Nobody, d} THEN robbed ELSE robbed \cup {d}
    /\ UNCHANGED <<driver, session, listed, history>>

-----------------------------------------------------------------------------
Setsid(d) ==
    /\ shell[d] = "forked"
    /\ shell' = [shell EXCEPT ![d] = "running"]
    /\ UNCHANGED <<driver, jobs, cleaning, history>>

ShellEnds(d) ==
    /\ shell[d] \in {"forked", "running"}
    /\ shell' = [shell EXCEPT ![d] = "ended"]
    /\ UNCHANGED <<driver, jobs, cleaning, history>>

ShellStartsJob(d) ==
    /\ shell[d] = "running"
    /\ \E j \in Jobs[d] \ jobs[d] : jobs' = [jobs EXCEPT ![d] = @ \cup {j}]
    /\ UNCHANGED <<driver, shell, cleaning, history>>

(* A job may have children, in the same session (testprogs/mysplit.c).  One*)
(* that is forked between ps and kill is not listed.                       *)
JobForks(d) ==
    /\ jobs[d] # {}
    /\ \E j \in Jobs[d] \ jobs[d] : jobs' = [jobs EXCEPT ![d] = @ \cup {j}]
    /\ missed' = IF \E c \in Cleaners : cleaner[d][c] = "kill"
                 THEN missed \cup {d} ELSE missed
    /\ UNCHANGED <<driver, shell, cleaning, again, struck>>

JobEnds(d) ==
    /\ \E j \in jobs[d] : jobs' = [jobs EXCEPT ![d] = @ \ {j}]
    /\ UNCHANGED <<driver, shell, cleaning, history>>

-----------------------------------------------------------------------------
DriverStep(d) ==
    \/ Block(d) \/ Mkdir(d) \/ Refuse(d) \/ Fork(d) \/ Ready(d)
    \/ Prompt(d) \/ TimeOut(d) \/ Fail(d)
    \/ EndOfTrace(d) \/ ShellWaitedFor(d) \/ Flushed(d) \/ Cleaned(d) \/ Exit(d)

CleanerStep(d, c) == List(d, c) \/ Kill(d, c) \/ Remove(d, c)

SessionStep(d) ==
    Setsid(d) \/ ShellEnds(d) \/ ShellStartsJob(d) \/ JobForks(d) \/ JobEnds(d)

Next == \E d \in Drivers :
    \/ DriverStep(d)
    \/ Signal(d) \/ Alarm(d)
    \/ \E c \in Cleaners : CleanerStep(d, c) \/ Strike(d, c)
    \/ SessionStep(d)

(* Drivers, cleanups and timers run; shells, jobs and signals may not.     *)
Fairness ==
    /\ \A d \in Drivers : WF_vars(DriverStep(d)) /\ WF_vars(Alarm(d))
    /\ \A d \in Drivers, c \in Cleaners : WF_vars(CleanerStep(d, c))

Spec == Init /\ [][Next]_vars

FairSpec == Spec /\ Fairness

-----------------------------------------------------------------------------
TypeOK ==
    /\ pc \in [Drivers -> {"start", "mkdir", "fork", "setup", "prompt", "line", "waitpid", "flush",
                           "clean", "last clean", "atexit", "handler", "exit", "gone"}]
    /\ cleanup_needed \in [Drivers -> BOOLEAN]
    /\ shell \in [Drivers -> {"none", "forked", "running", "ended"}]
    /\ jobs \in [Drivers -> SUBSET AllJobs]
    /\ cleaner \in [Drivers -> [Cleaners -> Stages]]
    /\ listed \in [Drivers -> [Cleaners -> SUBSET ({"shell"} \cup AllJobs)]]
    /\ directory \in Drivers \cup {Nobody, Theirs}
    /\ again \subseteq Drivers /\ struck \subseteq Drivers
    /\ missed \subseteq Drivers /\ robbed \subseteq Drivers

(* No driver removes a directory that it did not make ("refusing to        *)
(* continue", runtrace.c:300-311), however many run and whatever signals   *)
(* they get, as long as none gets one within atexit_clean, where signals   *)
(* are not blocked (649-658): two cleanups of it would run then.           *)
RemovesItsOwn == again = {} => robbed = {}

(* A driver that is gone has left no directory behind, through whichever   *)
(* of its exits, unless a key ended its cleanup (82, 106, 396, 605, 656).  *)
Finished(d) == pc[d] = "gone" /\ \A c \in Cleaners : cleaner[d][c] \in {"none", "done"}

LeavesNoDirectory == \A d \in Drivers : Finished(d) /\ directory = d => d \in struck

(* At the end of a trace no stray job is left either (595-605), unless a   *)
(* key ended the cleanup or a job forked between its ps and its kill: from *)
(* the end of the shell on, only a job can start another.                  *)
LeavesNoJob ==
    \A d \in Drivers : pc[d] = "exit" /\ jobs[d] # {} => d \in struck \cup missed

CleanExit == RemovesItsOwn /\ LeavesNoDirectory /\ LeavesNoJob

(* Every driver ends, even when its shell does not (389-480, 590-592).     *)
Terminates == \A d \in Drivers : <>(pc[d] = "gone")
=============================================================================
