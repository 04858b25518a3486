--------------------------- MODULE RuntraceProofs ---------------------------
(***************************************************************************)
(* Proofs about Runtrace, for any set of drivers.                          *)
(***************************************************************************)
EXTENDS Runtrace, TLAPS

Before == {"start", "mkdir", "fork", "setup"}
Serving == {"prompt", "line", "waitpid", "flush"}
Cleaning == {"clean", "last clean", "atexit", "handler"}
Working == {"list", "kill", "remove"}

(* cleanup_needed is set while a directory must be removed, a cleanup runs *)
(* where main or the handler waits for it, and a second one only when a    *)
(* signal came in atexit_clean.                                            *)
ControlInv(d) ==
    /\ cleanup_needed[d] <=> pc[d] \in Serving \cup Cleaning
    /\ pc[d] \in Before \cup Serving => \A c \in Cleaners : cleaner[d][c] = "none"
    /\ pc[d] \in Cleaning \ {"handler"} =>
          cleaner[d]["main"] # "none" /\ cleaner[d]["handler"] = "none"
    /\ pc[d] = "handler" => cleaner[d]["handler"] # "none"
    /\ pc[d] = "exit" => cleaner[d]["main"] = "done" /\ cleaner[d]["handler"] = "none"
    /\ cleaner[d]["main"] # "none" /\ cleaner[d]["handler"] # "none" => d \in again

(* The directory is the driver's from mkdir to the end of a cleanup.       *)
OwnerInv(d) ==
    /\ directory = d => pc[d] \notin {"start", "mkdir"}
    /\ directory = d /\ pc[d] = "gone" => \E c \in Cleaners : cleaner[d][c] # "none"
    /\ \A c \in Cleaners :
          cleaner[d][c] = "done" /\ directory = d => d \in struck
    /\ again = {} =>
          /\ pc[d] \in {"fork", "setup"} \cup Serving => directory = d
          /\ \A c \in Cleaners : cleaner[d][c] \in Working => directory = d

(* From the end of the shell on, only a job starts another: what ps did not*)
(* list was forked since, and where nothing is left nothing comes back.    *)
JobInv(d) ==
    /\ pc[d] \in {"flush", "last clean", "exit"} => shell[d] = "ended"
    /\ pc[d] = "last clean" /\ cleaner[d]["main"] = "kill" /\ d \notin missed
          => jobs[d] \subseteq listed[d]["main"]
    /\ /\ pc[d] \in {"last clean", "exit"}
       /\ cleaner[d]["main"] \in {"remove", "done"}
       /\ d \notin struck \cup missed
       => jobs[d] = {}

DriverInv(d) == ControlInv(d) /\ OwnerInv(d) /\ JobInv(d)

IInv ==
    /\ TypeOK
    /\ \A d \in Drivers : DriverInv(d)
    /\ RemovesItsOwn

-----------------------------------------------------------------------------
(* A step of one driver leaves the others their state; it may take the     *)
(* directory from one only when again is not empty.                        *)
Frame(d) ==
    /\ \A e \in Drivers \ {d} :
          /\ pc'[e] = pc[e] /\ cleanup_needed'[e] = cleanup_needed[e]
          /\ shell'[e] = shell[e] /\ jobs'[e] = jobs[e]
          /\ cleaner'[e] = cleaner[e] /\ listed'[e] = listed[e]
          /\ directory' = directory \/ (directory' # e /\ (again = {} => directory # e))
    /\ again \subseteq again' /\ struck \subseteq struck' /\ missed \subseteq missed'

LEMMA OneDriver ==
    ASSUME IInv, TypeOK', NEW d \in Drivers, Frame(d), DriverInv(d)', RemovesItsOwn'
    PROVE  IInv'
<1>1. ASSUME NEW e \in Drivers \ {d}
      PROVE  DriverInv(e)'
  <2>1. DriverInv(e)
    BY DEF IInv
  <2>2. again' = {} => again = {}
    BY DEF Frame
  <2>3. ControlInv(e)'
    BY <2>1 DEF Frame, DriverInv, ControlInv
  <2>4. JobInv(e)'
    BY <2>1 DEF Frame, DriverInv, JobInv
  <2>5. OwnerInv(e)'
    <3>1. CASE directory' = directory
      BY <2>1, <3>1, <2>2 DEF Frame, DriverInv, OwnerInv
    <3>2. CASE directory' # e /\ (again = {} => directory # e)
      BY <2>1, <2>2, <3>2 DEF Frame, DriverInv, OwnerInv
    <3> QED
      BY <3>1, <3>2 DEF Frame
  <2> QED
    BY <2>3, <2>4, <2>5 DEF DriverInv
<1> QED
  BY <1>1 DEF IInv

(* One stage of one cleanup.                                               *)
LEMMA OneStage ==
    ASSUME cleaner \in [Drivers -> [Cleaners -> Stages]],
           NEW d \in Drivers, NEW c \in Cleaners, NEW stage \in Stages,
           cleaner' = [cleaner EXCEPT ![d][c] = stage]
    PROVE  /\ cleaner' \in [Drivers -> [Cleaners -> Stages]]
           /\ cleaner'[d][c] = stage
           /\ \A k \in Cleaners \ {c} : cleaner'[d][k] = cleaner[d][k]
           /\ \A e \in Drivers \ {d} : cleaner'[e] = cleaner[e]
<1>1. cleaner' = [cleaner EXCEPT ![d] = [cleaner[d] EXCEPT ![c] = stage]]
  OBVIOUS
<1> QED
  BY <1>1


-----------------------------------------------------------------------------
(* Steps of main that only go on, or give up before there is a directory.  *)
LEMMA MovesKeep ==
    ASSUME IInv, NEW d \in Drivers,
           \/ Block(d)
           \/ Refuse(d)
           \/ Prompt(d)
           \/ EndOfTrace(d)
           \/ ShellWaitedFor(d)
           \/ Exit(d)
    PROVE  IInv'
<1>1. DriverInv(d)
  BY DEF IInv
<1>2. /\ \/ pc[d] = "start" /\ pc'[d] = "mkdir"
         \/ pc[d] = "mkdir" /\ pc'[d] = "gone"
         \/ pc[d] = "prompt" /\ pc'[d] = "line"
         \/ pc[d] = "line" /\ pc'[d] = "waitpid"
         \/ pc[d] = "waitpid" /\ pc'[d] = "flush" /\ shell[d] = "ended"
         \/ pc[d] = "exit" /\ pc'[d] = "gone"
      /\ UNCHANGED <<cleanup_needed, shell, jobs, cleaner, listed, directory, robbed, again, struck, missed>>
  BY DEF IInv, TypeOK, Goto, Block, Refuse, Prompt, EndOfTrace, ShellWaitedFor, Exit,
         driver, session, cleaning, history
<1>3. TypeOK' /\ Frame(d)
  BY DEF IInv, TypeOK, Frame, Goto, Block, Refuse, Prompt, EndOfTrace, ShellWaitedFor,
         Exit, driver, session, cleaning, history
<1>4. ControlInv(d)'
  BY <1>1, <1>2 DEF DriverInv, ControlInv, Before, Serving, Cleaning, Working, Cleaners
<1>5. OwnerInv(d)'
  BY <1>1, <1>2 DEF DriverInv, ControlInv, OwnerInv, Before, Serving, Cleaning, Working,
                    Cleaners
<1>6. JobInv(d)'
  BY <1>1, <1>2 DEF DriverInv, ControlInv, JobInv, Before, Serving, Cleaning, Cleaners
<1>7. RemovesItsOwn'
  BY <1>1, <1>2 DEF IInv, RemovesItsOwn
<1> QED
  BY <1>3, <1>4, <1>5, <1>6, <1>7, OneDriver DEF DriverInv

(* The directory that a driver makes was nobody's before.                  *)
LEMMA MkdirKeeps ==
    ASSUME IInv, NEW d \in Drivers, Mkdir(d)
    PROVE  IInv'
<1>1. DriverInv(d)
  BY DEF IInv
<1>2. /\ pc[d] = "mkdir" /\ pc'[d] = "fork"
      /\ directory = Nobody /\ directory' = d
      /\ UNCHANGED <<cleanup_needed, shell, jobs, cleaner, listed, robbed, again, struck, missed>>
  BY DEF IInv, TypeOK, Goto, Mkdir, driver, session, cleaning, history
<1>3. TypeOK' /\ Frame(d)
  BY RuntraceAssumption DEF IInv, TypeOK, Frame, Goto, Mkdir, driver, session, cleaning,
                            history
<1>4. ControlInv(d)'
  BY <1>1, <1>2 DEF DriverInv, ControlInv, Before, Serving, Cleaning, Working, Cleaners
<1>5. OwnerInv(d)'
  BY <1>1, <1>2 DEF DriverInv, ControlInv, OwnerInv, Before, Serving, Cleaning, Working,
                    Cleaners
<1>6. JobInv(d)'
  BY <1>1, <1>2 DEF DriverInv, ControlInv, JobInv, Before, Serving, Cleaning, Cleaners
<1>7. RemovesItsOwn'
  BY <1>1, <1>2 DEF IInv, RemovesItsOwn
<1> QED
  BY <1>3, <1>4, <1>5, <1>6, <1>7, OneDriver DEF DriverInv

(* The shell is forked, and signals are let in.                            *)
LEMMA ForkKeeps ==
    ASSUME IInv, NEW d \in Drivers, Fork(d) \/ Ready(d)
    PROVE  IInv'
<1>1. DriverInv(d)
  BY DEF IInv
<1>2. /\ \/ pc[d] = "fork" /\ pc'[d] = "setup" /\ UNCHANGED cleanup_needed
         \/ pc[d] = "setup" /\ pc'[d] = "prompt" /\ cleanup_needed'[d]
      /\ UNCHANGED <<jobs, cleaner, listed, directory, robbed, again, struck, missed>>
  BY DEF IInv, TypeOK, Goto, Fork, Ready, driver, session, cleaning, history
<1>3. TypeOK' /\ Frame(d)
  BY DEF IInv, TypeOK, Frame, Goto, Fork, Ready, driver, session, cleaning, history
<1>4. ControlInv(d)'
  BY <1>1, <1>2 DEF DriverInv, ControlInv, Before, Serving, Cleaning, Working, Cleaners
<1>5. OwnerInv(d)'
  BY <1>1, <1>2 DEF DriverInv, ControlInv, OwnerInv, Before, Serving, Cleaning, Working,
                    Cleaners
<1>6. JobInv(d)'
  BY <1>1, <1>2 DEF DriverInv, ControlInv, JobInv, Before, Serving, Cleaning, Cleaners
<1>7. RemovesItsOwn'
  BY <1>1, <1>2 DEF IInv, RemovesItsOwn
<1> QED
  BY <1>3, <1>4, <1>5, <1>6, <1>7, OneDriver DEF DriverInv

(* What the shell and its jobs do.                                         *)
LEMMA SessionKeeps ==
    ASSUME IInv, NEW d \in Drivers, SessionStep(d)
    PROVE  IInv'
<1>1. DriverInv(d)
  BY DEF IInv
<1>2. /\ \/ shell[d] # "ended" /\ UNCHANGED <<jobs, missed>>
         \/ shell[d] # "ended" /\ UNCHANGED <<shell, missed>>
         \/ /\ jobs[d] # {} /\ UNCHANGED shell
            /\ cleaner[d]["main"] = "kill" => d \in missed'
            /\ missed \subseteq missed'
         \/ jobs'[d] \subseteq jobs[d] /\ UNCHANGED <<shell, missed>>
      /\ UNCHANGED <<pc, cleanup_needed, cleaner, listed, directory, robbed, again, struck>>
  <2>1. CASE Setsid(d) \/ ShellEnds(d)
    BY <2>1 DEF Setsid, ShellEnds, driver, cleaning, history
  <2>2. CASE ShellStartsJob(d)
    BY <2>2 DEF ShellStartsJob, driver, cleaning, history
  <2>3. CASE JobForks(d)
    <3>1. cleaner[d]["main"] = "kill" => missed' = missed \cup {d}
      BY <2>3 DEF JobForks, Cleaners
    <3> QED
      BY <2>3, <3>1 DEF JobForks, driver, cleaning
  <2>4. CASE JobEnds(d)
    <3>1. PICK j \in jobs[d] : jobs' = [jobs EXCEPT ![d] = @ \ {j}]
      BY <2>4 DEF JobEnds
    <3>2. jobs'[d] \subseteq jobs[d]
      BY <3>1 DEF IInv, TypeOK
    <3> QED
      BY <2>4, <3>2 DEF JobEnds, driver, cleaning, history
  <2> QED
    BY <2>1, <2>2, <2>3, <2>4 DEF SessionStep
<1>3. TypeOK' /\ Frame(d)
  <2>1. CASE Setsid(d) \/ ShellEnds(d)
    BY <2>1 DEF IInv, TypeOK, Frame, Setsid, ShellEnds, driver, cleaning, history
  <2>2. CASE ShellStartsJob(d) \/ JobForks(d)
    <3>1. PICK j \in Jobs[d] \ jobs[d] : jobs' = [jobs EXCEPT ![d] = @ \cup {j}]
      BY <2>2 DEF ShellStartsJob, JobForks
    <3>2. missed \subseteq missed' /\ missed' \subseteq missed \cup {d}
      BY <2>2 DEF ShellStartsJob, JobForks, history
    <3>3. j \in AllJobs
      BY DEF AllJobs
    <3> QED
      BY <2>2, <3>1, <3>2, <3>3 DEF IInv, TypeOK, Frame, ShellStartsJob, JobForks, driver,
                              cleaning, history
  <2>3. CASE JobEnds(d)
    <3>1. PICK j \in jobs[d] : jobs' = [jobs EXCEPT ![d] = @ \ {j}]
      BY <2>3 DEF JobEnds
    <3> QED
      BY <2>3, <3>1 DEF IInv, TypeOK, Frame, JobEnds, driver, cleaning, history
  <2> QED
    BY <2>1, <2>2, <2>3 DEF SessionStep
<1>4. ControlInv(d)'
  BY <1>1, <1>2 DEF DriverInv, ControlInv, Before, Serving, Cleaning, Working, Cleaners
<1>5. OwnerInv(d)'
  BY <1>1, <1>2 DEF DriverInv, ControlInv, OwnerInv, Before, Serving, Cleaning, Working,
                    Cleaners
<1>6. JobInv(d)'
  BY <1>1, <1>2 DEF DriverInv, ControlInv, JobInv, Before, Serving, Cleaning, Cleaners
<1>7. RemovesItsOwn'
  BY <1>1, <1>2 DEF IInv, RemovesItsOwn
<1> QED
  BY <1>3, <1>4, <1>5, <1>6, <1>7, OneDriver DEF DriverInv

(* main begins a cleanup, of a directory that is its own.                  *)
LEMMA CleanupKeeps ==
    ASSUME IInv, NEW d \in Drivers, TimeOut(d) \/ Fail(d) \/ Flushed(d)
    PROVE  IInv'
<1>1. DriverInv(d)
  BY DEF IInv
<1>2. /\ cleaner' \in [Drivers -> [Cleaners -> Stages]]
      /\ cleaner'[d]["main"] = "list"
      /\ \A k \in Cleaners \ {"main"} : cleaner'[d][k] = cleaner[d][k]
      /\ \A e \in Drivers \ {d} : cleaner'[e] = cleaner[e]
  <2>1. cleaner' = [cleaner EXCEPT ![d]["main"] = "list"]
    BY DEF TimeOut, Fail, Flushed, StartCleaner
  <2>2. "main" \in Cleaners /\ "list" \in Stages
    BY DEF Cleaners, Stages
  <2> QED
    BY <2>1, <2>2, OneStage DEF IInv, TypeOK
<1>3. /\ \/ pc[d] \in {"prompt", "line"} /\ pc'[d] = "clean"
         \/ pc[d] \in {"prompt", "line", "flush"} /\ pc'[d] = "atexit"
         \/ pc[d] = "flush" /\ pc'[d] = "last clean"
      /\ UNCHANGED <<cleanup_needed, shell, jobs, listed, directory, robbed, again, struck, missed>>
  BY <1>2 DEF IInv, TypeOK, Goto, TimeOut, Fail, Flushed, StartCleaner, driver, session,
              cleaning, history
<1>4. TypeOK' /\ Frame(d)
  BY <1>2 DEF IInv, TypeOK, Frame, Goto, TimeOut, Fail, Flushed, StartCleaner, driver,
              session, cleaning, history
<1>5. ControlInv(d)'
  BY <1>1, <1>2, <1>3 DEF DriverInv, ControlInv, Before, Serving, Cleaning, Working,
                          Cleaners
<1>6. OwnerInv(d)'
  BY <1>1, <1>2, <1>3 DEF DriverInv, ControlInv, OwnerInv, Before, Serving, Cleaning,
                          Working, Cleaners
<1>7. JobInv(d)'
  BY <1>1, <1>2, <1>3 DEF DriverInv, ControlInv, JobInv, Before, Serving, Cleaning,
                          Cleaners
<1>8. RemovesItsOwn'
  BY <1>1, <1>2, <1>3 DEF IInv, RemovesItsOwn
<1> QED
  BY <1>4, <1>5, <1>6, <1>7, <1>8, OneDriver DEF DriverInv

(* The cleanup a driver waited for has ended.                              *)
LEMMA CleanedKeeps ==
    ASSUME IInv, NEW d \in Drivers, Cleaned(d)
    PROVE  IInv'
<1>1. DriverInv(d)
  BY DEF IInv
<1>2. /\ \/ /\ pc[d] \in {"clean", "atexit"} /\ pc'[d] = "gone"
            /\ cleaner[d]["main"] = "done"
         \/ /\ pc[d] = "last clean" /\ pc'[d] = "exit"
            /\ cleaner[d]["main"] = "done"
         \/ /\ pc[d] = "handler" /\ pc'[d] = "gone"
            /\ cleaner[d]["handler"] = "done"
      /\ ~cleanup_needed'[d]
      /\ UNCHANGED <<shell, jobs, cleaner, listed, directory, robbed, again, struck, missed>>
  BY DEF IInv, TypeOK, Goto, Cleaned, Waited, driver, session, cleaning, history
<1>3. TypeOK' /\ Frame(d)
  BY DEF IInv, TypeOK, Frame, Goto, Cleaned, Waited, driver, session, cleaning, history
<1>4. ControlInv(d)'
  BY <1>1, <1>2 DEF DriverInv, ControlInv, Before, Serving, Cleaning, Working, Cleaners
<1>5. OwnerInv(d)'
  BY <1>1, <1>2 DEF DriverInv, ControlInv, OwnerInv, Before, Serving, Cleaning, Working,
                    Cleaners
<1>6. JobInv(d)'
  BY <1>1, <1>2 DEF DriverInv, ControlInv, JobInv, Before, Serving, Cleaning, Cleaners
<1>7. RemovesItsOwn'
  BY <1>1, <1>2 DEF IInv, RemovesItsOwn
<1> QED
  BY <1>3, <1>4, <1>5, <1>6, <1>7, OneDriver DEF DriverInv

(* A signal that finds a cleanup needed: only in atexit_clean one runs.    *)
LEMMA HandlerKeeps ==
    ASSUME IInv, NEW d \in Drivers, Handle(d), cleanup_needed[d]
    PROVE  IInv'
<1>1. DriverInv(d)
  BY DEF IInv
<1>2. pc[d] \in Serving \cup Cleaning
  BY <1>1 DEF DriverInv, ControlInv
<1>3. /\ cleaner' \in [Drivers -> [Cleaners -> Stages]]
      /\ cleaner'[d]["handler"] = "list"
      /\ \A k \in Cleaners \ {"handler"} : cleaner'[d][k] = cleaner[d][k]
      /\ \A e \in Drivers \ {d} : cleaner'[e] = cleaner[e]
  <2>1. cleaner' = [cleaner EXCEPT ![d]["handler"] = "list"]
    BY DEF Handle, StartCleaner
  <2>2. "handler" \in Cleaners /\ "list" \in Stages
    BY DEF Cleaners, Stages
  <2> QED
    BY <2>1, <2>2, OneStage DEF IInv, TypeOK
<1>4. /\ pc[d] \in Serving \cup {"atexit"} /\ pc'[d] = "handler"
      /\ again' = IF pc[d] = "atexit" THEN again \cup {d} ELSE again
      /\ UNCHANGED <<cleanup_needed, shell, jobs, listed, directory, robbed, struck, missed>>
  BY <1>2, <1>3 DEF IInv, TypeOK, Handle, Unblocked, Serving, Cleaning, StartCleaner,
                    driver, session, cleaning, history
<1>5. TypeOK' /\ Frame(d)
  BY <1>2, <1>3 DEF IInv, TypeOK, Frame, Handle, Unblocked, Serving, Cleaning,
                    StartCleaner, driver, session, cleaning, history
<1>6. ControlInv(d)'
  BY <1>1, <1>3, <1>4 DEF DriverInv, ControlInv, Before, Serving, Cleaning, Working,
                          Cleaners
<1>7. OwnerInv(d)'
  BY <1>1, <1>3, <1>4 DEF DriverInv, ControlInv, OwnerInv, Before, Serving, Cleaning,
                          Working, Cleaners
<1>8. JobInv(d)'
  BY <1>1, <1>3, <1>4 DEF DriverInv, ControlInv, JobInv, Before, Serving, Cleaning,
                          Cleaners
<1>9. RemovesItsOwn'
  BY <1>1, <1>3, <1>4 DEF IInv, RemovesItsOwn
<1> QED
  BY <1>5, <1>6, <1>7, <1>8, <1>9, OneDriver DEF DriverInv

(* One that finds nothing to clean up.                                     *)
LEMMA KilledKeeps ==
    ASSUME IInv, NEW d \in Drivers, Handle(d), ~cleanup_needed[d]
    PROVE  IInv'
<1>1. DriverInv(d)
  BY DEF IInv
<1>2. pc[d] \notin Serving \cup Cleaning
  BY <1>1 DEF DriverInv, ControlInv
<1>3. /\ pc[d] \in {"start", "exit"} /\ pc'[d] = "gone"
      /\ UNCHANGED <<cleanup_needed, shell, jobs, cleaner, listed, directory, robbed, again, struck, missed>>
  BY <1>2 DEF IInv, TypeOK, Handle, Unblocked, Serving, Cleaning, driver, session,
              cleaning, history
<1>4. TypeOK' /\ Frame(d)
  BY <1>2 DEF IInv, TypeOK, Frame, Handle, Unblocked, Serving, Cleaning, driver,
              session, cleaning, history
<1>5. ControlInv(d)'
  BY <1>1, <1>3 DEF DriverInv, ControlInv, Before, Serving, Cleaning, Working, Cleaners
<1>6. OwnerInv(d)'
  BY <1>1, <1>3 DEF DriverInv, ControlInv, OwnerInv, Before, Serving, Cleaning, Working,
                    Cleaners
<1>7. JobInv(d)'
  BY <1>1, <1>3 DEF DriverInv, ControlInv, JobInv, Before, Serving, Cleaning, Cleaners
<1>8. RemovesItsOwn'
  BY <1>1, <1>3 DEF IInv, RemovesItsOwn
<1> QED
  BY <1>4, <1>5, <1>6, <1>7, <1>8, OneDriver DEF DriverInv

(* A key ends a cleanup.                                                   *)
LEMMA StrikeKeeps ==
    ASSUME IInv, NEW d \in Drivers, NEW c \in Cleaners, Strike(d, c)
    PROVE  IInv'
<1>1. DriverInv(d)
  BY DEF IInv
<1>2. cleaner[d][c] \in Stages
  BY DEF IInv, TypeOK
<1>3. /\ cleaner' \in [Drivers -> [Cleaners -> Stages]]
      /\ cleaner'[d][c] = "done"
      /\ \A k \in Cleaners \ {c} : cleaner'[d][k] = cleaner[d][k]
      /\ \A e \in Drivers \ {d} : cleaner'[e] = cleaner[e]
  <2>1. cleaner' = [cleaner EXCEPT ![d][c] = "done"]
    BY DEF Strike
  <2>2. c \in Cleaners /\ "done" \in Stages
    BY DEF Cleaners, Stages
  <2> QED
    BY <2>1, <2>2, OneStage DEF IInv, TypeOK
<1>4. /\ cleaner[d][c] \in Working
      /\ struck' = struck \cup {d}
      /\ UNCHANGED <<pc, cleanup_needed, shell, jobs, listed, directory, robbed, again, missed>>
  BY <1>2, <1>3 DEF IInv, TypeOK, Strike, Working, Stages, driver, session, cleaning,
                    history
<1>5. TypeOK' /\ Frame(d)
  BY <1>2, <1>3 DEF IInv, TypeOK, Frame, Strike, Working, Stages, driver, session,
                    cleaning, history
<1>6. ControlInv(d)'
  BY <1>1, <1>3, <1>4 DEF DriverInv, ControlInv, Before, Serving, Cleaning, Working,
                          Cleaners
<1>7. OwnerInv(d)'
  BY <1>1, <1>3, <1>4 DEF DriverInv, ControlInv, OwnerInv, Before, Serving, Cleaning,
                          Working, Cleaners
<1>8. JobInv(d)'
  BY <1>1, <1>3, <1>4 DEF DriverInv, ControlInv, JobInv, Before, Serving, Cleaning,
                          Cleaners
<1>9. RemovesItsOwn'
  BY <1>1, <1>3, <1>4 DEF IInv, RemovesItsOwn
<1> QED
  BY <1>5, <1>6, <1>7, <1>8, <1>9, OneDriver DEF DriverInv

(* ps lists the processes of the session.                                  *)
LEMMA ListKeeps ==
    ASSUME IInv, NEW d \in Drivers, NEW c \in Cleaners, List(d, c)
    PROVE  IInv'
<1>1. DriverInv(d)
  BY DEF IInv
<1>2. /\ cleaner' \in [Drivers -> [Cleaners -> Stages]]
      /\ cleaner'[d][c] = "kill"
      /\ \A k \in Cleaners \ {c} : cleaner'[d][k] = cleaner[d][k]
      /\ \A e \in Drivers \ {d} : cleaner'[e] = cleaner[e]
  <2>1. cleaner' = [cleaner EXCEPT ![d][c] = "kill"]
    BY DEF List
  <2>2. c \in Cleaners /\ "kill" \in Stages
    BY DEF Cleaners, Stages
  <2> QED
    BY <2>1, <2>2, OneStage DEF IInv, TypeOK
<1>3. /\ cleaner[d][c] = "list"
      /\ jobs[d] \subseteq listed'[d][c]
      /\ UNCHANGED <<pc, cleanup_needed, shell, jobs, directory, robbed, again, struck, missed>>
  BY <1>2 DEF IInv, TypeOK, List, InSession, driver, session, cleaning, history
<1>4. TypeOK' /\ Frame(d)
  BY <1>2 DEF IInv, TypeOK, Frame, List, InSession, driver, session, cleaning, history
<1>5. ControlInv(d)'
  BY <1>1, <1>2, <1>3 DEF DriverInv, ControlInv, Before, Serving, Cleaning, Working,
                          Cleaners
<1>6. OwnerInv(d)'
  BY <1>1, <1>2, <1>3 DEF DriverInv, ControlInv, OwnerInv, Before, Serving, Cleaning,
                          Working, Cleaners
<1>7. JobInv(d)'
  BY <1>1, <1>2, <1>3 DEF DriverInv, ControlInv, JobInv, Before, Serving, Cleaning,
                          Cleaners
<1>8. RemovesItsOwn'
  BY <1>1, <1>2, <1>3 DEF IInv, RemovesItsOwn
<1> QED
  BY <1>4, <1>5, <1>6, <1>7, <1>8, OneDriver DEF DriverInv

(* kill ends those that were listed.                                       *)
LEMMA KillKeeps ==
    ASSUME IInv, NEW d \in Drivers, NEW c \in Cleaners, Kill(d, c)
    PROVE  IInv'
<1>1. DriverInv(d)
  BY DEF IInv
<1>2. /\ cleaner' \in [Drivers -> [Cleaners -> Stages]]
      /\ cleaner'[d][c] = "remove"
      /\ \A k \in Cleaners \ {c} : cleaner'[d][k] = cleaner[d][k]
      /\ \A e \in Drivers \ {d} : cleaner'[e] = cleaner[e]
  <2>1. cleaner' = [cleaner EXCEPT ![d][c] = "remove"]
    BY DEF Kill
  <2>2. c \in Cleaners /\ "remove" \in Stages
    BY DEF Cleaners, Stages
  <2> QED
    BY <2>1, <2>2, OneStage DEF IInv, TypeOK
<1>3. /\ cleaner[d][c] = "kill"
      /\ shell[d] = "ended" => shell'[d] = "ended"
      /\ jobs'[d] = jobs[d] \ listed[d][c]
      /\ UNCHANGED <<pc, cleanup_needed, directory, robbed, again, struck, missed>>
  BY <1>2 DEF IInv, TypeOK, Kill, driver, session, cleaning, history
<1>4. TypeOK' /\ Frame(d)
  BY <1>2 DEF IInv, TypeOK, Frame, Kill, driver, session, cleaning, history
<1>5. ControlInv(d)'
  BY <1>1, <1>2, <1>3 DEF DriverInv, ControlInv, Before, Serving, Cleaning, Working,
                          Cleaners
<1>6. OwnerInv(d)'
  BY <1>1, <1>2, <1>3 DEF DriverInv, ControlInv, OwnerInv, Before, Serving, Cleaning,
                          Working, Cleaners
<1>7. JobInv(d)'
  BY <1>1, <1>2, <1>3 DEF DriverInv, ControlInv, JobInv, Before, Serving, Cleaning,
                          Cleaners
<1>8. RemovesItsOwn'
  BY <1>1, <1>2, <1>3 DEF IInv, RemovesItsOwn
<1> QED
  BY <1>4, <1>5, <1>6, <1>7, <1>8, OneDriver DEF DriverInv

(* rm removes the directory, if again is empty the driver's own.           *)
LEMMA RemoveKeeps ==
    ASSUME IInv, NEW d \in Drivers, NEW c \in Cleaners, Remove(d, c)
    PROVE  IInv'
<1>1. DriverInv(d)
  BY DEF IInv
<1>2. again = {} => directory = d
  BY <1>1 DEF Remove, DriverInv, OwnerInv, Working
<1>3. /\ cleaner' \in [Drivers -> [Cleaners -> Stages]]
      /\ cleaner'[d][c] = "done"
      /\ \A k \in Cleaners \ {c} : cleaner'[d][k] = cleaner[d][k]
      /\ \A e \in Drivers \ {d} : cleaner'[e] = cleaner[e]
  <2>1. cleaner' = [cleaner EXCEPT ![d][c] = "done"]
    BY DEF Remove
  <2>2. c \in Cleaners /\ "done" \in Stages
    BY DEF Cleaners, Stages
  <2> QED
    BY <2>1, <2>2, OneStage DEF IInv, TypeOK
<1>4. /\ cleaner[d][c] = "remove"
      /\ again = {} => directory = d
      /\ directory' = Nobody
      /\ directory = d => robbed' = robbed
      /\ UNCHANGED <<pc, cleanup_needed, shell, jobs, listed, again, struck, missed>>
  BY <1>2, <1>3, RuntraceAssumption DEF IInv, TypeOK, Remove, driver, session, cleaning,
                                        history
<1>5. TypeOK' /\ Frame(d)
  BY <1>2, <1>3, RuntraceAssumption DEF IInv, TypeOK, Frame, Remove, driver, session,
                                        cleaning, history
<1>6. ControlInv(d)'
  BY <1>1, <1>3, <1>4 DEF DriverInv, ControlInv, Before, Serving, Cleaning, Working,
                          Cleaners
<1>7. OwnerInv(d)'
  BY <1>1, <1>3, <1>4, RuntraceAssumption DEF DriverInv, ControlInv, OwnerInv, Before,
                                              Serving, Cleaning, Working, Cleaners
<1>8. JobInv(d)'
  BY <1>1, <1>3, <1>4 DEF DriverInv, ControlInv, JobInv, Before, Serving, Cleaning,
                          Cleaners
<1>9. RemovesItsOwn'
  BY <1>1, <1>3, <1>4 DEF IInv, RemovesItsOwn
<1> QED
  BY <1>5, <1>6, <1>7, <1>8, <1>9, OneDriver DEF DriverInv

-----------------------------------------------------------------------------
LEMMA InitHolds == Init => IInv
<1> SUFFICES ASSUME Init PROVE IInv
  OBVIOUS
<1>1. TypeOK
  BY DEF Init, TypeOK, Cleaners, Stages
<1>2. ASSUME NEW d \in Drivers
      PROVE  DriverInv(d)
  <2>1. /\ pc[d] = "start" /\ ~cleanup_needed[d]
        /\ shell[d] = "none" /\ jobs[d] = {}
        /\ \A c \in Cleaners : cleaner[d][c] = "none"
        /\ directory # d
    BY RuntraceAssumption DEF Init
  <2>2. ControlInv(d)
    BY <2>1 DEF ControlInv, Before, Serving, Cleaning, Cleaners
  <2>3. OwnerInv(d)
    BY <2>1 DEF OwnerInv, Serving, Working
  <2>4. JobInv(d)
    BY <2>1 DEF JobInv
  <2> QED
    BY <2>2, <2>3, <2>4 DEF DriverInv
<1>3. RemovesItsOwn
  BY DEF Init, RemovesItsOwn
<1> QED
  BY <1>1, <1>2, <1>3 DEF IInv

LEMMA NextKeeps == IInv /\ [Next]_vars => IInv'
<1> SUFFICES ASSUME IInv, [Next]_vars PROVE IInv'
  OBVIOUS
<1>1. CASE UNCHANGED vars
  <2>1. UNCHANGED <<pc, cleanup_needed, shell, jobs, cleaner, listed, directory,
                    robbed, again, struck, missed>>
    BY <1>1 DEF vars
  <2>2. TypeOK' /\ RemovesItsOwn'
    BY <2>1 DEF IInv, TypeOK, RemovesItsOwn
  <2>3. ASSUME NEW d \in Drivers
        PROVE  DriverInv(d)'
    <3>1. DriverInv(d)
      BY DEF IInv
    <3>2. ControlInv(d)'
      BY <2>1, <3>1 DEF DriverInv, ControlInv
    <3>3. OwnerInv(d)'
      BY <2>1, <3>1 DEF DriverInv, OwnerInv
    <3>4. JobInv(d)'
      BY <2>1, <3>1 DEF DriverInv, JobInv
    <3> QED
      BY <3>2, <3>3, <3>4 DEF DriverInv
  <2> QED
    BY <2>2, <2>3 DEF IInv
<1>2. ASSUME NEW d \in Drivers, DriverStep(d)
      PROVE  IInv'
  BY <1>2, MovesKeep, MkdirKeeps, ForkKeeps, CleanupKeeps, CleanedKeeps DEF DriverStep
<1>3. ASSUME NEW d \in Drivers, Signal(d) \/ Alarm(d)
      PROVE  IInv'
  <2>1. Handle(d)
    BY <1>3 DEF Signal, Alarm
  <2> QED
    BY <2>1, HandlerKeeps, KilledKeeps
<1>4. ASSUME NEW d \in Drivers, NEW c \in Cleaners, CleanerStep(d, c) \/ Strike(d, c)
      PROVE  IInv'
  BY <1>4, ListKeeps, KillKeeps, RemoveKeeps, StrikeKeeps DEF CleanerStep
<1>5. ASSUME NEW d \in Drivers, SessionStep(d)
      PROVE  IInv'
  BY <1>5, SessionKeeps
<1> QED
  BY <1>1, <1>2, <1>3, <1>4, <1>5 DEF Next

(* Every reachable state has the inductive invariant: at all times the code *)
(* knows of each driver whether a directory is its own to remove            *)
(* (runtrace.c:288-380, 619-658).                                           *)
THEOREM Invariance == Spec => []IInv
  BY InitHolds, NextKeeps, PTL DEF Spec

(* However many drivers run in one directory, and whichever signals they    *)
(* get: none removes another's directory unless one was signalled in        *)
(* atexit_clean; none leaves its own behind unless a key ended its cleanup; *)
(* and at the end of a trace none leaves a job unless a key ended its       *)
(* cleanup, or a job forked after ps (runtrace.c:300-311, 368, 595-658).    *)
THEOREM ExitsAreClean == Spec => []CleanExit
<1>1. IInv => CleanExit
  <2> SUFFICES ASSUME IInv PROVE CleanExit
    OBVIOUS
  <2>1. ASSUME NEW d \in Drivers
        PROVE  /\ Finished(d) /\ directory = d => d \in struck
               /\ pc[d] = "exit" /\ jobs[d] # {} => d \in struck \cup missed
    <3>1. DriverInv(d)
      BY DEF IInv
    <3>2. Finished(d) /\ directory = d => d \in struck
      BY <3>1 DEF DriverInv, OwnerInv, Finished
    <3>3. pc[d] = "exit" /\ jobs[d] # {} => d \in struck \cup missed
      BY <3>1 DEF DriverInv, ControlInv, JobInv
    <3> QED
      BY <3>2, <3>3
  <2> QED
    BY <2>1 DEF IInv, CleanExit, LeavesNoDirectory, LeavesNoJob
<1> QED
  BY <1>1, Invariance, PTL
=============================================================================
