------------------------------- MODULE QTest -------------------------------
(***************************************************************************)
(* The commands of qtest (qtest.c, console.c) on the queue of module       *)
(* Queue, at a verbosity below 3 as the driver runs them.  Each runs its   *)
(* call under a time limit; SIGALRM and SIGSEGV jump back to the command   *)
(* (exception_setup in harness.c), whatever the call was doing.            *)
(*                                                                         *)
(* rh stands for rhq too; the comparison with an expected string, and the  *)
(* commands that touch no queue, are left out.                             *)
(***************************************************************************)
EXTENDS Queue, Sequences

CONSTANTS
    fail_limit, err_limit, big_queue_size,
    MaxReps,            \* insertions of one command
    MaxAlarms,          \* commands that exceed their time limit
    NoQueue, Broken     \* what held is without a whole queue

ASSUME QTestAssumption ==
    /\ fail_limit \in Nat /\ err_limit \in Nat \ {0} /\ big_queue_size \in Nat
    /\ MaxAlarms \in Nat
    /\ NoQueue # Broken
    /\ {NoQueue, Broken} \cap Seq(Strings \cup {Blank}) = {}

VARIABLES
    qcnt, fail_count,           \* qtest.c
    error_occurred, err_cnt,    \* harness.c, console.c
    ok, reps,                   \* of the command
    alarms,                     \* how many commands were cut off
    held                        \* what the queue held at the last return

counters == <<fail_count, error_occurred, err_cnt, ok, reps>>
calls == <<next, value, q, head, tail, size, harness, pc, cmd, str, ele, ptr, rval>>
vars == <<calls, qcnt, counters, alarms, held>>

Inserting == {"ih", "it"}
Commands == {"new", "free", "ih", "it", "rh", "reverse", "size", "show", "quit"}

Init ==
    /\ next = [e \in Elements |-> NULL]
    /\ value = [e \in Elements |-> Blank]
    /\ q = NULL /\ head = NULL /\ tail = NULL /\ size = 0
    /\ HarnessInit
    /\ pc = "prompt" /\ cmd = "none" /\ str = Blank
    /\ ele = NULL /\ ptr = NULL /\ rval = FALSE
    /\ qcnt = 0 /\ fail_count = 0
    /\ error_occurred = FALSE /\ err_cnt = 0
    /\ ok = TRUE /\ reps = 1
    /\ alarms = 0
    /\ held = NoQueue

(* The elements of the list, from the head, and the strings they hold.     *)
List ==
    LET Path[n \in 0 .. Cardinality(Elements)] ==
            IF n = 0 THEN <<>>
            ELSE LET path == Path[n - 1]
                     e == IF path = <<>> THEN head ELSE next[path[Len(path)]]
                 IN  IF e = NULL \/ Len(path) < n - 1 THEN path ELSE Append(path, e)
    IN  IF q = NULL THEN <<>> ELSE Path[Cardinality(Elements)]

Contents == [j \in DOMAIN List |-> value[List[j]]]

-----------------------------------------------------------------------------
FirstStep ==
    [new |-> IF q = NULL THEN "q_new" ELSE "q_free", free |-> "q_free",
     ih |-> "insert", it |-> "insert", rh |-> "remove", reverse |-> "reverse",
     size |-> "cancel", show |-> "cancel", quit |-> "q_free"]

(* A qcnt below 0 stands for a size_t that has wrapped.  Big queues are    *)
(* freed without find_header's walk.                                       *)
Big == qcnt < 0 \/ qcnt > big_queue_size

(* do_new first runs do_free on an old queue (cmd "renew").  All but show  *)
(* begin with an error_check, which forgets errors.                        *)
Command(c, s, n) ==
    /\ Goto("prompt", FirstStep[c])
    /\ cmd' = IF c = "new" /\ q # NULL THEN "renew" ELSE c
    /\ str' = s
    /\ reps' = n
    /\ ok' = TRUE
    /\ rval' = FALSE
    /\ error_occurred' = (c = "show" /\ error_occurred)
    /\ cautious_mode' = ~(cmd' \in {"free", "renew", "quit"} /\ Big)
    /\ UNCHANGED <<element, queue, blocks, ele, ptr, qcnt, fail_count, err_cnt,
                   alarms, held>>

(* What follows the use of a block that was freed is not modelled.         *)
Execute ==
    /\ QueueStep
    /\ IF step = "none" THEN Touched \subseteq live ELSE HeadersTouched \subseteq live
    /\ UNCHANGED <<qcnt, counters, alarms, held>>

(* A call that fails counts; the last that may is an error.                *)
FailCount == IF fail_count < fail_limit THEN fail_count + 1 ELSE fail_limit

(* The loop of do_insert_head and do_insert_tail around each call.         *)
Inserted ==
    /\ pc = "return" /\ step = "none" /\ ~Segfault
    /\ qcnt' = IF rval THEN qcnt + 1 ELSE qcnt
    /\ fail_count' = IF rval THEN fail_count ELSE FailCount
    /\ ok' = (rval \/ FailCount < fail_limit)
    /\ reps' = reps - 1
    /\ pc' = IF ok' /\ reps > 1 THEN "insert" ELSE "cancel"
    /\ held' = IF held = Broken \/ q = NULL THEN held ELSE Contents
    /\ UNCHANGED <<element, queue, harness, cmd, str, ele, ptr, rval,
                   error_occurred, err_cnt, alarms>>

(* siglongjmp to exception_setup.  do_remove_head's rval and the inserts'  *)
(* ok are not volatile: what they were assigned since may be lost.         *)
Jump ==
    /\ pc' = "interrupted"
    /\ error_occurred' = TRUE
    /\ CutOff
    /\ rval' \in IF pc = "cancel" THEN {rval, FALSE} ELSE {FALSE}
    /\ ok' \in IF cmd \in Inserting THEN {ok, TRUE} ELSE {ok}
    /\ held' = IF cmd \in {"ih", "it", "rh", "reverse"} /\ q # NULL THEN Broken ELSE held
    /\ UNCHANGED <<element, queue, cmd, str, ele, ptr, fail_count, err_cnt, reps>>

TimeLimit ==
    /\ pc \notin {"prompt", "interrupted", "exit"}
    /\ cmd = "show" => q # NULL
    /\ alarms < MaxAlarms
    /\ alarms' = alarms + 1
    /\ Jump
    /\ UNCHANGED qcnt

(* do_insert_head and do_insert_tail look at the head's string when they   *)
(* have counted the element.                                               *)
NullDereferenced ==
    /\ step = "none" /\ Segfault
    /\ Jump
    /\ qcnt' = IF pc = "return" THEN qcnt + 1 ELSE qcnt
    /\ UNCHANGED alarms

-----------------------------------------------------------------------------
(* The end of a command with its result: interpret_cmda and record_error.  *)
NoLocals ==
    /\ cmd' = "none" /\ str' = Blank /\ reps' = 1
    /\ ele' = NULL /\ ptr' = NULL /\ rval' = FALSE /\ ok' = TRUE

Finish(result) ==
    /\ err_cnt' = IF result THEN err_cnt ELSE err_cnt + 1
    /\ pc' = IF err_cnt' >= err_limit THEN "exit" ELSE "prompt"
    /\ NoLocals
    /\ cautious_mode' = TRUE
    /\ UNCHANGED <<element, blocks, alarms>>

(* error_check, which `ok && !error_check()` calls only if ok.             *)
Checked(good) ==
    /\ error_occurred' = (error_occurred /\ ~good)
    /\ Finish(good /\ ~error_occurred)

Cancelled(cs) == pc \in {"cancel", "interrupted"} /\ step = "none" /\ cmd \in cs

Kept == IF q = NULL THEN NoQueue ELSE IF held = Broken THEN Broken ELSE Contents

(* do_insert_head and do_insert_tail end without an error_check.           *)
FinishInsert ==
    /\ Cancelled(Inserting)
    /\ Finish(ok)
    /\ UNCHANGED <<queue, qcnt, fail_count, error_occurred, held>>

(* Mutant of FinishRemove: a removal that failed is subtracted too.        *)
FinishRemove_Always ==
    /\ Cancelled({"rh"})
    /\ qcnt' = qcnt - 1
    /\ fail_count' = IF rval THEN fail_count ELSE FailCount
    /\ Checked(rval \/ FailCount < fail_limit)
    /\ held' = Kept
    /\ UNCHANGED queue

FinishRemove ==
    /\ Cancelled({"rh"})
    /\ qcnt' = IF rval THEN qcnt - 1 ELSE qcnt
    /\ fail_count' = IF rval THEN fail_count ELSE FailCount
    /\ Checked(rval \/ FailCount < fail_limit)
    /\ held' = Kept
    /\ UNCHANGED queue

FinishReverse ==
    /\ Cancelled({"reverse"})
    /\ Checked(TRUE)
    /\ held' = Kept
    /\ UNCHANGED <<queue, qcnt, fail_count>>

(* Cut off, do_size may not have its answer yet, and goes on with 0.       *)
q_size == IF q = NULL THEN 0 ELSE size

FinishSize ==
    /\ Cancelled({"size"})
    /\ \E cnt \in IF pc = "interrupted" THEN {0, q_size} ELSE {q_size} : Checked(qcnt = cnt)
    /\ UNCHANGED <<queue, qcnt, fail_count, held>>

(* do_show: the list must end within qcnt elements.  The loop looks for    *)
(* errors too, and finds one that an earlier command has left.  Cut off,   *)
(* show_queue goes by locals that are not volatile.                        *)
ListEnds == List = <<>> \/ qcnt < 0 \/ Len(List) <= qcnt
ShowLoops == List # <<>> /\ qcnt # 0

FinishShow ==
    /\ Cancelled({"show"})
    /\ \/ /\ pc = "cancel"
          /\ Finish(ListEnds /\ ~(ShowLoops /\ error_occurred))
          /\ error_occurred' = (error_occurred /\ ~ShowLoops)
       \/ /\ pc = "interrupted"
          /\ \E shown \in BOOLEAN : (List = <<>> => shown) /\ Finish(shown)
          /\ UNCHANGED error_occurred
    /\ UNCHANGED <<queue, qcnt, fail_count, held>>

FinishNew ==
    /\ Cancelled({"new"})
    /\ Checked(ok)
    /\ qcnt' = 0
    /\ held' = Kept
    /\ UNCHANGED <<queue, fail_count>>

(* do_free, whose result is the command's or do_new's.                     *)
Freed ==
    /\ q' = NULL
    /\ qcnt' = 0
    /\ held' = NoQueue
    /\ UNCHANGED <<head, tail, size, fail_count>>

FinishFree == Cancelled({"free"}) /\ Freed /\ Checked(allocated_count = 0)

FinishOld ==
    /\ Cancelled({"renew"})
    /\ Freed
    /\ pc' = "q_new"
    /\ cmd' = "new"
    /\ ok' = (allocated_count = 0 /\ ~error_occurred)
    /\ error_occurred' = FALSE
    /\ cautious_mode' = TRUE
    /\ UNCHANGED <<element, blocks, str, ele, ptr, rval, err_cnt, reps, alarms>>

(* queue_quit, and the end of the program.                                 *)
Quit ==
    /\ Cancelled({"quit"})
    /\ pc' = "exit"
    /\ ok' = (allocated_count = 0 /\ err_cnt = 0)
    /\ cautious_mode' = TRUE
    /\ UNCHANGED <<element, queue, blocks, cmd, str, ele, ptr, rval, qcnt,
                   fail_count, error_occurred, err_cnt, reps, alarms, held>>

Next ==
    \/ \E c \in Inserting, s \in Strings, n \in 1 .. MaxReps : Command(c, s, n)
    \/ \E c \in Commands \ Inserting : Command(c, Blank, 1)
    \/ Execute
    \/ Inserted
    \/ TimeLimit
    \/ NullDereferenced
    \/ FinishInsert \/ FinishRemove \/ FinishReverse \/ FinishSize \/ FinishShow
    \/ FinishNew \/ FinishFree \/ FinishOld
    \/ Quit

Spec == Init /\ [][Next]_vars

-----------------------------------------------------------------------------
Labels ==
    {"prompt", "exit", "cancel", "interrupted", "return",
     "q_new", "assign", "q_free", "free next", "free value", "free ele",
     "insert", "malloc value", "store", "link head", "first tail", "first head",
     "link tail", "move tail", "grow", "only tail",
     "remove", "unlink", "shrink", "no head", "no tail",
     "reverse", "turn tail", "turn head", "turn", "turned"}

TypeOK ==
    /\ next \in [Elements -> Elements \cup {NULL}]
    /\ value \in [Elements -> Strings \cup {Blank}]
    /\ q \in Queues \cup {NULL}
    /\ {head, tail, ele} \subseteq Elements \cup {NULL}
    /\ ptr \in Elements \cup Queues \cup {NULL}
    /\ size \in 0 .. Cardinality(Elements)
    /\ HarnessTypeOK
    /\ allocated_count \in 0 .. Cardinality(Blocks) + MaxAlarms
    /\ cautious_mode \in BOOLEAN
    /\ pc \in Labels /\ cmd \in Commands \cup {"none", "renew"}
    /\ str \in Strings \cup {Blank}
    /\ {rval, error_occurred, ok} \subseteq BOOLEAN
    /\ qcnt \in -MaxAlarms .. Cardinality(Elements) + MaxAlarms
    /\ fail_count \in 0 .. fail_limit
    /\ err_cnt \in 0 .. err_limit

(* queue.c reads, writes and frees only blocks that are allocated.  Where  *)
(* a command was cut off before, the list may end early, but neither       *)
(* walking nor freeing it meets a block that was freed (queue.c:39-59,     *)
(* 144-221); the tail alone may then point to one.                         *)
MemorySafe ==
    step = "none" =>
        /\ held # Broken => Touched \subseteq live
        /\ pc # "link tail" => \A b \in Touched : b \in live \/ b[2] = NULL

(* As long as no alarm came between the two stores of a link, find_header  *)
(* finds every block that queue.c frees, among allocated blocks only, and  *)
(* the list's other links are stored in allocated blocks (harness.c:75-98, *)
(* 132-136, 163-171).                                                      *)
ToFree ==
    CASE pc = "free value" -> {<<"value", ele>>}
      [] pc \in {"free ele", "malloc value"} -> {<<"ele", ele>>}
      [] pc = "free next" /\ ptr = NULL -> {<<"queue", q>>}
      [] OTHER -> {}

ListSafe ==
    ~torn => IF step = "none"
             THEN \A b \in ToFree : WalkIsSafe(b) /\ WalkFinds(b)
             ELSE HeadersTouched \subseteq live

(* A queue that no command was cut off on is whole between commands: the   *)
(* list, its tail, size and qcnt agree; and unless some command was cut    *)
(* off, its blocks are all that is allocated (queue.c:25-221).             *)
QueueBlocks ==
    IF q = NULL THEN {}
    ELSE {<<"queue", q>>} \cup ({"ele", "value"} \X {List[j] : j \in DOMAIN List})

QueueWhole ==
    pc = "prompt" =>
        /\ held # Broken /\ q # NULL =>
               /\ Len(List) = size /\ size = qcnt
               /\ \A j, k \in DOMAIN List : List[j] = List[k] => j = k
               /\ IF size = 0 THEN head = NULL /\ tail = NULL
                  ELSE tail = List[size] /\ next[tail] = NULL
        /\ alarms = 0 => /\ live = QueueBlocks
                         /\ allocated_count = Cardinality(live)

(* The calls insert, remove and reverse as their comments in queue.h say,  *)
(* each completely or not at all unless the time limit cuts it off.        *)
Abstract == INSTANCE Deque WITH contents <- held

ImplementsDeque == Abstract!Spec
=============================================================================
