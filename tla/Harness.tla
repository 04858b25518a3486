------------------------------ MODULE Harness ------------------------------
(***************************************************************************)
(* test_malloc and test_free (cprogramminglab-handout/harness.c), which    *)
(* the tests of the string queue put in the place of malloc and free.  The *)
(* blocks handed out form a doubly linked list, which test_free walks to   *)
(* see that a block is allocated.  The time limit of a command may cut a   *)
(* call off between any two stores to the list, so each is a step.         *)
(*                                                                         *)
(* An element of the queue and its string are two blocks, <<"ele", e>> and *)
(* <<"value", e>>; which addresses malloc returns is left open.  The magic *)
(* numbers are left out: no block is freed a second time.  Nor is a call   *)
(* of malloc or free itself cut off in the middle.                         *)
(***************************************************************************)
EXTENDS Integers, FiniteSets

CONSTANTS Elements, Queues, NULL

VARIABLES
    live,                   \* the blocks that malloc gave out and free did not take back
    allocated,              \* the first of the list
    bnext, bprev,           \* the links in the headers of the blocks
    allocated_count,
    cautious_mode,
    step, blk,              \* the next store of the call in progress, and its block
    torn                    \* whether a call was cut off between the two stores of a link

Blocks == ({"ele", "value"} \X Elements) \cup ({"queue"} \X Queues)

blocks == <<live, allocated, bnext, bprev, allocated_count, step, blk, torn>>
harness == <<blocks, cautious_mode>>

HarnessInit ==
    /\ live = {} /\ allocated = NULL
    /\ bnext = [b \in Blocks |-> NULL] /\ bprev = [b \in Blocks |-> NULL]
    /\ allocated_count = 0
    /\ cautious_mode = TRUE
    /\ step = "none" /\ blk = NULL
    /\ torn = FALSE

HarnessTypeOK ==
    /\ live \subseteq Blocks
    /\ allocated \in Blocks \cup {NULL}
    /\ {bnext, bprev} \subseteq [Blocks -> Blocks \cup {NULL}]
    /\ step \in {"none", "link", "list", "count", "unlink", "back", "free", "uncount"}
    /\ blk \in IF step = "none" THEN {NULL} ELSE Blocks
    /\ torn \in BOOLEAN

(* find_header's walk to b meets blocks of S only: the first is one, and   *)
(* so is what comes after any of them but b.                               *)
MeetsOnly(S, b) ==
    /\ allocated \in S \cup {NULL}
    /\ \A c \in S : c = b \/ bnext[c] \in S \cup {NULL}

WalkIsSafe(b) == \E S \in SUBSET live : MeetsOnly(S, b)

WalkFinds(b) == \A S \in SUBSET live : MeetsOnly(S, b) => b \in S

-----------------------------------------------------------------------------
(* test_malloc.  The new block's own links are stored before anything      *)
(* points to it.                                                           *)
test_malloc(b) ==
    /\ b \notin live
    /\ live' = live \cup {b}
    /\ bnext' = [bnext EXCEPT ![b] = allocated]
    /\ bprev' = [bprev EXCEPT ![b] = NULL]
    /\ blk' = b
    /\ step' = IF allocated = NULL THEN "list" ELSE "link"
    /\ UNCHANGED <<allocated, allocated_count, cautious_mode, torn>>

LinkOldFirst ==
    /\ step = "link"
    /\ bprev' = [bprev EXCEPT ![allocated] = blk]
    /\ step' = "list"
    /\ UNCHANGED <<live, allocated, bnext, allocated_count, cautious_mode, blk, torn>>

ListNew ==
    /\ step = "list"
    /\ allocated' = blk
    /\ step' = "count"
    /\ UNCHANGED <<live, bnext, bprev, allocated_count, cautious_mode, blk, torn>>

CountNew ==
    /\ step = "count"
    /\ allocated_count' = allocated_count + 1
    /\ step' = "none" /\ blk' = NULL
    /\ UNCHANGED <<live, allocated, bnext, bprev, cautious_mode, torn>>

-----------------------------------------------------------------------------
(* test_free, whose find_header walks the list in cautious mode.  What     *)
(* becomes of a walk through freed memory, or past b, is not modelled.     *)
test_free(b) ==
    /\ cautious_mode => WalkIsSafe(b) /\ WalkFinds(b)
    /\ blk' = b
    /\ step' = "unlink"
    /\ UNCHANGED <<live, allocated, bnext, bprev, allocated_count, cautious_mode, torn>>

UnlinkBlock ==
    /\ step = "unlink"
    /\ IF bprev[blk] # NULL
       THEN bnext' = [bnext EXCEPT ![bprev[blk]] = bnext[blk]] /\ UNCHANGED allocated
       ELSE allocated' = bnext[blk] /\ UNCHANGED bnext
    /\ step' = IF bnext[blk] # NULL THEN "back" ELSE "free"
    /\ UNCHANGED <<live, bprev, allocated_count, cautious_mode, blk, torn>>

(* Mutant of LinkNext: the new first block keeps its prev.                 *)
LinkNext_NotFirst ==
    /\ step = "back"
    /\ bprev' = IF bprev[blk] = NULL THEN bprev
                ELSE [bprev EXCEPT ![bnext[blk]] = bprev[blk]]
    /\ step' = "free"
    /\ UNCHANGED <<live, allocated, bnext, allocated_count, cautious_mode, blk, torn>>

LinkNext ==
    /\ step = "back"
    /\ bprev' = [bprev EXCEPT ![bnext[blk]] = bprev[blk]]
    /\ step' = "free"
    /\ UNCHANGED <<live, allocated, bnext, allocated_count, cautious_mode, blk, torn>>

(* Nobody reads the header of a freed block in the model: it is forgotten. *)
FreeBlock ==
    /\ step = "free"
    /\ live' = live \ {blk}
    /\ bnext' = [bnext EXCEPT ![blk] = NULL]
    /\ bprev' = [bprev EXCEPT ![blk] = NULL]
    /\ step' = "uncount"
    /\ UNCHANGED <<allocated, allocated_count, cautious_mode, blk, torn>>

CountFreed ==
    /\ step = "uncount"
    /\ allocated_count' = allocated_count - 1
    /\ step' = "none" /\ blk' = NULL
    /\ UNCHANGED <<live, allocated, bnext, bprev, cautious_mode, torn>>

HarnessStep ==
    \/ LinkOldFirst \/ ListNew \/ CountNew
    \/ UnlinkBlock \/ LinkNext \/ FreeBlock \/ CountFreed

(* The blocks whose headers the next store reads or writes.                *)
HeadersTouched ==
    CASE step = "link" -> {allocated}
      [] step = "unlink" -> {blk, bprev[blk]} \ {NULL}
      [] step = "back" -> {bnext[blk]}
      [] OTHER -> {}

-----------------------------------------------------------------------------
(* siglongjmp out of the call.  One of a link's two stores may be missing: *)
(* the old first block has a prev that is in no list, or the block after a *)
(* removed one still has that one for its prev.                            *)
HalfLinked == (step = "list" /\ allocated # NULL) \/ step = "back"

CutOff ==
    /\ step' = "none" /\ blk' = NULL
    /\ torn' = (torn \/ HalfLinked)
    /\ UNCHANGED <<live, allocated, bnext, bprev, allocated_count, cautious_mode>>
=============================================================================
