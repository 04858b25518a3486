------------------------------- MODULE Queue -------------------------------
(***************************************************************************)
(* The string queue (cprogramminglab-handout/queue.c), one store to memory *)
(* at a time, because the time limit of a command may cut it off between   *)
(* any two.  Its malloc and free are those of module Harness; the commands *)
(* that call it are in module QTest.                                       *)
(*                                                                         *)
(* What test_free fills a block with is NULL and Blank here.               *)
(***************************************************************************)
EXTENDS Harness

CONSTANTS Strings, Blank

ASSUME QueueAssumption ==
    /\ IsFiniteSet(Elements) /\ IsFiniteSet(Queues)    \* memory is finite
    /\ NULL \notin Elements \cup Queues \cup Blocks

VARIABLES
    next, value,                    \* the elements
    q, head, tail, size,            \* the queue
    pc, cmd,                        \* the next store; the command it is for
    str, ele, ptr, rval             \* arguments, locals and result

element == <<next, value>>
queue == <<q, head, tail, size>>

(* A step of queue.c: no call of test_malloc or test_free is in progress.  *)
Goto(from, to) == pc = from /\ pc' = to /\ step = "none"

Return(from, result) ==
    /\ Goto(from, IF cmd = "rh" THEN "cancel" ELSE "return")
    /\ rval' = result

-----------------------------------------------------------------------------
q_new ==
    \E block \in Queues :
        /\ Goto("q_new", "assign")
        /\ test_malloc(<<"queue", block>>)
        /\ ptr' = block
        /\ UNCHANGED <<element, queue, cmd, str, ele, rval>>

(* q_new's NULL leaves the command without a queue.                        *)
NewFails ==
    /\ Goto("q_new", "cancel")
    /\ UNCHANGED <<element, queue, harness, cmd, str, ele, ptr, rval>>

Assign ==
    /\ Goto("assign", "cancel")
    /\ q' = ptr
    /\ head' = NULL /\ tail' = NULL /\ size' = 0
    /\ UNCHANGED <<element, harness, cmd, str, ele, ptr, rval>>

-----------------------------------------------------------------------------
q_free ==
    /\ Goto("q_free", IF q = NULL THEN "cancel" ELSE "free next")
    /\ ptr' = head
    /\ UNCHANGED <<element, queue, harness, cmd, str, ele, rval>>

(* Mutant of FreeNext: the next element is read once this one is freed.    *)
FreeNext_TooLate ==
    /\ Goto("free next", "free value")
    /\ ptr # NULL
    /\ ele' = ptr
    /\ UNCHANGED <<element, queue, harness, cmd, str, ptr, rval>>

FreeNext ==
    /\ Goto("free next", "free value")
    /\ ptr # NULL
    /\ ele' = ptr
    /\ ptr' = next[ptr]
    /\ UNCHANGED <<element, queue, harness, cmd, str, rval>>

(* The end of q_free's loop, and of q_remove_head.                         *)
FreeValue ==
    /\ Goto("free value", "free ele")
    /\ test_free(<<"value", ele>>)
    /\ UNCHANGED <<element, queue, cmd, str, ele, ptr, rval>>

FreeEle ==
    /\ Goto("free ele", IF cmd = "rh" THEN "cancel" ELSE "free next")
    /\ test_free(<<"ele", ele>>)
    /\ next' = [next EXCEPT ![ele] = NULL]
    /\ value' = [value EXCEPT ![ele] = Blank]
    /\ rval' = (cmd = "rh")
    /\ UNCHANGED <<queue, cmd, str, ele, ptr>>

FreeQueue ==
    /\ Goto("free next", "cancel")
    /\ ptr = NULL
    /\ head' = NULL /\ tail' = NULL /\ size' = 0
    /\ test_free(<<"queue", q>>)
    /\ UNCHANGED <<element, q, cmd, str, ele, ptr, rval>>

-----------------------------------------------------------------------------
(* q_insert_head and q_insert_tail allocate the element, then its string.  *)
MallocEle ==
    \E e \in Elements :
        /\ Goto("insert", "malloc value")
        /\ q # NULL
        /\ test_malloc(<<"ele", e>>)
        /\ ele' = e
        /\ UNCHANGED <<element, queue, cmd, str, ptr, rval>>

(* There is no queue, or fail_allocation's dice fall so.                   *)
InsertFails ==
    /\ Return("insert", FALSE)
    /\ UNCHANGED <<element, queue, harness, cmd, str, ele, ptr>>

MallocValue ==
    /\ Goto("malloc value", "store")
    /\ test_malloc(<<"value", ele>>)
    /\ UNCHANGED <<element, queue, cmd, str, ele, ptr, rval>>

(* Mutant of MallocValueFails: the element is not given back.              *)
MallocValueFails_Leaks ==
    /\ Return("malloc value", FALSE)
    /\ UNCHANGED <<element, queue, harness, cmd, str, ele, ptr>>

MallocValueFails ==
    /\ Return("malloc value", FALSE)
    /\ test_free(<<"ele", ele>>)
    /\ UNCHANGED <<element, queue, cmd, str, ele, ptr>>

Store ==
    /\ Goto("store", IF cmd = "ih" THEN "link head"
                     ELSE IF size = 0 THEN "first tail" ELSE "link tail")
    /\ value' = [value EXCEPT ![ele] = str]
    /\ next' = [next EXCEPT ![ele] = IF cmd = "ih" THEN head ELSE NULL]
    /\ UNCHANGED <<queue, harness, cmd, str, ele, ptr, rval>>

(* One store of the queue's own fields.                                    *)
SetHead(from, to, e) ==
    /\ Goto(from, to)
    /\ head' = e
    /\ UNCHANGED <<element, q, tail, size, harness, cmd, str, ele, ptr, rval>>

SetTail(from, to, e) ==
    /\ Goto(from, to)
    /\ tail' = e
    /\ UNCHANGED <<element, q, head, size, harness, cmd, str, ele, ptr, rval>>

LinkHead == SetHead("link head", "grow", ele)
FirstTail == SetTail("first tail", "first head", ele)
FirstHead == SetHead("first head", "grow", tail)
MoveTail == SetTail("move tail", "grow", ele)

LinkTail ==
    /\ Goto("link tail", "move tail")
    /\ next' = [next EXCEPT ![tail] = ele]
    /\ UNCHANGED <<value, queue, harness, cmd, str, ele, ptr, rval>>

(* q_insert_head sets the tail of a queue that was empty.                  *)
Grow ==
    /\ Goto("grow", IF cmd = "ih" /\ size = 0 THEN "only tail" ELSE "return")
    /\ size' = size + 1
    /\ rval' = TRUE
    /\ UNCHANGED <<element, q, head, tail, harness, cmd, str, ele, ptr>>

OnlyTail == SetTail("only tail", "return", head)

-----------------------------------------------------------------------------
(* q_remove_head: the element is unlinked before its blocks are freed.     *)
RemoveNone ==
    /\ q = NULL \/ size = 0
    /\ Return("remove", FALSE)
    /\ UNCHANGED <<element, queue, harness, cmd, str, ele, ptr>>

q_remove_head ==
    /\ q # NULL /\ size # 0
    /\ Goto("remove", "unlink")
    /\ ele' = head
    /\ UNCHANGED <<element, queue, harness, cmd, str, ptr, rval>>

Unlink == head # NULL /\ SetHead("unlink", "shrink", next[head])

Shrink ==
    /\ Goto("shrink", IF size = 1 THEN "no head" ELSE "free value")
    /\ size' = size - 1
    /\ UNCHANGED <<element, q, head, tail, harness, cmd, str, ele, ptr, rval>>

NoHead == SetHead("no head", "no tail", NULL)
NoTail == SetTail("no tail", "free value", NULL)

-----------------------------------------------------------------------------
(* q_reverse moves the elements one by one to the front of a new list.     *)
q_reverse ==
    /\ Goto("reverse", IF q = NULL THEN "cancel" ELSE "turn tail")
    /\ ptr' = head
    /\ UNCHANGED <<element, queue, harness, cmd, str, ele, rval>>

TurnTail == SetTail("turn tail", "turn head", head)
TurnHead == SetHead("turn head", "turn", NULL)

(* Mutant of TurnNext: the rest of the list is read after it is cut off.   *)
TurnNext_TooLate ==
    /\ Goto("turn", "turned")
    /\ ptr # NULL
    /\ ele' = ptr
    /\ ptr' = head
    /\ next' = [next EXCEPT ![ptr] = head]
    /\ UNCHANGED <<value, queue, harness, cmd, str, rval>>

TurnNext ==
    /\ Goto("turn", "turned")
    /\ ptr # NULL
    /\ ele' = ptr
    /\ ptr' = next[ptr]
    /\ next' = [next EXCEPT ![ptr] = head]
    /\ UNCHANGED <<value, queue, harness, cmd, str, rval>>

Turned == SetHead("turned", "turn", ele)

TurnEnds ==
    /\ Goto("turn", "cancel")
    /\ ptr = NULL
    /\ UNCHANGED <<element, queue, harness, cmd, str, ele, ptr, rval>>

-----------------------------------------------------------------------------
(* A call of test_malloc or test_free goes on.                             *)
HarnessCall ==
    /\ HarnessStep
    /\ UNCHANGED <<element, queue, pc, cmd, str, ele, ptr, rval>>

QueueStep ==
    \/ HarnessCall
    \/ q_new \/ NewFails \/ Assign
    \/ q_free \/ FreeNext \/ FreeValue \/ FreeEle \/ FreeQueue
    \/ MallocEle \/ InsertFails \/ MallocValue \/ MallocValueFails \/ Store
    \/ LinkHead \/ FirstTail \/ FirstHead \/ LinkTail \/ MoveTail \/ Grow \/ OnlyTail
    \/ RemoveNone \/ q_remove_head \/ Unlink \/ Shrink \/ NoHead \/ NoTail
    \/ q_reverse \/ TurnTail \/ TurnHead \/ TurnNext \/ Turned \/ TurnEnds

(* The blocks that the next step of queue.c reads, writes or frees; a      *)
(* segmentation fault if one of them is NULL.                              *)
Touched ==
    CASE pc = "free next" /\ ptr # NULL -> {<<"ele", ptr>>}
      [] pc = "free next" /\ ptr = NULL -> {<<"queue", q>>}
      [] pc = "free value" -> {<<"ele", ele>>, <<"value", ele>>}
      [] pc \in {"free ele", "store"} -> {<<"ele", ele>>}
      [] pc = "malloc value" -> {<<"ele", ele>>}
      [] pc = "link tail" -> {<<"ele", tail>>}
      [] pc = "remove" /\ q # NULL /\ size # 0 -> {<<"ele", head>>, <<"value", head>>}
      [] pc = "unlink" -> {<<"ele", head>>}
      [] pc = "turn" /\ ptr # NULL -> {<<"ele", ptr>>}
      [] pc = "return" /\ rval -> {<<"ele", head>>}
      [] OTHER -> {}

Segfault == \E block \in Touched : block[2] = NULL
=============================================================================
